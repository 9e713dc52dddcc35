-------------------------- MODULE BudgetAllowance --------------------------
(***************************************************************************)
(* What core/budget.py promises about each resource dimension, without the *)
(* reservations that produce it: an amount already spent, an amount held   *)
(* for calls in flight, and whether some earlier use could not be          *)
(* measured.  BudgetLedger implements this specification.                  *)
(***************************************************************************)
EXTENDS Integers

CONSTANTS Dims,      \* resource dimensions: llm_requests, total_tokens, ...
          NoLimit    \* the cap of a dimension that is tracked, not limited

VARIABLES cap,       \* the allowance in force
          spent,     \* use counted against it
          held,      \* amounts withheld for unfinished calls
          unclear,   \* TRUE: some use under this allowance is not known
          overrun    \* TRUE: some call used more than it had reserved

vars == <<cap, spent, held, unclear, overrun>>

TypeOK ==
  /\ cap \in [Dims -> Nat \cup {NoLimit}]
  /\ spent \in [Dims -> Nat]
  /\ held \in [Dims -> Nat]
  /\ unclear \in [Dims -> BOOLEAN]
  /\ overrun \in [Dims -> BOOLEAN]

Init ==
  /\ cap \in [Dims -> Nat \cup {NoLimit}]
  /\ spent = [d \in Dims |-> 0]
  /\ held = [d \in Dims |-> 0]
  /\ unclear = [d \in Dims |-> FALSE]
  /\ overrun = [d \in Dims |-> FALSE]

----------------------------------------------------------------------------
(* What one step may do to dimension d.  A call names several dimensions,  *)
(* so every dimension takes a step of its own at once.                      *)

Idle(d) ==
  /\ cap'[d] = cap[d]
  /\ spent'[d] = spent[d]
  /\ held'[d] = held[d]
  /\ unclear'[d] = unclear[d]
  /\ overrun'[d] = overrun[d]

\* A call is admitted: it fits what is left, and nothing is unaccounted for.
Hold(d) ==
  /\ held'[d] >= held[d]
  /\ cap[d] # NoLimit =>
       /\ ~unclear[d]
       /\ held'[d] > held[d] => spent[d] + held'[d] <= cap[d]
  /\ cap'[d] = cap[d]
  /\ spent'[d] = spent[d]
  /\ unclear'[d] = unclear[d]
  /\ overrun'[d] = overrun[d]

\* A call ends: part of what was held is given back, part of it is spent.
Resolve(d) ==
  /\ held'[d] <= held[d]
  /\ spent'[d] >= spent[d]
  /\ overrun'[d] = (overrun[d] \/ spent'[d] - spent[d] > held[d] - held'[d])
  /\ cap'[d] = cap[d]
  /\ unclear'[d] = unclear[d]

\* A call ends and its use is not known.
Lose(d) ==
  /\ held'[d] <= held[d]
  /\ unclear'[d]
  /\ cap'[d] = cap[d]
  /\ spent'[d] = spent[d]
  /\ overrun'[d] = overrun[d]

\* The user grants a new allowance; earlier use no longer counts against it.
Renew(d) ==
  /\ cap'[d] \in Nat \ {0}
  /\ spent'[d] = 0
  /\ held'[d] = 0
  /\ ~unclear'[d]
  /\ ~overrun'[d]

DimStep(d) == Idle(d) \/ Hold(d) \/ Resolve(d) \/ Lose(d) \/ Renew(d)

Next ==
  /\ spent' \in [Dims -> Nat]
  /\ held' \in [Dims -> Nat]
  /\ cap' \in [Dims -> Nat \cup {NoLimit}]
  /\ unclear' \in [Dims -> BOOLEAN]
  /\ overrun' \in [Dims -> BOOLEAN]
  /\ \A d \in Dims : DimStep(d)

Spec == Init /\ [][Next]_vars

----------------------------------------------------------------------------
\* Spent and held together stay within a finite allowance, unless a call
\* used more than it had reserved (settle accepts a measured overage).
WithinAllowance ==
  \A d \in Dims : cap[d] # NoLimit /\ ~overrun[d] => spent[d] + held[d] <= cap[d]

\* While some use under a finite allowance is unknown, nothing more is
\* admitted there: only a new allowance clears the doubt.
UnknownHoldsBack ==
  [][\A d \in Dims : cap[d] # NoLimit /\ unclear[d] /\ unclear'[d] => held'[d] <= held[d]]_vars
============================================================================
