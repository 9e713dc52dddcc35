------------------------------ MODULE LlmCall ------------------------------
(***************************************************************************)
(* One model request of a client that is bound to a session's ledger       *)
(* (integrations/llm.py): every physical attempt reserves before it is     *)
(* sent and is closed by what its end tells of the use, and the loop over  *)
(* API modes and attempts decides from the same end whether to send again. *)
(*                                                                         *)
(* The ledger is the one of BudgetLedger, seen by this owner: the purposes *)
(* that have a settled entry, whether an entry is open, and the entries    *)
(* whose use is unknown: with its reservation kept ("retained") or with no *)
(* bound at all ("unbounded").                                             *)
(***************************************************************************)
EXTENDS Naturals, Sequences

CONSTANTS
  Purposes,         \* labels of the requests
  Clients,          \* connections: [capped, stream, limited, modes]
  RetryAttempts,    \* retry_attempts
  ConnectAttempts,  \* connect_retry_attempts
  None

ASSUME AttemptsAssumption ==
  /\ RetryAttempts \in Nat \ {0}
  /\ ConnectAttempts \in Nat \ {0}

ASSUME ClientsAssumption ==
  Clients \subseteq [capped : BOOLEAN, stream : BOOLEAN, limited : BOOLEAN,
                    modes : Seq({"responses", "chat"}) \ {<<>>}]

VARIABLES
  client,   \* the connection
  ledger,   \* the entries of this attempt
  call,     \* the request in progress
  exposed   \* history: a use without any bound may have happened

callVars == <<client, ledger, call, exposed>>

(* How a physical attempt ends.                                            *)
Uncertain == {"disconnected", "timeout", "deadline"}
Transient == Uncertain \cup {"not_dispatched", "overloaded"}
Answers == {"answered", "malformed", "unaccounted"}
Ends == Answers \cup Transient \cup {"rejected", "format_rejected", "unclassified"}

ASSUME NoneAssumption == None \notin Ends \cup Purposes

Idle == [purpose |-> None, state |-> "idle", mode |-> 1, attempt |-> 1, plain |-> FALSE, end |-> None]

CallInit ==
  /\ client \in Clients
  /\ ledger = [reserved |-> None, settled |-> {}, doubts |-> {}]
  /\ call = Idle
  /\ exposed = FALSE

Ask(p) ==
  /\ call.state = "idle"
  /\ call' = [Idle EXCEPT !.purpose = p, !.state = "reserving"]
  /\ UNCHANGED <<client, ledger, exposed>>

\* The ledger admits nothing in a limited dimension of unbounded use.
Admitted == ~(client.limited /\ "unbounded" \in ledger.doubts)

\* _reserve_budget.
Reserve ==
  /\ call.state = "reserving"
  /\ Admitted
  /\ ledger' = [ledger EXCEPT !.reserved = call.purpose]
  /\ call' = [call EXCEPT !.state = "sent"]
  /\ UNCHANGED <<client, exposed>>

\* The ledger refuses: this use has no bound, or the allowance is spent.
ReserveRefused ==
  /\ call.state = "reserving"
  /\ call' = [call EXCEPT !.state = "failed"]
  /\ UNCHANGED <<client, ledger, exposed>>

\* The provider, the transport or the deadline ends the attempt.
Ended(e) ==
  /\ call.state = "sent"
  /\ call' = [call EXCEPT !.state = "closing", !.end = e]
  /\ exposed' = (exposed \/ (~client.capped /\ e \in Uncertain \cup {"unclassified", "unaccounted"}))
  /\ UNCHANGED <<client, ledger>>

\* Fault: a bound is recorded that was never requested.
DoubtBounded == "retained"

\* What a use nobody reported leaves in the ledger.
Doubt == IF client.capped THEN "retained" ELSE "unbounded"

Closed(e) ==
  CASE e \in {"answered", "malformed", "not_dispatched", "overloaded"} ->
         [ledger EXCEPT !.reserved = None, !.settled = @ \cup {call.purpose}]
    [] e = "unaccounted" -> [ledger EXCEPT !.reserved = None, !.doubts = @ \cup {"unbounded"}]
    [] e \in Uncertain \cup {"unclassified"} -> [ledger EXCEPT !.reserved = None, !.doubts = @ \cup {Doubt}]
    [] OTHER -> [ledger EXCEPT !.reserved = None]

Mode == client.modes[call.mode]
AttemptLimit(e) == IF e = "not_dispatched" /\ ConnectAttempts > RetryAttempts THEN ConnectAttempts ELSE RetryAttempts

\* No replay of a use that has no bound.
Unrepeatable(e) ==
  ~client.capped /\ (e = "deadline" \/ (client.stream /\ Mode = "chat" /\ e \in Uncertain))

SendsAgain(e) ==
  /\ e \in Transient /\ ~Unrepeatable(e)
  /\ call.attempt < AttemptLimit(e)
  /\ ~(Len(client.modes) > 1 /\ Mode = "responses" /\ e = "disconnected")

\* The next API mode, never after a deadline.
SwitchesMode(e) ==
  /\ e \in Transient \ {"deadline"} /\ ~Unrepeatable(e) /\ ~SendsAgain(e)
  /\ call.mode < Len(client.modes)

\* _reconcile_failed_budget_attempt or _settle_budget, and then the loop.
Close ==
  LET e == call.end IN
  /\ call.state = "closing"
  /\ ledger' = Closed(e)
  /\ call' =
       IF e = "answered" THEN [call EXCEPT !.state = "answered"]
       ELSE IF SendsAgain(e) THEN [call EXCEPT !.state = "reserving", !.attempt = @ + 1]
       ELSE IF SwitchesMode(e) THEN [call EXCEPT !.state = "reserving", !.attempt = 1, !.mode = @ + 1]
       ELSE IF e = "format_rejected" /\ ~call.plain
            THEN [call EXCEPT !.state = "reserving", !.attempt = 1, !.mode = 1, !.plain = TRUE]
       ELSE [call EXCEPT !.state = "failed"]
  /\ UNCHANGED <<client, exposed>>

CallNext == Reserve \/ ReserveRefused \/ Close \/ \E e \in Ends : Ended(e)

\* The caller has taken the answer or the failure, or its process is gone.
Dropped == call' = Idle /\ UNCHANGED <<client, ledger, exposed>>

\* A KeyboardInterrupt inside the provider call.
Cancelled ==
  /\ call.state = "sent"
  /\ ledger' = [ledger EXCEPT !.reserved = None, !.doubts = @ \cup {"unbounded"}]
  /\ call' = Idle
  /\ exposed' = (exposed \/ ~client.capped)
  /\ UNCHANGED client

LedgerType == [reserved : Purposes \cup {None}, settled : SUBSET Purposes, doubts : SUBSET {"retained", "unbounded"}]

CallType == [purpose : Purposes \cup {None},
             state : {"idle", "reserving", "sent", "closing", "answered", "failed"},
             mode : Nat \ {0}, attempt : Nat \ {0}, plain : BOOLEAN, end : Ends \cup {None}]

CallTypeOK ==
  /\ client \in Clients /\ exposed \in BOOLEAN
  /\ ledger \in LedgerType /\ call \in CallType
  /\ call.mode <= Len(client.modes)
  /\ call.attempt <= RetryAttempts \/ call.attempt <= ConnectAttempts
  /\ call.state \in {"sent", "closing"} => ledger.reserved = call.purpose

\* No request leaves while an earlier use of a limited ledger has no bound:
\* what the comments "Unbounded uncertain charges cannot justify automatic
\* replay" and "Uncapped/visual charges cannot be bounded" are about, over all
\* modes, retries, requests and resumed calls.
NothingSentUncovered ==
  [][call.state = "reserving" /\ call'.state = "sent" => ~(client.limited /\ exposed)]_callVars
=============================================================================
