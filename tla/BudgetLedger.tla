---------------------------- MODULE BudgetLedger ----------------------------
(***************************************************************************)
(* The resource ledger of core/budget.py: reservations made before a call, *)
(* settled, released or marked unknown after it, and allowances the user   *)
(* grants later.  The ledger lives in memory; every mutation rewrites its  *)
(* file, under one lock, so a mutation and its write are one action.  The  *)
(* write may fail after the memory changed, and the process may stop and   *)
(* load the file again.                                                    *)
(***************************************************************************)
EXTENDS Integers, Sequences, FiniteSetsExt

CONSTANTS Dims,           \* resource dimensions
          Ids,            \* reservation and authorization ids (one name space)
          Scopes,         \* protect_remaining scopes that may be open at once
          NoLimit,        \* the None of a dimension tracked but not limited
          InitialLimits,  \* limits the ledger is created with
          Requests,       \* amounts callers reserve
          Actuals,        \* measured use callers settle with, or know of
          Floors,         \* amounts callers protect
          Grants,         \* allowances users authorize
          WritesFail      \* TRUE: write_json may raise

Get(amounts, d) == IF d \in DOMAIN amounts THEN amounts[d] ELSE 0

\* dict[str, BudgetNumber]: a number for some of the dimensions.
IsAmounts(a) == DOMAIN a \subseteq Dims /\ \A d \in DOMAIN a : a[d] \in Nat

ASSUME LedgerAssumption ==
  /\ NoLimit \notin Nat
  /\ DOMAIN InitialLimits \subseteq Dims
  /\ \A d \in DOMAIN InitialLimits : InitialLimits[d] \in Nat \cup {NoLimit}
  /\ \A a \in Requests \cup Actuals \cup Floors \cup Grants : IsAmounts(a)
  /\ \A a \in Requests \cup Grants : DOMAIN a # {}
  /\ \A a \in Grants : \A d \in DOMAIN a : a[d] > 0
  /\ WritesFail \in BOOLEAN

VARIABLES mem,      \* the BudgetLedger object: limits, entries, their order
          disk,     \* the ledger file
          floors    \* _remaining_protections: open scope -> amounts

vars == <<mem, disk, floors>>

Statuses == {"reserved", "settled", "released", "unknown"}
Sources == {"none", "measured", "reservation_bound", "user_authorization"}

IsEntry(e) ==
  /\ e.status \in Statuses
  /\ e.source \in Sources
  /\ IsAmounts(e.reserved)
  /\ IsAmounts(e.actual)

\* entries is a dict in insertion order: a function and the order of its keys.
IsLedger(l) ==
  /\ DOMAIN l.limits \subseteq Dims
  /\ \A d \in DOMAIN l.limits : l.limits[d] \in Nat \cup {NoLimit}
  /\ DOMAIN l.entries \subseteq Ids
  /\ \A i \in DOMAIN l.entries : IsEntry(l.entries[i])
  /\ l.order \in Seq(Ids)
  /\ DOMAIN l.entries = {l.order[k] : k \in DOMAIN l.order}
  /\ \A j, k \in DOMAIN l.order : l.order[j] = l.order[k] => j = k

TypeOK ==
  /\ IsLedger(mem)
  /\ IsLedger(disk)
  /\ DOMAIN floors \subseteq Scopes
  /\ \A t \in DOMAIN floors : IsAmounts(floors[t])

----------------------------------------------------------------------------
(* Reading the ledger                                                       *)

IsGrant(e) == e.source = "user_authorization"

\* _allowance_entries: what was reserved after the latest grant of d.
AllowanceIds(l, d) ==
  LET opened == {k \in DOMAIN l.order :
                   LET e == l.entries[l.order[k]] IN IsGrant(e) /\ d \in DOMAIN e.reserved}
  IN {l.order[k] : k \in {n \in DOMAIN l.order : \A m \in opened : m < n}}

\* An unknown use of d that not even the reservation bounds.
LostTrack(e, d) ==
  /\ e.status = "unknown"
  /\ d \in DOMAIN e.reserved \ DOMAIN e.actual
  /\ e.source # "reservation_bound"

HasUnknown(l, d) == \E i \in AllowanceIds(l, d) : LostTrack(l.entries[i], d)

Committed(l, d) ==
  MapThenSumSet(LAMBDA i : Get(l.entries[i].actual, d),
                {i \in AllowanceIds(l, d) : l.entries[i].status \in {"settled", "unknown"}})

\* Still withheld: in flight, or unknown and kept at its reservation.
Withheld(e, d) ==
  \/ e.status = "reserved"
  \/ (e.status = "unknown") /\ d \notin DOMAIN e.actual /\ e.source = "reservation_bound"

Reserved(l, d) ==
  MapThenSumSet(LAMBDA i : Get(l.entries[i].reserved, d),
                {i \in AllowanceIds(l, d) : Withheld(l.entries[i], d)})

RemainingFloor(d) == Max({0} \cup {Get(floors[t], d) : t \in DOMAIN floors})

Limit(l, d) == IF d \in DOMAIN l.limits THEN l.limits[d] ELSE NoLimit

Available(l, d) == Limit(l, d) - Committed(l, d) - Reserved(l, d)

\* Fault: room is computed from what was settled, forgetting calls in flight.
CheckAvailableIgnoresInFlight(l, d, amount) ==
  Limit(l, d) # NoLimit =>
    /\ ~HasUnknown(l, d)
    /\ amount > 0 => amount <= Limit(l, d) - Committed(l, d) - RemainingFloor(d)

\* Fault: an unknown earlier use does not stop the next reservation.
CheckAvailableIgnoresUnknown(l, d, amount) ==
  Limit(l, d) # NoLimit =>
    (amount > 0 => amount <= Available(l, d) - RemainingFloor(d))

\* Fault: protected capacity is handed out.
CheckAvailableIgnoresFloor(l, d, amount) ==
  Limit(l, d) # NoLimit =>
    /\ ~HasUnknown(l, d)
    /\ amount > 0 => amount <= Available(l, d)

CheckAvailable(l, d, amount) ==
  Limit(l, d) # NoLimit =>
    /\ ~HasUnknown(l, d)
    /\ amount > 0 => amount <= Available(l, d) - RemainingFloor(d)

----------------------------------------------------------------------------
(* Mutations                                                                *)

\* The object changes first, then _persist_unlocked rewrites the file.
Persist(l) ==
  /\ mem' = l
  /\ (disk' = l) \/ (WritesFail /\ disk' = disk)

Put(l, i, e) ==
  [l EXCEPT !.entries = [j \in DOMAIN l.entries \cup {i} |->
                           IF j = i THEN e ELSE l.entries[j]],
            !.order = IF i \in DOMAIN l.entries THEN @ ELSE Append(@, i)]

NoAmounts == [d \in {} |-> 0]

NewEntry(amounts) ==
  [reserved |-> amounts, actual |-> NoAmounts, status |-> "reserved", source |-> "none"]

\* reserve() of a new id: every dimension is checked before anything changes.
\* For a known id with the same amounts it returns what is there.
Reserve(i, amounts) ==
  /\ i \notin DOMAIN mem.entries
  /\ \A d \in DOMAIN amounts : CheckAvailable(mem, d, amounts[d])
  /\ Persist(Put(mem, i, NewEntry(amounts)))
  /\ UNCHANGED floors

\* Fault: settle() does not ask whether the entry is still open.
CanSettleAnyStatus(i, actual) ==
  /\ i \in DOMAIN mem.entries
  /\ DOMAIN mem.entries[i].reserved \subseteq DOMAIN actual

CanSettle(i, actual) ==
  /\ i \in DOMAIN mem.entries
  /\ mem.entries[i].status = "reserved"
  /\ DOMAIN mem.entries[i].reserved \subseteq DOMAIN actual

Settle(i, actual) ==
  /\ CanSettle(i, actual)
  /\ Persist(Put(mem, i, [mem.entries[i] EXCEPT !.actual = actual,
                                               !.status = "settled",
                                               !.source = "measured"]))
  /\ UNCHANGED floors

Release(i) ==
  /\ i \in DOMAIN mem.entries
  /\ mem.entries[i].status = "reserved"
  /\ Persist(Put(mem, i, [mem.entries[i] EXCEPT !.status = "released"]))
  /\ UNCHANGED floors

MarkUnknown(i, known, retain) ==
  /\ i \in DOMAIN mem.entries
  /\ mem.entries[i].status = "reserved"
  /\ Persist(Put(mem, i, [mem.entries[i] EXCEPT
                            !.actual = known,
                            !.status = "unknown",
                            !.source = IF retain THEN "reservation_bound" ELSE "none"]))
  /\ UNCHANGED floors

\* Fault: a new allowance is opened over calls still in flight.
CanAuthorizeOverInFlight(i, grant) ==
  /\ DOMAIN grant \subseteq DOMAIN mem.limits
  /\ i \notin DOMAIN mem.entries

\* _check_remaining_authorization for a new authorization id.
CanAuthorize(i, grant) ==
  /\ DOMAIN grant \subseteq DOMAIN mem.limits
  /\ i \notin DOMAIN mem.entries
  /\ \A j \in DOMAIN mem.entries :
       mem.entries[j].status = "reserved" => DOMAIN grant \cap DOMAIN mem.entries[j].reserved = {}

AuthorizeRemaining(i, grant) ==
  /\ CanAuthorize(i, grant)
  /\ LET opened == Put(mem, i, [NewEntry(grant) EXCEPT !.status = "released",
                                                        !.source = "user_authorization"])
     IN Persist([opened EXCEPT !.limits = [d \in DOMAIN @ |->
                                 IF d \in DOMAIN grant THEN grant[d] ELSE @[d]]])
  /\ UNCHANGED floors

\* protect_remaining: enter and leave a scope.
OpenFloor(t, amounts) ==
  /\ t \notin DOMAIN floors
  /\ floors' = [u \in DOMAIN floors \cup {t} |-> IF u = t THEN amounts ELSE floors[u]]
  /\ UNCHANGED <<mem, disk>>

CloseFloor(t) ==
  /\ t \in DOMAIN floors
  /\ floors' = [u \in DOMAIN floors \ {t} |-> floors[u]]
  /\ UNCHANGED <<mem, disk>>

\* save(): write the object as it is.
Save ==
  /\ disk' = mem
  /\ UNCHANGED <<mem, floors>>

\* The process stops; the next one loads the file.
Restart ==
  /\ mem' = disk
  /\ floors' = [t \in {} |-> NoAmounts]
  /\ UNCHANGED disk

----------------------------------------------------------------------------
EmptyLedger ==
  [limits |-> InitialLimits, entries |-> [i \in {} |-> NewEntry(NoAmounts)], order |-> <<>>]

Init ==
  /\ mem = EmptyLedger
  /\ disk = EmptyLedger
  /\ floors = [t \in {} |-> NoAmounts]

Next ==
  \/ \E i \in Ids, a \in Requests : Reserve(i, a)
  \/ \E i \in Ids, a \in Actuals : Settle(i, a)
  \/ \E i \in Ids : Release(i)
  \/ \E i \in Ids, a \in Actuals, retain \in BOOLEAN : MarkUnknown(i, a, retain)
  \/ \E i \in Ids, g \in Grants : AuthorizeRemaining(i, g)
  \/ \E t \in Scopes, a \in Floors : OpenFloor(t, a)
  \/ \E t \in Scopes : CloseFloor(t)
  \/ Save
  \/ Restart

Spec == Init /\ [][Next]_vars

----------------------------------------------------------------------------
(* Properties                                                               *)

\* A call in flight is counted by the allowance in force in each of its
\* dimensions: no later grant opens a new allowance over it and lets its
\* use go uncounted (core/budget.py:379-383 with 386-392).
InFlightIsCounted ==
  \A l \in {mem, disk} : \A i \in DOMAIN l.entries :
    l.entries[i].status = "reserved" =>
      \A d \in DOMAIN l.entries[i].reserved : i \in AllowanceIds(l, d)

\* The file never runs ahead of the object, and what it says of a finished
\* call is what the object says: a failed write loses recent facts only.
FileFollowsMemory ==
  \A i \in DOMAIN disk.entries :
    /\ i \in DOMAIN mem.entries
    /\ mem.entries[i].reserved = disk.entries[i].reserved
    /\ disk.entries[i].status # "reserved" => mem.entries[i] = disk.entries[i]

\* The record of a finished call, once in the file, is never rewritten, by
\* this process or by the ones that load the file after it.
FinishedStays ==
  [][\A i \in DOMAIN disk.entries :
       disk.entries[i].status # "reserved" =>
         i \in DOMAIN disk'.entries /\ disk'.entries[i] = disk.entries[i]]_vars

\* Capacity a scope protects is given to no new reservation: while scopes
\* are open, what is available falls below their floor only because a call
\* used more than it had reserved.
FloorSurvives ==
  [][\A d \in Dims :
       /\ Limit(mem, d) # NoLimit
       /\ floors' = floors /\ Limit(mem', d) = Limit(mem, d)
       /\ RemainingFloor(d) > 0 /\ Available(mem, d) >= RemainingFloor(d)
       /\ Available(mem', d) < RemainingFloor(d)
       => \E i \in AllowanceIds(mem, d) :
            /\ mem.entries[i].status = "reserved"
            /\ mem'.entries[i].status \in {"settled", "unknown"}
            /\ Get(mem'.entries[i].actual, d) > Get(mem.entries[i].reserved, d)]_vars

\* Some call under the allowance in force used more than it had reserved.
Overran(l, d) ==
  \E i \in AllowanceIds(l, d) :
    /\ l.entries[i].status \in {"settled", "unknown"}
    /\ Get(l.entries[i].actual, d) > Get(l.entries[i].reserved, d)

Allowance ==
  INSTANCE BudgetAllowance WITH
    cap <- [d \in Dims |-> Limit(mem, d)],
    spent <- [d \in Dims |-> Committed(mem, d)],
    held <- [d \in Dims |-> Reserved(mem, d)],
    unclear <- [d \in Dims |-> HasUnknown(mem, d)],
    overrun <- [d \in Dims |-> Overran(mem, d)]

\* The ledger keeps the promise of BudgetAllowance.
ImplementsAllowance == Allowance!Spec

\* Spent and held amounts stay within the allowance in force, in the object
\* and in every file a later process may load.
WithinAllowance ==
  \A l \in {mem, disk} : \A d \in Dims :
    Limit(l, d) # NoLimit /\ ~Overran(l, d) => Available(l, d) >= 0
=============================================================================
