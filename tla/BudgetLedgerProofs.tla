------------------------- MODULE BudgetLedgerProofs -------------------------
(***************************************************************************)
(* The ledger and its file, for every set of ids, amounts, scopes and      *)
(* grants, whether or not a write may fail; then the terms of a task, of   *)
(* which the ledger's grants are one of three records (TaskTerms).         *)
(***************************************************************************)
EXTENDS BudgetLedger, TaskTerms, SequenceTheorems, FiniteSetTheorems, WellFoundedInduction, TLAPS

----------------------------------------------------------------------------
(* One ledger.  A mutation puts one entry; what the mutations below share   *)
(* is shown of Put.                                                         *)

\* A ledger is the record BudgetLedger's operators build.
Shaped(l) ==
  /\ l = [limits |-> l.limits, entries |-> l.entries, order |-> l.order]
  /\ \A i \in DOMAIN l.entries :
       l.entries[i] = [reserved |-> l.entries[i].reserved, actual |-> l.entries[i].actual,
                       status |-> l.entries[i].status, source |-> l.entries[i].source]

\* A grant's own entry was never in flight.
GrantsClosed(l) == \A i \in DOMAIN l.entries : IsGrant(l.entries[i]) => l.entries[i].status = "released"

\* A reservation in flight comes after every grant of its dimensions.
InFlightIsLate(l) ==
  \A k, m \in DOMAIN l.order :
    LET e == l.entries[l.order[k]]
        g == l.entries[l.order[m]]
    IN e.status = "reserved" /\ IsGrant(g) /\ DOMAIN e.reserved \cap DOMAIN g.reserved # {} => m < k

Sound(l) == IsLedger(l) /\ Shaped(l) /\ GrantsClosed(l) /\ InFlightIsLate(l)

\* The parts of a ledger after a Put.
LEMMA PutParts ==
  ASSUME NEW l, Sound(l), NEW i \in Ids, NEW e
  PROVE  /\ Put(l, i, e).limits = l.limits
         /\ Put(l, i, e).entries = [j \in DOMAIN l.entries \cup {i} |-> IF j = i THEN e ELSE l.entries[j]]
         /\ Put(l, i, e).order = IF i \in DOMAIN l.entries THEN l.order ELSE Append(l.order, i)
         /\ Put(l, i, e) = [limits |-> Put(l, i, e).limits, entries |-> Put(l, i, e).entries, order |-> Put(l, i, e).order]
<1> DEFINE entries == [j \in DOMAIN l.entries \cup {i} |-> IF j = i THEN e ELSE l.entries[j]]
           order == IF i \in DOMAIN l.entries THEN l.order ELSE Append(l.order, i)
<1>1. l = [limits |-> l.limits, entries |-> l.entries, order |-> l.order]
  BY DEF Sound, Shaped
<1>2. Put(l, i, e) = [l EXCEPT !.entries = entries, !.order = order]
  BY DEF Put
<1> HIDE DEF entries, order
<1>3. Put(l, i, e) = [limits |-> l.limits, entries |-> entries, order |-> order]
  BY <1>1, <1>2
<1>4. /\ Put(l, i, e).limits = l.limits /\ Put(l, i, e).entries = entries /\ Put(l, i, e).order = order
  BY <1>3
<1> QED
  BY <1>3, <1>4 DEF entries, order

\* The order lists every entry once, also with one appended.
Ordered(l, i, order) ==
  /\ order \in Seq(Ids)
  /\ DOMAIN l.entries \cup {i} = {order[k] : k \in DOMAIN order}
  /\ \A j, k \in DOMAIN order : order[j] = order[k] => j = k
  /\ DOMAIN l.order \subseteq DOMAIN order
  /\ \A k \in DOMAIN l.order : order[k] = l.order[k]
  /\ \A k \in DOMAIN order \ DOMAIN l.order : order[k] = i /\ i \notin DOMAIN l.entries
  /\ \A k \in DOMAIN order \ DOMAIN l.order : \A m \in DOMAIN l.order : m < k

LEMMA PutOrder ==
  ASSUME NEW l, IsLedger(l), NEW i \in Ids,
         NEW order, order = (IF i \in DOMAIN l.entries THEN l.order ELSE Append(l.order, i))
  PROVE  Ordered(l, i, order)
<1>1. l.order \in Seq(Ids) /\ Len(l.order) \in Nat /\ DOMAIN l.order = 1..Len(l.order)
  BY LenProperties DEF IsLedger
<1>2. CASE i \in DOMAIN l.entries
  BY <1>1, <1>2 DEF IsLedger, Ordered
<1>3. CASE i \notin DOMAIN l.entries
  <2> DEFINE n == Len(l.order)
  <2>1. /\ order \in Seq(Ids) /\ Len(order) = n + 1 /\ DOMAIN order = 1..(n + 1)
        /\ \A k \in 1..n : order[k] = l.order[k]
        /\ order[n + 1] = i
    BY <1>1, <1>3, AppendProperties, LenProperties
  <2>2. \A k \in 1..n : l.order[k] \in DOMAIN l.entries
    BY <1>1 DEF IsLedger
  <2>3. \A x \in DOMAIN l.entries : \E k \in 1..n : x = l.order[k]
    BY <1>1 DEF IsLedger
  <2>4. \A j, k \in 1..n : l.order[j] = l.order[k] => j = k
    BY <1>1 DEF IsLedger
  <2>5. 1..(n + 1) = 1..n \cup {n + 1} /\ n \in Nat
    BY <1>1
  <2> HIDE DEF n
  <2>6. DOMAIN l.entries \cup {i} = {order[k] : k \in DOMAIN order}
    <3>1. \A k \in DOMAIN order : order[k] \in DOMAIN l.entries \cup {i}
      BY <2>1, <2>2, <2>5
    <3>2. \A x \in DOMAIN l.entries : \E k \in DOMAIN order : x = order[k]
      <4> SUFFICES ASSUME NEW x \in DOMAIN l.entries PROVE \E k \in DOMAIN order : x = order[k]
        OBVIOUS
      <4>1. PICK k \in 1..n : x = l.order[k]
        BY <2>3
      <4> QED
        BY <2>1, <2>5, <4>1
    <3>3. \E k \in DOMAIN order : i = order[k]
      BY <2>1, <2>5
    <3> QED
      BY <3>1, <3>2, <3>3
  <2>7. \A j, k \in DOMAIN order : order[j] = order[k] => j = k
    BY <1>3, <2>1, <2>2, <2>4, <2>5
  <2>8. DOMAIN l.order = 1..n
    BY <1>1 DEF n
  <2>9. \A k \in DOMAIN order \ DOMAIN l.order : k = n + 1
    BY <2>1, <2>5, <2>8
  <2>10. \A m \in DOMAIN l.order : m < n + 1
    BY <2>5, <2>8
  <2>11. /\ DOMAIN l.order \subseteq DOMAIN order
         /\ \A k \in DOMAIN l.order : order[k] = l.order[k]
    BY <2>1, <2>5, <2>8
  <2>12. /\ \A k \in DOMAIN order \ DOMAIN l.order : order[k] = i /\ i \notin DOMAIN l.entries
         /\ \A k \in DOMAIN order \ DOMAIN l.order : \A m \in DOMAIN l.order : m < k
    BY <1>3, <2>1, <2>9, <2>10
  <2> QED
    BY <2>1, <2>6, <2>7, <2>11, <2>12 DEF Ordered
<1> QED
  BY <1>2, <1>3

\* What a mutation may put: a new entry, or a closed one in its place, and a
\* grant only over dimensions nothing in flight has reserved.
Fitting(l, i, e) ==
  /\ IsEntry(e)
  /\ e = [reserved |-> e.reserved, actual |-> e.actual, status |-> e.status, source |-> e.source]
  /\ i \in DOMAIN l.entries =>
       l.entries[i].status = "reserved" /\ e.status # "reserved" /\ ~IsGrant(e)
  /\ IsGrant(e) =>
       /\ e.status = "released"
       /\ \A j \in DOMAIN l.entries :
            l.entries[j].status = "reserved" => DOMAIN e.reserved \cap DOMAIN l.entries[j].reserved = {}

LEMMA PutSound ==
  ASSUME NEW l, Sound(l), NEW i \in Ids, NEW e, Fitting(l, i, e)
  PROVE  Sound(Put(l, i, e))
<1> DEFINE m == Put(l, i, e)
<1>0. /\ m.limits = l.limits
      /\ m.entries = [j \in DOMAIN l.entries \cup {i} |-> IF j = i THEN e ELSE l.entries[j]]
      /\ m.order = (IF i \in DOMAIN l.entries THEN l.order ELSE Append(l.order, i))
      /\ m = [limits |-> m.limits, entries |-> m.entries, order |-> m.order]
  BY PutParts
<1>o. /\ m.order \in Seq(Ids)
      /\ DOMAIN l.entries \cup {i} = {m.order[k] : k \in DOMAIN m.order}
      /\ \A j, k \in DOMAIN m.order : m.order[j] = m.order[k] => j = k
      /\ DOMAIN l.order \subseteq DOMAIN m.order
      /\ \A k \in DOMAIN l.order : m.order[k] = l.order[k]
      /\ \A k \in DOMAIN m.order \ DOMAIN l.order : m.order[k] = i /\ i \notin DOMAIN l.entries
      /\ \A k \in DOMAIN m.order \ DOMAIN l.order : \A n \in DOMAIN l.order : n < k
  <2> HIDE DEF m
  <2>1. IsLedger(l)
    BY DEF Sound
  <2>2. Ordered(l, i, m.order)
    BY <1>0, <2>1, PutOrder
  <2> QED
    BY <2>2 DEF Ordered
<1> HIDE DEF m
<1>e. /\ DOMAIN m.entries = DOMAIN l.entries \cup {i} /\ m.entries[i] = e
      /\ \A j \in DOMAIN l.entries : j # i => m.entries[j] = l.entries[j]
  BY <1>0
<1>1. IsLedger(m)
  <2>1. /\ DOMAIN m.limits \subseteq Dims
        /\ \A d \in DOMAIN m.limits : m.limits[d] \in Nat \cup {NoLimit}
    BY <1>0 DEF Sound, IsLedger
  <2>2. DOMAIN m.entries \subseteq Ids /\ \A j \in DOMAIN m.entries : IsEntry(m.entries[j])
    BY <1>e DEF Sound, IsLedger, Fitting
  <2> QED
    BY <1>o, <1>e, <2>1, <2>2 DEF IsLedger
<1>2. Shaped(m)
  <2>3. \A j \in DOMAIN m.entries :
          m.entries[j] = [reserved |-> m.entries[j].reserved, actual |-> m.entries[j].actual,
                          status |-> m.entries[j].status, source |-> m.entries[j].source]
    BY <1>e DEF Sound, Shaped, Fitting
  <2> QED
    BY <1>0, <2>3 DEF Shaped
<1>3. GrantsClosed(m)
  BY <1>e DEF Sound, GrantsClosed, Fitting
<1>4. InFlightIsLate(m)
  <2> SUFFICES ASSUME NEW k \in DOMAIN m.order, NEW n \in DOMAIN m.order,
                      m.entries[m.order[k]].status = "reserved", IsGrant(m.entries[m.order[n]]),
                      DOMAIN m.entries[m.order[k]].reserved \cap DOMAIN m.entries[m.order[n]].reserved # {}
               PROVE  n < k
    BY DEF InFlightIsLate
  <2>1. m.order[k] \in DOMAIN m.entries /\ m.order[n] \in DOMAIN m.entries
    BY <1>o, <1>e
  <2>2. \A j \in DOMAIN l.order : l.order[j] \in DOMAIN l.entries
    BY DEF Sound, IsLedger
  <2>3. CASE k \in DOMAIN l.order /\ n \in DOMAIN l.order
    <3>1. m.order[k] = l.order[k] /\ m.order[n] = l.order[n]
      BY <1>o, <2>3
    <3>2. m.order[k] # i /\ m.order[n] # i
      BY <1>e, <2>2, <2>3, <3>1 DEF Fitting
    <3> QED
      BY <1>e, <2>2, <2>3, <3>1, <3>2 DEF Sound, InFlightIsLate
  <2>4. CASE k \notin DOMAIN l.order /\ n \in DOMAIN l.order
    BY <1>o, <2>4
  <2>5. CASE n \notin DOMAIN l.order
    <3>1. m.order[n] = i /\ i \notin DOMAIN l.entries
      BY <1>o, <2>5
    <3>2. IsGrant(e) /\ e.status = "released"
      BY <1>e, <3>1 DEF Fitting
    <3>3. m.order[k] # i
      BY <1>e, <3>2
    <3>4. m.order[k] \in DOMAIN l.entries /\ m.entries[m.order[k]] = l.entries[m.order[k]]
      BY <1>e, <2>1, <3>3
    <3> QED
      BY <1>e, <3>1, <3>2, <3>4 DEF Fitting
  <2> QED
    BY <2>3, <2>4, <2>5
<1> QED
  BY <1>1, <1>2, <1>3, <1>4 DEF Sound, m

----------------------------------------------------------------------------
(* The object and the file.                                                 *)

\* What l says of a call, m says too, and of a finished call nothing else.
Extends(l, m) ==
  \A i \in DOMAIN l.entries :
    /\ i \in DOMAIN m.entries
    /\ m.entries[i].reserved = l.entries[i].reserved
    /\ l.entries[i].status # "reserved" => m.entries[i] = l.entries[i]

LEMMA ExtendsIsTransitive ==
  ASSUME NEW l, NEW m, NEW n, Extends(l, m), Extends(m, n)
  PROVE  Extends(l, n)
BY DEF Extends

LEMMA PutExtends ==
  ASSUME NEW l, Sound(l), NEW i \in Ids, NEW e, Fitting(l, i, e),
         i \in DOMAIN l.entries => e.reserved = l.entries[i].reserved
  PROVE  Extends(l, Put(l, i, e))
<1> DEFINE m == Put(l, i, e)
<1>1. m.entries = [j \in DOMAIN l.entries \cup {i} |-> IF j = i THEN e ELSE l.entries[j]]
  BY PutParts
<1> HIDE DEF m
<1>2. DOMAIN m.entries = DOMAIN l.entries \cup {i} /\ m.entries[i] = e
      /\ \A j \in DOMAIN l.entries : j # i => m.entries[j] = l.entries[j]
  BY <1>1
<1>3. Extends(l, m)
  BY <1>2 DEF Extends, Fitting
<1> QED
  BY <1>3 DEF m

\* New limits for the dimensions that have one.
Limited(l, m, grant) ==
  m.limits = [d \in DOMAIN l.limits |-> IF d \in DOMAIN grant THEN grant[d] ELSE l.limits[d]]

LEMMA LimitsSound ==
  ASSUME NEW l, Sound(l), NEW grant \in Grants,
         NEW m, m = [l EXCEPT !.limits = [d \in DOMAIN @ |-> IF d \in DOMAIN grant THEN grant[d] ELSE @[d]]]
  PROVE  Sound(m) /\ m.entries = l.entries /\ m.order = l.order /\ Limited(l, m, grant)
<1> DEFINE limits == [d \in DOMAIN l.limits |-> IF d \in DOMAIN grant THEN grant[d] ELSE l.limits[d]]
<1>1. l = [limits |-> l.limits, entries |-> l.entries, order |-> l.order]
  BY DEF Sound, Shaped
<1>2. \A d \in DOMAIN l.limits : limits[d] \in Nat \cup {NoLimit}
  BY LedgerAssumption DEF IsAmounts, Sound, IsLedger
<1>3. DOMAIN limits \subseteq Dims
  BY DEF Sound, IsLedger
<1>4. DOMAIN limits = DOMAIN l.limits
  OBVIOUS
<1>5. m = [l EXCEPT !.limits = limits]
  OBVIOUS
<1> HIDE DEF limits
<1>6. m = [limits |-> limits, entries |-> l.entries, order |-> l.order]
  BY <1>1, <1>5
<1>7. m.limits = limits /\ m.entries = l.entries /\ m.order = l.order
  BY <1>6
<1>8. IsLedger(m)
  BY <1>2, <1>3, <1>4, <1>7 DEF Sound, IsLedger
<1>9. Shaped(m)
  BY <1>6, <1>7 DEF Sound, Shaped
<1>10. GrantsClosed(m) /\ InFlightIsLate(m)
  BY <1>7 DEF Sound, GrantsClosed, InFlightIsLate
<1>11. Limited(l, m, grant)
  BY <1>7 DEF Limited, limits
<1> QED
  BY <1>7, <1>8, <1>9, <1>10, <1>11 DEF Sound

Scoped ==
  /\ DOMAIN floors \subseteq Scopes /\ IsFiniteSet(DOMAIN floors)
  /\ \A t \in DOMAIN floors : IsAmounts(floors[t])

IInv == Sound(mem) /\ Sound(disk) /\ Extends(disk, mem) /\ Scoped

\* What every step does with the object and the file.
Grows ==
  /\ Sound(mem') /\ Sound(disk') /\ Extends(disk', mem')
  /\ Extends(disk, disk')

LEMMA PersistGrows ==
  ASSUME IInv, NEW l, Sound(l), Extends(mem, l), Persist(l)
  PROVE  Grows
<1>1. mem' = l /\ (disk' = l \/ disk' = disk)
  BY DEF Persist
<1>2. Extends(disk, l) /\ Extends(l, l) /\ Extends(disk, disk)
  <2>1. Extends(disk, l)
    BY ExtendsIsTransitive DEF IInv
  <2> QED
    BY <2>1 DEF Extends
<1> QED
  BY <1>1, <1>2 DEF Grows, IInv

LEMMA PutGrows ==
  ASSUME IInv, NEW i \in Ids, NEW e, Fitting(mem, i, e), Persist(Put(mem, i, e)),
         i \in DOMAIN mem.entries => e.reserved = mem.entries[i].reserved
  PROVE  Grows
<1> DEFINE l == Put(mem, i, e)
<1>1. Sound(l) /\ Extends(mem, l)
  BY PutSound, PutExtends DEF IInv
<1> HIDE DEF l
<1>2. Persist(l)
  BY DEF l
<1> QED
  BY <1>1, <1>2, PersistGrows

LEMMA EntryRecord ==
  ASSUME IInv, NEW i \in DOMAIN mem.entries
  PROVE  /\ i \in Ids /\ IsEntry(mem.entries[i])
         /\ mem.entries[i] = [reserved |-> mem.entries[i].reserved, actual |-> mem.entries[i].actual,
                              status |-> mem.entries[i].status, source |-> mem.entries[i].source]
         /\ mem.entries[i].status = "reserved" => mem.entries[i].source # "user_authorization"
BY DEF IInv, Sound, IsLedger, Shaped, GrantsClosed, IsGrant

\* The entry that an update of some of its fields makes.
LEMMA EntryIs ==
  ASSUME NEW r, NEW s, NEW t, NEW u, NEW x, x \in [reserved : {r}, actual : {s}, status : {t}, source : {u}]
  PROVE  x = [reserved |-> r, actual |-> s, status |-> t, source |-> u]
OBVIOUS

Closing(x, a, v, w) == [x EXCEPT !.actual = a, !.status = v, !.source = w]
Freeing(x, v) == [x EXCEPT !.status = v]
Granting(x, v, w) == [x EXCEPT !.status = v, !.source = w]

LEMMA Updated ==
  ASSUME NEW x, x = [reserved |-> x.reserved, actual |-> x.actual, status |-> x.status, source |-> x.source],
         NEW a, NEW v, NEW w
  PROVE  /\ Closing(x, a, v, w) = [reserved |-> x.reserved, actual |-> a, status |-> v, source |-> w]
         /\ Granting(x, v, w) = [reserved |-> x.reserved, actual |-> x.actual, status |-> v, source |-> w]
         /\ Freeing(x, v) = [reserved |-> x.reserved, actual |-> x.actual, status |-> v, source |-> x.source]
<1> DEFINE r == x.reserved
           s == x.actual
           t == x.status
           u == x.source
<1>1. x = [reserved |-> r, actual |-> s, status |-> t, source |-> u]
  OBVIOUS
<1> HIDE DEF r, s, t, u
<1>2. /\ Closing(x, a, v, w) \in [reserved : {r}, actual : {a}, status : {v}, source : {w}]
      /\ Granting(x, v, w) \in [reserved : {r}, actual : {s}, status : {v}, source : {w}]
      /\ Freeing(x, v) \in [reserved : {r}, actual : {s}, status : {v}, source : {u}]
  BY <1>1 DEF Closing, Granting, Freeing
<1> QED
  BY <1>2, EntryIs DEF r, s, t, u

LEMMA NoAmountsIsAmounts == IsAmounts(NoAmounts)
BY DEF IsAmounts, NoAmounts

\* What a mutation puts: an entry in flight, the end of one, or a grant.
Opens(i, a) ==
  LET e == [reserved |-> a, actual |-> NoAmounts, status |-> "reserved", source |-> "none"] IN
  /\ i \in Ids \ DOMAIN mem.entries /\ a \in Requests
  /\ \A d \in DOMAIN a : CheckAvailable(mem, d, a[d])
  /\ Fitting(mem, i, e) /\ Persist(Put(mem, i, e)) /\ floors' = floors

Closes(i, e) ==
  /\ i \in Ids \cap DOMAIN mem.entries /\ mem.entries[i].status = "reserved"
  /\ e.reserved = mem.entries[i].reserved /\ e.status \in {"settled", "released", "unknown"}
  /\ e.status = "settled" => DOMAIN e.reserved \subseteq DOMAIN e.actual
  /\ e.source \in Sources \ {"user_authorization"}
  /\ Fitting(mem, i, e) /\ Persist(Put(mem, i, e)) /\ floors' = floors

Grant(i, g) ==
  LET e == [reserved |-> g, actual |-> NoAmounts, status |-> "released", source |-> "user_authorization"]
      m == Put(mem, i, e)
  IN /\ i \in Ids \ DOMAIN mem.entries /\ g \in Grants /\ DOMAIN g \subseteq DOMAIN mem.limits
     /\ Fitting(mem, i, e) /\ floors' = floors
     /\ Persist([m EXCEPT !.limits = [d \in DOMAIN @ |-> IF d \in DOMAIN g THEN g[d] ELSE @[d]]])

LEMMA ReserveOpens ==
  ASSUME IInv, NEW i \in Ids, NEW a \in Requests, Reserve(i, a)
  PROVE  Opens(i, a)
<1> DEFINE e == [reserved |-> a, actual |-> NoAmounts, status |-> "reserved", source |-> "none"]
<1>1. i \notin DOMAIN mem.entries /\ Persist(Put(mem, i, e))
  BY DEF Reserve, NewEntry
<1>2. IsAmounts(a)
  BY LedgerAssumption
<1>3. Fitting(mem, i, e)
  BY <1>1, <1>2, NoAmountsIsAmounts DEF Fitting, IsEntry, Statuses, Sources, IsGrant
<1> HIDE DEF e
<1> QED
  BY <1>1, <1>3 DEF Reserve, Opens, e

\* The end of a call changes its use, its status and their source.
LEMMA EndCloses ==
  ASSUME IInv, NEW i \in Ids, i \in DOMAIN mem.entries, mem.entries[i].status = "reserved",
         NEW actual, IsAmounts(actual), NEW status \in {"settled", "released", "unknown"},
         status = "settled" => DOMAIN mem.entries[i].reserved \subseteq DOMAIN actual,
         NEW source \in Sources \ {"user_authorization"},
         NEW e, e = [reserved |-> mem.entries[i].reserved, actual |-> actual, status |-> status, source |-> source],
         Persist(Put(mem, i, e)), floors' = floors
  PROVE  Closes(i, e)
<1>1. IsEntry(mem.entries[i])
  BY DEF IInv, Sound, IsLedger
<1>2. e.reserved = mem.entries[i].reserved /\ e.status = status /\ e.actual = actual /\ e.source = source
  OBVIOUS
<1>3. Fitting(mem, i, e)
  BY <1>1, <1>2 DEF Fitting, IsEntry, Statuses, IsGrant
<1> QED
  BY <1>2, <1>3 DEF Closes

LEMMA SettleCloses ==
  ASSUME IInv, NEW i \in Ids, NEW a \in Actuals, Settle(i, a)
  PROVE  \E e : Closes(i, e)
<1> DEFINE old == mem.entries[i]
           e == [reserved |-> old.reserved, actual |-> a, status |-> "settled", source |-> "measured"]
<1>1. /\ i \in DOMAIN mem.entries /\ mem.entries[i].status = "reserved"
      /\ DOMAIN mem.entries[i].reserved \subseteq DOMAIN a /\ floors' = floors
  BY DEF Settle, CanSettle
<1>2. Persist(Put(mem, i, Closing(old, a, "settled", "measured")))
  BY DEF Settle, Closing
<1>3. old = [reserved |-> old.reserved, actual |-> old.actual, status |-> old.status, source |-> old.source]
  BY <1>1, EntryRecord
<1>4. Closing(old, a, "settled", "measured") = e
  <2> HIDE DEF old
  <2> QED
    BY <1>3, Updated
<1>5. Persist(Put(mem, i, e))
  BY <1>2, <1>4
<1>6. IsAmounts(a)
  BY LedgerAssumption
<1>7. Closes(i, e)
  BY <1>1, <1>5, <1>6, EndCloses DEF Sources
<1> QED
  BY <1>7

LEMMA ReleaseCloses ==
  ASSUME IInv, NEW i \in Ids, Release(i)
  PROVE  \E e : Closes(i, e)
<1> DEFINE old == mem.entries[i]
           e == [reserved |-> old.reserved, actual |-> old.actual, status |-> "released", source |-> old.source]
<1>1. i \in DOMAIN mem.entries /\ mem.entries[i].status = "reserved" /\ floors' = floors
  BY DEF Release
<1>2. Freeing(old, "released") = e
  BY <1>1, EntryRecord, Updated
<1>3. Persist(Put(mem, i, e))
  BY <1>2 DEF Release, Freeing
<1>4. IsAmounts(old.actual) /\ old.source \in Sources /\ old.source # "user_authorization"
  BY <1>1, EntryRecord DEF IsEntry
<1>5. Closes(i, e)
  BY <1>1, <1>3, <1>4, EndCloses
<1> QED
  BY <1>5

LEMMA UnknownCloses ==
  ASSUME IInv, NEW i \in Ids, NEW a \in Actuals, NEW retain \in BOOLEAN, MarkUnknown(i, a, retain)
  PROVE  \E e : Closes(i, e)
<1> DEFINE source == IF retain THEN "reservation_bound" ELSE "none"
           old == mem.entries[i]
           e == [reserved |-> old.reserved, actual |-> a, status |-> "unknown", source |-> source]
<1>1. i \in DOMAIN mem.entries /\ mem.entries[i].status = "reserved" /\ floors' = floors
  BY DEF MarkUnknown
<1>2. source \in Sources \ {"user_authorization"}
  BY DEF Sources
<1>3. Persist(Put(mem, i, Closing(old, a, "unknown", source)))
  BY DEF MarkUnknown, Closing
<1>4. old = [reserved |-> old.reserved, actual |-> old.actual, status |-> old.status, source |-> old.source]
  BY <1>1, EntryRecord
<1> HIDE DEF source
<1>5. Closing(old, a, "unknown", source) = e
  <2> HIDE DEF old
  <2> QED
    BY <1>4, Updated
<1>6. Closes(i, e)
  BY <1>1, <1>2, <1>3, <1>5, LedgerAssumption, EndCloses
<1> QED
  BY <1>6

LEMMA AuthorizeGrants ==
  ASSUME IInv, NEW i \in Ids, NEW grant \in Grants, AuthorizeRemaining(i, grant)
  PROVE  Grant(i, grant)
<1> DEFINE e == [reserved |-> grant, actual |-> NoAmounts, status |-> "released", source |-> "user_authorization"]
           opened == Put(mem, i, e)
           l == [opened EXCEPT !.limits = [d \in DOMAIN @ |-> IF d \in DOMAIN grant THEN grant[d] ELSE @[d]]]
<1>1. Granting(NewEntry(grant), "released", "user_authorization") = e
  BY Updated DEF NewEntry
<1>2. Persist(l) /\ floors' = floors
  BY <1>1 DEF AuthorizeRemaining, Granting
<1>3. Fitting(mem, i, e)
  BY LedgerAssumption, NoAmountsIsAmounts
     DEF AuthorizeRemaining, CanAuthorize, Fitting, IsEntry, Statuses, Sources, IsGrant
<1>4. i \notin DOMAIN mem.entries /\ DOMAIN grant \subseteq DOMAIN mem.limits
  BY DEF AuthorizeRemaining, CanAuthorize
<1> QED
  BY <1>2, <1>3, <1>4 DEF Grant

\* A step is one of these, or leaves the object alone, or starts anew.
LEMMA StepIs ==
  ASSUME IInv, Next
  PROVE  \/ \E i \in Ids, a \in Requests : Opens(i, a)
         \/ \E i \in Ids : \E e : Closes(i, e)
         \/ \E i \in Ids, g \in Grants : Grant(i, g)
         \/ /\ mem' = mem /\ disk' \in {disk, mem}
            /\ \/ floors' = floors
               \/ \E t \in Scopes, a \in Floors : OpenFloor(t, a)
               \/ \E t \in Scopes : CloseFloor(t)
         \/ mem' = disk /\ disk' = disk /\ floors' = [t \in {} |-> NoAmounts]
<1>1. CASE \E i \in Ids, a \in Requests : Reserve(i, a)
  BY <1>1, ReserveOpens
<1>2. CASE \E i \in Ids, a \in Actuals : Settle(i, a)
  BY <1>2, SettleCloses
<1>3. CASE \E i \in Ids : Release(i)
  BY <1>3, ReleaseCloses
<1>4. CASE \E i \in Ids, a \in Actuals, retain \in BOOLEAN : MarkUnknown(i, a, retain)
  BY <1>4, UnknownCloses
<1>5. CASE \E i \in Ids, g \in Grants : AuthorizeRemaining(i, g)
  BY <1>5, AuthorizeGrants
<1>6. CASE \/ \E t \in Scopes, a \in Floors : OpenFloor(t, a)
           \/ \E t \in Scopes : CloseFloor(t)
  BY <1>6 DEF OpenFloor, CloseFloor
<1>7. CASE Save \/ Restart
  BY <1>7 DEF Save, Restart
<1> QED
  BY <1>1, <1>2, <1>3, <1>4, <1>5, <1>6, <1>7 DEF Next

LEMMA GrantGrows ==
  ASSUME IInv, NEW i \in Ids, NEW g \in Grants, Grant(i, g)
  PROVE  Grows
<1> DEFINE e == [reserved |-> g, actual |-> NoAmounts, status |-> "released", source |-> "user_authorization"]
           opened == Put(mem, i, e)
           l == [opened EXCEPT !.limits = [d \in DOMAIN @ |-> IF d \in DOMAIN g THEN g[d] ELSE @[d]]]
<1>1. Persist(l) /\ Fitting(mem, i, e) /\ i \notin DOMAIN mem.entries
  BY DEF Grant
<1> HIDE DEF e
<1>2. Sound(opened) /\ Extends(mem, opened)
  BY <1>1, PutSound, PutExtends DEF IInv
<1> HIDE DEF opened
<1>3. Sound(l) /\ l.entries = opened.entries /\ l.order = opened.order /\ Limited(opened, l, g)
  BY <1>2, LimitsSound
<1> HIDE DEF l
<1>4. Extends(mem, l)
  BY <1>2, <1>3 DEF Extends
<1> QED
  BY <1>1, <1>3, <1>4, PersistGrows

LEMMA StillGrows == ASSUME IInv, UNCHANGED <<mem, disk>> PROVE Grows
BY DEF IInv, Grows, Extends

LEMMA StepGrows == ASSUME IInv, [Next]_vars PROVE Grows /\ Scoped'
<1>1. ASSUME NEW i \in Ids, NEW a \in Requests, Opens(i, a)
      PROVE  Grows /\ Scoped'
  <2> DEFINE e == [reserved |-> a, actual |-> NoAmounts, status |-> "reserved", source |-> "none"]
  <2>1. Fitting(mem, i, e) /\ Persist(Put(mem, i, e)) /\ i \notin DOMAIN mem.entries /\ floors' = floors
    BY <1>1 DEF Opens
  <2> HIDE DEF e
  <2> QED
    BY <2>1, PutGrows DEF IInv, Scoped
<1>2. ASSUME NEW i \in Ids, NEW e, Closes(i, e)
      PROVE  Grows /\ Scoped'
  BY <1>2, PutGrows DEF Closes, IInv, Scoped
<1>3. ASSUME NEW i \in Ids, NEW g \in Grants, Grant(i, g)
      PROVE  Grows /\ Scoped'
  BY <1>3, GrantGrows DEF Grant, IInv, Scoped
<1>4. CASE /\ mem' = mem /\ disk' \in {disk, mem}
           /\ \/ floors' = floors
              \/ \E t \in Scopes, a \in Floors : OpenFloor(t, a)
              \/ \E t \in Scopes : CloseFloor(t)
  <2>1. Grows
    BY <1>4 DEF IInv, Grows, Extends
  <2>2. CASE floors' = floors
    BY <2>1, <2>2 DEF IInv, Scoped
  <2>3. CASE \E t \in Scopes, a \in Floors : OpenFloor(t, a)
    <3>1. PICK t \in Scopes, a \in Floors : OpenFloor(t, a)
      BY <2>3
    <3>2. IsAmounts(a)
      BY LedgerAssumption
    <3>3. IsFiniteSet(DOMAIN floors \cup {t})
      BY FS_AddElement DEF IInv, Scoped
    <3> QED
      BY <2>1, <3>1, <3>2, <3>3 DEF OpenFloor, IInv, Scoped
  <2>4. CASE \E t \in Scopes : CloseFloor(t)
    <3>1. PICK t \in Scopes : CloseFloor(t)
      BY <2>4
    <3>2. IsFiniteSet(DOMAIN floors \ {t})
      BY FS_Subset DEF IInv, Scoped
    <3> QED
      BY <2>1, <3>1, <3>2 DEF CloseFloor, IInv, Scoped
  <2> QED
    BY <1>4, <2>2, <2>3, <2>4
<1>5. CASE mem' = disk /\ disk' = disk /\ floors' = [t \in {} |-> NoAmounts]
  BY <1>5, FS_EmptySet DEF IInv, Scoped, Grows, Extends
<1>6. CASE UNCHANGED vars
  BY <1>6, StillGrows DEF vars, IInv, Scoped
<1> QED
  BY <1>1, <1>2, <1>3, <1>4, <1>5, <1>6, StepIs

LEMMA InitInv == ASSUME Init PROVE IInv
<1> DEFINE none == [i \in {} |-> NewEntry(NoAmounts)]
<1>1. mem = [limits |-> InitialLimits, entries |-> none, order |-> <<>>] /\ disk = mem
  BY DEF Init, EmptyLedger
<1>2. DOMAIN none = {}
  OBVIOUS
<1> HIDE DEF none
<1>3. mem.limits = InitialLimits /\ mem.entries = none /\ mem.order = <<>>
  BY <1>1
<1>4. <<>> \in Seq(Ids) /\ DOMAIN <<>> = {}
  BY EmptySeq
<1>5. IsLedger(mem)
  BY <1>2, <1>3, <1>4, LedgerAssumption DEF IsLedger
<1>6. Shaped(mem)
  BY <1>1, <1>2, <1>3 DEF Shaped
<1>7. GrantsClosed(mem) /\ InFlightIsLate(mem) /\ Extends(disk, mem)
  BY <1>1, <1>2, <1>3, <1>4 DEF GrantsClosed, InFlightIsLate, Extends
<1>8. Scoped
  BY FS_EmptySet DEF Init, Scoped
<1> QED
  BY <1>1, <1>5, <1>6, <1>7, <1>8 DEF IInv, Sound

LEMMA Always == Spec => []IInv
<1>1. Init => IInv
  BY InitInv
<1>2. IInv /\ [Next]_vars => IInv'
  BY StepGrows DEF Grows, IInv
<1> QED
  BY <1>1, <1>2, PTL DEF Spec

----------------------------------------------------------------------------
\* The object and every file it leaves are ledgers: one entry per listed id.
THEOREM TypesHold == Spec => []TypeOK
<1>1. IInv => TypeOK
  BY DEF IInv, Sound, Scoped, TypeOK
<1> QED
  BY <1>1, Always, PTL

\* No grant, whenever it comes and whichever write failed before, opens an
\* allowance over a call in flight in one of its dimensions
\* (_check_remaining_authorization).
THEOREM InFlightStaysCounted == Spec => []InFlightIsCounted
<1>1. ASSUME NEW l, Sound(l), NEW i \in DOMAIN l.entries, l.entries[i].status = "reserved",
             NEW d \in DOMAIN l.entries[i].reserved
      PROVE  i \in AllowanceIds(l, d)
  <2> DEFINE opened == {m \in DOMAIN l.order : LET e == l.entries[l.order[m]] IN IsGrant(e) /\ d \in DOMAIN e.reserved}
  <2>1. PICK k \in DOMAIN l.order : l.order[k] = i
    BY <1>1 DEF Sound, IsLedger
  <2>2. \A m \in opened : m < k
    BY <1>1, <2>1 DEF Sound, InFlightIsLate
  <2> QED
    BY <2>1, <2>2 DEF AllowanceIds
<1>2. IInv => InFlightIsCounted
  BY <1>1 DEF IInv, InFlightIsCounted
<1> QED
  BY <1>2, Always, PTL

\* A write that fails, any number of times, leaves a file that is behind the
\* object and never ahead of it or against it (_persist_unlocked).
THEOREM FileStaysBehind == Spec => []FileFollowsMemory
<1>1. IInv => FileFollowsMemory
  BY DEF IInv, Extends, FileFollowsMemory
<1> QED
  BY <1>1, Always, PTL

\* What a file says of a finished call, every later file says.
THEOREM FinishedIsKept == Spec => FinishedStays
<1>1. IInv /\ [Next]_vars =>
        [\A i \in DOMAIN disk.entries :
           disk.entries[i].status # "reserved" =>
             i \in DOMAIN disk'.entries /\ disk'.entries[i] = disk.entries[i]]_vars
  BY StepGrows DEF Grows, Extends
<1> QED
  BY <1>1, Always, PTL DEF Spec, FinishedStays

----------------------------------------------------------------------------
(* Sums over finite sets                                                    *)

\* Adding up a function over a set, one chosen element after the other.
Pick(s) == CHOOSE x \in s : TRUE
Adds(f, S, g) ==
  g = [s \in SUBSET S |-> IF s = {} THEN 0 ELSE f[Pick(s)] + g[s \ {Pick(s)}]]
Total(f, S) == (CHOOSE g : Adds(f, S, g))[S]

LEMMA PickIsIn == ASSUME NEW s, s # {} PROVE Pick(s) \in s
BY DEF Pick

LEMMA Minimal ==
  ASSUME NEW S, IsFiniteSet(S), NEW T, T \subseteq SUBSET S, T # {}
  PROVE  \E s \in T : \A t \in T : t \subseteq s => t = s
<1>1. IsWellFoundedOn(StrictSubsetOrdering(S), FiniteSubsetsOf(S))
  BY FS_StrictSubsetOrderingWellFounded
<1>2. FiniteSubsetsOf(S) = SUBSET S
  BY FS_FiniteSubsetsOfFinite
<1>3. PICK s \in T : \A t \in T : ~(<<t, s>> \in StrictSubsetOrdering(S))
  BY <1>1, <1>2, WFMin
<1> QED  BY <1>3, <1>2 DEF StrictSubsetOrdering

LEMMA AddsOnce ==
  ASSUME NEW f, NEW S, IsFiniteSet(S), NEW g, Adds(f, S, g), NEW h, Adds(f, S, h)
  PROVE  g = h
<1> DEFINE T == {s \in SUBSET S : g[s] # h[s]}
<1>1. ASSUME T # {} PROVE FALSE
  <2>1. PICK s \in T : \A t \in T : t \subseteq s => t = s
    <3>1. T \subseteq SUBSET S  OBVIOUS
    <3> HIDE DEF T
    <3> QED  BY <1>1, <3>1, Minimal
  <2>2. s # {}  BY <2>1 DEF Adds
  <2>3. Pick(s) \in s  BY <2>2, PickIsIn
  <2>4. s \ {Pick(s)} \notin T  BY <2>1, <2>3
  <2>5. g[s \ {Pick(s)}] = h[s \ {Pick(s)}]  BY <2>4
  <2> QED  BY <2>1, <2>2, <2>5 DEF Adds
<1>2. \A s \in SUBSET S : g[s] = h[s]  BY <1>1
<1>3. g = [s \in SUBSET S |-> g[s]] /\ h = [s \in SUBSET S |-> h[s]]
  BY DEF Adds
<1> QED  BY <1>2, <1>3

LEMMA AddsWithin ==
  ASSUME NEW f, NEW S, NEW g, Adds(f, S, g), NEW s \in SUBSET S
  PROVE  Adds(f, s, [t \in SUBSET s |-> g[t]])
<1> DEFINE h == [t \in SUBSET s |-> g[t]]
<1>1. \A t \in SUBSET s : g[t] = IF t = {} THEN 0 ELSE f[Pick(t)] + g[t \ {Pick(t)}]
  BY DEF Adds
<1>2. \A t \in SUBSET s : h[t \ {Pick(t)}] = g[t \ {Pick(t)}]
  OBVIOUS
<1>3. h = [t \in SUBSET s |-> IF t = {} THEN 0 ELSE f[Pick(t)] + h[t \ {Pick(t)}]]
  BY <1>1, <1>2
<1> QED  BY <1>3 DEF Adds

LEMMA AddsSomewhere ==
  ASSUME NEW f, NEW S, IsFiniteSet(S)
  PROVE  \E g : Adds(f, S, g)
<1> DEFINE T == {s \in SUBSET S : ~\E g : Adds(f, s, g)}
           G(s) == (CHOOSE g : Adds(f, s, g))[s]
<1>1. ASSUME T # {} PROVE FALSE
  <2>1. PICK s \in T : \A t \in T : t \subseteq s => t = s
    <3>1. T \subseteq SUBSET S  OBVIOUS
    <3> HIDE DEF T
    <3> QED  BY <1>1, <3>1, Minimal
  <2>2. ASSUME NEW t \in SUBSET s, t # s
        PROVE  \E g : Adds(f, t, g) /\ G(t) = g[t]
    <3>1. \E g : Adds(f, t, g)  BY <2>1, <2>2
    <3> DEFINE g == CHOOSE h : Adds(f, t, h)
    <3>2. Adds(f, t, g)  BY <3>1
    <3>3. G(t) = g[t]  OBVIOUS
    <3> QED  BY <3>2, <3>3
  <2>3. ASSUME NEW t \in SUBSET s, t # s, t # {}
        PROVE  G(t) = f[Pick(t)] + G(t \ {Pick(t)})
    <3>1. PICK g : Adds(f, t, g) /\ G(t) = g[t]  BY <2>2, <2>3
    <3>2. t \ {Pick(t)} \in SUBSET s /\ t \ {Pick(t)} # s
      BY <2>3, PickIsIn
    <3> DEFINE u == t \ {Pick(t)}
    <3>3. PICK h : Adds(f, u, h) /\ G(u) = h[u]  BY <2>2, <3>2
    <3>4. Adds(f, u, [v \in SUBSET u |-> g[v]])
      <4>1. u \in SUBSET t  OBVIOUS
      <4> HIDE DEF u, G
      <4> QED  BY <3>1, <4>1, AddsWithin
    <3>5. IsFiniteSet(u)  BY FS_Subset
    <3>6. h = [v \in SUBSET u |-> g[v]]  BY <3>3, <3>4, <3>5, AddsOnce
    <3>7. G(u) = g[u]  BY <3>3, <3>6
    <3>8. g[t] = f[Pick(t)] + g[u]  BY <2>3, <3>1 DEF Adds
    <3> HIDE DEF G, u
    <3>9. G(t) = f[Pick(t)] + G(u)  BY <3>1, <3>7, <3>8
    <3> QED  BY <3>9 DEF u
  <2>4. G({}) = 0 \/ s = {}
    <3> SUFFICES ASSUME s # {} PROVE G({}) = 0  OBVIOUS
    <3>1. PICK g : Adds(f, {}, g) /\ G({}) = g[{}]  BY <2>2
    <3>2. g[{}] = 0  BY <3>1 DEF Adds
    <3> QED  BY <3>1, <3>2
  <2> HIDE DEF G
  <2> DEFINE g == [t \in SUBSET s |-> IF t = {} THEN 0 ELSE f[Pick(t)] + G(t \ {Pick(t)})]
  <2>5. ASSUME NEW t \in SUBSET s, t # {}
        PROVE  g[t \ {Pick(t)}] = G(t \ {Pick(t)})
    <3> DEFINE u == t \ {Pick(t)}
    <3>1. u \in SUBSET s /\ u # s  BY <2>5, PickIsIn
    <3>2. CASE u = {}  BY <2>4, <2>5, <3>1, <3>2
    <3>3. CASE u # {}
      <4>1. G(u) = f[Pick(u)] + G(u \ {Pick(u)})  BY <2>3, <3>1, <3>3
      <4> QED  BY <3>1, <3>3, <4>1
    <3> QED  BY <3>2, <3>3
  <2>6. g = [t \in SUBSET s |-> IF t = {} THEN 0 ELSE f[Pick(t)] + g[t \ {Pick(t)}]]
    BY <2>5
  <2>7. Adds(f, s, g)  BY <2>6 DEF Adds
  <2> QED  BY <2>1, <2>7
<1> QED  BY <1>1

LEMMA TotalIs ==
  ASSUME NEW f, NEW S, IsFiniteSet(S), NEW g, Adds(f, S, g)
  PROVE  Total(f, S) = g[S]
<1> DEFINE h == CHOOSE h : Adds(f, S, h)
<1>1. Adds(f, S, h)  OBVIOUS
<1> HIDE DEF h
<1>2. h = g  BY <1>1, AddsOnce
<1> QED  BY <1>2 DEF Total, h

LEMMA TotalUnfolds ==
  ASSUME NEW f, NEW S, IsFiniteSet(S)
  PROVE  /\ Total(f, {}) = 0
         /\ S # {} => Total(f, S) = f[Pick(S)] + Total(f, S \ {Pick(S)})
<1>1. PICK g : Adds(f, S, g)  BY AddsSomewhere
<1>2. ASSUME NEW s \in SUBSET S PROVE Total(f, s) = g[s]
  <2>1. Adds(f, s, [t \in SUBSET s |-> g[t]]) /\ IsFiniteSet(s)
    BY <1>1, AddsWithin, FS_Subset
  <2> QED  BY <2>1, TotalIs
<1>3. g[{}] = 0 /\ (S # {} => g[S] = f[Pick(S)] + g[S \ {Pick(S)}])
  BY <1>1 DEF Adds
<1> QED  BY <1>2, <1>3

\* A sum of numbers is a number, and any element may be taken out of it.
LEMMA TotalNat ==
  ASSUME NEW f, NEW S, IsFiniteSet(S), \A x \in S : f[x] \in Nat
  PROVE  Total(f, S) \in Nat
<1> DEFINE T == {s \in SUBSET S : Total(f, s) \notin Nat}
<1>1. ASSUME T # {} PROVE FALSE
  <2>1. PICK s \in T : \A t \in T : t \subseteq s => t = s
    <3>1. T \subseteq SUBSET S  OBVIOUS
    <3> HIDE DEF T
    <3> QED  BY <1>1, <3>1, Minimal
  <2>2. IsFiniteSet(s)  BY FS_Subset
  <2>3. s # {} /\ Total(f, s) = f[Pick(s)] + Total(f, s \ {Pick(s)})
    <3>1. Total(f, {}) = 0  BY <2>2, TotalUnfolds
    <3>2. Total(f, s) \notin Nat  BY <2>1
    <3>3. s # {}
      <4> HIDE DEF T
      <4> QED  BY <3>1, <3>2
    <3> QED  BY <2>2, <3>3, TotalUnfolds
  <2>4. Pick(s) \in s  BY <2>3, PickIsIn
  <2>5. s \ {Pick(s)} \notin T  BY <2>1, <2>4
  <2> QED  BY <2>3, <2>4, <2>5
<1> QED  BY <1>1

LEMMA TotalWithout ==
  ASSUME NEW f, NEW S, IsFiniteSet(S), \A x \in S : f[x] \in Nat, NEW x \in S
  PROVE  Total(f, S) = f[x] + Total(f, S \ {x})
<1> DEFINE T == {s \in SUBSET S : \E y \in s : Total(f, s) # f[y] + Total(f, s \ {y})}
<1>1. ASSUME T # {} PROVE FALSE
  <2>1. PICK s \in T : \A t \in T : t \subseteq s => t = s
    <3>1. T \subseteq SUBSET S  OBVIOUS
    <3> HIDE DEF T
    <3> QED  BY <1>1, <3>1, Minimal
  <2>2. PICK y \in s : Total(f, s) # f[y] + Total(f, s \ {y})  BY <2>1
  <2>3. \A t \in SUBSET s : IsFiniteSet(t) /\ Total(f, t) \in Nat
    BY FS_Subset, TotalNat
  <2> DEFINE c == Pick(s)
  <2>4. c \in s /\ Total(f, s) = f[c] + Total(f, s \ {c})
    BY <2>2, <2>3, PickIsIn, TotalUnfolds
  <2>5. y # c  BY <2>2, <2>4
  <2> HIDE DEF c
  <2>6. s \ {c} \notin T /\ s \ {y} \notin T  BY <2>1, <2>2, <2>4
  <2>7. Total(f, s \ {c}) = f[y] + Total(f, (s \ {c}) \ {y})
    BY <2>2, <2>5, <2>6
  <2>8. Total(f, s \ {y}) = f[c] + Total(f, (s \ {y}) \ {c})
    BY <2>4, <2>5, <2>6
  <2>9. (s \ {c}) \ {y} = (s \ {y}) \ {c}  OBVIOUS
  <2>10. f[c] \in Nat /\ f[y] \in Nat /\ Total(f, (s \ {y}) \ {c}) \in Nat
    BY <2>2, <2>3, <2>4
  <2>11. Total(f, s) = f[y] + (f[c] + Total(f, (s \ {y}) \ {c}))
    BY <2>4, <2>7, <2>9, <2>10
  <2> QED  BY <2>2, <2>8, <2>11
<1> QED  BY <1>1

\* Sums of the same numbers are the same; a part is no more than the whole.
LEMMA TotalSame ==
  ASSUME NEW f, NEW g, NEW S, IsFiniteSet(S), \A x \in S : f[x] = g[x]
  PROVE  Total(f, S) = Total(g, S)
<1> DEFINE T == {s \in SUBSET S : Total(f, s) # Total(g, s)}
<1>1. ASSUME T # {} PROVE FALSE
  <2>1. PICK s \in T : \A t \in T : t \subseteq s => t = s
    <3>1. T \subseteq SUBSET S  OBVIOUS
    <3> HIDE DEF T
    <3> QED  BY <1>1, <3>1, Minimal
  <2>2. IsFiniteSet(s)  BY FS_Subset
  <2>3. s # {} /\ Total(f, s) = f[Pick(s)] + Total(f, s \ {Pick(s)})
        /\ Total(g, s) = g[Pick(s)] + Total(g, s \ {Pick(s)})
    BY <2>1, <2>2, TotalUnfolds
  <2>4. Pick(s) \in s  BY <2>3, PickIsIn
  <2>5. s \ {Pick(s)} \notin T  BY <2>1, <2>4
  <2> QED  BY <2>1, <2>3, <2>4, <2>5
<1> QED  BY <1>1

\* The sums of the ledger are such sums.
LEMMA ActualIsTotal ==
  ASSUME NEW l, NEW d, NEW S, IsFiniteSet(S), NEW f, \A i \in S : f[i] = Get(l.entries[i].actual, d)
  PROVE  MapThenSumSet(LAMBDA i : Get(l.entries[i].actual, d), S) = Total(f, S)
<1> DEFINE P(g) == g = [s \in SUBSET S |->
                          IF s = {} THEN 0
                          ELSE Get(l.entries[CHOOSE x \in s : TRUE].actual, d)
                               + g[s \ {CHOOSE x \in s : TRUE}]]
           sum == CHOOSE g : P(g)
<1>1. ASSUME NEW g PROVE P(g) <=> Adds(f, S, g)
  <2>1. \A s \in SUBSET S : s # {} => f[Pick(s)] = Get(l.entries[Pick(s)].actual, d)
    BY PickIsIn
  <2> QED  BY <2>1 DEF Adds, Pick
<1>2. MapThenSumSet(LAMBDA i : Get(l.entries[i].actual, d), S) = sum[S]
  BY DEF MapThenSumSet, MapThenFoldSet
<1> HIDE DEF P
<1>3. \E g : P(g)  BY <1>1, AddsSomewhere
<1>4. P(sum)  BY <1>3
<1> HIDE DEF sum
<1>5. Adds(f, S, sum)  BY <1>1, <1>4
<1> QED  BY <1>2, <1>5, TotalIs

LEMMA ReservedIsTotal ==
  ASSUME NEW l, NEW d, NEW S, IsFiniteSet(S), NEW f, \A i \in S : f[i] = Get(l.entries[i].reserved, d)
  PROVE  MapThenSumSet(LAMBDA i : Get(l.entries[i].reserved, d), S) = Total(f, S)
<1> DEFINE P(g) == g = [s \in SUBSET S |->
                          IF s = {} THEN 0
                          ELSE Get(l.entries[CHOOSE x \in s : TRUE].reserved, d)
                               + g[s \ {CHOOSE x \in s : TRUE}]]
           sum == CHOOSE g : P(g)
<1>1. ASSUME NEW g PROVE P(g) <=> Adds(f, S, g)
  <2>1. \A s \in SUBSET S : s # {} => f[Pick(s)] = Get(l.entries[Pick(s)].reserved, d)
    BY PickIsIn
  <2> QED  BY <2>1 DEF Adds, Pick
<1>2. MapThenSumSet(LAMBDA i : Get(l.entries[i].reserved, d), S) = sum[S]
  BY DEF MapThenSumSet, MapThenFoldSet
<1> HIDE DEF P
<1>3. \E g : P(g)  BY <1>1, AddsSomewhere
<1>4. P(sum)  BY <1>3
<1> HIDE DEF sum
<1>5. Adds(f, S, sum)  BY <1>1, <1>4
<1> QED  BY <1>2, <1>5, TotalIs

----------------------------------------------------------------------------
(* What an allowance counts                                                 *)

SpentIds(l, d) == {i \in AllowanceIds(l, d) : l.entries[i].status \in {"settled", "unknown"}}
HeldIds(l, d) == {i \in AllowanceIds(l, d) : Withheld(l.entries[i], d)}
Used(l, d) == [i \in DOMAIN l.entries |-> Get(l.entries[i].actual, d)]
Asked(l, d) == [i \in DOMAIN l.entries |-> Get(l.entries[i].reserved, d)]

LEMMA GetIs ==
  ASSUME NEW a, IsAmounts(a), NEW d
  PROVE  Get(a, d) \in Nat
BY DEF Get, IsAmounts

LEMMA CountedIs ==
  ASSUME NEW l, Sound(l), NEW d
  PROVE  AllowanceIds(l, d) \subseteq DOMAIN l.entries /\ IsFiniteSet(AllowanceIds(l, d))
<1>1. l.order \in Seq(Ids) /\ DOMAIN l.entries = {l.order[k] : k \in DOMAIN l.order}
  BY DEF Sound, IsLedger
<1>2. DOMAIN l.order = 1 .. Len(l.order) /\ Len(l.order) \in Nat
  BY <1>1
<1>3. IsFiniteSet(DOMAIN l.order)  BY <1>2, FS_Interval
<1>4. IsFiniteSet({l.order[k] : k \in DOMAIN l.order})
  <2> DEFINE f == [k \in DOMAIN l.order |-> l.order[k]]
             T == {l.order[k] : k \in DOMAIN l.order}
  <2>1. f \in Surjection(DOMAIN l.order, T)
    BY DEF Surjection
  <2> QED  BY <1>3, <2>1, FS_Surjection
<1>5. AllowanceIds(l, d) \subseteq {l.order[k] : k \in DOMAIN l.order}
  BY DEF AllowanceIds
<1> QED  BY <1>1, <1>4, <1>5, FS_Subset

LEMMA SumsAre ==
  ASSUME NEW l, Sound(l), NEW d
  PROVE  /\ Committed(l, d) = Total(Used(l, d), SpentIds(l, d)) /\ Committed(l, d) \in Nat
         /\ Reserved(l, d) = Total(Asked(l, d), HeldIds(l, d)) /\ Reserved(l, d) \in Nat
         /\ IsFiniteSet(SpentIds(l, d)) /\ IsFiniteSet(HeldIds(l, d))
         /\ \A i \in DOMAIN l.entries : Used(l, d)[i] \in Nat /\ Asked(l, d)[i] \in Nat
<1>1. /\ SpentIds(l, d) \subseteq DOMAIN l.entries /\ HeldIds(l, d) \subseteq DOMAIN l.entries
      /\ IsFiniteSet(SpentIds(l, d)) /\ IsFiniteSet(HeldIds(l, d))
  BY CountedIs, FS_Subset DEF SpentIds, HeldIds
<1>2. \A i \in DOMAIN l.entries : /\ Used(l, d)[i] = Get(l.entries[i].actual, d)
                                  /\ Asked(l, d)[i] = Get(l.entries[i].reserved, d)
                                  /\ Used(l, d)[i] \in Nat /\ Asked(l, d)[i] \in Nat
  BY GetIs DEF Used, Asked, Sound, IsLedger, IsEntry
<1>3. Committed(l, d) = Total(Used(l, d), SpentIds(l, d))
  <2>1. Committed(l, d) = MapThenSumSet(LAMBDA i : Get(l.entries[i].actual, d), SpentIds(l, d))
    BY DEF Committed, SpentIds
  <2>2. \A i \in SpentIds(l, d) : Used(l, d)[i] = Get(l.entries[i].actual, d)
    BY <1>1, <1>2
  <2>3. MapThenSumSet(LAMBDA i : Get(l.entries[i].actual, d), SpentIds(l, d)) = Total(Used(l, d), SpentIds(l, d))
    <3> DEFINE S == SpentIds(l, d)
               f == Used(l, d)
    <3>1. IsFiniteSet(S)  BY <1>1
    <3>2. \A i \in S : f[i] = Get(l.entries[i].actual, d)  BY <2>2
    <3> HIDE DEF S, f
    <3>3. MapThenSumSet(LAMBDA i : Get(l.entries[i].actual, d), S) = Total(f, S)
      BY <3>1, <3>2, ActualIsTotal
    <3> QED  BY <3>3 DEF S, f
  <2> QED  BY <2>1, <2>3
<1>4. Reserved(l, d) = Total(Asked(l, d), HeldIds(l, d))
  <2>1. Reserved(l, d) = MapThenSumSet(LAMBDA i : Get(l.entries[i].reserved, d), HeldIds(l, d))
    BY DEF Reserved, HeldIds
  <2>2. \A i \in HeldIds(l, d) : Asked(l, d)[i] = Get(l.entries[i].reserved, d)
    BY <1>1, <1>2
  <2>3. MapThenSumSet(LAMBDA i : Get(l.entries[i].reserved, d), HeldIds(l, d)) = Total(Asked(l, d), HeldIds(l, d))
    <3> DEFINE S == HeldIds(l, d)
               f == Asked(l, d)
    <3>1. IsFiniteSet(S)  BY <1>1
    <3>2. \A i \in S : f[i] = Get(l.entries[i].reserved, d)  BY <2>2
    <3> HIDE DEF S, f
    <3>3. MapThenSumSet(LAMBDA i : Get(l.entries[i].reserved, d), S) = Total(f, S)
      BY <3>1, <3>2, ReservedIsTotal
    <3> QED  BY <3>3 DEF S, f
  <2> QED  BY <2>1, <2>3
<1>5. Total(Used(l, d), SpentIds(l, d)) \in Nat /\ Total(Asked(l, d), HeldIds(l, d)) \in Nat
  BY <1>1, <1>2, TotalNat
<1> QED  BY <1>1, <1>2, <1>3, <1>4, <1>5

\* A grant opens a new allowance; anything else joins the one in force.
LEMMA PutCounted ==
  ASSUME NEW l, Sound(l), NEW i \in Ids, NEW e, Fitting(l, i, e), NEW d
  PROVE  /\ i \in DOMAIN l.entries => AllowanceIds(Put(l, i, e), d) = AllowanceIds(l, d)
         /\ i \notin DOMAIN l.entries /\ ~(IsGrant(e) /\ d \in DOMAIN e.reserved) =>
              AllowanceIds(Put(l, i, e), d) = AllowanceIds(l, d) \cup {i}
         /\ i \notin DOMAIN l.entries /\ IsGrant(e) /\ d \in DOMAIN e.reserved =>
              AllowanceIds(Put(l, i, e), d) = {}
<1> DEFINE m == Put(l, i, e)
           Renews(n, k) == IsGrant(n.entries[n.order[k]]) /\ d \in DOMAIN n.entries[n.order[k]].reserved
<1>1. /\ m.entries = [j \in DOMAIN l.entries \cup {i} |-> IF j = i THEN e ELSE l.entries[j]]
      /\ m.order = (IF i \in DOMAIN l.entries THEN l.order ELSE Append(l.order, i))
  BY PutParts
<1>2. /\ m.order \in Seq(Ids)
      /\ DOMAIN l.entries \cup {i} = {m.order[k] : k \in DOMAIN m.order}
      /\ \A j, k \in DOMAIN m.order : m.order[j] = m.order[k] => j = k
      /\ DOMAIN l.order \subseteq DOMAIN m.order
      /\ \A k \in DOMAIN l.order : m.order[k] = l.order[k]
      /\ \A k \in DOMAIN m.order \ DOMAIN l.order : m.order[k] = i /\ i \notin DOMAIN l.entries
      /\ \A k \in DOMAIN m.order \ DOMAIN l.order : \A n \in DOMAIN l.order : n < k
  <2> HIDE DEF m
  <2>1. IsLedger(l)  BY DEF Sound
  <2>2. Ordered(l, i, m.order)  BY <1>1, <2>1, PutOrder
  <2> QED  BY <2>2 DEF Ordered
<1>3. /\ DOMAIN m.entries = DOMAIN l.entries \cup {i} /\ m.entries[i] = e
      /\ \A j \in DOMAIN l.entries : j # i => m.entries[j] = l.entries[j]
  <2> HIDE DEF m
  <2> QED  BY <1>1
<1>4. DOMAIN l.entries = {l.order[k] : k \in DOMAIN l.order} /\ l.order \in Seq(Ids)
  BY DEF Sound, IsLedger
<1>5. \A n : AllowanceIds(n, d) =
        {n.order[k] : k \in {p \in DOMAIN n.order : \A q \in DOMAIN n.order : Renews(n, q) => q < p}}
  BY DEF AllowanceIds
<1>6. DOMAIN l.order \subseteq Nat /\ DOMAIN m.order \subseteq Nat
  <2> HIDE DEF m
  <2> QED  BY <1>2, <1>4
<1> HIDE DEF m
<1>7. CASE i \in DOMAIN l.entries
  <2>1. m.order = l.order  BY <1>1, <1>7
  <2>2. ~IsGrant(e) /\ ~IsGrant(l.entries[i])
    BY <1>7 DEF Fitting, Sound, GrantsClosed
  <2>3. \A k \in DOMAIN l.order : Renews(m, k) <=> Renews(l, k)
    BY <1>3, <1>4, <2>1, <2>2
  <2> HIDE DEF Renews
  <2>4. AllowanceIds(m, d) = AllowanceIds(l, d)
    BY <1>5, <2>1, <2>3
  <2> QED  BY <1>7, <2>4 DEF m
<1>8. CASE i \notin DOMAIN l.entries
  <2>0. i \in {m.order[k] : k \in DOMAIN m.order}
    BY <1>2
  <2>1. PICK a \in DOMAIN m.order : m.order[a] = i
    BY <2>0
  <2>2. a \notin DOMAIN l.order  BY <1>2, <1>4, <1>8, <2>1
  <2>3. \A k \in DOMAIN m.order : k = a \/ k \in DOMAIN l.order
    BY <1>2, <2>1
  <2>4. \A k \in DOMAIN l.order : k < a /\ ~(a < k) /\ (Renews(m, k) <=> Renews(l, k))
    <3>1. \A k \in DOMAIN l.order : k < a  BY <1>2, <2>1, <2>2
    <3>2. \A k \in DOMAIN l.order : l.order[k] # i /\ l.order[k] \in DOMAIN l.entries
      BY <1>4, <1>8
    <3> QED  BY <1>2, <1>3, <1>6, <3>1, <3>2
  <2>5. Renews(m, a) <=> IsGrant(e) /\ d \in DOMAIN e.reserved
    BY <1>3, <2>1
  <2> HIDE DEF Renews
  <2>6. CASE Renews(m, a)
    <3>1. \A p \in DOMAIN m.order : ~(\A q \in DOMAIN m.order : Renews(m, q) => q < p)
      BY <1>6, <2>1, <2>3, <2>4, <2>6
    <3>2. AllowanceIds(m, d) = {}  BY <1>5, <3>1
    <3> QED  BY <1>8, <2>5, <2>6, <3>2 DEF m
  <2>7. CASE ~Renews(m, a)
    <3>1. \A p \in DOMAIN l.order : (\A q \in DOMAIN m.order : Renews(m, q) => q < p) <=>
                                     (\A q \in DOMAIN l.order : Renews(l, q) => q < p)
      BY <1>2, <2>3, <2>4, <2>7
    <3>2. \A q \in DOMAIN m.order : Renews(m, q) => q < a
      BY <2>3, <2>4, <2>7
    <3>3. AllowanceIds(m, d) = AllowanceIds(l, d) \cup {i}
      BY <1>2, <1>5, <2>1, <2>3, <3>1, <3>2
    <3> QED  BY <1>8, <2>5, <2>7, <3>3 DEF m
  <2> QED  BY <2>6, <2>7
<1> QED  BY <1>7, <1>8

\* Ledgers that count the same entries in d.
LEMMA SameCounts ==
  ASSUME NEW l, NEW m, Sound(l), Sound(m), NEW d,
         SpentIds(m, d) = SpentIds(l, d), HeldIds(m, d) = HeldIds(l, d),
         \A i \in SpentIds(l, d) \cup HeldIds(l, d) : m.entries[i] = l.entries[i]
  PROVE  Committed(m, d) = Committed(l, d) /\ Reserved(m, d) = Reserved(l, d)
<1>1. /\ SpentIds(l, d) \subseteq DOMAIN l.entries /\ HeldIds(l, d) \subseteq DOMAIN l.entries
      /\ SpentIds(m, d) \subseteq DOMAIN m.entries /\ HeldIds(m, d) \subseteq DOMAIN m.entries
  BY CountedIs DEF SpentIds, HeldIds
<1>2. \A i \in SpentIds(l, d) : Used(m, d)[i] = Used(l, d)[i]
  BY <1>1 DEF Used
<1>3. \A i \in HeldIds(l, d) : Asked(m, d)[i] = Asked(l, d)[i]
  BY <1>1 DEF Asked
<1>4. /\ Total(Used(m, d), SpentIds(l, d)) = Total(Used(l, d), SpentIds(l, d))
      /\ Total(Asked(m, d), HeldIds(l, d)) = Total(Asked(l, d), HeldIds(l, d))
  BY <1>2, <1>3, SumsAre, TotalSame
<1> QED  BY <1>4, SumsAre

\* What a new entry adds.
LEMMA NewCounts ==
  ASSUME NEW l, Sound(l), NEW i \in Ids \ DOMAIN l.entries, NEW e, Fitting(l, i, e),
         e.status \in {"reserved", "released"}, NEW d
  PROVE  LET m == Put(l, i, e) IN
         /\ IsGrant(e) /\ d \in DOMAIN e.reserved =>
              /\ Committed(m, d) = 0 /\ Reserved(m, d) = 0 /\ ~HasUnknown(m, d) /\ ~Overran(m, d)
         /\ ~(IsGrant(e) /\ d \in DOMAIN e.reserved) =>
              /\ Committed(m, d) = Committed(l, d)
              /\ Reserved(m, d) = Reserved(l, d)
                   + (IF e.status = "reserved" THEN Get(e.reserved, d) ELSE 0)
              /\ HasUnknown(m, d) = HasUnknown(l, d) /\ Overran(m, d) = Overran(l, d)
<1> DEFINE m == Put(l, i, e)
<1>1. Sound(m) /\ m.entries = [j \in DOMAIN l.entries \cup {i} |-> IF j = i THEN e ELSE l.entries[j]]
  BY PutSound, PutParts
<1>2. /\ ~(IsGrant(e) /\ d \in DOMAIN e.reserved) => AllowanceIds(m, d) = AllowanceIds(l, d) \cup {i}
      /\ IsGrant(e) /\ d \in DOMAIN e.reserved => AllowanceIds(m, d) = {}
  BY PutCounted
<1> HIDE DEF m
<1>3. /\ m.entries[i] = e
      /\ \A j \in DOMAIN l.entries : j # i /\ m.entries[j] = l.entries[j]
      /\ AllowanceIds(l, d) \subseteq DOMAIN l.entries
  BY <1>1, CountedIs
<1>4. CASE IsGrant(e) /\ d \in DOMAIN e.reserved
  <2>1. AllowanceIds(m, d) = {}  BY <1>2, <1>4
  <2>2. SpentIds(m, d) = {} /\ HeldIds(m, d) = {}
    BY <2>1 DEF SpentIds, HeldIds
  <2>3. Committed(m, d) = 0 /\ Reserved(m, d) = 0
    <3>1. \A f : Total(f, {}) = 0  BY FS_EmptySet, TotalUnfolds
    <3> QED  BY <1>1, <2>2, <3>1, SumsAre
  <2>4. ~HasUnknown(m, d) /\ ~Overran(m, d)
    BY <2>1 DEF HasUnknown, Overran
  <2> QED  BY <1>4, <2>3, <2>4 DEF m
<1>5. CASE ~(IsGrant(e) /\ d \in DOMAIN e.reserved)
  <2>1. AllowanceIds(m, d) = AllowanceIds(l, d) \cup {i}  BY <1>2, <1>5
  <2>2. HasUnknown(m, d) = HasUnknown(l, d) /\ Overran(m, d) = Overran(l, d)
    BY <1>3, <2>1 DEF HasUnknown, Overran, LostTrack
  <2>3. SpentIds(m, d) = SpentIds(l, d)
    BY <1>3, <2>1 DEF SpentIds
  <2>4. HeldIds(m, d) = HeldIds(l, d) \cup (IF e.status = "reserved" THEN {i} ELSE {})
    BY <1>3, <2>1 DEF HeldIds, Withheld
  <2>5. /\ SpentIds(l, d) \subseteq DOMAIN l.entries /\ HeldIds(l, d) \subseteq DOMAIN l.entries
    BY <1>3 DEF SpentIds, HeldIds
  <2>6. /\ \A j \in DOMAIN l.entries : Used(m, d)[j] = Used(l, d)[j] /\ Asked(m, d)[j] = Asked(l, d)[j]
        /\ Asked(m, d)[i] = Get(e.reserved, d)
    BY <1>1, <1>3 DEF Used, Asked
  <2>7. /\ Total(Used(m, d), SpentIds(l, d)) = Total(Used(l, d), SpentIds(l, d))
        /\ Total(Asked(m, d), HeldIds(l, d)) = Total(Asked(l, d), HeldIds(l, d))
    BY <2>5, <2>6, SumsAre, TotalSame
  <2>8. Committed(m, d) = Committed(l, d)
    BY <1>1, <2>3, <2>7, SumsAre
  <2>9. Reserved(m, d) = Reserved(l, d) + (IF e.status = "reserved" THEN Get(e.reserved, d) ELSE 0)
    <3>0. Reserved(l, d) \in Nat  BY SumsAre
    <3>1. CASE e.status = "reserved"
      <4>1. i \in HeldIds(m, d) /\ HeldIds(m, d) \ {i} = HeldIds(l, d)
        BY <1>3, <2>4, <2>5, <3>1
      <4>2. \A x \in HeldIds(m, d) : Asked(m, d)[x] \in Nat
        BY <1>1, CountedIs, SumsAre DEF HeldIds
      <4>3. IsFiniteSet(HeldIds(m, d)) /\ Reserved(m, d) = Total(Asked(m, d), HeldIds(m, d))
        BY <1>1, SumsAre
      <4>4. Reserved(m, d) = Asked(m, d)[i] + Total(Asked(m, d), HeldIds(l, d))
        BY <4>1, <4>2, <4>3, TotalWithout
      <4>5. Reserved(m, d) = Get(e.reserved, d) + Reserved(l, d)
        BY <2>6, <2>7, <4>4, SumsAre
      <4>6. Get(e.reserved, d) \in Nat  BY GetIs DEF Fitting, IsEntry
      <4> QED  BY <3>0, <3>1, <4>5, <4>6
    <3>2. CASE e.status # "reserved"
      <4>1. HeldIds(m, d) = HeldIds(l, d)  BY <2>4, <3>2
      <4>2. Reserved(m, d) = Reserved(l, d)  BY <1>1, <2>7, <4>1, SumsAre
      <4> QED  BY <3>0, <3>2, <4>2
    <3> QED  BY <3>1, <3>2
  <2> QED  BY <1>5, <2>2, <2>8, <2>9 DEF m
<1> QED  BY <1>4, <1>5

\* What a call in flight leaves behind when it ends.
LEMMA ClosedCounts ==
  ASSUME NEW l, Sound(l), NEW i \in Ids, i \in DOMAIN l.entries, NEW e, Fitting(l, i, e),
         e.reserved = l.entries[i].reserved, NEW d
  PROVE  LET m == Put(l, i, e) IN
         /\ i \notin AllowanceIds(l, d) =>
              /\ Committed(m, d) = Committed(l, d) /\ Reserved(m, d) = Reserved(l, d)
              /\ HasUnknown(m, d) = HasUnknown(l, d) /\ Overran(m, d) = Overran(l, d)
         /\ i \in AllowanceIds(l, d) =>
              /\ Committed(m, d) = Committed(l, d)
                   + (IF e.status \in {"settled", "unknown"} THEN Get(e.actual, d) ELSE 0)
              /\ Reserved(l, d) = Reserved(m, d)
                   + (IF Withheld(e, d) THEN 0 ELSE Get(e.reserved, d))
              /\ HasUnknown(m, d) = (HasUnknown(l, d) \/ LostTrack(e, d))
              /\ Overran(m, d) = (Overran(l, d) \/ (e.status \in {"settled", "unknown"}
                                                     /\ Get(e.actual, d) > Get(e.reserved, d)))
<1> DEFINE m == Put(l, i, e)
           ids == AllowanceIds(l, d)
<1>1. Sound(m) /\ m.entries = [j \in DOMAIN l.entries \cup {i} |-> IF j = i THEN e ELSE l.entries[j]]
  BY PutSound, PutParts
<1>2. AllowanceIds(m, d) = ids
  BY PutCounted
<1> HIDE DEF m
<1>3. /\ m.entries[i] = e
      /\ \A j \in DOMAIN l.entries : j # i => m.entries[j] = l.entries[j]
      /\ ids \subseteq DOMAIN l.entries /\ DOMAIN m.entries = DOMAIN l.entries
      /\ l.entries[i].status = "reserved" /\ e.status # "reserved"
  BY <1>1, CountedIs DEF Fitting
<1> HIDE DEF ids
<1>4. CASE i \notin ids
  <2>1. \A j \in ids : m.entries[j] = l.entries[j]
    BY <1>3, <1>4
  <2>2. HasUnknown(m, d) = HasUnknown(l, d) /\ Overran(m, d) = Overran(l, d)
    BY <1>2, <2>1 DEF HasUnknown, Overran, ids
  <2>3. SpentIds(m, d) = SpentIds(l, d) /\ HeldIds(m, d) = HeldIds(l, d)
    BY <1>2, <2>1 DEF SpentIds, HeldIds, ids
  <2>4. \A j \in SpentIds(l, d) \cup HeldIds(l, d) : m.entries[j] = l.entries[j]
    BY <2>1 DEF SpentIds, HeldIds, ids
  <2>5. Committed(m, d) = Committed(l, d) /\ Reserved(m, d) = Reserved(l, d)
    BY <1>1, <2>3, <2>4, SameCounts
  <2> QED  BY <1>4, <2>2, <2>5 DEF m, ids
<1>5. CASE i \in ids
  <2> DEFINE counts == e.status \in {"settled", "unknown"}
  <2>1. HasUnknown(m, d) = (HasUnknown(l, d) \/ LostTrack(e, d))
    <3>1. ~LostTrack(l.entries[i], d)  BY <1>3 DEF LostTrack
    <3> QED  BY <1>2, <1>3, <1>5, <3>1 DEF HasUnknown, ids
  <2>2. Overran(m, d) = (Overran(l, d) \/ (counts /\ Get(e.actual, d) > Get(e.reserved, d)))
    BY <1>2, <1>3, <1>5 DEF Overran, ids
  <2>3. i \notin SpentIds(l, d) /\ SpentIds(m, d) = SpentIds(l, d) \cup (IF counts THEN {i} ELSE {})
    BY <1>2, <1>3, <1>5 DEF SpentIds, ids
  <2>4. i \in HeldIds(l, d) /\ HeldIds(m, d) = IF Withheld(e, d) THEN HeldIds(l, d) ELSE HeldIds(l, d) \ {i}
    BY <1>2, <1>3, <1>5 DEF HeldIds, Withheld, ids
  <2>5. SpentIds(l, d) \subseteq DOMAIN l.entries /\ HeldIds(l, d) \subseteq DOMAIN l.entries
        /\ IsFiniteSet(SpentIds(l, d)) /\ IsFiniteSet(HeldIds(l, d))
    BY <1>3, SumsAre DEF SpentIds, HeldIds, ids
  <2>6. /\ \A j \in DOMAIN l.entries : j # i => Used(m, d)[j] = Used(l, d)[j]
        /\ \A j \in DOMAIN l.entries : Asked(m, d)[j] = Asked(l, d)[j]
        /\ Used(m, d)[i] = Get(e.actual, d) /\ Asked(l, d)[i] = Get(e.reserved, d)
        /\ \A j \in DOMAIN l.entries : Used(m, d)[j] \in Nat /\ Asked(m, d)[j] \in Nat
    <3>1. \A j \in DOMAIN l.entries : Used(m, d)[j] \in Nat /\ Asked(m, d)[j] \in Nat
      BY <1>1, <1>3, SumsAre
    <3> QED  BY <1>1, <1>3, <3>1 DEF Used, Asked
  <2>7. Total(Used(m, d), SpentIds(l, d)) = Committed(l, d) /\ Committed(l, d) \in Nat
    <3>1. \A x \in SpentIds(l, d) : Used(m, d)[x] = Used(l, d)[x]  BY <2>3, <2>5, <2>6
    <3>2. Total(Used(m, d), SpentIds(l, d)) = Total(Used(l, d), SpentIds(l, d))
      BY <2>5, <3>1, TotalSame
    <3> QED  BY <3>2, SumsAre
  <2>8. Committed(m, d) = Committed(l, d) + (IF counts THEN Get(e.actual, d) ELSE 0)
    <3>1. CASE counts
      <4>1. i \in SpentIds(m, d) /\ SpentIds(m, d) \ {i} = SpentIds(l, d)
            /\ SpentIds(m, d) \subseteq DOMAIN l.entries
        BY <2>3, <2>5, <3>1
      <4>2. Committed(m, d) = Used(m, d)[i] + Total(Used(m, d), SpentIds(l, d))
        BY <1>1, <2>6, <4>1, SumsAre, TotalWithout
      <4>3. Used(m, d)[i] \in Nat  BY <2>6
      <4> QED  BY <2>6, <2>7, <3>1, <4>2, <4>3
    <3>2. CASE ~counts
      <4>1. SpentIds(m, d) = SpentIds(l, d)  BY <2>3, <3>2
      <4> QED  BY <1>1, <2>7, <3>2, <4>1, SumsAre
    <3> QED  BY <3>1, <3>2
  <2>9. Reserved(l, d) = Reserved(m, d) + (IF Withheld(e, d) THEN 0 ELSE Get(e.reserved, d))
    <3>1. Total(Asked(m, d), HeldIds(m, d)) = Total(Asked(l, d), HeldIds(m, d))
          /\ Reserved(m, d) = Total(Asked(m, d), HeldIds(m, d)) /\ Reserved(m, d) \in Nat
      <4>1. \A x \in HeldIds(m, d) : Asked(m, d)[x] = Asked(l, d)[x]
        BY <2>4, <2>5, <2>6
      <4> QED  BY <1>1, <4>1, SumsAre, TotalSame
    <3>2. CASE Withheld(e, d)
      BY <2>4, <3>1, <3>2, SumsAre
    <3>3. CASE ~Withheld(e, d)
      <4>1. \A x \in HeldIds(l, d) : Asked(l, d)[x] \in Nat  BY <2>5, SumsAre
      <4>2. Reserved(l, d) = Asked(l, d)[i] + Total(Asked(l, d), HeldIds(m, d))
        BY <2>4, <2>5, <3>3, <4>1, SumsAre, TotalWithout
      <4>3. Asked(l, d)[i] \in Nat  BY <2>4, <4>1
      <4> QED  BY <2>6, <3>1, <3>3, <4>2, <4>3
    <3> QED  BY <3>2, <3>3
  <2> QED  BY <1>5, <2>1, <2>2, <2>8, <2>9 DEF m, ids
<1> QED  BY <1>4, <1>5

----------------------------------------------------------------------------
(* The steps of one dimension                                               *)

LEMMA LimitIs ==
  ASSUME NEW l, Sound(l), NEW d
  PROVE  Limit(l, d) \in Nat \cup {NoLimit}
BY DEF Limit, Sound, IsLedger

\* The greatest number of a finite set: no element is above it.
Above(S, x) == {y \in S : y > x}

LEMMA AboveShrinks ==
  ASSUME NEW S, S \subseteq Nat, NEW x \in S, NEW y \in S, y > x
  PROVE  Above(S, y) \subseteq Above(S, x) /\ Above(S, y) # Above(S, x)
<1>1. y \in Above(S, x) /\ y \notin Above(S, y)
  BY DEF Above
<1>2. \A z \in S : z > y => z > x
  OBVIOUS
<1>3. \A z : z \in Above(S, y) => z \in Above(S, x)
  BY <1>2 DEF Above
<1> QED
  BY <1>1, <1>3

LEMMA LeastAbove ==
  ASSUME NEW S, IsFiniteSet(S), S # {}
  PROVE  \E x \in S : \A y \in S : Above(S, y) \subseteq Above(S, x) => Above(S, y) = Above(S, x)
<1> DEFINE T == {Above(S, x) : x \in S}
<1>1. T # {} /\ \A x \in S : Above(S, x) \in T
  OBVIOUS
<1>2. PICK s \in T : \A t \in T : t \subseteq s => t = s
  <2>1. T \subseteq SUBSET S
    BY DEF Above
  <2> HIDE DEF T
  <2> QED
    BY <1>1, <2>1, Minimal
<1>3. PICK x \in S : s = Above(S, x)
  OBVIOUS
<1> HIDE DEF T
<1> QED
  BY <1>1, <1>2, <1>3

LEMMA MaxIs ==
  ASSUME NEW S, IsFiniteSet(S), S # {}, S \subseteq Nat
  PROVE  Max(S) \in S /\ \A x \in S : Max(S) >= x
<1>1. PICK x \in S : \A y \in S : Above(S, y) \subseteq Above(S, x) => Above(S, y) = Above(S, x)
  BY LeastAbove
<1>2. \A y \in S : ~(y > x)
  BY <1>1, AboveShrinks
<1>3. \A y \in S : x >= y
  BY <1>2
<1> QED
  BY <1>3 DEF Max

LEMMA FloorIs ==
  ASSUME Scoped, NEW d
  PROVE  RemainingFloor(d) \in Nat /\ (DOMAIN floors = {} => RemainingFloor(d) = 0)
<1> DEFINE S == {Get(floors[t], d) : t \in DOMAIN floors}
<1>1. IsFiniteSet(S)
  <2> DEFINE f == [t \in DOMAIN floors |-> Get(floors[t], d)]
  <2>1. f \in Surjection(DOMAIN floors, S)
    BY DEF Surjection
  <2> QED
    BY <2>1, FS_Surjection DEF Scoped
<1>2. S \subseteq Nat
  BY GetIs DEF Scoped
<1>3. DOMAIN floors = {} => S = {}
  OBVIOUS
<1> HIDE DEF S
<1> DEFINE Z == {0} \cup S
<1>4. IsFiniteSet(Z)
  <2>1. IsFiniteSet({0})
    BY FS_Singleton
  <2> QED
    BY <1>1, <2>1, FS_Union
<1>5. Z \subseteq Nat /\ Z # {}
  BY <1>2
<1>8. DOMAIN floors = {} => Z = {0}
  BY <1>3
<1>6. RemainingFloor(d) = Max(Z)
  BY DEF RemainingFloor, S
<1> HIDE DEF Z
<1>7. Max(Z) \in Z
  BY <1>4, <1>5, MaxIs
<1> QED
  BY <1>5, <1>6, <1>7, <1>8

\* What a mutation of l into m may mean for d.
Kept(l, m, d) ==
  /\ Committed(m, d) = Committed(l, d) /\ Reserved(m, d) = Reserved(l, d)
  /\ HasUnknown(m, d) = HasUnknown(l, d) /\ Overran(m, d) = Overran(l, d)

\* An entry in flight asks for amount, which no earlier unknown forbids and
\* which is left over.
Admitted(l, m, d, amount) ==
  /\ CheckAvailable(l, d, amount)
  /\ Committed(m, d) = Committed(l, d) /\ Reserved(m, d) = Reserved(l, d) + amount
  /\ HasUnknown(m, d) = HasUnknown(l, d) /\ Overran(m, d) = Overran(l, d)

\* The end of a call gives back and spends what its record says.
Ended(l, m, d, back, use) ==
  /\ Committed(m, d) = Committed(l, d) + use /\ Reserved(l, d) = Reserved(m, d) + back
  /\ HasUnknown(m, d) = HasUnknown(l, d) /\ Overran(m, d) = (Overran(l, d) \/ use > back)

Lost(l, m, d, back) ==
  /\ Committed(m, d) = Committed(l, d) /\ Reserved(l, d) = Reserved(m, d) + back
  /\ HasUnknown(m, d) /\ Overran(m, d) = Overran(l, d)

Renewed(l, m, d) ==
  /\ Limit(m, d) \in Nat \ {0}
  /\ Committed(m, d) = 0 /\ Reserved(m, d) = 0 /\ ~HasUnknown(m, d) /\ ~Overran(m, d)

SameLimit(l, m, d) == Limit(m, d) = Limit(l, d)

LEMMA PutLimits ==
  ASSUME NEW l, Sound(l), NEW i \in Ids, NEW e, NEW d
  PROVE  Limit(Put(l, i, e), d) = Limit(l, d)
<1> DEFINE m == Put(l, i, e)
<1>1. /\ m.limits = l.limits
      /\ m.entries = [j \in DOMAIN l.entries \cup {i} |-> IF j = i THEN e ELSE l.entries[j]]
      /\ m.order = (IF i \in DOMAIN l.entries THEN l.order ELSE Append(l.order, i))
      /\ m = [limits |-> m.limits, entries |-> m.entries, order |-> m.order]
  BY PutParts
<1> HIDE DEF m
<1>2. Limit(m, d) = Limit(l, d)
  BY <1>1 DEF Limit
<1> QED
  BY <1>2 DEF m

LEMMA AreBoolean ==
  ASSUME NEW l, NEW d
  PROVE  HasUnknown(l, d) \in BOOLEAN /\ Overran(l, d) \in BOOLEAN
BY DEF HasUnknown, Overran

LEMMA OpensMeans ==
  ASSUME IInv, NEW i \in Ids, NEW a \in Requests, Opens(i, a), NEW d \in Dims
  PROVE  /\ SameLimit(mem, mem', d)
         /\ \/ Kept(mem, mem', d)
            \/ \E n \in Nat : Admitted(mem, mem', d, n)
<1> DEFINE e == [reserved |-> a, actual |-> NoAmounts, status |-> "reserved", source |-> "none"]
           m == Put(mem, i, e)
<1>1. /\ Fitting(mem, i, e) /\ i \in Ids \ DOMAIN mem.entries /\ mem' = m
      /\ \A x \in DOMAIN a : CheckAvailable(mem, x, a[x])
  BY DEF Opens, Persist
<1>2. e.status = "reserved" /\ e.reserved = a /\ ~IsGrant(e)
  BY DEF IsGrant
<1> HIDE DEF e
<1>3. SameLimit(mem, m, d)
  BY PutLimits DEF IInv, SameLimit
<1>4. /\ Committed(m, d) = Committed(mem, d)
      /\ Reserved(m, d) = Reserved(mem, d) + Get(a, d)
      /\ HasUnknown(m, d) = HasUnknown(mem, d) /\ Overran(m, d) = Overran(mem, d)
  BY <1>1, <1>2, NewCounts DEF IInv
<1>5. Get(a, d) \in Nat /\ (d \notin DOMAIN a => Get(a, d) = 0) /\ (d \in DOMAIN a => Get(a, d) = a[d])
  BY GetIs, LedgerAssumption DEF Get
<1> HIDE DEF m
<1>7. CASE d \in DOMAIN a
  <2>1. Admitted(mem, m, d, Get(a, d))
    BY <1>1, <1>4, <1>5, <1>7 DEF Admitted
  <2> QED
    BY <1>1, <1>3, <1>5, <2>1
<1>8. CASE d \notin DOMAIN a
  <2>1. Reserved(mem, d) \in Nat
    BY SumsAre DEF IInv
  <2>2. Kept(mem, m, d)
    BY <1>4, <1>5, <1>8, <2>1 DEF Kept
  <2> QED
    BY <1>1, <1>3, <2>2
<1> QED
  BY <1>7, <1>8

LEMMA ClosesMeans ==
  ASSUME IInv, NEW i \in Ids, NEW e, Closes(i, e), NEW d \in Dims
  PROVE  /\ SameLimit(mem, mem', d)
         /\ \/ Kept(mem, mem', d)
            \/ \E n \in Nat : Lost(mem, mem', d, n)
            \/ \E n, u \in Nat : /\ Ended(mem, mem', d, n, u)
                                 /\ u > n => /\ i \in AllowanceIds(mem, d)
                                             /\ e.status \in {"settled", "unknown"}
                                             /\ u = Get(e.actual, d) /\ Get(e.actual, d) > Get(e.reserved, d)
<1> DEFINE m == Put(mem, i, e)
           back == IF Withheld(e, d) THEN 0 ELSE Get(e.reserved, d)
           counts == e.status \in {"settled", "unknown"}
           use == IF counts THEN Get(e.actual, d) ELSE 0
<1>1. /\ Fitting(mem, i, e) /\ i \in DOMAIN mem.entries /\ mem' = m
      /\ e.reserved = mem.entries[i].reserved /\ mem.entries[i].status = "reserved"
      /\ e.status \in {"settled", "released", "unknown"}
      /\ e.status = "settled" => DOMAIN e.reserved \subseteq DOMAIN e.actual
  BY DEF Closes, Persist
<1>2. SameLimit(mem, m, d)
  BY PutLimits DEF IInv, SameLimit
<1>3. /\ i \notin AllowanceIds(mem, d) =>
           /\ Committed(m, d) = Committed(mem, d) /\ Reserved(m, d) = Reserved(mem, d)
           /\ HasUnknown(m, d) = HasUnknown(mem, d) /\ Overran(m, d) = Overran(mem, d)
      /\ i \in AllowanceIds(mem, d) =>
           /\ Committed(m, d) = Committed(mem, d) + use
           /\ Reserved(mem, d) = Reserved(m, d) + back
           /\ HasUnknown(m, d) = (HasUnknown(mem, d) \/ LostTrack(e, d))
           /\ Overran(m, d) = (Overran(mem, d) \/ (counts /\ Get(e.actual, d) > Get(e.reserved, d)))
  BY <1>1, ClosedCounts DEF IInv
<1>4. Get(e.actual, d) \in Nat /\ Get(e.reserved, d) \in Nat
  BY <1>1, GetIs DEF Fitting, IsEntry
<1>5. back \in Nat /\ use \in Nat
  BY <1>4
<1>6. d \notin DOMAIN e.actual => Get(e.actual, d) = 0
  BY DEF Get
<1> HIDE DEF m
<1>7. CASE i \notin AllowanceIds(mem, d)
  BY <1>1, <1>2, <1>3, <1>7 DEF Kept
<1>8. CASE i \in AllowanceIds(mem, d) /\ LostTrack(e, d)
  <2>1. use = 0 /\ ~(Get(e.actual, d) > Get(e.reserved, d))
    BY <1>4, <1>6, <1>8 DEF LostTrack
  <2>2. Committed(mem, d) \in Nat
    BY SumsAre DEF IInv
  <2> HIDE DEF use, back
  <2>3. Committed(m, d) = Committed(mem, d) /\ Reserved(mem, d) = Reserved(m, d) + back
    BY <1>3, <1>8, <2>1, <2>2
  <2>4. HasUnknown(m, d) /\ Overran(m, d) = Overran(mem, d)
    BY <1>3, <1>8, <2>1, AreBoolean, Zenon
  <2>5. Lost(mem, m, d, back)
    BY <2>3, <2>4 DEF Lost
  <2> QED
    BY <1>1, <1>2, <1>5, <2>5
<1>9. CASE i \in AllowanceIds(mem, d) /\ ~LostTrack(e, d)
  <2>1. (use > back) = (counts /\ Get(e.actual, d) > Get(e.reserved, d))
    <3>1. CASE Withheld(e, d)
      <4>1. d \notin DOMAIN e.actual
        BY <1>1, <3>1 DEF Withheld
      <4>2. Get(e.actual, d) = 0
        BY <1>6, <4>1
      <4> QED
        BY <1>4, <3>1, <4>2
    <3>2. CASE ~Withheld(e, d)
      BY <1>4, <3>2
    <3> QED
      BY <3>1, <3>2
  <2>2. use > back => use = Get(e.actual, d) /\ counts
    BY <2>1
  <2> HIDE DEF use, back, counts
  <2>5. Committed(m, d) = Committed(mem, d) + use /\ Reserved(mem, d) = Reserved(m, d) + back
    BY <1>3, <1>9
  <2>6. HasUnknown(m, d) = HasUnknown(mem, d)
    BY <1>3, <1>9, AreBoolean, Zenon
  <2>7. Overran(m, d) = (Overran(mem, d) \/ use > back)
    BY <1>3, <1>9, <2>1, Zenon
  <2>3. Ended(mem, m, d, back, use)
    BY <2>5, <2>6, <2>7 DEF Ended
  <2>4. use > back => /\ i \in AllowanceIds(mem, d)
                      /\ e.status \in {"settled", "unknown"}
                      /\ use = Get(e.actual, d) /\ Get(e.actual, d) > Get(e.reserved, d)
    BY <1>9, <2>1, <2>2 DEF counts
  <2> QED
    BY <1>1, <1>2, <1>5, <2>3, <2>4
<1> QED
  BY <1>7, <1>8, <1>9

LEMMA GrantMeans ==
  ASSUME IInv, NEW i \in Ids, NEW g \in Grants, Grant(i, g), NEW d \in Dims
  PROVE  Renewed(mem, mem', d) \/ (SameLimit(mem, mem', d) /\ Kept(mem, mem', d))
<1> DEFINE e == [reserved |-> g, actual |-> NoAmounts, status |-> "released", source |-> "user_authorization"]
           opened == Put(mem, i, e)
           l == [opened EXCEPT !.limits = [x \in DOMAIN @ |-> IF x \in DOMAIN g THEN g[x] ELSE @[x]]]
<1>1. /\ Fitting(mem, i, e) /\ i \in Ids \ DOMAIN mem.entries /\ mem' = l
      /\ DOMAIN g \subseteq DOMAIN mem.limits
  BY DEF Grant, Persist
<1>2. e.status = "released" /\ e.reserved = g /\ IsGrant(e)
  BY DEF IsGrant
<1> HIDE DEF e
<1>3. /\ d \in DOMAIN g => /\ Committed(opened, d) = 0 /\ Reserved(opened, d) = 0
                           /\ ~HasUnknown(opened, d) /\ ~Overran(opened, d)
      /\ d \notin DOMAIN g =>
           /\ Committed(opened, d) = Committed(mem, d)
           /\ Reserved(opened, d) = Reserved(mem, d) + 0
           /\ HasUnknown(opened, d) = HasUnknown(mem, d) /\ Overran(opened, d) = Overran(mem, d)
  BY <1>1, <1>2, NewCounts DEF IInv
<1>4. Sound(opened) /\ Limit(opened, d) = Limit(mem, d)
  BY <1>1, PutSound, PutLimits DEF IInv
<1>5. opened.limits = mem.limits
  <2>1. /\ opened.limits = mem.limits
        /\ opened.entries = [j \in DOMAIN mem.entries \cup {i} |-> IF j = i THEN e ELSE mem.entries[j]]
        /\ opened.order = (IF i \in DOMAIN mem.entries THEN mem.order ELSE Append(mem.order, i))
        /\ opened = [limits |-> opened.limits, entries |-> opened.entries, order |-> opened.order]
    BY PutParts DEF IInv
  <2> QED
    BY <2>1
<1> HIDE DEF opened
<1>6. Sound(l) /\ l.entries = opened.entries /\ l.order = opened.order /\ Limited(opened, l, g)
  BY <1>4, LimitsSound
<1> HIDE DEF l
<1>7. AllowanceIds(l, d) = AllowanceIds(opened, d)
  BY <1>6 DEF AllowanceIds
<1>8. HasUnknown(l, d) = HasUnknown(opened, d) /\ Overran(l, d) = Overran(opened, d)
  BY <1>6, <1>7 DEF HasUnknown, Overran
<1>9. Committed(l, d) = Committed(opened, d) /\ Reserved(l, d) = Reserved(opened, d)
  BY <1>6, <1>7 DEF Committed, Reserved
<1>10. CASE d \in DOMAIN g
  <2>1. Limit(l, d) = g[d]
    BY <1>1, <1>5, <1>6, <1>10 DEF Limit, Limited
  <2>2. g[d] \in Nat \ {0}
    BY <1>10, LedgerAssumption DEF IsAmounts
  <2> QED
    BY <1>1, <1>3, <1>8, <1>9, <1>10, <2>1, <2>2 DEF Renewed
<1>11. CASE d \notin DOMAIN g
  <2>1. Limit(l, d) = Limit(opened, d)
    BY <1>6, <1>11 DEF Limit, Limited
  <2>2. Reserved(mem, d) \in Nat
    BY SumsAre DEF IInv
  <2>3. SameLimit(mem, l, d)
    BY <1>4, <2>1 DEF SameLimit
  <2>4. Kept(mem, l, d)
    BY <1>3, <1>8, <1>9, <1>11, <2>2 DEF Kept
  <2> QED
    BY <1>1, <2>3, <2>4
<1> QED
  BY <1>10, <1>11

\* What a step may mean for d, restarts aside.
Moves(l, m, d) ==
  \/ Renewed(l, m, d)
  \/ /\ SameLimit(l, m, d)
     /\ \/ Kept(l, m, d)
        \/ \E n \in Nat : Admitted(l, m, d, n)
        \/ \E n, u \in Nat : Ended(l, m, d, n, u)
        \/ \E n \in Nat : Lost(l, m, d, n)

LEMMA StepMoves ==
  ASSUME IInv, [Next]_vars, NEW d \in Dims
  PROVE  Moves(mem, mem', d) \/ (mem' = disk /\ disk' = disk)
<1>1. ASSUME NEW i \in Ids, NEW a \in Requests, Opens(i, a)
      PROVE  Moves(mem, mem', d)
  BY <1>1, OpensMeans DEF Moves
<1>2. ASSUME NEW i \in Ids, NEW e, Closes(i, e)
      PROVE  Moves(mem, mem', d)
  <2>1. /\ SameLimit(mem, mem', d)
        /\ \/ Kept(mem, mem', d)
           \/ \E n \in Nat : Lost(mem, mem', d, n)
           \/ \E n, u \in Nat : /\ Ended(mem, mem', d, n, u)
                                /\ u > n => /\ i \in AllowanceIds(mem, d)
                                            /\ e.status \in {"settled", "unknown"}
                                            /\ u = Get(e.actual, d) /\ Get(e.actual, d) > Get(e.reserved, d)
    BY <1>2, ClosesMeans
  <2> QED
    BY <2>1 DEF Moves
<1>3. ASSUME NEW i \in Ids, NEW g \in Grants, Grant(i, g)
      PROVE  Moves(mem, mem', d)
  BY <1>3, GrantMeans DEF Moves
<1>4. CASE mem' = mem
  BY <1>4 DEF Moves, SameLimit, Kept
<1> QED
  BY <1>1, <1>2, <1>3, <1>4, StepIs DEF vars

\* Spent and held amounts of one ledger are within its limit in d.
Within(l, d) == Limit(l, d) # NoLimit /\ ~Overran(l, d) => Available(l, d) >= 0

LEMMA MovesWithin ==
  ASSUME IInv, NEW m, Sound(m), NEW d \in Dims, Within(mem, d), Moves(mem, m, d)
  PROVE  Within(m, d)
<1>1. /\ Committed(m, d) \in Nat /\ Reserved(m, d) \in Nat
      /\ Committed(mem, d) \in Nat /\ Reserved(mem, d) \in Nat
      /\ RemainingFloor(d) \in Nat
  BY SumsAre, FloorIs DEF IInv
<1>2. Limit(m, d) \in Nat \cup {NoLimit}
  BY LimitIs
<1> SUFFICES ASSUME Limit(m, d) # NoLimit, ~Overran(m, d)
             PROVE  Available(m, d) >= 0
  BY DEF Within
<1>3. CASE Renewed(mem, m, d)
  BY <1>1, <1>2, <1>3 DEF Renewed, Available
<1>4. CASE SameLimit(mem, m, d) /\ Kept(mem, m, d)
  BY <1>1, <1>2, <1>4 DEF SameLimit, Kept, Within, Available
<1>5. ASSUME SameLimit(mem, m, d), NEW n \in Nat, Admitted(mem, m, d, n)
      PROVE  Available(m, d) >= 0
  <2>1. Available(mem, d) >= 0 /\ Limit(mem, d) # NoLimit /\ Limit(mem, d) \in Nat
    BY <1>2, <1>5 DEF SameLimit, Admitted, Within
  <2>2. n > 0 => n <= Available(mem, d) - RemainingFloor(d)
    BY <1>5, <2>1 DEF Admitted, CheckAvailable
  <2>3. /\ Limit(m, d) = Limit(mem, d) /\ Committed(m, d) = Committed(mem, d)
        /\ Reserved(m, d) = Reserved(mem, d) + n
    BY <1>5 DEF SameLimit, Admitted
  <2> QED
    BY <1>1, <1>5, <2>1, <2>2, <2>3 DEF Available
<1>6. ASSUME SameLimit(mem, m, d), NEW n \in Nat, NEW u \in Nat, Ended(mem, m, d, n, u)
      PROVE  Available(m, d) >= 0
  <2>1. ~Overran(mem, d) /\ ~(u > n)
    BY <1>6 DEF Ended
  <2>2. Available(mem, d) >= 0 /\ Limit(mem, d) \in Nat
    BY <1>2, <1>6, <2>1 DEF SameLimit, Within
  <2>3. /\ Limit(m, d) = Limit(mem, d) /\ Committed(m, d) = Committed(mem, d) + u
        /\ Reserved(mem, d) = Reserved(m, d) + n
    BY <1>6 DEF SameLimit, Ended
  <2> QED
    BY <1>1, <1>6, <2>1, <2>2, <2>3 DEF Available
<1>7. ASSUME SameLimit(mem, m, d), NEW n \in Nat, Lost(mem, m, d, n)
      PROVE  Available(m, d) >= 0
  <2>1. Available(mem, d) >= 0 /\ Limit(mem, d) \in Nat
    BY <1>2, <1>7 DEF SameLimit, Lost, Within
  <2>3. /\ Limit(m, d) = Limit(mem, d) /\ Committed(m, d) = Committed(mem, d)
        /\ Reserved(mem, d) = Reserved(m, d) + n
    BY <1>7 DEF SameLimit, Lost
  <2> QED
    BY <1>1, <1>7, <2>1, <2>3 DEF Available
<1> QED
  BY <1>3, <1>4, <1>5, <1>6, <1>7 DEF Moves

LEMMA StepStaysWithin ==
  ASSUME IInv, WithinAllowance, [Next]_vars
  PROVE  WithinAllowance'
<1>1. Grows
  BY StepGrows
<1>2. disk' \in {disk, mem, mem'}
  BY StepIs DEF Opens, Closes, Grant, Persist, vars
<1>3. ASSUME NEW d \in Dims PROVE Within(mem', d) /\ Within(disk, d) /\ Within(mem, d)
  <2>1. Within(mem, d) /\ Within(disk, d)
    BY DEF WithinAllowance, Within
  <2>2. Moves(mem, mem', d) => Within(mem', d)
    BY <1>1, <2>1, MovesWithin DEF Grows
  <2> QED
    BY <2>1, <2>2, StepMoves
<1>4. \A l \in {mem', disk'} : \A d \in Dims : Within(l, d)
  BY <1>2, <1>3
<1> QED
  BY <1>4 DEF WithinAllowance, Within

LEMMA EmptyCounts ==
  ASSUME NEW l, Sound(l), DOMAIN l.entries = {}, NEW d
  PROVE  Committed(l, d) = 0 /\ Reserved(l, d) = 0 /\ ~HasUnknown(l, d) /\ ~Overran(l, d)
<1>1. AllowanceIds(l, d) = {}
  BY CountedIs
<1>2. SpentIds(l, d) = {} /\ HeldIds(l, d) = {}
  BY <1>1 DEF SpentIds, HeldIds
<1>3. \A f : Total(f, {}) = 0
  BY FS_EmptySet, TotalUnfolds
<1> QED
  BY <1>1, <1>2, <1>3, SumsAre DEF HasUnknown, Overran

LEMMA InitCounts ==
  ASSUME Init, NEW d
  PROVE  /\ Committed(mem, d) = 0 /\ Reserved(mem, d) = 0 /\ ~HasUnknown(mem, d) /\ ~Overran(mem, d)
         /\ disk = mem
<1>1. Sound(mem) /\ disk = mem /\ mem.entries = [i \in {} |-> NewEntry(NoAmounts)]
  BY InitInv DEF IInv, Init, EmptyLedger
<1>2. DOMAIN mem.entries = {}
  BY <1>1
<1> QED
  BY <1>1, <1>2, EmptyCounts

\* Whatever is reserved, settled, lost or granted, and whichever file a
\* restart loads: spent and held amounts stay within the allowance in force
\* unless a call used more than it had reserved (reserve, _check_available).
THEOREM LedgerStaysWithin == Spec => []WithinAllowance
<1>1. Init => WithinAllowance
  <2> SUFFICES ASSUME Init PROVE WithinAllowance
    OBVIOUS
  <2>1. ASSUME NEW d \in Dims PROVE Within(mem, d)
    <3>1. Limit(mem, d) \in Nat \cup {NoLimit}
      BY InitInv, LimitIs DEF IInv
    <3> QED
      BY <3>1, InitCounts DEF Within, Available
  <2>2. disk = mem
    BY InitCounts
  <2> QED
    BY <2>1, <2>2 DEF WithinAllowance, Within
<1>2. IInv /\ WithinAllowance /\ [Next]_vars => WithinAllowance'
  BY StepStaysWithin
<1> QED
  BY <1>1, <1>2, Always, PTL DEF Spec

\* A call in d of the allowance in force that used more than it had reserved.
UsedMore(l, m, d) ==
  \E i \in AllowanceIds(l, d) :
    /\ l.entries[i].status = "reserved"
    /\ m.entries[i].status \in {"settled", "unknown"}
    /\ Get(m.entries[i].actual, d) > Get(l.entries[i].reserved, d)

\* With the floor as it was, what is available reaches below it only so.
LEMMA MovesAboveFloor ==
  ASSUME IInv, NEW m, Sound(m), NEW d \in Dims, Moves(mem, m, d),
         Limit(mem, d) # NoLimit, SameLimit(mem, m, d), Available(mem, d) >= RemainingFloor(d),
         ~(\E n, u \in Nat : u > n /\ Ended(mem, m, d, n, u))
  PROVE  ~(Available(m, d) < RemainingFloor(d))
<1>1. /\ Committed(m, d) \in Nat /\ Reserved(m, d) \in Nat
      /\ Committed(mem, d) \in Nat /\ Reserved(mem, d) \in Nat
      /\ RemainingFloor(d) \in Nat
  BY SumsAre, FloorIs DEF IInv
<1>2. Limit(mem, d) \in Nat /\ Limit(m, d) = Limit(mem, d)
  BY LimitIs DEF IInv, SameLimit
<1>3. CASE Renewed(mem, m, d)
  BY <1>1, <1>2, <1>3 DEF Renewed, Available
<1>4. CASE Kept(mem, m, d)
  BY <1>1, <1>2, <1>4 DEF Kept, Available
<1>5. ASSUME NEW n \in Nat, Admitted(mem, m, d, n)
      PROVE  ~(Available(m, d) < RemainingFloor(d))
  <2>1. n > 0 => n <= Available(mem, d) - RemainingFloor(d)
    BY <1>5 DEF Admitted, CheckAvailable
  <2>2. Committed(m, d) = Committed(mem, d) /\ Reserved(m, d) = Reserved(mem, d) + n
    BY <1>5 DEF Admitted
  <2> QED
    BY <1>1, <1>2, <2>1, <2>2 DEF Available
<1>6. ASSUME NEW n \in Nat, NEW u \in Nat, Ended(mem, m, d, n, u)
      PROVE  ~(Available(m, d) < RemainingFloor(d))
  <2>1. ~(u > n)
    BY <1>6
  <2>2. Committed(m, d) = Committed(mem, d) + u /\ Reserved(mem, d) = Reserved(m, d) + n
    BY <1>6 DEF Ended
  <2> QED
    BY <1>1, <1>2, <2>1, <2>2 DEF Available
<1>7. ASSUME NEW n \in Nat, Lost(mem, m, d, n)
      PROVE  ~(Available(m, d) < RemainingFloor(d))
  <2>1. Committed(m, d) = Committed(mem, d) /\ Reserved(mem, d) = Reserved(m, d) + n
    BY <1>7 DEF Lost
  <2> QED
    BY <1>1, <1>2, <2>1 DEF Available
<1> QED
  BY <1>3, <1>4, <1>5, <1>6, <1>7 DEF Moves

LEMMA StepAboveFloor ==
  ASSUME IInv, [Next]_vars, NEW d \in Dims,
         Limit(mem, d) # NoLimit, floors' = floors, Limit(mem', d) = Limit(mem, d),
         RemainingFloor(d) > 0, Available(mem, d) >= RemainingFloor(d),
         Available(mem', d) < RemainingFloor(d)
  PROVE  UsedMore(mem, mem', d)
<1>1. Sound(mem') /\ SameLimit(mem, mem', d)
  BY StepGrows DEF Grows, SameLimit
<1>2. ASSUME NEW i \in Ids, NEW a \in Requests, Opens(i, a)
      PROVE  FALSE
  <2>1. /\ SameLimit(mem, mem', d)
        /\ \/ Kept(mem, mem', d)
           \/ \E n \in Nat : Admitted(mem, mem', d, n)
    BY <1>2, OpensMeans
  <2>2. ASSUME NEW n \in Nat, NEW u \in Nat, u > n, Ended(mem, mem', d, n, u) PROVE FALSE
    <3>1. /\ Committed(mem, d) \in Nat /\ Reserved(mem, d) \in Nat /\ Reserved(mem', d) \in Nat
      BY <1>1, SumsAre DEF IInv
    <3>2. Committed(mem', d) = Committed(mem, d) /\ Reserved(mem', d) >= Reserved(mem, d)
      BY <2>1, <3>1 DEF Kept, Admitted
    <3>3. Committed(mem', d) = Committed(mem, d) + u
      BY <2>2 DEF Ended
    <3> QED
      BY <2>2, <3>1, <3>2, <3>3
  <2>3. Moves(mem, mem', d)
    BY <2>1 DEF Moves
  <2> QED
    BY <1>1, <2>2, <2>3, MovesAboveFloor
<1>3. ASSUME NEW i \in Ids, NEW e, Closes(i, e)
      PROVE  UsedMore(mem, mem', d)
  <2>1. /\ SameLimit(mem, mem', d)
        /\ \/ Kept(mem, mem', d)
           \/ \E n \in Nat : Lost(mem, mem', d, n)
           \/ \E n, u \in Nat : /\ Ended(mem, mem', d, n, u)
                                /\ u > n => /\ i \in AllowanceIds(mem, d)
                                            /\ e.status \in {"settled", "unknown"}
                                            /\ u = Get(e.actual, d) /\ Get(e.actual, d) > Get(e.reserved, d)
    BY <1>3, ClosesMeans
  <2>2. /\ mem.entries[i].status = "reserved" /\ e.reserved = mem.entries[i].reserved
        /\ mem'.entries[i] = e
    <3>1. /\ mem' = Put(mem, i, e) /\ i \in Ids /\ Sound(mem)
          /\ mem.entries[i].status = "reserved" /\ e.reserved = mem.entries[i].reserved
      BY <1>3 DEF Closes, Persist, IInv
    <3>2. Put(mem, i, e).entries = [j \in DOMAIN mem.entries \cup {i} |-> IF j = i THEN e ELSE mem.entries[j]]
      BY <3>1, PutParts
    <3>3. Put(mem, i, e).entries[i] = e
      BY <3>2
    <3> QED
      BY <3>1, <3>3
  <2>3. CASE \E n, u \in Nat : u > n /\ Ended(mem, mem', d, n, u)
    <3>1. Committed(mem, d) \in Nat /\ Reserved(mem, d) \in Nat /\ Committed(mem', d) \in Nat /\ Reserved(mem', d) \in Nat
      BY <1>1, SumsAre DEF IInv
    <3>2. Committed(mem', d) - Committed(mem, d) > Reserved(mem, d) - Reserved(mem', d)
      BY <2>3, <3>1 DEF Ended
    <3>3. PICK n \in Nat, u \in Nat :
                 /\ Ended(mem, mem', d, n, u)
                 /\ u > n => /\ i \in AllowanceIds(mem, d)
                             /\ e.status \in {"settled", "unknown"}
                             /\ u = Get(e.actual, d) /\ Get(e.actual, d) > Get(e.reserved, d)
      BY <2>1, <3>1, <3>2 DEF Kept, Lost
    <3>4. u > n
      BY <3>1, <3>2, <3>3 DEF Ended
    <3> QED
      BY <2>2, <3>3, <3>4 DEF UsedMore
  <2>4. CASE ~(\E n, u \in Nat : u > n /\ Ended(mem, mem', d, n, u))
    <3>1. Moves(mem, mem', d)
      BY <2>1 DEF Moves
    <3> QED
      BY <1>1, <2>4, <3>1, MovesAboveFloor
  <2> QED
    BY <2>3, <2>4
<1>4. ASSUME NEW i \in Ids, NEW g \in Grants, Grant(i, g)
      PROVE  FALSE
  <2>1. Renewed(mem, mem', d) \/ (SameLimit(mem, mem', d) /\ Kept(mem, mem', d))
    BY <1>4, GrantMeans
  <2>2. Moves(mem, mem', d)
    BY <2>1 DEF Moves
  <2>3. ASSUME NEW n \in Nat, NEW u \in Nat, u > n, Ended(mem, mem', d, n, u) PROVE FALSE
    <3>1. /\ Committed(mem, d) \in Nat /\ Reserved(mem, d) \in Nat /\ Reserved(mem', d) \in Nat
      BY <1>1, SumsAre DEF IInv
    <3>2. Committed(mem', d) = 0 \/ Committed(mem', d) = Committed(mem, d)
      BY <2>1 DEF Renewed, Kept
    <3>3. Committed(mem', d) = Committed(mem, d) + u /\ u > 0
      BY <2>3 DEF Ended
    <3> QED
      BY <3>1, <3>2, <3>3
  <2> QED
    BY <1>1, <2>2, <2>3, MovesAboveFloor
<1>5. CASE mem' = mem
  <2>1. Available(mem, d) \in Int /\ RemainingFloor(d) \in Nat
    <3>1. Committed(mem, d) \in Nat /\ Reserved(mem, d) \in Nat /\ Limit(mem, d) \in Nat
      BY SumsAre, LimitIs DEF IInv
    <3> QED
      BY <3>1, FloorIs DEF Available, IInv
  <2> QED
    BY <1>5, <2>1
<1>6. CASE floors' = [t \in {} |-> NoAmounts]
  <2>1. DOMAIN floors = {}
    BY <1>6
  <2> QED
    BY <2>1, FloorIs DEF IInv
<1> QED
  BY <1>2, <1>3, <1>4, <1>5, <1>6, StepIs DEF vars

\* Capacity a scope protects goes to no new reservation and no grant takes it
\* away: only a call that used more than it had reserved reaches into it
\* (protect_remaining, _check_available).
THEOREM ProtectedCapacityStays == Spec => FloorSurvives
<1>1. IInv /\ [Next]_vars =>
        [\A d \in Dims :
           /\ Limit(mem, d) # NoLimit
           /\ floors' = floors /\ Limit(mem', d) = Limit(mem, d)
           /\ RemainingFloor(d) > 0 /\ Available(mem, d) >= RemainingFloor(d)
           /\ Available(mem', d) < RemainingFloor(d)
           => \E i \in AllowanceIds(mem, d) :
                /\ mem.entries[i].status = "reserved"
                /\ mem'.entries[i].status \in {"settled", "unknown"}
                /\ Get(mem'.entries[i].actual, d) > Get(mem.entries[i].reserved, d)]_vars
  BY StepAboveFloor DEF UsedMore
<1> QED
  BY <1>1, Always, PTL DEF Spec, FloorSurvives

----------------------------------------------------------------------------
(* The promise of BudgetAllowance                                           *)

\* With every write done, the file is the object.
Saved == disk = mem

LEMMA StepSaves ==
  ASSUME IInv, Saved, WritesFail = FALSE, [Next]_vars
  PROVE  Saved'
<1>1. ASSUME NEW l, Persist(l) PROVE Saved'
  BY <1>1 DEF Persist, Saved
<1>2. CASE \E i \in Ids, a \in Requests : Opens(i, a)
  BY <1>1, <1>2 DEF Opens
<1>3. CASE \E i \in Ids : \E e : Closes(i, e)
  BY <1>1, <1>3 DEF Closes
<1>4. CASE \E i \in Ids, g \in Grants : Grant(i, g)
  BY <1>1, <1>4 DEF Grant
<1>5. CASE \/ mem' = mem /\ disk' \in {disk, mem}
           \/ mem' = disk /\ disk' = disk
  BY <1>5 DEF Saved
<1> QED
  BY <1>2, <1>3, <1>4, <1>5, StepIs DEF vars

\* One dimension's move is a step of the promise there.
LEMMA MoveIsPromised ==
  ASSUME IInv, NEW d \in Dims, Sound(mem'), Moves(mem, mem', d)
  PROVE  Allowance!DimStep(d)
<1>1. /\ Committed(mem', d) \in Nat /\ Reserved(mem', d) \in Nat
      /\ Committed(mem, d) \in Nat /\ Reserved(mem, d) \in Nat
      /\ RemainingFloor(d) \in Nat
  BY SumsAre, FloorIs DEF IInv
<1>2. Limit(mem, d) \in Nat \cup {NoLimit}
  BY LimitIs DEF IInv
<1>3. CASE Renewed(mem, mem', d)
  <2>1. Allowance!Renew(d)
    BY <1>3 DEF Renewed, Allowance!Renew
  <2> QED
    BY <2>1 DEF Allowance!DimStep
<1>4. CASE SameLimit(mem, mem', d) /\ Kept(mem, mem', d)
  <2>1. Allowance!Idle(d)
    BY <1>4 DEF SameLimit, Kept, Allowance!Idle
  <2> QED
    BY <2>1 DEF Allowance!DimStep
<1>5. ASSUME SameLimit(mem, mem', d), NEW n \in Nat, Admitted(mem, mem', d, n)
      PROVE  Allowance!DimStep(d)
  <2>1. Reserved(mem', d) >= Reserved(mem, d)
    BY <1>1, <1>5 DEF Admitted
  <2>2. ASSUME Limit(mem, d) # NoLimit
        PROVE  /\ ~HasUnknown(mem, d)
               /\ Reserved(mem', d) > Reserved(mem, d) => Committed(mem, d) + Reserved(mem', d) <= Limit(mem, d)
    <3>1. ~HasUnknown(mem, d) /\ (n > 0 => n <= Available(mem, d) - RemainingFloor(d))
      BY <1>5, <2>2 DEF Admitted, CheckAvailable
    <3>2. Reserved(mem', d) = Reserved(mem, d) + n
      BY <1>5 DEF Admitted
    <3> QED
      BY <1>1, <1>2, <2>2, <3>1, <3>2 DEF Available
  <2>3. /\ Limit(mem', d) = Limit(mem, d) /\ Committed(mem', d) = Committed(mem, d)
        /\ HasUnknown(mem', d) = HasUnknown(mem, d) /\ Overran(mem', d) = Overran(mem, d)
    BY <1>5 DEF SameLimit, Admitted
  <2>4. Allowance!Hold(d)
    BY <2>1, <2>2, <2>3 DEF Allowance!Hold
  <2> QED
    BY <2>4 DEF Allowance!DimStep
<1>6. ASSUME SameLimit(mem, mem', d), NEW n \in Nat, NEW u \in Nat, Ended(mem, mem', d, n, u)
      PROVE  Allowance!DimStep(d)
  <2>1. Reserved(mem', d) <= Reserved(mem, d) /\ Committed(mem', d) >= Committed(mem, d)
    BY <1>1, <1>6 DEF Ended
  <2>2. (Committed(mem', d) - Committed(mem, d) > Reserved(mem, d) - Reserved(mem', d)) = (u > n)
    BY <1>1, <1>6 DEF Ended
  <2>3. /\ Limit(mem', d) = Limit(mem, d)
        /\ HasUnknown(mem', d) = HasUnknown(mem, d)
        /\ Overran(mem', d) = (Overran(mem, d) \/ u > n)
    BY <1>6 DEF SameLimit, Ended
  <2>4. Overran(mem', d) = (Overran(mem, d) \/ Committed(mem', d) - Committed(mem, d)
                                                 > Reserved(mem, d) - Reserved(mem', d))
    BY <2>2, <2>3, Zenon
  <2>5. Allowance!Resolve(d)
    BY <2>1, <2>3, <2>4 DEF Allowance!Resolve
  <2> QED
    BY <2>5 DEF Allowance!DimStep
<1>7. ASSUME SameLimit(mem, mem', d), NEW n \in Nat, Lost(mem, mem', d, n)
      PROVE  Allowance!DimStep(d)
  <2>1. /\ Reserved(mem', d) <= Reserved(mem, d) /\ Committed(mem', d) = Committed(mem, d)
        /\ Limit(mem', d) = Limit(mem, d) /\ HasUnknown(mem', d) /\ Overran(mem', d) = Overran(mem, d)
    BY <1>1, <1>7 DEF Lost, SameLimit
  <2>2. Allowance!Lose(d)
    BY <2>1 DEF Allowance!Lose
  <2> QED
    BY <2>2 DEF Allowance!DimStep
<1> QED
  BY <1>3, <1>4, <1>5, <1>6, <1>7 DEF Moves

LEMMA StepIsPromised ==
  ASSUME IInv, Saved, WritesFail = FALSE, [Next]_vars
  PROVE  Allowance!Next
<1>1. Sound(mem')
  BY StepGrows DEF Grows
<1>2. ASSUME NEW d \in Dims PROVE Moves(mem, mem', d)
  <2>1. mem' = mem => Moves(mem, mem', d)
    BY DEF Moves, SameLimit, Kept
  <2> QED
    BY <2>1, StepMoves DEF Saved
<1>3. \A d \in Dims : Allowance!DimStep(d)
  BY <1>1, <1>2, MoveIsPromised
<1>4. ASSUME NEW d \in Dims
      PROVE  /\ Committed(mem', d) \in Nat /\ Reserved(mem', d) \in Nat
             /\ Limit(mem', d) \in Nat \cup {NoLimit}
             /\ HasUnknown(mem', d) \in BOOLEAN /\ Overran(mem', d) \in BOOLEAN
  BY <1>1, SumsAre, LimitIs, AreBoolean
<1> QED
  BY <1>3, <1>4 DEF Allowance!Next

\* As long as its writes succeed, the ledger keeps the promise: every
\* dimension only idles, admits a call that fits, ends one, loses track of
\* one, or is granted anew (core/budget.py).
THEOREM LedgerKeepsThePromise ==
  ASSUME WritesFail = FALSE
  PROVE  Spec => ImplementsAllowance
<1>1. Init => Saved /\ Allowance!Init
  <2> SUFFICES ASSUME Init PROVE Saved /\ Allowance!Init
    OBVIOUS
  <2>1. ASSUME NEW d \in Dims
        PROVE  /\ Limit(mem, d) \in Nat \cup {NoLimit} /\ Committed(mem, d) = 0 /\ Reserved(mem, d) = 0
               /\ HasUnknown(mem, d) = FALSE /\ Overran(mem, d) = FALSE
    BY InitInv, LimitIs, InitCounts, AreBoolean DEF IInv
  <2>2. Saved
    BY InitCounts DEF Saved
  <2> QED
    BY <2>1, <2>2 DEF Allowance!Init
<1>2. IInv /\ Saved /\ [Next]_vars => Saved' /\ [Allowance!Next]_(Allowance!vars)
  BY StepSaves, StepIsPromised
<1> QED
  BY <1>1, <1>2, Always, PTL DEF Spec, ImplementsAllowance, Allowance!Spec

----------------------------------------------------------------------------
(* What the promise itself is worth: the two properties every kept promise  *)
(* has, for every set of dimensions and every amount.                       *)

VARIABLES cap, spent, held, unclear, overrun

Promise == INSTANCE BudgetAllowance

PInv == Promise!TypeOK /\ Promise!WithinAllowance

LEMMA PromiseStarts == Promise!Init => PInv
BY DEF Promise!Init, PInv, Promise!TypeOK, Promise!WithinAllowance

\* A step of one dimension keeps that dimension within its allowance.
LEMMA PromiseStaysWithin ==
  ASSUME PInv, Promise!Next, NEW d \in Dims
  PROVE  cap'[d] # NoLimit /\ ~overrun'[d] => spent'[d] + held'[d] <= cap'[d]
<1> USE DEF PInv, Promise!TypeOK, Promise!WithinAllowance, Promise!Next
<1>1. CASE Promise!Idle(d)
  BY <1>1 DEF Promise!Idle
<1>2. CASE Promise!Hold(d)
  BY <1>2 DEF Promise!Hold
<1>3. CASE Promise!Resolve(d)
  BY <1>3 DEF Promise!Resolve
<1>4. CASE Promise!Lose(d)
  BY <1>4 DEF Promise!Lose
<1>5. CASE Promise!Renew(d)
  BY <1>5 DEF Promise!Renew
<1> QED
  BY <1>1, <1>2, <1>3, <1>4, <1>5 DEF Promise!DimStep

LEMMA PromiseGoesOn == PInv /\ [Promise!Next]_(Promise!vars) => PInv'
<1> SUFFICES ASSUME PInv, [Promise!Next]_(Promise!vars) PROVE PInv'
  OBVIOUS
<1>1. CASE Promise!Next
  <2>1. Promise!TypeOK'
    BY <1>1 DEF Promise!Next, Promise!TypeOK
  <2>2. Promise!WithinAllowance'
    BY <1>1, PromiseStaysWithin DEF Promise!WithinAllowance
  <2> QED
    BY <2>1, <2>2 DEF PInv
<1>2. CASE UNCHANGED Promise!vars
  BY <1>2 DEF PInv, Promise!TypeOK, Promise!WithinAllowance, Promise!vars
<1> QED
  BY <1>1, <1>2

\* Spent and held amounts of every dimension stay within its allowance
\* unless a call used more than it had reserved: what reserve() promises.
THEOREM StaysWithinAllowance == Promise!Spec => []Promise!WithinAllowance
<1>1. PInv => Promise!WithinAllowance
  BY DEF PInv
<1> QED
  BY PromiseStarts, PromiseGoesOn, <1>1, PTL DEF Promise!Spec

\* An unknown use holds every later call back until a new allowance is
\* granted (core/budget.py:484-487).
THEOREM UnknownUseHoldsBack == Promise!Spec => Promise!UnknownHoldsBack
<1>1. ASSUME PInv, [Promise!Next]_(Promise!vars)
      PROVE  [\A d \in Dims : cap[d] # NoLimit /\ unclear[d] /\ unclear'[d]
                => held'[d] <= held[d]]_(Promise!vars)
  <2>1. CASE Promise!Next
    <3> SUFFICES ASSUME NEW d \in Dims, cap[d] # NoLimit, unclear[d], unclear'[d]
                 PROVE  held'[d] <= held[d]
      OBVIOUS
    <3>1. Promise!DimStep(d)
      BY <2>1 DEF Promise!Next
    <3> QED
      BY <3>1, <1>1, <2>1 DEF Promise!DimStep, Promise!Idle, Promise!Hold, Promise!Resolve,
                              Promise!Lose, Promise!Renew, PInv, Promise!TypeOK, Promise!Next
  <2> QED
    BY <2>1, <1>1
<1> QED
  BY PromiseStarts, PromiseGoesOn, <1>1, PTL DEF Promise!Spec, Promise!UnknownHoldsBack

----------------------------------------------------------------------------
(* The terms of a task (module TaskTerms): three files, a copy of them in   *)
(* every process, and a freshness check that compares one of the three.     *)
(*                                                                          *)
(* What makes the check enough: every step that changes what is granted is  *)
(* a write of the manifest with new content, which outdates every copy but  *)
(* the writer's.  A copy that is still fresh may be behind the other two    *)
(* files, but it follows the terms: it lacks only what a pending supply, a  *)
(* call that never returned or one that returned exposed wrote.             *)

Inside(p) == pc[p] \notin {"out", "actions", "ledger", "idle"}

Copies == [loaded : {TRUE}, manifest : Manifest, actions : Journal, ledger : Ledger]

TermsTyped ==
  /\ actions \in Journal /\ manifest \in Manifest /\ ledger \in Ledger /\ open \in BOOLEAN
  /\ fresh \subseteq Procs /\ lock \in Procs \cup {None}
  /\ pc \in [Procs -> Steps]
  /\ job \in [Procs -> Allowances \cup Switches \cup {None}]
  /\ copy \in [Procs -> Copies \cup {NoCopy}]
  /\ \A p \in Procs : pc[p] # "out" => copy[p] \in Copies
  /\ crashes \in 0 .. MaxCrashes
  /\ returned \subseteq Allowances \cup Switches /\ exposed \subseteq returned

\* The calls that returned after every other copy was outdated.
Lasting == returned \ exposed

\* A journal that lacks nothing of what is granted, allowed and kept.
Follows(a, granted, allowed, done) ==
  /\ IsInjective(a.supplies)
  /\ \A s \in Supplies \cap granted : s = a.pending \/ s \in ToSet(a.supplies)
  /\ \A s \in ToSet(a.supplies) : Amount[s] > 0 => s \in granted /\ s \in allowed
  /\ done \cap Supplies \subseteq ToSet(a.supplies)
  /\ done \cap Switches \subseteq ToSet(a.switches)

\* A ledger that has nothing that is not granted, and no supply the file lacks.
Backed(l, granted, allowed) ==
  /\ IsInjective(l.grants)
  /\ ToSet(l.grants) \subseteq granted
  /\ ToSet(l.grants) \cap Supplies \subseteq allowed

Covers(l, a) == \A s \in ToSet(a.supplies) : Amount[s] > 0 => s \in ToSet(l.grants)

\* Who is inside a call holds the lock; who is fresh has what the file has.
LockIs(p) ==
  /\ Inside(p) => lock = p /\ p \in fresh
  /\ p \in fresh => pc[p] # "out"

CopyIs(p) ==
  p \in fresh =>
    /\ copy[p].manifest = manifest
    /\ pc[p] # "actions" => Follows(copy[p].actions, manifest.granted, ToSet(ledger.grants), Lasting)
    /\ pc[p] \notin {"actions", "ledger"} =>
         /\ Backed(copy[p].ledger, manifest.granted, ToSet(ledger.grants))
         /\ Covers(copy[p].ledger, copy[p].actions)

\* Where a call is, by the file it wrote last.
JobIs(p) ==
  /\ pc[p] \in {"journal", "intent", "revise"} => job[p] \in Supplies
  /\ pc[p] \in {"grant", "allow"} => job[p] \in Allowances /\ Amount[job[p]] > 0
  /\ pc[p] \in {"commit", "committed"} => job[p] \in Allowances \cup Switches

JournalIs(p) ==
  /\ job[p] \in Supplies /\ pc[p] \in {"journal", "intent", "grant", "allow", "revise"} =>
       copy[p].actions.pending = job[p] /\ job[p] \notin ToSet(copy[p].actions.supplies)
  /\ job[p] \in Supplies /\ pc[p] \in {"intent", "grant", "allow", "revise"} =>
       actions = copy[p].actions
  /\ job[p] \in Supplies /\ pc[p] \in {"commit", "committed"} =>
       job[p] \in ToSet(copy[p].actions.supplies)
  /\ job[p] \in Switches /\ pc[p] \in {"commit", "committed"} =>
       job[p] \in ToSet(copy[p].actions.switches)
  /\ pc[p] = "committed" => actions = copy[p].actions
  /\ \/ pc[p] \in {"grant", "allow"} /\ job[p] \notin Supplies
     \/ pc[p] \in {"commit", "committed"} \/ Working(p)
     => copy[p].actions.pending = None

GrantIs(p) ==
  /\ job[p] \in Allowances /\ pc[p] \in {"allow", "revise", "commit", "committed"} /\ Amount[job[p]] > 0 =>
       job[p] \in manifest.granted
  /\ pc[p] = "revise" /\ Amount[job[p]] > 0 =>
       job[p] \in ToSet(copy[p].ledger.grants) /\ job[p] \in ToSet(ledger.grants)

Own(p) == LockIs(p) /\ CopyIs(p) /\ JobIs(p) /\ JournalIs(p) /\ GrantIs(p)

Requested(granted) == MapThenSumSet(LAMBDA g : Amount[g], granted)

FilesFollow ==
  /\ Follows(actions, manifest.granted, ToSet(ledger.grants), Lasting)
  /\ Backed(ledger, manifest.granted, ToSet(ledger.grants))
  /\ manifest.attempts = InitAttempts + 10 * Requested(manifest.granted)
  /\ \A g \in manifest.granted : Amount[g] > 0
  /\ \A g \in returned \cap Allowances : Amount[g] > 0 =>
       g \in manifest.granted /\ (g \in Supplies => g \in ToSet(ledger.grants))

TermsInv == TermsTyped /\ FilesFollow /\ \A p \in Procs : Own(p)

\* The last entry of a sequence joins the others.
LEMMA AppendJoins ==
  ASSUME NEW S, NEW s \in Seq(S), NEW x \in S
  PROVE  /\ Append(s, x) \in Seq(S)
         /\ ToSet(Append(s, x)) = ToSet(s) \cup {x}
         /\ IsInjective(s) /\ x \notin ToSet(s) => IsInjective(Append(s, x))
<1> DEFINE t == Append(s, x)
<1>1. /\ t \in Seq(S) /\ Len(t) = Len(s) + 1 /\ Len(s) \in Nat
      /\ \A i \in 1 .. Len(s) : t[i] = s[i]
      /\ t[Len(s) + 1] = x
  BY AppendProperties
<1>2. DOMAIN t = 1 .. Len(s) + 1 /\ DOMAIN s = 1 .. Len(s)
  BY <1>1
<1> HIDE DEF t
<1>3. ToSet(t) = ToSet(s) \cup {x}
  BY <1>1, <1>2 DEF ToSet
<1>4. ASSUME IsInjective(s), x \notin ToSet(s) PROVE IsInjective(t)
  BY <1>1, <1>2, <1>4 DEF IsInjective, ToSet
<1> QED
  BY <1>1, <1>3, <1>4 DEF t

\* One part of a copy replaced by what belongs there is a copy.
LEMMA CopyParts ==
  ASSUME NEW c \in Copies
  PROVE  /\ c.manifest \in Manifest /\ c.actions \in Journal /\ c.ledger \in Ledger
         /\ \A m \in Manifest : LET d == [c EXCEPT !.manifest = m]
                                IN d \in Copies /\ d.manifest = m /\ d.actions = c.actions /\ d.ledger = c.ledger
         /\ \A a \in Journal : LET d == [c EXCEPT !.actions = a]
                               IN d \in Copies /\ d.manifest = c.manifest /\ d.actions = a /\ d.ledger = c.ledger
         /\ \A l \in Ledger : LET d == [c EXCEPT !.ledger = l]
                              IN d \in Copies /\ d.manifest = c.manifest /\ d.actions = c.actions /\ d.ledger = l
BY DEF Copies

\* What a step makes of the copy of its process.
Holds(p, m, a, l) ==
  /\ copy' \in [Procs -> Copies \cup {NoCopy}]
  /\ copy'[p] \in Copies
  /\ copy'[p].manifest = m /\ copy'[p].actions = a /\ copy'[p].ledger = l
  /\ \A q \in Procs \ {p} : copy'[q] = copy[q]

LEMMA HoldsManifest ==
  ASSUME TermsTyped, NEW p \in Procs, pc[p] # "out", NEW m \in Manifest,
         copy' = [copy EXCEPT ![p].manifest = m]
  PROVE  Holds(p, m, copy[p].actions, copy[p].ledger)
BY CopyParts DEF TermsTyped, Holds

LEMMA HoldsActions ==
  ASSUME TermsTyped, NEW p \in Procs, pc[p] # "out", NEW a \in Journal, Hold(p, "actions", a)
  PROVE  Holds(p, copy[p].manifest, a, copy[p].ledger)
<1> DEFINE c == [copy[p] EXCEPT !.actions = a]
<1>1. copy[p] \in Copies /\ copy \in [Procs -> Copies \cup {NoCopy}]
  BY DEF TermsTyped
<1>2. c \in Copies /\ c.manifest = copy[p].manifest /\ c.actions = a /\ c.ledger = copy[p].ledger
  BY <1>1, CopyParts
<1>3. copy' = [copy EXCEPT ![p] = c]
  BY DEF Hold
<1> HIDE DEF c
<1> QED
  BY <1>1, <1>2, <1>3 DEF Holds

LEMMA HoldsLedger ==
  ASSUME TermsTyped, NEW p \in Procs, pc[p] # "out", NEW l \in Ledger, Hold(p, "ledger", l)
  PROVE  Holds(p, copy[p].manifest, copy[p].actions, l)
<1> DEFINE c == [copy[p] EXCEPT !.ledger = l]
<1>1. copy[p] \in Copies /\ copy \in [Procs -> Copies \cup {NoCopy}]
  BY DEF TermsTyped
<1>2. c \in Copies /\ c.manifest = copy[p].manifest /\ c.actions = copy[p].actions /\ c.ledger = l
  BY <1>1, CopyParts
<1>3. copy' = [copy EXCEPT ![p] = c]
  BY DEF Hold
<1> HIDE DEF c
<1> QED
  BY <1>1, <1>2, <1>3 DEF Holds

LEMMA HoldsSame ==
  ASSUME TermsTyped, NEW p \in Procs, pc[p] # "out", UNCHANGED copy
  PROVE  Holds(p, copy[p].manifest, copy[p].actions, copy[p].ledger)
BY DEF TermsTyped, Holds

LEMMA HoldsFiles ==
  ASSUME TermsTyped, NEW p \in Procs, LoadManifest(p)
  PROVE  Holds(p, manifest, NoJournal, NoLedger)
<1>1. NoJournal \in Journal /\ NoLedger \in Ledger
  BY DEF NoJournal, NoLedger, Journal, Ledger
<1> QED
  BY <1>1 DEF TermsTyped, Holds, LoadManifest, Copies

\* The parts of a journal after each change the calls make.
LEMMA JournalParts ==
  ASSUME NEW a \in Journal
  PROVE  /\ a.pending \in Supplies \cup {None} /\ a.supplies \in Seq(Supplies) /\ a.switches \in Seq(Switches)
         /\ \A s \in Supplies : LET b == [a EXCEPT !.pending = s]
              IN b \in Journal /\ b.pending = s /\ b.supplies = a.supplies /\ b.switches = a.switches
         /\ \A s \in Supplies : LET b == [a EXCEPT !.pending = None, !.supplies = Append(@, s)]
              IN b \in Journal /\ b.pending = None /\ b.supplies = Append(a.supplies, s) /\ b.switches = a.switches
         /\ \A w \in Switches : LET b == [a EXCEPT !.switches = Append(@, w)]
              IN b \in Journal /\ b.pending = a.pending /\ b.supplies = a.supplies /\ b.switches = Append(a.switches, w)
<1>1. /\ a = [pending |-> a.pending, supplies |-> a.supplies, switches |-> a.switches]
      /\ a.pending \in Supplies \cup {None} /\ a.supplies \in Seq(Supplies) /\ a.switches \in Seq(Switches)
  BY DEF Journal
<1>2. ASSUME NEW s \in Supplies PROVE Append(a.supplies, s) \in Seq(Supplies)
  BY <1>1, AppendJoins
<1>3. ASSUME NEW w \in Switches PROVE Append(a.switches, w) \in Seq(Switches)
  BY <1>1, AppendJoins
<1> QED
  BY <1>1, <1>2, <1>3 DEF Journal

LEMMA FollowsPending ==
  ASSUME NEW a \in Journal, NEW b, NEW G, NEW A, NEW D, Follows(a, G, A, D),
         NEW s \in Supplies, a.pending \in {None, s},
         b.pending = s, b.supplies = a.supplies, b.switches = a.switches
  PROVE  Follows(b, G, A, D)
BY TermsAssumption DEF Follows

LEMMA FollowsGrant ==
  ASSUME NEW a, NEW G, NEW A, NEW D, Follows(a, G, A, D), NEW id, id \in Supplies => a.pending = id
  PROVE  Follows(a, G \cup {id}, A, D)
BY DEF Follows

LEMMA FollowsAllow ==
  ASSUME NEW a \in Journal, NEW G, NEW A, NEW D, Follows(a, G, A, D), NEW B, A \cap Supplies \subseteq B
  PROVE  Follows(a, G, B, D)
<1>1. a.supplies \in Seq(Supplies)
  BY JournalParts
<1>2. ToSet(a.supplies) \subseteq Supplies
  BY <1>1, ElementOfSeq, LenProperties DEF ToSet
<1> QED
  BY <1>2 DEF Follows

LEMMA FollowsRevise ==
  ASSUME NEW a \in Journal, NEW b, NEW G, NEW A, NEW D, Follows(a, G, A, D),
         NEW s \in Supplies, a.pending = s, s \notin ToSet(a.supplies), Amount[s] > 0 => s \in G /\ s \in A,
         b.pending = None, b.supplies = Append(a.supplies, s), b.switches = a.switches
  PROVE  Follows(b, G, A, D)
<1>1. a.supplies \in Seq(Supplies)
  BY JournalParts
<1>2. ToSet(b.supplies) = ToSet(a.supplies) \cup {s} /\ (IsInjective(a.supplies) => IsInjective(b.supplies))
  BY <1>1, AppendJoins
<1> QED
  BY <1>2 DEF Follows

LEMMA FollowsSwitch ==
  ASSUME NEW a \in Journal, NEW b, NEW G, NEW A, NEW D, Follows(a, G, A, D),
         NEW w \in Switches, b.pending = a.pending, b.supplies = a.supplies, b.switches = Append(a.switches, w)
  PROVE  Follows(b, G, A, D) /\ w \in ToSet(b.switches)
<1>1. a.switches \in Seq(Switches)
  BY JournalParts
<1>2. ToSet(b.switches) = ToSet(a.switches) \cup {w}
  BY <1>1, AppendJoins
<1> QED
  BY <1>2 DEF Follows

LEMMA FollowsReturn ==
  ASSUME NEW a, NEW G, NEW A, NEW D, Follows(a, G, A, D), NEW id,
         id \in Supplies => id \in ToSet(a.supplies), id \in Switches => id \in ToSet(a.switches),
         NEW E, E \subseteq D \cup {id}
  PROVE  Follows(a, G, A, E)
BY DEF Follows

LEMMA BackedMore ==
  ASSUME NEW l, NEW G, NEW A, Backed(l, G, A), NEW H, NEW B, G \subseteq H, A \cap Supplies \subseteq B
  PROVE  Backed(l, H, B)
BY DEF Backed

\* A fresh process has every supply's allowance of the file, but a pending one.
LEMMA NothingMissing ==
  ASSUME TermsInv, NEW p \in Procs, p \in fresh, pc[p] \notin {"actions", "ledger"}
  PROVE  ToSet(ledger.grants) \cap Supplies \subseteq ToSet(copy[p].ledger.grants) \cup {copy[p].actions.pending}
BY DEF TermsInv, FilesFollow, Own, CopyIs, Follows, Backed, Covers

\* The other processes, while p takes a step that leaves the files alone ...
LEMMA LastingStays ==
  ASSUME UNCHANGED <<returned, exposed>>
  PROVE  Lasting' = Lasting
BY DEF Lasting

LEMMA OthersWatch ==
  ASSUME TermsInv, NEW p \in Procs, NEW q \in Procs, q # p,
         pc'[q] = pc[q], job'[q] = job[q], copy'[q] = copy[q], lock = q => lock' = q,
         q \in fresh <=> q \in fresh', UNCHANGED <<actions, manifest, ledger, returned, exposed>>
  PROVE  Own(q)'
<1>1. Own(q)
  BY DEF TermsInv
<1> QED
  BY <1>1 DEF Own, LockIs, CopyIs, Lasting, JobIs, JournalIs, GrantIs, Working, Inside

\* ... or is inside a call: then they are not.
LEMMA OthersWait ==
  ASSUME TermsInv, NEW p \in Procs, NEW q \in Procs, q # p, lock \in {p, None},
         pc'[q] = pc[q], copy'[q] = copy[q],
         \/ fresh' = {p}
         \/ /\ q \in fresh' => q \in fresh
            /\ UNCHANGED manifest /\ Lasting' \subseteq Lasting
            /\ ToSet(ledger.grants) \cap Supplies \subseteq ToSet(ledger'.grants)
  PROVE  Own(q)'
<1>1. Own(q) /\ q # None /\ TermsTyped
  BY TermsAssumption DEF TermsInv
<1>2. ~Inside(q)
  BY <1>1 DEF Own, LockIs
<1>3. JobIs(q)' /\ JournalIs(q)' /\ GrantIs(q)' /\ LockIs(q)'
  BY <1>1, <1>2 DEF Own, LockIs, JobIs, JournalIs, GrantIs, Working, Inside
<1>4. CopyIs(q)'
  <2>1. CASE q \notin fresh'
    BY <2>1 DEF CopyIs
  <2>2. CASE q \in fresh'
    <3>1. /\ q \in fresh /\ UNCHANGED manifest /\ Lasting' \subseteq Lasting
          /\ ToSet(ledger.grants) \cap Supplies \subseteq ToSet(ledger'.grants)
      BY <2>2
    <3>2. copy[q].actions \in Journal
      BY <1>1, <3>1, CopyParts DEF TermsTyped, Own, LockIs
    <3>3. pc[q] # "actions" => Follows(copy[q].actions, manifest.granted, ToSet(ledger'.grants), Lasting')
      <4> HAVE pc[q] # "actions"
      <4>1. Follows(copy[q].actions, manifest.granted, ToSet(ledger'.grants), Lasting)
        BY <1>1, <3>1, <3>2, FollowsAllow DEF Own, CopyIs
      <4> QED
        BY <3>1, <4>1 DEF Follows
    <3> QED
      BY <1>1, <3>1, <3>3, BackedMore DEF Own, CopyIs
  <2> QED
    BY <2>1, <2>2
<1> QED
  BY <1>3, <1>4 DEF Own

\* Where a step leaves its process and what it is at.
At(p, step, id) ==
  /\ pc' \in [Procs -> Steps] /\ job' \in [Procs -> Allowances \cup Switches \cup {None}]
  /\ pc'[p] = step /\ job'[p] = id
  /\ \A q \in Procs \ {p} : pc'[q] = pc[q] /\ job'[q] = job[q]

LEMMA GoesOn ==
  ASSUME TermsTyped, NEW p \in Procs, NEW from, NEW step \in Steps, Go(p, from, step), UNCHANGED job
  PROVE  At(p, step, job[p]) /\ pc[p] = from
BY DEF TermsTyped, At, Go

LEMMA CallStarts ==
  ASSUME TermsTyped, NEW p \in Procs, NEW id \in Allowances \cup Switches \cup {None}, NEW step \in Steps,
         Call(p, id, step)
  PROVE  At(p, step, id)
BY DEF TermsTyped, At, Call

LEMMA FilesStay ==
  ASSUME FilesFollow, UNCHANGED <<actions, manifest, ledger, returned, exposed>>
  PROVE  FilesFollow'
BY DEF FilesFollow, Lasting

\* Loading, step by step.
LEMMA LoadManifestKeeps ==
  ASSUME TermsInv, NEW p \in Procs, LoadManifest(p)
  PROVE  TermsInv'
<1>0. TermsTyped /\ FilesFollow
  BY DEF TermsInv
<1>1. Holds(p, manifest, NoJournal, NoLedger)
  BY <1>0, HoldsFiles
<1>2. /\ At(p, "actions", job[p])
      /\ fresh' = fresh \cup {p}
      /\ UNCHANGED <<actions, manifest, ledger, open, lock, crashes, returned, exposed>>
  BY <1>0, GoesOn DEF LoadManifest, Steps, files
<1>3. TermsTyped'
  BY <1>0, <1>1, <1>2 DEF TermsTyped, Holds, At
<1>4. Own(p)'
  BY <1>0, <1>1, <1>2 DEF Own, LockIs, CopyIs, Lasting, JobIs, JournalIs, GrantIs, Working, Inside, Holds, At, FilesFollow
<1>5. ASSUME NEW q \in Procs, q # p PROVE Own(q)'
  BY <1>1, <1>2, <1>5, OthersWatch DEF Holds, At
<1> QED
  BY <1>0, <1>2, <1>3, <1>4, <1>5, FilesStay DEF TermsInv

LEMMA LoadActionsKeeps ==
  ASSUME TermsInv, NEW p \in Procs, LoadActions(p)
  PROVE  TermsInv'
<1>0. TermsTyped /\ FilesFollow /\ Own(p)
  BY DEF TermsInv
<1>1. /\ At(p, "ledger", job[p]) /\ pc[p] = "actions"
      /\ UNCHANGED <<actions, manifest, ledger, open, fresh, lock, crashes, returned, exposed>>
  BY <1>0, GoesOn DEF LoadActions, Steps, files
<1>2. Holds(p, copy[p].manifest, actions, copy[p].ledger)
  BY <1>0, <1>1, HoldsActions DEF LoadActions, TermsTyped
<1>3. TermsTyped'
  BY <1>0, <1>1, <1>2 DEF TermsTyped, Holds, At
<1>4. Own(p)'
  BY <1>0, <1>1, <1>2 DEF Own, LockIs, CopyIs, Lasting, JobIs, JournalIs, GrantIs, Working, Inside, Holds, At, FilesFollow
<1>5. ASSUME NEW q \in Procs, q # p PROVE Own(q)'
  BY <1>1, <1>2, <1>5, OthersWatch DEF Holds, At
<1> QED
  BY <1>0, <1>1, <1>3, <1>4, <1>5, FilesStay DEF TermsInv

LEMMA LoadLedgerKeeps ==
  ASSUME TermsInv, NEW p \in Procs, LoadLedger(p)
  PROVE  TermsInv'
<1>0. TermsTyped /\ FilesFollow /\ Own(p)
  BY DEF TermsInv
<1>1. /\ At(p, "idle", job[p]) /\ pc[p] = "ledger"
      /\ UNCHANGED <<actions, manifest, ledger, open, fresh, lock, crashes, returned, exposed>>
  BY <1>0, GoesOn DEF LoadLedger, Steps, files
<1>2. Holds(p, copy[p].manifest, copy[p].actions, ledger)
  BY <1>0, <1>1, HoldsLedger DEF LoadLedger, TermsTyped
<1>3. TermsTyped'
  BY <1>0, <1>1, <1>2 DEF TermsTyped, Holds, At
<1>4. p \in fresh => Covers(ledger, copy[p].actions)
  BY <1>0, <1>1 DEF Own, CopyIs, Follows, Covers
<1>5. Own(p)'
  BY <1>0, <1>1, <1>2, <1>4 DEF Own, LockIs, CopyIs, Lasting, JobIs, JournalIs, GrantIs, Working, Inside, Holds, At, FilesFollow
<1>6. ASSUME NEW q \in Procs, q # p PROVE Own(q)'
  BY <1>1, <1>2, <1>6, OthersWatch DEF Holds, At
<1> QED
  BY <1>0, <1>1, <1>3, <1>5, <1>6, FilesStay DEF TermsInv

\* A process ends, between two calls or inside one.
LEMMA LeaveKeeps ==
  ASSUME TermsInv, NEW p \in Procs, Leave(p),
         UNCHANGED <<actions, manifest, ledger, open, returned, exposed>>, crashes' \in 0 .. MaxCrashes
  PROVE  TermsInv'
<1>0. TermsTyped /\ FilesFollow
  BY DEF TermsInv
<1>1. /\ At(p, "out", None)
      /\ fresh' = fresh \ {p} /\ (lock' = IF lock = p THEN None ELSE lock)
      /\ copy' \in [Procs -> Copies \cup {NoCopy}] /\ \A q \in Procs \ {p} : copy'[q] = copy[q]
  BY <1>0 DEF Leave, TermsTyped, At, Steps
<1>2. TermsTyped'
  BY <1>0, <1>1 DEF TermsTyped, At
<1>3. Own(p)'
  BY <1>1 DEF Own, LockIs, CopyIs, Lasting, JobIs, JournalIs, GrantIs, Working, Inside, At
<1>4. ASSUME NEW q \in Procs, q # p PROVE Own(q)'
  BY <1>1, <1>4, OthersWatch DEF At
<1> QED
  BY <1>0, <1>2, <1>3, <1>4, FilesStay DEF TermsInv

\* A process enters a call: its copy is fresh, and so is what it changes in it.
LEMMA SupplyKeeps ==
  ASSUME TermsInv, NEW p \in Procs, NEW s \in Supplies, Supply(p, s)
  PROVE  TermsInv'
<1>0. TermsTyped /\ FilesFollow /\ Own(p) /\ pc[p] = "idle" /\ lock = None /\ p \in fresh
  BY DEF TermsInv, Supply, Enters
<1> DEFINE a == copy[p].actions
           b == [a EXCEPT !.pending = s]
<1>1. /\ At(p, "journal", s) /\ lock' = p
      /\ UNCHANGED <<actions, manifest, ledger, open, fresh, crashes, returned, exposed>>
  BY <1>0, CallStarts DEF Supply, Call, Steps, files, Allowances
<1>2. a \in Journal
  BY <1>0, CopyParts DEF TermsTyped
<1>3. b \in Journal /\ b.pending = s /\ b.supplies = a.supplies /\ b.switches = a.switches
  BY <1>2, JournalParts
<1>4. a.pending \in {None, s} /\ s \notin ToSet(a.supplies) /\ Hold(p, "actions", b)
  BY DEF Supply, CanSupply
<1> HIDE DEF b
<1>5. Holds(p, copy[p].manifest, b, copy[p].ledger)
  BY <1>0, <1>3, <1>4, HoldsActions
<1>6. TermsTyped'
  BY <1>0, <1>1, <1>5 DEF TermsTyped, Holds, At
<1>7. /\ copy[p].manifest = manifest
      /\ Follows(b, manifest.granted, ToSet(ledger.grants), Lasting)
      /\ Backed(copy[p].ledger, manifest.granted, ToSet(ledger.grants))
      /\ Covers(copy[p].ledger, b)
  BY <1>0, <1>2, <1>3, <1>4, FollowsPending DEF Own, CopyIs, Covers
<1>8. Own(p)'
  BY <1>0, <1>1, <1>3, <1>4, <1>5, <1>7 DEF Own, LockIs, CopyIs, Lasting, JobIs, JournalIs, GrantIs, Working, Inside, Holds, At
<1>9. ASSUME NEW q \in Procs, q # p PROVE Own(q)'
  BY <1>0, <1>1, <1>5, <1>9, OthersWait, LastingStays DEF Holds, At
<1> QED
  BY <1>0, <1>1, <1>6, <1>8, <1>9, FilesStay DEF TermsInv

LEMMA ContinueKeeps ==
  ASSUME TermsInv, NEW p \in Procs, NEW c \in Continuations, Continue(p, c)
  PROVE  TermsInv'
<1>0. /\ TermsTyped /\ FilesFollow /\ Own(p) /\ pc[p] = "idle" /\ lock = None /\ p \in fresh
      /\ copy[p].actions.pending = None
  BY DEF TermsInv, Continue, MayRun, Enters
<1>1. /\ At(p, "grant", c) /\ lock' = p
      /\ UNCHANGED <<actions, manifest, ledger, open, copy, fresh, crashes, returned, exposed>>
  BY <1>0, CallStarts DEF Continue, Call, Steps, files, Allowances
<1>2. Holds(p, copy[p].manifest, copy[p].actions, copy[p].ledger)
  BY <1>0, <1>1, HoldsSame
<1>3. c \in Allowances /\ Amount[c] > 0 /\ c \notin Supplies /\ c \notin Switches
  BY TermsAssumption DEF Allowances
<1>4. TermsTyped'
  BY <1>0, <1>1, <1>2 DEF TermsTyped, Holds, At
<1>5. Own(p)'
  BY <1>0, <1>1, <1>2, <1>3 DEF Own, LockIs, CopyIs, Lasting, JobIs, JournalIs, GrantIs, Working, Inside, Holds, At
<1>6. ASSUME NEW q \in Procs, q # p PROVE Own(q)'
  BY <1>0, <1>1, <1>6, OthersWait, LastingStays DEF At
<1> QED
  BY <1>0, <1>1, <1>4, <1>5, <1>6, FilesStay DEF TermsInv

LEMMA PausedIsManifest ==
  ASSUME NEW m \in Manifest, NEW b \in BOOLEAN
  PROVE  LET n == [m EXCEPT !.paused = b]
         IN n \in Manifest /\ n.granted = m.granted /\ n.attempts = m.attempts
BY DEF Manifest

LEMMA RunKeeps ==
  ASSUME TermsInv, NEW p \in Procs, Run(p)
  PROVE  TermsInv'
<1>0. /\ TermsTyped /\ FilesFollow /\ Own(p) /\ pc[p] = "idle" /\ lock = None /\ p \in fresh
      /\ copy[p].actions.pending = None
  BY DEF TermsInv, Run, MayRun, Enters
<1>1. /\ At(p, "work", None) /\ lock' = p
      /\ UNCHANGED <<actions, ledger, open, crashes, returned, exposed>>
  BY <1>0, CallStarts DEF Run, Call, Steps, files
<1>2. copy[p].manifest = manifest /\ manifest \in Manifest
  BY <1>0 DEF Own, CopyIs, TermsTyped
<1>3. PICK m \in Manifest :
        /\ m.granted = manifest.granted /\ m.attempts = manifest.attempts
        /\ SaveManifest(p, m) \/ (m = manifest /\ UNCHANGED <<manifest, copy, fresh>>)
  BY <1>2, PausedIsManifest DEF Run
<1>4. /\ manifest' = m /\ p \in fresh' /\ fresh' \in {fresh, {p}} /\ (m # manifest => fresh' = {p})
      /\ Holds(p, m, copy[p].actions, copy[p].ledger)
  <2>1. CASE SaveManifest(p, m)
    BY <1>0, <2>1, HoldsManifest DEF SaveManifest
  <2>2. CASE m = manifest /\ UNCHANGED <<manifest, copy, fresh>>
    BY <1>0, <1>2, <2>2, HoldsSame
  <2> QED
    BY <1>3, <2>1, <2>2
<1>5. TermsTyped'
  BY <1>0, <1>1, <1>3, <1>4 DEF TermsTyped, Holds, At
<1>6. Own(p)'
  BY <1>0, <1>1, <1>3, <1>4
  DEF Own, LockIs, CopyIs, Lasting, JobIs, JournalIs, GrantIs, Working, Inside, Holds, At
<1>7. ASSUME NEW q \in Procs, q # p PROVE Own(q)'
  BY <1>0, <1>1, <1>4, <1>7, OthersWait, LastingStays DEF Holds, At
<1>8. FilesFollow'
  BY <1>0, <1>1, <1>3, <1>4, LastingStays DEF FilesFollow
<1> QED
  BY <1>5, <1>6, <1>7, <1>8 DEF TermsInv

LEMMA SwitchModelKeeps ==
  ASSUME TermsInv, NEW p \in Procs, NEW w \in Switches, SwitchModel(p, w)
  PROVE  TermsInv'
<1>0. /\ TermsTyped /\ FilesFollow /\ Own(p) /\ pc[p] = "idle" /\ lock = None /\ p \in fresh
      /\ copy[p].actions.pending = None
  BY DEF TermsInv, SwitchModel, Enters
<1> DEFINE a == copy[p].actions
           b == [a EXCEPT !.switches = Append(@, w)]
<1>1. /\ At(p, "commit", w) /\ lock' = p
      /\ UNCHANGED <<actions, manifest, ledger, open, fresh, crashes, returned, exposed>>
  BY <1>0, CallStarts DEF SwitchModel, Call, Steps, files
<1>2. a \in Journal
  BY <1>0, CopyParts DEF TermsTyped
<1>3. b \in Journal /\ b.pending = a.pending /\ b.supplies = a.supplies /\ b.switches = Append(a.switches, w)
  BY <1>2, JournalParts
<1>4. Hold(p, "actions", b)
  BY DEF SwitchModel
<1>5. w \notin Allowances /\ w \notin Supplies
  BY TermsAssumption DEF Allowances
<1> HIDE DEF b
<1>6. Holds(p, copy[p].manifest, b, copy[p].ledger)
  BY <1>0, <1>3, <1>4, HoldsActions
<1>7. TermsTyped'
  BY <1>0, <1>1, <1>6 DEF TermsTyped, Holds, At
<1>8. Follows(a, manifest.granted, ToSet(ledger.grants), Lasting)
  BY <1>0 DEF Own, CopyIs
<1>9. Follows(b, manifest.granted, ToSet(ledger.grants), Lasting) /\ w \in ToSet(b.switches)
  BY <1>2, <1>3, <1>8, FollowsSwitch
<1>10. Own(p)'
  BY <1>0, <1>1, <1>3, <1>5, <1>6, <1>9
  DEF Own, LockIs, CopyIs, Lasting, JobIs, JournalIs, GrantIs, Working, Inside, Holds, At, Covers
<1>11. ASSUME NEW q \in Procs, q # p PROVE Own(q)'
  BY <1>0, <1>1, <1>6, <1>11, OthersWait, LastingStays DEF Holds, At
<1> QED
  BY <1>0, <1>1, <1>7, <1>10, <1>11, FilesStay DEF TermsInv

\* A recovery counts the attempt left open.
LEMMA CountedIsManifest ==
  ASSUME NEW m \in Manifest
  PROVE  LET n == [m EXCEPT !.used = @ + 1]
         IN n \in Manifest /\ n.granted = m.granted /\ n.attempts = m.attempts
BY DEF Manifest

LEMMA RecoverKeeps ==
  ASSUME TermsInv, NEW p \in Procs, Recover(p)
  PROVE  TermsInv'
<1>0. TermsTyped /\ FilesFollow /\ Own(p) /\ pc[p] = "idle" /\ lock = None /\ p \in fresh
  BY DEF TermsInv, Recover, Enters
<1> DEFINE m == [copy[p].manifest EXCEPT !.used = @ + 1]
<1>1. /\ manifest' = m /\ copy' = [copy EXCEPT ![p].manifest = m] /\ fresh' = {p} /\ open' = FALSE
      /\ UNCHANGED <<actions, ledger, lock, pc, job, crashes, returned, exposed>>
  BY DEF Recover, SaveManifest
<1>2. copy[p].manifest = manifest /\ manifest \in Manifest
  BY <1>0 DEF Own, CopyIs, TermsTyped
<1>3. m \in Manifest /\ m.granted = manifest.granted /\ m.attempts = manifest.attempts
  BY <1>2, CountedIsManifest
<1> HIDE DEF m
<1>4. Holds(p, m, copy[p].actions, copy[p].ledger)
  BY <1>0, <1>1, <1>3, HoldsManifest
<1>5. TermsTyped'
  BY <1>0, <1>1, <1>3, <1>4 DEF TermsTyped, Holds
<1>6. Own(p)'
  BY <1>0, <1>1, <1>3, <1>4 DEF Own, LockIs, CopyIs, Lasting, JobIs, JournalIs, GrantIs, Working, Inside, Holds
<1>7. ASSUME NEW q \in Procs, q # p PROVE Own(q)'
  BY <1>0, <1>1, <1>4, <1>7, OthersWait DEF Holds
<1>8. FilesFollow'
  BY <1>0, <1>1, <1>3, LastingStays DEF FilesFollow
<1> QED
  BY <1>5, <1>6, <1>7, <1>8 DEF TermsInv

----------------------------------------------------------------------------
(* Inside a call.                                                           *)

\* The parts of the invariant a call starts each of its steps from.
LEMMA InsideHas ==
  ASSUME TermsInv, NEW p \in Procs, Inside(p)
  PROVE  /\ TermsTyped /\ FilesFollow /\ Own(p) /\ lock = p /\ p \in fresh
         /\ copy[p] \in Copies /\ copy[p].manifest = manifest
         /\ copy[p].actions \in Journal /\ copy[p].ledger \in Ledger
         /\ Follows(copy[p].actions, manifest.granted, ToSet(ledger.grants), Lasting)
         /\ Backed(copy[p].ledger, manifest.granted, ToSet(ledger.grants))
         /\ Covers(copy[p].ledger, copy[p].actions)
<1>1. TermsTyped /\ FilesFollow /\ Own(p)
  BY DEF TermsInv
<1>2. lock = p /\ p \in fresh /\ copy[p] \in Copies
  BY <1>1 DEF Own, LockIs, Inside, TermsTyped
<1> QED
  BY <1>1, <1>2, CopyParts DEF Own, CopyIs, Inside

\* The manifest is saved, with the same grants in it or with nothing new at all.
LEMMA SaveFollows ==
  ASSUME TermsInv, NEW p \in Procs, Inside(p), NEW m \in Manifest,
         m.granted = manifest.granted, m.attempts = manifest.attempts,
         SaveManifest(p, m) \/ (m = manifest /\ SaveAgain(p)),
         UNCHANGED <<actions, ledger, returned, exposed>>,
         \A q \in Procs \ {p} : pc'[q] = pc[q]
  PROVE  /\ Holds(p, m, copy[p].actions, copy[p].ledger) /\ manifest' = m
         /\ p \in fresh' /\ fresh' \subseteq fresh
         /\ CopyIs(p)' /\ FilesFollow' /\ \A q \in Procs \ {p} : Own(q)'
<1>1. /\ manifest' = m /\ p \in fresh' /\ fresh' \in {fresh, {p}} /\ (m # manifest => fresh' = {p})
      /\ Holds(p, m, copy[p].actions, copy[p].ledger)
  <2>1. CASE SaveManifest(p, m)
    BY <2>1, InsideHas, HoldsManifest DEF SaveManifest, Inside
  <2>2. CASE m = manifest /\ SaveAgain(p)
    BY <2>2, InsideHas, HoldsSame DEF SaveAgain, Inside
  <2> QED
    BY <2>1, <2>2
<1>2. CopyIs(p)' /\ FilesFollow'
  BY <1>1, InsideHas, LastingStays DEF CopyIs, FilesFollow, Holds
<1>3. ASSUME NEW q \in Procs, q # p PROVE Own(q)'
  BY <1>1, <1>3, InsideHas, OthersWait, LastingStays DEF Holds
<1> QED
  BY <1>1, <1>2, <1>3, InsideHas

\* actions.json is rewritten from the copy.
LEMMA WriteFollows ==
  ASSUME TermsInv, NEW p \in Procs, Inside(p), actions' = copy[p].actions,
         UNCHANGED <<manifest, ledger, copy, fresh, returned, exposed>>,
         \A q \in Procs \ {p} : pc'[q] = pc[q]
  PROVE  /\ Holds(p, copy[p].manifest, copy[p].actions, copy[p].ledger) /\ actions' \in Journal
         /\ CopyIs(p)' /\ FilesFollow' /\ \A q \in Procs \ {p} : Own(q)'
<1>1. Holds(p, copy[p].manifest, copy[p].actions, copy[p].ledger) /\ actions' \in Journal
  BY InsideHas, HoldsSame DEF Inside
<1>2. CopyIs(p)' /\ FilesFollow'
  BY InsideHas, LastingStays DEF CopyIs, FilesFollow
<1>3. ASSUME NEW q \in Procs, q # p PROVE Own(q)'
  BY <1>3, InsideHas, OthersWait, LastingStays
<1> QED
  BY <1>1, <1>2, <1>3

LEMMA WriteIntentKeeps ==
  ASSUME TermsInv, NEW p \in Procs, WriteIntent(p)
  PROVE  TermsInv'
<1>0. pc[p] = "journal" /\ Inside(p)
  BY DEF WriteIntent, Go, Inside
<1>1. /\ At(p, "intent", job[p]) /\ actions' = copy[p].actions
      /\ UNCHANGED <<manifest, ledger, open, copy, fresh, lock, crashes, returned, exposed>>
  BY <1>0, InsideHas, GoesOn DEF WriteIntent, Steps
<1>2. /\ Holds(p, copy[p].manifest, copy[p].actions, copy[p].ledger) /\ actions' \in Journal
      /\ CopyIs(p)' /\ FilesFollow' /\ \A q \in Procs \ {p} : Own(q)'
  BY <1>0, <1>1, WriteFollows DEF At
<1>3. TermsTyped'
  BY <1>0, <1>1, <1>2, InsideHas DEF TermsTyped, Holds, At
<1>4. Own(p)'
  BY <1>0, <1>1, <1>2, InsideHas DEF Own, LockIs, JobIs, JournalIs, GrantIs, Working, Inside, Holds, At
<1> QED
  BY <1>2, <1>3, <1>4 DEF TermsInv

LEMMA WriteTermsKeeps ==
  ASSUME TermsInv, NEW p \in Procs, WriteTerms(p)
  PROVE  TermsInv'
<1>0. pc[p] = "commit" /\ Inside(p)
  BY DEF WriteTerms, Go, Inside
<1>1. /\ At(p, "committed", job[p]) /\ actions' = copy[p].actions
      /\ UNCHANGED <<manifest, ledger, open, copy, fresh, lock, crashes, returned, exposed>>
  BY <1>0, InsideHas, GoesOn DEF WriteTerms, Steps
<1>2. /\ Holds(p, copy[p].manifest, copy[p].actions, copy[p].ledger) /\ actions' \in Journal
      /\ CopyIs(p)' /\ FilesFollow' /\ \A q \in Procs \ {p} : Own(q)'
  BY <1>0, <1>1, WriteFollows DEF At
<1>3. TermsTyped'
  BY <1>0, <1>1, <1>2, InsideHas DEF TermsTyped, Holds, At
<1>4. Own(p)'
  BY <1>0, <1>1, <1>2, InsideHas DEF Own, LockIs, JobIs, JournalIs, GrantIs, Working, Inside, Holds, At
<1> QED
  BY <1>2, <1>3, <1>4 DEF TermsInv

LEMMA WriteWorkKeeps ==
  ASSUME TermsInv, NEW p \in Procs, WriteWork(p)
  PROVE  TermsInv'
<1>0. pc[p] = "taken" /\ Inside(p)
  BY DEF WriteWork, Go, Inside
<1>1. /\ At(p, "saved", job[p]) /\ actions' = copy[p].actions
      /\ UNCHANGED <<manifest, ledger, open, copy, fresh, lock, crashes, returned, exposed>>
  BY <1>0, InsideHas, GoesOn DEF WriteWork, Steps
<1>2. /\ Holds(p, copy[p].manifest, copy[p].actions, copy[p].ledger) /\ actions' \in Journal
      /\ CopyIs(p)' /\ FilesFollow' /\ \A q \in Procs \ {p} : Own(q)'
  BY <1>0, <1>1, WriteFollows DEF At
<1>3. TermsTyped'
  BY <1>0, <1>1, <1>2, InsideHas DEF TermsTyped, Holds, At
<1>4. Own(p)'
  BY <1>0, <1>1, <1>2, InsideHas DEF Own, LockIs, JobIs, JournalIs, GrantIs, Working, Inside, Holds, At
<1> QED
  BY <1>2, <1>3, <1>4 DEF TermsInv

LEMMA WritePauseKeeps ==
  ASSUME TermsInv, NEW p \in Procs, WritePause(p)
  PROVE  TermsInv'
<1>0. pc[p] = "work" /\ Inside(p)
  BY DEF WritePause, Go, Inside
<1>1. /\ At(p, "pausing", job[p]) /\ actions' = copy[p].actions
      /\ UNCHANGED <<manifest, ledger, open, copy, fresh, lock, crashes, returned, exposed>>
  BY <1>0, InsideHas, GoesOn DEF WritePause, Steps
<1>2. /\ Holds(p, copy[p].manifest, copy[p].actions, copy[p].ledger) /\ actions' \in Journal
      /\ CopyIs(p)' /\ FilesFollow' /\ \A q \in Procs \ {p} : Own(q)'
  BY <1>0, <1>1, WriteFollows DEF At
<1>3. TermsTyped'
  BY <1>0, <1>1, <1>2, InsideHas DEF TermsTyped, Holds, At
<1>4. Own(p)'
  BY <1>0, <1>1, <1>2, InsideHas DEF Own, LockIs, JobIs, JournalIs, GrantIs, Working, Inside, Holds, At
<1> QED
  BY <1>2, <1>3, <1>4 DEF TermsInv

\* Saves that change no grant.
LEMMA SaveIntentKeeps ==
  ASSUME TermsInv, NEW p \in Procs, SaveIntent(p)
  PROVE  TermsInv'
<1>0. pc[p] = "intent" /\ Inside(p)
  BY DEF SaveIntent, Go, Inside
<1> DEFINE step == IF Amount[job[p]] > 0 THEN "grant" ELSE "revise"
<1>1. Go(p, "intent", step) /\ SaveAgain(p)
      /\ UNCHANGED <<actions, ledger, open, lock, job, crashes, returned, exposed>>
  BY <1>0, InsideHas DEF SaveIntent
<1>2. At(p, step, job[p]) /\ manifest \in Manifest
  BY <1>0, <1>1, InsideHas, GoesOn DEF Steps, TermsTyped
<1>3. /\ Holds(p, manifest, copy[p].actions, copy[p].ledger) /\ manifest' = manifest /\ p \in fresh'
      /\ fresh' \subseteq fresh /\ CopyIs(p)' /\ FilesFollow' /\ \A q \in Procs \ {p} : Own(q)'
  BY <1>0, <1>1, <1>2, SaveFollows DEF At
<1>4. TermsTyped'
  BY <1>0, <1>1, <1>2, <1>3, InsideHas DEF TermsTyped, Holds, At
<1>5. Own(p)'
  BY <1>0, <1>1, <1>2, <1>3, InsideHas
  DEF Own, LockIs, JobIs, JournalIs, GrantIs, Working, Inside, Holds, At, Allowances
<1> QED
  BY <1>3, <1>4, <1>5 DEF TermsInv

LEMMA SaveWorkKeeps ==
  ASSUME TermsInv, NEW p \in Procs, SaveWork(p)
  PROVE  TermsInv'
<1>0. pc[p] = "saved" /\ Inside(p)
  BY DEF SaveWork, Go, Inside
<1>1. SaveAgain(p) /\ UNCHANGED <<actions, ledger, open, lock, job, crashes, returned, exposed>>
  BY <1>0, InsideHas DEF SaveWork
<1>2. At(p, "begin", job[p]) /\ manifest \in Manifest
  BY <1>0, <1>1, InsideHas, GoesOn DEF SaveWork, Steps, TermsTyped
<1>3. /\ Holds(p, manifest, copy[p].actions, copy[p].ledger) /\ manifest' = manifest /\ p \in fresh'
      /\ fresh' \subseteq fresh /\ CopyIs(p)' /\ FilesFollow' /\ \A q \in Procs \ {p} : Own(q)'
  BY <1>0, <1>1, <1>2, SaveFollows DEF At
<1>4. TermsTyped'
  BY <1>0, <1>1, <1>2, <1>3, InsideHas DEF TermsTyped, Holds, At
<1>5. Own(p)'
  BY <1>0, <1>1, <1>2, <1>3, InsideHas DEF Own, LockIs, JobIs, JournalIs, GrantIs, Working, Inside, Holds, At
<1> QED
  BY <1>3, <1>4, <1>5 DEF TermsInv

LEMMA TakeIdKeeps ==
  ASSUME TermsInv, NEW p \in Procs, TakeId(p)
  PROVE  TermsInv'
<1>0. pc[p] = "work" /\ Inside(p)
  BY DEF TakeId, Go, Inside
<1>1. SaveManifest(p, manifest) /\ UNCHANGED <<actions, ledger, open, lock, job, crashes, returned, exposed>>
  BY <1>0, InsideHas DEF TakeId
<1>2. At(p, "taken", job[p]) /\ manifest \in Manifest
  BY <1>0, <1>1, InsideHas, GoesOn DEF TakeId, Steps, TermsTyped
<1>3. /\ Holds(p, manifest, copy[p].actions, copy[p].ledger) /\ manifest' = manifest /\ p \in fresh'
      /\ fresh' \subseteq fresh /\ CopyIs(p)' /\ FilesFollow' /\ \A q \in Procs \ {p} : Own(q)'
  BY <1>0, <1>1, <1>2, SaveFollows DEF At
<1>4. TermsTyped'
  BY <1>0, <1>1, <1>2, <1>3, InsideHas DEF TermsTyped, Holds, At
<1>5. Own(p)'
  BY <1>0, <1>1, <1>2, <1>3, InsideHas DEF Own, LockIs, JobIs, JournalIs, GrantIs, Working, Inside, Holds, At
<1> QED
  BY <1>3, <1>4, <1>5 DEF TermsInv

LEMMA BeginKeeps ==
  ASSUME TermsInv, NEW p \in Procs, Begin(p)
  PROVE  TermsInv'
<1>0. pc[p] = "begin" /\ Inside(p)
  BY DEF Begin, Go, Inside
<1>1. SaveManifest(p, manifest) /\ open' = TRUE /\ UNCHANGED <<actions, ledger, lock, job, crashes, returned, exposed>>
  BY <1>0, InsideHas DEF Begin
<1>2. At(p, "spend", job[p]) /\ manifest \in Manifest
  BY <1>0, <1>1, InsideHas, GoesOn DEF Begin, Steps, TermsTyped
<1>3. /\ Holds(p, manifest, copy[p].actions, copy[p].ledger) /\ manifest' = manifest /\ p \in fresh'
      /\ fresh' \subseteq fresh /\ CopyIs(p)' /\ FilesFollow' /\ \A q \in Procs \ {p} : Own(q)'
  BY <1>0, <1>1, <1>2, SaveFollows DEF At
<1>4. TermsTyped'
  BY <1>0, <1>1, <1>2, <1>3, InsideHas DEF TermsTyped, Holds, At
<1>5. Own(p)'
  BY <1>0, <1>1, <1>2, <1>3, InsideHas DEF Own, LockIs, JobIs, JournalIs, GrantIs, Working, Inside, Holds, At
<1> QED
  BY <1>3, <1>4, <1>5 DEF TermsInv

LEMMA CountWorkKeeps ==
  ASSUME TermsInv, NEW p \in Procs, CountWork(p)
  PROVE  TermsInv'
<1>0. pc[p] = "count" /\ Inside(p)
  BY DEF CountWork, Go, Inside
<1> DEFINE m == [manifest EXCEPT !.used = @ + 1]
<1>1. SaveManifest(p, m) /\ UNCHANGED <<actions, ledger, open, lock, job, crashes, returned, exposed>>
  BY <1>0, InsideHas DEF CountWork
<1>2. m \in Manifest /\ m.granted = manifest.granted /\ m.attempts = manifest.attempts
  BY <1>0, InsideHas, CountedIsManifest DEF TermsTyped
<1> HIDE DEF m
<1>3. At(p, "work", job[p])
  BY <1>0, <1>1, InsideHas, GoesOn DEF CountWork, Steps
<1>4. /\ Holds(p, m, copy[p].actions, copy[p].ledger) /\ manifest' = m /\ p \in fresh'
      /\ fresh' \subseteq fresh /\ CopyIs(p)' /\ FilesFollow' /\ \A q \in Procs \ {p} : Own(q)'
  BY <1>0, <1>1, <1>2, <1>3, SaveFollows DEF At
<1>5. TermsTyped'
  BY <1>0, <1>1, <1>2, <1>3, <1>4, InsideHas DEF TermsTyped, Holds, At
<1>6. Own(p)'
  BY <1>0, <1>1, <1>3, <1>4, InsideHas DEF Own, LockIs, JobIs, JournalIs, GrantIs, Working, Inside, Holds, At
<1> QED
  BY <1>4, <1>5, <1>6 DEF TermsInv

LEMMA PauseRunKeeps ==
  ASSUME TermsInv, NEW p \in Procs, PauseRun(p)
  PROVE  TermsInv'
<1>0. pc[p] \in {"work", "pausing"} /\ Inside(p)
  BY DEF PauseRun, Go, Inside
<1> DEFINE m == IF manifest.paused THEN manifest ELSE [manifest EXCEPT !.paused = TRUE]
<1>1. /\ SaveManifest(p, m) \/ (m = manifest /\ SaveAgain(p))
      /\ lock' = None /\ UNCHANGED <<actions, ledger, open, crashes, returned, exposed>>
  BY <1>0, InsideHas DEF PauseRun
<1>2. m \in Manifest /\ m.granted = manifest.granted /\ m.attempts = manifest.attempts
  BY <1>0, InsideHas, PausedIsManifest DEF TermsTyped
<1> HIDE DEF m
<1>3. At(p, "idle", None)
  BY <1>0, InsideHas DEF PauseRun, Go, Steps, TermsTyped, At
<1>4. /\ Holds(p, m, copy[p].actions, copy[p].ledger) /\ manifest' = m /\ p \in fresh'
      /\ fresh' \subseteq fresh /\ CopyIs(p)' /\ FilesFollow' /\ \A q \in Procs \ {p} : Own(q)'
  BY <1>0, <1>1, <1>2, <1>3, SaveFollows DEF At
<1>5. TermsTyped'
  BY <1>0, <1>1, <1>2, <1>3, <1>4, InsideHas DEF TermsTyped, Holds, At
<1>6. Own(p)'
  BY <1>0, <1>1, <1>3, <1>4, InsideHas DEF Own, LockIs, JobIs, JournalIs, GrantIs, Working, Inside, Holds, At
<1> QED
  BY <1>4, <1>5, <1>6 DEF TermsInv

\* Steps of a run that touch neither the journal nor the grants.
LEMMA CloseWorkKeeps ==
  ASSUME TermsInv, NEW p \in Procs, CloseWork(p) \/ SpendRefused(p)
  PROVE  TermsInv'
<1>0. pc[p] \in {"close", "spend"} /\ Inside(p)
  BY DEF CloseWork, SpendRefused, Go, Inside
<1>1. PICK step \in {"count", "close"} : At(p, step, job[p])
  BY <1>0, InsideHas, GoesOn DEF CloseWork, SpendRefused, Steps
<1>2. open' \in BOOLEAN /\ UNCHANGED <<actions, manifest, ledger, copy, fresh, lock, job, crashes, returned, exposed>>
  BY <1>0, InsideHas DEF CloseWork, SpendRefused, files, TermsTyped
<1>3. Holds(p, copy[p].manifest, copy[p].actions, copy[p].ledger)
  BY <1>0, <1>2, InsideHas, HoldsSame DEF Inside
<1>4. TermsTyped'
  BY <1>0, <1>1, <1>2, <1>3, InsideHas DEF TermsTyped, Holds, At
<1>5. Own(p)'
  BY <1>0, <1>1, <1>2, <1>3, InsideHas DEF Own, LockIs, CopyIs, Lasting, JobIs, JournalIs, GrantIs, Working, Inside, Holds, At
<1>6. ASSUME NEW q \in Procs, q # p PROVE Own(q)'
  BY <1>0, <1>1, <1>2, <1>6, InsideHas, OthersWait, LastingStays DEF At
<1> QED
  BY <1>0, <1>2, <1>4, <1>5, <1>6, InsideHas, FilesStay DEF TermsInv

\* The ledger is rewritten from the copy with its grants, or with one more.
LEMMA LedgerFollows ==
  ASSUME TermsInv, NEW p \in Procs, Inside(p), NEW l \in Ledger,
         ToSet(copy[p].ledger.grants) \cup {copy[p].actions.pending} \subseteq ToSet(l.grants) \cup {None},
         IsInjective(l.grants), ToSet(l.grants) \subseteq manifest.granted,
         Hold(p, "ledger", l), ledger' \in {ledger, l},
         ToSet(ledger.grants) \cap Supplies \subseteq ToSet(ledger'.grants),
         ToSet(l.grants) \cap Supplies \subseteq ToSet(ledger'.grants),
         UNCHANGED <<actions, manifest, fresh, returned, exposed>>,
         \A q \in Procs \ {p} : pc'[q] = pc[q]
  PROVE  /\ Holds(p, copy[p].manifest, copy[p].actions, l)
         /\ CopyIs(p)' /\ FilesFollow' /\ \A q \in Procs \ {p} : Own(q)'
<1>1. Holds(p, copy[p].manifest, copy[p].actions, l)
  BY InsideHas, HoldsLedger DEF Inside
<1>2. Backed(l, manifest.granted, ToSet(ledger'.grants))
  BY DEF Backed
<1>3. Backed(ledger', manifest.granted, ToSet(ledger'.grants))
  BY InsideHas DEF Backed, FilesFollow
<1>4. Follows(copy[p].actions, manifest.granted, ToSet(ledger'.grants), Lasting)
  BY InsideHas, FollowsAllow
<1>5. Follows(actions, manifest.granted, ToSet(ledger'.grants), Lasting)
  BY InsideHas, FollowsAllow DEF FilesFollow, TermsTyped
<1>6. Covers(l, copy[p].actions)
  <2>1. copy[p].actions.supplies \in Seq(Supplies)
    BY InsideHas, JournalParts
  <2>2. ToSet(copy[p].actions.supplies) \subseteq Supplies
    BY <2>1, ElementOfSeq, LenProperties DEF ToSet
  <2> QED
    BY <2>2, InsideHas, TermsAssumption DEF Covers
<1>7. CopyIs(p)' /\ FilesFollow'
  BY <1>1, <1>2, <1>3, <1>4, <1>5, <1>6, InsideHas, LastingStays DEF CopyIs, FilesFollow, Holds
<1>8. ASSUME NEW q \in Procs, q # p PROVE Own(q)'
  BY <1>1, <1>8, InsideHas, OthersWait, LastingStays DEF Holds
<1> QED
  BY <1>1, <1>7, <1>8

LEMMA SpentIsLedger ==
  ASSUME NEW l \in Ledger
  PROVE  LET k == [l EXCEPT !.spent = @ + 1] IN k \in Ledger /\ k.grants = l.grants
BY DEF Ledger

LEMMA SpendKeeps ==
  ASSUME TermsInv, NEW p \in Procs, Spend(p)
  PROVE  TermsInv'
<1>0. pc[p] = "spend" /\ Inside(p)
  BY DEF Spend, Go, Inside
<1> DEFINE l == [copy[p].ledger EXCEPT !.spent = @ + 1]
<1>1. l \in Ledger /\ l.grants = copy[p].ledger.grants
  BY <1>0, InsideHas, SpentIsLedger
<1>2. /\ ledger' = l /\ Hold(p, "ledger", l)
      /\ UNCHANGED <<actions, manifest, open, fresh, lock, job, crashes, returned, exposed>>
  BY DEF Spend
<1> HIDE DEF l
<1>3. At(p, "close", job[p]) /\ copy[p].actions.pending = None
  BY <1>0, <1>2, InsideHas, GoesOn DEF Spend, Steps, Own, JournalIs, Working
<1>4. ToSet(ledger.grants) \cap Supplies \subseteq ToSet(copy[p].ledger.grants)
  BY <1>0, <1>3, InsideHas, NothingMissing, TermsAssumption DEF Inside
<1>5. IsInjective(l.grants) /\ ToSet(l.grants) \subseteq manifest.granted
  BY <1>0, <1>1, InsideHas DEF Backed
<1>6. /\ Holds(p, copy[p].manifest, copy[p].actions, l)
      /\ CopyIs(p)' /\ FilesFollow' /\ \A q \in Procs \ {p} : Own(q)'
  BY <1>0, <1>1, <1>2, <1>3, <1>4, <1>5, LedgerFollows DEF At
<1>7. TermsTyped'
  BY <1>0, <1>1, <1>2, <1>3, <1>6, InsideHas DEF TermsTyped, Holds, At
<1>8. Own(p)'
  BY <1>0, <1>2, <1>3, <1>6, InsideHas DEF Own, LockIs, JobIs, JournalIs, GrantIs, Working, Inside, Holds, At
<1> QED
  BY <1>6, <1>7, <1>8 DEF TermsInv

\* What the session's attempts grew by is the sum of what was granted.
LEMMA RequestedIsTotal ==
  ASSUME NEW S, IsFiniteSet(S)
  PROVE  Requested(S) = Total(Amount, S)
<1> DEFINE P(g) == g = [s \in SUBSET S |->
                          IF s = {} THEN 0
                          ELSE Amount[CHOOSE x \in s : TRUE] + g[s \ {CHOOSE x \in s : TRUE}]]
           sum == CHOOSE g : P(g)
<1>1. ASSUME NEW g PROVE P(g) <=> Adds(Amount, S, g)
  BY DEF Adds, Pick
<1>2. Requested(S) = sum[S]
  BY DEF Requested, MapThenSumSet, MapThenFoldSet
<1> HIDE DEF P
<1>3. \E g : P(g)  BY <1>1, AddsSomewhere
<1>4. P(sum)  BY <1>3
<1> HIDE DEF sum
<1>5. Adds(Amount, S, sum)  BY <1>1, <1>4
<1> QED  BY <1>2, <1>5, TotalIs

LEMMA RequestedAdds ==
  ASSUME NEW G \in SUBSET Allowances, NEW id \in Allowances \ G
  PROVE  Requested(G \cup {id}) = Requested(G) + Amount[id] /\ Requested(G) \in Nat
<1> DEFINE H == G \cup {id}
<1>1. IsFiniteSet(G) /\ IsFiniteSet(H) /\ Amount \in [Allowances -> Nat]
  BY TermsAssumption, FS_Subset
<1>2. Requested(G) = Total(Amount, G) /\ Requested(H) = Total(Amount, H)
  BY <1>1, RequestedIsTotal
<1>3. Total(Amount, H) = Amount[id] + Total(Amount, H \ {id})
  BY <1>1, TotalWithout
<1>4. H \ {id} = G /\ Amount[id] \in Nat /\ H = G \cup {id}
  BY <1>1
<1>5. Total(Amount, G) \in Nat
  BY <1>1, TotalNat
<1> HIDE DEF H
<1>6. Total(Amount, H) = Amount[id] + Total(Amount, G)
  BY <1>3, <1>4
<1> QED
  BY <1>2, <1>4, <1>5, <1>6

\* Granting a call's allowance, once however often the call is repeated.
LEMMA GrantedOnce ==
  ASSUME NEW m \in Manifest, NEW id \in Allowances,
         m.attempts = InitAttempts + 10 * Requested(m.granted)
  PROVE  /\ Granted(m, id) \in Manifest
         /\ Granted(m, id).granted = m.granted \cup {id}
         /\ Granted(m, id).attempts = InitAttempts + 10 * Requested(m.granted \cup {id})
<1>1. CASE id \in m.granted
  <2>1. m.granted \cup {id} = m.granted
    BY <1>1
  <2> QED
    BY <1>1, <2>1 DEF Granted
<1>2. CASE id \notin m.granted
  <2> DEFINE n == [m EXCEPT !.attempts = @ + 10 * Amount[id], !.granted = @ \cup {id}]
  <2>1. Granted(m, id) = n
    BY <1>2 DEF Granted
  <2>2. Amount[id] \in Nat /\ m.attempts \in Nat /\ m.granted \in SUBSET Allowances
    BY TermsAssumption DEF Manifest
  <2>3. n = [attempts |-> m.attempts + 10 * Amount[id], granted |-> m.granted \cup {id},
             used |-> m.used, paused |-> m.paused]
    <3> DEFINE k == [m EXCEPT !.attempts = @ + 10 * Amount[id]]
    <3>1. m = [attempts |-> m.attempts, granted |-> m.granted, used |-> m.used, paused |-> m.paused]
      BY DEF Manifest
    <3>2. k = [attempts |-> m.attempts + 10 * Amount[id], granted |-> m.granted,
               used |-> m.used, paused |-> m.paused]
      BY <3>1
    <3>3. n = [k EXCEPT !.granted = @ \cup {id}]
      OBVIOUS
    <3> HIDE DEF k, n
    <3> QED
      BY <3>2, <3>3
  <2>4. m.used \in Nat /\ m.paused \in BOOLEAN
    BY DEF Manifest
  <2> HIDE DEF n
  <2>5. n \in Manifest /\ n.granted = m.granted \cup {id} /\ n.attempts = m.attempts + 10 * Amount[id]
    BY <2>2, <2>3, <2>4 DEF Manifest
  <2>6. Requested(m.granted \cup {id}) = Requested(m.granted) + Amount[id] /\ Requested(m.granted) \in Nat
    BY <1>2, <2>2, RequestedAdds
  <2>7. n.attempts = InitAttempts + 10 * Requested(m.granted \cup {id})
    BY <2>2, <2>5, <2>6, TermsAssumption
  <2> QED
    BY <2>1, <2>5, <2>7
<1> QED
  BY <1>1, <1>2

LEMMA GrantAttemptsKeeps ==
  ASSUME TermsInv, NEW p \in Procs, GrantAttempts(p)
  PROVE  TermsInv'
<1>0. pc[p] = "grant" /\ Inside(p)
  BY DEF GrantAttempts, Go, Inside
<1> DEFINE id == job[p]
           m == Granted(manifest, id)
           G == manifest.granted \cup {id}
<1>1. /\ id \in Allowances /\ Amount[id] > 0
      /\ id \in Supplies => copy[p].actions.pending = id /\ actions = copy[p].actions
      /\ id \notin Supplies => copy[p].actions.pending = None
  BY <1>0, InsideHas DEF Own, JobIs, JournalIs
<1>2. /\ SaveManifest(p, m) \/ (m = manifest /\ SaveAgain(p))
      /\ UNCHANGED <<actions, ledger, open, lock, job, crashes, returned, exposed>>
  BY <1>0, InsideHas DEF GrantAttempts, Granted
<1>3. /\ m \in Manifest /\ m.granted = G /\ m.attempts = InitAttempts + 10 * Requested(G)
  BY <1>0, <1>1, InsideHas, GrantedOnce DEF TermsTyped, FilesFollow
<1> HIDE DEF m
<1>4. At(p, "allow", id)
  BY <1>0, <1>2, InsideHas, GoesOn DEF GrantAttempts, Steps
<1>5. /\ manifest' = m /\ p \in fresh' /\ fresh' \in {fresh, {p}} /\ (m # manifest => fresh' = {p})
      /\ Holds(p, m, copy[p].actions, copy[p].ledger)
  <2>1. CASE SaveManifest(p, m)
    BY <1>0, <1>3, <2>1, InsideHas, HoldsManifest DEF SaveManifest
  <2>2. CASE m = manifest /\ SaveAgain(p)
    BY <1>0, <2>2, InsideHas, HoldsSame DEF SaveAgain
  <2> QED
    BY <1>2, <2>1, <2>2
<1>6. /\ Follows(copy[p].actions, G, ToSet(ledger.grants), Lasting)
      /\ Backed(copy[p].ledger, G, ToSet(ledger.grants))
  BY <1>0, <1>1, InsideHas, FollowsGrant, BackedMore
<1>7. /\ Follows(actions, G, ToSet(ledger.grants), Lasting)
      /\ Backed(ledger, G, ToSet(ledger.grants))
  BY <1>0, <1>1, InsideHas, FollowsGrant, BackedMore DEF FilesFollow
<1>8. \A g \in G : Amount[g] > 0
  BY <1>0, <1>1, InsideHas DEF FilesFollow
<1> HIDE DEF id
<1>9. FilesFollow'
  BY <1>0, <1>2, <1>3, <1>5, <1>7, <1>8, InsideHas, LastingStays DEF FilesFollow
<1>10. TermsTyped'
  BY <1>0, <1>2, <1>3, <1>4, <1>5, InsideHas DEF TermsTyped, Holds, At
<1>11. Own(p)'
  BY <1>0, <1>1, <1>2, <1>3, <1>4, <1>5, <1>6, InsideHas
  DEF Own, LockIs, CopyIs, Lasting, JobIs, JournalIs, GrantIs, Working, Inside, Holds, At
<1>12. ASSUME NEW q \in Procs, q # p PROVE Own(q)'
  BY <1>0, <1>2, <1>4, <1>5, <1>12, InsideHas, OthersWait, LastingStays DEF Holds, At
<1> QED
  BY <1>9, <1>10, <1>11, <1>12 DEF TermsInv

LEMMA AllowedOnce ==
  ASSUME NEW l \in Ledger, NEW id \in Allowances, IsInjective(l.grants)
  PROVE  /\ Allowed(l, id) \in Ledger /\ IsInjective(Allowed(l, id).grants)
         /\ ToSet(Allowed(l, id).grants) = ToSet(l.grants) \cup {id}
<1>1. l.grants \in Seq(Allowances)
  BY DEF Ledger
<1>2. CASE id \in ToSet(l.grants)
  BY <1>2 DEF Allowed
<1>3. CASE id \notin ToSet(l.grants)
  BY <1>1, <1>3, AppendJoins DEF Allowed, Ledger
<1> QED
  BY <1>2, <1>3

LEMMA AllowRequestsKeeps ==
  ASSUME TermsInv, NEW p \in Procs, AllowRequests(p)
  PROVE  TermsInv'
<1>0. pc[p] = "allow" /\ Inside(p)
  BY DEF AllowRequests, Go, Inside
<1> DEFINE id == job[p]
           l == Allowed(copy[p].ledger, id)
           step == IF id \in Supplies THEN "revise" ELSE "commit"
<1>1. /\ id \in Allowances /\ Amount[id] > 0 /\ id \in manifest.granted
      /\ id \in Supplies => copy[p].actions.pending = id
      /\ id \notin Supplies => copy[p].actions.pending = None
  BY <1>0, InsideHas DEF Own, JobIs, JournalIs, GrantIs
<1>2. l \in Ledger /\ IsInjective(l.grants) /\ ToSet(l.grants) = ToSet(copy[p].ledger.grants) \cup {id}
  BY <1>0, <1>1, InsideHas, AllowedOnce DEF Backed
<1>3. /\ Go(p, "allow", step) /\ Hold(p, "ledger", l)
      /\ ledger' = IF l = copy[p].ledger THEN ledger ELSE l
      /\ UNCHANGED <<actions, manifest, open, fresh, lock, job, crashes, returned, exposed>>
  BY DEF AllowRequests
<1>4. At(p, step, id)
  BY <1>0, <1>3, InsideHas, GoesOn DEF Steps
<1> HIDE DEF l
<1>5. ToSet(ledger.grants) \cap Supplies \subseteq ToSet(l.grants)
  BY <1>0, <1>1, <1>2, InsideHas, NothingMissing, TermsAssumption DEF Inside
<1>6. ToSet(copy[p].ledger.grants) \cap Supplies \subseteq ToSet(ledger.grants)
  BY <1>0, InsideHas DEF Backed
<1>7. /\ ToSet(ledger.grants) \cap Supplies \subseteq ToSet(ledger'.grants)
      /\ ToSet(l.grants) \cap Supplies \subseteq ToSet(ledger'.grants)
      /\ ledger' \in {ledger, l}
  BY <1>3, <1>5, <1>6
<1>8. /\ ToSet(copy[p].ledger.grants) \cup {copy[p].actions.pending} \subseteq ToSet(l.grants) \cup {None}
      /\ ToSet(l.grants) \subseteq manifest.granted
  BY <1>0, <1>1, <1>2, InsideHas DEF Backed
<1>9. /\ Holds(p, copy[p].manifest, copy[p].actions, l)
      /\ CopyIs(p)' /\ FilesFollow' /\ \A q \in Procs \ {p} : Own(q)'
  BY <1>0, <1>2, <1>3, <1>4, <1>7, <1>8, LedgerFollows DEF At
<1>10. TermsTyped'
  BY <1>0, <1>2, <1>3, <1>4, <1>7, <1>9, InsideHas DEF TermsTyped, Holds, At
<1>11. Own(p)'
  BY <1>0, <1>1, <1>2, <1>3, <1>4, <1>7, <1>9, InsideHas, TermsAssumption
  DEF Own, LockIs, JobIs, JournalIs, GrantIs, Working, Inside, Holds, At, Allowances
<1> QED
  BY <1>9, <1>10, <1>11 DEF TermsInv

LEMMA CopyRecord ==
  ASSUME NEW c, NEW t, NEW m, NEW a, NEW l, c = [loaded |-> t, manifest |-> m, actions |-> a, ledger |-> l],
         NEW n, NEW b
  PROVE  /\ [c EXCEPT !.manifest = n] = [loaded |-> t, manifest |-> n, actions |-> a, ledger |-> l]
         /\ [c EXCEPT !.actions = b] = [loaded |-> t, manifest |-> m, actions |-> b, ledger |-> l]
OBVIOUS

\* The contracts change in the copy; a paused session is reopened with them.
LEMMA ReviseKeeps ==
  ASSUME TermsInv, NEW p \in Procs, Revise(p)
  PROVE  TermsInv'
<1>0. pc[p] = "revise" /\ Inside(p)
  BY DEF Revise, Go, Inside
<1> DEFINE id == job[p]
           c == copy[p]
           a == c.actions
           b == [a EXCEPT !.pending = None, !.supplies = Append(@, id)]
           kept == [c EXCEPT !.actions.pending = None, !.actions.supplies = Append(@, id)]
           m == IF c.manifest.paused THEN [c.manifest EXCEPT !.paused = FALSE] ELSE c.manifest
           d == [loaded |-> c.loaded, manifest |-> m, actions |-> b, ledger |-> c.ledger]
<1>1. /\ id \in Supplies /\ a.pending = id /\ id \notin ToSet(a.supplies) /\ a \in Journal /\ c \in Copies
      /\ Amount[id] > 0 => id \in manifest.granted /\ id \in ToSet(c.ledger.grants) /\ id \in ToSet(ledger.grants)
  BY <1>0, InsideHas DEF Own, JobIs, JournalIs, GrantIs, Allowances
<1>2. b \in Journal /\ b.pending = None /\ b.supplies = Append(a.supplies, id) /\ b.switches = a.switches
  BY <1>1, JournalParts
<1>3. /\ c.manifest = manifest /\ m \in Manifest
      /\ m.granted = manifest.granted /\ m.attempts = manifest.attempts
  BY <1>0, InsideHas, PausedIsManifest DEF TermsTyped
<1>4. c.loaded \in {TRUE} /\ c = [loaded |-> c.loaded, manifest |-> c.manifest, actions |-> a, ledger |-> c.ledger]
  BY <1>1 DEF Copies
<1>5. kept = [loaded |-> c.loaded, manifest |-> c.manifest, actions |-> b, ledger |-> c.ledger]
  <2> DEFINE a0 == [a EXCEPT !.pending = None]
             k == [c EXCEPT !.actions.pending = None]
  <2>1. k = [loaded |-> c.loaded, manifest |-> c.manifest, actions |-> a0, ledger |-> c.ledger]
    <3>1. k = [c EXCEPT !.actions = a0]
      OBVIOUS
    <3> HIDE DEF c, a, a0, k
    <3> QED
      BY <1>4, <3>1, CopyRecord
  <2>2. kept = [k EXCEPT !.actions.supplies = Append(@, id)]
    OBVIOUS
  <2>3. b = [a0 EXCEPT !.supplies = Append(@, id)]
    OBVIOUS
  <2> HIDE DEF k, kept, a0, b
  <2> QED
    BY <2>1, <2>2, <2>3
<1>6. d \in Copies
  BY <1>1, <1>2, <1>3, <1>4 DEF Copies
<1>7. /\ manifest' = m /\ copy' = [copy EXCEPT ![p] = d] /\ fresh' \in {fresh, {p}}
      /\ m # manifest => fresh' = {p}
      /\ Go(p, "revise", "commit") /\ UNCHANGED <<actions, ledger, open, lock, job, crashes, returned, exposed>>
  <2>1. /\ IF kept.manifest.paused
           THEN /\ manifest' = [kept.manifest EXCEPT !.paused = FALSE]
                /\ copy' = [copy EXCEPT ![p] = [kept EXCEPT !.manifest = manifest']]
                /\ fresh' = {p}
           ELSE copy' = [copy EXCEPT ![p] = kept] /\ UNCHANGED <<manifest, fresh>>
        /\ Go(p, "revise", "commit") /\ UNCHANGED <<actions, ledger, open, lock, job, crashes, returned, exposed>>
    BY DEF Revise
  <2> HIDE DEF kept, b, c, a
  <2>2. kept.manifest = c.manifest
    BY <1>5
  <2>3. CASE c.manifest.paused
    <3>1. manifest' = m /\ fresh' = {p}
      BY <2>1, <2>2, <2>3
    <3>2. [kept EXCEPT !.manifest = m] = d
      <4> HIDE DEF m
      <4> QED
        BY <1>5, CopyRecord
    <3> QED
      BY <2>1, <2>2, <2>3, <3>1, <3>2
  <2>4. CASE ~c.manifest.paused
    <3>1. manifest' = m /\ m = manifest /\ fresh' = fresh
      BY <1>3, <2>1, <2>2, <2>4
    <3>2. kept = d
      BY <1>5, <2>4
    <3> QED
      BY <2>1, <2>2, <2>4, <3>1, <3>2
  <2> QED
    BY <2>3, <2>4
<1>8. At(p, "commit", id)
  BY <1>0, <1>7, InsideHas, GoesOn DEF Steps
<1>9. d.manifest = m /\ d.actions = b /\ d.ledger = c.ledger
  OBVIOUS
<1>10. Follows(b, manifest.granted, ToSet(ledger.grants), Lasting)
  BY <1>0, <1>1, <1>2, InsideHas, FollowsRevise
<1>11. Covers(c.ledger, b) /\ id \in ToSet(b.supplies)
  <2>1. a.supplies \in Seq(Supplies)
    BY <1>1, JournalParts
  <2>2. ToSet(b.supplies) = ToSet(a.supplies) \cup {id}
    BY <1>1, <1>2, <2>1, AppendJoins
  <2> HIDE DEF b
  <2> QED
    BY <1>0, <1>1, <2>2, InsideHas DEF Covers
<1> HIDE DEF m, b, kept, d, c
<1>12. Holds(p, m, b, c.ledger)
  BY <1>0, <1>6, <1>7, <1>9, InsideHas DEF Holds, TermsTyped
<1>13. TermsTyped'
  BY <1>0, <1>3, <1>7, <1>8, <1>12, InsideHas DEF TermsTyped, Holds, At
<1>14. id \notin Switches
  BY <1>1, TermsAssumption DEF Allowances
<1>15. Own(p)'
  <2>1. Backed(c.ledger, manifest.granted, ToSet(ledger.grants)) /\ lock = p /\ p \in fresh
    BY <1>0, InsideHas DEF c
  <2>2. LockIs(p)' /\ JobIs(p)'
    BY <1>1, <1>7, <1>8, <2>1 DEF LockIs, JobIs, Inside, At, Allowances
  <2>3. CopyIs(p)'
    BY <1>3, <1>7, <1>10, <1>11, <1>12, <2>1, LastingStays DEF CopyIs, Holds
  <2>4. JournalIs(p)'
    BY <1>2, <1>8, <1>11, <1>12, <1>14 DEF JournalIs, Holds, At, Working
  <2>5. GrantIs(p)'
    BY <1>1, <1>3, <1>7, <1>8 DEF GrantIs, At
  <2> QED
    BY <2>2, <2>3, <2>4, <2>5 DEF Own
<1>16. ASSUME NEW q \in Procs, q # p PROVE Own(q)'
  BY <1>0, <1>7, <1>8, <1>12, <1>16, InsideHas, OthersWait, LastingStays DEF Holds, At
<1>17. FilesFollow'
  BY <1>0, <1>3, <1>7, InsideHas, LastingStays DEF FilesFollow
<1> QED
  BY <1>13, <1>15, <1>16, <1>17 DEF TermsInv

\* The call has written its terms: what it returned is in the files.
LEMMA SaveTermsKeeps ==
  ASSUME TermsInv, NEW p \in Procs, SaveTerms(p)
  PROVE  TermsInv'
<1>0. pc[p] = "committed" /\ Inside(p)
  BY DEF SaveTerms, Go, Inside
<1> DEFINE id == job[p]
           goes == id \in Continuations /\ manifest.paused
           m == IF goes THEN [manifest EXCEPT !.paused = FALSE] ELSE manifest
           step == IF id \in Continuations THEN "work" ELSE "idle"
<1>1. /\ id \in Allowances \cup Switches /\ actions = copy[p].actions /\ copy[p].actions.pending = None
      /\ id \in Supplies => id \in ToSet(copy[p].actions.supplies)
      /\ id \in Switches => id \in ToSet(copy[p].actions.switches)
      /\ id \in Allowances /\ Amount[id] > 0 => id \in manifest.granted
  BY <1>0, InsideHas DEF Own, JobIs, JournalIs, GrantIs
<1>2. m \in Manifest /\ m.granted = manifest.granted /\ m.attempts = manifest.attempts
  BY <1>0, InsideHas, PausedIsManifest DEF TermsTyped
<1>3. /\ SaveManifest(p, m) \/ (m = manifest /\ SaveAgain(p))
      /\ Done(p, id) /\ UNCHANGED <<actions, ledger, open, crashes>>
      /\ lock' = IF id \in Continuations THEN p ELSE None
  BY <1>0, InsideHas DEF SaveTerms
<1> HIDE DEF m
<1>4. At(p, step, None)
  BY <1>0, InsideHas DEF SaveTerms, Go, Steps, TermsTyped, At
<1>5. /\ manifest' = m /\ p \in fresh' /\ fresh' \in {fresh, {p}} /\ (m # manifest => fresh' = {p})
      /\ Holds(p, m, copy[p].actions, copy[p].ledger)
  <2>1. CASE SaveManifest(p, m)
    BY <1>0, <1>2, <2>1, InsideHas, HoldsManifest DEF SaveManifest
  <2>2. CASE m = manifest /\ SaveAgain(p)
    BY <1>0, <2>2, InsideHas, HoldsSame DEF SaveAgain
  <2> QED
    BY <1>3, <2>1, <2>2
\* Where another copy may still be fresh, the call counts as exposed.
<1>6. /\ returned' = returned \cup {id} /\ exposed' \subseteq returned'
      /\ Lasting' \subseteq Lasting \cup {id} /\ (fresh' # {p} => Lasting' \subseteq Lasting)
  BY <1>0, <1>3, InsideHas DEF Done, Lasting, TermsTyped
<1>7. Follows(actions, manifest.granted, ToSet(ledger.grants), Lasting')
  BY <1>0, <1>1, <1>6, InsideHas, FollowsReturn
<1>8. id \in Allowances /\ Amount[id] > 0 =>
        id \in manifest.granted /\ (id \in Supplies => id \in ToSet(ledger.grants))
  BY <1>0, <1>1, InsideHas DEF Follows
<1>9. TermsTyped'
  BY <1>0, <1>1, <1>2, <1>3, <1>4, <1>5, <1>6, InsideHas DEF TermsTyped, Holds, At
<1>10. FilesFollow'
  BY <1>0, <1>2, <1>3, <1>5, <1>6, <1>7, <1>8, InsideHas DEF FilesFollow
<1>11. Own(p)'
  BY <1>0, <1>1, <1>2, <1>3, <1>4, <1>5, <1>7, InsideHas
  DEF Own, LockIs, CopyIs, JobIs, JournalIs, GrantIs, Working, Inside, Holds, At
<1>12. ASSUME NEW q \in Procs, q # p PROVE Own(q)'
  BY <1>0, <1>3, <1>4, <1>5, <1>6, <1>12, InsideHas, OthersWait DEF Holds, At
<1> QED
  BY <1>9, <1>10, <1>11, <1>12 DEF TermsInv

----------------------------------------------------------------------------
LEMMA TermsStart == ASSUME TermsInit PROVE TermsInv
<1>1. /\ actions = [pending |-> None, supplies |-> <<>>, switches |-> <<>>]
      /\ manifest = [attempts |-> InitAttempts, granted |-> {}, used |-> 0, paused |-> FALSE]
      /\ ledger = [grants |-> <<>>, spent |-> 0] /\ open = FALSE
      /\ fresh = {} /\ lock = None /\ crashes = 0 /\ returned = {} /\ exposed = {}
      /\ \A p \in Procs : copy[p] = NoCopy /\ pc[p] = "out" /\ job[p] = None
  BY DEF TermsInit, NoJournal, NoLedger
<1>2. TermsTyped
  <2>1. actions \in Journal /\ manifest \in Manifest /\ ledger \in Ledger /\ crashes \in 0 .. MaxCrashes
    BY <1>1, TermsAssumption DEF Journal, Manifest, Ledger
  <2> QED
    BY <1>1, <2>1 DEF TermsInit, TermsTyped, Steps
<1>3. ToSet(<<>>) = {} /\ IsInjective(<<>>)
  BY DEF ToSet, IsInjective
<1>4. Requested({}) = 0
  BY RequestedIsTotal, TotalUnfolds, FS_EmptySet
<1>5. FilesFollow
  <2>1. Follows(actions, manifest.granted, ToSet(ledger.grants), Lasting)
    BY <1>1, <1>3 DEF Follows, Lasting
  <2>2. Backed(ledger, manifest.granted, ToSet(ledger.grants))
    BY <1>1, <1>3 DEF Backed
  <2> QED
    BY <1>1, <1>4, <2>1, <2>2, TermsAssumption DEF FilesFollow
<1>6. ASSUME NEW p \in Procs PROVE Own(p)
  BY <1>1 DEF Own, LockIs, CopyIs, Lasting, JobIs, JournalIs, GrantIs, Working, Inside
<1> QED
  BY <1>2, <1>5, <1>6 DEF TermsInv

LEMMA InsideStepKeeps ==
  ASSUME TermsInv, NEW p \in Procs, Step(p)
  PROVE  TermsInv'
<1>1. CASE WriteIntent(p) \/ SaveIntent(p) \/ GrantAttempts(p) \/ AllowRequests(p) \/ Revise(p)
  BY <1>1, WriteIntentKeeps, SaveIntentKeeps, GrantAttemptsKeeps, AllowRequestsKeeps, ReviseKeeps
<1>2. CASE WriteTerms(p) \/ SaveTerms(p)
  BY <1>2, WriteTermsKeeps, SaveTermsKeeps
<1>3. CASE WriteWork(p) \/ SaveWork(p) \/ Begin(p) \/ Spend(p)
  BY <1>3, WriteWorkKeeps, SaveWorkKeeps, BeginKeeps, SpendKeeps
<1>4. CASE CloseWork(p) \/ SpendRefused(p) \/ CountWork(p)
  BY <1>4, CloseWorkKeeps, CountWorkKeeps
<1>5. CASE PauseRun(p) \/ TakeId(p) \/ WritePause(p)
  BY <1>5, PauseRunKeeps, TakeIdKeeps, WritePauseKeeps
<1> QED
  BY <1>1, <1>2, <1>3, <1>4, <1>5 DEF Step

LEMMA TermsGoOn == TermsInv /\ [TermsNext]_termsVars => TermsInv'
<1> SUFFICES ASSUME TermsInv, [TermsNext]_termsVars PROVE TermsInv'
  OBVIOUS
<1>1. CASE UNCHANGED termsVars
  <2>1. UNCHANGED <<actions, manifest, ledger, open, copy, fresh, lock>>
        /\ UNCHANGED <<pc, job, crashes, returned, exposed>>
    BY <1>1 DEF termsVars
  <2>2. TermsTyped'
    BY <2>1 DEF TermsInv, TermsTyped
  <2>3. FilesFollow'
    BY <2>1 DEF TermsInv, FilesFollow, Lasting
  <2>4. ASSUME NEW p \in Procs PROVE Own(p)'
    <3>1. Own(p)
      BY DEF TermsInv
    <3>2. (Own(p))' = Own(p)
      BY <2>1 DEF Own, LockIs, CopyIs, Lasting, JobIs, JournalIs, GrantIs, Working, Inside
    <3> QED
      BY <3>1, <3>2
  <2> QED
    BY <2>2, <2>3, <2>4 DEF TermsInv
<1>2. ASSUME NEW p \in Procs, Exit(p) PROVE TermsInv'
  BY <1>2, LeaveKeeps DEF Exit, files, TermsInv, TermsTyped
<1>3. ASSUME NEW p \in Procs, Stop(p) PROVE TermsInv'
  <2>1. crashes' \in 0 .. MaxCrashes
    BY <1>3, TermsAssumption DEF Stop, TermsInv, TermsTyped
  <2> QED
    BY <1>3, <2>1, LeaveKeeps DEF Stop, files
<1>4. CASE TermsNext
  BY <1>2, <1>3, <1>4, LoadManifestKeeps, LoadActionsKeeps, LoadLedgerKeeps, SupplyKeeps, ContinueKeeps,
     SwitchModelKeeps, RunKeeps, RecoverKeeps, InsideStepKeeps DEF TermsNext
<1> QED
  BY <1>1, <1>4

LEMMA TermsAlways == TermsSpec => []TermsInv
BY TermsStart, TermsGoOn, PTL DEF TermsSpec

\* Files and copies are what their readers take them for.
THEOREM TermsTypesHold == TermsSpec => []TermsTypeOK
<1>1. TermsInv => TermsTypeOK
  <2> SUFFICES ASSUME TermsInv PROVE TermsTypeOK
    OBVIOUS
  <2>1. TermsTyped
    BY DEF TermsInv
  <2>2. ASSUME NEW p \in Procs, pc[p] \in Steps \ {"out", "actions", "ledger"}
        PROVE  copy[p].actions \in Journal /\ copy[p].manifest \in Manifest /\ copy[p].ledger \in Ledger
    BY <2>1, <2>2, CopyParts DEF TermsTyped
  <2> QED
    BY <2>1, <2>2 DEF TermsTyped, TermsTypeOK
<1> QED
  BY <1>1, TermsAlways, PTL

\* However many processes load the task and wherever each of them stops, what
\* was granted is in the session's attempts once, the ledger has nothing else,
\* and a supply's grant is never there without its journaled intent or its
\* contracts (supply 1604-1625, _authorize_resources 3927-3930).
THEOREM TermsAgree == TermsSpec => []GrantsAgree
<1>1. TermsInv => GrantsAgree
  BY DEF TermsInv, FilesFollow, Follows, Backed, Requested,
         GrantsAgree, AllowanceAppliedOnce, LedgerFollowsSession, GrantIsJournaled
<1> QED
  BY <1>1, TermsAlways, PTL

\* No process works on an allowance whose contracts its copy lacks, however
\* old the parts of that copy are: the freshness check of one file is enough.
THEOREM WorkHasItsContracts == TermsSpec => []NoWorkUnderHalfSupply
<1>1. ASSUME TermsInv, NEW p \in Procs, Working(p)
      PROVE  Supplies \cap (manifest.granted \cup ToSet(ledger.grants)) \subseteq ToSet(copy[p].actions.supplies)
  <2>1. Inside(p)
    BY <1>1 DEF Working, Inside
  <2>2. copy[p].actions.pending = None
    BY <1>1, <2>1, InsideHas DEF Own, JournalIs
  <2>3. ToSet(ledger.grants) \subseteq manifest.granted
    BY <1>1 DEF TermsInv, FilesFollow, Backed
  <2> QED
    BY <1>1, <2>1, <2>2, <2>3, InsideHas, TermsAssumption DEF Follows
<1>2. TermsInv => NoWorkUnderHalfSupply
  BY <1>1 DEF NoWorkUnderHalfSupply
<1> QED
  BY <1>2, TermsAlways, PTL

\* What a call that returned left in the files stays: its attempts and its
\* requests always, the contracts of a supply and a switch if every other copy
\* was outdated when it returned.  No later writer had an older copy of them.
THEOREM ReturnedIsKept == TermsSpec => []ReturnedStays
<1>1. ASSUME TermsInv, NEW g \in returned \cap Allowances, Amount[g] > 0
      PROVE  g \in manifest.granted /\ (g \in Supplies => g \in ToSet(ledger.grants))
  BY <1>1 DEF TermsInv, FilesFollow
<1>2. TermsInv => ReturnedStays
  BY <1>1 DEF TermsInv, FilesFollow, Follows, Lasting, ReturnedStays
<1> QED
  BY <1>2, TermsAlways, PTL

=============================================================================
