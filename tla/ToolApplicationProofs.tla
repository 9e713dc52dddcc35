----------------------- MODULE ToolApplicationProofs -----------------------
(***************************************************************************)
(* What the journal, the attempts, the approvals, the effects and the      *)
(* delivery of a task agree on, for every batch the model may answer with, *)
(* every number of requests, submissions and attempts, and stops and       *)
(* interrupts at every step.                                               *)
(***************************************************************************)
EXTENDS ToolApplication, FiniteSetTheorems, SequenceTheorems, TLAPS

----------------------------------------------------------------------------
(* The invariant                                                            *)

\* TypeOK, and the types of what it leaves out.
Effects == [proposal : Nat \X Nat, attempt : Ids, approval : Versions \cup {None},
            version : Versions]
Args == [fresh : BOOLEAN, token : shown \cup {None}, batch : Seq(Calls),
         asked : Versions \cup {None}]
Typed == TypeOK /\ ran \in Seq(Effects) /\ arg \in Args

Closed == {"completed", "failed"}
Settled == {"completed", "partial"}

\* An attempt nothing has been written for but its manifest.
Blank(a) == a.reply = None /\ a.seen = None /\ a.result = "none" /\ a.receipt = "none"

\* The journal's turns: what is queued is in the last one.
TurnsFit ==
  /\ \A n \in DOMAIN Turns : /\ Turns[n].left <= Len(Turns[n].calls)
                             /\ Len(Turns[n].done) = Len(Turns[n].calls) - Turns[n].left
                             /\ n # Len(Turns) => Turns[n].left = 0
  /\ PendingIs("tool") => HasQueue
  /\ PendingIs("model") => ~HasQueue

\* Attempts that are not of the pending operation are closed, and the
\* session counted them, or were never started.
OthersFit ==
  /\ \A i \in Ids : i >= session.next => attempts[i] = NoAttempt
  /\ \A i \in Ids : attempts[i].status \in Closed <=> i \in session.recorded
  /\ \A i \in Ids : attempts[i].status \in {"created", "running"} => Pend # None /\ Id = i
  /\ Pend # None => Id < session.next

\* Every id is recorded, pending, or was lost to a stop or a new request.
Unsettled == (Pend # None /\ Id \notin session.recorded) \/ pc = "retry"
IdsCounted ==
  session.next <= Cardinality(session.recorded) + crashes + journal.requests
                    + (IF Unsettled THEN 1 ELSE 0)

Answered(a) == IF PendingIs("tool") THEN a.seen # None ELSE a.reply # None

\* The attempt of the pending operation.
PendingFits ==
  Pend # None =>
    LET a == attempts[Id]
    IN /\ a.status \in {"none", "bare", "created"} => Blank(a)
       /\ a.status = "running" => a.result \in {"none", "completed", "failed"}
       /\ a.status = "completed" => a.result = "completed"
       /\ a.status = "failed" => a.result \in {"failed", "interrupted"}
       /\ a.result = "completed" => Answered(a)
       /\ PendingIs("model") /\ a.result = "failed" => a.reply = None /\ session.current = Id
       /\ a.seen # None => a.seen.attempt = Id /\ a.seen.status # "cancelled"

\* What entered the journal came from a closed attempt of its own.
Accepted(i) ==
  \/ \E n \in DOMAIN Turns : Turns[n].source = i
  \/ \E n \in DOMAIN Turns : \E k \in DOMAIN Turns[n].done : Turns[n].done[k].attempt = i

JournalFits ==
  /\ \A n \in DOMAIN Turns : Turns[n].origin = "model" =>
       /\ \A m \in DOMAIN Turns : Turns[m].source = Turns[n].source => m = n
       /\ Turns[n].source \in Ids
       /\ attempts[Turns[n].source].status = "completed"
       /\ attempts[Turns[n].source].reply = Turns[n].calls
  /\ \A n \in DOMAIN Turns : Turns[n].origin = "caller" => Turns[n].source = NoId
  /\ \A n \in DOMAIN Turns : \A k \in DOMAIN Turns[n].done :
       LET o == Turns[n].done[k]
       IN o.status # "cancelled" =>
            /\ o.attempt \in Ids
            /\ attempts[o.attempt].status \in Closed
            /\ attempts[o.attempt].seen = o
            /\ \A m \in DOMAIN Turns : \A j \in DOMAIN Turns[m].done :
                 Turns[m].done[j].attempt = o.attempt => m = n /\ j = k
  /\ \A n \in DOMAIN Turns : \A k \in DOMAIN Turns[n].done :
       Turns[n].done[k].status = "cancelled" => Turns[n].done[k].attempt = NoId
  /\ Pend # None => ~Accepted(Id)

\* Where the process is.
Place ==
  /\ pc \in {"gate", "asking"} => PendingIs("tool") /\ NextCall = "exec"
  /\ pc \in {"dispatch", "created", "marked", "handling", "sent", "launched", "native",
             "failed", "resulted", "observed", "retry"} => Pend # None
  /\ pc = "created" => attempts[Id].status = "created"
  /\ pc \in {"marked", "handling", "sent", "launched", "native", "failed", "resulted"} =>
       attempts[Id].status = "running"
  /\ pc \in {"marked", "handling"} => Blank(attempts[Id])
  /\ pc = "sent" => PendingIs("model") /\ Blank(attempts[Id])
  /\ pc = "launched" => /\ PendingIs("tool") /\ NextCall \in {"write", "exec"}
                        /\ attempts[Id].seen = None /\ attempts[Id].result = "none"
  /\ pc = "native" => attempts[Id].result = "none" /\ Answered(attempts[Id])
  /\ pc = "resulted" => attempts[Id].result = "completed" /\ Answered(attempts[Id])
  /\ pc = "failed" => attempts[Id].result = "failed"
  /\ pc = "observed" => /\ attempts[Id].status \in Closed /\ Answered(attempts[Id])
                        /\ PendingIs("model") => attempts[Id].status = "completed"
  /\ pc \in {"handling", "sent", "launched", "native", "failed", "resulted"} => session.current = Id
  /\ pc = "feedback" => CanCancel /\ journal.requests < MaxRequests
  /\ pc = "submit" => (Pend = None \/ FailedDecision) /\ NothingQueued /\ arg.batch \in Submissions
  /\ pc = "retry" => /\ FailedDecision /\ NothingQueued
                     /\ session.next - 1 \in Ids /\ Id # session.next - 1
                     /\ attempts[session.next - 1] = NoAttempt
  /\ pc \in {"feedback", "submit"} => session.status \notin Settled

Delivers == Committable /\ Last(Current.calls) \in Deliveries
Delivery ==
  /\ pc \in {"delivering", "completing"} => Delivers
  /\ pc \in {"delivering", "completing"} \/ session.status \in Settled => delivery = Len(Turns)
  /\ session.status \in Settled => Delivers

\* What took effect did so for a call that is accepted, or is being handled.
RanNow == \E k \in DOMAIN ran : ran[k].proposal = Proposal /\ ran[k].attempt = Id
EffectsFit ==
  /\ \A k \in DOMAIN ran :
       LET p == ran[k].proposal
       IN /\ p[1] \in DOMAIN Turns /\ p[2] \in DOMAIN Turns[p[1]].calls /\ p = <<p[1], p[2]>>
          /\ \/ p[2] \in DOMAIN Turns[p[1]].done
             \/ /\ HasQueue /\ p = Proposal /\ PendingIs("tool")
                /\ ran[k].attempt = Id
                /\ attempts[Id].status \in Closed \cup {"running"}
                /\ pc \notin {"created", "marked", "handling"}
  /\ ProposalRunsOnce
  /\ \A n \in DOMAIN Turns : \A k \in DOMAIN Turns[n].done :
       LET o == Turns[n].done[k]
       IN /\ o.status = "ok" /\ Turns[n].calls[k] \in {"write", "exec"} =>
               \E j \in DOMAIN ran : ran[j].proposal = <<n, k>> /\ ran[j].attempt = o.attempt
          /\ o.status \in {"blocked", "cancelled"} => <<n, k>> \notin RanProposals
  /\ PendingIs("tool") =>
       /\ attempts[Id].receipt # "none" \/ pc = "launched" => RanNow
       /\ attempts[Id].seen # None =>
            /\ attempts[Id].seen.status = "ok" /\ NextCall \in {"write", "exec"} => RanNow
            /\ attempts[Id].seen.status = "blocked" => Proposal \notin RanProposals

\* A process about to be started without an approval passed the gate unasked.
Admitted == PendingIs("tool") /\ NextCall = "exec" /\ Pend.approval = None => Proposal \in unasked
Starting ==
  \/ pc \in {"created", "marked", "handling"}
  \/ pc = "dispatch" /\ attempts[Id].status = "none"
AskedFits == Starting => Admitted

ShownFits ==
  /\ pc = "asking" => [proposal |-> Proposal, version |-> arg.asked] \in shown
  /\ Pend # None /\ Pend.approval # None =>
       [proposal |-> Proposal, version |-> Pend.approval] \in shown
  /\ AskedFits /\ StartedAsShown

IInv == /\ Typed /\ TurnsFit /\ OthersFit /\ IdsCounted /\ PendingFits /\ JournalFits /\ Place
        /\ Delivery /\ EffectsFit /\ ShownFits

----------------------------------------------------------------------------
(* Reading the state                                                        *)

NextAt == Len(Current.calls) - Current.left + 1

LEMMA TurnIs ==
  ASSUME NEW t \in Turn
  PROVE  /\ t.calls \in Seq(Calls) /\ Len(t.calls) \in Nat /\ DOMAIN t.calls = 1 .. Len(t.calls)
         /\ t.done \in Seq(Outcome) /\ Len(t.done) \in Nat /\ DOMAIN t.done = 1 .. Len(t.done)
         /\ t.left \in Nat
         /\ t.source \in Ids \cup {NoId} /\ t.origin \in {"model", "caller"}
BY DEF Turn

LEMMA StateIs ==
  ASSUME Typed
  PROVE  /\ Turns \in Seq(Turn) /\ Len(Turns) \in Nat /\ DOMAIN Turns = 1 .. Len(Turns)
         /\ \A n \in DOMAIN Turns : Turns[n] \in Turn
         /\ Pend # None => Pend \in Pending /\ Id \in Ids
         /\ attempts \in [Ids -> Attempt] /\ session \in Session
<1>1. Turns \in Seq(Turn)  BY DEF Typed, TypeOK, Journal, Turns
<1>2. QED  BY <1>1 DEF Typed, TypeOK, Journal, Pend, Id, Pending

LEMMA CurrentIs ==
  ASSUME Typed, Turns # <<>>
  PROVE  /\ Len(Turns) \in DOMAIN Turns /\ Current = Turns[Len(Turns)] /\ Current \in Turn
<1>1. Turns \in Seq(Turn) /\ Len(Turns) \in DOMAIN Turns  BY StateIs
<1>2. QED  BY <1>1, StateIs DEF Current, Last

LEMMA HeadOfSubSeq ==
  ASSUME NEW S, NEW s \in Seq(S), NEW k \in 1 .. Len(s)
  PROVE  Head(SubSeq(s, k, Len(s))) = s[k]
<1>1. k \in Int /\ Len(s) \in Nat /\ k >= 1 /\ k <= Len(s)  OBVIOUS
<1> DEFINE q == SubSeq(s, k, Len(s))
<1>2. q \in Seq(S) /\ Len(q) = Len(s) - k + 1
      /\ \A i \in 1 .. Len(s) - k + 1 : q[i] = s[k + i - 1]
  BY <1>1, SubSeqProperties
<1> HIDE DEF q
<1>3. 1 \in 1 .. Len(s) - k + 1 /\ k + 1 - 1 = k  BY <1>1
<1>4. q[1] = s[k] /\ Len(q) > 0  BY <1>1, <1>2, <1>3
<1>5. Head(q) = s[k]  BY <1>2, <1>4
<1>6. QED  BY <1>5 DEF q

LEMMA NextCallIs ==
  ASSUME Typed, TurnsFit, HasQueue
  PROVE  /\ Turns # <<>>
         /\ NextAt \in DOMAIN Current.calls /\ NextAt = Len(Current.done) + 1
         /\ NextCall = Current.calls[NextAt] /\ NextCall \in Calls
         /\ Proposal = <<Len(Turns), NextAt>>
<1>1. Turns # <<>> /\ Current \in Turn /\ Current.left > 0
  BY CurrentIs DEF HasQueue
<1>2. Current.left <= Len(Current.calls) /\ Len(Current.done) = Len(Current.calls) - Current.left
  BY <1>1, CurrentIs DEF TurnsFit
<1> DEFINE s == Current.calls
           d == Current.left
           f == Len(Current.done)
<1>3. s \in Seq(Calls) /\ Len(s) \in Nat /\ DOMAIN s = 1 .. Len(s) /\ d \in Nat /\ f \in Nat
  BY <1>1, TurnIs
<1> HIDE DEF s, d, f
<1>4. d > 0 /\ d <= Len(s) /\ f = Len(s) - d  BY <1>1, <1>2 DEF s, d, f
<1> DEFINE k == Len(s) - d + 1
<1>5. k \in 1 .. Len(s) /\ k = f + 1  BY <1>3, <1>4
<1> HIDE DEF k
<1>6. Head(SubSeq(s, k, Len(s))) = s[k]  BY <1>3, <1>5, HeadOfSubSeq
<1>7. NextCall = s[k] /\ NextAt = k /\ Proposal = <<Len(Turns), k>>
  BY <1>6 DEF NextCall, Queue, NextAt, Proposal, s, d, k
<1>8. s[k] \in Calls  BY <1>3, <1>5
<1>9. QED  BY <1>1, <1>3, <1>5, <1>7, <1>8 DEF s, f

----------------------------------------------------------------------------
(* Steps that leave the journal and the attempts alone                      *)

QuietPlaces == {"down", "feedback", "submit", "entered", "top", "gate", "asking", "dispatch",
                "delivering", "completing"}

Quiet ==
  /\ journal' = journal /\ attempts' = attempts /\ ran' = ran
  /\ shown \subseteq shown' /\ unasked \subseteq unasked'
  /\ session' \in Session /\ session'.next = session.next
  /\ session'.recorded = session.recorded /\ session'.current = session.current
  /\ crashes' \in 0 .. MaxCrashes /\ crashes <= crashes'
  /\ pc = "retry" => crashes < crashes'
  /\ pc' \in QuietPlaces

\* The journal as it is read in the next state.
LEMMA SameJournal ==
  ASSUME journal' = journal
  PROVE  /\ Turns' = Turns /\ Current' = Current /\ Pend' = Pend /\ Id' = Id
         /\ HasQueue' = HasQueue /\ NextCall' = NextCall /\ Proposal' = Proposal
         /\ PendingIs("tool")' = PendingIs("tool") /\ PendingIs("model")' = PendingIs("model")
         /\ TurnsFit' = TurnsFit /\ NothingQueued' = NothingQueued
         /\ Committable' = Committable
BY DEF Turns, Current, Pend, Id, HasQueue, NextCall, Queue, Proposal, PendingIs, TurnsFit,
       NothingQueued, Committable

LEMMA CountIs ==
  ASSUME Typed
  PROVE  /\ IsFiniteSet(session.recorded) /\ Cardinality(session.recorded) \in Nat
         /\ session.next \in Nat /\ session.recorded \subseteq Ids /\ crashes \in Nat
         /\ journal.requests \in Nat /\ journal.requests <= MaxRequests
         /\ crashes <= MaxCrashes /\ MaxCrashes \in Nat /\ MaxRequests \in Nat
<1>1. session.recorded \subseteq Ids /\ session.next \in Nat /\ crashes \in 0 .. MaxCrashes
      /\ journal.requests \in 1 .. MaxRequests
  BY DEF Typed, TypeOK, Session, Journal
<1>2. IsFiniteSet(Ids)
  <2>1. 1 \in Int /\ MaxId \in Int  BY ApplicationAssumption DEF ApplicationAssumption
  <2>2. IsFiniteSet(1 .. MaxId)  BY <2>1, FS_Interval
  <2>3. QED  BY <2>2 DEF Ids
<1>3. IsFiniteSet(session.recorded)  BY <1>1, <1>2, FS_Subset
<1>4. Cardinality(session.recorded) \in Nat  BY <1>3, FS_CardinalityType
<1>5. QED  BY <1>1, <1>3, <1>4, ApplicationAssumption DEF ApplicationAssumption

LEMMA QuietKeeps ==
  ASSUME IInv, Quiet
  PROVE  /\ TurnsFit' /\ OthersFit' /\ IdsCounted' /\ PendingFits' /\ JournalFits' /\ EffectsFit'
         /\ StartedAsShown'
         /\ Pend # None /\ Pend.approval # None =>
              [proposal |-> Proposal, version |-> Pend.approval] \in shown'
<1> USE SameJournal DEF Quiet
<1>1. TurnsFit'  BY DEF IInv
<1>2. OthersFit'  BY DEF IInv, OthersFit
<1>3. IdsCounted'
  <2>1. crashes \in Nat /\ crashes' \in Nat /\ Cardinality(session.recorded) \in Nat
        /\ session.next \in Nat /\ journal.requests \in Nat
    BY CountIs, ApplicationAssumption DEF IInv, ApplicationAssumption
  <2>2. pc' # "retry"  BY DEF QuietPlaces
  <2>3. IdsCounted  BY DEF IInv
  <2>4. CASE pc = "retry"
    BY <2>1, <2>2, <2>3, <2>4 DEF IdsCounted, Unsettled
  <2>5. CASE pc # "retry"
    BY <2>1, <2>2, <2>3, <2>5 DEF IdsCounted, Unsettled
  <2>6. QED  BY <2>4, <2>5
<1>4. PendingFits'  BY DEF IInv, PendingFits, Blank, Answered
<1>5. JournalFits'  BY DEF IInv, JournalFits, Accepted
<1>6. EffectsFit'
  <2>1. EffectsFit /\ ProposalRunsOnce' = ProposalRunsOnce /\ RanNow' = RanNow
        /\ RanProposals' = RanProposals
    BY DEF IInv, ProposalRunsOnce, RanNow, RanProposals
  <2>2. pc' \notin {"created", "marked", "handling", "launched"}  BY DEF QuietPlaces
  <2>3. QED  BY <2>1, <2>2 DEF EffectsFit
<1>7. StartedAsShown'
  BY DEF IInv, ShownFits, StartedAsShown
<1>8. Pend # None /\ Pend.approval # None =>
        [proposal |-> Proposal, version |-> Pend.approval] \in shown'
  BY DEF IInv, ShownFits
<1>9. QED  BY <1>1, <1>2, <1>3, <1>4, <1>5, <1>6, <1>7, <1>8

LEMMA FreePlace ==
  ASSUME pc' \in {"down", "entered", "top", "delivering", "completing"}
  PROVE  Place'
BY DEF Place

LEMMA QuietTo ==
  ASSUME IInv, Quiet, Place', Delivery', delivery' \in Nat \cup {None}, version' \in Versions,
         sent' = sent, arg' \in Args',
         pc' = "asking" => [proposal |-> Proposal, version |-> arg'.asked] \in shown',
         pc' = "dispatch" => AskedFits'
  PROVE  IInv'
<1>1. Typed'
  BY DEF Quiet, QuietPlaces, IInv, Typed, TypeOK, Steps
<1>2. AskedFits'
  BY DEF Quiet, QuietPlaces, AskedFits, Starting
<1>3. ShownFits'
  BY <1>2, QuietKeeps, SameJournal DEF Quiet, ShownFits
<1>4. QED  BY <1>1, <1>3, QuietKeeps DEF IInv

\* A step of this kind that leaves a settled session settled, if it is.
LEMMA QuietStep ==
  ASSUME IInv, Quiet, Place', delivery' = delivery, version' \in Versions, sent' = sent,
         arg' \in Args', session'.status \in Settled => session.status \in Settled,
         pc' \notin {"delivering", "completing"},
         pc' = "asking" => [proposal |-> Proposal, version |-> arg'.asked] \in shown',
         pc' = "dispatch" => AskedFits'
  PROVE  IInv'
<1>1. delivery' \in Nat \cup {None}  BY DEF IInv, Typed, TypeOK
<1>2. Delivery'
  BY SameJournal DEF Quiet, IInv, Delivery, Delivers
<1>3. QED  BY <1>1, <1>2, QuietTo

LEMMA NoArgIs ==
  /\ NoArg \in Args /\ NoArg \in Args'
BY DEF NoArg, Args

\* The run returns with nothing changed but the session's status.
Returns ==
  /\ journal' = journal /\ attempts' = attempts /\ ran' = ran
  /\ shown' = shown /\ unasked' = unasked
  /\ delivery' = delivery /\ version' = version /\ sent' = sent
  /\ session' \in Session /\ session'.next = session.next
  /\ session'.recorded = session.recorded /\ session'.current = session.current
  /\ session'.status \in Settled => session.status \in Settled
  /\ crashes' \in 0 .. MaxCrashes /\ crashes <= crashes'
  /\ pc = "retry" => crashes < crashes'
  /\ pc' = "down" /\ arg' = NoArg

LEMMA ReturnsKeep ==
  ASSUME IInv, Returns
  PROVE  IInv'
<1>1. Quiet  BY DEF Returns, Quiet, QuietPlaces
<1>2. Place'  BY FreePlace DEF Returns
<1>3. version' \in Versions  BY DEF Returns, IInv, Typed, TypeOK
<1>4. QED  BY <1>1, <1>2, <1>3, NoArgIs, QuietStep DEF Returns

LEMMA StatusStep ==
  ASSUME Typed, NEW s \in {"created", "running", "paused", "completed", "partial", "blocked"},
         NEW b \in BOOLEAN
  PROVE  LET m == [session EXCEPT !.status = s, !.stopped = b]
             k == [session EXCEPT !.status = s]
         IN  /\ m \in Session /\ m.next = session.next /\ m.recorded = session.recorded
             /\ m.current = session.current /\ m.status = s
             /\ k \in Session /\ k.next = session.next /\ k.recorded = session.recorded
             /\ k.current = session.current /\ k.status = s
BY DEF Typed, TypeOK, Session

LEMMA FailsIs ==
  ASSUME Typed, Fails
  PROVE  /\ session' \in Session /\ session'.next = session.next
         /\ session'.recorded = session.recorded /\ session'.current = session.current
         /\ session'.status \notin Settled
         /\ pc' = "down" /\ arg' = NoArg
<1>1. pc' = "down" /\ arg' = NoArg  BY DEF Fails, Return
<1>2. CASE session.status = "blocked"
  <2>1. session' = [session EXCEPT !.status = "blocked", !.stopped = FALSE]
    BY <1>2 DEF Fails
  <2>2. QED  BY <1>1, <2>1, StatusStep DEF Settled
<1>3. CASE session.status # "blocked"
  <2>1. session' = [session EXCEPT !.status = "paused", !.stopped = FALSE]
    BY <1>3 DEF Fails
  <2>2. QED  BY <1>1, <2>1, StatusStep DEF Settled
<1>4. QED  BY <1>2, <1>3

LEMMA PausesIs ==
  ASSUME Typed, NEW stopped \in BOOLEAN, Pauses(stopped)
  PROVE  /\ session' \in Session /\ session'.next = session.next
         /\ session'.recorded = session.recorded /\ session'.current = session.current
         /\ session'.status \notin Settled
         /\ pc' = "down" /\ arg' = NoArg
<1>1. CASE Fails  BY <1>1, FailsIs
<1>2. CASE session' = [session EXCEPT !.status = "paused", !.stopped = stopped] /\ Return
  BY <1>2, StatusStep DEF Settled, Return
<1>3. QED  BY <1>1, <1>2 DEF Pauses

LEMMA CrashStep == ASSUME IInv, Crash PROVE IInv'
<1>1. crashes \in Nat /\ crashes' = crashes + 1 /\ crashes < MaxCrashes /\ MaxCrashes \in Nat
  BY CountIs DEF Crash, IInv
<1>2. crashes' \in 0 .. MaxCrashes /\ crashes < crashes' /\ crashes <= crashes'  BY <1>1
<1>3. session \in Session  BY StateIs DEF IInv
<1>4. Returns  BY <1>2, <1>3 DEF Crash, Return, Returns, files, history
<1>5. QED  BY <1>4, ReturnsKeep

\* A run that fails or pauses, and one that ends as it is.
LEMMA EndStep ==
  ASSUME IInv, UNCHANGED <<journal, attempts, delivery, version, crashes, history>>, pc # "retry",
         Fails \/ (\E b \in BOOLEAN : Pauses(b)) \/ (session' = session /\ Return)
  PROVE  IInv'
<1>1. crashes' \in 0 .. MaxCrashes /\ crashes <= crashes'  BY CountIs DEF IInv
<1>2. Typed /\ session \in Session  BY StateIs DEF IInv
<1>3. /\ session' \in Session /\ session'.next = session.next
      /\ session'.recorded = session.recorded /\ session'.current = session.current
      /\ session'.status \in Settled => session.status \in Settled
      /\ pc' = "down" /\ arg' = NoArg
  <2>1. CASE Fails  BY <1>2, <2>1, FailsIs
  <2>2. CASE \E b \in BOOLEAN : Pauses(b)  BY <1>2, <2>2, PausesIs
  <2>3. CASE session' = session /\ Return  BY <1>2, <2>3 DEF Return
  <2>4. QED  BY <2>1, <2>2, <2>3
<1>4. Returns  BY <1>1, <1>3 DEF Returns, history
<1>5. QED  BY <1>4, ReturnsKeep

\* The session is found full.
LEMMA BlockStep ==
  ASSUME IInv, UNCHANGED <<journal, attempts, delivery, version, crashes, history>>, pc # "retry",
         session' = [session EXCEPT !.status = "blocked"], Return
  PROVE  IInv'
<1>1. crashes' \in 0 .. MaxCrashes /\ crashes <= crashes'  BY CountIs DEF IInv
<1>2. /\ session' \in Session /\ session'.next = session.next
      /\ session'.recorded = session.recorded /\ session'.current = session.current
      /\ session'.status = "blocked"
  BY StatusStep DEF IInv
<1>3. Returns  BY <1>1, <1>2 DEF Returns, history, Return, Settled
<1>4. QED  BY <1>3, ReturnsKeep

LEMMA EndingSteps ==
  ASSUME IInv,
         \/ CommitQuestion \/ CommitNothing \/ CommitRefused \/ StopRequested \/ PauseUndecided
         \/ UserDeclines \/ NoDurableResult \/ CannotBegin
  PROVE  IInv'
<1>1. CASE CommitQuestion  BY <1>1, EndStep DEF CommitQuestion, Ends
<1>2. CASE CommitNothing  BY <1>2, EndStep DEF CommitNothing, Ends, files
<1>3. CASE CommitRefused  BY <1>3, EndStep DEF CommitRefused, Ends
<1>4. CASE StopRequested  BY <1>4, EndStep DEF StopRequested, AtTop
<1>5. CASE PauseUndecided  BY <1>5, EndStep DEF PauseUndecided, AtTop
<1>6. CASE UserDeclines  BY <1>6, EndStep DEF UserDeclines
<1>7. CASE NoDurableResult  BY <1>7, EndStep DEF NoDurableResult
<1>8. CASE CannotBegin
  <2>1. UNCHANGED <<journal, attempts, delivery, version, crashes, history>> /\ pc # "retry"
    BY <1>8 DEF CannotBegin
  <2>2. Fails \/ (session' = [session EXCEPT !.status = "blocked"] /\ Return)
    BY <1>8 DEF CannotBegin
  <2>3. QED  BY <2>1, <2>2, EndStep, BlockStep
<1>9. QED  BY <1>1, <1>2, <1>3, <1>4, <1>5, <1>6, <1>7, <1>8

\* The session and the arguments of such a step.
SameSession ==
  /\ session' \in Session /\ session'.next = session.next
  /\ session'.recorded = session.recorded /\ session'.current = session.current

LEMMA Unbroken ==
  ASSUME IInv, journal' = journal, attempts' = attempts, ran' = ran, shown \subseteq shown',
         unasked \subseteq unasked', SameSession, crashes' = crashes, pc # "retry", pc' \in QuietPlaces
  PROVE  Quiet
BY CountIs DEF IInv, SameSession, Quiet

LEMMA ContinuedIs ==
  ASSUME Typed, session' \in {session, Continued}
  PROVE  SameSession /\ (session'.status \in Settled => session' = session)
<1>1. CASE session' = session  BY <1>1, StateIs DEF SameSession
<1>2. CASE session' = Continued
  <2>1. session' = [session EXCEPT !.status = "running", !.stopped = FALSE]
    BY <1>2 DEF Continued
  <2>2. QED  BY <2>1, StatusStep DEF SameSession, Settled
<1>3. QED  BY <1>1, <1>2

LEMMA ResumeStep ==
  ASSUME IInv, NEW token \in shown \cup {None}, Resume(token)
  PROVE  IInv'
<1>1. Typed /\ session' = session /\ SameSession
  BY ContinuedIs DEF IInv, Resume, files
<1>2. Quiet /\ Place'
  BY <1>1, Unbroken, FreePlace DEF Resume, files, history, Go, QuietPlaces
<1>3. arg' \in Args' /\ version' \in Versions
  BY NoArgIs DEF Resume, NoArg, Args, IInv, Typed, TypeOK, history
<1>4. QED  BY <1>1, <1>2, <1>3, QuietStep DEF Resume, files, history, Go

LEMMA GiveFeedbackStep ==
  ASSUME IInv, GiveFeedback
  PROVE  IInv'
<1>1. Typed /\ SameSession
      /\ session'.status \notin Settled
  <2>1. session' \in {session, Continued} /\ Typed  BY DEF GiveFeedback, IInv
  <2>2. session.status \in {"created", "running"} \/ session' = Continued  BY DEF GiveFeedback
  <2>3. Continued.status = "running"  BY StatusStep DEF IInv, Continued
  <2>4. QED  BY <2>1, <2>2, <2>3, ContinuedIs DEF Settled, GiveFeedback
<1>2. Quiet
  BY <1>1, Unbroken DEF GiveFeedback, history, Go, QuietPlaces
<1>3. Place'
  <2>1. CanCancel' = CanCancel
    BY SameJournal DEF CanCancel, GiveFeedback, PendingStarted, Listed, Pend
  <2>2. QED  BY <1>1, <2>1 DEF Place, GiveFeedback, Go
<1>4. arg' \in Args' /\ version' \in Versions
  BY NoArgIs DEF GiveFeedback, NoArg, Args, IInv, Typed, TypeOK
<1>5. QED  BY <1>1, <1>2, <1>3, <1>4, QuietStep DEF GiveFeedback, history, Go

LEMMA SubmitStep ==
  ASSUME IInv, NEW batch \in Submissions, Submit(batch)
  PROVE  IInv'
<1>1. Typed /\ SameSession
      /\ session'.status \notin Settled
  <2>1. session' \in {session, Continued} /\ Typed  BY DEF Submit, IInv
  <2>2. session.status \in {"created", "running"} \/ session' = Continued  BY DEF Submit
  <2>3. Continued.status = "running"  BY StatusStep DEF IInv, Continued
  <2>4. QED  BY <2>1, <2>2, <2>3, ContinuedIs DEF Settled, Submit
<1>2. Quiet
  BY <1>1, Unbroken DEF Submit, history, Go, QuietPlaces
<1>3. arg' \in Args' /\ arg'.batch = batch /\ version' \in Versions
  <2>1. batch \in Seq(Calls)  BY ApplicationAssumption DEF ApplicationAssumption
  <2>2. QED  BY <2>1, NoArgIs DEF Submit, NoArg, Args, IInv, Typed, TypeOK
<1>4. Place'
  <2>1. FailedDecision' = FailedDecision
    BY <1>1, SameJournal DEF FailedDecision, Submit, SameSession
  <2>2. QED  BY <1>1, <1>3, <2>1, SameJournal DEF Place, Submit, Go
<1>5. QED  BY <1>1, <1>2, <1>3, <1>4, QuietStep DEF Submit, history, Go

LEMMA TakePendingStep ==
  ASSUME IInv, TakePending
  PROVE  IInv'
<1>1. Typed /\ session' = session /\ SameSession
  BY ContinuedIs DEF IInv, TakePending, files
<1>2. Quiet
  BY <1>1, Unbroken DEF TakePending, files, history, AtTop, QuietPlaces
<1>3. Place'
  BY SameJournal DEF TakePending, Place, files
<1>4. arg' \in Args' /\ version' \in Versions
  BY DEF TakePending, Args, IInv, Typed, TypeOK, history
<1>5. pc' = "dispatch" => AskedFits'
  BY SameJournal DEF TakePending, files, AskedFits, Starting, Admitted
<1>6. QED  BY <1>1, <1>2, <1>3, <1>4, <1>5, QuietStep DEF TakePending, files, history

LEMMA GateStartedStep ==
  ASSUME IInv, GateStarted
  PROVE  IInv'
<1>1. Typed /\ session' = session /\ SameSession
  BY ContinuedIs DEF IInv, GateStarted, files
<1>2. Quiet
  BY <1>1, Unbroken DEF GateStarted, files, history, Go, QuietPlaces
<1>3. Place'
  BY SameJournal DEF GateStarted, Place, files, IInv, Go, PendingIs
<1>4. arg' \in Args' /\ version' \in Versions
  BY DEF GateStarted, Args, IInv, Typed, TypeOK, history
<1>5. AskedFits'
  <2>1. attempts[Id].status # "none"
    BY DEF IInv, Place, PendingFits, Blank, GateStarted, Go, NotStarted, Id, PendingIs
  <2>2. QED  BY <2>1, SameJournal DEF GateStarted, files, Go, AskedFits, Starting
<1>6. QED  BY <1>1, <1>2, <1>3, <1>4, <1>5, QuietStep DEF GateStarted, files, history, Go

\* The proposal has no token: it is dispatched, and noted as not asked about.
LEMMA GateHasNoTokenStep ==
  ASSUME IInv, GateHasNoToken
  PROVE  IInv'
<1>1. Typed /\ session' = session /\ SameSession
  BY ContinuedIs DEF IInv, GateHasNoToken, files
<1>2. Quiet
  BY <1>1, Unbroken DEF GateHasNoToken, files, Go, QuietPlaces
<1>3. Place'
  BY SameJournal DEF GateHasNoToken, Place, files, IInv, Go, PendingIs
<1>4. arg' \in Args' /\ version' \in Versions
  BY DEF GateHasNoToken, Args, IInv, Typed, TypeOK
<1>5. AskedFits'
  BY SameJournal DEF GateHasNoToken, files, AskedFits, Starting, Admitted
<1>6. QED  BY <1>1, <1>2, <1>3, <1>4, <1>5, QuietStep DEF GateHasNoToken, files, Go

LEMMA GateAsksStep ==
  ASSUME IInv, GateAsks
  PROVE  IInv'
<1>1. Typed /\ session' = session /\ SameSession
  BY ContinuedIs DEF IInv, GateAsks, files
<1>2. Quiet
  BY <1>1, Unbroken DEF GateAsks, files, Go, QuietPlaces
<1>3. Place'
  BY SameJournal DEF GateAsks, Place, files, IInv, Go
<1>4. arg' \in Args' /\ version' \in Versions /\ arg'.asked = version
  <2>1. version \in Versions /\ arg \in Args  BY DEF IInv, Typed, TypeOK
  <2>2. arg' = [arg EXCEPT !.asked = version] /\ shown \subseteq shown' /\ version' = version
    BY DEF GateAsks
  <2>3. QED  BY <2>1, <2>2 DEF Args
<1>5. [proposal |-> Proposal, version |-> arg'.asked] \in shown'
  BY <1>4 DEF GateAsks, Token
<1>6. QED  BY <1>1, <1>2, <1>3, <1>4, <1>5, QuietStep DEF GateAsks, files, Go

LEMMA EditStep ==
  ASSUME IInv, NEW v \in Versions, Edit(v)
  PROVE  IInv'
<1>1. /\ journal' = journal /\ session' = session /\ attempts' = attempts /\ delivery' = delivery
      /\ pc' = pc /\ arg' = arg /\ crashes' = crashes /\ sent' = sent /\ ran' = ran
      /\ shown' = shown /\ unasked' = unasked /\ version' \in Versions
  BY DEF Edit, files, history
<1> USE SameJournal
<1>2. Typed'  BY <1>1 DEF IInv, Typed, TypeOK, Args
<1>3. OthersFit' /\ PendingFits' /\ JournalFits'
  BY <1>1 DEF IInv, OthersFit, PendingFits, JournalFits, Blank, Answered, Accepted
<1>4. IdsCounted'  BY <1>1 DEF IInv, IdsCounted, Unsettled
<1>5. Place'
  BY <1>1 DEF IInv, Place, Blank, Answered, CanCancel, PendingStarted, Listed, FailedDecision
<1>6. Delivery'  BY <1>1 DEF IInv, Delivery, Delivers
<1>7. EffectsFit' /\ ShownFits'
  BY <1>1 DEF IInv, EffectsFit, ShownFits, ProposalRunsOnce, RanNow, RanProposals, StartedAsShown,
              AskedFits, Starting, Admitted
<1>8. QED  BY <1>1, <1>2, <1>3, <1>4, <1>5, <1>6, <1>7 DEF IInv

LEMMA WriteDeliveryStep ==
  ASSUME IInv, WriteDelivery
  PROVE  IInv'
<1>1. Typed /\ session' = session /\ SameSession
  BY ContinuedIs DEF IInv, WriteDelivery
<1>2. Quiet /\ Place'
  BY <1>1, Unbroken, FreePlace DEF WriteDelivery, history, Ends, QuietPlaces
<1>3. arg' \in Args' /\ version' \in Versions
  BY DEF WriteDelivery, Args, IInv, Typed, TypeOK, history
<1>4. delivery' \in Nat \cup {None} /\ Delivery'
  BY <1>1, StateIs, SameJournal DEF WriteDelivery, Ends, Deliverable, Delivery, Delivers
<1>5. QED  BY <1>1, <1>2, <1>3, <1>4, QuietTo DEF WriteDelivery, history

LEMMA SettleStep ==
  ASSUME IInv, pc \in {"delivering", "completing"}, NEW s \in Settled, session'.status = s,
         UNCHANGED <<journal, attempts, delivery, version, crashes, history>>, SameSession,
         (pc' = "completing" /\ arg' = arg) \/ Return
  PROVE  IInv'
<1>1. Quiet /\ Place'
  BY Unbroken, FreePlace DEF history, Return, QuietPlaces
<1>2. arg' \in Args' /\ version' \in Versions
  BY NoArgIs DEF Args, IInv, Typed, TypeOK, history, Return
<1>3. delivery' \in Nat \cup {None} /\ Delivery'
  BY SameJournal DEF IInv, Typed, TypeOK, Delivery, Delivers, Return
<1>4. pc' \notin {"asking", "dispatch"}  BY DEF Return
<1>5. QED  BY <1>1, <1>2, <1>3, <1>4, QuietTo DEF history

LEMMA CompletingSteps ==
  ASSUME IInv, CompleteSession \/ SavePartial
  PROVE  IInv'
<1>1. CASE CompleteSession /\ session.status = "blocked"
  BY <1>1, EndStep DEF CompleteSession
<1>2. CASE CompleteSession /\ session.status # "blocked"
  <2>1. session' = [session EXCEPT !.status = "completed", !.stopped = FALSE]
        /\ ((pc' = "completing" /\ arg' = arg) \/ Return)
    BY <1>2 DEF CompleteSession
  <2>2. SameSession /\ session'.status = "completed"
    BY <2>1, StatusStep DEF SameSession, IInv
  <2>3. QED  BY <1>2, <2>1, <2>2, SettleStep DEF CompleteSession, Settled
<1>3. CASE SavePartial
  <2>1. SameSession /\ session'.status = "partial"
    BY <1>3, StatusStep DEF SameSession, IInv, SavePartial
  <2>2. QED  BY <1>3, <2>1, SettleStep DEF SavePartial, Settled
<1>4. QED  BY <1>1, <1>2, <1>3

LEMMA EnterRunStep ==
  ASSUME IInv, EnterRun
  PROVE  IInv'
<1>1. pc = "entered" /\ UNCHANGED <<journal, attempts, delivery, version, crashes, history>>
  BY DEF EnterRun
<1>2. \/ session' = session /\ Return
      \/ Fails
      \/ pc' = "top" /\ arg' = arg /\ session' \in {session, Continued}
  BY DEF EnterRun
<1>3. CASE (session' = session /\ Return) \/ Fails  BY <1>1, <1>3, EndStep
<1>4. CASE pc' = "top" /\ arg' = arg /\ session' \in {session, Continued}
  <2>1. SameSession /\ (session'.status \in Settled => session' = session)
    BY <1>4, ContinuedIs DEF IInv
  <2>2. Quiet /\ Place'
    BY <1>1, <1>4, <2>1, Unbroken, FreePlace DEF history, QuietPlaces
  <2>3. arg' \in Args' /\ version' \in Versions
    BY <1>1, <1>4 DEF Args, IInv, Typed, TypeOK, history
  <2>4. QED  BY <1>1, <1>4, <2>1, <2>2, <2>3, QuietStep DEF history
<1>5. QED  BY <1>2, <1>3, <1>4

----------------------------------------------------------------------------
(* Steps that change what is pending                                        *)

\* A settled session has nothing pending.
LEMMA PendingIsOpen ==
  ASSUME IInv, Pend # None
  PROVE  session.status \notin Settled /\ pc \notin {"delivering", "completing"}
BY DEF IInv, Delivery, Delivers, Committable

\* An attempt that was not started is in no turn.
LEMMA UnusedIsNotAccepted ==
  ASSUME IInv, NEW i \in Ids, attempts[i] = NoAttempt
  PROVE  ~Accepted(i)
<1>1. JournalFits /\ Typed /\ i # NoId  BY DEF IInv, Ids, NoId
<1>2. attempts[i].status = "none"  BY DEF NoAttempt
<1>3. ASSUME NEW n \in DOMAIN Turns, Turns[n].source = i PROVE FALSE
  BY <1>1, <1>2, <1>3, StateIs, TurnIs DEF JournalFits, Closed
<1>4. ASSUME NEW n \in DOMAIN Turns, NEW k \in DOMAIN Turns[n].done,
             Turns[n].done[k].attempt = i
      PROVE FALSE
  BY <1>1, <1>2, <1>4 DEF JournalFits, Closed
<1>5. QED  BY <1>3, <1>4 DEF Accepted

\* Every effect is of an observed call when no tool call is pending.
LEMMA EffectsObserved ==
  ASSUME IInv, ~PendingIs("tool") \/ attempts[Id].status \notin Closed \cup {"running"}
  PROVE  \A k \in DOMAIN ran : /\ ran[k].proposal[1] \in DOMAIN Turns
                               /\ ran[k].proposal[2] \in DOMAIN Turns[ran[k].proposal[1]].done
BY DEF IInv, EffectsFit

LEMMA NewPending ==
  ASSUME IInv, NEW kind \in {"tool", "model"}, NEW i \in Ids,
         journal' = [journal EXCEPT !.pending = [kind |-> kind, attempt |-> i, approval |-> None]],
         UNCHANGED <<attempts, delivery, version, crashes, history, arg>>,
         attempts[i] = NoAttempt, kind = "tool" <=> HasQueue,
         Pend = None \/ (PendingIs("model") /\ attempts[Id].status = "failed"),
         session' \in Session, session'.recorded = session.recorded,
         i < session'.next, session.next <= session'.next,
         session'.next <= Cardinality(session.recorded) + crashes + journal.requests + 1,
         pc' \in {"top", "entered"}, session'.status \notin Settled
  PROVE  IInv'
<1> DEFINE new == [kind |-> kind, attempt |-> i, approval |-> None]
<1>1. Typed /\ journal \in Journal  BY DEF IInv, Typed, TypeOK
<1>2. new \in Pending  BY DEF Pending
<1>3. new # None  BY <1>2, ApplicationAssumption DEF ApplicationAssumption
<1>4. /\ journal' \in Journal /\ journal'.turns = journal.turns
      /\ journal'.requests = journal.requests /\ journal'.pending = new
  BY <1>1, <1>2 DEF Journal
<1>5. Turns' = Turns /\ Pend' = new /\ Pend' # None /\ Id' = i /\ Current' = Current
      /\ HasQueue' = HasQueue /\ NextCall' = NextCall /\ Proposal' = Proposal
      /\ PendingIs("tool")' = (kind = "tool") /\ PendingIs("model")' = (kind = "model")
      /\ Pend'.approval = None
  BY <1>3, <1>4 DEF Turns, Pend, Id, Current, HasQueue, NextCall, Queue, Proposal, PendingIs
<1> HIDE DEF new
<1>6. Typed'
  BY <1>1, <1>4 DEF Typed, TypeOK, Args, Steps, history
<1>7. TurnsFit'
  BY <1>5 DEF IInv, TurnsFit
<1>8. OthersFit'
  <2>1. \A j \in Ids : attempts[j].status \notin {"created", "running"}
    <3>1. \A j \in Ids : attempts[j].status \in {"created", "running"} => Pend # None /\ Id = j
      BY DEF IInv, OthersFit
    <3>2. QED  BY <3>1
  <2>2. session.next \in Nat /\ session'.next \in Nat  BY DEF IInv, Typed, TypeOK, Session
  <2>3. \A j \in Ids : j >= session'.next => attempts[j] = NoAttempt
    BY <2>2, <1>1, ApplicationAssumption DEF IInv, OthersFit, Ids, ApplicationAssumption
  <2>4. \A j \in Ids : attempts[j].status \in Closed <=> j \in session.recorded
    BY DEF IInv, OthersFit
  <2>5. QED  BY <1>5, <2>1, <2>3, <2>4 DEF OthersFit
<1>9. IdsCounted'
  <2>1. i \notin session.recorded  BY DEF IInv, OthersFit, NoAttempt, Closed
  <2>2. Unsettled'  BY <2>1, <1>5 DEF Unsettled
  <2>3. QED  BY <2>2, <1>4 DEF IdsCounted
<1>10. PendingFits'
  BY <1>5 DEF PendingFits, NoAttempt, Blank
<1>11. JournalFits'
  <2>1. ~Accepted(i)  BY UnusedIsNotAccepted
  <2>2. QED  BY <1>5, <2>1 DEF IInv, JournalFits, Accepted
<1>12. Place' /\ Delivery'
  BY DEF Place, Delivery
<1>13. EffectsFit'
  <2>1. \A k \in DOMAIN ran : /\ ran[k].proposal[1] \in DOMAIN Turns
                              /\ ran[k].proposal[2] \in DOMAIN Turns[ran[k].proposal[1]].done
    BY EffectsObserved DEF PendingIs
  <2>2. attempts[i].receipt = "none" /\ attempts[i].seen = None  BY DEF NoAttempt
  <2>3. ProposalRunsOnce' /\ RanProposals' = RanProposals
    BY DEF IInv, EffectsFit, ProposalRunsOnce, RanProposals, history
  <2>4. QED  BY <1>5, <2>1, <2>2, <2>3 DEF IInv, EffectsFit, history
<1>14. ShownFits'
  <2>1. AskedFits'  BY DEF AskedFits, Starting
  <2>2. StartedAsShown'  BY <1>5 DEF IInv, ShownFits, StartedAsShown, history
  <2>3. QED  BY <1>5, <2>1, <2>2 DEF ShownFits
<1>15. QED  BY <1>6, <1>7, <1>8, <1>9, <1>10, <1>11, <1>12, <1>13, <1>14 DEF IInv

LEMMA NextIdIsFree ==
  ASSUME IInv, ~Exhausted, ~Unsettled
  PROVE  /\ session.next \in Ids /\ attempts[session.next] = NoAttempt
         /\ session.next + 1 <= Cardinality(session.recorded) + crashes + journal.requests + 1
         /\ session.next + 1 \in Nat
<1>1. session.next \in Nat \ {0}  BY DEF IInv, Typed, TypeOK, Session
<1> DEFINE c == Cardinality(session.recorded)
<1>2. /\ c \in Nat /\ crashes \in Nat /\ crashes <= MaxCrashes /\ MaxCrashes \in Nat
      /\ journal.requests \in Nat /\ journal.requests <= MaxRequests /\ MaxRequests \in Nat
  BY CountIs DEF IInv
<1>3. session.next <= c + crashes + journal.requests  BY <1>1, <1>2 DEF IInv, IdsCounted
<1>4. MaxAttempts \in Nat /\ MaxId \in Nat /\ MaxId >= MaxAttempts + MaxCrashes + MaxRequests
  BY ApplicationAssumption DEF ApplicationAssumption
<1>5. c < MaxAttempts  BY <1>2, <1>4 DEF Exhausted
<1> HIDE DEF c
<1>6. session.next <= MaxId  BY <1>1, <1>2, <1>3, <1>4, <1>5
<1>7. session.next \in Ids  BY <1>1, <1>4, <1>6 DEF Ids
<1>8. attempts[session.next] = NoAttempt  BY <1>1, <1>7 DEF IInv, OthersFit
<1>9. session.next + 1 <= c + crashes + journal.requests + 1  BY <1>1, <1>2, <1>3
<1>10. QED  BY <1>1, <1>7, <1>8, <1>9 DEF c

LEMMA AllocateStep ==
  ASSUME IInv, NEW kind \in {"tool", "model"}, Allocate(kind)
  PROVE  IInv'
<1>1. UNCHANGED <<attempts, delivery, version, crashes, history>> /\ Pend = None /\ pc = "top"
  BY DEF Allocate, AtTop
<1>2. CASE /\ CanExecute /\ ~Exhausted
           /\ journal' = [journal EXCEPT !.pending = [kind |-> kind, attempt |-> session.next,
                                                      approval |-> None]]
           /\ session' = [session EXCEPT !.next = @ + 1]
           /\ UNCHANGED <<pc, arg>>
  <2>1. ~Unsettled  BY <1>1 DEF Unsettled
  <2>2. /\ session.next \in Ids /\ attempts[session.next] = NoAttempt
        /\ session.next + 1 <= Cardinality(session.recorded) + crashes + journal.requests + 1
        /\ session.next + 1 \in Nat \ {0} /\ session.next \in Nat \ {0} /\ session \in Session
    BY <1>2, <2>1, NextIdIsFree DEF IInv, Typed, TypeOK, Session
  <2>3. /\ session' \in Session /\ session'.recorded = session.recorded
        /\ session'.next = session.next + 1 /\ session'.status = session.status
    BY <1>2, <2>2 DEF Session
  <2>4. session'.status \notin Settled  BY <1>2, <2>3 DEF CanExecute, Settled
  <2>5. kind = "tool" <=> HasQueue  BY DEF Allocate, Chooses
  <2>6. session.next < session'.next /\ session.next <= session'.next  BY <2>2, <2>3
  <2>7. session'.next <= Cardinality(session.recorded) + crashes + journal.requests + 1
    BY <2>2, <2>3
  <2>8. UNCHANGED <<attempts, delivery, version, crashes, history, arg>> /\ pc' \in {"top", "entered"}
    BY <1>1, <1>2
  <2>9. QED
    BY <1>1, <1>2, <2>2, <2>3, <2>4, <2>5, <2>6, <2>7, <2>8, NewPending
<1>3. CASE session' = [session EXCEPT !.status = "blocked"] /\ Return /\ journal' = journal
  BY <1>1, <1>3, BlockStep
<1>4. CASE Fails /\ journal' = journal
  BY <1>1, <1>4, EndStep
<1>5. QED  BY <1>2, <1>3, <1>4 DEF Allocate

LEMMA SaveRetryStep ==
  ASSUME IInv, SaveRetry
  PROVE  IInv'
<1> DEFINE i == session.next - 1
<1>1. /\ pc = "retry" /\ i \in Ids /\ attempts[i] = NoAttempt /\ FailedDecision
  BY DEF IInv, Place, SaveRetry, Go
<1>2. session.next \in Nat /\ i < session.next
  BY DEF IInv, Typed, TypeOK, Session
<1>3. session.next <= Cardinality(session.recorded) + crashes + journal.requests + 1
  BY <1>1 DEF IInv, IdsCounted, Unsettled
<1>4. PendingIs("model") /\ Pend # None /\ attempts[Id].status = "failed"
  BY <1>1 DEF FailedDecision, PendingIs, Id
<1>5. ~HasQueue /\ session.status \notin Settled /\ session \in Session
  BY <1>4, PendingIsOpen, StateIs DEF IInv, TurnsFit
<1>6. journal' = [journal EXCEPT !.pending = [kind |-> "model", attempt |-> i, approval |-> None]]
      /\ session' = session /\ pc' = "entered"
      /\ UNCHANGED <<attempts, delivery, version, crashes, history, arg>>
  BY DEF SaveRetry, Go
<1> HIDE DEF i
<1>7. "model" \in {"tool", "model"} /\ ("model" = "tool" <=> HasQueue)  BY <1>5
<1>8. session.next <= session'.next /\ i < session'.next
      /\ session'.next <= Cardinality(session.recorded) + crashes + journal.requests + 1
      /\ session' \in Session /\ session'.recorded = session.recorded
      /\ session'.status \notin Settled /\ pc' \in {"top", "entered"}
  BY <1>2, <1>3, <1>5, <1>6
<1>9. QED  BY <1>1, <1>4, <1>6, <1>7, <1>8, NewPending

\* The pending call is approved for the version that was shown for it.
LEMMA ApproveStep ==
  ASSUME IInv, pc \in {"gate", "asking"}, Approve, arg' \in Args',
         [proposal |-> Proposal, version |-> version] \in shown
  PROVE  IInv'
<1>1. Typed /\ journal \in Journal /\ version \in Versions  BY DEF IInv, Typed, TypeOK
<1>2. PendingIs("tool") /\ Pend # None /\ Pend \in Pending
  BY <1>1, StateIs DEF IInv, Place, PendingIs
<1> DEFINE new == [Pend EXCEPT !.approval = version]
<1>3. new \in Pending /\ new.kind = Pend.kind /\ new.attempt = Id /\ new.approval = version
  BY <1>1, <1>2 DEF Pending, Id
<1>4. new # None  BY <1>3, ApplicationAssumption DEF ApplicationAssumption
<1>5. /\ journal' \in Journal /\ journal'.turns = journal.turns
      /\ journal'.requests = journal.requests /\ journal'.pending = new
  BY <1>1, <1>3 DEF Journal, Approve, Pend
<1>6. Turns' = Turns /\ Pend' = new /\ Pend' # None /\ Id' = Id /\ Current' = Current
      /\ HasQueue' = HasQueue /\ NextCall' = NextCall /\ Proposal' = Proposal
      /\ PendingIs("tool")' = PendingIs("tool") /\ PendingIs("model")' = PendingIs("model")
      /\ Pend'.approval = version
  BY <1>2, <1>3, <1>4, <1>5
     DEF Turns, Pend, Id, Current, HasQueue, NextCall, Queue, Proposal, PendingIs
<1> HIDE DEF new
<1>7. session' = session /\ attempts' = attempts /\ delivery' = delivery /\ version' = version
      /\ crashes' = crashes /\ sent' = sent /\ ran' = ran /\ shown' = shown /\ pc' = "dispatch"
      /\ unasked' = unasked /\ version # None
  BY <1>1, ApplicationAssumption DEF Approve, history, ApplicationAssumption
<1>8. Typed'
  BY <1>1, <1>5, <1>7 DEF Typed, TypeOK, Steps
<1>9. TurnsFit' /\ OthersFit' /\ PendingFits' /\ JournalFits'
  BY <1>2, <1>6, <1>7 DEF IInv, TurnsFit, OthersFit, PendingFits, JournalFits, Blank, Answered, Accepted
<1>10. IdsCounted'
  BY <1>2, <1>5, <1>6, <1>7 DEF IInv, IdsCounted, Unsettled
<1>11. Place' /\ Delivery'
  BY <1>2, <1>6, <1>7, PendingIsOpen DEF Place, Delivery
<1>12. EffectsFit'
  BY <1>6, <1>7 DEF IInv, EffectsFit, ProposalRunsOnce, RanNow, RanProposals
<1>13. ShownFits'
  BY <1>6, <1>7 DEF IInv, ShownFits, StartedAsShown, AskedFits, Starting, Admitted
<1>14. QED  BY <1>8, <1>9, <1>10, <1>11, <1>12, <1>13 DEF IInv

LEMMA ApprovingSteps ==
  ASSUME IInv, GateOpen \/ UserApproves
  PROVE  IInv'
<1>1. Typed /\ version \in Versions /\ arg \in Args  BY DEF IInv, Typed, TypeOK
<1>2. CASE GateOpen
  <2>1. HasQueue  BY <1>2 DEF IInv, Place, TurnsFit, GateOpen
  <2>2. Len(Turns) \in Nat /\ Proposal = <<Len(Turns), NextAt>> /\ NextAt \in Nat
    BY <1>1, <2>1, StateIs, NextCallIs, CurrentIs, TurnIs DEF IInv
  <2>3. Token \in [proposal : Nat \X Nat, version : Versions]  BY <1>1, <2>2 DEF Token
  <2>4. Token # None  BY <2>3, ApplicationAssumption DEF ApplicationAssumption
  <2>5. Token \in shown  BY <1>1, <1>2, <2>4 DEF GateOpen, Args
  <2>6. arg' \in Args'  BY <1>1, <1>2 DEF GateOpen, Approve, Args, history
  <2>7. QED  BY <1>2, <2>5, <2>6, ApproveStep DEF GateOpen, Token
<1>3. CASE UserApproves /\ AnswerStands
  <2>1. [proposal |-> Proposal, version |-> version] \in shown
    BY <1>3 DEF IInv, ShownFits, UserApproves, AnswerStands
  <2>2. arg' \in Args'  BY <1>1, <1>3 DEF UserApproves, Approve, Args, history
  <2>3. QED  BY <1>3, <2>1, <2>2, ApproveStep DEF UserApproves
<1>4. CASE UserApproves /\ ~AnswerStands
  BY <1>4, EndStep DEF UserApproves
<1>5. QED  BY <1>2, <1>3, <1>4

----------------------------------------------------------------------------
(* Steps that change the turns: what was there stays                        *)

Skipped == [attempt |-> NoId, status |-> "cancelled", bound |-> None]

\* No effect waits for its observation.
NoneAwaited == ~PendingIs("tool") \/ attempts[Id].status \notin Closed \cup {"running"}

Observed(n, k) == n \in DOMAIN Turns /\ k \in DOMAIN Turns[n].done

Grow ==
  /\ \A n \in DOMAIN Turns :
       /\ n \in DOMAIN Turns' /\ Turns'[n].calls = Turns[n].calls
       /\ Turns'[n].origin = Turns[n].origin /\ Turns'[n].source = Turns[n].source
       /\ \A k \in DOMAIN Turns[n].done :
            k \in DOMAIN Turns'[n].done /\ Turns'[n].done[k] = Turns[n].done[k]
  /\ \A n \in DOMAIN Turns' : n \notin DOMAIN Turns =>
       /\ n = Len(Turns) + 1
       /\ \/ Turns'[n].origin = "caller" /\ Turns'[n].source = NoId
          \/ /\ PendingIs("model") /\ attempts[Id].status = "completed"
             /\ Turns'[n].origin = "model" /\ Turns'[n].source = Id
             /\ Turns'[n].calls = attempts[Id].reply
  /\ \A n \in DOMAIN Turns' : \A k \in DOMAIN Turns'[n].done :
       \/ Observed(n, k)
       \/ n \in DOMAIN Turns /\ NoneAwaited /\ Turns'[n].done[k] = Skipped
       \/ /\ PendingIs("tool") /\ attempts[Id].status \in Closed /\ attempts[Id].seen # None
          /\ <<n, k>> = Proposal /\ n \in DOMAIN Turns /\ Turns'[n].done[k] = attempts[Id].seen
  /\ NoneAwaited \/ (Proposal[1] \in DOMAIN Turns' /\ Proposal[2] \in DOMAIN Turns'[Proposal[1]].done)

LEMMA SkippedIs ==
  Skipped.attempt = NoId /\ Skipped.status = "cancelled" /\ NoId \notin Ids
BY DEF Skipped, NoId, Ids

LEMMA PendIs ==
  ASSUME IInv, Pend # None
  PROVE  /\ Id \in Ids /\ ~Accepted(Id)
         /\ attempts[Id].seen # None =>
              attempts[Id].seen.attempt = Id /\ attempts[Id].seen.status # "cancelled"
<1>1. Id \in Ids /\ ~Accepted(Id)  BY StateIs DEF IInv, JournalFits
<1>2. QED  BY <1>1 DEF IInv, PendingFits

LEMMA GrowJournal ==
  ASSUME IInv, Grow, attempts' = attempts, Pend' = None
  PROVE  JournalFits'
<1> DEFINE T == Turns
           U == Turns'
<1>1. JournalFits /\ Typed  BY DEF IInv
<1>2. /\ PendingIs("model") \/ PendingIs("tool") => Pend # None
      /\ PendingIs("tool") => ~PendingIs("model")
  BY DEF PendingIs
<1>3. ASSUME NEW n \in DOMAIN U, U[n].origin = "model"
      PROVE  /\ \A m \in DOMAIN U : U[m].source = U[n].source => m = n
             /\ U[n].source \in Ids
             /\ attempts[U[n].source].status = "completed"
             /\ attempts[U[n].source].reply = U[n].calls
  <2>1. CASE n \in DOMAIN T
    <3>1. /\ T[n].origin = "model" /\ U[n].source = T[n].source /\ U[n].calls = T[n].calls
      BY <1>3, <2>1 DEF Grow
    <3>2. /\ \A m \in DOMAIN T : T[m].source = T[n].source => m = n
          /\ T[n].source \in Ids
          /\ attempts[T[n].source].status = "completed"
          /\ attempts[T[n].source].reply = T[n].calls
      BY <1>1, <2>1, <3>1 DEF JournalFits
    <3>3. ASSUME NEW m \in DOMAIN U, U[m].source = U[n].source PROVE m = n
      <4>1. CASE m \in DOMAIN T  BY <3>1, <3>2, <3>3, <4>1 DEF Grow
      <4>2. CASE m \notin DOMAIN T
        <5>1. U[m].source = NoId \/ (Pend # None /\ U[m].source = Id)
          BY <4>2, <1>2 DEF Grow
        <5>2. CASE U[m].source = NoId  BY <5>2, <3>1, <3>2, <3>3, SkippedIs
        <5>3. CASE Pend # None /\ U[m].source = Id
          <6>1. T[n].source = Id  BY <5>3, <3>1, <3>3
          <6>2. QED  BY <6>1, <5>3, <2>1, PendIs DEF Accepted
        <5>4. QED  BY <5>1, <5>2, <5>3
      <4>3. QED  BY <4>1, <4>2
    <3>4. QED  BY <3>1, <3>2, <3>3
  <2>2. CASE n \notin DOMAIN T
    <3>1. /\ n = Len(T) + 1 /\ PendingIs("model") /\ attempts[Id].status = "completed"
          /\ U[n].source = Id /\ U[n].calls = attempts[Id].reply
      BY <1>3, <2>2 DEF Grow
    <3>2. Pend # None /\ Id \in Ids /\ ~Accepted(Id)  BY <1>2, <3>1, PendIs
    <3>3. ASSUME NEW m \in DOMAIN U, U[m].source = U[n].source PROVE m = n
      <4>1. CASE m \in DOMAIN T
        <5>1. T[m].source = Id  BY <4>1, <3>1, <3>3 DEF Grow
        <5>2. QED  BY <5>1, <4>1, <3>2 DEF Accepted
      <4>2. CASE m \notin DOMAIN T  BY <4>2, <3>1 DEF Grow
      <4>3. QED  BY <4>1, <4>2
    <3>4. QED  BY <3>1, <3>2, <3>3
  <2>3. QED  BY <2>1, <2>2
<1>4. ASSUME NEW n \in DOMAIN U, U[n].origin = "caller" PROVE U[n].source = NoId
  BY <1>1, <1>4 DEF Grow, JournalFits
<1>5. ASSUME NEW n \in DOMAIN U, NEW k \in DOMAIN U[n].done, U[n].done[k].status = "cancelled"
      PROVE  U[n].done[k].attempt = NoId
  <2>1. CASE Observed(n, k)
    BY <1>1, <1>5, <2>1 DEF Grow, JournalFits, Observed
  <2>2. CASE U[n].done[k] = Skipped  BY <2>2, SkippedIs
  <2>3. CASE PendingIs("tool") /\ attempts[Id].seen # None /\ U[n].done[k] = attempts[Id].seen
    BY <1>2, <1>5, <2>3, PendIs
  <2>4. QED  BY <2>1, <2>2, <2>3 DEF Grow
<1>6. ASSUME NEW n \in DOMAIN U, NEW k \in DOMAIN U[n].done, U[n].done[k].status # "cancelled"
      PROVE  LET o == U[n].done[k]
             IN  /\ o.attempt \in Ids
                 /\ attempts[o.attempt].status \in Closed
                 /\ attempts[o.attempt].seen = o
                 /\ \A m \in DOMAIN U : \A j \in DOMAIN U[m].done :
                      U[m].done[j].attempt = o.attempt => m = n /\ j = k
  <2> DEFINE o == U[n].done[k]
  <2>1. CASE Observed(n, k)
    <3>1. n \in DOMAIN T /\ k \in DOMAIN T[n].done /\ o = T[n].done[k] /\ o.status # "cancelled"
      BY <2>1, <1>6 DEF Grow, Observed
    <3> HIDE DEF o
    <3>2. /\ o.attempt \in Ids /\ attempts[o.attempt].status \in Closed
          /\ attempts[o.attempt].seen = o
          /\ \A m \in DOMAIN T : \A j \in DOMAIN T[m].done :
               T[m].done[j].attempt = o.attempt => m = n /\ j = k
      BY <1>1, <3>1 DEF JournalFits
    <3>3. ASSUME NEW m \in DOMAIN U, NEW j \in DOMAIN U[m].done, U[m].done[j].attempt = o.attempt
          PROVE  m = n /\ j = k
      <4>1. CASE Observed(m, j)  BY <4>1, <3>2, <3>3 DEF Grow, Observed
      <4>2. CASE U[m].done[j] = Skipped  BY <4>2, <3>2, <3>3, SkippedIs
      <4>3. CASE PendingIs("tool") /\ attempts[Id].seen # None /\ U[m].done[j] = attempts[Id].seen
        <5>1. T[n].done[k].attempt = Id  BY <1>2, <4>3, <3>3, <3>1, PendIs
        <5>2. QED  BY <5>1, <4>3, <1>2, <3>1, PendIs DEF Accepted
      <4>4. QED  BY <4>1, <4>2, <4>3 DEF Grow
    <3>4. QED  BY <3>2, <3>3 DEF o
  <2>2. CASE U[n].done[k] = Skipped  BY <2>2, <1>6, SkippedIs
  <2>3. CASE /\ PendingIs("tool") /\ attempts[Id].seen # None /\ U[n].done[k] = attempts[Id].seen
             /\ attempts[Id].status \in Closed /\ <<n, k>> = Proposal
    <3>1. Pend # None /\ Id \in Ids /\ ~Accepted(Id) /\ o.attempt = Id /\ o = attempts[Id].seen
      BY <1>2, <2>3, PendIs
    <3> HIDE DEF o
    <3>2. ASSUME NEW m \in DOMAIN U, NEW j \in DOMAIN U[m].done, U[m].done[j].attempt = Id
          PROVE  m = n /\ j = k
      <4>1. CASE Observed(m, j)  BY <4>1, <3>1, <3>2 DEF Grow, Observed, Accepted
      <4>2. CASE U[m].done[j] = Skipped  BY <4>2, <3>1, <3>2, SkippedIs
      <4>3. CASE <<m, j>> = Proposal  BY <4>3, <2>3
      <4>4. QED  BY <4>1, <4>2, <4>3 DEF Grow
    <3>3. QED  BY <2>3, <3>1, <3>2 DEF o
  <2>4. QED  BY <2>1, <2>2, <2>3 DEF Grow
<1>7. QED  BY <1>3, <1>4, <1>5, <1>6 DEF JournalFits

LEMMA GrowEffects ==
  ASSUME IInv, Grow, attempts' = attempts, Pend' = None, ran' = ran, shown' = shown,
         unasked' = unasked, pc' # "asking"
  PROVE  EffectsFit' /\ ShownFits'
<1> DEFINE T == Turns
           U == Turns'
<1>1. EffectsFit /\ Typed /\ TurnsFit  BY DEF IInv
<1>2. PendingIs("tool") => Pend # None /\ HasQueue  BY <1>1 DEF PendingIs, TurnsFit
<1>3. ~PendingIs("tool")' /\ ~(Pend # None)'  BY DEF PendingIs
<1>4. ProposalRunsOnce' = ProposalRunsOnce /\ RanProposals' = RanProposals
  BY DEF ProposalRunsOnce, RanProposals
<1>5. ASSUME NEW k \in DOMAIN ran
      PROVE  LET p == ran[k].proposal
             IN  /\ p[1] \in DOMAIN T /\ p[2] \in DOMAIN T[p[1]].calls /\ p = <<p[1], p[2]>>
                 /\ p[1] \in DOMAIN U /\ p[2] \in DOMAIN U[p[1]].calls
                 /\ p[2] \in DOMAIN U[p[1]].done
  <2> DEFINE p == ran[k].proposal
  <2>1. /\ p[1] \in DOMAIN T /\ p[2] \in DOMAIN T[p[1]].calls /\ p = <<p[1], p[2]>>
        /\ \/ p[2] \in DOMAIN T[p[1]].done
           \/ p = Proposal /\ ~NoneAwaited
    BY <1>1 DEF EffectsFit, NoneAwaited
  <2> HIDE DEF p
  <2>2. p[1] \in DOMAIN U /\ p[2] \in DOMAIN U[p[1]].calls  BY <2>1 DEF Grow
  <2>3. p[2] \in DOMAIN U[p[1]].done  BY <2>1 DEF Grow
  <2>4. QED  BY <2>1, <2>2, <2>3 DEF p
<1>6. ASSUME NoneAwaited, NEW n, NEW k, ~Observed(n, k)
      PROVE  <<n, k>> \notin RanProposals
  <2>1. ASSUME NEW j \in DOMAIN ran PROVE ran[j].proposal # <<n, k>>
    <3>1. ran[j].proposal[1] \in DOMAIN T /\ ran[j].proposal[2] \in DOMAIN T[ran[j].proposal[1]].done
      BY <1>6, EffectsObserved DEF NoneAwaited
    <3>2. QED  BY <3>1, <1>6 DEF Observed
  <2>2. QED  BY <2>1 DEF RanProposals
<1>7. ASSUME NEW n \in DOMAIN U, NEW k \in DOMAIN U[n].done
      PROVE  LET o == U[n].done[k]
             IN  /\ o.status = "ok" /\ U[n].calls[k] \in {"write", "exec"} =>
                      \E j \in DOMAIN ran : ran[j].proposal = <<n, k>> /\ ran[j].attempt = o.attempt
                 /\ o.status \in {"blocked", "cancelled"} => <<n, k>> \notin RanProposals
  <2> DEFINE o == U[n].done[k]
  <2>1. CASE Observed(n, k)
    <3>1. n \in DOMAIN T /\ k \in DOMAIN T[n].done /\ o = T[n].done[k] /\ U[n].calls = T[n].calls
      BY <2>1 DEF Grow, Observed
    <3> HIDE DEF o
    <3>2. /\ o.status = "ok" /\ T[n].calls[k] \in {"write", "exec"} =>
               \E j \in DOMAIN ran : ran[j].proposal = <<n, k>> /\ ran[j].attempt = o.attempt
          /\ o.status \in {"blocked", "cancelled"} => <<n, k>> \notin RanProposals
      BY <1>1, <3>1 DEF EffectsFit
    <3>3. QED  BY <3>1, <3>2 DEF o
  <2>2. CASE ~Observed(n, k) /\ NoneAwaited /\ U[n].done[k] = Skipped
    BY <1>6, <2>2, SkippedIs
  <2>3. CASE /\ PendingIs("tool") /\ attempts[Id].seen # None /\ U[n].done[k] = attempts[Id].seen
             /\ <<n, k>> = Proposal /\ n \in DOMAIN T
    <3>1. /\ attempts[Id].seen.status = "ok" /\ NextCall \in {"write", "exec"} => RanNow
          /\ attempts[Id].seen.status = "blocked" => Proposal \notin RanProposals
      BY <1>1, <2>3 DEF EffectsFit
    <3>2. o = attempts[Id].seen /\ o.attempt = Id /\ o.status # "cancelled"
      BY <1>2, <2>3, PendIs
    <3>3. n = Len(Turns) /\ k = NextAt /\ Proposal = <<Len(Turns), NextAt>>
          /\ NextCall = Current.calls[NextAt] /\ Current = T[n] /\ U[n].calls = T[n].calls
      <4>1. HasQueue  BY <1>2, <2>3
      <4>2. /\ Proposal = <<Len(Turns), NextAt>> /\ NextCall = Current.calls[NextAt]
            /\ Turns # <<>>
        BY <1>1, <4>1, NextCallIs
      <4>3. n = Len(Turns) /\ k = NextAt  BY <4>2, <2>3
      <4>4. Current = T[n]  BY <4>2, <4>3, <1>1, CurrentIs
      <4>5. QED  BY <4>2, <4>3, <4>4, <2>3 DEF Grow
    <3>4. U[n].calls[k] = NextCall  BY <3>3
    <3> HIDE DEF o
    <3>5. QED  BY <2>3, <3>1, <3>2, <3>4 DEF RanNow, o
  <2>4. QED  BY <2>1, <2>2, <2>3 DEF Grow
<1>8. EffectsFit'
  BY <1>1, <1>3, <1>4, <1>5, <1>7 DEF EffectsFit
<1>9. StartedAsShown'
  <2>1. ASSUME NEW k \in DOMAIN ran
        PROVE  LET p == ran[k].proposal IN U[p[1]].calls[p[2]] = T[p[1]].calls[p[2]]
    BY <1>5 DEF Grow
  <2>2. StartedAsShown  BY DEF IInv, ShownFits
  <2>3. QED  BY <2>1, <2>2 DEF StartedAsShown
<1>10. AskedFits'  BY <1>3 DEF AskedFits, Admitted
<1>11. QED  BY <1>3, <1>8, <1>9, <1>10 DEF ShownFits

LEMMA GrowStep ==
  ASSUME IInv, Grow, TurnsFit', IdsCounted', journal' \in Journal, Pend' = None,
         UNCHANGED <<attempts, delivery, version, crashes, history>>,
         Pend # None => attempts[Id].status \notin {"created", "running"},
         session' \in Session, session'.next = session.next,
         session'.recorded = session.recorded, session'.status \notin Settled,
         pc' \in {"entered", "top", "down"}, arg' \in Args'
  PROVE  IInv'
<1>1. Typed'  BY DEF IInv, Typed, TypeOK, Steps, history
<1>2. OthersFit'  
  <2>1. \A j \in Ids : attempts[j].status \notin {"created", "running"}
    <3>1. \A j \in Ids : attempts[j].status \in {"created", "running"} => Pend # None /\ Id = j
      BY DEF IInv, OthersFit
    <3>2. QED  BY <3>1
  <2>2. QED  BY <2>1 DEF IInv, OthersFit
<1>3. JournalFits'  BY GrowJournal
<1>4. EffectsFit' /\ ShownFits'  BY GrowEffects DEF history
<1>5. PendingFits' /\ Place' /\ Delivery'  BY DEF PendingFits, Place, Delivery
<1>6. QED  BY <1>1, <1>2, <1>3, <1>4, <1>5 DEF IInv

LEMMA NoPendingIs ==
  ASSUME Pend' = None
  PROVE  ~PendingIs("tool")' /\ ~PendingIs("model")'
BY DEF PendingIs

\* The last turn gets observations.
LEMMA ReplacedIs ==
  ASSUME IInv, HasQueue, NEW t \in Turn, Turns' = [Turns EXCEPT ![Len(Turns)] = t], Pend' = None,
         t.calls = Current.calls, t.origin = Current.origin, t.source = Current.source,
         t.left <= Len(t.calls), Len(t.done) = Len(t.calls) - t.left,
         \A k \in DOMAIN Current.done : k \in DOMAIN t.done /\ t.done[k] = Current.done[k],
         \A k \in DOMAIN t.done :
           \/ k \in DOMAIN Current.done
           \/ NoneAwaited /\ t.done[k] = Skipped
           \/ /\ PendingIs("tool") /\ attempts[Id].status \in Closed /\ attempts[Id].seen # None
              /\ k = NextAt /\ t.done[k] = attempts[Id].seen,
         NoneAwaited \/ NextAt \in DOMAIN t.done
  PROVE  Grow /\ TurnsFit' /\ Turns' \in Seq(Turn)
<1> DEFINE z == Len(Turns)
<1>1. Typed /\ TurnsFit  BY DEF IInv
<1>2. /\ z \in DOMAIN Turns /\ Current = Turns[z] /\ Proposal = <<z, NextAt>>
      /\ Turns \in Seq(Turn) /\ z \in Nat
  BY <1>1, NextCallIs, CurrentIs, StateIs
<1>3. /\ DOMAIN Turns' = DOMAIN Turns /\ Len(Turns') = z /\ Turns' \in Seq(Turn)
      /\ Turns'[z] = t
      /\ \A n \in DOMAIN Turns : n # z => Turns'[n] = Turns[n]
  BY <1>2
<1> HIDE DEF z
<1>4. ASSUME NEW n \in DOMAIN Turns
      PROVE  /\ n \in DOMAIN Turns' /\ Turns'[n].calls = Turns[n].calls
             /\ Turns'[n].origin = Turns[n].origin /\ Turns'[n].source = Turns[n].source
             /\ \A k \in DOMAIN Turns[n].done :
                  k \in DOMAIN Turns'[n].done /\ Turns'[n].done[k] = Turns[n].done[k]
  BY <1>2, <1>3
<1>5. ASSUME NEW n \in DOMAIN Turns', NEW k \in DOMAIN Turns'[n].done
      PROVE  \/ Observed(n, k)
             \/ n \in DOMAIN Turns /\ NoneAwaited /\ Turns'[n].done[k] = Skipped
             \/ /\ PendingIs("tool") /\ attempts[Id].status \in Closed /\ attempts[Id].seen # None
                /\ <<n, k>> = Proposal /\ n \in DOMAIN Turns
                /\ Turns'[n].done[k] = attempts[Id].seen
  <2>1. CASE n # z  BY <1>3, <2>1 DEF Observed
  <2>2. CASE n = z
    <3>1. k \in DOMAIN t.done /\ Turns'[n].done[k] = t.done[k] /\ n \in DOMAIN Turns
      BY <1>2, <1>3, <2>2
    <3>2. CASE k \in DOMAIN Current.done  BY <1>2, <2>2, <3>2 DEF Observed
    <3>3. CASE NoneAwaited /\ t.done[k] = Skipped  BY <3>1, <3>3
    <3>4. CASE /\ PendingIs("tool") /\ attempts[Id].status \in Closed /\ attempts[Id].seen # None
               /\ k = NextAt /\ t.done[k] = attempts[Id].seen
      BY <1>2, <2>2, <3>1, <3>4
    <3>5. QED  BY <3>1, <3>2, <3>3, <3>4
  <2>3. QED  BY <2>1, <2>2
<1>6. NoneAwaited \/ (Proposal[1] \in DOMAIN Turns' /\ Proposal[2] \in DOMAIN Turns'[Proposal[1]].done)
  BY <1>2, <1>3
<1>7. Grow  BY <1>3, <1>4, <1>5, <1>6 DEF Grow
<1>8. TurnsFit'
  BY <1>1, <1>2, <1>3, NoPendingIs DEF TurnsFit, z
<1>9. QED  BY <1>3, <1>7, <1>8

\* A turn is added to turns with nothing queued.
LEMMA AppendedIs ==
  ASSUME IInv, NoneAwaited, \A n \in DOMAIN Turns : Turns[n].left = 0,
         NEW t \in Turn, Turns' = Append(Turns, t), Pend' = None,
         t.left = Len(t.calls), t.done = <<>>,
         \/ t.origin = "caller" /\ t.source = NoId
         \/ /\ PendingIs("model") /\ attempts[Id].status = "completed"
            /\ t.origin = "model" /\ t.source = Id /\ t.calls = attempts[Id].reply
  PROVE  Grow /\ TurnsFit' /\ Turns' \in Seq(Turn)
<1> DEFINE z == Len(Turns)
<1>1. Typed /\ TurnsFit  BY DEF IInv
<1>2. Turns \in Seq(Turn) /\ z \in Nat /\ DOMAIN Turns = 1 .. z  BY <1>1, StateIs
<1>3. /\ Turns' \in Seq(Turn) /\ Len(Turns') = z + 1 /\ DOMAIN Turns' = 1 .. z + 1
      /\ Turns'[z + 1] = t
      /\ \A n \in 1 .. z : Turns'[n] = Turns[n]
  BY <1>2
<1> HIDE DEF z
<1>4. \A n \in DOMAIN Turns' : n \in DOMAIN Turns \/ n = z + 1  BY <1>2, <1>3
<1>5. \A n \in DOMAIN Turns : n \in DOMAIN Turns' /\ Turns'[n] = Turns[n] /\ n # z + 1
  BY <1>2, <1>3
<1>6. DOMAIN t.done = {}  OBVIOUS
<1>7. ASSUME NEW n \in DOMAIN Turns', NEW k \in DOMAIN Turns'[n].done
      PROVE  Observed(n, k)
  BY <1>3, <1>4, <1>5, <1>6 DEF Observed
<1>8. ASSUME NEW n \in DOMAIN Turns', n \notin DOMAIN Turns
      PROVE  n = Len(Turns) + 1 /\ Turns'[n] = t
  BY <1>3, <1>4, <1>8 DEF z
<1>9. Grow  BY <1>5, <1>7, <1>8 DEF Grow
<1>10. TurnsFit'
  <2>1. Len(t.calls) \in Nat /\ Len(t.done) = 0  BY TurnIs
  <2>2. \A n \in DOMAIN Turns' : n # Len(Turns') => n \in DOMAIN Turns
    BY <1>3, <1>4
  <2>3. QED
    BY <1>1, <1>3, <1>4, <1>5, <2>1, <2>2, NoPendingIs DEF TurnsFit
<1>11. QED  BY <1>3, <1>9, <1>10

\* What is queued is observed as not executed.
LEMMA CancelledIs ==
  ASSUME IInv, HasQueue, NoneAwaited, Turns' = Cancelled.turns, Pend' = None
  PROVE  Grow /\ TurnsFit' /\ Turns' \in Seq(Turn)
         /\ Cancelled.pending = None /\ Cancelled.requests = journal.requests
         /\ Cancelled = [requests |-> journal.requests, turns |-> Cancelled.turns, pending |-> None]
<1>1. Typed /\ TurnsFit /\ journal \in Journal  BY DEF IInv, Typed, TypeOK
<1> DEFINE c == Current
           skip == [k \in 1 .. c.left |-> Skipped]
           t == [c EXCEPT !.done = @ \o skip, !.left = 0]
<1>2. Len(Turns) \in DOMAIN Turns /\ c = Turns[Len(Turns)] /\ c \in Turn
      /\ Turns \in Seq(Turn)
  BY <1>1, NextCallIs, CurrentIs, StateIs
<1>3. /\ Cancelled.turns = [Turns EXCEPT ![Len(Turns)] = t] /\ Cancelled.pending = None
      /\ Cancelled.requests = journal.requests
      /\ Cancelled = [requests |-> journal.requests, turns |-> Cancelled.turns, pending |-> None]
  <2>1. Cancelled = [journal EXCEPT !.turns[Len(Turns)].done = @ \o skip,
                                    !.turns[Len(Turns)].left = 0, !.pending = None]
    BY DEF Cancelled, Skipped
  <2> HIDE DEF skip
  <2> DEFINE f == journal.turns
             g == [f EXCEPT ![Len(Turns)].done = @ \o skip]
             h == [g EXCEPT ![Len(Turns)].left = 0]
  <2>2. Cancelled = [requests |-> journal.requests, pending |-> None, turns |-> h]
    BY <1>1, <2>1 DEF Journal
  <2>3. f = Turns  BY DEF Turns
  <2> HIDE DEF f
  <2>4. h = [Turns EXCEPT ![Len(Turns)] = t]
    BY <1>2, <2>3 DEF Turn
  <2> HIDE DEF t, h
  <2>5. QED  BY <2>2, <2>4
<1>4. /\ c.left \in Nat /\ c.left <= Len(c.calls) /\ Len(c.done) = Len(c.calls) - c.left
      /\ c.done \in Seq(Outcome) /\ Len(c.calls) \in Nat /\ Len(c.done) \in Nat
      /\ DOMAIN c.done = 1 .. Len(c.done)
  BY <1>1, <1>2, TurnIs DEF TurnsFit
<1>5. Skipped \in Outcome  BY DEF Skipped, Outcome
<1>6. skip \in Seq(Outcome) /\ Len(skip) = c.left
      /\ \A k \in 1 .. c.left : skip[k] = Skipped
  BY <1>4, <1>5
<1> DEFINE d == c.done
           e == d \o skip
<1>7. /\ t \in Turn /\ t.calls = c.calls /\ t.origin = c.origin /\ t.source = c.source
      /\ t.left = 0 /\ t.done = e /\ e \in Seq(Outcome)
      /\ Len(e) = Len(d) + c.left
      /\ \A i \in 1 .. Len(d) + c.left : e[i] = IF i <= Len(d) THEN d[i] ELSE skip[i - Len(d)]
  <2>1. d \in Seq(Outcome)  BY <1>4
  <2> HIDE DEF skip, d
  <2>2. /\ e \in Seq(Outcome)
        /\ Len(e) = Len(d) + Len(skip)
        /\ \A i \in 1 .. Len(d) + Len(skip) : e[i] = IF i <= Len(d) THEN d[i] ELSE skip[i - Len(d)]
    BY <1>6, <2>1, ConcatProperties
  <2>3. t = [c EXCEPT !.done = e, !.left = 0]  BY DEF d
  <2> HIDE DEF e, t, c
  <2>4. t \in Turn /\ t.calls = c.calls /\ t.origin = c.origin /\ t.source = c.source
        /\ t.left = 0 /\ t.done = e
    BY <1>2, <2>2, <2>3 DEF Turn
  <2>5. QED  BY <1>6, <2>2, <2>4
<1>8. DOMAIN e = 1 .. Len(d) + c.left  
  <2> HIDE DEF e
  <2>1. DOMAIN e = 1 .. Len(e)  BY <1>7
  <2>2. QED  BY <1>7, <2>1
<1>9. \A k \in DOMAIN c.done : k \in DOMAIN e /\ e[k] = c.done[k]
  <2> HIDE DEF e, skip
  <2>1. QED  BY <1>4, <1>7, <1>8
<1>10. \A k \in DOMAIN e : k \in DOMAIN c.done \/ e[k] = Skipped
  <2> HIDE DEF e, skip
  <2> SUFFICES ASSUME NEW k \in DOMAIN e, k \notin DOMAIN c.done PROVE e[k] = Skipped
    OBVIOUS
  <2>1. k \in 1 .. Len(d) + c.left /\ ~(k <= Len(d)) /\ k - Len(d) \in 1 .. c.left
    BY <1>4, <1>8
  <2>2. QED  BY <1>6, <1>7, <2>1
<1>11. t.left <= Len(t.calls) /\ Len(t.done) = Len(t.calls) - t.left
  <2> HIDE DEF e, skip, t, c
  <2>1. QED  BY <1>4, <1>7 DEF d
<1>12. Turns' = [Turns EXCEPT ![Len(Turns)] = t]  BY <1>3
<1>13. \A k \in DOMAIN Current.done : k \in DOMAIN t.done /\ t.done[k] = Current.done[k]
  BY <1>7, <1>9
<1>14. \A k \in DOMAIN t.done :
           \/ k \in DOMAIN Current.done
           \/ NoneAwaited /\ t.done[k] = Skipped
           \/ /\ PendingIs("tool") /\ attempts[Id].status \in Closed /\ attempts[Id].seen # None
              /\ k = NextAt /\ t.done[k] = attempts[Id].seen
  BY <1>7, <1>10
<1>15. t \in Turn /\ t.calls = Current.calls /\ t.origin = Current.origin /\ t.source = Current.source
  BY <1>7
<1> HIDE DEF t, c
<1>16. Grow /\ TurnsFit' /\ Turns' \in Seq(Turn)
  BY <1>11, <1>12, <1>13, <1>14, <1>15, ReplacedIs
<1>17. QED  BY <1>3, <1>16

LEMMA JournalIs ==
  ASSUME NEW j \in Journal, NEW r \in 1 .. MaxRequests, NEW t \in Seq(Turn)
  PROVE  [requests |-> r, turns |-> t, pending |-> None] \in Journal
BY DEF Journal

LEMMA KindIs ==
  ASSUME Typed, Pend # None
  PROVE  PendingIs("model") \/ PendingIs("tool")
BY StateIs DEF PendingIs, Pending

LEMMA SaveFeedbackStep ==
  ASSUME IInv, SaveFeedback
  PROVE  IInv'
<1>1. Typed /\ journal \in Journal /\ TurnsFit /\ arg \in Args /\ session \in Session
  BY DEF IInv, Typed, TypeOK
<1>2. pc = "feedback" /\ CanCancel /\ journal.requests < MaxRequests
      /\ session.status \notin Settled
  BY DEF IInv, Place, SaveFeedback, Go
<1>3. /\ UNCHANGED <<session, attempts, delivery, version, arg, crashes, history>>
      /\ pc' = "entered" /\ journal' = [Cancelled EXCEPT !.requests = @ + 1]
  BY DEF SaveFeedback, Go
<1>4. journal.requests + 1 \in 1 .. MaxRequests /\ journal.requests \in Nat
  BY <1>1, <1>2, ApplicationAssumption DEF Journal, ApplicationAssumption
<1>5. NoneAwaited /\ (Pend # None => attempts[Id].status \notin {"created", "running"})
  <2>1. CASE Pend = None  BY <2>1 DEF NoneAwaited, PendingIs
  <2>2. CASE Pend # None
    <3>1. attempts[Id].status \in {"none", "bare"}
      BY <1>2, <2>2 DEF CanCancel, PendingStarted, Listed, Id
    <3>2. QED  BY <3>1 DEF NoneAwaited, Closed
  <2>3. QED  BY <2>1, <2>2
<1>6. /\ Grow /\ TurnsFit' /\ Pend' = None /\ journal' \in Journal
      /\ journal'.requests = journal.requests + 1
  <2>1. CASE HasQueue
    <3>1. Cancelled = [requests |-> journal.requests, turns |-> Cancelled.turns, pending |-> None]
      BY <1>1, <2>1 DEF Cancelled, Journal
    <3>2. journal' = [requests |-> journal.requests + 1, turns |-> Cancelled.turns, pending |-> None]
      BY <1>3, <3>1
    <3>3. Turns' = Cancelled.turns /\ Pend' = None /\ journal'.requests = journal.requests + 1
      BY <3>2 DEF Turns, Pend
    <3>4. Grow /\ TurnsFit' /\ Turns' \in Seq(Turn)  BY <1>5, <2>1, <3>3, CancelledIs
    <3>5. journal' \in Journal  BY <1>4, <3>2, <3>3, <3>4, <1>1, JournalIs
    <3>6. QED  BY <3>3, <3>4, <3>5
  <2>2. CASE ~HasQueue
    <3>1. Pend = None
      BY <1>1, <1>2, <2>2, KindIs DEF CanCancel, TurnsFit
    <3>2. journal' = [journal EXCEPT !.requests = @ + 1]  BY <1>3, <2>2 DEF Cancelled
    <3>3. journal' \in Journal /\ journal'.turns = journal.turns
          /\ journal'.pending = journal.pending /\ journal'.requests = journal.requests + 1
      BY <1>1, <1>4, <3>2 DEF Journal
    <3>4. Turns' = Turns /\ Pend' = None /\ HasQueue' = HasQueue
          /\ PendingIs("tool")' = PendingIs("tool") /\ PendingIs("model")' = PendingIs("model")
      BY <3>1, <3>3 DEF Turns, Pend, HasQueue, Current, PendingIs
    <3>5. Grow  BY <1>5, <3>4 DEF Grow, Observed
    <3>6. TurnsFit'  BY <1>1, <3>4 DEF TurnsFit
    <3>7. QED  BY <3>3, <3>4, <3>5, <3>6
  <2>3. QED  BY <2>1, <2>2
<1>7. IdsCounted'
  <2>1. Cardinality(session.recorded) \in Nat /\ crashes \in Nat /\ session.next \in Nat
    BY <1>1, CountIs
  <2>2. session.next <= Cardinality(session.recorded) + crashes + journal.requests + 1
    BY <1>4, <2>1 DEF IInv, IdsCounted
  <2>3. ~Unsettled'  BY <1>3, <1>6 DEF Unsettled
  <2>4. QED  BY <1>3, <1>4, <1>6, <2>1, <2>2, <2>3 DEF IdsCounted
<1>8. arg' \in Args'  BY <1>1, <1>3 DEF Args, history
<1>9. QED  BY <1>1, <1>2, <1>3, <1>5, <1>6, <1>7, <1>8, GrowStep

\* The turns of the other steps do not start a request.
LEMMA CountStays ==
  ASSUME IInv, session'.next = session.next, session'.recorded = session.recorded,
         crashes' = crashes, journal'.requests = journal.requests,
         Pend = None \/ attempts[Id].status \in Closed, pc # "retry"
  PROVE  IdsCounted'
<1>1. Pend # None => Id \in session.recorded
  BY StateIs DEF IInv, OthersFit
<1>2. ~Unsettled  BY <1>1 DEF Unsettled
<1>3. session.next <= Cardinality(session.recorded) + crashes + journal.requests
      /\ Cardinality(session.recorded) \in Nat /\ crashes \in Nat /\ session.next \in Nat
      /\ journal.requests \in Nat
  BY <1>2, CountIs DEF IInv, IdsCounted
<1>4. QED  BY <1>3 DEF IdsCounted

LEMMA RefuseQueueStep ==
  ASSUME IInv, RefuseQueue
  PROVE  IInv'
<1>1. Typed /\ journal \in Journal /\ arg \in Args /\ session \in Session
  BY DEF IInv, Typed, TypeOK
<1>2. /\ Pend = None /\ HasQueue /\ pc = "top"
      /\ UNCHANGED <<attempts, delivery, version, crashes, history>>
  BY DEF RefuseQueue, AtTop
<1>3. CASE journal' = journal /\ Pauses(FALSE)  BY <1>2, <1>3, EndStep
<1>4. CASE journal' = Cancelled /\ (Pauses(FALSE) \/ UNCHANGED <<session, pc, arg>>)
  <2>1. /\ session' \in Session /\ session'.next = session.next
        /\ session'.recorded = session.recorded /\ session'.status \notin Settled
        /\ pc' \in {"top", "down"} /\ arg' \in Args'
    <3>1. CASE Pauses(FALSE)  BY <1>1, <3>1, PausesIs, NoArgIs
    <3>2. CASE UNCHANGED <<session, pc, arg>>
      <4>1. session.status \notin Settled
        BY <1>2 DEF IInv, Delivery, Delivers, Committable, HasQueue
      <4>2. QED  BY <1>1, <1>2, <3>2, <4>1 DEF Args, history
    <3>3. QED  BY <1>4, <3>1, <3>2
  <2>2. NoneAwaited  BY <1>2 DEF NoneAwaited, PendingIs
  <2>3. Cancelled = [requests |-> journal.requests, turns |-> Cancelled.turns, pending |-> None]
    BY <1>1, <1>2 DEF Cancelled, Journal
  <2>4. Turns' = Cancelled.turns /\ Pend' = None /\ journal'.requests = journal.requests
    BY <1>4, <2>3 DEF Turns, Pend
  <2>5. Grow /\ TurnsFit' /\ Turns' \in Seq(Turn)  BY <1>2, <2>2, <2>4, CancelledIs
  <2>6. journal' \in Journal
    <3>1. journal.requests \in 1 .. MaxRequests  BY <1>1 DEF Journal
    <3>2. QED  BY <1>1, <1>4, <2>3, <2>4, <2>5, <3>1, JournalIs
  <2>7. IdsCounted'  BY <1>2, <2>1, <2>4, CountStays
  <2>8. QED  BY <1>2, <2>1, <2>4, <2>5, <2>6, <2>7, GrowStep
<1>5. QED  BY <1>3, <1>4 DEF RefuseQueue

LEMMA SaveSubmissionStep ==
  ASSUME IInv, SaveSubmission
  PROVE  IInv'
<1>1. Typed /\ journal \in Journal /\ arg \in Args /\ session \in Session
  BY DEF IInv, Typed, TypeOK
<1>2. pc = "submit" /\ (Pend = None \/ FailedDecision) /\ NothingQueued
      /\ session.status \notin Settled
  BY DEF IInv, Place, SaveSubmission, Go
<1> DEFINE t == NewTurn("caller", NoId, arg.batch, FALSE, Pend # None)
<1>3. /\ UNCHANGED <<session, attempts, delivery, version, crashes, history>>
      /\ pc' = "entered" /\ arg' = NoArg
      /\ journal' = [journal EXCEPT !.turns = Append(@, t), !.pending = None]
  BY DEF SaveSubmission, Go
<1>4. /\ t \in Turn /\ t.left = Len(t.calls) /\ t.done = <<>>
      /\ t.origin = "caller" /\ t.source = NoId
  <2>1. arg.batch \in Seq(Calls)  BY <1>1 DEF Args
  <2>2. journal.requests \in 1 .. MaxRequests /\ <<>> \in Seq(Outcome)
    BY <1>1 DEF Journal
  <2>3. Len(arg.batch) \in Nat  BY <2>1
  <2>4. QED  BY <2>1, <2>2, <2>3 DEF NewTurn, Turn
<1> HIDE DEF t
<1>5. /\ journal' = [requests |-> journal.requests, turns |-> Append(Turns, t), pending |-> None]
      /\ Turns' = Append(Turns, t) /\ Pend' = None /\ journal'.requests = journal.requests
  BY <1>1, <1>3 DEF Journal, Turns, Pend
<1>6. NoneAwaited /\ (Pend = None \/ attempts[Id].status = "failed")
  BY <1>2 DEF NoneAwaited, PendingIs, FailedDecision, Id
<1>7. Grow /\ TurnsFit' /\ Turns' \in Seq(Turn)
  BY <1>2, <1>4, <1>5, <1>6, AppendedIs DEF NothingQueued
<1>8. journal' \in Journal
  <2>1. journal.requests \in 1 .. MaxRequests  BY <1>1 DEF Journal
  <2>2. QED  BY <1>1, <1>5, <1>7, <2>1, JournalIs
<1>9. IdsCounted'
  <2>1. Pend = None \/ attempts[Id].status \in Closed  BY <1>6 DEF Closed
  <2>2. QED  BY <1>2, <1>3, <1>5, <2>1, CountStays
<1>10. Pend # None => attempts[Id].status \notin {"created", "running"}  BY <1>6
<1>11. QED  BY <1>1, <1>2, <1>3, <1>5, <1>7, <1>8, <1>9, <1>10, NoArgIs, GrowStep

LEMMA AcceptReplyStep ==
  ASSUME IInv, AcceptReply
  PROVE  IInv'
<1>1. Typed /\ journal \in Journal /\ arg \in Args /\ session \in Session /\ attempts \in [Ids -> Attempt]
  BY DEF IInv, Typed, TypeOK
<1>2. pc = "observed" /\ PendingIs("model") /\ Pend # None
      /\ UNCHANGED <<attempts, delivery, version, crashes, history>>
  BY DEF AcceptReply, PendingIs
<1>3. Id \in Ids /\ session.status \notin Settled  BY <1>2, StateIs, PendingIsOpen DEF IInv
<1>4. attempts[Id].status = "completed" /\ attempts[Id].reply # None
  BY <1>2 DEF IInv, Place, Answered, PendingIs
<1>5. attempts[Id].reply \in Seq(Calls) /\ attempts[Id].closing \in BOOLEAN
  BY <1>1, <1>3, <1>4 DEF Attempt
<1> DEFINE t == NewTurn("model", Id, attempts[Id].reply, attempts[Id].closing, FALSE)
<1>6. /\ t \in Turn /\ t.left = Len(t.calls) /\ t.done = <<>>
      /\ t.origin = "model" /\ t.source = Id /\ t.calls = attempts[Id].reply
  <2>1. journal.requests \in 1 .. MaxRequests /\ <<>> \in Seq(Outcome)
    BY <1>1 DEF Journal
  <2>2. Len(attempts[Id].reply) \in Nat  BY <1>5
  <2>3. QED  BY <1>3, <1>5, <2>1, <2>2 DEF NewTurn, Turn
<1>7. journal' = [journal EXCEPT !.turns = Append(@, t), !.pending = None]
  BY DEF AcceptReply, ReplyAccepted
<1> HIDE DEF t
<1>8. /\ journal' = [requests |-> journal.requests, turns |-> Append(Turns, t), pending |-> None]
      /\ Turns' = Append(Turns, t) /\ Pend' = None /\ journal'.requests = journal.requests
  BY <1>1, <1>7 DEF Journal, Turns, Pend
<1>9. NoneAwaited  BY <1>2 DEF NoneAwaited, PendingIs
<1>10. \A n \in DOMAIN Turns : Turns[n].left = 0
  <2>1. ~HasQueue /\ TurnsFit  BY <1>2 DEF IInv, TurnsFit
  <2>2. ASSUME NEW n \in DOMAIN Turns PROVE Turns[n].left = 0
    <3>1. CASE n # Len(Turns)  BY <2>1, <3>1 DEF TurnsFit
    <3>2. CASE n = Len(Turns)
      <4>1. Turns # <<>>  OBVIOUS
      <4>2. Current = Turns[n] /\ Current \in Turn  BY <1>1, <3>2, <4>1, CurrentIs
      <4>3. ~(Current.left > 0) /\ Current.left \in Nat  BY <2>1, <4>1, <4>2, TurnIs DEF HasQueue
      <4>4. QED  BY <4>2, <4>3
    <3>3. QED  BY <3>1, <3>2
  <2>3. QED  BY <2>2
<1>11. Grow /\ TurnsFit' /\ Turns' \in Seq(Turn)
  BY <1>2, <1>4, <1>6, <1>8, <1>9, <1>10, AppendedIs
<1>12. journal' \in Journal
  <2>1. journal.requests \in 1 .. MaxRequests  BY <1>1 DEF Journal
  <2>2. QED  BY <1>1, <1>8, <1>11, <2>1, JournalIs
<1>13. /\ session' \in Session /\ session'.next = session.next
       /\ session'.recorded = session.recorded /\ session'.status \notin Settled
       /\ pc' \in {"top", "down"} /\ arg' \in Args'
  <2>1. CASE Pauses(FALSE)  BY <1>1, <2>1, PausesIs, NoArgIs
  <2>2. CASE pc' = "top" /\ UNCHANGED <<session, arg>>
    BY <1>1, <1>2, <1>3, <2>2 DEF Args, history
  <2>3. QED  BY <2>1, <2>2 DEF AcceptReply
<1>14. IdsCounted'
  <2>1. attempts[Id].status \in Closed  BY <1>4 DEF Closed
  <2>2. QED  BY <1>2, <1>8, <1>13, <2>1, CountStays
<1>15. Pend # None => attempts[Id].status \notin {"created", "running"}  BY <1>4
<1>16. QED  BY <1>2, <1>8, <1>11, <1>12, <1>13, <1>14, <1>15, GrowStep

LEMMA AcceptObservationStep ==
  ASSUME IInv, AcceptObservation
  PROVE  IInv'
<1>1. Typed /\ journal \in Journal /\ arg \in Args /\ session \in Session /\ attempts \in [Ids -> Attempt]
      /\ TurnsFit
  BY DEF IInv, Typed, TypeOK
<1>2. pc = "observed" /\ PendingIs("tool") /\ Pend # None /\ pc' = "top"
      /\ UNCHANGED <<session, attempts, delivery, version, arg, crashes, history>>
      /\ journal' = ObservationAccepted
  BY DEF AcceptObservation, PendingIs, Go
<1>3. Id \in Ids /\ session.status \notin Settled /\ HasQueue
  BY <1>1, <1>2, StateIs, PendingIsOpen DEF IInv, TurnsFit
<1>4. attempts[Id].status \in Closed /\ attempts[Id].seen # None
  BY <1>2 DEF IInv, Place, Answered, PendingIs
<1> DEFINE c == Current
           o == attempts[Id].seen
           e == Append(c.done, o)
           t == [c EXCEPT !.done = e, !.left = @ - 1]
<1>5. o \in Outcome  BY <1>1, <1>3, <1>4 DEF Attempt
<1>6. Len(Turns) \in DOMAIN Turns /\ c = Turns[Len(Turns)] /\ c \in Turn
      /\ Turns \in Seq(Turn)
  BY <1>1, <1>3, NextCallIs, CurrentIs, StateIs
<1>7. /\ c.left \in Nat /\ c.left <= Len(c.calls) /\ Len(c.done) = Len(c.calls) - c.left
      /\ c.done \in Seq(Outcome) /\ Len(c.calls) \in Nat /\ Len(c.done) \in Nat
      /\ DOMAIN c.done = 1 .. Len(c.done) /\ c.left > 0 /\ NextAt = Len(c.done) + 1
  BY <1>1, <1>3, <1>6, TurnIs, NextCallIs DEF TurnsFit, HasQueue
<1>8. /\ e \in Seq(Outcome) /\ Len(e) = Len(c.done) + 1 /\ DOMAIN e = 1 .. Len(c.done) + 1
      /\ e[Len(c.done) + 1] = o
      /\ \A k \in 1 .. Len(c.done) : e[k] = c.done[k]
  <2> HIDE DEF c, o
  <2>1. QED  BY <1>5, <1>7
<1> HIDE DEF e
<1>9. /\ t \in Turn /\ t.calls = c.calls /\ t.origin = c.origin /\ t.source = c.source
      /\ t.left = c.left - 1 /\ t.done = e
  <2> HIDE DEF c
  <2>1. c.left - 1 \in Nat  BY <1>7
  <2>2. QED  BY <1>6, <1>8, <2>1 DEF Turn
<1>10. /\ journal' = [requests |-> journal.requests, pending |-> None,
                      turns |-> [Turns EXCEPT ![Len(Turns)] = t]]
       /\ Turns' = [Turns EXCEPT ![Len(Turns)] = t] /\ Pend' = None
       /\ journal'.requests = journal.requests
  <2>1. journal' = [journal EXCEPT !.turns[Len(Turns)].done = Append(@, o),
                                   !.turns[Len(Turns)].left = @ - 1, !.pending = None]
    BY <1>2 DEF ObservationAccepted
  <2> DEFINE f == journal.turns
             g == [f EXCEPT ![Len(Turns)].done = Append(@, o)]
             h == [g EXCEPT ![Len(Turns)].left = @ - 1]
  <2> HIDE DEF o
  <2>2. journal' = [requests |-> journal.requests, pending |-> None, turns |-> h]
    BY <1>1, <2>1 DEF Journal
  <2>3. f = Turns  BY DEF Turns
  <2> HIDE DEF f
  <2>4. h = [Turns EXCEPT ![Len(Turns)] = t]
    BY <1>6, <2>3 DEF Turn, e
  <2> HIDE DEF t, h
  <2>5. QED  BY <2>2, <2>4 DEF Turns, Pend
<1>11. t.left <= Len(t.calls) /\ Len(t.done) = Len(t.calls) - t.left
  <2> HIDE DEF t, c
  <2>1. QED  BY <1>7, <1>8, <1>9
<1>12. \A k \in DOMAIN c.done : k \in DOMAIN t.done /\ t.done[k] = c.done[k]
  <2> HIDE DEF t, c, o
  <2>1. QED  BY <1>7, <1>8, <1>9
<1>13. \A k \in DOMAIN t.done : k \in DOMAIN c.done \/ (k = NextAt /\ t.done[k] = o)
  <2> HIDE DEF t, c, o
  <2>1. QED  BY <1>7, <1>8, <1>9
<1>14. NextAt \in DOMAIN t.done
  <2> HIDE DEF t, c, o
  <2>1. QED  BY <1>7, <1>8, <1>9
<1> HIDE DEF t
<1>15. \A k \in DOMAIN t.done :
           \/ k \in DOMAIN Current.done
           \/ NoneAwaited /\ t.done[k] = Skipped
           \/ /\ PendingIs("tool") /\ attempts[Id].status \in Closed /\ attempts[Id].seen # None
              /\ k = NextAt /\ t.done[k] = attempts[Id].seen
  BY <1>2, <1>4, <1>13
<1>16. Grow /\ TurnsFit' /\ Turns' \in Seq(Turn)
  BY <1>3, <1>9, <1>10, <1>11, <1>12, <1>14, <1>15, ReplacedIs
<1>17. journal' \in Journal
  <2>1. journal.requests \in 1 .. MaxRequests  BY <1>1 DEF Journal
  <2>2. QED  BY <1>1, <1>10, <1>16, <2>1, JournalIs
<1>18. IdsCounted'  BY <1>2, <1>4, <1>10, CountStays
<1>19. Pend # None => attempts[Id].status \notin {"created", "running"}  BY <1>4 DEF Closed
<1>20. arg' \in Args'  BY <1>1, <1>2 DEF Args, history
<1>21. QED  BY <1>1, <1>2, <1>3, <1>10, <1>16, <1>17, <1>18, <1>19, <1>20, GrowStep

\* The id of another try is taken before the journal names it.
LEMMA RetryModelStep ==
  ASSUME IInv, RetryModel
  PROVE  IInv'
<1>1. Typed /\ session \in Session /\ session.next \in Nat \ {0}
  BY DEF IInv, Typed, TypeOK, Session
<1>2. /\ pc = "down" /\ pc' = "retry" /\ arg' = NoArg /\ FailedDecision /\ NothingQueued
      /\ session' = [session EXCEPT !.status = "running", !.stopped = FALSE, !.next = @ + 1]
      /\ UNCHANGED <<journal, attempts, delivery, version, crashes, history>> /\ ~Exhausted
  BY DEF RetryModel, CanRetry, Go
<1>3. /\ session' \in Session /\ session'.next = session.next + 1
      /\ session'.recorded = session.recorded /\ session'.current = session.current
      /\ session'.status = "running"
  <2> DEFINE n == session.next + 1
  <2>1. n \in Nat \ {0}  BY <1>1
  <2>2. session' = [session EXCEPT !.status = "running", !.stopped = FALSE, !.next = n]
    BY <1>2
  <2> HIDE DEF n
  <2>3. /\ session' \in Session /\ session'.next = n
        /\ session'.recorded = session.recorded /\ session'.current = session.current
        /\ session'.status = "running"
    BY <1>1, <2>1, <2>2 DEF Session
  <2>4. QED  BY <2>3 DEF n
<1>4. Pend # None /\ Id \in Ids /\ PendingIs("model") /\ attempts[Id].status = "failed"
  BY <1>1, <1>2, StateIs DEF FailedDecision, PendingIs, Id
<1>5. Id < session.next /\ Id \in session.recorded
  BY <1>4 DEF IInv, OthersFit, Closed
<1>6. ~Unsettled  BY <1>2, <1>5 DEF Unsettled
<1>7. /\ session.next \in Ids /\ attempts[session.next] = NoAttempt
      /\ session.next + 1 <= Cardinality(session.recorded) + crashes + journal.requests + 1
  BY <1>2, <1>6, NextIdIsFree
<1> USE SameJournal
<1>8. Typed'  BY <1>1, <1>2, <1>3, NoArgIs DEF Typed, TypeOK, Steps, history
<1>9. TurnsFit' /\ PendingFits' /\ JournalFits'
  BY <1>2, <1>3 DEF IInv, PendingFits, Blank, Answered, JournalFits, Accepted
<1>10. OthersFit'
  <2>1. \A j \in Ids : j >= session'.next => j >= session.next
    BY <1>1, <1>3, ApplicationAssumption DEF Ids, ApplicationAssumption
  <2>2. Id \in Nat /\ Id < session'.next
    BY <1>1, <1>3, <1>4, <1>5, ApplicationAssumption DEF Ids, ApplicationAssumption
  <2>3. QED  BY <1>2, <1>3, <2>1, <2>2 DEF IInv, OthersFit
<1>11. IdsCounted'  BY <1>2, <1>3, <1>7 DEF IdsCounted, Unsettled
<1>12. Place'
  <2>1. FailedDecision' /\ NothingQueued'
    BY <1>2, <1>3 DEF FailedDecision, Pend
  <2>2. session'.next - 1 = session.next  BY <1>1, <1>3
  <2>3. Id # session.next
    BY <1>1, <1>4, <1>5, ApplicationAssumption DEF Ids, ApplicationAssumption
  <2>4. QED  BY <1>2, <1>4, <1>7, <2>1, <2>2, <2>3 DEF Place
<1>13. Delivery'  BY <1>2, <1>3 DEF Delivery, Settled
<1>14. EffectsFit'
  BY <1>2 DEF IInv, EffectsFit, ProposalRunsOnce, RanNow, RanProposals, history
<1>15. ShownFits'
  <2>1. AskedFits'  BY <1>2 DEF AskedFits, Starting
  <2>2. QED  BY <1>2, <2>1 DEF IInv, ShownFits, StartedAsShown, history
<1>16. QED  BY <1>8, <1>9, <1>10, <1>11, <1>12, <1>13, <1>14, <1>15 DEF IInv

----------------------------------------------------------------------------
(* Steps that change the attempt of the pending operation                   *)

AttemptMoves ==
  /\ Pend # None /\ journal' = journal /\ shown' = shown /\ unasked' = unasked
  /\ attempts' \in [Ids -> Attempt] /\ \A j \in Ids : j # Id => attempts'[j] = attempts[j]
  /\ session' \in Session /\ session'.next = session.next /\ session'.status \notin Settled
  /\ session'.recorded \in {session.recorded, session.recorded \cup {Id}}
  /\ attempts'[Id].status \in Closed <=> Id \in session'.recorded
  /\ crashes' \in 0 .. MaxCrashes /\ crashes <= crashes'
  /\ pc # "retry" /\ pc' \in (Steps \cup {"down"}) \ {"retry", "delivering", "completing", "asking"}
  /\ delivery' = delivery /\ version' \in Versions /\ sent' \in [Ids -> Nat]
  /\ ran' \in Seq(Effects) /\ arg' \in Args'
  /\ pc' = "dispatch" => attempts'[Id].status # "none"
  /\ pc' \in {"created", "marked", "handling"} =>
       \/ pc \in {"created", "marked"}
       \/ pc = "dispatch" /\ attempts[Id].status = "none"

LEMMA MovesKeep ==
  ASSUME IInv, AttemptMoves
  PROVE  Typed' /\ TurnsFit' /\ OthersFit' /\ IdsCounted' /\ JournalFits' /\ Delivery'
<1> USE SameJournal
<1>1. Typed /\ Id \in Ids /\ ~Accepted(Id)  BY PendIs DEF IInv, AttemptMoves
<1>2. Typed'  BY <1>1 DEF AttemptMoves, Typed, TypeOK
<1>3. TurnsFit'  BY DEF IInv, AttemptMoves
<1>4. OthersFit'
  <2>1. \A j \in Ids : j >= session.next => attempts'[j] = NoAttempt
    <3>1. Id < session.next /\ Id \in Nat /\ session.next \in Nat
      BY <1>1, ApplicationAssumption
         DEF IInv, OthersFit, AttemptMoves, Ids, ApplicationAssumption, Typed, TypeOK, Session
    <3>2. \A j \in Ids : j >= session.next => j # Id  BY <3>1
    <3>3. QED  BY <3>2 DEF IInv, OthersFit, AttemptMoves
  <2>2. \A j \in Ids : attempts'[j].status \in Closed <=> j \in session'.recorded
    BY DEF IInv, OthersFit, AttemptMoves
  <2>3. \A j \in Ids : attempts'[j].status \in {"created", "running"} => Id = j
    BY DEF IInv, OthersFit, AttemptMoves
  <2>4. Id < session.next  BY DEF IInv, OthersFit, AttemptMoves
  <2>5. QED  BY <2>1, <2>2, <2>3, <2>4 DEF OthersFit, AttemptMoves
<1>5. IdsCounted'
  <2> DEFINE c == Cardinality(session.recorded)
             d == Cardinality(session'.recorded)
  <2>1. /\ c \in Nat /\ crashes \in Nat /\ crashes' \in Nat /\ session.next \in Nat
        /\ journal.requests \in Nat /\ IsFiniteSet(session.recorded) /\ crashes <= crashes'
    BY <1>1, CountIs, ApplicationAssumption DEF AttemptMoves, ApplicationAssumption
  <2>2. session.next <= c + crashes + journal.requests + (IF Id \in session.recorded THEN 0 ELSE 1)
    BY DEF IInv, IdsCounted, Unsettled, AttemptMoves
  <2>3. Unsettled' <=> Id \notin session'.recorded
    BY DEF Unsettled, AttemptMoves
  <2>4. CASE session'.recorded = session.recorded
    <3>1. /\ session'.next = session.next /\ journal'.requests = journal.requests
          /\ Cardinality(session'.recorded) = c /\ (Unsettled' <=> Id \notin session.recorded)
      BY <2>3, <2>4 DEF AttemptMoves
    <3> HIDE DEF c
    <3>2. QED  BY <2>1, <2>2, <3>1 DEF IdsCounted
  <2>5. CASE session'.recorded = session.recorded \cup {Id} /\ Id \notin session.recorded
    <3>1. d = c + 1  BY <2>1, <2>5, FS_AddElement
    <3>2. Id \in session'.recorded  BY <2>5
    <3> HIDE DEF c
    <3>3. QED  BY <2>1, <2>2, <2>3, <2>5, <3>1, <3>2 DEF IdsCounted, AttemptMoves
  <2>6. session'.recorded = session.recorded \/
          (session'.recorded = session.recorded \cup {Id} /\ Id \notin session.recorded)
    BY DEF AttemptMoves
  <2>7. QED  BY <2>4, <2>5, <2>6
<1>6. JournalFits'
  <2>1. Turns' = Turns /\ Pend' = Pend /\ Id' = Id /\ Accepted(Id)' = Accepted(Id)
    BY DEF AttemptMoves, Accepted
  <2>2. JournalFits  BY DEF IInv
  <2>3. \A n \in DOMAIN Turns : Turns[n].source # Id  BY <1>1 DEF Accepted
  <2>4. \A n \in DOMAIN Turns : \A k \in DOMAIN Turns[n].done : Turns[n].done[k].attempt # Id
    BY <1>1 DEF Accepted
  <2>5. ASSUME NEW n \in DOMAIN Turns, Turns[n].origin = "model"
        PROVE  /\ \A m \in DOMAIN Turns : Turns[m].source = Turns[n].source => m = n
               /\ Turns[n].source \in Ids
               /\ attempts'[Turns[n].source] = attempts[Turns[n].source]
               /\ attempts[Turns[n].source].status = "completed"
               /\ attempts[Turns[n].source].reply = Turns[n].calls
    BY <2>2, <2>3, <2>5 DEF JournalFits, AttemptMoves
  <2>6. ASSUME NEW n \in DOMAIN Turns, NEW k \in DOMAIN Turns[n].done,
               Turns[n].done[k].status # "cancelled"
        PROVE  LET o == Turns[n].done[k]
               IN  /\ o.attempt \in Ids
                   /\ attempts'[o.attempt] = attempts[o.attempt]
                   /\ attempts[o.attempt].status \in Closed
                   /\ attempts[o.attempt].seen = o
                   /\ \A m \in DOMAIN Turns : \A j \in DOMAIN Turns[m].done :
                        Turns[m].done[j].attempt = o.attempt => m = n /\ j = k
    BY <2>2, <2>4, <2>6 DEF JournalFits, AttemptMoves
  <2>7. QED  BY <1>1, <2>1, <2>2, <2>5, <2>6 DEF JournalFits, Accepted
<1>7. Delivery'
  BY DEF Delivery, AttemptMoves
<1>8. QED  BY <1>2, <1>3, <1>4, <1>5, <1>6, <1>7

\* What has had an effect before the step is still being handled after it.
StillHandled ==
  PendingIs("tool") /\ attempts[Id].status \in Closed \cup {"running"}
       /\ pc \notin {"created", "marked", "handling"} =>
    attempts'[Id].status \in Closed \cup {"running"} /\ pc' \notin {"created", "marked", "handling"}

\* The attempt tells of an effect that there was.
TellsTruly ==
  PendingIs("tool") =>
    /\ attempts'[Id].receipt # "none" \/ pc' = "launched" => RanNow
    /\ attempts'[Id].seen # None =>
         /\ attempts'[Id].seen.status = "ok" /\ NextCall \in {"write", "exec"} => RanNow
         /\ attempts'[Id].seen.status = "blocked" => Proposal \notin RanProposals

LEMMA MovesEffects ==
  ASSUME IInv, AttemptMoves, ran' = ran, StillHandled, TellsTruly
  PROVE  EffectsFit' /\ ShownFits'
<1> USE SameJournal
<1>1. /\ Turns' = Turns /\ Pend' = Pend /\ Id' = Id /\ HasQueue' = HasQueue /\ Proposal' = Proposal
      /\ NextCall' = NextCall /\ PendingIs("tool")' = PendingIs("tool") /\ shown' = shown
      /\ unasked' = unasked
  BY DEF AttemptMoves
<1>2. ProposalRunsOnce' = ProposalRunsOnce /\ RanProposals' = RanProposals /\ RanNow' = RanNow
      /\ StartedAsShown' = StartedAsShown
  BY <1>1 DEF ProposalRunsOnce, RanProposals, RanNow, StartedAsShown
<1>3. ShownFits'
  <2>1. AskedFits'
    BY <1>1 DEF IInv, ShownFits, AttemptMoves, AskedFits, Starting, Admitted
  <2>2. QED  BY <1>1, <1>2, <2>1 DEF IInv, ShownFits, AttemptMoves
<1>4. EffectsFit  BY DEF IInv
<1>5. ASSUME NEW k \in DOMAIN ran
      PROVE  LET p == ran[k].proposal
             IN /\ p[1] \in DOMAIN Turns /\ p[2] \in DOMAIN Turns[p[1]].calls /\ p = <<p[1], p[2]>>
                /\ \/ p[2] \in DOMAIN Turns[p[1]].done
                   \/ /\ HasQueue /\ p = Proposal /\ PendingIs("tool")
                      /\ ran[k].attempt = Id
                      /\ attempts'[Id].status \in Closed \cup {"running"}
                      /\ pc' \notin {"created", "marked", "handling"}
  BY <1>4 DEF EffectsFit, StillHandled
<1>6. EffectsFit'
  BY <1>1, <1>2, <1>4, <1>5 DEF EffectsFit, TellsTruly
<1>7. QED  BY <1>3, <1>6

\* A call whose handling has not begun has had no effect.
LEMMA NotRanYet ==
  ASSUME IInv, HasQueue, NoneAwaited \/ pc \in {"created", "marked", "handling"}
  PROVE  /\ Proposal \notin RanProposals
         /\ Len(Turns) \in DOMAIN Turns /\ NextAt \in DOMAIN Turns[Len(Turns)].calls
         /\ NextAt \notin DOMAIN Turns[Len(Turns)].done /\ Proposal = <<Len(Turns), NextAt>>
         /\ NextCall = Turns[Len(Turns)].calls[NextAt]
         /\ Proposal \in Nat \X Nat
<1>1. Typed /\ TurnsFit /\ EffectsFit  BY DEF IInv
<1>2. /\ Turns # <<>> /\ Proposal = <<Len(Turns), NextAt>> /\ NextAt = Len(Current.done) + 1
      /\ Len(Turns) \in DOMAIN Turns /\ Current = Turns[Len(Turns)] /\ Current \in Turn
      /\ NextAt \in DOMAIN Current.calls /\ NextCall = Current.calls[NextAt]
      /\ Len(Turns) \in Nat
  BY <1>1, NextCallIs, CurrentIs, StateIs
<1>3. DOMAIN Current.done = 1 .. Len(Current.done) /\ Len(Current.done) \in Nat
      /\ DOMAIN Current.calls = 1 .. Len(Current.calls)
  BY <1>2, TurnIs
<1>4. NextAt \notin DOMAIN Current.done /\ NextAt \in Nat  BY <1>2, <1>3
<1>5. ASSUME NEW k \in DOMAIN ran PROVE ran[k].proposal # Proposal
  <2>1. \/ ran[k].proposal[2] \in DOMAIN Turns[ran[k].proposal[1]].done
        \/ /\ PendingIs("tool") /\ attempts[Id].status \in Closed \cup {"running"}
           /\ pc \notin {"created", "marked", "handling"}
    BY <1>1 DEF EffectsFit
  <2>2. ran[k].proposal[2] \in DOMAIN Turns[ran[k].proposal[1]].done
    BY <2>1 DEF NoneAwaited
  <2>3. Proposal[1] = Len(Turns) /\ Proposal[2] = NextAt  BY <1>2
  <2>4. QED  BY <1>2, <1>4, <2>2, <2>3
<1>6. QED  BY <1>2, <1>4, <1>5 DEF RanProposals

LEMMA MoveTo ==
  ASSUME IInv, AttemptMoves, ran' = ran, StillHandled, TellsTruly, PendingFits', Place'
  PROVE  IInv'
BY MovesKeep, MovesEffects DEF IInv

LEMMA PendingContext ==
  ASSUME IInv, Pend # None
  PROVE  /\ Typed /\ Id \in Ids /\ attempts \in [Ids -> Attempt] /\ attempts[Id] \in Attempt
         /\ session \in Session /\ session.status \notin Settled /\ arg \in Args
         /\ crashes \in 0 .. MaxCrashes /\ crashes <= crashes /\ version \in Versions
         /\ sent \in [Ids -> Nat] /\ ran \in Seq(Effects)
         /\ attempts[Id].status \in Closed <=> Id \in session.recorded
<1>1. Typed /\ session.status \notin Settled  BY PendingIsOpen DEF IInv
<1>2. Id \in Ids /\ crashes \in Nat  BY <1>1, StateIs, CountIs
<1>3. QED  BY <1>1, <1>2 DEF Typed, TypeOK, IInv, OthersFit

\* A write of one attempt while the session stays as it is.
LEMMA WriteAttempt ==
  ASSUME IInv, Pend # None, NEW a \in Attempt, attempts' = [attempts EXCEPT ![Id] = a],
         a.status \in Closed <=> attempts[Id].status \in Closed,
         UNCHANGED <<journal, session, delivery, crashes, arg, ran, shown, unasked>>,
         version' \in Versions, sent' \in [Ids -> Nat], pc # "retry",
         pc' \in (Steps \cup {"down"}) \ {"retry", "delivering", "completing", "asking"},
         pc' = "dispatch" => a.status # "none",
         pc' \in {"created", "marked", "handling"} =>
           pc \in {"created", "marked"} \/ (pc = "dispatch" /\ attempts[Id].status = "none")
  PROVE  AttemptMoves /\ attempts'[Id] = a
<1>1. attempts' \in [Ids -> Attempt] /\ attempts'[Id] = a
      /\ \A j \in Ids : j # Id => attempts'[j] = attempts[j]
  BY PendingContext
<1>2. arg' \in Args'  BY PendingContext DEF Args
<1>3. QED  BY <1>1, <1>2, PendingContext DEF AttemptMoves

LEMMA BeginAttemptStep == ASSUME IInv, BeginAttempt PROVE IInv'
<1>1. pc = "dispatch" /\ pc' = "created" /\ Pend # None /\ attempts[Id].status = "none"
  BY DEF IInv, Place, BeginAttempt, Go, Unused
<1> DEFINE a == [attempts[Id] EXCEPT !.status = "created", !.kind = Pend.kind]
<1>2. attempts[Id] \in Attempt /\ Pend.kind \in {"model", "tool"} /\ Id \in Ids
      /\ attempts \in [Ids -> Attempt]
  BY <1>1, PendingContext, StateIs DEF Pending
<1>3. /\ a \in Attempt /\ a.status = "created" /\ a.reply = attempts[Id].reply
      /\ a.seen = attempts[Id].seen /\ a.result = attempts[Id].result
      /\ a.receipt = attempts[Id].receipt
  BY <1>2 DEF Attempt
<1>4. attempts' = [attempts EXCEPT ![Id] = a]
  BY <1>2 DEF BeginAttempt
<1> HIDE DEF a
<1>5. Blank(a)  BY <1>1, <1>3 DEF IInv, PendingFits, Blank
<1>6. AttemptMoves /\ attempts'[Id] = a
  BY <1>1, <1>3, <1>4, PendingContext, WriteAttempt DEF BeginAttempt, Keep, Steps, history, Closed
<1>7. PendingFits' /\ Place'
  BY <1>1, <1>3, <1>5, <1>6, SameJournal DEF AttemptMoves, PendingFits, Place, Blank
<1>8. StillHandled /\ TellsTruly
  BY <1>1, <1>5, <1>6 DEF StillHandled, TellsTruly, Closed, Blank
<1>9. QED  BY <1>6, <1>7, <1>8, MoveTo DEF BeginAttempt, history

LEMMA StopInBeginStep == ASSUME IInv, StopInBegin PROVE IInv'
<1>1. pc = "dispatch" /\ pc' = "down" /\ Pend # None /\ attempts[Id].status = "none"
  BY DEF IInv, Place, StopInBegin, Go, Unused
<1> DEFINE a == [attempts[Id] EXCEPT !.status = "bare"]
<1>2. attempts[Id] \in Attempt /\ Id \in Ids /\ attempts \in [Ids -> Attempt]
  BY <1>1, PendingContext
<1>3. /\ a \in Attempt /\ a.status = "bare" /\ a.reply = attempts[Id].reply
      /\ a.seen = attempts[Id].seen /\ a.result = attempts[Id].result
      /\ a.receipt = attempts[Id].receipt
  BY <1>2 DEF Attempt
<1>4. attempts' = [attempts EXCEPT ![Id] = a]
  BY <1>2 DEF StopInBegin
<1> HIDE DEF a
<1>5. Blank(a)  BY <1>1, <1>3 DEF IInv, PendingFits, Blank
<1>6. attempts' \in [Ids -> Attempt] /\ attempts'[Id] = a
      /\ \A j \in Ids : j # Id => attempts'[j] = attempts[j]
  BY <1>2, <1>3, <1>4
<1>7. crashes' \in 0 .. MaxCrashes /\ crashes <= crashes'
  BY CountIs DEF IInv, StopInBegin
<1>8. AttemptMoves
  BY <1>1, <1>3, <1>6, <1>7, PendingContext, NoArgIs
     DEF StopInBegin, AttemptMoves, history, Closed
<1>9. PendingFits' /\ Place'
  BY <1>1, <1>3, <1>5, <1>6, <1>8, SameJournal DEF AttemptMoves, PendingFits, Place, Blank
<1>10. StillHandled /\ TellsTruly
  BY <1>1, <1>5, <1>6 DEF StillHandled, TellsTruly, Closed, Blank
<1>11. QED  BY <1>8, <1>9, <1>10, MoveTo DEF StopInBegin, history

LEMMA MarkRunningStep == ASSUME IInv, MarkRunning PROVE IInv'
<1>1. pc = "created" /\ pc' = "marked" /\ Pend # None /\ attempts[Id].status = "created"
  BY DEF IInv, Place, MarkRunning, Go
<1> DEFINE a == [attempts[Id] EXCEPT !.status = "running"]
<1>2. attempts[Id] \in Attempt /\ Id \in Ids /\ attempts \in [Ids -> Attempt]
  BY <1>1, PendingContext
<1>3. /\ a \in Attempt /\ a.status = "running" /\ a.reply = attempts[Id].reply
      /\ a.seen = attempts[Id].seen /\ a.result = attempts[Id].result
      /\ a.receipt = attempts[Id].receipt
  BY <1>2 DEF Attempt
<1>4. attempts' = [attempts EXCEPT ![Id] = a]
  BY <1>2 DEF MarkRunning, Set
<1> HIDE DEF a
<1>5. Blank(a)  BY <1>1, <1>3 DEF IInv, PendingFits, Blank
<1>6. AttemptMoves /\ attempts'[Id] = a
  BY <1>1, <1>3, <1>4, PendingContext, WriteAttempt DEF MarkRunning, Keep, Steps, history, Closed
<1>7. PendingFits' /\ Place'
  BY <1>1, <1>3, <1>5, <1>6, SameJournal DEF AttemptMoves, PendingFits, Place, Blank
<1>8. StillHandled /\ TellsTruly
  BY <1>1, <1>5, <1>6 DEF StillHandled, TellsTruly, Closed, Blank
<1>9. QED  BY <1>6, <1>7, <1>8, MoveTo DEF MarkRunning, history

LEMMA StartHandlerStep == ASSUME IInv, StartHandler PROVE IInv'
<1>1. pc = "marked" /\ pc' = "handling" /\ Pend # None /\ attempts[Id].status = "running"
      /\ Blank(attempts[Id])
  BY DEF IInv, Place, StartHandler, Go
<1>2. /\ session' = [session EXCEPT !.status = "running", !.current = Id]
      /\ UNCHANGED <<journal, delivery, crashes, arg, attempts, version, history>>
  BY DEF StartHandler, Keep
<1>3. /\ session' \in Session /\ session'.next = session.next
      /\ session'.recorded = session.recorded /\ session'.current = Id
      /\ session'.status = "running"
  BY <1>1, <1>2, PendingContext DEF Session
<1>4. arg' \in Args'  BY <1>1, <1>2, PendingContext DEF Args, history
<1>5. AttemptMoves
  BY <1>1, <1>2, <1>3, <1>4, PendingContext DEF AttemptMoves, history, Steps, Settled
<1>6. PendingFits' /\ Place'
  BY <1>1, <1>2, <1>3, SameJournal DEF IInv, PendingFits, Place, Blank, Answered
<1>7. StillHandled /\ TellsTruly
  BY <1>1, <1>2 DEF StillHandled, TellsTruly, Blank
<1>8. QED  BY <1>2, <1>5, <1>6, <1>7, MoveTo DEF history

LEMMA SendRequestStep == ASSUME IInv, SendRequest PROVE IInv'
<1>1. pc = "handling" /\ pc' = "sent" /\ Pend # None /\ attempts[Id].status = "running"
      /\ Blank(attempts[Id]) /\ PendingIs("model") /\ session.current = Id
  BY DEF IInv, Place, SendRequest, Go
<1> DEFINE c == ~(Capacity > 1 /\ Space > 2)
           a == [attempts[Id] EXCEPT !.closing = c]
<1>2. attempts[Id] \in Attempt /\ Id \in Ids /\ attempts \in [Ids -> Attempt] /\ c \in BOOLEAN
  BY <1>1, PendingContext
<1>3. attempts' = [attempts EXCEPT ![Id] = a]
  BY <1>2 DEF SendRequest, Set
<1> HIDE DEF c
<1>4. /\ a \in Attempt /\ a.status = "running" /\ Blank(a)
  BY <1>1, <1>2 DEF Attempt, Blank
<1> HIDE DEF a
<1>5. sent' \in [Ids -> Nat] /\ version' \in Versions
      /\ UNCHANGED <<journal, session, delivery, crashes, arg, ran, shown, unasked>>
  <2>1. sent \in [Ids -> Nat] /\ sent' = [sent EXCEPT ![Id] = @ + 1]
    BY <1>1, PendingContext DEF SendRequest
  <2>2. sent[Id] + 1 \in Nat  BY <1>2, <2>1
  <2>3. QED  BY <1>1, <2>1, <2>2, PendingContext DEF SendRequest, Keep
<1>6. AttemptMoves /\ attempts'[Id] = a
  BY <1>1, <1>3, <1>4, <1>5, WriteAttempt DEF Steps, Closed
<1>7. PendingFits' /\ Place'
  BY <1>1, <1>4, <1>5, <1>6, SameJournal DEF AttemptMoves, PendingFits, Place, Blank
<1>8. StillHandled /\ TellsTruly
  BY <1>1, <1>4, <1>6 DEF StillHandled, TellsTruly, Blank
<1>9. QED  BY <1>5, <1>6, <1>7, <1>8, MoveTo

LEMMA SaveReplyStep == ASSUME IInv, NEW reply \in Replies, SaveReply(reply) PROVE IInv'
<1>1. pc = "sent" /\ pc' = "native" /\ Pend # None /\ attempts[Id].status = "running"
      /\ Blank(attempts[Id]) /\ PendingIs("model") /\ ~PendingIs("tool") /\ session.current = Id
  BY DEF IInv, Place, SaveReply, Go, PendingIs
<1> DEFINE a == [attempts[Id] EXCEPT !.reply = reply]
<1>2. attempts[Id] \in Attempt /\ Id \in Ids /\ attempts \in [Ids -> Attempt]
      /\ reply \in Seq(Calls) /\ reply # None
  BY <1>1, PendingContext, ApplicationAssumption DEF ApplicationAssumption
<1>3. attempts' = [attempts EXCEPT ![Id] = a]
  BY <1>2 DEF SaveReply, Set
<1>4. /\ a \in Attempt /\ a.status = "running" /\ a.reply # None /\ a.result = "none"
      /\ a.receipt = "none" /\ a.seen = None
  BY <1>1, <1>2 DEF Attempt, Blank
<1> HIDE DEF a
<1>5. AttemptMoves /\ attempts'[Id] = a /\ session' = session
  BY <1>1, <1>3, <1>4, PendingContext, WriteAttempt DEF SaveReply, Keep, Steps, history, Closed
<1>6. PendingFits' /\ Place'
  BY <1>1, <1>4, <1>5, SameJournal DEF AttemptMoves, PendingFits, Place, Answered
<1>7. StillHandled /\ TellsTruly
  BY <1>1 DEF StillHandled, TellsTruly
<1>8. QED  BY <1>5, <1>6, <1>7, MoveTo DEF SaveReply, history

\* An observation is saved with the attempt.
LEMMA SeenIs ==
  ASSUME IInv, Pend # None, NEW status \in {"ok", "error", "blocked"},
         NEW bound \in Versions \cup {None}, Observes(status, bound)
  PROVE  LET o == [attempt |-> Id, status |-> status, bound |-> bound]
             a == [attempts[Id] EXCEPT !.seen = o]
         IN  /\ o # None /\ attempts' = [attempts EXCEPT ![Id] = a]
             /\ a \in Attempt /\ a.status = attempts[Id].status /\ a.reply = attempts[Id].reply
             /\ a.result = attempts[Id].result /\ a.receipt = attempts[Id].receipt /\ a.seen = o
<1> DEFINE o == [attempt |-> Id, status |-> status, bound |-> bound]
           a == [attempts[Id] EXCEPT !.seen = o]
<1>1. Id \in Ids /\ attempts[Id] \in Attempt /\ attempts \in [Ids -> Attempt]  BY PendingContext
<1>2. o \in Outcome  BY <1>1 DEF Outcome
<1>3. o # None  BY <1>2, ApplicationAssumption DEF ApplicationAssumption
<1>4. attempts' = [attempts EXCEPT ![Id] = a]  BY <1>1 DEF Observes, Set
<1> HIDE DEF o
<1>5. /\ a \in Attempt /\ a.status = attempts[Id].status /\ a.reply = attempts[Id].reply
      /\ a.result = attempts[Id].result /\ a.receipt = attempts[Id].receipt /\ a.seen = o
  BY <1>1, <1>2 DEF Attempt
<1>6. QED  BY <1>3, <1>4, <1>5 DEF o

LEMMA ObserveStep == ASSUME IInv, Observe PROVE IInv'
<1>1. pc = "handling" /\ pc' = "native" /\ Pend # None /\ attempts[Id].status = "running"
      /\ Blank(attempts[Id]) /\ PendingIs("tool") /\ session.current = Id
  BY DEF IInv, Place, Observe, Go
<1>2. version \in Versions  BY <1>1, PendingContext
<1>3. PICK status \in {"ok", "error", "blocked"}, bound \in Versions \cup {None} :
        /\ Observes(status, bound)
        /\ status = "ok" => NextCall \notin {"write", "exec"}
  BY <1>2 DEF Observe, Terminals, Deliveries
<1> DEFINE o == [attempt |-> Id, status |-> status, bound |-> bound]
           a == [attempts[Id] EXCEPT !.seen = o]
<1>4. o.attempt = Id /\ o.status = status  OBVIOUS
<1>5. /\ o # None /\ attempts' = [attempts EXCEPT ![Id] = a]
      /\ a \in Attempt /\ a.status = attempts[Id].status /\ a.reply = attempts[Id].reply
      /\ a.result = attempts[Id].result /\ a.receipt = attempts[Id].receipt /\ a.seen = o
  BY <1>1, <1>3, SeenIs
<1> HIDE DEF o, a
<1>6. /\ a.status = "running" /\ a.result = "none" /\ a.receipt = "none"
  BY <1>1, <1>5 DEF Blank
<1>7. AttemptMoves /\ attempts'[Id] = a /\ session' = session
  BY <1>1, <1>5, <1>6, PendingContext, WriteAttempt DEF Observe, Keep, Steps, history, Closed
<1>8. PendingFits' /\ Place'
  BY <1>1, <1>3, <1>4, <1>5, <1>6, <1>7, SameJournal
     DEF AttemptMoves, PendingFits, Place, Answered, PendingIs
<1>9. HasQueue  BY <1>1 DEF IInv, TurnsFit
<1>10. StillHandled /\ TellsTruly
  BY <1>1, <1>3, <1>4, <1>5, <1>6, <1>7, <1>9, NotRanYet DEF StillHandled, TellsTruly
<1>11. QED  BY <1>7, <1>8, <1>10, MoveTo DEF Observe, history

LEMMA ObserveEffectStep == ASSUME IInv, ObserveEffect PROVE IInv'
<1>1. pc = "launched" /\ pc' = "native" /\ Pend # None /\ attempts[Id].status = "running"
      /\ PendingIs("tool") /\ session.current = Id /\ attempts[Id].result = "none"
  BY DEF IInv, Place, ObserveEffect, Go
<1>2. RanNow  BY <1>1 DEF IInv, EffectsFit
<1>3. PICK status \in {"ok", "error"} : Observes(status, None)
  BY DEF ObserveEffect
<1> DEFINE o == [attempt |-> Id, status |-> status, bound |-> None]
           a == [attempts[Id] EXCEPT !.seen = o]
<1>4. o.attempt = Id /\ o.status = status  OBVIOUS
<1>5. /\ o # None /\ attempts' = [attempts EXCEPT ![Id] = a]
      /\ a \in Attempt /\ a.status = attempts[Id].status /\ a.reply = attempts[Id].reply
      /\ a.result = attempts[Id].result /\ a.receipt = attempts[Id].receipt /\ a.seen = o
  BY <1>1, <1>3, SeenIs
<1> HIDE DEF o, a
<1>6. AttemptMoves /\ attempts'[Id] = a /\ session' = session
  BY <1>1, <1>5, PendingContext, WriteAttempt DEF ObserveEffect, Keep, Steps, history
<1>7. PendingFits' /\ Place'
  BY <1>1, <1>3, <1>4, <1>5, <1>6, SameJournal
     DEF AttemptMoves, PendingFits, Place, Answered, PendingIs
<1>8. StillHandled /\ TellsTruly
  BY <1>1, <1>2, <1>3, <1>4, <1>5, <1>6 DEF StillHandled, TellsTruly
<1>9. QED  BY <1>6, <1>7, <1>8, MoveTo DEF ObserveEffect, history

LEMMA ProcessEndsStep == ASSUME IInv, NEW v \in Versions, ProcessEnds(v) PROVE IInv'
<1>1. pc = "launched" /\ pc' = pc /\ Pend # None /\ attempts[Id].status = "running"
      /\ PendingIs("tool") /\ session.current = Id /\ attempts[Id].result = "none"
      /\ attempts[Id].seen = None /\ NextCall \in {"write", "exec"}
  BY DEF IInv, Place, ProcessEnds
<1>2. RanNow  BY <1>1 DEF IInv, EffectsFit
<1> DEFINE a == [attempts[Id] EXCEPT !.receipt = "closed"]
<1>3. attempts[Id] \in Attempt /\ Id \in Ids /\ attempts \in [Ids -> Attempt]
  BY <1>1, PendingContext
<1>4. attempts' = [attempts EXCEPT ![Id] = a]  BY <1>3 DEF ProcessEnds, Set
<1>5. /\ a \in Attempt /\ a.status = "running" /\ a.seen = None /\ a.result = "none"
      /\ a.reply = attempts[Id].reply
  BY <1>1, <1>3 DEF Attempt
<1> HIDE DEF a
<1>6. AttemptMoves /\ attempts'[Id] = a /\ session' = session
  BY <1>1, <1>4, <1>5, PendingContext, WriteAttempt DEF ProcessEnds, Keep, Steps, history
<1>7. PendingFits' /\ Place'
  BY <1>1, <1>5, <1>6, SameJournal DEF AttemptMoves, PendingFits, Place, PendingIs
<1>8. StillHandled /\ TellsTruly
  BY <1>1, <1>2, <1>5, <1>6 DEF StillHandled, TellsTruly
<1>9. QED  BY <1>6, <1>7, <1>8, MoveTo DEF ProcessEnds, history

LEMMA HandlerRaisesStep == ASSUME IInv, HandlerRaises PROVE IInv'
<1>1. /\ pc \in {"handling", "sent", "launched"} /\ pc' = "failed"
      /\ Pend # None /\ attempts[Id].status = "running" /\ session.current = Id
      /\ attempts[Id].result = "none" /\ attempts[Id].seen = None
      /\ PendingIs("model") => attempts[Id].reply = None
      /\ pc # "launched" => attempts[Id].receipt = "none"
  BY DEF IInv, Place, HandlerRaises, Blank, PendingIs
<1>2. PendingIs("tool") /\ pc = "launched" => RanNow  BY DEF IInv, EffectsFit
<1> DEFINE a == [attempts[Id] EXCEPT !.result = "failed"]
<1>3. attempts[Id] \in Attempt /\ Id \in Ids /\ attempts \in [Ids -> Attempt]
  BY <1>1, PendingContext
<1>4. attempts' = [attempts EXCEPT ![Id] = a]  BY <1>3 DEF HandlerRaises, Set
<1>5. /\ a \in Attempt /\ a.status = "running" /\ a.seen = None /\ a.result = "failed"
      /\ a.reply = attempts[Id].reply /\ a.receipt = attempts[Id].receipt
  BY <1>1, <1>3 DEF Attempt
<1> HIDE DEF a
<1>6. AttemptMoves /\ attempts'[Id] = a /\ session' = session
  BY <1>1, <1>4, <1>5, PendingContext, WriteAttempt DEF HandlerRaises, Keep, Steps, history
<1>7. PendingFits' /\ Place'
  BY <1>1, <1>5, <1>6, SameJournal DEF AttemptMoves, PendingFits, Place
<1>8. StillHandled /\ TellsTruly
  BY <1>1, <1>2, <1>5, <1>6 DEF StillHandled, TellsTruly
<1>9. QED  BY <1>6, <1>7, <1>8, MoveTo DEF HandlerRaises, history

LEMMA SaveResultStep == ASSUME IInv, SaveResult PROVE IInv'
<1>1. pc = "native" /\ pc' = "resulted" /\ Pend # None /\ attempts[Id].status = "running"
      /\ session.current = Id /\ attempts[Id].result = "none" /\ Answered(attempts[Id])
  BY DEF IInv, Place, SaveResult, Go
<1> DEFINE a == [attempts[Id] EXCEPT !.result = "completed"]
<1>2. attempts[Id] \in Attempt /\ Id \in Ids /\ attempts \in [Ids -> Attempt]
  BY <1>1, PendingContext
<1>3. attempts' = [attempts EXCEPT ![Id] = a]  BY <1>2 DEF SaveResult, Set
<1>4. /\ a \in Attempt /\ a.status = "running" /\ a.seen = attempts[Id].seen
      /\ a.result = "completed" /\ a.reply = attempts[Id].reply /\ a.receipt = attempts[Id].receipt
  BY <1>1, <1>2 DEF Attempt
<1> HIDE DEF a
<1>5. AttemptMoves /\ attempts'[Id] = a /\ session' = session
  BY <1>1, <1>3, <1>4, PendingContext, WriteAttempt DEF SaveResult, Keep, Steps, history
<1>6. PendingFits' /\ Place'
  BY <1>1, <1>4, <1>5, SameJournal, PendIs DEF AttemptMoves, PendingFits, Place, Answered
<1>7. StillHandled /\ TellsTruly
  BY <1>1, <1>4, <1>5 DEF StillHandled, TellsTruly, IInv, EffectsFit
<1>8. QED  BY <1>5, <1>6, <1>7, MoveTo DEF SaveResult, history

LEMMA RestoreObservationStep == ASSUME IInv, RestoreObservation PROVE IInv'
<1>1. /\ pc = "dispatch" /\ pc' = pc /\ Pend # None
      /\ attempts[Id].status \notin {"none", "bare"} /\ PendingIs("tool")
      /\ attempts[Id].seen = None
  BY DEF IInv, Place, RestoreObservation, Listed, Confirmed, Reconcilable, HasNative
<1>2. PICK status \in {"ok", "error"} :
        /\ Observes(status, None)
        /\ attempts[Id].result \in {"failed", "interrupted"} \/ attempts[Id].receipt = "closed"
        /\ status = "ok" => attempts[Id].receipt = "closed"
  BY DEF RestoreObservation, Confirmed, Reconcilable
<1>3. attempts[Id].status # "created"
  BY <1>1, <1>2 DEF IInv, PendingFits, Blank
<1>4. attempts[Id].receipt # "none" => RanNow
  BY <1>1 DEF IInv, EffectsFit
<1> DEFINE o == [attempt |-> Id, status |-> status, bound |-> None]
           a == [attempts[Id] EXCEPT !.seen = o]
<1>5. o.attempt = Id /\ o.status = status  OBVIOUS
<1>6. /\ o # None /\ attempts' = [attempts EXCEPT ![Id] = a]
      /\ a \in Attempt /\ a.status = attempts[Id].status /\ a.reply = attempts[Id].reply
      /\ a.result = attempts[Id].result /\ a.receipt = attempts[Id].receipt /\ a.seen = o
  BY <1>1, <1>2, SeenIs
<1> HIDE DEF o, a
<1>7. AttemptMoves /\ attempts'[Id] = a /\ session' = session
  BY <1>1, <1>6, PendingContext, WriteAttempt DEF RestoreObservation, Keep, Steps, history
<1>8. PendingFits' /\ Place'
  BY <1>1, <1>2, <1>3, <1>5, <1>6, <1>7, SameJournal
     DEF AttemptMoves, IInv, PendingFits, Place, Answered, PendingIs
<1>9. StillHandled /\ TellsTruly
  BY <1>1, <1>2, <1>4, <1>5, <1>6, <1>7 DEF StillHandled, TellsTruly
<1>10. QED  BY <1>7, <1>8, <1>9, MoveTo DEF RestoreObservation, history

\* The call takes effect.
LEMMA EffectIs ==
  ASSUME IInv, AttemptMoves, pc = "handling", PendingIs("tool"), pc' = "launched",
         ran' = Append(ran, Effect), attempts'[Id].seen = None, attempts'[Id].status = "running",
         NextCall = "exec" => \/ [proposal |-> Proposal, version |-> version] \in shown
                              \/ Pend.approval = None /\ Proposal \in unasked
  PROVE  EffectsFit' /\ ShownFits'
<1> DEFINE e == Effect
           z == Len(ran)
<1>1. /\ Turns' = Turns /\ Pend' = Pend /\ Id' = Id /\ HasQueue' = HasQueue /\ Proposal' = Proposal
      /\ NextCall' = NextCall /\ PendingIs("tool")' = PendingIs("tool") /\ shown' = shown
  BY SameJournal DEF AttemptMoves
<1>2. HasQueue /\ EffectsFit /\ StartedAsShown  BY DEF IInv, TurnsFit, ShownFits
<1>3. /\ Proposal \notin RanProposals
      /\ Len(Turns) \in DOMAIN Turns /\ NextAt \in DOMAIN Turns[Len(Turns)].calls
      /\ NextAt \notin DOMAIN Turns[Len(Turns)].done /\ Proposal = <<Len(Turns), NextAt>>
      /\ NextCall = Turns[Len(Turns)].calls[NextAt]
  BY <1>2, NotRanYet
<1>4. e.proposal = Proposal /\ e.attempt = Id /\ e.version = version /\ e.approval = Pend.approval
  BY DEF Effect
<1> HIDE DEF e
<1>5. /\ z \in Nat /\ DOMAIN ran = 1 .. z /\ DOMAIN ran' = 1 .. z + 1 /\ ran'[z + 1] = e
      /\ \A k \in 1 .. z : ran'[k] = ran[k]
  <2>1. ran \in Seq(Effects)  BY DEF IInv, Typed
  <2>2. QED  BY <2>1 DEF e
<1> HIDE DEF z
<1>6. \A k \in DOMAIN ran' : (k \in DOMAIN ran /\ ran'[k] = ran[k] /\ ran[k].proposal # Proposal)
                              \/ (k = z + 1 /\ ran'[k] = e)
  BY <1>3, <1>5 DEF RanProposals
<1>7. \A k \in DOMAIN ran : k \in DOMAIN ran' /\ ran'[k] = ran[k]  BY <1>5
<1>8. z + 1 \in DOMAIN ran' /\ ran'[z + 1] = e  BY <1>5
<1>9. RanNow'
  BY <1>1, <1>4, <1>8 DEF RanNow
<1>10. ProposalRunsOnce'
  <2>1. ProposalRunsOnce  BY <1>2 DEF EffectsFit
  <2>2. ASSUME NEW j \in DOMAIN ran', NEW k \in DOMAIN ran', ran'[j].proposal = ran'[k].proposal
        PROVE  j = k
    <3>1. CASE j \in DOMAIN ran /\ k \in DOMAIN ran
      BY <1>7, <2>1, <2>2, <3>1 DEF ProposalRunsOnce
    <3>2. CASE ~(j \in DOMAIN ran /\ k \in DOMAIN ran)
      BY <1>4, <1>6, <2>2, <3>2
    <3>3. QED  BY <3>1, <3>2
  <2>3. QED  BY <2>2 DEF ProposalRunsOnce
<1>11. \A p \in RanProposals' : p \in RanProposals \/ p = Proposal
  <2>1. ASSUME NEW k \in DOMAIN ran'
        PROVE  ran'[k].proposal \in RanProposals \/ ran'[k].proposal = Proposal
    BY <1>4, <1>6 DEF RanProposals
  <2>2. QED  BY <2>1 DEF RanProposals
<1>12. ASSUME NEW k \in DOMAIN ran'
       PROVE  LET p == ran'[k].proposal
              IN  /\ p[1] \in DOMAIN Turns /\ p[2] \in DOMAIN Turns[p[1]].calls /\ p = <<p[1], p[2]>>
                  /\ \/ p[2] \in DOMAIN Turns[p[1]].done
                     \/ p = Proposal /\ ran'[k].attempt = Id
                  /\ Turns[p[1]].calls[p[2]] = "exec" =>
                       \/ [proposal |-> p, version |-> ran'[k].version] \in shown
                       \/ ran'[k].approval = None /\ p \in unasked
  <2>1. CASE k \in DOMAIN ran /\ ran'[k] = ran[k] /\ ran[k].proposal # Proposal
    BY <1>2, <2>1 DEF EffectsFit, StartedAsShown
  <2>2. CASE ran'[k] = e
    <3>1. ran'[k].proposal = <<Len(Turns), NextAt>> /\ ran'[k].attempt = Id
          /\ ran'[k].version = version /\ ran'[k].approval = Pend.approval
      BY <1>3, <1>4, <2>2
    <3>2. QED  BY <1>3, <3>1
  <2>3. QED  BY <1>6, <2>1, <2>2
<1>13. ASSUME NEW n \in DOMAIN Turns, NEW k \in DOMAIN Turns[n].done
       PROVE  LET o == Turns[n].done[k]
              IN  /\ o.status = "ok" /\ Turns[n].calls[k] \in {"write", "exec"} =>
                       \E j \in DOMAIN ran' : ran'[j].proposal = <<n, k>> /\ ran'[j].attempt = o.attempt
                  /\ o.status \in {"blocked", "cancelled"} => <<n, k>> \notin RanProposals'
  <2> DEFINE o == Turns[n].done[k]
  <2>1. /\ o.status = "ok" /\ Turns[n].calls[k] \in {"write", "exec"} =>
             \E j \in DOMAIN ran : ran[j].proposal = <<n, k>> /\ ran[j].attempt = o.attempt
        /\ o.status \in {"blocked", "cancelled"} => <<n, k>> \notin RanProposals
    BY <1>2 DEF EffectsFit
  <2>2. <<n, k>> # Proposal  BY <1>3
  <2> HIDE DEF o
  <2>3. /\ o.status = "ok" /\ Turns[n].calls[k] \in {"write", "exec"} =>
             \E j \in DOMAIN ran' : ran'[j].proposal = <<n, k>> /\ ran'[j].attempt = o.attempt
        /\ o.status \in {"blocked", "cancelled"} => <<n, k>> \notin RanProposals'
    BY <1>7, <1>11, <2>1, <2>2
  <2>4. QED  BY <2>3 DEF o
<1>14. EffectsFit'
  <2>1. HasQueue' /\ PendingIs("tool")' /\ pc' \notin {"created", "marked", "handling"}
        /\ (attempts[Id].status = "running")' /\ (attempts[Id].seen = None)'
    BY <1>1, <1>2
  <2>2. \A k \in DOMAIN ran' :
          LET p == ran'[k].proposal
          IN  /\ p[1] \in DOMAIN Turns' /\ p[2] \in DOMAIN Turns'[p[1]].calls /\ p = <<p[1], p[2]>>
              /\ p[2] \in DOMAIN Turns'[p[1]].done \/ (p = Proposal' /\ ran'[k].attempt = Id')
    BY <1>1, <1>12
  <2>3. \A n \in DOMAIN Turns' : \A k \in DOMAIN Turns'[n].done :
          LET o == Turns'[n].done[k]
          IN  /\ o.status = "ok" /\ Turns'[n].calls[k] \in {"write", "exec"} =>
                   \E j \in DOMAIN ran' : ran'[j].proposal = <<n, k>> /\ ran'[j].attempt = o.attempt
              /\ o.status \in {"blocked", "cancelled"} => <<n, k>> \notin RanProposals'
    <3>1. \A n \in DOMAIN Turns : \A k \in DOMAIN Turns[n].done :
            LET o == Turns[n].done[k]
            IN  /\ o.status = "ok" /\ Turns[n].calls[k] \in {"write", "exec"} =>
                     \E j \in DOMAIN ran' : ran'[j].proposal = <<n, k>> /\ ran'[j].attempt = o.attempt
                /\ o.status \in {"blocked", "cancelled"} => <<n, k>> \notin RanProposals'
      BY <1>13
    <3>2. ASSUME NEW n \in DOMAIN Turns', NEW k \in DOMAIN Turns'[n].done
          PROVE  LET o == Turns'[n].done[k]
                 IN  /\ o.status = "ok" /\ Turns'[n].calls[k] \in {"write", "exec"} =>
                          \E j \in DOMAIN ran' : ran'[j].proposal = <<n, k>>
                                                 /\ ran'[j].attempt = o.attempt
                     /\ o.status \in {"blocked", "cancelled"} => <<n, k>> \notin RanProposals'
      <4> DEFINE o == Turns[n].done[k]
                 call == Turns[n].calls[k]
      <4>1. n \in DOMAIN Turns /\ k \in DOMAIN Turns[n].done  BY <1>1
      <4>2. /\ o.status = "ok" /\ call \in {"write", "exec"} =>
                 \E j \in DOMAIN ran' : ran'[j].proposal = <<n, k>> /\ ran'[j].attempt = o.attempt
            /\ o.status \in {"blocked", "cancelled"} => <<n, k>> \notin RanProposals'
        BY <3>1, <4>1
      <4>3. Turns'[n].done[k] = o /\ Turns'[n].calls[k] = call  BY <1>1
      <4> HIDE DEF o, call
      <4>4. QED  BY <4>2, <4>3
    <3>3. QED  BY <3>2
  <2>4. QED  BY <1>9, <1>10, <2>1, <2>2, <2>3 DEF EffectsFit
<1>15. ShownFits'
  BY <1>1, <1>12 DEF IInv, ShownFits, StartedAsShown, AskedFits, Starting, AttemptMoves
<1>16. QED  BY <1>14, <1>15

LEMMA EffectTyped ==
  ASSUME IInv, PendingIs("tool"), pc = "handling"
  PROVE  Append(ran, Effect) \in Seq(Effects)
<1>1. Pend # None /\ HasQueue  BY DEF PendingIs, IInv, TurnsFit
<1>2. Proposal \in Nat \X Nat  BY <1>1, NotRanYet
<1>3. Id \in Ids /\ version \in Versions /\ Pend.approval \in Versions \cup {None}
      /\ ran \in Seq(Effects)
  BY <1>1, PendingContext, StateIs DEF Pending
<1>4. Effect \in Effects  BY <1>2, <1>3 DEF Effect, Effects
<1>5. QED  BY <1>3, <1>4

LEMMA WriteWorkspaceStep == ASSUME IInv, NEW v \in Versions, WriteWorkspace(v) PROVE IInv'
<1>1. /\ pc = "handling" /\ pc' = "launched" /\ PendingIs("tool") /\ NextCall = "write"
      /\ Pend # None /\ attempts[Id].status = "running" /\ Blank(attempts[Id])
      /\ session.current = Id
  BY DEF IInv, Place, WriteWorkspace, Handles, PendingIs
<1>2. /\ UNCHANGED <<journal, delivery, crashes, arg, session, attempts, sent, shown, unasked>>
      /\ version' \in Versions /\ ran' = Append(ran, Effect)
  BY DEF WriteWorkspace, Keep
<1>3. AttemptMoves
  BY <1>1, <1>2, PendingContext, EffectTyped DEF AttemptMoves, Steps, Args
<1>4. EffectsFit' /\ ShownFits'  BY <1>1, <1>2, <1>3, EffectIs DEF Blank
<1>5. PendingFits' /\ Place'
  BY <1>1, <1>2, SameJournal DEF IInv, PendingFits, Place, Blank, Answered
<1>6. QED  BY <1>3, <1>4, <1>5, MovesKeep DEF IInv

LEMMA LaunchProcessStep == ASSUME IInv, LaunchProcess PROVE IInv'
<1>1. /\ pc = "handling" /\ pc' = "launched" /\ PendingIs("tool") /\ NextCall = "exec"
      /\ Pend # None /\ attempts[Id].status = "running" /\ Blank(attempts[Id])
      /\ session.current = Id
  BY DEF IInv, Place, LaunchProcess, Handles, PendingIs
<1>2. /\ UNCHANGED <<journal, delivery, crashes, arg, session, version, sent, shown, unasked>>
      /\ ran' = Append(ran, Effect)
  BY DEF LaunchProcess, Keep
<1>3. \/ [proposal |-> Proposal, version |-> version] \in shown
      \/ Pend.approval = None /\ Proposal \in unasked
  <2>1. Pend.approval \in {None, version}
    BY DEF LaunchProcess, MayLaunch
  <2>2. CASE Pend.approval = None
    BY <1>1, <2>2 DEF IInv, ShownFits, AskedFits, Starting, Admitted
  <2>3. CASE Pend.approval # None
    BY <1>1, <2>1, <2>3 DEF IInv, ShownFits
  <2>4. QED  BY <2>2, <2>3
<1> DEFINE a == [attempts[Id] EXCEPT !.receipt = "open"]
<1>4. attempts[Id] \in Attempt /\ Id \in Ids /\ attempts \in [Ids -> Attempt]
      /\ version \in Versions /\ sent \in [Ids -> Nat]
  BY <1>1, PendingContext
<1>5. attempts' = [attempts EXCEPT ![Id] = a]  BY <1>4 DEF LaunchProcess, Set
<1>6. /\ a \in Attempt /\ a.status = "running" /\ a.seen = None /\ a.result = "none"
      /\ a.reply = None
  BY <1>1, <1>4 DEF Attempt, Blank
<1> HIDE DEF a
<1>7. attempts' \in [Ids -> Attempt] /\ attempts'[Id] = a
      /\ \A j \in Ids : j # Id => attempts'[j] = attempts[j]
  BY <1>4, <1>5, <1>6
<1>8. AttemptMoves
  BY <1>1, <1>2, <1>6, <1>7, PendingContext, EffectTyped DEF AttemptMoves, Steps, Args
<1>9. EffectsFit' /\ ShownFits'  BY <1>1, <1>2, <1>3, <1>6, <1>7, <1>8, EffectIs
<1>10. PendingFits' /\ Place'
  BY <1>1, <1>2, <1>6, <1>7, SameJournal DEF PendingFits, Place
<1>11. QED  BY <1>8, <1>9, <1>10, MovesKeep DEF IInv

\* The session counts an attempt, whatever it makes of its own status.
Counts(i) ==
  /\ session' \in Session /\ session'.next = session.next
  /\ session'.recorded = session.recorded \cup {i}
  /\ session'.current \in {session.current, i}
  /\ session'.status \notin Settled

LEMMA AccountedIs ==
  ASSUME Typed, session.status \notin Settled, NEW i \in Ids, NEW b \in BOOLEAN,
         session' = Accounted(i, b)
  PROVE  Counts(i)
<1> DEFINE counted == [session EXCEPT !.recorded = @ \cup {i}]
<1>1. session \in Session  BY StateIs
<1>2. session.recorded \cup {i} \in SUBSET Ids  BY <1>1 DEF Session
<1>3. /\ counted \in Session /\ counted.next = session.next
      /\ counted.recorded = session.recorded \cup {i} /\ counted.current = session.current
      /\ counted.status = session.status
  BY <1>1, <1>2 DEF Session
<1>4. \/ session' = counted
      \/ session' = [counted EXCEPT !.status = "blocked", !.stopped = FALSE]
      \/ session' = [counted EXCEPT !.status = "running", !.stopped = FALSE]
      \/ session' = [counted EXCEPT !.status = "running", !.stopped = FALSE, !.current = i]
  BY DEF Accounted
<1> HIDE DEF counted
<1>5. QED  BY <1>3, <1>4 DEF Counts, Session, Settled

\* The attempt is closed and counted.
LEMMA CloseAttempt ==
  ASSUME IInv, Pend # None, NEW a \in Attempt, attempts' = [attempts EXCEPT ![Id] = a],
         a.status \in Closed, Counts(Id),
         UNCHANGED <<journal, delivery, version, crashes, history>>, arg' \in Args', pc # "retry",
         pc' \in (Steps \cup {"down"}) \ {"retry", "delivering", "completing", "asking"},
         pc' = "dispatch" => a.status # "none",
         pc' \in {"created", "marked", "handling"} =>
           pc \in {"created", "marked"} \/ (pc = "dispatch" /\ attempts[Id].status = "none")
  PROVE  AttemptMoves /\ attempts'[Id] = a
<1>1. attempts' \in [Ids -> Attempt] /\ attempts'[Id] = a
      /\ \A j \in Ids : j # Id => attempts'[j] = attempts[j]
  BY PendingContext
<1>2. QED  BY <1>1, PendingContext DEF AttemptMoves, Counts, history

LEMMA CommitAttemptStep == ASSUME IInv, CommitAttempt PROVE IInv'
<1>1. pc = "resulted" /\ pc' = "observed" /\ Pend # None /\ attempts[Id].status = "running"
      /\ session.current = Id /\ attempts[Id].result = "completed" /\ Answered(attempts[Id])
  BY DEF IInv, Place, CommitAttempt, Go
<1> DEFINE a == [attempts[Id] EXCEPT !.status = "completed"]
<1>2. attempts[Id] \in Attempt /\ Id \in Ids /\ attempts \in [Ids -> Attempt] /\ Typed
      /\ session.status \notin Settled /\ FALSE \in BOOLEAN
  BY <1>1, PendingContext
<1>3. attempts' = [attempts EXCEPT ![Id] = a]  BY <1>1, <1>2 DEF CommitAttempt, Indexed
<1>4. /\ a \in Attempt /\ a.status = "completed" /\ a.seen = attempts[Id].seen
      /\ a.result = "completed" /\ a.reply = attempts[Id].reply /\ a.receipt = attempts[Id].receipt
  BY <1>1, <1>2 DEF Attempt
<1> HIDE DEF a
<1>5. Counts(Id)  BY <1>2, AccountedIs DEF CommitAttempt
<1>6. arg' \in Args'  BY <1>1, PendingContext DEF CommitAttempt, Keep, Args, history
<1>7. AttemptMoves /\ attempts'[Id] = a
  BY <1>1, <1>3, <1>4, <1>5, <1>6, CloseAttempt DEF CommitAttempt, Keep, Steps, history, Closed
<1>8. PendingFits' /\ Place'
  BY <1>1, <1>4, <1>7, SameJournal, PendIs
     DEF AttemptMoves, PendingFits, Place, Answered, PendingIs, Closed
<1>9. StillHandled /\ TellsTruly
  BY <1>1, <1>4, <1>7 DEF StillHandled, TellsTruly, IInv, EffectsFit, Closed
<1>10. QED  BY <1>7, <1>8, <1>9, MoveTo DEF CommitAttempt, history

LEMMA FailAttemptStep == ASSUME IInv, FailAttempt PROVE IInv'
<1>1. pc = "failed" /\ pc' = "down" /\ arg' = NoArg /\ Pend # None /\ attempts[Id].status = "running"
      /\ session.current = Id /\ attempts[Id].result = "failed"
  BY DEF IInv, Place, FailAttempt, Return
<1> DEFINE a == [attempts[Id] EXCEPT !.status = "failed"]
           s == [session EXCEPT !.recorded = @ \cup {Id}]
<1>2. attempts[Id] \in Attempt /\ Id \in Ids /\ attempts \in [Ids -> Attempt] /\ Typed
      /\ session \in Session
  BY <1>1, PendingContext
<1>3. attempts' = [attempts EXCEPT ![Id] = a]  BY <1>1, <1>2 DEF FailAttempt, Indexed
<1>4. /\ a \in Attempt /\ a.status = "failed" /\ a.seen = attempts[Id].seen
      /\ a.result = "failed" /\ a.reply = attempts[Id].reply /\ a.receipt = attempts[Id].receipt
  BY <1>1, <1>2 DEF Attempt
<1> HIDE DEF a
<1>5. Counts(Id) /\ session'.current = session.current
  <2>1. Accounted(Id, FALSE) = s  BY <1>1 DEF Accounted
  <2>2. session' = [s EXCEPT !.status = "paused", !.stopped = FALSE]
    BY <2>1 DEF FailAttempt
  <2>3. session.recorded \cup {Id} \in SUBSET Ids  BY <1>2 DEF Session
  <2>4. /\ s \in Session /\ s.next = session.next
        /\ s.recorded = session.recorded \cup {Id} /\ s.current = session.current
    BY <1>2, <2>3 DEF Session
  <2> HIDE DEF s
  <2>5. QED  BY <2>2, <2>4 DEF Counts, Session, Settled
<1>6. AttemptMoves /\ attempts'[Id] = a
  BY <1>1, <1>3, <1>4, <1>5, NoArgIs, CloseAttempt DEF FailAttempt, history, Closed
<1>7. PendingFits' /\ Place'
  BY <1>1, <1>4, <1>5, <1>6, SameJournal
     DEF AttemptMoves, IInv, PendingFits, Place, Answered
<1>8. StillHandled /\ TellsTruly
  BY <1>1, <1>4, <1>6 DEF StillHandled, TellsTruly, IInv, EffectsFit, Closed
<1>9. QED  BY <1>6, <1>7, <1>8, MoveTo DEF FailAttempt, history

LEMMA AdoptStep == ASSUME IInv, Adopt PROVE IInv'
<1>1. /\ pc = "dispatch" /\ pc' = "observed" /\ Pend # None /\ HasNative
      /\ attempts[Id].status \notin {"none", "bare"}
  BY DEF IInv, Place, Adopt, Go, Listed
<1>2. attempts[Id] \in Attempt /\ Id \in Ids /\ attempts \in [Ids -> Attempt] /\ Typed
      /\ session.status \notin Settled /\ TRUE \in BOOLEAN
  BY <1>1, PendingContext
<1> DEFINE r == IF attempts[Id].result = "none" THEN "completed" ELSE attempts[Id].result
           q == IF r = "completed" THEN "completed" ELSE "failed"
           a == [attempts[Id] EXCEPT !.result = r, !.status = q]
<1>3. /\ r \in {"completed", "failed", "interrupted"}
      /\ attempts[Id].result # "none" => r = attempts[Id].result
      /\ attempts[Id].result = "none" => r = "completed"
      /\ q \in {"completed", "failed"} /\ (r = "completed" <=> q = "completed")
  BY <1>2 DEF Attempt
<1>4. attempts' = [attempts EXCEPT ![Id] = a]
  BY <1>2 DEF Adopt, Adopted
<1> HIDE DEF r, q
<1>5. /\ a \in Attempt /\ a.status = q /\ a.seen = attempts[Id].seen
      /\ a.result = r /\ a.reply = attempts[Id].reply /\ a.receipt = attempts[Id].receipt
  BY <1>2, <1>3 DEF Attempt
<1> HIDE DEF a
<1>6. /\ Answered(a) /\ ~Blank(attempts[Id])
      /\ PendingIs("model") /\ a.result = "failed" => a.reply = None /\ session.current = Id
  <2>1. PendingIs("tool") \/ PendingIs("model")  BY <1>1, <1>2, KindIs
  <2>2. CASE PendingIs("tool")
    BY <1>1, <1>5, <2>2 DEF HasNative, Answered, Blank, PendingIs
  <2>3. CASE ~PendingIs("tool") /\ PendingIs("model")
    BY <1>1, <1>3, <1>5, <2>3 DEF HasNative, Answered, Blank, IInv, PendingFits
  <2>4. QED  BY <2>1, <2>2, <2>3
<1>7. PendingIs("model") => a.status = "completed"
  <2>1. ASSUME PendingIs("model") PROVE r = "completed"
    <3>1. ~PendingIs("tool") /\ attempts[Id].reply # None /\ attempts[Id].result # "interrupted"
      BY <1>1, <2>1 DEF HasNative, PendingIs
    <3>2. attempts[Id].result # "failed"  BY <1>1, <2>1, <3>1 DEF IInv, PendingFits
    <3>3. QED  BY <1>3, <3>1, <3>2
  <2>2. QED  BY <1>3, <1>5, <2>1
<1>8. Counts(Id)  BY <1>2, AccountedIs DEF Adopt
<1>9. arg' \in Args'  BY <1>1, PendingContext DEF Adopt, Keep, Args, history
<1>10. a.status \in Closed  BY <1>3, <1>5 DEF Closed
<1>11. AttemptMoves /\ attempts'[Id] = a
  BY <1>1, <1>4, <1>5, <1>8, <1>9, <1>10, CloseAttempt DEF Adopt, Keep, Steps, history
<1>12. PendingFits'
  <2>1. a.seen # None => a.seen.attempt = Id /\ a.seen.status # "cancelled"
    BY <1>1, <1>5, PendIs
  <2>2. session'.current \in {session.current, Id}  BY <1>8 DEF Counts
  <2>3. QED
    BY <1>1, <1>3, <1>5, <1>6, <1>11, <2>1, <2>2, SameJournal
       DEF AttemptMoves, PendingFits, Answered
<1>13. Place'
  BY <1>1, <1>6, <1>7, <1>10, <1>11, SameJournal DEF AttemptMoves, Place, Answered
<1>14. StillHandled /\ TellsTruly
  BY <1>1, <1>5, <1>10, <1>11 DEF StillHandled, TellsTruly, IInv, EffectsFit
<1>15. QED  BY <1>11, <1>12, <1>13, <1>14, MoveTo DEF Adopt, history

\* A running attempt is the pending operation's.
LEMMA RunningIsPending ==
  ASSUME IInv, NEW i \in Ids, attempts[i].status = "running"
  PROVE  Pend # None /\ Id = i
BY DEF IInv, OthersFit

\* A running attempt is closed between runs.
LEMMA CloseBetweenRuns ==
  ASSUME IInv, pc = "down", pc' = pc, Pend # None, attempts[Id].status = "running",
         NEW a \in Attempt, attempts' = [attempts EXCEPT ![Id] = a],
         a.seen = attempts[Id].seen, a.reply = attempts[Id].reply, a.receipt = attempts[Id].receipt,
         \/ a.status = "completed" /\ a.result = "completed" /\ attempts[Id].result = "completed"
         \/ a.status = "failed" /\ a.result = "failed" /\ attempts[Id].result = "failed"
         \/ a.status = "failed" /\ a.result = "interrupted",
         Counts(Id), UNCHANGED <<journal, delivery, version, arg, crashes, history>>
  PROVE  IInv'
<1>1. arg' \in Args' /\ a.status \in Closed  BY PendingContext DEF Args, history, Closed
<1>2. AttemptMoves /\ attempts'[Id] = a  BY <1>1, CloseAttempt
<1>3. session'.current \in {session.current, Id}  BY DEF Counts
<1>4. PendingFits' /\ Place'
  BY <1>2, <1>3, SameJournal, PendIs DEF AttemptMoves, IInv, PendingFits, Place, Answered
<1>5. StillHandled /\ TellsTruly
  BY <1>1, <1>2 DEF StillHandled, TellsTruly, IInv, EffectsFit
<1>6. QED  BY <1>2, <1>4, <1>5, MoveTo DEF history

LEMMA ConfirmInterruptionStep ==
  ASSUME IInv, NEW i \in Ids, ConfirmInterruption(i)
  PROVE  IInv'
<1>1. Pend # None /\ Id = i /\ attempts[Id].status = "running"
  BY RunningIsPending DEF ConfirmInterruption
<1> DEFINE a == [attempts[Id] EXCEPT !.result = "interrupted", !.status = "failed"]
<1>2. attempts[Id] \in Attempt /\ Id \in Ids /\ attempts \in [Ids -> Attempt] /\ Typed
      /\ session \in Session
  BY <1>1, PendingContext
<1>3. attempts' = [attempts EXCEPT ![Id] = a]
  BY <1>1, <1>2 DEF ConfirmInterruption
<1>4. /\ a \in Attempt /\ a.seen = attempts[Id].seen /\ a.reply = attempts[Id].reply
      /\ a.receipt = attempts[Id].receipt /\ a.status = "failed" /\ a.result = "interrupted"
  BY <1>2 DEF Attempt
<1> HIDE DEF a
<1>5. Counts(Id)
  <2>1. session.recorded \cup {Id} \in SUBSET Ids  BY <1>2 DEF Session
  <2>2. PICK s \in {"blocked", "running"} :
          session' = [session EXCEPT !.recorded = @ \cup {Id}, !.stopped = FALSE, !.status = s]
    BY <1>1 DEF ConfirmInterruption
  <2>3. QED  BY <1>2, <2>1, <2>2 DEF Counts, Session, Settled
<1>6. pc = "down" /\ pc' = pc /\ UNCHANGED <<journal, delivery, version, arg, crashes, history>>
  BY DEF ConfirmInterruption
<1>7. QED  BY <1>1, <1>3, <1>4, <1>5, <1>6, CloseBetweenRuns

LEMMA ReconcileSavedStep ==
  ASSUME IInv, NEW i \in Ids, ReconcileSaved(i)
  PROVE  IInv'
<1>1. Pend # None /\ Id = i /\ attempts[Id].status = "running" /\ attempts[Id].result # "none"
  BY RunningIsPending DEF ReconcileSaved
<1> DEFINE q == IF attempts[Id].result = "completed" THEN "completed" ELSE "failed"
           a == [attempts[Id] EXCEPT !.status = q]
<1>2. attempts[Id] \in Attempt /\ Id \in Ids /\ attempts \in [Ids -> Attempt] /\ Typed
      /\ session.status \notin Settled /\ TRUE \in BOOLEAN
      /\ attempts[Id].result \in {"completed", "failed"}
  BY <1>1, PendingContext DEF IInv, PendingFits
<1>3. attempts' = [attempts EXCEPT ![Id] = a]
  BY <1>1, <1>2 DEF ReconcileSaved, Indexed
<1>4. /\ q \in {"completed", "failed"} /\ (q = "completed" <=> attempts[Id].result = "completed")
  OBVIOUS
<1> HIDE DEF q
<1>5. /\ a \in Attempt /\ a.seen = attempts[Id].seen /\ a.reply = attempts[Id].reply
      /\ a.receipt = attempts[Id].receipt /\ a.status = q /\ a.result = attempts[Id].result
  BY <1>2, <1>4 DEF Attempt
<1> HIDE DEF a
<1>6. Counts(Id)  BY <1>1, <1>2, AccountedIs DEF ReconcileSaved
<1>7. pc = "down" /\ pc' = pc /\ UNCHANGED <<journal, delivery, version, arg, crashes, history>>
  BY DEF ReconcileSaved
<1>8. QED  BY <1>1, <1>2, <1>3, <1>4, <1>5, <1>6, <1>7, CloseBetweenRuns

LEMMA InterruptStep == ASSUME IInv, Interrupt PROVE IInv'
<1>1. /\ pc \in InRun /\ Fails /\ UNCHANGED <<journal, delivery, version, history>>
      /\ crashes' = crashes + 1 /\ crashes < MaxCrashes
  BY DEF Interrupt
<1>2. crashes' \in 0 .. MaxCrashes /\ crashes <= crashes' /\ Typed
  BY <1>1, CountIs DEF IInv
<1>3. /\ session' \in Session /\ session'.next = session.next
      /\ session'.recorded = session.recorded /\ session'.current = session.current
      /\ session'.status \notin Settled
      /\ pc' = "down" /\ arg' = NoArg
  BY <1>1, <1>2, FailsIs
<1>4. CASE attempts' = attempts
  <2>1. pc # "retry"  BY <1>1 DEF InRun
  <2>2. Returns  BY <1>1, <1>2, <1>3, <1>4, <2>1 DEF Returns, history
  <2>3. QED  BY <2>2, ReturnsKeep
<1>5. CASE pc = "launched" /\ Set("receipt", "closed")
  <2>1. Pend # None /\ attempts[Id].status = "running" /\ PendingIs("tool")
        /\ attempts[Id].seen = None /\ attempts[Id].result = "none"
    BY <1>5 DEF IInv, Place
  <2>2. RanNow  BY <1>5, <2>1 DEF IInv, EffectsFit
  <2> DEFINE a == [attempts[Id] EXCEPT !.receipt = "closed"]
  <2>3. attempts[Id] \in Attempt /\ Id \in Ids /\ attempts \in [Ids -> Attempt]
    BY <2>1, PendingContext
  <2>4. attempts' = [attempts EXCEPT ![Id] = a]  BY <1>5, <2>3 DEF Set
  <2>5. /\ a \in Attempt /\ a.status = "running" /\ a.seen = None /\ a.result = "none"
        /\ a.reply = attempts[Id].reply
    BY <2>1, <2>3 DEF Attempt
  <2> HIDE DEF a
  <2>6. attempts' \in [Ids -> Attempt] /\ attempts'[Id] = a
        /\ \A j \in Ids : j # Id => attempts'[j] = attempts[j]
    BY <2>3, <2>4, <2>5
  <2>7. AttemptMoves
    BY <1>1, <1>2, <1>3, <1>5, <2>1, <2>5, <2>6, PendingContext, NoArgIs
       DEF AttemptMoves, history, Closed
  <2>8. PendingFits' /\ Place'
    BY <1>3, <2>1, <2>5, <2>6, <2>7, SameJournal DEF AttemptMoves, PendingFits, Place, PendingIs
  <2>9. StillHandled /\ TellsTruly
    BY <1>3, <2>1, <2>2, <2>5, <2>6 DEF StillHandled, TellsTruly
  <2>10. QED  BY <1>1, <2>7, <2>8, <2>9, MoveTo DEF history
<1>6. QED  BY <1>4, <1>5 DEF Interrupt

----------------------------------------------------------------------------
(* The invariant holds                                                      *)

LEMMA InitIInv == Init => IInv
<1> SUFFICES ASSUME Init  PROVE IInv
  OBVIOUS
<1>1. /\ journal = [requests |-> 1, turns |-> <<>>, pending |-> None]
      /\ session = [status |-> "created", stopped |-> FALSE, current |-> NoId, next |-> 1,
                    recorded |-> {}]
      /\ attempts = [i \in Ids |-> NoAttempt] /\ delivery = None /\ version \in Versions
      /\ pc = "down" /\ arg = NoArg /\ crashes = 0
      /\ sent = [i \in Ids |-> 0] /\ ran = <<>> /\ shown = {} /\ unasked = {}
  BY DEF Init
<1> HIDE DEF Init
<1>2. /\ Turns = <<>> /\ Pend = None /\ journal.requests = 1 /\ Len(Turns) = 0 /\ DOMAIN Turns = {}
      /\ ~HasQueue /\ ~PendingIs("tool") /\ ~PendingIs("model")
  BY <1>1 DEF Turns, Pend, HasQueue, PendingIs
<1>3. \A i \in Ids : attempts[i] = NoAttempt /\ attempts[i].status = "none"
  BY <1>1 DEF NoAttempt
<1>4. 1 \in 1 .. MaxRequests /\ 0 \in 0 .. MaxCrashes /\ 1 \in Nat \ {0} /\ MaxRequests \in Nat
  BY ApplicationAssumption DEF ApplicationAssumption
<1>5. NoAttempt \in Attempt  BY DEF NoAttempt, Attempt
<1>6. Typed
  <2>1. <<>> \in Seq(Turn) /\ <<>> \in Seq(Effects)  OBVIOUS
  <2>2. journal \in Journal  BY <1>1, <1>4, <2>1 DEF Journal
  <2>3. session \in Session  BY <1>1, <1>4 DEF Session
  <2>4. attempts \in [Ids -> Attempt]  BY <1>1, <1>5
  <2>5. sent \in [Ids -> Nat] /\ ran \in Seq(Effects) /\ arg \in Args
    BY <1>1, <2>1, NoArgIs
  <2>6. QED  BY <1>1, <1>4, <2>2, <2>3, <2>4, <2>5 DEF Typed, TypeOK
<1>7. TurnsFit  BY <1>2 DEF TurnsFit
<1>8. OthersFit  BY <1>1, <1>2, <1>3 DEF OthersFit, Closed
<1>9. IdsCounted
  <2>1. Cardinality(session.recorded) = 0  BY <1>1, FS_EmptySet
  <2>2. QED  BY <1>1, <1>2, <2>1 DEF IdsCounted, Unsettled
<1>10. PendingFits  BY <1>2 DEF PendingFits
<1>11. JournalFits  BY <1>2 DEF JournalFits
<1>12. Place  BY <1>1 DEF Place
<1>13. Delivery  BY <1>1 DEF Delivery, Settled
<1>14. EffectsFit
  <2>1. DOMAIN ran = {}  BY <1>1
  <2>2. QED  BY <1>2, <2>1 DEF EffectsFit, ProposalRunsOnce
<1>15. ShownFits
  <2>1. DOMAIN ran = {}  BY <1>1
  <2>2. QED  BY <1>1, <1>2, <2>1 DEF ShownFits, StartedAsShown, AskedFits, Starting
<1>16. QED  BY <1>6, <1>7, <1>8, <1>9, <1>10, <1>11, <1>12, <1>13, <1>14, <1>15 DEF IInv

LEMMA UserStep == ASSUME IInv, User PROVE IInv'
BY ResumeStep, GiveFeedbackStep, RetryModelStep, SubmitStep, ConfirmInterruptionStep,
   ReconcileSavedStep, EditStep
   DEF User

LEMMA ProgramStep == ASSUME IInv, Program PROVE IInv'
<1>1. CASE Entry
  BY <1>1, SaveFeedbackStep, SaveSubmissionStep, SaveRetryStep, EnterRunStep DEF Entry
<1>2. CASE Terminal
  BY <1>2, EndingSteps, WriteDeliveryStep, CompletingSteps DEF Terminal
<1>3. CASE Choose
  BY <1>3, TakePendingStep, RefuseQueueStep, EndingSteps, AllocateStep DEF Choose
<1>4. CASE Gate
  BY <1>4, ApprovingSteps, GateStartedStep, GateHasNoTokenStep, GateAsksStep, EndingSteps DEF Gate
<1>5. CASE Execute
  BY <1>5, BeginAttemptStep, EndingSteps, MarkRunningStep, StartHandlerStep, SendRequestStep,
     SaveReplyStep, ObserveStep, LaunchProcessStep, ObserveEffectStep, HandlerRaisesStep,
     FailAttemptStep, WriteWorkspaceStep, ProcessEndsStep, SaveResultStep, CommitAttemptStep
     DEF Execute
<1>6. CASE Recover
  BY <1>6, RestoreObservationStep, AdoptStep, EndingSteps DEF Recover
<1>7. CASE Accept
  BY <1>7, AcceptReplyStep, AcceptObservationStep DEF Accept
<1>8. QED  BY <1>1, <1>2, <1>3, <1>4, <1>5, <1>6, <1>7 DEF Program

LEMMA StutterStep == ASSUME IInv, UNCHANGED vars PROVE IInv'
<1>1. UNCHANGED vars  OBVIOUS
<1>2. UNCHANGED <<journal, session, attempts, delivery, version, pc, arg, crashes, sent, ran, shown, unasked>>
  BY DEF vars
<1> USE <1>2, SameJournal
<1>3. /\ Typed' /\ TurnsFit'
  BY DEF IInv, Typed, TypeOK, Args
<1>4. OthersFit' /\ IdsCounted'
  BY DEF IInv, OthersFit, IdsCounted, Unsettled
<1>5. PendingFits' /\ JournalFits'
  BY DEF IInv, PendingFits, JournalFits, Accepted, Blank, Answered
<1>6. Place' /\ Delivery'
  BY DEF IInv, Place, Delivery, Delivers, CanCancel, PendingStarted, Listed, FailedDecision,
         Blank, Answered
<1>7. EffectsFit' /\ ShownFits'
  BY DEF IInv, EffectsFit, ShownFits, StartedAsShown, ProposalRunsOnce, RanNow, RanProposals,
         AskedFits, Starting, Admitted
<1>8. QED  BY <1>3, <1>4, <1>5, <1>6, <1>7 DEF IInv

LEMMA NextIInv == IInv /\ [Next]_vars => IInv'
<1> SUFFICES ASSUME IInv, [Next]_vars  PROVE IInv'
  OBVIOUS
<1>1. CASE User  BY <1>1, UserStep
<1>2. CASE Program  BY <1>2, ProgramStep
<1>3. CASE StopRequested  BY <1>3, EndingSteps
<1>4. CASE StopInBegin  BY <1>4, StopInBeginStep
<1>5. CASE Interrupt  BY <1>5, InterruptStep
<1>6. CASE Crash  BY <1>6, CrashStep
<1>7. CASE UNCHANGED vars  BY <1>7, StutterStep
<1>8. QED  BY <1>1, <1>2, <1>3, <1>4, <1>5, <1>6, <1>7 DEF Next

\* What the journal, the attempts, the session, the effects and the delivery
\* agree on between any two writes of a run (_run, _attempt, _commit_terminal).
THEOREM InvariantHolds == Spec => []IInv
BY InitIInv, NextIInv, PTL DEF Spec

----------------------------------------------------------------------------
(* What the runs check, for every instance                                  *)

LEMMA OutcomeIs ==
  ASSUME NEW o \in Outcomes
  PROVE  /\ o[1] \in DOMAIN Turns /\ o[2] \in DOMAIN Turns[o[1]].done /\ o = <<o[1], o[2]>>
         /\ OutcomeAt(o) = Turns[o[1]].done[o[2]] /\ CallAt(o) = Turns[o[1]].calls[o[2]]
BY DEF Outcomes, OutcomeAt, CallAt

\* The files and the process hold only what the code writes.
THEOREM TypesHold == Spec => []TypeOK
<1>1. IInv => TypeOK  BY DEF IInv, Typed
<1>2. QED  BY <1>1, InvariantHolds, PTL

\* The journal and the attempts agree whatever is cut off between a reply or an
\* observation, its result, its accounting and the journal (_attempt, _run): every
\* reply and observation is that of one closed and counted attempt of its own.
THEOREM JournalAccounted == Spec => []JournalIsAccounted
<1>1. ASSUME IInv  PROVE ReplyAcceptedOnce
  <2> SUFFICES ASSUME NEW n \in DOMAIN Turns, Turns[n].origin = "model"
               PROVE  /\ \A m \in DOMAIN Turns : Turns[m].source = Turns[n].source => m = n
                      /\ attempts[Turns[n].source].status = "completed"
                      /\ attempts[Turns[n].source].reply = Turns[n].calls
                      /\ Turns[n].source \in session.recorded
    BY DEF ReplyAcceptedOnce
  <2>1. JournalFits /\ OthersFit  BY <1>1 DEF IInv
  <2>2. /\ \A m \in DOMAIN Turns : Turns[m].source = Turns[n].source => m = n
        /\ Turns[n].source \in Ids
        /\ attempts[Turns[n].source].status = "completed"
        /\ attempts[Turns[n].source].reply = Turns[n].calls
    BY <2>1 DEF JournalFits
  <2>3. Turns[n].source \in session.recorded  BY <2>1, <2>2 DEF OthersFit, Closed
  <2>4. QED  BY <2>2, <2>3
<1>2. ASSUME IInv  PROVE ObservationIsAccounted
  <2>1. SUFFICES ASSUME NEW o \in Outcomes, OutcomeAt(o).status # "cancelled"
                 PROVE  LET i == OutcomeAt(o).attempt
                        IN /\ attempts[i].status \in {"completed", "failed"}
                           /\ attempts[i].seen = OutcomeAt(o)
                           /\ i \in session.recorded
                           /\ \A q \in Outcomes : OutcomeAt(q).attempt = i => q = o
    BY DEF ObservationIsAccounted
  <2> DEFINE i == OutcomeAt(o).attempt
  <2>2. JournalFits /\ OthersFit  BY <1>2 DEF IInv
  <2>3. /\ o[1] \in DOMAIN Turns /\ o[2] \in DOMAIN Turns[o[1]].done /\ o = <<o[1], o[2]>>
        /\ OutcomeAt(o) = Turns[o[1]].done[o[2]]
    BY OutcomeIs
  <2>4. /\ i \in Ids /\ attempts[i].status \in Closed /\ attempts[i].seen = OutcomeAt(o)
        /\ \A m \in DOMAIN Turns : \A j \in DOMAIN Turns[m].done :
             Turns[m].done[j].attempt = i => m = o[1] /\ j = o[2]
    BY <2>1, <2>2, <2>3 DEF JournalFits
  <2>5. i \in session.recorded  BY <2>2, <2>4 DEF OthersFit
  <2>6. ASSUME NEW q \in Outcomes, OutcomeAt(q).attempt = i  PROVE q = o
    <3>1. /\ q[1] \in DOMAIN Turns /\ q[2] \in DOMAIN Turns[q[1]].done /\ q = <<q[1], q[2]>>
          /\ OutcomeAt(q) = Turns[q[1]].done[q[2]]
      BY <2>6, OutcomeIs
    <3>2. q[1] = o[1] /\ q[2] = o[2]  BY <2>4, <2>6, <3>1
    <3>3. QED  BY <2>3, <3>1, <3>2
  <2>7. QED  BY <2>4, <2>5, <2>6 DEF Closed
<1>3. IInv => JournalIsAccounted  BY <1>1, <1>2 DEF JournalIsAccounted
<1>4. QED  BY <1>3, InvariantHolds, PTL

\* What a call did to the workspace or to a process it did once, whatever stops,
\* confirmed interruptions, retries and resumed runs follow (_attempt).
THEOREM ProposalsRunOnce == Spec => []ProposalRunsOnce
<1>1. IInv => ProposalRunsOnce  BY DEF IInv, EffectsFit
<1>2. QED  BY <1>1, InvariantHolds, PTL

\* A change the journal reports as done was made by the attempt it names; one it
\* reports as refused or cancelled was never made (_cancel_unstarted, _tool).
THEOREM OutcomesTellEffects == Spec => []OutcomeTellsEffect
<1>1. ASSUME IInv  PROVE OutcomeTellsEffect
  <2> SUFFICES ASSUME NEW o \in Outcomes
               PROVE  /\ OutcomeAt(o).status = "ok" /\ CallAt(o) \in {"write", "exec"} =>
                           \E k \in DOMAIN ran : ran[k].proposal = o
                                                 /\ ran[k].attempt = OutcomeAt(o).attempt
                      /\ OutcomeAt(o).status \in {"blocked", "cancelled"} => o \notin RanProposals
    BY DEF OutcomeTellsEffect
  <2>1. EffectsFit  BY <1>1 DEF IInv
  <2>2. /\ o[1] \in DOMAIN Turns /\ o[2] \in DOMAIN Turns[o[1]].done /\ o = <<o[1], o[2]>>
        /\ OutcomeAt(o) = Turns[o[1]].done[o[2]] /\ CallAt(o) = Turns[o[1]].calls[o[2]]
    BY OutcomeIs
  <2>3. QED  BY <2>1, <2>2 DEF EffectsFit
<1>2. QED  BY <1>1, InvariantHolds, PTL

\* A process starts only on inputs that were shown for exactly that command,
\* though files are edited between question, answer, saved approval and start
\* (_run 4426-4453 and _tool 3190-3195), but for a command that had no token at
\* the gate: it was dispatched without a question, and starts without one.
THEOREM ProcessesStartAsShown == Spec => []StartedAsShown
<1>1. IInv => StartedAsShown  BY DEF IInv, ShownFits
<1>2. QED  BY <1>1, InvariantHolds, PTL

\* A settled session has the delivery of its last turn in the journal, for the
\* latest request, with nothing queued or pending (_commit_terminal).
THEOREM SettledAreDelivered == Spec => []SettledIsDelivered
<1>1. IInv => SettledIsDelivered
  BY DEF IInv, Delivery, Delivers, Committable, Settled, SettledIsDelivered
<1>2. QED  BY <1>1, InvariantHolds, PTL

\* A pending operation that can be neither run, adopted, cancelled, retried nor
\* closed by hand is one of four (_attempt, _failed_model_attempt).
THEOREM StuckAreKnown == Spec => []StuckOnlyThus
<1>1. ASSUME IInv  PROVE StuckOnlyThus
  <2> SUFFICES ASSUME pc = "down", ~CanProceed
               PROVE  \/ attempts[Id].status \in {"bare", "created"}
                      \/ PendingIs("tool") /\ attempts[Id].status = "failed"
                           /\ attempts[Id].result = "failed"
                      \/ PendingIs("model") /\ attempts[Id].result = "interrupted"
                           /\ (attempts[Id].reply # None \/ session.current # Id)
    BY DEF StuckOnlyThus
  <2>1. /\ Pend # None /\ attempts[Id].status \notin {"none", "running"} /\ ~FailedDecision
        /\ Listed(Id) => ~HasNative /\ ~Confirmed
    BY DEF CanProceed
  <2>2. attempts[Id] \in Attempt /\ PendingFits /\ Typed
    BY <1>1, <2>1, PendingContext DEF IInv
  <2>3. attempts[Id].status \in {"bare", "created", "completed", "failed"}
    BY <2>1, <2>2 DEF Attempt
  <2>4. (PendingIs("model") /\ ~PendingIs("tool")) \/ PendingIs("tool")
    BY <2>1, <2>2, KindIs DEF PendingIs
  <2>5. CASE attempts[Id].status = "completed"
    <3>1. attempts[Id].result = "completed" /\ Answered(attempts[Id])
      BY <2>1, <2>2, <2>5 DEF PendingFits
    <3>2. HasNative  BY <3>1 DEF HasNative, Answered
    <3>3. QED  BY <2>1, <2>5, <3>2 DEF Listed
  <2>6. CASE attempts[Id].status = "failed"
    <3>1. /\ attempts[Id].result \in {"failed", "interrupted"}
          /\ PendingIs("model") /\ attempts[Id].result = "failed" =>
               attempts[Id].reply = None /\ session.current = Id
      BY <2>1, <2>2, <2>6 DEF PendingFits
    <3>2. ~Confirmed  BY <2>1, <2>6 DEF Listed
    <3>3. CASE PendingIs("tool")
      BY <2>6, <3>1, <3>2, <3>3 DEF Confirmed
    <3>4. CASE PendingIs("model") /\ ~PendingIs("tool")
      <4>1. ~(attempts[Id].reply = None /\ session.current = Id)
        BY <2>1, <2>6, <3>4 DEF FailedDecision, Id
      <4>2. QED  BY <3>1, <3>4, <4>1
    <3>5. QED  BY <2>4, <3>3, <3>4
  <2>7. QED  BY <2>3, <2>5, <2>6
<1>2. QED  BY <1>1, InvariantHolds, PTL

=============================================================================
