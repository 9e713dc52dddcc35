---------------------- MODULE ImplementationWorkProofs ----------------------
(***************************************************************************)
(* What ImplementationWork guarantees for any number of attempts, repairs, *)
(* decisions, grants, edits and crashes.                                    *)
(***************************************************************************)
EXTENDS ImplementationWork, FiniteSetTheorems, TLAPS

----------------------------------------------------------------------------
(* The invariant.  A success is certified when its outputs are bound, and   *)
(* the bytes of its candidate are compared at that moment.  An edit before  *)
(* the launch is found there because nothing the comparison reads is        *)
(* written again once the command was started: the candidate's request, the *)
(* attempt it repairs, and the set of edited files, which only grows.       *)

Exists(i) == i \in Ids /\ attempts[i].tool # None

\* What is named exists, and what was begun was called.
Named ==
  /\ \A i \in Ids : attempts[i].tool = None => attempts[i].status = None
  /\ \A i \in Ids : attempts[i].of # NoId => Exists(attempts[i].of)
  /\ \A i \in Ids : attempts[i].tool = "execute" => attempts[i].of # NoId
  /\ \A i \in Ids : attempts[i].status = "completed" => attempts[i].seen # None
  /\ pending.attempt # NoId => Exists(pending.attempt)

\* An action that is no stop is a call that can be made.
Callable(action) ==
  action.stop = None => /\ action.tool # None
                        /\ action.of # NoId => Exists(action.of)
                        /\ action.tool = "execute" => action.of # NoId

Journalled ==
  /\ turn.queued => turn.call.stop = None
  /\ Callable(turn.call)
  /\ turn.done # NoId => Exists(turn.done)
  /\ turn.source # NoId => Exists(turn.source)
  /\ turn.call.stop # None => turn.source # NoId

\* A request that is saved bound the material as it was.
Requested ==
  /\ \A i \in Ids : attempts[i].status = None => attempts[i].read = None
  /\ \A i \in Ids : attempts[i].read = "edited" => Material \in edited

Unlaunched(i) == /\ history.launched[i] = 0 /\ i \notin history.altered
                 /\ attempts[i].receipt = None /\ attempts[i].bound = None /\ attempts[i].record = None

AsApproved(i) == history.launched[i] = 1 /\ i \notin history.altered /\ attempts[i].receipt = "outputs"

\* What is known of the candidate of an execution that is past its approval.
Given(i) == attempts[i].of # NoId /\ attempts[attempts[i].of].read # None

Launches ==
  /\ \A i \in Ids : attempts[i].status = None \/ attempts[i].tool # "execute" => Unlaunched(i)
  /\ \A i \in Ids : attempts[i].bound = "bound" => AsApproved(i)
  /\ \A i \in Ids : attempts[i].record = "run_succeeded" => attempts[i].bound = "bound"
  /\ \A i \in history.altered : Given(i) /\ ~ Unchanged(attempts[i].of)

\* Where the process is inside an attempt.
Idle == {"loop", "down", "returned"}
Launching == {"bound", "checked", "admitted"}
Launched == {"running", "exited", "recording"}

Inside ==
  LET i == pending.attempt
  IN  /\ pc \notin Idle => i # NoId /\ attempts[i].status # None
      /\ pc = "handling" => attempts[i].read = None /\ Unlaunched(i)
      /\ pc \in Launching => attempts[i].tool = "execute" /\ Unlaunched(i) /\ Given(i)
      /\ pc \in Launched => /\ attempts[i].tool = "execute" /\ Given(i)
                            /\ history.launched[i] = 1 /\ attempts[i].record = None
      /\ pc \in {"running", "exited"} => attempts[i].bound = None
      /\ pc = "settling" => attempts[i].tool = "execute"
      /\ pc = "observed" => attempts[i].seen # None

IInv == TypeOK /\ Named /\ Journalled /\ Requested /\ Launches /\ Inside

----------------------------------------------------------------------------
(* What the owner proposes can be done.                                     *)

LEMMA NoIdIsNone == NoId \notin Ids /\ Material \notin Ids
BY WorkAssumption DEF NoId, Material, Ids

LEMMA StopsAreCallable ==
  \A reason \in Observations : Stop(reason) \in Action /\ Callable(Stop(reason))
BY DEF Stop, Action, Callable, None, Observations, Reasons

LEMMA RefusalIsAReason == ASSUME NEW d PROVE RepairRefusal(d) \in Reasons \cup {None}
BY DEF RepairRefusal, None, Reasons

LEMMA ContinuationIsCallable ==
  ASSUME TypeOK, Named, NEW i, Exists(i)
  PROVE  Continuation(i) \in Action /\ (Continuation(i) # Nothing => Callable(Continuation(i)))
<1>1. i \in Ids /\ attempts[i] \in Attempt
  BY DEF TypeOK, Exists
<1>2. Nothing \in Action
  BY DEF Nothing, Call, Action
<1>3. Call("execute", i) \in Action /\ Callable(Call("execute", i))
  BY <1>1, NoIdIsNone DEF Call, Callable, None, Action
<1>4. Call("prepare", i) \in Action /\ Callable(Call("prepare", i))
  BY <1>1 DEF Call, Callable, None, Action
<1>5. attempts[i].seen \in Observations \cup {None}
  BY <1>1 DEF Attempt
<1>6. \A reason \in Reasons : Stop(reason) \in Action /\ Callable(Stop(reason))
  BY StopsAreCallable DEF Observations
<1>7. CASE ~ Accepted(i)
  BY <1>2, <1>6, <1>7 DEF Continuation, Reasons
<1>8. CASE Accepted(i) /\ attempts[i].tool = "prepare"
  <2>1. attempts[i].seen # None
    BY <1>1, <1>8 DEF Accepted, Named
  <2>2. AfterPreparation(i) \in Action /\ (AfterPreparation(i) # Nothing => Callable(AfterPreparation(i)))
    BY <1>2, <1>3, <1>5, <1>6, <2>1, StopsAreCallable DEF AfterPreparation, Reasons
  <2> QED
    BY <1>8, <2>2 DEF Continuation
<1>9. CASE Accepted(i) /\ attempts[i].tool # "prepare"
  <2>1. AfterExecution(i) \in Action /\ (AfterExecution(i) # Nothing => Callable(AfterExecution(i)))
    BY <1>2, <1>4, <1>6, RefusalIsAReason DEF AfterExecution, Reasons, None
  <2> QED
    BY <1>9, <2>1 DEF Continuation
<1> QED
  BY <1>7, <1>8, <1>9

LEMMA ResumedIsCallable ==
  ASSUME TypeOK, Named, NEW i, Exists(i)
  PROVE  ResumedAction(i) \in Action /\ Callable(ResumedAction(i))
<1>1. i \in Ids /\ attempts[i] \in Attempt
  BY DEF TypeOK, Exists
<1>2. \A reason \in Reasons : Stop(reason) \in Action /\ Callable(Stop(reason))
  BY StopsAreCallable DEF Observations
<1>3. attempts[i].of \in Ids \cup {NoId}
  BY <1>1 DEF Attempt
<1>4. Call("prepare", attempts[i].of) \in Action /\ Callable(Call("prepare", attempts[i].of))
  BY <1>1, <1>3 DEF Call, Callable, None, Named, Action
<1>5. RestartOf(i) \in Action /\ Callable(RestartOf(i))
  BY <1>2, <1>4 DEF RestartOf, Reasons
<1> QED
  BY <1>2, <1>5, ContinuationIsCallable DEF ResumedAction, Reasons

LEMMA ScheduledIsCallable ==
  ASSUME NEW action \in Action, Callable(action)
  PROVE  Scheduled(action) \in Action /\ Callable(Scheduled(action))
BY StopsAreCallable DEF Scheduled, Observations, Reasons

----------------------------------------------------------------------------
(* What no step undoes.                                                     *)

\* The names and the request of an attempt are written once.
KeepsNames ==
  /\ edited \subseteq edited'
  /\ \A i \in Ids : attempts[i].tool # None => /\ attempts'[i].tool = attempts[i].tool
                                               /\ attempts'[i].of = attempts[i].of
  /\ \A i \in Ids : attempts[i].read # None => attempts'[i].read = attempts[i].read

LEMMA StaysChanged ==
  ASSUME TypeOK, Named, Requested, KeepsNames, NEW p \in Ids, attempts[p].read # None, ~ Unchanged(p)
  PROVE  attempts'[p].read # None /\ ~ Unchanged(p)'
<1>1. attempts[p].tool # None
  BY DEF Requested, Named
<1>2. attempts'[p].of = attempts[p].of /\ attempts'[p].read = attempts[p].read
  BY <1>1 DEF KeepsNames
<1>3. PriorOf(p)' = PriorOf(p)
  <2>1. CASE attempts[p].of = NoId
    BY <2>1, <1>2 DEF PriorOf
  <2>2. CASE attempts[p].of # NoId
    <3>1. attempts[p].of \in Ids /\ attempts[attempts[p].of].tool # None
      BY <2>2 DEF Named, Exists
    <3> QED
      BY <3>1, <2>2, <1>2 DEF KeepsNames, PriorOf
  <2> QED
    BY <2>1, <2>2
<1>4. edited \subseteq edited'
  BY DEF KeepsNames
<1>5. CASE p \in edited
  BY <1>2, <1>4, <1>5 DEF Unchanged
<1>6. CASE PriorOf(p) \cap edited # {}
  BY <1>2, <1>3, <1>4, <1>6 DEF Unchanged, InputsHold
<1>7. CASE attempts[p].read # MaterialVersion
  <2>1. attempts[p].read \in {"original", "edited"}
    BY DEF TypeOK, Attempt
  <2>2. Material \in edited /\ attempts[p].read = "original"
    BY <2>1, <1>7 DEF MaterialVersion, Requested
  <2>3. attempts'[p].read # MaterialVersion'
    BY <2>2, <1>2, <1>4 DEF MaterialVersion
  <2> QED
    BY <2>1, <2>3, <1>2 DEF Unchanged, InputsHold
<1> QED
  BY <1>5, <1>6, <1>7 DEF Unchanged, InputsHold

\* A step that writes none of what Launches speaks of.
Mild ==
  /\ attempts' \in [Ids -> Attempt]
  /\ \A i \in Ids :
       /\ attempts'[i].tool = attempts[i].tool /\ attempts'[i].of = attempts[i].of
       /\ attempts'[i].read = attempts[i].read /\ attempts'[i].receipt = attempts[i].receipt
       /\ attempts'[i].bound = attempts[i].bound /\ attempts'[i].record = attempts[i].record
       /\ attempts[i].status # None => attempts'[i].status # None
       /\ attempts'[i].tool = None => attempts'[i].status = None
       /\ attempts'[i].status = "completed" => attempts'[i].seen # None
  /\ history'.launched = history.launched /\ history'.altered = history.altered
  /\ edited \subseteq edited'

LEMMA AlteredStaysAltered ==
  ASSUME TypeOK, Named, Requested, Launches, KeepsNames, NEW i \in history.altered
  PROVE  Given(i)' /\ ~ Unchanged(attempts[i].of)'
<1>1. i \in Ids /\ attempts[i].of \in Ids
  BY DEF TypeOK, Launches, Given, Named, Exists
<1>2. PICK p \in Ids : p = attempts[i].of
  BY <1>1
<1>3. attempts[p].read # None /\ ~ Unchanged(p)
  BY <1>2 DEF Launches, Given
<1>4. attempts[i].status # None /\ attempts[i].tool # None
  BY <1>1 DEF Launches, Unlaunched, Named
<1>5. attempts'[i].of = p
  BY <1>1, <1>2, <1>4 DEF KeepsNames
<1>6. attempts'[p].read # None /\ ~ Unchanged(p)'
  BY <1>3, StaysChanged
<1> QED
  BY <1>5, <1>6, NoIdIsNone DEF Given, Unchanged, InputsHold, PriorOf

LEMMA MildKeeps ==
  ASSUME IInv, Mild
  PROVE  /\ Requested' /\ Launches'
         /\ \A i : Exists(i) <=> Exists(i)'
<1> USE DEF IInv
<1>1. KeepsNames
  BY DEF Mild, KeepsNames
<1>2. Requested'
  BY DEF Mild, Requested
<1>3. \A i \in Ids : Unlaunched(i)' <=> Unlaunched(i)
  BY DEF Mild, Unlaunched
<1>4. \A i \in Ids : attempts'[i].status = None \/ attempts'[i].tool # "execute" => Unlaunched(i)'
  BY <1>3 DEF Mild, Launches
<1>5. \A i \in Ids : attempts'[i].bound = "bound" => AsApproved(i)'
  BY DEF Mild, Launches, AsApproved
<1>6. \A i \in Ids : attempts'[i].record = "run_succeeded" => attempts'[i].bound = "bound"
  BY DEF Mild, Launches
<1>7. \A i \in history'.altered : Given(i)' /\ ~ Unchanged(attempts[i].of)'
  BY <1>1, AlteredStaysAltered DEF Mild
<1>8. Launches'
  BY <1>4, <1>5, <1>6, <1>7 DEF Launches
<1> QED
  BY <1>2, <1>8 DEF Exists, Mild

----------------------------------------------------------------------------
(* Steps that are mild.                                                     *)

\* What r, written over attempt i, leaves alone.
Leaves(i, r) ==
  /\ r.tool = attempts[i].tool /\ r.of = attempts[i].of /\ r.read = attempts[i].read
  /\ r.receipt = attempts[i].receipt /\ r.bound = attempts[i].bound /\ r.record = attempts[i].record
  /\ r.status # None
  /\ r.status = "completed" => r.seen # None

LEMMA MildTouch ==
  ASSUME IInv, NEW STATE i, Exists(i), NEW STATE r, r \in Attempt, Leaves(i, r),
         attempts' = [attempts EXCEPT ![i] = r], edited' = edited,
         history'.launched = history.launched, history'.altered = history.altered
  PROVE  Mild
<1>1. i \in Ids /\ attempts \in [Ids -> Attempt] /\ attempts[i].tool # None
  BY DEF Exists, IInv, TypeOK
<1>2. attempts' \in [Ids -> Attempt] /\ attempts'[i] = r
  BY <1>1
<1>3. \A j \in Ids \ {i} : attempts'[j] = attempts[j]
  BY <1>1
<1>4. \A j \in Ids : /\ attempts[j].tool = None => attempts[j].status = None
                     /\ attempts[j].status = "completed" => attempts[j].seen # None
  BY DEF IInv, Named
<1> QED
  BY <1>1, <1>2, <1>3, <1>4 DEF Mild, Leaves

LEMMA MildSame ==
  ASSUME IInv, attempts' = attempts, edited \subseteq edited',
         history'.launched = history.launched, history'.altered = history.altered
  PROVE  Mild
BY DEF Mild, IInv, TypeOK, Named

LEMMA MildNamed ==
  ASSUME IInv, Mild, pending'.attempt \in {pending.attempt, NoId}
  PROVE  Named'
<1>1. \A i : Exists(i) <=> Exists(i)'
  BY MildKeeps
<1>2. \A i \in Ids : attempts'[i].of # NoId => Exists(attempts[i].of)'
  <2> SUFFICES ASSUME NEW i \in Ids, attempts'[i].of # NoId PROVE Exists(attempts[i].of)'
    OBVIOUS
  <2>1. PICK p : p = attempts[i].of
    OBVIOUS
  <2>2. attempts'[i].of = p
    BY <2>1 DEF Mild
  <2>3. Exists(p)
    BY <2>1, <2>2 DEF IInv, Named
  <2>4. Exists(p)'
    BY <2>3, <1>1
  <2> QED
    BY <2>2, <2>4 DEF Exists
<1>3. pending'.attempt # NoId => Exists(pending.attempt)'
  <2>1. PICK p : p = pending.attempt
    OBVIOUS
  <2>2. p # NoId => Exists(p)'
    BY <2>1, <1>1 DEF IInv, Named
  <2>3. pending'.attempt \in {p, NoId}
    BY <2>1
  <2> QED
    BY <2>2, <2>3 DEF Exists
<1> QED
  BY <1>2, <1>3 DEF IInv, Named, Mild

LEMMA MildStep ==
  ASSUME IInv, Mild, TypeOK', Inside', turn' = turn, pending'.attempt \in {pending.attempt, NoId}
  PROVE  IInv'
<1>1. Requested' /\ Launches' /\ \A i : Exists(i) <=> Exists(i)'
  BY MildKeeps
<1>2. Journalled'
  BY <1>1 DEF IInv, Journalled, Callable
<1> QED
  BY <1>1, <1>2, MildNamed DEF IInv

\* Inside an attempt, and not on the way to its command.
Aside == {"deciding", "sent", "publishing", "validating", "prepared", "executed", "observed"}

LEMMA AsideStep ==
  ASSUME IInv, NEW STATE r, Exists(pending.attempt), r \in Attempt, Leaves(pending.attempt, r),
         attempts' = [attempts EXCEPT ![pending.attempt] = r],
         UNCHANGED <<contract, turn, pending, edited, wallet, crashes, history>>,
         pc' \in Aside \cup {"down"}, pc' = "observed" => r.seen # None
  PROVE  IInv'
<1>1. Mild
  BY MildTouch
<1>2. attempts'[pending.attempt] = r
  BY DEF Exists, IInv, TypeOK
<1>3. TypeOK'
  BY <1>1 DEF IInv, TypeOK, Mild, Aside, Steps
<1>4. pending.attempt # NoId
  BY NoIdIsNone DEF Exists
<1>5. Inside'
  BY <1>2, <1>4 DEF Inside, Leaves, Aside, Idle, Launching, Launched
<1> QED
  BY <1>1, <1>3, <1>5, MildStep

LEMMA InAttempt ==
  ASSUME IInv, pc \notin Idle
  PROVE  /\ Exists(pending.attempt) /\ pending.attempt \in Ids
         /\ attempts[pending.attempt] \in Attempt /\ attempts[pending.attempt].status # None
         /\ attempts[pending.attempt].status = "completed" => attempts[pending.attempt].seen # None
BY DEF IInv, Inside, Named, Exists, TypeOK

\* An observation over what is there, with the flag of the owner's stop.
LEMMA FailStep ==
  ASSUME IInv, pc \notin Idle, NEW STATE reason, reason \in Observations, NEW STATE entered, entered \in BOOLEAN,
         Fail(pending.attempt, reason, entered), pc' = "observed",
         UNCHANGED <<contract, turn, pending, edited, wallet, crashes, history>>
  PROVE  IInv'
<1> DEFINE i == pending.attempt
           r == [attempts[i] EXCEPT !.seen = reason, !.entered = entered]
<1>1. attempts[i] \in Attempt /\ reason # None
  BY InAttempt DEF Observations, Reasons, None
<1>3. r \in Attempt
  <2>1. CASE entered = TRUE
    BY <1>1, <2>1 DEF Attempt
  <2>2. CASE entered = FALSE
    BY <1>1, <2>2 DEF Attempt
  <2> QED
    BY <2>1, <2>2
<1>4. r.seen # None /\ Leaves(i, r)
  BY <1>1, InAttempt DEF Attempt, Leaves
<1>2. attempts' = [attempts EXCEPT ![i] = r]
  BY DEF Fail
<1> HIDE DEF r
<1> QED
  BY <1>2, <1>3, <1>4, InAttempt, AsideStep DEF Aside

LEMMA SeenStep ==
  ASSUME IInv, pc \notin Idle, NEW STATE seen, seen \in Observations,
         attempts' = [attempts EXCEPT ![pending.attempt].seen = seen], pc' = "observed",
         UNCHANGED <<contract, turn, pending, edited, wallet, crashes, history>>
  PROVE  IInv'
<1> DEFINE i == pending.attempt
           r == [attempts[i] EXCEPT !.seen = seen]
<1>1. r \in Attempt /\ r.seen # None /\ Leaves(i, r)
  BY InAttempt DEF Attempt, Leaves, Observations, Reasons, None
<1>2. attempts' = [attempts EXCEPT ![i] = r]
  OBVIOUS
<1> HIDE DEF r
<1> QED
  BY <1>1, <1>2, InAttempt, AsideStep DEF Aside

LEMMA NoRequestLeftKeeps == ASSUME IInv, NoRequestLeft PROVE IInv'
BY FailStep DEF NoRequestLeft, Idle, Observations, Reasons

LEMMA AnswerKeeps ==
  ASSUME IInv, NEW kind \in {"read", "candidate", "unusable", "lost"}, Answer(kind)
  PROVE  IInv'
<1> DEFINE i == pending.attempt
           counted == [attempts[i] EXCEPT !.account = IF kind = "lost" THEN "unknown" ELSE "settled"]
           failed == [counted EXCEPT !.seen = "owner_failed", !.entered = TRUE]
<1>1. pc \notin Idle
  BY DEF Answer, Idle
<1>2. attempts[i] \in Attempt /\ Exists(i) /\ attempts[i].status # None
  BY <1>1, InAttempt
<1>3. counted \in Attempt /\ Leaves(i, counted)
  BY <1>1, <1>2, InAttempt DEF Attempt, Leaves
<1>4. failed \in Attempt /\ Leaves(i, failed) /\ failed.seen # None
  <2>1. "owner_failed" \in Observations \cup {None} /\ "owner_failed" # None
    BY DEF Observations, Reasons, None
  <2> HIDE DEF counted
  <2>2. failed \in Attempt
    BY <1>3, <2>1 DEF Attempt
  <2>3. Leaves(i, failed)
    BY <1>3, <2>1 DEF Attempt, Leaves
  <2>4. failed.seen = "owner_failed"
    BY <1>3 DEF Attempt
  <2> QED
    BY <2>1, <2>2, <2>3, <2>4
<1>5. CASE kind \in {"lost", "unusable"}
  <2>1. attempts' = [attempts EXCEPT ![i] = failed]
    BY <1>2, <1>5 DEF Answer, Exists, IInv, TypeOK
  <2>2. pc' = "observed" /\ UNCHANGED <<contract, turn, pending, edited, wallet, crashes, history>>
    BY <1>5 DEF Answer
  <2> HIDE DEF failed
  <2> QED
    BY <1>2, <1>4, <2>1, <2>2, AsideStep DEF Aside
<1>6. CASE kind \notin {"lost", "unusable"}
  <2>1. attempts' = [attempts EXCEPT ![i] = counted]
    BY <1>2, <1>6 DEF Answer, Exists, IInv, TypeOK
  <2>2. pc' \in {"deciding", "publishing"} /\ UNCHANGED <<contract, turn, pending, edited, wallet, crashes, history>>
    BY <1>6 DEF Answer
  <2> HIDE DEF counted
  <2> QED
    BY <1>2, <1>3, <2>1, <2>2, AsideStep DEF Aside
<1> QED
  BY <1>5, <1>6

LEMMA PublishCandidateKeeps == ASSUME IInv, PublishCandidate PROVE IInv'
<1> DEFINE i == pending.attempt
           r == [attempts[i] EXCEPT !.candidate = TRUE]
<1>1. pc \notin Idle
  BY DEF PublishCandidate, Idle
<1>2. CASE InputsHold(i)
  <2>1. r \in Attempt /\ Leaves(i, r)
    BY <1>1, InAttempt DEF Attempt, Leaves
  <2>2. attempts' = [attempts EXCEPT ![i] = r] /\ pc' = "validating"
    BY <1>2 DEF PublishCandidate
  <2> HIDE DEF r
  <2> QED
    BY <1>1, <2>1, <2>2, InAttempt, AsideStep DEF Aside, PublishCandidate
<1>3. CASE ~ InputsHold(i)
  BY <1>1, <1>3, FailStep DEF PublishCandidate, Observations, Reasons
<1> QED
  BY <1>2, <1>3

LEMMA SavePreparedKeeps == ASSUME IInv, SavePrepared PROVE IInv'
<1> DEFINE i == pending.attempt
           r == [attempts[i] EXCEPT !.result = TRUE]
<1>1. pc \notin Idle
  BY DEF SavePrepared, Idle
<1>2. CASE InputsHold(i)
  <2>1. r \in Attempt /\ Leaves(i, r)
    BY <1>1, InAttempt DEF Attempt, Leaves
  <2>2. attempts' = [attempts EXCEPT ![i] = r] /\ pc' = "prepared"
    BY <1>2 DEF SavePrepared
  <2> HIDE DEF r
  <2> QED
    BY <1>1, <2>1, <2>2, InAttempt, AsideStep DEF Aside, SavePrepared
<1>3. CASE ~ InputsHold(i)
  BY <1>1, <1>3, FailStep DEF SavePrepared, Observations, Reasons
<1> QED
  BY <1>2, <1>3

LEMMA SavePreparedObservationKeeps == ASSUME IInv, SavePreparedObservation PROVE IInv'
BY SeenStep DEF SavePreparedObservation, Idle, Observations

LEMMA SaveExecutionObservationKeeps == ASSUME IInv, SaveExecutionObservation PROVE IInv'
BY SeenStep DEF SaveExecutionObservation, Idle, Observations

\* A handler that raises, and an approval that is not there or does not hold.
LEMMA RaiseStep ==
  ASSUME IInv, pc \notin Idle, RaiseOut(pending.attempt),
         UNCHANGED <<contract, turn, pending, edited, wallet, crashes, history>>
  PROVE  IInv'
<1> DEFINE i == pending.attempt
           r == [attempts[i] EXCEPT !.status = "failed"]
<1>1. r \in Attempt /\ Leaves(i, r)
  BY InAttempt DEF Attempt, Leaves, None
<1>2. attempts' = [attempts EXCEPT ![i] = r] /\ pc' = "down"
  BY DEF RaiseOut
<1> HIDE DEF r
<1> QED
  BY <1>1, <1>2, InAttempt, AsideStep DEF Aside

LEMMA GivenHolds ==
  ASSUME IInv, NEW STATE i, i \in Ids, attempts[i].tool = "execute", Executable(attempts[i].of)
  PROVE  Given(i)
BY DEF IInv, Named, Given, Executable, Unchanged, InputsHold, MaterialVersion, None

LEMMA SaveExecutionInputKeeps == ASSUME IInv, SaveExecutionInput PROVE IInv'
<1> DEFINE i == pending.attempt
           r == [attempts[i] EXCEPT !.input = TRUE]
<1>1. pc = "handling" /\ pc \notin Idle /\ attempts[i].tool = "execute"
  BY DEF SaveExecutionInput, Handles, Idle
<1>2. CASE ~ pending.approved
  BY <1>1, <1>2, SeenStep DEF SaveExecutionInput, Observations
<1>3. CASE pending.approved /\ ~ Executable(attempts[i].of)
  BY <1>1, <1>3, RaiseStep DEF SaveExecutionInput
<1>4. CASE pending.approved /\ Executable(attempts[i].of)
  <2>1. r \in Attempt /\ Leaves(i, r) /\ i \in Ids /\ Exists(i)
    BY <1>1, InAttempt DEF Attempt, Leaves
  <2>2. attempts' = [attempts EXCEPT ![i] = r] /\ pc' = "bound"
    BY <1>4 DEF SaveExecutionInput
  <2>3. UNCHANGED <<contract, turn, pending, edited, wallet, crashes, history>>
    BY DEF SaveExecutionInput
  <2> HIDE DEF r
  <2>4. Mild
    BY <2>1, <2>2, <2>3, MildTouch
  <2>5. Given(i)
    BY <1>1, <1>4, <2>1, GivenHolds
  <2>6. Inside'
    BY <1>1, <2>1, <2>2, <2>3, <2>5, NoIdIsNone
    DEF Inside, IInv, TypeOK, Unlaunched, Given, Leaves, Idle, Launching, Launched, None
  <2>7. TypeOK'
    BY <2>2, <2>3, <2>4 DEF IInv, TypeOK, Mild, Steps
  <2> QED
    BY <2>3, <2>4, <2>6, <2>7, MildStep
<1> QED
  BY <1>2, <1>3, <1>4

LEMMA CheckApprovedBytesKeeps == ASSUME IInv, CheckApprovedBytes PROVE IInv'
<1>1. pc = "bound" /\ pc \notin Idle
  BY DEF CheckApprovedBytes, Idle
<1>2. CASE ~ Unchanged(attempts[pending.attempt].of)
  BY <1>1, <1>2, RaiseStep DEF CheckApprovedBytes
<1>3. CASE Unchanged(attempts[pending.attempt].of)
  <2>1. attempts' = attempts /\ pc' = "checked"
    BY <1>3 DEF CheckApprovedBytes
  <2>2. UNCHANGED <<contract, turn, pending, edited, wallet, crashes, history>>
    BY DEF CheckApprovedBytes
  <2>3. Mild
    BY <2>1, <2>2, MildSame
  <2>4. Inside'
    BY <1>1, <2>1, <2>2 DEF Inside, IInv, Unlaunched, Given, Idle, Launching, Launched
  <2>5. TypeOK'
    BY <2>1, <2>2 DEF IInv, TypeOK, Steps
  <2> QED
    BY <2>2, <2>3, <2>4, <2>5, MildStep
<1> QED
  BY <1>2, <1>3

LEMMA ResolveSnapshotKeeps == ASSUME IInv, ResolveSnapshot PROVE IInv'
<1>1. pc = "checked" /\ pc \notin Idle
  BY DEF ResolveSnapshot, Idle
<1>2. CASE ~ Unchanged(attempts[pending.attempt].of)
  BY <1>1, <1>2, SeenStep DEF ResolveSnapshot, Observations
<1>3. CASE Unchanged(attempts[pending.attempt].of)
  <2>1. attempts' = attempts /\ pc' = "admitted"
    BY <1>3 DEF ResolveSnapshot
  <2>2. UNCHANGED <<contract, turn, pending, edited, wallet, crashes, history>>
    BY DEF ResolveSnapshot
  <2>3. Mild
    BY <2>1, <2>2, MildSame
  <2>4. Inside'
    BY <1>1, <2>1, <2>2 DEF Inside, IInv, Unlaunched, Given, Idle, Launching, Launched
  <2>5. TypeOK'
    BY <2>1, <2>2 DEF IInv, TypeOK, Steps
  <2> QED
    BY <2>2, <2>3, <2>4, <2>5, MildStep
<1> QED
  BY <1>2, <1>3

LEMMA SendDecisionKeeps == ASSUME IInv, SendDecision PROVE IInv'
<1> DEFINE i == pending.attempt
           r == [attempts[i] EXCEPT !.account = "open"]
<1>1. pc \notin Idle /\ pc' = "sent"
  BY DEF SendDecision, Idle
<1>2. r \in Attempt /\ Leaves(i, r) /\ i \in Ids /\ Exists(i) /\ i # NoId
  BY <1>1, InAttempt, NoIdIsNone DEF Attempt, Leaves
<1>3. attempts' = [attempts EXCEPT ![i] = r]
  BY DEF SendDecision
<1>4. UNCHANGED <<contract, turn, pending, edited, crashes>>
  BY DEF SendDecision
<1>5. history'.launched = history.launched /\ history'.altered = history.altered
  BY DEF SendDecision, IInv, TypeOK
<1> HIDE DEF r
<1>6. Mild
  BY <1>2, <1>3, <1>4, <1>5, MildTouch
<1>7. wallet' \in [requests : Nat, processes : Nat, attempts : Nat, grants : Nat]
  BY DEF SendDecision, IInv, TypeOK, Floor
<1>8. history' \in [paid : [Ids -> Nat], launched : [Ids -> Nat], altered : SUBSET Ids]
  BY <1>2 DEF SendDecision, IInv, TypeOK
<1>9. TypeOK'
  BY <1>1, <1>4, <1>6, <1>7, <1>8 DEF IInv, TypeOK, Mild, Steps
<1>10. attempts'[i] = r
  BY <1>2, <1>3 DEF IInv, TypeOK
<1>11. Inside'
  BY <1>1, <1>2, <1>4, <1>10 DEF Inside, Leaves, Idle, Launching, Launched
<1> QED
  BY <1>4, <1>6, <1>9, <1>11, MildStep

----------------------------------------------------------------------------
(* Steps that write the request of a preparation, or the run of a command.  *)

LEMMA Written ==
  ASSUME IInv, NEW STATE i, Exists(i), NEW STATE r, r \in Attempt,
         r.tool = attempts[i].tool, r.of = attempts[i].of,
         attempts[i].read # None => r.read = attempts[i].read,
         r.read = "edited" => Material \in edited,
         r.status # None, r.status = "completed" => r.seen # None,
         attempts' = [attempts EXCEPT ![i] = r],
         edited' = edited, turn' = turn, pending' = pending
  PROVE  /\ Named' /\ Journalled' /\ Requested' /\ KeepsNames
         /\ attempts' \in [Ids -> Attempt] /\ attempts'[i] = r
         /\ \A j \in Ids \ {i} : attempts'[j] = attempts[j]
<1>1. i \in Ids /\ attempts \in [Ids -> Attempt] /\ attempts[i].tool # None
  BY DEF Exists, IInv, TypeOK
<1>2. attempts' \in [Ids -> Attempt] /\ attempts'[i] = r /\ \A j \in Ids \ {i} : attempts'[j] = attempts[j]
  BY <1>1
<1>3. KeepsNames
  BY <1>1, <1>2 DEF KeepsNames
<1>4. Requested'
  BY <1>1, <1>2 DEF Requested, IInv
<1>5. \A j \in Ids : attempts'[j].tool = attempts[j].tool /\ attempts'[j].of = attempts[j].of
  BY <1>1, <1>2
<1>6. \A j : Exists(j) <=> Exists(j)'
  BY <1>5 DEF Exists
<1>7. Journalled'
  BY <1>6 DEF IInv, Journalled, Callable
<1>8. \A j \in Ids : attempts'[j].of # NoId => Exists(attempts[j].of)'
  <2> SUFFICES ASSUME NEW j \in Ids, attempts'[j].of # NoId PROVE Exists(attempts[j].of)'
    OBVIOUS
  <2>1. PICK p : p = attempts[j].of
    OBVIOUS
  <2>2. attempts'[j].of = p
    BY <2>1, <1>5
  <2>3. Exists(p)'
    BY <2>1, <2>2, <1>6 DEF IInv, Named
  <2> QED
    BY <2>2, <2>3 DEF Exists
<1>9. pending'.attempt # NoId => Exists(pending.attempt)'
  BY <1>5 DEF IInv, Named, Exists
<1>10. Named'
  <2>1. \A j \in Ids : attempts'[j].tool = None => attempts'[j].status = None
    BY <1>1, <1>2 DEF IInv, Named
  <2>2. \A j \in Ids : attempts'[j].tool = "execute" => attempts'[j].of # NoId
    BY <1>5 DEF IInv, Named
  <2>3. \A j \in Ids : attempts'[j].status = "completed" => attempts'[j].seen # None
    BY <1>1, <1>2 DEF IInv, Named
  <2> QED
    BY <1>8, <1>9, <2>1, <2>2, <2>3 DEF Named
<1> QED
  BY <1>2, <1>3, <1>4, <1>7, <1>10

\* Such a step keeps what is known of every launch if r obeys it.
Same(i, r) == r.receipt = attempts[i].receipt /\ r.bound = attempts[i].bound /\ r.record = attempts[i].record

LEMMA LaunchesStep ==
  ASSUME IInv, NEW STATE i, i \in Ids, NEW STATE r, attempts' \in [Ids -> Attempt],
         attempts'[i] = r, \A j \in Ids \ {i} : attempts'[j] = attempts[j],
         KeepsNames, UNCHANGED history,
         r.status # None, r.tool = attempts[i].tool, attempts[i].tool # "execute" => Same(i, r),
         r.bound = "bound" => history.launched[i] = 1 /\ i \notin history.altered /\ r.receipt = "outputs",
         r.record = "run_succeeded" => r.bound = "bound"
  PROVE  Launches'
<1>1. \A j \in Ids \ {i} : (Unlaunched(j)' <=> Unlaunched(j)) /\ (AsApproved(j)' <=> AsApproved(j))
  BY DEF Unlaunched, AsApproved
<1>2. \A j \in Ids : attempts'[j].status = None \/ attempts'[j].tool # "execute" => Unlaunched(j)'
  <2>1. attempts[i].tool # "execute" => /\ history.launched[i] = 0 /\ i \notin history.altered
                                        /\ r.receipt = None /\ r.bound = None /\ r.record = None
    BY DEF IInv, Launches, Same, Unlaunched
  <2> SUFFICES ASSUME NEW j \in Ids, attempts'[j].status = None \/ attempts'[j].tool # "execute"
               PROVE  Unlaunched(j)'
    OBVIOUS
  <2>2. CASE j = i
    BY <2>1, <2>2 DEF Unlaunched
  <2>3. CASE j # i
    BY <1>1, <2>3 DEF IInv, Launches
  <2> QED
    BY <2>2, <2>3
<1>3. \A j \in Ids : attempts'[j].bound = "bound" => AsApproved(j)'
  <2> SUFFICES ASSUME NEW j \in Ids, attempts'[j].bound = "bound" PROVE AsApproved(j)'
    OBVIOUS
  <2>2. CASE j = i
    BY <2>2 DEF AsApproved
  <2>3. CASE j # i
    BY <1>1, <2>3 DEF IInv, Launches
  <2> QED
    BY <2>2, <2>3
<1>4. \A j \in Ids : attempts'[j].record = "run_succeeded" => attempts'[j].bound = "bound"
  BY DEF IInv, Launches
<1>5. \A j \in history'.altered : Given(j)' /\ ~ Unchanged(attempts[j].of)'
  BY AlteredStaysAltered DEF IInv
<1> QED
  BY <1>2, <1>3, <1>4, <1>5 DEF Launches

LEMMA StartPreparationKeeps == ASSUME IInv, StartPreparation PROVE IInv'
<1> DEFINE i == pending.attempt
           r == [attempts[i] EXCEPT !.read = MaterialVersion]
           refusal == IF attempts[i].of = NoId THEN None ELSE RepairRefusal(attempts[i].of)
<1>1. pc = "handling" /\ pc \notin Idle /\ attempts[i].tool = "prepare" /\ refusal \in Reasons \cup {None}
  BY RefusalIsAReason DEF StartPreparation, Handles, Idle
<1>2. UNCHANGED <<contract, turn, pending, edited, wallet, crashes, history>>
  BY DEF StartPreparation
<1>3. CASE refusal # None
  <2>1. refusal \in Observations /\ "owner_failed" \in Observations /\ pc' = "observed"
    BY <1>1, <1>3 DEF StartPreparation, Observations, Reasons
  <2>2. Fail(i, "owner_failed", FALSE) \/ Fail(i, refusal, TRUE)
    BY <1>3 DEF StartPreparation
  <2> HIDE DEF refusal
  <2> QED
    BY <1>1, <1>2, <2>1, <2>2, FailStep
<1>4. CASE refusal = None /\ ~ Affordable(Floor)
  <2>1. Fail(i, "shared_budget_exhausted", TRUE) /\ pc' = "observed"
    BY <1>4 DEF StartPreparation
  <2> QED
    BY <1>1, <1>2, <2>1, FailStep DEF Observations, Reasons
<1>5. CASE refusal = None /\ Affordable(Floor)
  <2>1. attempts' = [attempts EXCEPT ![i] = r] /\ pc' = "deciding"
    BY <1>5 DEF StartPreparation
  <2>2. i \in Ids /\ Exists(i) /\ attempts[i] \in Attempt /\ attempts[i].status # None /\ i # NoId
        /\ (attempts[i].status = "completed" => attempts[i].seen # None)
    BY <1>1, InAttempt, NoIdIsNone
  <2>3. r \in Attempt /\ Leaves(i, [r EXCEPT !.read = attempts[i].read])
    BY <2>2 DEF Attempt, MaterialVersion, Leaves
  <2>4. r.status # None /\ r.tool = attempts[i].tool /\ r.of = attempts[i].of /\ Same(i, r)
        /\ (r.status = "completed" => r.seen # None) /\ r.read = MaterialVersion
    BY <2>2 DEF Attempt, Same
  <2>5. attempts[i].read = None /\ Unlaunched(i)
    BY <1>1 DEF IInv, Inside
  <2> HIDE DEF r
  <2>6. /\ Named' /\ Journalled' /\ Requested' /\ KeepsNames
        /\ attempts' \in [Ids -> Attempt] /\ attempts'[i] = r
        /\ \A j \in Ids \ {i} : attempts'[j] = attempts[j]
    BY <1>2, <2>1, <2>2, <2>3, <2>4, <2>5, Written DEF MaterialVersion
  <2>7. Launches'
    BY <1>1, <1>2, <2>2, <2>4, <2>5, <2>6, LaunchesStep DEF Same, Unlaunched, None
  <2>8. TypeOK'
    BY <1>2, <2>1, <2>6 DEF IInv, TypeOK, Steps
  <2>9. Inside'
    BY <1>2, <2>1, <2>2, <2>4, <2>6 DEF Inside, Idle, Launching, Launched
  <2> QED
    BY <2>6, <2>7, <2>8, <2>9 DEF IInv
<1> QED
  BY <1>3, <1>4, <1>5

\* Inside the run of a command: what its owner writes of it.
LEMMA RunStep ==
  ASSUME IInv, pc \in {"running", "exited", "recording", "settling"}, NEW STATE r, r \in Attempt,
         attempts' = [attempts EXCEPT ![pending.attempt] = r],
         UNCHANGED <<contract, turn, pending, edited, wallet, crashes, history>>,
         r.tool = attempts[pending.attempt].tool, r.of = attempts[pending.attempt].of,
         r.read = attempts[pending.attempt].read, r.status = attempts[pending.attempt].status,
         r.seen = attempts[pending.attempt].seen,
         r.bound = "bound" => /\ history.launched[pending.attempt] = 1
                              /\ pending.attempt \notin history.altered /\ r.receipt = "outputs",
         r.record = "run_succeeded" => r.bound = "bound",
         \/ pc = "running" /\ pc' = "exited" /\ r.bound = None /\ r.record = None
         \/ pc = "exited" /\ pc' = "recording" /\ r.record = None
         \/ pc' = "executed"
  PROVE  IInv'
<1> DEFINE i == pending.attempt
<1>1. pc \notin Idle /\ attempts[i].tool = "execute"
  BY DEF IInv, Inside, Idle, Launched
<1>2. i \in Ids /\ Exists(i) /\ attempts[i] \in Attempt /\ attempts[i].status # None /\ i # NoId
      /\ (attempts[i].status = "completed" => attempts[i].seen # None)
  BY <1>1, InAttempt, NoIdIsNone
<1>3. attempts[i].read = "edited" => Material \in edited
  BY <1>2 DEF IInv, Requested
<1>4. /\ Named' /\ Journalled' /\ Requested' /\ KeepsNames
      /\ attempts' \in [Ids -> Attempt] /\ attempts'[i] = r
      /\ \A j \in Ids \ {i} : attempts'[j] = attempts[j]
  BY <1>2, <1>3, Written
<1>5. Launches'
  BY <1>1, <1>2, <1>4, LaunchesStep
<1>6. TypeOK'
  BY <1>4 DEF IInv, TypeOK, Steps
<1>7. pc \in Launched => Given(i)'
  BY <1>1, <1>2, <1>4, NoIdIsNone DEF IInv, Inside, Given, Named, Exists
<1>8. Inside'
  BY <1>1, <1>2, <1>4, <1>7 DEF IInv, Inside, Idle, Launching, Launched
<1> QED
  BY <1>4, <1>5, <1>6, <1>8 DEF IInv

LEMMA CommandEndsKeeps == ASSUME IInv, NEW exit \in Exits, CommandEnds(exit) PROVE IInv'
<1> DEFINE i == pending.attempt
           r == [attempts[i] EXCEPT !.receipt = exit, !.account = "settled"]
<1>1. pc = "running" /\ pc \notin Idle /\ pc' = "exited"
  BY DEF CommandEnds, Idle
<1>2. attempts[i] \in Attempt /\ attempts[i].bound = None /\ attempts[i].record = None
  BY <1>1, InAttempt DEF IInv, Inside, Launched
<1>3. r \in Attempt /\ r.bound = None /\ r.record = None
      /\ r.tool = attempts[i].tool /\ r.of = attempts[i].of /\ r.read = attempts[i].read
      /\ r.status = attempts[i].status /\ r.seen = attempts[i].seen
  BY <1>2 DEF Attempt
<1>4. attempts' = [attempts EXCEPT ![i] = r]
      /\ UNCHANGED <<contract, turn, pending, edited, wallet, crashes, history>>
  BY DEF CommandEnds
<1> HIDE DEF r
<1> QED
  BY <1>1, <1>3, <1>4, RunStep DEF None

LEMMA BindOutputsKeeps == ASSUME IInv, BindOutputs PROVE IInv'
<1> DEFINE i == pending.attempt
           bound == IF attempts[i].receipt = "no_outputs" THEN "outputs"
                    ELSE IF attempts[i].receipt # "outputs" THEN None
                    ELSE IF Unchanged(attempts[i].of) THEN "bound" ELSE "inputs"
           r == [attempts[i] EXCEPT !.bound = bound]
<1>1. pc = "exited" /\ pc \notin Idle /\ pc' = "recording"
  BY DEF BindOutputs, Idle
<1>2. attempts[i] \in Attempt /\ history.launched[i] = 1 /\ attempts[i].record = None
  BY <1>1, InAttempt DEF IInv, Inside, Launched
<1>3. attempts' = [attempts EXCEPT ![i] = r]
      /\ UNCHANGED <<contract, turn, pending, edited, wallet, crashes, history>>
  BY DEF BindOutputs
\* An altered run would have been of bytes that are still not the approved ones.
<1>4. bound \in {None, "bound", "inputs", "outputs"}
      /\ (bound = "bound" => attempts[i].receipt = "outputs" /\ i \notin history.altered)
  BY DEF IInv, Launches, None
<1> HIDE DEF bound
<1>5. r \in Attempt /\ r.bound = bound /\ r.record = None /\ r.receipt = attempts[i].receipt
      /\ r.tool = attempts[i].tool /\ r.of = attempts[i].of /\ r.read = attempts[i].read
      /\ r.status = attempts[i].status /\ r.seen = attempts[i].seen
  BY <1>2, <1>4 DEF Attempt
<1> HIDE DEF r
<1> QED
  BY <1>1, <1>2, <1>3, <1>4, <1>5, RunStep DEF None

LEMMA RecordStep ==
  ASSUME IInv, pc \in {"recording", "settling"}, NEW STATE status,
         status \in {"run_succeeded", "process_failed", "missing_outputs", "changed_inputs",
                     "unbound_outputs_after_interruption"},
         status = "run_succeeded" => attempts[pending.attempt].bound = "bound",
         attempts' = [attempts EXCEPT ![pending.attempt].record = status], pc' = "executed",
         UNCHANGED <<contract, turn, pending, edited, wallet, crashes, history>>
  PROVE  IInv'
<1> DEFINE i == pending.attempt
           r == [attempts[i] EXCEPT !.record = status]
<1>1. attempts[i] \in Attempt /\ i \in Ids
  BY InAttempt DEF Idle
<1>2. r \in Attempt /\ r.bound = attempts[i].bound /\ r.record = status /\ r.receipt = attempts[i].receipt
      /\ r.tool = attempts[i].tool /\ r.of = attempts[i].of /\ r.read = attempts[i].read
      /\ r.status = attempts[i].status /\ r.seen = attempts[i].seen
  BY <1>1 DEF Attempt
<1>3. attempts' = [attempts EXCEPT ![i] = r]
  OBVIOUS
<1> HIDE DEF r
<1> QED
  BY <1>1, <1>2, <1>3, RunStep DEF IInv, Launches, AsApproved

LEMMA SaveExecutionKeeps == ASSUME IInv, SaveExecution PROVE IInv'
BY RecordStep DEF SaveExecution, StatusOf

LEMMA RecoverReceiptKeeps == ASSUME IInv, RecoverReceipt PROVE IInv'
BY RecordStep, SeenStep DEF RecoverReceipt, StatusOf, Idle, Observations

LEMMA LaunchCommandKeeps == ASSUME IInv, LaunchCommand PROVE IInv'
<1> DEFINE i == pending.attempt
           r == [attempts[i] EXCEPT !.receipt = "open", !.account = "open"]
<1>1. pc = "admitted" /\ pc \notin Idle /\ pc' = "running"
  BY DEF LaunchCommand, Idle
<1>2. i \in Ids /\ Exists(i) /\ attempts[i] \in Attempt /\ attempts[i].status # None /\ i # NoId
      /\ (attempts[i].status = "completed" => attempts[i].seen # None)
  BY <1>1, InAttempt, NoIdIsNone
<1>3. attempts[i].tool = "execute" /\ Unlaunched(i) /\ Given(i)
  BY <1>1 DEF IInv, Inside, Launching
<1>4. r \in Attempt /\ r.bound = None /\ r.record = None /\ r.status = attempts[i].status
      /\ r.tool = attempts[i].tool /\ r.of = attempts[i].of /\ r.read = attempts[i].read
      /\ r.seen = attempts[i].seen
  BY <1>2, <1>3 DEF Attempt, Unlaunched
<1>5. attempts' = [attempts EXCEPT ![i] = r]
  BY DEF LaunchCommand
<1>6. UNCHANGED <<contract, turn, pending, edited, crashes>>
  BY DEF LaunchCommand
<1>7. wallet' \in [requests : Nat, processes : Nat, attempts : Nat, grants : Nat]
  BY DEF LaunchCommand, IInv, TypeOK
<1>8. /\ history'.launched = [history.launched EXCEPT ![i] = @ + 1]
      /\ history'.altered = IF Unchanged(attempts[i].of) THEN history.altered ELSE history.altered \cup {i}
      /\ history' \in [paid : [Ids -> Nat], launched : [Ids -> Nat], altered : SUBSET Ids]
  <2>1. history \in [paid : [Ids -> Nat], launched : [Ids -> Nat], altered : SUBSET Ids]
    BY DEF IInv, TypeOK
  <2> DEFINE altered == IF Unchanged(attempts[i].of) THEN history.altered ELSE history.altered \cup {i}
             launched == [history.launched EXCEPT ![i] = @ + 1]
  <2>2. altered \in SUBSET Ids /\ launched \in [Ids -> Nat]
    BY <1>2, <2>1
  <2>3. history' = [history EXCEPT !.launched = launched, !.altered = altered]
    BY <2>1 DEF LaunchCommand
  <2> HIDE DEF altered, launched
  <2>4. history'.launched = launched /\ history'.altered = altered
        /\ history' \in [paid : [Ids -> Nat], launched : [Ids -> Nat], altered : SUBSET Ids]
    BY <2>1, <2>2, <2>3
  <2> QED
    BY <2>4 DEF altered, launched
<1>9. attempts[i].read = "edited" => Material \in edited
  BY <1>2 DEF IInv, Requested
<1> HIDE DEF r
<1>10. /\ Named' /\ Journalled' /\ Requested' /\ KeepsNames
       /\ attempts' \in [Ids -> Attempt] /\ attempts'[i] = r
       /\ \A j \in Ids \ {i} : attempts'[j] = attempts[j]
  BY <1>2, <1>4, <1>5, <1>6, <1>9, Written
<1>11. TypeOK'
  BY <1>1, <1>6, <1>7, <1>8, <1>10 DEF IInv, TypeOK, Steps
<1>12. history.launched[i] = 0 /\ history'.launched[i] = 1
       /\ \A j \in Ids \ {i} : /\ history'.launched[j] = history.launched[j]
                               /\ j \in history'.altered <=> j \in history.altered
  BY <1>2, <1>3, <1>8 DEF Unlaunched, IInv, TypeOK
<1>13. Launches'
  <2>1. \A j \in Ids : attempts'[j].status = None \/ attempts'[j].tool # "execute" => Unlaunched(j)'
    BY <1>2, <1>3, <1>4, <1>10, <1>12 DEF IInv, Launches, Unlaunched
  <2>2. \A j \in Ids : attempts'[j].bound = "bound" => AsApproved(j)'
    BY <1>4, <1>10, <1>12 DEF IInv, Launches, AsApproved, None
  <2>3. \A j \in Ids : attempts'[j].record = "run_succeeded" => attempts'[j].bound = "bound"
    BY <1>4, <1>10 DEF IInv, Launches, None
  <2>4. ASSUME NEW j \in history'.altered PROVE Given(j)' /\ ~ Unchanged(attempts[j].of)'
    <3>1. CASE j \in history.altered
      BY <1>10, <3>1, AlteredStaysAltered DEF IInv
    <3>2. CASE j \notin history.altered
      <4>1. j = i /\ ~ Unchanged(attempts[i].of)
        BY <1>8, <3>2
      <4>2. PICK p : p = attempts[i].of
        OBVIOUS
      <4>3. p \in Ids /\ attempts[p].read # None /\ ~ Unchanged(p) /\ p # NoId
        BY <4>1, <4>2, <1>2, <1>3 DEF Given, IInv, Named, Exists
      <4>4. attempts'[p].read # None /\ ~ Unchanged(p)'
        BY <4>3, <1>10, StaysChanged DEF IInv
      <4>5. attempts'[j].of = p
        BY <4>1, <4>2, <1>4, <1>10
      <4> QED
        BY <4>3, <4>4, <4>5 DEF Given, Unchanged, InputsHold, PriorOf
    <3> QED
      BY <3>1, <3>2
  <2> QED
    BY <2>1, <2>2, <2>3, <2>4 DEF Launches
<1>14. Given(i)'
  <2>1. PICK p \in Ids : p = attempts[i].of
    BY <1>2, <1>3 DEF Given, IInv, Named, Exists
  <2>2. attempts[p].read # None /\ p # NoId
    BY <2>1, <1>3 DEF Given
  <2>3. attempts'[p].read # None /\ attempts'[i].of = p /\ pending'.attempt = i
    BY <2>1, <2>2, <1>4, <1>6, <1>10
  <2> QED
    BY <2>2, <2>3, <1>6 DEF Given
<1>15. Inside'
  BY <1>1, <1>2, <1>3, <1>4, <1>6, <1>10, <1>12, <1>14 DEF Inside, Idle, Launching, Launched
<1> QED
  BY <1>10, <1>11, <1>13, <1>15 DEF IInv

----------------------------------------------------------------------------
(* Steps that change neither an attempt nor the turn.                       *)

LEMMA StandStep ==
  ASSUME IInv, UNCHANGED <<attempts, turn, history>>, edited \subseteq edited', TypeOK',
         pending'.attempt = pending.attempt, pc' \in {"loop", "down", pc}
  PROVE  IInv'
<1>1. Mild
  BY MildSame
<1>2. Inside'
  BY DEF IInv, Inside, Idle, Launching, Launched, Unlaunched, Given
<1> QED
  BY <1>1, <1>2, MildStep

LEMMA AskApprovalKeeps == ASSUME IInv, NEW given \in BOOLEAN, AskApproval(given) PROVE IInv'
<1>1. pending' \in [attempt : Ids \cup {NoId}, approved : BOOLEAN] /\ pending'.attempt = pending.attempt
  BY DEF AskApproval, IInv, TypeOK
<1>2. TypeOK'
  BY <1>1 DEF AskApproval, IInv, TypeOK, Steps
<1> QED
  BY <1>1, <1>2, StandStep DEF AskApproval

LEMMA ResumeKeeps == ASSUME IInv, Resume PROVE IInv'
<1>1. TypeOK'
  BY DEF Resume, IInv, TypeOK, Steps
<1> QED
  BY <1>1, StandStep DEF Resume

LEMMA GrantKeeps == ASSUME IInv, Grant PROVE IInv'
<1>1. wallet' \in [requests : Nat, processes : Nat, attempts : Nat, grants : Nat]
  BY WorkAssumption DEF Grant, IInv, TypeOK
<1>2. TypeOK'
  BY <1>1 DEF Grant, IInv, TypeOK
<1> QED
  BY <1>2, StandStep DEF Grant

LEMMA EditKeeps == ASSUME IInv, NEW file \in {Material} \cup Ids, Edit(file) PROVE IInv'
<1>1. TypeOK'
  BY DEF Edit, IInv, TypeOK
<1> QED
  BY <1>1, StandStep DEF Edit

LEMMA CrashKeeps == ASSUME IInv, Crash PROVE IInv'
<1>1. TypeOK'
  BY DEF Crash, IInv, TypeOK, Steps
<1> QED
  BY <1>1, StandStep DEF Crash

LEMMA NoDurableResultKeeps == ASSUME IInv, NoDurableResult PROVE IInv'
<1>1. TypeOK'
  BY DEF NoDurableResult, IInv, TypeOK, Steps
<1> QED
  BY <1>1, StandStep DEF NoDurableResult

----------------------------------------------------------------------------
(* Steps between two attempts, and into one that was begun.                 *)

LEMMA PendingAttempt ==
  ASSUME IInv, pending.attempt # NoId
  PROVE  /\ Exists(pending.attempt) /\ pending.attempt \in Ids
         /\ attempts[pending.attempt] \in Attempt
         /\ (attempts[pending.attempt].status = "completed" => attempts[pending.attempt].seen # None)
BY DEF IInv, Named, Exists, TypeOK

LEMMA BeginStep ==
  ASSUME IInv, pending.attempt # NoId, attempts[pending.attempt].status = None,
         Began(pending.attempt), pc' = "handling",
         UNCHANGED <<contract, turn, pending, edited, wallet, crashes, history>>
  PROVE  IInv'
<1> DEFINE i == pending.attempt
           r == [attempts[i] EXCEPT !.status = "running"]
<1>1. i \in Ids /\ attempts[i] \in Attempt
  BY PendingAttempt
<1>2. attempts[i].read = None /\ Unlaunched(i)
  BY <1>1 DEF IInv, Requested, Launches
<1>3. r \in Attempt /\ Leaves(i, r) /\ r.status = "running"
  BY <1>1 DEF Attempt, Leaves, None
<1>4. attempts' = [attempts EXCEPT ![i] = r]
  BY DEF Began
<1> HIDE DEF r
<1>5. Mild
  BY <1>3, <1>4, PendingAttempt, MildTouch
<1>6. attempts'[i] = r
  BY <1>1, <1>4 DEF IInv, TypeOK
<1>7. TypeOK'
  BY <1>5 DEF IInv, TypeOK, Mild, Steps
<1>8. Inside'
  BY <1>2, <1>3, <1>6 DEF Inside, Leaves, Unlaunched, Idle, Launching, Launched, None
<1> QED
  BY <1>5, <1>7, <1>8, MildStep

LEMMA BeginPreparationKeeps == ASSUME IInv, BeginPreparation PROVE IInv'
BY BeginStep DEF BeginPreparation, AtCall

LEMMA BeginExecutionKeeps == ASSUME IInv, BeginExecution PROVE IInv'
BY BeginStep DEF BeginExecution, AtCall

\* What the recovery of a pending attempt saves.
LEMMA RecoveredStep ==
  ASSUME IInv, pending.attempt # NoId, attempts[pending.attempt].status # None, NEW STATE seen,
         seen \in Observations, pc' = "observed",
         attempts' = [attempts EXCEPT ![pending.attempt].seen = seen],
         UNCHANGED <<contract, turn, pending, edited, wallet, crashes, history>>
  PROVE  IInv'
<1> DEFINE i == pending.attempt
           r == [attempts[i] EXCEPT !.seen = seen]
<1>1. r \in Attempt /\ r.seen # None /\ Leaves(i, r)
  BY PendingAttempt DEF Attempt, Leaves, Observations, Reasons, None
<1>2. attempts' = [attempts EXCEPT ![i] = r]
  OBVIOUS
<1> HIDE DEF r
<1> QED
  BY <1>1, <1>2, PendingAttempt, AsideStep DEF Aside

LEMMA RecoverPreparationKeeps == ASSUME IInv, RecoverPreparation PROVE IInv'
<1> DEFINE i == pending.attempt
           r == [attempts[i] EXCEPT !.seen = "owner_failed", !.entered = TRUE]
<1>1. i # NoId /\ attempts[i].status # None /\ pc' = "observed"
  BY DEF RecoverPreparation, Recovers, AtCall, None
<1>2. attempts[i] \in Attempt /\ Exists(i) /\ (attempts[i].status = "completed" => attempts[i].seen # None)
  BY <1>1, PendingAttempt
<1>3. CASE Fail(i, "owner_failed", TRUE)
  <2>1. "owner_failed" \in Observations /\ "owner_failed" # None
    BY DEF Observations, Reasons, None
  <2>2. r \in Attempt /\ r.seen # None
    BY <1>2, <2>1 DEF Attempt
  <2>4. Leaves(i, r)
    BY <1>1, <1>2, <2>1 DEF Attempt, Leaves
  <2>3. attempts' = [attempts EXCEPT ![i] = r]
    BY <1>3 DEF Fail
  <2> HIDE DEF r
  <2> QED
    BY <1>1, <1>2, <2>2, <2>3, <2>4, AsideStep DEF Aside, RecoverPreparation
<1>4. CASE attempts' = [attempts EXCEPT ![i].seen = "ok"]
  BY <1>1, <1>4, RecoveredStep DEF RecoverPreparation, Observations
<1> QED
  BY <1>3, <1>4 DEF RecoverPreparation

LEMMA AdoptObservationKeeps == ASSUME IInv, AdoptObservation PROVE IInv'
<1> DEFINE i == pending.attempt
<1>1. i # NoId /\ attempts[i].status # None
  BY DEF AdoptObservation, Recovers, AtCall, None
<1>2. UNCHANGED <<contract, turn, pending, edited, wallet, crashes, history>> /\ pc' = "observed"
  BY DEF AdoptObservation
<1>3. attempts \in [Ids -> Attempt] /\ i \in Ids /\ attempts[i].seen \in Observations \cup {None}
  BY <1>1, PendingAttempt DEF IInv, TypeOK, Attempt
<1>4. CASE attempts' = attempts /\ attempts[i].seen # None
  <2>1. attempts' = [attempts EXCEPT ![i].seen = attempts[i].seen]
    BY <1>3, <1>4 DEF Attempt
  <2>2. PICK seen : seen = attempts[i].seen
    OBVIOUS
  <2> QED
    BY <1>1, <1>2, <1>3, <1>4, <2>1, <2>2, RecoveredStep
<1>5. CASE attempts' = [attempts EXCEPT ![i].seen = IF @ = None THEN "interrupted" ELSE @]
  <2>1. PICK seen : seen = IF attempts[i].seen = None THEN "interrupted" ELSE attempts[i].seen
    OBVIOUS
  <2>2. seen \in Observations
    BY <1>3, <2>1 DEF Observations
  <2>3. attempts' = [attempts EXCEPT ![i].seen = seen]
    BY <1>5, <2>1
  <2> QED
    BY <1>1, <1>2, <2>2, <2>3, RecoveredStep
<1> QED
  BY <1>4, <1>5 DEF AdoptObservation

LEMMA RecoverExecutionKeeps == ASSUME IInv, RecoverExecution PROVE IInv'
<1>1. /\ pending.attempt # NoId /\ attempts[pending.attempt].tool = "execute"
      /\ attempts[pending.attempt].status = "running"
      /\ UNCHANGED <<contract, attempts, turn, pending, edited, wallet, crashes, history>>
  BY DEF RecoverExecution, Recovers, AtCall
<1>2. /\ pc' \in {"executed", "down", "observed", "settling"}
      /\ pc' = "observed" => attempts[pending.attempt].seen # None
  BY DEF RecoverExecution
<1>3. Mild
  BY <1>1, MildSame
<1>4. TypeOK'
  BY <1>1, <1>2 DEF IInv, TypeOK, Steps
<1>5. Inside'
  BY <1>1, <1>2 DEF Inside, Idle, Launching, Launched, None
<1> QED
  BY <1>1, <1>3, <1>4, <1>5, MildStep

\* The user's word closes an attempt whose process is gone.
LEMMA ConfirmInterruptionKeeps == ASSUME IInv, ConfirmInterruption PROVE IInv'
<1> DEFINE i == pending.attempt
           r == [attempts[i] EXCEPT !.status = "interrupted"]
<1>1. i # NoId /\ pc' = "down" /\ UNCHANGED <<contract, turn, pending, edited, wallet, crashes, history>>
  BY DEF ConfirmInterruption
<1>2. r \in Attempt /\ Leaves(i, r)
  BY <1>1, PendingAttempt DEF Attempt, Leaves, None
<1>3. attempts' = [attempts EXCEPT ![i] = r]
  BY DEF ConfirmInterruption
<1> HIDE DEF r
<1> QED
  BY <1>1, <1>2, <1>3, PendingAttempt, AsideStep

LEMMA TurnStep ==
  ASSUME IInv, UNCHANGED <<contract, attempts, pending, edited, wallet, crashes, history>>,
         Journalled', turn' \in [call : Action, queued : BOOLEAN, source : Ids \cup {NoId},
                                 done : Ids \cup {NoId}, known : Nat],
         pc' \in Idle
  PROVE  IInv'
<1>1. TypeOK'
  BY DEF IInv, TypeOK, Idle, Steps
<1>2. Named' /\ Requested' /\ Launches'
  <2>1. Mild
    BY MildSame
  <2> QED
    BY <2>1, MildKeeps DEF IInv, Named, Exists
<1>3. Inside'
  BY DEF Inside, Idle, Launching, Launched
<1> QED
  BY <1>1, <1>2, <1>3 DEF IInv

LEMMA ProposeStep ==
  ASSUME IInv, NEW STATE action, action \in Action, Callable(action), NEW STATE i, Exists(i),
         Propose(action, i),
         UNCHANGED <<contract, attempts, pending, edited, wallet, crashes, history>>
  PROVE  IInv'
<1>1. PICK next : next = Scheduled(action)
  OBVIOUS
<1>2. next \in Action /\ Callable(next)
  BY <1>1, ScheduledIsCallable
<1>3. PICK source : source = i
  OBVIOUS
<1>4. turn' = [call |-> next, queued |-> next.stop = None, source |-> source, done |-> NoId,
               known |-> wallet.grants]
      /\ pc' \in Idle
  BY <1>1, <1>3 DEF Propose, Idle
<1>5. Exists(source)
  BY <1>3 DEF Exists
<1>6. turn'.call = next /\ turn'.source = source /\ turn'.done = NoId /\ (turn'.queued <=> next.stop = None)
  BY <1>4
<1>7. source # NoId
  BY <1>5, NoIdIsNone DEF Exists
<1>8. Journalled'
  BY <1>2, <1>5, <1>6, <1>7 DEF Journalled, Callable, Exists
<1>9. turn' \in [call : Action, queued : BOOLEAN, source : Ids \cup {NoId},
                 done : Ids \cup {NoId}, known : Nat]
  BY <1>2, <1>4, <1>5 DEF Exists, IInv, TypeOK
<1> QED
  BY <1>4, <1>8, <1>9, TurnStep

LEMMA ContinueKeeps == ASSUME IInv, Continue PROVE IInv'
<1> DEFINE i == turn.done
<1>1. Exists(i)
  BY DEF Continue, IInv, Journalled
<1>2. Continuation(i) \in Action /\ (Continuation(i) # Nothing => Callable(Continuation(i)))
  BY <1>1, ContinuationIsCallable DEF IInv
<1>3. UNCHANGED <<contract, attempts, pending, edited, wallet, crashes, history>>
  BY DEF Continue
<1>4. CASE turn' = turn /\ pc' \in {"down", "returned"}
  <2>1. Journalled'
    BY <1>3, <1>4 DEF IInv, Journalled, Callable, Exists
  <2> QED
    BY <1>3, <1>4, <2>1, TurnStep DEF Idle, IInv, TypeOK
<1>5. CASE Continuation(i) # Nothing /\ Propose(Continuation(i), i)
  BY <1>1, <1>2, <1>3, <1>5, ProposeStep
<1> QED
  BY <1>4, <1>5 DEF Continue

LEMMA ResumeStopKeeps == ASSUME IInv, ResumeStop PROVE IInv'
<1> DEFINE i == turn.source
<1>1. Exists(i)
  BY DEF ResumeStop, IInv, Journalled
<1>2. ResumedAction(i) \in Action /\ Callable(ResumedAction(i))
  BY <1>1, ResumedIsCallable DEF IInv
<1> QED
  BY <1>1, <1>2, ProposeStep DEF ResumeStop

LEMMA ReserveCompletionKeeps == ASSUME IInv, ReserveCompletion PROVE IInv'
<1> DEFINE stop == Stop("shared_budget_exhausted")
<1>1. turn \in [call : Action, queued : BOOLEAN, source : Ids \cup {NoId},
                done : Ids \cup {NoId}, known : Nat] /\ wallet.grants \in Nat
  BY DEF IInv, TypeOK
<1>2. stop \in Action /\ Callable(stop) /\ stop.stop # None
  BY StopsAreCallable DEF Stop, Observations, Reasons, None
<1>3. turn' = [turn EXCEPT !.call = stop, !.queued = FALSE, !.known = wallet.grants]
  BY DEF ReserveCompletion
<1>4. UNCHANGED <<contract, attempts, pending, edited, wallet, crashes, history>> /\ pc' \in Idle
      /\ turn.source # NoId
  BY DEF ReserveCompletion, Idle
<1> HIDE DEF stop
<1>5. /\ turn'.call = stop /\ ~ turn'.queued /\ turn'.source = turn.source /\ turn'.done = turn.done
      /\ turn' \in [call : Action, queued : BOOLEAN, source : Ids \cup {NoId},
                    done : Ids \cup {NoId}, known : Nat]
  BY <1>1, <1>2, <1>3
<1>6. Journalled'
  BY <1>2, <1>4, <1>5 DEF IInv, Journalled, Callable, Exists
<1> QED
  BY <1>4, <1>5, <1>6, TurnStep

LEMMA AcceptKeeps == ASSUME IInv, Accept PROVE IInv'
<1> DEFINE i == pending.attempt
           r == [attempts[i] EXCEPT !.status = "completed"]
<1>1. pc = "observed" /\ pc \notin Idle /\ pc' = "loop" /\ attempts[i].seen # None
  BY DEF Accept, IInv, Inside, Idle
<1>2. i \in Ids /\ Exists(i) /\ attempts[i] \in Attempt
  BY <1>1, InAttempt
<1>3. UNCHANGED <<contract, edited, wallet, crashes, history>> /\ pending' = NoPending
  BY DEF Accept
<1>4. Mild
  <2>1. r \in Attempt /\ Leaves(i, r)
    BY <1>1, <1>2 DEF Attempt, Leaves, None
  <2>2. attempts' = attempts \/ attempts' = [attempts EXCEPT ![i] = r]
    BY DEF Accept
  <2> HIDE DEF r
  <2> QED
    BY <1>2, <1>3, <2>1, <2>2, MildTouch, MildSame
<1>5. Requested' /\ Launches' /\ \A j : Exists(j) <=> Exists(j)'
  BY <1>4, MildKeeps
<1>6. pending'.attempt = NoId /\ pending' \in [attempt : Ids \cup {NoId}, approved : BOOLEAN]
  BY <1>3 DEF NoPending
<1>7. PICK k : k = i
  OBVIOUS
<1>8. /\ turn'.call = turn.call /\ ~ turn'.queued /\ turn'.source = turn.source /\ turn'.done = k
      /\ turn' \in [call : Action, queued : BOOLEAN, source : Ids \cup {NoId},
                    done : Ids \cup {NoId}, known : Nat]
  BY <1>2, <1>7 DEF Accept, IInv, TypeOK
<1>9. Journalled'
  BY <1>2, <1>5, <1>7, <1>8 DEF IInv, Journalled, Callable, Exists
<1>10. TypeOK'
  BY <1>1, <1>3, <1>4, <1>6, <1>8 DEF IInv, TypeOK, Mild, Steps
<1>11. Inside'
  BY <1>1 DEF Inside, Idle, Launching, Launched
<1>12. Named'
  BY <1>4, <1>6, MildNamed
<1> QED
  BY <1>5, <1>9, <1>10, <1>11, <1>12 DEF IInv

LEMMA TakeCallKeeps == ASSUME IInv, TakeCall PROVE IInv'
<1>1. PICK i \in Ids :
        /\ pc = "loop" /\ turn.queued /\ attempts[i].tool = None
        /\ attempts' = [attempts EXCEPT ![i].tool = turn.call.tool, ![i].of = turn.call.of]
        /\ pending' = [attempt |-> i, approved |-> FALSE]
        /\ UNCHANGED <<contract, turn, edited, wallet, pc, crashes, history>>
  BY DEF TakeCall
<1> DEFINE r == [attempts[i] EXCEPT !.tool = turn.call.tool, !.of = turn.call.of]
<1>2. attempts \in [Ids -> Attempt] /\ attempts[i] \in Attempt /\ turn.call \in Action /\ i # NoId
  BY <1>1, NoIdIsNone DEF IInv, TypeOK
<1>3. /\ turn.call.tool # None
      /\ turn.call.of # NoId => Exists(turn.call.of)
      /\ turn.call.tool = "execute" => turn.call.of # NoId
  BY <1>1 DEF IInv, Journalled, Callable
<1>4. attempts[i].status = None /\ attempts[i].read = None /\ Unlaunched(i)
  BY <1>1 DEF IInv, Named, Requested, Launches
<1>5. r \in Attempt /\ r.tool = turn.call.tool /\ r.of = turn.call.of /\ r.status = None /\ r.read = None
      /\ Same(i, r)
  BY <1>2, <1>4 DEF Attempt, Action, Same
<1>6. attempts' = [attempts EXCEPT ![i] = r]
  BY <1>1, <1>2
<1> HIDE DEF r
<1>7. /\ attempts' \in [Ids -> Attempt] /\ attempts'[i] = r
      /\ \A j \in Ids \ {i} : attempts'[j] = attempts[j]
  BY <1>2, <1>5, <1>6
<1>8. KeepsNames
  BY <1>1, <1>4, <1>7 DEF KeepsNames
<1>9. \A j : Exists(j) => Exists(j)'
  BY <1>1, <1>7 DEF Exists
<1>10. Exists(i)'
  BY <1>3, <1>5, <1>7 DEF Exists
<1>11. Named'
  <2>1. \A j \in Ids : attempts'[j].of # NoId => Exists(attempts[j].of)'
    <3> SUFFICES ASSUME NEW j \in Ids, attempts'[j].of # NoId PROVE Exists(attempts[j].of)'
      OBVIOUS
    <3>1. PICK p : p = IF j = i THEN turn.call.of ELSE attempts[j].of
      OBVIOUS
    <3>2. attempts'[j].of = p
      BY <3>1, <1>5, <1>7
    <3>3. Exists(p)
      BY <3>1, <3>2, <1>3, <1>5, <1>7 DEF IInv, Named
    <3>4. Exists(p)'
      BY <3>3, <1>9
    <3> QED
      BY <3>2, <3>4 DEF Exists
  <2>2. \A j \in Ids : /\ attempts'[j].tool = None => attempts'[j].status = None
                       /\ attempts'[j].tool = "execute" => attempts'[j].of # NoId
                       /\ attempts'[j].status = "completed" => attempts'[j].seen # None
    BY <1>3, <1>5, <1>7 DEF IInv, Named, None
  <2>3. pending'.attempt # NoId => Exists(pending.attempt)'
    BY <1>1, <1>10 DEF Exists
  <2> QED
    BY <2>1, <2>2, <2>3 DEF Named
<1>12. Journalled'
  BY <1>1, <1>9 DEF IInv, Journalled, Callable, Exists
<1>13. Requested'
  BY <1>1, <1>5, <1>7 DEF IInv, Requested, None
<1>14. Launches'
  <2>1. \A j \in Ids : Unlaunched(j) => Unlaunched(j)'
    BY <1>1, <1>5, <1>7 DEF Unlaunched, Same
  <2>2. \A j \in Ids : attempts'[j].status = None \/ attempts'[j].tool # "execute" => Unlaunched(j)'
    BY <1>4, <1>7, <2>1 DEF IInv, Launches
  <2>3. \A j \in Ids : attempts'[j].bound = "bound" => AsApproved(j)'
    BY <1>1, <1>4, <1>5, <1>7 DEF IInv, Launches, AsApproved, Unlaunched, Same, None
  <2>4. \A j \in Ids : attempts'[j].record = "run_succeeded" => attempts'[j].bound = "bound"
    BY <1>4, <1>5, <1>7 DEF IInv, Launches, Unlaunched, Same, None
  <2>5. \A j \in history'.altered : Given(j)' /\ ~ Unchanged(attempts[j].of)'
    BY <1>1, <1>8, AlteredStaysAltered DEF IInv
  <2> QED
    BY <2>2, <2>3, <2>4, <2>5 DEF Launches
<1>15. TypeOK'
  BY <1>1, <1>7 DEF IInv, TypeOK
<1>16. Inside'
  BY <1>1 DEF Inside, Idle, Launching, Launched
<1> QED
  BY <1>11, <1>12, <1>13, <1>14, <1>15, <1>16 DEF IInv

----------------------------------------------------------------------------
(* The theorems.                                                            *)

LEMMA InitHolds == Init => IInv
<1> SUFFICES ASSUME Init PROVE IInv
  OBVIOUS
<1>1. NoAttempt \in Attempt
  BY DEF NoAttempt, Attempt, None
<1>2. Call("prepare", NoId) \in Action
  BY DEF Call, Action
<1>3. TypeOK
  <2>1. attempts \in [Ids -> Attempt] /\ pending \in [attempt : Ids \cup {NoId}, approved : BOOLEAN]
    BY <1>1 DEF Init, NoPending
  <2>2. turn \in [call : Action, queued : BOOLEAN, source : Ids \cup {NoId}, done : Ids \cup {NoId},
                  known : Nat]
    BY <1>2 DEF Init
  <2>3. wallet \in [requests : Nat, processes : Nat, attempts : Nat, grants : Nat]
    <3>1. Requests \subseteq Nat /\ Processes \subseteq Nat /\ Attempts \subseteq Nat /\ {0} \subseteq Nat
      BY WorkAssumption DEF WorkAssumption
    <3>2. wallet \in [requests : Requests, processes : Processes, attempts : Attempts, grants : {0}]
      BY DEF Init
    <3> QED
      BY <3>1, <3>2
  <2>4. history \in [paid : [Ids -> Nat], launched : [Ids -> Nat], altered : SUBSET Ids]
    BY DEF Init
  <2> QED
    BY <2>1, <2>2, <2>3, <2>4 DEF Init, TypeOK, Steps
<1>4. Named /\ Requested /\ Launches
  BY DEF Init, Named, Requested, Launches, NoAttempt, NoPending, Unlaunched, None
<1>5. Journalled
  BY DEF Init, Journalled, Callable, Call, None
<1>6. Inside
  BY DEF Init, Inside, Idle, Launching, Launched
<1> QED
  BY <1>3, <1>4, <1>5, <1>6 DEF IInv

LEMMA StepKeeps == IInv /\ [Next]_vars => IInv'
<1> SUFFICES ASSUME IInv, [Next]_vars PROVE IInv'
  OBVIOUS
<1>1. CASE Continue \/ ResumeStop \/ TakeCall \/ ReserveCompletion
  BY <1>1, ContinueKeeps, ResumeStopKeeps, TakeCallKeeps, ReserveCompletionKeeps
<1>2. CASE \E given \in BOOLEAN : AskApproval(given)
  BY <1>2, AskApprovalKeeps
<1>3. CASE BeginPreparation \/ BeginExecution
  BY <1>3, BeginPreparationKeeps, BeginExecutionKeeps
<1>4. CASE Prepare
  BY <1>4, StartPreparationKeeps, SendDecisionKeeps, NoRequestLeftKeeps, AnswerKeeps,
     PublishCandidateKeeps, SavePreparedKeeps, SavePreparedObservationKeeps DEF Prepare
<1>5. CASE Execute
  BY <1>5, SaveExecutionInputKeeps, CheckApprovedBytesKeeps, ResolveSnapshotKeeps,
     LaunchCommandKeeps, CommandEndsKeeps, BindOutputsKeeps, SaveExecutionKeeps,
     SaveExecutionObservationKeeps DEF Execute
<1>6. CASE Recover
  BY <1>6, RecoverPreparationKeeps, AdoptObservationKeeps, RecoverExecutionKeeps,
     RecoverReceiptKeeps, NoDurableResultKeeps DEF Recover
<1>7. CASE Accept \/ Resume \/ ConfirmInterruption \/ Grant \/ Crash
  BY <1>7, AcceptKeeps, ResumeKeeps, ConfirmInterruptionKeeps, GrantKeeps, CrashKeeps
<1>8. CASE \E file \in {Material} \cup Ids : Edit(file)
  BY <1>8, EditKeeps
<1>9. CASE UNCHANGED vars
  <2>1. TypeOK'
    BY <1>9 DEF vars, IInv, TypeOK
  <2> QED
    BY <1>9, <2>1, StandStep DEF vars
<1> QED
  BY <1>1, <1>2, <1>3, <1>4, <1>5, <1>6, <1>7, <1>8, <1>9 DEF Next

THEOREM InvariantHolds == Spec => []IInv
BY InitHolds, StepKeeps, PTL DEF Spec

\* Every file, turn and counter of complete work has its type, for any number
\* of attempts, edits, crashes and grants.
THEOREM WorkIsTyped == Spec => []TypeOK
<1>1. IInv => TypeOK
  BY DEF IInv
<1> QED
  BY <1>1, InvariantHolds, PTL

\* An execution recorded as run_succeeded (candidate_execution.json) was
\* started once, on the bytes that were shown for approval, and ended with its
\* outputs: whatever was edited between the checks of execute_prepared, and
\* wherever a process stopped.
THEOREM SuccessesRanAsApproved == Spec => []CertifiedRanAsApproved
<1>1. IInv => CertifiedRanAsApproved
  BY DEF IInv, Launches, CertifiedRanAsApproved, Succeeded, AsApproved
<1> QED
  BY <1>1, InvariantHolds, PTL

----------------------------------------------------------------------------
(* Nothing is bought twice, and every repair is one of a settled failure.   *)
(* Attempts follow one another: what the owner proposes comes from the      *)
(* newest attempt, and is about that attempt or, when nothing was paid in   *)
(* it, about the one that it was about.                                     *)

Newest(i) == Exists(i) /\ \A j \in Ids : j > i => attempts[j].tool = None

\* Diagnoses come in the order of their executions, and after an execution
\* none before it is diagnosed again.
Ordered ==
  /\ \A i, j \in Ids : i < j /\ attempts[j].tool # None => attempts[i].tool # None
  /\ \A i \in Ids : attempts[i].of < i
  /\ \A i \in Ids : attempts[i].of # NoId =>
       \/ attempts[i].tool = "execute" /\ attempts[attempts[i].of].tool = "prepare"
       \/ attempts[i].tool = "prepare" /\ attempts[attempts[i].of].tool = "execute"
  /\ \A i, j \in Ids : i < j /\ attempts[j].tool = "prepare" =>
       /\ attempts[i].tool = "prepare" => attempts[i].of <= attempts[j].of
       /\ attempts[i].tool = "execute" => i <= attempts[j].of

InOrder == Ordered /\ (pending.attempt # NoId => Newest(pending.attempt))

\* What a new attempt may be about.
Follows(call, i) ==
  IF i = NoId THEN call.tool = "prepare" /\ call.of = NoId /\ \A j \in Ids : attempts[j].tool = None
  ELSE /\ Newest(i)
       /\ \/ call.of = i /\ call.tool = "execute" /\ attempts[i].tool = "prepare"
          \/ call.of = i /\ call.tool = "prepare" /\ attempts[i].tool = "execute"
          \/ /\ call.tool = "prepare" /\ attempts[i].tool = "prepare" /\ call.of = attempts[i].of
             /\ attempts[i].account = None

Proposed ==
  /\ turn.queued => turn.done = NoId
  /\ pending.attempt # NoId => turn.queued
  /\ pending.attempt = NoId =>
       /\ turn.queued => Follows(turn.call, turn.source)
       /\ turn.call.stop # None => Newest(turn.source)
       /\ turn.done # NoId => Newest(turn.done)

\* Of two attempts about the same, the earlier one bought nothing.
BoughtOnce ==
  \A i, j \in Ids : i < j /\ attempts[i].of = attempts[j].of =>
    /\ attempts[i].tool = "prepare" /\ attempts[j].tool = "prepare" => history.paid[i] = 0
    /\ attempts[i].tool = "execute" => attempts[j].tool # "execute"

\* What one attempt bought, and what the record of a failure says happened.
Account(i) ==
  /\ attempts[i].account = None => history.paid[i] = 0
  /\ attempts[i].status = None => attempts[i].account = None
  /\ history.launched[i] <= 1 /\ history.paid[i] <= MaxDecisions
  /\ attempts[i].bound = "outputs" => attempts[i].receipt = "no_outputs" /\ history.launched[i] = 1
  /\ attempts[i].record = "missing_outputs" => attempts[i].bound = "outputs"
  /\ attempts[i].record = "process_failed" =>
       attempts[i].receipt \in {"error_a", "error_b", "stopped"} /\ history.launched[i] = 1

\* Where the process is inside the pending attempt.
Underway ==
  /\ pending.attempt # NoId => attempts[pending.attempt].status # "completed"
  /\ pc = "handling" => attempts[pending.attempt].account = None
  /\ pc = "deciding" => history.paid[pending.attempt] < MaxDecisions
  /\ pc = "exited" => attempts[pending.attempt].receipt \in Exits
  /\ pc = "recording" /\ attempts[pending.attempt].bound = None =>
       attempts[pending.attempt].receipt \in {"error_a", "error_b", "stopped"}

PaidRepairs(n) ==
  {j \in Ids : attempts[j].tool = "prepare" /\ j < n /\ attempts[j].of # NoId /\ history.paid[j] > 0}

\* A failure that may be repaired, by the attempt i.
Justified(i) ==
  LET d == attempts[i].of
  IN  /\ d \notin history.altered /\ history.launched[d] = 1
      /\ attempts[d].receipt \in {"no_outputs", "error_a", "error_b"}
      /\ attempts[d].account = "settled" /\ attempts[d].status = "completed"
      /\ contract = "ceiling" => Cardinality(PaidRepairs(i)) < MaxRepairs
      /\ contract = "shared" => ~ Stagnated(d)

\* A repair that is bought, or about to be.
Bought(i) == /\ attempts[i].tool = "prepare" /\ attempts[i].of # NoId
             /\ history.paid[i] > 0 \/ (pc \in {"deciding", "sent"} /\ i = pending.attempt)

\* The executions that were repaired before d are in every lineage of d.
Descends(d) ==
  \A j \in PaidRepairs(d) : \A S \in SUBSET Ids : d \in S /\ Closed(S) => attempts[j].of \in S

Repaired ==
  /\ \A i \in Ids : Bought(i) => Justified(i)
  /\ \A d \in Ids : attempts[d].tool = "execute" => Descends(d)

Accounts == \A i \in Ids : Account(i)

Chain == InOrder /\ Proposed /\ BoughtOnce /\ Accounts /\ Underway /\ Repaired


----------------------------------------------------------------------------
(* What no step undoes: the attempts that came before the pending one.      *)

\* What attempt n is about, and all that came before it.
SamePast(n) ==
  /\ contract' = contract
  /\ attempts'[n].tool = attempts[n].tool /\ attempts'[n].of = attempts[n].of
  /\ \A i \in Ids : i < n =>
       /\ attempts'[i] = attempts[i] /\ history'.paid[i] = history.paid[i]
       /\ history'.launched[i] = history.launched[i]
       /\ (i \in history'.altered <=> i \in history.altered)

LEMMA PaidRepairsStay ==
  ASSUME NEW n \in Ids, SamePast(n)
  PROVE  PaidRepairs(n)' = PaidRepairs(n)
BY DEF SamePast, PaidRepairs

\* The three attempts that a repair is judged by.
LEMMA Ancestors ==
  ASSUME IInv, InOrder, NEW n \in Ids, attempts[n].tool = "prepare", attempts[n].of # NoId
  PROVE  \E d, c \in Ids, e \in Ids \cup {NoId} :
           /\ d = attempts[n].of /\ c = attempts[d].of /\ e = attempts[c].of
           /\ attempts[d].tool = "execute" /\ attempts[c].tool = "prepare"
           /\ d < n /\ c < d /\ e < c
<1>1. PICK d \in Ids : d = attempts[n].of
  BY DEF IInv, Named, Exists
<1>2. attempts[d].tool = "execute" /\ d < n
  BY <1>1 DEF InOrder, Ordered
<1>3. PICK c \in Ids : c = attempts[d].of
  BY <1>2 DEF IInv, Named, Exists
<1>4. attempts[c].tool = "prepare" /\ c < d
  BY <1>2, <1>3, NoIdIsNone DEF InOrder, Ordered
<1>5. PICK e \in Ids \cup {NoId} : e = attempts[c].of
  BY DEF IInv, TypeOK, Attempt
<1>6. e < c
  BY <1>5 DEF InOrder, Ordered
<1> QED
  BY <1>1, <1>2, <1>3, <1>4, <1>5, <1>6

LEMMA JustifiedStays ==
  ASSUME IInv, InOrder, NEW n \in Ids, SamePast(n), attempts[n].tool = "prepare",
         attempts[n].of # NoId, Justified(n)
  PROVE  Justified(n)'
<1>1. PICK d \in Ids, c \in Ids, e \in Ids \cup {NoId} :
        /\ d = attempts[n].of /\ c = attempts[d].of /\ e = attempts[c].of
        /\ d < n /\ c < d /\ e < c
  BY Ancestors
<1>2. Ids \subseteq Nat /\ NoId \in Nat
  BY WorkAssumption DEF Ids, NoId
<1>3. c < n /\ e < n
  BY <1>1, <1>2
<1>4. attempts'[d] = attempts[d] /\ attempts'[c] = attempts[c]
      /\ (e # NoId => attempts'[e] = attempts[e]) /\ attempts'[n].of = d
  BY <1>1, <1>3 DEF SamePast
<1>5. history'.launched[d] = history.launched[d] /\ (d \in history'.altered <=> d \in history.altered)
  BY <1>1 DEF SamePast
<1>6. Stagnated(d)' <=> Stagnated(d)
  <2>1. Stagnated(d) <=> e # NoId /\ Signature(e) = Signature(d)
    BY <1>1 DEF Stagnated
  <2>2. Stagnated(d)' <=> e # NoId /\ Signature(e)' = Signature(d)'
    BY <1>1, <1>4 DEF Stagnated
  <2>3. Signature(d)' = Signature(d) /\ (e # NoId => Signature(e)' = Signature(e))
    BY <1>4 DEF Signature
  <2> QED
    BY <2>1, <2>2, <2>3
<1>7. PaidRepairs(n)' = PaidRepairs(n) /\ contract' = contract
  BY PaidRepairsStay DEF SamePast
<1>8. Stagnated(attempts[n].of)' <=> Stagnated(d)'
  BY <1>4 DEF Stagnated, Signature
<1> QED
  BY <1>1, <1>4, <1>5, <1>6, <1>7, <1>8 DEF Justified

LEMMA ClosedStays ==
  ASSUME IInv, \A i \in Ids : attempts[i].of # NoId => attempts'[i].of = attempts[i].of,
         NEW S \in SUBSET Ids, Closed(S)'
  PROVE  Closed(S)
<1> SUFFICES ASSUME NEW i \in S, attempts[i].of # NoId, attempts[attempts[i].of].of # NoId
             PROVE  attempts[attempts[i].of].of \in S
  BY DEF Closed
<1>1. PICK c \in Ids : c = attempts[i].of
  BY DEF IInv, Named, Exists
<1>2. attempts'[i].of = c /\ attempts'[c].of = attempts[c].of
  BY <1>1
<1> QED
  BY <1>1, <1>2, NoIdIsNone DEF Closed

LEMMA DescendsStays ==
  ASSUME IInv, \A i \in Ids : attempts[i].of # NoId => attempts'[i].of = attempts[i].of,
         NEW n \in Ids, SamePast(n), Descends(n)
  PROVE  Descends(n)'
<1> SUFFICES ASSUME NEW j \in PaidRepairs(n)', NEW S \in SUBSET Ids, n \in S, Closed(S)'
             PROVE  attempts'[j].of \in S
  BY DEF Descends
<1>1. j \in PaidRepairs(n)
  BY PaidRepairsStay
<1>2. attempts[j].of \in S
  BY <1>1, ClosedStays DEF Descends
<1>3. attempts'[j].of = attempts[j].of
  BY <1>1 DEF PaidRepairs
<1> QED
  BY <1>2, <1>3

----------------------------------------------------------------------------
(* A step that writes the pending attempt and no other.                     *)

Touches ==
  /\ contract' = contract
  /\ \A i \in Ids : attempts'[i].tool = attempts[i].tool /\ attempts'[i].of = attempts[i].of
  /\ \A i \in Ids : i # pending.attempt =>
       /\ attempts'[i] = attempts[i] /\ history'.paid[i] = history.paid[i]
       /\ history'.launched[i] = history.launched[i]
       /\ (i \in history'.altered <=> i \in history.altered)

LEMMA TouchesPast ==
  ASSUME Chain, Touches, NEW n \in Ids, attempts[n].tool # None
  PROVE  SamePast(n)
<1>1. Ids \subseteq Nat
  BY WorkAssumption DEF Ids
<1>2. \A i \in Ids : i < n => i # pending.attempt
  <2> SUFFICES ASSUME NEW i \in Ids, i < n, i = pending.attempt PROVE FALSE
    OBVIOUS
  <2>1. Newest(i)
    BY NoIdIsNone DEF Chain, InOrder
  <2> QED
    BY <1>1, <2>1 DEF Newest
<1> QED
  BY <1>2 DEF Touches, SamePast

LEMMA TouchChain ==
  ASSUME IInv, IInv', Chain, Touches, pending'.attempt \in {pending.attempt, NoId},
         Proposed', Underway', NEW p, p = pending.attempt,
         p # NoId => Account(p)' /\ (Bought(p)' => Justified(p))
  PROVE  Chain'
<1>1. Ids \subseteq Nat /\ NoId \notin Ids
  BY WorkAssumption, NoIdIsNone DEF Ids
<1>2. \A j : Newest(j) => Newest(j)'
  BY DEF Newest, Exists, Touches
<1>3. InOrder'
  <2>1. \A i \in Ids : attempts[i].of # NoId =>
          attempts[i].of \in Ids /\ attempts'[attempts[i].of].tool = attempts[attempts[i].of].tool
    BY DEF IInv, Named, Exists, Touches
  <2>2. Ordered'
    BY <2>1 DEF Chain, InOrder, Ordered, Touches
  <2>3. pending'.attempt # NoId => Newest(pending.attempt)'
    <3> SUFFICES ASSUME pending'.attempt # NoId PROVE Newest(pending.attempt)'
      OBVIOUS
    <3>1. Newest(p) /\ pending'.attempt = p
      BY DEF Chain, InOrder
    <3>2. Newest(p)'
      BY <3>1, <1>2
    <3> QED
      BY <3>1, <3>2 DEF Newest, Exists
  <2> QED
    BY <2>2, <2>3 DEF InOrder
<1>4. BoughtOnce'
  <2> SUFFICES ASSUME NEW i \in Ids, NEW j \in Ids, i < j, attempts'[i].of = attempts'[j].of
               PROVE  /\ attempts'[i].tool = "prepare" /\ attempts'[j].tool = "prepare" => history'.paid[i] = 0
                      /\ attempts'[i].tool = "execute" => attempts'[j].tool # "execute"
    BY DEF BoughtOnce
  <2>1. CASE i = p
    <3>1. Newest(i) /\ i \in Nat /\ j \in Nat
      BY <2>1, <1>1 DEF Chain, InOrder
    <3>2. attempts'[j].tool = None
      BY <3>1 DEF Newest, Touches
    <3> QED
      BY <3>2 DEF None
  <2>2. CASE i # p
    BY <2>2 DEF Chain, BoughtOnce, Touches
  <2> QED
    BY <2>1, <2>2
<1>5. Accounts'
  <2> SUFFICES ASSUME NEW i \in Ids PROVE Account(i)'
    BY DEF Accounts
  <2>1. CASE i = p
    BY <2>1, <1>1
  <2>2. CASE i # p
    <3>1. attempts'[i] = attempts[i] /\ history'.paid[i] = history.paid[i]
          /\ history'.launched[i] = history.launched[i] /\ Account(i)
      BY <2>2 DEF Touches, Chain, Accounts
    <3> QED
      BY <3>1 DEF Account
  <2> QED
    BY <2>1, <2>2
<1>6. Repaired'
  <2>1. ASSUME NEW i \in Ids, Bought(i)' PROVE Justified(i)'
    <3>1. attempts[i].tool = "prepare" /\ attempts[i].of # NoId /\ attempts[i].tool # None
      BY <2>1 DEF Bought, Touches, None
    <3>2. Justified(i)
      <4>1. CASE i = p
        BY <2>1, <1>1, <4>1
      <4>2. CASE i # p
        <5>1. i # pending'.attempt
          BY <4>2, <1>1
        <5>2. history'.paid[i] > 0 /\ history'.paid[i] = history.paid[i]
          BY <2>1, <4>2, <5>1 DEF Bought, Touches
        <5>3. Bought(i)
          BY <3>1, <5>2 DEF Bought
        <5> QED
          BY <5>3 DEF Chain, Repaired
      <4> QED
        BY <4>1, <4>2
    <3> QED
      BY <3>1, <3>2, TouchesPast, JustifiedStays DEF Chain
  <2>2. ASSUME NEW d \in Ids, attempts'[d].tool = "execute" PROVE Descends(d)'
    <3>1. attempts[d].tool = "execute" /\ attempts[d].tool # None
      BY <2>2 DEF Touches, None
    <3>2. SamePast(d) /\ Descends(d)
      BY <3>1, TouchesPast DEF Chain, Repaired
    <3>3. \A i \in Ids : attempts[i].of # NoId => attempts'[i].of = attempts[i].of
      BY DEF Touches
    <3> QED
      BY <3>2, <3>3, DescendsStays
  <2> QED
    BY <2>1, <2>2 DEF Repaired
<1> QED
  BY <1>3, <1>4, <1>5, <1>6 DEF Chain


LEMMA ProposedStays ==
  ASSUME IInv, Chain, Touches, turn' = turn, pending'.attempt = pending.attempt
  PROVE  Proposed'
<1>1. (turn.queued => turn.done = NoId) /\ (pending.attempt # NoId => turn.queued)
  BY DEF Chain, Proposed
<1>2. CASE pending.attempt # NoId
  BY <1>1, <1>2 DEF Proposed
<1>3. CASE pending.attempt = NoId
  <2>1. \A i \in Ids : attempts'[i] = attempts[i]
    BY <1>3, NoIdIsNone DEF Touches
  <2>2. PICK call, source, done : call = turn.call /\ source = turn.source /\ done = turn.done
    OBVIOUS
  <2>3. \A i : Newest(i) => Newest(i)'
    BY <2>1 DEF Newest, Exists
  <2>4. turn.queued => Follows(call, source)
    BY <1>3, <2>2 DEF Chain, Proposed
  <2>5. turn.queued => Follows(call, source)'
    BY <2>1, <2>3, <2>4 DEF Follows, Newest, Exists
  <2>6. turn'.call = call /\ turn'.source = source /\ turn'.done = done /\ turn'.queued = turn.queued
    BY <2>2
  <2>7. Follows(turn.call, turn.source)' <=> Follows(call, source)'
    BY <2>6 DEF Follows, Newest, Exists
  <2>8. (call.stop # None => Newest(source)) /\ (done # NoId => Newest(done))
    BY <1>3, <2>2 DEF Chain, Proposed
  <2>9. (call.stop # None => Newest(source)') /\ (done # NoId => Newest(done)')
    BY <2>3, <2>8
  <2> QED
    BY <1>1, <1>3, <2>5, <2>6, <2>7, <2>9 DEF Proposed, Newest, Exists
<1> QED
  BY <1>2, <1>3

\* A step that buys nothing, starts nothing and records nothing.
Quiet ==
  /\ contract' = contract /\ turn' = turn /\ pending'.attempt = pending.attempt /\ history' = history
  /\ \A i \in Ids :
       /\ attempts'[i].tool = attempts[i].tool /\ attempts'[i].of = attempts[i].of
       /\ attempts'[i].account = attempts[i].account /\ attempts'[i].receipt = attempts[i].receipt
       /\ attempts'[i].bound = attempts[i].bound /\ attempts'[i].record = attempts[i].record
       /\ attempts'[i].status = None => attempts[i].status = None
       /\ i # pending.attempt => attempts'[i] = attempts[i]
  /\ pending.attempt # NoId => attempts'[pending.attempt].status # "completed"
  /\ pc' = "handling" => attempts[pending.attempt].account = None
  /\ pc' \in {"deciding", "sent", "exited", "recording"} => pc' = pc

LEMMA QuietChain ==
  ASSUME IInv, IInv', Chain, Quiet
  PROVE  Chain'
<1>1. PICK p : p = pending.attempt
  OBVIOUS
<1>2. Touches
  BY DEF Quiet, Touches
<1>3. Proposed'
  BY <1>2, ProposedStays DEF Quiet
<1>4. p # NoId => p \in Ids
  BY <1>1 DEF IInv, TypeOK
<1>5. p # NoId => Account(p)'
  <2> SUFFICES ASSUME p \in Ids PROVE Account(p)'
    BY <1>4
  <2>1. Account(p) /\ history' = history
    BY DEF Chain, Accounts, Quiet
  <2> QED
    BY <2>1 DEF Account, Quiet
<1>6. p # NoId /\ Bought(p)' => Justified(p)
  <2> SUFFICES ASSUME p \in Ids, Bought(p)' PROVE Justified(p)
    BY <1>4
  <2>1. Bought(p)
    BY DEF Bought, Quiet
  <2> QED
    BY <2>1 DEF Chain, Repaired
<1>7. Underway'
  <2>1. pc' \notin Idle => pending'.attempt # NoId
    BY DEF IInv, Inside
  <2>2. p # NoId => attempts'[p].account = attempts[p].account /\ attempts'[p].receipt = attempts[p].receipt
                    /\ attempts'[p].bound = attempts[p].bound
    BY <1>4 DEF Quiet
  <2> QED
    BY <1>1, <2>1, <2>2 DEF Chain, Underway, Quiet, Idle
<1> QED
  BY <1>1, <1>2, <1>3, <1>5, <1>6, <1>7, TouchChain DEF Quiet

\* Such a step as one write of the pending attempt.
LEMMA QuietWrite ==
  ASSUME IInv, IInv', Chain, NEW STATE r, pending.attempt # NoId,
         attempts' = [attempts EXCEPT ![pending.attempt] = r], Leaves(pending.attempt, r),
         r.account = attempts[pending.attempt].account, r.status # "completed",
         UNCHANGED <<contract, turn, history>>, pending'.attempt = pending.attempt,
         pc' \notin {"handling", "deciding", "sent", "exited", "recording"}
  PROVE  Chain'
<1>1. pending.attempt \in Ids /\ attempts \in [Ids -> Attempt]
  BY DEF IInv, TypeOK
<1>2. attempts'[pending.attempt] = r /\ \A i \in Ids : i # pending.attempt => attempts'[i] = attempts[i]
  BY <1>1
<1>3. Quiet
  BY <1>1, <1>2 DEF Quiet, Leaves
<1> QED
  BY <1>3, QuietChain

\* ... and as none.
LEMMA QuietStand ==
  ASSUME IInv, IInv', Chain, UNCHANGED <<contract, attempts, turn, history>>,
         pending'.attempt = pending.attempt,
         pc' = pc \/ pc' \notin {"handling", "deciding", "sent", "exited", "recording"}
  PROVE  Chain'
<1>1. Quiet
  BY DEF Quiet, Chain, Underway
<1> QED
  BY <1>1, QuietChain


----------------------------------------------------------------------------
(* The quiet steps.                                                         *)

LEMMA Underwent ==
  ASSUME IInv, Chain, pending.attempt # NoId
  PROVE  /\ pending.attempt \in Ids /\ attempts[pending.attempt] \in Attempt
         /\ attempts[pending.attempt].status # "completed"
BY DEF IInv, TypeOK, Chain, Underway

LEMMA FailChain ==
  ASSUME IInv, IInv', Chain, pending.attempt # NoId, attempts[pending.attempt].status # None,
         NEW STATE reason, NEW STATE entered, Fail(pending.attempt, reason, entered),
         pc' = "observed", UNCHANGED <<contract, turn, pending, edited, wallet, crashes, history>>
  PROVE  Chain'
<1> DEFINE i == pending.attempt
           r == [attempts[i] EXCEPT !.seen = reason, !.entered = entered]
<1>1. attempts' = [attempts EXCEPT ![i] = r]
  BY DEF Fail
<1>2. /\ r.tool = attempts[i].tool /\ r.of = attempts[i].of /\ r.account = attempts[i].account
      /\ r.receipt = attempts[i].receipt /\ r.bound = attempts[i].bound /\ r.record = attempts[i].record
      /\ r.status = attempts[i].status /\ r.read = attempts[i].read
  BY Underwent DEF Attempt
<1> HIDE DEF r
<1> QED
  BY <1>1, <1>2, Underwent, QuietWrite DEF Leaves

LEMMA SeenChain ==
  ASSUME IInv, IInv', Chain, pending.attempt # NoId, attempts[pending.attempt].status # None,
         NEW STATE seen, attempts' = [attempts EXCEPT ![pending.attempt].seen = seen],
         pc' = "observed", UNCHANGED <<contract, turn, pending, edited, wallet, crashes, history>>
  PROVE  Chain'
<1> DEFINE i == pending.attempt
           r == [attempts[i] EXCEPT !.seen = seen]
<1>1. attempts' = [attempts EXCEPT ![i] = r]
  OBVIOUS
<1>2. /\ r.tool = attempts[i].tool /\ r.of = attempts[i].of /\ r.account = attempts[i].account
      /\ r.receipt = attempts[i].receipt /\ r.bound = attempts[i].bound /\ r.record = attempts[i].record
      /\ r.status = attempts[i].status /\ r.read = attempts[i].read
  BY Underwent DEF Attempt
<1> HIDE DEF r
<1> QED
  BY <1>1, <1>2, Underwent, QuietWrite DEF Leaves

LEMMA StatusChain ==
  ASSUME IInv, IInv', Chain, pending.attempt # NoId, NEW STATE status,
         status \in {"running", "failed", "interrupted"},
         attempts' = [attempts EXCEPT ![pending.attempt].status = status],
         pc' = "down" \/ (pc' = "handling" /\ attempts[pending.attempt].account = None),
         UNCHANGED <<contract, turn, pending, edited, wallet, crashes, history>>
  PROVE  Chain'
<1> DEFINE i == pending.attempt
           r == [attempts[i] EXCEPT !.status = status]
<1>1. attempts' = [attempts EXCEPT ![i] = r]
  OBVIOUS
<1>2. /\ r.tool = attempts[i].tool /\ r.of = attempts[i].of /\ r.account = attempts[i].account
      /\ r.receipt = attempts[i].receipt /\ r.bound = attempts[i].bound /\ r.record = attempts[i].record
      /\ r.status = status
  BY Underwent DEF Attempt
<1> HIDE DEF r
<1>3. i \in Ids /\ attempts'[i] = r /\ \A j \in Ids : j # i => attempts'[j] = attempts[j]
  BY <1>1, Underwent DEF IInv, TypeOK
<1>4. Quiet
  BY <1>2, <1>3 DEF Quiet, None
<1> QED
  BY <1>4, QuietChain

LEMMA PendingHere ==
  ASSUME IInv, pc \notin Idle
  PROVE  pending.attempt # NoId /\ attempts[pending.attempt].status # None
BY DEF IInv, Inside

LEMMA NoRequestLeftChains == ASSUME IInv, IInv', Chain, NoRequestLeft PROVE Chain'
BY FailChain, PendingHere DEF NoRequestLeft, Idle

LEMMA PublishCandidateChains == ASSUME IInv, IInv', Chain, PublishCandidate PROVE Chain'
<1> DEFINE i == pending.attempt
           r == [attempts[i] EXCEPT !.candidate = TRUE]
<1>1. i # NoId /\ attempts[i].status # None
  BY PendingHere DEF PublishCandidate, Idle
<1>2. CASE InputsHold(i)
  <2>1. attempts' = [attempts EXCEPT ![i] = r] /\ pc' = "validating"
    BY <1>2 DEF PublishCandidate
  <2>2. Leaves(i, r) /\ r.account = attempts[i].account /\ r.status = attempts[i].status
    BY <1>1, Underwent DEF Attempt, Leaves
  <2> HIDE DEF r
  <2> QED
    BY <1>1, <2>1, <2>2, Underwent, QuietWrite DEF PublishCandidate
<1>3. CASE ~ InputsHold(i)
  BY <1>1, <1>3, FailChain DEF PublishCandidate
<1> QED
  BY <1>2, <1>3

LEMMA SavePreparedChains == ASSUME IInv, IInv', Chain, SavePrepared PROVE Chain'
<1> DEFINE i == pending.attempt
           r == [attempts[i] EXCEPT !.result = TRUE]
<1>1. i # NoId /\ attempts[i].status # None
  BY PendingHere DEF SavePrepared, Idle
<1>2. CASE InputsHold(i)
  <2>1. attempts' = [attempts EXCEPT ![i] = r] /\ pc' = "prepared"
    BY <1>2 DEF SavePrepared
  <2>2. Leaves(i, r) /\ r.account = attempts[i].account /\ r.status = attempts[i].status
    BY <1>1, Underwent DEF Attempt, Leaves
  <2> HIDE DEF r
  <2> QED
    BY <1>1, <2>1, <2>2, Underwent, QuietWrite DEF SavePrepared
<1>3. CASE ~ InputsHold(i)
  BY <1>1, <1>3, FailChain DEF SavePrepared
<1> QED
  BY <1>2, <1>3

LEMMA SavePreparedObservationChains ==
  ASSUME IInv, IInv', Chain, SavePreparedObservation PROVE Chain'
BY SeenChain, PendingHere DEF SavePreparedObservation, Idle

LEMMA SaveExecutionObservationChains ==
  ASSUME IInv, IInv', Chain, SaveExecutionObservation PROVE Chain'
BY SeenChain, PendingHere DEF SaveExecutionObservation, Idle

LEMMA SaveExecutionInputChains == ASSUME IInv, IInv', Chain, SaveExecutionInput PROVE Chain'
<1> DEFINE i == pending.attempt
           r == [attempts[i] EXCEPT !.input = TRUE]
<1>1. i # NoId /\ attempts[i].status # None
  BY PendingHere DEF SaveExecutionInput, Handles, Idle
<1>2. CASE ~ pending.approved
  BY <1>1, <1>2, SeenChain DEF SaveExecutionInput
<1>3. CASE pending.approved /\ ~ Executable(attempts[i].of)
  BY <1>1, <1>3, StatusChain DEF SaveExecutionInput, RaiseOut
<1>4. CASE pending.approved /\ Executable(attempts[i].of)
  <2>1. attempts' = [attempts EXCEPT ![i] = r] /\ pc' = "bound"
    BY <1>4 DEF SaveExecutionInput
  <2>2. Leaves(i, r) /\ r.account = attempts[i].account /\ r.status = attempts[i].status
    BY <1>1, Underwent DEF Attempt, Leaves
  <2> HIDE DEF r
  <2> QED
    BY <1>1, <2>1, <2>2, Underwent, QuietWrite DEF SaveExecutionInput
<1> QED
  BY <1>2, <1>3, <1>4

LEMMA CheckApprovedBytesChains == ASSUME IInv, IInv', Chain, CheckApprovedBytes PROVE Chain'
<1>1. pending.attempt # NoId
  BY PendingHere DEF CheckApprovedBytes, Idle
<1>2. CASE Unchanged(attempts[pending.attempt].of)
  BY <1>2, QuietStand DEF CheckApprovedBytes
<1>3. CASE ~ Unchanged(attempts[pending.attempt].of)
  BY <1>1, <1>3, StatusChain DEF CheckApprovedBytes, RaiseOut
<1> QED
  BY <1>2, <1>3

LEMMA ResolveSnapshotChains == ASSUME IInv, IInv', Chain, ResolveSnapshot PROVE Chain'
<1>1. pending.attempt # NoId /\ attempts[pending.attempt].status # None
  BY PendingHere DEF ResolveSnapshot, Idle
<1>2. CASE Unchanged(attempts[pending.attempt].of)
  BY <1>2, QuietStand DEF ResolveSnapshot
<1>3. CASE ~ Unchanged(attempts[pending.attempt].of)
  BY <1>1, <1>3, SeenChain DEF ResolveSnapshot
<1> QED
  BY <1>2, <1>3

LEMMA BeginChains ==
  ASSUME IInv, IInv', Chain, BeginPreparation \/ BeginExecution
  PROVE  Chain'
<1>1. pending.attempt # NoId /\ attempts[pending.attempt].status = None
  BY DEF BeginPreparation, BeginExecution, AtCall
<1>2. attempts[pending.attempt].account = None
  BY <1>1, Underwent DEF Chain, Accounts, Account
<1> QED
  BY <1>1, <1>2, StatusChain DEF BeginPreparation, BeginExecution, Began

LEMMA RecoverPreparationChains == ASSUME IInv, IInv', Chain, RecoverPreparation PROVE Chain'
<1>1. pending.attempt # NoId /\ attempts[pending.attempt].status # None /\ pc' = "observed"
      /\ UNCHANGED <<contract, turn, pending, edited, wallet, crashes, history>>
  BY DEF RecoverPreparation, Recovers, AtCall, None
<1>2. CASE Fail(pending.attempt, "owner_failed", TRUE)
  BY <1>1, <1>2, FailChain
<1>3. CASE attempts' = [attempts EXCEPT ![pending.attempt].seen = "ok"]
  BY <1>1, <1>3, SeenChain
<1> QED
  BY <1>2, <1>3 DEF RecoverPreparation

LEMMA AdoptObservationChains == ASSUME IInv, IInv', Chain, AdoptObservation PROVE Chain'
<1>1. pending.attempt # NoId /\ attempts[pending.attempt].status # None /\ pc' = "observed"
      /\ UNCHANGED <<contract, turn, pending, edited, wallet, crashes, history>>
  BY DEF AdoptObservation, Recovers, AtCall, None
<1>2. CASE attempts' = attempts
  BY <1>1, <1>2, QuietStand
<1>3. CASE attempts' # attempts
  <2>1. PICK seen : seen = IF attempts[pending.attempt].seen = None THEN "interrupted"
                           ELSE attempts[pending.attempt].seen
    OBVIOUS
  <2>2. attempts' = [attempts EXCEPT ![pending.attempt].seen = seen]
    BY <1>3, <2>1 DEF AdoptObservation
  <2> QED
    BY <1>1, <2>2, SeenChain
<1> QED
  BY <1>2, <1>3

LEMMA ConfirmInterruptionChains == ASSUME IInv, IInv', Chain, ConfirmInterruption PROVE Chain'
BY StatusChain DEF ConfirmInterruption

LEMMA StandingChains ==
  ASSUME IInv, IInv', Chain,
         \/ \E given \in BOOLEAN : AskApproval(given)
         \/ RecoverExecution \/ NoDurableResult \/ Resume \/ Grant \/ Crash
         \/ \E file \in {Material} \cup Ids : Edit(file)
         \/ UNCHANGED vars
  PROVE  Chain'
<1>1. CASE \E given \in BOOLEAN : AskApproval(given)
  <2>1. PICK given \in BOOLEAN : AskApproval(given)
    BY <1>1
  <2>2. pending'.attempt = pending.attempt
    BY <2>1 DEF AskApproval, IInv, TypeOK
  <2>3. pc' \in {"loop", "down"} /\ UNCHANGED <<contract, attempts, turn, history>>
    BY <2>1 DEF AskApproval
  <2> QED
    BY <2>2, <2>3, QuietStand
<1>2. CASE RecoverExecution
  <2>1. pc' \in {"executed", "down", "observed", "settling"}
    BY <1>2 DEF RecoverExecution
  <2> QED
    BY <1>2, <2>1, QuietStand DEF RecoverExecution
<1>3. CASE NoDurableResult \/ Resume \/ Grant \/ Crash
  BY <1>3, QuietStand DEF NoDurableResult, Resume, Grant, Crash
<1>4. CASE \E file \in {Material} \cup Ids : Edit(file)
  BY <1>4, QuietStand DEF Edit
<1>5. CASE UNCHANGED vars
  BY <1>5, QuietStand DEF vars
<1> QED
  BY <1>1, <1>2, <1>3, <1>4, <1>5


----------------------------------------------------------------------------
(* What RepairRefusal lets through is justified.                            *)

\* Every repair that was bought before i diagnosed another execution in the
\* lineage of the one that i diagnoses, so they are no more than its repairs.
LEMMA LineageCounts ==
  ASSUME IInv, Chain, NEW i \in Ids, NEW d \in Ids, attempts[i].tool = "prepare", d = attempts[i].of
  PROVE  /\ Cardinality(PaidRepairs(i)) \in Nat /\ Repairs(d) \in Int
         /\ Cardinality(PaidRepairs(i)) <= Repairs(d)
<1> DEFINE P == PaidRepairs(i)
           L == Lineage(d)
           f == [j \in P |-> attempts[j].of]
<1>1. Ids \subseteq Nat /\ NoId \notin Ids /\ IsFiniteSet(Ids) /\ d # NoId
  <2>1. 1 \in Int /\ MaxId \in Int /\ 1 .. MaxId \subseteq Nat
    BY WorkAssumption
  <2>2. IsFiniteSet(1 .. MaxId)
    BY ONLY <2>1, FS_Interval
  <2> QED
    BY <2>1, <2>2, NoIdIsNone DEF Ids
<1>2. L \subseteq Ids /\ d \in L
  BY <1>1 DEF Lineage
<1>3. attempts[d].tool = "execute"
  BY <1>1, NoIdIsNone DEF Chain, InOrder, Ordered
<1>4. ASSUME NEW j \in P, NEW k \in P, j < k, attempts[j].of = attempts[k].of PROVE FALSE
  BY <1>4, <1>1 DEF PaidRepairs, Chain, BoughtOnce
<1>5. ASSUME NEW j \in P PROVE attempts[j].of \in L \ {d}
  <2>1. j \in Ids /\ j < i /\ attempts[j].tool = "prepare" /\ attempts[j].of # NoId /\ history.paid[j] > 0
    BY DEF PaidRepairs
  <2>2. attempts[j].of # d
    BY <2>1, <1>1 DEF Chain, BoughtOnce
  <2>3. attempts[j].of \in Ids /\ attempts[j].of <= d
    BY <2>1 DEF Chain, InOrder, Ordered, IInv, Named, Exists
  <2>4. j < d
    <3>1. CASE d < j
      <4>1. d <= attempts[j].of
        BY <2>1, <1>3, <3>1 DEF Chain, InOrder, Ordered
      <4>2. FALSE
        <5>1. d \in Nat /\ attempts[j].of \in Nat
          BY <2>3, <1>1
        <5> QED
          BY <4>1, <5>1, <2>2, <2>3
      <4> QED
        BY <4>2
    <3>2. j # d
      BY <2>1, <1>3
    <3> QED
      BY <3>1, <3>2, <2>1, <1>1
  <2>5. j \in PaidRepairs(d)
    BY <2>1, <2>4 DEF PaidRepairs
  <2>6. \A S \in SUBSET Ids : d \in S /\ Closed(S) => attempts[j].of \in S
    BY <1>3, <2>5 DEF Chain, Repaired, Descends
  <2>7. attempts[j].of \in L
    BY <1>1, <2>3, <2>6 DEF Lineage
  <2> QED
    BY <2>2, <2>7
<1>6. f \in Injection(P, L \ {d})
  <2>1. f \in [P -> L \ {d}]
    BY <1>5
  <2>2. \A j, k \in P : f[j] = f[k] => j = k
    <3> SUFFICES ASSUME NEW j \in P, NEW k \in P, attempts[j].of = attempts[k].of PROVE j = k
      OBVIOUS
    <3>1. j \in Nat /\ k \in Nat
      BY <1>1 DEF PaidRepairs
    <3>2. ~ (j < k) /\ ~ (k < j)
      BY <1>4
    <3> QED
      BY <3>1, <3>2
  <2> HIDE DEF f, P, L
  <2> QED
    BY <2>1, <2>2 DEF Injection, IsInjective
<1> HIDE DEF f, P, L
<1>7. IsFiniteSet(L)
  BY <1>1, <1>2, FS_Subset
<1>8. IsFiniteSet(L \ {d}) /\ Cardinality(L \ {d}) = Cardinality(L) - 1
  BY <1>2, <1>7, FS_RemoveElement
<1>9. IsFiniteSet(P) /\ Cardinality(P) <= Cardinality(L \ {d})
  BY <1>6, <1>8, FS_Injection
<1>10. Cardinality(P) \in Nat /\ Cardinality(L) \in Nat
  BY <1>7, <1>9, FS_CardinalityType
<1> QED
  BY <1>8, <1>9, <1>10 DEF P, L, Repairs

LEMMA UnrefusedIsJustified ==
  ASSUME IInv, Chain, NEW i \in Ids, attempts[i].tool = "prepare", attempts[i].of # NoId,
         RepairRefusal(attempts[i].of) = None
  PROVE  Justified(i)
<1>1. PICK d \in Ids : d = attempts[i].of
  BY DEF IInv, Named, Exists
<1>2. d # NoId /\ d \in Lineage(d)
  BY <1>1, NoIdIsNone DEF Lineage
<1>3. /\ \A j \in Lineage(d) : SettledFailure(j)
      /\ contract = "ceiling" => ~ (Repairs(d) >= MaxRepairs)
      /\ contract = "shared" => ~ Stagnated(d)
  BY <1>1 DEF RepairRefusal, None
<1>4. SettledFailure(d)
  BY <1>2, <1>3
<1>5. /\ attempts[d].status = "completed" /\ attempts[d].account = "settled"
      /\ attempts[d].record \in {"process_failed", "missing_outputs"}
      /\ attempts[d].receipt # "stopped" /\ Unchanged(attempts[d].of)
  BY <1>4 DEF SettledFailure, Accepted
<1>6. Account(d)
  BY DEF Chain, Accounts
<1>7. attempts[d].receipt \in {"no_outputs", "error_a", "error_b"} /\ history.launched[d] = 1
  BY <1>5, <1>6 DEF Account
<1>8. d \notin history.altered
  BY <1>5 DEF IInv, Launches
<1>9. contract = "ceiling" => Cardinality(PaidRepairs(i)) < MaxRepairs
  BY <1>1, <1>3, LineageCounts, WorkAssumption
<1> QED
  BY <1>1, <1>3, <1>5, <1>7, <1>8, <1>9 DEF Justified

----------------------------------------------------------------------------
(* The steps that ask the model, and those of a command.                    *)

\* One write of the pending attempt, with what it must not break.
LEMMA LoudWrite ==
  ASSUME IInv, IInv', Chain, NEW STATE r, pending.attempt # NoId,
         attempts' = [attempts EXCEPT ![pending.attempt] = r],
         r.tool = attempts[pending.attempt].tool, r.of = attempts[pending.attempt].of,
         UNCHANGED <<contract, turn, pending>>,
         \A i \in Ids : i # pending.attempt =>
            /\ history'.paid[i] = history.paid[i] /\ history'.launched[i] = history.launched[i]
            /\ (i \in history'.altered <=> i \in history.altered),
         Underway',
         NEW p, p = pending.attempt, Account(p)', Bought(p)' => Justified(p)
  PROVE  Chain'
<1>1. p \in Ids /\ attempts \in [Ids -> Attempt]
  BY DEF IInv, TypeOK
<1>2. attempts'[p] = r /\ \A i \in Ids : i # p => attempts'[i] = attempts[i]
  BY <1>1
<1>3. Touches
  BY <1>1, <1>2 DEF Touches
<1>4. Proposed'
  BY <1>3, ProposedStays
<1> QED
  BY <1>3, <1>4, TouchChain


\* A step inside the pending attempt that buys nothing.
LEMMA OwnerWrite ==
  ASSUME IInv, IInv', Chain, NEW STATE r, pc \notin Idle,
         attempts' = [attempts EXCEPT ![pending.attempt] = r],
         r.tool = attempts[pending.attempt].tool, r.of = attempts[pending.attempt].of,
         UNCHANGED <<contract, turn, pending, history>>, Underway',
         NEW p, p = pending.attempt, Account(p)',
         pc' \in {"deciding", "sent"} => pc \in {"deciding", "sent"} \/ history.paid[p] > 0
  PROVE  Chain'
<1>1. p \in Ids /\ p # NoId
  BY InAttempt, NoIdIsNone
<1>2. attempts'[p] = r
  BY <1>1 DEF IInv, TypeOK
<1>3. Bought(p)' => Bought(p)
  BY <1>2 DEF Bought
<1> QED
  BY <1>1, <1>3, LoudWrite DEF Chain, Repaired

LEMMA StartPreparationChains == ASSUME IInv, IInv', Chain, StartPreparation PROVE Chain'
<1> DEFINE i == pending.attempt
           r == [attempts[i] EXCEPT !.read = MaterialVersion]
           refusal == IF attempts[i].of = NoId THEN None ELSE RepairRefusal(attempts[i].of)
<1>1. pc = "handling" /\ pc \notin Idle /\ attempts[i].tool = "prepare" /\ i # NoId
      /\ attempts[i].status # None
  BY PendingHere DEF StartPreparation, Handles, Idle
<1>2. UNCHANGED <<contract, turn, pending, edited, wallet, crashes, history>>
  BY DEF StartPreparation
<1>3. CASE refusal # None
  <2>1. pc' = "observed" /\ (Fail(i, "owner_failed", FALSE) \/ Fail(i, refusal, TRUE))
    BY <1>3 DEF StartPreparation
  <2> HIDE DEF refusal
  <2> QED
    BY <1>1, <1>2, <2>1, FailChain
<1>4. CASE refusal = None /\ ~ Affordable(Floor)
  <2>1. Fail(i, "shared_budget_exhausted", TRUE) /\ pc' = "observed"
    BY <1>4 DEF StartPreparation
  <2> QED
    BY <1>1, <1>2, <2>1, FailChain
<1>5. CASE refusal = None /\ Affordable(Floor)
  <2>1. attempts' = [attempts EXCEPT ![i] = r] /\ pc' = "deciding"
    BY <1>5 DEF StartPreparation
  <2>2. PICK p \in Ids : p = i
    BY <1>1, Underwent
  <2>3. /\ r.tool = attempts[i].tool /\ r.of = attempts[i].of /\ r.account = attempts[i].account
        /\ r.receipt = attempts[i].receipt /\ r.bound = attempts[i].bound
        /\ r.record = attempts[i].record /\ r.status = attempts[i].status
    BY <1>1, Underwent DEF Attempt
  <2>4. Account(p) /\ attempts[p].account = None /\ history.paid[p] = 0
    BY <1>1, <2>2 DEF Chain, Accounts, Account, Underway
  <2> HIDE DEF r
  <2>5. attempts'[p] = r
    BY <2>1, <2>2 DEF IInv, TypeOK
  <2>6. Account(p)'
    BY <1>2, <2>2, <2>3, <2>4, <2>5 DEF Account
  <2>7. Underway'
    BY <1>1, <1>2, <2>1, <2>2, <2>3, <2>4, <2>5, Underwent, WorkAssumption DEF Underway
  <2>8. attempts[p].of # NoId => Justified(p)
    BY <1>1, <1>5, <2>2, UnrefusedIsJustified
  <2>9. Bought(p)' => Justified(p)
    BY <2>2, <2>3, <2>5, <2>8 DEF Bought
  <2> QED
    BY <1>1, <1>2, <2>1, <2>2, <2>3, <2>6, <2>7, <2>9, LoudWrite
<1> QED
  BY <1>3, <1>4, <1>5

LEMMA SendDecisionChains == ASSUME IInv, IInv', Chain, SendDecision PROVE Chain'
<1> DEFINE i == pending.attempt
           r == [attempts[i] EXCEPT !.account = "open"]
<1>1. pc = "deciding" /\ pc \notin Idle /\ i # NoId /\ attempts[i].status # None /\ pc' = "sent"
      /\ UNCHANGED <<contract, turn, pending>>
  BY PendingHere DEF SendDecision, Idle
<1>2. attempts' = [attempts EXCEPT ![i] = r]
  BY DEF SendDecision
<1>3. PICK p \in Ids : p = i
  BY <1>1, Underwent
<1>4. /\ r.tool = attempts[i].tool /\ r.of = attempts[i].of /\ r.account = "open"
      /\ r.receipt = attempts[i].receipt /\ r.bound = attempts[i].bound
      /\ r.record = attempts[i].record /\ r.status = attempts[i].status
  BY <1>1, Underwent DEF Attempt
<1> HIDE DEF r
<1>5. attempts'[p] = r
  BY <1>2, <1>3 DEF IInv, TypeOK
<1>6. /\ history.paid[p] \in Nat /\ history'.paid[p] = history.paid[p] + 1
      /\ history'.launched = history.launched /\ history'.altered = history.altered
      /\ \A j \in Ids : j # p => history'.paid[j] = history.paid[j]
  BY <1>3 DEF SendDecision, IInv, TypeOK
<1>7. history.paid[p] < MaxDecisions /\ Account(p)
  BY <1>1, <1>3 DEF Chain, Underway, Accounts
<1>8. Account(p)'
  BY <1>1, <1>3, <1>4, <1>5, <1>6, <1>7, WorkAssumption DEF Account, None
<1>9. Underway'
  BY <1>1, <1>3, <1>4, <1>5, Underwent DEF Underway
<1>10. Bought(p)' => Justified(p)
  BY <1>1, <1>3, <1>4, <1>5 DEF Bought, Chain, Repaired
<1> QED
  BY <1>1, <1>2, <1>3, <1>4, <1>6, <1>8, <1>9, <1>10, LoudWrite

LEMMA AnswerChains ==
  ASSUME IInv, IInv', Chain, NEW kind \in {"read", "candidate", "unusable", "lost"}, Answer(kind)
  PROVE  Chain'
<1> DEFINE i == pending.attempt
           counted == [attempts[i] EXCEPT !.account = IF kind = "lost" THEN "unknown" ELSE "settled"]
           failed == [counted EXCEPT !.seen = "owner_failed", !.entered = TRUE]
<1>1. pc = "sent" /\ pc \notin Idle /\ i # NoId /\ attempts[i].status # None
      /\ UNCHANGED <<contract, turn, pending, history>>
  BY PendingHere DEF Answer, Idle
<1>2. attempts \in [Ids -> Attempt] /\ i \in Ids /\ attempts[i] \in Attempt
  BY <1>1, Underwent DEF IInv, TypeOK
<1>3. /\ counted.tool = attempts[i].tool /\ counted.of = attempts[i].of /\ counted.account # None
      /\ counted.receipt = attempts[i].receipt /\ counted.bound = attempts[i].bound
      /\ counted.record = attempts[i].record /\ counted.status = attempts[i].status
  BY <1>2 DEF Attempt, None
<1>4. /\ failed.tool = attempts[i].tool /\ failed.of = attempts[i].of /\ failed.account # None
      /\ failed.receipt = attempts[i].receipt /\ failed.bound = attempts[i].bound
      /\ failed.record = attempts[i].record /\ failed.status = attempts[i].status
  <2>1. counted \in Attempt
    BY <1>2 DEF Attempt
  <2> HIDE DEF counted
  <2> QED
    BY <1>3, <2>1 DEF Attempt
<1>5. attempts' = [attempts EXCEPT ![i] = counted] \/ attempts' = [attempts EXCEPT ![i] = failed]
  BY <1>2 DEF Answer
<1> HIDE DEF counted, failed
<1>6. PICK r \in {counted, failed} : attempts' = [attempts EXCEPT ![i] = r]
  BY <1>5
<1>7. /\ r.tool = attempts[i].tool /\ r.of = attempts[i].of /\ r.account # None
      /\ r.receipt = attempts[i].receipt /\ r.bound = attempts[i].bound
      /\ r.record = attempts[i].record /\ r.status = attempts[i].status
  BY <1>3, <1>4
<1>8. PICK p \in Ids : p = i
  BY <1>2
<1>9. attempts'[p] = r
  BY <1>2, <1>6, <1>8
<1>10. Account(p)'
  BY <1>1, <1>7, <1>8, <1>9 DEF Chain, Accounts, Account
<1>11. pc' \in {"deciding", "publishing", "observed"} /\ (pc' = "deciding" => history.paid[p] < MaxDecisions)
  BY <1>8 DEF Answer
<1>12. Underway'
  BY <1>1, <1>7, <1>8, <1>9, <1>11, Underwent DEF Underway
<1> QED
  BY <1>1, <1>6, <1>7, <1>8, <1>10, <1>12, OwnerWrite

LEMMA LaunchCommandChains == ASSUME IInv, IInv', Chain, LaunchCommand PROVE Chain'
<1> DEFINE i == pending.attempt
           r == [attempts[i] EXCEPT !.receipt = "open", !.account = "open"]
<1>1. pc = "admitted" /\ pc \notin Idle /\ i # NoId /\ attempts[i].status # None /\ pc' = "running"
      /\ UNCHANGED <<contract, turn, pending>>
  BY PendingHere DEF LaunchCommand, Idle
<1>2. attempts' = [attempts EXCEPT ![i] = r]
  BY DEF LaunchCommand
<1>3. PICK p \in Ids : p = i
  BY <1>1, Underwent
<1>4. Unlaunched(i)
  BY <1>1 DEF IInv, Inside, Launching
<1>5. /\ r.tool = attempts[i].tool /\ r.of = attempts[i].of /\ r.account = "open"
      /\ r.bound = None /\ r.record = None /\ r.status = attempts[i].status
  BY <1>1, <1>4, Underwent DEF Attempt, Unlaunched
<1> HIDE DEF r
<1>6. attempts'[p] = r
  BY <1>2, <1>3 DEF IInv, TypeOK
<1>7. history \in [paid : [Ids -> Nat], launched : [Ids -> Nat], altered : SUBSET Ids]
  BY DEF IInv, TypeOK
<1>8. /\ history'.paid = history.paid /\ history'.launched[p] = 1
      /\ \A j \in Ids : j # p => /\ history'.launched[j] = history.launched[j]
                                 /\ (j \in history'.altered <=> j \in history.altered)
  <2> DEFINE altered == IF Unchanged(attempts[i].of) THEN history.altered ELSE history.altered \cup {i}
             launched == [history.launched EXCEPT ![i] = @ + 1]
  <2>1. history' = [history EXCEPT !.launched = launched, !.altered = altered]
    BY <1>7 DEF LaunchCommand
  <2>2. launched[p] = 1 /\ \A j \in Ids : j # p => launched[j] = history.launched[j]
    BY <1>3, <1>4, <1>7 DEF Unlaunched
  <2>3. \A j : j # p => (j \in altered <=> j \in history.altered)
    BY <1>3
  <2> HIDE DEF altered, launched
  <2>4. history'.paid = history.paid /\ history'.launched = launched /\ history'.altered = altered
    BY <1>7, <2>1
  <2> QED
    BY <2>2, <2>3, <2>4
<1>9. Account(p)'
  BY <1>1, <1>3, <1>5, <1>6, <1>8 DEF Chain, Accounts, Account, None
<1>10. Underway'
  BY <1>1, <1>3, <1>5, <1>6, Underwent DEF Underway
<1>11. Bought(p)' => Justified(p)
  <2>1. Bought(p)' => Bought(p)
    BY <1>1, <1>3, <1>5, <1>6, <1>8 DEF Bought
  <2> QED
    BY <2>1 DEF Chain, Repaired
<1> QED
  BY <1>1, <1>2, <1>3, <1>5, <1>8, <1>9, <1>10, <1>11, LoudWrite

LEMMA CommandEndsChains ==
  ASSUME IInv, IInv', Chain, NEW exit \in Exits, CommandEnds(exit)
  PROVE  Chain'
<1> DEFINE i == pending.attempt
           r == [attempts[i] EXCEPT !.receipt = exit, !.account = "settled"]
<1>1. pc = "running" /\ pc \notin Idle /\ i # NoId /\ attempts[i].status # None /\ pc' = "exited"
      /\ UNCHANGED <<contract, turn, pending, history>>
  BY PendingHere DEF CommandEnds, Idle
<1>2. attempts' = [attempts EXCEPT ![i] = r]
  BY DEF CommandEnds
<1>3. PICK p \in Ids : p = i
  BY <1>1, Underwent
<1>4. attempts[i].bound = None /\ attempts[i].record = None
  BY <1>1 DEF IInv, Inside, Launched
<1>5. /\ r.tool = attempts[i].tool /\ r.of = attempts[i].of /\ r.account = "settled" /\ r.receipt = exit
      /\ r.bound = None /\ r.record = None /\ r.status = attempts[i].status
  BY <1>1, <1>4, Underwent DEF Attempt
<1> HIDE DEF r
<1>6. attempts'[p] = r
  BY <1>2, <1>3 DEF IInv, TypeOK
<1>7. Account(p)'
  BY <1>1, <1>3, <1>5, <1>6 DEF Chain, Accounts, Account, None
<1>8. Underway'
  BY <1>1, <1>3, <1>5, <1>6, Underwent DEF Underway
<1> QED
  BY <1>1, <1>2, <1>3, <1>5, <1>7, <1>8, OwnerWrite

LEMMA BindOutputsChains == ASSUME IInv, IInv', Chain, BindOutputs PROVE Chain'
<1> DEFINE i == pending.attempt
           bound == IF attempts[i].receipt = "no_outputs" THEN "outputs"
                    ELSE IF attempts[i].receipt # "outputs" THEN None
                    ELSE IF Unchanged(attempts[i].of) THEN "bound" ELSE "inputs"
           r == [attempts[i] EXCEPT !.bound = bound]
<1>1. pc = "exited" /\ pc \notin Idle /\ i # NoId /\ pc' = "recording"
      /\ UNCHANGED <<contract, turn, pending, history>>
  BY PendingHere DEF BindOutputs, Idle
<1>2. attempts' = [attempts EXCEPT ![i] = r]
  BY DEF BindOutputs
<1>3. PICK p \in Ids : p = i
  BY <1>1, Underwent
<1>4. attempts[i].record = None /\ history.launched[i] = 1 /\ attempts[i].receipt \in Exits
  BY <1>1 DEF IInv, Inside, Launched, Chain, Underway
<1>5. /\ bound = "outputs" => attempts[i].receipt = "no_outputs"
      /\ bound = None => attempts[i].receipt \in {"error_a", "error_b", "stopped"}
  BY <1>4 DEF Exits, None
<1> HIDE DEF bound
<1>6. /\ r.tool = attempts[i].tool /\ r.of = attempts[i].of /\ r.account = attempts[i].account
      /\ r.receipt = attempts[i].receipt
      /\ r.bound = bound /\ r.record = None /\ r.status = attempts[i].status
  BY <1>1, <1>4, Underwent DEF Attempt
<1> HIDE DEF r
<1>7. attempts'[p] = r
  BY <1>2, <1>3 DEF IInv, TypeOK
<1>8. Account(p)'
  BY <1>1, <1>3, <1>4, <1>5, <1>6, <1>7 DEF Chain, Accounts, Account, None
<1>9. Underway'
  BY <1>1, <1>3, <1>5, <1>6, <1>7, Underwent DEF Underway
<1> QED
  BY <1>1, <1>2, <1>3, <1>6, <1>8, <1>9, OwnerWrite

LEMMA RecordChain ==
  ASSUME IInv, IInv', Chain, pc \notin Idle, NEW STATE status,
         status = "missing_outputs" => attempts[pending.attempt].bound = "outputs",
         status = "process_failed" => /\ attempts[pending.attempt].receipt \in {"error_a", "error_b", "stopped"}
                                      /\ history.launched[pending.attempt] = 1,
         attempts' = [attempts EXCEPT ![pending.attempt].record = status], pc' = "executed",
         UNCHANGED <<contract, turn, pending, edited, wallet, crashes, history>>
  PROVE  Chain'
<1> DEFINE i == pending.attempt
           r == [attempts[i] EXCEPT !.record = status]
<1>1. i # NoId
  BY PendingHere
<1>2. attempts' = [attempts EXCEPT ![i] = r]
  OBVIOUS
<1>3. PICK p \in Ids : p = i
  BY <1>1, Underwent
<1>4. /\ r.tool = attempts[i].tool /\ r.of = attempts[i].of /\ r.account = attempts[i].account
      /\ r.receipt = attempts[i].receipt
      /\ r.bound = attempts[i].bound /\ r.record = status /\ r.status = attempts[i].status
  BY <1>1, Underwent DEF Attempt
<1> HIDE DEF r
<1>5. attempts'[p] = r
  BY <1>2, <1>3 DEF IInv, TypeOK
<1>6. Account(p)'
  BY <1>1, <1>3, <1>4, <1>5 DEF Chain, Accounts, Account
<1>7. Underway'
  BY <1>1, <1>3, <1>4, <1>5, Underwent DEF Underway
<1> QED
  BY <1>1, <1>2, <1>3, <1>4, <1>6, <1>7, OwnerWrite

LEMMA SaveExecutionChains == ASSUME IInv, IInv', Chain, SaveExecution PROVE Chain'
<1> DEFINE i == pending.attempt
<1>1. pc = "recording" /\ pc \notin Idle /\ history.launched[i] = 1
  BY DEF SaveExecution, Idle, IInv, Inside, Launched
<1>2. attempts[i].bound = None => attempts[i].receipt \in {"error_a", "error_b", "stopped"}
  BY <1>1 DEF Chain, Underway
<1>3. attempts[i].bound \in {None, "bound", "inputs", "outputs"}
  BY <1>1, InAttempt DEF Attempt
<1>4. PICK status : status = StatusOf(i, FALSE)
  OBVIOUS
<1>5. /\ status = "missing_outputs" => attempts[i].bound = "outputs"
      /\ status = "process_failed" => attempts[i].bound = None
  BY <1>3, <1>4 DEF StatusOf
<1> QED
  BY <1>1, <1>2, <1>4, <1>5, RecordChain DEF SaveExecution

LEMMA RecoverReceiptChains == ASSUME IInv, IInv', Chain, RecoverReceipt PROVE Chain'
<1> DEFINE i == pending.attempt
<1>1. pc = "settling" /\ pc \notin Idle /\ i # NoId /\ attempts[i].status # None
      /\ UNCHANGED <<contract, turn, pending, edited, wallet, crashes, history>>
  BY PendingHere DEF RecoverReceipt, Idle
<1>2. PICK status : status = StatusOf(i, TRUE)
  OBVIOUS
<1>3. /\ status = "missing_outputs" => attempts[i].bound = "outputs"
      /\ status # "process_failed"
  BY <1>2 DEF StatusOf
<1>4. CASE pc' = "observed" /\ attempts' = [attempts EXCEPT ![i].seen = "blocked"]
  BY <1>1, <1>4, SeenChain
<1>5. CASE pc' = "executed" /\ attempts' = [attempts EXCEPT ![i].record = status]
  BY <1>1, <1>3, <1>5, RecordChain
<1> QED
  BY <1>2, <1>4, <1>5 DEF RecoverReceipt


----------------------------------------------------------------------------
(* The steps between two attempts.                                          *)

LEMMA TurnChain ==
  ASSUME IInv, IInv', Chain, UNCHANGED <<contract, attempts, pending, history>>, pc' \in Idle, Proposed'
  PROVE  Chain'
<1>1. PICK p : p = pending.attempt
  OBVIOUS
<1>2. p # NoId => p \in Ids
  BY <1>1 DEF IInv, TypeOK
<1>3. Touches
  BY DEF Touches
<1>4. Underway'
  BY DEF Chain, Underway, Idle
<1>5. p # NoId => Account(p)'
  BY <1>2 DEF Chain, Accounts, Account
<1>6. p # NoId /\ Bought(p)' => Justified(p)
  <2>1. Bought(p)' => Bought(p)
    BY DEF Bought, Idle
  <2> QED
    BY <1>2, <2>1 DEF Chain, Repaired
<1> QED
  BY <1>1, <1>3, <1>4, <1>5, <1>6, TouchChain

\* A call that is proposed for attempt i may follow it.
Continues(action, i) == action.stop = None => Follows(action, i)

LEMMA StopsContinue ==
  ASSUME NEW reason, reason # None, NEW i PROVE Continues(Stop(reason), i)
BY DEF Continues, Stop

LEMMA ContinuationFollows ==
  ASSUME IInv, NEW i, Newest(i), Continuation(i) # Nothing
  PROVE  Continues(Continuation(i), i)
<1>1. i \in Ids /\ i # NoId /\ attempts[i] \in Attempt /\ attempts[i].tool # None
  BY NoIdIsNone DEF Newest, Exists, IInv, TypeOK
<1>2. \A reason \in Reasons : reason # None /\ Continues(Stop(reason), i)
  BY StopsContinue DEF Reasons, None
<1>3. CASE ~ Accepted(i)
  BY <1>2, <1>3 DEF Continuation, Reasons
<1>4. CASE Accepted(i) /\ attempts[i].tool = "prepare"
  <2>1. attempts[i].seen # None
    BY <1>1, <1>4 DEF Accepted, IInv, Named
  <2>2. Continues(Stop(attempts[i].seen), i)
    BY <2>1, StopsContinue
  <2>3. Continues(Call("execute", i), i)
    BY <1>1, <1>4 DEF Continues, Call, Follows
  <2> QED
    BY <1>2, <1>4, <2>2, <2>3 DEF Continuation, AfterPreparation, Reasons
<1>5. CASE Accepted(i) /\ attempts[i].tool # "prepare"
  <2>1. Continues(Call("prepare", i), i)
    BY <1>1, <1>5 DEF Continues, Call, Follows, Attempt
  <2>2. RepairRefusal(i) # None => Continues(Stop(RepairRefusal(i)), i)
    BY <1>2, RefusalIsAReason
  <2> QED
    BY <1>2, <1>5, <2>1, <2>2 DEF Continuation, AfterExecution, Reasons
<1> QED
  BY <1>3, <1>4, <1>5

LEMMA ResumedFollows ==
  ASSUME IInv, NEW i, Newest(i)
  PROVE  Continues(ResumedAction(i), i)
<1>1. i \in Ids /\ i # NoId
  BY NoIdIsNone DEF Newest, Exists
<1>2. \A reason \in Reasons : Continues(Stop(reason), i)
  BY StopsContinue DEF Reasons, None
<1>3. attempts[i].tool = "prepare" /\ attempts[i].account = None
      => Continues(Call("prepare", attempts[i].of), i)
  BY <1>1 DEF Continues, Call, Follows
<1>4. attempts[i].tool = "prepare" => Continues(RestartOf(i), i)
  BY <1>2, <1>3 DEF RestartOf, Reasons
<1> QED
  BY <1>2, <1>4, ContinuationFollows DEF ResumedAction, Reasons

LEMMA ScheduledFollows ==
  ASSUME NEW action, NEW i, Continues(action, i)
  PROVE  Continues(Scheduled(action), i)
BY StopsContinue DEF Scheduled, None

LEMMA ProposeChain ==
  ASSUME IInv, IInv', Chain, NEW i, Newest(i), NEW STATE action, Continues(action, i),
         Propose(action, i), pending.attempt = NoId,
         UNCHANGED <<contract, attempts, pending, history>>
  PROVE  Chain'
<1>1. PICK next : next = Scheduled(action)
  OBVIOUS
<1>2. Continues(next, i)
  <2>1. PICK a : a = action
    OBVIOUS
  <2>2. Continues(a, i) /\ next = Scheduled(a)
    BY <1>1, <2>1 DEF Continues, Follows, Scheduled
  <2> QED
    BY <2>2, ScheduledFollows
<1>3. turn' = [call |-> next, queued |-> next.stop = None, source |-> i, done |-> NoId,
               known |-> wallet.grants]
      /\ pc' \in Idle
  BY <1>1 DEF Propose, Idle
<1>4. /\ turn'.call = next /\ turn'.source = i /\ turn'.done = NoId
      /\ (turn'.queued <=> next.stop = None)
  BY <1>3
<1>5. Newest(i)'
  BY DEF Newest, Exists
<1>6. turn'.queued => Follows(next, i)'
  BY <1>2, <1>4 DEF Continues, Follows, Newest, Exists
<1>7. turn'.queued => Follows(turn.call, turn.source)'
  BY <1>4, <1>6 DEF Follows, Newest, Exists
<1>8. Newest(turn.source)'
  BY <1>4, <1>5 DEF Newest, Exists
<1>9. Proposed'
  BY <1>4, <1>7, <1>8 DEF Proposed
<1> QED
  BY <1>3, <1>9, TurnChain

LEMMA ContinueChains == ASSUME IInv, IInv', Chain, Continue PROVE Chain'
<1>1. PICK i : i = turn.done
  OBVIOUS
<1>2. pending.attempt = NoId /\ Newest(i) /\ UNCHANGED <<contract, attempts, pending, history>>
  BY <1>1 DEF Continue, NoPending, Chain, Proposed
<1>3. CASE turn' = turn /\ pc' \in {"down", "returned"}
  <2>1. Proposed'
    BY <1>2, <1>3 DEF Chain, Proposed, Follows, Newest, Exists
  <2> QED
    BY <1>2, <1>3, <2>1, TurnChain DEF Idle
<1>4. CASE Continuation(i) # Nothing /\ Propose(Continuation(i), i)
  BY <1>2, <1>4, ContinuationFollows, ProposeChain
<1> QED
  BY <1>1, <1>3, <1>4 DEF Continue

LEMMA ResumeStopChains == ASSUME IInv, IInv', Chain, ResumeStop PROVE Chain'
<1>1. PICK i : i = turn.source
  OBVIOUS
<1>2. pending.attempt = NoId /\ Newest(i) /\ UNCHANGED <<contract, attempts, pending, history>>
  BY <1>1 DEF ResumeStop, NoPending, Chain, Proposed
<1>3. Propose(ResumedAction(i), i)
  BY <1>1 DEF ResumeStop
<1> QED
  BY <1>2, <1>3, ResumedFollows, ProposeChain

LEMMA ReserveCompletionChains == ASSUME IInv, IInv', Chain, ReserveCompletion PROVE Chain'
<1>1. PICK i : i = turn.source
  OBVIOUS
<1>2. /\ pending.attempt = NoId /\ turn.queued /\ i # NoId /\ pc' \in Idle
      /\ UNCHANGED <<contract, attempts, pending, history>>
  BY <1>1 DEF ReserveCompletion, NoPending, Idle
<1>3. Newest(i) /\ turn.done = NoId
  <2>1. Follows(turn.call, turn.source) /\ turn.done = NoId
    BY <1>2 DEF Chain, Proposed
  <2> QED
    BY <1>1, <1>2, <2>1 DEF Follows
<1>4. ~ turn'.queued /\ turn'.source = i /\ turn'.done = NoId
  <2>1. turn \in [call : Action, queued : BOOLEAN, source : Ids \cup {NoId},
                  done : Ids \cup {NoId}, known : Nat]
    BY DEF IInv, TypeOK
  <2>2. PICK stop : stop = Stop("shared_budget_exhausted")
    OBVIOUS
  <2>3. turn' = [turn EXCEPT !.call = stop, !.queued = FALSE, !.known = wallet.grants]
    BY <2>2 DEF ReserveCompletion
  <2> QED
    BY <1>1, <1>3, <2>1, <2>3
<1>5. Newest(turn.source)'
  BY <1>2, <1>3, <1>4 DEF Newest, Exists
<1>6. Proposed'
  BY <1>2, <1>4, <1>5 DEF Proposed
<1> QED
  BY <1>2, <1>6, TurnChain

LEMMA AcceptChains == ASSUME IInv, IInv', Chain, Accept PROVE Chain'
<1> DEFINE i == pending.attempt
           r == [attempts[i] EXCEPT !.status = "completed"]
<1>1. pc = "observed" /\ pc \notin Idle /\ pc' = "loop" /\ i # NoId /\ attempts[i].status # None
      /\ UNCHANGED <<contract, history>> /\ pending'.attempt = NoId
  BY PendingHere DEF Accept, Idle, NoPending
<1>2. PICK p \in Ids : p = i
  BY <1>1, Underwent
<1>3. attempts \in [Ids -> Attempt] /\ attempts[i] \in Attempt
  BY <1>1, Underwent DEF IInv, TypeOK
<1>4. /\ r.tool = attempts[i].tool /\ r.of = attempts[i].of /\ r.account = attempts[i].account
      /\ r.receipt = attempts[i].receipt /\ r.bound = attempts[i].bound
      /\ r.record = attempts[i].record /\ r.status # None
  BY <1>3 DEF Attempt, None
<1>5. attempts' = attempts \/ attempts' = [attempts EXCEPT ![i] = r]
  BY DEF Accept
<1> HIDE DEF r
<1>6. /\ \A j \in Ids : j # i => attempts'[j] = attempts[j]
      /\ attempts'[p] = attempts[p] \/ attempts'[p] = r
  BY <1>2, <1>3, <1>5
<1>7. /\ attempts'[p].tool = attempts[p].tool /\ attempts'[p].of = attempts[p].of
      /\ attempts'[p].account = attempts[p].account /\ attempts'[p].receipt = attempts[p].receipt
      /\ attempts'[p].bound = attempts[p].bound /\ attempts'[p].record = attempts[p].record
      /\ attempts'[p].status # None
  BY <1>1, <1>2, <1>4, <1>6
<1>8. Touches
  BY <1>1, <1>2, <1>6, <1>7 DEF Touches
<1>9. Proposed'
  <2>1. Newest(p) /\ turn.queued /\ turn.call.stop = None
    BY <1>1, <1>2 DEF Chain, InOrder, Proposed, IInv, Journalled
  <2>2. turn'.call = turn.call /\ ~ turn'.queued /\ turn'.done = p
    BY <1>2 DEF Accept, IInv, TypeOK
  <2>3. Newest(p)'
    BY <2>1, <1>8 DEF Newest, Exists, Touches
  <2>4. Newest(turn.done)'
    BY <2>2, <2>3 DEF Newest, Exists
  <2> QED
    BY <1>1, <2>1, <2>2, <2>4 DEF Proposed
<1>10. Account(p)'
  BY <1>1, <1>7 DEF Chain, Accounts, Account
<1>11. Bought(p)' => Justified(p)
  <2>1. Bought(p)' => Bought(p)
    BY <1>1, <1>7 DEF Bought
  <2> QED
    BY <2>1 DEF Chain, Repaired
<1>12. Underway'
  BY <1>1 DEF Underway
<1> QED
  BY <1>1, <1>2, <1>8, <1>9, <1>10, <1>11, <1>12, TouchChain


\* A new attempt is about a newer execution than all before it, or about that
\* of the newest one, in which nothing was bought.
LEMMA TakeCallChains == ASSUME IInv, IInv', Chain, TakeCall PROVE Chain'
<1> DEFINE call == turn.call
           source == turn.source
<1>1. PICK n \in Ids :
        /\ pc = "loop" /\ pending = NoPending /\ turn.queued
        /\ attempts[n].tool = None /\ \A j \in 1 .. n - 1 : attempts[j].tool # None
        /\ attempts' = [attempts EXCEPT ![n].tool = turn.call.tool, ![n].of = turn.call.of]
        /\ pending' = [attempt |-> n, approved |-> FALSE]
        /\ UNCHANGED <<contract, turn, edited, wallet, pc, crashes, history>>
  BY DEF TakeCall
<1> DEFINE r == [attempts[n] EXCEPT !.tool = turn.call.tool, !.of = turn.call.of]
<1>2. attempts \in [Ids -> Attempt] /\ attempts[n] \in Attempt
  BY DEF IInv, TypeOK
<1>3. Ids \subseteq Nat /\ NoId \notin Ids /\ NoId = 0 /\ n \in Nat
  BY WorkAssumption DEF Ids, NoId
<1>4. pending.attempt = NoId /\ pending'.attempt = n /\ history' = history /\ contract' = contract
       /\ pc' = "loop" /\ turn' = turn
  BY <1>1 DEF NoPending
<1>5. /\ r.tool = call.tool /\ r.of = call.of /\ r.account = attempts[n].account
      /\ r.status = attempts[n].status /\ r.receipt = attempts[n].receipt
      /\ r.bound = attempts[n].bound /\ r.record = attempts[n].record
  BY <1>2 DEF Attempt
<1>6. attempts' = [attempts EXCEPT ![n] = r]
  BY <1>1, <1>2
<1> HIDE DEF r
<1>7. attempts'[n] = r /\ \A j \in Ids : j # n => attempts'[j] = attempts[j]
  BY <1>2, <1>6
\* What is there comes before n.
<1>8. \A j \in Ids : /\ attempts[j].tool # None => j < n
                     /\ j < n => attempts[j].tool # None
  <2>1. \A j \in Ids : j < n => attempts[j].tool # None
    BY <1>1 DEF Ids
  <2>2. ASSUME NEW j \in Ids, attempts[j].tool # None PROVE j < n
    <3>1. ~ (n < j) /\ j # n
      BY <1>1, <2>2 DEF Chain, InOrder, Ordered
    <3> QED
      BY <1>3, <3>1
  <2> QED
    BY <2>1, <2>2
<1>9. attempts[n].of = NoId /\ attempts[n].status = None /\ attempts[n].account = None
      /\ history.paid[n] = 0
  BY <1>1 DEF Chain, InOrder, Ordered, IInv, Named, Accounts, Account, None
<1>10. Follows(call, source)
  BY <1>1 DEF Chain, Proposed, NoPending
<1>11. source = NoId \/ /\ source \in Ids /\ source \in Nat /\ source < n /\ source # n
                         /\ \A j \in Ids : j < n => j <= source
  <2> SUFFICES ASSUME source # NoId
               PROVE  /\ source \in Ids /\ source \in Nat /\ source < n /\ source # n
                      /\ \A j \in Ids : j < n => j <= source
    OBVIOUS
  <2>1. Newest(source)
    BY <1>10 DEF Follows
  <2>2. source \in Ids /\ source < n /\ \A j \in Ids : j > source => attempts[j].tool = None
    BY <2>1, <1>8 DEF Newest, Exists
  <2>3. ASSUME NEW j \in Ids, j < n PROVE j <= source
    <3>1. ~ (j > source) /\ j \in Nat /\ source \in Nat
      BY <2>2, <2>3, <1>3, <1>8
    <3> QED
      BY <3>1
  <2> QED
    BY <2>2, <2>3, <1>1, <1>3
\* No attempt is there yet, or one of the three ways to follow.
<1>12. \/ source = NoId /\ call.tool = "prepare" /\ call.of = NoId /\ \A j \in Ids : ~ (j < n)
       \/ source # NoId /\ call.of = source /\ call.tool = "execute" /\ attempts[source].tool = "prepare"
       \/ source # NoId /\ call.of = source /\ call.tool = "prepare" /\ attempts[source].tool = "execute"
       \/ /\ source # NoId /\ call.tool = "prepare" /\ attempts[source].tool = "prepare"
          /\ call.of = attempts[source].of /\ attempts[source].account = None
  BY <1>8, <1>10 DEF Follows
<1>13. \A i \in Ids : attempts[i].of < i /\ attempts[i].of \in Nat
                      /\ (attempts[i].of # NoId => attempts[i].of \in Ids /\ attempts[i].of # n
                                                   /\ attempts[attempts[i].of].tool # None)
  <2> SUFFICES ASSUME NEW i \in Ids
               PROVE  attempts[i].of < i /\ attempts[i].of \in Nat
                      /\ (attempts[i].of # NoId => attempts[i].of \in Ids /\ attempts[i].of # n
                                                   /\ attempts[attempts[i].of].tool # None)
    OBVIOUS
  <2>1. attempts[i].of < i /\ attempts[i].of \in Nat
    <3>1. attempts[i].of \in Ids \cup {NoId}
      BY <1>2 DEF Attempt
    <3>2. attempts[i].of \in Nat
      <4>1. PICK x \in Ids \cup {NoId} : x = attempts[i].of
        BY <3>1
      <4>2. x \in Nat
        BY <1>3
      <4> QED
        BY <4>1, <4>2
    <3> QED
      BY <3>2 DEF Chain, InOrder, Ordered
  <2>2. attempts[i].of # NoId => attempts[i].of \in Ids /\ attempts[attempts[i].of].tool # None
    BY DEF IInv, Named, Exists
  <2> QED
    BY <2>1, <2>2, <1>1
<1>14. Newest(n)'
  <2>1. attempts'[n].tool # None
    BY <1>5, <1>7, <1>12 DEF None
  <2>2. \A j \in Ids : j > n => attempts'[j].tool = None
    <3> SUFFICES ASSUME NEW j \in Ids, j > n PROVE attempts'[j].tool = None
      OBVIOUS
    <3>1. n < j /\ j # n /\ ~ (j < n)
      BY <1>3
    <3> QED
      BY <3>1, <1>7, <1>8
  <2> QED
    BY <2>1, <2>2 DEF Newest, Exists
<1> HIDE DEF call, source
<1>15. call.of < n
  <2>1. CASE source = NoId
    BY <2>1, <1>3, <1>12
  <2>2. CASE source # NoId /\ call.of = source
    BY <2>2, <1>11
  <2>3. CASE source # NoId /\ call.of = attempts[source].of
    <3>1. source \in Ids /\ source < n /\ source \in Nat
      BY <2>3, <1>11
    <3>2. call.of < source /\ call.of \in Nat
      BY <2>3, <3>1, <1>13
    <3> QED
      BY <3>1, <3>2, <1>3
  <2> QED
    BY <2>1, <2>2, <2>3, <1>12
<1>16. call.of # NoId =>
         /\ call.of \in Ids /\ call.of # n
         /\ \/ call.tool = "execute" /\ attempts[call.of].tool = "prepare"
            \/ call.tool = "prepare" /\ attempts[call.of].tool = "execute"
  <2>1. CASE source # NoId /\ call.of = source
    <3>1. source \in Ids /\ source \in Nat /\ source # n
      BY <2>1, <1>11
    <3>2. attempts[source].of < source /\ attempts[source].of \in Nat
      BY <3>1, <1>13
    <3>3. attempts[source].of # source
      BY <3>1, <3>2
    <3> QED
      BY <2>1, <3>1, <3>3, <1>12
  <2>2. CASE source # NoId /\ call.tool = "prepare" /\ attempts[source].tool = "prepare"
             /\ call.of = attempts[source].of
    BY <2>2, <1>11, <1>13 DEF Chain, InOrder, Ordered
  <2> QED
    BY <2>1, <2>2, <1>12
\* Every attempt before a prepared n is about no later execution, and is none.
<1>17. ASSUME NEW i \in Ids, i < n, call.tool = "prepare"
       PROVE  /\ attempts[i].tool = "prepare" => attempts[i].of <= call.of
              /\ attempts[i].tool = "execute" => i <= call.of
  <2>1. source # NoId /\ source \in Ids /\ i <= source
    BY <1>17, <1>11, <1>12
  <2>2. i \in Nat /\ source \in Nat /\ attempts[i].of \in Nat /\ attempts[i].of < i
    BY <1>17, <2>1, <1>3, <1>13
  <2>3. CASE call.of = source
    BY <2>1, <2>2, <2>3
  <2>4. CASE attempts[source].tool = "prepare" /\ call.of = attempts[source].of
    <3>1. CASE i = source
      BY <2>2, <2>4, <3>1
    <3>2. CASE i # source
      <4>1. i < source
        BY <2>1, <2>2, <3>2
      <4> QED
        BY <2>1, <2>4, <4>1 DEF Chain, InOrder, Ordered
    <3> QED
      BY <3>1, <3>2
  <2> QED
    BY <1>17, <2>1, <2>3, <2>4, <1>12
<1>18. InOrder'
  <2>1. ASSUME NEW i \in Ids, NEW j \in Ids, i < j, attempts'[j].tool # None
        PROVE  attempts'[i].tool # None
    <3>1. j # n => attempts[i].tool # None
      BY <2>1, <1>7 DEF Chain, InOrder, Ordered
    <3>2. j = n => attempts[i].tool # None
      BY <2>1, <1>8
    <3> QED
      BY <3>1, <3>2, <1>1, <1>7
  <2>2. \A i \in Ids : attempts'[i].of < i
    BY <1>5, <1>7, <1>13, <1>15
  <2>3. ASSUME NEW i \in Ids, attempts'[i].of # NoId
        PROVE  \/ attempts'[i].tool = "execute" /\ attempts'[attempts'[i].of].tool = "prepare"
               \/ attempts'[i].tool = "prepare" /\ attempts'[attempts'[i].of].tool = "execute"
    <3>1. CASE i = n
      <4>1. attempts'[i].of = call.of /\ attempts'[i].tool = call.tool
        BY <3>1, <1>5, <1>7
      <4> QED
        BY <2>3, <4>1, <1>7, <1>16
    <3>2. CASE i # n
      BY <2>3, <3>2, <1>7, <1>13 DEF Chain, InOrder, Ordered
    <3> QED
      BY <3>1, <3>2
  <2>4. ASSUME NEW i \in Ids, NEW j \in Ids, i < j, attempts'[j].tool = "prepare"
        PROVE  /\ attempts'[i].tool = "prepare" => attempts'[i].of <= attempts'[j].of
               /\ attempts'[i].tool = "execute" => i <= attempts'[j].of
    <3>1. CASE j = n
      <4>1. i # n /\ attempts'[i] = attempts[i]
        BY <2>4, <3>1, <1>3, <1>7
      <4> QED
        BY <2>4, <3>1, <4>1, <1>5, <1>7, <1>17
    <3>2. CASE j # n
      <4>1. attempts[j].tool = "prepare" /\ attempts'[j] = attempts[j]
        BY <2>4, <3>2, <1>7
      <4>2. i # n
        BY <2>4, <4>1, <1>1 DEF Chain, InOrder, Ordered, None
      <4> QED
        BY <2>4, <4>1, <4>2, <1>7 DEF Chain, InOrder, Ordered
    <3> QED
      BY <3>1, <3>2
  <2>5. Ordered'
    BY <2>1, <2>2, <2>3, <2>4 DEF Ordered
  <2>6. Newest(pending.attempt)'
    BY <1>1, <1>14 DEF Newest, Exists
  <2> QED
    BY <2>5, <2>6 DEF InOrder
<1>19. Proposed'
  BY <1>1, <1>3 DEF Chain, Proposed
<1>20. BoughtOnce'
  <2> SUFFICES ASSUME NEW i \in Ids, NEW j \in Ids, i < j, attempts'[i].of = attempts'[j].of
               PROVE  /\ attempts'[i].tool = "prepare" /\ attempts'[j].tool = "prepare" => history'.paid[i] = 0
                      /\ attempts'[i].tool = "execute" => attempts'[j].tool # "execute"
    BY DEF BoughtOnce
  <2>1. CASE j = n
    <3>1. i # n /\ i < n
      BY <2>1, <1>3
    <3>2. attempts'[i] = attempts[i] /\ attempts[i].of = call.of
          /\ attempts'[j].tool = call.tool /\ history'.paid[i] = history.paid[i]
      BY <2>1, <3>1, <1>5, <1>7, <1>4
    <3>3. source # NoId /\ source \in Ids /\ i <= source
      BY <3>1, <1>11, <1>12
    <3>4. i \in Nat /\ source \in Nat /\ attempts[i].of \in Nat /\ attempts[i].of < i
      BY <3>3, <1>3, <1>13
    <3>5. call.of # source
      BY <3>2, <3>3, <3>4
    <3>6. call.tool = "prepare" /\ attempts[source].tool = "prepare"
          /\ call.of = attempts[source].of /\ attempts[source].account = None
      BY <3>3, <3>5, <1>12
    <3>7. CASE i = source
      BY <3>2, <3>6, <3>7 DEF Chain, Accounts, Account
    <3>8. CASE i # source
      <4>1. i < source
        BY <3>3, <3>4, <3>8
      <4> QED
        BY <3>2, <3>3, <3>6, <4>1 DEF Chain, BoughtOnce
    <3> QED
      BY <3>7, <3>8
  <2>2. CASE i = n
    <3>1. j # n /\ attempts'[j] = attempts[j] /\ attempts[j].tool = None
      <4>1. j # n /\ ~ (j < n)
        BY <2>2, <1>3
      <4> QED
        BY <4>1, <1>7, <1>8
    <3> QED
      BY <3>1 DEF None
  <2>3. CASE i # n /\ j # n
    BY <2>3, <1>7, <1>4 DEF Chain, BoughtOnce
  <2> QED
    BY <2>1, <2>2, <2>3
<1>21. Accounts'
  <2> SUFFICES ASSUME NEW i \in Ids PROVE Account(i)'
    BY DEF Accounts
  <2>1. /\ attempts'[i].account = attempts[i].account /\ attempts'[i].status = attempts[i].status
        /\ attempts'[i].receipt = attempts[i].receipt /\ attempts'[i].bound = attempts[i].bound
        /\ attempts'[i].record = attempts[i].record /\ history' = history
    BY <1>1, <1>5, <1>7
  <2>2. Account(i)
    BY DEF Chain, Accounts
  <2> QED
    BY <2>1, <2>2 DEF Account
<1>22. Underway'
  BY <1>1, <1>5, <1>7, <1>9 DEF Underway, None
<1>23. ASSUME NEW i \in Ids, i # n, attempts[i].tool # None PROVE SamePast(i)
  <2>1. i < n /\ i \in Nat /\ n \in Nat
    BY <1>23, <1>3, <1>8
  <2>2. \A j \in Ids : j < i => j # n
    BY <2>1, <1>3
  <2> QED
    BY <1>1, <1>7, <1>23, <2>2 DEF SamePast
<1>24. \A i \in Ids : attempts[i].of # NoId => attempts'[i].of = attempts[i].of
  BY <1>7, <1>9
<1>25. Repaired'
  <2>1. ASSUME NEW i \in Ids, Bought(i)' PROVE Justified(i)'
    <3>1. history.paid[i] > 0 /\ i # n
      BY <2>1, <1>1, <1>9 DEF Bought
    <3>2. Bought(i) /\ attempts[i].tool # None
      BY <2>1, <3>1, <1>7 DEF Bought, None
    <3> QED
      BY <3>1, <3>2, <1>23, JustifiedStays DEF Bought, Chain, Repaired
  <2>2. ASSUME NEW d \in Ids, attempts'[d].tool = "execute", d # n PROVE Descends(d)'
    <3>1. attempts[d].tool = "execute" /\ attempts[d].tool # None
      BY <2>2, <1>7 DEF None
    <3>2. SamePast(d) /\ Descends(d)
      BY <2>2, <3>1, <1>23 DEF Chain, Repaired
    <3> QED
      BY <3>2, <1>24, DescendsStays
  <2>3. ASSUME attempts'[n].tool = "execute" PROVE Descends(n)'
    <3> SUFFICES ASSUME NEW j \in PaidRepairs(n)', NEW S \in SUBSET Ids, n \in S, Closed(S)'
                 PROVE  attempts'[j].of \in S
      BY DEF Descends
    <3>1. j \in Ids /\ j < n /\ attempts'[j].tool = "prepare" /\ attempts'[j].of # NoId
           /\ history'.paid[j] > 0
      BY DEF PaidRepairs
    <3>2. j # n
      BY <3>1, <1>3
    <3>3. j \in Ids /\ j < n /\ j # n /\ attempts[j].tool = "prepare" /\ attempts[j].of # NoId
          /\ history.paid[j] > 0 /\ attempts'[j] = attempts[j]
      BY <3>1, <3>2, <1>7, <1>4
    <3>4. source \in Ids /\ attempts[source].tool = "prepare" /\ call.of = source /\ j <= source
      BY <2>3, <3>3, <1>5, <1>7, <1>11, <1>12
    <3>5. j \in Nat /\ source \in Nat /\ attempts[j].of \in Nat
      BY <3>3, <3>4, <1>3, <1>13
    <3>6. attempts[j].of <= attempts[source].of
      <4>1. CASE j = source
        BY <3>5, <4>1
      <4>2. CASE j # source
        <5>1. j < source
          BY <3>4, <3>5, <4>2
        <5> QED
          BY <3>3, <3>4, <5>1 DEF Chain, InOrder, Ordered
      <4> QED
        BY <4>1, <4>2
    <3>7. attempts[source].of \in Nat /\ attempts[source].of # NoId
      <4>1. attempts[source].of \in Nat /\ attempts[j].of # 0
        BY <3>3, <3>4, <1>3, <1>13
      <4> QED
        BY <4>1, <3>5, <3>6, <1>3
    <3>8. PICK e \in Ids : e = attempts[source].of
      BY <3>4, <3>7, <1>13
    <3>9. attempts[e].tool = "execute" /\ e \in Nat
      <4>1. attempts[e].tool = "execute"
        BY <3>4, <3>7, <3>8 DEF Chain, InOrder, Ordered
      <4> QED
        BY <4>1, <3>7, <3>8
    <3>10. e \in S
      <4>1. attempts'[n].of = source /\ attempts'[source].of = e /\ source # NoId
        <5>1. source # n /\ source # NoId
          BY <3>4, <1>3, <1>11
        <5> QED
          BY <3>4, <3>8, <5>1, <1>5, <1>7
      <4> QED
        BY <4>1, <3>7, <3>8 DEF Closed
    <3>11. CASE attempts[j].of = e
      BY <3>3, <3>10, <3>11
    <3>12. CASE attempts[j].of # e
      <4>1. j # e /\ ~ (e < j)
        <5>1. attempts[j].of < e
          BY <3>5, <3>6, <3>8, <3>9, <3>12
        <5>2. ~ (e <= attempts[j].of)
          BY <5>1, <3>5, <3>9
        <5> QED
          BY <5>2, <3>3, <3>9 DEF Chain, InOrder, Ordered
      <4>2. j \in PaidRepairs(e)
        BY <3>3, <3>5, <3>9, <4>1 DEF PaidRepairs
      <4>3. Closed(S)
        BY <1>24, ClosedStays
      <4> QED
        BY <3>3, <3>9, <3>10, <4>2, <4>3 DEF Chain, Repaired, Descends
    <3> QED
      BY <3>11, <3>12
  <2> QED
    BY <2>1, <2>2, <2>3 DEF Repaired
<1> QED
  BY <1>18, <1>19, <1>20, <1>21, <1>22, <1>25 DEF Chain

LEMMA InitChains == Init => Chain
<1> SUFFICES ASSUME Init PROVE Chain
  OBVIOUS
<1>1. \A i \in Ids : attempts[i] = NoAttempt /\ history.paid[i] = 0 /\ history.launched[i] = 0
  BY DEF Init
<1>2. Ids \subseteq Nat /\ \A i \in Ids : NoId < i
  BY WorkAssumption DEF Ids, NoId
<1>3. InOrder
  BY <1>1, <1>2 DEF Init, InOrder, Ordered, NoAttempt, NoPending, None
<1>4. Proposed
  BY <1>1 DEF Init, Proposed, Follows, NoAttempt, NoPending, Call, None
<1>5. BoughtOnce /\ Accounts
  BY <1>1, WorkAssumption DEF BoughtOnce, Accounts, Account, NoAttempt, None
<1>6. Underway
  BY DEF Init, Underway, NoPending
<1>7. Repaired
  BY <1>1 DEF Repaired, Bought, NoAttempt, None
<1> QED
  BY <1>3, <1>4, <1>5, <1>6, <1>7 DEF Chain

LEMMA StepChains == IInv /\ IInv' /\ Chain /\ [Next]_vars => Chain'
<1> SUFFICES ASSUME IInv, IInv', Chain, [Next]_vars PROVE Chain'
  OBVIOUS
<1>1. CASE Continue \/ ResumeStop \/ TakeCall \/ ReserveCompletion
  BY <1>1, ContinueChains, ResumeStopChains, TakeCallChains, ReserveCompletionChains
<1>2. CASE BeginPreparation \/ BeginExecution
  BY <1>2, BeginChains
<1>3. CASE Prepare
  BY <1>3, StartPreparationChains, SendDecisionChains, NoRequestLeftChains, AnswerChains,
     PublishCandidateChains, SavePreparedChains, SavePreparedObservationChains DEF Prepare
<1>4. CASE Execute
  BY <1>4, SaveExecutionInputChains, CheckApprovedBytesChains, ResolveSnapshotChains,
     LaunchCommandChains, CommandEndsChains, BindOutputsChains, SaveExecutionChains,
     SaveExecutionObservationChains DEF Execute
<1>5. CASE RecoverPreparation \/ AdoptObservation \/ RecoverReceipt
  BY <1>5, RecoverPreparationChains, AdoptObservationChains, RecoverReceiptChains
<1>6. CASE Accept \/ ConfirmInterruption
  BY <1>6, AcceptChains, ConfirmInterruptionChains
<1>7. CASE \/ \E given \in BOOLEAN : AskApproval(given)
           \/ RecoverExecution \/ NoDurableResult \/ Resume \/ Grant \/ Crash
           \/ \E file \in {Material} \cup Ids : Edit(file)
           \/ UNCHANGED vars
  BY <1>7, StandingChains
<1> QED
  BY <1>1, <1>2, <1>3, <1>4, <1>5, <1>6, <1>7 DEF Next, Recover

THEOREM ChainHolds == Spec => []Chain
<1>1. Init => Chain
  BY InitChains
<1>2. IInv /\ IInv' /\ Chain /\ [Next]_vars => Chain'
  BY StepChains
<1> QED
  BY <1>1, <1>2, InvariantHolds, PTL DEF Spec

\* No work is bought twice: among all preparations of one diagnosis (or of the
\* first request) a single one asked the model, no candidate is started by two
\* executions, and neither is done more often than the owner allows; whichever
\* call was proposed again after a crash, a recovery or a grant.
THEOREM NothingReplayed == Spec => []NothingIsReplayed
<1>1. IInv /\ Chain => NothingIsReplayed
  <2> SUFFICES ASSUME IInv, Chain PROVE NothingIsReplayed
    OBVIOUS
  <2>1. Ids \subseteq Nat
    BY WorkAssumption DEF Ids
  <2>2. \A i, j \in {k \in Ids : attempts[k].tool = "prepare" /\ history.paid[k] > 0} :
          attempts[i].of = attempts[j].of => i = j
    BY <2>1 DEF Chain, BoughtOnce
  <2>3. \A i, j \in {k \in Ids : attempts[k].tool = "execute" /\ history.launched[k] > 0} :
          attempts[i].of = attempts[j].of => i = j
    BY <2>1 DEF Chain, BoughtOnce
  <2> QED
    BY <2>2, <2>3 DEF NothingIsReplayed, Chain, Accounts, Account
<1> QED
  BY <1>1, InvariantHolds, ChainHolds, PTL

\* What a paid preparation repairs is a failure that really happened, once, to
\* the approved bytes and is settled in the ledger; fewer than max_repairs
\* were bought before it in all of the work, and under a shared contract it
\* does not repeat the failure that was repaired before: for any number of
\* attempts, and although what was verified when the repair was proposed is
\* read again only when its preparation starts.
THEOREM RepairsJustified == Spec => []RepairsAreJustified
<1>1. Chain => RepairsAreJustified
  BY DEF Chain, Repaired, Bought, Justified, PaidRepairs, RepairsAreJustified
<1> QED
  BY <1>1, ChainHolds, PTL

=============================================================================
