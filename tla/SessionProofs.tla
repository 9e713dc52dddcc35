--------------------------- MODULE SessionProofs ---------------------------
(***************************************************************************)
(* What Session guarantees for every number of processes, attempts,        *)
(* revisions and authorizations, with or without controllers that are used *)
(* again after an exception.                                               *)
(***************************************************************************)
EXTENDS Session, FiniteSetTheorems, TLAPS

----------------------------------------------------------------------------
(* The typing invariant.  TypeOK is not inductive by itself: a step of a    *)
(* mutation reads the copy and the attempt that its process works on, so    *)
(* these must be there.                                                     *)

\* A process that is up has a copy of the manifest, and what it last saved.
LiveCopies ==
  \A p \in Procs :
    pc[p] # "down" => mem[p] \in Manifest /\ saved[p] \in Manifest

\* A process inside a mutation owns the lock, works from the current file,
\* and its attempt is in the state that its step has brought it to.
JobAtWork ==
  \A p \in Procs :
    /\ pc[p] \in Steps => /\ lock = p
                          /\ saved[p] = session
                          /\ job[p].id \in Ids
    /\ pc[p] = "created" => attempts[job[p].id].status = "created"
    /\ pc[p] \in {"marked", "handling"} => attempts[job[p].id].status = "running"
    /\ pc[p] \in {"created", "marked", "handling"} => attempts[job[p].id].result = None
    /\ pc[p] \in {"resulted", "recorded"} =>
         attempts[job[p].id].status \in Terminal \cup {"running"}
    /\ pc[p] = "indexed" => attempts[job[p].id].status \in Terminal
    /\ pc[p] \in {"resulted", "recorded", "indexed"} => attempts[job[p].id].result # None

Typed == TypeOK /\ LiveCopies /\ JobAtWork

\* What a mutation that only rewrites the manifest may change in it.
Rewrites(old, new) ==
  /\ new \in Manifest
  /\ Grows(old, new)
  /\ new.current = old.current
  /\ new.budget.recorded = old.budget.recorded
  /\ new.budget.attempts = old.budget.attempts
  /\ new.budget.noProgress = old.budget.noProgress

\* The lifecycle operations, as far as the proofs need them.
LifecycleStep(p) ==
  \E m \in Manifest :
    /\ Enter(p)
    /\ Rewrites(mem[p], m)
    /\ Save(p, m)
    /\ \/ UNCHANGED issued
       \/ \E i \in Ids :
            /\ mem[p].nextSequence <= i /\ m.nextSequence = i + 1
            /\ session' # m => UNCHANGED issued
            /\ session' = m => issued' = [issued EXCEPT ![i] = @ + 1]

\* Create and load() apart, every lifecycle operation is such a step.
LEMMA LifecycleIsRewrite ==
  ASSUME Typed, NEW p \in Procs, Lifecycle(p)
  PROVE  Create(p) \/ Load(p) \/ LifecycleStep(p)
<1> USE SessionAssumption DEF Typed
<1> DEFINE Kept(m) == Enter(p) /\ Rewrites(mem[p], m) /\ Save(p, m)
<1>1. Enter(p) => mem[p] \in Manifest
  BY DEF Enter, LiveCopies
<1>2. ASSUME Enter(p), NEW s \in SessionStatuses
      PROVE  Rewrites(mem[p], [mem[p] EXCEPT !.status = s])
  BY <1>1, <1>2 DEF Rewrites, Grows, Manifest, Budget
<1>3. ASSUME NEW allow \in BOOLEAN, BlockExhausted(p, allow)
      PROVE  LifecycleStep(p)
  BY <1>1, <1>2, <1>3 DEF BlockExhausted, LifecycleStep, Rewrites, SessionStatuses
<1>4. ASSUME Pause(p) PROVE LifecycleStep(p)
  BY <1>1, <1>2, <1>4 DEF Pause, LifecycleStep, Rewrites, SessionStatuses
<1>5. ASSUME Complete(p) PROVE LifecycleStep(p)
  BY <1>1, <1>2, <1>5 DEF Complete, LifecycleStep, Rewrites, SessionStatuses
<1>6. ASSUME ApplicationStatus(p) PROVE LifecycleStep(p)
  BY <1>1, <1>2, <1>6 DEF ApplicationStatus, LifecycleStep, Rewrites, SessionStatuses
<1>7. ASSUME NEW a \in Auths, AuthorizeAdditional(p, a)
      PROVE  LifecycleStep(p)
  <2> DEFINE m == [mem[p] EXCEPT !.budget = Authorize(@, a)]
  <2>1. Enter(p) /\ mem[p] \in Manifest /\ Save(p, m) /\ UNCHANGED issued
    BY <1>1, <1>7 DEF AuthorizeAdditional
  <2> DEFINE b == mem[p].budget
  <2> DEFINE c == Authorize(b, a)
  <2>2. b \in Budget
    BY <2>1 DEF Manifest
  <2>3. /\ c \in Budget /\ c.recorded = b.recorded /\ b.auths \subseteq c.auths
        /\ c.attempts = b.attempts /\ c.noProgress = b.noProgress
    <3> HIDE DEF b
    <3>1. CASE a \in b.auths
      BY <2>2, <3>1 DEF Authorize
    <3>2. CASE a \notin b.auths
      <4> b.maxAttempts + ExtraAttempts \in Nat /\ b.auths \cup {a} \in SUBSET Auths
        BY <2>2 DEF Budget
      <4> QED
        BY <2>2, <3>2 DEF Authorize, Budget
    <3> QED
      BY <3>1, <3>2
  <2>4. m = [mem[p] EXCEPT !.budget = c]
    OBVIOUS
  <2>5. m \in Manifest /\ m.budget = c /\ m.revision = mem[p].revision
        /\ m.nextSequence = mem[p].nextSequence /\ m.current = mem[p].current
    <3> HIDE DEF c
    <3> QED
      BY <2>1, <2>3, <2>4 DEF Manifest
  <2>6. Rewrites(mem[p], m)
    <3> HIDE DEF m, c
    <3> QED
      BY <2>1, <2>3, <2>5 DEF Rewrites, Grows, Manifest
  <2> QED
    BY <2>1, <2>6 DEF LifecycleStep, Rewrites
<1>8. ASSUME NEW allow \in BOOLEAN, ContinueWithRevision(p, allow)
      PROVE  LifecycleStep(p)
  <2> DEFINE m == [mem[p] EXCEPT !.revision = @ + 1, !.status = "running"]
  <2>1. Enter(p) /\ mem[p] \in Manifest /\ Save(p, m) /\ UNCHANGED issued
    BY <1>1, <1>8 DEF ContinueWithRevision
  <2>2. mem[p].revision \in Nat /\ "running" \in SessionStatuses
    BY <2>1 DEF Manifest, SessionStatuses
  <2>3. m \in Manifest /\ m.budget = mem[p].budget /\ m.revision = mem[p].revision + 1
        /\ m.nextSequence = mem[p].nextSequence /\ m.current = mem[p].current
    <3> DEFINE k == mem[p].revision + 1
    <3>1. k \in Nat /\ m = [mem[p] EXCEPT !.revision = k, !.status = "running"]
      BY <2>2
    <3> HIDE DEF k, m
    <3>2. m \in Manifest /\ m.budget = mem[p].budget /\ m.revision = k
          /\ m.nextSequence = mem[p].nextSequence /\ m.current = mem[p].current
      BY <2>1, <2>2, <3>1 DEF Manifest
    <3> QED
      BY <3>2 DEF k
  <2>4. Rewrites(mem[p], m)
    <3> HIDE DEF m
    <3> QED
      BY <2>1, <2>2, <2>3 DEF Rewrites, Grows, Manifest
  <2> QED
    BY <2>1, <2>4 DEF LifecycleStep, Rewrites
<1>9. ASSUME NEW allow \in BOOLEAN, NEW n \in Ids, AllocateAttemptId(p, n, allow)
      PROVE  LifecycleStep(p)
  <2> DEFINE m == [mem[p] EXCEPT !.nextSequence = n + 1]
  <2>1. Enter(p) /\ mem[p] \in Manifest /\ Save(p, m) /\ n >= mem[p].nextSequence
    BY <1>1, <1>9 DEF AllocateAttemptId, FreeId
  <2>2. Rewrites(mem[p], m)
    BY <2>1 DEF Rewrites, Grows, Manifest, Budget, Ids
  <2>3. mem'[p] = m
    BY <2>1 DEF Save, Saved, SaveFails, Typed, TypeOK
  <2>4. m.nextSequence = n + 1 /\ mem[p].nextSequence <= n
    BY <2>1 DEF Manifest, Ids
  <2>5. issued' = IF session' = m THEN [issued EXCEPT ![n] = @ + 1] ELSE issued
    BY <1>9, <2>3 DEF AllocateAttemptId
  <2> QED
    BY <2>1, <2>2, <2>4, <2>5 DEF LifecycleStep, Rewrites
<1> QED
  BY <1>3, <1>4, <1>5, <1>6, <1>7, <1>8, <1>9 DEF Lifecycle

----------------------------------------------------------------------------
LEMMA InitTyped == Init => Typed
BY SessionAssumption DEF Init, Typed, TypeOK, LiveCopies, JobAtWork, NoJob, Job, Attempt,
  AttemptStatuses, Steps, Ids, NoId

\* While p owns the lock, or nobody does, no other process is in a mutation.
LEMMA Alone ==
  ASSUME Typed, NEW p \in Procs, lock \in {p, None}, NEW q \in Procs, q # p
  PROVE  pc[q] \notin Steps
BY SessionAssumption DEF Typed, JobAtWork

LEMMA RewriteKeepsTyped ==
  ASSUME Typed, NEW p \in Procs, LifecycleStep(p)
  PROVE  Typed'
<1> USE SessionAssumption
<1>1. PICK m \in Manifest :
        /\ Enter(p) /\ Save(p, m)
        /\ \/ UNCHANGED issued
           \/ \E i \in Ids :
                /\ session' # m => UNCHANGED issued
                /\ session' = m => issued' = [issued EXCEPT ![i] = @ + 1]
  BY DEF LifecycleStep
<1>2. mem' = [mem EXCEPT ![p] = m] /\ session' \in {session, m} /\ saved' \in {saved, [saved EXCEPT ![p] = m]}
  BY <1>1 DEF Save, Saved, SaveFails
<1>3. UNCHANGED <<attempts, lock, pc, job, runs>>
  BY <1>1 DEF Save
<1>4. issued' \in [Ids -> Nat]
  BY <1>1 DEF Typed, TypeOK
<1>5. TypeOK'
  BY <1>2, <1>3, <1>4 DEF Typed, TypeOK
<1>6. LiveCopies'
  BY <1>2, <1>3 DEF Typed, TypeOK, LiveCopies
<1>7. JobAtWork'
  <2>1. \A q \in Procs : pc[q] \notin Steps
    BY <1>1, Alone DEF Enter, Steps
  <2> QED
    BY <2>1, <1>3 DEF JobAtWork, Steps
<1> QED
  BY <1>5, <1>6, <1>7 DEF Typed

LEMMA LifecycleKeepsTyped ==
  ASSUME Typed, NEW p \in Procs, Lifecycle(p)
  PROVE  Typed'
<1> USE SessionAssumption
<1>1. CASE Create(p)
  <2>1. NewManifest \in Manifest
    BY DEF NewManifest, Manifest, Budget, SessionStatuses, NoId
  <2>2. \A q \in Procs : pc[q] \notin Steps
    BY <1>1, Alone DEF Create, Steps
  <2> QED
    BY <1>1, <2>1, <2>2 DEF Create, Saved, Typed, TypeOK, LiveCopies, JobAtWork, history, Steps
<1>2. CASE Load(p)
  <2>1. session \in Manifest /\ pc[p] \notin Steps
    BY <1>2 DEF Load, Typed, TypeOK, Steps
  <2> QED
    BY <1>2, <2>1 DEF Load, Typed, TypeOK, LiveCopies, JobAtWork, disk, history, Steps
<1>3. CASE LifecycleStep(p)
  BY <1>3, RewriteKeepsTyped
<1> QED
  BY <1>1, <1>2, <1>3, LifecycleIsRewrite

LEMMA ExecuteKeepsTyped ==
  ASSUME Typed, NEW p \in Procs, Execute(p)
  PROVE  Typed'
<1> USE SessionAssumption DEF Typed, TypeOK
<1>1. ASSUME NEW i \in Ids, NEW parent \in Ids \cup {NoId}, NEW allow \in BOOLEAN,
             BeginAttempt(p, i, parent, allow)
      PROVE  Typed'
  <2>1. /\ pc[p] = "idle" /\ mem[p] \in Manifest /\ saved[p] = session
        /\ \A q \in Procs \ {p} : pc[q] \notin Steps
    BY <1>1, Alone DEF BeginAttempt, Enter, LiveCopies
  <2>2. mem'[p] \in Manifest
    BY <1>1, <2>1 DEF BeginAttempt, Manifest, SessionStatuses
  <2>3. TypeOK'
    <3>1. attempts' \in [Ids -> Attempt]
      BY <1>1 DEF BeginAttempt, Attempt, AttemptStatuses
    <3>2. job' \in [Procs -> Job]
      BY <1>1 DEF BeginAttempt, Job, NoJob
    <3>3. mem' \in [Procs -> Manifest \cup {None}]
      BY <1>1, <2>2 DEF BeginAttempt
    <3> QED
      BY <1>1, <3>1, <3>2, <3>3 DEF BeginAttempt, history, Steps
  <2>4. LiveCopies'
    BY <1>1, <2>1, <2>2 DEF BeginAttempt, LiveCopies
  <2>5. JobAtWork'
    BY <1>1, <2>1 DEF BeginAttempt, JobAtWork, Steps, NoJob
  <2> QED
    BY <2>3, <2>4, <2>5
<1>2. ASSUME NEW i \in Ids, NEW allow \in BOOLEAN, BeginAttemptFails(p, i, allow)
      PROVE  Typed'
  <2>1. attempts' \in [Ids -> Attempt]
    BY <1>2 DEF BeginAttemptFails, Attempt, AttemptStatuses
  <2>2. \A q \in Procs : pc[q] \notin Steps
    BY <1>2, Alone DEF BeginAttemptFails, Enter, Steps
  <2>3. TypeOK'
    BY <1>2, <2>1 DEF BeginAttemptFails, history
  <2>4. LiveCopies'
    BY <1>2 DEF BeginAttemptFails, LiveCopies
  <2>5. JobAtWork'
    BY <1>2, <2>2 DEF BeginAttemptFails, JobAtWork, Steps
  <2> QED
    BY <2>3, <2>4, <2>5
<1>3. ASSUME MarkRunning(p) PROVE Typed'
  <2>1. /\ pc[p] = "created" /\ lock = p /\ job[p].id \in Ids
        /\ \A q \in Procs \ {p} : pc[q] \notin Steps
    BY <1>3, Alone DEF MarkRunning, Step, JobAtWork, Steps
  <2>2. attempts' \in [Ids -> Attempt]
    BY <1>3, <2>1 DEF MarkRunning, Attempt, AttemptStatuses
  <2>3. JobAtWork'
    BY <1>3, <2>1 DEF MarkRunning, Step, JobAtWork, Steps, Attempt
  <2> QED
    BY <1>3, <2>2, <2>3 DEF MarkRunning, Step, LiveCopies, Steps
<1>4. ASSUME StartHandler(p) PROVE Typed'
  <2>1. /\ pc[p] = "marked" /\ lock = p /\ job[p].id \in Ids /\ mem[p] \in Manifest
        /\ \A q \in Procs \ {p} : pc[q] \notin Steps
    BY <1>4, Alone DEF StartHandler, JobAtWork, LiveCopies, Steps
  <2>2. JobAtWork'
    BY <1>4, <2>1 DEF StartHandler, Saved, JobAtWork, Steps
  <2> QED
    BY <1>4, <2>1, <2>2 DEF StartHandler, Saved, LiveCopies, Steps
<1>5. ASSUME NEW r \in Outcomes, HandlerEnds(p, r) PROVE Typed'
  <2>1. /\ pc[p] = "handling" /\ lock = p /\ job[p].id \in Ids /\ r \in Result /\ r # None
        /\ \A q \in Procs \ {p} : pc[q] \notin Steps
    BY <1>5, Alone DEF HandlerEnds, Step, JobAtWork, Steps
  <2>2. attempts' \in [Ids -> Attempt]
    BY <1>5, <2>1 DEF HandlerEnds, Attempt
  <2>3. attempts[job[p].id].status = "running"
    BY <2>1 DEF JobAtWork
  <2>4. JobAtWork'
    <3>1. attempts'[job[p].id].status = "running" /\ attempts'[job[p].id].result = r
      BY <1>5, <2>1, <2>3 DEF HandlerEnds, Attempt
    <3> QED
      BY <1>5, <2>1, <3>1 DEF HandlerEnds, Step, JobAtWork, Steps
  <2> QED
    BY <1>5, <2>2, <2>4 DEF HandlerEnds, Step, LiveCopies, Steps
<1> HIDE DEF Typed, TypeOK
<1> QED
  BY <1>1, <1>2, <1>3, <1>4, <1>5 DEF Execute

LEMMA RecoveryKeepsTyped ==
  ASSUME Typed, NEW p \in Procs, Recovery(p)
  PROVE  Typed'
<1> USE SessionAssumption DEF Typed, TypeOK
<1>1. ASSUME NEW i \in Ids, ReconcileAttempt(p, i) PROVE Typed'
  <2>1. /\ pc[p] = "idle" /\ mem[p] \in Manifest /\ saved[p] = session
        /\ \A q \in Procs \ {p} : pc[q] \notin Steps
    BY <1>1, Alone DEF ReconcileAttempt, Enter, LiveCopies
  <2>2. job' \in [Procs -> Job]
    BY <1>1 DEF ReconcileAttempt, Job, NoJob
  <2>3. JobAtWork'
    BY <1>1, <2>1 DEF ReconcileAttempt, JobAtWork, Steps, NoJob, disk
  <2> QED
    BY <1>1, <2>1, <2>2, <2>3 DEF ReconcileAttempt, LiveCopies, disk, history, Steps
<1>2. ASSUME NEW i \in Ids, RecoverInterrupted(p, i) PROVE Typed'
  <2>1. /\ pc[p] = "idle" /\ mem[p] \in Manifest /\ saved[p] = session
        /\ \A q \in Procs \ {p} : pc[q] \notin Steps
    BY <1>2, Alone DEF RecoverInterrupted, Enter, LiveCopies
  <2>2. job' \in [Procs -> Job]
    BY <1>2 DEF RecoverInterrupted, Job, NoJob
  <2>3. InterruptedResult \in Result /\ InterruptedResult # None
    <3>1. InterruptedResult \in Result
      BY DEF InterruptedResult, Result
    <3> QED
      BY <3>1
  <2>4. attempts' \in [Ids -> Attempt]
    BY <1>2, <2>3 DEF RecoverInterrupted, Attempt
  <2>5. JobAtWork'
    BY <1>2, <2>1, <2>3 DEF RecoverInterrupted, CanRecover, JobAtWork, Steps, NoJob, Attempt
  <2> QED
    BY <1>2, <2>1, <2>2, <2>4, <2>5 DEF RecoverInterrupted, LiveCopies, history, Steps
<1> HIDE DEF Typed, TypeOK
<1> QED
  BY <1>1, <1>2 DEF Recovery

\* Recording an attempt adds it to the budget's record and nothing else.
LEMMA RecordAdds ==
  ASSUME NEW b \in Budget, NEW i \in Ids, NEW progressed
  PROVE  /\ Record(b, i, progressed) \in Budget
         /\ Record(b, i, progressed).recorded = b.recorded \cup {i}
         /\ Record(b, i, progressed).auths = b.auths
<1>1. /\ b.attempts + 1 \in Nat /\ b.noProgress + 1 \in Nat
      /\ b.recorded \cup {i} \in SUBSET Ids
  BY DEF Budget
<1>2. CASE i \in b.recorded
  BY <1>2 DEF Record
<1>3. CASE i \notin b.recorded
  BY <1>1, <1>3 DEF Record, Budget
<1> QED
  BY <1>2, <1>3

LEMMA CommitKeepsTyped ==
  ASSUME Typed, NEW p \in Procs, Commit(p)
  PROVE  Typed'
<1> USE SessionAssumption DEF Typed, TypeOK
<1>1. ASSUME NEW missing \in BOOLEAN, RecordOutcome(p, missing) PROVE Typed'
  <2> DEFINE i == job[p].id
  <2> DEFINE r == attempts[i].result
  <2>1. /\ pc[p] = "resulted" /\ lock = p /\ i \in Ids /\ mem[p] \in Manifest
        /\ \A q \in Procs \ {p} : pc[q] \notin Steps
    BY <1>1, Alone DEF RecordOutcome, Step, JobAtWork, LiveCopies, Steps
  <2>2. r \in Result /\ attempts[i].status \in Terminal \cup {"running"}
    BY <2>1 DEF JobAtWork, Attempt
  <2>3. /\ attempts' \in [Ids -> Attempt] /\ attempts'[i].result \in Result
        /\ attempts'[i].status = attempts[i].status
    <3>1. CASE missing /\ r.status = "completed" /\ ~job[p].reconciled
      <4>1. attempts' = [attempts EXCEPT ![i] = [@ EXCEPT !.result = [r EXCEPT !.status = "partial"]]]
        BY <1>1, <3>1 DEF RecordOutcome
      <4>2. [r EXCEPT !.status = "partial"] \in Result
        BY <2>2 DEF Result
      <4> QED
        BY <2>1, <4>1, <4>2 DEF Attempt
    <3>2. CASE ~(missing /\ r.status = "completed" /\ ~job[p].reconciled)
      BY <1>1, <2>2, <3>2 DEF RecordOutcome
    <3> QED
      BY <3>1, <3>2
  <2>4. mem[p].budget \in Budget
    BY <2>1 DEF Manifest
  <2>5. mem' = [mem EXCEPT ![p] = [mem[p] EXCEPT !.budget = Record(mem[p].budget, i, Progressed(r))]]
    BY <1>1 DEF RecordOutcome
  <2>6. mem'[p] \in Manifest /\ mem' \in [Procs -> Manifest \cup {None}]
    <3> DEFINE c == Record(mem[p].budget, i, Progressed(r))
    <3>1. c \in Budget
      BY <2>1, <2>4, RecordAdds
    <3> HIDE DEF c
    <3>2. [mem[p] EXCEPT !.budget = c] \in Manifest
      BY <2>1, <3>1 DEF Manifest
    <3> QED
      BY <2>1, <2>5, <3>2 DEF c
  <2>7. job' \in [Procs -> Job] /\ job'[p].id = i
    <3> DEFINE new == i \notin mem[p].budget.recorded
    <3>1. new \in BOOLEAN /\ job' = [job EXCEPT ![p].counted = new]
      BY <1>1 DEF RecordOutcome
    <3> HIDE DEF new, i
    <3>2. job' \in [Procs -> Job] /\ job'[p].id = job[p].id
      BY <3>1 DEF Job
    <3> QED
      BY <3>2 DEF i
  <2>8. JobAtWork'
    <3>1. /\ pc'[p] = "recorded" /\ lock' = p /\ saved'[p] = session'
          /\ \A q \in Procs \ {p} : pc'[q] \notin Steps
      BY <1>1, <2>1 DEF RecordOutcome, Step, JobAtWork, Steps
    <3>2. /\ attempts'[job'[p].id].status \in Terminal \cup {"running"}
          /\ attempts'[job'[p].id].result # None /\ job'[p].id \in Ids
      BY <2>1, <2>2, <2>3, <2>7 DEF Result
    <3> HIDE DEF TypeOK, Typed, i, r
    <3> QED
      BY <3>1, <3>2 DEF JobAtWork, Steps
  <2>9. LiveCopies'
    BY <1>1, <2>1, <2>6 DEF RecordOutcome, Step, LiveCopies
  <2>10. pc' \in [Procs -> Steps \cup {"down", "idle"}]
    <3>1. pc \in [Procs -> Steps \cup {"down", "idle"}] /\ pc' = [pc EXCEPT ![p] = "recorded"]
      BY <1>1 DEF RecordOutcome, Step
    <3>2. "recorded" \in Steps  BY DEF Steps
    <3> HIDE DEF TypeOK, Typed
    <3> QED
      BY <3>1, <3>2
  <2>11. TypeOK'
    <3>1. UNCHANGED <<lock, runs, issued, session, saved>>
      BY <1>1 DEF RecordOutcome, Step
    <3> QED
      BY <2>3, <2>6, <2>7, <2>10, <3>1
  <2> QED
    BY <2>8, <2>9, <2>11
<1>2. ASSUME IndexOutcome(p) PROVE Typed'
  <2> DEFINE i == job[p].id
  <2>1. /\ pc[p] = "recorded" /\ lock = p /\ i \in Ids /\ mem[p] \in Manifest
        /\ \A q \in Procs \ {p} : pc[q] \notin Steps
    BY <1>2, Alone DEF IndexOutcome, Step, JobAtWork, LiveCopies, Steps
  <2>2. attempts[i].result \in Result
    BY <2>1 DEF JobAtWork, Attempt
  <2>3. AttemptStatus(attempts[i].result) \in Terminal
    BY <2>2 DEF AttemptStatus, Result, Terminal
  <2>4. /\ attempts' \in [Ids -> Attempt] /\ attempts'[i].status \in Terminal
        /\ attempts'[i].result = attempts[i].result
    BY <1>2, <2>1, <2>3 DEF IndexOutcome, Attempt, Terminal, AttemptStatuses
  <2>5. Committed(p) \in Manifest
    BY <2>1 DEF Committed, Manifest, SessionStatuses
  <2>6. JobAtWork'
    BY <1>2, <2>1, <2>2, <2>4 DEF IndexOutcome, Step, JobAtWork, Steps
  <2> QED
    BY <1>2, <2>4, <2>5, <2>6 DEF IndexOutcome, Step, LiveCopies, Steps
<1>3. ASSUME CommitSession(p) PROVE Typed'
  <2>1. /\ pc[p] = "indexed" /\ lock = p /\ mem[p] \in Manifest
        /\ \A q \in Procs \ {p} : pc[q] \notin Steps
    BY <1>3, Alone DEF CommitSession, JobAtWork, LiveCopies, Steps
  <2>2. NoJob \in Job
    BY DEF NoJob, Job
  <2> QED
    BY <1>3, <2>1, <2>2 DEF CommitSession, Saved, Leave, LiveCopies, JobAtWork, history, Steps
<1> HIDE DEF Typed, TypeOK
<1> QED
  BY <1>1, <1>2, <1>3 DEF Commit

LEMMA InterruptionKeepsTyped ==
  ASSUME Typed, NEW p \in Procs, Abort(p) \/ Crash(p)
  PROVE  Typed'
<1> USE SessionAssumption DEF Typed, TypeOK
<1>1. NoJob \in Job
  BY DEF NoJob, Job
<1>2. CASE Abort(p)
  <2>1. lock = p /\ \A q \in Procs \ {p} : pc[q] \notin Steps
    BY <1>2, Alone DEF Abort, JobAtWork
  <2> QED
    BY <1>1, <1>2, <2>1 DEF Abort, Leave, LiveCopies, JobAtWork, disk, history, Steps
<1>3. CASE Crash(p)
  BY <1>1, <1>3 DEF Crash, LiveCopies, JobAtWork, disk, history, Steps
<1> HIDE DEF Typed, TypeOK
<1> QED
  BY <1>2, <1>3

LEMMA NextTyped == Typed /\ [Next]_vars => Typed'
<1> SUFFICES ASSUME Typed, [Next]_vars PROVE Typed'
  OBVIOUS
<1>1. CASE Next
  BY <1>1, LifecycleKeepsTyped, ExecuteKeepsTyped, RecoveryKeepsTyped, CommitKeepsTyped,
     InterruptionKeepsTyped DEF Next
<1>2. CASE UNCHANGED vars
  BY <1>2 DEF vars, Typed, TypeOK, LiveCopies, JobAtWork
<1> QED
  BY <1>1, <1>2

\* Every variable keeps its type, whatever steps processes interleave, stop
\* in the middle of, or fail.
THEOREM TypeCorrect == Spec => []TypeOK
<1>1. Typed => TypeOK
  BY DEF Typed
<1> QED
  BY InitTyped, NextTyped, <1>1, PTL DEF Spec

----------------------------------------------------------------------------
(* One open attempt.  The invariant alone is not inductive: the attempt a   *)
(* process is about to mark running must be the only one to be.             *)

OpenInv ==
  /\ OneOpenAttempt
  /\ \A p \in Procs : pc[p] = "created" => NoRunningAttempt

LEMMA NextKeepsOpenInv == Typed /\ OpenInv /\ [Next]_vars => OpenInv'
<1> SUFFICES ASSUME Typed, OpenInv, [Next]_vars PROVE OpenInv'
  OBVIOUS
<1> USE SessionAssumption DEF OpenInv, OneOpenAttempt, NoRunningAttempt
<1>1. ASSUME NEW p \in Procs, Lifecycle(p) PROVE OpenInv'
  <2>1. UNCHANGED attempts /\ \A q \in Procs : pc'[q] = "created" => pc[q] = "created"
    <3>1. CASE Create(p) \/ Load(p)
      BY <3>1 DEF Create, Load, disk, Typed, TypeOK
    <3>2. CASE LifecycleStep(p)
      BY <3>2 DEF LifecycleStep, Save
    <3> QED
      BY <1>1, <3>1, <3>2, LifecycleIsRewrite
  <2> QED
    BY <2>1
<1>2. ASSUME NEW p \in Procs, Execute(p) PROVE OpenInv'
  <2> USE DEF Typed, TypeOK
  <2>1. ASSUME NEW i \in Ids, NEW parent \in Ids \cup {NoId}, NEW allow \in BOOLEAN,
               BeginAttempt(p, i, parent, allow)
        PROVE  OpenInv'
    BY <2>1 DEF BeginAttempt, CanExecute, Attempt
  <2>2. ASSUME NEW i \in Ids, NEW allow \in BOOLEAN, BeginAttemptFails(p, i, allow)
        PROVE  OpenInv'
    BY <2>2 DEF BeginAttemptFails, Attempt
  <2>3. CASE MarkRunning(p)
    <3>1. /\ pc[p] = "created" /\ lock = p
          /\ \A q \in Procs \ {p} : pc[q] \notin Steps
      BY <2>3, Alone DEF MarkRunning, Step, JobAtWork, Steps
    <3> QED
      BY <2>3, <3>1 DEF MarkRunning, Step, Attempt, Steps
  <2>4. CASE StartHandler(p)
    BY <2>4 DEF StartHandler
  <2>5. ASSUME NEW r \in Outcomes, HandlerEnds(p, r) PROVE OpenInv'
    BY <2>5 DEF HandlerEnds, Step, Attempt
  <2> HIDE DEF OpenInv, Typed, TypeOK
  <2> QED
    BY <1>2, <2>1, <2>2, <2>3, <2>4, <2>5 DEF Execute
<1>3. ASSUME NEW p \in Procs, Recovery(p) PROVE OpenInv'
  <2>1. /\ \A i \in Ids : attempts'[i].status = attempts[i].status
        /\ \A q \in Procs : pc'[q] = "created" => pc[q] = "created"
    <3>1. ASSUME NEW i \in Ids, ReconcileAttempt(p, i) PROVE <2>1!1 /\ <2>1!2
      BY <3>1 DEF ReconcileAttempt, disk, Typed, TypeOK
    <3>2. ASSUME NEW i \in Ids, RecoverInterrupted(p, i) PROVE <2>1!1 /\ <2>1!2
      BY <3>2 DEF RecoverInterrupted, Typed, TypeOK, Attempt
    <3> QED
      BY <1>3, <3>1, <3>2 DEF Recovery
  <2> QED
    BY <2>1
<1>4. ASSUME NEW p \in Procs, Commit(p) PROVE OpenInv'
  <2> USE DEF Typed, TypeOK
  <2>1. ASSUME NEW missing \in BOOLEAN, RecordOutcome(p, missing) PROVE OpenInv'
    <3>1. \A i \in Ids : attempts'[i].status = attempts[i].status
      BY <2>1 DEF RecordOutcome, Attempt
    <3> QED
      BY <2>1, <3>1 DEF RecordOutcome, Step
  <2>2. CASE IndexOutcome(p)
    <3>1. job[p].id \in Ids /\ attempts[job[p].id].result \in Result
      BY <2>2 DEF IndexOutcome, Step, JobAtWork, Steps, Attempt
    <3>2. AttemptStatus(attempts[job[p].id].result) # "running"
      BY <3>1 DEF AttemptStatus, Result
    <3> QED
      BY <2>2, <3>1, <3>2 DEF IndexOutcome, Step, Attempt
  <2>3. CASE CommitSession(p)
    BY <2>3 DEF CommitSession, Leave
  <2> HIDE DEF OpenInv, Typed, TypeOK
  <2> QED
    BY <1>4, <2>1, <2>2, <2>3 DEF Commit
<1>5. ASSUME NEW p \in Procs, Abort(p) \/ Crash(p) PROVE OpenInv'
  BY <1>5 DEF Abort, Crash, Leave, disk, Typed, TypeOK
<1>6. CASE UNCHANGED vars
  BY <1>6 DEF vars
<1> HIDE DEF OpenInv
<1> QED
  BY <1>1, <1>2, <1>3, <1>4, <1>5, <1>6 DEF Next

\* At most one attempt is open, whatever processes share the session and
\* wherever they stop (core/session.py:463-492, 1095-1124).
THEOREM OneAttemptOpen == Spec => []OneOpenAttempt
<1>1. Init => OpenInv
  BY DEF Init, OpenInv, OneOpenAttempt
<1>2. OpenInv => OneOpenAttempt
  BY DEF OpenInv
<1> QED
  BY InitTyped, NextTyped, NextKeepsOpenInv, <1>1, <1>2, PTL DEF Spec

----------------------------------------------------------------------------
(* How the files of one attempt may change in a step.                       *)

\* A directory that was never made holds nothing.
Blank == \A i \in Ids : attempts[i].status = "none" =>
           attempts[i].result = None /\ attempts[i].parent = NoId

\* An attempt is made, started and closed, in this order; it keeps its
\* parent, and the result once written.
Advances(i) ==
  LET s == attempts[i].status
      t == attempts'[i].status
      r == attempts[i].result
      u == attempts'[i].result
  IN /\ \/ t = s
        \/ s = "none" /\ t \in {"bare", "created"}
        \/ s = "created" /\ t = "running"
        \/ s \in Terminal \cup {"running"} /\ t \in Terminal
     /\ s # "none" => attempts'[i].parent = attempts[i].parent
     /\ r # None => \/ u = r
                    \/ r.status = "completed" /\ u = [r EXCEPT !.status = "partial"]
     /\ t = "none" => attempts'[i] = attempts[i]

LEMMA AttemptsAdvance ==
  ASSUME Typed, Blank, [Next]_vars, NEW i \in Ids
  PROVE  Advances(i)
<1> USE SessionAssumption DEF Typed, TypeOK
<1>1. ASSUME UNCHANGED attempts PROVE Advances(i)
  BY <1>1 DEF Advances
<1>2. ASSUME NEW p \in Procs, Lifecycle(p) PROVE UNCHANGED attempts
  <2>1. CASE Create(p) \/ Load(p)
    BY <2>1 DEF Create, Load, disk
  <2>2. CASE LifecycleStep(p)
    BY <2>2 DEF LifecycleStep, Save
  <2> HIDE DEF Typed, TypeOK
  <2> QED
    BY <1>2, <2>1, <2>2, LifecycleIsRewrite
<1>3. ASSUME NEW p \in Procs, Execute(p) PROVE Advances(i)
  <2>1. ASSUME NEW j \in Ids, NEW parent \in Ids \cup {NoId}, NEW allow \in BOOLEAN,
               BeginAttempt(p, j, parent, allow)
        PROVE  Advances(i)
    BY <2>1 DEF BeginAttempt, DirectoryIsFree, Attempt, Advances, Blank
  <2>2. ASSUME NEW j \in Ids, NEW allow \in BOOLEAN, BeginAttemptFails(p, j, allow)
        PROVE  Advances(i)
    BY <2>2 DEF BeginAttemptFails, DirectoryIsFree, Attempt, Advances, Blank
  <2>3. CASE MarkRunning(p)
    <3>1. pc[p] = "created" /\ attempts[job[p].id].status = "created"
      BY <2>3 DEF MarkRunning, Step, JobAtWork
    <3> QED
      BY <2>3, <3>1 DEF MarkRunning, Attempt, Advances
  <2>4. CASE StartHandler(p)
    BY <1>1, <2>4 DEF StartHandler
  <2>5. ASSUME NEW r \in Outcomes, HandlerEnds(p, r) PROVE Advances(i)
    <3>1. attempts[job[p].id].result = None /\ attempts[job[p].id].status = "running"
      BY <2>5 DEF HandlerEnds, Step, JobAtWork
    <3> QED
      BY <2>5, <3>1 DEF HandlerEnds, Attempt, Advances
  <2> HIDE DEF Typed, TypeOK
  <2> QED
    BY <1>3, <2>1, <2>2, <2>3, <2>4, <2>5 DEF Execute
<1>4. ASSUME NEW p \in Procs, Recovery(p) PROVE Advances(i)
  <2>1. ASSUME NEW j \in Ids, ReconcileAttempt(p, j) PROVE Advances(i)
    BY <1>1, <2>1 DEF ReconcileAttempt, disk
  <2>2. ASSUME NEW j \in Ids, RecoverInterrupted(p, j) PROVE Advances(i)
    BY <2>2 DEF RecoverInterrupted, CanRecover, Attempt, Advances
  <2> HIDE DEF Typed, TypeOK
  <2> QED
    BY <1>4, <2>1, <2>2 DEF Recovery
<1>5. ASSUME NEW p \in Procs, Commit(p) PROVE Advances(i)
  <2>1. ASSUME NEW missing \in BOOLEAN, RecordOutcome(p, missing) PROVE Advances(i)
    <3> DEFINE r == attempts[job[p].id].result
    <3>1. /\ job[p].id \in Ids /\ attempts[job[p].id].status \in Terminal \cup {"running"}
          /\ r \in Result
      BY <2>1 DEF RecordOutcome, Step, JobAtWork, Steps, Attempt
    <3>2. CASE missing /\ r.status = "completed" /\ ~job[p].reconciled
      <4>1. attempts' = [attempts EXCEPT ![job[p].id] = [@ EXCEPT !.result = [r EXCEPT !.status = "partial"]]]
        BY <2>1, <3>2 DEF RecordOutcome
      <4> QED
        BY <3>1, <3>2, <4>1 DEF Attempt, Advances, Terminal
    <3>3. CASE ~(missing /\ r.status = "completed" /\ ~job[p].reconciled)
      BY <1>1, <2>1, <3>3 DEF RecordOutcome
    <3> QED
      BY <3>2, <3>3
  <2>2. CASE IndexOutcome(p)
    <3>1. /\ job[p].id \in Ids /\ attempts[job[p].id].status \in Terminal \cup {"running"}
          /\ attempts[job[p].id].result \in Result
      BY <2>2 DEF IndexOutcome, Step, JobAtWork, Steps, Attempt
    <3>2. AttemptStatus(attempts[job[p].id].result) \in Terminal
      BY <3>1 DEF AttemptStatus, Result, Terminal
    <3> QED
      BY <2>2, <3>1, <3>2 DEF IndexOutcome, Step, Attempt, Advances, Terminal
  <2>3. CASE CommitSession(p)
    BY <1>1, <2>3 DEF CommitSession
  <2> HIDE DEF Typed, TypeOK
  <2> QED
    BY <1>5, <2>1, <2>2, <2>3 DEF Commit
<1>6. ASSUME NEW p \in Procs, Abort(p) \/ Crash(p) PROVE UNCHANGED attempts
  BY <1>6 DEF Abort, Crash, disk
<1>7. CASE UNCHANGED vars
  BY <1>1, <1>7 DEF vars
<1> HIDE DEF Typed, TypeOK
<1> QED
  BY <1>1, <1>2, <1>3, <1>4, <1>5, <1>6, <1>7 DEF Next

LEMMA NextBlank == Typed /\ Blank /\ [Next]_vars => Blank'
<1> SUFFICES ASSUME Typed, Blank, [Next]_vars, NEW i \in Ids, attempts'[i].status = "none"
             PROVE  attempts'[i].result = None /\ attempts'[i].parent = NoId
  BY DEF Blank
<1>1. attempts'[i] = attempts[i]
  BY AttemptsAdvance DEF Advances
<1> QED
  BY <1>1 DEF Blank

LEMMA InitBlank == Init => Blank
BY DEF Init, Blank

\* An outcome that is on disk is what every later process commits, recovers
\* or reads: nothing rewrites it but the check of its own outputs
\* (core/session.py:54-61, 965-1005).
THEOREM OutcomesKept == Spec => OutcomeIsKept
<1>1. Typed /\ Blank /\ [Next]_vars =>
        [\A i \in Ids :
           attempts[i].result # None =>
             \/ attempts'[i].result = attempts[i].result
             \/ /\ attempts[i].result.status = "completed"
                /\ attempts'[i].result = [attempts[i].result EXCEPT !.status = "partial"]]_vars
  BY AttemptsAdvance DEF Advances
<1> QED
  BY InitTyped, InitBlank, NextTyped, NextBlank, <1>1, PTL DEF Spec, OutcomeIsKept

----------------------------------------------------------------------------
(* No work is replayed.                                                      *)

\* A handler was started only for attempts that are running or closed, and
\* not yet for the one a process is about to start.
RunsInv ==
  /\ HandlerRunsOnce
  /\ \A i \in Ids : runs[i] > 0 => attempts[i].status \in Terminal \cup {"running"}
  /\ \A p \in Procs : pc[p] \in {"created", "marked"} => runs[job[p].id] = 0

\* Only StartHandler counts a run; an attempt about to be started is new or
\* was about to be started before.
LEMMA RunsChange ==
  ASSUME Typed, [Next]_vars, ~\E p \in Procs : StartHandler(p)
  PROVE  /\ UNCHANGED runs
         /\ \A p \in Procs : pc'[p] \in {"created", "marked"} =>
              \/ pc[p] \in {"created", "marked"} /\ job'[p] = job[p]
              \/ job'[p].id \in Ids /\ attempts[job'[p].id].status = "none"
<1> DEFINE Goal == /\ UNCHANGED runs
                   /\ \A p \in Procs : pc'[p] \in {"created", "marked"} =>
                        \/ pc[p] \in {"created", "marked"} /\ job'[p] = job[p]
                        \/ job'[p].id \in Ids /\ attempts[job'[p].id].status = "none"
<1> USE DEF Typed, TypeOK, disk, history
<1>1. ASSUME NEW p \in Procs, Lifecycle(p) PROVE Goal
  <2>1. CASE Create(p) \/ Load(p)
    BY <2>1 DEF Create, Load
  <2>2. CASE LifecycleStep(p)
    BY <2>2 DEF LifecycleStep, Save
  <2> HIDE DEF Typed, TypeOK
  <2> QED
    BY <1>1, <2>1, <2>2, LifecycleIsRewrite
<1>2. ASSUME NEW p \in Procs, Execute(p) PROVE Goal
  <2>1. ASSUME NEW i \in Ids, NEW parent \in Ids \cup {NoId}, NEW allow \in BOOLEAN,
               BeginAttempt(p, i, parent, allow)
        PROVE  Goal
    BY <2>1 DEF BeginAttempt, DirectoryIsFree, NoJob
  <2>2. ASSUME NEW i \in Ids, NEW allow \in BOOLEAN, BeginAttemptFails(p, i, allow)
        PROVE  Goal
    BY <2>2 DEF BeginAttemptFails
  <2>3. CASE MarkRunning(p)
    BY <2>3 DEF MarkRunning, Step
  <2>4. ASSUME NEW r \in Outcomes, HandlerEnds(p, r) PROVE Goal
    BY <2>4 DEF HandlerEnds, Step
  <2> HIDE DEF Typed, TypeOK
  <2> QED
    BY <1>2, <2>1, <2>2, <2>3, <2>4 DEF Execute
<1>3. ASSUME NEW p \in Procs, Recovery(p) PROVE Goal
  <2>1. ASSUME NEW i \in Ids, ReconcileAttempt(p, i) PROVE Goal
    BY <2>1 DEF ReconcileAttempt
  <2>2. ASSUME NEW i \in Ids, RecoverInterrupted(p, i) PROVE Goal
    BY <2>2 DEF RecoverInterrupted
  <2> QED
    BY <1>3, <2>1, <2>2 DEF Recovery
<1>4. ASSUME NEW p \in Procs, Commit(p) PROVE Goal
  <2>1. ASSUME NEW missing \in BOOLEAN, RecordOutcome(p, missing) PROVE Goal
    BY <2>1 DEF RecordOutcome, Step
  <2>2. CASE IndexOutcome(p)
    BY <2>2 DEF IndexOutcome, Step
  <2>3. CASE CommitSession(p)
    BY <2>3 DEF CommitSession, Leave
  <2> QED
    BY <1>4, <2>1, <2>2, <2>3 DEF Commit
<1>5. ASSUME NEW p \in Procs, Abort(p) \/ Crash(p) PROVE Goal
  BY <1>5 DEF Abort, Crash, Leave
<1>6. CASE UNCHANGED vars
  BY <1>6 DEF vars
<1> HIDE DEF Typed, TypeOK
<1> QED
  BY <1>1, <1>2, <1>3, <1>4, <1>5, <1>6 DEF Next

LEMMA NextKeepsRunsInv == Typed /\ Blank /\ RunsInv /\ [Next]_vars => RunsInv'
<1> SUFFICES ASSUME Typed, Blank, RunsInv, [Next]_vars PROVE RunsInv'
  OBVIOUS
<1>1. ASSUME NEW i \in Ids, attempts[i].status \in Terminal \cup {"running"}
      PROVE  attempts'[i].status \in Terminal \cup {"running"}
  BY <1>1, AttemptsAdvance DEF Advances, Terminal
<1>2. CASE ~\E p \in Procs : StartHandler(p)
  <2>1. ASSUME NEW p \in Procs, pc'[p] \in {"created", "marked"} PROVE runs'[job'[p].id] = 0
    <3>1. CASE pc[p] \in {"created", "marked"} /\ job'[p] = job[p]
      BY <1>2, <3>1, RunsChange DEF RunsInv
    <3>2. CASE job'[p].id \in Ids /\ attempts[job'[p].id].status = "none"
      <4>1. runs[job'[p].id] = 0
        BY <3>2 DEF RunsInv, Terminal, Typed, TypeOK
      <4> QED
        BY <1>2, <4>1, RunsChange
    <3> QED
      BY <1>2, <2>1, <3>1, <3>2, RunsChange
  <2> QED
    BY <1>1, <1>2, <2>1, RunsChange DEF RunsInv, HandlerRunsOnce
<1>3. ASSUME NEW p \in Procs, StartHandler(p) PROVE RunsInv'
  <2>1. /\ job[p].id \in Ids /\ attempts[job[p].id].status = "running"
        /\ runs[job[p].id] = 0 /\ lock = p
        /\ \A q \in Procs \ {p} : pc[q] \notin Steps
    BY <1>3, Alone DEF StartHandler, RunsInv, Typed, JobAtWork, Steps
  <2>2. runs' = [runs EXCEPT ![job[p].id] = 1] /\ UNCHANGED <<attempts, job>>
    BY <1>3, <2>1 DEF StartHandler
  <2>3. \A q \in Procs : pc'[q] \notin {"created", "marked"}
    BY <1>3, <2>1 DEF StartHandler, Typed, TypeOK, Steps
  <2> QED
    BY <2>1, <2>2, <2>3 DEF RunsInv, HandlerRunsOnce, Typed, TypeOK
<1> QED
  BY <1>2, <1>3

\* No handler runs twice for one attempt: recovery, reconciliation and a
\* second process never replay work (core/session.py:933-963).
THEOREM HandlersRunOnce == Spec => []HandlerRunsOnce
<1>1. Init => RunsInv
  BY DEF Init, RunsInv, HandlerRunsOnce
<1>2. RunsInv => HandlerRunsOnce
  BY DEF RunsInv
<1> QED
  BY InitTyped, NextTyped, InitBlank, NextBlank, NextKeepsRunsInv, <1>1, <1>2, PTL DEF Spec

----------------------------------------------------------------------------
(* No lost update.  A process saves over the file it loaded; what it saves  *)
(* has everything that file has.                                            *)

CopiesInv == \A p \in Procs : pc[p] # "down" => Grows(saved[p], mem[p])

LEMMA GrowsReflexive ==
  ASSUME NEW m \in Manifest
  PROVE  Grows(m, m)
BY DEF Grows, Manifest

LEMMA GrowsTransitive ==
  ASSUME NEW k \in Manifest, NEW m \in Manifest, NEW n \in Manifest,
         Grows(k, m), Grows(m, n)
  PROVE  Grows(k, n)
<1>1. /\ k.revision \in Nat /\ m.revision \in Nat /\ n.revision \in Nat
      /\ k.nextSequence \in Nat /\ m.nextSequence \in Nat /\ n.nextSequence \in Nat
  BY DEF Manifest
<1> QED
  BY <1>1 DEF Grows

\* A step leaves the copies alone, or has one process take a new one.
CopyStep(p) ==
  /\ pc'[p] # "down" => Grows(saved'[p], mem'[p])
  /\ \A q \in Procs \ {p} : /\ pc'[q] = pc[q]
                            /\ mem'[q] = mem[q] /\ saved'[q] = saved[q]
  /\ session # None => session' # None /\ Grows(session, session')

LEMMA CopiesStep ==
  ASSUME Typed, CopiesInv, NEW p \in Procs,
         Lifecycle(p) \/ Execute(p) \/ Recovery(p) \/ Commit(p) \/ Abort(p) \/ Crash(p)
  PROVE  CopyStep(p)
<1> USE SessionAssumption DEF Typed, TypeOK
<1>1. session # None => Grows(session, session)
  BY GrowsReflexive
<1>2. pc[p] # "down" => /\ mem[p] \in Manifest /\ saved[p] \in Manifest
                        /\ Grows(saved[p], mem[p]) /\ Grows(mem[p], mem[p])
  BY GrowsReflexive DEF CopiesInv, LiveCopies
<1>3. pc[p] \in Steps => saved[p] = session
  BY DEF JobAtWork
<1>4. CASE Lifecycle(p)
  <2>1. CASE Create(p)
    <3>1. NewManifest \in Manifest
      BY DEF NewManifest, Manifest, Budget, SessionStatuses, NoId
    <3> QED
      BY <2>1, <3>1, GrowsReflexive DEF Create, Saved, CopyStep
  <2>2. CASE Load(p)
    BY <1>1, <2>2 DEF Load, CopyStep, disk
  <2>3. CASE LifecycleStep(p)
    <3>1. PICK m \in Manifest : Enter(p) /\ Rewrites(mem[p], m) /\ Save(p, m)
      BY <2>3 DEF LifecycleStep
    <3>2. /\ saved[p] \in Manifest /\ saved[p] = session /\ m \in Manifest
          /\ Grows(saved[p], m) /\ Grows(m, m)
      BY <1>2, <3>1, GrowsTransitive, GrowsReflexive DEF Enter, Rewrites
    <3>3. CASE Saved(p, m)
      BY <3>1, <3>2, <3>3 DEF Save, Saved, CopyStep
    <3>4. CASE SaveFails(p, m)
      BY <1>1, <3>1, <3>2, <3>4 DEF Save, SaveFails, CopyStep
    <3> QED
      BY <3>1, <3>3, <3>4 DEF Save
  <2> HIDE DEF Typed, TypeOK
  <2> QED
    BY <1>4, <2>1, <2>2, <2>3, LifecycleIsRewrite
<1>5. CASE Execute(p)
  <2>1. ASSUME NEW i \in Ids, NEW parent \in Ids \cup {NoId}, NEW allow \in BOOLEAN,
               BeginAttempt(p, i, parent, allow)
        PROVE  CopyStep(p)
    <3>1. mem' = [mem EXCEPT ![p] = [@ EXCEPT !.status = "running", !.current = i]]
      BY <2>1 DEF BeginAttempt
    <3>2. Grows(saved[p], mem'[p])
      BY <1>2, <2>1, <3>1 DEF BeginAttempt, Enter, Grows, Manifest
    <3> QED
      BY <1>1, <2>1, <3>1, <3>2 DEF BeginAttempt, CopyStep
  <2>2. ASSUME NEW i \in Ids, NEW allow \in BOOLEAN, BeginAttemptFails(p, i, allow)
        PROVE  CopyStep(p)
    BY <1>1, <1>2, <2>2 DEF BeginAttemptFails, CopyStep
  <2>3. CASE MarkRunning(p)
    BY <1>1, <1>2, <2>3 DEF MarkRunning, Step, CopyStep
  <2>4. CASE StartHandler(p)
    BY <1>2, <1>3, <2>4 DEF StartHandler, Saved, CopyStep, Steps
  <2>5. ASSUME NEW r \in Outcomes, HandlerEnds(p, r) PROVE CopyStep(p)
    BY <1>1, <1>2, <2>5 DEF HandlerEnds, Step, CopyStep
  <2> HIDE DEF Typed, TypeOK
  <2> QED
    BY <1>5, <2>1, <2>2, <2>3, <2>4, <2>5 DEF Execute
<1>6. CASE Recovery(p)
  <2>1. ASSUME NEW i \in Ids, ReconcileAttempt(p, i) PROVE CopyStep(p)
    BY <1>1, <1>2, <2>1 DEF ReconcileAttempt, Enter, CopyStep, disk
  <2>2. ASSUME NEW i \in Ids, RecoverInterrupted(p, i) PROVE CopyStep(p)
    BY <1>1, <1>2, <2>2 DEF RecoverInterrupted, Enter, CopyStep
  <2> HIDE DEF Typed, TypeOK
  <2> QED
    BY <1>6, <2>1, <2>2 DEF Recovery
<1>7. CASE Commit(p)
  <2>1. ASSUME NEW missing \in BOOLEAN, RecordOutcome(p, missing) PROVE CopyStep(p)
    <3> DEFINE i == job[p].id
    <3> DEFINE c == Record(mem[p].budget, i, Progressed(attempts[i].result))
    <3>1. i \in Ids /\ mem[p].budget \in Budget /\ pc[p] # "down" /\ mem[p] \in Manifest
      BY <1>2, <2>1 DEF RecordOutcome, Step, JobAtWork, Steps, Manifest
    <3>2. mem' = [mem EXCEPT ![p] = [@ EXCEPT !.budget = c]]
      BY <2>1 DEF RecordOutcome
    <3>3. c.recorded = mem[p].budget.recorded \cup {i} /\ c.auths = mem[p].budget.auths
      BY <3>1, RecordAdds
    <3> HIDE DEF c, i
    <3>4. Grows(saved[p], mem'[p])
      BY <1>2, <3>1, <3>2, <3>3 DEF Grows, Manifest
    <3> QED
      BY <1>1, <2>1, <3>2, <3>4 DEF RecordOutcome, Step, CopyStep
  <2>2. CASE IndexOutcome(p)
    <3>1. /\ pc[p] # "down" /\ mem[p] \in Manifest
          /\ mem' = [mem EXCEPT ![p] = Committed(p)] /\ UNCHANGED <<session, saved>>
      BY <1>2, <2>2 DEF IndexOutcome, Step
    <3>2. Grows(saved[p], Committed(p))
      BY <1>2, <3>1 DEF Committed, Grows, Manifest
    <3> QED
      BY <1>1, <2>2, <3>1, <3>2 DEF IndexOutcome, Step, CopyStep
  <2>3. CASE CommitSession(p)
    BY <1>2, <1>3, <2>3 DEF CommitSession, Saved, Leave, CopyStep, Steps
  <2> HIDE DEF Typed, TypeOK
  <2> QED
    BY <1>7, <2>1, <2>2, <2>3 DEF Commit
<1>8. CASE Abort(p)
  BY <1>1, <1>2, <1>8 DEF Abort, Leave, CopyStep, disk, Steps
<1>9. CASE Crash(p)
  BY <1>1, <1>9 DEF Crash, CopyStep, disk
<1> HIDE DEF Typed, TypeOK
<1> QED
  BY <1>4, <1>5, <1>6, <1>7, <1>8, <1>9

LEMMA NextKeepsCopies ==
  ASSUME Typed, CopiesInv, [Next]_vars
  PROVE  CopiesInv' /\ (session # None => session' # None /\ Grows(session, session'))
<1>1. CASE UNCHANGED vars
  BY <1>1, GrowsReflexive DEF vars, CopiesInv, Typed, TypeOK
<1>2. ASSUME NEW p \in Procs, CopyStep(p)
      PROVE  CopiesInv' /\ (session # None => session' # None /\ Grows(session, session'))
  BY <1>2 DEF CopyStep, CopiesInv
<1> QED
  BY <1>1, <1>2, CopiesStep DEF Next

\* No save of any process, and no crash between its writes, takes back what
\* an earlier save recorded (core/session.py:463-492).
THEOREM NothingForgotten == Spec => NothingIsForgotten
<1>1. Init => CopiesInv
  BY DEF Init, CopiesInv
<1>2. Typed /\ CopiesInv /\ [Next]_vars => CopiesInv' /\ [session # None => Grows(session, session')]_vars
  BY NextKeepsCopies
<1> QED
  BY InitTyped, NextTyped, <1>1, <1>2, PTL DEF Spec, NothingIsForgotten

----------------------------------------------------------------------------
(* Identifiers.  An id that was issued lies below the saved sequence, and    *)
(* the sequence only grows.                                                  *)

IssuedInv ==
  \A i \in Ids : /\ issued[i] <= 1
                 /\ issued[i] > 0 => session # None /\ i < session.nextSequence

LEMMA OnlyLifecycleIssues ==
  ASSUME Typed, [Next]_vars
  PROVE  UNCHANGED issued \/ \E p \in Procs : LifecycleStep(p)
<1>1. ASSUME NEW p \in Procs, Lifecycle(p) PROVE UNCHANGED issued \/ LifecycleStep(p)
  BY <1>1, LifecycleIsRewrite DEF Create, Load, history
<1>2. ASSUME NEW p \in Procs, Execute(p) PROVE UNCHANGED issued
  BY <1>2 DEF Execute, BeginAttempt, BeginAttemptFails, MarkRunning, StartHandler, HandlerEnds,
              Step, history
<1>3. ASSUME NEW p \in Procs, Recovery(p) PROVE UNCHANGED issued
  BY <1>3 DEF Recovery, ReconcileAttempt, RecoverInterrupted, history
<1>4. ASSUME NEW p \in Procs, Commit(p) PROVE UNCHANGED issued
  BY <1>4 DEF Commit, RecordOutcome, IndexOutcome, CommitSession, Step, history
<1>5. ASSUME NEW p \in Procs, Abort(p) \/ Crash(p) PROVE UNCHANGED issued
  BY <1>5 DEF Abort, Crash, history
<1>6. CASE UNCHANGED vars
  BY <1>6 DEF vars
<1> QED
  BY <1>1, <1>2, <1>3, <1>4, <1>5, <1>6 DEF Next

LEMMA NextKeepsIssued == Typed /\ CopiesInv /\ IssuedInv /\ [Next]_vars => IssuedInv'
<1> SUFFICES ASSUME Typed, CopiesInv, IssuedInv, [Next]_vars PROVE IssuedInv'
  OBVIOUS
<1> USE SessionAssumption
<1>1. /\ session # None => session' # None /\ session.nextSequence <= session'.nextSequence
      /\ session # None => session \in Manifest
      /\ session' # None => session' \in Manifest
  BY NextKeepsCopies, NextTyped DEF Grows, Typed, TypeOK
<1>2. CASE UNCHANGED issued
  BY <1>1, <1>2 DEF IssuedInv, Manifest, Ids
<1>3. ASSUME NEW p \in Procs, LifecycleStep(p), issued' # issued PROVE IssuedInv'
  <2>1. PICK m \in Manifest, i \in Ids :
          /\ Enter(p) /\ Save(p, m)
          /\ mem[p].nextSequence <= i /\ m.nextSequence = i + 1
          /\ session' = m /\ issued' = [issued EXCEPT ![i] = @ + 1]
    BY <1>3 DEF LifecycleStep
  <2>2. /\ mem[p] \in Manifest /\ saved[p] \in Manifest /\ saved[p] = session
        /\ Grows(saved[p], mem[p])
    BY <2>1 DEF Enter, Typed, LiveCopies, CopiesInv
  <2>3. session # None /\ session.nextSequence <= i /\ session' # None
    BY <1>1, <2>1, <2>2 DEF Grows, Manifest, Ids
  <2>4. issued[i] = 0
    <3>1. issued[i] \in Nat /\ i \in Nat /\ session.nextSequence \in Nat
      BY <2>1, <2>3, <1>1 DEF Manifest, Ids, Typed, TypeOK
    <3> QED
      BY <2>1, <2>3, <3>1 DEF IssuedInv
  <2>5. /\ issued \in [Ids -> Nat] /\ i \in Nat /\ session.nextSequence \in Nat
        /\ session'.nextSequence = i + 1
    BY <1>1, <2>1, <2>3 DEF Manifest, Ids, Typed, TypeOK
  <2>6. \A j \in Ids : issued'[j] = IF j = i THEN 1 ELSE issued[j]
    BY <2>1, <2>4, <2>5
  <2>7. \A j \in Ids : issued[j] > 0 => j < i + 1
    BY <2>3, <2>5 DEF IssuedInv, Ids
  <2> QED
    BY <2>3, <2>5, <2>6, <2>7 DEF IssuedInv, Ids
<1> QED
  BY <1>2, <1>3, OnlyLifecycleIssues

\* allocate_attempt_id gives no id to two callers, in one process or in two,
\* before or after a crash (core/session.py:734-736).
THEOREM IdsIssuedOnce == Spec => []IdIssuedOnce
<1>1. Init => IssuedInv /\ CopiesInv
  BY DEF Init, IssuedInv, CopiesInv
<1>2. Typed /\ CopiesInv /\ [Next]_vars => CopiesInv'
  BY NextKeepsCopies
<1>3. IssuedInv => IdIssuedOnce
  BY DEF IssuedInv, IdIssuedOnce
<1> QED
  BY InitTyped, NextTyped, NextKeepsIssued, <1>1, <1>2, <1>3, PTL DEF Spec

----------------------------------------------------------------------------
(* Lineage.  A parent is on disk before its child is made.                  *)

CurrentIsListed ==
  /\ session # None /\ session.current \in Ids => Listed(session.current)
  /\ \A p \in Procs : pc[p] # "down" /\ mem[p].current \in Ids => Listed(mem[p].current)

LineageInv == CurrentIsListed /\ LineageIsRooted

LEMMA ListedStays ==
  ASSUME Typed, Blank, [Next]_vars, NEW i \in Ids, Listed(i)
  PROVE  Listed(i)'
BY AttemptsAdvance DEF Advances, Listed, Terminal

\* The current attempt of a copy is the one it had, or the one on file, or
\* one that is listed now.
LEMMA CurrentStep ==
  ASSUME Typed, [Next]_vars, NEW q \in Procs, pc'[q] # "down"
  PROVE  \/ pc[q] # "down" /\ mem'[q].current = mem[q].current
         \/ session # None /\ mem'[q].current = session.current
         \/ mem'[q].current = NoId
         \/ \E i \in Ids : mem'[q].current = i /\ Listed(i)'
<1> DEFINE Goal == \/ pc[q] # "down" /\ mem'[q].current = mem[q].current
                   \/ session # None /\ mem'[q].current = session.current
                   \/ mem'[q].current = NoId
                   \/ \E i \in Ids : mem'[q].current = i /\ Listed(i)'
<1> USE SessionAssumption DEF Typed, TypeOK, disk
<1>1. ASSUME NEW p \in Procs, Lifecycle(p) PROVE Goal
  <2>1. CASE Create(p)
    BY <2>1 DEF Create, Saved, NewManifest
  <2>2. CASE Load(p)
    BY <2>2 DEF Load
  <2>3. CASE LifecycleStep(p)
    BY <2>3 DEF LifecycleStep, Save, Saved, SaveFails, Rewrites
  <2> HIDE DEF Typed, TypeOK
  <2> QED
    BY <1>1, <2>1, <2>2, <2>3, LifecycleIsRewrite
<1>2. ASSUME NEW p \in Procs, Execute(p) PROVE Goal
  <2>1. ASSUME NEW i \in Ids, NEW parent \in Ids \cup {NoId}, NEW allow \in BOOLEAN,
               BeginAttempt(p, i, parent, allow)
        PROVE  Goal
    <3>1. p # q => pc[q] # "down" /\ mem'[q] = mem[q]
      BY <2>1 DEF BeginAttempt
    <3>2. p = q => mem'[q].current = i /\ attempts'[i].status = "created"
      <4>1. pc[p] # "down" /\ mem[p] \in Manifest
        BY <2>1 DEF BeginAttempt, Enter, LiveCopies
      <4> QED
        BY <2>1, <4>1 DEF BeginAttempt, Manifest
    <3>3. CASE p = q
      BY <3>2, <3>3 DEF Listed
    <3>4. CASE p # q
      BY <3>1, <3>4
    <3> QED
      BY <3>3, <3>4
  <2>2. ASSUME NEW i \in Ids, NEW allow \in BOOLEAN, BeginAttemptFails(p, i, allow)
        PROVE  Goal
    BY <2>2 DEF BeginAttemptFails
  <2>3. CASE MarkRunning(p)
    BY <2>3 DEF MarkRunning, Step
  <2>4. CASE StartHandler(p)
    BY <2>4 DEF StartHandler, Saved
  <2>5. ASSUME NEW r \in Outcomes, HandlerEnds(p, r) PROVE Goal
    BY <2>5 DEF HandlerEnds, Step
  <2> HIDE DEF Typed, TypeOK
  <2> QED
    BY <1>2, <2>1, <2>2, <2>3, <2>4, <2>5 DEF Execute
<1>3. ASSUME NEW p \in Procs, Recovery(p) PROVE Goal
  BY <1>3 DEF Recovery, ReconcileAttempt, RecoverInterrupted, Enter
<1>4. ASSUME NEW p \in Procs, Commit(p) PROVE Goal
  <2>1. ASSUME NEW missing \in BOOLEAN, RecordOutcome(p, missing) PROVE Goal
    <3>1. pc[p] # "down" /\ mem[p] \in Manifest
      BY <2>1 DEF RecordOutcome, Step, LiveCopies
    <3>2. PICK c : mem' = [mem EXCEPT ![p] = [@ EXCEPT !.budget = c]]
      BY <2>1 DEF RecordOutcome
    <3>3. mem'[p].current = mem[p].current
      BY <3>1, <3>2 DEF Manifest
    <3> QED
      BY <2>1, <3>1, <3>2, <3>3 DEF RecordOutcome, Step
  <2>2. CASE IndexOutcome(p)
    <3>1. /\ pc[p] = "recorded" /\ mem[p] \in Manifest /\ job[p].id \in Ids
          /\ attempts[job[p].id].result \in Result
      BY <2>2 DEF IndexOutcome, Step, LiveCopies, JobAtWork, Steps, Attempt
    <3>2. Committed(p).current \in {mem[p].current, job[p].id}
      BY <3>1 DEF Committed, Manifest
    <3>3. attempts'[job[p].id].status \in Terminal
      BY <2>2, <3>1 DEF IndexOutcome, AttemptStatus, Result, Terminal, Attempt
    <3>4. CASE p = q
      <4>1. mem'[q] = Committed(p) /\ job'[p] = job[p] /\ pc[q] # "down"
        BY <2>2, <3>1, <3>4 DEF IndexOutcome, Step
      <4>2. attempts'[job[p].id].status \notin {"none", "bare"}
        BY <3>3 DEF Terminal
      <4>3. ASSUME NEW i \in Ids, i = job[p].id PROVE Listed(i)'
        BY <4>2, <4>3 DEF Listed
      <4> QED
        BY <3>1, <3>2, <3>4, <4>1, <4>3
    <3>5. CASE p # q
      BY <2>2, <3>5 DEF IndexOutcome, Step
    <3> QED
      BY <3>4, <3>5
  <2>3. CASE CommitSession(p)
    BY <2>3 DEF CommitSession, Saved, Leave
  <2> HIDE DEF Typed, TypeOK
  <2> QED
    BY <1>4, <2>1, <2>2, <2>3 DEF Commit
<1>5. ASSUME NEW p \in Procs, Abort(p) \/ Crash(p) PROVE Goal
  BY <1>5 DEF Abort, Crash, Leave, Steps
<1>6. CASE UNCHANGED vars
  BY <1>6 DEF vars
<1> HIDE DEF Typed, TypeOK
<1> QED
  BY <1>1, <1>2, <1>3, <1>4, <1>5, <1>6 DEF Next

\* The file changes by becoming the copy of a process that is up.
LEMMA FileIsACopy ==
  ASSUME Typed, [Next]_vars
  PROVE  \/ UNCHANGED session
         \/ \E p \in Procs : pc'[p] # "down" /\ session' = mem'[p]
<1> DEFINE Goal == \/ UNCHANGED session
                   \/ \E p \in Procs : pc'[p] # "down" /\ session' = mem'[p]
<1> USE SessionAssumption DEF Typed, TypeOK, disk
<1>1. ASSUME NEW p \in Procs, Lifecycle(p) PROVE Goal
  <2>1. CASE Create(p)
    BY <2>1 DEF Create, Saved
  <2>2. CASE Load(p)
    BY <2>2 DEF Load
  <2>3. CASE LifecycleStep(p)
    BY <2>3 DEF LifecycleStep, Save, Saved, SaveFails, Enter
  <2> HIDE DEF Typed, TypeOK
  <2> QED
    BY <1>1, <2>1, <2>2, <2>3, LifecycleIsRewrite
<1>2. ASSUME NEW p \in Procs, Execute(p) PROVE Goal
  <2>1. CASE StartHandler(p)
    BY <2>1 DEF StartHandler, Saved
  <2> HIDE DEF Typed, TypeOK
  <2> QED
    BY <1>2, <2>1 DEF Execute, BeginAttempt, BeginAttemptFails, MarkRunning, HandlerEnds
<1>3. ASSUME NEW p \in Procs, Recovery(p) PROVE Goal
  BY <1>3 DEF Recovery, ReconcileAttempt, RecoverInterrupted
<1>4. ASSUME NEW p \in Procs, Commit(p) PROVE Goal
  <2>1. CASE CommitSession(p)
    BY <2>1 DEF CommitSession, Saved, Leave
  <2> HIDE DEF Typed, TypeOK
  <2> QED
    BY <1>4, <2>1 DEF Commit, RecordOutcome, IndexOutcome
<1>5. ASSUME NEW p \in Procs, Abort(p) \/ Crash(p) PROVE Goal
  BY <1>5 DEF Abort, Crash
<1>6. CASE UNCHANGED vars
  BY <1>6 DEF vars
<1> HIDE DEF Typed, TypeOK
<1> QED
  BY <1>1, <1>2, <1>3, <1>4, <1>5, <1>6 DEF Next

LEMMA NextKeepsCurrent ==
  ASSUME Typed, Blank, CurrentIsListed, [Next]_vars
  PROVE  CurrentIsListed'
<1>1. ASSUME NEW q \in Procs, pc'[q] # "down", NEW i \in Ids, mem'[q].current = i
      PROVE  Listed(i)'
  <2>1. CASE \E j \in Ids : mem'[q].current = j /\ Listed(j)'
    BY <1>1, <2>1
  <2>2. CASE pc[q] # "down" /\ mem'[q].current = mem[q].current
    BY <1>1, <2>2, ListedStays DEF CurrentIsListed
  <2>3. CASE session # None /\ mem'[q].current = session.current
    BY <1>1, <2>3, ListedStays DEF CurrentIsListed
  <2>4. mem'[q].current # NoId
    BY <1>1, SessionAssumption DEF Ids, NoId
  <2> QED
    BY <1>1, <2>1, <2>2, <2>3, <2>4, CurrentStep
<1>2. ASSUME NEW i \in Ids, session' # None, session'.current = i
      PROVE  Listed(i)'
  <2>1. CASE UNCHANGED session
    BY <1>2, <2>1, ListedStays DEF CurrentIsListed
  <2> QED
    BY <1>1, <1>2, <2>1, FileIsACopy
<1> QED
  BY <1>1, <1>2 DEF CurrentIsListed, Listed

\* An attempt that is made in this step names no parent or one on disk.
LEMMA NewParentListed ==
  ASSUME Typed, Blank, CurrentIsListed, [Next]_vars, NEW i \in Ids,
         attempts[i].status = "none", attempts'[i].parent # NoId
  PROVE  attempts'[i].parent \in Ids /\ Listed(attempts'[i].parent)
<1> DEFINE Goal == attempts'[i].parent \in Ids /\ Listed(attempts'[i].parent)
<1> USE SessionAssumption DEF Typed, TypeOK, disk
<1>1. attempts[i].parent = NoId
  BY DEF Blank
<1>2. UNCHANGED attempts => Goal
  BY <1>1
<1>3. ASSUME NEW p \in Procs, NEW parent \in Ids \cup {NoId}, NEW j \in Ids,
             NEW allow \in BOOLEAN, BeginAttempt(p, j, parent, allow)
      PROVE  Goal
  <2>1. j = i /\ attempts'[i].parent = parent /\ parent \in Ids
    BY <1>1, <1>3 DEF BeginAttempt, Attempt
  <2>2. CASE parent = mem[p].current
    BY <1>3, <2>1, <2>2 DEF BeginAttempt, Enter, CurrentIsListed
  <2>3. CASE attempts[parent].status \in {"completed", "failed"}
    BY <2>1, <2>3 DEF Listed
  <2> QED
    BY <1>3, <2>1, <2>2, <2>3 DEF BeginAttempt, ParentAllowed
<1>4. ASSUME attempts'[i].parent = attempts[i].parent PROVE Goal
  BY <1>1, <1>4
<1>5. ASSUME NEW p \in Procs, Lifecycle(p) PROVE Goal
  <2>1. UNCHANGED attempts
    BY <1>5, LifecycleIsRewrite DEF Create, Load, LifecycleStep, Save
  <2> QED
    BY <1>2, <2>1
<1>6. ASSUME NEW p \in Procs, Execute(p) PROVE Goal
  <2>1. ASSUME NEW j \in Ids, NEW allow \in BOOLEAN, BeginAttemptFails(p, j, allow) PROVE Goal
    BY <1>4, <2>1 DEF BeginAttemptFails, Attempt
  <2>2. CASE MarkRunning(p)
    BY <1>4, <2>2 DEF MarkRunning, Attempt
  <2>3. CASE StartHandler(p)
    BY <1>2, <2>3 DEF StartHandler
  <2>4. ASSUME NEW r \in Outcomes, HandlerEnds(p, r) PROVE Goal
    BY <1>4, <2>4 DEF HandlerEnds, Attempt
  <2> HIDE DEF Typed, TypeOK, Goal
  <2> QED
    BY <1>3, <1>6, <2>1, <2>2, <2>3, <2>4 DEF Execute
<1>7. ASSUME NEW p \in Procs, Recovery(p) PROVE Goal
  <2>1. ASSUME NEW j \in Ids, ReconcileAttempt(p, j) PROVE Goal
    BY <1>2, <2>1 DEF ReconcileAttempt
  <2>2. ASSUME NEW j \in Ids, RecoverInterrupted(p, j) PROVE Goal
    BY <1>4, <2>2 DEF RecoverInterrupted, Attempt
  <2> HIDE DEF Typed, TypeOK, Goal
  <2> QED
    BY <1>7, <2>1, <2>2 DEF Recovery
<1>8. ASSUME NEW p \in Procs, Commit(p) PROVE Goal
  <2>1. ASSUME NEW missing \in BOOLEAN, RecordOutcome(p, missing) PROVE Goal
    BY <1>4, <2>1 DEF RecordOutcome, Attempt
  <2>2. CASE IndexOutcome(p)
    BY <1>4, <2>2 DEF IndexOutcome, Attempt
  <2>3. CASE CommitSession(p)
    BY <1>2, <2>3 DEF CommitSession
  <2> HIDE DEF Typed, TypeOK, Goal
  <2> QED
    BY <1>8, <2>1, <2>2, <2>3 DEF Commit
<1>9. ASSUME NEW p \in Procs, Abort(p) \/ Crash(p) PROVE Goal
  BY <1>2, <1>9 DEF Abort, Crash
<1> HIDE DEF Typed, TypeOK, Goal
<1>10. Goal
  <2>1. CASE UNCHANGED vars
    BY <1>2, <2>1 DEF vars
  <2>2. CASE Next
    <3>1. PICK p \in Procs : Lifecycle(p) \/ Execute(p) \/ Recovery(p) \/ Commit(p) \/ Abort(p) \/ Crash(p)
      BY <2>2 DEF Next
    <3> QED
      BY <3>1, <1>5, <1>6, <1>7, <1>8, <1>9
  <2> QED
    BY <2>1, <2>2
<1> QED
  BY <1>10 DEF Goal

LEMMA NextKeepsLineage ==
  ASSUME Typed, Blank, LineageInv, [Next]_vars
  PROVE  LineageInv'
<1> USE DEF LineageInv
<1>1. CurrentIsListed'
  BY NextKeepsCurrent
<1>2. ASSUME NEW i \in Ids, attempts'[i].parent # NoId
      PROVE  attempts'[i].parent \in Ids /\ Listed(attempts'[i].parent)
  <2>1. CASE attempts[i].status = "none"
    BY <1>2, <2>1, NewParentListed
  <2>2. CASE attempts[i].status # "none"
    <3>1. attempts'[i].parent = attempts[i].parent
      BY <2>2, AttemptsAdvance DEF Advances
    <3>2. attempts[i].parent \in Ids
      BY <1>2, <3>1 DEF Typed, TypeOK, Attempt
    <3> QED
      BY <1>2, <3>1, <3>2 DEF LineageIsRooted
  <2> QED
    BY <2>1, <2>2
<1>3. ASSUME NEW i \in Ids, attempts'[i].parent # NoId
      PROVE  attempts'[attempts'[i].parent].status \notin {"none", "bare"}
  <2>1. PICK j \in Ids : j = attempts'[i].parent /\ Listed(j)
    BY <1>2, <1>3
  <2> QED
    BY <2>1, ListedStays DEF Listed
\* A set of attempts that are listed now has a root among those that were
\* listed before; if none of them was, each is a root.
<1>4. ASSUME NEW S \in SUBSET {i \in Ids : attempts'[i].status \notin {"none", "bare"}}, S # {}
      PROVE  \E i \in S : attempts'[i].parent \notin S
  <2> DEFINE Old == {i \in S : Listed(i)}
  <2>1. CASE Old = {}
    <3>1. PICK i \in S : TRUE
      BY <1>4
    <3>2. attempts'[i].parent \notin S
      BY <1>2, <2>1, SessionAssumption DEF Ids, NoId
    <3> QED
      BY <3>2
  <2>2. CASE Old # {}
    <3>1. PICK i \in Old : attempts[i].parent \notin Old
      BY <2>2 DEF LineageIsRooted
    <3>2. attempts'[i].parent = attempts[i].parent
      BY <3>1, AttemptsAdvance DEF Advances, Listed
    <3>3. attempts'[i].parent \in S => Listed(attempts'[i].parent)
      BY <1>2, SessionAssumption DEF Ids, NoId
    <3> QED
      BY <3>1, <3>2, <3>3
  <2> QED
    BY <2>1, <2>2
<1> QED
  BY <1>1, <1>3, <1>4 DEF LineageIsRooted, Listed

\* Every chain of parents is made of attempts on disk and comes to an end:
\* attempt_lineage never meets a missing parent or a cycle
\* (core/session.py:612-644).
THEOREM LineageRooted == Spec => []LineageIsRooted
<1>1. Init => LineageInv
  BY DEF Init, LineageInv, CurrentIsListed, LineageIsRooted, Listed
<1>2. LineageInv => LineageIsRooted
  BY DEF LineageInv
<1> QED
  BY InitTyped, NextTyped, InitBlank, NextBlank, NextKeepsLineage, <1>1, <1>2, PTL DEF Spec

----------------------------------------------------------------------------
(* Accounting.  The counters of every copy are those of the attempts it has *)
(* recorded, and what the files say of these does not change.               *)

Tally(b) == <<b.recorded, b.attempts, b.noProgress>>

TallyIsRight(b) ==
  /\ b.attempts = Cardinality(b.recorded)
  /\ \A i \in b.recorded : attempts[i].result # None
  /\ b.noProgress <= Cardinality(IdleAttempts(b))
  /\ IdleAttempts(b) = b.recorded => b.noProgress = Cardinality(b.recorded)

AccountInv ==
  /\ session # None => TallyIsRight(session.budget)
  /\ \A p \in Procs : pc[p] # "down" => TallyIsRight(mem[p].budget)

\* A copy keeps its tally, takes the file's, starts anew, or records one
\* attempt whose result is on disk.
LEMMA TallyStep ==
  ASSUME Typed, [Next]_vars, NEW q \in Procs, pc'[q] # "down"
  PROVE  \/ pc[q] # "down" /\ Tally(mem'[q].budget) = Tally(mem[q].budget)
         \/ session # None /\ Tally(mem'[q].budget) = Tally(session.budget)
         \/ Tally(mem'[q].budget) = <<{}, 0, 0>>
         \/ pc[q] # "down" /\ \E i \in Ids :
              /\ attempts[i].result \in Result
              /\ mem'[q].budget = Record(mem[q].budget, i, Progressed(attempts[i].result))
<1> DEFINE Goal == \/ pc[q] # "down" /\ Tally(mem'[q].budget) = Tally(mem[q].budget)
                   \/ session # None /\ Tally(mem'[q].budget) = Tally(session.budget)
                   \/ Tally(mem'[q].budget) = <<{}, 0, 0>>
                   \/ pc[q] # "down" /\ \E i \in Ids :
                        /\ attempts[i].result \in Result
                        /\ mem'[q].budget = Record(mem[q].budget, i, Progressed(attempts[i].result))
<1> USE SessionAssumption DEF Typed, TypeOK, disk
<1>1. pc[q] # "down" /\ mem'[q].budget = mem[q].budget => Goal
  OBVIOUS
<1>2. ASSUME NEW p \in Procs, Lifecycle(p) PROVE Goal
  <2>1. CASE Create(p)
    <3>1. CASE p = q
      <4>1. mem'[q].budget.recorded = {} /\ mem'[q].budget.attempts = 0 /\ mem'[q].budget.noProgress = 0
        BY <2>1, <3>1 DEF Create, Saved, NewManifest
      <4> QED
        BY <4>1 DEF Tally
    <3>2. CASE p # q
      BY <1>1, <2>1, <3>2 DEF Create, Saved
    <3> QED
      BY <3>1, <3>2
  <2>2. CASE Load(p)
    BY <1>1, <2>2 DEF Load
  <2>3. CASE LifecycleStep(p)
    <3>1. PICK m \in Manifest : Enter(p) /\ Rewrites(mem[p], m) /\ Save(p, m)
      BY <2>3 DEF LifecycleStep
    <3>2. CASE p = q
      <4>1. mem'[q] = m /\ pc[q] # "down"
        BY <3>1, <3>2 DEF Save, Saved, SaveFails, Enter
      <4> QED
        BY <3>1, <3>2, <4>1 DEF Rewrites, Tally
    <3>3. CASE p # q
      BY <1>1, <3>1, <3>3 DEF Save, Saved, SaveFails
    <3> QED
      BY <3>2, <3>3
  <2> HIDE DEF Typed, TypeOK, Goal
  <2> QED
    BY <1>2, <2>1, <2>2, <2>3, LifecycleIsRewrite
<1>3. ASSUME NEW p \in Procs, Execute(p) PROVE Goal
  <2>1. ASSUME NEW i \in Ids, NEW parent \in Ids \cup {NoId}, NEW allow \in BOOLEAN,
               BeginAttempt(p, i, parent, allow)
        PROVE  Goal
    <3>1. CASE p = q
      <4>1. pc[p] # "down" /\ mem[p] \in Manifest
        BY <2>1 DEF BeginAttempt, Enter, LiveCopies
      <4>2. mem'[q] = [mem[q] EXCEPT !.status = "running", !.current = i]
        BY <2>1, <3>1 DEF BeginAttempt
      <4> QED
        BY <1>1, <3>1, <4>1, <4>2 DEF Manifest
    <3>2. CASE p # q
      BY <1>1, <2>1, <3>2 DEF BeginAttempt
    <3> QED
      BY <3>1, <3>2
  <2>2. ASSUME NEW i \in Ids, NEW allow \in BOOLEAN, BeginAttemptFails(p, i, allow)
        PROVE  Goal
    BY <1>1, <2>2 DEF BeginAttemptFails
  <2>3. CASE MarkRunning(p)
    BY <1>1, <2>3 DEF MarkRunning, Step
  <2>4. CASE StartHandler(p)
    BY <1>1, <2>4 DEF StartHandler, Saved
  <2>5. ASSUME NEW r \in Outcomes, HandlerEnds(p, r) PROVE Goal
    BY <1>1, <2>5 DEF HandlerEnds, Step
  <2> HIDE DEF Typed, TypeOK, Goal
  <2> QED
    BY <1>3, <2>1, <2>2, <2>3, <2>4, <2>5 DEF Execute
<1>4. ASSUME NEW p \in Procs, Recovery(p) PROVE Goal
  <2>1. ASSUME NEW i \in Ids, ReconcileAttempt(p, i) \/ RecoverInterrupted(p, i) PROVE Goal
    BY <1>1, <2>1 DEF ReconcileAttempt, RecoverInterrupted, Enter
  <2> HIDE DEF Typed, TypeOK, Goal
  <2> QED
    BY <1>4, <2>1 DEF Recovery
<1>5. ASSUME NEW p \in Procs, Commit(p) PROVE Goal
  <2>1. ASSUME NEW missing \in BOOLEAN, RecordOutcome(p, missing) PROVE Goal
    <3>1. CASE p = q
      <4> DEFINE i == job[p].id
      <4>1. /\ pc[p] # "down" /\ mem[p] \in Manifest
            /\ i \in Ids /\ attempts[i].result \in Result
        BY <2>1 DEF RecordOutcome, Step, LiveCopies, JobAtWork, Steps, Attempt
      <4> DEFINE c == Record(mem[p].budget, i, Progressed(attempts[i].result))
      <4>2. mem' = [mem EXCEPT ![p] = [mem[p] EXCEPT !.budget = c]]
        BY <2>1 DEF RecordOutcome
      <4> HIDE DEF c
      <4>3. mem'[q].budget = c
        BY <3>1, <4>1, <4>2 DEF Manifest
      <4> QED
        BY <3>1, <4>1, <4>3 DEF c
    <3>2. CASE p # q
      BY <1>1, <2>1, <3>2 DEF RecordOutcome, Step
    <3> QED
      BY <3>1, <3>2
  <2>2. CASE IndexOutcome(p)
    <3>1. pc[p] # "down" /\ mem[p] \in Manifest
      BY <2>2 DEF IndexOutcome, Step, LiveCopies
    <3>2. Committed(p).budget = mem[p].budget
      BY <3>1 DEF Committed, Manifest
    <3> QED
      BY <1>1, <2>2, <3>1, <3>2 DEF IndexOutcome, Step
  <2>3. CASE CommitSession(p)
    <3>1. pc[p] # "down" /\ mem' = [mem EXCEPT ![p] = mem[p]] /\ pc' = [pc EXCEPT ![p] = "idle"]
      BY <2>3 DEF CommitSession, Saved, Leave
    <3> QED
      BY <1>1, <3>1
  <2> HIDE DEF Typed, TypeOK, Goal
  <2> QED
    BY <1>5, <2>1, <2>2, <2>3 DEF Commit
<1>6. ASSUME NEW p \in Procs, Abort(p) \/ Crash(p) PROVE Goal
  <2>1. CASE Abort(p)
    BY <1>1, <2>1 DEF Abort, Leave, Steps
  <2>2. CASE Crash(p)
    BY <1>1, <2>2 DEF Crash
  <2> QED
    BY <1>6, <2>1, <2>2
<1>7. ASSUME UNCHANGED vars PROVE Goal
  BY <1>1, <1>7 DEF vars
<1> HIDE DEF Typed, TypeOK, Goal
<1>8. ASSUME Next PROVE Goal
  <2>1. PICK p \in Procs : Lifecycle(p) \/ Execute(p) \/ Recovery(p) \/ Commit(p) \/ Abort(p) \/ Crash(p)
    BY <1>8 DEF Next
  <2> QED
    BY <2>1, <1>2, <1>3, <1>4, <1>5, <1>6
<1>9. Goal
  BY <1>7, <1>8
<1> QED
  BY <1>9 DEF Goal

\* Files written since do not change what a recorded attempt counts for.
LEMMA ResultStays ==
  ASSUME Typed, Blank, [Next]_vars, NEW i \in Ids, attempts[i].result # None
  PROVE  /\ attempts'[i].result # None
         /\ MadeProgress(i)' = MadeProgress(i)
<1> DEFINE r == attempts[i].result
<1> DEFINE u == attempts'[i].result
<1>1. r \in Result /\ (u = r \/ (r.status = "completed" /\ u = [r EXCEPT !.status = "partial"]))
  BY AttemptsAdvance DEF Advances, Typed, TypeOK, Attempt
<1>2. CASE u = r
  BY <1>2 DEF MadeProgress
<1>3. CASE r.status = "completed" /\ u = [r EXCEPT !.status = "partial"]
  <2>1. u \in Result /\ u.status = "partial" /\ u.progressed = r.progressed
    BY <1>1, <1>3 DEF Result
  <2> HIDE DEF u
  <2>2. u # None
    BY <2>1, SessionAssumption
  <2>3. MadeProgress(i)' <=> u.progressed = "yes" \/ (u.progressed = "unset" /\ u.status \in {"completed", "partial"})
    BY DEF MadeProgress, u
  <2> QED
    BY <1>3, <2>1, <2>2, <2>3 DEF MadeProgress, u
<1> QED
  BY <1>1, <1>2, <1>3

LEMMA TallyStays ==
  ASSUME Typed, Blank, [Next]_vars, NEW b, NEW c, b.recorded \subseteq Ids,
         TallyIsRight(b), Tally(c) = Tally(b)
  PROVE  TallyIsRight(c)'
<1>1. c.recorded = b.recorded /\ c.attempts = b.attempts /\ c.noProgress = b.noProgress
  BY DEF Tally
<1>2. \A i \in b.recorded : attempts'[i].result # None /\ MadeProgress(i)' = MadeProgress(i)
  BY ResultStays DEF TallyIsRight
<1>3. IdleAttempts(b)' = IdleAttempts(b)
  BY <1>2 DEF IdleAttempts
<1> QED
  BY <1>1, <1>2, <1>3 DEF TallyIsRight, IdleAttempts

\* Recording an attempt counts it, and its progress as its files say.
LEMMA TallyRecords ==
  ASSUME Typed, NEW b \in Budget, TallyIsRight(b),
         NEW i \in Ids, attempts[i].result \in Result
  PROVE  TallyIsRight(Record(b, i, Progressed(attempts[i].result)))
<1> DEFINE made == Progressed(attempts[i].result)
<1> DEFINE c == Record(b, i, made)
<1>1. CASE i \in b.recorded
  BY <1>1 DEF Record
<1>2. CASE i \notin b.recorded
  <2>1. made <=> MadeProgress(i)
    BY DEF Progressed, MadeProgress, Result
  <2>2. /\ c.recorded = b.recorded \cup {i}
        /\ c.attempts = b.attempts + 1
        /\ c.noProgress = IF made THEN 0 ELSE b.noProgress + 1
    BY <1>2 DEF Record, Budget
  <2>3. IsFiniteSet(b.recorded) /\ IsFiniteSet(IdleAttempts(b))
    <3>1. IsFiniteSet(Ids)
      BY FS_Interval, SessionAssumption DEF Ids
    <3> QED
      BY <3>1, FS_Subset DEF Budget, IdleAttempts
  <2>4. Cardinality(b.recorded \cup {i}) = Cardinality(b.recorded) + 1
    BY <1>2, <2>3, FS_AddElement
  <2>5. /\ b.noProgress \in Nat /\ Cardinality(b.recorded) \in Nat
        /\ Cardinality(IdleAttempts(b)) \in Nat
    BY <2>3, FS_CardinalityType DEF Budget
  <2>6. attempts[i].result # None
    BY SessionAssumption
  <2> HIDE DEF c, made
  <2>7. ASSUME made PROVE TallyIsRight(c)
    <3>1. IdleAttempts(c) = IdleAttempts(b) /\ i \notin IdleAttempts(c)
      BY <1>2, <2>1, <2>2, <2>7 DEF IdleAttempts
    <3> QED
      BY <2>2, <2>4, <2>5, <2>6, <2>7, <3>1 DEF TallyIsRight
  <2>8. ASSUME ~made PROVE TallyIsRight(c)
    <3>1. IdleAttempts(c) = IdleAttempts(b) \cup {i} /\ i \notin IdleAttempts(b)
      BY <1>2, <2>1, <2>2, <2>8 DEF IdleAttempts
    <3>2. Cardinality(IdleAttempts(c)) = Cardinality(IdleAttempts(b)) + 1
      BY <2>3, <3>1, FS_AddElement
    <3>3. IdleAttempts(c) = c.recorded => IdleAttempts(b) = b.recorded
      BY <1>2, <2>2, <3>1 DEF IdleAttempts
    <3> QED
      BY <2>2, <2>4, <2>5, <2>6, <2>8, <3>2, <3>3 DEF TallyIsRight
  <2> QED
    BY <2>7, <2>8 DEF c, made
<1> QED
  BY <1>1, <1>2

LEMMA NextKeepsAccount ==
  ASSUME Typed, Blank, AccountInv, [Next]_vars
  PROVE  AccountInv'
<1>1. ASSUME NEW q \in Procs, pc'[q] # "down" PROVE TallyIsRight(mem[q].budget)'
  <2>1. PICK c : c = mem'[q].budget
    OBVIOUS
  <2>2. ASSUME NEW b \in Budget, TallyIsRight(b), Tally(c) = Tally(b) PROVE TallyIsRight(c)'
    BY <2>2, TallyStays DEF Budget
  <2>3. TallyIsRight(c)'
    <3>1. CASE pc[q] # "down" /\ Tally(c) = Tally(mem[q].budget)
      BY <2>2, <3>1 DEF AccountInv, Typed, LiveCopies, Manifest
    <3>2. CASE session # None /\ Tally(c) = Tally(session.budget)
      BY <2>2, <3>2 DEF AccountInv, Typed, TypeOK, Manifest
    <3>3. CASE Tally(c) = <<{}, 0, 0>>
      <4>1. c.recorded = {} /\ c.attempts = 0 /\ c.noProgress = 0
        BY <3>3 DEF Tally
      <4>2. IdleAttempts(c)' = {}
        BY <4>1 DEF IdleAttempts
      <4> QED
        BY <4>1, <4>2, FS_EmptySet DEF TallyIsRight
    <3>4. CASE pc[q] # "down" /\ \E i \in Ids :
                 /\ attempts[i].result \in Result
                 /\ c = Record(mem[q].budget, i, Progressed(attempts[i].result))
      <4>1. PICK i \in Ids :
              /\ attempts[i].result \in Result
              /\ c = Record(mem[q].budget, i, Progressed(attempts[i].result))
        BY <3>4
      <4>2. mem[q].budget \in Budget /\ TallyIsRight(mem[q].budget)
        BY <3>4 DEF AccountInv, Typed, LiveCopies, Manifest
      <4>3. TallyIsRight(c)
        BY <4>1, <4>2, TallyRecords
      <4>4. c \in Budget
        BY <4>1, <4>2, RecordAdds
      <4> QED
        BY <2>2, <4>3, <4>4
    <3> QED
      BY <1>1, <2>1, <3>1, <3>2, <3>3, <3>4, TallyStep
  <2> QED
    BY <2>1, <2>3 DEF TallyIsRight, IdleAttempts
<1>2. ASSUME session' # None PROVE TallyIsRight(session.budget)'
  <2>1. CASE UNCHANGED session
    <3>1. PICK b \in Budget : b = session.budget /\ b = session'.budget
      BY <1>2, <2>1 DEF Typed, TypeOK, Manifest
    <3>2. TallyIsRight(b)'
      BY <1>2, <2>1, <3>1, TallyStays DEF AccountInv, Budget
    <3> QED
      BY <3>1, <3>2 DEF TallyIsRight, IdleAttempts
  <2>2. CASE \E p \in Procs : pc'[p] # "down" /\ session' = mem'[p]
    BY <1>1, <2>2 DEF TallyIsRight, IdleAttempts
  <2> QED
    BY <2>1, <2>2, FileIsACopy
<1> QED
  BY <1>1, <1>2 DEF AccountInv

LEMMA InitAccount == Init => AccountInv
BY DEF Init, AccountInv

\* The attempts a session counts are exactly the ones it recorded, each once,
\* whoever committed them and whatever was retried (core/session.py:110-120).
THEOREM AccountsExact == Spec => []AccountingIsExact
<1>1. AccountInv => AccountingIsExact
  BY DEF AccountInv, TallyIsRight, AccountingIsExact
<1> QED
  BY InitTyped, NextTyped, InitBlank, NextBlank, InitAccount, NextKeepsAccount, <1>1, PTL DEF Spec

\* The no-progress count never exceeds the recorded attempts that made none,
\* and equals their number when no attempt made any.
THEOREM ProgressFactsKept == Spec => []ProgressFactKept
<1>1. AccountInv => ProgressFactKept
  BY DEF AccountInv, TallyIsRight, ProgressFactKept
<1> QED
  BY InitTyped, NextTyped, InitBlank, NextBlank, InitAccount, NextKeepsAccount, <1>1, PTL DEF Spec
============================================================================
