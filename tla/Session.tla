------------------------------ MODULE Session ------------------------------
(***************************************************************************)
(* core/session.py: processes that share one session directory.  Each has  *)
(* a SessionController, a copy of session_manifest.json that is only as    *)
(* fresh as its last load or save.  A mutation takes the non-blocking file *)
(* lock, refuses to start from a stale copy, and then writes several files *)
(* one after the other: the attempt manifest, the capability result, the   *)
(* session manifest.  A process may stop between any two of these writes,  *)
(* an exception may end the mutation there and leave the copy as it is,    *)
(* and processes load without the lock.                                    *)
(***************************************************************************)
EXTENDS Integers, FiniteSets

CONSTANTS Procs,          \* processes, each with at most one controller
          MaxAttempt,     \* bound: attempt ids are 1..MaxAttempt
          MaxRevision,    \* bound on revisions
          MaxAttempts,    \* BudgetState.max_attempts of a new session
          MaxNoProgress,  \* BudgetState.max_no_progress of a new session
          Auths,          \* continuation authorization ids
          ExtraAttempts,  \* attempts one authorization adds
          Outcomes,       \* results a handler may end with
          Reuse,          \* TRUE: a controller is used again after an exception
          None

Ids == 1 .. MaxAttempt
NoId == 0

SessionStatuses ==
  {"created", "running", "paused", "completed", "partial", "blocked", "failed"}
AttemptStatuses == {"none", "bare", "created", "running", "completed", "failed", "blocked"}
Terminal == {"completed", "failed", "blocked"}

Budget == [maxAttempts : Nat, maxNoProgress : Nat, attempts : Nat, noProgress : Nat,
           recorded : SUBSET Ids, auths : SUBSET Auths]

Manifest == [status : SessionStatuses, current : Ids \cup {NoId}, revision : Nat,
             nextSequence : Nat \ {0}, budget : Budget]

\* capability_result.json: the outcome, the caller's progress fact, and
\* whether an explicit recovery wrote it (session_interruption_reason).
Result == [status : {"completed", "partial", "failed", "blocked"},
           progressed : {"yes", "no", "unset"}, interruption : BOOLEAN]

\* "none": no directory; "bare": a directory without attempt_manifest.json.
Attempt == [status : AttemptStatuses, parent : Ids \cup {NoId}, result : Result \cup {None}]

Steps == {"created", "marked", "handling", "resulted", "recorded", "indexed"}

\* What the commit in progress knows of its attempt.
Job == [id : Ids \cup {NoId}, wasRunning : BOOLEAN, reconciled : BOOLEAN, counted : BOOLEAN]

ASSUME SessionAssumption ==
  /\ MaxAttempt \in Nat /\ MaxRevision \in Nat
  /\ MaxAttempts \in Nat \ {0} /\ MaxNoProgress \in Nat \ {0} /\ ExtraAttempts \in Nat
  /\ Outcomes \subseteq {r \in Result : ~r.interruption}
  /\ Reuse \in BOOLEAN
  /\ None \notin Procs \cup Result \cup Manifest

VARIABLES session,   \* session_manifest.json
          attempts,  \* attempts/<id>/: attempt_manifest.json, capability_result.json
          lock,      \* the process that owns the file lock
          pc,        \* where each process is
          mem,       \* its controller's manifest
          saved,     \* its controller's _saved_manifest
          job,       \* the attempt its mutation works on
          runs,      \* history: how often a handler was started for an id
          issued     \* history: how often allocate_attempt_id returned an id

disk == <<session, attempts>>
history == <<runs, issued>>
vars == <<session, attempts, lock, pc, mem, saved, job, runs, issued>>

NoJob == [id |-> NoId, wasRunning |-> FALSE, reconciled |-> FALSE, counted |-> FALSE]

TypeOK ==
  /\ session \in Manifest \cup {None}
  /\ attempts \in [Ids -> Attempt]
  /\ lock \in Procs \cup {None}
  /\ pc \in [Procs -> Steps \cup {"down", "idle"}]
  /\ mem \in [Procs -> Manifest \cup {None}]
  /\ saved \in [Procs -> Manifest \cup {None}]
  /\ job \in [Procs -> Job]
  /\ runs \in [Ids -> Nat]
  /\ issued \in [Ids -> Nat]

----------------------------------------------------------------------------
(* BudgetState                                                              *)

Exhausted(b, allowNoProgress) ==
  \/ b.attempts >= b.maxAttempts
  \/ b.noProgress >= b.maxNoProgress /\ ~allowNoProgress

\* Fault: an attempt that is committed twice is counted twice.
RecordAgain(b, i, progressed) ==
  [b EXCEPT !.attempts = @ + 1,
            !.noProgress = IF progressed THEN 0 ELSE @ + 1,
            !.recorded = @ \cup {i}]

Record(b, i, progressed) ==
  IF i \in b.recorded THEN b
  ELSE [b EXCEPT !.attempts = @ + 1,
                 !.noProgress = IF progressed THEN 0 ELSE @ + 1,
                 !.recorded = @ \cup {i}]

Authorize(b, a) ==
  IF a \in b.auths THEN b
  ELSE [b EXCEPT !.maxAttempts = @ + ExtraAttempts, !.auths = @ \cup {a}]

----------------------------------------------------------------------------
(* The mutation scope                                                       *)

Listed(i) == attempts[i].status \notin {"none", "bare"}

\* Fault: running attempts do not hold up other mutations.
NoRunningAttemptUnchecked == TRUE

NoRunningAttempt == \A i \in Ids : attempts[i].status # "running"

\* Fault: a stale copy may be saved over a newer manifest.
EnterStale(p) == pc[p] = "idle" /\ lock = None

\* The lock is free and the file is the one this controller loaded or saved.
Enter(p) == pc[p] = "idle" /\ lock = None /\ saved[p] = session

\* _save_unlocked: the whole manifest replaces the file.
Saved(p, m) ==
  /\ session' = m
  /\ mem' = [mem EXCEPT ![p] = m]
  /\ saved' = [saved EXCEPT ![p] = m]

\* The write raises: only the controller's copy has changed.
SaveFails(p, m) ==
  /\ Reuse
  /\ mem' = [mem EXCEPT ![p] = m]
  /\ UNCHANGED <<session, saved>>

\* A mutation that only rewrites the session manifest.
Save(p, m) ==
  /\ Saved(p, m) \/ SaveFails(p, m)
  /\ UNCHANGED <<attempts, lock, pc, job, runs>>

\* Leave the mutation scope.
Leave(p) ==
  /\ lock' = None
  /\ pc' = [pc EXCEPT ![p] = "idle"]
  /\ job' = [job EXCEPT ![p] = NoJob]

Step(p, from, to) ==
  /\ pc[p] = from
  /\ pc' = [pc EXCEPT ![p] = to]
  /\ UNCHANGED <<lock, runs, issued>>

----------------------------------------------------------------------------
(* Lifecycle operations: one write each                                     *)

NewManifest ==
  [status |-> "created", current |-> NoId, revision |-> 0, nextSequence |-> 1,
   budget |-> [maxAttempts |-> MaxAttempts, maxNoProgress |-> MaxNoProgress,
               attempts |-> 0, noProgress |-> 0, recorded |-> {}, auths |-> {}]]

Create(p) ==
  /\ pc[p] = "down" /\ lock = None
  /\ session = None
  /\ Saved(p, NewManifest)
  /\ pc' = [pc EXCEPT ![p] = "idle"]
  /\ UNCHANGED <<attempts, lock, job, history>>

\* load() reads the manifest without the lock, into a new controller.
Load(p) ==
  /\ pc[p] \in {"down", "idle"}
  /\ session # None
  /\ mem' = [mem EXCEPT ![p] = session]
  /\ saved' = [saved EXCEPT ![p] = session]
  /\ pc' = [pc EXCEPT ![p] = "idle"]
  /\ UNCHANGED <<disk, lock, job, history>>

\* _ensure_can_execute when it lets the caller go on.
CanExecute(p, allowNoProgress) ==
  /\ mem[p].status \notin {"completed", "blocked", "paused"}
  /\ NoRunningAttempt
  /\ ~Exhausted(mem[p].budget, allowNoProgress)

\* _ensure_can_execute when it finds the budget exhausted: the session blocks.
BlockExhausted(p, allowNoProgress) ==
  /\ Enter(p)
  /\ mem[p].status \notin {"completed", "blocked", "paused"}
  /\ NoRunningAttempt
  /\ Exhausted(mem[p].budget, allowNoProgress)
  /\ Save(p, [mem[p] EXCEPT !.status = "blocked"])
  /\ UNCHANGED issued

\* n is the first number from nextSequence on whose directory is not listed.
FreeId(m, n) ==
  /\ n >= m.nextSequence
  /\ ~Listed(n)
  /\ \A k \in m.nextSequence .. (n - 1) : Listed(k)

AllocateAttemptId(p, n, allowNoProgress) ==
  /\ Enter(p)
  /\ CanExecute(p, allowNoProgress)
  /\ FreeId(mem[p], n)
  /\ Save(p, [mem[p] EXCEPT !.nextSequence = n + 1])
  /\ issued' = IF session' = mem'[p] THEN [issued EXCEPT ![n] = @ + 1] ELSE issued

Pause(p) ==
  /\ Enter(p)
  /\ mem[p].status \notin {"completed", "blocked"}
  /\ NoRunningAttempt
  /\ Save(p, [mem[p] EXCEPT !.status = "paused"])
  /\ UNCHANGED issued

Complete(p) ==
  /\ Enter(p)
  /\ mem[p].status \notin {"completed", "blocked"}
  /\ NoRunningAttempt
  /\ \E i \in Ids : Listed(i)
  /\ Save(p, [mem[p] EXCEPT !.status = "completed"])
  /\ UNCHANGED issued

ContinueWithRevision(p, allowNoProgress) ==
  /\ Enter(p)
  /\ mem[p].status \notin {"running", "created"}
  /\ NoRunningAttempt
  /\ ~Exhausted(mem[p].budget, allowNoProgress)
  /\ mem[p].revision < MaxRevision
  /\ Save(p, [mem[p] EXCEPT !.revision = @ + 1, !.status = "running"])
  /\ UNCHANGED issued

\* budget.authorize_additional and save, as the application calls them.
AuthorizeAdditional(p, a) ==
  /\ Enter(p)
  /\ Save(p, [mem[p] EXCEPT !.budget = Authorize(@, a)])
  /\ UNCHANGED issued

\* What the application itself writes into the manifest and saves: "partial"
\* after complete(), "paused" when a run ends with an exception.
ApplicationStatus(p) ==
  /\ Enter(p)
  /\ \E s \in {"partial", "paused"} :
       /\ s = "partial" => mem[p].status = "completed"
       /\ s = "paused" => mem[p].status # "blocked"
       /\ Save(p, [mem[p] EXCEPT !.status = s])
  /\ UNCHANGED issued

----------------------------------------------------------------------------
(* execute_attempt                                                          *)

\* The parent is the current attempt, or a finished one the caller names.
ParentAllowed(p, parent) ==
  \/ parent = mem[p].current
  \/ parent \in Ids /\ attempts[parent].status \in {"completed", "failed"}

\* Fault: an existing attempt directory is used again.
DirectoryIsFreeUnchecked(i) == attempts[i].status # "running"

DirectoryIsFree(i) == attempts[i].status = "none"

\* new_attempt: the directory and its manifest; then the copy is updated.
BeginAttempt(p, i, parent, allowNoProgress) ==
  /\ Enter(p)
  /\ CanExecute(p, allowNoProgress)
  /\ ParentAllowed(p, parent)
  /\ DirectoryIsFree(i)
  /\ attempts' = [attempts EXCEPT ![i] = [status |-> "created", parent |-> parent, result |-> None]]
  /\ mem' = [mem EXCEPT ![p].status = "running", ![p].current = i]
  /\ lock' = p
  /\ pc' = [pc EXCEPT ![p] = "created"]
  /\ job' = [job EXCEPT ![p] = [NoJob EXCEPT !.id = i, !.wasRunning = TRUE]]
  /\ UNCHANGED <<session, saved, history>>

\* The directory is made, its manifest is not: the process stops or the
\* write raises, and the mutation is over.
BeginAttemptFails(p, i, allowNoProgress) ==
  /\ Enter(p)
  /\ CanExecute(p, allowNoProgress)
  /\ DirectoryIsFree(i)
  /\ attempts' = [attempts EXCEPT ![i].status = "bare"]
  /\ UNCHANGED <<session, lock, pc, mem, saved, job, history>>

MarkRunning(p) ==
  /\ Step(p, "created", "marked")
  /\ attempts' = [attempts EXCEPT ![job[p].id].status = "running"]
  /\ UNCHANGED <<session, mem, saved, job>>

StartHandler(p) ==
  /\ pc[p] = "marked"
  /\ Saved(p, mem[p])
  /\ pc' = [pc EXCEPT ![p] = "handling"]
  /\ runs' = [runs EXCEPT ![job[p].id] = @ + 1]
  /\ UNCHANGED <<attempts, lock, job, issued>>

\* The handler returns or raises, and its outcome is written.
HandlerEnds(p, r) ==
  /\ Step(p, "handling", "resulted")
  /\ attempts' = [attempts EXCEPT ![job[p].id].result = r]
  /\ UNCHANGED <<session, mem, saved, job>>

----------------------------------------------------------------------------
(* reconcile_attempt and recover_interrupted                                *)

\* Commit a result found on disk; the handler is not run again.
ReconcileAttempt(p, i) ==
  /\ Enter(p)
  /\ attempts[i].status \in Terminal \cup {"running"}
  /\ attempts[i].result # None
  /\ lock' = p
  /\ pc' = [pc EXCEPT ![p] = "resulted"]
  /\ job' = [job EXCEPT ![p] = [NoJob EXCEPT !.id = i, !.reconciled = TRUE,
                                             !.wasRunning = attempts[i].status = "running"]]
  /\ UNCHANGED <<disk, mem, saved, history>>

InterruptedResult == [status |-> "failed", progressed |-> "unset", interruption |-> TRUE]

CanRecover(p, i) ==
  /\ mem[p].status \notin {"completed", "blocked"}
  /\ attempts[i].status = "running"
  /\ attempts[i].result = None

\* Close a confirmed interruption as a failure.
RecoverInterrupted(p, i) ==
  /\ Enter(p)
  /\ CanRecover(p, i)
  /\ attempts' = [attempts EXCEPT ![i].result = InterruptedResult]
  /\ lock' = p
  /\ pc' = [pc EXCEPT ![p] = "resulted"]
  /\ job' = [job EXCEPT ![p] = [NoJob EXCEPT !.id = i, !.wasRunning = TRUE]]
  /\ UNCHANGED <<session, mem, saved, history>>

----------------------------------------------------------------------------
(* _commit_attempt_result, for all three callers                            *)

\* Fault: the caller's progress fact is ignored.
ProgressedByStatus(r) == r.status \in {"completed", "partial"}

Progressed(r) ==
  IF r.progressed = "unset" THEN r.status \in {"completed", "partial"}
  ELSE r.progressed = "yes"

AttemptStatus(r) == IF r.status \in {"failed", "blocked"} THEN r.status ELSE "completed"

\* Outputs are checked, a completed result whose outputs are missing becomes
\* partial, and the copy's budget records the attempt.
RecordOutcome(p, missing) ==
  LET i == job[p].id
      r == attempts[i].result
  IN /\ Step(p, "resulted", "recorded")
     /\ attempts' = IF missing /\ r.status = "completed" /\ ~job[p].reconciled
                    THEN [attempts EXCEPT ![i].result.status = "partial"] ELSE attempts
     /\ mem' = [mem EXCEPT ![p].budget = Record(@, i, Progressed(r))]
     /\ job' = [job EXCEPT ![p].counted = i \notin mem[p].budget.recorded]
     /\ UNCHANGED <<session, saved>>

\* What the commit makes of the session's status and current attempt.
Committed(p) ==
  LET i == job[p].id
  IN IF attempts[i].result.interruption
     THEN IF job[p].counted \/ job[p].wasRunning
          THEN [mem[p] EXCEPT !.status = IF Exhausted(mem[p].budget, FALSE) THEN "blocked" ELSE "running"]
          ELSE mem[p]
     ELSE IF job[p].reconciled /\ job[p].wasRunning
          THEN [mem[p] EXCEPT !.status = "running", !.current = i]
          ELSE mem[p]

IndexOutcome(p) ==
  /\ Step(p, "recorded", "indexed")
  /\ attempts' = [attempts EXCEPT ![job[p].id].status = AttemptStatus(attempts[job[p].id].result)]
  /\ mem' = [mem EXCEPT ![p] = Committed(p)]
  /\ UNCHANGED <<session, saved, job>>

CommitSession(p) ==
  /\ pc[p] = "indexed"
  /\ Saved(p, mem[p])
  /\ Leave(p)
  /\ UNCHANGED <<attempts, history>>

----------------------------------------------------------------------------
(* Interruptions                                                            *)

\* An exception (a failed write, KeyboardInterrupt) ends the mutation here;
\* the controller lives on with the copy it has changed so far.
Abort(p) ==
  /\ Reuse
  /\ pc[p] \in Steps
  /\ Leave(p)
  /\ UNCHANGED <<disk, mem, saved, history>>

\* The process stops; the operating system releases its lock.
Crash(p) ==
  /\ pc[p] # "down"
  /\ pc' = [pc EXCEPT ![p] = "down"]
  /\ mem' = [mem EXCEPT ![p] = None]
  /\ saved' = [saved EXCEPT ![p] = None]
  /\ job' = [job EXCEPT ![p] = NoJob]
  /\ lock' = IF lock = p THEN None ELSE lock
  /\ UNCHANGED <<disk, history>>

----------------------------------------------------------------------------
Init ==
  /\ session = None
  /\ attempts = [i \in Ids |-> [status |-> "none", parent |-> NoId, result |-> None]]
  /\ lock = None
  /\ pc = [p \in Procs |-> "down"]
  /\ mem = [p \in Procs |-> None]
  /\ saved = [p \in Procs |-> None]
  /\ job = [p \in Procs |-> NoJob]
  /\ runs = [i \in Ids |-> 0]
  /\ issued = [i \in Ids |-> 0]

Lifecycle(p) ==
  \/ Create(p) \/ Load(p) \/ Pause(p) \/ Complete(p) \/ ApplicationStatus(p)
  \/ \E a \in Auths : AuthorizeAdditional(p, a)
  \/ \E allow \in BOOLEAN :
       \/ BlockExhausted(p, allow) \/ ContinueWithRevision(p, allow)
       \/ \E n \in Ids : AllocateAttemptId(p, n, allow)

Execute(p) ==
  \/ \E i \in Ids, parent \in Ids \cup {NoId}, allow \in BOOLEAN : BeginAttempt(p, i, parent, allow)
  \/ \E i \in Ids, allow \in BOOLEAN : BeginAttemptFails(p, i, allow)
  \/ MarkRunning(p) \/ StartHandler(p)
  \/ \E r \in Outcomes : HandlerEnds(p, r)

Recovery(p) == \E i \in Ids : ReconcileAttempt(p, i) \/ RecoverInterrupted(p, i)

Commit(p) ==
  \/ \E missing \in BOOLEAN : RecordOutcome(p, missing)
  \/ IndexOutcome(p) \/ CommitSession(p)

Next ==
  \E p \in Procs :
    Lifecycle(p) \/ Execute(p) \/ Recovery(p) \/ Commit(p) \/ Abort(p) \/ Crash(p)

Spec == Init /\ [][Next]_vars

----------------------------------------------------------------------------
(* Properties                                                               *)

\* At most one attempt is open, whichever processes started, recovered or
\* reconciled attempts and wherever they stopped.
OneOpenAttempt ==
  \A i, j \in Ids : attempts[i].status = "running" /\ attempts[j].status = "running" => i = j

\* No handler is ever started twice for one attempt: recovery and
\* reconciliation never replay work (core/session.py:937-941).
HandlerRunsOnce == \A i \in Ids : runs[i] <= 1

\* allocate_attempt_id never returns one id to two callers
\* (core/session.py:734-736).
IdIssuedOnce == \A i \in Ids : issued[i] <= 1

\* The session's counters are those of the attempts it has recorded, each
\* once, and each of them has a result on disk that recovery can read.
AccountingIsExact ==
  session # None =>
    /\ session.budget.attempts = Cardinality(session.budget.recorded)
    /\ \A i \in session.budget.recorded : attempts[i].result # None

\* What the files of attempt i say about its progress.
MadeProgress(i) ==
  LET r == attempts[i].result
  IN \/ r.progressed = "yes"
     \/ r.progressed = "unset" /\ r.status \in {"completed", "partial"}

IdleAttempts(b) == {i \in b.recorded : ~MadeProgress(i)}

\* An attempt counts as progress or not by the fact saved with its outcome,
\* also when another process commits it (core/session.py:923-924).
ProgressFactKept ==
  session # None =>
    LET b == session.budget
    IN /\ b.noProgress <= Cardinality(IdleAttempts(b))
       /\ IdleAttempts(b) = b.recorded => b.noProgress = Cardinality(b.recorded)

\* A settled session has no open attempt: "Reject lifecycle changes while an
\* attempt still needs recovery" (core/session.py:1114), for
\* recover_interrupted would refuse to close that attempt afterwards.
SettledIsQuiet ==
  session # None /\ session.status \in {"completed", "blocked"} => NoRunningAttempt

\* Every attempt's chain of parents is made of attempts on disk and ends.
LineageIsRooted ==
  /\ \A i \in Ids : attempts[i].parent # NoId => Listed(attempts[i].parent)
  /\ \A S \in SUBSET {i \in Ids : Listed(i)} :
       S # {} => \E i \in S : attempts[i].parent \notin S

\* A result once written is what stays: only the check of its outputs may
\* turn completed into partial.
OutcomeIsKept ==
  [][\A i \in Ids :
       attempts[i].result # None =>
         \/ attempts'[i].result = attempts[i].result
         \/ /\ attempts[i].result.status = "completed"
            /\ attempts'[i].result = [attempts[i].result EXCEPT !.status = "partial"]]_vars

\* Recorded attempts, granted allowances, revisions and sequence numbers
\* only accumulate from manifest m to manifest n.
Grows(m, n) ==
  /\ m.budget.recorded \subseteq n.budget.recorded
  /\ m.budget.auths \subseteq n.budget.auths
  /\ m.revision <= n.revision
  /\ m.nextSequence <= n.nextSequence

\* No process undoes what another one saved: a stale copy of the manifest
\* never replaces a newer one (core/session.py:463-492).
NothingIsForgotten == [][session # None => Grows(session, session')]_vars
============================================================================
