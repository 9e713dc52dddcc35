-------------------------- MODULE ToolApplication --------------------------
(***************************************************************************)
(* app/tool_application.py: one process at a time runs a task.  A run asks *)
(* the model for a batch of tool calls, executes them one by one as        *)
(* attempts of the session, and commits the delivery or question that ends *)
(* the batch.  actions.json (journal) says what was accepted and what is   *)
(* pending; the session manifest and the attempt directories are separate  *)
(* files, and the process may stop or be interrupted between any two       *)
(* writes.  Between runs the user resumes, gives feedback, submits actions,*)
(* retries a failed decision or confirms an interruption.                  *)
(*                                                                         *)
(* The session's own writes are steps of module Session; here each of its  *)
(* operations is one step, except that the steps of execute_attempt stay   *)
(* apart.  What supply() changes between runs is in module TaskTerms.      *)
(***************************************************************************)
EXTENDS Integers, FiniteSets, SequencesExt

CONSTANTS MaxId,            \* bound: attempt ids are 1..MaxId
          MaxAttempts,      \* BudgetState.max_attempts
          MaxTurns,         \* config max_turns: model decisions
          MaxRequests,      \* bound: the goal and the feedback after it
          MaxSubmissions,   \* bound: batches the caller submits
          MaxCrashes,       \* bound: stops and interrupts
          Replies,          \* batches of calls the model may answer with
          Submissions,      \* batches the caller may submit
          Versions,         \* contents of the workspace
          Incomplete,       \* of these, the ones without a file the process declares
          None

Ids == 1 .. MaxId
NoId == 0

\* What the application distinguishes in a call: "read" has no effect (so is a
\* call that is never admitted), "write" changes the workspace, "exec" is
\* run_process, which starts a process and needs approval, and the other three
\* end a request ("partial" is a delivery with unresolved items).
Deliveries == {"deliver", "partial"}
Terminals == Deliveries \cup {"ask"}
Calls == {"read", "write", "exec"} \cup Terminals

\* An observation: bound is delivery_hashes, the version the call delivers.
Outcome == [attempt : Ids \cup {NoId}, status : {"ok", "error", "blocked", "cancelled"},
            bound : Versions \cup {None}]

\* closing is decision_budget.json's closing_required; left counts remaining.
Turn == [origin : {"model", "caller"}, source : Ids \cup {NoId}, calls : Seq(Calls),
         done : Seq(Outcome), left : Nat, request : 1 .. MaxRequests,
         closing : BOOLEAN, takeover : BOOLEAN]

\* approval is execution_approval: the version its token was computed from.
Pending == [kind : {"model", "tool"}, attempt : Ids, approval : Versions \cup {None}]

Journal == [requests : 1 .. MaxRequests, turns : Seq(Turn), pending : Pending \cup {None}]

\* reply and seen are the two uses of native_result.json; result is
\* capability_result.json; receipt the invocation.json of a started process.
Attempt == [kind : {"model", "tool"},
            status : {"none", "bare", "created", "running", "completed", "failed"},
            reply : Seq(Calls) \cup {None}, closing : BOOLEAN, seen : Outcome \cup {None},
            result : {"none", "completed", "failed", "interrupted"},
            receipt : {"none", "open", "closed"}]

Session == [status : {"created", "running", "paused", "completed", "partial", "blocked"},
            stopped : BOOLEAN, current : Ids \cup {NoId}, next : Nat \ {0},
            recorded : SUBSET Ids]

Steps == {"feedback", "submit", "retry", "entered", "top", "gate", "asking", "dispatch",
          "created", "marked", "handling", "sent", "launched", "native", "failing",
          "failed", "resulted", "observed", "delivering", "completing"}

ASSUME ApplicationAssumption ==
  /\ MaxAttempts \in Nat \ {0} /\ MaxTurns \in Nat /\ MaxCrashes \in Nat
  /\ MaxRequests \in Nat \ {0}
  /\ MaxSubmissions \in Nat
  /\ MaxId \in Nat /\ MaxId >= MaxAttempts + MaxCrashes + MaxRequests
  /\ Replies \subseteq Seq(Calls) /\ Submissions \subseteq Seq(Calls) \ {<<>>}
  /\ Incomplete \subseteq Versions
  /\ None \notin Versions \cup Seq(Calls) \cup Outcome \cup Pending
  /\ None \notin [proposal : Nat \X Nat, version : Versions]   \* an approval token

VARIABLES journal,   \* actions.json
          session,   \* session_manifest.json
          attempts,  \* attempts/<id>/
          delivery,  \* delivery.json: the turn it is from, or None
          version,   \* the workspace
          pc,        \* where the process is, "down" when there is none
          arg,       \* what the run was called with
          crashes,   \* stops and interrupts so far
          sent,      \* history: requests sent for a model attempt
          ran,       \* history: what took effect: proposal, attempt, approval, version
          shown,     \* history: approval tokens printed: proposal and version
          unasked    \* history: proposals that passed the gate without a token

files == <<journal, session, attempts, delivery>>
history == <<sent, ran, shown, unasked>>
vars == <<journal, session, attempts, delivery, version, pc, arg, crashes, sent, ran, shown, unasked>>

\* fresh: feedback came with the run; token: --approve-execution; batch:
\* submitted actions; asked: the version the approval question is about.
NoArg == [fresh |-> FALSE, token |-> None, batch |-> <<>>, asked |-> None]

NoAttempt == [kind |-> "model", status |-> "none", reply |-> None, closing |-> FALSE,
              seen |-> None, result |-> "none", receipt |-> "none"]

TypeOK ==
  /\ journal \in Journal
  /\ session \in Session
  /\ attempts \in [Ids -> Attempt]
  /\ delivery \in Nat \cup {None}
  /\ version \in Versions
  /\ pc \in Steps \cup {"down"}
  /\ sent \in [Ids -> Nat]
  /\ crashes \in 0 .. MaxCrashes

----------------------------------------------------------------------------
(* Reading the journal                                                      *)

Turns == journal.turns
Current == Last(Turns)                  \* only where Turns # <<>>
Queue(t) == SubSeq(t.calls, Len(t.calls) - t.left + 1, Len(t.calls))
HasQueue == Turns # <<>> /\ Current.left > 0
NextCall == Head(Queue(Current))

\* A proposal: its turn and its place in the batch (a call id is used once).
Proposal == <<Len(Turns), Len(Current.calls) - Current.left + 1>>

Listed(i) == attempts[i].status \notin {"none", "bare"}
NoRunningAttempt == \A i \in Ids : attempts[i].status # "running"
Pend == journal.pending
PendingIs(kind) == Pend # None /\ Pend.kind = kind
PendingStarted == Pend # None /\ Listed(Pend.attempt)

Exhausted == Cardinality(session.recorded) >= MaxAttempts
Space == MaxAttempts - Cardinality(session.recorded)

Capacity == MaxTurns - Cardinality({n \in DOMAIN Turns : Turns[n].origin = "model"})

\* _terminal_batch: the queue ends the request and fits the attempts left.
TerminalBatch ==
  /\ HasQueue
  /\ LET q == Queue(Current)
     IN /\ Current.closing => Len(q) = 1
        /\ Len(q) <= Space
        /\ Last(q) \in Terminals
        /\ Cardinality({k \in DOMAIN q : q[k] \in Terminals}) = 1

\* _terminal_error: a terminal call must be the only one and the last, and a
\* delivery that claims completeness needs every call of the batch to be ok.
TerminalError(t, call) ==
  /\ call \in Terminals
  /\ \/ Cardinality({k \in DOMAIN t.calls : t.calls[k] \in Terminals}) # 1
     \/ Last(t.calls) # call
     \/ call = "deliver" /\ \E k \in DOMAIN t.done : t.done[k].status # "ok"

\* Fault: an observation of an earlier request is committed.
CommittableAnyRequest ==
  /\ Turns # <<>> /\ Pend = None
  /\ Current.left = 0 /\ Current.done # <<>>
  /\ Last(Current.calls) \in Terminals
  /\ Last(Current.done).status = "ok"

\* What _commit_terminal consumes: the closed last observation of a turn that
\* answers the latest request.
Committable ==
  /\ Turns # <<>> /\ Pend = None
  /\ Current.left = 0 /\ Current.done # <<>>
  /\ Current.request = journal.requests
  /\ Last(Current.calls) \in Terminals
  /\ Last(Current.done).status = "ok"

\* _caller_takeover: the caller's batch replaced a failed decision.
Takeover == Turns # <<>> /\ Current.takeover /\ Current.request = journal.requests

----------------------------------------------------------------------------
(* Changes several operations make                                          *)

NewTurn(origin, source, calls, closing, takeover) ==
  [origin |-> origin, source |-> source, calls |-> calls, done |-> <<>>,
   left |-> Len(calls), request |-> journal.requests, closing |-> closing,
   takeover |-> takeover]

\* Fault: the queue is left in place.
CancelledKept == [journal EXCEPT !.pending = None]

\* _cancel_unstarted: what is queued is observed as not executed.
Cancelled ==
  IF HasQueue
  THEN [journal EXCEPT
          !.turns[Len(Turns)].done =
             @ \o [k \in 1 .. Current.left |->
                      [attempt |-> NoId, status |-> "cancelled", bound |-> None]],
          !.turns[Len(Turns)].left = 0,
          !.pending = None]
  ELSE journal

\* Fault: an action whose attempt exists is cancelled as well.
CanCancelStarted == ~PendingIs("model")

CanCancel == ~PendingIs("model") /\ ~PendingStarted

\* The statuses continue_with_revision and pause refuse raise in the code.
CanContinue ==
  /\ session.status \notin {"created", "running"}
  /\ NoRunningAttempt
  /\ ~Exhausted

Continued == [session EXCEPT !.status = "running", !.stopped = FALSE]

Return == pc' = "down" /\ arg' = NoArg

\* An exception inside the run: its handler pauses the session.
Fails ==
  /\ session' = [session EXCEPT !.status = IF @ = "blocked" THEN @ ELSE "paused", !.stopped = FALSE]
  /\ Return

\* session.pause and return.
Pauses(stopped) ==
  IF session.status \in {"completed", "blocked"} \/ ~NoRunningAttempt THEN Fails
  ELSE session' = [session EXCEPT !.status = "paused", !.stopped = stopped] /\ Return

\* _commit_attempt_result: index attempt i and account for it.
Indexed(i) ==
  [attempts EXCEPT ![i].status = IF attempts[i].result = "completed" THEN "completed" ELSE "failed"]

Accounted(i, reconciled) ==
  LET open == attempts[i].status = "running"
      counted == [session EXCEPT !.recorded = @ \cup {i}]
      full == Cardinality(counted.recorded) >= MaxAttempts
  IN IF attempts[i].result = "interrupted"
     THEN IF open \/ i \notin session.recorded
          THEN [counted EXCEPT !.status = IF full THEN "blocked" ELSE "running", !.stopped = FALSE]
          ELSE counted
     ELSE IF reconciled /\ open
          THEN [counted EXCEPT !.status = "running", !.stopped = FALSE, !.current = i]
          ELSE counted

Go(from, to) == pc = from /\ pc' = to

----------------------------------------------------------------------------
(* What the user does between runs                                          *)

Resume(token) ==
  /\ Go("down", "entered")
  /\ arg' = [NoArg EXCEPT !.token = token]
  /\ UNCHANGED <<files, version, crashes, history>>

GiveFeedback ==
  /\ Go("down", "feedback")
  /\ journal.requests < MaxRequests
  /\ CanCancel
  /\ session.status \in {"created", "running"} \/ CanContinue
  /\ session' = IF session.status \in {"created", "running"} THEN session ELSE Continued
  /\ arg' = [NoArg EXCEPT !.fresh = TRUE]
  /\ UNCHANGED <<journal, attempts, delivery, version, crashes, history>>

SaveFeedback ==
  /\ Go("feedback", "entered")
  /\ journal' = [Cancelled EXCEPT !.requests = @ + 1]
  /\ UNCHANGED <<session, attempts, delivery, version, arg, crashes, history>>

\* _failed_model_attempt: a closed failure that left no reply behind.
FailedDecision ==
  /\ PendingIs("model")
  /\ LET a == attempts[Pend.attempt]
     IN a.status = "failed" /\ a.reply = None /\ session.current = Pend.attempt

NothingQueued == \A n \in DOMAIN Turns : Turns[n].left = 0

Submit(batch) ==
  /\ Go("down", "submit")
  /\ ~(Committable /\ Last(Current.calls) \in Deliveries)
  /\ Len(batch) <= MaxAttempts
  /\ Pend = None \/ (FailedDecision /\ NoRunningAttempt)
  /\ NothingQueued
  /\ session.status \notin {"completed", "partial"}
  /\ session.status \in {"created", "running"} \/ CanContinue
  /\ Cardinality({n \in DOMAIN Turns : Turns[n].origin = "caller"}) < MaxSubmissions
  /\ session' = IF session.status \in {"created", "running"} THEN session ELSE Continued
  /\ arg' = [NoArg EXCEPT !.batch = batch]
  /\ UNCHANGED <<journal, attempts, delivery, version, crashes, history>>

SaveSubmission ==
  /\ Go("submit", "entered")
  /\ journal' = [journal EXCEPT !.turns = Append(@, NewTurn("caller", NoId, arg.batch, FALSE, Pend # None)),
                                !.pending = None]
  /\ arg' = NoArg
  /\ UNCHANGED <<session, attempts, delivery, version, crashes, history>>

CanRetry ==
  /\ FailedDecision /\ NothingQueued /\ NoRunningAttempt
  /\ session.status \notin {"created", "completed", "partial"}
  /\ ~Exhausted /\ Capacity > 0

\* --retry-model of a failed decision: a new attempt, the old one is kept.
RetryModel ==
  /\ Go("down", "retry")
  /\ CanRetry
  /\ session' = [session EXCEPT !.status = "running", !.stopped = FALSE, !.next = @ + 1]
  /\ arg' = NoArg
  /\ UNCHANGED <<journal, attempts, delivery, version, crashes, history>>

SaveRetry ==
  /\ Go("retry", "entered")
  /\ journal' = [journal EXCEPT !.pending = [kind |-> "model", attempt |-> session.next - 1, approval |-> None]]
  /\ UNCHANGED <<session, attempts, delivery, version, arg, crashes, history>>

\* session.recover_interrupted, once the user has confirmed the interruption.
ConfirmInterruption(i) ==
  /\ pc = "down"
  /\ session.status \notin {"completed", "blocked"}
  /\ attempts[i].status = "running" /\ attempts[i].result = "none"
  /\ attempts' = [attempts EXCEPT ![i].result = "interrupted", ![i].status = "failed"]
  /\ session' = LET n == Cardinality(session.recorded \cup {i})
                IN [session EXCEPT !.recorded = @ \cup {i}, !.stopped = FALSE,
                                   !.status = IF n >= MaxAttempts THEN "blocked" ELSE "running"]
  /\ UNCHANGED <<journal, delivery, version, pc, arg, crashes, history>>

\* session.reconcile_attempt: index a result that was saved before a stop.
ReconcileSaved(i) ==
  /\ pc = "down"
  /\ attempts[i].status = "running" /\ attempts[i].result # "none"
  /\ attempts' = Indexed(i)
  /\ session' = Accounted(i, TRUE)
  /\ UNCHANGED <<journal, delivery, version, pc, arg, crashes, history>>

\* The user edits the workspace, also while the process runs.
Edit(v) ==
  /\ pc \in {"down", "entered", "asking", "dispatch", "marked", "delivering"}
  /\ version' = v
  /\ v # version
  /\ UNCHANGED <<files, pc, arg, crashes, history>>

----------------------------------------------------------------------------
(* _commit_terminal: before anything else a run does                        *)

Ends == pc \in {"entered", "top"} /\ Committable

Final(call) == IF call = "partial" THEN "partial" ELSE "completed"

AlreadyCommitted ==
  /\ Last(Current.calls) \in Deliveries
  /\ session.status = Final(Last(Current.calls))
  /\ delivery = Len(Turns)

Deliverable ==
  /\ Last(Current.calls) \in Deliveries
  /\ Last(Current.done).bound = version

CommitQuestion ==
  /\ Ends
  /\ Last(Current.calls) = "ask"
  /\ Pauses(FALSE)
  /\ UNCHANGED <<journal, attempts, delivery, version, crashes, history>>

CommitNothing ==
  /\ Ends
  /\ AlreadyCommitted
  /\ Return
  /\ UNCHANGED <<files, version, crashes, history>>

\* The artifacts changed after the observation: the run pauses.
CommitRefused ==
  /\ Ends
  /\ Last(Current.calls) \in Deliveries /\ ~AlreadyCommitted /\ ~Deliverable
  /\ Fails
  /\ UNCHANGED <<journal, attempts, delivery, version, crashes, history>>

WriteDelivery ==
  /\ Ends
  /\ ~AlreadyCommitted /\ Deliverable
  /\ delivery' = Len(Turns)
  /\ pc' = "delivering"
  /\ UNCHANGED <<journal, session, attempts, version, arg, crashes, history>>

CompleteSession ==
  /\ pc = "delivering"
  /\ IF session.status = "blocked" THEN Fails
     ELSE /\ session' = [session EXCEPT !.status = "completed", !.stopped = FALSE]
          /\ IF Last(Current.calls) = "partial" THEN pc' = "completing" /\ arg' = arg ELSE Return
  /\ UNCHANGED <<journal, attempts, delivery, version, crashes, history>>

SavePartial ==
  /\ pc = "completing"
  /\ session' = [session EXCEPT !.status = "partial"]
  /\ Return
  /\ UNCHANGED <<journal, attempts, delivery, version, crashes, history>>

----------------------------------------------------------------------------
(* run, up to the loop                                                      *)

EnterRun ==
  /\ pc = "entered" /\ ~Committable
  /\ LET paused == session.status = "paused" /\ ~arg.fresh
         settled == session.status \in {"completed", "partial"} /\ ~arg.fresh
         idle == Pend = None /\ ~session.stopped
         inFlight == Pend # None /\ attempts[Pend.attempt].status = "running"
     IN \/ /\ settled \/ (paused /\ idle)
           /\ Return /\ session' = session
        \/ /\ ~settled /\ (paused => ~idle /\ inFlight)
           /\ pc' = "top" /\ UNCHANGED <<session, arg>>
        \/ /\ paused /\ ~idle /\ ~inFlight
           /\ IF CanContinue THEN session' = Continued /\ pc' = "top" /\ arg' = arg ELSE Fails
  /\ UNCHANGED <<journal, attempts, delivery, version, crashes, history>>

----------------------------------------------------------------------------
(* The loop: choose what is pending                                         *)

AtTop == pc = "top" /\ ~Committable

\* should_stop answered TRUE.
StopRequested ==
  /\ AtTop
  /\ Pauses(TRUE)
  /\ UNCHANGED <<journal, attempts, delivery, version, crashes, history>>

TakePending ==
  /\ AtTop
  /\ Pend # None
  /\ pc' = IF PendingIs("tool") /\ NextCall = "exec" THEN "gate" ELSE "dispatch"
  /\ UNCHANGED <<files, version, arg, crashes, history>>

\* A reply to a closing decision has to be one action that ends the request.
ClosingViolated == Current.closing /\ ~TerminalBatch

\* The last two attempts are kept for a decision and its delivery.
ReservedForClosing ==
  /\ ~Takeover
  /\ NextCall \notin Terminals /\ ~TerminalBatch
  /\ Space <= 2 /\ Capacity > 0

RefuseQueue ==
  /\ AtTop /\ Pend = None /\ HasQueue
  /\ \/ /\ ClosingViolated
        /\ journal' = Cancelled
        /\ Pauses(FALSE)
     \/ /\ ~ClosingViolated /\ ReservedForClosing /\ Space = 2
        /\ journal' = Cancelled
        /\ UNCHANGED <<session, pc, arg>>
     \/ /\ ~ClosingViolated /\ ReservedForClosing /\ Space # 2
        /\ Pauses(FALSE)
        /\ journal' = journal
  /\ UNCHANGED <<attempts, delivery, version, crashes, history>>

NothingToDecide == Takeover \/ Capacity <= 0 \/ Space < 2

PauseUndecided ==
  /\ AtTop /\ Pend = None /\ ~HasQueue /\ NothingToDecide
  /\ Pauses(FALSE)
  /\ UNCHANGED <<journal, attempts, delivery, version, crashes, history>>

Chooses(kind) ==
  IF kind = "tool" THEN HasQueue /\ ~ClosingViolated /\ ~ReservedForClosing
  ELSE ~HasQueue /\ ~NothingToDecide

CanExecute == session.status \in {"created", "running"} /\ NoRunningAttempt

\* allocate_attempt_id and _save: the id is taken in the session manifest
\* before the journal names it; a stop in between only skips an id.
Allocate(kind) ==
  /\ AtTop /\ Pend = None /\ Chooses(kind)
  /\ \/ /\ CanExecute /\ ~Exhausted
        /\ journal' = [journal EXCEPT !.pending = [kind |-> kind, attempt |-> session.next, approval |-> None]]
        /\ session' = [session EXCEPT !.next = @ + 1]
        /\ UNCHANGED <<pc, arg>>
     \/ /\ CanExecute /\ Exhausted
        /\ session' = [session EXCEPT !.status = "blocked"]
        /\ Return /\ journal' = journal
     \/ /\ ~CanExecute
        /\ Fails /\ journal' = journal
  /\ UNCHANGED <<attempts, delivery, version, crashes, history>>

----------------------------------------------------------------------------
(* Approval of a process                                                    *)

NotStarted == attempts[Pend.attempt].receipt = "none"
Token == [proposal |-> Proposal, version |-> version]

\* The approval is saved before the attempt starts.
Approve ==
  /\ pc' = "dispatch"
  /\ journal' = [journal EXCEPT !.pending.approval = version]
  /\ UNCHANGED <<session, attempts, delivery, version, crashes, history>>

\* approval_token reads every declared input: a missing one raises.
HasToken == version \notin Incomplete

GateOpen ==
  /\ pc = "gate" /\ NotStarted /\ HasToken /\ arg.token = Token
  /\ Approve /\ arg' = arg

\* "Invalid proposals must reach the existing tool validator": nobody is asked.
GateHasNoToken ==
  /\ Go("gate", "dispatch") /\ NotStarted /\ ~HasToken
  /\ unasked' = unasked \cup {Proposal}
  /\ UNCHANGED <<files, version, arg, crashes, sent, ran, shown>>

GateStarted ==
  /\ Go("gate", "dispatch") /\ ~NotStarted
  /\ UNCHANGED <<files, version, arg, crashes, history>>

\* The user is shown the command; the workspace may change meanwhile.
GateAsks ==
  /\ Go("gate", "asking") /\ NotStarted /\ HasToken /\ arg.token # Token
  /\ arg' = [arg EXCEPT !.asked = version]
  /\ shown' = shown \cup {Token}
  /\ UNCHANGED <<files, version, crashes, sent, ran, unasked>>

AnswerStands == arg.asked = version

UserApproves ==
  /\ pc = "asking"
  /\ IF AnswerStands
     THEN Approve /\ arg' = [arg EXCEPT !.asked = None]
     ELSE Fails /\ UNCHANGED <<journal, attempts, delivery, version, crashes, history>>

UserDeclines ==
  /\ pc = "asking"
  /\ Pauses(FALSE)
  /\ UNCHANGED <<journal, attempts, delivery, version, crashes, history>>

----------------------------------------------------------------------------
(* _attempt of an id that has not been used: session.execute_attempt        *)

Id == Pend.attempt
Set(field, value) == attempts' = [attempts EXCEPT ![Id][field] = value]
Keep == UNCHANGED <<journal, delivery, crashes, arg>>

\* Fault: an attempt that failed is run again.
UnusedOrFailed == attempts[Id].status \in {"none", "failed"}

\* No directory of that id: mkdir of one that exists raises.
Unused == attempts[Id].status = "none"

BeginAttempt ==
  /\ Go("dispatch", "created")
  /\ Unused
  /\ CanExecute /\ ~Exhausted
  /\ attempts' = [attempts EXCEPT ![Id].status = "created", ![Id].kind = Pend.kind]
  /\ Keep /\ UNCHANGED <<session, version, history>>

\* The directory is there without its manifest, or the session may not execute.
CannotBegin ==
  /\ pc = "dispatch"
  /\ ~Listed(Id)
  /\ attempts[Id].status = "bare" \/ ~CanExecute \/ Exhausted
  /\ IF CanExecute /\ Exhausted
     THEN session' = [session EXCEPT !.status = "blocked"] /\ Return
     ELSE Fails
  /\ UNCHANGED <<journal, attempts, delivery, version, crashes, history>>

\* new_attempt stops between mkdir and the manifest.
StopInBegin ==
  /\ Go("dispatch", "down")
  /\ Unused /\ CanExecute /\ ~Exhausted
  /\ crashes < MaxCrashes /\ crashes' = crashes + 1
  /\ attempts' = [attempts EXCEPT ![Id].status = "bare"]
  /\ arg' = NoArg
  /\ UNCHANGED <<journal, session, delivery, version, history>>

MarkRunning ==
  /\ Go("created", "marked")
  /\ Set("status", "running")
  /\ Keep /\ UNCHANGED <<session, version, history>>

StartHandler ==
  /\ Go("marked", "handling")
  /\ session' = [session EXCEPT !.status = "running", !.current = Id]
  /\ Keep /\ UNCHANGED <<attempts, version, history>>

\* _model: what the reply has to be is saved before the request is sent.
SendRequest ==
  /\ Go("handling", "sent") /\ PendingIs("model")
  /\ Set("closing", ~(Capacity > 1 /\ Space > 2))
  /\ sent' = [sent EXCEPT ![Id] = @ + 1]
  /\ Keep /\ UNCHANGED <<session, version, ran, shown, unasked>>

SaveReply(reply) ==
  /\ Go("sent", "native")
  /\ Set("reply", reply)
  /\ Keep /\ UNCHANGED <<session, version, history>>

Observes(status, bound) ==
  Set("seen", [attempt |-> Id, status |-> status, bound |-> bound])

Handles(call) == pc = "handling" /\ PendingIs("tool") /\ NextCall = call

\* _tool: a call that does nothing: refused, invalid, a read, a delivery or
\* question that is only recorded, a process without its inputs.
Observe ==
  /\ Go("handling", "native") /\ PendingIs("tool")
  /\ \/ Observes("blocked", None)
     \/ NextCall = "read" /\ (\E status \in {"ok", "error"} : Observes(status, None))
     \/ NextCall = "exec" /\ Pend.approval = None /\ ~HasToken /\ Observes("error", None)
     \/ NextCall \in Terminals /\ ~TerminalError(Current, NextCall) /\ Observes("ok", version)
  /\ Keep /\ UNCHANGED <<session, version, history>>

\* Fault: an approval is not compared with what is about to run.
MayLaunchUnchecked == NotStarted /\ HasToken

\* A saved approval is compared; without one nothing is.
MayLaunch == NotStarted /\ HasToken /\ Pend.approval \in {None, version}

Effect == [proposal |-> Proposal, attempt |-> Id, approval |-> Pend.approval, version |-> version]

WriteWorkspace(v) ==
  /\ Handles("write") /\ pc' = "launched"
  /\ version' = v
  /\ ran' = Append(ran, Effect)
  /\ Keep /\ UNCHANGED <<session, attempts, sent, shown, unasked>>

LaunchProcess ==
  /\ Handles("exec") /\ pc' = "launched"
  /\ MayLaunch
  /\ Set("receipt", "open")
  /\ ran' = Append(ran, Effect)
  /\ Keep /\ UNCHANGED <<session, version, sent, shown, unasked>>

\* The process ends and its receipt is closed.
ProcessEnds(v) ==
  /\ pc = "launched" /\ attempts[Id].receipt = "open"
  /\ Set("receipt", "closed")
  /\ version' = v
  /\ Keep /\ UNCHANGED <<session, pc, history>>

ObserveEffect ==
  /\ Go("launched", "native") /\ attempts[Id].receipt # "open"
  /\ \E status \in {"ok", "error"} : Observes(status, None)
  /\ Keep /\ UNCHANGED <<session, version, history>>

\* The handler raises: a changed approval, a provider failure, an owner's
\* exception before or after the effect.
HandlerRaises ==
  /\ pc \in {"handling", "sent"} \/ (pc = "launched" /\ attempts[Id].receipt # "open")
  /\ pc' = "failed"
  /\ Set("result", "failed")
  /\ Keep /\ UNCHANGED <<session, version, history>>

FailAttempt ==
  /\ pc = "failed"
  /\ attempts' = Indexed(Id)
  /\ session' = [Accounted(Id, FALSE) EXCEPT !.status = "paused", !.stopped = FALSE]
  /\ Return
  /\ UNCHANGED <<journal, delivery, version, crashes, history>>

SaveResult ==
  /\ Go("native", "resulted")
  /\ Set("result", "completed")
  /\ Keep /\ UNCHANGED <<session, version, history>>

CommitAttempt ==
  /\ Go("resulted", "observed")
  /\ attempts' = Indexed(Id)
  /\ session' = Accounted(Id, FALSE)
  /\ Keep /\ UNCHANGED <<version, history>>

----------------------------------------------------------------------------
(* _attempt of an id that was used before                                   *)

\* Fault: a confirmed interruption is no observation.
ConfirmedReadsOnly ==
  /\ PendingIs("tool") /\ NextCall = "read"
  /\ attempts[Id].status = "failed" /\ attempts[Id].result = "failed"

\* A failure that is known to have had no effect, or that the user confirmed.
Confirmed ==
  /\ PendingIs("tool")
  /\ LET a == attempts[Id]
     IN \/ a.result = "interrupted"
        \/ a.status = "failed" /\ a.result = "failed" /\ NextCall = "read"

\* gateway.can_reconcile: the receipt says how the process ended.
Reconcilable == PendingIs("tool") /\ attempts[Id].receipt = "closed"

HasNative ==
  IF PendingIs("tool") THEN attempts[Id].seen # None
  ELSE attempts[Id].reply # None /\ attempts[Id].result # "interrupted"

RestoreObservation ==
  /\ pc = "dispatch" /\ Listed(Id) /\ ~HasNative
  /\ \/ Confirmed /\ Observes("error", None)
     \/ ~Confirmed /\ Reconcilable /\ (\E status \in {"ok", "error"} : Observes(status, None))
  /\ Keep /\ UNCHANGED <<session, pc, version, history>>

\* A missing capability result is written as completed, and the attempt indexed.
Adopted ==
  LET result == IF attempts[Id].result = "none" THEN "completed" ELSE attempts[Id].result
  IN [attempts EXCEPT ![Id].result = result,
                      ![Id].status = IF result = "completed" THEN "completed" ELSE "failed"]

Adopt ==
  /\ Go("dispatch", "observed") /\ Listed(Id) /\ HasNative
  /\ attempts' = Adopted
  /\ session' = Accounted(Id, TRUE)
  /\ Keep /\ UNCHANGED <<version, history>>

\* "Interrupted operation has no durable result; inspect receipts before any replay"
NoDurableResult ==
  /\ pc = "dispatch" /\ Listed(Id) /\ ~HasNative
  /\ ~Confirmed /\ ~Reconcilable
  /\ Fails
  /\ UNCHANGED <<journal, attempts, delivery, version, crashes, history>>

----------------------------------------------------------------------------
(* The loop: the outcome enters the journal                                 *)

\* Fault: the accepted reply stays pending.
ReplyAcceptedKept ==
  [journal EXCEPT !.turns = Append(@, NewTurn("model", Id, attempts[Id].reply, attempts[Id].closing, FALSE))]

ReplyAccepted ==
  [journal EXCEPT !.turns = Append(@, NewTurn("model", Id, attempts[Id].reply, attempts[Id].closing, FALSE)),
                  !.pending = None]

ObservationAccepted ==
  [journal EXCEPT !.turns[Len(Turns)].done = Append(@, attempts[Id].seen),
                  !.turns[Len(Turns)].left = @ - 1,
                  !.pending = None]

AcceptReply ==
  /\ pc = "observed" /\ PendingIs("model")
  /\ journal' = ReplyAccepted
  /\ IF attempts[Id].reply = <<>> THEN Pauses(FALSE)
     ELSE pc' = "top" /\ UNCHANGED <<session, arg>>
  /\ UNCHANGED <<attempts, delivery, version, crashes, history>>

AcceptObservation ==
  /\ Go("observed", "top") /\ PendingIs("tool")
  /\ journal' = ObservationAccepted
  /\ UNCHANGED <<session, attempts, delivery, version, arg, crashes, history>>

----------------------------------------------------------------------------
(* Interruptions                                                            *)

Running == pc # "down"
InRun == Steps \ {"feedback", "submit", "retry"}

\* KeyboardInterrupt: the handler of run pauses the session; the attempt in
\* progress stays as it is.  run_process closes the receipt when it can.
Interrupt ==
  /\ pc \in InRun /\ crashes < MaxCrashes
  /\ crashes' = crashes + 1
  /\ Fails
  /\ \/ attempts' = attempts
     \/ pc = "launched" /\ attempts[Id].receipt = "open" /\ Set("receipt", "closed")
  /\ UNCHANGED <<journal, delivery, version, history>>

Crash ==
  /\ Running /\ crashes < MaxCrashes
  /\ crashes' = crashes + 1
  /\ Return
  /\ UNCHANGED <<files, version, history>>

----------------------------------------------------------------------------
Init ==
  /\ journal = [requests |-> 1, turns |-> <<>>, pending |-> None]
  /\ session = [status |-> "created", stopped |-> FALSE, current |-> NoId, next |-> 1, recorded |-> {}]
  /\ attempts = [i \in Ids |-> NoAttempt]
  /\ delivery = None
  /\ version \in Versions
  /\ pc = "down" /\ arg = NoArg /\ crashes = 0
  /\ sent = [i \in Ids |-> 0] /\ ran = <<>> /\ shown = {} /\ unasked = {}

User ==
  \/ \E token \in shown \cup {None} : Resume(token)
  \/ GiveFeedback \/ RetryModel
  \/ \E batch \in Submissions : Submit(batch)
  \/ \E i \in Ids : ConfirmInterruption(i) \/ ReconcileSaved(i)
  \/ \E v \in Versions : Edit(v)

Entry == SaveFeedback \/ SaveSubmission \/ SaveRetry \/ EnterRun
Terminal == CommitQuestion \/ CommitNothing \/ CommitRefused \/ WriteDelivery \/ CompleteSession \/ SavePartial
Choose == TakePending \/ RefuseQueue \/ PauseUndecided \/ (\E kind \in {"tool", "model"} : Allocate(kind))
Gate == GateOpen \/ GateHasNoToken \/ GateStarted \/ GateAsks \/ UserApproves \/ UserDeclines
Execute ==
  \/ BeginAttempt \/ CannotBegin \/ MarkRunning \/ StartHandler \/ SendRequest
  \/ \E reply \in Replies : SaveReply(reply)
  \/ Observe \/ LaunchProcess \/ ObserveEffect \/ HandlerRaises \/ FailAttempt
  \/ \E v \in Versions : WriteWorkspace(v) \/ ProcessEnds(v)
  \/ SaveResult \/ CommitAttempt
Recover == RestoreObservation \/ Adopt \/ NoDurableResult
Accept == AcceptReply \/ AcceptObservation

Program == Entry \/ Terminal \/ Choose \/ Gate \/ Execute \/ Recover \/ Accept

Next == User \/ Program \/ StopRequested \/ StopInBegin \/ Interrupt \/ Crash

Spec == Init /\ [][Next]_vars

\* A run that is not stopped takes its next step: the user answers, the model
\* client and the processes it waits for end (ProcessRun, LlmCall).
FairSpec == Spec /\ WF_vars(Program)

----------------------------------------------------------------------------
(* Properties                                                               *)

RanProposals == {ran[k].proposal : k \in DOMAIN ran}

Outcomes == {o \in (DOMAIN Turns) \X (1 .. Max({0} \cup {Len(Turns[n].done) : n \in DOMAIN Turns})) :
               o[2] \in DOMAIN Turns[o[1]].done}
OutcomeAt(o) == Turns[o[1]].done[o[2]]
CallAt(o) == Turns[o[1]].calls[o[2]]

\* A reply enters the journal once, as the attempt saved it, and that attempt
\* is closed and counted.
ReplyAcceptedOnce ==
  \A n \in DOMAIN Turns : Turns[n].origin = "model" =>
    /\ \A m \in DOMAIN Turns : Turns[m].source = Turns[n].source => m = n
    /\ attempts[Turns[n].source].status = "completed"
    /\ attempts[Turns[n].source].reply = Turns[n].calls
    /\ Turns[n].source \in session.recorded

\* Every observation comes from an attempt of its own that is closed and
\* counted by the session's budget, and says what the attempt saved.
ObservationIsAccounted ==
  \A o \in Outcomes : OutcomeAt(o).status # "cancelled" =>
    LET i == OutcomeAt(o).attempt
    IN /\ attempts[i].status \in {"completed", "failed"}
       /\ attempts[i].seen = OutcomeAt(o)
       /\ i \in session.recorded
       /\ \A q \in Outcomes : OutcomeAt(q).attempt = i => q = o

\* The journal and the attempts agree whatever is cut off between a reply or
\* observation, its result, its accounting and the journal (_attempt 3710-3784,
\* _run 4399-4412): nothing is asked, used or counted twice.
JournalIsAccounted == ReplyAcceptedOnce /\ ObservationIsAccounted

\* What a call did to the workspace or a process it did once, whatever
\* crashes, confirmed interruptions, retries and resumed runs follow.
ProposalRunsOnce == \A j, k \in DOMAIN ran : ran[j].proposal = ran[k].proposal => j = k

\* The journal does not misstate effects: a change it reports as done was
\* made by the attempt it names, and one it reports as refused or cancelled
\* was never made, not even later (_cancel_unstarted 1643-1659).
OutcomeTellsEffect ==
  \A o \in Outcomes :
    /\ OutcomeAt(o).status = "ok" /\ CallAt(o) \in {"write", "exec"} =>
         \E k \in DOMAIN ran : ran[k].proposal = o /\ ran[k].attempt = OutcomeAt(o).attempt
    /\ OutcomeAt(o).status \in {"blocked", "cancelled"} => o \notin RanProposals

\* A process starts only on inputs that were shown to the user for exactly
\* that command, though the user edits files, other calls run and the process
\* is replaced between question, answer, saved approval and start.  One way
\* remains: a command whose declared input is missing at the gate has no token,
\* nobody is asked (4431-4440), and _tool compares nothing where no approval
\* was saved (3191-3195); if the input is there by then, the process starts.
StartedAsShown ==
  \A k \in DOMAIN ran : Turns[ran[k].proposal[1]].calls[ran[k].proposal[2]] = "exec" =>
    \/ [proposal |-> ran[k].proposal, version |-> ran[k].version] \in shown
    \/ ran[k].approval = None /\ ran[k].proposal \in unasked

\* A session that is settled has the delivery of its last turn in the journal,
\* answering the latest request, with nothing queued or pending: manifest,
\* journal and delivery file are written separately.
SettledIsDelivered ==
  session.status \in {"completed", "partial"} =>
    /\ Turns # <<>> /\ delivery = Len(Turns)
    /\ Pend = None /\ Current.left = 0
    /\ Current.request = journal.requests
    /\ Last(Current.calls) \in Deliveries /\ Last(Current.done).status = "ok"

\* What may be done about a pending operation: run or adopt it, cancel it,
\* retry it, or close it by hand first.
CanProceed ==
  \/ Pend = None
  \/ attempts[Id].status = "none"
  \/ Listed(Id) /\ (HasNative \/ Confirmed \/ Reconcilable)
  \/ CanCancel
  \/ FailedDecision
  \/ attempts[Id].status = "running"

\* What can not be taken further is one of these: an attempt directory that
\* was not begun completely, a change or process that raised instead of
\* being observed, a decision confirmed as interrupted although its reply was
\* saved, and a decision that was not yet the session's current attempt.
StuckOnlyThus ==
  pc = "down" /\ ~CanProceed =>
    \/ attempts[Id].status \in {"bare", "created"}
    \/ PendingIs("tool") /\ attempts[Id].status = "failed" /\ attempts[Id].result = "failed"
    \/ PendingIs("model") /\ attempts[Id].result = "interrupted"
         /\ (attempts[Id].reply # None \/ session.current # Id)

\* Every run returns: the loop ends in a delivery, a question or a pause.
RunEnds == []<>(pc = "down")
=============================================================================
