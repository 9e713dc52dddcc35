------------------------ MODULE ImplementationWork -------------------------
(***************************************************************************)
(* tools/implementation_work.py, tools/implementation_run.py and the       *)
(* prepare_implementation handler of tools/implementation.py: one request  *)
(* for complete work, carried by its owner from the preparation of a       *)
(* candidate through its approved execution to repairs of what failed.     *)
(* The owner keeps no state of its own.  After every accepted attempt, and *)
(* on every resume, it reads the files of the attempts and the ledger and  *)
(* derives the next call, or a stop; app/tool_application.py journals that *)
(* as a turn and runs it.  The process may stop between any two writes,    *)
(* and the user may edit the material or a candidate at any time.          *)
(*                                                                         *)
(* An edit is never undone here, so a file has its recorded bytes iff it   *)
(* is not among the edited ones.  The session's steps inside an attempt    *)
(* are in ToolApplication, those of the process runner in ProcessRun.      *)
(***************************************************************************)
EXTENDS Integers, FiniteSets

CONSTANTS MaxId,           \* bound: attempts of the work are 1..MaxId
          MaxRepairs,      \* request.max_repairs, for the "ceiling" contract
          MaxDecisions,    \* model answers of one preparation
          Attempts,        \* sets of initial amounts: BudgetState.max_attempts,
          Requests,        \*   llm_requests
          Processes,       \*   and process_invocations
          Granted,         \* what a grant leaves of the last two
          MaxGrants, MaxCrashes, MaxEdits    \* bounds

ASSUME WorkAssumption ==
  /\ MaxId \in Nat \ {0} /\ MaxRepairs \in Nat /\ MaxDecisions \in Nat \ {0}
  /\ Attempts \subseteq Nat /\ Requests \subseteq Nat /\ Processes \subseteq Nat
  /\ Granted \in [requests : Nat, processes : Nat]
  /\ MaxGrants \in Nat /\ MaxCrashes \in Nat /\ MaxEdits \in Nat

Ids == 1 .. MaxId
NoId == 0
None == "none"
\* Files that can be edited: the material of the request, candidate i's sources.
Material == 0

\* How a command ends: with its outputs, without them, with one of two
\* diagnostics and a returncode that is not 0, or stopped at its limit.
Exits == {"outputs", "no_outputs", "error_a", "error_b", "stopped"}

\* Why the owner stops, and the status of an accepted observation: a candidate,
\* a record, a refusal, a confirmed interruption, or an error with its reason.
Reasons == {"owner_failed", "owner_state_unresolved", "execution_unresolved",
            "accounting_unresolved", "shared_budget_exhausted", "repair_ceiling",
            "repair_stagnated", "preparation_restart_requires_action"}
Observations == {"ok", "record", "blocked", "interrupted"} \cup Reasons

\* of is the diagnosed execution (NoId: the first request) or the prepared
\* candidate.  read is request.json with the version of the material it binds;
\* candidate and result say that these are published, input that
\* execution_input.json is saved; receipt is invocation.json and bound the
\* output_binding in it, record the status in candidate_execution.json, seen
\* native_result.json (entered: its owner_entered); account sums up the
\* attempt's entries in the ledger.
Attempt == [tool : {None, "prepare", "execute"}, of : Ids \cup {NoId},
            status : {None, "running", "completed", "failed", "interrupted"},
            read : {None, "original", "edited"}, candidate : BOOLEAN, result : BOOLEAN,
            input : BOOLEAN, receipt : Exits \cup {None, "open"},
            bound : {None, "bound", "inputs", "outputs"},
            record : {None, "run_succeeded", "process_failed", "missing_outputs",
                      "changed_inputs", "unbound_outputs_after_interruption"},
            seen : Observations \cup {None}, entered : BOOLEAN,
            account : {None, "open", "settled", "unknown"}]

NoAttempt == [tool |-> None, of |-> NoId, status |-> None, read |-> None,
              candidate |-> FALSE, result |-> FALSE, input |-> FALSE, receipt |-> None,
              bound |-> None, record |-> None, seen |-> None, entered |-> FALSE,
              account |-> None]

VARIABLES contract,   \* "shared": work_contract shared.v1/v2; "ceiling": max_repairs
          attempts,   \* attempts/<id>/ and tools/processes/<id>/
          turn,       \* the last turn of actions.json
          pending,    \* its pending attempt, and whether an approval is saved
          edited,     \* the files that were edited: Material, or a candidate's id
          wallet,     \* what is left of requests and processes; max_attempts; grants
          pc,         \* where the process is; "down": none runs
          crashes,
          history     \* auxiliary: decisions paid, launches, launches of other bytes

vars == <<contract, attempts, turn, pending, edited, wallet, pc, crashes, history>>

\* What the owner proposes: a call, or a stop with its reason.
Action == [tool : {None, "prepare", "execute"}, of : Ids \cup {NoId},
           stop : Observations \cup {None}]

NoPending == [attempt |-> NoId, approved |-> FALSE]
Call(tool, of) == [tool |-> tool, of |-> of, stop |-> None]
Stop(reason) == [tool |-> None, of |-> NoId, stop |-> reason]
\* The owner has no next operation: the coordinator decides.
Nothing == Call(None, NoId)

Used == Cardinality({i \in Ids : attempts[i].status \in {"completed", "failed", "interrupted"}})
Space == wallet.attempts - Used
Unresolved(i) == attempts[i].account \in {"open", "unknown"}

\* affordable_work: one request and one process are left.  While a handler runs,
\* protect_remaining keeps one request for the decision that follows it.
Affordable(floor) == wallet.requests > floor /\ wallet.processes >= 1
Floor == 1

\* ---------------------------------------------------- what the files prove

\* The candidate an attempt starts from: the one whose execution it repairs.
PriorOf(p) == IF attempts[p].of = NoId THEN {} ELSE {attempts[attempts[p].of].of}

MaterialVersion == IF Material \in edited THEN "edited" ELSE "original"

\* The inputs of a preparation have the versions request.json binds.
InputsHold(p) == attempts[p].read = MaterialVersion /\ PriorOf(p) \cap edited = {}

\* prepared_unit's source_sha256 is what is on disk.
Unchanged(p) == InputsHold(p) /\ p \notin edited

\* _accepted: a completed native_tool attempt with no open accounting.
Accepted(i) == attempts[i].status = "completed" /\ ~ Unresolved(i)

OutputsExist(p) == \E i \in Ids : attempts[i].tool = "execute" /\ attempts[i].of = p
                                  /\ attempts[i].receipt = "outputs"

\* execution_binding does not raise: this candidate may be shown for approval.
Executable(p) == attempts[p].seen = "ok" /\ Unchanged(p) /\ ~ OutputsExist(p)

\* Mutant: the source check at the end of _execution is missing.
SettledFailureOfOldBytes(d) ==
  /\ Accepted(d)
  /\ attempts[d].record \in {"process_failed", "missing_outputs"}
  /\ attempts[d].receipt \in Exits \ {"stopped"}
  /\ attempts[d].account = "settled"

\* _execution: the physical run closed, was not cut short, is settled, and was
\* of the bytes that are still there.
SettledFailure(d) ==
  /\ Accepted(d)
  /\ attempts[d].record \in {"process_failed", "missing_outputs"}
  /\ attempts[d].receipt \in Exits \ {"stopped"}
  /\ attempts[d].account = "settled"
  /\ Unchanged(attempts[d].of)

\* With an execution, the one whose repair prepared its candidate.
Closed(S) ==
  \A i \in S : attempts[i].of # NoId /\ attempts[attempts[i].of].of # NoId
              => attempts[attempts[i].of].of \in S

\* The executions whose repair led to d, d included.
Lineage(d) ==
  IF d = NoId THEN {} ELSE {i \in Ids : \A S \in SUBSET Ids : d \in S /\ Closed(S) => i \in S}

Repairs(d) == Cardinality(Lineage(d)) - 1

\* _failure_signature.  The notes saved with a failure stand in for an empty
\* stdout and stderr, so there always is a diagnostic to compare.
Signature(d) == <<attempts[d].record, attempts[d].receipt>>

Stagnated(d) ==
  LET previous == attempts[attempts[d].of].of
  IN  previous # NoId /\ Signature(previous) = Signature(d)

\* _repair_arguments and repair_request: why d is not repaired, or None.
RepairRefusal(d) ==
  IF \E i \in Lineage(d) : ~ SettledFailure(i) THEN "owner_state_unresolved"
  ELSE IF contract = "ceiling" /\ Repairs(d) >= MaxRepairs THEN "repair_ceiling"
  ELSE IF contract = "shared" /\ Stagnated(d) THEN "repair_stagnated"
  ELSE None

\* ------------------------------------------------- continuation of the work

AfterPreparation(i) ==
  IF attempts[i].seen # "ok"
  THEN IF attempts[i].entered THEN Stop(attempts[i].seen) ELSE Nothing
  ELSE IF Executable(i) THEN Call("execute", i) ELSE Stop("owner_state_unresolved")

AfterExecution(i) ==
  LET refusal == RepairRefusal(i)
  IN  IF attempts[i].record = "run_succeeded"
      THEN IF Unchanged(attempts[i].of) THEN Nothing ELSE Stop("owner_state_unresolved")
      ELSE IF attempts[i].record # None
      THEN IF refusal # None THEN Stop(refusal)
           ELSE IF ~ Affordable(0) THEN Stop("shared_budget_exhausted") ELSE Call("prepare", i)
      ELSE IF ~ attempts[i].input THEN Nothing
      ELSE IF PriorOf(attempts[i].of) \cap edited # {} THEN Stop("owner_state_unresolved")
      ELSE Stop("execution_unresolved")

\* The attempt belongs to the owner, whatever became of it.
Entered(i) == IF attempts[i].tool = "prepare" THEN attempts[i].entered \/ attempts[i].read # None
              ELSE attempts[i].input \/ attempts[i].record # None

Continuation(i) ==
  IF ~ Accepted(i) THEN IF Entered(i) THEN Stop("owner_state_unresolved") ELSE Nothing
  ELSE IF attempts[i].tool = "prepare" THEN AfterPreparation(i) ELSE AfterExecution(i)

\* A stop must cite a completed attempt: for one that the user confirmed as
\* interrupted stop_decision raises, and so does every later run.
CannotStop(i) == attempts[i].status = "interrupted" /\ Entered(i)

\* Mutant: a refusal after paid decisions is taken for one before any.
RestartOfPaid(i) ==
  IF ~ Accepted(i) \/ attempts[i].seen # "shared_budget_exhausted" \/ attempts[i].candidate
  THEN Stop("owner_state_unresolved") ELSE Call("prepare", attempts[i].of)

\* resume_after_budget, for a preparation.
RestartOf(i) ==
  IF ~ Accepted(i) \/ attempts[i].seen # "shared_budget_exhausted" THEN Stop("owner_state_unresolved")
  ELSE IF \E j \in Ids : Unresolved(j) THEN Stop("accounting_unresolved")
  ELSE IF attempts[i].read # None /\ ~ InputsHold(i) THEN Stop("owner_state_unresolved")
  ELSE IF attempts[i].account # None THEN Stop("preparation_restart_requires_action")
  ELSE IF attempts[i].result \/ attempts[i].candidate THEN Stop("owner_state_unresolved")
  ELSE IF ~ Affordable(0) THEN Stop("shared_budget_exhausted")
  ELSE Call("prepare", attempts[i].of)

ResumedAction(i) ==
  IF attempts[i].tool = "prepare" THEN RestartOf(i)
  ELSE IF Continuation(i) = Nothing THEN Stop("owner_state_unresolved") ELSE Continuation(i)

\* The attempts the next operation needs (continuation_attempts).
Needs(tool) == IF tool = "prepare" THEN 2 ELSE 1

Scheduled(action) == IF action.stop = None /\ Space < Needs(action.tool)
                     THEN Stop("shared_budget_exhausted") ELSE action

\* Journal the owner's action as a turn, derived from attempt i.
Propose(action, i) ==
  LET next == Scheduled(action)
  IN  /\ turn' = [call |-> next, queued |-> next.stop = None, source |-> i, done |-> NoId,
                  known |-> wallet.grants]
      /\ pc' = IF next.stop = None THEN "loop" ELSE "down"

\* _continue_professional_work: the accepted result of the last turn leads on.
Continue ==
  LET i == turn.done
  IN  /\ pc = "loop" /\ pending = NoPending /\ ~ turn.queued
      /\ turn.call.stop = None /\ i # NoId
      /\ IF CannotStop(i) THEN pc' = "down" /\ UNCHANGED turn
         ELSE IF Continuation(i) = Nothing THEN pc' = "returned" /\ UNCHANGED turn
         ELSE Propose(Continuation(i), i)
      /\ UNCHANGED <<contract, attempts, pending, edited, wallet, crashes, history>>

\* _professional_stop_can_resume: a later grant, and only for an exhausted budget.
CanResumeStop == turn.call.stop = "shared_budget_exhausted" /\ wallet.grants > turn.known

ResumeStop ==
  /\ pc = "loop" /\ pending = NoPending /\ turn.call.stop # None
  /\ CanResumeStop
  /\ Propose(ResumedAction(turn.source), turn.source)
  /\ UNCHANGED <<contract, attempts, pending, edited, wallet, crashes, history>>

\* A follow-up decision the model could still make keeps two attempts.
Reserved == Space <= 2 /\ wallet.requests > 0

\* _run: take the queued call as a new pending attempt ...
TakeCall ==
  \E i \in Ids :
    /\ pc = "loop" /\ pending = NoPending /\ turn.queued
    /\ attempts[i].tool = None /\ \A j \in 1 .. i - 1 : attempts[j].tool # None
    /\ turn.source = NoId \/ ~ Reserved    \* the first call had its attempts
    /\ attempts' = [attempts EXCEPT ![i].tool = turn.call.tool, ![i].of = turn.call.of]
    /\ pending' = [attempt |-> i, approved |-> FALSE]
    /\ UNCHANGED <<contract, turn, edited, wallet, pc, crashes, history>>

\* ... or cancel it, for want of attempts, and stop where it came from.
ReserveCompletion ==
  /\ pc = "loop" /\ pending = NoPending /\ turn.queued
  /\ turn.source # NoId /\ Reserved
  /\ turn' = [turn EXCEPT !.call = Stop("shared_budget_exhausted"), !.queued = FALSE,
                          !.known = wallet.grants]
  /\ pc' = "down"
  /\ UNCHANGED <<contract, attempts, pending, edited, wallet, crashes, history>>

\* --------------------------------------------------- approval and dispatch

AtCall(tool) == pc = "loop" /\ pending.attempt # NoId /\ attempts[pending.attempt].tool = tool

\* approval_token binds the inputs as they are; the user is asked unless the
\* command was started.  A refusal pauses the run.
AskApproval(given) ==
  LET p == attempts[pending.attempt].of
  IN  /\ AtCall("execute") /\ ~ pending.approved
      /\ attempts[pending.attempt].receipt = None
      /\ Executable(p)
      /\ pending' = [pending EXCEPT !.approved = given]
      /\ pc' = IF given THEN "loop" ELSE "down"
      /\ UNCHANGED <<contract, attempts, turn, edited, wallet, crashes, history>>

Began(i) == attempts' = [attempts EXCEPT ![i].status = "running"]

BeginPreparation ==
  LET i == pending.attempt
  IN  /\ AtCall("prepare") /\ attempts[i].status = None
      /\ Began(i) /\ pc' = "handling"
      /\ UNCHANGED <<contract, turn, pending, edited, wallet, crashes, history>>

\* The inputs that are bound now are no executable ones: the call goes on
\* without an approval, for the refusal to become its observation.
BeginExecution ==
  LET i == pending.attempt
  IN  /\ AtCall("execute") /\ attempts[i].status = None
      /\ pending.approved \/ ~ Executable(attempts[i].of)
      /\ Began(i) /\ pc' = "handling"
      /\ UNCHANGED <<contract, turn, pending, edited, wallet, crashes, history>>

\* ---------------------------------------------------- prepare_implementation

Handles(tool, at) == pc = at /\ attempts[pending.attempt].tool = tool

\* The error observation of call()'s handler, saved as native_result.json.
\* entered: the owner's own stop, or its request.json is there.
Fail(i, reason, entered) ==
  attempts' = [attempts EXCEPT ![i].seen = reason, ![i].entered = entered]

\* call() and prepare_work up to request.json: a diagnosis is verified again.
StartPreparation ==
  LET i == pending.attempt
      refusal == IF attempts[i].of = NoId THEN None ELSE RepairRefusal(attempts[i].of)
  IN  /\ Handles("prepare", "handling")
      /\ IF refusal # None
         THEN /\ IF refusal = "owner_state_unresolved" THEN Fail(i, "owner_failed", FALSE)
                 ELSE Fail(i, refusal, TRUE)
              /\ pc' = "observed"
         ELSE IF ~ Affordable(Floor) THEN Fail(i, "shared_budget_exhausted", TRUE) /\ pc' = "observed"
         ELSE attempts' = [attempts EXCEPT ![i].read = MaterialVersion] /\ pc' = "deciding"
      /\ UNCHANGED <<contract, turn, pending, edited, wallet, crashes, history>>

\* Reserve one request and send it, or fail on an empty allowance.
SendDecision ==
  LET i == pending.attempt
  IN  /\ pc = "deciding" /\ wallet.requests > Floor
      /\ attempts' = [attempts EXCEPT ![i].account = "open"]
      /\ wallet' = [wallet EXCEPT !.requests = @ - 1]
      /\ history' = [history EXCEPT !.paid[i] = @ + 1]
      /\ pc' = "sent"
      /\ UNCHANGED <<contract, turn, pending, edited, crashes>>

NoRequestLeft ==
  /\ pc = "deciding" /\ wallet.requests <= Floor
  /\ Fail(pending.attempt, "shared_budget_exhausted", TRUE)
  /\ pc' = "observed"
  /\ UNCHANGED <<contract, turn, pending, edited, wallet, crashes, history>>

\* The answer asks to read on, is the candidate, cannot be used, or its use is
\* not known; none but the first leads to another request.
Answer(kind) ==
  LET i == pending.attempt
      counted == [attempts EXCEPT ![i].account = IF kind = "lost" THEN "unknown" ELSE "settled"]
  IN  /\ pc = "sent"
      /\ kind = "read" => history.paid[i] < MaxDecisions
      /\ attempts' = IF kind \in {"lost", "unusable"}
                     THEN [counted EXCEPT ![i].seen = "owner_failed", ![i].entered = TRUE]
                     ELSE counted
      /\ pc' = IF kind = "read" THEN "deciding"
               ELSE IF kind = "candidate" THEN "publishing" ELSE "observed"
      /\ UNCHANGED <<contract, turn, pending, edited, wallet, crashes, history>>

\* write_implementation_unit: the inputs are validated and the candidate's
\* directory is put in place.
PublishCandidate ==
  LET i == pending.attempt
  IN  /\ pc = "publishing"
      /\ IF InputsHold(i)
         THEN attempts' = [attempts EXCEPT ![i].candidate = TRUE] /\ pc' = "validating"
         ELSE Fail(i, "owner_failed", TRUE) /\ pc' = "observed"
      /\ UNCHANGED <<contract, turn, pending, edited, wallet, crashes, history>>

\* Validated once more, then result.json.
SavePrepared ==
  LET i == pending.attempt
  IN  /\ pc = "validating"
      /\ IF InputsHold(i)
         THEN attempts' = [attempts EXCEPT ![i].result = TRUE] /\ pc' = "prepared"
         ELSE Fail(i, "owner_failed", TRUE) /\ pc' = "observed"
      /\ UNCHANGED <<contract, turn, pending, edited, wallet, crashes, history>>

SavePreparedObservation ==
  /\ pc = "prepared"
  /\ attempts' = [attempts EXCEPT ![pending.attempt].seen = "ok"]
  /\ pc' = "observed"
  /\ UNCHANGED <<contract, turn, pending, edited, wallet, crashes, history>>

\* ---------------------------------------------------- execute_implementation

\* The session closes the attempt as failed; its call stays pending for good.
RaiseOut(i) ==
  /\ attempts' = [attempts EXCEPT ![i].status = "failed"]
  /\ pc' = "down"

\* execute_prepared compares the approval with the inputs, and saves it.
SaveExecutionInput ==
  LET i == pending.attempt
      p == attempts[i].of
  IN  /\ Handles("execute", "handling")
      /\ IF ~ pending.approved
         THEN attempts' = [attempts EXCEPT ![i].seen = "blocked"] /\ pc' = "observed"
         ELSE IF ~ Executable(p) THEN RaiseOut(i)
         ELSE attempts' = [attempts EXCEPT ![i].input = TRUE] /\ pc' = "bound"
      /\ UNCHANGED <<contract, turn, pending, edited, wallet, crashes, history>>

\* ... and compares the bytes again.
CheckApprovedBytes ==
  LET i == pending.attempt
  IN  /\ pc = "bound"
      /\ IF Unchanged(attempts[i].of) THEN UNCHANGED attempts /\ pc' = "checked" ELSE RaiseOut(i)
      /\ UNCHANGED <<contract, turn, pending, edited, wallet, crashes, history>>

\* The process owner resolves the approved snapshot once more; its refusal is
\* an observation without a record.
ResolveSnapshot ==
  LET i == pending.attempt
  IN  /\ pc = "checked"
      /\ IF Unchanged(attempts[i].of)
         THEN UNCHANGED attempts /\ pc' = "admitted"
         ELSE attempts' = [attempts EXCEPT ![i].seen = "blocked"] /\ pc' = "observed"
      /\ UNCHANGED <<contract, turn, pending, edited, wallet, crashes, history>>

\* run_process: reserve one process and start the command.  One is left: the
\* preparation asked for it, and no other work runs.
LaunchCommand ==
  LET i == pending.attempt
  IN  /\ pc = "admitted" /\ wallet.processes >= 1
      /\ attempts' = [attempts EXCEPT ![i].receipt = "open", ![i].account = "open"]
      /\ wallet' = [wallet EXCEPT !.processes = @ - 1]
      /\ history' = [history EXCEPT !.launched[i] = @ + 1,
                       !.altered = IF Unchanged(attempts[i].of) THEN @ ELSE @ \cup {i}]
      /\ pc' = "running"
      /\ UNCHANGED <<contract, turn, pending, edited, crashes>>

CommandEnds(exit) ==
  LET i == pending.attempt
  IN  /\ pc = "running"
      /\ attempts' = [attempts EXCEPT ![i].receipt = exit, ![i].account = "settled"]
      /\ pc' = "exited"
      /\ UNCHANGED <<contract, turn, pending, edited, wallet, crashes, history>>

\* Mutant: the inputs are not compared again once the outputs are bound.
BindOutputsOnly ==
  LET i == pending.attempt
  IN  /\ pc = "exited"
      /\ attempts' = [attempts EXCEPT ![i].bound =
           IF @ = None /\ attempts[i].receipt = "outputs" THEN "bound" ELSE None]
      /\ pc' = "recording"
      /\ UNCHANGED <<contract, turn, pending, edited, wallet, crashes, history>>

\* _run binds what a command that exited with 0 has produced: outputs first,
\* then the inputs once more.
BindOutputs ==
  LET i == pending.attempt
      bound == IF attempts[i].receipt = "no_outputs" THEN "outputs"
               ELSE IF attempts[i].receipt # "outputs" THEN None
               ELSE IF Unchanged(attempts[i].of) THEN "bound" ELSE "inputs"
  IN  /\ pc = "exited"
      /\ attempts' = [attempts EXCEPT ![i].bound = bound]
      /\ pc' = "recording"
      /\ UNCHANGED <<contract, turn, pending, edited, wallet, crashes, history>>

\* The status execute_prepared derives from the closed receipt.
StatusOf(i, recovering) ==
  IF attempts[i].bound = "inputs" THEN "changed_inputs"
  ELSE IF attempts[i].bound = "outputs" THEN "missing_outputs"
  ELSE IF recovering THEN "unbound_outputs_after_interruption"
  ELSE IF attempts[i].bound = "bound" THEN "run_succeeded" ELSE "process_failed"

SaveExecution ==
  LET i == pending.attempt
  IN  /\ pc = "recording"
      /\ attempts' = [attempts EXCEPT ![i].record = StatusOf(i, FALSE)]
      /\ pc' = "executed"
      /\ UNCHANGED <<contract, turn, pending, edited, wallet, crashes, history>>

\* native_result.json; after a recovery it is only compared.
SaveExecutionObservation ==
  /\ pc = "executed"
  /\ attempts' = [attempts EXCEPT ![pending.attempt].seen = "record"]
  /\ pc' = "observed"
  /\ UNCHANGED <<contract, turn, pending, edited, wallet, crashes, history>>

\* The attempt is committed and its observation accepted into the turn.
Accept ==
  LET i == pending.attempt
  IN  /\ pc = "observed"
      /\ attempts' = IF attempts[i].status = "interrupted" THEN attempts
                     ELSE [attempts EXCEPT ![i].status = "completed"]
      /\ turn' = [turn EXCEPT !.queued = FALSE, !.done = i]
      /\ pending' = NoPending
      /\ pc' = "loop"
      /\ UNCHANGED <<contract, edited, wallet, crashes, history>>

\* -------------------------------------------------------------- recovery

\* _attempt meets a pending attempt that an earlier process began.
Recovers(tool) == AtCall(tool) /\ attempts[pending.attempt].status = "running"

\* can_reconcile: result.json is there.  The diagnosis, the candidate and the
\* inputs are verified, and nothing is generated.
RecoverPreparation ==
  LET i == pending.attempt
      refusal == IF attempts[i].of = NoId THEN None ELSE RepairRefusal(attempts[i].of)
  IN  /\ Recovers("prepare")
      /\ attempts[i].seen = None /\ attempts[i].result
      /\ IF refusal # None \/ ~ Unchanged(i) THEN Fail(i, "owner_failed", TRUE)
         ELSE attempts' = [attempts EXCEPT ![i].seen = "ok"]
      /\ pc' = "observed"
      /\ UNCHANGED <<contract, turn, pending, edited, wallet, crashes, history>>

\* A saved observation of a preparation is taken as it is, and a confirmed
\* interruption is given one.
AdoptObservation ==
  LET i == pending.attempt
  IN  /\ \/ Recovers("prepare") /\ attempts[i].seen # None /\ UNCHANGED attempts
         \/ /\ pc = "loop" /\ i # NoId /\ attempts[i].status = "interrupted"
            /\ attempts' = [attempts EXCEPT ![i].seen = IF @ = None THEN "interrupted" ELSE @]
      /\ pc' = "observed"
      /\ UNCHANGED <<contract, turn, pending, edited, wallet, crashes, history>>

\* can_reconcile: the record, or a closed receipt; or native_result.json is
\* there already.  execute_prepared runs again and raises if the bytes are not
\* those of its approval.  A record is otherwise only read, ...
RecoverExecution ==
  LET i == pending.attempt
  IN  /\ Recovers("execute")
      /\ attempts[i].record # None \/ attempts[i].receipt \in Exits \/ attempts[i].seen # None
      /\ pc' = IF attempts[i].record \notin {None, "run_succeeded"} THEN "executed"
               ELSE IF ~ pending.approved \/ ~ Unchanged(attempts[i].of) THEN "down"
               ELSE IF attempts[i].record # None THEN "executed"
               ELSE IF attempts[i].seen # None THEN "observed" ELSE "settling"
      /\ UNCHANGED <<contract, attempts, turn, pending, edited, wallet, crashes, history>>

\* ... and a closed receipt that was not recorded never certifies an output: it
\* is refused if a successful exit was not bound, or by the snapshot.
RecoverReceipt ==
  LET i == pending.attempt
      unbound == attempts[i].bound = None /\ attempts[i].receipt \in {"outputs", "no_outputs"}
  IN  /\ pc = "settling"
      /\ IF unbound \/ ~ Unchanged(attempts[i].of)
         THEN attempts' = [attempts EXCEPT ![i].seen = "blocked"] /\ pc' = "observed"
         ELSE attempts' = [attempts EXCEPT ![i].record = StatusOf(i, TRUE)] /\ pc' = "executed"
      /\ UNCHANGED <<contract, turn, pending, edited, wallet, crashes, history>>

\* Nothing durable, or a handler that raised: the run is paused for the user.
NoDurableResult ==
  LET i == pending.attempt
  IN  /\ pc = "loop" /\ i # NoId
      /\ \/ attempts[i].status = "failed"
         \/ Recovers("prepare") /\ attempts[i].seen = None /\ ~ attempts[i].result
         \/ /\ Recovers("execute") /\ attempts[i].seen = None
            /\ attempts[i].record = None /\ attempts[i].receipt \notin Exits
      /\ pc' = "down"
      /\ UNCHANGED <<contract, attempts, turn, pending, edited, wallet, crashes, history>>

\* ------------------------------------------------------------------ users

\* A stop that no grant answers returns at once.
Resume ==
  /\ pc = "down"
  /\ pending # NoPending \/ turn.call.stop = None \/ CanResumeStop
  /\ pc' = "loop"
  /\ UNCHANGED <<contract, attempts, turn, pending, edited, wallet, crashes, history>>

\* recover_interrupted: the user confirms that the attempt was cut off; its
\* reservation stays.
ConfirmInterruption ==
  LET i == pending.attempt
  IN  /\ pc = "down" /\ i # NoId
      /\ attempts[i].status = "running"
      /\ attempts' = [attempts EXCEPT ![i].status = "interrupted"]
      /\ UNCHANGED <<contract, turn, pending, edited, wallet, pc, crashes, history>>

\* _authorize_resources: no attempt runs and nothing is open but the bounded
\* charge of a closed model call.
Grant ==
  /\ pc = "down" /\ wallet.grants < MaxGrants
  /\ \A i \in Ids : attempts[i].status # "running" /\ attempts[i].account # "open"
                    /\ (attempts[i].account = "unknown" => attempts[i].tool = "prepare")
  /\ wallet' = [requests |-> Granted.requests, processes |-> Granted.processes,
                attempts |-> wallet.attempts + 10 * Granted.requests, grants |-> wallet.grants + 1]
  /\ UNCHANGED <<contract, attempts, turn, pending, edited, pc, crashes, history>>

Edit(file) ==
  /\ Cardinality(edited) < MaxEdits
  /\ file \notin edited
  /\ file \in Ids => attempts[file].candidate
  /\ pc # "returned"
  /\ edited' = edited \cup {file}
  /\ UNCHANGED <<contract, attempts, turn, pending, wallet, pc, crashes, history>>

Crash ==
  /\ pc \notin {"down", "returned"} /\ crashes < MaxCrashes
  /\ pc' = "down" /\ crashes' = crashes + 1
  /\ UNCHANGED <<contract, attempts, turn, pending, edited, wallet, history>>

\* The coordinator's turn asks for complete work.
Init ==
  /\ contract \in {"shared", "ceiling"}
  /\ attempts = [i \in Ids |-> NoAttempt]
  /\ turn = [call |-> Call("prepare", NoId), queued |-> TRUE, source |-> NoId, done |-> NoId,
             known |-> 0]
  /\ pending = NoPending /\ edited = {} /\ pc = "loop" /\ crashes = 0
  /\ wallet \in [requests : Requests, processes : Processes, attempts : Attempts, grants : {0}]
  /\ history = [paid |-> [i \in Ids |-> 0], launched |-> [i \in Ids |-> 0], altered |-> {}]

Prepare ==
  \/ StartPreparation \/ SendDecision \/ NoRequestLeft
  \/ \E kind \in {"read", "candidate", "unusable", "lost"} : Answer(kind)
  \/ PublishCandidate \/ SavePrepared \/ SavePreparedObservation

Execute ==
  \/ SaveExecutionInput \/ CheckApprovedBytes \/ ResolveSnapshot \/ LaunchCommand
  \/ \E exit \in Exits : CommandEnds(exit)
  \/ BindOutputs \/ SaveExecution \/ SaveExecutionObservation

Recover == RecoverPreparation \/ AdoptObservation \/ RecoverExecution \/ RecoverReceipt
           \/ NoDurableResult

Next ==
  \/ Continue \/ ResumeStop \/ TakeCall \/ ReserveCompletion
  \/ \E given \in BOOLEAN : AskApproval(given)
  \/ BeginPreparation \/ BeginExecution \/ Prepare \/ Execute \/ Accept \/ Recover
  \/ Resume \/ ConfirmInterruption \/ Grant \/ Crash
  \/ \E file \in {Material} \cup Ids : Edit(file)

Spec == Init /\ [][Next]_vars

\* ------------------------------------------------------------- properties

Steps == {"loop", "down", "returned", "handling", "deciding", "sent", "publishing", "validating",
          "prepared", "bound", "checked", "admitted", "running", "exited", "recording",
          "executed", "settling", "observed"}

TypeOK ==
  /\ contract \in {"shared", "ceiling"}
  /\ attempts \in [Ids -> Attempt]
  /\ turn \in [call : Action, queued : BOOLEAN, source : Ids \cup {NoId}, done : Ids \cup {NoId},
              known : Nat]
  /\ pending \in [attempt : Ids \cup {NoId}, approved : BOOLEAN]
  /\ edited \subseteq {Material} \cup Ids
  /\ wallet \in [requests : Nat, processes : Nat, attempts : Nat, grants : Nat]
  /\ pc \in Steps /\ crashes \in Nat
  /\ history \in [paid : [Ids -> Nat], launched : [Ids -> Nat], altered : SUBSET Ids]

Succeeded == {i \in Ids : attempts[i].record = "run_succeeded"}

\* An execution recorded as successful (candidate_execution.json) was started
\* once, ran on exactly the bytes that were shown for approval, whoever edited
\* what between the checks, and ended with its declared outputs; no recovery
\* makes a success of a run whose outputs were not bound when it ended.
CertifiedRanAsApproved ==
  \A i \in Succeeded : /\ history.launched[i] = 1 /\ i \notin history.altered
                       /\ attempts[i].receipt = "outputs"

\* What a paid preparation repairs is a failure that really happened to the
\* approved bytes and is settled in the ledger; the chain of repairs stays
\* within max_repairs, and under a shared contract no failure is repaired that
\* repeats the one before it.  This must also hold for a call that was
\* proposed, and is run after a crash, a grant or an edit.
RepairsAreJustified ==
  \A i \in Ids :
    (attempts[i].tool = "prepare" /\ attempts[i].of # NoId /\ history.paid[i] > 0) =>
      LET d == attempts[i].of
      IN  /\ d \notin history.altered /\ history.launched[d] = 1
          /\ attempts[d].receipt \in {"no_outputs", "error_a", "error_b"}
          /\ attempts[d].account = "settled"
          /\ contract = "ceiling" => Cardinality({j \in Ids : attempts[j].tool = "prepare" /\ j < i /\ attempts[j].of # NoId
                                                             /\ history.paid[j] > 0}) < MaxRepairs
          /\ contract = "shared" => ~ Stagnated(d)

\* No work is bought twice, over crashes, recoveries and grants: a diagnosis
\* (or the first request) has one preparation that asked the model, and a
\* candidate is started once.
NothingIsReplayed ==
  /\ \A i, j \in {k \in Ids : attempts[k].tool = "prepare" /\ history.paid[k] > 0} :
       attempts[i].of = attempts[j].of => i = j
  /\ \A i, j \in {k \in Ids : attempts[k].tool = "execute" /\ history.launched[k] > 0} :
       attempts[i].of = attempts[j].of => i = j
  /\ \A i \in Ids : history.launched[i] <= 1 /\ history.paid[i] <= MaxDecisions
=============================================================================
