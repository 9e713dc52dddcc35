# Formal models of SimpleAutoResearch

TLA+ modules for the parts of SimpleAutoResearch that keep durable state:
which calls were paid for, which attempts were made, what a crashed process
left behind and what the next one may do with it. Paths are relative to the
repository; `core/...`, `app/...`, `tools/...`, `code_task/...`, `research/...`
and `integrations/...` stand for the directories under `src/simple_ar/`.

## The system

A *session directory* holds one task. Two applications run tasks: the
`ToolApplication` asks a model for the next tool calls, gets approval where a
call needs authority and executes each call as an *attempt* of a
`SessionController`; the older `ResearchApplication` runs the steps of an
accepted plan as attempts of the same controller. Both pay for model requests,
tokens and processes through a `BudgetLedger`. Everything is kept in JSON files
written atomically (a temporary file and a rename, `core/artifacts.py:50-83`),
so a process may stop between any two writes but not within one. There is no
server: another process (a CLI command, the UI's worker) may open the same
directory at any time, and the only mutual exclusion is a non-blocking OS file
lock.

| component | state | operations | hard behaviour |
|---|---|---|---|
| ledger, `core/budget.py` | limits, entries in insertion order, file; floors in memory | reserve, settle, release, mark_unknown, authorize_remaining, protect_remaining, load | concurrent callers, calls of unknown cost, allowances opened over earlier use, failed writes, restart |
| session, `core/session.py` with `locking.py`, `capabilities.py` | session manifest, attempt directories, file lock, a copy per controller | create, load, allocate_attempt_id, execute_attempt, reconcile_attempt, recover_interrupted, pause, complete, continue_with_revision | several processes, crash between any two writes, exceptions that leave a changed copy, stale copies |
| tool application, `app/tool_application.py` | `actions.json` (turns, pending operation, approvals, supply journal), delivery, over session and ledger | run, supply, switch_model, terminal commit | crash or interrupt inside an operation, replayed approval, files changed meanwhile, supply applied once, two processes |
| research application, `app/research_application.py` | current refs, accepted plan, decision, inputs, over the session | advance, continue_session, request_report, request_reanalysis, recover_interrupted_attempt | revisions that make kept work stale, decisions that outlive their subject, crash between result and record |
| code task, `code_task/`, `research/implementation.py` | manifest, artifacts, source files, validator receipt | plan, propose, apply, review, validate, run, repair, resume | half written patches, lost paid answers, resumed calls |
| model client, `integrations/llm.py` | one request, its reservations | ask with retries, modes and reconciliation | an attempt whose use is unknown |
| process runner, `core/process.py` | one child, drain threads, receipt | run_process | timeout against exit, output after the kill, interrupt, charge |
| implementation work, `tools/implementation*.py` | none of its own: attempt directories, candidates, receipts, turns and ledger | prepare, execute, repair, stop, resume after a grant | bytes edited between approval and run, repairs proposed before a crash, budget that runs out between two calls |
| gateway and permissions, `tools/` | registry, grants | call | scope of an approval |
| workspace tools, `tools/workspace.py`, `tools/publication.py` | mounted files, receipts of commands, requests and results of exports | run with declared inputs and outputs, check the producers, export, reconcile | files changed by anybody at any time, producers of producers, equal clock readings, crash before the outputs are bound |
| report, literature, analysis, UI, CLI, legacy | documents | | mostly data |

What makes each correct:

* the ledger never lets known and possible use pass the allowance, never
  forgets a call whose cost it does not know, and writes a finished call once;
* the session opens one attempt at a time, never repeats a handler, counts
  each attempt once, loses no update, and can always be recovered;
* the tool application repeats nothing that may have had effects, applies each
  supply once, and lets an approval stand for exactly what was approved (a command
  it could not ask about is the exception under *Other observations*);
* the research application keeps work only while its inputs stand, measures
  nothing twice, and passes no decision of the user that is still open;
* implementation work runs a candidate only as it was approved, certifies no
  output it did not see bound, repairs only what really failed and is settled,
  and buys nothing twice;
* a declared command succeeds only for the files it read and left, and a
  publication shows the approved text and figures, none of them out of date;
* a code task runs whole, reviewed patches only and asks for no paid answer
  again; nothing is sent while the use of an earlier request has no bound.

`PROJECT.json` lists every component, the hazards at their lines and the
properties that cover them.

## Modules

**`BudgetAllowance`** states, per resource dimension, what the ledger promises
to everyone who pays through it: what is admitted (`Hold`), what the end of a
call may do (`Resolve`, `Lose`), what a new grant resets (`Renew`).

**`BudgetLedger`** is `core/budget.py`: `mem` is the object, `disk` its file.
`entries` and `order` together are Python's insertion ordered dict, on which
`_allowance_entries` depends. One lock covers a mutation and its write, so
they are one action; with `WritesFail` the write may raise after the object
changed (`_persist_unlocked` comes last in every method). `Restart` loads the
file. Allowances, committed, reserved and available amounts are computed as the
code computes them. Amounts are naturals; the code also admits floats, which
only enter sums and comparisons here. `validate_remaining`, `snapshot` and the
like change nothing and are not actions; a repeated settle with equal amounts
is a stutter.

**`Session`** is `core/session.py` at the granularity of one file write per
step: `session` is `session_manifest.json`, `attempts[i]` the directory of one
attempt (its manifest's status and parent, its result), `lock` the OS lock,
`mem[p]` and `saved[p]` the controller's `manifest` and `_saved_manifest`, and
`pc[p]` how far its mutation has come:

| step | code | file written |
|---|---|---|
| `BeginAttempt` | 865-899 | attempt manifest, *created* |
| `MarkRunning` | 900-901 | attempt manifest, *running* |
| `StartHandler` | 902-904 | session manifest |
| `HandlerEnds` | 904-930 | capability result |
| `RecordOutcome` | 1039-1061 | capability result again if its outputs are missing |
| `IndexOutcome` | 1062-1091 | attempt manifest, closed |
| `CommitSession` | 1092 | session manifest |

`ReconcileAttempt` and `RecoverInterrupted` enter the same commit. `Crash`
may come at any point and frees the lock; `Abort` is an exception that leaves
the mutation while the controller lives on with the copy as it is (`Reuse`).
`Load` reads without the lock, as the code does. `AuthorizeAdditional` and
`ApplicationStatus` are what `ToolApplication` does to the manifest directly.
Attempt numbers are shared by all capabilities, so the slug of an id is left
out; `updated_at` is left out of the freshness comparison, which lets the model
accept a copy that the code would accept only within one second. The model
therefore has at least the code's behaviours.

**`ToolApplication`** is `run()` and what it calls. `journal` is
`actions.json` (turns with their calls, observations and what is left, the
pending operation, approvals, the confirmed interruption), `session` the
manifest's part the application reads, `attempts` the attempt directories with
the native result (`reply` or `seen`) the application saves before the
capability result, `delivery` the committed delivery and `version` the content
of the workspace. Of some versions (`Incomplete`) a file the command declares is
missing: `approval_token` raises, and the command is dispatched without a
question (`GateHasNoToken`, 4431-4440) to a handler that compares nothing where
no approval was saved (3191-3195). `pc` is where the process is inside `run`; *down* is between
runs, when the user resumes, answers, gives feedback (`GiveFeedback`), submits a
batch (`Submit`), retries a failed decision, confirms an interruption, or edits
files (which anybody may also do between the steps of a run). The attempt of a
decision or call goes through the session's steps as
the code does (allocated, directory, running, native result, result, closed,
counted), other session operations are one step. A call is a *read* (or was
never admitted), a *write*, an *exec* (`run_process`, which needs approval), or
one of the three ends of a request. Crashes and keyboard interrupts may fall
between any two steps.

**`TaskTerms`** is what a caller changes between runs: `supply()`,
`run(resource_allowances=...)` and `switch_model()`, each of which writes
`actions.json`, `session_manifest.json` and the ledger in turn. Processes load
the three files one by one without the lock, keep copies, and may be overtaken;
a run spends attempts and requests. The lock lets a process in whose copy equals
the manifest on disk (`core/session.py:481-483`). A save of changed content
(status, revision, attempts, ids) outdates every other copy (`SaveManifest`); a
save in which only `updated_at` may change outdates them or, within the second of
the save before it (50-51), does not (`SaveAgain`, a choice). No content comes
back later: `continue_with_revision` counts a revision (839) and ids and attempts
only grow. Reserve and settle are one step.

**`LlmCall`** is one request through `_request_with_retry`: reservation,
sending, the end of the physical attempt (`Ends`, what the exceptions
distinguish), reconciliation of the reservation, and the decision to send
again, in the other API mode or without the native format. The ledger is seen
by its owner: settled purposes, an open reservation, doubts with a bound kept
or without any. **`CodeTask`** extends it: `workspace` gives every file as the
sequence of proposals applied to it, `manifest` and `disk` are the run
directory's files, `work` the locals of the running call. `Stop` kills the
process between two writes, `Resume` is the gate
`implementation_resume_allowed` and the call from the start.

**`Research`** is `advance()` and `continue_session()`. `m` is the session
manifest with `refs` (the current result of every step), the accepted plan, the
decision and the revision counters of the inputs; `attempts` are the attempt
directories in order with the inputs and sources their results were made from.

| step | code | what it stands for |
|---|---|---|
| `Reconcile` | 4381-4465 | takes up a result that was written, or not recorded |
| `Ask`, `PauseAsked` | 4632-4747 | a checkpoint's decision is saved, then the pause |
| `Begin`, `Enter`, `Handle`, `Commit`, `Record` | 2638-2693, `core/session.py:890-930` | one action of the plan |
| `Finish` | 3793-3830 | completes, or pauses at a decision or missing output |
| `Accept`, `Reject`, `ReplyRevise`, `Revise`, `Replay`, `Resume` | 431-804 | the caller's continuation, up to the saved reply |
| `Reopen`, `Apply` | 805-868, 4171-4371 | the session is reopened, then inputs, plan and refs change in one save |
| `RefreshReport`, `Reanalyze` | 996-1097 | the two continuations without a revision of the brief |

*read* stands for search, ingestion and reading, *design* for synthesis,
assessment and design, *implementation* includes its preparation, *report* is
writing, assembly and audit. A revision is one of the kinds
`_invalidate_revised_inputs` tells apart; *protocol* is a change of the
execution settings the measured baseline still matches, *setup* one it does
not. There is one follow-up round. *checkpoints* mode confirms the same as
*assisted* here, because the follow-up is a candidate revision. A replay repeats
a saved revision that was not applied and not overtaken by other inputs; the
replay of an acceptance or refusal is `Resume`. Recovery and the
reconciliation's commit and record are one step each.

**`ImplementationWork`** is one request for complete work
(`prepare_implementation` and `execute_implementation`), from the request
through candidate, approval and execution to repairs. The owner keeps nothing
in memory between two calls: `continuation` reads what the files prove and
derives the next call or a stop, and so do the operators of the model.
`attempts[i]` is `attempts/<i>/` with `request.json` (*read*), the candidate,
`result.json`, `execution_input.json`, the process receipt and its output
binding, `candidate_execution.json` (*record*) and `native_result.json`
(*seen*), and the attempt's account in the ledger; `turn` and `pending` are the
journal's, `edited` the files the user changed since they were recorded.

| action | code | what it stands for |
|---|---|---|
| `Continue`, `ResumeStop` | `tool_application.py:1832-1912` | the owner's next call or stop, journalled as a turn |
| `TakeCall`, `ReserveCompletion` | 4342-4398 | the call becomes pending, or is given up for want of attempts |
| `AskApproval`, `BeginPreparation`, `BeginExecution` | 4416-4453, 3766-3780 | approval bound to the bytes as they are, then dispatch |
| `StartPreparation` to `SavePreparedObservation` | `implementation_work.py:79-255` | diagnosis verified, decisions paid, candidate published |
| `SaveExecutionInput` to `SaveExecutionObservation` | `implementation_run.py:291-407`, `workspace.py:1227-1274` | three comparisons of the bytes, the command, output binding, record |
| `RecoverPreparation`, `RecoverExecution`, `RecoverReceipt`, `AdoptObservation`, `NoDurableResult` | `tool_application.py:3713-3777` | what a later process makes of a pending attempt |
| `ConfirmInterruption`, `Grant`, `Edit`, `Crash` | user and system | between any two steps, as the guards allow |

`history` is auxiliary: decisions paid, launches, and launches of bytes other
than the approved ones, which no file records.

**`Workspace`** is what ties a file to the command that made it. A command may
declare files it reads and writes; its receipt pins their hashes before and
after. An export refuses what such receipts show to be out of date, through any
number of commands (`check_artifact_producers`). `file` are the mounted files,
`receipts` the receipts in the order of their launches, which the code has to
infer from `time`; `open` is the attempt in progress and `export` the files of
the publication.

| action | code | what it stands for |
|---|---|---|
| `RunBinds`, `RunLaunches`, `RunIsRefused`, `RunEnds` | `workspace.py:587-614`, 1252-1256 | inputs hashed; receipt with the time; the command; its return code |
| `RunHashesOutputs`, `RunIsBound` | 1257-1270 | outputs hashed, inputs compared again, receipt rewritten |
| `RunIsAnswered` | `tool_application.py:3194-3207` | the observation is saved, with nothing compared again |
| `RunRecovers` | 500-513, 1227-1251 | what a later process makes of the receipt it finds, bound or not |
| `CheckProducer` | 625-681, 717-747 | one producer: receipt, inputs, outputs, then its inputs' producers |
| `ExportBinds`, `ExportIsRequested` | `publication.py:201-248` | authoring inputs hashed and checked, `request.json` |
| `RendererReadsBody`, `RendererValidates`, `RendererCopies` | `report/export.py:585-916`, `publication.py:275-283` | the text read, the images compared, the images read again |
| `ExportChecksAgain`, `ExportCompares`, `ExportIsPinned`, `ExportIsSaved` | 298-363 | producers from an empty cache, inputs once more, `result.json` with the hashes of the project, or their comparison on a retry (`PinHolds`) |
| `ExportRecovers` | 138-144, 223-243 | the export called again with the manifest there is |
| `Edit`, `EditProject`, `Crash` | user and system | between any two steps |

What the code cannot know is kept in auxiliary fields: what a command really
read and left, and the files that were changed while no comparison could tell
(`back`, `moved`, `touched`, `excused`). The properties name them.

**`ProcessRun`** is one ledger-backed invocation of `core/process.py` on
POSIX. `sup` is where the calling thread is:

| `sup` | code | what can happen next |
|---|---|---|
| *idle* | 162-169 | `RunProcess` reserves, or is refused for a known id |
| *preflight* | 238-269 | first receipt, or failure before it |
| *starting* | 269-280 | `Launch`, or `LaunchFails` |
| *launched* | 294-322 | receipt *running* and both drain threads, or the except block |
| *supervising*, *checking* | 308-318 | poll, then output error, cancel, timeout in that order |
| *closing*, *joining* | 323-343 | kill and wait, join each thread, either may time out |
| *finishing* | 344-365 | the closed receipt |
| *settling* | 186 | settle at the measured seconds |
| *failed* | 173-185 | the receipt decides: release, settle or mark unknown |

`receipt` is `invocation.json`; `reader`, `written` and `seen` count chunks
through the two pipes. The child, its descendant (in the process group or
escaped from it), the readers, the canceller and the clock move independently.
The charge is an entry of `BudgetLedger`, whose own actions `ProcessRun` calls
through an instance, so failing ledger writes and restarts are those of that
module. An interrupt may come at any step of the call up to the except block of
`run_process`; a second one inside that block is not modelled and would leave
the charge as a crash does. `Recover` is what `workspace._run` does with a
closed receipt. The ledger's limits are left to its own runs. Tail and log
caps, decoding and the Windows job object are left out; a directory shared by
two invocations, whose receipt names the other one, counts as no receipt, as in
the code.

The modules `MC...` give the constants small values; `BudgetLedgerProofs`,
`SessionProofs`, `ProcessRunProofs`, `ToolApplicationProofs`, `CodeTaskProofs`,
`ImplementationWorkProofs`, `WorkspaceProofs` and `ResearchProofs` hold the
theorems; those about `TaskTerms` are in `BudgetLedgerProofs`, which extends
both modules.

## Runs

| run | question | bounds |
|---|---|---|
| `ledger` | does the ledger keep `BudgetAllowance`, count calls in flight, protect floors, keep what is finished? | 3 ids (symmetric) in 3 dimensions, one of them unlimited, 2 request shapes, 4 actual uses (one an overrun, two partial), 2 grants, 1 floor |
| `session` | two processes, crashes anywhere | 2 attempts, 1 revision, two outcomes whose progress fact contradicts their status |
| `session_recovery` | controllers reused after exceptions, recovery, authorization | 1 process, 2 attempts, 1 authorization, 3 outcomes |
| `process` | what may charge and receipt of an invocation say, and does the call end? | 2 streams of 1 chunk, measured times below and above the timeout, failing writes, 1 crash |
| `application` | what do journal, attempts, session, delivery and workspace say about each other, and does every run return? | 6 call ids, 3 attempts, 2 turns, 2 requests, 1 submitted batch, 1 crash or interrupt, 2 versions of the workspace with the declared inputs and one without |
| `terms` | is each supply applied once, and does no run start on half of one? | 2 processes, 2 supplies, 1 continuation, 1 switch, 1 attempt and 1 request to begin with, 1 crash |
| `code_task` | does a task apply whole patches only, ask nothing twice, send nothing uncovered? | 2 files, 2 attempts per request and 3 per connection, 2 repairs, 1 resumed call; connections without a cap, streaming in either mode, with and without a limit, and a capped one |
| `research` | does kept work stand, is nothing measured twice, does the user decide, does an interruption settle? | both modes, all six kinds of revision, 12 attempts, 3 upsets (revisions, failed attempts and kills together) |
| `implementation_work` | does a success mean what was approved, is every repair justified, is nothing replayed? | 5 attempts, both repair contracts, 1 repair under the ceiling, 2 decisions per preparation, 2 edits, 2 crashes, 1 grant; 4 or 8 attempts, 2 or 5 requests and 1 or 3 processes to begin with |
| `workspace` | is what is published fresh and as approved, and is a success genuine? | data, table, figure and text, 2 versions of each, a command that makes the table and one that draws the figure, 2 launches of either, 2 clock readings, 2 edits, 1 crash, 1 export after the commands |
| `session_stuck`, `research_revised` | a statement of the docs or of a docstring that the code does not keep | as above |

Three ids are enough for the ledger to have an entry before a grant, the grant
and an entry after it, and two calls to compete for the same room. Two attempts
and two processes are the smallest instance in which one process recovers an
attempt of another, starts a second and meets a stale copy; the invariants of
`Session` are also proved for every number of both.

One chunk per stream is enough for output left in a pipe at the kill, and one
crash for every point at which the next process can find receipt and ledger.

Three attempts and two requests let `application` decide, execute, and decide
again; the replies hold one batch of each shape (an approved process with the
delivery, a write with a read, a partial delivery, a question), so a batch can be
cut after its first call. Two versions make a file
edited while an approval waits, the third one that is missing at the gate and
there again, in either version, before the launch. In `terms` both supplies can be in progress in different
processes, which is when one of them works from stale copies. In `code_task`
two files are what a half written patch needs, two repairs are what reusing a
repair's answers needs. In `research` a full course with a follow-up round
takes eight attempts; three upsets are a revision of a revision with one more
failure, and twelve attempts leave room to redo what they make stale. In
`implementation_work` five attempts are a preparation, its execution, a repair,
its execution and the second repair that both contracts may refuse; the two
amounts of each resource make it run out before, inside and after a
preparation, and two edits reach both the material and a candidate.
In `workspace` data, table and figure are the shortest chain in which a direct
check sees nothing; two launches tie on the clock, repeat one command or make
the chain; two edits change a file and put it back.

Two runs compare states by a view (`Seen` in their `MC` module), which leaves out
what no step reads any more: in `application` the tokens shown of a proposal that
is answered for and what of its inputs was recorded for `StartedAsShown`, which is
checked when they come about; in `terms` a copy that is no longer taken for the
files, until it is loaded again.

The ledger's failing writes are exercised in `process`, where the ledger is the
instance the charge lives in. What is proved and not itself about a hazard of
those runs is not repeated there: the type invariants of the ledger, the session,
the code task, the implementation work and the workspace, `FileFollowsMemory`,
`LineageIsRooted` and `OutcomeIsKept`.

## Fairness

`ProcessRun`, for `CallEnds`: the calling thread is scheduled (weak fairness of
`Supervise`, whose every step is a bounded wait in the code: a 0.05 s poll,
`wait(timeout=5)`, `join(timeout=5)`) and the clock advances (`TimerExpires`).
Nothing is assumed of the child, its descendant, the drain threads or the
callback. That the call ends although none of them does anything is the point
of the property.

`ToolApplication`, for `RunEnds`: weak fairness of `Program`, the steps of the
process inside `run()`. The model is asked synchronously and tools run
synchronously, each under a timeout of its own (`CallEnds` is that of a
process), and a user who is asked for an approval answers it; so a step that is
enabled is taken unless the process dies. Nothing is assumed of the user between
runs or of crashes.

All other properties are safety properties and assume nothing.

## What the violations show

* `session_stuck`: an attempt is closed by its manifest (`core/session.py:1063`)
  before it is counted (1092). Reconciling such an attempt, with the budget
  exhausted and another attempt open, makes the session *blocked*:
  `recover_interrupted` refuses a blocked session and `continue_with_revision`
  refuses one with a running attempt.
* `research_revised`: a first revision removes what it makes stale and the plan
  with it (`app/research_application.py:4325`); a second revision finds no plan
  to walk and leaves the measurements of the old inputs in place, which the
  next plan takes as done.

`KeptWorkStands` says what holds instead in the passing run: whatever is kept
was made from the current inputs and sources, unless the state is one of the
named gaps of `Research`.

## Other observations

Met while modelling; the passing runs state their properties around them, and
no run of their own is spent on them. Each is a consequence of two writes that
are not one.

*Ledger.* A reservation whose write raised stays in the object, and a replay of
its id is granted from there (`core/budget.py:210-216`); the file does not know
it. After a crash between a process reservation (`core/process.py:165`) and its
closed receipt nothing resolves the reservation: a repeated invocation is
refused, and `workspace._run` settles only a closed receipt.

*Session.* Between 1063 and 1092 an attempt is neither running nor counted, so
after a crash there `max_attempts` handlers may still start (1100 against 444).
`ToolApplication._attempt` reconciles its pending attempt before anything else
and so avoids this. Reconciling such an attempt after the session completed
makes it *running* without a revision (1083 against 816).

*Tool application.* A command whose declared input is missing when its token is
computed has no token (`app/tool_application.py:4431-4440`). It is dispatched
without a question, to be refused by the tool that looks for the same input. If
the input appears in between, nothing refuses it: `_tool` compares a token only
where an approval was saved (3191-3195), `workspace._run` binds the inputs anew
(`tools/workspace.py:1252`) and the process starts, although "They cannot
authorize execution" (4435-4437) and "each command still requires approval"
(`README.md:107`, `docs/USAGE.md:121`). This is the exception of
`StartedAsShown`; without it TLC finds the run. Execution tools of a session
owner are not exposed: without a saved approval they answer *blocked* or *error*
(3169-3182). An approval of `export_report` is asked for at the same gate, but
3191 names `run_process` only, so nothing is compared again before the export
renders; what it binds then is the subject of `Workspace`.
A pending operation stays, and no command takes it further, when `new_attempt`
stops between the directory and the manifest, when a handler raises on an
approved call, or when a decision is confirmed as interrupted at the wrong
moment: `StuckOnlyThus` says these are the only ways. A
delivery with unresolved items is saved as completed and then as partial; a
crash in between leaves it completed. An interrupt between `turns.append` and
`pending=None` accepts the same reply twice.

*Implementation work.*

- `resume_after_budget` (`tools/implementation_work.py:697-757`) takes a
  preparation behind a `shared_budget_exhausted` stop for a refused one. If it
  succeeded, and only its execution could not be scheduled, a grant is answered
  by *owner_state_unresolved*.
- After a confirmed interruption of an attempt with a saved request or
  execution input, `stop_decision` finds no completed observation and raises
  out of `continuation`; every resume raises again until feedback opens a turn.
- The comment "Exit code alone cannot prove repeated identical errors" (618) is
  about an empty diagnostic, but `issues` is never empty for a failed execution,
  so two silent failures with the same exit code count as stagnated.
- `affordable_work` asks for one request, and the handler runs under a floor of
  one, so a preparation may be proposed that its handler refuses.
- A run that closed but was not recorded is never certified after a crash: before
  its outputs were bound it is refused, after that it is
  *unbound_outputs_after_interruption*. This is by design; `CertifiedRanAsApproved`
  is what it buys.

*Workspace.*

- The renderer reads the text without comparing it, and the images twice; only
  the comparison at the end sees a difference. A manuscript that is changed while
  it is rendered and put back in time is published with the changed text, under a
  `request.json` that names the other (`report/export.py:592`, `publication.py:302`).
- Without a report protocol (`report_source` is None) that last comparison is not
  made: a figure nobody declared, changed between its validation and its copy,
  is published.
- A command that ends with 0 and leaves a declared output as it was is recorded as
  its producer: the receipt binds bytes, not writes.

*Terms.* A process that loaded the files before a supply was journalled may run
while the supply is half applied, before anything of it was granted; charges in
its ledger copy overwrite those of the other. A switch answered as known by
replay is overwritten by such a process. So is a switch, or a supply without an
allowance or with one that was granted before, whose only save falls into the
second of the save before it: the manifest is the same text, a process with an
older copy is let in and writes its own `actions.json` (`core/session.py:50-51`,
481-483). `ReturnedStays` names this case (`exposed`); an allowance changes the
attempts in the manifest and is not exposed to it.
A continuation that is repeated after a stop may return without its allowance in
the ledger: the first call stops behind `authorize_remaining`; a process that
loaded the ledger before that runs, writes its own copy of it and stops as well;
the repeated call finds the allowance in the copy it loaded in between and writes
nothing (`core/budget.py:341-343`). Another repetition with a new copy repairs it.
This takes two stops, more than the run `terms` has, and was found when
`ReturnedStays` could not be proved; of a continuation the property therefore
promises the attempts only. A supply has no such gap: once something of it was
granted every process has to load again, finds it pending in the journal and
refuses to run (`app/tool_application.py:4223`).

*Code task.* A crash between the rewrite of the codebase index and the manifest
status *applied* applies insertions twice. The settled second request of one
purpose is asked again after a crash. From the second repair on the review of
the first is taken from its file, so later repairs are not reviewed.

*Research.*

- A crash in a second plan attempt whose result was written leaves a session
  `advance` raises on (4432-4437) and no other command accepts; a crash between
  `core/session.py:901` and 902 leaves a running attempt that is not current
  (against `docs/CLI_REFERENCE.md:280`). `InterruptionsSettle` names both
  (`Orphaned`).
- A reply is saved, the session reopened and the revision applied in three
  saves; after a crash between them only an exact replay applies it, a plain
  resume loses it (`docs/CLI_REFERENCE.md:313`, `docs/CONFIG_REFERENCE.md:360`).
  The exact replay of an applied revision of the brief is refused or applied again.
- After a revision of the protocol the new plan is a design checkpoint; a later
  revision of the question keeps the implementation. A revision of the
  execution settings after the follow-up keeps the first implementation.
- A revision of outputs or preferences while a protocol confirmation is pending
  leaves the confirmation unanswerable, and one during the follow-up drops its
  rows, so reports fall back to the earlier analysis.
- A changed protocol whose baseline is kept is not confirmed
  (`docs/CLI_REFERENCE.md:306`). Accepting a choice whose plan was popped raises.
- A plan attempt is repeated after a crash between its finalization and its
  adoption, and so is a failed audit of a report.

## Proofs

`BudgetLedgerProofs`, for all ids, dimensions, limits, requests, grants and
floors, with or without failing writes. The inductive invariant is `Sound(mem)`,
`Sound(disk)`, `Extends(disk, mem)` and `Scoped`. `Sound` says that an account
has the shape of one, that a grant has no call in flight before it, and that a
call in flight came after the last grant; that is what makes counting only the
current allowance safe (`InFlightStaysCounted`). `Extends` is needed because
`Restart` returns to the file: object and file can differ only by what the last
failed write lost (`FileStaysBehind`), and a finished call is the same in both
(`FinishedIsKept`).

The amounts are sums over the entries of the allowance in force
(`MapThenSumSet`). Their laws are proved here from the fold's definition: the
equation that defines the fold has exactly one solution on a finite set
(`AddsOnce`, `AddsSomewhere`), any element may be taken out of a sum
(`TotalWithout`) and sums of the same numbers are the same (`TotalSame`). In
place of an induction, which the provers cannot instantiate, each takes a least
set where the law would fail (`Minimal`, from the library's well-founded order
of finite sets). Then what a mutation does to the sums of one dimension
(`NewCounts`, `ClosedCounts`) makes every step one of five moves (`StepMoves`):
it changes nothing, admits an amount that is left over, ends a call, loses track
of one, or starts a new allowance. From the moves follow `LedgerStaysWithin`, in
the object and in the file, `ProtectedCapacityStays`, and, as long as writes
succeed, the refinement of `BudgetAllowance` (`LedgerKeepsThePromise`; a restart
from a file that missed a write goes back in time, which the promise has no step
for). `StaysWithinAllowance` and `UnknownUseHoldsBack` say what the promise is
worth by itself.

The last part of the module is about `TaskTerms`, for any processes, supplies,
continuations, switches, amounts and numbers of stops, from `TermsAssumption`.
`TermsInv` compares three files that are never written together, and the copies
of processes that may have been overtaken. It says what a copy has to be good for
when it is written over a file: a journal lacks nothing that was granted, allowed
or has returned (`Follows`), and a ledger has nothing the session does not know
and no supply the file lacks (`Backed`). This holds of the files and of the copy
of every process whose manifest is current (`CopyIs`), and of no other copy; it
is enough because whoever is inside a call owns the lock and is current
(`LockIs`), and because a step that adds to what was granted changes the content
of the manifest and so puts all other copies out of date (`OthersWatch`,
`OthersWait`). A step after which a call returns may leave older copies in: what
then returned is `exposed`, and the rest (`Lasting`) is in the journal of every
current copy. An allowance that returned is in the manifest, a supply's in the
ledger too, exposed or not. `AllowRequests`, which adds to the ledger alone,
can leave a current process with a ledger copy that lacks the allowance. If it
is a continuation's, that is the gap described under *Terms* above; a supply is
pending in the journal of every such process, which can only take it further
(`Follows`, `NothingMissing`). Attempts are the initial ones and the sum of what
is granted, by the laws of sums above (`GrantedOnce`). `TermsAgree`,
`WorkHasItsContracts` and `ReturnedIsKept` follow from the invariant state by
state.

`SessionProofs`, for all `Procs`, `MaxAttempt`, budgets, outcomes and both
values of `Reuse`, from `SessionAssumption` only:

1. `Typed` = `TypeOK`, `LiveCopies` (a process that is up has a copy) and
   `JobAtWork` (a process inside a mutation owns the lock, works from the
   current file, and its attempt is in the state its step brought it to).
   `TypeOK` alone is not inductive, since steps read the copy and the attempt.
   All lifecycle operations are first shown to be instances of one
   `LifecycleStep`, which keeps what the later invariants depend on.
2. `OneAttemptOpen` from `OpenInv`: nothing runs while a process is between
   creating its attempt and marking it.
3. `AttemptsAdvance`: how the files of one attempt may change in any step. From
   it `OutcomesKept`, `HandlersRunOnce` and the stability of recorded facts.
4. `NothingForgotten` from `CopiesInv`: a copy has everything its last saved
   file has; `IdsIssuedOnce` on top of it.
5. `LineageRooted`: an attempt that becomes listed names a parent listed
   before, so a set of attempts has a root among the older ones.
6. `AccountsExact` and `ProgressFactsKept` from `AccountInv`: the tally of
   every copy is right for the attempts it has recorded.

`ToolApplicationProofs`, for any batches of the model and of the caller, any
number of requests, decisions, submissions, attempts, stops and interrupts, from
`ApplicationAssumption` only (ids are enough for the attempts the bounds allow;
`None` is no call, observation or token). One inductive invariant carries all six
properties of the run. `TurnsFit` counts a turn's calls against its observations,
so the next call of the queue is the one that has no observation yet;
`OthersFit` closes and counts every attempt but the pending one, and
`PendingFits` says what that one may have saved in each status. `IdsCounted` is
an inequality: every id taken was recorded, is pending, or was lost to a stop, a
feedback or a retry in between, so the session never hands out an id that has a
directory. `JournalFits` gives every reply and observation an attempt of its
own, `Place` says what is on disk at each step of a run, and `EffectsFit` says
that an effect belongs to an accepted call or to the pending one, and then the
handler is past the point where it would start it again. `ShownFits` follows an
approval from the question to the start, and (`AskedFits`) a command that is on
its way to its handler without one back to a gate at which it had no token. The
steps that write the journal, those that write the pending attempt
(`AttemptMoves`) and those that write
neither (`Quiet`) are treated once each.

`CodeTaskProofs`, for all files, purposes, clients and bounds. The inductive
invariant has six parts: `Requests` (what the state of the current request says
of the ledger), `Typed`, `Numbers`, and for the control of the phases
`PlanControl`, `PatchControl` and `LoopControl`. `UncoveredIsNotSent` needs
`Requests` alone: when a request is at the point of sending, no doubt without a
bound is open. `TypesHold` needs all of it, since a phase reads what the one
before it wrote. `LostIsNotRepeated` follows from how the set of lost purposes
may change.

`ImplementationWorkProofs`, for any number of attempts, repairs, decisions,
edits, crashes and grants. `SuccessesRanAsApproved` is about a comparison that
is made after the run, with files anyone may have edited, so the invariant says
why that comparison tells what the command was started on (`Launches`): a run of
other bytes has a candidate that no longer matches, and stays that way, because
a request once saved is not rewritten and no edit is undone (`StaysChanged`).
`Inside` says which files of the pending attempt are not there yet, so that one
attempt starts one command; `Named`, `Journalled` and `Requested` say that what
is cited exists. Most steps touch none of what `Launches` speaks of and are
shown `Mild` once; the eight that do have a proof each.
`NothingReplayed` and `RepairsJustified` compare all attempts of the work, which
no step of it looks at together. A second invariant, `Chain`, brings them into an
order: a call comes from the newest attempt and is about that one, or, when the
newest asked for nothing, about what it was about (`Proposed`), so diagnoses
never go back to an earlier execution (`InOrder`), and of two attempts about the
same the earlier one bought nothing (`BoughtOnce`). Hence the executions that
repairs were bought for before lie in the lineage of the one diagnosed now
(`Descends`), one repair to an execution, and the length of the lineage, which is
all that `_repair_arguments` counts, bounds all repairs of the work
(`LineageCounts`, by an injection into it). What justified a repair stays true
of files that only the pending attempt could change (`JustifiedStays`).

`WorkspaceProofs`, for any files, commands and declarations, any clock, edits
and crashes. `SuccessesAreGenuine` compares with what the command really read,
which no file has. Its invariant says what the comparison still to come can
rely on: an input that was not read as bound differs from the binding until
somebody puts it back (`ReadAsBound`), and an output that is not as the command
left it was changed since (`LeftAsHashed`); a bound receipt (`BoundAsDone`)
carries this over to the answer of its own call (`AnswerHolds`), for which only
what was changed in between is excused, and to the recovery after a crash, which
compares. `PublishedIsAsBound` needs the same of the renderer's copies
(`Copied`): what was copied and is not what was approved shows in the last
comparison. `result.json` is not there yet when a rendering that was not
interrupted is complete (`Unpinned`), so it is written once, and a retry delivers
that project or none (`PinnedIsDelivered`). `PublishedIsUpToDate` is about chains of
commands of any length, and about an order of launches the code only knows by
the clock. The producer the code takes is the last command launched, if it takes
one at all, since times do not go back (`InTime`, `LatestIsLast`). Throughout
the last check of the producers, what has passed and what is still to be checked
together hold the inputs of every producer checked (`Checked`), so at its end
what has passed is closed under dependencies (`PassedIsClosed`); it holds the
export's own files, because what was copied was there when it was bound
(`HasText`). The set of dependencies is a recursive function. That its equation
has a solution is shown by writing one down, the ends of all chains of a given
length (`ChainedDepends`), and that no dependency lies outside of what has passed
by taking the least length at which one would (`DependenciesPass`).

`ProcessRunProofs`, for any streams, chunks, bounds and clock. `CallInv` says
what holds at each place of the calling thread: the one entry of the ledger is
seen through its status and amount (`Accounts`), a released charge has no child,
and a closed receipt has no open charge beside it. From it `OneChild`,
`LaunchIsCharged` and `ChargeIsReceipt`, over retries, failing ledger writes,
interrupts and restarts. `OutputInv` follows the drain threads: a stream of
which nothing is left in the pipe and whose thread has ended is in the receipt.

`ResearchProofs`, for any bounds and any set of modes. `NothingStartsUndecided`
is about what the user accepted, which a manifest keeps for one decision only.
The invariant (`Named`, `Answered`, `Chosen`, `Proposed`) says that a checkpoint
asked in between keeps the choice before it, and that a new first analysis is
decided anew. `InterruptedSessionSettles` needs in addition what is open where
(`OneRuns`) and that the row of an open attempt has no result (`RowOpen`), which
holds because the next row is one without (the least index of the open rows, by
the library's well-founded order of the naturals). `NothingIsMeasuredTwice`
follows one row through the places it may be in: what was measured for it is
recorded before the row is closed, and a change of the inputs empties the row
and what was derived from it together.
`KeptWorkIsCurrent` compares kept results with inputs and sources that replies,
follow-ups and revisions change long after the attempt. That a result was right
when it was recorded needs `AttemptsAreFresh`: what runs, or waits to be
recorded, is of the row that is next, for the inputs and from the results of
now. `CurrentIsKept` carries this over a crash between the two writes to the
reconciliation. That it stays right needs an order of the results: a result
stands only on results that are there (`Standing`), rows come one after the other
(`Predecessors`), and after the report no analysis can come about that would
replace the one it reads (`ReportIsLast`, which depends on the latest analysis
being decided, `AnalysisIsDecided`). The theorem speaks, as the property does,
of sessions without one of the named gaps. It assumes `NoneAssumption`: the
value that stands for no decision is no decision.

Every safety invariant and every action property of the passing runs is stated by
a theorem. Only model-checked are the two liveness properties, `CallEnds` and
`RunEnds`: fairness needs ENABLED, which is out of the provers' reach.

## What the modules abstract

*ToolApplication*: an operation of the session other than an attempt is one
step (`Session` has the steps); an approval token is the proposal with the version
of the files it covers, and there is none while a declared file cannot be bound (a
missing one stands for the other reasons, such as its size); a call whose
arguments are invalid is never admitted; call ids are unique; one process at a
time. Continuations by
professionals and owners, access grants, design decisions, the pause for
exhausted resources and the tools of final work are left out.

*TaskTerms*: a charge is one step; whether two saves fall into one second is a
choice at every save that changes nothing else.

*CodeTask*: a review of several clusters is one request and the rounds of
evidence are part of the proposal's; a validator leaves the workspace unchanged;
receipts are folded into the comparison of indexes, the check of the remaining
budget of repairs into `Conclude`. Greenfield generation, batches, baselines,
benchmarks, the approval of an edit budget, the asset guard, the preparation of
an environment and the validation preflight are left out.

*ImplementationWork*: an edit is not undone, and the time of an edit inside the
comparison of one file set is not split; the steps of the session inside an
attempt are those of `Session`. The repairs of a joint review, single operations
without `complete_work`, material taken from findings and project snapshots are
left out.

*Workspace*: tasks with a report protocol; one export, after the commands; the
clock may stand still but does not go back (if it did, an earlier launch could
count as the latest); the producers are checked one per step, each atomically;
edits through the tools are an `Edit`. Commands over approved snapshots are in
`ImplementationWork`, supervision in `ProcessRun`. The checks and previews of a
publication, receipts of older versions, templates, terminal deliveries, project
copies and the base hash of a single edit are left out.

*Research*: paired and supplementary experiments, refinements of a design,
evidence follow-ups, technical repairs, changes of the interaction mode,
authorizations and the limit on attempts without progress are left out.

## Plan

1. Done: ledger, session, process runner, tool application, terms, model
   request and code task, research course, implementation work, workspace.
2. Done: proofs of every safety property the runs check.
3. Models: checks and previews of a publication; gateway and permission scopes;
   the repairs of joint reviews; the checkpoints of report writing; the UI's
   workers.

## Not modelled

Prompts, parsing, retrieval ranking, statistics, figures, report layout and
the legacy pipeline: their correctness is about data and text. The contents of
model profiles, tool schemas and configuration files are checked by ordinary
validation with no state behind it.
