------------------------------ MODULE CodeTask ------------------------------
(***************************************************************************)
(* The implementation of an approved code task in its isolated workspace:  *)
(* plan, proposal, application, review and static validation               *)
(* (implement_code_task), the validator run with its bounded repairs       *)
(* (verify_implementation), and what makes the call resumable after a stop *)
(* between any two of its writes (implementation_resume_allowed).          *)
(*                                                                         *)
(* A source file is the sequence of the proposals applied to it, so a half *)
(* applied, a doubled and a whole patch differ.  A "replace" no longer     *)
(* finds its old text where it was applied, an "insert" finds it again,    *)
(* and a "miss" never fits.  "empty" and "oversized" carry no edits.       *)
(***************************************************************************)
EXTENDS LlmCall, SequencesExt

CONSTANTS
  Files,        \* editable files; every proposal edits all of them
  MaxRepairs,   \* repairs of one approval
  MaxResumes      \* bound: how often the call is resumed

LlmPurposes == {"plan", "propose", "review", "repair", "repair_review"}

ASSUME TaskAssumption ==
  /\ MaxRepairs \in Nat /\ MaxResumes \in Nat
  /\ Purposes = LlmPurposes \cup {"local_process"}

\* A missing report is not a report.
ASSUME ReportAssumption == None \notin [content : [Files -> Seq(Nat)], passed : BOOLEAN]

VARIABLES
  pc,         \* the gate or write the call is at
  workspace,  \* content of every file
  manifest,   \* manifest.json: plan, patch and repair sections
  disk,       \* the other artifacts of the run directory
  work,       \* locals of the running call
  resumes,
  history     \* what happened, for the properties

taskVars == <<pc, workspace, manifest, disk, work, resumes, history>>
vars == <<callVars, taskVars>>

Kinds == {"replace", "insert", "miss", "empty", "oversized"}
Edits == {"replace", "insert", "miss"}
NoProposal == [id |-> 0, kind |-> "empty"]
NoRepair == [status |-> "none", count |-> 0, proposal |-> NoProposal]
NoWork == [corrected |-> FALSE, repairing |-> FALSE, recovery |-> FALSE,
           proposal |-> NoProposal, before |-> [f \in Files |-> <<>>], todo |-> {}, passed |-> FALSE]

Init ==
  /\ CallInit
  /\ pc = "plan"
  /\ workspace = [f \in Files |-> <<>>]
  /\ manifest = [plan |-> "none", patch |-> "none", repair |-> NoRepair]
  /\ disk = [plan |-> FALSE, proposal |-> NoProposal, index |-> workspace, findings |-> {},
             review |-> "none", repairReview |-> "none",
             receipt |-> None, report |-> None, result |-> "none", written |-> 0]
  /\ work = NoWork
  /\ resumes = 0
  /\ history = [kept |-> {}, lost |-> {}, torn |-> FALSE, reviewed |-> {}, later |-> {}]

At(gate) == pc = gate /\ call.state = "idle"
Asks(gate, p) == At(gate) /\ Ask(p) /\ UNCHANGED taskVars
Quiet == UNCHANGED callVars

\* The purposes that were paid for and whose answer is not saved.
Unsaved ==
  (IF call.state \in {"answered", "failed"} /\ call.end \in {"answered", "malformed"} THEN {call.purpose} ELSE {})
  \cup (IF pc = "planned" THEN {"plan"} ELSE {}) \cup (IF pc = "repairWritten" THEN {"repair"} ELSE {})

Losing == [history EXCEPT !.lost = @ \cup (Unsaved \ history.kept),
                          !.torn = @ \/ (pc = "indexed" /\ ~work.repairing)]

\* An exception leaves the call; the tool attempt has no result.
Raise == pc' = "raised" /\ history' = Losing

\* execute_code_task returns: one correction, or the stop is the result.
Returns(correctable) ==
  IF correctable /\ ~work.corrected
  THEN pc' = "plan" /\ work' = [work EXCEPT !.corrected = TRUE]
  ELSE pc' = "finish" /\ work' = [work EXCEPT !.passed = FALSE]

----------------------------------------------------------------------------
(* Plan                                                                    *)
AskPlan == manifest.plan = "none" /\ Asks("plan", "plan")

WritePlan ==
  /\ pc = "plan" /\ call.state = "answered"
  /\ disk' = [disk EXCEPT !.plan = TRUE]
  /\ pc' = "planned" /\ Dropped
  /\ UNCHANGED <<workspace, manifest, work, resumes, history>>

SavePlan ==
  /\ pc = "planned"
  /\ manifest' = [manifest EXCEPT !.plan = "pending_approval"]
  /\ history' = [history EXCEPT !.kept = @ \cup {"plan"}]
  /\ pc' = "plan" /\ Quiet
  /\ UNCHANGED <<workspace, disk, work, resumes>>

\* llm_planning_failed is a result, not an exception.
PlanFails ==
  /\ pc = "plan" /\ call.state = "failed"
  /\ Returns(FALSE) /\ Dropped
  /\ UNCHANGED <<workspace, manifest, disk, resumes, history>>

\* record_plan_decision with the caller's approval note.
Approve ==
  /\ At("plan") /\ manifest.plan # "none"
  /\ manifest' = [manifest EXCEPT !.plan = "approved"]
  /\ pc' = "propose" /\ Quiet
  /\ UNCHANGED <<workspace, disk, work, resumes, history>>

----------------------------------------------------------------------------
(* Edit proposal                                                           *)
Recovery == disk.findings \cap {"validation-failed", "budget-rejected"} # {} /\ "recovery-completed" \notin disk.findings

Proposes ==
  /\ manifest.patch # "applied"
  /\ disk.proposal.kind \notin Edits \/ Recovery

AskProposal ==
  /\ Proposes /\ At("propose") /\ Ask("propose")
  /\ work' = [work EXCEPT !.recovery = disk.proposal # NoProposal /\ Recovery]
  /\ UNCHANGED <<pc, workspace, manifest, disk, resumes, history>>

ProposalStands ==
  /\ ~Proposes /\ At("propose")
  /\ pc' = "apply" /\ work' = [work EXCEPT !.proposal = disk.proposal, !.repairing = FALSE] /\ Quiet
  /\ UNCHANGED <<workspace, manifest, disk, resumes, history>>

NewProposal(kind) == [id |-> disk.written + 1, kind |-> kind]

WriteProposal(kind) ==
  /\ pc = "propose" /\ call.state = "answered"
  /\ disk' = [disk EXCEPT !.proposal = NewProposal(kind), !.written = @ + 1]
  /\ history' = [history EXCEPT !.kept = @ \cup {"propose"}]
  /\ pc' = "proposed" /\ Dropped
  /\ UNCHANGED <<workspace, manifest, work, resumes>>

SaveProposal ==
  /\ pc = "proposed"
  /\ manifest' = [manifest EXCEPT !.patch = "edits_proposed"]
  /\ pc' = "judge" /\ Quiet
  /\ UNCHANGED <<workspace, disk, work, resumes, history>>

\* The findings of the correction, and the stop of a proposal without edits.
JudgeProposal ==
  /\ pc = "judge"
  /\ disk' = [disk EXCEPT !.findings = @ \cup (IF work.recovery THEN {"recovery-completed"} ELSE {})
                                         \cup (IF disk.proposal.kind = "oversized" THEN {"budget-rejected"} ELSE {})]
  /\ IF disk.proposal.kind \in Edits
     THEN pc' = "apply" /\ work' = [work EXCEPT !.proposal = disk.proposal, !.repairing = FALSE]
     ELSE Returns(disk.proposal.kind = "oversized")
  /\ Quiet /\ UNCHANGED <<workspace, manifest, resumes, history>>

RequestFails ==
  /\ pc \in {"propose", "repair"} /\ call.state = "failed"
  /\ Raise /\ Dropped
  /\ UNCHANGED <<workspace, manifest, disk, work, resumes>>

----------------------------------------------------------------------------
(* Application (apply_patch_edits), of the proposal or of a repair         *)
AppliedTo(f, id) == Contains(workspace[f], id)

\* _prepare_edits: every old text occurs exactly once, or nothing is applied.
Fits(p) ==
  \/ p.kind = "insert"
  \/ p.kind = "replace" /\ \A f \in Files : ~AppliedTo(f, p.id)

PatchStands ==
  /\ pc = "apply" /\ ~work.repairing /\ manifest.patch = "applied"
  /\ pc' = "review" /\ Quiet
  /\ UNCHANGED <<workspace, manifest, disk, work, resumes, history>>

Applying == pc = "apply" /\ (work.repairing \/ manifest.patch # "applied")

RejectPatch ==
  /\ Applying /\ ~Fits(work.proposal)
  /\ IF work.repairing
     THEN Raise /\ UNCHANGED <<disk, work>>
     ELSE /\ disk' = [disk EXCEPT !.findings = @ \cup {"validation-failed"}]
          /\ Returns(TRUE) /\ UNCHANGED history
  /\ Quiet /\ UNCHANGED <<workspace, manifest, resumes>>

\* create_file_snapshot_set and capture_many, before the first write.
Capture ==
  /\ Applying /\ Fits(work.proposal)
  /\ work' = [work EXCEPT !.before = workspace, !.todo = Files]
  /\ pc' = "write" /\ Quiet
  /\ UNCHANGED <<workspace, manifest, disk, resumes, history>>

WriteFile(f) ==
  /\ pc = "write" /\ f \in work.todo
  /\ workspace' = [workspace EXCEPT ![f] = Append(@, work.proposal.id)]
  /\ work' = [work EXCEPT !.todo = @ \ {f}]
  /\ Quiet /\ UNCHANGED <<pc, manifest, disk, resumes, history>>

\* A write raises or is interrupted: restore_verified puts the captured files
\* back, as many as it can.
WriteFails(restored) ==
  /\ pc = "write" /\ work.todo # {}
  /\ workspace' = [f \in Files |-> IF f \in restored THEN work.before[f] ELSE workspace[f]]
  /\ Raise /\ Quiet
  /\ UNCHANGED <<manifest, disk, work, resumes>>

\* patch.diff, applied_edits.json, codebase_index.json, repo_map.json.
Index ==
  /\ pc = "write" /\ work.todo = {}
  /\ disk' = [disk EXCEPT !.index = workspace]
  /\ pc' = "indexed" /\ Quiet
  /\ UNCHANGED <<workspace, manifest, work, resumes, history>>

SaveApplied ==
  /\ pc = "indexed"
  /\ manifest' = [manifest EXCEPT !.patch = "applied",
                                  !.repair.status = IF work.repairing THEN "repair_applied" ELSE @]
  /\ pc' = IF work.repairing THEN "repairReview" ELSE "review"
  /\ Quiet /\ UNCHANGED <<workspace, disk, work, resumes, history>>

----------------------------------------------------------------------------
(* Review and static validation                                            *)
Applied == UNION {ToSet(workspace[f]) : f \in Files}

\* A saved report is used as it is.
ReviewStands ==
  /\ At("review") /\ disk.review # "none"
  /\ IF disk.review = "failed" THEN Returns(FALSE) ELSE pc' = "validate" /\ UNCHANGED work
  /\ Quiet /\ UNCHANGED <<workspace, manifest, disk, resumes, history>>

RepairReviewStands ==
  /\ At("repairReview") /\ disk.repairReview # "none"
  /\ IF disk.repairReview = "failed" THEN Raise ELSE pc' = "repairValidate" /\ UNCHANGED history
  /\ Quiet /\ UNCHANGED <<workspace, manifest, disk, work, resumes>>

AskReview ==
  \/ disk.review = "none" /\ Asks("review", "review")
  \/ disk.repairReview = "none" /\ Asks("repairReview", "repair_review")

\* The model's findings are advisory, also when its request fails; a rule
\* finding blocks, and then no model is asked.
WriteReview(status) ==
  /\ pc \in {"review", "repairReview"}
  /\ IF status = "failed" THEN call.state = "idle" ELSE call.state \in {"answered", "failed"}
  /\ IF pc = "review"
     THEN disk.review = "none" /\ disk' = [disk EXCEPT !.review = status]
     ELSE disk.repairReview = "none" /\ disk' = [disk EXCEPT !.repairReview = status]
  /\ history' = [history EXCEPT !.reviewed = @ \cup Applied,
                                !.kept = @ \cup {IF pc = "review" THEN "review" ELSE "repair_review"}]
  /\ Dropped /\ UNCHANGED <<pc, workspace, manifest, work, resumes>>

\* validate_code_task.
Validate(valid) ==
  /\ pc = "validate"
  /\ IF valid THEN pc' = "verify" /\ UNCHANGED work ELSE Returns(FALSE)
  /\ Quiet /\ UNCHANGED <<workspace, manifest, disk, resumes, history>>

ValidateRepair(valid) ==
  /\ pc = "repairValidate"
  /\ IF valid THEN pc' = "loop" /\ UNCHANGED history ELSE Raise
  /\ Quiet /\ UNCHANGED <<workspace, manifest, disk, work, resumes>>

----------------------------------------------------------------------------
(* Validator and repairs (verify_implementation)                           *)

\* recover_implementation_process: a finished run without a report.
Orphan == disk.receipt # None /\ ~disk.receipt.projected

\* The saved report is of this candidate.
Current == disk.report # None /\ disk.report.content = workspace

Follows(gate) == pc' = gate /\ UNCHANGED <<work, history>>

Verify ==
  /\ pc = "verify"
  /\ CASE Orphan -> Follows("project")
       [] ~Orphan /\ disk.report = None -> Follows("loop")
       [] ~Orphan /\ Current /\ manifest.repair.status = "repair_proposed" /\ manifest.repair.proposal.kind \in Edits ->
            /\ pc' = "apply" /\ UNCHANGED history
            /\ work' = [work EXCEPT !.proposal = manifest.repair.proposal, !.repairing = TRUE]
       [] ~Orphan /\ Current /\ manifest.repair.status # "repair_proposed" -> Follows("judged")
       [] ~Orphan /\ disk.report # None /\ ~Current /\ manifest.repair.status = "repair_applied" -> Follows("repairReview")
       [] OTHER -> Raise /\ UNCHANGED work
  /\ Quiet /\ UNCHANGED <<workspace, manifest, disk, resumes>>

Launch ==
  /\ pc = "loop"
  /\ ledger' = [ledger EXCEPT !.reserved = "local_process"]
  /\ pc' = "running"
  /\ UNCHANGED <<client, call, exposed, workspace, manifest, disk, work, resumes, history>>

\* run_process returns a settled receipt, or raises and leaves its use unknown.
ProcessEnds(passed) ==
  /\ pc = "running"
  /\ ledger' = [ledger EXCEPT !.reserved = None, !.settled = @ \cup {"local_process"}]
  /\ disk' = [disk EXCEPT !.receipt = [content |-> workspace, passed |-> passed, projected |-> FALSE]]
  /\ pc' = "project"
  /\ UNCHANGED <<client, call, exposed, workspace, manifest, work, resumes, history>>

ProcessDoubtful ==
  /\ pc = "running"
  /\ ledger' = [ledger EXCEPT !.reserved = None, !.doubts = @ \cup {"retained"}]
  /\ Raise
  /\ UNCHANGED <<client, call, exposed, workspace, manifest, disk, work, resumes>>

\* _write_execution_result, of a run that ended now or before the stop.
Project ==
  /\ pc = "project"
  /\ disk' = [disk EXCEPT !.receipt.projected = TRUE,
                          !.report = [content |-> workspace, passed |-> disk.receipt.passed]]
  /\ pc' = "judged" /\ Quiet
  /\ UNCHANGED <<workspace, manifest, work, resumes, history>>

Exhausted == manifest.repair.count >= MaxRepairs

\* The check passed, the repairs are used up or their processes unaffordable.
Conclude ==
  /\ At("judged")
  /\ pc' = "finish" /\ work' = [work EXCEPT !.passed = disk.report.passed] /\ Quiet
  /\ UNCHANGED <<workspace, manifest, disk, resumes, history>>

AskRepair ==
  /\ At("judged") /\ ~disk.report.passed /\ ~Exhausted
  /\ Ask("repair") /\ pc' = "repair"
  /\ UNCHANGED <<workspace, manifest, disk, work, resumes, history>>

WriteRepair(kind) ==
  /\ pc = "repair" /\ call.state = "answered" /\ kind # "oversized"
  /\ work' = [work EXCEPT !.proposal = NewProposal(kind), !.repairing = TRUE]
  /\ disk' = [disk EXCEPT !.written = @ + 1]
  /\ pc' = "repairWritten" /\ Dropped
  /\ UNCHANGED <<workspace, manifest, resumes, history>>

SaveRepair ==
  /\ pc = "repairWritten"
  /\ manifest' = [manifest EXCEPT !.repair = [status |-> "repair_proposed", count |-> @.count + 1,
                                              proposal |-> work.proposal]]
  /\ history' = [history EXCEPT !.kept = @ \cup {"repair"},
                                !.later = IF manifest.repair.count > 0 THEN @ \cup {work.proposal.id} ELSE @]
  /\ IF work.proposal.kind \in Edits THEN pc' = "apply" /\ UNCHANGED work ELSE Returns(FALSE)
  /\ Quiet /\ UNCHANGED <<workspace, disk, resumes>>

\* implementation.json.
Finish ==
  /\ pc = "finish"
  /\ disk' = [disk EXCEPT !.result = IF work.passed THEN "validated" ELSE "incomplete"]
  /\ pc' = "done" /\ Quiet
  /\ UNCHANGED <<workspace, manifest, work, resumes, history>>

----------------------------------------------------------------------------
(* Stop and resume                                                         *)

Stopped == {"down", "raised", "refused", "done"}

\* The process is gone between two steps.
Stop ==
  /\ pc \notin Stopped
  /\ pc' = "down" /\ history' = Losing
  /\ Dropped /\ UNCHANGED <<workspace, manifest, disk, work, resumes>>

\* An interrupt inside the provider call.
Interrupt ==
  /\ pc' = "raised" /\ Cancelled
  /\ UNCHANGED <<workspace, manifest, disk, work, resumes, history>>

\* Fault: only the plan has to be committed.
ReadyPlanOnly(p) == p = "plan" => manifest.plan # "none"

\* The evidence that the request of a settled entry is committed.
Ready(p) ==
  CASE p = "plan" -> manifest.plan # "none" /\ disk.plan
    [] p = "propose" -> disk.proposal # NoProposal
    [] p = "review" -> disk.review # "none"
    [] p = "repair" -> manifest.repair.count > 0
    [] p = "repair_review" -> disk.repairReview # "none"
    [] p = "local_process" -> disk.receipt # None /\ (disk.receipt.projected \/ disk.receipt.content = workspace)

\* Fault: the files are not compared.
HashesIgnored == TRUE

\* The files are the ones last indexed or last validated.
HashesAgree == workspace = disk.index \/ Current

ResumeAllowed ==
  /\ ledger.reserved = None /\ ledger.doubts = {}
  /\ \A p \in ledger.settled : Ready(p)
  /\ HashesAgree

Resume ==
  /\ pc \in {"down", "raised"} /\ resumes < MaxResumes /\ resumes' = resumes + 1
  /\ IF ResumeAllowed THEN pc' = "plan" /\ work' = NoWork ELSE pc' = "refused" /\ UNCHANGED work
  /\ Quiet /\ UNCHANGED <<workspace, manifest, disk, history>>

----------------------------------------------------------------------------
TaskNext ==
  \/ AskPlan \/ WritePlan \/ SavePlan \/ PlanFails \/ Approve
  \/ AskProposal \/ ProposalStands \/ SaveProposal \/ JudgeProposal \/ RequestFails
  \/ \E k \in Kinds : WriteProposal(k) \/ WriteRepair(k)
  \/ PatchStands \/ RejectPatch \/ Capture \/ Index \/ SaveApplied
  \/ \E f \in Files : WriteFile(f)
  \/ \E restored \in SUBSET Files : WriteFails(restored)
  \/ ReviewStands \/ RepairReviewStands \/ AskReview
  \/ \E valid \in BOOLEAN : Validate(valid) \/ ValidateRepair(valid)
  \/ \E s \in {"passed", "failed"} : WriteReview(s)
  \/ Verify \/ Launch \/ ProcessDoubtful \/ Project \/ Conclude \/ AskRepair \/ SaveRepair \/ Finish
  \/ \E passed \in BOOLEAN : ProcessEnds(passed)
  \/ Stop \/ Interrupt \/ Resume

Next == (CallNext /\ UNCHANGED taskVars) \/ TaskNext

Spec == Init /\ [][Next]_vars

----------------------------------------------------------------------------
Proposals == [id : Nat, kind : Kinds]
Contents == [Files -> Seq(1..disk.written)]

\* A repair beyond the approval, a patch or a validator run without an approved
\* and applied proposal, and a charge that is not the call's are type errors.
TypeOK ==
  /\ CallTypeOK
  /\ manifest \in [plan : {"none", "pending_approval", "approved"}, patch : {"none", "edits_proposed", "applied"},
                   repair : [status : {"none", "repair_proposed", "repair_applied"}, count : 0..MaxRepairs,
                             proposal : Proposals]]
  /\ disk \in [plan : BOOLEAN, proposal : Proposals, index : Contents,
               findings : SUBSET {"validation-failed", "budget-rejected", "recovery-completed"},
               review : {"none", "passed", "failed"}, repairReview : {"none", "passed", "failed"},
               receipt : {None} \cup [content : Contents, passed : BOOLEAN, projected : BOOLEAN],
               report : {None} \cup [content : Contents, passed : BOOLEAN],
               result : {"none", "validated", "incomplete"}, written : Nat]
  /\ workspace \in Contents
  /\ work \in [corrected : BOOLEAN, repairing : BOOLEAN, recovery : BOOLEAN, proposal : Proposals,
               before : Contents, todo : SUBSET Files, passed : BOOLEAN]
  /\ history \in [kept : SUBSET LlmPurposes, lost : SUBSET LlmPurposes, torn : BOOLEAN,
                  reviewed : SUBSET Nat, later : SUBSET Nat]
  /\ resumes \in 0..MaxResumes
  /\ manifest.plan = "approved" \/ (manifest.patch = "none" /\ disk.proposal = NoProposal)
  /\ manifest.patch = "applied" \/ (disk.report = None /\ ledger.reserved # "local_process")

Times(s, id) == Cardinality({i \in DOMAIN s : s[i] = id})

\* The validator runs on, and a validated result stands for, whole and reviewed
\* patches only: every proposal in the workspace is in all its files equally
\* often, once, and was reviewed, and the result is of the bytes the run saw.
\* Two known ways remain: a stop between the index and the manifest applies an
\* insertion again, and the report of the first repair stands for later ones.
WholePatchesOnly ==
  /\ pc = "running" \/ disk.result = "validated" =>
       \A id \in Applied :
         /\ \A f, g \in Files : Times(workspace[f], id) = Times(workspace[g], id)
         /\ \A f \in Files : Times(workspace[f], id) = 1 \/ history.torn
         /\ id \in history.reviewed \cup history.later
  /\ disk.result = "validated" => Current /\ disk.report.passed

\* "Recognize committed CodeTask gates; never restart an uncommitted request":
\* a purpose whose paid answer was lost with its process, before any answer to
\* it was saved, is never asked again.
LostIsNotAskedAgain ==
  [][call.state = "idle" /\ call'.state = "reserving" => call'.purpose \notin history.lost]_vars
=============================================================================
