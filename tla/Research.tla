------------------------------- MODULE Research -------------------------------
(***************************************************************************)
(* app/research_application.py: a saved research session as its caller     *)
(* sees it.  advance() runs the next step of the accepted plan, stops at   *)
(* decisions of the user and extends the plan after an analysis;           *)
(* continue_session() answers a decision or revises the inputs and retires *)
(* the results the revision made stale.  One process, which may be killed  *)
(* between two writes.                                                     *)
(***************************************************************************)
EXTENDS Integers, Sequences, FiniteSets, SequencesExt

CONSTANTS Modes,        \* interaction settings a session is created with
          Revisable,    \* the kinds of input a caller revises
          MaxAttempts,  \* BudgetState.max_attempts
          MaxUpsets,    \* bound: revisions, failed attempts and kills together
          None

\* What _invalidate_revised_inputs tells apart.  "protocol" is a change of the
\* execution settings that the measured baseline still matches, "setup" one
\* that it does not; "report" is an explicit report configuration.
BriefKinds == {"question", "constraints", "preferences", "outputs"}
ExecutionKinds == {"protocol", "setup"}
Kinds == BriefKinds \cup ExecutionKinds \cup {"report"}

ASSUME ResearchAssumption ==
  /\ Modes \subseteq {"assisted", "checkpoints", "autonomous"}
  /\ Revisable \subseteq BriefKinds \cup ExecutionKinds
  /\ MaxAttempts \in Nat \ {0} /\ MaxUpsets \in Nat
  /\ None \notin Nat \cup Kinds

\* The rows of a plan.  read stands for search, ingest and read, design for
\* synthesis, assessment and design, implementation for the preparation too,
\* report for writing, assembly and audit.
Checkpoint == <<"read", "design">>
Executed == Checkpoint \o <<"baseline", "implementation", "experiment", "analysis">>
Followup == <<"implementation_r1", "experiment_r1", "analysis_r1">>
Rows(plan) ==
  CASE plan.kind = "none" -> <<>>
    [] plan.kind = "checkpoint" -> Checkpoint
    [] plan.kind = "accepted" -> Executed \o <<"report">>
    [] plan.kind = "followup" -> Executed \o Followup \o <<"report">>

Analyses == {"analysis", "analysis_r1"}
Measurements == {"baseline", "experiment", "experiment_r1"}
Execution == Measurements \cup {"implementation", "implementation_r1"}
Steps == {"read", "design", "report"} \cup Analyses \cup Execution

\* "measured" is a failure that left its artifact: a failed run, a failed
\* analysis, a report that did not pass its audit.  What an analysis says is
\* part of its result; "limits" stops with the goal left open.
Says == {"stop", "limits", "input", "revise"}
Failures == {"measured", "error"}
Outcomes(step) ==
  CASE step \in Analyses -> Says \cup Failures
    [] step \in Measurements \cup {"report"} -> {"done"} \cup Failures
    [] OTHER -> {"done", "error"}

VARIABLES m,         \* session_manifest.json
          attempts,  \* attempts/*: the manifests and the result files, in order
          pc,        \* where the process is inside advance() or a continuation
          wanted,    \* what the running continuation is to apply
          upsets,    \* revisions, failures and kills so far
          accepted,  \* history: the decisions a user accepted
          gaps       \* history: the revisions that left stale results behind

history == <<accepted, gaps>>
vars == <<m, attempts, pc, wanted, upsets, history>>

Ids == 1 .. MaxAttempts
Inputs == [Kinds -> 0 .. MaxUpsets]
Plans == [kind : {"none", "checkpoint", "accepted", "followup"}, by : {0} \cup Ids]
Subjects == [inputs : Inputs, plan : Plans, ref : {0} \cup Ids]
Stages == {"none", "execution_protocol", "research_choice", "required_input", "delivery"}
Decisions ==
  [action : {"request_input", "continue", "stop", "revise_candidate", "revised"},
   analysis : {0} \cup Ids, stage : Stages,
   status : {"none", "pending", "accepted", "rejected", "revised"},
   about : Subjects, saved : Kinds \cup {None}]
Wants == Revisable \cup {"report", "refresh", "reanalyze", None}

\* A decision, over any number of attempts and revisions, is not None.
ASSUME NoneAssumption ==
  None \notin [action : {"request_input", "continue", "stop", "revise_candidate", "revised"},
               analysis : Nat, stage : Stages,
               status : {"none", "pending", "accepted", "rejected", "revised"},
               about : [inputs : [Kinds -> Nat],
                        plan : [kind : {"none", "checkpoint", "accepted", "followup"}, by : Nat],
                        ref : Nat],
               saved : Kinds \cup {None}]

TypeOK ==
  /\ m \in [mode : Modes, status : {"created", "running", "paused", "blocked", "completed"},
            current : {0} \cup Ids, refs : [Steps -> {0} \cup Ids], planned : BOOLEAN,
            plan : Plans, decision : Decisions \cup {None}, inputs : Inputs]
  /\ attempts \in Seq([step : Steps \cup {"plan"}, closed : BOOLEAN,
                       result : UNION {Outcomes(s) : s \in Steps} \cup {"none"},
                       inputs : Inputs, from : Seq({0} \cup Ids)])
  /\ Len(attempts) <= MaxAttempts
  /\ pc \in {"idle", "ready", "asked", "marked", "handling", "resulted", "committed",
             "finish", "replied", "continued"}
  /\ wanted \in Wants
  /\ upsets \in 0 .. MaxUpsets
  /\ accepted \subseteq Stages \X Subjects
  /\ gaps \subseteq {"missed", "rowsDropped"}

Init ==
  /\ \E mode \in Modes :
       m = [mode |-> mode, status |-> "created", current |-> 0, refs |-> [s \in Steps |-> 0],
            planned |-> FALSE, plan |-> [kind |-> "none", by |-> 0], decision |-> None,
            inputs |-> [k \in Kinds |-> 0]]
  /\ attempts = <<>> /\ pc = "idle" /\ wanted = None
  /\ upsets = 0
  /\ accepted = {} /\ gaps = {}

----------------------------------------------------------------------------
(* What a manifest says                                                     *)

Ref(mm, step) == mm.refs[step]
Outcome(id) == attempts[id].result
Running == {i \in DOMAIN attempts : ~attempts[i].closed}
Exhausted == Cardinality(DOMAIN attempts \ Running) >= MaxAttempts

\* _latest_analysis_ref: of the plan's rows, else the plain analysis.
Latest(mm) ==
  IF mm.plan.kind = "followup" /\ Ref(mm, "analysis_r1") # 0
  THEN Ref(mm, "analysis_r1") ELSE Ref(mm, "analysis")

\* _next_action: a decision that is open, or was refused, is a boundary.
Stopped(mm) ==
  /\ mm.decision # None
  /\ \/ mm.decision.status = "pending"
     \/ mm.decision.status = "rejected" /\ mm.decision.stage # "research_choice"

Applies(mm, step) ==
  CASE step = "implementation_r1" -> mm.decision # None /\ mm.decision.action = "revise_candidate"
    [] step = "experiment_r1" -> Ref(mm, "implementation_r1") # 0
    [] step = "analysis_r1" -> Ref(mm, "experiment_r1") # 0
    [] OTHER -> TRUE

Next(mm) ==
  LET needsPlan == \/ mm.plan.kind = "none"
                   \/ mm.plan.kind = "checkpoint" /\ Ref(mm, "design") # 0
      rows == Rows(mm.plan)
      open == {i \in DOMAIN rows : Ref(mm, rows[i]) = 0 /\ Applies(mm, rows[i])}
  IN IF Stopped(mm) THEN "none"
     ELSE IF needsPlan THEN "plan"
     ELSE IF open = {} THEN "none" ELSE rows[Min(open)]

\* The results a step reads, as its attempt's inputs bind them.
Sources(mm, step) ==
  CASE step = "design" -> <<Ref(mm, "read")>>
    [] step = "implementation" -> <<Ref(mm, "design"), Ref(mm, "baseline")>>
    [] step = "experiment" -> <<Ref(mm, "implementation")>>
    [] step = "analysis" -> <<Ref(mm, "baseline"), Ref(mm, "experiment")>>
    [] step = "implementation_r1" -> <<Ref(mm, "analysis"), Ref(mm, "implementation")>>
    [] step = "experiment_r1" -> <<Ref(mm, "implementation_r1")>>
    [] step = "analysis_r1" -> <<Ref(mm, "baseline"), Ref(mm, "experiment_r1")>>
    [] step = "report" -> <<Latest(mm)>>
    [] OTHER -> <<>>

Subject(mm, ref) == [inputs |-> mm.inputs, plan |-> mm.plan, ref |-> ref]

\* _first_execution_step: no earlier execution row has a result.
FirstExecution(mm, step) ==
  LET rows == Rows(mm.plan) IN
  /\ step \in Execution
  /\ \A i, j \in DOMAIN rows :
       rows[j] = step /\ i < j /\ rows[i] \in Execution => Ref(mm, rows[i]) = 0

\* The stage _ensure_interaction_checkpoint stops at before a step.
StageOf(mm, step) ==
  IF mm.mode = "autonomous" THEN "none"
  ELSE IF FirstExecution(mm, step) THEN "execution_protocol"
  ELSE IF step = "report" /\ mm.inputs["report"] = 0 /\ Outcome(Latest(mm)) # "stop"
       THEN "delivery" ELSE "none"
SubjectOf(mm, stage) ==
  Subject(mm, IF stage = "execution_protocol" THEN Ref(mm, "design") ELSE Latest(mm))
\* Fault: any accepted checkpoint of the stage will do.
PassedOnce(mm, stage) ==
  \/ stage = "none"
  \/ /\ mm.decision # None
     /\ mm.decision.stage = stage /\ mm.decision.status = "accepted"

\* An accepted checkpoint of the same identity is not asked again.
Passed(mm, stage) ==
  \/ stage = "none"
  \/ /\ mm.decision # None
     /\ mm.decision.stage = stage /\ mm.decision.status = "accepted"
     /\ mm.decision.about = SubjectOf(mm, stage)

\* _interaction_identity_is_current
IsCurrent(mm) ==
  LET d == mm.decision
      Same(kinds) == \A k \in kinds : d.about.inputs[k] = mm.inputs[k]
      samePlan == mm.plan.kind # "none" /\ d.about.plan = mm.plan
  IN CASE d.stage = "execution_protocol" ->
            Same(BriefKinds \cup ExecutionKinds) /\ samePlan /\ d.about.ref = Ref(mm, "design")
       [] d.stage = "delivery" ->
            Same(BriefKinds \cup {"report"}) /\ samePlan /\ d.about.ref = Latest(mm)
       [] d.stage = "research_choice" -> d.about.ref = Latest(mm)
       [] OTHER -> TRUE

\* _ensure_research_decision: what is accepted of an analysis' proposal.
Verdict(mm, a) ==
  LET failed == \/ Outcome(a) = "measured"
                \/ attempts[a].from[2] # 0 /\ Outcome(attempts[a].from[2]) = "measured"
      lineage == /\ Ref(mm, "baseline") # 0 /\ Outcome(Ref(mm, "baseline")) = "done"
                 /\ Ref(mm, "implementation") # 0
  IN IF failed \/ Outcome(a) \in {"stop", "limits"} THEN "stop"
     ELSE IF Outcome(a) = "input" THEN "required_input"
     ELSE IF attempts[a].step = "analysis_r1" THEN "stop"   \* the only round is spent
     ELSE IF ~lineage THEN "required_input"
     ELSE IF mm.mode = "autonomous" THEN "follow" ELSE "research_choice"

\* append_research_followup
Extended(mm) == [mm EXCEPT !.plan.kind = "followup"]

Undecided(mm) ==
  Latest(mm) # 0 /\ (mm.decision = None \/ mm.decision.analysis # Latest(mm))
Decided(mm) ==
  LET a == Latest(mm)
      verdict == Verdict(mm, a)
      asks == verdict \in {"required_input", "research_choice"}
      decision == [action |-> CASE asks -> "request_input"
                                [] verdict = "follow" -> "revise_candidate"
                                [] OTHER -> "stop",
                   analysis |-> a,
                   stage |-> IF asks THEN verdict ELSE "none",
                   status |-> IF asks THEN "pending" ELSE "none",
                   about |-> Subject(mm, a), saved |-> None]
  IN IF ~Undecided(mm) THEN mm
     ELSE [(IF verdict = "follow" THEN Extended(mm) ELSE mm) EXCEPT !.decision = decision]

\* _record_attempt_outputs: the result becomes the step's current one.
Recorded(mm, i) ==
  LET step == attempts[i].step
      bound == [mm EXCEPT !.refs[step] = i]
  IN CASE step = "plan" ->
            [mm EXCEPT !.planned = TRUE,
                       !.plan = [kind |-> IF Ref(mm, "design") # 0 THEN "accepted" ELSE "checkpoint",
                                 by |-> i]]
       [] step \in Analyses -> Decided(bound)
       [] OTHER -> bound

\* A measured failure is an output too, except of the steps that only pause.
Keeps(i) ==
  \/ attempts[i].result \notin Failures
  \/ attempts[i].result = "measured" /\ attempts[i].step \in Measurements \cup Analyses

----------------------------------------------------------------------------
(* advance(): reconcile first                                               *)

Go(from, to) == pc = from /\ pc' = to
Pause(mm) == [mm EXCEPT !.status = "paused"]
Close(i) == [attempts EXCEPT ![i].closed = TRUE]
Unchanged == UNCHANGED <<wanted, upsets, history>>
Upset == upsets < MaxUpsets /\ upsets' = upsets + 1

\* Which attempt _reconcile_running_attempt takes up: the one still running,
\* or the current one when it ended before its result was recorded.
Bound(mm, step) == step \in ToSet(Rows(mm.plan))
\* Fault: a measured failure does not count as one that was to be recorded.
UnrecordedDone(mm) ==
  LET step == attempts[mm.current].step IN
  /\ mm.current # 0 /\ Running = {} /\ mm.status = "running"
  /\ IF step = "plan" THEN ~mm.planned /\ mm.plan.kind = "none"
     ELSE Bound(mm, step) /\ Ref(mm, step) = 0
  /\ Outcome(mm.current) \notin Failures
Unrecorded(mm) ==
  LET step == attempts[mm.current].step IN
  /\ mm.current # 0 /\ Running = {} /\ mm.status = "running"
  /\ IF step = "plan" THEN ~mm.planned /\ mm.plan.kind = "none"
     ELSE Bound(mm, step) /\ Ref(mm, step) = 0
  /\ Outcome(mm.current) \in Failures => step \in Measurements \cup Analyses
ToReconcile == IF Running # {} THEN Running ELSE IF Unrecorded(m) THEN {m.current} ELSE {}

\* Fault: a planning attempt is no row of any plan.
ReconcilableRow(i) ==
  attempts[i].result # "none" /\ Bound(m, attempts[i].step)

\* A running attempt without a result, or of no row of the plan, is refused.
Reconcilable(i) ==
  /\ attempts[i].result # "none"
  /\ m.plan.kind # "none" => Bound(m, attempts[i].step)

Reconcile ==
  \E i \in ToReconcile :
    /\ pc = "idle" /\ Reconcilable(i)
    /\ attempts' = Close(i)
    /\ LET seen == IF attempts[i].closed THEN m ELSE [m EXCEPT !.current = i, !.status = "running"]
       IN m' = IF Keeps(i) THEN Recorded(seen, i) ELSE Pause(seen)
    /\ pc' = IF Keeps(i) THEN "ready" ELSE "idle"
    /\ Unchanged

Advance ==
  /\ ToReconcile = {} /\ m.status \in {"created", "running"}
  /\ Go("idle", "ready")
  /\ UNCHANGED <<m, attempts>> /\ Unchanged

----------------------------------------------------------------------------
(* advance(): one action                                                    *)

\* _store_interaction_checkpoint saves the decision, then pauses.
Ask ==
  LET stage == StageOf(m, Next(m)) IN
  /\ Go("ready", "asked")
  /\ Next(m) \in Steps /\ ~Passed(m, stage)
  /\ m' = [m EXCEPT !.decision =
             [action |-> IF m.decision = None THEN "request_input" ELSE m.decision.action,
              analysis |-> IF m.decision = None THEN 0 ELSE m.decision.analysis,
              stage |-> stage, status |-> "pending",
              about |-> SubjectOf(m, stage), saved |-> None]]
  /\ UNCHANGED attempts /\ Unchanged

PauseAsked ==
  /\ Go("asked", "idle")
  /\ m' = Pause(m)
  /\ UNCHANGED attempts /\ Unchanged

Dispatched(step) ==
  /\ pc = "ready" /\ Next(m) = step
  /\ step \in Steps => Passed(m, StageOf(m, step))
\* A candidate is not implemented against a baseline that failed.
BaselineFailed(step) ==
  step = "implementation" /\ Ref(m, "baseline") # 0 /\ Outcome(Ref(m, "baseline")) # "done"

Refuse ==
  \E step \in Steps \cup {"plan"} :
    /\ Dispatched(step)
    /\ BaselineFailed(step) \/ Exhausted
    /\ m' = IF BaselineFailed(step) THEN Pause(m) ELSE [m EXCEPT !.status = "blocked"]
    /\ pc' = "idle"
    /\ UNCHANGED attempts /\ Unchanged

\* execute_attempt writes the attempt's manifest, then the session's.
Begin ==
  \E step \in Steps \cup {"plan"} :
    /\ Dispatched(step) /\ ~BaselineFailed(step) /\ ~Exhausted
    /\ attempts' = Append(attempts, [step |-> step, closed |-> FALSE, result |-> "none",
                                     inputs |-> m.inputs, from |-> Sources(m, step)])
    /\ pc' = "marked"
    /\ UNCHANGED m /\ Unchanged

Enter ==
  /\ Go("marked", "handling")
  /\ m' = [m EXCEPT !.status = "running", !.current = Len(attempts)]
  /\ UNCHANGED attempts /\ Unchanged

Handle ==
  /\ Go("handling", "resulted")
  /\ \E outcome \in Outcomes(attempts[m.current].step) :
       /\ IF outcome \in Failures THEN Upset ELSE UNCHANGED upsets
       /\ attempts' = [attempts EXCEPT ![m.current].result = outcome]
  /\ UNCHANGED <<m, wanted, history>>

Commit ==
  /\ Go("resulted", "committed")
  /\ attempts' = Close(m.current)
  /\ UNCHANGED m /\ Unchanged

\* A report that failed its audit is recorded and pauses all the same.
Record ==
  LET i == m.current
      audited == attempts[i].step = "report" /\ attempts[i].result = "measured"
  IN /\ pc = "committed"
     /\ m' = IF Keeps(i) THEN Recorded(m, i)
             ELSE IF audited THEN Pause(Recorded(m, i)) ELSE Pause(m)
     /\ pc' = IF Keeps(i) THEN "finish" ELSE "idle"
     /\ UNCHANGED attempts /\ Unchanged

\* _finish_available_work, after an action or instead of one.
Finish ==
  LET decided == Decided(m)
      delivered == Ref(m, "experiment") # 0 /\ Ref(m, "report") # 0
      raises == /\ Undecided(m) /\ Verdict(m, Latest(m)) = "follow" /\ m.plan.kind = "none"
  IN /\ \/ pc = "finish"
        \/ pc = "ready" /\ Next(m) = "none"
     /\ m' = IF Next(m) # "none" \/ raises THEN m
             ELSE IF decided.decision # None => decided.decision.action # "request_input"
                  THEN IF delivered THEN [decided EXCEPT !.status = "completed"] ELSE Pause(decided)
             ELSE Pause(decided)
     /\ pc' = "idle"
     /\ UNCHANGED attempts /\ Unchanged

----------------------------------------------------------------------------
(* continue_session(): a reply or a revision of a session at rest           *)

AtRest == pc = "idle" /\ m.status \in {"paused", "blocked", "completed"} /\ Running = {}
Pending == m.decision # None /\ m.decision.status = "pending"
Continue(want) == pc' = "replied" /\ wanted' = want

Answer(status, action, saved) ==
  [m EXCEPT !.decision = [@ EXCEPT !.status = status, !.action = action, !.saved = saved]]

\* The reply is saved before anything it changes.
Accept ==
  LET d == m.decision
      follow == d.stage = "research_choice"
      answered == Answer("accepted",
                         IF follow THEN "revise_candidate"
                         ELSE IF d.action = "request_input" THEN "continue" ELSE d.action, None)
  IN /\ AtRest /\ Pending /\ IsCurrent(m) /\ d.stage # "required_input"
     /\ follow => m.plan.kind # "none"
     /\ m' = IF follow THEN Extended(answered) ELSE answered
     /\ accepted' = accepted \cup {<<d.stage, d.about>>}
     /\ Continue(None)
     /\ UNCHANGED <<attempts, upsets, gaps>>

Reject ==
  /\ AtRest /\ Pending /\ IsCurrent(m)
  /\ m' = Answer("rejected", "stop", None)
  /\ Continue(None)
  /\ UNCHANGED <<attempts, upsets, history>>

ReplyRevise ==
  \E k \in Revisable \cup {"report"} :
    /\ AtRest /\ Pending /\ IsCurrent(m)
    /\ (k = "report") = (m.decision.stage = "delivery")
    /\ m' = Answer("revised", "revised", k)
    /\ Continue(k) /\ Upset
    /\ UNCHANGED <<attempts, history>>

Revise ==
  \E k \in Revisable :
    /\ AtRest
    /\ Continue(k) /\ Upset
    /\ UNCHANGED <<m, attempts, history>>

\* The same reply once more: its saved revision is applied if it was not.  A
\* reply that other inputs have overtaken is left out.
Replay ==
  /\ AtRest /\ m.decision # None /\ m.decision.status = "revised"
  /\ m.inputs = m.decision.about.inputs
  /\ Continue(m.decision.saved)
  /\ UNCHANGED <<m, attempts, upsets, history>>

Resume ==
  /\ AtRest /\ m.status = "paused" /\ Next(m) # "none"
  /\ Continue(None)
  /\ UNCHANGED <<m, attempts, upsets, history>>

\* request_report with another configuration, and request_reanalysis.
RefreshReport ==
  /\ AtRest /\ ~Pending
  /\ Continue("refresh") /\ Upset
  /\ UNCHANGED <<m, attempts, history>>

Reanalyze ==
  LET rows == Rows(m.plan) IN
  /\ AtRest /\ m.status # "blocked" /\ ~Pending
  /\ \E i \in DOMAIN rows :
       /\ rows[i] \in Analyses /\ Ref(m, rows[i]) # 0 /\ Ref(m, rows[i]) = Latest(m)
       /\ \A j \in DOMAIN rows : j > i => rows[j] = "report"
  /\ Continue("reanalyze") /\ Upset
  /\ UNCHANGED <<m, attempts, history>>

\* continue_with_revision refuses an exhausted session, after the reply was
\* saved; a current attempt that failed without its artifact is let go.
Reopen ==
  LET released == m.current # 0 /\ Outcome(m.current) = "error" IN
  /\ pc = "replied"
  /\ m' = IF Exhausted THEN m
          ELSE [m EXCEPT !.status = "running", !.current = IF released THEN 0 ELSE @]
  /\ pc' = IF Exhausted THEN "idle" ELSE "continued"
  /\ wanted' = IF Exhausted THEN None ELSE wanted
  /\ UNCHANGED <<attempts, upsets, history>>

----------------------------------------------------------------------------
(* _invalidate_revised_inputs                                               *)

\* The capabilities a change makes stale, as steps: Stale below.
Delivery == {"design", "report"} \cup Analyses
Coded == {"implementation", "implementation_r1", "experiment", "experiment_r1"}
\* Fault: what was implemented and measured outlives its constraints.
StaleNotCoded(k) ==
  CASE k = "question" -> {"read"} \cup Delivery \cup Coded
    [] k = "constraints" -> Delivery
    [] k = "protocol" -> Delivery \cup {"experiment", "experiment_r1"}
    [] k = "setup" -> Delivery \cup Measurements
    [] k = "preferences" -> {"report"}
    [] OTHER -> {}

Stale(k) ==
  CASE k = "question" -> {"read"} \cup Delivery \cup Coded
    [] k = "constraints" -> Delivery \cup Coded
    [] k = "protocol" -> Delivery \cup {"experiment", "experiment_r1"}
    [] k = "setup" -> Delivery \cup Measurements
    [] k = "preferences" -> {"report"}
    [] OTHER -> {}

Drop(mm, steps) == [mm EXCEPT !.refs = [s \in Steps |-> IF s \in steps THEN 0 ELSE @[s]]]

\* Only the rows of the accepted plan are walked, besides the baseline.
Invalidated(mm, k) ==
  LET walked == Stale(k) \cap ToSet(Rows(mm.plan))
      dropped == Drop(mm, walked \cup (IF k = "setup" THEN {"baseline"} ELSE {}))
  IN IF k = "preferences" THEN Drop(mm, {"report"})
     ELSE [dropped EXCEPT !.plan = [kind |-> "none", by |-> 0],
                          !.planned = @ /\ k # "question",
                          !.decision = IF k = "outputs" THEN @ ELSE None]

\* One save of the inputs, the plan pointer and the refs.
Apply ==
  /\ Go("continued", "idle")
  /\ wanted' = None
  /\ LET cleared == [m EXCEPT !.current = 0]
         changed(mm, k) == [mm EXCEPT !.inputs[k] = @ + 1]
         r1Kept == \E s \in ToSet(Followup) : Ref(m', s) # 0
     IN /\ m' = CASE wanted = None -> m
                  [] wanted = "report" -> changed(m, "report")
                  [] wanted = "refresh" -> changed(Drop(cleared, {"report"}), "report")
                  [] wanted = "reanalyze" ->
                       [Drop(cleared, {"report", IF Latest(m) = Ref(m, "analysis")
                                                 THEN "analysis" ELSE "analysis_r1"})
                          EXCEPT !.decision = None]
                  [] OTHER -> changed(Invalidated(cleared, wanted), wanted)
        /\ gaps' = gaps
             \cup (IF \E s \in Stale(wanted) : Ref(m', s) # 0 THEN {"missed"} ELSE {})
             \cup (IF m.plan.kind = "followup" /\ m'.plan.kind = "none" /\ r1Kept
                   THEN {"rowsDropped"} ELSE {})
  /\ UNCHANGED <<attempts, upsets, accepted>>

----------------------------------------------------------------------------
(* Crashes and their recovery                                               *)

Crash ==
  /\ pc # "idle" /\ Upset
  /\ pc' = "idle" /\ wanted' = None
  /\ UNCHANGED <<m, attempts, history>>

\* recover_interrupted_attempt: of the current attempt only, without a result.
Recoverable ==
  /\ Running = {m.current} /\ m.status \notin {"completed", "blocked"}
  /\ attempts[m.current].result = "none"
Recover ==
  /\ pc = "idle" /\ Recoverable
  /\ attempts' = [attempts EXCEPT ![m.current].result = "error", ![m.current].closed = TRUE]
  /\ m' = [m EXCEPT !.status = IF Len(attempts) >= MaxAttempts THEN "blocked" ELSE "running"]
  /\ UNCHANGED pc /\ Unchanged

Calls == Reconcile \/ Advance \/ Ask \/ PauseAsked \/ Refuse \/ Begin \/ Enter \/ Handle
         \/ Commit \/ Record \/ Finish
Replies == Accept \/ Reject \/ ReplyRevise \/ Revise \/ Replay \/ Resume \/ RefreshReport
           \/ Reanalyze \/ Reopen \/ Apply
Step == Calls \/ Replies \/ Crash \/ Recover
Spec == Init /\ [][Step]_vars

----------------------------------------------------------------------------
(* Properties                                                               *)

\* The inputs a step's result is about.
About(step) ==
  CASE step = "read" -> {"question"}
    [] step = "design" -> {"question", "constraints", "protocol", "setup"}
    [] step = "baseline" -> {"setup"}
    [] step \in {"implementation", "implementation_r1"} -> {"question", "constraints"}
    [] step = "report" -> {"question", "constraints", "protocol", "setup", "preferences"}
    [] OTHER -> {"question", "constraints", "protocol", "setup"}
SameInputs(a, step, inputs) == \A k \in About(step) : a.inputs[k] = inputs[k]

\* Work is kept across revisions, crashes and follow-ups only while it stands:
\* a kept result of the plan was made for the current inputs and from the
\* results that are current now.  (A change of the execution settings alone
\* keeps an implementation of the earlier design.)
RevisedWorkStands ==
  \A s \in ToSet(Rows(m.plan)) : Ref(m, s) # 0 =>
    LET a == attempts[Ref(m, s)] IN
    /\ SameInputs(a, s, m.inputs)
    /\ s \notin {"implementation", "implementation_r1"} => a.from = Sources(m, s)

\* It does while no revision met a plan that does not name what it makes stale:
\* none, a design checkpoint, or one that lost its follow-up rows.
KeptWorkStands == gaps = {} => RevisedWorkStands

\* What was measured is not measured again: of two results of a measurement
\* with the same inputs and sources a crash, a recovery or a continuation never
\* makes the second.
MeasuredOnce ==
  \A i, j \in DOMAIN attempts :
    /\ i < j /\ attempts[i].step = attempts[j].step
    /\ attempts[i].step \in Measurements \cup {"read", "implementation", "implementation_r1"}
    /\ Keeps(i) /\ attempts[i].result # "none" /\ attempts[i].closed
    => \/ attempts[i].from # attempts[j].from
       \/ ~SameInputs(attempts[i], attempts[i].step, attempts[j].inputs)

Starts == Len(attempts') > Len(attempts)
\* Nothing is executed, followed up or written against the user's open
\* question: a session that confirms starts its first measurement after an
\* accepted protocol of these inputs, this plan and this design, a revised
\* candidate after an accepted proposal of this analysis, and a report of an
\* open goal after an accepted delivery.
UserDecides ==
  [][m.mode # "autonomous" /\ Starts =>
       LET a == Last(attempts')
           Said(stage, subject) == <<stage, subject>> \in accepted
       IN /\ a.step \in Execution /\ (\A s \in Execution : Ref(m, s) = 0) =>
               Said("execution_protocol", Subject(m, Ref(m, "design")))
          /\ a.step = "implementation_r1" =>
               \E x \in accepted : x[1] = "research_choice" /\ x[2].ref = Ref(m, "analysis")
          /\ a.step = "report" /\ m.inputs["report"] = 0 /\ Outcome(Latest(m)) # "stop" =>
               Said("delivery", Subject(m, Latest(m)))]_vars

\* A crash in the middle is not the end: a session left running can go on, its
\* open attempt be reconciled or recovered, unless the crash fell between the
\* two manifests of a new attempt or on the second planning attempt.
Orphaned ==
  \E i \in Running : \/ i # m.current
                     \/ attempts[i].step = "plan" /\ m.plan.kind # "none"
InterruptionsSettle ==
  pc = "idle" /\ m.status \in {"created", "running"} /\ ~Orphaned =>
    Recoverable \/ \A i \in ToReconcile : Reconcilable(i)

=============================================================================
