---------------------------- MODULE ResearchProofs ----------------------------
(***************************************************************************)
(* Over any number of attempts, revisions, follow-ups, crashes and         *)
(* recoveries of a research session: the user's decisions hold, an         *)
(* interrupted session settles, nothing is measured twice, and what is     *)
(* kept is of the current inputs and results.                              *)
(***************************************************************************)
EXTENDS Research, SequenceTheorems, WellFoundedInduction, TLAPS

----------------------------------------------------------------------------
(* Shapes, without the bounds of TypeOK                                     *)

AnyInputs == [Kinds -> Nat]
AnyPlan == [kind : {"none", "checkpoint", "accepted", "followup"}, by : Nat]
AnySubject == [inputs : AnyInputs, plan : AnyPlan, ref : Nat]
AnyDecision ==
  [action : {"request_input", "continue", "stop", "revise_candidate", "revised"},
   analysis : Nat, stage : Stages,
   status : {"none", "pending", "accepted", "rejected", "revised"},
   about : AnySubject, saved : Kinds \cup {None}]
AnyManifest ==
  [mode : Modes, status : {"created", "running", "paused", "blocked", "completed"},
   current : Nat, refs : [Steps -> Nat], planned : BOOLEAN, plan : AnyPlan,
   decision : AnyDecision \cup {None}, inputs : AnyInputs]
Results == Says \cup Failures \cup {"done", "none"}
AnyAttempt ==
  [step : Steps \cup {"plan"}, closed : BOOLEAN, result : Results, inputs : AnyInputs,
   from : Seq(Nat)]

----------------------------------------------------------------------------
(* What a manifest mm says of the attempts att and the accepted decisions   *)

\* A step's current result is one of that step.
Named(mm, att) ==
  \A s \in Steps : mm.refs[s] # 0 => mm.refs[s] \in DOMAIN att /\ att[mm.refs[s]].step = s

\* What the manifest calls accepted a user accepted.
Answered(mm, acc) ==
  mm.decision # None /\ mm.decision.status = "accepted" =>
    <<mm.decision.stage, mm.decision.about>> \in acc

\* A choice is about the first analysis, never about that of the follow-up.
Chosen(mm, att) ==
  mm.decision # None /\ mm.decision.stage = "research_choice" =>
    /\ mm.decision.about.ref = mm.decision.analysis
    /\ mm.decision.analysis \in DOMAIN att
    /\ att[mm.decision.analysis].step # "analysis_r1"

\* Where users confirm, a candidate is revised after an accepted choice about
\* the analysis that is current, also when other checkpoints came in between.
Proposed(mm, acc) ==
  mm.mode # "autonomous" /\ mm.decision # None /\ mm.decision.action = "revise_candidate" =>
    /\ mm.decision.analysis = Ref(mm, "analysis")
    /\ \E x \in acc : x[1] = "research_choice" /\ x[2].ref = Ref(mm, "analysis")

Sane(mm, att, acc) ==
  /\ mm \in AnyManifest
  /\ Named(mm, att) /\ Answered(mm, acc) /\ Chosen(mm, att)

\* Where the process is tells what it has: an attempt, or one that is current.
InPlace ==
  /\ m.current \in {0} \cup DOMAIN attempts
  /\ pc = "marked" => attempts # <<>>
  /\ pc \in {"handling", "resulted", "committed"} => m.current # 0

IInv ==
  /\ attempts \in Seq(AnyAttempt)
  /\ InPlace
  /\ Sane(m, attempts, accepted) /\ Proposed(m, accepted)

----------------------------------------------------------------------------
(* The helpers of the model                                                 *)

LEMMA NoDecision == None \notin AnyDecision
BY NoneAssumption DEF AnyDecision, AnySubject, AnyInputs, AnyPlan

LEMMA StepNames ==
  /\ "analysis" \in Steps /\ "analysis_r1" \in Steps /\ "report" \in Steps
  /\ "report" \notin Execution /\ "implementation_r1" \in Steps
  /\ "plan" \notin Steps /\ "none" \notin Steps \cup {"plan"}
BY DEF Steps, Analyses, Execution, Measurements

LEMMA PlanIsNoAnalysis == "plan" \notin Analyses
BY DEF Analyses

\* The least of some natural numbers is one of them, and below the others.
Less == {p \in Nat \X Nat : p[1] < p[2]}
LEMMA LeastIsIn ==
  ASSUME NEW S, S \subseteq Nat, S # {}
  PROVE  Min(S) \in S /\ \A y \in S : Min(S) =< y
<1>1. IsWellFoundedOn(Less, Nat)
  BY NatLessThanWellFounded, Zenon DEF Less, OpToRel
<1>2. PICK x \in S : \A y \in S : <<y, x>> \notin Less  BY <1>1, WFMin
<1>3. \A y \in S : x =< y
  <2> TAKE y \in S
  <2>0. x \in Nat /\ y \in Nat /\ <<y, x>> \notin Less  BY <1>2
  <2> SUFFICES ASSUME y < x PROVE FALSE  BY <2>0
  <2>1. <<y, x>> \in Nat \X Nat /\ <<y, x>>[1] < <<y, x>>[2]  BY <2>0
  <2> QED  BY <2>0, <2>1 DEF Less
<1>4. QED  BY <1>3 DEF Min

LEMMA RowsAreSteps ==
  ASSUME NEW plan \in AnyPlan
  PROVE  Rows(plan) \in Seq(Steps)
<1> USE DEF Steps, Analyses, Execution, Measurements
<1>1. Checkpoint \in Seq(Steps) /\ Followup \in Seq(Steps) /\ <<"report">> \in Seq(Steps)
      /\ <<"baseline", "implementation", "experiment", "analysis">> \in Seq(Steps)
      /\ <<>> \in Seq(Steps)
  BY DEF Checkpoint, Followup
<1>2. Executed \in Seq(Steps)  BY <1>1, ConcatProperties DEF Executed
<1>3. Executed \o Followup \in Seq(Steps)  BY <1>1, <1>2, ConcatProperties
<1>4. Executed \o <<"report">> \in Seq(Steps) /\ Executed \o Followup \o <<"report">> \in Seq(Steps)
  BY <1>1, <1>2, <1>3, ConcatProperties
<1> HIDE DEF Steps, Analyses, Execution, Measurements
<1> QED  BY <1>1, <1>4 DEF Rows, AnyPlan

\* A row that is next is due.
LEMMA NextApplies ==
  ASSUME NEW mm, mm \in AnyManifest, Next(mm) \in Steps
  PROVE  Applies(mm, Next(mm))
<1> DEFINE rows == Rows(mm.plan)
           open == {i \in DOMAIN rows : Ref(mm, rows[i]) = 0 /\ Applies(mm, rows[i])}
<1>1. open # {} /\ Next(mm) = rows[Min(open)]
  BY StepNames, Zenon DEF Next
<1>2. open \subseteq Nat
  BY RowsAreSteps DEF AnyManifest
<1> HIDE DEF open
<1>3. Min(open) \in open  BY <1>1, <1>2, LeastIsIn
<1> QED  BY <1>1, <1>3 DEF open

LEMMA LatestIs ==
  ASSUME NEW mm, mm \in AnyManifest
  PROVE  /\ Latest(mm) \in Nat
         /\ Latest(mm) = Ref(mm, "analysis")
              \/ (Latest(mm) = Ref(mm, "analysis_r1") /\ Latest(mm) # 0)
BY StepNames DEF Latest, Ref, AnyManifest

\* What is accepted of an analysis' proposal without the user.
LEMMA VerdictIs ==
  ASSUME NEW mm, NEW a
  PROVE  /\ Verdict(mm, a) \in {"stop", "required_input", "research_choice", "follow"}
         /\ Verdict(mm, a) = "follow" => mm.mode = "autonomous"
         /\ Verdict(mm, a) = "research_choice" => attempts[a].step # "analysis_r1"
BY Zenon DEF Verdict

LEMMA SubjectIs ==
  ASSUME NEW mm, mm \in AnyManifest, NEW ref \in Nat
  PROVE  Subject(mm, ref) \in AnySubject /\ Subject(mm, ref).ref = ref
BY DEF Subject, AnySubject, AnyManifest

LEMMA DecidedIsSane ==
  ASSUME NEW mm, Sane(mm, attempts, accepted), Undecided(mm) \/ Proposed(mm, accepted)
  PROVE  /\ Sane(Decided(mm), attempts, accepted) /\ Proposed(Decided(mm), accepted)
         /\ Decided(mm).current = mm.current
<1>1. CASE ~Undecided(mm)
  <2>1. Decided(mm) = mm  BY <1>1 DEF Decided
  <2> QED  BY <1>1, <2>1
<1>2. CASE Undecided(mm)
  <2> DEFINE a == Latest(mm)
             verdict == Verdict(mm, a)
             asks == verdict \in {"required_input", "research_choice"}
             action == CASE asks -> "request_input"
                         [] verdict = "follow" -> "revise_candidate"
                         [] OTHER -> "stop"
             decision == [action |-> action, analysis |-> a,
                          stage |-> IF asks THEN verdict ELSE "none",
                          status |-> IF asks THEN "pending" ELSE "none",
                          about |-> Subject(mm, a), saved |-> None]
             base == IF verdict = "follow" THEN Extended(mm) ELSE mm
  <2>1. Decided(mm) = [base EXCEPT !.decision = decision]
    BY <1>2 DEF Decided
  <2>2. a \in Nat /\ a # 0 /\ a \in DOMAIN attempts
    BY <1>2, LatestIs, StepNames DEF Undecided, Sane, Named, Ref
  <2>3. /\ verdict \in {"stop", "required_input", "research_choice", "follow"}
        /\ verdict = "follow" => mm.mode = "autonomous"
        /\ verdict = "research_choice" => attempts[a].step # "analysis_r1"
    BY VerdictIs
  <2>4. Subject(mm, a) \in AnySubject /\ Subject(mm, a).ref = a
    BY <2>2, SubjectIs DEF Sane
  <2>5. /\ base \in AnyManifest /\ base.refs = mm.refs /\ base.mode = mm.mode
        /\ base.current = mm.current
    BY DEF Sane, Extended, AnyManifest, AnyPlan
  <2> HIDE DEF a, verdict, base
  <2>6. /\ action \in {"request_input", "revise_candidate", "stop"}
        /\ action = "revise_candidate" => verdict = "follow"
    BY Zenon
  <2> HIDE DEF action
  <2>7. /\ decision \in AnyDecision /\ decision.analysis = a /\ decision.about.ref = a
        /\ decision.status # "accepted" /\ decision.action = action
        /\ decision.stage = "research_choice" => verdict = "research_choice"
    BY <2>2, <2>3, <2>4, <2>6 DEF AnyDecision, Stages
  <2> HIDE DEF decision
  <2>8. /\ Decided(mm) \in AnyManifest /\ Decided(mm).refs = mm.refs
        /\ Decided(mm).mode = mm.mode /\ Decided(mm).decision = decision
        /\ Decided(mm).current = mm.current
    BY <2>1, <2>5, <2>7 DEF AnyManifest
  <2>9. Named(Decided(mm), attempts)  BY <2>8 DEF Sane, Named
  <2>10. Answered(Decided(mm), accepted) /\ Chosen(Decided(mm), attempts)
    BY <2>2, <2>3, <2>7, <2>8 DEF Answered, Chosen
  <2>11. Proposed(Decided(mm), accepted)
    BY <2>3, <2>6, <2>7, <2>8 DEF Proposed
  <2> QED  BY <2>8, <2>9, <2>10, <2>11 DEF Sane
<1> QED  BY <1>1, <1>2

\* A new first analysis is not the one a revised candidate was accepted for,
\* so it is decided anew.
LEMMA RecordedIsSane ==
  ASSUME NEW mm, Sane(mm, attempts, accepted), Proposed(mm, accepted),
         attempts \in Seq(AnyAttempt), NEW i \in DOMAIN attempts
  PROVE  /\ Sane(Recorded(mm, i), attempts, accepted) /\ Proposed(Recorded(mm, i), accepted)
         /\ Recorded(mm, i).current = mm.current
<1> DEFINE step == attempts[i].step
           bound == [mm EXCEPT !.refs[step] = i]
           planned == [mm EXCEPT !.planned = TRUE,
                         !.plan = [kind |-> IF Ref(mm, "design") # 0 THEN "accepted" ELSE "checkpoint",
                                   by |-> i]]
<1>0. i \in Nat /\ i # 0 /\ step \in Steps \cup {"plan"}
  <2>1. i \in 1 .. Len(attempts) /\ attempts[i] \in AnyAttempt  OBVIOUS
  <2> QED  BY <2>1 DEF AnyAttempt
<1>1. CASE step = "plan"
  <2>1. Recorded(mm, i) = planned
    BY <1>1, PlanIsNoAnalysis, Zenon DEF Recorded
  <2>2. /\ planned \in AnyManifest /\ planned.refs = mm.refs /\ planned.mode = mm.mode
        /\ planned.decision = mm.decision /\ planned.current = mm.current
    BY <1>0 DEF Sane, AnyManifest, AnyPlan
  <2> HIDE DEF planned
  <2> QED  BY <2>1, <2>2 DEF Sane, Named, Answered, Chosen, Proposed, Ref
<1>2. CASE step \in Steps
  <2>1. /\ bound \in AnyManifest /\ bound.mode = mm.mode /\ bound.decision = mm.decision
        /\ bound.plan = mm.plan /\ bound.current = mm.current
        /\ \A s \in Steps : bound.refs[s] = IF s = step THEN i ELSE mm.refs[s]
    BY <1>0, <1>2 DEF Sane, AnyManifest
  <2> HIDE DEF bound
  <2>2. Sane(bound, attempts, accepted)
    BY <2>1 DEF Sane, Named, Answered, Chosen
  <2>3. CASE step \in Analyses
    <3>1. Recorded(mm, i) = Decided(bound)
      BY <1>2, <2>3, StepNames, Zenon DEF Recorded, bound
    <3>2. Undecided(bound) \/ Proposed(bound, accepted)
      <4> SUFFICES ASSUME ~Undecided(bound), ~Proposed(bound, accepted) PROVE FALSE
        OBVIOUS
      <4>1. /\ mm.mode # "autonomous" /\ mm.decision # None
            /\ mm.decision.action = "revise_candidate"
        BY <2>1 DEF Proposed
      <4>2. /\ mm.decision.analysis = mm.refs["analysis"]
            /\ \E x \in accepted : x[1] = "research_choice" /\ x[2].ref = mm.refs["analysis"]
        BY <4>1 DEF Proposed, Ref
      <4>3. step = "analysis" /\ mm.refs["analysis"] # i
        BY <2>1, <4>1, <4>2, StepNames DEF Proposed, Ref
      <4>4. Latest(bound) # 0
        BY <1>0, <2>1, <4>3, LatestIs, StepNames DEF Ref
      <4>5. Latest(bound) = mm.refs["analysis"]
        BY <2>1, <4>1, <4>2, <4>4 DEF Undecided
      <4>6. Latest(bound) = mm.refs["analysis_r1"]
        BY <2>1, <4>3, <4>5, LatestIs, StepNames DEF Ref
      <4> QED  BY <4>4, <4>5, <4>6, StepNames DEF Sane, Named
    <3> QED  BY <2>1, <2>2, <3>1, <3>2, DecidedIsSane
  <2>4. CASE step \notin Analyses
    <3>1. Recorded(mm, i) = bound
      BY <1>2, <2>4, StepNames, Zenon DEF Recorded, bound
    <3>2. bound.refs["analysis"] = mm.refs["analysis"]
      BY <2>1, <2>4, StepNames DEF Analyses
    <3>3. Proposed(bound, accepted)
      BY <2>1, <3>2 DEF Proposed, Ref
    <3> QED  BY <2>1, <2>2, <3>1, <3>3
  <2> QED  BY <2>3, <2>4
<1> QED  BY <1>0, <1>1, <1>2

----------------------------------------------------------------------------
(* Steps                                                                    *)

\* Attempts are only added to; no step renames one.
Grows(att, new) ==
  /\ new \in Seq(AnyAttempt) /\ DOMAIN att \subseteq DOMAIN new
  /\ \A i \in DOMAIN att : new[i].step = att[i].step

LEMMA SaneGrows ==
  ASSUME NEW mm, NEW att, NEW acc, NEW new, NEW more, Sane(mm, att, acc),
         Grows(att, new), acc \subseteq more
  PROVE  Sane(mm, new, more) /\ (Proposed(mm, acc) => Proposed(mm, more))
BY DEF Sane, Named, Answered, Chosen, Proposed, Grows

\* The outcome of an attempt, or its end.
LEMMA MarkGrows ==
  ASSUME NEW att \in Seq(AnyAttempt), NEW i \in DOMAIN att,
         NEW closed \in BOOLEAN, NEW result \in Results
  PROVE  /\ Grows(att, [att EXCEPT ![i].closed = closed])
         /\ Grows(att, [att EXCEPT ![i].result = result])
         /\ Grows(att, [att EXCEPT ![i].result = result, ![i].closed = closed])
         /\ DOMAIN [att EXCEPT ![i].closed = closed] = DOMAIN att
         /\ DOMAIN [att EXCEPT ![i].result = result] = DOMAIN att
         /\ DOMAIN [att EXCEPT ![i].result = result, ![i].closed = closed] = DOMAIN att
<1>1. i \in 1 .. Len(att) /\ att[i] \in AnyAttempt  OBVIOUS
<1>2. ASSUME NEW e \in AnyAttempt, e.step = att[i].step
      PROVE  Grows(att, [att EXCEPT ![i] = e])
  BY <1>1, <1>2, ExceptSeq DEF Grows
<1>3. /\ [att[i] EXCEPT !.closed = closed] \in AnyAttempt
      /\ [att[i] EXCEPT !.result = result] \in AnyAttempt
      /\ [att[i] EXCEPT !.result = result, !.closed = closed] \in AnyAttempt
      /\ [att[i] EXCEPT !.closed = closed].step = att[i].step
      /\ [att[i] EXCEPT !.result = result].step = att[i].step
      /\ [att[i] EXCEPT !.result = result, !.closed = closed].step = att[i].step
  BY <1>1 DEF AnyAttempt
<1>4. /\ [att EXCEPT ![i].closed = closed] = [att EXCEPT ![i] = [att[i] EXCEPT !.closed = closed]]
      /\ [att EXCEPT ![i].result = result] = [att EXCEPT ![i] = [att[i] EXCEPT !.result = result]]
      /\ [att EXCEPT ![i].result = result, ![i].closed = closed]
           = [att EXCEPT ![i] = [att[i] EXCEPT !.result = result, !.closed = closed]]
  BY <1>1
<1> QED  BY <1>2, <1>3, <1>4

WithStatus(mm, status) == [mm EXCEPT !.status = status]
Turned(mm, id) == [mm EXCEPT !.status = "running", !.current = id]

LEMMA StatusIsSane ==
  ASSUME NEW mm, NEW att, NEW acc, Sane(mm, att, acc), Proposed(mm, acc),
         NEW status \in {"created", "running", "paused", "blocked", "completed"}
  PROVE  /\ Sane(WithStatus(mm, status), att, acc) /\ Proposed(WithStatus(mm, status), acc)
         /\ WithStatus(mm, status).current = mm.current
<1> DEFINE new == WithStatus(mm, status)
<1>1. /\ new \in AnyManifest /\ new.refs = mm.refs /\ new.mode = mm.mode
      /\ new.decision = mm.decision /\ new.current = mm.current
  BY DEF Sane, AnyManifest, WithStatus
<1> HIDE DEF new
<1>2. Sane(new, att, acc) /\ Proposed(new, acc)
  BY <1>1 DEF Sane, Named, Answered, Chosen, Proposed, Ref
<1> QED  BY <1>1, <1>2 DEF new

LEMMA CurrentIsSane ==
  ASSUME NEW mm, NEW att, NEW acc, Sane(mm, att, acc), Proposed(mm, acc), NEW id \in Nat
  PROVE  /\ Sane(Turned(mm, id), att, acc) /\ Proposed(Turned(mm, id), acc)
         /\ Turned(mm, id).current = id
<1> DEFINE new == Turned(mm, id)
<1>1. /\ new \in AnyManifest /\ new.refs = mm.refs /\ new.mode = mm.mode
      /\ new.decision = mm.decision /\ new.current = id
  BY DEF Sane, AnyManifest, Turned
<1> HIDE DEF new
<1>2. Sane(new, att, acc) /\ Proposed(new, acc)
  BY <1>1 DEF Sane, Named, Answered, Chosen, Proposed, Ref
<1> QED  BY <1>1, <1>2 DEF new

LEMMA OutcomesAreResults ==
  ASSUME NEW step
  PROVE  Outcomes(step) \subseteq Results
<1>0. Analyses \cap (Measurements \cup {"report"}) = {}
  BY DEF Analyses, Measurements
<1>1. CASE step \in Analyses
  <2>1. step \notin Measurements \cup {"report"}  BY <1>0, <1>1
  <2>2. Outcomes(step) = Says \cup Failures  BY <1>1, <2>1, Zenon DEF Outcomes
  <2> QED  BY <2>2 DEF Results
<1>2. CASE step \in Measurements \cup {"report"}
  <2>1. step \notin Analyses  BY <1>0, <1>2
  <2>2. Outcomes(step) = {"done"} \cup Failures  BY <1>2, <2>1, Zenon DEF Outcomes
  <2> QED  BY <2>2 DEF Results
<1>3. CASE step \notin Analyses /\ step \notin Measurements \cup {"report"}
  <2>1. Outcomes(step) = {"done", "error"}  BY <1>3, Zenon DEF Outcomes
  <2> QED  BY <2>1 DEF Results, Failures
<1> QED  BY <1>1, <1>2, <1>3

LEMMA SourcesAreIds ==
  ASSUME NEW mm, mm \in AnyManifest, NEW step
  PROVE  Sources(mm, step) \in Seq(Nat)
<1>1. \A s \in Steps : Ref(mm, s) \in Nat  BY DEF AnyManifest, Ref
<1>2. Latest(mm) \in Nat  BY LatestIs
<1>3. \A a, b \in Nat : <<a>> \in Seq(Nat) /\ <<a, b>> \in Seq(Nat) /\ <<>> \in Seq(Nat)
  OBVIOUS
<1>4. /\ {"read", "design", "baseline", "implementation", "experiment", "analysis"} \subseteq Steps
      /\ {"implementation_r1", "experiment_r1"} \subseteq Steps
  BY DEF Steps, Execution, Measurements, Analyses
<1> QED  BY <1>1, <1>2, <1>3, <1>4, Zenon DEF Sources

\* advance(): what is reconciled or recorded, and the pause after it.
LEMMA RecordStep ==
  ASSUME IInv, Reconcile \/ Record \/ Commit \/ Handle
  PROVE  IInv'
<1> USE DEF IInv, InPlace, Go
<1>1. CASE Reconcile
  <2>1. PICK i \in ToReconcile :
          LET seen == IF attempts[i].closed THEN m ELSE [m EXCEPT !.current = i, !.status = "running"]
          IN /\ attempts' = Close(i)
             /\ m' = IF Keeps(i) THEN Recorded(seen, i) ELSE Pause(seen)
             /\ pc' \in {"ready", "idle"} /\ UNCHANGED accepted
    BY <1>1 DEF Reconcile, Unchanged, history
  <2> DEFINE seen == IF attempts[i].closed THEN m ELSE [m EXCEPT !.current = i, !.status = "running"]
  <2>2. i \in DOMAIN attempts /\ i \in Nat
    BY DEF ToReconcile, Running, Unrecorded
  <2>3. Sane(seen, attempts, accepted) /\ Proposed(seen, accepted)
        /\ seen.current \in {0} \cup DOMAIN attempts
    <3>1. [m EXCEPT !.current = i, !.status = "running"] = Turned(m, i)
      BY DEF Sane, AnyManifest, Turned
    <3>2. CASE attempts[i].closed
      BY <3>2
    <3>3. CASE ~attempts[i].closed
      <4>1. seen = Turned(m, i)  BY <3>1, <3>3
      <4> HIDE DEF seen
      <4> QED  BY <2>2, <4>1, CurrentIsSane
    <3> QED  BY <3>2, <3>3
  <2>4. m' = Recorded(seen, i) \/ m' = WithStatus(seen, "paused")
    BY <2>1 DEF Pause, WithStatus
  <2> HIDE DEF seen
  <2>5. Sane(m', attempts, accepted) /\ Proposed(m', accepted) /\ m'.current = seen.current
    BY <2>4, <2>2, <2>3, RecordedIsSane, StatusIsSane
  <2>6. Grows(attempts, attempts') /\ DOMAIN attempts' = DOMAIN attempts
    BY <2>1, <2>2, MarkGrows DEF Close, Results
  <2>7. Sane(m', attempts', accepted') /\ Proposed(m', accepted')
    BY <2>1, <2>5, <2>6, SaneGrows
  <2> QED  BY <2>1, <2>3, <2>5, <2>6, <2>7 DEF Grows
<1>2. CASE Record
  <2>1. m.current \in DOMAIN attempts /\ UNCHANGED <<attempts, accepted>> /\ pc' \in {"finish", "idle"}
    BY <1>2 DEF Record, Unchanged, history
  <2>2. \/ m' = Recorded(m, m.current)
        \/ m' = WithStatus(Recorded(m, m.current), "paused") \/ m' = WithStatus(m, "paused")
    BY <1>2 DEF Record, Pause, WithStatus
  <2>3. Sane(Recorded(m, m.current), attempts, accepted)
        /\ Proposed(Recorded(m, m.current), accepted)
        /\ Recorded(m, m.current).current = m.current
    BY <2>1, RecordedIsSane
  <2>4. Sane(m', attempts, accepted) /\ Proposed(m', accepted) /\ m'.current = m.current
    BY <2>2, <2>3, StatusIsSane
  <2> QED  BY <2>1, <2>4
<1>3. CASE Commit \/ Handle
  <2>1. m.current \in DOMAIN attempts /\ UNCHANGED <<m, accepted>> /\ pc' \in {"committed", "resulted"}
    BY <1>3 DEF Commit, Handle, Unchanged, history
  <2>2. Grows(attempts, attempts') /\ DOMAIN attempts' = DOMAIN attempts
    <3>1. CASE Commit
      BY <2>1, <3>1, MarkGrows DEF Commit, Close, Results
    <3>2. CASE Handle
      <4>1. PICK outcome \in Results : attempts' = [attempts EXCEPT ![m.current].result = outcome]
        BY <3>2, OutcomesAreResults DEF Handle
      <4> QED  BY <2>1, <4>1, MarkGrows
    <3> QED  BY <1>3, <3>1, <3>2
  <2>3. Sane(m', attempts', accepted') /\ Proposed(m', accepted')
    BY <2>1, <2>2, SaneGrows
  <2> QED  BY <1>3, <2>1, <2>2, <2>3 DEF Grows
<1> QED  BY <1>1, <1>2, <1>3

LEMMA BeginStep ==
  ASSUME IInv, Begin
  PROVE  /\ IInv' /\ Len(attempts') > Len(attempts)
         /\ \E step \in Steps \cup {"plan"} : Dispatched(step) /\ Last(attempts').step = step
<1>1. PICK step \in Steps \cup {"plan"} :
        /\ Dispatched(step)
        /\ attempts' = Append(attempts, [step |-> step, closed |-> FALSE, result |-> "none",
                                         inputs |-> m.inputs, from |-> Sources(m, step)])
        /\ pc' = "marked" /\ UNCHANGED <<m, accepted>>
  BY DEF Begin, Unchanged, history
<1> DEFINE a == [step |-> step, closed |-> FALSE, result |-> "none",
                 inputs |-> m.inputs, from |-> Sources(m, step)]
<1>2. a \in AnyAttempt /\ a.step = step
  BY SourcesAreIds DEF IInv, Sane, AnyManifest, AnyAttempt, Results
<1> HIDE DEF a
<1>3. attempts' = Append(attempts, a)  BY <1>1 DEF a
<1>4. /\ attempts' \in Seq(AnyAttempt) /\ attempts' # <<>>
      /\ Len(attempts') = Len(attempts) + 1 /\ Last(attempts').step = step
      /\ \A i \in DOMAIN attempts : i \in DOMAIN attempts' /\ attempts'[i] = attempts[i]
  BY <1>2, <1>3, AppendProperties DEF IInv, Last
<1>5. Grows(attempts, attempts')  BY <1>4 DEF Grows
<1>6. Sane(m', attempts', accepted') /\ Proposed(m', accepted')
  BY <1>1, <1>5, SaneGrows DEF IInv
<1>7. InPlace'
  BY <1>1, <1>4 DEF IInv, InPlace
<1>8. Len(attempts) \in Nat  BY DEF IInv
<1>9. IInv'  BY <1>4, <1>6, <1>7 DEF IInv
<1>10. Len(attempts') > Len(attempts)  BY <1>4, <1>8
<1> QED  BY <1>1, <1>4, <1>9, <1>10

\* A checkpoint keeps the choice that came before it.
LEMMA AskStep ==
  ASSUME IInv, Ask
  PROVE  IInv'
<1> DEFINE stage == StageOf(m, Next(m))
           decision == [action |-> IF m.decision = None THEN "request_input" ELSE m.decision.action,
                        analysis |-> IF m.decision = None THEN 0 ELSE m.decision.analysis,
                        stage |-> stage, status |-> "pending",
                        about |-> SubjectOf(m, stage), saved |-> None]
<1>1. /\ m' = [m EXCEPT !.decision = decision] /\ pc' = "asked" /\ UNCHANGED <<attempts, accepted>>
      /\ m \in AnyManifest
  BY DEF IInv, Sane, Ask, Unchanged, Go, history
<1>2. stage \in {"none", "execution_protocol", "delivery"}
  BY DEF StageOf
<1>3. SubjectOf(m, stage) \in AnySubject
  <2>1. Ref(m, "design") \in Nat /\ Latest(m) \in Nat
    BY <1>1, LatestIs DEF AnyManifest, Ref, Steps
  <2> QED  BY <1>1, <2>1, SubjectIs DEF SubjectOf
<1> HIDE DEF stage
<1>4. decision \in AnyDecision /\ decision.status = "pending" /\ decision.stage = stage
      /\ (m.decision # None =>
            decision.action = m.decision.action /\ decision.analysis = m.decision.analysis)
      /\ (m.decision = None => decision.action = "request_input")
  BY <1>1, <1>2, <1>3 DEF AnyManifest, AnyDecision, Stages
<1> HIDE DEF decision
<1>5. /\ m' \in AnyManifest /\ m'.refs = m.refs /\ m'.mode = m.mode /\ m'.decision = decision
      /\ m'.current = m.current
  BY <1>1, <1>4 DEF AnyManifest
<1>6. Sane(m', attempts', accepted')
  BY <1>1, <1>2, <1>4, <1>5 DEF IInv, Sane, Named, Answered, Chosen
<1>7. Proposed(m', accepted')
  BY <1>1, <1>4, <1>5 DEF IInv, Proposed, Ref
<1> QED  BY <1>1, <1>5, <1>6, <1>7 DEF IInv, InPlace

LEMMA StatusStep ==
  ASSUME IInv, Advance \/ PauseAsked \/ Refuse \/ Enter \/ Finish
  PROVE  IInv'
<1> USE DEF IInv, InPlace, Go, Unchanged, history
<1>1. CASE Advance
  BY <1>1 DEF Advance
<1>2. CASE PauseAsked \/ Refuse
  <2>1. /\ \E status \in {"paused", "blocked"} : m' = WithStatus(m, status)
        /\ pc' = "idle" /\ UNCHANGED <<attempts, accepted>>
    BY <1>2 DEF PauseAsked, Refuse, Pause, WithStatus
  <2>2. Sane(m', attempts, accepted) /\ Proposed(m', accepted) /\ m'.current = m.current
    BY <2>1, StatusIsSane
  <2> QED  BY <2>1, <2>2
<1>3. CASE Enter
  <2>1. Len(attempts) \in DOMAIN attempts /\ Len(attempts) \in Nat /\ Len(attempts) # 0
    BY <1>3 DEF Enter
  <2>2. /\ m' = Turned(m, Len(attempts))
        /\ pc' = "handling" /\ UNCHANGED <<attempts, accepted>>
    BY <1>3 DEF Enter, Turned
  <2>3. Sane(m', attempts, accepted) /\ Proposed(m', accepted) /\ m'.current = Len(attempts)
    BY <2>1, <2>2, CurrentIsSane
  <2> QED  BY <2>1, <2>2, <2>3
<1>4. CASE Finish
  <2>1. /\ pc' = "idle" /\ UNCHANGED <<attempts, accepted>>
        /\ \/ m' = m
           \/ \E status \in {"paused", "completed"} : m' = WithStatus(Decided(m), status)
    BY <1>4 DEF Finish, Pause, WithStatus
  <2>2. Sane(Decided(m), attempts, accepted) /\ Proposed(Decided(m), accepted)
        /\ Decided(m).current = m.current
    BY DecidedIsSane
  <2>3. Sane(m', attempts, accepted) /\ Proposed(m', accepted) /\ m'.current = m.current
    BY <2>1, <2>2, StatusIsSane
  <2> QED  BY <2>1, <2>3
<1> QED  BY <1>1, <1>2, <1>3, <1>4

\* continue_session(): the decision's record changes, its stage, subject and
\* analysis do not.
Replied(mm, status, action, saved) ==
  [mm EXCEPT !.decision = [@ EXCEPT !.status = status, !.action = action, !.saved = saved]]

LEMMA ReplyIs ==
  ASSUME NEW mm, mm \in AnyManifest, mm.decision # None,
         NEW status \in {"none", "pending", "accepted", "rejected", "revised"},
         NEW action \in {"request_input", "continue", "stop", "revise_candidate", "revised"},
         NEW saved \in Kinds \cup {None}
  PROVE  LET new == Replied(mm, status, action, saved) IN
         /\ new \in AnyManifest /\ new.refs = mm.refs /\ new.mode = mm.mode
         /\ new.current = mm.current /\ new.inputs = mm.inputs /\ new.plan = mm.plan
         /\ new.decision \in AnyDecision
         /\ new.decision.stage = mm.decision.stage /\ new.decision.about = mm.decision.about
         /\ new.decision.analysis = mm.decision.analysis
         /\ new.decision.status = status /\ new.decision.action = action
<1> DEFINE d == [mm.decision EXCEPT !.status = status, !.action = action, !.saved = saved]
           new == Replied(mm, status, action, saved)
<1>1. mm.decision \in AnyDecision  BY DEF AnyManifest
<1>2. /\ d \in AnyDecision /\ d.stage = mm.decision.stage /\ d.about = mm.decision.about
      /\ d.analysis = mm.decision.analysis /\ d.status = status /\ d.action = action
  BY <1>1 DEF AnyDecision
<1>3. new = [mm EXCEPT !.decision = d]  BY DEF Replied
<1> HIDE DEF d, new
<1>4. /\ new \in AnyManifest /\ new.refs = mm.refs /\ new.mode = mm.mode
      /\ new.current = mm.current /\ new.inputs = mm.inputs /\ new.plan = mm.plan
      /\ new.decision = d
  BY <1>2, <1>3 DEF AnyManifest
<1>5. /\ new \in AnyManifest /\ new.refs = mm.refs /\ new.mode = mm.mode
      /\ new.current = mm.current /\ new.inputs = mm.inputs /\ new.plan = mm.plan
      /\ new.decision \in AnyDecision
      /\ new.decision.stage = mm.decision.stage /\ new.decision.about = mm.decision.about
      /\ new.decision.analysis = mm.decision.analysis
      /\ new.decision.status = status /\ new.decision.action = action
  BY <1>2, <1>4
<1> QED  BY <1>5 DEF new

LEMMA RefusalStep ==
  ASSUME IInv, Reject \/ ReplyRevise
  PROVE  IInv'
<1>1. PICK status \in {"rejected", "revised"}, action \in {"stop", "revised"},
           saved \in Kinds \cup {None} :
        /\ m' = Replied(m, status, action, saved) /\ m.decision # None
        /\ pc' = "replied" /\ UNCHANGED <<attempts, accepted>>
  <2>1. CASE Reject
    BY <2>1 DEF Reject, Answer, Replied, Pending, Continue, history
  <2>2. CASE ReplyRevise
    <3>1. PICK k \in Revisable \cup {"report"} : m' = Answer("revised", "revised", k)
      BY <2>2 DEF ReplyRevise
    <3>2. k \in Kinds
      BY <3>1, ResearchAssumption DEF Kinds
    <3>3. m.decision # None /\ pc' = "replied" /\ UNCHANGED <<attempts, accepted>>
      BY <2>2 DEF ReplyRevise, Pending, Continue, history
    <3>4. m' = Replied(m, "revised", "revised", k)  BY <3>1 DEF Answer, Replied
    <3> QED  BY <3>2, <3>3, <3>4
  <2> QED  BY <2>1, <2>2
<1>2. /\ m' \in AnyManifest /\ m'.refs = m.refs /\ m'.mode = m.mode /\ m'.current = m.current
      /\ m'.decision.stage = m.decision.stage /\ m'.decision.about = m.decision.about
      /\ m'.decision.analysis = m.decision.analysis
      /\ m'.decision.status = status /\ m'.decision.action = action
  BY <1>1, ReplyIs DEF IInv, Sane
<1>3. Sane(m', attempts', accepted') /\ Proposed(m', accepted')
  BY <1>1, <1>2 DEF IInv, Sane, Named, Answered, Chosen, Proposed
<1> QED  BY <1>1, <1>2, <1>3 DEF IInv, InPlace

\* An accepted choice is one about the first analysis, which is current.
LEMMA AcceptStep ==
  ASSUME IInv, Accept
  PROVE  IInv'
<1> DEFINE d == m.decision
           follow == d.stage = "research_choice"
           action == IF follow THEN "revise_candidate"
                     ELSE IF d.action = "request_input" THEN "continue" ELSE d.action
           answered == Replied(m, "accepted", action, None)
<1>1. /\ m.decision # None /\ IsCurrent(m)
      /\ m' = IF follow THEN Extended(answered) ELSE answered
      /\ accepted' = accepted \cup {<<d.stage, d.about>>}
      /\ pc' = "replied" /\ attempts' = attempts
  BY DEF Accept, Pending, Continue, Answer, Replied
<1>2. d \in AnyDecision  BY <1>1 DEF IInv, Sane, AnyManifest
<1>3. action \in {"request_input", "continue", "stop", "revise_candidate", "revised"}
  BY <1>2 DEF AnyDecision
<1>4. /\ answered \in AnyManifest /\ answered.refs = m.refs /\ answered.mode = m.mode
      /\ answered.current = m.current
      /\ answered.decision.stage = d.stage /\ answered.decision.about = d.about
      /\ answered.decision.analysis = d.analysis
      /\ answered.decision.status = "accepted" /\ answered.decision.action = action
  <2> HIDE DEF action
  <2> QED  BY <1>1, <1>3, ReplyIs DEF IInv, Sane
<1> HIDE DEF answered
<1>5. /\ m' \in AnyManifest /\ m'.refs = m.refs /\ m'.mode = m.mode /\ m'.current = m.current
      /\ m'.decision = answered.decision
  BY <1>1, <1>4 DEF Extended, AnyManifest, AnyPlan
<1>6. follow => d.analysis = Ref(m, "analysis") /\ d.about.ref = Ref(m, "analysis")
  <2> SUFFICES ASSUME follow PROVE d.analysis = Ref(m, "analysis") /\ d.about.ref = d.analysis
    OBVIOUS
  <2>1. /\ d.about.ref = d.analysis /\ d.analysis \in DOMAIN attempts
        /\ attempts[d.analysis].step # "analysis_r1"
    BY <1>1 DEF IInv, Sane, Chosen
  <2>2. d.about.ref = Latest(m)
    BY <1>1, Zenon DEF IsCurrent
  <2>3. Latest(m) = Ref(m, "analysis")
    BY <2>1, <2>2, LatestIs, StepNames DEF IInv, Sane, Named, Ref
  <2> QED  BY <2>1, <2>2, <2>3
<1>7. Sane(m', attempts', accepted')
  BY <1>1, <1>4, <1>5 DEF IInv, Sane, Named, Answered, Chosen
<1>8. Proposed(m', accepted')
  <2>1. CASE follow
    <3>1. /\ m'.decision.analysis = Ref(m', "analysis")
          /\ <<d.stage, d.about>> \in accepted' /\ d.stage = "research_choice"
          /\ d.about.ref = Ref(m', "analysis")
      BY <1>1, <1>4, <1>5, <1>6, <2>1 DEF Ref
    <3> QED  BY <3>1 DEF Proposed
  <2>2. CASE ~follow
    BY <1>1, <1>4, <1>5, <2>2 DEF IInv, Proposed, Ref
  <2> QED  BY <2>1, <2>2
<1> QED  BY <1>1, <1>5, <1>7, <1>8 DEF IInv, InPlace

\* A manifest that lost results, but keeps its choice only with the analysis
\* the choice was about.
LEMMA RetiredIsSane ==
  ASSUME NEW mm, NEW att, NEW acc, Sane(mm, att, acc), Proposed(mm, acc),
         NEW new, new \in AnyManifest, new.mode = mm.mode,
         \A s \in Steps : new.refs[s] \in {0, mm.refs[s]},
         \/ new.decision = None
         \/ new.decision = mm.decision /\ Ref(new, "analysis") = Ref(mm, "analysis")
  PROVE  Sane(new, att, acc) /\ Proposed(new, acc)
BY DEF Sane, Named, Answered, Chosen, Proposed

LEMMA DropIs ==
  ASSUME NEW mm, mm \in AnyManifest, NEW steps
  PROVE  LET new == Drop(mm, steps) IN
         /\ new \in AnyManifest /\ new.mode = mm.mode /\ new.decision = mm.decision
         /\ new.current = mm.current
         /\ \A s \in Steps : new.refs[s] = IF s \in steps THEN 0 ELSE mm.refs[s]
BY DEF Drop, AnyManifest

Changed(mm, k) == [mm EXCEPT !.inputs[k] = @ + 1]

LEMMA ChangedIs ==
  ASSUME NEW mm, mm \in AnyManifest, NEW k
  PROVE  /\ Changed(mm, k) \in AnyManifest /\ Changed(mm, k).mode = mm.mode
         /\ Changed(mm, k).decision = mm.decision /\ Changed(mm, k).current = mm.current
         /\ Changed(mm, k).refs = mm.refs
BY DEF Changed, AnyManifest, AnyInputs

LEMMA NothingStale == Stale("outputs") = {}
BY DEF Stale

\* A revision: outputs alone keep the decision, and no result is stale then.
LEMMA InvalidatedIs ==
  ASSUME NEW mm, mm \in AnyManifest, NEW k
  PROVE  LET new == Invalidated(mm, k) IN
         /\ new \in AnyManifest /\ new.mode = mm.mode /\ new.current = mm.current
         /\ \A s \in Steps : new.refs[s] \in {0, mm.refs[s]}
         /\ new.decision = None
              \/ (new.decision = mm.decision /\ new.refs["analysis"] = mm.refs["analysis"])
<1> DEFINE walked == Stale(k) \cap ToSet(Rows(mm.plan))
           steps == walked \cup (IF k = "setup" THEN {"baseline"} ELSE {})
           dropped == Drop(mm, steps)
           new == Invalidated(mm, k)
<1>1. /\ dropped \in AnyManifest /\ dropped.mode = mm.mode /\ dropped.decision = mm.decision
      /\ dropped.current = mm.current
      /\ \A s \in Steps : dropped.refs[s] = IF s \in steps THEN 0 ELSE mm.refs[s]
  BY DropIs
<1>2. k = "outputs" => "analysis" \notin steps
  BY NothingStale
<1>3. CASE k = "preferences"
  <2>1. new = Drop(mm, {"report"})  BY <1>3 DEF Invalidated
  <2> HIDE DEF new
  <2>2. /\ new \in AnyManifest /\ new.mode = mm.mode /\ new.decision = mm.decision
        /\ new.current = mm.current
        /\ \A s \in Steps : new.refs[s] = IF s \in {"report"} THEN 0 ELSE mm.refs[s]
    BY <2>1, DropIs
  <2>3. /\ new \in AnyManifest /\ new.mode = mm.mode /\ new.current = mm.current
        /\ \A s \in Steps : new.refs[s] \in {0, mm.refs[s]}
        /\ new.decision = mm.decision /\ new.refs["analysis"] = mm.refs["analysis"]
    BY <2>2, StepNames
  <2> QED  BY <2>3 DEF new
<1>4. CASE k # "preferences"
  <2>1. new = [dropped EXCEPT !.plan = [kind |-> "none", by |-> 0],
                              !.planned = @ /\ k # "question",
                              !.decision = IF k = "outputs" THEN @ ELSE None]
    BY <1>4 DEF Invalidated
  <2> HIDE DEF new, dropped, steps
  <2>2. /\ new \in AnyManifest /\ new.mode = mm.mode /\ new.current = mm.current
        /\ new.refs = dropped.refs
        /\ new.decision = IF k = "outputs" THEN mm.decision ELSE None
    BY <1>1, <2>1 DEF AnyManifest, AnyPlan
  <2>3. /\ new \in AnyManifest /\ new.mode = mm.mode /\ new.current = mm.current
        /\ \A s \in Steps : new.refs[s] \in {0, mm.refs[s]}
        /\ new.decision = None
             \/ (new.decision = mm.decision /\ new.refs["analysis"] = mm.refs["analysis"])
    BY <1>1, <1>2, <2>2, StepNames
  <2> QED  BY <2>3 DEF new
<1> QED  BY <1>3, <1>4

LEMMA ApplyStep ==
  ASSUME IInv, Apply
  PROVE  IInv'
<1> DEFINE cleared == [m EXCEPT !.current = 0]
           reset == Drop(cleared, {"report", IF Latest(m) = Ref(m, "analysis")
                                             THEN "analysis" ELSE "analysis_r1"})
<1>1. /\ pc' = "idle" /\ UNCHANGED <<attempts, accepted>>
      /\ m' = CASE wanted = None -> m
                 [] wanted = "report" -> Changed(m, "report")
                 [] wanted = "refresh" -> Changed(Drop(cleared, {"report"}), "report")
                 [] wanted = "reanalyze" -> [reset EXCEPT !.decision = None]
                 [] OTHER -> Changed(Invalidated(cleared, wanted), wanted)
  BY DEF Apply, Go, Changed
<1>2. /\ cleared \in AnyManifest /\ cleared.refs = m.refs /\ cleared.mode = m.mode
      /\ cleared.decision = m.decision /\ cleared.current = 0
  BY DEF IInv, Sane, AnyManifest
<1>3. Sane(cleared, attempts, accepted) /\ Proposed(cleared, accepted)
  <2> HIDE DEF cleared
  <2> QED  BY <1>2 DEF IInv, Sane, Named, Answered, Chosen, Proposed, Ref
<1> HIDE DEF cleared, reset
<1>4. \/ m' = m
      \/ m' = Changed(m, "report")
      \/ m' = Changed(Drop(cleared, {"report"}), "report")
      \/ m' = [reset EXCEPT !.decision = None]
      \/ m' = Changed(Invalidated(cleared, wanted), wanted)
  <2> DEFINE a == Changed(m, "report")
             b == Changed(Drop(cleared, {"report"}), "report")
             c == [reset EXCEPT !.decision = None]
             d == Changed(Invalidated(cleared, wanted), wanted)
  <2>1. m' = CASE wanted = None -> m [] wanted = "report" -> a [] wanted = "refresh" -> b
               [] wanted = "reanalyze" -> c [] OTHER -> d
    BY <1>1
  <2> HIDE DEF a, b, c, d
  <2>2. m' = m \/ m' = a \/ m' = b \/ m' = c \/ m' = d  BY <2>1
  <2> QED  BY <2>2 DEF a, b, c, d
<1>5. ASSUME NEW new, new \in AnyManifest, new.mode = cleared.mode, new.current \in {0, m.current},
             \A s \in Steps : new.refs[s] \in {0, cleared.refs[s]},
             \/ new.decision = None
             \/ new.decision = cleared.decision /\ new.refs["analysis"] = cleared.refs["analysis"],
             m' = new
      PROVE  IInv'
  <2>1. Sane(new, attempts, accepted) /\ Proposed(new, accepted)
    BY <1>3, <1>5, RetiredIsSane DEF Ref
  <2> QED  BY <1>1, <1>5, <2>1 DEF IInv, InPlace
<1>6. CASE m' = m
  BY <1>1, <1>6 DEF IInv, InPlace
<1>7. CASE m' = Changed(m, "report")
  <2>1. m \in AnyManifest  BY DEF IInv, Sane
  <2> QED  BY <1>2, <1>5, <1>7, <2>1, ChangedIs
<1>8. CASE m' = Changed(Drop(cleared, {"report"}), "report")
  <2> DEFINE dropped == Drop(cleared, {"report"})
  <2>1. /\ dropped \in AnyManifest /\ dropped.mode = cleared.mode
        /\ dropped.decision = cleared.decision /\ dropped.current = 0
        /\ \A s \in Steps : dropped.refs[s] = IF s \in {"report"} THEN 0 ELSE cleared.refs[s]
    BY <1>2, DropIs
  <2> HIDE DEF dropped
  <2>2. /\ m' \in AnyManifest /\ m'.mode = cleared.mode /\ m'.decision = cleared.decision
        /\ m'.current = 0 /\ m'.refs = dropped.refs
    BY <1>8, <2>1, ChangedIs DEF dropped
  <2> QED  BY <1>5, <2>1, <2>2, StepNames
<1>9. CASE m' = [reset EXCEPT !.decision = None]
  <2>1. /\ reset \in AnyManifest /\ reset.mode = cleared.mode /\ reset.current = 0
        /\ \A s \in Steps : reset.refs[s] \in {0, cleared.refs[s]}
    BY <1>2, DropIs DEF reset
  <2>2. /\ m' \in AnyManifest /\ m'.mode = cleared.mode /\ m'.decision = None
        /\ m'.current = 0 /\ m'.refs = reset.refs
    BY <1>9, <2>1 DEF AnyManifest
  <2> QED  BY <1>5, <2>1, <2>2
<1>10. CASE m' = Changed(Invalidated(cleared, wanted), wanted)
  <2> DEFINE retired == Invalidated(cleared, wanted)
  <2>1. /\ retired \in AnyManifest /\ retired.mode = cleared.mode /\ retired.current = 0
        /\ \A s \in Steps : retired.refs[s] \in {0, cleared.refs[s]}
        /\ retired.decision = None
             \/ (retired.decision = cleared.decision
                   /\ retired.refs["analysis"] = cleared.refs["analysis"])
    BY <1>2, InvalidatedIs
  <2> HIDE DEF retired
  <2>2. /\ m' \in AnyManifest /\ m'.mode = cleared.mode /\ m'.decision = retired.decision
        /\ m'.current = 0 /\ m'.refs = retired.refs
    BY <1>10, <2>1, ChangedIs DEF retired
  <2> QED  BY <1>5, <2>1, <2>2
<1> QED  BY <1>4, <1>6, <1>7, <1>8, <1>9, <1>10

LEMMA WaitingStep ==
  ASSUME IInv, \/ Revise \/ Replay \/ Resume \/ RefreshReport \/ Reanalyze \/ Reopen
               \/ Crash \/ Recover \/ UNCHANGED vars
  PROVE  IInv'
<1> USE DEF IInv, InPlace
<1>1. CASE Revise \/ Replay \/ Resume \/ RefreshReport \/ Reanalyze \/ Crash \/ UNCHANGED vars
  <2>1. UNCHANGED <<m, attempts, accepted>> /\ (pc' \in {"replied", "idle"} \/ pc' = pc)
    BY <1>1 DEF Revise, Replay, Resume, RefreshReport, Reanalyze, Continue, Crash, vars, history
  <2> QED  BY <2>1
<1>2. CASE Reopen
  <2>0. /\ UNCHANGED <<attempts, accepted>> /\ pc' \in {"idle", "continued"}
        /\ m' = m \/ \E id \in {0, m.current} :
             m' = [m EXCEPT !.status = "running", !.current = id]
    <3>1. CASE Exhausted
      BY <1>2, <3>1 DEF Reopen, history
    <3>2. CASE ~Exhausted
      BY <1>2, <3>2 DEF Reopen, history, Sane, AnyManifest
    <3> QED  BY <3>1, <3>2
  <2>1. /\ UNCHANGED <<attempts, accepted>> /\ pc' \in {"idle", "continued"}
        /\ m' = m \/ m' = Turned(m, 0) \/ m' = Turned(m, m.current)
    BY <2>0 DEF Turned
  <2>2. m.current \in Nat  BY DEF Sane, AnyManifest
  <2>3. Sane(m', attempts, accepted) /\ Proposed(m', accepted) /\ m'.current \in {0, m.current}
    <3>1. Sane(m, attempts, accepted) /\ Proposed(m, accepted)  OBVIOUS
    <3> HIDE DEF IInv, InPlace
    <3>2. CASE m' = m
      BY <3>1, <3>2
    <3>3. ASSUME NEW id \in {0, m.current}, m' = Turned(m, id)
          PROVE  Sane(m', attempts, accepted) /\ Proposed(m', accepted) /\ m'.current = id
      <4>1. id \in Nat  BY <2>2, <3>3
      <4> QED  BY <3>1, <3>3, <4>1, CurrentIsSane
    <3> QED  BY <2>1, <3>2, <3>3
  <2> QED  BY <2>1, <2>3
<1>3. CASE Recover
  <2>1. /\ m.current \in DOMAIN attempts /\ pc' = "idle" /\ UNCHANGED accepted
        /\ attempts' = [attempts EXCEPT ![m.current].result = "error", ![m.current].closed = TRUE]
        /\ \E status \in {"blocked", "running"} : m' = WithStatus(m, status)
    BY <1>3 DEF Recover, Recoverable, Running, Unchanged, history, WithStatus
  <2>2. Grows(attempts, attempts') /\ DOMAIN attempts' = DOMAIN attempts
    BY <2>1, MarkGrows DEF Results, Failures
  <2>3. Sane(m', attempts, accepted) /\ Proposed(m', accepted) /\ m'.current = m.current
    BY <2>1, StatusIsSane
  <2>4. Sane(m', attempts', accepted') /\ Proposed(m', accepted')
    BY <2>1, <2>2, <2>3, SaneGrows
  <2> QED  BY <2>1, <2>2, <2>3, <2>4 DEF Grows
<1> QED  BY <1>1, <1>2, <1>3

LEMMA InitIsSane == Init => IInv
<1> SUFFICES ASSUME Init PROVE IInv  OBVIOUS
<1>1. PICK mode \in Modes :
        m = [mode |-> mode, status |-> "created", current |-> 0, refs |-> [s \in Steps |-> 0],
             planned |-> FALSE, plan |-> [kind |-> "none", by |-> 0], decision |-> None,
             inputs |-> [k \in Kinds |-> 0]]
  BY DEF Init
<1>2. m \in AnyManifest /\ m.decision = None /\ m.current = 0 /\ \A s \in Steps : m.refs[s] = 0
  BY <1>1 DEF AnyManifest, AnyPlan, AnyInputs
<1> QED  BY <1>2 DEF Init, IInv, InPlace, Sane, Named, Answered, Chosen, Proposed

LEMMA StepIsSane == IInv /\ [Step]_vars => IInv'
BY RecordStep, BeginStep, AskStep, StatusStep, RefusalStep, AcceptStep, ApplyStep, WaitingStep
   DEF Step, Calls, Replies

----------------------------------------------------------------------------
(* The user's decisions                                                     *)

LEMMA Always == Spec => []IInv
BY InitIsSane, StepIsSane, PTL DEF Spec

LEMMA OnlyBeginStarts ==
  ASSUME IInv, [Step]_vars, Starts
  PROVE  Begin
<1> SUFFICES ASSUME ~Begin PROVE FALSE  OBVIOUS
<1>1. attempts \in Seq(AnyAttempt)  BY DEF IInv
<1>2. attempts' = attempts \/ DOMAIN attempts' = DOMAIN attempts
  <2>1. CASE Calls
    <3>1. CASE Reconcile
      BY <3>1 DEF Reconcile, Close
    <3>2. CASE Handle \/ Commit
      BY <3>2 DEF Handle, Commit, Close
    <3>3. CASE Advance \/ Ask \/ PauseAsked \/ Refuse \/ Enter \/ Record \/ Finish
      BY <3>3 DEF Advance, Ask, PauseAsked, Refuse, Enter, Record, Finish
    <3> QED  BY <2>1, <3>1, <3>2, <3>3 DEF Calls
  <2>2. CASE Replies
    BY <2>2 DEF Replies, Accept, Reject, ReplyRevise, Revise, Replay, Resume, RefreshReport,
       Reanalyze, Reopen, Apply
  <2>3. CASE Crash \/ Recover \/ UNCHANGED vars
    BY <2>3 DEF Crash, Recover, vars
  <2> QED  BY <2>1, <2>2, <2>3 DEF Step
<1>3. IInv'  BY StepIsSane
<1>4. Len(attempts') = Len(attempts)
  <2>1. attempts' \in Seq(AnyAttempt)  BY <1>3 DEF IInv
  <2> QED  BY <1>1, <1>2, <2>1
<1>5. Len(attempts) \in Nat  BY <1>1
<1> QED  BY <1>4, <1>5 DEF Starts

\* A stage that was passed was accepted for what the session has now.
LEMMA PassedWasAccepted ==
  ASSUME IInv, NEW stage, stage # "none", Passed(m, stage)
  PROVE  <<stage, SubjectOf(m, stage)>> \in accepted
BY DEF IInv, Sane, Answered, Passed

LEMMA StartIsDecided ==
  ASSUME IInv, m.mode # "autonomous", NEW step \in Steps \cup {"plan"}, Dispatched(step)
  PROVE  /\ step \in Execution /\ (\A s \in Execution : Ref(m, s) = 0) =>
              <<"execution_protocol", Subject(m, Ref(m, "design"))>> \in accepted
         /\ step = "implementation_r1" =>
              \E x \in accepted : x[1] = "research_choice" /\ x[2].ref = Ref(m, "analysis")
         /\ step = "report" /\ m.inputs["report"] = 0 /\ Outcome(Latest(m)) # "stop" =>
              <<"delivery", Subject(m, Latest(m))>> \in accepted
<1>1. Next(m) = step /\ (step \in Steps => Passed(m, StageOf(m, step)))
  BY DEF Dispatched
<1>2. ASSUME step \in Execution, \A s \in Execution : Ref(m, s) = 0
      PROVE  <<"execution_protocol", Subject(m, Ref(m, "design"))>> \in accepted
  <2>1. step \in Steps /\ FirstExecution(m, step)
    BY <1>2 DEF FirstExecution, Steps
  <2>2. StageOf(m, step) = "execution_protocol"
    BY <2>1 DEF StageOf
  <2>3. <<"execution_protocol", SubjectOf(m, "execution_protocol")>> \in accepted
    BY <1>1, <2>1, <2>2, PassedWasAccepted
  <2> QED  BY <2>3 DEF SubjectOf
<1>3. ASSUME step = "implementation_r1"
      PROVE  \E x \in accepted : x[1] = "research_choice" /\ x[2].ref = Ref(m, "analysis")
  <2>1. Applies(m, "implementation_r1")
    BY <1>1, <1>3, NextApplies, StepNames DEF IInv, Sane
  <2>2. m.decision # None /\ m.decision.action = "revise_candidate"
    BY <2>1, Zenon DEF Applies
  <2> QED  BY <2>2 DEF IInv, Proposed
<1>4. ASSUME step = "report", m.inputs["report"] = 0, Outcome(Latest(m)) # "stop"
      PROVE  <<"delivery", Subject(m, Latest(m))>> \in accepted
  <2>1. StageOf(m, step) = "delivery"
    BY <1>4, StepNames DEF StageOf, FirstExecution
  <2>2. <<"delivery", SubjectOf(m, "delivery")>> \in accepted
    BY <1>1, <1>4, <2>1, PassedWasAccepted, StepNames
  <2> QED  BY <2>2 DEF SubjectOf
<1> QED  BY <1>2, <1>3, <1>4

\* In a session that confirms, the first measurement, a revised candidate and
\* the report of an open goal start only after the user accepted exactly that,
\* over any revisions, follow-ups, crashes and recoveries
\* (_ensure_interaction_checkpoint, _ensure_research_decision).
THEOREM NothingStartsUndecided == Spec => UserDecides
<1>1. IInv /\ [Step]_vars =>
        [m.mode # "autonomous" /\ Starts =>
           LET a == Last(attempts')
               Said(stage, subject) == <<stage, subject>> \in accepted
           IN /\ a.step \in Execution /\ (\A s \in Execution : Ref(m, s) = 0) =>
                   Said("execution_protocol", Subject(m, Ref(m, "design")))
              /\ a.step = "implementation_r1" =>
                   \E x \in accepted : x[1] = "research_choice" /\ x[2].ref = Ref(m, "analysis")
              /\ a.step = "report" /\ m.inputs["report"] = 0 /\ Outcome(Latest(m)) # "stop" =>
                   Said("delivery", Subject(m, Latest(m)))]_vars
  <2> SUFFICES ASSUME IInv, [Step]_vars, m.mode # "autonomous", Starts
               PROVE  LET a == Last(attempts')
                          Said(stage, subject) == <<stage, subject>> \in accepted
                      IN /\ a.step \in Execution /\ (\A s \in Execution : Ref(m, s) = 0) =>
                              Said("execution_protocol", Subject(m, Ref(m, "design")))
                         /\ a.step = "implementation_r1" =>
                              \E x \in accepted : x[1] = "research_choice" /\ x[2].ref = Ref(m, "analysis")
                         /\ a.step = "report" /\ m.inputs["report"] = 0 /\ Outcome(Latest(m)) # "stop" =>
                              Said("delivery", Subject(m, Latest(m)))
    OBVIOUS
  <2>1. PICK step \in Steps \cup {"plan"} : Dispatched(step) /\ Last(attempts').step = step
    BY OnlyBeginStarts, BeginStep
  <2> QED  BY <2>1, StartIsDecided
<1> QED  BY <1>1, Always, PTL DEF Spec, UserDecides

----------------------------------------------------------------------------
(* The attempt that runs                                                    *)

RowOpen(step) == Bound(m, step) /\ Ref(m, step) = 0

\* At most the last attempt is open; its row has no result yet, and the plan
\* and the results stay as they are while it runs.
OneRuns ==
  /\ Running \subseteq {Len(attempts)}
  /\ pc \in {"ready", "asked", "committed", "finish", "replied", "continued"} => Running = {}
  /\ pc \in {"marked", "handling", "resulted"} => Len(attempts) \in Running
  /\ pc \in {"handling", "resulted", "committed"} =>
       m.current = Len(attempts) /\ m.status = "running"
  /\ \A i \in Running : attempts[i].step \in Steps => RowOpen(attempts[i].step)
  /\ pc = "committed" /\ attempts[m.current].step \in Steps => RowOpen(attempts[m.current].step)

\* What has ended has a result.
EndsHaveResults ==
  /\ \A i \in DOMAIN attempts : attempts[i].closed => attempts[i].result # "none"
  /\ pc = "resulted" => attempts[m.current].result # "none"

RInv == IInv /\ OneRuns /\ EndsHaveResults

LEMMA AttemptIs ==
  ASSUME attempts \in Seq(AnyAttempt), NEW i \in DOMAIN attempts
  PROVE  /\ i \in Nat /\ i # 0 /\ i <= Len(attempts) /\ attempts[i] \in AnyAttempt
         /\ attempts[i].step \in Steps \cup {"plan"} /\ attempts[i].inputs \in AnyInputs
<1>1. i \in 1 .. Len(attempts) /\ attempts[i] \in AnyAttempt  OBVIOUS
<1> QED  BY <1>1 DEF AnyAttempt

\* The row that is next has no result.
LEMMA NextIsOpen ==
  ASSUME NEW mm, mm \in AnyManifest, Next(mm) \in Steps
  PROVE  Bound(mm, Next(mm)) /\ Ref(mm, Next(mm)) = 0
<1> DEFINE rows == Rows(mm.plan)
           open == {i \in DOMAIN rows : Ref(mm, rows[i]) = 0 /\ Applies(mm, rows[i])}
<1>1. open # {} /\ Next(mm) = rows[Min(open)]
  BY StepNames, Zenon DEF Next
<1>2. open \subseteq Nat
  BY RowsAreSteps DEF AnyManifest
<1> HIDE DEF open
<1>3. Min(open) \in open  BY <1>1, <1>2, LeastIsIn
<1> QED  BY <1>1, <1>3 DEF open, Bound, ToSet

\* Every step of a session in which nothing runs, but a start.
Rests ==
  \/ Advance \/ Ask \/ PauseAsked \/ Refuse \/ Record \/ Finish \/ Accept \/ Reject \/ ReplyRevise
  \/ Revise \/ Replay \/ Resume \/ RefreshReport \/ Reanalyze \/ Reopen \/ Apply

LEMMA RestIs ==
  ASSUME RInv, Rests
  PROVE  /\ Running = {} /\ attempts' = attempts
         /\ pc' \notin {"marked", "handling", "resulted", "committed"}
<1> USE DEF RInv, OneRuns, Go, history
<1>1. CASE Advance \/ Ask \/ PauseAsked \/ Refuse \/ Record \/ Finish
  <2>1. CASE Advance
    BY <2>1 DEF Advance, ToReconcile
  <2>2. CASE Ask \/ PauseAsked \/ Refuse \/ Record \/ Finish
    BY <2>2 DEF Ask, PauseAsked, Refuse, Record, Finish, Dispatched
  <2> QED  BY <1>1, <2>1, <2>2
<1>2. CASE Accept \/ Reject \/ ReplyRevise \/ Revise \/ Replay \/ Resume \/ RefreshReport \/ Reanalyze
  BY <1>2 DEF Accept, Reject, ReplyRevise, Revise, Replay, Resume, RefreshReport, Reanalyze, AtRest,
     Continue
<1>3. CASE Reopen \/ Apply
  BY <1>3 DEF Reopen, Apply
<1> QED  BY <1>1, <1>2, <1>3 DEF Rests

\* Marking an attempt leaves the others and what it was started with alone.
MarkedAt(i) ==
  /\ attempts' \in Seq(AnyAttempt) /\ DOMAIN attempts' = DOMAIN attempts
  /\ Len(attempts') = Len(attempts) /\ i \in DOMAIN attempts
  /\ \A j \in DOMAIN attempts :
       /\ attempts'[j].step = attempts[j].step /\ attempts'[j].inputs = attempts[j].inputs
       /\ attempts'[j].from = attempts[j].from
       /\ j # i => attempts'[j] = attempts[j]

LEMMA MarkIs ==
  ASSUME attempts \in Seq(AnyAttempt), NEW i \in DOMAIN attempts,
         NEW closed \in BOOLEAN, NEW result \in Results
  PROVE  /\ attempts' = [attempts EXCEPT ![i].closed = closed] =>
              MarkedAt(i) /\ attempts'[i].closed = closed /\ attempts'[i].result = attempts[i].result
         /\ attempts' = [attempts EXCEPT ![i].result = result] =>
              MarkedAt(i) /\ attempts'[i].result = result /\ attempts'[i].closed = attempts[i].closed
         /\ attempts' = [attempts EXCEPT ![i].result = result, ![i].closed = closed] =>
              MarkedAt(i) /\ attempts'[i].result = result /\ attempts'[i].closed = closed
<1>1. i \in 1 .. Len(attempts) /\ attempts[i] \in AnyAttempt  OBVIOUS
<1>2. ASSUME NEW e \in AnyAttempt, e.step = attempts[i].step, e.inputs = attempts[i].inputs,
             e.from = attempts[i].from, attempts' = [attempts EXCEPT ![i] = e]
      PROVE  MarkedAt(i) /\ attempts'[i] = e
  BY <1>1, <1>2, ExceptSeq DEF MarkedAt
<1>3. ASSUME attempts' = [attempts EXCEPT ![i].closed = closed]
      PROVE  MarkedAt(i) /\ attempts'[i].closed = closed /\ attempts'[i].result = attempts[i].result
  <2> DEFINE e == [attempts[i] EXCEPT !.closed = closed]
  <2>1. /\ e \in AnyAttempt /\ e.step = attempts[i].step /\ e.inputs = attempts[i].inputs
        /\ e.from = attempts[i].from /\ e.closed = closed /\ e.result = attempts[i].result
    BY <1>1 DEF AnyAttempt
  <2>2. attempts' = [attempts EXCEPT ![i] = e]  BY <1>1, <1>3
  <2> HIDE DEF e
  <2>3. MarkedAt(i) /\ attempts'[i] = e  BY <1>2, <2>1, <2>2
  <2> QED  BY <2>1, <2>3
<1>4. ASSUME attempts' = [attempts EXCEPT ![i].result = result]
      PROVE  MarkedAt(i) /\ attempts'[i].result = result /\ attempts'[i].closed = attempts[i].closed
  <2> DEFINE e == [attempts[i] EXCEPT !.result = result]
  <2>1. /\ e \in AnyAttempt /\ e.step = attempts[i].step /\ e.inputs = attempts[i].inputs
        /\ e.from = attempts[i].from /\ e.closed = attempts[i].closed /\ e.result = result
    BY <1>1 DEF AnyAttempt
  <2>2. attempts' = [attempts EXCEPT ![i] = e]  BY <1>1, <1>4
  <2> HIDE DEF e
  <2>3. MarkedAt(i) /\ attempts'[i] = e  BY <1>2, <2>1, <2>2
  <2> QED  BY <2>1, <2>3
<1>5. ASSUME attempts' = [attempts EXCEPT ![i].result = result, ![i].closed = closed]
      PROVE  MarkedAt(i) /\ attempts'[i].result = result /\ attempts'[i].closed = closed
  <2> DEFINE e == [attempts[i] EXCEPT !.result = result, !.closed = closed]
  <2>1. /\ e \in AnyAttempt /\ e.step = attempts[i].step /\ e.inputs = attempts[i].inputs
        /\ e.from = attempts[i].from /\ e.closed = closed /\ e.result = result
    BY <1>1 DEF AnyAttempt
  <2>2. attempts' = [attempts EXCEPT ![i] = e]  BY <1>1, <1>5
  <2> HIDE DEF e
  <2>3. MarkedAt(i) /\ attempts'[i] = e  BY <1>2, <2>1, <2>2
  <2> QED  BY <2>1, <2>3
<1> HIDE DEF MarkedAt
<1> QED  BY <1>3, <1>4, <1>5

LEMMA RestingStep ==
  ASSUME RInv, Rests \/ Crash \/ UNCHANGED vars
  PROVE  OneRuns' /\ EndsHaveResults'
<1>1. CASE Rests
  <2>1. Running = {} /\ Running' = {} /\ attempts' = attempts
        /\ pc' \notin {"marked", "handling", "resulted", "committed"}
    BY <1>1, RestIs DEF Running
  <2> QED  BY <2>1 DEF RInv, OneRuns, EndsHaveResults
<1>2. CASE Crash \/ UNCHANGED vars
  <2>1. UNCHANGED <<m, attempts>> /\ pc' \in {"idle", pc}
    BY <1>2 DEF Crash, vars
  <2>2. Running' = Running  BY <2>1 DEF Running
  <2> QED  BY <2>1, <2>2 DEF RInv, OneRuns, EndsHaveResults, RowOpen
<1> QED  BY <1>1, <1>2

LEMMA BeginRuns ==
  ASSUME RInv, Begin
  PROVE  OneRuns' /\ EndsHaveResults'
<1>1. PICK step \in Steps \cup {"plan"} :
        /\ Dispatched(step)
        /\ attempts' = Append(attempts, [step |-> step, closed |-> FALSE, result |-> "none",
                                         inputs |-> m.inputs, from |-> Sources(m, step)])
        /\ pc' = "marked" /\ m' = m
  BY DEF Begin, Unchanged
<1> DEFINE a == [step |-> step, closed |-> FALSE, result |-> "none",
                 inputs |-> m.inputs, from |-> Sources(m, step)]
<1>2. a \in AnyAttempt /\ a.step = step /\ ~a.closed
  BY SourcesAreIds DEF RInv, IInv, Sane, AnyManifest, AnyAttempt, Results
<1> HIDE DEF a
<1>3. attempts \in Seq(AnyAttempt) /\ attempts' = Append(attempts, a)
  BY <1>1 DEF a, RInv, IInv
<1>4. /\ Len(attempts) \in Nat /\ Len(attempts') = Len(attempts) + 1
      /\ DOMAIN attempts = 1 .. Len(attempts) /\ DOMAIN attempts' = 1 .. Len(attempts')
      /\ attempts'[Len(attempts')] = a
      /\ \A i \in DOMAIN attempts : attempts'[i] = attempts[i]
  BY <1>2, <1>3, AppendProperties
<1>5. Running = {}  BY <1>1 DEF Dispatched, RInv, OneRuns
<1>6. Running' = {Len(attempts')}
  BY <1>2, <1>4, <1>5 DEF Running
<1>7. step \in Steps => RowOpen(step)
  BY <1>1, NextIsOpen DEF Dispatched, RowOpen, RInv, IInv, Sane
<1>8. OneRuns'
  BY <1>1, <1>2, <1>4, <1>6, <1>7 DEF OneRuns, RowOpen
<1>9. EndsHaveResults'
  <2>1. \A i \in DOMAIN attempts' : i = Len(attempts') \/ i \in DOMAIN attempts  BY <1>4
  <2> QED  BY <1>1, <1>2, <1>4, <2>1 DEF RInv, EndsHaveResults
<1> QED  BY <1>8, <1>9

LEMMA EnterRuns ==
  ASSUME RInv, Enter
  PROVE  OneRuns' /\ EndsHaveResults'
<1>1. /\ pc = "marked" /\ pc' = "handling" /\ attempts' = attempts
      /\ m' = [m EXCEPT !.status = "running", !.current = Len(attempts)]
  BY DEF Enter, Go
<1>2. /\ m'.status = "running" /\ m'.current = Len(attempts)
      /\ m'.refs = m.refs /\ m'.plan = m.plan
  BY <1>1 DEF RInv, IInv, Sane, AnyManifest
<1>3. Running' = Running  BY <1>1 DEF Running
<1> QED  BY <1>1, <1>2, <1>3 DEF RInv, OneRuns, EndsHaveResults, RowOpen, Bound, Ref

\* The outcome of the handler, then the end of its attempt.
LEMMA HandleRuns ==
  ASSUME RInv, Handle \/ Commit
  PROVE  OneRuns' /\ EndsHaveResults'
<1> DEFINE i == m.current
<1>1. /\ i = Len(attempts) /\ i \in DOMAIN attempts /\ i \in Running /\ m.status = "running"
      /\ attempts \in Seq(AnyAttempt) /\ m' = m
  BY DEF RInv, OneRuns, IInv, Handle, Commit, Go, Running
<1>2. Running = {i} /\ (attempts[i].step \in Steps => RowOpen(attempts[i].step))
  BY <1>1 DEF RInv, OneRuns
<1>3. CASE Handle
  <2>1. PICK outcome \in Outcomes(attempts[i].step) :
          attempts' = [attempts EXCEPT ![i].result = outcome]
    BY <1>3 DEF Handle
  <2>2. outcome \in Results /\ outcome # "none"
    BY OutcomesAreResults, Zenon DEF Outcomes, Says, Failures
  <2>3. MarkedAt(i) /\ attempts'[i].result = outcome /\ attempts'[i].closed = attempts[i].closed
    BY <1>1, <2>1, <2>2, MarkIs
  <2>4. Running' = {i}
    BY <1>2, <2>3 DEF Running, MarkedAt
  <2>5. /\ Len(attempts') = i /\ attempts'[i].step = attempts[i].step /\ m'.current = i
        /\ m'.status = "running" /\ pc' = "resulted" /\ DOMAIN attempts' = DOMAIN attempts
        /\ \A s : RowOpen(s)' <=> RowOpen(s)
    BY <1>1, <1>3, <2>3 DEF Handle, Go, MarkedAt, RowOpen
  <2>6. OneRuns'  BY <1>2, <2>4, <2>5 DEF OneRuns
  <2>7. \A j \in DOMAIN attempts : attempts'[j].closed => attempts'[j].result # "none"
    BY <2>2, <2>3 DEF RInv, EndsHaveResults, MarkedAt
  <2>8. EndsHaveResults'
    BY <2>2, <2>3, <2>5, <2>7 DEF EndsHaveResults
  <2> QED  BY <2>6, <2>8
<1>4. CASE Commit
  <2>1. attempts' = [attempts EXCEPT ![i].closed = TRUE] /\ attempts[i].result # "none"
        /\ pc' = "committed"
    BY <1>4 DEF Commit, Close, Go, RInv, EndsHaveResults
  <2>2. MarkedAt(i) /\ attempts'[i].closed = TRUE /\ attempts'[i].result = attempts[i].result
    BY <1>1, <2>1, MarkIs DEF Results
  <2>3. Running' = {}
    BY <1>2, <2>2 DEF Running, MarkedAt
  <2> QED  BY <1>1, <1>2, <2>1, <2>2, <2>3
      DEF RInv, OneRuns, EndsHaveResults, RowOpen, MarkedAt
<1> QED  BY <1>3, <1>4

LEMMA ReconcileRuns ==
  ASSUME RInv, Reconcile \/ Recover
  PROVE  OneRuns' /\ EndsHaveResults'
<1>1. CASE Reconcile
  <2>1. PICK i \in ToReconcile :
          Reconcilable(i) /\ attempts' = Close(i) /\ pc' \in {"ready", "idle"}
    BY <1>1 DEF Reconcile
  <2>2. /\ i \in DOMAIN attempts /\ attempts \in Seq(AnyAttempt) /\ Running \subseteq {i}
        /\ attempts[i].result # "none"
    BY <2>1 DEF ToReconcile, Running, Unrecorded, Reconcilable, RInv, OneRuns, IInv, InPlace
  <2>3. MarkedAt(i) /\ attempts'[i].closed = TRUE /\ attempts'[i].result = attempts[i].result
    BY <2>1, <2>2, MarkIs DEF Close, Results
  <2>4. Running' = {}  BY <2>2, <2>3 DEF Running, MarkedAt
  <2> QED  BY <2>1, <2>2, <2>3, <2>4 DEF RInv, OneRuns, EndsHaveResults, MarkedAt
<1>2. CASE Recover
  <2> DEFINE i == m.current
  <2>1. /\ attempts' = [attempts EXCEPT ![i].result = "error", ![i].closed = TRUE]
        /\ i \in DOMAIN attempts /\ attempts \in Seq(AnyAttempt) /\ Running = {i} /\ pc' = "idle"
    BY <1>2 DEF Recover, Recoverable, Running, RInv, IInv
  <2>2. MarkedAt(i) /\ attempts'[i].closed = TRUE /\ attempts'[i].result = "error"
    <3>1. "error" \in Results  BY DEF Results, Failures
    <3>2. TRUE \in BOOLEAN  OBVIOUS
    <3> HIDE DEF i
    <3> QED  BY <2>1, <3>1, <3>2, MarkIs, Zenon
  <2>3. Running' = {}  BY <2>1, <2>2 DEF Running, MarkedAt
  <2> QED  BY <2>1, <2>2, <2>3 DEF RInv, OneRuns, EndsHaveResults, MarkedAt
<1> QED  BY <1>1, <1>2

LEMMA InitRests == Init => RInv
<1> SUFFICES ASSUME Init PROVE RInv  OBVIOUS
<1>1. attempts = <<>> /\ pc = "idle" /\ Running = {}  BY DEF Init, Running
<1> QED  BY <1>1, InitIsSane DEF RInv, OneRuns, EndsHaveResults

LEMMA StepRuns == RInv /\ [Step]_vars => RInv'
<1> SUFFICES ASSUME RInv, [Step]_vars PROVE RInv'  OBVIOUS
<1>1. IInv'  BY StepIsSane DEF RInv
<1>2. OneRuns' /\ EndsHaveResults'
  BY RestingStep, BeginRuns, EnterRuns, HandleRuns, ReconcileRuns
     DEF Step, Calls, Replies, Rests
<1> QED  BY <1>1, <1>2 DEF RInv

LEMMA AlwaysRuns == Spec => []RInv
BY InitRests, StepRuns, PTL DEF Spec

\* An interrupted session can go on: whatever was open when the process
\* stopped, and whatever followed, the next call recovers or reconciles it
\* unless it is the orphan between two manifests or a second planning attempt
\* (_reconcile_running_attempt, recover_interrupted_attempt).
THEOREM InterruptedSessionSettles == Spec => []InterruptionsSettle
<1>1. RInv => InterruptionsSettle
  <2> SUFFICES ASSUME RInv, pc = "idle", m.status \in {"created", "running"}, ~Orphaned,
                      ~Recoverable, NEW i \in ToReconcile
               PROVE  Reconcilable(i)
    BY DEF InterruptionsSettle
  <2> USE DEF RInv, OneRuns, EndsHaveResults
  <2>1. CASE Running = {}
    <3>1. Unrecorded(m) /\ i = m.current /\ i \in DOMAIN attempts
      BY <2>1 DEF ToReconcile, Unrecorded, IInv, InPlace
    <3>2. attempts[i].closed  BY <2>1, <3>1 DEF Running
    <3> QED  BY <3>1, <3>2 DEF Reconcilable, Unrecorded
  <2>2. CASE Running # {}
    <3>1. i \in Running /\ Running = {m.current} /\ i = m.current
      BY <2>2 DEF ToReconcile, Orphaned
    <3>2. attempts[i].result # "none"
      BY <3>1 DEF Recoverable
    <3>3. attempts[i].step \in Steps \cup {"plan"}
      BY <3>1, AttemptIs DEF Running, IInv
    <3> QED  BY <3>1, <3>2, <3>3 DEF Reconcilable, Orphaned, RowOpen
  <2> QED  BY <2>1, <2>2
<1> QED  BY <1>1, AlwaysRuns, PTL

----------------------------------------------------------------------------
(* Nothing is measured twice                                                *)

\* Deciding an analysis changes the decision, and the rows of the plan.
LEMMA DecidedLeaves ==
  ASSUME NEW mm, mm \in AnyManifest
  PROVE  /\ Decided(mm).refs = mm.refs /\ Decided(mm).inputs = mm.inputs
         /\ Decided(mm).status = mm.status /\ Decided(mm).current = mm.current
<1>1. CASE ~Undecided(mm)
  BY <1>1 DEF Decided
<1>2. CASE Undecided(mm)
  <2>1. PICK decision, base :
          /\ Decided(mm) = [base EXCEPT !.decision = decision]
          /\ base = mm \/ base = Extended(mm)
    BY <1>2, Zenon DEF Decided
  <2>2. /\ base.refs = mm.refs /\ base.inputs = mm.inputs /\ base.status = mm.status
        /\ base.current = mm.current
        /\ DOMAIN base = {"mode", "status", "current", "refs", "planned", "plan", "decision", "inputs"}
    BY <2>1 DEF Extended, AnyManifest
  <2> QED  BY <2>1, <2>2
<1> QED  BY <1>1, <1>2

\* Recording sets one result.
LEMMA RecordedLeaves ==
  ASSUME NEW mm, mm \in AnyManifest, attempts \in Seq(AnyAttempt), NEW i \in DOMAIN attempts
  PROVE  /\ Recorded(mm, i).inputs = mm.inputs /\ Recorded(mm, i).status = mm.status
         /\ Recorded(mm, i).current = mm.current
         /\ \A s \in Steps : Recorded(mm, i).refs[s] = IF s = attempts[i].step THEN i ELSE mm.refs[s]
<1> DEFINE step == attempts[i].step
           bound == [mm EXCEPT !.refs[step] = i]
<1>0. i \in Nat /\ step \in Steps \cup {"plan"}  BY AttemptIs
<1>1. CASE step = "plan"
  <2>1. PICK plan : Recorded(mm, i) = [mm EXCEPT !.planned = TRUE, !.plan = plan]
    BY <1>1, PlanIsNoAnalysis, Zenon DEF Recorded
  <2> QED  BY <1>1, <2>1, StepNames DEF AnyManifest
<1>2. CASE step \in Steps
  <2>1. /\ bound \in AnyManifest /\ bound.inputs = mm.inputs /\ bound.status = mm.status
        /\ bound.current = mm.current
        /\ \A s \in Steps : bound.refs[s] = IF s = step THEN i ELSE mm.refs[s]
    BY <1>0, <1>2 DEF AnyManifest
  <2>2. Recorded(mm, i) = bound \/ Recorded(mm, i) = Decided(bound)
    BY <1>2, StepNames, Zenon DEF Recorded
  <2> HIDE DEF bound
  <2> QED  BY <2>1, <2>2, DecidedLeaves
<1> QED  BY <1>0, <1>1, <1>2

Measured == Measurements \cup {"read", "implementation", "implementation_r1"}

\* An attempt that ended with a result of its step.
Done(i) == attempts[i].closed /\ attempts[i].result # "none" /\ Keeps(i)

\* Its inputs were revised since.
Superseded(i) ==
  \E k \in About(attempts[i].step) : attempts[i].inputs[k] < m.inputs[k]

\* It is the current one and ended; only the session's own record is missing.
Unsaved(i) ==
  /\ m.current = i /\ m.status = "running" /\ Running = {}
  /\ pc \in {"committed", "idle"} /\ RowOpen(attempts[i].step)

\* What was measured is the step's result, is about to be, or is superseded.
DoneIsKept ==
  \A i \in DOMAIN attempts : Done(i) /\ attempts[i].step \in Measured =>
    Ref(m, attempts[i].step) = i \/ Unsaved(i) \/ Superseded(i)

\* Revisions only raise the inputs.
InputsGrow == \A i \in DOMAIN attempts : \A k \in Kinds : attempts[i].inputs[k] <= m.inputs[k]

MInv == RInv /\ InputsGrow /\ DoneIsKept /\ MeasuredOnce

LEMMA MeasuredIs ==
  /\ Measured \subseteq Steps /\ "report" \notin Measured /\ Measured \cap Analyses = {}
  /\ \A s \in Steps : About(s) \subseteq Kinds
<1>1. Measured \subseteq Steps /\ "report" \notin Measured /\ Measured \cap Analyses = {}
  BY DEF Measured, Measurements, Steps, Execution, Analyses
<1>2. ASSUME NEW s PROVE About(s) \subseteq Kinds
  <2> USE DEF Kinds, BriefKinds, ExecutionKinds
  <2>1. About(s) \in {{"question"}, {"question", "constraints", "protocol", "setup"}, {"setup"},
                      {"question", "constraints"},
                      {"question", "constraints", "protocol", "setup", "preferences"}}
    BY Zenon DEF About
  <2> QED  BY <2>1
<1> QED  BY <1>1, <1>2

\* The steps that record no result and retire none.
Quiet ==
  \/ Advance \/ Ask \/ PauseAsked \/ Refuse \/ Enter \/ Finish
  \/ Accept \/ Reject \/ ReplyRevise \/ Revise \/ Replay \/ Resume \/ RefreshReport \/ Reanalyze
  \/ Reopen \/ Crash \/ UNCHANGED vars

LEMMA QuietIs ==
  ASSUME RInv, Quiet
  PROVE  /\ attempts' = attempts /\ m'.refs = m.refs /\ m'.inputs = m.inputs
         /\ \/ Advance
            \/ m.status # "running"
            \/ pc \notin {"idle", "committed"}
            \/ m' = m /\ pc' \in {"idle", pc}
<1> USE DEF Go
<1>0. m \in AnyManifest  BY DEF RInv, IInv, Sane
<1>1. CASE Advance \/ Crash \/ UNCHANGED vars
  BY <1>1 DEF Advance, Crash, vars
<1>2. CASE Ask \/ PauseAsked \/ Refuse \/ Enter \/ Reopen
  <2>1. CASE Ask
    BY <1>0, <2>1 DEF Ask, AnyManifest
  <2>2. CASE PauseAsked \/ Enter
    BY <1>0, <2>2 DEF PauseAsked, Enter, Pause, AnyManifest
  <2>3. CASE Refuse
    BY <1>0, <2>3 DEF Refuse, Pause, Dispatched, AnyManifest
  <2>4. CASE Reopen
    BY <1>0, <2>4 DEF Reopen, AnyManifest
  <2> QED  BY <1>2, <2>1, <2>2, <2>3, <2>4
<1>3. CASE Finish
  <2>1. /\ attempts' = attempts /\ pc \notin {"idle", "committed"}
        /\ \/ m' = m
           \/ \E status \in {"paused", "completed"} : m' = WithStatus(Decided(m), status)
    BY <1>3 DEF Finish, Pause, WithStatus
  <2>2. Decided(m).refs = m.refs /\ Decided(m).inputs = m.inputs /\ Decided(m) \in AnyManifest
    BY <1>0, DecidedLeaves, DecidedIsSane DEF RInv, IInv, Sane
  <2>3. \A status : WithStatus(Decided(m), status).refs = m.refs
                    /\ WithStatus(Decided(m), status).inputs = m.inputs
    BY <2>2 DEF WithStatus, AnyManifest
  <2> QED  BY <2>1, <2>3
<1>4. CASE Accept
  <2>1. PICK d, plan : m' = [m EXCEPT !.decision = d] \/ m' = [m EXCEPT !.decision = d, !.plan = plan]
    BY <1>0, <1>4 DEF Accept, Answer, Extended, AnyManifest
  <2> QED  BY <1>0, <1>4, <2>1 DEF Accept, AtRest, AnyManifest
<1>5. CASE Reject \/ ReplyRevise
  BY <1>0, <1>5 DEF Reject, ReplyRevise, Answer, AtRest, AnyManifest
<1>6. CASE Revise \/ Replay \/ Resume \/ RefreshReport \/ Reanalyze
  BY <1>6 DEF Revise, Replay, Resume, RefreshReport, Reanalyze, AtRest
<1> QED  BY <1>1, <1>2, <1>3, <1>4, <1>5, <1>6 DEF Quiet

\* advance() reconciles what is unsaved before it does anything else.
LEMMA UnsavedIsNext ==
  ASSUME RInv, NEW i \in DOMAIN attempts, Done(i), attempts[i].step \in Measured, Unsaved(i)
  PROVE  ToReconcile = {i}
<1>1. i # 0 /\ attempts[i].step \in Steps /\ attempts[i].step # "plan"
  BY AttemptIs, MeasuredIs, StepNames DEF RInv, IInv
<1>2. Unrecorded(m)
  BY <1>1 DEF Unrecorded, Unsaved, RowOpen, Done, Keeps, Outcome
<1> QED  BY <1>2 DEF ToReconcile, Unsaved

LEMMA QuietKeeps ==
  ASSUME MInv, Quiet
  PROVE  InputsGrow' /\ DoneIsKept' /\ MeasuredOnce'
<1>0. RInv  BY DEF MInv
<1>1. attempts' = attempts /\ m'.refs = m.refs /\ m'.inputs = m.inputs
  BY <1>0, QuietIs
<1>2. InputsGrow' /\ MeasuredOnce'
  BY <1>1 DEF MInv, InputsGrow, MeasuredOnce, Keeps
<1>3. ASSUME NEW i \in DOMAIN attempts, Done(i), attempts[i].step \in Measured, Unsaved(i)
      PROVE  Unsaved(i)'
  <2>1. ToReconcile = {i}  BY <1>0, <1>3, UnsavedIsNext
  <2>2. m' = m /\ pc' \in {"idle", pc}
    BY <1>0, <1>3, <2>1, QuietIs DEF Unsaved, Advance
  <2>3. Running' = Running  BY <1>1 DEF Running
  <2> QED  BY <1>1, <1>3, <2>2, <2>3 DEF Unsaved, RowOpen
<1>4. DoneIsKept'
  <2> SUFFICES ASSUME NEW i \in DOMAIN attempts, Done(i), attempts[i].step \in Measured
               PROVE  Ref(m', attempts[i].step) = i \/ Unsaved(i)' \/ Superseded(i)'
    BY <1>1 DEF DoneIsKept, Done, Keeps
  <2>1. Ref(m, attempts[i].step) = i \/ Unsaved(i) \/ Superseded(i)
    BY DEF MInv, DoneIsKept
  <2> QED  BY <1>1, <1>3, <2>1 DEF Ref, Superseded
<1> QED  BY <1>2, <1>4

LEMMA BeginKeeps ==
  ASSUME MInv, Begin
  PROVE  InputsGrow' /\ DoneIsKept' /\ MeasuredOnce'
<1>1. PICK step \in Steps \cup {"plan"} :
        /\ Dispatched(step)
        /\ attempts' = Append(attempts, [step |-> step, closed |-> FALSE, result |-> "none",
                                         inputs |-> m.inputs, from |-> Sources(m, step)])
        /\ pc' = "marked" /\ m' = m
  BY DEF Begin, Unchanged
<1> DEFINE a == [step |-> step, closed |-> FALSE, result |-> "none",
                 inputs |-> m.inputs, from |-> Sources(m, step)]
<1>2. a \in AnyAttempt /\ a.step = step /\ ~a.closed /\ a.inputs = m.inputs
  BY SourcesAreIds DEF MInv, RInv, IInv, Sane, AnyManifest, AnyAttempt, Results
<1> HIDE DEF a
<1>3. attempts \in Seq(AnyAttempt) /\ attempts' = Append(attempts, a)
  BY <1>1 DEF a, MInv, RInv, IInv
<1>4. /\ Len(attempts) \in Nat /\ Len(attempts') = Len(attempts) + 1
      /\ DOMAIN attempts = 1 .. Len(attempts) /\ DOMAIN attempts' = 1 .. Len(attempts')
      /\ attempts'[Len(attempts')] = a
      /\ \A i \in DOMAIN attempts : attempts'[i] = attempts[i]
  BY <1>2, <1>3, AppendProperties
<1>5. \A i \in DOMAIN attempts' : i = Len(attempts') \/ i \in DOMAIN attempts
  BY <1>4
<1>6. \A i \in DOMAIN attempts : ~Unsaved(i)
  BY <1>1 DEF Unsaved, Dispatched
<1>7. InputsGrow'
  <2>1. \A k \in Kinds : m.inputs[k] \in Nat
    BY DEF MInv, RInv, IInv, Sane, AnyManifest, AnyInputs
  <2> QED  BY <1>1, <1>2, <1>4, <1>5, <2>1 DEF MInv, InputsGrow
<1>8. DoneIsKept'
  <2> SUFFICES ASSUME NEW i \in DOMAIN attempts', Done(i)', attempts'[i].step \in Measured
               PROVE  Ref(m', attempts'[i].step) = i \/ Superseded(i)'
    BY DEF DoneIsKept
  <2>1. i \in DOMAIN attempts /\ attempts'[i] = attempts[i]
    BY <1>2, <1>4, <1>5 DEF Done
  <2>2. Done(i)  BY <2>1 DEF Done, Keeps
  <2>3. Ref(m, attempts[i].step) = i \/ Superseded(i)
    BY <1>6, <2>1, <2>2 DEF MInv, DoneIsKept
  <2> QED  BY <1>1, <2>1, <2>3 DEF Superseded
<1>9. MeasuredOnce'
  <2> SUFFICES ASSUME NEW i \in DOMAIN attempts', NEW j \in DOMAIN attempts', i < j,
                      attempts'[i].step = attempts'[j].step, attempts'[i].step \in Measured,
                      Done(i)'
               PROVE  \/ attempts'[i].from # attempts'[j].from
                      \/ ~SameInputs(attempts'[i], attempts'[i].step, attempts'[j].inputs)
    BY DEF MeasuredOnce, Done, Keeps, Measured
  <2>1. i \in DOMAIN attempts /\ attempts'[i] = attempts[i]
    BY <1>2, <1>4, <1>5 DEF Done
  <2>2. Done(i)  BY <2>1 DEF Done, Keeps
  <2>3. CASE j \in DOMAIN attempts
    <3>1. attempts'[j] = attempts[j]  BY <1>4, <2>3
    <3> QED  BY <2>1, <2>2, <2>3, <3>1 DEF MInv, MeasuredOnce, Done, Measured
  <2>4. CASE j = Len(attempts')
    <3>1. attempts[i].step = step /\ step \in Steps
      BY <1>2, <1>4, <2>1, <2>4, MeasuredIs
    <3>2. Ref(m, step) = 0
      BY <1>1, <3>1, NextIsOpen DEF Dispatched, MInv, RInv, IInv, Sane
    <3>3. i # 0  BY <2>1, AttemptIs DEF MInv, RInv, IInv
    <3>4. Superseded(i)
      BY <1>6, <2>1, <2>2, <3>1, <3>2, <3>3 DEF MInv, DoneIsKept
    <3>5. PICK k \in About(step) : attempts[i].inputs[k] < m.inputs[k]
      BY <3>1, <3>4 DEF Superseded
    <3>6. k \in Kinds  BY <3>1, <3>5, MeasuredIs
    <3>7. attempts[i].inputs[k] \in Nat /\ m.inputs[k] \in Nat
      BY <2>1, <3>6, AttemptIs DEF MInv, RInv, IInv, Sane, AnyManifest, AnyInputs
    <3>8. attempts[i].inputs[k] # m.inputs[k]  BY <3>5, <3>7
    <3> QED  BY <1>2, <1>4, <2>1, <2>4, <3>1, <3>5, <3>8 DEF SameInputs
  <2> QED  BY <1>5, <2>3, <2>4
<1> QED  BY <1>7, <1>8, <1>9

\* Marking the last attempt, or one that is done already, makes no pair.
LEMMA MarkedOnce ==
  ASSUME MInv, NEW i \in DOMAIN attempts, MarkedAt(i),
         i = Len(attempts) \/ Done(i) \/ ~Done(i)', m'.inputs = m.inputs
  PROVE  InputsGrow' /\ MeasuredOnce'
<1>1. InputsGrow'
  BY DEF MInv, InputsGrow, MarkedAt
<1>2. MeasuredOnce'
  <2> SUFFICES ASSUME NEW p \in DOMAIN attempts, NEW q \in DOMAIN attempts, p < q,
                      attempts'[p].step = attempts'[q].step, attempts'[p].step \in Measured,
                      Done(p)'
               PROVE  \/ attempts'[p].from # attempts'[q].from
                      \/ ~SameInputs(attempts'[p], attempts'[p].step, attempts'[q].inputs)
    BY DEF MeasuredOnce, Done, Keeps, Measured, MarkedAt
  <2>1. Done(p)
    <3>1. p # Len(attempts)
      <4>1. p \in Nat /\ q \in Nat /\ q <= Len(attempts) /\ Len(attempts) \in Nat
        BY AttemptIs DEF MInv, RInv, IInv
      <4> QED  BY <4>1
    <3> QED  BY <3>1 DEF Done, Keeps, MarkedAt
  <2>2. \/ attempts[p].from # attempts[q].from
        \/ ~SameInputs(attempts[p], attempts[p].step, attempts[q].inputs)
    BY <2>1 DEF MInv, MeasuredOnce, Done, Measured, MarkedAt
  <2> QED  BY <2>2 DEF MarkedAt, SameInputs
<1> QED  BY <1>1, <1>2

\* The session records the attempt that ended, in a row without a result.
RecordsAt(i) ==
  /\ attempts[i].step \in Steps => RowOpen(attempts[i].step)
  /\ m'.inputs = m.inputs
  /\ \A s \in Steps : m'.refs[s] = IF s = attempts[i].step THEN i ELSE m.refs[s]

LEMMA HandleKeeps ==
  ASSUME MInv, Handle \/ Commit
  PROVE  InputsGrow' /\ DoneIsKept' /\ MeasuredOnce'
<1>0. PICK i : i = m.current  OBVIOUS
<1>1. /\ i = Len(attempts) /\ i \in DOMAIN attempts /\ i \in Running /\ m.status = "running"
      /\ attempts \in Seq(AnyAttempt) /\ m' = m
  BY <1>0 DEF MInv, RInv, OneRuns, IInv, Handle, Commit, Go, Running
<1>2. ~Done(i) /\ (attempts[i].step \in Steps => RowOpen(attempts[i].step)) /\ Running = {i}
  BY <1>0, <1>1 DEF MInv, RInv, OneRuns, Running, Done
<1>3. \A j \in DOMAIN attempts : ~Unsaved(j)
  BY <1>2 DEF Unsaved
<1>4. MarkedAt(i) /\ (Handle => ~attempts'[i].closed) /\ (Commit => pc' = "committed")
  <2>1. CASE Handle
    <3>1. PICK outcome \in Results : attempts' = [attempts EXCEPT ![i].result = outcome]
      BY <1>0, <2>1, OutcomesAreResults DEF Handle
    <3>2. MarkedAt(i) /\ attempts'[i].closed = attempts[i].closed
      BY <1>1, <3>1, MarkIs
    <3> QED  BY <1>1, <2>1, <3>2 DEF Running, Commit, Handle, Go
  <2>2. CASE Commit
    <3>1. attempts' = [attempts EXCEPT ![i].closed = TRUE] /\ pc = "resulted" /\ pc' = "committed"
      BY <1>0, <2>2 DEF Commit, Close, Go
    <3>2. MarkedAt(i)
      <4>1. TRUE \in BOOLEAN /\ "none" \in Results  BY DEF Results
      <4> QED  BY <1>1, <3>1, <4>1, MarkIs
    <3> QED  BY <2>2, <3>1, <3>2 DEF Handle, Go
  <2> QED  BY <2>1, <2>2
<1>5. InputsGrow' /\ MeasuredOnce'
  BY <1>1, <1>4, MarkedOnce
<1>6. ASSUME NEW j \in DOMAIN attempts, Done(j)', attempts[j].step \in Measured, j # i
      PROVE  Ref(m, attempts[j].step) = j \/ Superseded(j)
  <2>1. Done(j)  BY <1>4, <1>6 DEF Done, Keeps, MarkedAt
  <2> QED  BY <1>3, <1>6, <2>1 DEF MInv, DoneIsKept
<1>7. ASSUME Done(i)', attempts[i].step \in Measured
      PROVE  Unsaved(i)'
  <2>1. Commit  BY <1>4, <1>7 DEF Done
  <2>2. Running' = {}
    <3>1. attempts'[i].closed  BY <1>7 DEF Done
    <3> QED  BY <1>2, <1>4, <3>1 DEF Running, MarkedAt
  <2>3. attempts[i].step \in Steps  BY <1>7, MeasuredIs
  <2>4. pc' = "committed" /\ RowOpen(attempts[i].step)' /\ attempts'[i].step = attempts[i].step
    BY <1>1, <1>2, <1>4, <2>1, <2>3 DEF RowOpen, MarkedAt
  <2> QED  BY <1>0, <1>1, <2>2, <2>4 DEF Unsaved
<1>8. DoneIsKept'
  <2> SUFFICES ASSUME NEW j \in DOMAIN attempts, Done(j)', attempts[j].step \in Measured
               PROVE  Ref(m, attempts[j].step) = j \/ Unsaved(j)' \/ Superseded(j)'
    BY <1>1, <1>4 DEF DoneIsKept, MarkedAt
  <2>1. CASE j = i  BY <1>7, <2>1
  <2>2. CASE j # i
    <3>1. Ref(m, attempts[j].step) = j \/ Superseded(j)  BY <1>6, <2>2
    <3> QED  BY <1>1, <1>4, <2>2, <3>1 DEF Superseded, MarkedAt
  <2> QED  BY <2>1, <2>2
<1> QED  BY <1>5, <1>8

\* What is recorded takes no other attempt's place.
LEMMA RecordingKeeps ==
  ASSUME MInv, NEW i \in DOMAIN attempts, MarkedAt(i), RecordsAt(i),
         i = Len(attempts) \/ Done(i) \/ ~Done(i)',
         \A j \in DOMAIN attempts : Unsaved(j) /\ Done(j) /\ attempts[j].step \in Measured => j = i
  PROVE  InputsGrow' /\ DoneIsKept' /\ MeasuredOnce'
<1>1. InputsGrow' /\ MeasuredOnce'
  BY MarkedOnce DEF RecordsAt
<1>2. DoneIsKept'
  <2> SUFFICES ASSUME NEW j \in DOMAIN attempts, Done(j)', attempts[j].step \in Measured
               PROVE  Ref(m', attempts[j].step) = j \/ Superseded(j)'
    BY DEF DoneIsKept, MarkedAt
  <2>1. attempts[j].step \in Steps  BY MeasuredIs
  <2>2. CASE j = i
    BY <2>1, <2>2 DEF RecordsAt, Ref
  <2>3. CASE j # i
    <3>1. Done(j) /\ ~Unsaved(j)  BY <2>3 DEF Done, Keeps, MarkedAt
    <3>2. Ref(m, attempts[j].step) = j \/ Superseded(j)  BY <3>1 DEF MInv, DoneIsKept
    <3>3. CASE Superseded(j)
      BY <3>3 DEF Superseded, MarkedAt, RecordsAt
    <3>4. CASE Ref(m, attempts[j].step) = j
      <4>1. j # 0  BY AttemptIs DEF MInv, RInv, IInv
      <4>2. attempts[j].step # attempts[i].step
        BY <2>1, <3>4, <4>1 DEF RecordsAt, RowOpen
      <4> QED  BY <2>1, <3>4, <4>2 DEF RecordsAt, Ref
    <3> QED  BY <3>2, <3>3, <3>4
  <2> QED  BY <2>2, <2>3
<1> QED  BY <1>1, <1>2

\* What is not recorded leaves the results as they are.
LEMMA FailingKeeps ==
  ASSUME MInv, NEW i \in DOMAIN attempts, MarkedAt(i), ~Done(i)', m'.inputs = m.inputs,
         \A s \in Measured : m'.refs[s] = m.refs[s],
         \A j \in DOMAIN attempts : Unsaved(j) /\ Done(j) /\ attempts[j].step \in Measured => j = i
  PROVE  InputsGrow' /\ DoneIsKept' /\ MeasuredOnce'
<1>1. InputsGrow' /\ MeasuredOnce'
  BY MarkedOnce
<1>2. DoneIsKept'
  <2> SUFFICES ASSUME NEW j \in DOMAIN attempts, Done(j)', attempts[j].step \in Measured
               PROVE  Ref(m', attempts[j].step) = j \/ Superseded(j)'
    BY DEF DoneIsKept, MarkedAt
  <2>1. j # i /\ Done(j) /\ ~Unsaved(j)  BY DEF Done, Keeps, MarkedAt
  <2>2. Ref(m, attempts[j].step) = j \/ Superseded(j)  BY <2>1 DEF MInv, DoneIsKept
  <2> QED  BY <2>1, <2>2 DEF Superseded, MarkedAt, Ref
<1> QED  BY <1>1, <1>2

LEMMA RecordKeeps ==
  ASSUME MInv, Record
  PROVE  InputsGrow' /\ DoneIsKept' /\ MeasuredOnce'
<1>0. PICK i : i = m.current  OBVIOUS
<1>1. /\ pc = "committed" /\ pc' \in {"finish", "idle"} /\ attempts' = attempts
      /\ m' = IF Keeps(i) THEN Recorded(m, i)
              ELSE IF attempts[i].step = "report" /\ attempts[i].result = "measured"
                   THEN Pause(Recorded(m, i)) ELSE Pause(m)
  BY <1>0 DEF Record, Unchanged
<1>2. /\ attempts \in Seq(AnyAttempt) /\ m \in AnyManifest /\ i \in DOMAIN attempts
      /\ i = Len(attempts) /\ (attempts[i].step \in Steps => RowOpen(attempts[i].step))
  BY <1>0, <1>1 DEF MInv, RInv, IInv, InPlace, Sane, OneRuns
<1>3. MarkedAt(i) /\ Keeps(i)' = Keeps(i)
  BY <1>1, <1>2 DEF MarkedAt, Keeps
<1>4. \A j \in DOMAIN attempts : Unsaved(j) => j = i
  BY <1>0 DEF Unsaved
<1>5. /\ Recorded(m, i).inputs = m.inputs
      /\ \A s \in Steps : Recorded(m, i).refs[s] = IF s = attempts[i].step THEN i ELSE m.refs[s]
  BY <1>2, RecordedLeaves
<1>6. CASE Keeps(i)
  <2>1. m' = Recorded(m, i)  BY <1>1, <1>6
  <2>2. RecordsAt(i)  BY <1>2, <1>5, <2>1 DEF RecordsAt
  <2> QED  BY <1>2, <1>3, <1>4, <2>2, RecordingKeeps
<1>7. CASE ~Keeps(i)
  <2>1. ~Done(i)'  BY <1>3, <1>7 DEF Done
  <2>2. PICK mm : /\ m' = WithStatus(mm, "paused")
                  /\ mm = m \/ (mm = Recorded(m, i) /\ attempts[i].step = "report")
    BY <1>1, <1>7 DEF Pause, WithStatus
  <2>3. mm \in AnyManifest
    BY <1>2, <2>2, RecordedIsSane DEF MInv, RInv, IInv, Sane
  <2>4. m'.inputs = mm.inputs /\ m'.refs = mm.refs
    BY <2>2, <2>3 DEF WithStatus, AnyManifest
  <2>5. m'.inputs = m.inputs /\ \A s \in Measured : m'.refs[s] = m.refs[s]
    BY <1>5, <2>2, <2>4, MeasuredIs
  <2> QED  BY <1>2, <1>3, <1>4, <2>1, <2>5, FailingKeeps
<1> QED  BY <1>6, <1>7

LEMMA ReconcileKeeps ==
  ASSUME MInv, Reconcile
  PROVE  InputsGrow' /\ DoneIsKept' /\ MeasuredOnce'
<1>1. PICK i \in ToReconcile :
        LET seen == IF attempts[i].closed THEN m ELSE [m EXCEPT !.current = i, !.status = "running"]
        IN /\ Reconcilable(i) /\ attempts' = Close(i)
           /\ m' = IF Keeps(i) THEN Recorded(seen, i) ELSE Pause(seen)
  BY DEF Reconcile
<1>2. PICK seen :
        /\ seen = m \/ seen = Turned(m, i)
        /\ m' = Recorded(seen, i) \/ (m' = WithStatus(seen, "paused") /\ ~Keeps(i))
  <2> DEFINE s == IF attempts[i].closed THEN m ELSE [m EXCEPT !.current = i, !.status = "running"]
  <2>1. s = m \/ s = Turned(m, i)
    BY DEF MInv, RInv, IInv, Sane, AnyManifest, Turned
  <2>2. m' = Recorded(s, i) \/ (m' = WithStatus(s, "paused") /\ ~Keeps(i))
    BY <1>1 DEF Pause, WithStatus
  <2> HIDE DEF s
  <2> QED  BY <2>1, <2>2
<1>3. /\ attempts \in Seq(AnyAttempt) /\ m \in AnyManifest /\ i \in DOMAIN attempts /\ i \in Nat
      /\ i \in Running => i = Len(attempts)
      /\ attempts[i].step \in Steps => RowOpen(attempts[i].step)
  <2>1. /\ attempts \in Seq(AnyAttempt) /\ m \in AnyManifest /\ i \in DOMAIN attempts
        /\ i \in Running \/ (Unrecorded(m) /\ i = m.current)
    BY DEF ToReconcile, Running, Unrecorded, MInv, RInv, IInv, InPlace, Sane
  <2>2. i \in Nat  BY <2>1, AttemptIs
  <2>3. CASE i \in Running
    BY <2>1, <2>2, <2>3 DEF MInv, RInv, OneRuns
  <2>4. CASE Unrecorded(m) /\ i = m.current
    BY <2>1, <2>2, <2>4, StepNames DEF Unrecorded, RowOpen
  <2> QED  BY <2>1, <2>3, <2>4
<1>4. /\ seen \in AnyManifest /\ seen.inputs = m.inputs /\ seen.refs = m.refs
  BY <1>2, <1>3 DEF Turned, AnyManifest
<1>5. MarkedAt(i) /\ Keeps(i)' = Keeps(i) /\ (attempts[i].closed => Done(i) \/ ~Keeps(i))
  <2>1. TRUE \in BOOLEAN /\ "none" \in Results  BY DEF Results
  <2>2. MarkedAt(i) /\ attempts'[i].result = attempts[i].result
    BY <1>1, <1>3, <2>1, MarkIs DEF Close
  <2> QED  BY <1>1, <2>2 DEF MarkedAt, Keeps, Done, Reconcilable
<1>6. i = Len(attempts) \/ Done(i) \/ ~Done(i)'
  BY <1>3, <1>5 DEF Done, Running
<1>7. \A j \in DOMAIN attempts : Unsaved(j) /\ Done(j) /\ attempts[j].step \in Measured => j = i
  BY UnsavedIsNext DEF MInv
<1>8. CASE m' = Recorded(seen, i)
  <2>1. /\ m'.inputs = m.inputs
        /\ \A s \in Steps : m'.refs[s] = IF s = attempts[i].step THEN i ELSE m.refs[s]
    BY <1>3, <1>4, <1>8, RecordedLeaves
  <2>2. RecordsAt(i)  BY <1>3, <2>1 DEF RecordsAt
  <2> QED  BY <1>3, <1>5, <1>6, <1>7, <2>2, RecordingKeeps
<1>9. CASE m' = WithStatus(seen, "paused") /\ ~Keeps(i)
  <2>1. m'.inputs = m.inputs /\ m'.refs = m.refs
    BY <1>4, <1>9 DEF WithStatus, AnyManifest
  <2>2. ~Done(i)'  BY <1>5, <1>9 DEF Done
  <2> QED  BY <1>3, <1>5, <1>7, <2>1, <2>2, FailingKeeps
<1> QED  BY <1>2, <1>8, <1>9

LEMMA RecoverKeeps ==
  ASSUME MInv, Recover
  PROVE  InputsGrow' /\ DoneIsKept' /\ MeasuredOnce'
<1>1. PICK i : i = m.current  OBVIOUS
<1>2. /\ attempts' = [attempts EXCEPT ![i].result = "error", ![i].closed = TRUE]
      /\ i \in DOMAIN attempts /\ attempts \in Seq(AnyAttempt) /\ Running = {i}
      /\ m \in AnyManifest
  BY <1>1 DEF Recover, Recoverable, Running, MInv, RInv, IInv, Sane
<1>3. m'.inputs = m.inputs /\ m'.refs = m.refs
  BY <1>2 DEF Recover, AnyManifest
<1>4. "error" \in Results /\ TRUE \in BOOLEAN  BY DEF Results, Failures
<1>5. MarkedAt(i) /\ attempts'[i].result = "error"
  BY <1>2, <1>4, MarkIs, Zenon
<1>6. ~Done(i)'  BY <1>5 DEF Done, Keeps, Failures
<1>7. \A j \in DOMAIN attempts : ~Unsaved(j)  BY <1>2 DEF Unsaved
<1> QED  BY <1>2, <1>3, <1>5, <1>6, <1>7, FailingKeeps

\* What a revision makes stale is about the input it changes.
LEMMA StaleIsAbout ==
  ASSUME NEW k, NEW s \in Stale(k), s \in Measured
  PROVE  k \in About(s) /\ k \in Kinds
<1> USE DEF Stale, Delivery, Coded, Measured, Measurements, Analyses, About, Kinds, BriefKinds,
            ExecutionKinds
<1>1. CASE k = "question"
  <2>1. s \in {"read", "implementation", "implementation_r1", "experiment", "experiment_r1"}
    BY <1>1
  <2> QED  BY <1>1, <2>1
<1>2. CASE k = "constraints"
  <2>1. s \in {"implementation", "implementation_r1", "experiment", "experiment_r1"}
    BY <1>2
  <2> QED  BY <1>2, <2>1
<1>3. CASE k = "protocol"
  <2>1. s \in {"experiment", "experiment_r1"}
    BY <1>3
  <2> QED  BY <1>3, <2>1
<1>4. CASE k = "setup"
  <2>1. s \in {"baseline", "experiment", "experiment_r1"}
    BY <1>4
  <2> QED  BY <1>4, <2>1
<1>5. k \in {"question", "constraints", "protocol", "setup"}
  OBVIOUS
<1> QED  BY <1>1, <1>2, <1>3, <1>4, <1>5

LEMMA ChangedInputs ==
  ASSUME NEW mm, mm \in AnyManifest, NEW k
  PROVE  /\ \A x \in Kinds : mm.inputs[x] <= Changed(mm, k).inputs[x]
         /\ k \in Kinds => mm.inputs[k] < Changed(mm, k).inputs[k]
BY DEF Changed, AnyManifest, AnyInputs

LEMMA DropInputs ==
  ASSUME NEW mm, mm \in AnyManifest, NEW steps
  PROVE  Drop(mm, steps).inputs = mm.inputs
BY DEF Drop, AnyManifest

\* A revision retires a measured result only when it was about its input.
LEMMA InvalidatedKeeps ==
  ASSUME NEW mm, mm \in AnyManifest, NEW k
  PROVE  /\ Invalidated(mm, k).inputs = mm.inputs
         /\ \A s \in Measured : \/ Invalidated(mm, k).refs[s] = mm.refs[s]
                                \/ k \in About(s) /\ k \in Kinds
<1> DEFINE steps == (Stale(k) \cap ToSet(Rows(mm.plan))) \cup (IF k = "setup" THEN {"baseline"} ELSE {})
<1>1. CASE k = "preferences"
  <2>1. Invalidated(mm, k) = Drop(mm, {"report"})  BY <1>1 DEF Invalidated
  <2> QED  BY <2>1, DropIs, DropInputs, MeasuredIs
<1>2. CASE k # "preferences"
  <2> DEFINE dropped == Drop(mm, steps)
  <2>1. /\ dropped \in AnyManifest /\ dropped.inputs = mm.inputs
        /\ \A s \in Steps : dropped.refs[s] = IF s \in steps THEN 0 ELSE mm.refs[s]
    BY DropIs, DropInputs
  <2>2. Invalidated(mm, k) = [dropped EXCEPT !.plan = [kind |-> "none", by |-> 0],
                                             !.planned = @ /\ k # "question",
                                             !.decision = IF k = "outputs" THEN @ ELSE None]
    BY <1>2 DEF Invalidated
  <2> HIDE DEF dropped
  <2>3. Invalidated(mm, k).inputs = mm.inputs /\ Invalidated(mm, k).refs = dropped.refs
    BY <2>1, <2>2 DEF AnyManifest
  <2>4. ASSUME NEW s \in Measured, s \in steps
        PROVE  k \in About(s) /\ k \in Kinds
    <3>1. CASE s \in Stale(k)
      BY <2>4, <3>1, StaleIsAbout
    <3>2. CASE k = "setup" /\ s = "baseline"
      BY <3>2 DEF About, Kinds, ExecutionKinds
    <3> QED  BY <2>4, <3>1, <3>2
  <2> HIDE DEF steps
  <2> QED  BY <2>1, <2>3, <2>4, MeasuredIs
<1> QED  BY <1>1, <1>2

LEMMA ApplyKeeps ==
  ASSUME MInv, Apply
  PROVE  InputsGrow' /\ DoneIsKept' /\ MeasuredOnce'
<1> DEFINE cleared == [m EXCEPT !.current = 0]
           reset == Drop(cleared, {"report", IF Latest(m) = Ref(m, "analysis")
                                             THEN "analysis" ELSE "analysis_r1"})
<1>0. pc = "continued" /\ attempts' = attempts
  BY DEF Apply, Go
<1>1. m' = CASE wanted = None -> m
              [] wanted = "report" -> Changed(m, "report")
              [] wanted = "refresh" -> Changed(Drop(cleared, {"report"}), "report")
              [] wanted = "reanalyze" -> [reset EXCEPT !.decision = None]
                 [] OTHER -> Changed(Invalidated(cleared, wanted), wanted)
  BY DEF Apply, Changed
<1>2. /\ m \in AnyManifest /\ cleared \in AnyManifest /\ cleared.refs = m.refs
      /\ cleared.inputs = m.inputs /\ attempts \in Seq(AnyAttempt)
  BY DEF MInv, RInv, IInv, Sane, AnyManifest
<1> HIDE DEF cleared
<1>3. /\ \A k \in Kinds : m.inputs[k] <= m'.inputs[k]
      /\ \A s \in Measured : \/ m'.refs[s] = m.refs[s]
                             \/ \E k \in About(s) : m.inputs[k] < m'.inputs[k]
  <2>0. \A k \in Kinds : m.inputs[k] \in Nat
    BY <1>2 DEF AnyManifest, AnyInputs
  <2>1. CASE m' = m
    BY <2>0, <2>1
  <2>2. CASE m' = Changed(m, "report")
    BY <1>2, <2>2, ChangedIs, ChangedInputs
  <2>3. CASE m' = Changed(Drop(cleared, {"report"}), "report")
    <3>1. PICK d : d = Drop(cleared, {"report"})  OBVIOUS
    <3>2. /\ d \in AnyManifest /\ d.inputs = m.inputs
          /\ \A s \in Measured : d.refs[s] = m.refs[s]
      BY <1>2, <3>1, DropIs, DropInputs, MeasuredIs
    <3> QED  BY <2>3, <3>1, <3>2, ChangedIs, ChangedInputs
  <2>4. CASE m' = [reset EXCEPT !.decision = None]
    <3>0. PICK a \in Analyses : reset = Drop(cleared, {"report", a})
      BY DEF Analyses
    <3>1. PICK d : d = reset /\ d = Drop(cleared, {"report", a})
      BY <3>0
    <3> HIDE DEF reset
    <3>2. /\ d \in AnyManifest /\ d.inputs = m.inputs
          /\ \A s \in Measured : d.refs[s] = m.refs[s]
      BY <1>2, <3>1, DropIs, DropInputs, MeasuredIs
    <3>3. m'.inputs = d.inputs /\ m'.refs = d.refs
      BY <2>4, <3>1, <3>2 DEF AnyManifest
    <3> QED  BY <2>0, <3>2, <3>3
  <2>5. CASE m' = Changed(Invalidated(cleared, wanted), wanted)
    <3>1. PICK d : d = Invalidated(cleared, wanted)  OBVIOUS
    <3>2. /\ d \in AnyManifest /\ d.inputs = m.inputs
          /\ \A s \in Measured : d.refs[s] = m.refs[s] \/ (wanted \in About(s) /\ wanted \in Kinds)
      BY <1>2, <3>1, InvalidatedIs, InvalidatedKeeps
    <3>3. /\ m'.refs = d.refs /\ \A k \in Kinds : m.inputs[k] <= m'.inputs[k]
          /\ wanted \in Kinds => m.inputs[wanted] < m'.inputs[wanted]
      BY <2>5, <3>1, <3>2, ChangedIs, ChangedInputs
    <3> QED  BY <3>2, <3>3
  <2> HIDE DEF reset
  <2>6. \/ m' = m
        \/ m' = Changed(m, "report")
        \/ m' = Changed(Drop(cleared, {"report"}), "report")
        \/ m' = [reset EXCEPT !.decision = None]
        \/ m' = Changed(Invalidated(cleared, wanted), wanted)
    <3> DEFINE a == Changed(m, "report")
               b == Changed(Drop(cleared, {"report"}), "report")
               c == [reset EXCEPT !.decision = None]
               d == Changed(Invalidated(cleared, wanted), wanted)
    <3>1. m' = CASE wanted = None -> m [] wanted = "report" -> a [] wanted = "refresh" -> b
              [] wanted = "reanalyze" -> c [] OTHER -> d
      BY <1>1
    <3> HIDE DEF a, b, c, d
    <3>2. m' = m \/ m' = a \/ m' = b \/ m' = c \/ m' = d  BY <3>1
    <3> QED  BY <3>2 DEF a, b, c, d
  <2> QED  BY <2>1, <2>2, <2>3, <2>4, <2>5, <2>6
<1>4. ASSUME NEW i \in DOMAIN attempts
      PROVE  \A k \in Kinds : /\ attempts[i].inputs[k] \in Nat /\ m.inputs[k] \in Nat
                              /\ attempts[i].inputs[k] <= m.inputs[k]
  BY <1>2, AttemptIs DEF AnyManifest, AnyInputs, MInv, InputsGrow
<1>5. /\ m' \in AnyManifest /\ \A k \in Kinds : m'.inputs[k] \in Nat
  <2>1. m' \in AnyManifest
    BY ApplyStep DEF MInv, RInv, IInv, Sane
  <2> QED  BY <2>1 DEF AnyManifest, AnyInputs
<1>6. InputsGrow'
  BY <1>0, <1>3, <1>4, <1>5 DEF InputsGrow
<1>7. MeasuredOnce'
  BY <1>0 DEF MInv, MeasuredOnce, Keeps
<1>8. DoneIsKept'
  <2> SUFFICES ASSUME NEW i \in DOMAIN attempts, Done(i), attempts[i].step \in Measured
               PROVE  Ref(m', attempts[i].step) = i \/ Superseded(i)'
    BY <1>0 DEF DoneIsKept, Done, Keeps
  <2>1. Ref(m, attempts[i].step) = i \/ Superseded(i)
    BY <1>0 DEF MInv, DoneIsKept, Unsaved
  <2>2. About(attempts[i].step) \subseteq Kinds  BY MeasuredIs
  <2>3. Superseded(i) => Superseded(i)'
    BY <1>0, <1>3, <1>4, <1>5, <2>2 DEF Superseded
  <2>4. (\E k \in About(attempts[i].step) : m.inputs[k] < m'.inputs[k]) => Superseded(i)'
    BY <1>0, <1>4, <1>5, <2>2 DEF Superseded
  <2> QED  BY <1>3, <2>1, <2>3, <2>4 DEF Ref
<1> QED  BY <1>6, <1>7, <1>8

LEMMA InitMeasures == Init => MInv
<1> SUFFICES ASSUME Init PROVE MInv  OBVIOUS
<1>1. attempts = <<>>  BY DEF Init
<1> QED  BY <1>1, InitRests DEF MInv, InputsGrow, DoneIsKept, MeasuredOnce

LEMMA StepMeasures == MInv /\ [Step]_vars => MInv'
<1> SUFFICES ASSUME MInv, [Step]_vars PROVE MInv'  OBVIOUS
<1>1. RInv'  BY StepRuns DEF MInv
<1>2. InputsGrow' /\ DoneIsKept' /\ MeasuredOnce'
  BY QuietKeeps, BeginKeeps, HandleKeeps, RecordKeeps, ReconcileKeeps, RecoverKeeps, ApplyKeeps
     DEF Step, Calls, Replies, Quiet
<1> QED  BY <1>1, <1>2 DEF MInv

\* Work that was paid for is not done again: a reading, an implementation or a
\* measurement that ended with its result is not started anew for the same
\* inputs and sources, however often the session is killed, reconciled,
\* recovered, revised or continued (_next_action, _record_attempt_outputs,
\* _invalidate_revised_inputs).
THEOREM NothingIsMeasuredTwice == Spec => []MeasuredOnce
<1>1. MInv => MeasuredOnce  BY DEF MInv
<1>2. Spec => []MInv  BY InitMeasures, StepMeasures, PTL DEF Spec
<1> QED  BY <1>1, <1>2, PTL

----------------------------------------------------------------------------
(* What is kept stands                                                      *)

\* The steps whose results outlive the design or the analysis they were made
\* from, and the rows of a follow-up.
Retained == {"implementation", "implementation_r1"}
Revised == {"implementation_r1", "experiment_r1", "analysis_r1"}

\* Attempt i is of what is next, for the inputs and from the results of now.
Fresh(i) ==
  LET a == attempts[i] IN
  /\ Next(m) = a.step /\ a.inputs = m.inputs /\ a.from = Sources(m, a.step)

\* Nothing is revised or decided while an attempt runs or waits to be recorded.
AttemptsAreFresh ==
  /\ \A i \in Running : Fresh(i)
  /\ pc = "committed" => Fresh(m.current)

CurrentIsKept ==
  LET i == m.current IN
  i # 0 /\ attempts[i].step \in Steps /\ Done(i) =>
    \/ Ref(m, attempts[i].step) = i
    \/ pc \in {"committed", "idle"} /\ m.status = "running" /\ Running = {} /\ Fresh(i)

\* The result of s was made for the current inputs, from the current results,
\* of which none was missing.
Standing(mm, s) ==
  mm.refs[s] # 0 =>
    LET a == attempts[mm.refs[s]] IN
    /\ SameInputs(a, s, mm.inputs)
    /\ s \notin Retained =>
         /\ a.from = Sources(mm, s)
         /\ \A n \in DOMAIN a.from : a.from[n] # 0

OnlyFollowups(mm) == mm.plan.kind # "followup" => \A s \in Revised : mm.refs[s] = 0

\* The latest analysis was decided, unless that of a revised candidate is
\* being made again.
DecidedOn(mm) == mm.decision # None /\ mm.decision.analysis = Latest(mm)
AnalysisIsDecided(mm) ==
  Latest(mm) # 0 =>
    \/ DecidedOn(mm)
    \/ mm.plan.kind = "followup" /\ mm.refs["experiment_r1"] # 0 /\ mm.refs["analysis_r1"] = 0

\* Once the report is written no further analysis can come about.
ReportIsLast(mm) ==
  mm.refs["report"] # 0 =>
    /\ DecidedOn(mm)
    /\ \/ mm.refs["analysis_r1"] # 0
       \/ /\ \A s \in Revised : mm.refs[s] = 0
          /\ ~(mm.decision.status = "pending" /\ mm.decision.stage = "research_choice")
          /\ mm.plan.kind = "followup" => mm.decision.action # "revise_candidate"

Consistent(mm) ==
  /\ \A s \in Steps : Standing(mm, s)
  /\ OnlyFollowups(mm) /\ AnalysisIsDecided(mm) /\ ReportIsLast(mm)

\* A continuation applies a revision of the inputs, or makes a result again.
WantedIsKnown == wanted \in Kinds \cup {"refresh", "reanalyze", None}

KInv ==
  /\ MInv /\ WantedIsKnown
  /\ AttemptsAreFresh /\ CurrentIsKept /\ (gaps = {} => Consistent(m))

\* What is next follows from the results, the plan and the decision.
LEMMA SameNext ==
  ASSUME NEW mm, NEW nn, nn.refs = mm.refs, nn.plan = mm.plan, nn.decision = mm.decision
  PROVE  /\ Next(nn) = Next(mm) /\ Latest(nn) = Latest(mm)
         /\ \A s : Sources(nn, s) = Sources(mm, s)
<1>1. \A s : Ref(nn, s) = Ref(mm, s)  BY DEF Ref
<1>2. Latest(nn) = Latest(mm)  BY <1>1 DEF Latest
<1>3. Stopped(nn) = Stopped(mm)  BY DEF Stopped
<1>4. \A s : Applies(nn, s) = Applies(mm, s)  BY <1>1 DEF Applies
<1>5. \A s : Sources(nn, s) = Sources(mm, s)
  <2> TAKE s
  <2>1. /\ Ref(nn, "read") = Ref(mm, "read") /\ Ref(nn, "design") = Ref(mm, "design")
        /\ Ref(nn, "baseline") = Ref(mm, "baseline")
        /\ Ref(nn, "implementation") = Ref(mm, "implementation")
        /\ Ref(nn, "experiment") = Ref(mm, "experiment")
        /\ Ref(nn, "analysis") = Ref(mm, "analysis")
        /\ Ref(nn, "implementation_r1") = Ref(mm, "implementation_r1")
        /\ Ref(nn, "experiment_r1") = Ref(mm, "experiment_r1")
    BY <1>1
  <2> QED  BY <1>2, <2>1 DEF Sources
<1> DEFINE rows == Rows(mm.plan)
           open(x) == {i \in DOMAIN rows : Ref(x, rows[i]) = 0 /\ Applies(x, rows[i])}
<1>6. open(nn) = open(mm)  BY <1>1, <1>4, Zenon
<1>7. Next(nn) = Next(mm)
  BY <1>1, <1>3, <1>6, Zenon DEF Next
<1> QED  BY <1>2, <1>5, <1>7

LEMMA NamesOfSteps ==
  /\ Steps = {"read", "design", "report", "analysis", "analysis_r1", "baseline", "experiment",
              "experiment_r1", "implementation", "implementation_r1"}
  /\ Revised \subseteq Steps /\ Retained \subseteq Steps /\ Revised = ToSet(Followup)
<1>1. ToSet(Followup) = Revised
  BY DEF ToSet, Followup, Revised
<1> QED  BY <1>1 DEF Steps, Analyses, Execution, Measurements, Revised, Retained

LEMMA ConcatIs ==
  ASSUME NEW S, NEW r \in Seq(S), NEW t \in Seq(S)
  PROVE  /\ r \o t \in Seq(S) /\ Len(r \o t) = Len(r) + Len(t)
         /\ \A i \in 1 .. Len(r) : (r \o t)[i] = r[i]
BY ConcatProperties

\* The rows of the plans one by one.
First(rows) ==
  /\ rows[1] = "read" /\ rows[2] = "design" /\ rows[3] = "baseline" /\ rows[4] = "implementation"
  /\ rows[5] = "experiment" /\ rows[6] = "analysis"

LEMMA RowsAre ==
  ASSUME NEW plan \in AnyPlan
  PROVE  LET rows == Rows(plan) IN
         /\ plan.kind = "none" => DOMAIN rows = {}
         /\ plan.kind = "checkpoint" =>
              DOMAIN rows = 1 .. 2 /\ rows[1] = "read" /\ rows[2] = "design"
         /\ plan.kind = "accepted" => DOMAIN rows = 1 .. 7 /\ First(rows) /\ rows[7] = "report"
         /\ plan.kind = "followup" =>
              /\ DOMAIN rows = 1 .. 10 /\ First(rows)
              /\ rows[7] = "implementation_r1" /\ rows[8] = "experiment_r1"
              /\ rows[9] = "analysis_r1" /\ rows[10] = "report"
<1> DEFINE four == <<"baseline", "implementation", "experiment", "analysis">>
           one == <<"report">>
           S == Steps
<1>1. /\ Checkpoint \in Seq(S) /\ Len(Checkpoint) = 2
      /\ Checkpoint[1] = "read" /\ Checkpoint[2] = "design"
      /\ four \in Seq(S) /\ Len(four) = 4 /\ four[1] = "baseline" /\ four[2] = "implementation"
      /\ four[3] = "experiment" /\ four[4] = "analysis"
      /\ Followup \in Seq(S) /\ Len(Followup) = 3 /\ Followup[1] = "implementation_r1"
      /\ Followup[2] = "experiment_r1" /\ Followup[3] = "analysis_r1"
      /\ one \in Seq(S) /\ Len(one) = 1 /\ one[1] = "report"
  BY NamesOfSteps DEF Checkpoint, Followup
<1>2. Executed = Checkpoint \o four  BY DEF Executed
<1> HIDE DEF four, one, S
<1>4. Executed \in Seq(S) /\ Len(Executed) = 6 /\ First(Executed)
  <2>0. Checkpoint \in Seq(S) /\ four \in Seq(S)  BY <1>1
  <2>1. /\ Executed \in Seq(S) /\ Len(Executed) = Len(Checkpoint) + Len(four)
        /\ \A i \in 1 .. Len(Checkpoint) : Executed[i] = Checkpoint[i]
    BY <1>2, <2>0, ConcatIs, Zenon
  <2>2. /\ 3 \in 1 .. Len(Checkpoint) + Len(four)
        /\ 4 \in 1 .. Len(Checkpoint) + Len(four)
        /\ 5 \in 1 .. Len(Checkpoint) + Len(four)
        /\ 6 \in 1 .. Len(Checkpoint) + Len(four)
    BY <1>1
  <2>3. /\ Executed[3] = IF 3 <= Len(Checkpoint) THEN Checkpoint[3] ELSE four[3 - Len(Checkpoint)]
        /\ Executed[4] = IF 4 <= Len(Checkpoint) THEN Checkpoint[4] ELSE four[4 - Len(Checkpoint)]
        /\ Executed[5] = IF 5 <= Len(Checkpoint) THEN Checkpoint[5] ELSE four[5 - Len(Checkpoint)]
        /\ Executed[6] = IF 6 <= Len(Checkpoint) THEN Checkpoint[6] ELSE four[6 - Len(Checkpoint)]
    BY <1>2, <2>0, <2>2, ConcatProperties, Zenon
  <2>4. /\ 3 - Len(Checkpoint) = 1 /\ ~(3 <= Len(Checkpoint))
        /\ 4 - Len(Checkpoint) = 2 /\ ~(4 <= Len(Checkpoint))
        /\ 5 - Len(Checkpoint) = 3 /\ ~(5 <= Len(Checkpoint))
        /\ 6 - Len(Checkpoint) = 4 /\ ~(6 <= Len(Checkpoint))
    BY <1>1
  <2>5. Executed[3] = four[1] /\ Executed[4] = four[2] /\ Executed[5] = four[3] /\ Executed[6] = four[4]
    BY <2>3, <2>4
  <2> QED  BY <1>1, <2>1, <2>5 DEF First
<1>5. PICK rows : rows = Executed \o one  OBVIOUS
<1>6. rows \in Seq(S) /\ Len(rows) = 7 /\ First(rows) /\ rows[7] = "report"
  <2>0. Executed \in Seq(S) /\ one \in Seq(S)  BY <1>1, <1>4
  <2>1. /\ rows \in Seq(S) /\ Len(rows) = Len(Executed) + Len(one)
        /\ \A i \in 1 .. Len(Executed) : rows[i] = Executed[i]
    BY <1>5, <2>0, ConcatIs, Zenon
  <2>2. 7 \in 1 .. Len(Executed) + Len(one)
    BY <1>1, <1>4
  <2>3. /\ rows[7] = IF 7 <= Len(Executed) THEN Executed[7] ELSE one[7 - Len(Executed)]
    BY <1>5, <2>0, <2>2, ConcatProperties, Zenon
  <2>4. /\ 7 - Len(Executed) = 1 /\ ~(7 <= Len(Executed))
    BY <1>1, <1>4
  <2>5. rows[7] = one[1]
    BY <2>3, <2>4
  <2> QED  BY <1>1, <1>4, <2>1, <2>5 DEF First
<1>7. PICK more : more = Executed \o Followup  OBVIOUS
<1>8. /\ more \in Seq(S) /\ Len(more) = 9 /\ First(more)
      /\ more[7] = "implementation_r1" /\ more[8] = "experiment_r1" /\ more[9] = "analysis_r1"
  <2>0. Executed \in Seq(S) /\ Followup \in Seq(S)  BY <1>1, <1>4
  <2>1. /\ more \in Seq(S) /\ Len(more) = Len(Executed) + Len(Followup)
        /\ \A i \in 1 .. Len(Executed) : more[i] = Executed[i]
    BY <1>7, <2>0, ConcatIs, Zenon
  <2>2. /\ 7 \in 1 .. Len(Executed) + Len(Followup)
        /\ 8 \in 1 .. Len(Executed) + Len(Followup)
        /\ 9 \in 1 .. Len(Executed) + Len(Followup)
    BY <1>1, <1>4
  <2>3. /\ more[7] = IF 7 <= Len(Executed) THEN Executed[7] ELSE Followup[7 - Len(Executed)]
        /\ more[8] = IF 8 <= Len(Executed) THEN Executed[8] ELSE Followup[8 - Len(Executed)]
        /\ more[9] = IF 9 <= Len(Executed) THEN Executed[9] ELSE Followup[9 - Len(Executed)]
    BY <1>7, <2>0, <2>2, ConcatProperties, Zenon
  <2>4. /\ 7 - Len(Executed) = 1 /\ ~(7 <= Len(Executed))
        /\ 8 - Len(Executed) = 2 /\ ~(8 <= Len(Executed))
        /\ 9 - Len(Executed) = 3 /\ ~(9 <= Len(Executed))
    BY <1>1, <1>4
  <2>5. more[7] = Followup[1] /\ more[8] = Followup[2] /\ more[9] = Followup[3]
    BY <2>3, <2>4
  <2> QED  BY <1>1, <1>4, <2>1, <2>5 DEF First
<1>9. PICK all : all = more \o one  OBVIOUS
<1>10. /\ all \in Seq(S) /\ Len(all) = 10 /\ First(all)
       /\ all[7] = "implementation_r1" /\ all[8] = "experiment_r1" /\ all[9] = "analysis_r1"
       /\ all[10] = "report"
  <2>0. more \in Seq(S) /\ one \in Seq(S)  BY <1>1, <1>8
  <2>1. /\ all \in Seq(S) /\ Len(all) = Len(more) + Len(one)
        /\ \A i \in 1 .. Len(more) : all[i] = more[i]
    BY <1>9, <2>0, ConcatIs, Zenon
  <2>2. 10 \in 1 .. Len(more) + Len(one)
    BY <1>1, <1>8
  <2>3. /\ all[10] = IF 10 <= Len(more) THEN more[10] ELSE one[10 - Len(more)]
    BY <1>9, <2>0, <2>2, ConcatProperties, Zenon
  <2>4. /\ 10 - Len(more) = 1 /\ ~(10 <= Len(more))
    BY <1>1, <1>8
  <2>5. all[10] = one[1]
    BY <2>3, <2>4
  <2> QED  BY <1>1, <1>8, <2>1, <2>5 DEF First
<1>11. CASE plan.kind = "none"
  <2>1. Rows(plan) = <<>>  BY <1>11 DEF Rows
  <2> QED  BY <1>11, <2>1
<1>12. CASE plan.kind = "checkpoint"
  <2>1. Rows(plan) = Checkpoint  BY <1>12 DEF Rows
  <2> QED  BY <1>1, <1>12, <2>1
<1>13. CASE plan.kind = "accepted"
  <2>1. Rows(plan) = rows  BY <1>5, <1>13 DEF Rows, one
  <2> QED  BY <1>6, <1>13, <2>1
<1>14. CASE plan.kind = "followup"
  <2>1. Rows(plan) = all  BY <1>7, <1>9, <1>14, Zenon DEF Rows, one
  <2> QED  BY <1>10, <1>14, <2>1
<1> QED  BY <1>11, <1>12, <1>13, <1>14 DEF AnyPlan

\* The row that is next comes after rows that have a result, or are not due.
LEMMA NextIsFirst ==
  ASSUME NEW mm, mm \in AnyManifest, Next(mm) \in Steps
  PROVE  /\ ~Stopped(mm)
         /\ \E j \in DOMAIN Rows(mm.plan) :
              /\ Rows(mm.plan)[j] = Next(mm)
              /\ \A p \in DOMAIN Rows(mm.plan) : p < j =>
                   Ref(mm, Rows(mm.plan)[p]) # 0 \/ ~Applies(mm, Rows(mm.plan)[p])
<1> DEFINE rows == Rows(mm.plan)
           open == {i \in DOMAIN rows : Ref(mm, rows[i]) = 0 /\ Applies(mm, rows[i])}
<1>1. ~Stopped(mm) /\ open # {} /\ Next(mm) = rows[Min(open)]
  BY StepNames, Zenon DEF Next
<1>2. DOMAIN rows \subseteq Nat
  BY RowsAreSteps DEF AnyManifest
<1>3. open \subseteq DOMAIN rows  OBVIOUS
<1> HIDE DEF open
<1>4. Min(open) \in open /\ \A y \in open : Min(open) =< y
  BY <1>1, <1>2, <1>3, LeastIsIn
<1>5. ASSUME NEW p \in DOMAIN rows, p < Min(open)
      PROVE  p \notin open
  BY <1>2, <1>3, <1>4, <1>5
<1> QED  BY <1>1, <1>3, <1>4, <1>5 DEF open

LEMMA AppliesTo ==
  ASSUME NEW mm
  PROVE  /\ \A s : s \notin Revised => Applies(mm, s)
         /\ Applies(mm, "implementation_r1") =>
              mm.decision # None /\ mm.decision.action = "revise_candidate"
         /\ mm.decision # None /\ mm.decision.action = "revise_candidate" =>
              Applies(mm, "implementation_r1")
         /\ Applies(mm, "experiment_r1") <=> mm.refs["implementation_r1"] # 0
         /\ Applies(mm, "analysis_r1") <=> mm.refs["experiment_r1"] # 0
<1>1. \A s : s \notin Revised => Applies(mm, s)  BY DEF Applies, Revised
<1>2. Applies(mm, "experiment_r1") <=> mm.refs["implementation_r1"] # 0  BY DEF Applies, Ref
<1>3. Applies(mm, "analysis_r1") <=> mm.refs["experiment_r1"] # 0  BY DEF Applies, Ref
<1> QED  BY <1>1, <1>2, <1>3 DEF Applies

\* What a row that is next comes after.
LEMMA Predecessors ==
  ASSUME NEW mm, mm \in AnyManifest, NEW s \in Steps, Next(mm) = s
  PROVE  /\ ~Stopped(mm) /\ Applies(mm, s)
         /\ s \in Revised => mm.plan.kind = "followup"
         /\ s = "design" => mm.refs["read"] # 0
         /\ s = "experiment" => mm.refs["implementation"] # 0
         /\ s \in Analyses => mm.refs["baseline"] # 0
         /\ s = "analysis" => mm.refs["experiment"] # 0
         /\ s = "report" => mm.refs["analysis"] # 0
         /\ s = "report" /\ mm.plan.kind = "followup" =>
              \A r \in Revised : mm.refs[r] # 0 \/ ~Applies(mm, r)
<1> DEFINE rows == Rows(mm.plan)
<1>1. PICK j \in DOMAIN rows :
        /\ rows[j] = s
        /\ \A p \in DOMAIN rows : p < j => mm.refs[rows[p]] # 0 \/ ~Applies(mm, rows[p])
  BY NextIsFirst DEF Ref
<1>2. ~Stopped(mm) /\ Applies(mm, s)  BY NextIsFirst, NextApplies
<1>3. mm.plan \in AnyPlan  BY DEF AnyManifest
<1>4. \A r : r \notin Revised => Applies(mm, r)  BY AppliesTo
<1> USE DEF Analyses, Revised, First
<1>5. CASE mm.plan.kind \in {"none", "checkpoint"}
  <2>1. DOMAIN rows \subseteq 1 .. 2 /\ (DOMAIN rows # {} =>
          DOMAIN rows = 1 .. 2 /\ rows[1] = "read" /\ rows[2] = "design")
    BY <1>3, <1>5, RowsAre
  <2> HIDE DEF rows
  <2>2. j = 1 \/ j = 2  BY <1>1, <2>1
  <2>3. 1 \in DOMAIN rows  BY <1>1, <2>1
  <2>4. j = 2 => mm.refs["read"] # 0  BY <1>1, <1>4, <2>1, <2>3
  <2> QED  BY <1>1, <1>2, <2>1, <2>2, <2>4
<1>6. CASE mm.plan.kind = "accepted"
  <2>1. DOMAIN rows = 1 .. 7 /\ First(rows) /\ rows[7] = "report"
    BY <1>3, <1>6, RowsAre
  <2> HIDE DEF rows
  <2>2. \A p \in 1 .. 6 : p < j => mm.refs[rows[p]] # 0
    BY <1>1, <1>4, <2>1
  <2>3. j \in {1, 2, 3, 4, 5, 6, 7}  BY <1>1, <2>1
  <2> QED  BY <1>1, <1>2, <1>6, <2>1, <2>2, <2>3
<1>7. CASE mm.plan.kind = "followup"
  <2>1. /\ DOMAIN rows = 1 .. 10 /\ First(rows)
        /\ rows[7] = "implementation_r1" /\ rows[8] = "experiment_r1"
        /\ rows[9] = "analysis_r1" /\ rows[10] = "report"
    BY <1>3, <1>7, RowsAre
  <2> HIDE DEF rows
  <2>2. \A p \in 1 .. 6 : p < j => mm.refs[rows[p]] # 0
    BY <1>1, <1>4, <2>1
  <2>3. j \in {1, 2, 3, 4, 5, 6, 7, 8, 9, 10}  BY <1>1, <2>1
  <2>4. j = 10 => \A r \in Revised : mm.refs[r] # 0 \/ ~Applies(mm, r)
    BY <1>1, <2>1
  <2> QED  BY <1>1, <1>2, <1>7, <2>1, <2>2, <2>3, <2>4
<1> QED  BY <1>3, <1>5, <1>6, <1>7 DEF AnyPlan

\* The results a step is made from are there, but for an implementation's.
LEMMA SourcesAre ==
  ASSUME NEW mm
  PROVE  /\ \A s \in {"read", "baseline"} : Sources(mm, s) = <<>>
         /\ Sources(mm, "design") = <<mm.refs["read"]>>
         /\ Sources(mm, "experiment") = <<mm.refs["implementation"]>>
         /\ Sources(mm, "analysis") = <<mm.refs["baseline"], mm.refs["experiment"]>>
         /\ Sources(mm, "experiment_r1") = <<mm.refs["implementation_r1"]>>
         /\ Sources(mm, "analysis_r1") = <<mm.refs["baseline"], mm.refs["experiment_r1"]>>
         /\ Sources(mm, "report") = <<Latest(mm)>>
BY DEF Sources, Ref

LEMMA NextHasSources ==
  ASSUME NEW mm, mm \in AnyManifest, NEW s \in Steps, Next(mm) = s, s \notin Retained
  PROVE  \A n \in DOMAIN Sources(mm, s) : Sources(mm, s)[n] # 0
<1>1. /\ s = "design" => mm.refs["read"] # 0
      /\ s = "experiment" => mm.refs["implementation"] # 0
      /\ s = "experiment_r1" => mm.refs["implementation_r1"] # 0
      /\ s = "analysis" => mm.refs["baseline"] # 0 /\ mm.refs["experiment"] # 0
      /\ s = "analysis_r1" => mm.refs["baseline"] # 0 /\ mm.refs["experiment_r1"] # 0
      /\ s = "report" => Latest(mm) # 0
  BY Predecessors, AppliesTo, LatestIs DEF Analyses, Ref
<1>2. \A a, b : (a # 0 => \A n \in DOMAIN <<a>> : <<a>>[n] # 0)
                /\ (a # 0 /\ b # 0 => \A n \in DOMAIN <<a, b>> : <<a, b>>[n] # 0)
  OBVIOUS
<1>3. DOMAIN <<>> = {}  OBVIOUS
<1>4. CASE s \in {"read", "baseline"}  BY <1>3, <1>4, SourcesAre
<1>5. CASE s \in {"design", "experiment", "experiment_r1", "report"}
  BY <1>1, <1>2, <1>5, SourcesAre
<1>6. CASE s \in Analyses  BY <1>1, <1>2, <1>6, SourcesAre DEF Analyses
<1> QED  BY <1>4, <1>5, <1>6, NamesOfSteps DEF Retained, Analyses

\* Sources that stay are the same sources.
LEMMA SourcesKept ==
  ASSUME NEW mm, NEW nn, NEW s \in Steps, s \notin Retained,
         s = "design" => nn.refs["read"] = mm.refs["read"],
         s = "experiment" => nn.refs["implementation"] = mm.refs["implementation"],
         s = "experiment_r1" => nn.refs["implementation_r1"] = mm.refs["implementation_r1"],
         s \in Analyses => nn.refs["baseline"] = mm.refs["baseline"],
         s = "analysis" => nn.refs["experiment"] = mm.refs["experiment"],
         s = "analysis_r1" => nn.refs["experiment_r1"] = mm.refs["experiment_r1"],
         s = "report" => Latest(nn) = Latest(mm)
  PROVE  Sources(nn, s) = Sources(mm, s)
<1>1. s \in {"read", "baseline", "design", "experiment", "analysis", "experiment_r1",
            "analysis_r1", "report"}
  BY NamesOfSteps DEF Retained
<1>2. CASE s \in {"read", "baseline"}  BY <1>2, SourcesAre
<1>3. CASE s = "design"  BY <1>3, SourcesAre
<1>4. CASE s = "experiment"  BY <1>4, SourcesAre
<1>5. CASE s = "analysis"  BY <1>5, SourcesAre DEF Analyses
<1>6. CASE s = "experiment_r1"  BY <1>6, SourcesAre
<1>7. CASE s = "analysis_r1"  BY <1>7, SourcesAre DEF Analyses
<1>8. CASE s = "report"  BY <1>8, SourcesAre
<1> QED  BY <1>1, <1>2, <1>3, <1>4, <1>5, <1>6, <1>7, <1>8

\* Where the results and the inputs they are about stay, so does what stands.
LEMMA SameResults ==
  ASSUME NEW mm, mm \in AnyManifest, \A s \in Steps : Standing(mm, s), OnlyFollowups(mm),
         NEW nn, nn.refs = mm.refs, mm.plan.kind = "followup" => nn.plan.kind = "followup",
         \A s \in Steps : \A k \in About(s) : nn.inputs[k] = mm.inputs[k]
  PROVE  /\ \A s \in Steps : Standing(nn, s)
         /\ OnlyFollowups(nn) /\ Latest(nn) = Latest(mm)
<1>1. Latest(nn) = Latest(mm)
  BY NamesOfSteps DEF Latest, Ref, OnlyFollowups, Revised
<1>2. \A s \in Steps : s \notin Retained => Sources(nn, s) = Sources(mm, s)
  BY <1>1, SourcesKept
<1>3. OnlyFollowups(nn)  BY DEF OnlyFollowups
<1> QED  BY <1>1, <1>2, <1>3 DEF Standing, SameInputs

\* Retiring results keeps those that are still about the inputs and the sources.
LEMMA RetiredStands ==
  ASSUME NEW mm, mm \in AnyManifest, \A s \in Steps : Standing(mm, s), NEW nn,
         \A s \in Steps : nn.refs[s] \in {0, mm.refs[s]},
         \A s \in Steps : nn.refs[s] # 0 =>
           /\ \A k \in About(s) : nn.inputs[k] = mm.inputs[k]
           /\ s \notin Retained => Sources(nn, s) = Sources(mm, s)
  PROVE  \A s \in Steps : Standing(nn, s)
BY DEF Standing, SameInputs

\* Deciding the latest analysis leaves what stands; a written report was decided.
LEMMA DecidedStands ==
  ASSUME NEW mm, mm \in AnyManifest, Decided(mm) \in AnyManifest,
         \A s \in Steps : Standing(mm, s), OnlyFollowups(mm), ReportIsLast(mm)
  PROVE  Consistent(Decided(mm))
<1>1. CASE ~Undecided(mm)
  <2>1. Decided(mm) = mm  BY <1>1 DEF Decided
  <2>2. AnalysisIsDecided(mm)
    BY <1>1 DEF Undecided, AnalysisIsDecided, DecidedOn
  <2> QED  BY <2>1, <2>2 DEF Consistent
<1>2. CASE Undecided(mm)
  <2>1. PICK decision, base :
          /\ Decided(mm) = [base EXCEPT !.decision = decision]
          /\ base = mm \/ base = Extended(mm)
          /\ decision # None /\ decision.analysis = Latest(mm)
    <3> DEFINE a == Latest(mm)
               verdict == Verdict(mm, a)
               asks == verdict \in {"required_input", "research_choice"}
               decision == [action |-> CASE asks -> "request_input"
                                         [] verdict = "follow" -> "revise_candidate"
                                         [] OTHER -> "stop",
                            analysis |-> a,
                            stage |-> IF asks THEN verdict ELSE "none",
                            status |-> IF asks THEN "pending" ELSE "none",
                            about |-> Subject(mm, a), saved |-> None]
               base == IF verdict = "follow" THEN Extended(mm) ELSE mm
    <3>1. Decided(mm) = [base EXCEPT !.decision = decision]
      BY <1>2 DEF Decided
    <3>2. base \in AnyManifest
      BY DEF Extended, AnyManifest, AnyPlan
    <3>3. base = mm \/ base = Extended(mm)  OBVIOUS
    <3>4. decision.analysis = Latest(mm)  OBVIOUS
    <3> HIDE DEF decision, base
    <3>5. Decided(mm).decision = decision
      BY <3>1, <3>2 DEF AnyManifest
    <3>6. decision # None
      <4>1. Latest(mm) \in Nat /\ Subject(mm, a) \in AnySubject
        BY LatestIs, SubjectIs
      <4>2. verdict \in {"stop", "required_input", "research_choice", "follow"}
        BY VerdictIs
      <4> HIDE DEF a, verdict
      <4>3. (CASE asks -> "request_input" [] verdict = "follow" -> "revise_candidate"
               [] OTHER -> "stop") \in {"request_input", "revise_candidate", "stop"}
        BY Zenon
      <4>4. decision \in AnyDecision
        BY <4>1, <4>2, <4>3 DEF decision, a, AnyDecision, Stages
      <4> QED  BY <4>4, NoDecision
    <3> QED  BY <3>1, <3>3, <3>4, <3>6
  <2>2. /\ base.refs = mm.refs /\ base.inputs = mm.inputs
        /\ mm.plan.kind = "followup" => base.plan.kind = "followup"
        /\ base \in AnyManifest
    BY <2>1 DEF Extended, AnyManifest, AnyPlan
  <2>3. /\ Decided(mm).refs = mm.refs /\ Decided(mm).inputs = mm.inputs
        /\ mm.plan.kind = "followup" => Decided(mm).plan.kind = "followup"
        /\ Decided(mm).decision = decision
    BY <2>1, <2>2 DEF AnyManifest
  <2>4. /\ \A s \in Steps : Standing(Decided(mm), s)
        /\ OnlyFollowups(Decided(mm)) /\ Latest(Decided(mm)) = Latest(mm)
    BY <2>3, SameResults
  <2>5. AnalysisIsDecided(Decided(mm))
    BY <2>1, <2>3, <2>4 DEF AnalysisIsDecided, DecidedOn
  <2>6. mm.refs["report"] = 0
    BY <1>2 DEF Undecided, ReportIsLast, DecidedOn
  <2>7. ReportIsLast(Decided(mm))
    BY <2>3, <2>6 DEF ReportIsLast
  <2> QED  BY <2>4, <2>5, <2>7 DEF Consistent
<1> QED  BY <1>1, <1>2

\* The status and the current attempt are no part of what stands.
LEMMA StatusStands ==
  ASSUME NEW mm, mm \in AnyManifest, Consistent(mm), NEW nn,
         nn.refs = mm.refs, nn.plan = mm.plan, nn.decision = mm.decision,
         \A s \in Steps : \A k \in About(s) : nn.inputs[k] = mm.inputs[k]
  PROVE  Consistent(nn)
<1>1. /\ \A s \in Steps : Standing(nn, s)
      /\ OnlyFollowups(nn) /\ Latest(nn) = Latest(mm)
  BY SameResults DEF Consistent
<1> QED  BY <1>1 DEF Consistent, AnalysisIsDecided, ReportIsLast, DecidedOn

\* What a result that stands was made from is there.
LEMMA StandingHasSources ==
  ASSUME NEW mm, NEW s \in Steps, Standing(mm, s), mm.refs[s] # 0
  PROVE  /\ s = "design" => mm.refs["read"] # 0
         /\ s = "experiment" => mm.refs["implementation"] # 0
         /\ s = "experiment_r1" => mm.refs["implementation_r1"] # 0
         /\ s \in Analyses => mm.refs["baseline"] # 0
         /\ s = "analysis" => mm.refs["experiment"] # 0
         /\ s = "analysis_r1" => mm.refs["experiment_r1"] # 0
         /\ s = "report" => Latest(mm) # 0
<1>1. ASSUME NEW a, NEW b, NEW q, \A n \in DOMAIN q : q[n] # 0
      PROVE  (q = <<a>> => a # 0) /\ (q = <<a, b>> => a # 0 /\ b # 0)
  <2>1. q = <<a>> => 1 \in DOMAIN q /\ q[1] = a  OBVIOUS
  <2>2. q = <<a, b>> => 1 \in DOMAIN q /\ q[1] = a /\ 2 \in DOMAIN q /\ q[2] = b  OBVIOUS
  <2> QED  BY <1>1, <2>1, <2>2
<1>2. s \notin Retained => \A n \in DOMAIN Sources(mm, s) : Sources(mm, s)[n] # 0
  BY DEF Standing
<1>3. CASE s = "design"
  <2>1. Sources(mm, s) = <<mm.refs["read"]>> /\ s \notin Retained
    BY <1>3, SourcesAre DEF Retained
  <2> QED  BY <1>1, <1>2, <1>3, <2>1 DEF Analyses
<1>4. CASE s = "experiment"
  <2>1. Sources(mm, s) = <<mm.refs["implementation"]>> /\ s \notin Retained
    BY <1>4, SourcesAre DEF Retained
  <2> QED  BY <1>1, <1>2, <1>4, <2>1 DEF Analyses
<1>5. CASE s = "experiment_r1"
  <2>1. Sources(mm, s) = <<mm.refs["implementation_r1"]>> /\ s \notin Retained
    BY <1>5, SourcesAre DEF Retained
  <2> QED  BY <1>1, <1>2, <1>5, <2>1 DEF Analyses
<1>6. CASE s = "analysis"
  <2>1. Sources(mm, s) = <<mm.refs["baseline"], mm.refs["experiment"]>> /\ s \notin Retained
    BY <1>6, SourcesAre DEF Retained
  <2> QED  BY <1>1, <1>2, <1>6, <2>1 DEF Analyses
<1>7. CASE s = "analysis_r1"
  <2>1. Sources(mm, s) = <<mm.refs["baseline"], mm.refs["experiment_r1"]>> /\ s \notin Retained
    BY <1>7, SourcesAre DEF Retained
  <2> QED  BY <1>1, <1>2, <1>7, <2>1 DEF Analyses
<1>8. CASE s = "report"
  <2>1. Sources(mm, s) = <<Latest(mm)>> /\ s \notin Retained
    BY <1>8, SourcesAre DEF Retained
  <2> QED  BY <1>1, <1>2, <1>8, <2>1 DEF Analyses
<1> QED  BY <1>3, <1>4, <1>5, <1>6, <1>7, <1>8 DEF Analyses

\* A report that stands leaves no further analysis to be made.
LEMMA NothingFollowsReport ==
  ASSUME NEW mm, mm \in AnyManifest, Consistent(mm), mm.refs["report"] # 0,
         Next(mm) \in Revised
  PROVE  mm.refs["analysis_r1"] # 0
<1>1. PICK s \in Steps : s = Next(mm) /\ s \in Revised  BY NamesOfSteps
<1>2. mm.plan.kind = "followup" /\ Applies(mm, s)  BY <1>1, Predecessors
<1>3. ASSUME mm.refs["analysis_r1"] = 0
      PROVE  FALSE
  <2>1. /\ \A r \in Revised : mm.refs[r] = 0
        /\ mm.decision.action # "revise_candidate"
    BY <1>2, <1>3 DEF Consistent, ReportIsLast
  <2>2. mm.refs["implementation_r1"] = 0 /\ mm.refs["experiment_r1"] = 0
    BY <2>1 DEF Revised
  <2> QED  BY <1>1, <1>2, <2>1, <2>2, AppliesTo DEF Revised
<1> QED  BY <1>3

\* The result of what is next stands, and so do the others beside it.
LEMMA BoundStands ==
  ASSUME NEW mm, mm \in AnyManifest, Consistent(mm), NEW step \in Steps, Next(mm) = step,
         NEW i \in Nat, i # 0, attempts[i].step = step, attempts[i].inputs = mm.inputs,
         attempts[i].from = Sources(mm, step),
         NEW nn, nn \in AnyManifest, nn.plan = mm.plan, nn.decision = mm.decision,
         nn.inputs = mm.inputs,
         \A s \in Steps : nn.refs[s] = IF s = step THEN i ELSE mm.refs[s]
  PROVE  /\ \A s \in Steps : Standing(nn, s)
         /\ OnlyFollowups(nn) /\ ReportIsLast(nn)
         /\ step \notin Analyses => AnalysisIsDecided(nn)
<1>0. mm.refs[step] = 0  BY NextIsOpen DEF Ref
<1>1. step \in Revised => mm.plan.kind = "followup"  BY Predecessors
<1>2. step \notin Analyses => Latest(nn) = Latest(mm)
  BY NamesOfSteps DEF Latest, Ref, Analyses
<1>3. mm.refs["report"] # 0 => Latest(nn) = Latest(mm)
  <2> SUFFICES ASSUME mm.refs["report"] # 0 PROVE Latest(nn) = Latest(mm)  OBVIOUS
  <2>1. Latest(mm) # 0  BY StandingHasSources, NamesOfSteps DEF Consistent
  <2>2. step # "analysis_r1"  BY <1>0, NothingFollowsReport DEF Revised
  <2>3. CASE step = "analysis"
    BY <1>0, <2>1, <2>3, NamesOfSteps DEF Latest, Ref
  <2> QED  BY <1>2, <2>2, <2>3 DEF Analyses
<1>4. \A s \in Steps : mm.refs[s] # 0 /\ s \notin Retained => Sources(nn, s) = Sources(mm, s)
  <2> SUFFICES ASSUME NEW s \in Steps, mm.refs[s] # 0, s \notin Retained
               PROVE  Sources(nn, s) = Sources(mm, s)
    OBVIOUS
  <2>1. \A r \in Steps : mm.refs[r] # 0 => nn.refs[r] = mm.refs[r]
    BY <1>0
  <2>2. Standing(mm, s)  BY DEF Consistent
  <2>3. /\ s = "design" => mm.refs["read"] # 0
        /\ s = "experiment" => mm.refs["implementation"] # 0
        /\ s = "experiment_r1" => mm.refs["implementation_r1"] # 0
        /\ s \in Analyses => mm.refs["baseline"] # 0
        /\ s = "analysis" => mm.refs["experiment"] # 0
        /\ s = "analysis_r1" => mm.refs["experiment_r1"] # 0
    BY <2>2, StandingHasSources
  <2>4. /\ s = "design" => nn.refs["read"] = mm.refs["read"]
        /\ s = "experiment" => nn.refs["implementation"] = mm.refs["implementation"]
        /\ s = "experiment_r1" => nn.refs["implementation_r1"] = mm.refs["implementation_r1"]
        /\ s \in Analyses => nn.refs["baseline"] = mm.refs["baseline"]
        /\ s = "analysis" => nn.refs["experiment"] = mm.refs["experiment"]
        /\ s = "analysis_r1" => nn.refs["experiment_r1"] = mm.refs["experiment_r1"]
    BY <2>1, <2>3, NamesOfSteps
  <2> QED  BY <1>3, <2>4, SourcesKept
<1>5. step \notin Retained =>
        /\ Sources(nn, step) = Sources(mm, step)
        /\ \A n \in DOMAIN Sources(mm, step) : Sources(mm, step)[n] # 0
  <2> SUFFICES ASSUME step \notin Retained
               PROVE  Sources(nn, step) = Sources(mm, step)
    BY NextHasSources
  <2>1. \A r \in Steps : r # step => nn.refs[r] = mm.refs[r]  OBVIOUS
  <2> QED  BY <1>2, <2>1, SourcesKept, NamesOfSteps DEF Analyses
<1>6. \A s \in Steps : Standing(nn, s)
  <2> SUFFICES ASSUME NEW s \in Steps PROVE Standing(nn, s)  OBVIOUS
  <2>1. CASE s = step
    BY <1>5, <2>1 DEF Standing, SameInputs
  <2>2. CASE s # step
    <3>1. Standing(mm, s) /\ nn.refs[s] = mm.refs[s]  BY <2>2 DEF Consistent
    <3> QED  BY <1>4, <3>1 DEF Standing
  <2> QED  BY <2>1, <2>2
<1>7. OnlyFollowups(nn)
  BY <1>1, NamesOfSteps DEF OnlyFollowups, Consistent
<1>8. step \notin Analyses => AnalysisIsDecided(nn)
  BY <1>0, <1>2, NamesOfSteps DEF AnalysisIsDecided, DecidedOn, Consistent, Analyses
<1>9. ReportIsLast(nn)
  <2>1. CASE step = "report"
    <3>1. /\ ~Stopped(mm) /\ mm.refs["analysis"] # 0
          /\ mm.plan.kind = "followup" => \A r \in Revised : mm.refs[r] # 0 \/ ~Applies(mm, r)
      BY <2>1, Predecessors
    <3>2. Latest(nn) = Latest(mm) /\ Latest(mm) # 0
      BY <1>2, <2>1, <3>1, LatestIs DEF Analyses, Ref
    <3>3. mm.plan.kind = "followup" /\ mm.refs["analysis_r1"] = 0 =>
            /\ \A r \in Revised : mm.refs[r] = 0
            /\ ~(mm.decision # None /\ mm.decision.action = "revise_candidate")
      BY <3>1, AppliesTo DEF Revised
    <3>4. DecidedOn(mm)
      BY <3>2, <3>3, NamesOfSteps DEF Consistent, AnalysisIsDecided, Revised
    <3>5. ~(mm.decision.status = "pending" /\ mm.decision.stage = "research_choice")
      BY <3>1, <3>4 DEF Stopped, DecidedOn
    <3>6. \A r \in Revised : r # "report"  BY DEF Revised
    <3> QED  BY <2>1, <3>2, <3>3, <3>4, <3>5, <3>6, NamesOfSteps
        DEF ReportIsLast, DecidedOn, Consistent, OnlyFollowups
  <2>2. CASE step # "report" /\ mm.refs["report"] # 0
    <3>1. ReportIsLast(mm) /\ DecidedOn(nn)
      BY <1>3, <2>2 DEF Consistent, ReportIsLast, DecidedOn
    <3>2. CASE mm.refs["analysis_r1"] # 0
      BY <1>0, <3>1, <3>2, NamesOfSteps DEF ReportIsLast
    <3>3. CASE mm.refs["analysis_r1"] = 0
      <4>1. step \notin Revised  BY <2>2, <3>3, NothingFollowsReport
      <4>2. \A r \in Revised : nn.refs[r] = mm.refs[r]  BY <4>1, NamesOfSteps
      <4> QED  BY <2>2, <3>1, <3>3, <4>2 DEF ReportIsLast
    <3> QED  BY <3>2, <3>3
  <2>3. CASE step # "report" /\ mm.refs["report"] = 0
    BY <2>3, NamesOfSteps DEF ReportIsLast
  <2> QED  BY <2>1, <2>2, <2>3
<1> QED  BY <1>6, <1>7, <1>8, <1>9

LEMMA RecordedStands ==
  ASSUME NEW mm, Sane(mm, attempts, accepted), Proposed(mm, accepted), Consistent(mm),
         attempts \in Seq(AnyAttempt), NEW i \in DOMAIN attempts,
         attempts[i].step = "plan" => mm.plan.kind # "followup",
         attempts[i].step \in Steps =>
           /\ Next(mm) = attempts[i].step /\ attempts[i].inputs = mm.inputs
           /\ attempts[i].from = Sources(mm, attempts[i].step)
  PROVE  Consistent(Recorded(mm, i))
<1> DEFINE step == attempts[i].step
           bound == [mm EXCEPT !.refs[step] = i]
           planned == [mm EXCEPT !.planned = TRUE,
                         !.plan = [kind |-> IF Ref(mm, "design") # 0 THEN "accepted" ELSE "checkpoint",
                                   by |-> i]]
<1>0. /\ i \in Nat /\ i # 0 /\ step \in Steps \cup {"plan"} /\ mm \in AnyManifest
      /\ Recorded(mm, i) \in AnyManifest
  BY AttemptIs, RecordedIsSane DEF Sane
<1>1. CASE step = "plan"
  <2>1. Recorded(mm, i) = planned
    BY <1>1, PlanIsNoAnalysis, Zenon DEF Recorded
  <2>2. /\ planned.refs = mm.refs /\ planned.inputs = mm.inputs /\ planned.decision = mm.decision
        /\ planned.plan.kind # "followup" /\ mm.plan.kind # "followup"
    BY <1>0, <1>1 DEF AnyManifest, AnyPlan
  <2> HIDE DEF planned
  <2>3. /\ \A s \in Steps : Standing(planned, s)
        /\ OnlyFollowups(planned) /\ Latest(planned) = Latest(mm)
    BY <1>0, <2>2, SameResults DEF Consistent
  <2>4. AnalysisIsDecided(planned) /\ ReportIsLast(planned)
    BY <2>2, <2>3 DEF Consistent, AnalysisIsDecided, ReportIsLast, DecidedOn
  <2> QED  BY <2>1, <2>3, <2>4 DEF Consistent
<1>2. CASE step \in Steps
  <2>1. /\ bound \in AnyManifest /\ bound.decision = mm.decision /\ bound.inputs = mm.inputs
        /\ bound.plan = mm.plan
        /\ \A s \in Steps : bound.refs[s] = IF s = step THEN i ELSE mm.refs[s]
    BY <1>0, <1>2 DEF AnyManifest
  <2> HIDE DEF bound
  <2>2. /\ \A s \in Steps : Standing(bound, s)
        /\ OnlyFollowups(bound) /\ ReportIsLast(bound)
        /\ step \notin Analyses => AnalysisIsDecided(bound)
    BY <1>0, <1>2, <2>1, BoundStands
  <2>3. CASE step \in Analyses
    <3>1. Recorded(mm, i) = Decided(bound)
      BY <1>2, <2>3, StepNames, Zenon DEF Recorded, bound
    <3> QED  BY <1>0, <2>1, <2>2, <3>1, DecidedStands
  <2>4. CASE step \notin Analyses
    <3>1. Recorded(mm, i) = bound
      BY <1>2, <2>4, StepNames, Zenon DEF Recorded, bound
    <3> QED  BY <2>2, <2>4, <3>1 DEF Consistent
  <2> QED  BY <2>3, <2>4
<1> QED  BY <1>0, <1>1, <1>2

\* What was started before the attempts were marked or added to is what it was.
LEMMA MarkedStands ==
  ASSUME Consistent(m'), Named(m', attempts),
         \A j \in DOMAIN attempts :
           attempts'[j].inputs = attempts[j].inputs /\ attempts'[j].from = attempts[j].from
  PROVE  Consistent(m)'
<1>1. ASSUME NEW s \in Steps
      PROVE  Standing(m, s)'
  <2>1. Standing(m', s)  BY DEF Consistent
  <2>2. m'.refs[s] # 0 => m'.refs[s] \in DOMAIN attempts  BY DEF Named
  <2> QED  BY <2>1, <2>2 DEF Standing, SameInputs
<1> QED  BY <1>1 DEF Consistent, OnlyFollowups, AnalysisIsDecided, ReportIsLast, DecidedOn, Latest,
      Ref

\* Where nothing is recorded, decided or revised, a fresh attempt stays fresh.
LEMMA StaysFresh ==
  ASSUME NEW i, Fresh(i), m'.refs = m.refs, m'.plan = m.plan, m'.decision = m.decision,
         m'.inputs = m.inputs, attempts'[i].step = attempts[i].step,
         attempts'[i].inputs = attempts[i].inputs, attempts'[i].from = attempts[i].from
  PROVE  Fresh(i)'
<1>1. Next(m') = Next(m) /\ \A s : Sources(m', s) = Sources(m, s)
  BY SameNext
<1>2. Next(m)' = Next(m') /\ Sources(m, attempts[i].step)' = Sources(m', attempts'[i].step)
  OBVIOUS
<1> QED  BY <1>1, <1>2 DEF Fresh

LEMMA FreshIsNext ==
  ASSUME KInv, NEW i \in DOMAIN attempts, i = m.current, attempts[i].step \in Steps, Done(i),
         m.status = "running", Running = {}, Fresh(i)
  PROVE  ToReconcile = {i}
<1>1. m \in AnyManifest /\ attempts \in Seq(AnyAttempt)
  BY DEF KInv, MInv, RInv, IInv, Sane
<1>2. i # 0 /\ attempts[i].step # "plan"
  BY <1>1, AttemptIs, StepNames
<1>3. Bound(m, attempts[i].step) /\ Ref(m, attempts[i].step) = 0
  BY <1>1, NextIsOpen DEF Fresh
<1>4. Unrecorded(m)
  BY <1>2, <1>3 DEF Unrecorded, Done, Keeps, Outcome
<1> QED  BY <1>4 DEF ToReconcile

\* The current attempt of a session at rest stays the current one, or is let go.
LEMMA RestingCurrent ==
  ASSUME RInv, Quiet, ~Enter
  PROVE  m'.current \in {0, m.current}
<1> USE DEF Go
<1>0. m \in AnyManifest  BY DEF RInv, IInv, Sane
<1>1. CASE Advance \/ Crash \/ UNCHANGED vars
  BY <1>1 DEF Advance, Crash, vars
<1>2. CASE Ask \/ PauseAsked \/ Refuse \/ Reopen
  <2>1. CASE Ask
    BY <1>0, <2>1 DEF Ask, AnyManifest
  <2>2. CASE PauseAsked
    BY <1>0, <2>2 DEF PauseAsked, Pause, AnyManifest
  <2>3. CASE Refuse
    BY <1>0, <2>3 DEF Refuse, Pause, AnyManifest
  <2>4. CASE Reopen
    BY <1>0, <2>4 DEF Reopen, AnyManifest
  <2> QED  BY <1>2, <2>1, <2>2, <2>3, <2>4
<1>3. CASE Finish
  <2>1. m' = m \/ \E status \in {"paused", "completed"} : m' = WithStatus(Decided(m), status)
    BY <1>3 DEF Finish, Pause, WithStatus
  <2>2. Decided(m).current = m.current /\ Decided(m) \in AnyManifest
    BY <1>0, DecidedLeaves, DecidedIsSane DEF RInv, IInv, Sane
  <2>3. \A status : WithStatus(Decided(m), status).current = m.current
    BY <2>2 DEF WithStatus, AnyManifest
  <2> QED  BY <2>1, <2>3
<1>4. CASE Accept
  <2>1. PICK d, plan : m' = [m EXCEPT !.decision = d] \/ m' = [m EXCEPT !.decision = d, !.plan = plan]
    BY <1>0, <1>4 DEF Accept, Answer, Extended, AnyManifest
  <2> QED  BY <1>0, <2>1 DEF AnyManifest
<1>5. CASE Reject \/ ReplyRevise
  BY <1>0, <1>5 DEF Reject, ReplyRevise, Answer, AnyManifest
<1>6. CASE Revise \/ Replay \/ Resume \/ RefreshReport \/ Reanalyze
  BY <1>6 DEF Revise, Replay, Resume, RefreshReport, Reanalyze
<1> QED  BY <1>1, <1>2, <1>3, <1>4, <1>5, <1>6 DEF Quiet

LEMMA QuietFresh ==
  ASSUME KInv, Quiet
  PROVE  AttemptsAreFresh' /\ CurrentIsKept'
<1>0. /\ RInv /\ m \in AnyManifest /\ m.current \in {0} \cup DOMAIN attempts
      /\ attempts \in Seq(AnyAttempt)
  BY DEF KInv, MInv, RInv, IInv, Sane, InPlace
<1>1. attempts' = attempts /\ m'.refs = m.refs /\ m'.inputs = m.inputs
  BY <1>0, QuietIs
<1>2. CASE Crash \/ UNCHANGED vars
  <2>1. m' = m /\ pc' \in {"idle", pc} /\ Running' = Running
    BY <1>1, <1>2 DEF Crash, vars, Running
  <2>2. \A i : Fresh(i)' = Fresh(i)  BY <1>1, <2>1 DEF Fresh
  <2> QED  BY <1>1, <2>1, <2>2 DEF KInv, AttemptsAreFresh, CurrentIsKept, Done, Keeps
<1>3. CASE Enter
  <2>1. /\ pc = "marked" /\ pc' = "handling"
        /\ m' = [m EXCEPT !.status = "running", !.current = Len(attempts)]
    BY <1>3 DEF Enter, Go
  <2>2. m'.plan = m.plan /\ m'.decision = m.decision /\ m'.current = Len(attempts)
    BY <1>0, <2>1 DEF AnyManifest
  <2>3. Running' = Running /\ Len(attempts) \in Running
    BY <1>0, <1>1, <2>1 DEF Running, RInv, OneRuns
  <2>4. \A i \in Running : Fresh(i)'
    BY <1>1, <2>2, StaysFresh DEF KInv, AttemptsAreFresh
  <2>5. ~Done(m.current)'  BY <1>1, <2>2, <2>3 DEF Running, Done
  <2> QED  BY <2>1, <2>3, <2>4, <2>5 DEF AttemptsAreFresh, CurrentIsKept
<1>4. CASE ~(Crash \/ UNCHANGED vars \/ Enter)
  <2>1. Running = {} /\ Running' = {} /\ pc' # "committed"
    BY <1>0, <1>4, RestIs DEF Quiet, Rests, Running
  <2>2. m'.current \in {0, m.current}
    BY <1>0, <1>4, RestingCurrent
  <2>3. AttemptsAreFresh'  BY <2>1 DEF AttemptsAreFresh
  <2>4. ASSUME m'.current # 0, attempts[m.current].step \in Steps, Done(m.current)
        PROVE  \/ Ref(m', attempts[m.current].step) = m'.current
               \/ pc' = "idle" /\ m'.status = "running" /\ Fresh(m.current)'
    <3>1. m'.current = m.current /\ m.current \in DOMAIN attempts  BY <1>0, <2>2, <2>4
    <3>2. CASE Ref(m, attempts[m.current].step) = m.current
      BY <1>1, <3>1, <3>2 DEF Ref
    <3>3. CASE Ref(m, attempts[m.current].step) # m.current
      <4>1. pc \in {"committed", "idle"} /\ m.status = "running" /\ Fresh(m.current)
        BY <2>4, <3>1, <3>3 DEF KInv, CurrentIsKept
      <4>2. ToReconcile = {m.current}
        BY <2>1, <2>4, <3>1, <4>1, FreshIsNext
      <4>3. m' = m /\ pc' \in {"idle", pc}
        BY <1>0, <4>1, <4>2, QuietIs DEF Advance
      <4>4. Fresh(m.current)'  BY <1>1, <4>1, <4>3 DEF Fresh
      <4> QED  BY <2>1, <4>1, <4>3, <4>4
    <3> QED  BY <3>2, <3>3
  <2>5. CurrentIsKept'
    <3> SUFFICES ASSUME m'.current # 0, attempts[m'.current].step \in Steps, Done(m.current)'
                 PROVE  \/ Ref(m', attempts[m'.current].step) = m'.current
                        \/ pc' = "idle" /\ m'.status = "running" /\ Running' = {}
                           /\ Fresh(m.current)'
      BY <1>1 DEF CurrentIsKept
    <3>1. m'.current = m.current  BY <2>2
    <3>2. Done(m.current)  BY <1>1, <3>1 DEF Done, Keeps
    <3> QED  BY <2>1, <2>4, <3>1, <3>2
  <2> QED  BY <2>3, <2>5
<1> QED  BY <1>2, <1>3, <1>4

LEMMA BeginFresh ==
  ASSUME KInv, Begin
  PROVE  AttemptsAreFresh' /\ CurrentIsKept'
<1>1. PICK step \in Steps \cup {"plan"} :
        /\ Dispatched(step)
        /\ attempts' = Append(attempts, [step |-> step, closed |-> FALSE, result |-> "none",
                                         inputs |-> m.inputs, from |-> Sources(m, step)])
        /\ pc' = "marked" /\ m' = m
  BY DEF Begin, Unchanged
<1> DEFINE a == [step |-> step, closed |-> FALSE, result |-> "none",
                 inputs |-> m.inputs, from |-> Sources(m, step)]
<1>2. /\ a \in AnyAttempt /\ a.step = step /\ ~a.closed /\ a.inputs = m.inputs
      /\ a.from = Sources(m, step)
  BY SourcesAreIds DEF KInv, MInv, RInv, IInv, Sane, AnyManifest, AnyAttempt, Results
<1> HIDE DEF a
<1>3. attempts \in Seq(AnyAttempt) /\ attempts' = Append(attempts, a)
      /\ m.current \in {0} \cup DOMAIN attempts
  BY <1>1 DEF a, KInv, MInv, RInv, IInv, InPlace
<1>4. /\ Len(attempts) \in Nat /\ Len(attempts') = Len(attempts) + 1
      /\ DOMAIN attempts = 1 .. Len(attempts) /\ DOMAIN attempts' = 1 .. Len(attempts')
      /\ attempts'[Len(attempts')] = a
      /\ \A i \in DOMAIN attempts : attempts'[i] = attempts[i]
  BY <1>2, <1>3, AppendProperties
<1>5. Running = {} /\ pc = "ready" /\ Next(m) = step
  BY <1>1 DEF Dispatched, KInv, MInv, RInv, OneRuns
<1>6. Running' = {Len(attempts')}
  BY <1>2, <1>4, <1>5 DEF Running
<1>7. Fresh(Len(attempts))'
  BY <1>1, <1>2, <1>4, <1>5 DEF Fresh
<1>8. AttemptsAreFresh'
  BY <1>1, <1>6, <1>7 DEF AttemptsAreFresh
<1>9. CurrentIsKept'
  <2> SUFFICES ASSUME m.current # 0, attempts'[m.current].step \in Steps, Done(m.current)'
               PROVE  Ref(m, attempts'[m.current].step) = m.current
    BY <1>1 DEF CurrentIsKept
  <2>1. attempts'[m.current] = attempts[m.current]  BY <1>3, <1>4
  <2>2. Done(m.current)  BY <1>1, <2>1 DEF Done, Keeps
  <2> QED  BY <1>5, <2>1, <2>2 DEF KInv, CurrentIsKept
<1> QED  BY <1>8, <1>9

LEMMA HandleFresh ==
  ASSUME KInv, Handle \/ Commit
  PROVE  AttemptsAreFresh' /\ CurrentIsKept' /\ MarkedAt(m.current) /\ m' = m
<1>0. PICK i : i = m.current  OBVIOUS
<1>1. /\ i = Len(attempts) /\ i \in DOMAIN attempts /\ i \in Running /\ m.status = "running"
      /\ attempts \in Seq(AnyAttempt) /\ m' = m
  BY <1>0 DEF KInv, MInv, RInv, OneRuns, IInv, Handle, Commit, Go, Running
<1>2. Running = {i} /\ Fresh(i)
  BY <1>1 DEF KInv, MInv, RInv, OneRuns, AttemptsAreFresh
<1>3. MarkedAt(i) /\ (Handle => ~attempts'[i].closed /\ pc' = "resulted")
                  /\ (Commit => attempts'[i].closed /\ pc' = "committed")
  <2>1. CASE Handle
    <3>1. PICK outcome \in Results : attempts' = [attempts EXCEPT ![i].result = outcome]
      BY <1>0, <2>1, OutcomesAreResults DEF Handle
    <3>2. MarkedAt(i) /\ attempts'[i].closed = attempts[i].closed
      BY <1>1, <3>1, MarkIs
    <3> QED  BY <1>1, <2>1, <3>2 DEF Running, Commit, Handle, Go
  <2>2. CASE Commit
    <3>1. attempts' = [attempts EXCEPT ![i].closed = TRUE] /\ pc = "resulted" /\ pc' = "committed"
      BY <1>0, <2>2 DEF Commit, Close, Go
    <3>2. MarkedAt(i) /\ attempts'[i].closed = TRUE
      <4>1. TRUE \in BOOLEAN /\ "none" \in Results  BY DEF Results
      <4> QED  BY <1>1, <3>1, <4>1, MarkIs
    <3> QED  BY <2>2, <3>1, <3>2 DEF Handle, Go
  <2> QED  BY <2>1, <2>2
<1>4. Fresh(i)'
  BY <1>1, <1>2, <1>3, StaysFresh DEF MarkedAt
<1>5. Running' \subseteq {i} /\ (Commit => Running' = {})
  BY <1>2, <1>3 DEF Running, MarkedAt
<1>6. AttemptsAreFresh'
  BY <1>0, <1>1, <1>3, <1>4, <1>5 DEF AttemptsAreFresh
<1>7. CurrentIsKept'
  BY <1>0, <1>1, <1>3, <1>4, <1>5 DEF CurrentIsKept, Done
<1> QED  BY <1>0, <1>1, <1>3, <1>6, <1>7

\* What is recorded is the step's result at once; what failed is not kept.
LEMMA RecordingFresh ==
  ASSUME MInv, NEW i \in DOMAIN attempts, MarkedAt(i), Running' = {}, pc' # "committed",
         m'.current = i, attempts'[i].result = attempts[i].result,
         Keeps(i) /\ attempts[i].step \in Steps => m'.refs[attempts[i].step] = i
  PROVE  AttemptsAreFresh' /\ CurrentIsKept'
<1>1. AttemptsAreFresh'  BY DEF AttemptsAreFresh
<1>2. Done(i)' => Keeps(i)
  BY DEF Done, Keeps, MarkedAt
<1>3. attempts'[i].step = attempts[i].step  BY DEF MarkedAt
<1> QED  BY <1>1, <1>2, <1>3 DEF CurrentIsKept, Ref

LEMMA NextPlan ==
  ASSUME NEW mm, mm \in AnyManifest, Next(mm) = "plan"
  PROVE  mm.plan.kind # "followup"
<1> DEFINE rows == Rows(mm.plan)
           open == {i \in DOMAIN rows : Ref(mm, rows[i]) = 0 /\ Applies(mm, rows[i])}
<1> SUFFICES ASSUME mm.plan.kind = "followup" PROVE FALSE
  OBVIOUS
<1>1. Next(mm) = IF Stopped(mm) THEN "none" ELSE IF open = {} THEN "none" ELSE rows[Min(open)]
  BY DEF Next
<1>2. \A i \in DOMAIN rows : i \in Nat /\ rows[i] \in Steps
  BY RowsAreSteps DEF AnyManifest
<1>3. open \subseteq DOMAIN rows  OBVIOUS
<1> HIDE DEF open, rows
<1>4. open # {} /\ Next(mm) = rows[Min(open)]  BY <1>1
<1>5. Min(open) \in open
  <2>1. open \subseteq Nat  BY <1>2, <1>3
  <2> QED  BY <1>4, <2>1, LeastIsIn
<1> QED  BY <1>2, <1>3, <1>4, <1>5, StepNames

\* A result that is recorded was fresh.
LEMMA RecordingStands ==
  ASSUME KInv, NEW i \in DOMAIN attempts, gaps = {}, NEW seen, seen = m \/ seen = Turned(m, i),
         Fresh(i) \/ (attempts[i].step = "plan" /\ m.plan.kind = "none")
  PROVE  /\ Consistent(Recorded(seen, i)) /\ Consistent(seen)
         /\ seen \in AnyManifest /\ Recorded(seen, i) \in AnyManifest
<1>1. /\ m \in AnyManifest /\ attempts \in Seq(AnyAttempt) /\ Consistent(m)
      /\ Sane(m, attempts, accepted) /\ Proposed(m, accepted)
  BY DEF KInv, MInv, RInv, IInv, Sane
<1>2. i \in Nat /\ attempts[i].step \in Steps \cup {"plan"}  BY <1>1, AttemptIs
<1>3. /\ seen.refs = m.refs /\ seen.plan = m.plan /\ seen.decision = m.decision
      /\ seen.inputs = m.inputs
      /\ Sane(seen, attempts, accepted) /\ Proposed(seen, accepted)
  <2>1. /\ seen.refs = m.refs /\ seen.plan = m.plan /\ seen.decision = m.decision
        /\ seen.inputs = m.inputs
    BY <1>1 DEF Turned, AnyManifest
  <2> QED  BY <1>1, <1>2, <2>1, CurrentIsSane
<1>4. Consistent(seen)  BY <1>1, <1>3, StatusStands
<1>5. Next(seen) = Next(m) /\ \A s : Sources(seen, s) = Sources(m, s)
  BY <1>3, SameNext
<1>6. attempts[i].step = "plan" => seen.plan.kind # "followup"
  BY <1>1, <1>3, NextPlan DEF Fresh
<1>7. attempts[i].step \in Steps =>
        /\ Next(seen) = attempts[i].step /\ attempts[i].inputs = seen.inputs
        /\ attempts[i].from = Sources(seen, attempts[i].step)
  BY <1>3, <1>5, StepNames DEF Fresh
<1>8. Consistent(Recorded(seen, i))
  BY <1>1, <1>3, <1>4, <1>6, <1>7, RecordedStands
<1> QED  BY <1>1, <1>3, <1>4, <1>8, RecordedIsSane DEF Sane

LEMMA WithStatusStands ==
  ASSUME NEW mm, mm \in AnyManifest, Consistent(mm), NEW status
  PROVE  Consistent(WithStatus(mm, status))
<1>1. /\ WithStatus(mm, status).refs = mm.refs /\ WithStatus(mm, status).plan = mm.plan
      /\ WithStatus(mm, status).decision = mm.decision
      /\ WithStatus(mm, status).inputs = mm.inputs
  BY DEF WithStatus, AnyManifest
<1> QED  BY <1>1, StatusStands

LEMMA RecordStands ==
  ASSUME KInv, Record
  PROVE  AttemptsAreFresh' /\ CurrentIsKept' /\ (gaps' = {} => Consistent(m)')
<1>0. PICK i : i = m.current  OBVIOUS
<1>1. /\ pc = "committed" /\ pc' \in {"finish", "idle"} /\ attempts' = attempts /\ gaps' = gaps
      /\ m' = IF Keeps(i) THEN Recorded(m, i)
              ELSE IF attempts[i].step = "report" /\ attempts[i].result = "measured"
                   THEN Pause(Recorded(m, i)) ELSE Pause(m)
  BY <1>0 DEF Record, Unchanged, history
<1>2. /\ attempts \in Seq(AnyAttempt) /\ m \in AnyManifest /\ i \in DOMAIN attempts
      /\ Fresh(i) /\ Running = {} /\ Sane(m, attempts, accepted) /\ Proposed(m, accepted)
      /\ Named(m, attempts)
  BY <1>0, <1>1 DEF KInv, MInv, RInv, IInv, InPlace, Sane, OneRuns, AttemptsAreFresh
<1>3. MarkedAt(i) /\ Running' = {}
  BY <1>1, <1>2 DEF MarkedAt, Running
<1>4. PICK mm : /\ mm = Recorded(m, i) \/ (mm = m /\ ~Keeps(i))
                /\ m' = mm \/ m' = WithStatus(mm, "paused")
  BY <1>1 DEF Pause, WithStatus
<1>5. mm \in AnyManifest /\ mm.current = i
      /\ (Keeps(i) /\ attempts[i].step \in Steps => mm.refs[attempts[i].step] = i)
  BY <1>0, <1>2, <1>4, RecordedIsSane, RecordedLeaves DEF Sane
<1>6. m'.refs = mm.refs /\ m'.current = mm.current
  BY <1>4, <1>5 DEF WithStatus, AnyManifest
<1>7. AttemptsAreFresh' /\ CurrentIsKept'
  BY <1>1, <1>2, <1>3, <1>5, <1>6, RecordingFresh DEF KInv
<1>8. ASSUME gaps = {}
      PROVE  Consistent(m)'
  <2>1. Consistent(mm)
    BY <1>2, <1>4, <1>8, RecordingStands
  <2>2. Consistent(m')
    BY <1>4, <1>5, <2>1, WithStatusStands
  <2> QED  BY <1>1, <2>2 DEF Consistent, Standing, OnlyFollowups, AnalysisIsDecided, ReportIsLast,
        DecidedOn, Latest, Ref
<1> QED  BY <1>1, <1>7, <1>8

LEMMA ReconcileStands ==
  ASSUME KInv, Reconcile
  PROVE  AttemptsAreFresh' /\ CurrentIsKept' /\ (gaps' = {} => Consistent(m)')
<1>1. PICK i \in ToReconcile :
        LET seen == IF attempts[i].closed THEN m ELSE [m EXCEPT !.current = i, !.status = "running"]
        IN /\ Reconcilable(i) /\ attempts' = Close(i)
           /\ m' = IF Keeps(i) THEN Recorded(seen, i) ELSE Pause(seen)
           /\ pc' \in {"ready", "idle"} /\ gaps' = gaps
  BY DEF Reconcile, Unchanged, history
<1>2. /\ attempts \in Seq(AnyAttempt) /\ m \in AnyManifest /\ i \in DOMAIN attempts /\ i \in Nat
      /\ i # 0 /\ attempts[i].step \in Steps \cup {"plan"} /\ Running \subseteq {i}
      /\ attempts[i].closed => i = m.current /\ Unrecorded(m) /\ Running = {}
      /\ attempts[i].result # "none" /\ Sane(m, attempts, accepted) /\ Proposed(m, accepted)
  <2>1. /\ attempts \in Seq(AnyAttempt) /\ m \in AnyManifest /\ i \in DOMAIN attempts
        /\ Running \subseteq {i}
        /\ attempts[i].closed => i = m.current /\ Unrecorded(m) /\ Running = {}
        /\ attempts[i].result # "none" /\ Sane(m, attempts, accepted) /\ Proposed(m, accepted)
    BY <1>1 DEF ToReconcile, Running, Unrecorded, Reconcilable, KInv, MInv, RInv, OneRuns, IInv,
       InPlace, Sane
  <2> QED  BY <2>1, AttemptIs
<1>3. PICK seen :
        /\ seen = m \/ seen = Turned(m, i)
        /\ seen.current = i
        /\ \/ m' = Recorded(seen, i) /\ Keeps(i)
           \/ m' = WithStatus(seen, "paused") /\ ~Keeps(i)
  <2> DEFINE s == IF attempts[i].closed THEN m ELSE [m EXCEPT !.current = i, !.status = "running"]
  <2>1. s = m \/ s = Turned(m, i)
    BY <1>2 DEF AnyManifest, Turned
  <2>2. s.current = i  BY <1>2 DEF AnyManifest
  <2>3. \/ m' = Recorded(s, i) /\ Keeps(i)
        \/ m' = WithStatus(s, "paused") /\ ~Keeps(i)
    BY <1>1 DEF Pause, WithStatus
  <2> HIDE DEF s
  <2> QED  BY <2>1, <2>2, <2>3
<1>4. Sane(seen, attempts, accepted) /\ Proposed(seen, accepted) /\ seen \in AnyManifest
  <2>1. CASE seen = m  BY <1>2, <2>1
  <2>2. CASE seen = Turned(m, i)  BY <1>2, <2>2, CurrentIsSane DEF Sane
  <2> QED  BY <1>3, <2>1, <2>2
<1>5. MarkedAt(i) /\ attempts'[i].closed = TRUE /\ attempts'[i].result = attempts[i].result
  <2>1. TRUE \in BOOLEAN /\ "none" \in Results  BY DEF Results
  <2> QED  BY <1>1, <1>2, <2>1, MarkIs DEF Close
<1>6. Running' = {}  BY <1>2, <1>5 DEF Running, MarkedAt
<1>7. m'.current = i /\ (Keeps(i) /\ attempts[i].step \in Steps => m'.refs[attempts[i].step] = i)
  <2>1. CASE m' = Recorded(seen, i)
    BY <1>2, <1>3, <1>4, <2>1, RecordedLeaves
  <2>2. CASE m' = WithStatus(seen, "paused") /\ ~Keeps(i)
    BY <1>3, <1>4, <2>2 DEF WithStatus, AnyManifest
  <2> QED  BY <1>3, <2>1, <2>2
<1>8. AttemptsAreFresh' /\ CurrentIsKept'
  BY <1>1, <1>2, <1>5, <1>6, <1>7, RecordingFresh DEF KInv
<1>9. ASSUME gaps = {}
      PROVE  Consistent(m)'
  <2>1. Consistent(m') /\ Named(m', attempts)
    <3>1. CASE Keeps(i)
      <4>1. Fresh(i) \/ (attempts[i].step = "plan" /\ m.plan.kind = "none")
        <5>1. CASE ~attempts[i].closed
          BY <1>2, <5>1 DEF Running, KInv, AttemptsAreFresh
        <5>2. CASE attempts[i].closed /\ attempts[i].step = "plan"
          BY <1>2, <5>2 DEF Unrecorded
        <5>3. CASE attempts[i].closed /\ attempts[i].step # "plan"
          <6>1. Done(i) /\ i = m.current /\ Ref(m, attempts[i].step) # i
                /\ attempts[i].step \in Steps
            BY <1>2, <3>1, <5>3 DEF Done, Unrecorded
          <6> QED  BY <1>2, <6>1 DEF KInv, CurrentIsKept
        <5> QED  BY <5>1, <5>2, <5>3
      <4>2. m' = Recorded(seen, i)  BY <1>3, <3>1
      <4> QED  BY <1>2, <1>3, <1>4, <1>9, <4>1, <4>2, RecordingStands, RecordedIsSane DEF Sane
    <3>2. CASE ~Keeps(i)
      <4>1. m' = WithStatus(seen, "paused")  BY <1>3, <3>2
      <4>2. Consistent(m)  BY <1>9 DEF KInv
      <4>3. Consistent(seen)
        <5>1. seen.refs = m.refs /\ seen.plan = m.plan /\ seen.decision = m.decision
              /\ seen.inputs = m.inputs
          BY <1>2, <1>3 DEF Turned, AnyManifest
        <5> QED  BY <1>2, <4>2, <5>1, StatusStands
      <4> QED  BY <1>4, <4>1, <4>3, WithStatusStands, StatusIsSane DEF Sane
    <3> QED  BY <3>1, <3>2
  <2> QED  BY <1>5, <2>1, MarkedStands DEF MarkedAt
<1> QED  BY <1>1, <1>8, <1>9

\* Attempts that are started or marked leave what stands.
LEMMA AttemptStands ==
  ASSUME KInv, Begin \/ Handle \/ Commit, gaps' = {}
  PROVE  Consistent(m)'
<1>0. gaps = {} /\ m' = m
  BY DEF Begin, Handle, Commit, Unchanged, history
<1>1. Consistent(m') /\ Named(m', attempts) /\ attempts \in Seq(AnyAttempt) /\ m \in AnyManifest
  BY <1>0 DEF KInv, MInv, RInv, IInv, Sane
<1>2. CASE Begin
  <2>1. PICK step \in Steps \cup {"plan"} :
          attempts' = Append(attempts, [step |-> step, closed |-> FALSE, result |-> "none",
                                        inputs |-> m.inputs, from |-> Sources(m, step)])
    BY <1>2 DEF Begin
  <2> DEFINE a == [step |-> step, closed |-> FALSE, result |-> "none",
                   inputs |-> m.inputs, from |-> Sources(m, step)]
  <2>2. a \in AnyAttempt
    BY <1>1, SourcesAreIds DEF AnyManifest, AnyAttempt, Results
  <2> HIDE DEF a
  <2>3. attempts' = Append(attempts, a)  BY <2>1 DEF a
  <2>4. \A i \in DOMAIN attempts : attempts'[i] = attempts[i]
    BY <1>1, <2>2, <2>3, AppendProperties
  <2> QED  BY <1>1, <2>4, MarkedStands
<1>3. CASE Handle \/ Commit
  <2>1. MarkedAt(m.current)  BY <1>3, HandleFresh
  <2> QED  BY <1>1, <2>1, MarkedStands DEF MarkedAt
<1> QED  BY <1>2, <1>3

LEMMA RecoverStands ==
  ASSUME KInv, Recover
  PROVE  AttemptsAreFresh' /\ CurrentIsKept' /\ (gaps' = {} => Consistent(m)')
<1>1. PICK i : i = m.current  OBVIOUS
<1>2. /\ attempts' = [attempts EXCEPT ![i].result = "error", ![i].closed = TRUE]
      /\ i \in DOMAIN attempts /\ attempts \in Seq(AnyAttempt) /\ Running = {i}
      /\ m \in AnyManifest /\ pc' = "idle" /\ gaps' = gaps /\ Named(m, attempts)
  BY <1>1 DEF Recover, Recoverable, Running, KInv, MInv, RInv, IInv, Sane, Unchanged, history
<1>3. /\ m'.inputs = m.inputs /\ m'.refs = m.refs /\ m'.plan = m.plan
      /\ m'.decision = m.decision /\ m'.current = i
  BY <1>1, <1>2 DEF Recover, AnyManifest
<1>4. "error" \in Results /\ TRUE \in BOOLEAN  BY DEF Results, Failures
<1>5. MarkedAt(i) /\ attempts'[i].result = "error" /\ attempts'[i].closed = TRUE
  BY <1>2, <1>4, MarkIs, Zenon
<1>6. ~Done(i)'  BY <1>5 DEF Done, Keeps, Failures
<1>7. Running' = {}  BY <1>2, <1>5 DEF Running, MarkedAt
<1>8. AttemptsAreFresh' /\ CurrentIsKept'
  BY <1>2, <1>3, <1>6, <1>7 DEF AttemptsAreFresh, CurrentIsKept
<1>9. ASSUME gaps = {}
      PROVE  Consistent(m)'
  <2>1. Consistent(m')
    BY <1>2, <1>3, <1>9, StatusStands DEF KInv
  <2>2. Named(m', attempts)  BY <1>2, <1>3 DEF Named
  <2> QED  BY <1>5, <2>1, <2>2, MarkedStands DEF MarkedAt
<1> QED  BY <1>2, <1>8, <1>9

\* What a checkpoint or a reply changes of a decision and of the plan.
LEMMA ReplyStands ==
  ASSUME NEW mm, mm \in AnyManifest, Consistent(mm), NEW nn,
         nn.refs = mm.refs, nn.inputs = mm.inputs, nn.decision # None,
         mm.decision # None => nn.decision.analysis = mm.decision.analysis,
         nn.plan = mm.plan \/ nn.plan.kind = "followup",
         mm.refs["report"] # 0 /\ mm.refs["analysis_r1"] = 0 =>
           /\ nn.plan = mm.plan
           /\ nn.decision.stage = "research_choice" => nn.decision.status # "pending"
           /\ nn.decision.action = "revise_candidate" => mm.decision.action = "revise_candidate"
  PROVE  Consistent(nn)
<1>1. /\ \A s \in Steps : Standing(nn, s)
      /\ OnlyFollowups(nn) /\ Latest(nn) = Latest(mm)
  BY SameResults DEF Consistent
<1>2. DecidedOn(mm) => DecidedOn(nn)
  BY <1>1 DEF DecidedOn
<1>3. AnalysisIsDecided(nn)
  BY <1>1, <1>2 DEF Consistent, AnalysisIsDecided
<1>4. ReportIsLast(nn)
  BY <1>2 DEF Consistent, ReportIsLast, DecidedOn
<1> QED  BY <1>1, <1>3, <1>4 DEF Consistent

LEMMA SameAttempts ==
  ASSUME Consistent(m'), attempts' = attempts
  PROVE  Consistent(m)'
BY DEF Consistent, Standing, OnlyFollowups, AnalysisIsDecided, ReportIsLast, DecidedOn, Latest, Ref

\* A checkpoint keeps what was decided, and is never a choice.
LEMMA AskStands ==
  ASSUME KInv, Ask, Consistent(m)
  PROVE  Consistent(m')
<1> DEFINE stage == StageOf(m, Next(m))
           decision == [action |-> IF m.decision = None THEN "request_input" ELSE m.decision.action,
                        analysis |-> IF m.decision = None THEN 0 ELSE m.decision.analysis,
                        stage |-> stage, status |-> "pending",
                        about |-> SubjectOf(m, stage), saved |-> None]
<1>1. m' = [m EXCEPT !.decision = decision] /\ m \in AnyManifest
  BY DEF KInv, MInv, RInv, IInv, Sane, Ask
<1>2. stage \in {"none", "execution_protocol", "delivery"}
  BY DEF StageOf
<1>3. SubjectOf(m, stage) \in AnySubject
  <2>1. Ref(m, "design") \in Nat /\ Latest(m) \in Nat
    BY <1>1, LatestIs DEF AnyManifest, Ref, Steps
  <2> QED  BY <1>1, <2>1, SubjectIs DEF SubjectOf
<1> HIDE DEF stage
<1>4. decision \in AnyDecision /\ decision.stage = stage
      /\ (m.decision # None =>
            decision.action = m.decision.action /\ decision.analysis = m.decision.analysis)
  BY <1>1, <1>2, <1>3 DEF AnyManifest, AnyDecision, Stages
<1> HIDE DEF decision
<1>5. /\ m'.refs = m.refs /\ m'.inputs = m.inputs /\ m'.plan = m.plan /\ m'.decision = decision
      /\ decision # None
  BY <1>1, <1>4, NoDecision DEF AnyManifest
<1>6. m.refs["report"] # 0 => m.decision # None
  BY DEF Consistent, ReportIsLast, DecidedOn
<1> QED  BY <1>1, <1>2, <1>4, <1>5, <1>6, ReplyStands

\* A reply keeps the analysis it is about; a choice is accepted before a report.
LEMMA AnswerStands ==
  ASSUME KInv, Accept \/ Reject \/ ReplyRevise, Consistent(m)
  PROVE  Consistent(m')
<1> DEFINE d == m.decision
<1>0. m \in AnyManifest /\ Pending
  BY DEF KInv, MInv, RInv, IInv, Sane, Accept, Reject, ReplyRevise
<1>1. d # None /\ d.status = "pending" /\ d \in AnyDecision
  BY <1>0 DEF Pending, AnyManifest
<1>2. CASE Accept
  <2> DEFINE follow == d.stage = "research_choice"
             action == IF follow THEN "revise_candidate"
                       ELSE IF d.action = "request_input" THEN "continue" ELSE d.action
             answered == Replied(m, "accepted", action, None)
  <2>1. m' = IF follow THEN Extended(answered) ELSE answered
    BY <1>2 DEF Accept, Answer, Replied
  <2>2. action \in {"request_input", "continue", "stop", "revise_candidate", "revised"}
        /\ (~follow /\ action = "revise_candidate" => d.action = "revise_candidate")
    BY <1>1 DEF AnyDecision
  <2> HIDE DEF action
  <2>3. /\ answered \in AnyManifest /\ answered.refs = m.refs /\ answered.inputs = m.inputs
        /\ answered.plan = m.plan /\ answered.decision \in AnyDecision
        /\ answered.decision.stage = d.stage /\ answered.decision.analysis = d.analysis
        /\ answered.decision.status = "accepted" /\ answered.decision.action = action
    BY <1>0, <1>1, <2>2, ReplyIs
  <2> HIDE DEF answered
  <2>4. /\ m'.refs = m.refs /\ m'.inputs = m.inputs /\ m'.decision = answered.decision
        /\ follow => m'.plan.kind = "followup"
        /\ ~follow => m'.plan = m.plan
    BY <2>1, <2>3 DEF Extended, AnyManifest, AnyPlan
  <2>5. m.refs["report"] # 0 /\ m.refs["analysis_r1"] = 0 => ~follow
    BY <1>1 DEF Consistent, ReportIsLast
  <2> QED  BY <1>0, <1>1, <2>2, <2>3, <2>4, <2>5, NoDecision, ReplyStands
<1>3. CASE Reject \/ ReplyRevise
  <2>1. PICK status \in {"rejected", "revised"}, action \in {"stop", "revised"},
             saved \in Kinds \cup {None} : m' = Replied(m, status, action, saved)
    <3>1. CASE Reject
      BY <3>1 DEF Reject, Answer, Replied
    <3>2. CASE ReplyRevise
      <4>1. PICK k \in Revisable \cup {"report"} : m' = Answer("revised", "revised", k)
        BY <3>2 DEF ReplyRevise
      <4>2. k \in Kinds
        BY <4>1, ResearchAssumption DEF Kinds
      <4>3. m' = Replied(m, "revised", "revised", k)  BY <4>1 DEF Answer, Replied
      <4> QED  BY <4>2, <4>3
    <3> QED  BY <1>3, <3>1, <3>2
  <2>2. /\ m'.refs = m.refs /\ m'.inputs = m.inputs /\ m'.plan = m.plan
        /\ m'.decision \in AnyDecision /\ m'.decision.analysis = d.analysis
        /\ m'.decision.status = status /\ m'.decision.action = action
    BY <1>0, <1>1, <2>1, ReplyIs
  <2> QED  BY <1>0, <1>1, <2>2, NoDecision, ReplyStands
<1> QED  BY <1>2, <1>3

LEMMA QuietStands ==
  ASSUME KInv, Quiet, gaps' = {}
  PROVE  Consistent(m)'
<1>0. /\ m \in AnyManifest /\ RInv /\ Sane(m, attempts, accepted) /\ Proposed(m, accepted)
  BY DEF KInv, MInv, RInv, IInv, Sane
<1>1. attempts' = attempts /\ gaps = {}
  <2>1. gaps' = gaps
    BY DEF Quiet, Advance, Ask, PauseAsked, Refuse, Enter, Finish, Accept, Reject, ReplyRevise,
       Revise, Replay, Resume, RefreshReport, Reanalyze, Reopen, Crash, Unchanged, history, vars
  <2> QED  BY <1>0, <2>1, QuietIs
<1>2. Consistent(m)  BY <1>1 DEF KInv
<1>3. CASE Advance \/ Crash \/ UNCHANGED vars \/ Revise \/ Replay \/ Resume \/ RefreshReport
           \/ Reanalyze
  <2>1. m' = m
    BY <1>3 DEF Advance, Crash, vars, Revise, Replay, Resume, RefreshReport, Reanalyze
  <2> QED  BY <1>1, <1>2, <2>1, SameAttempts
<1>4. CASE PauseAsked \/ Refuse \/ Enter \/ Reopen
  <2>1. PICK status, id :
          m' = m \/ m' = WithStatus(m, status) \/ m' = [m EXCEPT !.status = status, !.current = id]
    <3>1. CASE PauseAsked \/ Refuse
      BY <3>1 DEF PauseAsked, Refuse, Pause, WithStatus
    <3>2. CASE Enter
      BY <3>2 DEF Enter
    <3>3. CASE Reopen
      BY <1>0, <3>3 DEF Reopen, AnyManifest
    <3> QED  BY <1>4, <3>1, <3>2, <3>3
  <2>2. m'.refs = m.refs /\ m'.plan = m.plan /\ m'.decision = m.decision /\ m'.inputs = m.inputs
    BY <1>0, <2>1 DEF WithStatus, AnyManifest
  <2>3. Consistent(m')  BY <1>0, <1>2, <2>2, StatusStands
  <2> QED  BY <1>1, <2>3, SameAttempts
<1>5. CASE Finish
  <2>1. m' = m \/ \E status \in {"paused", "completed"} : m' = WithStatus(Decided(m), status)
    BY <1>5 DEF Finish, Pause, WithStatus
  <2>2. Decided(m) \in AnyManifest  BY <1>0, DecidedIsSane DEF Sane
  <2>3. Consistent(Decided(m))  BY <1>0, <1>2, <2>2, DecidedStands DEF Consistent
  <2>4. Consistent(m')  BY <1>2, <2>1, <2>2, <2>3, WithStatusStands
  <2> QED  BY <1>1, <2>4, SameAttempts
<1>6. CASE Ask \/ Accept \/ Reject \/ ReplyRevise
  BY <1>1, <1>2, <1>6, AskStands, AnswerStands, SameAttempts
<1> QED  BY <1>3, <1>4, <1>5, <1>6 DEF Quiet

\* Of the inputs of a report alone no other result is; of its configuration and
\* of the required outputs none.
LEMMA AboutIs ==
  ASSUME NEW s \in Steps
  PROVE  /\ About(s) \subseteq Kinds /\ "report" \notin About(s) /\ "outputs" \notin About(s)
         /\ "preferences" \in About(s) => s = "report"
BY NamesOfSteps DEF About, Kinds, BriefKinds, ExecutionKinds

\* Without its report a session is what it was.
LEMMA UnreportedStands ==
  ASSUME NEW mm, mm \in AnyManifest, Consistent(mm), NEW nn,
         \A s \in Steps : nn.refs[s] = IF s = "report" THEN 0 ELSE mm.refs[s],
         nn.plan = mm.plan, nn.decision = mm.decision,
         \A s \in Steps : s # "report" => \A k \in About(s) : nn.inputs[k] = mm.inputs[k]
  PROVE  Consistent(nn)
<1>1. nn.refs["report"] = 0 /\ \A s \in Steps : s # "report" => nn.refs[s] = mm.refs[s]
  BY StepNames
<1>2. Latest(nn) = Latest(mm)
  BY <1>1, NamesOfSteps DEF Latest, Ref
<1>3. \A s \in Steps : s \notin Retained => Sources(nn, s) = Sources(mm, s)
  BY <1>1, <1>2, SourcesKept, NamesOfSteps
<1>4. \A s \in Steps : Standing(nn, s)
  <2>1. \A s \in Steps : nn.refs[s] \in {0, mm.refs[s]}  BY <1>1
  <2>2. \A s \in Steps : Standing(mm, s)  BY DEF Consistent
  <2>3. \A s \in Steps : nn.refs[s] # 0 =>
          /\ \A k \in About(s) : nn.inputs[k] = mm.inputs[k]
          /\ s \notin Retained => Sources(nn, s) = Sources(mm, s)
    BY <1>1, <1>3
  <2> QED  BY <2>1, <2>2, <2>3, RetiredStands
<1>5. OnlyFollowups(nn)
  BY <1>1, NamesOfSteps DEF OnlyFollowups, Consistent, Revised
<1>6. AnalysisIsDecided(nn)
  BY <1>1, <1>2, NamesOfSteps DEF Consistent, AnalysisIsDecided, DecidedOn
<1>7. ReportIsLast(nn)  BY <1>1 DEF ReportIsLast
<1> QED  BY <1>4, <1>5, <1>6, <1>7 DEF Consistent

\* Without its latest analysis a session is as before it, or as before that of
\* its revised candidate.
LEMMA UnanalyzedStands ==
  ASSUME NEW mm, mm \in AnyManifest, Named(mm, attempts), Consistent(mm), NEW nn,
         NEW a, a = IF Latest(mm) = Ref(mm, "analysis") THEN "analysis" ELSE "analysis_r1",
         \A s \in Steps : nn.refs[s] = IF s \in {"report", a} THEN 0 ELSE mm.refs[s],
         nn.plan = mm.plan, nn.inputs = mm.inputs
  PROVE  Consistent(nn)
<1>1. /\ nn.refs["report"] = 0 /\ nn.refs[a] = 0 /\ a \in Analyses
      /\ \A s \in Steps : s \notin {"report", a} => nn.refs[s] = mm.refs[s]
      /\ \A s \in Steps : nn.refs[s] \in {0, mm.refs[s]}
  BY StepNames DEF Analyses
<1>2. \A s \in Steps : nn.refs[s] # 0 /\ s \notin Retained => Sources(nn, s) = Sources(mm, s)
  <2> SUFFICES ASSUME NEW s \in Steps, nn.refs[s] # 0, s \notin Retained
               PROVE  Sources(nn, s) = Sources(mm, s)
    OBVIOUS
  <2>1. s # "report"  BY <1>1
  <2> QED  BY <1>1, <2>1, SourcesKept, NamesOfSteps DEF Analyses
<1>3. \A s \in Steps : Standing(nn, s)
  <2>1. \A s \in Steps : Standing(mm, s)  BY DEF Consistent
  <2>2. \A s \in Steps : nn.refs[s] # 0 =>
          /\ \A k \in About(s) : nn.inputs[k] = mm.inputs[k]
          /\ s \notin Retained => Sources(nn, s) = Sources(mm, s)
    BY <1>2
  <2> QED  BY <1>1, <2>1, <2>2, RetiredStands
<1>4. OnlyFollowups(nn)
  BY <1>1, NamesOfSteps DEF OnlyFollowups, Consistent
<1>5. AnalysisIsDecided(nn)
  <2>1. CASE a = "analysis"
    <3>1. mm.plan.kind = "followup" => mm.refs["analysis_r1"] = 0
      <4> SUFFICES ASSUME mm.plan.kind = "followup", mm.refs["analysis_r1"] # 0 PROVE FALSE
        OBVIOUS
      <4>1. mm.refs["analysis_r1"] = mm.refs["analysis"]
        BY <2>1 DEF Latest, Ref
      <4> QED  BY <4>1, StepNames DEF Named
    <3>2. Latest(nn) = 0
      BY <1>1, <2>1, <3>1, StepNames DEF Latest, Ref
    <3> QED  BY <3>2 DEF AnalysisIsDecided
  <2>2. CASE a = "analysis_r1"
    <3>1. mm.plan.kind = "followup" /\ mm.refs["analysis_r1"] # 0
      BY <2>2 DEF Latest, Ref
    <3>2. mm.refs["experiment_r1"] # 0
      BY <3>1, StepNames, StandingHasSources DEF Consistent
    <3>3. nn.refs["experiment_r1"] # 0 /\ nn.refs["analysis_r1"] = 0
      BY <1>1, <2>2, <3>2, NamesOfSteps
    <3> QED  BY <3>1, <3>3 DEF AnalysisIsDecided
  <2> QED  BY <2>1, <2>2
<1>6. ReportIsLast(nn)  BY <1>1 DEF ReportIsLast
<1> QED  BY <1>3, <1>4, <1>5, <1>6 DEF Consistent

\* Where everything that a change made stale is gone, what is left is not about
\* what changed.
LEMMA RevisionStands ==
  ASSUME NEW mm, mm \in AnyManifest, Consistent(mm), NEW nn,
         NEW k \in {"question", "constraints", "protocol", "setup"},
         \A s \in Steps : nn.refs[s] \in {0, mm.refs[s]},
         \A s \in Stale(k) : nn.refs[s] = 0, \A s \in Revised : nn.refs[s] = 0,
         \A x \in Kinds : x # k => nn.inputs[x] = mm.inputs[x]
  PROVE  Consistent(nn)
<1>1. nn.refs["analysis"] = 0 /\ nn.refs["analysis_r1"] = 0 /\ nn.refs["report"] = 0
      /\ nn.refs["design"] = 0 /\ nn.refs["experiment"] = 0 /\ nn.refs["experiment_r1"] = 0
  BY DEF Stale, Delivery, Coded, Analyses, Measurements
<1>2. Latest(nn) = 0  BY <1>1 DEF Latest, Ref
<1>3. ASSUME NEW s \in Steps, nn.refs[s] # 0
      PROVE  s \in {"read", "baseline"} \cup Retained /\ k \notin About(s)
  <2>1. s \in {"read", "baseline", "implementation", "implementation_r1"} /\ s \notin Stale(k)
    BY <1>1, <1>3, NamesOfSteps
  <2>2. s = "read" => k # "question"
    BY <2>1 DEF Stale
  <2>3. s = "baseline" => k # "setup"
    BY <2>1 DEF Stale, Measurements
  <2>4. s \in Retained => k \notin {"question", "constraints"}
    BY <2>1 DEF Stale, Coded, Retained
  <2> QED  BY <2>1, <2>2, <2>3, <2>4 DEF Retained, About
<1>4. \A s \in Steps : Standing(nn, s)
  <2>1. \A s \in Steps : Standing(mm, s)  BY DEF Consistent
  <2>2. \A s \in Steps : nn.refs[s] # 0 =>
          /\ \A x \in About(s) : nn.inputs[x] = mm.inputs[x]
          /\ s \notin Retained => Sources(nn, s) = Sources(mm, s)
    BY <1>3, AboutIs, SourcesAre
  <2> QED  BY <2>1, <2>2, RetiredStands
<1>5. OnlyFollowups(nn) /\ AnalysisIsDecided(nn) /\ ReportIsLast(nn)
  BY <1>1, <1>2 DEF OnlyFollowups, AnalysisIsDecided, ReportIsLast
<1> QED  BY <1>4, <1>5 DEF Consistent

\* Other outputs need another plan, but no other results.
LEMMA ReplannedStands ==
  ASSUME NEW mm, mm \in AnyManifest, Consistent(mm), NEW nn,
         \A s \in Steps : nn.refs[s] = mm.refs[s], nn.decision = mm.decision,
         nn.plan.kind = "none", \A s \in Revised : nn.refs[s] = 0,
         \A x \in Kinds : x # "outputs" => nn.inputs[x] = mm.inputs[x]
  PROVE  Consistent(nn)
<1>1. mm.refs["analysis_r1"] = 0 /\ mm.refs["experiment_r1"] = 0
  BY NamesOfSteps DEF Revised
<1>2. Latest(nn) = Latest(mm)
  BY <1>1, NamesOfSteps DEF Latest, Ref
<1>3. \A s \in Steps : s \notin Retained => Sources(nn, s) = Sources(mm, s)
  BY <1>2, SourcesKept, NamesOfSteps
<1>4. \A s \in Steps : Standing(nn, s)
  <2>1. \A s \in Steps : Standing(mm, s)  BY DEF Consistent
  <2>2. \A s \in Steps : nn.refs[s] # 0 =>
          /\ \A x \in About(s) : nn.inputs[x] = mm.inputs[x]
          /\ s \notin Retained => Sources(nn, s) = Sources(mm, s)
    BY <1>3, AboutIs
  <2> QED  BY <2>1, <2>2, RetiredStands
<1>5. OnlyFollowups(nn)  BY DEF OnlyFollowups
<1>6. AnalysisIsDecided(nn)
  BY <1>1, <1>2 DEF Consistent, AnalysisIsDecided, DecidedOn
<1>7. ReportIsLast(nn)
  BY <1>1, <1>2, StepNames DEF Consistent, ReportIsLast, DecidedOn
<1> QED  BY <1>4, <1>5, <1>6, <1>7 DEF Consistent

LEMMA ChangedElse ==
  ASSUME NEW mm, mm \in AnyManifest, NEW k
  PROVE  /\ Changed(mm, k).plan = mm.plan
         /\ \A x \in Kinds : x # k => Changed(mm, k).inputs[x] = mm.inputs[x]
BY DEF Changed, AnyManifest, AnyInputs

\* A revision of more than preferences drops the plan; other outputs alone
\* keep the results.
LEMMA InvalidatedPlan ==
  ASSUME NEW mm, mm \in AnyManifest, NEW k
  PROVE  /\ k = "preferences" => Invalidated(mm, k) = Drop(mm, {"report"})
         /\ k # "preferences" => Invalidated(mm, k).plan.kind = "none"
         /\ k = "outputs" =>
              /\ Invalidated(mm, k).decision = mm.decision
              /\ \A s \in Steps : Invalidated(mm, k).refs[s] = mm.refs[s]
<1> DEFINE steps == (Stale(k) \cap ToSet(Rows(mm.plan))) \cup (IF k = "setup" THEN {"baseline"} ELSE {})
           dropped == Drop(mm, steps)
<1>1. k = "preferences" => Invalidated(mm, k) = Drop(mm, {"report"})
  BY DEF Invalidated
<1>2. ASSUME k # "preferences"
      PROVE  Invalidated(mm, k) = [dropped EXCEPT !.plan = [kind |-> "none", by |-> 0],
                                     !.planned = @ /\ k # "question",
                                     !.decision = IF k = "outputs" THEN @ ELSE None]
  BY <1>2 DEF Invalidated
<1>3. /\ dropped \in AnyManifest /\ dropped.decision = mm.decision
      /\ \A s \in Steps : dropped.refs[s] = IF s \in steps THEN 0 ELSE mm.refs[s]
  BY DropIs
<1>4. k = "outputs" => steps = {}  BY NothingStale
<1> HIDE DEF steps, dropped
<1>5. ASSUME k # "preferences"
      PROVE  /\ Invalidated(mm, k).plan.kind = "none" /\ Invalidated(mm, k).refs = dropped.refs
             /\ k = "outputs" => Invalidated(mm, k).decision = mm.decision
  <2>1. PICK new : new = Invalidated(mm, k)  OBVIOUS
  <2>2. new = [dropped EXCEPT !.plan = [kind |-> "none", by |-> 0],
                              !.planned = @ /\ k # "question",
                              !.decision = IF k = "outputs" THEN @ ELSE None]
    BY <1>2, <1>5, <2>1
  <2>3. /\ new.plan.kind = "none" /\ new.refs = dropped.refs
        /\ k = "outputs" => new.decision = dropped.decision
    BY <1>3, <2>2 DEF AnyManifest
  <2> QED  BY <1>3, <2>1, <2>3
<1> QED  BY <1>1, <1>3, <1>4, <1>5

\* The revision of inputs, with its stale results gone and no row left behind.
LEMMA RevisedStands ==
  ASSUME m \in AnyManifest, Consistent(m), NEW cleared, cleared \in AnyManifest,
         cleared.refs = m.refs, cleared.plan = m.plan, cleared.decision = m.decision,
         cleared.inputs = m.inputs,
         m' = Changed(Invalidated(cleared, wanted), wanted), wanted \in Kinds \ {"report"},
         \A s \in Stale(wanted) : m'.refs[s] = 0,
         m.plan.kind = "followup" /\ m'.plan.kind = "none" => \A s \in Revised : m'.refs[s] = 0
  PROVE  Consistent(m')
<1>1. PICK retired : retired = Invalidated(cleared, wanted)  OBVIOUS
<1>2. /\ retired \in AnyManifest /\ retired.inputs = m.inputs
      /\ \A s \in Steps : retired.refs[s] \in {0, m.refs[s]}
  BY <1>1, InvalidatedIs, InvalidatedKeeps
<1>3. /\ m'.refs = retired.refs /\ m'.plan = retired.plan /\ m'.decision = retired.decision
      /\ \A x \in Kinds : x # wanted => m'.inputs[x] = m.inputs[x]
  BY <1>1, <1>2, ChangedIs, ChangedElse
<1>4. CASE wanted = "preferences"
  <2>1. retired = Drop(cleared, {"report"})  BY <1>1, <1>4, InvalidatedPlan
  <2>2. /\ retired.plan = m.plan /\ retired.decision = m.decision
        /\ \A s \in Steps : retired.refs[s] = IF s = "report" THEN 0 ELSE m.refs[s]
    <3>1. retired.plan = cleared.plan  BY <2>1 DEF Drop, AnyManifest
    <3>2. /\ retired.decision = cleared.decision
          /\ \A s \in Steps : retired.refs[s] = IF s \in {"report"} THEN 0 ELSE cleared.refs[s]
      BY <2>1, DropIs
    <3> QED  BY <3>1, <3>2
  <2>3. \A s \in Steps : s # "report" => \A k \in About(s) : m'.inputs[k] = m.inputs[k]
    BY <1>3, <1>4, AboutIs
  <2> QED  BY <1>3, <2>2, <2>3, UnreportedStands
<1>5. CASE wanted # "preferences"
  <2>1. m'.plan.kind = "none"  BY <1>1, <1>3, <1>5, InvalidatedPlan
  <2>2. \A s \in Revised : m'.refs[s] = 0
    BY <1>2, <1>3, <2>1, NamesOfSteps DEF Consistent, OnlyFollowups
  <2>3. CASE wanted = "outputs"
    <3>1. retired.decision = m.decision /\ \A s \in Steps : retired.refs[s] = m.refs[s]
      BY <1>1, <2>3, InvalidatedPlan
    <3> QED  BY <1>3, <2>1, <2>2, <2>3, <3>1, ReplannedStands
  <2>4. CASE wanted \in {"question", "constraints", "protocol", "setup"}
    BY <1>2, <1>3, <2>2, <2>4, RevisionStands
  <2> QED  BY <1>5, <2>3, <2>4 DEF Kinds, BriefKinds, ExecutionKinds
<1> QED  BY <1>4, <1>5

LEMMA ApplyStands ==
  ASSUME KInv, Apply
  PROVE  AttemptsAreFresh' /\ CurrentIsKept' /\ (gaps' = {} => Consistent(m)')
<1> DEFINE cleared == [m EXCEPT !.current = 0]
           drop == IF Latest(m) = Ref(m, "analysis") THEN "analysis" ELSE "analysis_r1"
           reset == Drop(cleared, {"report", drop})
<1>0. /\ pc = "continued" /\ pc' = "idle" /\ attempts' = attempts /\ Running = {} /\ Running' = {}
      /\ m \in AnyManifest /\ Named(m, attempts) /\ wanted \in Kinds \cup {"refresh", "reanalyze", None}
  BY DEF Apply, Go, KInv, MInv, RInv, IInv, Sane, OneRuns, Running, WantedIsKnown
<1>1. m' = CASE wanted = None -> m
              [] wanted = "report" -> Changed(m, "report")
              [] wanted = "refresh" -> Changed(Drop(cleared, {"report"}), "report")
              [] wanted = "reanalyze" -> [reset EXCEPT !.decision = None]
                 [] OTHER -> Changed(Invalidated(cleared, wanted), wanted)
  BY DEF Apply, Changed
<1>2. gaps' = {} =>
        /\ gaps = {} /\ \A s \in Stale(wanted) : m'.refs[s] = 0
        /\ m.plan.kind = "followup" /\ m'.plan.kind = "none" => \A s \in Revised : m'.refs[s] = 0
  BY NamesOfSteps DEF Apply, Ref
<1>3. /\ cleared \in AnyManifest /\ cleared.refs = m.refs /\ cleared.plan = m.plan
      /\ cleared.decision = m.decision /\ cleared.inputs = m.inputs /\ cleared.current = 0
  BY <1>0 DEF AnyManifest
<1> HIDE DEF cleared, reset
<1>4. \/ m' = m
      \/ m' = Changed(m, "report")
      \/ m' = Changed(Drop(cleared, {"report"}), "report")
      \/ m' = [reset EXCEPT !.decision = None]
      \/ m' = Changed(Invalidated(cleared, wanted), wanted) /\ wanted \in Kinds \ {"report"}
  <2> DEFINE a == Changed(m, "report")
             b == Changed(Drop(cleared, {"report"}), "report")
             c == [reset EXCEPT !.decision = None]
             d == Changed(Invalidated(cleared, wanted), wanted)
  <2>1. m' = CASE wanted = None -> m [] wanted = "report" -> a [] wanted = "refresh" -> b
            [] wanted = "reanalyze" -> c [] OTHER -> d
    BY <1>1
  <2> HIDE DEF a, b, c, d
  <2>2. \/ m' = m \/ m' = a \/ m' = b \/ m' = c
        \/ m' = d /\ wanted \notin {None, "report", "refresh", "reanalyze"}
    BY <2>1
  <2> QED  BY <1>0, <2>2 DEF a, b, c, d
<1>5. ASSUME m'.current = 0 \/ (m'.current = m.current /\ m'.refs = m.refs)
      PROVE  AttemptsAreFresh' /\ CurrentIsKept'
  <2>1. AttemptsAreFresh'  BY <1>0 DEF AttemptsAreFresh
  <2>2. CurrentIsKept'
    <3> SUFFICES ASSUME m'.current # 0, attempts[m.current].step \in Steps, Done(m.current)
                 PROVE  Ref(m', attempts[m.current].step) = m'.current
      BY <1>0, <1>5 DEF CurrentIsKept, Done, Keeps
    <3>1. Ref(m, attempts[m.current].step) = m.current
      BY <1>0, <1>5 DEF KInv, CurrentIsKept
    <3> QED  BY <1>5, <3>1 DEF Ref
  <2> QED  BY <2>1, <2>2
<1>6. gaps = {} => Consistent(m)  BY DEF KInv
<1>7. CASE m' = m \/ m' = Changed(m, "report")
  <2>1. /\ m'.current = m.current /\ m'.refs = m.refs /\ m'.plan = m.plan /\ m'.decision = m.decision
        /\ \A x \in Kinds : x # "report" => m'.inputs[x] = m.inputs[x]
    BY <1>0, <1>7, ChangedIs, ChangedElse
  <2>2. Consistent(m) => Consistent(m')
    BY <1>0, <2>1, AboutIs, StatusStands
  <2> QED  BY <1>0, <1>2, <1>5, <1>6, <2>1, <2>2, SameAttempts
<1>8. CASE m' = Changed(Drop(cleared, {"report"}), "report")
  <2>1. PICK d : d = Drop(cleared, {"report"})  OBVIOUS
  <2>2. /\ d \in AnyManifest /\ d.inputs = m.inputs /\ d.decision = m.decision /\ d.current = 0
        /\ \A s \in Steps : d.refs[s] = IF s \in {"report"} THEN 0 ELSE m.refs[s]
    BY <1>3, <2>1, DropIs, DropInputs
  <2>3. d.plan = m.plan  BY <1>3, <2>1 DEF Drop, AnyManifest
  <2>4. /\ m'.current = 0 /\ m'.plan = m.plan /\ m'.decision = m.decision
        /\ \A s \in Steps : m'.refs[s] = IF s = "report" THEN 0 ELSE m.refs[s]
        /\ \A x \in Kinds : x # "report" => m'.inputs[x] = m.inputs[x]
    BY <1>8, <2>1, <2>2, <2>3, ChangedIs, ChangedElse
  <2>5. Consistent(m) => Consistent(m')
    BY <1>0, <2>4, AboutIs, UnreportedStands
  <2> QED  BY <1>0, <1>2, <1>5, <1>6, <2>4, <2>5, SameAttempts
<1>9. CASE m' = [reset EXCEPT !.decision = None]
  <2>1. /\ reset \in AnyManifest /\ reset.inputs = m.inputs /\ reset.current = 0
        /\ \A s \in Steps : reset.refs[s] = IF s \in {"report", drop} THEN 0 ELSE m.refs[s]
    BY <1>3, DropIs, DropInputs DEF reset
  <2>2. reset.plan = m.plan  BY <1>3 DEF reset, Drop, AnyManifest
  <2> HIDE DEF drop
  <2>3. /\ m'.current = 0 /\ m'.plan = m.plan /\ m'.inputs = m.inputs
        /\ \A s \in Steps : m'.refs[s] = IF s \in {"report", drop} THEN 0 ELSE m.refs[s]
    BY <1>9, <2>1, <2>2 DEF AnyManifest
  <2>4. Consistent(m) => Consistent(m')
    BY <1>0, <2>3, UnanalyzedStands DEF drop
  <2> QED  BY <1>0, <1>2, <1>5, <1>6, <2>3, <2>4, SameAttempts
<1>10. CASE m' = Changed(Invalidated(cleared, wanted), wanted) /\ wanted \in Kinds \ {"report"}
  <2>1. m'.current = 0
    <3>1. Invalidated(cleared, wanted) \in AnyManifest /\ Invalidated(cleared, wanted).current = 0
      BY <1>3, InvalidatedIs
    <3> QED  BY <1>10, <3>1, ChangedIs
  <2>2. gaps' = {} => Consistent(m')
    BY <1>0, <1>2, <1>3, <1>6, <1>10, RevisedStands
  <2> QED  BY <1>0, <1>5, <2>1, <2>2, SameAttempts
<1> QED  BY <1>4, <1>7, <1>8, <1>9, <1>10

\* What is to be applied is said by a reply or a revision.
LEMMA WantedStep ==
  ASSUME IInv, WantedIsKnown, [Step]_vars
  PROVE  WantedIsKnown'
<1>1. Revisable \cup {"report"} \subseteq Kinds
  BY ResearchAssumption DEF Kinds
<1>2. CASE Calls \/ Crash \/ Recover \/ UNCHANGED vars
  <2>1. wanted' \in {wanted, None}
    BY <1>2 DEF Calls, Reconcile, Advance, Ask, PauseAsked, Refuse, Begin, Enter, Handle, Commit,
       Record, Finish, Crash, Recover, Unchanged, vars
  <2> QED  BY <2>1 DEF WantedIsKnown
<1>3. CASE Replies /\ ~Replay
  BY <1>1, <1>3 DEF Replies, Accept, Reject, ReplyRevise, Revise, Resume, RefreshReport,
     Reanalyze, Reopen, Apply, Continue, WantedIsKnown
<1>4. CASE Replay
  <2>1. m.decision \in AnyDecision /\ wanted' = m.decision.saved
    BY <1>4 DEF Replay, Continue, IInv, Sane, AnyManifest
  <2> QED  BY <2>1 DEF AnyDecision, WantedIsKnown
<1> QED  BY <1>2, <1>3, <1>4 DEF Step

LEMMA InitStands == Init => KInv
<1> SUFFICES ASSUME Init PROVE KInv  OBVIOUS
<1>1. /\ attempts = <<>> /\ pc = "idle" /\ wanted = None
      /\ m.current = 0 /\ m.plan.kind = "none" /\ \A s \in Steps : m.refs[s] = 0
  BY DEF Init
<1>2. Running = {}  BY <1>1 DEF Running
<1>3. AttemptsAreFresh /\ CurrentIsKept /\ WantedIsKnown
  BY <1>1, <1>2 DEF AttemptsAreFresh, CurrentIsKept, WantedIsKnown
<1>4. Latest(m) = 0  BY <1>1, StepNames DEF Latest, Ref
<1>5. Consistent(m)
  BY <1>1, <1>4, NamesOfSteps DEF Consistent, Standing, OnlyFollowups, AnalysisIsDecided, ReportIsLast
<1> QED  BY <1>3, <1>5, InitMeasures DEF KInv

LEMMA StepStands == KInv /\ [Step]_vars => KInv'
<1> SUFFICES ASSUME KInv, [Step]_vars PROVE KInv'  OBVIOUS
<1>1. MInv' /\ WantedIsKnown'
  BY StepMeasures, WantedStep DEF KInv, MInv, RInv
<1>2. AttemptsAreFresh' /\ CurrentIsKept' /\ (gaps' = {} => Consistent(m)')
  BY QuietFresh, QuietStands, BeginFresh, HandleFresh, AttemptStands, RecordStands,
     ReconcileStands, RecoverStands, ApplyStands
     DEF Step, Calls, Replies, Quiet
<1> QED  BY <1>1, <1>2 DEF KInv

\* What a session keeps across revisions, replies, crashes and follow-ups it may
\* keep: a result of its plan was made for the inputs it has now and from the
\* results it has now, unless a revision met a plan that does not name what it
\* makes stale (_next_action, _record_attempt_outputs,
\* _invalidate_revised_inputs).
THEOREM KeptWorkIsCurrent == Spec => []KeptWorkStands
<1>1. KInv => KeptWorkStands
  <2> SUFFICES ASSUME KInv, gaps = {}, NEW s \in ToSet(Rows(m.plan)), Ref(m, s) # 0
               PROVE  LET a == attempts[Ref(m, s)] IN
                      /\ SameInputs(a, s, m.inputs)
                      /\ s \notin {"implementation", "implementation_r1"} => a.from = Sources(m, s)
    BY DEF KeptWorkStands, RevisedWorkStands
  <2>1. s \in Steps
    BY RowsAreSteps DEF KInv, MInv, RInv, IInv, Sane, AnyManifest, ToSet
  <2>2. Standing(m, s)  BY <2>1 DEF KInv, Consistent
  <2> QED  BY <2>2 DEF Standing, Retained, Ref
<1>2. Spec => []KInv  BY InitStands, StepStands, PTL DEF Spec
<1> QED  BY <1>1, <1>2, PTL

=============================================================================
