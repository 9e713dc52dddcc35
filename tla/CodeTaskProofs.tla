--------------------------- MODULE CodeTaskProofs ---------------------------
(***************************************************************************)
(* What CodeTask guarantees for every set of files and connections, every  *)
(* number of retries and repairs, and however often the call is resumed.   *)
(***************************************************************************)
EXTENDS CodeTask, SequenceTheorems, FiniteSetTheorems, TLAPS

----------------------------------------------------------------------------
(* The request loop and the ledger.  A use without a bound is in the ledger  *)
(* as soon as its attempt is closed, and nothing takes it out again.        *)

Answered == {"answered", "malformed"}
Unbounded == Uncertain \cup {"unclassified", "unaccounted"}

\* An answer that was paid for is settled once its attempt is closed.
Settles ==
  /\ call.end \in Answered => call.state \notin {"reserving", "sent"}
  /\ call.end \in Answered /\ call.state \in {"answered", "failed"} => call.purpose \in ledger.settled
  /\ call.state = "answered" => call.end = "answered"

\* A request is made at the gate of its purpose.
Gate == [p \in LlmPurposes |-> IF p = "repair_review" THEN "repairReview" ELSE p]

Gated == call.state # "idle" => call.purpose \in LlmPurposes /\ pc = Gate[call.purpose]

\* An exposed use is recorded as unbounded, or its attempt is still open, in
\* this call or in the reservation a stopped call left.
Recorded ==
  exposed /\ client.limited =>
    \/ "unbounded" \in ledger.doubts
    \/ call.state = "closing" /\ ~client.capped /\ call.end \in Unbounded
    \/ pc \in Stopped /\ ledger.reserved # None

Requests == CallTypeOK /\ Settles /\ Gated /\ Recorded

LEMMA HasMode == ASSUME NEW c \in Clients PROVE Len(c.modes) \in Nat \ {0}
<1> DEFINE Modes == Seq({"responses", "chat"})
<1>1. c.modes \in Modes \ {<<>>}
  BY ClientsAssumption
<1>2. \A s \in Modes : s # <<>> => Len(s) \in Nat \ {0}
  BY EmptySeq, Zenon
<1> HIDE DEF Modes
<1> QED
  BY <1>1, <1>2

\* A fresh request is well typed.
LEMMA AskKeeps ==
  ASSUME Requests, NEW p \in LlmPurposes, Ask(p), pc \notin Stopped, pc' = Gate[p]
  PROVE  Requests'
<1> USE TaskAssumption, NoneAssumption
<1>1. call' = [purpose |-> p, state |-> "reserving", mode |-> 1, attempt |-> 1, plain |-> FALSE, end |-> None]
  BY DEF Ask, Idle
<1>2. client' = client /\ ledger' = ledger /\ exposed' = exposed
  BY DEF Ask
<1>3. CallTypeOK'
  <2>1. call' \in CallType
    BY <1>1 DEF CallType
  <2>2. client \in Clients /\ exposed \in BOOLEAN /\ ledger \in LedgerType
    BY DEF Requests, CallTypeOK
  <2>3. call'.mode <= Len(client.modes) /\ call'.attempt <= RetryAttempts /\ call'.state \notin {"sent", "closing"}
    BY <1>1, <2>2, HasMode, AttemptsAssumption
  <2> QED
    BY <1>2, <2>1, <2>2, <2>3 DEF CallTypeOK, LedgerType, CallType
<1>4. Settles'
  <2>1. call'.end \notin Answered /\ call'.state = "reserving"
    BY <1>1 DEF Answered, Ends, Answers
  <2> QED
    BY <2>1 DEF Settles
<1>5. Gated'
  BY <1>1 DEF Gated
<1>6. Recorded'
  BY <1>2 DEF Ask, Requests, Recorded
<1> QED
  BY <1>3, <1>4, <1>5, <1>6 DEF Requests

\* What takes a request off, or its process away, loses no record of its use.
LEMMA DroppedKeeps ==
  ASSUME Requests, Dropped, pc \notin Stopped,
         call.state \in {"idle", "answered", "failed"} \/ pc' \in Stopped
  PROVE  Requests'
<1> USE TaskAssumption, NoneAssumption
<1>1. call' = [purpose |-> None, state |-> "idle", mode |-> 1, attempt |-> 1, plain |-> FALSE, end |-> None]
  BY DEF Dropped, Idle
<1>2. client' = client /\ ledger' = ledger /\ exposed' = exposed
  BY DEF Dropped
<1>3. CallTypeOK'
  <2>1. call' \in CallType
    BY <1>1 DEF CallType
  <2>2. client \in Clients /\ exposed \in BOOLEAN /\ ledger \in LedgerType
    BY DEF Requests, CallTypeOK
  <2>3. call'.mode <= Len(client.modes) /\ call'.attempt <= RetryAttempts /\ call'.state \notin {"sent", "closing"}
    BY <1>1, <2>2, HasMode, AttemptsAssumption
  <2> QED
    BY <1>2, <2>1, <2>2, <2>3 DEF CallTypeOK, LedgerType, CallType
<1>4. Settles' /\ Gated'
  <2>1. call'.end \notin Answered /\ call'.state = "idle"
    BY <1>1 DEF Answered, Ends, Answers
  <2> QED
    BY <2>1 DEF Settles, Gated
<1>5. Recorded'
  <2>1. call.state = "closing" => ledger.reserved # None
    BY DEF Requests, CallTypeOK, Gated, LlmPurposes
  <2> QED
    BY <1>2, <2>1 DEF Requests, Recorded
<1> QED
  BY <1>3, <1>4, <1>5 DEF Requests

\* Between two requests the ledger only grows.
Charges ==
  /\ UNCHANGED <<client, call, exposed>>
  /\ ledger' \in LedgerType
  /\ ledger.settled \subseteq ledger'.settled /\ ledger.doubts \subseteq ledger'.doubts

LEMMA ChargesKeep ==
  ASSUME Requests, Charges, call.state = "idle",
         \/ pc \notin Stopped
         \/ ledger' = ledger /\ (pc' \in Stopped \/ ledger.reserved = None)
  PROVE  Requests'
<1>1. call' = call /\ client' = client /\ exposed' = exposed /\ ledger' \in LedgerType
  BY DEF Charges
<1>2. CallTypeOK'
  BY <1>1 DEF Requests, CallTypeOK
<1>3. Settles'
  BY <1>1 DEF Requests, Settles
<1>4. Gated'
  BY <1>1 DEF Gated
<1>5. Recorded'
  BY <1>1 DEF Requests, Recorded, Charges
<1> QED
  BY <1>2, <1>3, <1>4, <1>5 DEF Requests

\* Every step of the request loop.
LEMMA ReserveKeeps == ASSUME Requests, Reserve, UNCHANGED pc PROVE Requests'
<1>1. call' = [call EXCEPT !.state = "sent"] /\ ledger' = [ledger EXCEPT !.reserved = call.purpose]
      /\ client' = client /\ exposed' = exposed /\ call.state = "reserving"
  BY DEF Reserve
<1>2. CallTypeOK'
  BY <1>1 DEF Requests, CallTypeOK, CallType, LedgerType
<1>3. Settles' /\ Gated'
  BY <1>1 DEF Requests, Settles, Gated, CallTypeOK, CallType, LedgerType
<1>4. Recorded'
  BY <1>1 DEF Requests, Recorded, Gated, Gate, LlmPurposes, Stopped, CallTypeOK, CallType, LedgerType
<1> QED
  BY <1>2, <1>3, <1>4 DEF Requests

LEMMA RefusedKeeps == ASSUME Requests, ReserveRefused, UNCHANGED pc PROVE Requests'
<1>1. call' = [call EXCEPT !.state = "failed"] /\ ledger' = ledger
      /\ client' = client /\ exposed' = exposed /\ call.state = "reserving"
  BY DEF ReserveRefused
<1>2. CallTypeOK'
  BY <1>1 DEF Requests, CallTypeOK, CallType
<1>3. Settles' /\ Gated'
  BY <1>1 DEF Requests, Settles, Gated, CallTypeOK, CallType
<1>4. Recorded'
  BY <1>1 DEF Requests, Recorded, CallTypeOK, CallType
<1> QED
  BY <1>2, <1>3, <1>4 DEF Requests

LEMMA EndedKeeps == ASSUME Requests, NEW e \in Ends, Ended(e), UNCHANGED pc PROVE Requests'
<1>1. call' = [call EXCEPT !.state = "closing", !.end = e] /\ ledger' = ledger
      /\ client' = client /\ call.state = "sent"
      /\ exposed' = (exposed \/ (~client.capped /\ e \in Unbounded))
  BY DEF Ended, Unbounded
<1>2. CallTypeOK'
  BY <1>1 DEF Requests, CallTypeOK, CallType
<1>3. Settles' /\ Gated'
  BY <1>1 DEF Requests, Settles, Gated, CallTypeOK, CallType
<1>4. Recorded'
  <2>1. pc \notin Stopped
    BY <1>1 DEF Requests, Gated, Gate, LlmPurposes, Stopped
  <2> QED
    BY <1>1, <2>1 DEF Requests, Recorded, CallTypeOK, CallType
<1> QED
  BY <1>2, <1>3, <1>4 DEF Requests

LEMMA ClosedLedger ==
  ASSUME Requests, call.state = "closing"
  PROVE  /\ Closed(call.end) \in LedgerType
         /\ Closed(call.end).reserved = None
         /\ ledger.settled \subseteq Closed(call.end).settled /\ ledger.doubts \subseteq Closed(call.end).doubts
         /\ call.end \in Answered => call.purpose \in Closed(call.end).settled
         /\ ~client.capped /\ call.end \in Unbounded => "unbounded" \in Closed(call.end).doubts
<1> USE DEF Requests, CallTypeOK, LedgerType, CallType, Gated
<1> USE TaskAssumption
<1>1. CASE call.end \in {"answered", "malformed", "not_dispatched", "overloaded"}
  BY <1>1 DEF Closed, Answered, Unbounded, Uncertain
<1>2. CASE call.end = "unaccounted"
  BY <1>2 DEF Closed, Answered, Unbounded, Uncertain
<1>3. CASE call.end \in Uncertain \cup {"unclassified"}
  BY <1>3 DEF Closed, Answered, Unbounded, Uncertain, Doubt
<1>4. CASE call.end \notin {"answered", "malformed", "not_dispatched", "overloaded"} \cup Uncertain \cup {"unclassified", "unaccounted"}
  BY <1>4 DEF Closed, Answered, Unbounded, Uncertain
<1> QED
  BY <1>1, <1>2, <1>3, <1>4

\* What follows the end of an attempt: another attempt, or the end of the call.
LEMMA CloseCases ==
  ASSUME Requests, Close
  PROVE  /\ call' \in CallType
         /\ call'.purpose = call.purpose /\ call'.end = call.end
         /\ call'.state \in {"answered", "reserving", "failed"}
         /\ call'.state = "answered" => call.end = "answered"
         /\ call.end \in Answered => call'.state # "reserving"
         /\ call'.mode <= Len(client.modes)
         /\ call'.attempt <= RetryAttempts \/ call'.attempt <= ConnectAttempts
<1> DEFINE e == call.end
<1> USE AttemptsAssumption
<1>0. /\ call \in CallType /\ call.mode <= Len(client.modes) /\ Len(client.modes) \in Nat \ {0}
      /\ call.attempt <= RetryAttempts \/ call.attempt <= ConnectAttempts
  BY HasMode DEF Requests, CallTypeOK
<1>1. CASE e = "answered"
  <2>1. call' = [call EXCEPT !.state = "answered"]
    BY <1>1 DEF Close
  <2> QED
    BY <1>0, <1>1, <2>1 DEF CallType
<1>2. CASE e # "answered" /\ SendsAgain(e)
  <2>1. call' = [call EXCEPT !.state = "reserving", !.attempt = @ + 1]
    BY <1>2 DEF Close
  <2>2. e \in Transient /\ call.attempt < AttemptLimit(e)
    BY <1>2 DEF SendsAgain
  <2>3. call.attempt + 1 <= RetryAttempts \/ call.attempt + 1 <= ConnectAttempts
    BY <1>0, <2>2 DEF AttemptLimit, CallType
  <2>4. e \notin Answered
    BY <2>2 DEF Transient, Uncertain, Answered
  <2> DEFINE n == call.attempt + 1
  <2>5. n \in Nat \ {0} /\ (n <= RetryAttempts \/ n <= ConnectAttempts)
    BY <1>0, <2>3 DEF CallType
  <2>6. call' = [call EXCEPT !.state = "reserving", !.attempt = n]
    BY <2>1
  <2> HIDE DEF n, e
  <2> QED
    BY <1>0, <2>4, <2>5, <2>6 DEF CallType, e
<1>3. CASE e # "answered" /\ ~SendsAgain(e) /\ SwitchesMode(e)
  <2>1. call' = [call EXCEPT !.state = "reserving", !.attempt = 1, !.mode = @ + 1]
    BY <1>3 DEF Close
  <2>2. e \in Transient /\ call.mode < Len(client.modes)
    BY <1>3 DEF SwitchesMode
  <2>3. e \notin Answered
    BY <2>2 DEF Transient, Uncertain, Answered
  <2> DEFINE n == call.mode + 1
  <2>4. n \in Nat \ {0} /\ n <= Len(client.modes)
    BY <1>0, <2>2 DEF CallType
  <2> DEFINE one == 1
  <2>5. call' = [call EXCEPT !.state = "reserving", !.attempt = one, !.mode = n]
    BY <2>1
  <2>6. one \in Nat \ {0} /\ one <= RetryAttempts
    OBVIOUS
  <2> HIDE DEF one, n, e
  <2> QED
    BY <1>0, <2>3, <2>4, <2>5, <2>6 DEF CallType, e
<1>4. CASE e # "answered" /\ ~SendsAgain(e) /\ ~SwitchesMode(e) /\ e = "format_rejected" /\ ~call.plain
  <2>1. call' = [call EXCEPT !.state = "reserving", !.attempt = 1, !.mode = 1, !.plain = TRUE]
    BY <1>4 DEF Close
  <2> DEFINE yes == TRUE
  <2> DEFINE one == 1
  <2>2. yes \in BOOLEAN /\ call' = [call EXCEPT !.state = "reserving", !.attempt = one, !.mode = one, !.plain = yes]
    BY <2>1
  <2>4. one \in Nat \ {0} /\ one <= RetryAttempts /\ one <= Len(client.modes)
    BY <1>0
  <2>3. e \notin Answered
    BY <1>4 DEF Answered
  <2> HIDE DEF yes, one, e
  <2> QED
    BY <1>0, <2>2, <2>3, <2>4 DEF CallType, e
<1>5. CASE e # "answered" /\ ~SendsAgain(e) /\ ~SwitchesMode(e) /\ ~(e = "format_rejected" /\ ~call.plain)
  <2>1. call' = [call EXCEPT !.state = "failed"]
    BY <1>5 DEF Close
  <2> QED
    BY <1>0, <1>5, <2>1 DEF CallType
<1> QED
  BY <1>1, <1>2, <1>3, <1>4, <1>5

LEMMA CloseKeeps == ASSUME Requests, Close, UNCHANGED pc PROVE Requests'
<1>1. ledger' = Closed(call.end) /\ client' = client /\ exposed' = exposed /\ call.state = "closing"
  BY DEF Close
<1>2. CallTypeOK'
  BY <1>1, CloseCases, ClosedLedger DEF Requests, CallTypeOK, LedgerType, CallType
<1>3. Settles' /\ Gated'
  BY <1>1, CloseCases, ClosedLedger DEF Requests, Settles, Gated
<1>4. Recorded'
  <2>1. pc \notin Stopped
    BY <1>1 DEF Requests, Gated, Gate, LlmPurposes, Stopped
  <2> QED
    BY <1>1, <2>1, ClosedLedger DEF Requests, Recorded
<1> QED
  BY <1>2, <1>3, <1>4 DEF Requests

LEMMA InterruptKeeps == ASSUME Requests, Interrupt PROVE Requests'
<1> USE TaskAssumption, NoneAssumption
<1>1. /\ call' = [purpose |-> None, state |-> "idle", mode |-> 1, attempt |-> 1, plain |-> FALSE, end |-> None]
      /\ ledger' = [ledger EXCEPT !.reserved = None, !.doubts = @ \cup {"unbounded"}]
      /\ client' = client /\ exposed' \in BOOLEAN
  BY DEF Interrupt, Cancelled, Idle, Requests, CallTypeOK
<1>2. client \in Clients /\ ledger \in LedgerType /\ ledger' \in LedgerType /\ "unbounded" \in ledger'.doubts
  BY <1>1 DEF Requests, CallTypeOK, LedgerType
<1>3. CallTypeOK'
  <2>1. call' \in CallType
    BY <1>1 DEF CallType
  <2>2. call'.mode <= Len(client.modes) /\ call'.attempt <= RetryAttempts /\ call'.state \notin {"sent", "closing"}
    BY <1>1, <1>2, HasMode, AttemptsAssumption
  <2> QED
    BY <1>1, <1>2, <2>1, <2>2 DEF CallTypeOK, LedgerType, CallType
<1>4. Settles' /\ Gated'
  <2>1. call'.end \notin Answered /\ call'.state = "idle"
    BY <1>1 DEF Answered, Ends, Answers
  <2> QED
    BY <2>1 DEF Settles, Gated
<1>5. Recorded'
  BY <1>2 DEF Recorded
<1> QED
  BY <1>3, <1>4, <1>5 DEF Requests

LEMMA CallNextKeeps == ASSUME Requests, CallNext, UNCHANGED taskVars PROVE Requests'
<1> pc' = pc
  BY DEF taskVars
<1> QED
  BY ReserveKeeps, RefusedKeeps, CloseKeeps, EndedKeeps DEF CallNext

\* The gates and writes at which a step of the task leaves the request alone.
LEMMA QuietStep ==
  ASSUME Requests,
         \/ SavePlan \/ Approve \/ ProposalStands \/ SaveProposal \/ JudgeProposal \/ PatchStands
         \/ RejectPatch \/ Capture \/ Index \/ SaveApplied \/ \E f \in Files : WriteFile(f)
         \/ \E restored \in SUBSET Files : WriteFails(restored)
         \/ ReviewStands \/ RepairReviewStands \/ \E valid \in BOOLEAN : Validate(valid) \/ ValidateRepair(valid)
         \/ Verify \/ Project \/ Conclude \/ SaveRepair \/ Finish
  PROVE  call.state = "idle" /\ pc \notin Stopped /\ UNCHANGED callVars
<1> USE DEF Quiet, At, Stopped, Gate, LlmPurposes
<1>0. call.state = "idle" \/ pc \in {"plan", "propose", "review", "repair", "repairReview"}
  BY DEF Requests, Gated
<1>1. CASE SavePlan \/ Approve \/ ProposalStands \/ SaveProposal \/ JudgeProposal \/ PatchStands
  BY <1>0, <1>1 DEF SavePlan, Approve, ProposalStands, SaveProposal, JudgeProposal, PatchStands
<1>2. CASE RejectPatch \/ Capture \/ Index \/ SaveApplied \/ \E f \in Files : WriteFile(f)
  BY <1>0, <1>2 DEF RejectPatch, Applying, Capture, Index, SaveApplied, WriteFile
<1>3. CASE \E restored \in SUBSET Files : WriteFails(restored)
  BY <1>0, <1>3 DEF WriteFails
<1>4. CASE ReviewStands \/ RepairReviewStands \/ \E valid \in BOOLEAN : Validate(valid) \/ ValidateRepair(valid)
  BY <1>0, <1>4 DEF ReviewStands, RepairReviewStands, Validate, ValidateRepair
<1>5. CASE Verify \/ Project \/ Conclude \/ SaveRepair \/ Finish
  BY <1>0, <1>5 DEF Verify, Project, Conclude, SaveRepair, Finish
<1> QED
  BY <1>1, <1>2, <1>3, <1>4, <1>5

LEMMA AskStep ==
  ASSUME AskPlan \/ AskProposal \/ AskReview \/ AskRepair
  PROVE  pc \notin Stopped /\ \E p \in LlmPurposes : Ask(p) /\ pc' = Gate[p]
<1> USE DEF At, Asks, Stopped, Gate, LlmPurposes, taskVars
<1>1. CASE AskPlan
  BY <1>1 DEF AskPlan
<1>2. CASE AskProposal
  BY <1>2 DEF AskProposal
<1>3. CASE AskReview
  BY <1>3 DEF AskReview
<1>4. CASE AskRepair
  BY <1>4 DEF AskRepair
<1> QED
  BY <1>1, <1>2, <1>3, <1>4

LEMMA DropStep ==
  ASSUME \/ WritePlan \/ PlanFails \/ RequestFails \/ Stop
         \/ \E k \in Kinds : WriteProposal(k) \/ WriteRepair(k)
         \/ \E s \in {"passed", "failed"} : WriteReview(s)
  PROVE  Dropped /\ pc \notin Stopped /\ (call.state \in {"idle", "answered", "failed"} \/ pc' \in Stopped)
<1> USE DEF Stopped
<1>1. CASE WritePlan \/ PlanFails \/ RequestFails
  BY <1>1 DEF WritePlan, PlanFails, RequestFails
<1>2. CASE Stop
  BY <1>2 DEF Stop
<1>3. CASE \E k \in Kinds : WriteProposal(k) \/ WriteRepair(k)
  BY <1>3 DEF WriteProposal, WriteRepair
<1>4. CASE \E s \in {"passed", "failed"} : WriteReview(s)
  BY <1>4 DEF WriteReview
<1> QED
  BY <1>1, <1>2, <1>3, <1>4

LEMMA ChargeStep ==
  ASSUME Requests, Launch \/ ProcessDoubtful \/ \E passed \in BOOLEAN : ProcessEnds(passed)
  PROVE  Charges /\ call.state = "idle" /\ pc \notin Stopped
<1> USE TaskAssumption DEF Charges, Stopped, Requests, CallTypeOK, Gated, Gate, LlmPurposes, LedgerType
<1>1. CASE Launch
  BY <1>1 DEF Launch
<1>2. CASE ProcessDoubtful
  BY <1>2 DEF ProcessDoubtful
<1>3. CASE \E passed \in BOOLEAN : ProcessEnds(passed)
  <2>1. PICK passed \in BOOLEAN : ProcessEnds(passed)
    BY <1>3
  <2>2. /\ pc = "running" /\ ledger' = [ledger EXCEPT !.reserved = None, !.settled = @ \cup {"local_process"}]
        /\ UNCHANGED <<client, call, exposed>>
    BY <2>1 DEF ProcessEnds
  <2> QED
    BY <2>2
<1> QED
  BY <1>1, <1>2, <1>3

LEMMA ResumeStep ==
  ASSUME Requests, Resume
  PROVE  /\ UNCHANGED callVars /\ call.state = "idle"
         /\ pc' \in Stopped \/ ledger.reserved = None
BY DEF Resume, Quiet, ResumeAllowed, Stopped, Requests, Gated, Gate, LlmPurposes

LEMMA QuietKeeps ==
  ASSUME Requests, UNCHANGED callVars, call.state = "idle",
         pc \notin Stopped \/ pc' \in Stopped \/ ledger.reserved = None
  PROVE  Requests'
<1>1. Charges /\ ledger' = ledger
  BY DEF Charges, callVars, Requests, CallTypeOK
<1> QED
  BY <1>1, ChargesKeep

LEMMA RequestsStep == ASSUME Requests, [Next]_vars PROVE Requests'
<1>1. CASE AskPlan \/ AskProposal \/ AskReview \/ AskRepair
  BY <1>1, AskStep, AskKeeps
<1>2. CASE \/ WritePlan \/ PlanFails \/ RequestFails \/ Stop
           \/ \E k \in Kinds : WriteProposal(k) \/ WriteRepair(k)
           \/ \E s \in {"passed", "failed"} : WriteReview(s)
  BY <1>2, DropStep, DroppedKeeps
<1>3. CASE Launch \/ ProcessDoubtful \/ \E passed \in BOOLEAN : ProcessEnds(passed)
  BY <1>3, ChargeStep, ChargesKeep
<1>4. CASE \/ SavePlan \/ Approve \/ ProposalStands \/ SaveProposal \/ JudgeProposal \/ PatchStands
           \/ RejectPatch \/ Capture \/ Index \/ SaveApplied \/ \E f \in Files : WriteFile(f)
           \/ \E restored \in SUBSET Files : WriteFails(restored)
           \/ ReviewStands \/ RepairReviewStands \/ \E valid \in BOOLEAN : Validate(valid) \/ ValidateRepair(valid)
           \/ Verify \/ Project \/ Conclude \/ SaveRepair \/ Finish
  BY <1>4, QuietStep, QuietKeeps
<1>5. CASE Resume
  BY <1>5, ResumeStep, QuietKeeps
<1>6. CASE Interrupt
  BY <1>6, InterruptKeeps
<1>7. CASE CallNext /\ UNCHANGED taskVars
  BY <1>7, CallNextKeeps
<1>8. CASE UNCHANGED vars
  BY <1>8 DEF vars, callVars, taskVars, Requests, CallTypeOK, Settles, Gated, Recorded, CallType, LedgerType
<1> QED
  BY <1>1, <1>2, <1>3, <1>4, <1>5, <1>6, <1>7, <1>8 DEF Next, TaskNext

LEMMA RequestsInit == Init => Requests
<1> SUFFICES ASSUME Init PROVE Requests
  OBVIOUS
<1> USE TaskAssumption, NoneAssumption
<1>1. /\ call = [purpose |-> None, state |-> "idle", mode |-> 1, attempt |-> 1, plain |-> FALSE, end |-> None]
      /\ ledger = [reserved |-> None, settled |-> {}, doubts |-> {}]
      /\ client \in Clients /\ exposed = FALSE
  BY DEF Init, CallInit, Idle
<1>2. call \in CallType /\ ledger \in LedgerType
  BY <1>1 DEF CallType, LedgerType
<1>3. CallTypeOK
  <2>1. call.mode <= Len(client.modes) /\ call.attempt <= RetryAttempts /\ call.state \notin {"sent", "closing"}
    BY <1>1, HasMode, AttemptsAssumption
  <2>2. client \in Clients /\ exposed \in BOOLEAN
    BY <1>1
  <2> QED
    BY <1>2, <2>1, <2>2 DEF CallTypeOK
<1>4. Settles /\ Gated /\ Recorded
  <2>1. call.end \notin Answered
    BY <1>1 DEF Answered, Ends, Answers
  <2> QED
    BY <1>1, <2>1 DEF Settles, Gated, Recorded
<1> QED
  BY <1>3, <1>4 DEF Requests

LEMMA RequestsAlways == Spec => []Requests
<1>1. Init => Requests
  BY RequestsInit
<1>2. Requests /\ [Next]_vars => Requests'
  BY RequestsStep
<1> QED
  BY <1>1, <1>2, PTL DEF Spec

\* Only the ledger's admission sends a request.
LEMMA SentByReserve ==
  ASSUME Requests, [Next]_vars, call.state = "reserving", call'.state = "sent"
  PROVE  Admitted
<1>1. CASE AskPlan \/ AskProposal \/ AskReview \/ AskRepair
  BY <1>1, AskStep DEF Ask
<1>2. CASE \/ WritePlan \/ PlanFails \/ RequestFails \/ Stop
           \/ \E k \in Kinds : WriteProposal(k) \/ WriteRepair(k)
           \/ \E s \in {"passed", "failed"} : WriteReview(s)
  BY <1>2, DropStep DEF Dropped, Idle
<1>3. CASE Launch \/ ProcessDoubtful \/ \E passed \in BOOLEAN : ProcessEnds(passed)
  BY <1>3, ChargeStep
<1>4. CASE \/ SavePlan \/ Approve \/ ProposalStands \/ SaveProposal \/ JudgeProposal \/ PatchStands
           \/ RejectPatch \/ Capture \/ Index \/ SaveApplied \/ \E f \in Files : WriteFile(f)
           \/ \E restored \in SUBSET Files : WriteFails(restored)
           \/ ReviewStands \/ RepairReviewStands \/ \E valid \in BOOLEAN : Validate(valid) \/ ValidateRepair(valid)
           \/ Verify \/ Project \/ Conclude \/ SaveRepair \/ Finish
  BY <1>4, QuietStep
<1>5. CASE Resume
  BY <1>5, ResumeStep
<1>6. CASE Interrupt
  BY <1>6 DEF Interrupt, Cancelled
<1>7. CASE CallNext /\ UNCHANGED taskVars
  <2>1. ~ReserveRefused
    BY DEF ReserveRefused, Requests, CallTypeOK, CallType
  <2>2. ~Close /\ ~\E e \in Ends : Ended(e)
    BY DEF Close, Ended
  <2> QED
    BY <1>7, <2>1, <2>2 DEF CallNext, Reserve
<1>8. CASE UNCHANGED vars
  BY <1>8 DEF vars, callVars
<1> QED
  BY <1>1, <1>2, <1>3, <1>4, <1>5, <1>6, <1>7, <1>8 DEF Next, TaskNext

\* Whatever the connections, the retry counts and the number of resumed calls,
\* no request of a limited session leaves once a use without a bound may have
\* happened (_reserve_budget, _reconcile_failed_budget_attempt).
THEOREM UncoveredIsNotSent == Spec => NothingSentUncovered
<1>1. Requests /\ [Next]_vars => [call.state = "reserving" /\ call'.state = "sent" => ~(client.limited /\ exposed)]_callVars
  <2> SUFFICES ASSUME Requests, [Next]_vars, call.state = "reserving", call'.state = "sent"
               PROVE  ~(client.limited /\ exposed)
    OBVIOUS
  <2>1. Admitted
    BY SentByReserve
  <2>2. pc \notin Stopped
    BY DEF Requests, Gated, Gate, LlmPurposes, Stopped
  <2> QED
    BY <2>1, <2>2 DEF Admitted, Requests, Recorded
<1> QED
  BY <1>1, RequestsAlways, PTL DEF Spec, NothingSentUncovered

----------------------------------------------------------------------------
(* Types.  What a gate knows about the run directory is in Control; the     *)
(* content of a file only grows with the proposals written so far.          *)

ContentsOf(n) == [Files -> Seq(1..n)]

ManifestType ==
  [plan : {"none", "pending_approval", "approved"}, patch : {"none", "edits_proposed", "applied"},
   repair : [status : {"none", "repair_proposed", "repair_applied"}, count : 0..MaxRepairs, proposal : Proposals]]

Receipts(n) == [content : ContentsOf(n), passed : BOOLEAN, projected : BOOLEAN]
Reports(n) == [content : ContentsOf(n), passed : BOOLEAN]

DiskType(n) ==
  [plan : BOOLEAN, proposal : Proposals, index : ContentsOf(n),
   findings : SUBSET {"validation-failed", "budget-rejected", "recovery-completed"},
   review : {"none", "passed", "failed"}, repairReview : {"none", "passed", "failed"},
   receipt : {None} \cup Receipts(n), report : {None} \cup Reports(n),
   result : {"none", "validated", "incomplete"}, written : Nat]

WorkType(n) ==
  [corrected : BOOLEAN, repairing : BOOLEAN, recovery : BOOLEAN, proposal : Proposals,
   before : ContentsOf(n), todo : SUBSET Files, passed : BOOLEAN]

HistoryType ==
  [kept : SUBSET LlmPurposes, lost : SUBSET LlmPurposes, torn : BOOLEAN, reviewed : SUBSET Nat, later : SUBSET Nat]

Typed ==
  /\ manifest \in ManifestType
  /\ disk \in DiskType(disk.written)
  /\ workspace \in ContentsOf(disk.written)
  /\ work \in WorkType(disk.written)
  /\ history \in HistoryType
  /\ resumes \in 0..MaxResumes

\* A proposal with edits has a number of its own.
Numbered(p) == p.kind \in Edits => p.id \in 1..disk.written

Numbers ==
  /\ Numbered(disk.proposal) /\ Numbered(work.proposal) /\ Numbered(manifest.repair.proposal)
  /\ pc = "write" => work.proposal.kind \in Edits

LEMMA Grows ==
  ASSUME NEW n \in Nat, NEW m \in Nat, n <= m
  PROVE  /\ ContentsOf(n) \subseteq ContentsOf(m)
         /\ DiskType(n) \subseteq DiskType(m)
         /\ WorkType(n) \subseteq WorkType(m)
<1>1. ContentsOf(n) \subseteq ContentsOf(m)
  <2>1. 1..n \subseteq 1..m
    OBVIOUS
  <2>2. Seq(1..n) \subseteq Seq(1..m)
    BY <2>1, SeqMonotonic
  <2> QED
    BY <2>2 DEF ContentsOf
<1>2. DiskType(n) \subseteq DiskType(m)
  BY <1>1 DEF DiskType, Receipts, Reports
<1>3. WorkType(n) \subseteq WorkType(m)
  BY <1>1 DEF WorkType
<1> QED
  BY <1>1, <1>2, <1>3

\* Who writes what.
ManifestSteps == SavePlan \/ Approve \/ SaveProposal \/ SaveApplied \/ SaveRepair

DiskSteps ==
  \/ WritePlan \/ \E k \in Kinds : WriteProposal(k) \/ WriteRepair(k)
  \/ JudgeProposal \/ RejectPatch \/ Index \/ \E s \in {"passed", "failed"} : WriteReview(s)
  \/ \E passed \in BOOLEAN : ProcessEnds(passed)
  \/ Project \/ Finish

WorkspaceSteps == (\E f \in Files : WriteFile(f)) \/ \E restored \in SUBSET Files : WriteFails(restored)

WorkSteps ==
  \/ PlanFails \/ AskProposal \/ ProposalStands \/ JudgeProposal \/ RejectPatch \/ Capture \/ ReviewStands
  \/ \E f \in Files : WriteFile(f)
  \/ \E valid \in BOOLEAN : Validate(valid)
  \/ Verify \/ Conclude \/ \E k \in Kinds : WriteRepair(k)
  \/ SaveRepair \/ Resume

HistorySteps ==
  \/ SavePlan \/ \E k \in Kinds : WriteProposal(k)
  \/ RequestFails \/ RejectPatch \/ \E restored \in SUBSET Files : WriteFails(restored)
  \/ RepairReviewStands \/ \E s \in {"passed", "failed"} : WriteReview(s)
  \/ \E valid \in BOOLEAN : ValidateRepair(valid)
  \/ Verify \/ ProcessDoubtful \/ SaveRepair \/ Stop

LEMMA Writers ==
  ASSUME [Next]_vars
  PROVE  /\ manifest' = manifest \/ ManifestSteps
         /\ disk' = disk \/ DiskSteps
         /\ workspace' = workspace \/ WorkspaceSteps
         /\ work' = work \/ WorkSteps
         /\ history' = history \/ HistorySteps
         /\ resumes' = resumes \/ Resume
<1> USE DEF ManifestSteps, DiskSteps, WorkspaceSteps, WorkSteps, HistorySteps
<1>1. CASE AskPlan \/ AskProposal \/ AskReview \/ AskRepair
  BY <1>1 DEF AskPlan, AskProposal, AskReview, AskRepair, Asks, taskVars
<1>2. CASE WritePlan \/ PlanFails \/ RequestFails \/ Stop
  BY <1>2 DEF WritePlan, PlanFails, RequestFails, Stop, Raise
<1>3. CASE \E k \in Kinds : WriteProposal(k) \/ WriteRepair(k)
  BY <1>3 DEF WriteProposal, WriteRepair
<1>4. CASE \E s \in {"passed", "failed"} : WriteReview(s)
  BY <1>4 DEF WriteReview
<1>5. CASE Launch \/ ProcessDoubtful \/ \E passed \in BOOLEAN : ProcessEnds(passed)
  BY <1>5 DEF Launch, ProcessDoubtful, ProcessEnds
<1>6. CASE SavePlan \/ Approve \/ ProposalStands \/ SaveProposal \/ JudgeProposal \/ PatchStands
  BY <1>6 DEF SavePlan, Approve, ProposalStands, SaveProposal, JudgeProposal, PatchStands
<1>7. CASE RejectPatch \/ Capture \/ Index \/ SaveApplied \/ \E f \in Files : WriteFile(f)
  BY <1>7 DEF RejectPatch, Applying, Capture, Index, SaveApplied, WriteFile
<1>8. CASE \E restored \in SUBSET Files : WriteFails(restored)
  BY <1>8 DEF WriteFails
<1>9. CASE ReviewStands \/ RepairReviewStands \/ \E valid \in BOOLEAN : Validate(valid) \/ ValidateRepair(valid)
  BY <1>9 DEF ReviewStands, RepairReviewStands, Validate, ValidateRepair
<1>10. CASE Verify \/ Project \/ Conclude \/ SaveRepair \/ Finish
  BY <1>10 DEF Verify, Project, Conclude, SaveRepair, Finish
<1>11. CASE Resume \/ Interrupt
  BY <1>11 DEF Resume, Interrupt
<1>12. CASE (CallNext /\ UNCHANGED taskVars) \/ UNCHANGED vars
  BY <1>12 DEF taskVars, vars
<1> QED
  BY <1>1, <1>2, <1>3, <1>4, <1>5, <1>6, <1>7, <1>8, <1>9, <1>10, <1>11, <1>12 DEF Next, TaskNext

Unplanned == {"plan", "planned", "finish"} \cup Stopped
Patching == {"apply", "write", "indexed"}
Patched == {"review", "repairReview", "validate", "repairValidate", "verify", "loop", "running", "project",
            "judged", "repair", "repairWritten"}

\* What the gates know.
PlanControl ==
  /\ pc \notin Unplanned => manifest.plan = "approved"
  /\ pc = "planned" \/ (pc = "plan" /\ call.state # "idle") => manifest.plan = "none"
  /\ manifest.plan = "approved" \/ (manifest.patch = "none" /\ disk.proposal = NoProposal)

PatchControl ==
  /\ pc \in Patched \/ (pc \in Patching /\ work.repairing) => manifest.patch = "applied"
  /\ pc \in {"proposed", "judge"} \/ (pc = "propose" /\ call.state # "idle") => manifest.patch # "applied"
  /\ manifest.patch = "applied" \/ (disk.report = None /\ ledger.reserved # "local_process")

LoopControl ==
  /\ pc \in {"repair", "repairWritten"} => manifest.repair.count < MaxRepairs
  /\ pc = "project" => disk.receipt \in Receipts(disk.written)
  /\ pc = "judged" => disk.report \in Reports(disk.written)

IInv == Requests /\ Typed /\ Numbers /\ PlanControl /\ PatchControl /\ LoopControl

LEMMA ManifestStep == ASSUME IInv, ManifestSteps PROVE manifest' \in ManifestType
<1> USE TaskAssumption DEF Typed
<1>0. manifest \in ManifestType
  BY DEF IInv
<1>1. CASE SavePlan
  BY <1>0, <1>1 DEF SavePlan, ManifestType
<1>2. CASE Approve
  BY <1>0, <1>2 DEF Approve, ManifestType
<1>3. CASE SaveProposal
  BY <1>0, <1>3 DEF SaveProposal, ManifestType
<1>4. CASE SaveApplied
  <2> DEFINE status == IF work.repairing THEN "repair_applied" ELSE manifest.repair.status
             repair == [manifest.repair EXCEPT !.status = status]
  <2>1. manifest' = [manifest EXCEPT !.patch = "applied", !.repair = repair]
    BY <1>4 DEF SaveApplied
  <2>2. status \in {"none", "repair_proposed", "repair_applied"}
    BY <1>0 DEF ManifestType
  <2> HIDE DEF status
  <2>3. repair \in [status : {"none", "repair_proposed", "repair_applied"}, count : 0..MaxRepairs, proposal : Proposals]
    BY <1>0, <2>2 DEF ManifestType
  <2> HIDE DEF repair
  <2> QED
    BY <1>0, <2>1, <2>3 DEF ManifestType
<1>5. CASE SaveRepair
  <2> DEFINE n == manifest.repair.count + 1
             repair == [status |-> "repair_proposed", count |-> n, proposal |-> work.proposal]
  <2>1. manifest' = [manifest EXCEPT !.repair = repair]
    BY <1>5 DEF SaveRepair
  <2>2. n \in 0..MaxRepairs
    <3>1. manifest.repair.count \in 0..MaxRepairs /\ manifest.repair.count < MaxRepairs
      BY <1>0, <1>5 DEF SaveRepair, IInv, LoopControl, ManifestType
    <3> QED
      BY <3>1
  <2> HIDE DEF n
  <2>3. work.proposal \in Proposals
    BY DEF IInv, WorkType
  <2>4. repair \in [status : {"none", "repair_proposed", "repair_applied"}, count : 0..MaxRepairs, proposal : Proposals]
    BY <2>2, <2>3
  <2> HIDE DEF repair
  <2> QED
    BY <1>0, <2>1, <2>4 DEF ManifestType
<1> QED
  BY <1>1, <1>2, <1>3, <1>4, <1>5 DEF ManifestSteps

LEMMA NewIsProposal ==
  ASSUME disk.written \in Nat, NEW k \in Kinds
  PROVE  /\ NewProposal(k) \in Proposals
         /\ NewProposal(k).kind = k /\ NewProposal(k).id \in 1..(disk.written + 1)
<1> USE DEF NewProposal, Proposals
<1>1. disk.written + 1 \in Nat /\ disk.written + 1 \in 1..(disk.written + 1)
  OBVIOUS
<1> QED
  BY <1>1

LEMMA WriterStep ==
  ASSUME IInv, NEW k \in Kinds, WriteProposal(k) \/ WriteRepair(k)
  PROVE  disk'.written = disk.written + 1 /\ disk' \in DiskType(disk.written + 1)
<1> DEFINE n == disk.written + 1
<1>0. disk.written \in Nat /\ disk \in DiskType(disk.written)
  BY DEF IInv, Typed, DiskType
<1>1. n \in Nat /\ disk \in DiskType(n)
  <2>1. disk.written + 1 \in Nat /\ disk.written <= disk.written + 1
    BY <1>0
  <2> QED
    BY <1>0, <2>1, Grows
<1> DEFINE p == NewProposal(k)
<1>2. p \in Proposals
  BY <1>0, NewIsProposal
<1>3. disk' = [disk EXCEPT !.proposal = p, !.written = n] \/ disk' = [disk EXCEPT !.written = n]
  BY DEF WriteProposal, WriteRepair
<1> HIDE DEF n, p
<1>4. disk'.written = n
  BY <1>1, <1>3 DEF DiskType
<1>5. disk' \in DiskType(n)
  BY <1>1, <1>2, <1>3 DEF DiskType
<1> QED
  BY <1>4, <1>5 DEF n

LEMMA SmallDiskSteps ==
  ASSUME IInv, \/ WritePlan \/ JudgeProposal \/ RejectPatch \/ Index
               \/ \E s \in {"passed", "failed"} : WriteReview(s)
               \/ \E passed \in BOOLEAN : ProcessEnds(passed)
               \/ Project \/ Finish
  PROVE  disk'.written = disk.written /\ disk' \in DiskType(disk.written)
<1> DEFINE n == disk.written
<1>0. disk.written \in Nat /\ disk \in DiskType(n) /\ workspace \in ContentsOf(n)
  BY DEF IInv, Typed, DiskType
<1> HIDE DEF n
<1> SUFFICES disk'.written = disk.written /\ disk' \in DiskType(n)
  BY DEF n
<1>1. CASE WritePlan
  <2> DEFINE yes == TRUE
  <2>1. disk' = [disk EXCEPT !.plan = yes] /\ yes \in BOOLEAN
    BY <1>1 DEF WritePlan
  <2> HIDE DEF yes
  <2> QED
    BY <1>0, <2>1 DEF DiskType
<1>2. CASE JudgeProposal
  <2> DEFINE more == (IF work.recovery THEN {"recovery-completed"} ELSE {})
                       \cup (IF disk.proposal.kind = "oversized" THEN {"budget-rejected"} ELSE {})
  <2>1. disk' = [disk EXCEPT !.findings = disk.findings \cup more]
    BY <1>2 DEF JudgeProposal
  <2>2. more \subseteq {"validation-failed", "budget-rejected", "recovery-completed"}
    OBVIOUS
  <2> HIDE DEF more
  <2> QED
    BY <1>0, <2>1, <2>2 DEF DiskType
<1>3. CASE RejectPatch
  <2>1. disk' = disk \/ disk' = [disk EXCEPT !.findings = disk.findings \cup {"validation-failed"}]
    BY <1>3 DEF RejectPatch
  <2> QED
    BY <1>0, <2>1 DEF DiskType
<1>4. CASE Index
  <2>1. disk' = [disk EXCEPT !.index = workspace]
    BY <1>4 DEF Index
  <2> QED
    BY <1>0, <2>1 DEF DiskType
<1>5. CASE \E s \in {"passed", "failed"} : WriteReview(s)
  <2>1. PICK s \in {"passed", "failed"} : WriteReview(s)
    BY <1>5
  <2>2. disk' = [disk EXCEPT !.review = s] \/ disk' = [disk EXCEPT !.repairReview = s]
    BY <2>1 DEF WriteReview
  <2> QED
    BY <1>0, <2>2 DEF DiskType
<1>6. CASE \E passed \in BOOLEAN : ProcessEnds(passed)
  <2>1. PICK passed \in BOOLEAN : ProcessEnds(passed)
    BY <1>6
  <2> DEFINE no == FALSE
             receipt == [content |-> workspace, passed |-> passed, projected |-> no]
  <2>2. disk' = [disk EXCEPT !.receipt = receipt] /\ no \in BOOLEAN
    BY <2>1 DEF ProcessEnds
  <2> HIDE DEF no
  <2>3. receipt \in Receipts(n)
    BY <1>0, <2>2 DEF Receipts
  <2> HIDE DEF receipt
  <2> QED
    BY <1>0, <2>2, <2>3 DEF DiskType
<1>7. CASE Project
  <2>1. disk.receipt \in Receipts(n)
    BY <1>7 DEF Project, IInv, LoopControl, n
  <2> DEFINE yes == TRUE
             receipt == [disk.receipt EXCEPT !.projected = yes]
             report == [content |-> workspace, passed |-> disk.receipt.passed]
  <2>2. disk' = [disk EXCEPT !.receipt = receipt, !.report = report] /\ yes \in BOOLEAN
    BY <1>7 DEF Project
  <2> HIDE DEF yes
  <2>3. receipt \in Receipts(n)
    BY <2>1, <2>2 DEF Receipts
  <2>4. report \in Reports(n)
    BY <1>0, <2>1 DEF Receipts, Reports
  <2> HIDE DEF receipt, report
  <2> QED
    BY <1>0, <2>2, <2>3, <2>4 DEF DiskType
<1>8. CASE Finish
  <2> DEFINE result == IF work.passed THEN "validated" ELSE "incomplete"
  <2>1. disk' = [disk EXCEPT !.result = result] /\ result \in {"none", "validated", "incomplete"}
    BY <1>8 DEF Finish
  <2> HIDE DEF result
  <2> QED
    BY <1>0, <2>1 DEF DiskType
<1> QED
  BY <1>1, <1>2, <1>3, <1>4, <1>5, <1>6, <1>7, <1>8

LEMMA DiskStep ==
  ASSUME IInv, [Next]_vars
  PROVE  /\ disk'.written \in Nat /\ disk.written \in Nat /\ disk.written <= disk'.written
         /\ disk' \in DiskType(disk'.written)
<1>0. disk.written \in Nat /\ disk \in DiskType(disk.written)
  BY DEF IInv, Typed, DiskType
<1>1. CASE disk' = disk
  BY <1>0, <1>1
<1>2. CASE \E k \in Kinds : WriteProposal(k) \/ WriteRepair(k)
  <2>1. disk'.written = disk.written + 1 /\ disk' \in DiskType(disk.written + 1)
    BY <1>2, WriterStep
  <2> QED
    BY <1>0, <2>1
<1>3. CASE \/ WritePlan \/ JudgeProposal \/ RejectPatch \/ Index
           \/ \E s \in {"passed", "failed"} : WriteReview(s)
           \/ \E passed \in BOOLEAN : ProcessEnds(passed)
           \/ Project \/ Finish
  <2>1. disk'.written = disk.written /\ disk' \in DiskType(disk.written)
    BY <1>3, SmallDiskSteps
  <2> QED
    BY <1>0, <2>1
<1> QED
  BY <1>1, <1>2, <1>3, Writers DEF DiskSteps

LEMMA WorkspaceStep == ASSUME IInv, WorkspaceSteps PROVE workspace' \in ContentsOf(disk.written)
<1>0. /\ disk.written \in Nat /\ workspace \in ContentsOf(disk.written)
      /\ work.before \in ContentsOf(disk.written)
  BY DEF IInv, Typed, DiskType, WorkType
<1>1. CASE \E f \in Files : WriteFile(f)
  <2>1. PICK f \in Files : WriteFile(f)
    BY <1>1
  <2>2. work.proposal.id \in 1..disk.written
    BY <2>1 DEF WriteFile, IInv, Numbers, Numbered
  <2>3. workspace[f] \in Seq(1..disk.written)
    BY <1>0 DEF ContentsOf
  <2>4. Append(workspace[f], work.proposal.id) \in Seq(1..disk.written)
    BY <2>2, <2>3, AppendProperties
  <2>5. workspace' = [workspace EXCEPT ![f] = Append(workspace[f], work.proposal.id)]
    BY <2>1 DEF WriteFile
  <2> QED
    BY <1>0, <2>4, <2>5 DEF ContentsOf
<1>2. CASE \E restored \in SUBSET Files : WriteFails(restored)
  <2>1. PICK restored \in SUBSET Files : WriteFails(restored)
    BY <1>2
  <2>2. workspace' = [f \in Files |-> IF f \in restored THEN work.before[f] ELSE workspace[f]]
    BY <2>1 DEF WriteFails
  <2> QED
    BY <1>0, <2>2 DEF ContentsOf
<1> QED
  BY <1>1, <1>2 DEF WorkspaceSteps

\* A local of the call that is set to a constant.
LEMMA WorkUpdates ==
  ASSUME NEW n \in Nat, NEW w \in WorkType(n), NEW b \in BOOLEAN, NEW p \in Proposals,
         NEW c \in ContentsOf(n), NEW t \in SUBSET Files
  PROVE  /\ [w EXCEPT !.corrected = b] \in WorkType(n)
         /\ [w EXCEPT !.passed = b] \in WorkType(n)
         /\ [w EXCEPT !.recovery = b] \in WorkType(n)
         /\ [w EXCEPT !.proposal = p, !.repairing = b] \in WorkType(n)
         /\ [w EXCEPT !.before = c, !.todo = t] \in WorkType(n)
         /\ [w EXCEPT !.todo = t] \in WorkType(n)
BY DEF WorkType

LEMMA WorkStep == ASSUME IInv, WorkSteps PROVE work' \in WorkType(disk'.written)
<1> DEFINE n == disk.written
<1>0. /\ n \in Nat /\ work \in WorkType(n) /\ workspace \in ContentsOf(n)
      /\ disk.proposal \in Proposals /\ manifest.repair.proposal \in Proposals
      /\ TRUE \in BOOLEAN /\ FALSE \in BOOLEAN
  BY DEF IInv, Typed, DiskType, ManifestType
<1> HIDE DEF n
<1>1. CASE \/ PlanFails \/ ReviewStands \/ \E valid \in BOOLEAN : Validate(valid)
           \/ SaveRepair
  <2>1. work' \in {work, [work EXCEPT !.corrected = TRUE], [work EXCEPT !.passed = FALSE]}
    BY <1>1 DEF PlanFails, ReviewStands, Validate, SaveRepair, Returns
  <2>2. work' \in WorkType(n)
    BY <1>0, <2>1, WorkUpdates
  <2>3. disk' = disk
    BY <1>1 DEF PlanFails, ReviewStands, Validate, SaveRepair
  <2> QED
    BY <2>2, <2>3 DEF n
<1>2. CASE AskProposal
  <2>1. work' = [work EXCEPT !.recovery = (disk.proposal # NoProposal /\ Recovery)] /\ disk' = disk
    BY <1>2 DEF AskProposal
  <2> QED
    BY <1>0, <2>1, WorkUpdates DEF n
<1>3. CASE ProposalStands
  <2>1. work' = [work EXCEPT !.proposal = disk.proposal, !.repairing = FALSE] /\ disk' = disk
    BY <1>3 DEF ProposalStands
  <2> QED
    BY <1>0, <2>1, WorkUpdates DEF n
<1>4. CASE JudgeProposal
  <2>1. work' \in {work, [work EXCEPT !.corrected = TRUE], [work EXCEPT !.passed = FALSE],
                   [work EXCEPT !.proposal = disk.proposal, !.repairing = FALSE]}
    BY <1>4 DEF JudgeProposal, Returns
  <2>2. [work EXCEPT !.proposal = disk.proposal, !.repairing = FALSE] \in WorkType(n)
    BY <1>0, WorkUpdates
  <2>3. [work EXCEPT !.corrected = TRUE] \in WorkType(n) /\ [work EXCEPT !.passed = FALSE] \in WorkType(n)
    BY <1>0, WorkUpdates
  <2>4. disk'.written = n
    BY <1>4, SmallDiskSteps DEF n
  <2> QED
    BY <1>0, <2>1, <2>2, <2>3, <2>4
<1>5. CASE RejectPatch
  <2>1. work' \in {work, [work EXCEPT !.corrected = TRUE], [work EXCEPT !.passed = FALSE]}
    BY <1>5 DEF RejectPatch, Returns
  <2> QED
    BY <1>0, <1>5, <2>1, WorkUpdates, SmallDiskSteps DEF n
<1>6. CASE Capture
  <2>1. work' = [work EXCEPT !.before = workspace, !.todo = Files] /\ disk' = disk
    BY <1>6 DEF Capture
  <2> QED
    BY <1>0, <2>1, WorkUpdates DEF n
<1>7. CASE \E f \in Files : WriteFile(f)
  <2>1. PICK f \in Files : WriteFile(f)
    BY <1>7
  <2>2. work' = [work EXCEPT !.todo = work.todo \ {f}] /\ disk' = disk
    BY <2>1 DEF WriteFile
  <2>3. work.todo \ {f} \in SUBSET Files
    BY <1>0 DEF WorkType
  <2> QED
    BY <1>0, <2>2, <2>3, WorkUpdates DEF n
<1>8. CASE Verify
  <2>1. /\ work' \in {work, [work EXCEPT !.proposal = manifest.repair.proposal, !.repairing = TRUE]}
        /\ disk' = disk
    BY <1>8 DEF Verify, Follows
  <2>2. [work EXCEPT !.proposal = manifest.repair.proposal, !.repairing = TRUE] \in WorkType(n)
    BY <1>0, WorkUpdates
  <2> QED
    BY <1>0, <2>1, <2>2 DEF n
<1>9. CASE Conclude
  <2>1. work' = [work EXCEPT !.passed = disk.report.passed] /\ disk' = disk
    BY <1>9 DEF Conclude
  <2>2. disk.report.passed \in BOOLEAN
    BY <1>9 DEF Conclude, At, IInv, LoopControl, Reports
  <2> QED
    BY <1>0, <2>1, <2>2, WorkUpdates DEF n
<1>10. CASE \E k \in Kinds : WriteRepair(k)
  <2>1. PICK k \in Kinds : WriteRepair(k)
    BY <1>10
  <2>2. work' = [work EXCEPT !.proposal = NewProposal(k), !.repairing = TRUE]
    BY <2>1 DEF WriteRepair
  <2>3. NewProposal(k) \in Proposals
    BY <1>0, NewIsProposal DEF n
  <2>4. work' \in WorkType(n)
    BY <1>0, <2>2, <2>3, WorkUpdates
  <2>5. disk'.written = n + 1 /\ n + 1 \in Nat /\ n <= n + 1
    BY <1>0, <2>1, WriterStep DEF n
  <2> QED
    BY <1>0, <2>4, <2>5, Grows
<1>11. CASE Resume
  <2>1. work' \in {work, NoWork} /\ disk' = disk
    BY <1>11 DEF Resume
  <2>2. NoWork \in WorkType(n)
    <3>1. [f \in Files |-> <<>>] \in ContentsOf(n)
      <4>1. <<>> \in Seq(1..n)
        BY EmptySeq
      <4> QED
        BY <4>1 DEF ContentsOf
    <3>2. NoProposal \in Proposals
      BY DEF NoProposal, Proposals, Kinds
    <3> DEFINE empty == [f \in Files |-> <<>>]
               no == FALSE
    <3>3. /\ NoWork = [corrected |-> no, repairing |-> no, recovery |-> no, proposal |-> NoProposal,
                       before |-> empty, todo |-> {}, passed |-> no]
          /\ no \in BOOLEAN
      BY DEF NoWork
    <3> HIDE DEF empty, no
    <3> QED
      BY <3>1, <3>2, <3>3 DEF WorkType, empty
  <2> QED
    BY <1>0, <2>1, <2>2 DEF n
<1> QED
  BY <1>1, <1>2, <1>3, <1>4, <1>5, <1>6, <1>7, <1>8, <1>9, <1>10, <1>11 DEF WorkSteps

\* An answer that may be lost is one of the call's own.
LEMMA UnsavedIsAsked == ASSUME Requests PROVE Unsaved \subseteq LlmPurposes
<1> SUFFICES ASSUME NEW p \in Unsaved PROVE p \in LlmPurposes
  OBVIOUS
<1>1. (p = call.purpose /\ call.state \in {"answered", "failed"}) \/ p = "plan" \/ p = "repair"
  BY DEF Unsaved
<1> QED
  BY <1>1 DEF Requests, Gated, LlmPurposes

LEMMA LosingType == ASSUME IInv PROVE Losing \in HistoryType
<1> DEFINE lost == history.lost \cup (Unsaved \ history.kept)
           torn == history.torn \/ (pc = "indexed" /\ ~work.repairing)
<1>1. Losing = [history EXCEPT !.lost = lost, !.torn = torn]
  BY DEF Losing
<1>2. history \in HistoryType
  BY DEF IInv, Typed
<1>3. lost \in SUBSET LlmPurposes /\ torn \in BOOLEAN
  BY <1>2, UnsavedIsAsked DEF IInv, HistoryType
<1> HIDE DEF lost, torn
<1> QED
  BY <1>1, <1>2, <1>3 DEF HistoryType

\* The ones that may lose an answer, and the ones that save one.
LosingSteps ==
  \/ RequestFails \/ RejectPatch \/ \E restored \in SUBSET Files : WriteFails(restored)
  \/ RepairReviewStands \/ \E valid \in BOOLEAN : ValidateRepair(valid)
  \/ Verify \/ ProcessDoubtful \/ Stop

SavingSteps ==
  SavePlan \/ SaveRepair \/ (\E k \in Kinds : WriteProposal(k)) \/ \E s \in {"passed", "failed"} : WriteReview(s)

LEMMA LosingStep ==
  ASSUME LosingSteps
  PROVE  \/ history' = history
         \/ history' = Losing /\ pc' \in {"down", "raised"} /\ UNCHANGED <<manifest, disk>>
<1>1. CASE RequestFails \/ RejectPatch \/ RepairReviewStands
  BY <1>1 DEF RequestFails, RejectPatch, RepairReviewStands, Raise
<1>2. CASE \E restored \in SUBSET Files : WriteFails(restored)
  BY <1>2 DEF WriteFails, Raise
<1>3. CASE \E valid \in BOOLEAN : ValidateRepair(valid)
  BY <1>3 DEF ValidateRepair, Raise
<1>4. CASE Verify
  BY <1>4 DEF Verify, Raise, Follows
<1>5. CASE ProcessDoubtful \/ Stop
  BY <1>5 DEF ProcessDoubtful, Stop, Raise
<1> QED
  BY <1>1, <1>2, <1>3, <1>4, <1>5 DEF LosingSteps

LEMMA SavingStep ==
  ASSUME IInv, SavingSteps
  PROVE  /\ history' \in HistoryType /\ history'.lost = history.lost
         /\ history.kept \subseteq history'.kept
         /\ SavePlan => "plan" \in history'.kept
         /\ SaveRepair => "repair" \in history'.kept
         /\ (\E k \in Kinds : WriteProposal(k)) => "propose" \in history'.kept
         /\ \A s \in {"passed", "failed"} : WriteReview(s) =>
              (IF pc = "review" THEN "review" ELSE "repair_review") \in history'.kept
<1>0. history \in HistoryType
  BY DEF IInv, Typed
<1>1. CASE SavePlan
  <2>1. history' = [history EXCEPT !.kept = history.kept \cup {"plan"}] /\ pc = "planned"
    BY <1>1 DEF SavePlan
  <2>2. ~SaveRepair /\ (\A k \in Kinds : ~WriteProposal(k)) /\ \A s \in {"passed", "failed"} : ~WriteReview(s)
    BY <2>1 DEF SaveRepair, WriteProposal, WriteReview
  <2> QED
    BY <1>0, <2>1, <2>2 DEF HistoryType, LlmPurposes
<1>2. CASE SaveRepair
  <2> DEFINE later == IF manifest.repair.count > 0 THEN history.later \cup {work.proposal.id} ELSE history.later
  <2>1. history' = [history EXCEPT !.kept = history.kept \cup {"repair"}, !.later = later] /\ pc = "repairWritten"
    BY <1>2 DEF SaveRepair, Returns
  <2>2. ~SavePlan /\ (\A k \in Kinds : ~WriteProposal(k)) /\ \A s \in {"passed", "failed"} : ~WriteReview(s)
    BY <2>1 DEF SavePlan, WriteProposal, WriteReview
  <2>3. later \in SUBSET Nat
    BY <1>0 DEF HistoryType, IInv, Typed, WorkType, Proposals
  <2> HIDE DEF later
  <2> QED
    BY <1>0, <2>1, <2>2, <2>3 DEF HistoryType, LlmPurposes
<1>3. CASE \E k \in Kinds : WriteProposal(k)
  <2>1. history' = [history EXCEPT !.kept = history.kept \cup {"propose"}] /\ pc = "propose"
    BY <1>3 DEF WriteProposal
  <2>2. ~SavePlan /\ ~SaveRepair /\ \A s \in {"passed", "failed"} : ~WriteReview(s)
    BY <2>1 DEF SavePlan, SaveRepair, WriteReview
  <2> QED
    BY <1>0, <2>1, <2>2 DEF HistoryType, LlmPurposes
<1>4. CASE \E s \in {"passed", "failed"} : WriteReview(s)
  <2> DEFINE p == IF pc = "review" THEN "review" ELSE "repair_review"
             reviewed == history.reviewed \cup Applied
  <2>1. history' = [history EXCEPT !.reviewed = reviewed, !.kept = history.kept \cup {p}]
        /\ pc \in {"review", "repairReview"}
    BY <1>4 DEF WriteReview
  <2>2. ~SavePlan /\ ~SaveRepair /\ \A k \in Kinds : ~WriteProposal(k)
    BY <2>1 DEF SavePlan, SaveRepair, WriteProposal
  <2>3. reviewed \in SUBSET Nat
    <3>1. ASSUME NEW f \in Files, NEW i \in ToSet(workspace[f]) PROVE i \in Nat
      <4>1. workspace[f] \in Seq(1..disk.written) /\ disk.written \in Nat
        BY DEF IInv, Typed, ContentsOf, DiskType
      <4>2. workspace[f] \in [1..Len(workspace[f]) -> 1..disk.written]
        BY <4>1, LenProperties
      <4> QED
        BY <4>1, <4>2 DEF ToSet
    <3> QED
      BY <1>0, <3>1 DEF HistoryType, Applied
  <2>4. p \in LlmPurposes
    BY DEF LlmPurposes
  <2> HIDE DEF reviewed
  <2>5. \A s \in {"passed", "failed"} : WriteReview(s) =>
              (IF pc = "review" THEN "review" ELSE "repair_review") = p
    OBVIOUS
  <2> HIDE DEF p
  <2> QED
    BY <1>0, <2>1, <2>2, <2>3, <2>4, <2>5 DEF HistoryType
<1> QED
  BY <1>1, <1>2, <1>3, <1>4 DEF SavingSteps

LEMMA HistoryStep == ASSUME IInv, [Next]_vars PROVE history' \in HistoryType
<1>1. history \in HistoryType
  BY DEF IInv, Typed
<1>2. CASE LosingSteps
  BY <1>1, <1>2, LosingStep, LosingType
<1>3. CASE SavingSteps
  BY <1>3, SavingStep
<1> QED
  BY <1>1, <1>2, <1>3, Writers DEF HistorySteps, LosingSteps, SavingSteps

LEMMA TypedStep == ASSUME IInv, [Next]_vars PROVE Typed'
<1>0. disk' \in DiskType(disk'.written) /\ disk'.written \in Nat /\ disk.written \in Nat /\ disk.written <= disk'.written
  BY DiskStep
<1>1. manifest' \in ManifestType
  BY Writers, ManifestStep DEF IInv, Typed
<1>2. workspace' \in ContentsOf(disk'.written)
  <2>1. workspace' \in ContentsOf(disk.written)
    BY Writers, WorkspaceStep DEF IInv, Typed
  <2> QED
    BY <1>0, <2>1, Grows
<1>3. work' \in WorkType(disk'.written)
  <2>1. work' = work => work' \in WorkType(disk.written)
    BY DEF IInv, Typed
  <2> QED
    BY <1>0, <2>1, Grows, Writers, WorkStep
<1>4. history' \in HistoryType
  BY HistoryStep
<1>5. resumes' \in 0..MaxResumes
  <2>1. resumes \in 0..MaxResumes /\ MaxResumes \in Nat
    BY TaskAssumption DEF IInv, Typed
  <2> QED
    BY <2>1, Writers DEF Resume
<1> QED
  BY <1>0, <1>1, <1>2, <1>3, <1>4, <1>5 DEF Typed

\* Which write changes which part of an artifact.
LEMMA DiskParts ==
  ASSUME IInv, [Next]_vars
  PROVE  /\ disk'.plan = disk.plan \/ WritePlan
         /\ \/ disk'.proposal = disk.proposal
            \/ \E k \in Kinds : WriteProposal(k) /\ disk'.proposal = NewProposal(k) /\ disk'.written = disk.written + 1
         /\ disk'.review = disk.review \/ \E s \in {"passed", "failed"} : WriteReview(s) /\ pc = "review"
         /\ disk'.repairReview = disk.repairReview \/ \E s \in {"passed", "failed"} : WriteReview(s) /\ pc = "repairReview"
         /\ disk'.receipt = disk.receipt \/ Project \/ \E passed \in BOOLEAN : ProcessEnds(passed)
         /\ disk'.report = disk.report \/ Project
<1>0. disk \in DiskType(disk.written) /\ disk.written \in Nat
  BY DEF IInv, Typed, DiskType
<1> DEFINE Rest(d) == /\ d.plan = disk.plan /\ d.proposal = disk.proposal /\ d.review = disk.review
                      /\ d.repairReview = disk.repairReview /\ d.receipt = disk.receipt /\ d.report = disk.report
<1>1. CASE disk' = disk
  BY <1>1
<1>2. CASE WritePlan
  BY <1>0, <1>2 DEF WritePlan, DiskType
<1>3. CASE \E k \in Kinds : WriteProposal(k) \/ WriteRepair(k)
  <2>1. PICK k \in Kinds : WriteProposal(k) \/ WriteRepair(k)
    BY <1>3
  <2>2. disk'.written = disk.written + 1
    BY <2>1, WriterStep
  <2>3. CASE WriteProposal(k)
    <3>1. disk' = [disk EXCEPT !.proposal = NewProposal(k), !.written = disk.written + 1]
      BY <2>3 DEF WriteProposal
    <3> QED
      BY <1>0, <2>2, <2>3, <3>1 DEF DiskType
  <2>4. CASE WriteRepair(k)
    <3>1. disk' = [disk EXCEPT !.written = disk.written + 1]
      BY <2>4 DEF WriteRepair
    <3> QED
      BY <1>0, <3>1 DEF DiskType
  <2> QED
    BY <2>1, <2>3, <2>4
<1>4. CASE JudgeProposal \/ RejectPatch \/ Index \/ Finish
  <2>1. Rest(disk')
    BY <1>0, <1>4 DEF JudgeProposal, RejectPatch, Index, Finish, DiskType
  <2> QED
    BY <2>1
<1>5. CASE \E s \in {"passed", "failed"} : WriteReview(s)
  <2>1. PICK s \in {"passed", "failed"} : WriteReview(s)
    BY <1>5
  <2>2. \/ pc = "review" /\ disk' = [disk EXCEPT !.review = s]
        \/ pc = "repairReview" /\ disk' = [disk EXCEPT !.repairReview = s]
    BY <2>1 DEF WriteReview
  <2> QED
    BY <1>0, <2>1, <2>2 DEF DiskType
<1>6. CASE \E passed \in BOOLEAN : ProcessEnds(passed)
  BY <1>0, <1>6 DEF ProcessEnds, DiskType
<1>7. CASE Project
  BY <1>0, <1>7 DEF Project, DiskType
<1> QED
  BY <1>1, <1>2, <1>3, <1>4, <1>5, <1>6, <1>7, Writers DEF DiskSteps

LEMMA ManifestParts ==
  ASSUME IInv, [Next]_vars
  PROVE  /\ \/ manifest'.plan = manifest.plan
            \/ SavePlan /\ manifest'.plan = "pending_approval"
            \/ Approve /\ manifest'.plan = "approved"
         /\ \/ manifest'.patch = manifest.patch
            \/ SaveProposal /\ manifest'.patch = "edits_proposed"
            \/ SaveApplied /\ manifest'.patch = "applied"
         /\ \/ manifest'.repair.count = manifest.repair.count /\ manifest'.repair.proposal = manifest.repair.proposal
            \/ SaveRepair /\ manifest'.repair.proposal = work.proposal
<1>0. manifest \in ManifestType
  BY DEF IInv, Typed
<1>1. CASE manifest' = manifest
  BY <1>1
<1>2. CASE SavePlan
  BY <1>0, <1>2 DEF SavePlan, ManifestType
<1>3. CASE Approve
  BY <1>0, <1>3 DEF Approve, ManifestType
<1>4. CASE SaveProposal
  BY <1>0, <1>4 DEF SaveProposal, ManifestType
<1>5. CASE SaveApplied
  <2> DEFINE status == IF work.repairing THEN "repair_applied" ELSE manifest.repair.status
             repair == [manifest.repair EXCEPT !.status = status]
  <2>1. manifest' = [manifest EXCEPT !.patch = "applied", !.repair = repair]
    BY <1>5 DEF SaveApplied
  <2> HIDE DEF status
  <2>2. repair.count = manifest.repair.count /\ repair.proposal = manifest.repair.proposal
    BY <1>0 DEF ManifestType
  <2> HIDE DEF repair
  <2> QED
    BY <1>0, <1>5, <2>1, <2>2 DEF ManifestType
<1>6. CASE SaveRepair
  <2> DEFINE repair == [status |-> "repair_proposed", count |-> manifest.repair.count + 1, proposal |-> work.proposal]
  <2>1. manifest' = [manifest EXCEPT !.repair = repair]
    BY <1>6 DEF SaveRepair
  <2>2. repair.proposal = work.proposal
    OBVIOUS
  <2> HIDE DEF repair
  <2> QED
    BY <1>0, <1>6, <2>1, <2>2 DEF ManifestType
<1> QED
  BY <1>1, <1>2, <1>3, <1>4, <1>5, <1>6, Writers DEF ManifestSteps

LEMMA WorkParts ==
  ASSUME IInv, [Next]_vars
  PROVE  \/ work'.proposal \in {work.proposal, disk.proposal, manifest.repair.proposal, NoProposal}
         \/ \E k \in Kinds : work'.proposal = NewProposal(k) /\ disk'.written = disk.written + 1
<1>0. work \in WorkType(disk.written)
  BY DEF IInv, Typed
<1>1. CASE work' = work
  BY <1>1
<1>2. CASE PlanFails \/ AskProposal \/ ReviewStands \/ Capture \/ Conclude \/ SaveRepair \/ \E f \in Files : WriteFile(f)
  BY <1>0, <1>2 DEF PlanFails, AskProposal, ReviewStands, Capture, Conclude, SaveRepair, WriteFile, Returns, WorkType
<1>3. CASE RejectPatch \/ \E valid \in BOOLEAN : Validate(valid)
  BY <1>0, <1>3 DEF RejectPatch, Validate, Returns, WorkType
<1>4. CASE JudgeProposal \/ ProposalStands
  BY <1>0, <1>4 DEF JudgeProposal, ProposalStands, Returns, WorkType
<1>5. CASE Verify
  BY <1>0, <1>5 DEF Verify, Follows, WorkType
<1>6. CASE \E k \in Kinds : WriteRepair(k)
  <2>1. PICK k \in Kinds : WriteRepair(k)
    BY <1>6
  <2>2. disk'.written = disk.written + 1
    BY <2>1, WriterStep
  <2>3. work' = [work EXCEPT !.proposal = NewProposal(k), !.repairing = TRUE]
    BY <2>1 DEF WriteRepair
  <2> QED
    BY <1>0, <2>2, <2>3 DEF WorkType
<1>7. CASE Resume
  BY <1>7 DEF Resume, NoWork
<1> QED
  BY <1>1, <1>2, <1>3, <1>4, <1>5, <1>6, <1>7, Writers DEF WorkSteps

\* A patch is written only after it was found to fit.
LEMMA WriteAfterCapture ==
  ASSUME IInv, [Next]_vars, pc' = "write"
  PROVE  work'.proposal = work.proposal /\ (pc = "write" \/ (Capture /\ work.proposal.kind \in Edits))
<1>0. work \in WorkType(disk.written)
  BY DEF IInv, Typed
<1>1. ~(AskPlan \/ AskProposal \/ AskReview \/ AskRepair)
  BY DEF AskPlan, AskProposal, AskReview, AskRepair, Asks, At, taskVars
<1>2. ~(WritePlan \/ PlanFails \/ RequestFails \/ Stop)
  BY DEF WritePlan, PlanFails, RequestFails, Stop, Raise, Returns
<1>3. \A k \in Kinds : ~WriteProposal(k) /\ ~WriteRepair(k)
  BY DEF WriteProposal, WriteRepair
<1>4. \A s \in {"passed", "failed"} : ~WriteReview(s)
  BY DEF WriteReview
<1>5. ~Launch /\ ~ProcessDoubtful /\ \A passed \in BOOLEAN : ~ProcessEnds(passed)
  BY DEF Launch, ProcessDoubtful, ProcessEnds, Raise
<1>6. ~(SavePlan \/ Approve \/ ProposalStands \/ SaveProposal \/ JudgeProposal \/ PatchStands)
  BY DEF SavePlan, Approve, ProposalStands, SaveProposal, JudgeProposal, PatchStands, Returns
<1>7. ~(RejectPatch \/ Index \/ SaveApplied) /\ \A restored \in SUBSET Files : ~WriteFails(restored)
  BY DEF RejectPatch, Applying, Index, SaveApplied, WriteFails, Raise, Returns
<1>8. ~ReviewStands /\ ~RepairReviewStands /\ \A valid \in BOOLEAN : ~Validate(valid) /\ ~ValidateRepair(valid)
  BY DEF ReviewStands, RepairReviewStands, Validate, ValidateRepair, Returns, Raise, At
<1>9. ~(Verify \/ Project \/ Conclude \/ SaveRepair \/ Finish)
  BY DEF Verify, Project, Conclude, SaveRepair, Finish, Follows, Returns, Raise
<1>10. ~Resume /\ ~Interrupt
  BY DEF Resume, Interrupt
<1>11. CASE Capture
  BY <1>0, <1>11 DEF Capture, Fits, Edits, WorkType
<1>12. CASE \E f \in Files : WriteFile(f)
  BY <1>0, <1>12 DEF WriteFile, WorkType
<1>13. CASE (CallNext /\ UNCHANGED taskVars) \/ UNCHANGED vars
  BY <1>13 DEF vars, taskVars
<1> QED
  BY <1>1, <1>2, <1>3, <1>4, <1>5, <1>6, <1>7, <1>8, <1>9, <1>10, <1>11, <1>12, <1>13 DEF Next, TaskNext

LEMMA NumbersStep == ASSUME IInv, [Next]_vars PROVE Numbers'
<1>0. disk'.written \in Nat /\ disk.written \in Nat /\ disk.written <= disk'.written
  BY DiskStep
<1>1. ASSUME NEW p, p.kind \in Edits => p.id \in 1..disk.written
      PROVE  p.kind \in Edits => p.id \in 1..disk'.written
  BY <1>0, <1>1
<1>2. ASSUME NEW k \in Kinds, disk'.written = disk.written + 1
      PROVE  NewProposal(k).kind \in Edits => NewProposal(k).id \in 1..disk'.written
  BY <1>0, <1>2, NewIsProposal
<1>3. NoProposal.kind \notin Edits
  BY DEF NoProposal, Edits
<1>4. /\ disk.proposal.kind \in Edits => disk.proposal.id \in 1..disk.written
      /\ work.proposal.kind \in Edits => work.proposal.id \in 1..disk.written
      /\ manifest.repair.proposal.kind \in Edits => manifest.repair.proposal.id \in 1..disk.written
  BY DEF IInv, Numbers, Numbered
<1>5. disk'.proposal.kind \in Edits => disk'.proposal.id \in 1..disk'.written
  BY <1>1, <1>2, <1>4, DiskParts
<1>6. work'.proposal.kind \in Edits => work'.proposal.id \in 1..disk'.written
  BY <1>1, <1>2, <1>3, <1>4, WorkParts
<1>7. manifest'.repair.proposal.kind \in Edits => manifest'.repair.proposal.id \in 1..disk'.written
  BY <1>1, <1>4, ManifestParts
<1>8. pc' = "write" => work'.proposal.kind \in Edits
  BY WriteAfterCapture DEF IInv, Numbers
<1> QED
  BY <1>5, <1>6, <1>7, <1>8 DEF Numbers, Numbered

Control == PlanControl /\ PatchControl /\ LoopControl

LEMMA ControlStep == ASSUME IInv, [Next]_vars PROVE Control'
<1> DEFINE Goal == Control'
<1> USE TaskAssumption DEF PlanControl, PatchControl, LoopControl, Control, Unplanned, Patched, Patching, Stopped, At, Quiet, callVars
<1>0. manifest \in ManifestType /\ disk \in DiskType(disk.written) /\ work \in WorkType(disk.written)
  BY DEF IInv, Typed
<1>g. Control /\ (call.state # "idle" => call.purpose \in LlmPurposes /\ pc = Gate[call.purpose])
  BY DEF IInv, Requests, Gated
<1>1. CASE AskPlan \/ AskReview
  BY <1>1, <1>g DEF AskPlan, AskReview, Asks, Ask, taskVars
<1>2. CASE AskProposal
  BY <1>0, <1>2, <1>g DEF AskProposal, Proposes, Ask
<1>3. CASE AskRepair
  BY <1>0, <1>3, <1>g DEF AskRepair, Exhausted, Ask, ManifestType
<1>4. CASE WritePlan
  BY <1>0, <1>4, <1>g DEF WritePlan, Dropped, Idle, DiskType
<1>5. CASE PlanFails \/ RequestFails \/ Stop
  BY <1>0, <1>5, <1>g DEF PlanFails, RequestFails, Stop, Dropped, Idle, Returns, Raise
<1>6. CASE \E k \in Kinds : WriteProposal(k)
  BY <1>0, <1>6, <1>g DEF WriteProposal, Dropped, Idle, DiskType
<1>7. CASE \E k \in Kinds : WriteRepair(k)
  BY <1>0, <1>7, <1>g DEF WriteRepair, Dropped, Idle, DiskType
<1>8. CASE \E s \in {"passed", "failed"} : WriteReview(s)
  BY <1>0, <1>8, <1>g DEF WriteReview, Dropped, Idle, DiskType
<1>9. CASE Launch \/ ProcessDoubtful
  BY <1>0, <1>9, <1>g DEF Launch, ProcessDoubtful, Raise
<1>10. CASE \E passed \in BOOLEAN : ProcessEnds(passed)
  <2>1. PICK passed \in BOOLEAN : ProcessEnds(passed)
    BY <1>10
  <2> DEFINE receipt == [content |-> workspace, passed |-> passed, projected |-> FALSE]
  <2>2. receipt \in Receipts(disk.written)
    BY DEF IInv, Typed, Receipts
  <2>3. disk' = [disk EXCEPT !.receipt = receipt] /\ ledger'.reserved # "local_process"
    BY <2>1, NoneAssumption DEF ProcessEnds, IInv, Requests, CallTypeOK, LedgerType
  <2> HIDE DEF receipt
  <2>4. pc' = "project" /\ pc = "running" /\ UNCHANGED <<call, manifest, work>>
    BY <2>1 DEF ProcessEnds
  <2>5. disk'.receipt = receipt /\ disk'.written = disk.written /\ disk'.report = disk.report /\ disk'.proposal = disk.proposal
    BY <1>0, <2>3 DEF DiskType
  <2> QED
    BY <1>g, <2>2, <2>3, <2>4, <2>5
<1>11. CASE SavePlan
  BY <1>0, <1>11, <1>g DEF SavePlan, ManifestType, Gate, LlmPurposes
<1>12. CASE Approve
  BY <1>0, <1>12, <1>g DEF Approve, ManifestType
<1>13. CASE ProposalStands \/ PatchStands
  BY <1>0, <1>13, <1>g DEF ProposalStands, PatchStands, WorkType
<1>14. CASE SaveProposal
  BY <1>0, <1>14, <1>g DEF SaveProposal, ManifestType
<1>15. CASE JudgeProposal
  BY <1>0, <1>15, <1>g DEF JudgeProposal, Returns, DiskType, WorkType, Gate, LlmPurposes
<1>16. CASE RejectPatch
  BY <1>0, <1>16, <1>g DEF RejectPatch, Applying, Returns, Raise, DiskType, Gate, LlmPurposes
<1>17. CASE Capture \/ \E f \in Files : WriteFile(f)
  BY <1>0, <1>17, <1>g DEF Capture, Applying, WriteFile, WorkType
<1>18. CASE Index
  BY <1>0, <1>18, <1>g DEF Index, DiskType
<1>19. CASE SaveApplied
  BY <1>0, <1>19, <1>g DEF SaveApplied, ManifestType
<1>20. CASE \E restored \in SUBSET Files : WriteFails(restored)
  BY <1>0, <1>20, <1>g DEF WriteFails, Raise
<1>21. CASE ReviewStands \/ RepairReviewStands \/ \E valid \in BOOLEAN : Validate(valid) \/ ValidateRepair(valid)
  BY <1>0, <1>21, <1>g DEF ReviewStands, RepairReviewStands, Validate, ValidateRepair, Returns, Raise
<1>22. CASE Verify
  BY <1>0, <1>22, <1>g DEF Verify, Follows, Raise, Orphan, Current, DiskType
<1>23. CASE Project
  <2> DEFINE report == [content |-> workspace, passed |-> disk.receipt.passed]
             receipt == [disk.receipt EXCEPT !.projected = TRUE]
  <2>1. report \in Reports(disk.written)
    BY <1>23, <1>g DEF Project, IInv, Typed, Reports, Receipts
  <2>2. disk' = [disk EXCEPT !.receipt = receipt, !.report = report]
    BY <1>23 DEF Project
  <2> HIDE DEF receipt, report
  <2>3. pc' = "judged" /\ pc = "project" /\ UNCHANGED <<call, ledger, manifest, work>>
    BY <1>23 DEF Project
  <2>4. disk'.report = report /\ disk'.written = disk.written /\ disk'.proposal = disk.proposal
    BY <1>0, <2>2 DEF DiskType
  <2> QED
    BY <1>g, <2>1, <2>3, <2>4
<1>24. CASE Conclude
  BY <1>0, <1>24, <1>g DEF Conclude, WorkType
<1>25. CASE SaveRepair
  BY <1>0, <1>25, <1>g DEF SaveRepair, Returns, ManifestType
<1>26. CASE Finish
  BY <1>0, <1>26, <1>g DEF Finish, DiskType
<1>27. CASE Interrupt
  <2>1. ledger'.reserved = None /\ None # "local_process"
    BY <1>27, NoneAssumption DEF Interrupt, Cancelled, IInv, Requests, CallTypeOK, LedgerType
  <2> QED
    BY <1>27, <1>g, <2>1 DEF Interrupt, Cancelled
<1>28. CASE Resume
  <2>1. UNCHANGED <<ledger, call>> /\ call.state = "idle"
    BY <1>28, ResumeStep DEF IInv
  <2> QED
    BY <1>28, <1>g, <2>1 DEF Resume
<1>29. CASE CallNext /\ UNCHANGED taskVars
  <2>1. call.state # "idle" /\ pc \notin Stopped
    BY <1>29, <1>g DEF CallNext, Reserve, ReserveRefused, Ended, Close, Gate, LlmPurposes
  <2>2. ledger' = ledger \/ ledger'.reserved \in {None} \cup LlmPurposes
    <3>1. CASE Reserve
      BY <1>g, <2>1, <3>1 DEF Reserve, IInv, Requests, CallTypeOK, LedgerType
    <3>2. CASE Close
      BY <3>2, ClosedLedger DEF Close, IInv
    <3>3. CASE ReserveRefused \/ \E e \in Ends : Ended(e)
      BY <3>3 DEF ReserveRefused, Ended
    <3> QED
      BY <1>29, <3>1, <3>2, <3>3 DEF CallNext
  <2>3. ledger'.reserved = "local_process" => ledger.reserved = "local_process"
    BY <2>2, NoneAssumption DEF LlmPurposes
  <2> QED
    BY <1>29, <1>g, <2>1, <2>3 DEF taskVars
<1>30. CASE UNCHANGED vars
  BY <1>30, <1>g DEF vars, taskVars
<1> QED
  BY <1>1, <1>2, <1>3, <1>4, <1>5, <1>6, <1>7, <1>8, <1>9, <1>10, <1>11, <1>12, <1>13, <1>14, <1>15, <1>16,
     <1>17, <1>18, <1>19, <1>20, <1>21, <1>22, <1>23, <1>24, <1>25, <1>26, <1>27, <1>28, <1>29, <1>30 DEF Next, TaskNext

LEMMA InitInv == Init => IInv
<1> SUFFICES ASSUME Init PROVE IInv
  OBVIOUS
<1> USE TaskAssumption
<1> DEFINE empty == [f \in Files |-> <<>>]
           no == FALSE
<1>1. Requests
  BY RequestsInit
<1>2. NoProposal \in Proposals /\ NoProposal.kind \notin Edits
  BY DEF NoProposal, Proposals, Kinds, Edits
<1>3. empty \in ContentsOf(0)
  <2>1. <<>> \in Seq(1..0)
    BY EmptySeq
  <2> QED
    BY <2>1 DEF ContentsOf
<1>4. /\ pc = "plan" /\ call.state = "idle" /\ resumes = 0 /\ workspace = empty
      /\ ledger.reserved = None
      /\ manifest = [plan |-> "none", patch |-> "none", repair |-> [status |-> "none", count |-> 0, proposal |-> NoProposal]]
      /\ disk = [plan |-> no, proposal |-> NoProposal, index |-> empty, findings |-> {},
                 review |-> "none", repairReview |-> "none",
                 receipt |-> None, report |-> None, result |-> "none", written |-> 0]
      /\ work = [corrected |-> no, repairing |-> no, recovery |-> no, proposal |-> NoProposal,
                 before |-> empty, todo |-> {}, passed |-> no]
      /\ history = [kept |-> {}, lost |-> {}, torn |-> no, reviewed |-> {}, later |-> {}]
      /\ no \in BOOLEAN
  BY DEF Init, CallInit, Idle, NoRepair, NoWork
<1> HIDE DEF empty, no
<1>5. disk.written = 0 /\ disk \in DiskType(0)
  BY <1>2, <1>3, <1>4 DEF DiskType
<1>6. manifest \in ManifestType
  <2> DEFINE n == 0
             repair == [status |-> "none", count |-> n, proposal |-> NoProposal]
  <2>1. manifest = [plan |-> "none", patch |-> "none", repair |-> repair] /\ n \in 0..MaxRepairs
    BY <1>4
  <2> HIDE DEF n
  <2>2. repair \in [status : {"none", "repair_proposed", "repair_applied"}, count : 0..MaxRepairs, proposal : Proposals]
    BY <1>2, <2>1
  <2> HIDE DEF repair
  <2> QED
    BY <2>1, <2>2 DEF ManifestType
<1>7. work \in WorkType(0)
  BY <1>2, <1>3, <1>4 DEF WorkType
<1>8. history \in HistoryType
  BY <1>4 DEF HistoryType
<1>9. Typed
  BY <1>3, <1>4, <1>5, <1>6, <1>7, <1>8 DEF Typed
<1>10. Numbers
  BY <1>2, <1>4 DEF Numbers, Numbered
<1>11. PlanControl /\ PatchControl /\ LoopControl
  BY <1>4, NoneAssumption DEF PlanControl, PatchControl, LoopControl, Unplanned, Patched, Patching, Stopped
<1> QED
  BY <1>1, <1>9, <1>10, <1>11 DEF IInv

LEMMA Always == Spec => []IInv
<1>1. Init => IInv
  BY InitInv
<1>2. IInv /\ [Next]_vars => IInv'
  <2> SUFFICES ASSUME IInv, [Next]_vars PROVE IInv'
    OBVIOUS
  <2>1. Requests'
    BY RequestsStep DEF IInv
  <2>2. Typed' /\ Numbers' /\ Control'
    BY TypedStep, NumbersStep, ControlStep
  <2> QED
    BY <2>1, <2>2 DEF IInv, Control
<1> QED
  BY <1>1, <1>2, PTL DEF Spec

\* However many files, repairs and resumed calls: no repair beyond the approval,
\* nothing proposed before the plan is approved, and nothing run before the
\* patch is applied (implement_code_task, verify_implementation).
THEOREM TypesHold == Spec => []TypeOK
<1>1. IInv => TypeOK
  <2> SUFFICES ASSUME IInv PROVE TypeOK
    OBVIOUS
  <2>1. CallTypeOK /\ Typed
    BY DEF IInv, Requests
  <2>2. Contents = ContentsOf(disk.written)
    BY DEF Contents, ContentsOf
  <2>3. /\ manifest.plan = "approved" \/ (manifest.patch = "none" /\ disk.proposal = NoProposal)
        /\ manifest.patch = "applied" \/ (disk.report = None /\ ledger.reserved # "local_process")
    BY DEF IInv, PlanControl, PatchControl
  <2> QED
    BY <2>1, <2>2, <2>3 DEF TypeOK, Typed, ManifestType, DiskType, Receipts, Reports, WorkType, HistoryType
<1> QED
  BY <1>1, Always, PTL

----------------------------------------------------------------------------
(* Recovery.  An answer that was lost has a settled entry and no evidence,  *)
(* so the call is not resumed, and without a resumed call nothing is asked. *)

\* The evidence of a request is there only after its answer was saved.
Saved ==
  /\ manifest.plan # "none" => "plan" \in history.kept
  /\ disk.proposal # NoProposal => "propose" \in history.kept
  /\ disk.review # "none" => "review" \in history.kept
  /\ manifest.repair.count > 0 => "repair" \in history.kept
  /\ disk.repairReview # "none" => "repair_review" \in history.kept

\* An answer on its way to disk is paid for.
Paid ==
  /\ pc = "planned" => "plan" \in ledger.settled
  /\ pc = "repairWritten" => "repair" \in ledger.settled

\* Nothing runs after a loss.
Lost ==
  /\ history.lost # {} => pc \in {"down", "raised", "refused"}
  /\ \A p \in history.lost : p \in ledger.settled /\ p \in LlmPurposes /\ ~Ready(p)

LEMMA SettledGrows == ASSUME IInv, [Next]_vars PROVE ledger.settled \subseteq ledger'.settled
<1>0. Requests /\ ledger \in LedgerType
  BY DEF IInv, Requests, CallTypeOK
<1>1. CASE AskPlan \/ AskProposal \/ AskReview \/ AskRepair
  BY <1>1, AskStep DEF Ask
<1>2. CASE \/ WritePlan \/ PlanFails \/ RequestFails \/ Stop
           \/ \E k \in Kinds : WriteProposal(k) \/ WriteRepair(k)
           \/ \E s \in {"passed", "failed"} : WriteReview(s)
  BY <1>2, DropStep DEF Dropped
<1>3. CASE Launch \/ ProcessDoubtful \/ \E passed \in BOOLEAN : ProcessEnds(passed)
  BY <1>0, <1>3, ChargeStep DEF Charges
<1>4. CASE \/ SavePlan \/ Approve \/ ProposalStands \/ SaveProposal \/ JudgeProposal \/ PatchStands
           \/ RejectPatch \/ Capture \/ Index \/ SaveApplied \/ \E f \in Files : WriteFile(f)
           \/ \E restored \in SUBSET Files : WriteFails(restored)
           \/ ReviewStands \/ RepairReviewStands \/ \E valid \in BOOLEAN : Validate(valid) \/ ValidateRepair(valid)
           \/ Verify \/ Project \/ Conclude \/ SaveRepair \/ Finish
  BY <1>0, <1>4, QuietStep DEF callVars
<1>5. CASE Resume
  BY <1>0, <1>5, ResumeStep DEF callVars
<1>6. CASE Interrupt
  BY <1>0, <1>6 DEF Interrupt, Cancelled, LedgerType
<1>7. CASE CallNext /\ UNCHANGED taskVars
  <2>1. CASE Reserve
    BY <1>0, <2>1 DEF Reserve, LedgerType
  <2>2. CASE Close
    BY <1>0, <2>2, ClosedLedger DEF Close
  <2>3. CASE ReserveRefused \/ \E e \in Ends : Ended(e)
    BY <2>3 DEF ReserveRefused, Ended
  <2> QED
    BY <1>7, <2>1, <2>2, <2>3 DEF CallNext
<1>8. CASE UNCHANGED vars
  BY <1>8 DEF vars, callVars
<1> QED
  BY <1>1, <1>2, <1>3, <1>4, <1>5, <1>6, <1>7, <1>8 DEF Next, TaskNext

LEMMA GoneStep ==
  ASSUME IInv, [Next]_vars, pc \in {"down", "raised", "refused"}
  PROVE  Resume \/ UNCHANGED vars
<1>0. Requests /\ pc \in Stopped /\ call.state = "idle"
  BY DEF IInv, Requests, Gated, Gate, LlmPurposes, Stopped
<1>1. ~(AskPlan \/ AskProposal \/ AskReview \/ AskRepair)
  BY <1>0, AskStep
<1>2. ~(\/ WritePlan \/ PlanFails \/ RequestFails \/ Stop
        \/ \E k \in Kinds : WriteProposal(k) \/ WriteRepair(k)
        \/ \E s \in {"passed", "failed"} : WriteReview(s))
  BY <1>0, DropStep
<1>3. ~(Launch \/ ProcessDoubtful \/ \E passed \in BOOLEAN : ProcessEnds(passed))
  BY <1>0, ChargeStep
<1>4. ~(\/ SavePlan \/ Approve \/ ProposalStands \/ SaveProposal \/ JudgeProposal \/ PatchStands
        \/ RejectPatch \/ Capture \/ Index \/ SaveApplied \/ \E f \in Files : WriteFile(f)
        \/ \E restored \in SUBSET Files : WriteFails(restored)
        \/ ReviewStands \/ RepairReviewStands \/ \E valid \in BOOLEAN : Validate(valid) \/ ValidateRepair(valid)
        \/ Verify \/ Project \/ Conclude \/ SaveRepair \/ Finish)
  BY <1>0, QuietStep
<1>5. ~Interrupt /\ ~CallNext
  BY <1>0 DEF Interrupt, Cancelled, CallNext, Reserve, ReserveRefused, Ended, Close
<1> QED
  BY <1>1, <1>2, <1>3, <1>4, <1>5 DEF Next, TaskNext

\* An answer becomes an artifact in two writes, and the first is paid for.
LEMMA WrittenAfterAnswer ==
  ASSUME IInv, [Next]_vars, pc' \in {"planned", "repairWritten"}, pc' # pc
  PROVE  /\ call.state = "answered"
         /\ pc' = "planned" => pc = "plan"
         /\ pc' = "repairWritten" => pc = "repair"
<1>1. ~(AskPlan \/ AskProposal \/ AskReview \/ AskRepair)
  BY DEF AskPlan, AskProposal, AskReview, AskRepair, Asks, At, taskVars
<1>2. ~(PlanFails \/ RequestFails \/ Stop)
  BY DEF PlanFails, RequestFails, Stop, Raise, Returns
<1>3. \A k \in Kinds : ~WriteProposal(k)
  BY DEF WriteProposal
<1>4. \A s \in {"passed", "failed"} : ~WriteReview(s)
  BY DEF WriteReview
<1>5. ~Launch /\ ~ProcessDoubtful /\ \A passed \in BOOLEAN : ~ProcessEnds(passed)
  BY DEF Launch, ProcessDoubtful, ProcessEnds, Raise
<1>6. ~(SavePlan \/ Approve \/ ProposalStands \/ SaveProposal \/ JudgeProposal \/ PatchStands)
  BY DEF SavePlan, Approve, ProposalStands, SaveProposal, JudgeProposal, PatchStands, Returns
<1>7. ~(RejectPatch \/ Capture \/ Index \/ SaveApplied) /\ (\A f \in Files : ~WriteFile(f))
      /\ \A restored \in SUBSET Files : ~WriteFails(restored)
  BY DEF RejectPatch, Applying, Capture, Index, SaveApplied, WriteFile, WriteFails, Raise, Returns
<1>8. ~ReviewStands /\ ~RepairReviewStands /\ \A valid \in BOOLEAN : ~Validate(valid) /\ ~ValidateRepair(valid)
  BY DEF ReviewStands, RepairReviewStands, Validate, ValidateRepair, Returns, Raise, At
<1>9. ~(Verify \/ Project \/ Conclude \/ SaveRepair \/ Finish)
  BY DEF Verify, Project, Conclude, SaveRepair, Finish, Follows, Returns, Raise
<1>10. ~Resume /\ ~Interrupt
  BY DEF Resume, Interrupt
<1>11. CASE WritePlan
  BY <1>11 DEF WritePlan
<1>12. CASE \E k \in Kinds : WriteRepair(k)
  BY <1>12 DEF WriteRepair
<1>13. CASE (CallNext /\ UNCHANGED taskVars) \/ UNCHANGED vars
  BY <1>13 DEF vars, taskVars
<1> QED
  BY <1>1, <1>2, <1>3, <1>4, <1>5, <1>6, <1>7, <1>8, <1>9, <1>10, <1>11, <1>12, <1>13 DEF Next, TaskNext

LEMMA PaidStep == ASSUME IInv, Paid, [Next]_vars PROVE Paid'
<1>1. ASSUME pc' \in {"planned", "repairWritten"}, pc' # pc
      PROVE  call.purpose \in ledger.settled /\ pc = Gate[call.purpose] /\ call.purpose \in LlmPurposes
  <2>1. call.state = "answered"
    BY <1>1, WrittenAfterAnswer
  <2> QED
    BY <2>1 DEF IInv, Requests, Settles, Gated, Answered
<1>2. pc' = "planned" => "plan" \in ledger.settled
  BY <1>1, WrittenAfterAnswer DEF Paid, Gate, LlmPurposes
<1>3. pc' = "repairWritten" => "repair" \in ledger.settled
  BY <1>1, WrittenAfterAnswer DEF Paid, Gate, LlmPurposes
<1> QED
  BY <1>2, <1>3, SettledGrows DEF Paid

LEMMA KeptGrows ==
  ASSUME IInv, [Next]_vars
  PROVE  history.kept \subseteq history'.kept
<1>1. Losing.kept = history.kept
  BY DEF Losing, IInv, Typed, HistoryType
<1> QED
  BY <1>1, Writers, LosingStep, SavingStep DEF HistorySteps, LosingSteps, SavingSteps

LEMMA SavedStep == ASSUME IInv, Saved, [Next]_vars PROVE Saved'
<1>1. history.kept \subseteq history'.kept
  BY KeptGrows
<1>2. manifest'.plan # "none" => "plan" \in history'.kept
  <2>1. Approve => manifest.plan # "none"
    BY DEF Approve
  <2> QED
    BY <1>1, <2>1, ManifestParts, SavingStep DEF Saved, SavingSteps
<1>3. disk'.proposal # NoProposal => "propose" \in history'.kept
  BY <1>1, DiskParts, SavingStep DEF Saved, SavingSteps
<1>4. disk'.review # "none" => "review" \in history'.kept
  BY <1>1, DiskParts, SavingStep DEF Saved, SavingSteps
<1>5. manifest'.repair.count > 0 => "repair" \in history'.kept
  BY <1>1, ManifestParts, SavingStep DEF Saved, SavingSteps
<1>6. disk'.repairReview # "none" => "repair_review" \in history'.kept
  BY <1>1, DiskParts, SavingStep DEF Saved, SavingSteps
<1> QED
  BY <1>2, <1>3, <1>4, <1>5, <1>6 DEF Saved

\* A lost answer leaves no evidence.
LEMMA ReadyIsKept == ASSUME Saved, NEW p \in LlmPurposes, Ready(p) PROVE p \in history.kept
BY DEF Saved, Ready, LlmPurposes

LEMMA UnsavedIsPaid == ASSUME IInv, Paid PROVE Unsaved \subseteq ledger.settled
<1> SUFFICES ASSUME NEW p \in Unsaved PROVE p \in ledger.settled
  OBVIOUS
<1>1. \/ p = call.purpose /\ call.state \in {"answered", "failed"} /\ call.end \in Answered
      \/ p = "plan" /\ pc = "planned"
      \/ p = "repair" /\ pc = "repairWritten"
  BY DEF Unsaved, Answered
<1> QED
  BY <1>1 DEF IInv, Requests, Settles, Paid

LEMMA ResumeRefused ==
  ASSUME Lost, history.lost # {}, Resume
  PROVE  pc' = "refused" /\ UNCHANGED <<ledger, manifest, disk, history>>
BY DEF Lost, Resume, ResumeAllowed, Quiet, callVars

LEMMA LostStep == ASSUME IInv, Saved, Paid, Lost, [Next]_vars PROVE Lost'
<1>1. CASE history.lost # {}
  <2>1. pc \in {"down", "raised", "refused"}
    BY <1>1 DEF Lost
  <2>2. CASE Resume
    <3>1. pc' = "refused" /\ UNCHANGED <<ledger, manifest, disk, history>>
      BY <1>1, <2>2, ResumeRefused
    <3>2. \A p \in LlmPurposes : Ready(p)' = Ready(p)
      BY <3>1 DEF Ready, LlmPurposes
    <3> QED
      BY <3>1, <3>2 DEF Lost
  <2>3. CASE UNCHANGED vars
    <3>1. UNCHANGED <<pc, ledger, manifest, disk, history>>
      BY <2>3 DEF vars, callVars, taskVars
    <3>2. \A p \in LlmPurposes : Ready(p)' = Ready(p)
      BY <3>1 DEF Ready, LlmPurposes
    <3> QED
      BY <3>1, <3>2 DEF Lost
  <2> QED
    BY <2>1, <2>2, <2>3, GoneStep
<1>2. CASE history.lost = {} /\ history'.lost = {}
  BY <1>2 DEF Lost
<1>3. CASE history.lost = {} /\ history'.lost # {}
  <2>1. LosingSteps
    BY <1>3, Writers, SavingStep DEF HistorySteps, LosingSteps, SavingSteps
  <2>2. history' = Losing /\ pc' \in {"down", "raised"} /\ UNCHANGED <<manifest, disk>>
    BY <1>3, <2>1, LosingStep
  <2>3. history'.lost = Unsaved \ history.kept
    BY <1>3, <2>2 DEF Losing, IInv, Typed, HistoryType
  <2>4. \A p \in LlmPurposes : Ready(p)' = Ready(p)
    BY <2>2 DEF Ready, LlmPurposes
  <2>5. Unsaved \subseteq ledger'.settled /\ Unsaved \subseteq LlmPurposes
    BY UnsavedIsPaid, UnsavedIsAsked, SettledGrows DEF IInv
  <2> QED
    BY <2>2, <2>3, <2>4, <2>5, ReadyIsKept DEF Lost
<1> QED
  BY <1>1, <1>2, <1>3

\* "Recognize committed CodeTask gates; never restart an uncommitted request":
\* whatever is lost at whatever point, no resumed call asks for it again
\* (implementation_resume_allowed).
THEOREM LostIsNotRepeated == Spec => LostIsNotAskedAgain
<1> DEFINE Recovers == Saved /\ Paid /\ Lost
<1>1. Init => Recovers
  BY DEF Init, CallInit, NoRepair, Saved, Paid, Lost
<1>2. IInv /\ Recovers /\ [Next]_vars => Recovers'
  BY SavedStep, PaidStep, LostStep
<1>3. IInv /\ Recovers /\ [Next]_vars =>
        [call.state = "idle" /\ call'.state = "reserving" => call'.purpose \notin history.lost]_vars
  <2> SUFFICES ASSUME IInv, Recovers, [Next]_vars, call.state = "idle", call'.state = "reserving", history.lost # {}
               PROVE  FALSE
    OBVIOUS
  <2>1. Resume \/ UNCHANGED vars
    BY GoneStep DEF Lost
  <2>2. UNCHANGED call
    BY <2>1, ResumeStep DEF IInv, vars, callVars
  <2> QED
    BY <2>2
<1> HIDE DEF Recovers
<1> QED
  BY <1>1, <1>2, <1>3, Always, PTL DEF Spec, LostIsNotAskedAgain

----------------------------------------------------------------------------
(* Patches.  A half-written workspace is neither the indexed nor the        *)
(* validated one, so it is never resumed; and what is indexed or validated  *)
(* is whole.                                                                *)

\* All files have the same content, and no proposal is in it twice.
Same(c) == \A f, g \in Files : c[f] = c[g]
Once(c) == \A f \in Files : \A i, j \in DOMAIN c[f] : c[f][i] = c[f][j] => i = j
Whole(c) == Same(c) /\ (history.torn \/ Once(c))
Within(c) == UNION {ToSet(c[f]) : f \in Files}
Seen == history.reviewed \cup history.later

\* The contents the call works with or may be resumed with.
WholeFiles ==
  /\ Whole(disk.index)
  /\ disk.report # None => Whole(disk.report.content)
  /\ pc \notin {"write"} \cup Stopped => Whole(workspace)

\* Half-way through an application.
Halfway(c, id, todo) == [f \in Files |-> IF f \in todo THEN c[f] ELSE Append(c[f], id)]

HalfWritten ==
  pc = "write" =>
    /\ Whole(work.before)
    /\ history.torn \/ work.proposal.id \notin Within(work.before)
    /\ workspace = Halfway(work.before, work.proposal.id, work.todo)

\* Before the first patch is recorded as applied, a resumed call starts from the
\* untouched files, unless an insertion was torn.
FirstPatch ==
  /\ pc = "write" /\ ~work.repairing => manifest.patch # "applied"
  /\ manifest.patch # "applied" =>
       /\ disk.review = "none" /\ manifest.repair.count = 0
       /\ pc \notin {"write"} \cup Stopped => workspace = disk.index
       /\ ~history.torn /\ pc # "indexed" => disk.index = [f \in Files |-> <<>>]

\* A repair that was proposed and not yet recorded as applied.
Pending == manifest.repair.status = "repair_proposed"

RepairControl ==
  /\ manifest.repair.status # "none" => manifest.repair.count > 0
  /\ disk.repairReview # "none" => manifest.repair.count > 0
  /\ pc \in {"apply", "write", "indexed"} /\ work.repairing => Pending /\ work.proposal = manifest.repair.proposal
  /\ pc = "repairReview" => manifest.repair.count > 0
  /\ pc \in {"repairReview", "repairValidate", "loop", "running", "project"} \/ Orphan => ~Pending
  /\ pc \in {"validate", "verify"} => disk.review # "none"
  /\ pc = "repairValidate" => disk.repairReview # "none"
  /\ disk.report = None => manifest.repair.count = 0

\* A call that is resumed with a finished run to project applies nothing before.
OrphanControl ==
  Orphan =>
    /\ pc \in {"plan", "propose", "apply", "review", "validate", "verify", "project", "finish"} \cup Stopped
    /\ manifest.patch = "applied" /\ (pc = "apply" => ~work.repairing)

\* A repair is of the candidate the last report is about, and is not in it.
FreshRepair ==
  /\ Pending => disk.report # None /\ manifest.repair.proposal.id \notin Within(disk.report.content)
  /\ Pending /\ disk.repairReview # "none" => manifest.repair.proposal.id \in history.later
  /\ pc = "repairWritten" => work.proposal.id \notin Within(workspace)
  /\ pc \in {"judged", "repair", "repairWritten"} \/ (pc = "apply" /\ work.repairing) => Current

\* What a review covered, or a later repair may add under the first report.
AllSeen ==
  /\ disk.report # None => Within(disk.report.content) \subseteq Seen
  /\ disk.review # "none" /\ manifest.repair.count = 0 => Within(workspace) \subseteq Seen
  /\ disk.repairReview # "none" => Within(workspace) \subseteq Seen
  /\ pc \in {"loop", "running", "project"} \/ Orphan => Within(workspace) \subseteq Seen

Concluded ==
  /\ disk.result # "none" => pc = "done"
  /\ (pc = "finish" /\ work.passed) \/ disk.result = "validated" => Current /\ disk.report.passed

PatchInv ==
  /\ WholeFiles /\ HalfWritten /\ FirstPatch /\ RepairControl /\ OrphanControl /\ FreshRepair
  /\ AllSeen /\ Concluded

LEMMA AppendToAll ==
  ASSUME NEW n \in Nat, NEW c \in ContentsOf(n), NEW id \in Nat, NEW d, d = [f \in Files |-> Append(c[f], id)]
  PROVE  /\ Same(c) => Same(d)
         /\ Once(c) /\ id \notin Within(c) => Once(d)
<1>1. Same(c) => Same(d)
  BY DEF Same
<1>2. ASSUME Once(c), id \notin Within(c), NEW f \in Files, NEW i \in DOMAIN d[f], NEW j \in DOMAIN d[f], d[f][i] = d[f][j]
      PROVE  i = j
  <2> DEFINE s == c[f]
  <2>1. s \in Seq(Nat)
    <3>1. s \in Seq(1..n) /\ 1..n \subseteq Nat
      BY DEF ContentsOf
    <3> QED
      BY <3>1, SeqMonotonic
  <2>2. d[f] = Append(s, id)
    OBVIOUS
  <2>3. \A k \in DOMAIN s : s[k] # id
    BY <1>2 DEF Within, ToSet
  <2>4. \A k, l \in DOMAIN s : s[k] = s[l] => k = l
    BY <1>2 DEF Once
  <2> DEFINE t == Append(s, id)
  <2>5. /\ DOMAIN s = 1..Len(s) /\ DOMAIN t = 1..(Len(s) + 1) /\ Len(s) \in Nat
        /\ \A k \in 1..Len(s) : t[k] = s[k]
        /\ t[Len(s) + 1] = id
    BY <2>1
  <2>6. i \in DOMAIN t /\ j \in DOMAIN t /\ t[i] = t[j]
    BY <1>2, <2>2
  <2> HIDE DEF s, t
  <2>7. CASE i \in 1..Len(s) /\ j \in 1..Len(s)
    BY <2>4, <2>5, <2>6, <2>7
  <2>8. CASE i = Len(s) + 1 \/ j = Len(s) + 1
    BY <2>3, <2>5, <2>6, <2>8
  <2> QED
    BY <2>5, <2>6, <2>7, <2>8
<1> QED
  BY <1>1, <1>2 DEF Once

LEMMA AppendToSome ==
  ASSUME NEW n \in Nat, NEW c \in ContentsOf(n), NEW id \in Nat, NEW todo \in SUBSET Files
  PROVE  /\ Within(c) \subseteq Within(Halfway(c, id, todo))
         /\ Within(Halfway(c, id, todo)) \subseteq Within(c) \cup {id}
<1> DEFINE d == Halfway(c, id, todo)
<1>1. ASSUME NEW f \in Files
      PROVE  ToSet(c[f]) \subseteq ToSet(d[f]) /\ ToSet(d[f]) \subseteq ToSet(c[f]) \cup {id}
  <2>1. c[f] \in Seq(1..n)
    BY DEF ContentsOf
  <2>2. d[f] = c[f] \/ d[f] = Append(c[f], id)
    BY DEF Halfway
  <2>3. ToSet(c[f]) \subseteq ToSet(Append(c[f], id)) /\ ToSet(Append(c[f], id)) \subseteq ToSet(c[f]) \cup {id}
    <3> DEFINE s == c[f]
               t == Append(s, id)
    <3>1. /\ DOMAIN s = 1..Len(s) /\ DOMAIN t = 1..(Len(s) + 1) /\ Len(s) \in Nat
          /\ \A k \in 1..Len(s) : t[k] = s[k]
          /\ t[Len(s) + 1] = id
      BY <2>1
    <3> HIDE DEF s, t
    <3> QED
      BY <3>1 DEF ToSet, s, t
  <2> QED
    BY <2>2, <2>3
<1> QED
  BY <1>1 DEF Within

LEMMA PatchWritten == ASSUME IInv, PatchInv, NEW g \in Files, WriteFile(g) PROVE PatchInv'
<1> DEFINE id == work.proposal.id
<1>0. /\ disk.written \in Nat /\ work \in WorkType(disk.written) /\ id \in Nat /\ pc = "write" /\ pc' = pc
      /\ work.before \in ContentsOf(disk.written) /\ history' = history /\ disk' = disk /\ manifest' = manifest
  BY DEF IInv, Typed, DiskType, WorkType, Proposals, WriteFile
<1>1. /\ g \in work.todo /\ work'.before = work.before /\ work'.proposal = work.proposal
      /\ work'.todo = work.todo \ {g} /\ work'.repairing = work.repairing /\ work.todo \in SUBSET Files
  BY <1>0 DEF WriteFile, WorkType
<1>2. workspace' = Halfway(work.before, id, work'.todo)
  BY <1>0, <1>1 DEF WriteFile, PatchInv, HalfWritten, Halfway
<1>3. Within(work.before) \subseteq Within(workspace) /\ Within(workspace') \subseteq Within(work.before) \cup {id}
  <2>1. workspace = Halfway(work.before, id, work.todo)
    BY <1>0 DEF PatchInv, HalfWritten
  <2>2. work.todo \in SUBSET Files /\ work'.todo \in SUBSET Files
    BY <1>1
  <2> HIDE DEF id
  <2>3. Within(work.before) \subseteq Within(workspace) /\ Within(workspace) \subseteq Within(work.before) \cup {id}
    BY <1>0, <2>1, <2>2, AppendToSome
  <2>4. Within(workspace') \subseteq Within(work.before) \cup {id}
    BY <1>0, <1>2, <2>2, AppendToSome
  <2> QED
    BY <2>3, <2>4
<1>4. HalfWritten'
  BY <1>0, <1>1, <1>2 DEF PatchInv, HalfWritten, Whole
<1>5. WholeFiles' /\ FirstPatch' /\ RepairControl' /\ OrphanControl'
  BY <1>0, <1>1 DEF PatchInv, WholeFiles, FirstPatch, RepairControl, OrphanControl, Whole, Orphan, Pending
<1>6. FreshRepair' /\ Concluded'
  BY <1>0, <1>1 DEF PatchInv, FreshRepair, Concluded, Pending
<1>7. AllSeen'
  <2>1. disk.repairReview # "none" => id \in history.later
    BY <1>0 DEF PatchInv, RepairControl, FirstPatch, FreshRepair, Pending
  <2>2. ~(disk.review # "none" /\ manifest.repair.count = 0) /\ ~Orphan
    BY <1>0 DEF PatchInv, RepairControl, FirstPatch, OrphanControl, Pending, Stopped
  <2> QED
    BY <1>0, <1>3, <2>1, <2>2 DEF PatchInv, AllSeen, Seen, Orphan
<1> QED
  BY <1>4, <1>5, <1>6, <1>7 DEF PatchInv

LEMMA PatchAbandoned == ASSUME IInv, PatchInv, NEW restored \in SUBSET Files, WriteFails(restored) PROVE PatchInv'
<1> DEFINE id == work.proposal.id
<1>0. /\ disk.written \in Nat /\ id \in Nat /\ pc = "write" /\ pc' = "raised" /\ history \in HistoryType
      /\ work.before \in ContentsOf(disk.written) /\ disk' = disk /\ manifest' = manifest /\ work' = work
      /\ work.todo \in SUBSET Files
  BY DEF IInv, Typed, DiskType, WorkType, Proposals, WriteFails, Raise
<1>1. history'.torn = history.torn /\ history'.reviewed = history.reviewed /\ history'.later = history.later
  BY <1>0 DEF WriteFails, Raise, Losing, HistoryType
<1>2. Within(work.before) \subseteq Within(workspace)
  <2>1. workspace = Halfway(work.before, id, work.todo)
    BY <1>0 DEF PatchInv, HalfWritten
  <2> HIDE DEF id
  <2>2. Within(work.before) \subseteq Within(workspace) /\ Within(workspace) \subseteq Within(work.before) \cup {id}
    BY <1>0, <2>1, AppendToSome
  <2> QED
    BY <2>2
<1>3. Within(workspace') \subseteq Within(workspace)
  <2>1. ASSUME NEW f \in Files PROVE ToSet(workspace'[f]) \subseteq Within(work.before) \cup Within(workspace)
    BY DEF WriteFails, Within
  <2> QED
    BY <1>2, <2>1 DEF Within
<1>4. WholeFiles' /\ HalfWritten' /\ FirstPatch' /\ RepairControl' /\ OrphanControl'
  BY <1>0, <1>1 DEF PatchInv, WholeFiles, HalfWritten, FirstPatch, RepairControl, OrphanControl, Whole, Orphan, Pending, Stopped
<1>5. FreshRepair' /\ Concluded'
  BY <1>0, <1>1 DEF PatchInv, FreshRepair, Concluded, Pending
<1>6. AllSeen'
  BY <1>0, <1>1, <1>3 DEF PatchInv, AllSeen, Seen, Orphan
<1> QED
  BY <1>4, <1>5, <1>6 DEF PatchInv

LEMMA PatchIndexed == ASSUME IInv, PatchInv, Index PROVE PatchInv'
<1>0. /\ disk.written \in Nat /\ work.proposal.id \in Nat /\ pc = "write" /\ pc' = "indexed" /\ work.todo = {}
      /\ work.before \in ContentsOf(disk.written) /\ UNCHANGED <<workspace, manifest, work, history>>
      /\ disk'.index = workspace /\ disk'.report = disk.report /\ disk'.receipt = disk.receipt
      /\ disk'.review = disk.review /\ disk'.repairReview = disk.repairReview /\ disk'.result = disk.result
  BY DEF IInv, Typed, DiskType, WorkType, Proposals, Index
<1>1. workspace = [f \in Files |-> Append(work.before[f], work.proposal.id)]
  BY <1>0 DEF PatchInv, HalfWritten, Halfway
<1>2. Whole(workspace)
  BY <1>0, <1>1, AppendToAll DEF PatchInv, HalfWritten, Whole
<1> QED
  BY <1>0, <1>2 DEF PatchInv, WholeFiles, HalfWritten, FirstPatch, RepairControl, OrphanControl, FreshRepair, AllSeen,
                    Concluded, Whole, Seen, Orphan, Current, Pending, Stopped

LEMMA PatchCaptured == ASSUME IInv, PatchInv, Capture PROVE PatchInv'
<1> DEFINE id == work.proposal.id
<1>0. /\ pc = "apply" /\ pc' = "write" /\ UNCHANGED <<workspace, manifest, disk, history>>
      /\ work'.before = workspace /\ work'.todo = Files /\ work'.proposal = work.proposal
      /\ work'.repairing = work.repairing /\ (work.repairing \/ manifest.patch # "applied")
      /\ workspace \in ContentsOf(disk.written)
  BY DEF IInv, Typed, WorkType, Capture, Applying
<1>1. history.torn \/ id \notin Within(workspace)
  <2>1. CASE work.repairing
    BY <1>0, <2>1 DEF PatchInv, RepairControl, FreshRepair, Pending, Current
  <2>2. CASE ~work.repairing /\ ~history.torn
    <3>1. workspace = [f \in Files |-> <<>>]
      BY <1>0, <2>2 DEF PatchInv, FirstPatch, Stopped
    <3> QED
      BY <3>1 DEF Within, ToSet
  <2> QED
    BY <2>1, <2>2
<1>2. workspace = [f \in Files |-> workspace[f]]
  BY <1>0 DEF ContentsOf
<1>3. HalfWritten'
  BY <1>0, <1>1, <1>2 DEF PatchInv, HalfWritten, Halfway, WholeFiles, Whole, Stopped
<1> QED
  BY <1>0, <1>3 DEF PatchInv, WholeFiles, FirstPatch, RepairControl, OrphanControl, FreshRepair, AllSeen,
                    Concluded, Whole, Seen, Orphan, Current, Pending, Stopped

LEMMA PatchRejected == ASSUME IInv, PatchInv, RejectPatch PROVE PatchInv'
<1>0. history \in HistoryType /\ work \in WorkType(disk.written) /\ disk \in DiskType(disk.written)
  BY DEF IInv, Typed
<1>1. /\ pc = "apply" /\ UNCHANGED <<workspace, manifest>>
      /\ disk'.index = disk.index /\ disk'.report = disk.report /\ disk'.receipt = disk.receipt
      /\ disk'.review = disk.review /\ disk'.repairReview = disk.repairReview /\ disk'.result = disk.result
  BY <1>0 DEF RejectPatch, Applying, DiskType
<1>2. history'.torn = history.torn /\ history'.reviewed = history.reviewed /\ history'.later = history.later
  BY <1>0, <1>1 DEF RejectPatch, Raise, Losing, HistoryType
<1>3. pc' \in {"raised", "plan"} \/ (pc' = "finish" /\ ~work'.passed)
  BY <1>0 DEF RejectPatch, Raise, Returns, WorkType
<1> QED
  BY <1>1, <1>2, <1>3 DEF PatchInv, WholeFiles, HalfWritten, FirstPatch, RepairControl, OrphanControl, FreshRepair,
                          AllSeen, Concluded, Whole, Seen, Orphan, Current, Pending, Stopped

LEMMA PatchApplied == ASSUME IInv, PatchInv, SaveApplied PROVE PatchInv'
<1>1. /\ pc = "indexed" /\ UNCHANGED <<workspace, disk, work, history>>
      /\ pc' = IF work.repairing THEN "repairReview" ELSE "review"
  BY DEF SaveApplied
<1>2. /\ manifest'.patch = "applied" /\ manifest'.repair.count = manifest.repair.count
      /\ manifest'.repair.status = (IF work.repairing THEN "repair_applied" ELSE manifest.repair.status)
      /\ manifest'.repair.proposal = manifest.repair.proposal
  BY DEF SaveApplied, IInv, Typed, ManifestType
<1>3. work.repairing => manifest.repair.count > 0
  BY <1>1 DEF PatchInv, RepairControl, Pending
<1> QED
  BY <1>1, <1>2, <1>3 DEF PatchInv, WholeFiles, HalfWritten, FirstPatch, RepairControl, OrphanControl, FreshRepair,
                          AllSeen, Concluded, Whole, Seen, Orphan, Current, Pending, Stopped

LEMMA PatchReviewed == ASSUME IInv, PatchInv, NEW s \in {"passed", "failed"}, WriteReview(s) PROVE PatchInv'
<1>0. history \in HistoryType /\ disk \in DiskType(disk.written) /\ manifest.patch = "applied"
  BY DEF IInv, Typed, WriteReview, PatchControl, Patched
<1>1. /\ pc \in {"review", "repairReview"} /\ pc' = pc /\ UNCHANGED <<workspace, manifest, work>>
      /\ disk'.index = disk.index /\ disk'.report = disk.report /\ disk'.receipt = disk.receipt /\ disk'.result = disk.result
      /\ disk'.review = (IF pc = "review" THEN s ELSE disk.review)
      /\ disk'.repairReview = (IF pc = "review" THEN disk.repairReview ELSE s)
  BY <1>0 DEF WriteReview, DiskType
<1>2. /\ history'.torn = history.torn /\ history'.later = history.later
      /\ history'.reviewed = history.reviewed \cup Within(workspace)
  BY <1>0 DEF WriteReview, HistoryType, Applied, Within
<1> QED
  BY <1>0, <1>1, <1>2 DEF PatchInv, WholeFiles, HalfWritten, FirstPatch, RepairControl, OrphanControl, FreshRepair,
                          AllSeen, Concluded, Whole, Seen, Orphan, Current, Pending, Stopped

LEMMA PatchProjected == ASSUME IInv, PatchInv, Project PROVE PatchInv'
<1>0. disk \in DiskType(disk.written) /\ disk.receipt \in Receipts(disk.written) /\ manifest.patch = "applied"
  BY DEF IInv, Typed, Project, LoopControl, PatchControl, Patched
<1> DEFINE receipt == [disk.receipt EXCEPT !.projected = TRUE]
           report == [content |-> workspace, passed |-> disk.receipt.passed]
<1>1. /\ pc = "project" /\ pc' = "judged" /\ UNCHANGED <<workspace, manifest, work, history>>
      /\ disk' = [disk EXCEPT !.receipt = receipt, !.report = report]
  BY DEF Project
<1>2. receipt.projected /\ report.content = workspace /\ report \in Reports(disk.written)
  BY <1>0 DEF Receipts, Reports, IInv, Typed
<1> HIDE DEF receipt, report
<1>3. /\ disk'.index = disk.index /\ disk'.report = report /\ disk'.receipt = receipt
      /\ disk'.review = disk.review /\ disk'.repairReview = disk.repairReview /\ disk'.result = disk.result
  BY <1>0, <1>1 DEF DiskType
<1>4. report # None
  <2>1. Seq(1..disk.written) \subseteq Seq(Nat)
    <3>1. 1..disk.written \subseteq Nat
      OBVIOUS
    <3> QED
      BY <3>1, SeqMonotonic
  <2>2. report \in [content : [Files -> Seq(Nat)], passed : BOOLEAN]
    BY <1>2, <2>1 DEF Reports, ContentsOf
  <2> QED
    BY <2>2, ReportAssumption
<1> QED
  BY <1>0, <1>1, <1>2, <1>3, <1>4 DEF PatchInv, WholeFiles, HalfWritten, FirstPatch, RepairControl, OrphanControl,
                          FreshRepair, AllSeen, Concluded, Whole, Seen, Orphan, Current, Pending, Stopped

LEMMA PatchRepaired == ASSUME IInv, PatchInv, SaveRepair PROVE PatchInv'
<1>0. /\ manifest \in ManifestType /\ history \in HistoryType /\ work \in WorkType(disk.written)
      /\ manifest.patch = "applied" /\ work.proposal \in Proposals
  BY DEF IInv, Typed, SaveRepair, PatchControl, Patched, WorkType
<1> DEFINE repair == [status |-> "repair_proposed", count |-> manifest.repair.count + 1, proposal |-> work.proposal]
           later == IF manifest.repair.count > 0 THEN history.later \cup {work.proposal.id} ELSE history.later
<1>1. /\ pc = "repairWritten" /\ UNCHANGED <<workspace, disk>> /\ manifest' = [manifest EXCEPT !.repair = repair]
      /\ history' = [history EXCEPT !.kept = history.kept \cup {"repair"}, !.later = later]
      /\ IF work.proposal.kind \in Edits THEN pc' = "apply" /\ UNCHANGED work ELSE pc' = "finish" /\ ~work'.passed
  BY <1>0 DEF SaveRepair, Returns, WorkType
<1>2. repair.status = "repair_proposed" /\ repair.count > 0 /\ repair.proposal = work.proposal
  BY <1>0 DEF ManifestType
<1> HIDE DEF repair
<1>3. manifest'.patch = "applied" /\ manifest'.repair = repair
  BY <1>0, <1>1 DEF ManifestType
<1>4. /\ history'.torn = history.torn /\ history'.reviewed = history.reviewed
      /\ history'.later = later /\ history.later \subseteq later
      /\ manifest.repair.count > 0 => work.proposal.id \in later
  BY <1>0, <1>1 DEF HistoryType
<1> HIDE DEF later
<1>5. disk.report # None /\ disk.report.content = workspace /\ work.proposal.id \notin Within(workspace)
  BY <1>1 DEF PatchInv, FreshRepair, Current
<1>6. WholeFiles' /\ HalfWritten' /\ FirstPatch' /\ OrphanControl' /\ Concluded'
  BY <1>1, <1>2, <1>3, <1>4, <1>5 DEF PatchInv, WholeFiles, HalfWritten, FirstPatch, OrphanControl, Concluded, Whole,
                                Orphan, Stopped
<1>7. RepairControl' /\ FreshRepair'
  BY <1>1, <1>2, <1>3, <1>4, <1>5 DEF PatchInv, RepairControl, FreshRepair, OrphanControl, Pending, Current, Orphan, Stopped
<1>8. AllSeen'
  BY <1>1, <1>2, <1>3, <1>4, <1>5 DEF PatchInv, AllSeen, OrphanControl, Seen, Orphan, Stopped
<1> QED
  BY <1>6, <1>7, <1>8 DEF PatchInv

LEMMA PatchProposed == ASSUME IInv, PatchInv, NEW k \in Kinds, WriteRepair(k) PROVE PatchInv'
<1>0. /\ disk \in DiskType(disk.written) /\ work \in WorkType(disk.written) /\ disk.written \in Nat
      /\ workspace \in ContentsOf(disk.written)
  BY DEF IInv, Typed, DiskType
<1>1. /\ pc = "repair" /\ pc' = "repairWritten" /\ UNCHANGED <<workspace, manifest, history>>
      /\ disk'.index = disk.index /\ disk'.report = disk.report /\ disk'.receipt = disk.receipt
      /\ disk'.review = disk.review /\ disk'.repairReview = disk.repairReview /\ disk'.result = disk.result
      /\ work'.proposal.id = disk.written + 1
  BY <1>0 DEF WriteRepair, DiskType, WorkType, NewProposal
<1>2. disk.written + 1 \notin Within(workspace)
  <2>1. ASSUME NEW f \in Files PROVE disk.written + 1 \notin ToSet(workspace[f])
    <3>1. workspace[f] \in Seq(1..disk.written)
      BY <1>0 DEF ContentsOf
    <3>2. \A i \in DOMAIN workspace[f] : workspace[f][i] \in 1..disk.written
      BY <3>1, ElementOfSeq, LenProperties
    <3>3. disk.written + 1 \notin 1..disk.written
      BY <1>0
    <3> QED
      BY <3>2, <3>3 DEF ToSet
  <2> QED
    BY <2>1 DEF Within
<1> QED
  BY <1>1, <1>2 DEF PatchInv, WholeFiles, HalfWritten, FirstPatch, RepairControl, OrphanControl, FreshRepair,
                    AllSeen, Concluded, Whole, Seen, Orphan, Current, Pending, Stopped

LEMMA PatchVerified == ASSUME IInv, PatchInv, Verify PROVE PatchInv'
<1>0. /\ history \in HistoryType /\ work \in WorkType(disk.written) /\ manifest.patch = "applied"
  BY DEF IInv, Typed, Verify, PatchControl, Patched
<1>1. pc = "verify" /\ UNCHANGED <<workspace, manifest, disk>>
  BY DEF Verify
<1>2. history'.torn = history.torn /\ history'.reviewed = history.reviewed /\ history'.later = history.later
  BY <1>0, <1>1 DEF Verify, Follows, Raise, Losing, HistoryType
<1>3. \/ pc' = "project" /\ Orphan
      \/ pc' = "loop" /\ ~Orphan /\ disk.report = None
      \/ /\ pc' = "apply" /\ ~Orphan /\ Current /\ Pending
         /\ work' = [work EXCEPT !.proposal = manifest.repair.proposal, !.repairing = TRUE]
      \/ pc' = "judged" /\ ~Orphan /\ Current /\ ~Pending
      \/ pc' = "repairReview" /\ ~Orphan /\ disk.report # None /\ manifest.repair.status = "repair_applied"
      \/ pc' = "raised"
  BY DEF Verify, Follows, Raise, Pending
<1>4. pc' = "apply" => work'.proposal = manifest.repair.proposal
  BY <1>0, <1>3 DEF WorkType
<1> QED
  BY <1>0, <1>1, <1>2, <1>3, <1>4 DEF PatchInv, WholeFiles, HalfWritten, FirstPatch, RepairControl, OrphanControl, FreshRepair,
                    AllSeen, Concluded, Whole, Seen, Orphan, Current, Pending, Stopped

LEMMA PatchJudged == ASSUME IInv, PatchInv, JudgeProposal PROVE PatchInv'
<1>0. work \in WorkType(disk.written) /\ disk \in DiskType(disk.written) /\ manifest.patch # "applied"
  BY DEF IInv, Typed, JudgeProposal, PatchControl
<1>1. /\ pc = "judge" /\ UNCHANGED <<workspace, manifest, history>>
      /\ disk'.index = disk.index /\ disk'.report = disk.report /\ disk'.receipt = disk.receipt
      /\ disk'.review = disk.review /\ disk'.repairReview = disk.repairReview /\ disk'.result = disk.result
  BY <1>0 DEF JudgeProposal, DiskType
<1>2. pc' = "plan" \/ (pc' = "finish" /\ ~work'.passed) \/ (pc' = "apply" /\ ~work'.repairing)
  BY <1>0 DEF JudgeProposal, Returns, WorkType
<1> QED
  BY <1>0, <1>1, <1>2 DEF PatchInv, WholeFiles, HalfWritten, FirstPatch, RepairControl, OrphanControl, FreshRepair,
                          AllSeen, Concluded, Whole, Seen, Orphan, Current, Pending, Stopped

\* A saved report sends the call on, or ends it.
LEMMA PatchReviewStands == ASSUME IInv, PatchInv, ReviewStands \/ RepairReviewStands PROVE PatchInv'
<1>0. /\ history \in HistoryType /\ work \in WorkType(disk.written) /\ manifest.patch = "applied"
      /\ UNCHANGED <<workspace, manifest, disk>>
  BY DEF IInv, Typed, ReviewStands, RepairReviewStands, At, PatchControl, Patched
<1>1. history'.torn = history.torn /\ history'.reviewed = history.reviewed /\ history'.later = history.later
  BY <1>0 DEF ReviewStands, RepairReviewStands, At, Raise, Losing, HistoryType
<1>2. \/ pc = "review" /\ (pc' = "validate" \/ (pc' = "finish" /\ ~work'.passed)) /\ disk.review # "none"
      \/ pc = "repairReview" /\ pc' \in {"repairValidate", "raised"} /\ disk.repairReview # "none"
  BY <1>0 DEF ReviewStands, RepairReviewStands, At, Raise, Returns, WorkType
<1> QED
  BY <1>0, <1>1, <1>2 DEF PatchInv, WholeFiles, HalfWritten, FirstPatch, RepairControl, OrphanControl, FreshRepair,
                          AllSeen, Concluded, Whole, Seen, Orphan, Current, Pending, Stopped

LEMMA PatchValidated ==
  ASSUME IInv, PatchInv, NEW valid \in BOOLEAN, Validate(valid) \/ ValidateRepair(valid)
  PROVE  PatchInv'
<1>0. /\ history \in HistoryType /\ work \in WorkType(disk.written) /\ manifest.patch = "applied"
      /\ UNCHANGED <<workspace, manifest, disk>>
  BY DEF IInv, Typed, Validate, ValidateRepair, PatchControl, Patched
<1>1. history'.torn = history.torn /\ history'.reviewed = history.reviewed /\ history'.later = history.later
  BY <1>0 DEF Validate, ValidateRepair, Raise, Losing, HistoryType
<1>2. \/ pc = "validate" /\ (pc' = "verify" \/ (pc' = "finish" /\ ~work'.passed))
      \/ pc = "repairValidate" /\ pc' \in {"loop", "raised"}
  BY <1>0 DEF Validate, ValidateRepair, Raise, Returns, WorkType
<1> QED
  BY <1>0, <1>1, <1>2 DEF PatchInv, WholeFiles, HalfWritten, FirstPatch, RepairControl, OrphanControl, FreshRepair,
                          AllSeen, Concluded, Whole, Seen, Orphan, Current, Pending, Stopped

LEMMA PatchStep == ASSUME IInv, PatchInv, [Next]_vars PROVE PatchInv'
<1> USE DEF PatchInv, WholeFiles, HalfWritten, FirstPatch, RepairControl, OrphanControl, FreshRepair, AllSeen, Concluded,
            Whole, Seen, Orphan, Current, Pending, Stopped, At, Quiet
<1> USE DEF PlanControl, PatchControl, LoopControl, ManifestType, WorkType, HistoryType, Patched, Patching, Unplanned
<1>0. /\ manifest \in ManifestType /\ disk \in DiskType(disk.written) /\ work \in WorkType(disk.written)
      /\ history \in HistoryType
  BY DEF IInv, Typed
<1>g. /\ PlanControl /\ PatchControl /\ LoopControl
      /\ call.state # "idle" => call.purpose \in LlmPurposes /\ pc = Gate[call.purpose]
  BY DEF IInv, Requests, Gated
<1>1. CASE AskPlan \/ AskReview
  BY <1>0, <1>g, <1>1 DEF AskPlan, AskReview, Asks, taskVars
<1>2. CASE AskProposal
  BY <1>0, <1>g, <1>2 DEF AskProposal, Proposes
<1>3. CASE AskRepair
  BY <1>0, <1>g, <1>3 DEF AskRepair
<1>4. CASE WritePlan
  BY <1>0, <1>g, <1>4 DEF WritePlan, DiskType
<1>5. CASE PlanFails
  BY <1>0, <1>g, <1>5 DEF PlanFails, Returns
<1>6. CASE RequestFails
  BY <1>0, <1>g, <1>6 DEF RequestFails, Raise, Losing
<1>7. CASE Stop
  BY <1>0, <1>g, <1>7 DEF Stop, Losing
<1>8. CASE \E k \in Kinds : WriteProposal(k)
  BY <1>0, <1>g, <1>8 DEF WriteProposal, DiskType
<1>9. CASE Launch
  BY <1>0, <1>g, <1>9 DEF Launch
<1>10. CASE ProcessDoubtful
  BY <1>0, <1>g, <1>10 DEF ProcessDoubtful, Raise, Losing
<1>11. CASE \E passed \in BOOLEAN : ProcessEnds(passed)
  BY <1>0, <1>g, <1>11 DEF ProcessEnds, DiskType
<1>12. CASE SavePlan
  BY <1>0, <1>g, <1>12 DEF SavePlan, ManifestType
<1>13. CASE Approve
  BY <1>0, <1>g, <1>13 DEF Approve, ManifestType
<1>14. CASE ProposalStands
  BY <1>0, <1>g, <1>14 DEF ProposalStands, Proposes
<1>15. CASE SaveProposal
  BY <1>0, <1>g, <1>15 DEF SaveProposal, ManifestType
<1>16. CASE JudgeProposal
  BY <1>16, PatchJudged
<1>17. CASE PatchStands
  BY <1>0, <1>g, <1>17 DEF PatchStands
<1>18. CASE ReviewStands
  BY <1>18, PatchReviewStands
<1>19. CASE RepairReviewStands
  BY <1>19, PatchReviewStands
<1>20. CASE \E valid \in BOOLEAN : Validate(valid)
  BY <1>20, PatchValidated
<1>21. CASE \E valid \in BOOLEAN : ValidateRepair(valid)
  BY <1>21, PatchValidated
<1>22. CASE Conclude
  BY <1>0, <1>g, <1>22 DEF Conclude
<1>23. CASE Finish
  BY <1>0, <1>g, <1>23 DEF Finish, DiskType
<1>24. CASE Resume
  BY <1>0, <1>g, <1>24 DEF Resume, ResumeAllowed, HashesAgree, NoWork
<1>25. CASE Interrupt
  BY <1>0, <1>g, <1>25 DEF Interrupt, Cancelled, Gate, LlmPurposes
<1>26. CASE (CallNext /\ UNCHANGED taskVars) \/ UNCHANGED vars
  BY <1>0, <1>g, <1>26 DEF taskVars, vars
<1>27. CASE \E f \in Files : WriteFile(f)
  BY <1>27, PatchWritten
<1>28. CASE \E restored \in SUBSET Files : WriteFails(restored)
  BY <1>28, PatchAbandoned
<1>29. CASE \E s \in {"passed", "failed"} : WriteReview(s)
  BY <1>29, PatchReviewed
<1>30. CASE \E k \in Kinds : WriteRepair(k)
  BY <1>30, PatchProposed
<1>31. CASE Capture \/ RejectPatch \/ Index \/ SaveApplied
  BY <1>31, PatchCaptured, PatchRejected, PatchIndexed, PatchApplied
<1>32. CASE Verify \/ Project \/ SaveRepair
  BY <1>32, PatchVerified, PatchProjected, PatchRepaired
<1> QED
  BY <1>1, <1>2, <1>3, <1>4, <1>5, <1>6, <1>7, <1>8, <1>9, <1>10, <1>11, <1>12, <1>13, <1>14, <1>15, <1>16,
     <1>17, <1>18, <1>19, <1>20, <1>21, <1>22, <1>23, <1>24, <1>25, <1>26, <1>27, <1>28, <1>29, <1>30, <1>31, <1>32 DEF Next, TaskNext

\* A proposal that is in a whole content is in every file equally often, once.
LEMMA WholeIsOnce ==
  ASSUME NEW n \in Nat, NEW c \in ContentsOf(n), Whole(c), NEW id \in Within(c)
  PROVE  /\ \A f, g \in Files : Times(c[f], id) = Times(c[g], id)
         /\ \A f \in Files : Times(c[f], id) = 1 \/ history.torn
<1>1. \A f, g \in Files : Times(c[f], id) = Times(c[g], id)
  BY DEF Whole, Same
<1>2. ASSUME NEW f \in Files, ~history.torn PROVE Times(c[f], id) = 1
  <2>1. id \in ToSet(c[f])
    BY DEF Whole, Same, Within
  <2>2. PICK k \in DOMAIN c[f] : c[f][k] = id
    BY <2>1 DEF ToSet
  <2>3. {i \in DOMAIN c[f] : c[f][i] = id} = {k}
    BY <1>2, <2>2 DEF Whole, Once
  <2> QED
    BY <2>3, FS_Singleton DEF Times
<1> QED
  BY <1>1, <1>2

LEMMA PatchInit == Init => PatchInv
<1> SUFFICES ASSUME Init PROVE PatchInv
  OBVIOUS
<1> DEFINE empty == [f \in Files |-> <<>>]
<1>1. /\ pc = "plan" /\ workspace = empty /\ disk.index = empty /\ disk.report = None /\ disk.receipt = None
      /\ disk.review = "none" /\ disk.repairReview = "none" /\ disk.result = "none"
      /\ manifest.repair.status = "none" /\ manifest.repair.count = 0
  BY DEF Init, NoRepair
<1>2. Whole(empty)
  <2>1. DOMAIN <<>> = {}
    OBVIOUS
  <2> QED
    BY <2>1 DEF Whole, Same, Once
<1> QED
  BY <1>1, <1>2 DEF PatchInv, WholeFiles, HalfWritten, FirstPatch, RepairControl, OrphanControl, FreshRepair,
                    AllSeen, Concluded, Orphan, Current, Pending, Stopped

\* Wherever the call stops while it writes, and however often it is resumed and
\* repairs: the validator sees whole and reviewed patches only, and a validated
\* result is of what it saw (apply_patch_edits, implementation_resume_allowed,
\* verify_implementation).
THEOREM PatchesAreWhole == Spec => []WholePatchesOnly
<1>1. IInv /\ PatchInv /\ [Next]_vars => PatchInv'
  BY PatchStep
<1>2. IInv /\ PatchInv => WholePatchesOnly
  <2> SUFFICES ASSUME IInv, PatchInv PROVE WholePatchesOnly
    OBVIOUS
  <2>1. workspace \in ContentsOf(disk.written) /\ disk.written \in Nat /\ Applied = Within(workspace)
    BY DEF IInv, Typed, DiskType, Applied, Within
  <2>2. disk.result = "validated" => Current /\ disk.report.passed
    BY DEF PatchInv, Concluded
  <2>3. ASSUME pc = "running" \/ disk.result = "validated" PROVE Whole(workspace) /\ Within(workspace) \subseteq Seen
    BY <2>2, <2>3 DEF PatchInv, WholeFiles, AllSeen, Current, Stopped
  <2> QED
    BY <2>1, <2>2, <2>3, WholeIsOnce DEF WholePatchesOnly, Seen
<1> QED
  BY <1>1, <1>2, PatchInit, Always, PTL DEF Spec
=============================================================================
