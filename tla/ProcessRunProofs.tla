-------------------------- MODULE ProcessRunProofs --------------------------
(***************************************************************************)
(* What one invocation may leave in its receipt and in the ledger, for any *)
(* streams, output, timeouts, failing writes, interrupts and crashes.      *)
(***************************************************************************)
EXTENDS ProcessRun, TLAPS

----------------------------------------------------------------------------
(* The charge.  The steps of the ledger are seen through the status and the *)
(* amount of the one entry, in the object and in the file.                  *)

Statuses == {"reserved", "settled", "released", "unknown"}
Paid(l) == l.entries[Invocation].actual

IsAccount(l) ==
  /\ DOMAIN l = {"limits", "entries", "order"}
  /\ Invocation \in DOMAIN l.entries =>
       /\ DOMAIN l.entries[Invocation] = {"reserved", "actual", "status", "source"}
       /\ l.entries[Invocation].status \in Statuses

\* The file is the object, or as it was before a write that failed.
Accounts ==
  /\ IsAccount(ledger) /\ IsAccount(ledgerFile)
  /\ Status(ledger) = "none" => Status(ledgerFile) = "none"
  /\ Status(ledgerFile) \notin {"none", "reserved"} =>
       Status(ledgerFile) = Status(ledger) /\ Paid(ledgerFile) = Paid(ledger)

LEMMA StatusIs ==
  ASSUME NEW l, IsAccount(l)
  PROVE  /\ Status(l) \in {"none"} \cup Statuses
         /\ Status(l) = "none" <=> Invocation \notin DOMAIN l.entries
BY DEF IsAccount, Status, Statuses

LEMMA PutIs ==
  ASSUME NEW l, IsAccount(l), NEW e, e.status \in Statuses,
         DOMAIN e = {"reserved", "actual", "status", "source"}
  PROVE  LET k == Ledger!Put(l, Invocation, e)
         IN  IsAccount(k) /\ Status(k) = e.status /\ Paid(k) = e.actual
<1> DEFINE k == Ledger!Put(l, Invocation, e)
           entries == [j \in DOMAIN l.entries \cup {Invocation} |->
                         IF j = Invocation THEN e ELSE l.entries[j]]
<1>1. k.entries = entries /\ DOMAIN k = {"limits", "entries", "order"}
  BY DEF Ledger!Put, IsAccount
<1>2. Invocation \in DOMAIN entries /\ entries[Invocation] = e  OBVIOUS
<1>3. Invocation \in DOMAIN k.entries /\ k.entries[Invocation] = e  BY <1>1, <1>2
<1> HIDE DEF k, entries
<1>4. IsAccount(k) /\ Status(k) = e.status /\ Paid(k) = e.actual
  BY <1>1, <1>3 DEF IsAccount, Status, Paid
<1>5. QED  BY <1>4 DEF k

\* A mutation, and its write if that did not fail.
LEMMA PersistIs ==
  ASSUME Accounts, NEW e, e.status \in Statuses,
         DOMAIN e = {"reserved", "actual", "status", "source"},
         Status(ledger) = "reserved" \/ (Status(ledger) = "none" /\ e.status = "reserved"),
         Ledger!Persist(Ledger!Put(ledger, Invocation, e))
  PROVE  /\ Accounts' /\ Status(ledger)' = e.status /\ Paid(ledger)' = e.actual
         /\ ledgerFile' = ledger' \/ ledgerFile' = ledgerFile
<1>1. ledger' = Ledger!Put(ledger, Invocation, e)
      /\ (ledgerFile' = ledger' \/ ledgerFile' = ledgerFile)
  BY DEF Ledger!Persist
<1>2. IsAccount(ledger)' /\ Status(ledger)' = e.status /\ Paid(ledger)' = e.actual
  BY <1>1, PutIs DEF Accounts, IsAccount, Status, Paid
<1>3. CASE ledgerFile' = ledger'
  BY <1>2, <1>3 DEF Accounts, IsAccount, Status, Paid
<1>4. CASE ledgerFile' = ledgerFile
  <2>1. IsAccount(ledgerFile)' /\ Status(ledgerFile)' = Status(ledgerFile)
        /\ Status(ledgerFile) \in {"none", "reserved"}
    BY <1>4 DEF Accounts, IsAccount, Status
  <2>2. QED  BY <1>1, <1>2, <2>1 DEF Accounts, Statuses
<1>5. QED  BY <1>1, <1>2, <1>3, <1>4

LEMMA ReserveIs ==
  ASSUME Accounts, Claim
  PROVE  /\ Status(ledger) = "none" /\ Status(ledgerFile) = "none"
         /\ Accounts' /\ Status(ledger)' = "reserved"
         /\ ledgerFile' = ledger' \/ ledgerFile' = ledgerFile
<1> DEFINE e == Ledger!NewEntry(Bill(Timeout))
<1>1. Status(ledger) = "none" /\ Status(ledgerFile) = "none"
  BY DEF Claim, Accounts, Status
<1>2. e.status = "reserved" /\ DOMAIN e = {"reserved", "actual", "status", "source"}
  BY DEF Ledger!NewEntry
<1>3. Ledger!Persist(Ledger!Put(ledger, Invocation, e))  BY DEF Claim, Ledger!Reserve
<1> HIDE DEF e
<1>4. QED  BY <1>1, <1>2, <1>3, PersistIs DEF Statuses

LEMMA SettleIs ==
  ASSUME Accounts, SettleRecord
  PROVE  /\ Status(ledger) = "reserved" /\ receipt.status \in Final
         /\ Accounts' /\ Status(ledger)' = "settled" /\ Paid(ledger)' = Bill(receipt.duration)
         /\ ledgerFile' = ledger' \/ ledgerFile' = ledgerFile
<1> DEFINE e == [ledger.entries[Invocation] EXCEPT
                   !.actual = Bill(receipt.duration), !.status = "settled", !.source = "measured"]
<1>1. Invocation \in DOMAIN ledger.entries /\ Status(ledger) = "reserved" /\ receipt.status \in Final
  BY DEF SettleRecord, Ledger!Settle, Ledger!CanSettle, Status
<1>2. /\ e.status = "settled" /\ e.actual = Bill(receipt.duration)
      /\ DOMAIN e = {"reserved", "actual", "status", "source"}
  BY <1>1 DEF Accounts, IsAccount
<1>3. Ledger!Persist(Ledger!Put(ledger, Invocation, e))  BY DEF SettleRecord, Ledger!Settle
<1> HIDE DEF e
<1>4. QED  BY <1>1, <1>2, <1>3, PersistIs DEF Statuses

LEMMA ReleaseIs ==
  ASSUME Accounts, Ledger!Release(Invocation)
  PROVE  /\ Status(ledger) = "reserved"
         /\ Accounts' /\ Status(ledger)' = "released"
         /\ ledgerFile' = ledger' \/ ledgerFile' = ledgerFile
<1> DEFINE e == [ledger.entries[Invocation] EXCEPT !.status = "released"]
<1>1. Invocation \in DOMAIN ledger.entries /\ Status(ledger) = "reserved"
  BY DEF Ledger!Release, Status
<1>2. e.status = "released" /\ DOMAIN e = {"reserved", "actual", "status", "source"}
  BY <1>1 DEF Accounts, IsAccount
<1>3. Ledger!Persist(Ledger!Put(ledger, Invocation, e))  BY DEF Ledger!Release
<1> HIDE DEF e
<1>4. QED  BY <1>1, <1>2, <1>3, PersistIs DEF Statuses

LEMMA DoubtIs ==
  ASSUME Accounts, Doubt
  PROVE  /\ Status(ledger) = "reserved"
         /\ Accounts' /\ Status(ledger)' = "unknown"
         /\ ledgerFile' = ledger' \/ ledgerFile' = ledgerFile
<1> DEFINE e == [ledger.entries[Invocation] EXCEPT
                   !.actual = NoAmounts, !.status = "unknown", !.source = "none"]
<1>1. Invocation \in DOMAIN ledger.entries /\ Status(ledger) = "reserved"
  BY DEF Doubt, Ledger!MarkUnknown, Status
<1>2. e.status = "unknown" /\ DOMAIN e = {"reserved", "actual", "status", "source"}
  BY <1>1 DEF Accounts, IsAccount
<1>3. Ledger!Persist(Ledger!Put(ledger, Invocation, e))  BY DEF Doubt, Ledger!MarkUnknown
<1> HIDE DEF e
<1>4. QED  BY <1>1, <1>2, <1>3, PersistIs DEF Statuses

LEMMA RestartIs ==
  ASSUME Accounts, Ledger!Restart
  PROVE  /\ Accounts' /\ Status(ledger)' = Status(ledgerFile)
         /\ Paid(ledger)' = Paid(ledgerFile) /\ UNCHANGED ledgerFile
BY DEF Accounts, Ledger!Restart, IsAccount, Status, Paid

LEMMA ChargeKept ==
  ASSUME Accounts, UNCHANGED charge
  PROVE  /\ Accounts' /\ Status(ledger)' = Status(ledger) /\ Paid(ledger)' = Paid(ledger)
         /\ Status(ledgerFile)' = Status(ledgerFile) /\ Paid(ledgerFile)' = Paid(ledgerFile)
BY DEF charge, Accounts, IsAccount, Status, Paid

----------------------------------------------------------------------------
(* The call: what holds at each place of the calling thread                 *)

AfterLaunch == {"launched", "supervising", "checking", "closing", "joining",
                "finishing", "settling"}

\* A call under way holds an open charge that is in the file, too; a child is
\* started once, by the call whose charge it was.
OneLaunch ==
  /\ launches \in {0, 1} /\ crashes \in Nat
  /\ sup # "idle" =>
       Status(ledger) = "reserved" /\ Status(ledgerFile) # "none" /\ outcome # "returned"
  /\ sup \in {"preflight", "starting"} => launches = 0
  /\ sup \in {"starting", "launched"} => receipt.status = "starting"
  /\ sup \in AfterLaunch => launches = 1
  /\ launches = 1 => Status(ledgerFile) # "none" /\ ~NotLaunched

\* The child of a closed receipt, and of a call past the kill, has exited.
ChildGone ==
  /\ child # "none" => launches = 1
  /\ sup \in {"joining", "finishing", "settling"} => child = "exited"
  /\ receipt.status \in Final => child = "exited"
  /\ sup = "settling" => receipt.status \in Final

CallInv ==
  /\ Accounts /\ OneLaunch /\ ChildGone
  /\ ReleasedNeverRan /\ NoOpenCharge /\ SettledAsRecorded

\* A thread that saw the end of its pipe has taken all there was.
PipesDrained ==
  /\ reader \in [Streams -> {"unstarted", "reading", "failed", "done"}]
  /\ written \in [Streams -> Nat] /\ seen \in [Streams -> Nat]
  /\ launches = 0 => \A s \in Streams : reader[s] = "unstarted"
  /\ \A s \in Streams : reader[s] = "done" =>
       seen[s] = written[s] /\ ~ChildAlive /\ helper = "none"

AllDone == \A s \in Streams : reader[s] = "done"

\* No call finishes with a thread that never started or still reads.
ThreadsJoined ==
  /\ (sup \in {"supervising", "checking", "finishing"}
        \/ (sup \in {"closing", "joining"} /\ ~doomed)) =>
       \A s \in Streams : reader[s] # "unstarted"
  /\ sup = "finishing" => \A s \in Streams : reader[s] # "reading"

ReceiptHasAll ==
  /\ receipt.status \in Final /\ receipt.stop_reason # "output_error" =>
       AllDone /\ \A s \in Streams : receipt.streams[s] = seen[s]
  /\ receipt.status = "finished" => receipt.stop_reason # "output_error"
  /\ sup = "settling" => receipt.stop_reason # "output_error"
  /\ outcome = "returned" => AllDone

OutputInv == PipesDrained /\ ThreadsJoined /\ ReceiptHasAll

LEMMA CallInvInit == Init => CallInv
<1> SUFFICES ASSUME Init PROVE CallInv  OBVIOUS
<1>1. Status(ledger) = "none" /\ ledgerFile = ledger /\ IsAccount(ledger)
  BY DEF Init, Status, IsAccount, Ledger!EmptyLedger
<1>2. Accounts  BY <1>1 DEF Accounts
<1> QED
  BY <1>1, <1>2 DEF Init, CallInv, OneLaunch, ChildGone, AfterLaunch, NotLaunched, Final, NoReceipt,
     ReleasedNeverRan, NoOpenCharge, SettledAsRecorded

LEMMA CheckIs ==
  ASSUME CheckStops
  PROVE  /\ sup = "checking" /\ sup' \in {"supervising", "closing"}
         /\ UNCHANGED <<doomed, receipt, child, helper, output, signals, charge, history>>
BY Zenon DEF CheckStops

LEMMA InterruptIs ==
  ASSUME Interrupt
  PROVE  /\ sup \in {"supervising", "checking"} => sup' = "closing" /\ doomed'
         /\ sup = "settling" => sup' = "idle" /\ outcome' = "raised"
         /\ sup \notin {"supervising", "checking", "settling"} => sup' = "failed"
         /\ sup # "settling" => outcome' = outcome
         /\ sup # "idle"
         /\ UNCHANGED <<stop, receipt, child, helper, output, signals, charge, launches, crashes>>
BY DEF Interrupt

\* A step of the calling thread that leaves the ledger alone.
LEMMA QuietStepKeepsCall ==
  ASSUME CallInv, UNCHANGED charge,
         \/ RunProcessRefused \/ PreflightFails \/ SaveStarting \/ LaunchFails \/ Launch
         \/ BeginSupervision \/ SupervisionFails \/ Poll \/ CheckStops
         \/ Kill \/ Join \/ JoinTimesOut \/ Finish \/ FinishFails \/ Interrupt
  PROVE  CallInv'
<1> USE DEF history, signals, output, AfterLaunch, Final
<1>0. /\ Accounts' /\ Status(ledger)' = Status(ledger) /\ Paid(ledger)' = Paid(ledger)
      /\ Status(ledgerFile)' = Status(ledgerFile) /\ Paid(ledgerFile)' = Paid(ledgerFile)
  BY ChargeKept DEF CallInv
<1>1. OneLaunch' /\ ChildGone'
  <2> USE <1>0 DEF CallInv, OneLaunch, ChildGone, NotLaunched, Open, Closed, ChildAlive
  <2>1. CASE RunProcessRefused \/ PreflightFails \/ SaveStarting
    BY <2>1 DEF RunProcessRefused, PreflightFails, SaveStarting
  <2>2. CASE LaunchFails \/ Launch
    BY <2>2 DEF LaunchFails, Launch
  <2>3. CASE BeginSupervision \/ SupervisionFails
    BY <2>3 DEF BeginSupervision, SupervisionFails
  <2>4. CASE Poll \/ Kill
    BY <2>4 DEF Poll, Kill
  <2>5. CASE CheckStops  BY <2>5, CheckIs
  <2>6. CASE Join \/ JoinTimesOut
    BY <2>6 DEF Join, JoinTimesOut
  <2>7. CASE Finish \/ FinishFails
    BY <2>7 DEF Finish, FinishFails
  <2>8. CASE Interrupt  BY <2>8, InterruptIs
  <2> QED  BY <2>1, <2>2, <2>3, <2>4, <2>5, <2>6, <2>7, <2>8
<1>2. CASE sup' # "idle"
  <2>1. ReleasedNeverRan' /\ SettledAsRecorded' /\ NoOpenCharge'
    BY <1>0, <1>1, <1>2 DEF Accounts, OneLaunch, ReleasedNeverRan, SettledAsRecorded, NoOpenCharge
  <2> QED  BY <1>0, <1>1, <2>1 DEF CallInv
<1>3. CASE sup' = "idle"
  <2>1. /\ UNCHANGED <<launches, receipt, crashes>>
        /\ sup = "idle" \/ receipt.status \in Final
    BY <1>3, InterruptIs, CheckIs DEF CallInv, ChildGone, RunProcessRefused, PreflightFails,
       SaveStarting, LaunchFails, Launch, BeginSupervision, SupervisionFails, Poll, Kill, Join,
       JoinTimesOut, Finish, FinishFails
  <2>2. ReleasedNeverRan' /\ SettledAsRecorded' /\ NoOpenCharge'
    BY <1>0, <2>1, <1>3 DEF CallInv, ReleasedNeverRan, SettledAsRecorded, NoOpenCharge, charge, Paid
  <2> QED  BY <1>0, <1>1, <2>2 DEF CallInv
<1> QED  BY <1>2, <1>3

\* A step that changes the ledger, in the order of run_process.
LEMMA ChargeStepKeepsCall ==
  ASSUME CallInv, RunProcess \/ Settle \/ HandleFailure \/ Recover \/ Crash
  PROVE  CallInv'
<1> USE DEF history, signals, output, AfterLaunch
<1> DEFINE Result == ReleasedNeverRan' /\ SettledAsRecorded' /\ NoOpenCharge'
<1>0. Accounts /\ OneLaunch /\ ChildGone /\ ReleasedNeverRan /\ NoOpenCharge /\ SettledAsRecorded
  BY DEF CallInv
<1>1. CASE RunProcess
  <2>1. Claim /\ sup = "idle" /\ UNCHANGED <<receipt, child, launches, crashes>>
        /\ \/ ledgerFile' = ledger' /\ sup' = "preflight" /\ outcome' = "none"
           \/ sup' = "idle" /\ outcome' = "raised"
    BY <1>1 DEF RunProcess
  <2>2. /\ Status(ledger) = "none" /\ Status(ledgerFile) = "none"
        /\ Accounts' /\ Status(ledger)' = "reserved"
        /\ ledgerFile' = ledger' \/ ledgerFile' = ledgerFile
    BY <1>0, <2>1, ReserveIs
  <2>3. launches = 0  BY <1>0, <2>2 DEF OneLaunch
  <2>4. Status(ledgerFile)' \in {"none", "reserved"}
        /\ (ledgerFile' = ledger' => Status(ledgerFile)' = "reserved")
    BY <2>2 DEF Status
  <2>5. OneLaunch' /\ ChildGone'
    BY <1>0, <2>1, <2>2, <2>3, <2>4 DEF OneLaunch, ChildGone, NotLaunched
  <2>6. Result
    BY <2>1, <2>2, <2>3, <2>4 DEF ReleasedNeverRan, SettledAsRecorded, NoOpenCharge
  <2> QED  BY <2>2, <2>5, <2>6 DEF CallInv
<1>2. CASE Settle \/ Recover \/ (HandleFailure /\ SettleRecord)
  <2>1. SettleRecord /\ sup' = "idle" /\ UNCHANGED <<receipt, child, launches, crashes>>
    BY <1>2 DEF Settle, Recover, HandleFailure
  <2>2. /\ Status(ledger) = "reserved" /\ receipt.status \in Final
        /\ Accounts' /\ Status(ledger)' = "settled" /\ Paid(ledger)' = Bill(receipt.duration)
        /\ ledgerFile' = ledger' \/ ledgerFile' = ledgerFile
    BY <1>0, <2>1, SettleIs
  <2>3. \/ Status(ledgerFile)' = "settled" /\ Paid(ledgerFile)' = Bill(receipt.duration)
        \/ Status(ledgerFile)' = Status(ledgerFile) /\ Status(ledgerFile)' \in {"none", "reserved"}
    BY <1>0, <2>2 DEF Accounts, Status, Paid
  <2>4. OneLaunch' /\ ChildGone'
    BY <1>0, <2>1, <2>2, <2>3 DEF OneLaunch, ChildGone, NotLaunched
  <2>5. Result
    BY <2>1, <2>2, <2>3 DEF ReleasedNeverRan, SettledAsRecorded, NoOpenCharge, Paid
  <2> QED  BY <2>2, <2>4, <2>5 DEF CallInv
<1>3. CASE HandleFailure /\ NotLaunched /\ Ledger!Release(Invocation)
  <2>1. sup' = "idle" /\ UNCHANGED <<receipt, child, launches, crashes>>
    BY <1>3 DEF HandleFailure
  <2>2. /\ Status(ledger) = "reserved" /\ Accounts' /\ Status(ledger)' = "released"
        /\ ledgerFile' = ledger' \/ ledgerFile' = ledgerFile
    BY <1>0, <1>3, ReleaseIs
  <2>3. launches = 0  BY <1>0, <1>3 DEF OneLaunch
  <2>4. \/ Status(ledgerFile)' = "released"
        \/ Status(ledgerFile)' = Status(ledgerFile) /\ Status(ledgerFile)' \in {"none", "reserved"}
    BY <1>0, <2>2 DEF Accounts, Status
  <2>5. OneLaunch' /\ ChildGone'
    BY <1>0, <2>1, <2>2, <2>3, <2>4 DEF OneLaunch, ChildGone, NotLaunched
  <2>6. Result
    BY <2>1, <2>2, <2>3, <2>4 DEF ReleasedNeverRan, SettledAsRecorded, NoOpenCharge
  <2> QED  BY <2>2, <2>5, <2>6 DEF CallInv
<1>4. CASE HandleFailure /\ Doubt
  <2>1. sup' = "idle" /\ UNCHANGED <<receipt, child, launches, crashes>>
    BY <1>4 DEF HandleFailure
  <2>2. /\ Status(ledger) = "reserved" /\ Accounts' /\ Status(ledger)' = "unknown"
        /\ ledgerFile' = ledger' \/ ledgerFile' = ledgerFile
    BY <1>0, <1>4, DoubtIs
  <2>3. \/ Status(ledgerFile)' = "unknown"
        \/ Status(ledgerFile)' = Status(ledgerFile) /\ Status(ledgerFile)' \in {"none", "reserved"}
    BY <1>0, <2>2 DEF Accounts, Status
  <2>4. OneLaunch' /\ ChildGone'
    BY <1>0, <2>1, <2>2, <2>3 DEF OneLaunch, ChildGone, NotLaunched
  <2>5. Result
    BY <2>1, <2>2, <2>3 DEF ReleasedNeverRan, SettledAsRecorded, NoOpenCharge
  <2> QED  BY <2>2, <2>4, <2>5 DEF CallInv
<1>5. CASE Crash
  <2>1. Ledger!Restart /\ sup' = "idle" /\ crashes' = crashes + 1
        /\ UNCHANGED <<receipt, child, launches>>
    BY <1>5 DEF Crash
  <2>2. /\ Accounts' /\ Status(ledger)' = Status(ledgerFile)
        /\ Paid(ledger)' = Paid(ledgerFile) /\ ledgerFile' = ledgerFile
    BY <1>0, <2>1, RestartIs
  <2>3. Status(ledgerFile)' = Status(ledgerFile) /\ Paid(ledgerFile)' = Paid(ledgerFile)
    BY <2>2 DEF Status, Paid
  <2>4. OneLaunch' /\ ChildGone'
    BY <1>0, <2>1, <2>2, <2>3 DEF OneLaunch, ChildGone, NotLaunched
  <2>5. Result
    BY <1>0, <2>1, <2>2, <2>3 DEF OneLaunch, ReleasedNeverRan, SettledAsRecorded, NoOpenCharge, Paid
  <2> QED  BY <2>2, <2>4, <2>5 DEF CallInv
<1> QED  BY <1>1, <1>2, <1>3, <1>4, <1>5 DEF HandleFailure

\* What runs beside the calling thread touches neither its place nor the ledger.
LEMMA OutsideStepKeepsCall ==
  ASSUME CallInv,
         UNCHANGED <<sup, receipt, charge, history>>, child' \in {child, "exited"},
         child = "none" => child' = "none"
  PROVE  CallInv'
<1>0. /\ Accounts' /\ Status(ledger)' = Status(ledger) /\ Paid(ledger)' = Paid(ledger)
      /\ Status(ledgerFile)' = Status(ledgerFile) /\ Paid(ledgerFile)' = Paid(ledgerFile)
  BY ChargeKept DEF CallInv
<1>1. OneLaunch' /\ ChildGone'
  BY <1>0 DEF CallInv, OneLaunch, ChildGone, NotLaunched, history
<1>2. ReleasedNeverRan' /\ SettledAsRecorded' /\ NoOpenCharge'
  BY <1>0 DEF CallInv, ReleasedNeverRan, SettledAsRecorded, NoOpenCharge, charge, history, Paid
<1> QED  BY <1>0, <1>1, <1>2 DEF CallInv

LEMMA StepKeepsCall == CallInv /\ [Next]_vars => CallInv'
<1> SUFFICES ASSUME CallInv, [Next]_vars PROVE CallInv'  OBVIOUS
<1>1. CASE \/ RunProcessRefused \/ PreflightFails \/ SaveStarting \/ LaunchFails \/ Launch
           \/ BeginSupervision \/ SupervisionFails \/ Poll \/ Kill \/ Join \/ JoinTimesOut
           \/ Finish \/ FinishFails \/ CheckStops \/ Interrupt
  <2>1. UNCHANGED charge
    BY <1>1, CheckIs, InterruptIs DEF RunProcessRefused, PreflightFails, SaveStarting, LaunchFails,
       Launch, BeginSupervision, SupervisionFails, Poll, Kill, Join, JoinTimesOut, Finish, FinishFails
  <2> QED  BY <1>1, <2>1, QuietStepKeepsCall
<1>2. CASE RunProcess \/ Settle \/ HandleFailure \/ Recover \/ Crash
  BY <1>2, ChargeStepKeepsCall
<1>3. CASE \/ ChildExits \/ HelperExits \/ Cancel \/ TimerExpires \/ UNCHANGED vars
           \/ \E s \in Streams : ChildWrites(s) \/ ReaderReads(s) \/ ReaderFails(s) \/ ReaderEnds(s)
  <2>1. /\ UNCHANGED <<sup, receipt, charge, history>> /\ child' \in {child, "exited"}
        /\ child = "none" => child' = "none"
    BY <1>3 DEF ChildExits, ChildAlive, HelperExits, Cancel, TimerExpires, vars, ChildWrites,
       ReaderReads, ReaderFails, ReaderEnds
  <2> QED  BY <2>1, OutsideStepKeepsCall
<1> QED  BY <1>1, <1>2, <1>3 DEF Next, Supervise

----------------------------------------------------------------------------
(* The output: what the threads have taken when the receipt is closed       *)

LEMMA OutputInvInit == Init => OutputInv
BY DEF Init, OutputInv, PipesDrained, ThreadsJoined, ReceiptHasAll, Readers, AllDone, Final, NoReceipt

LEMMA CallerStepKeepsPipes ==
  ASSUME CallInv, OutputInv,
         RunProcess \/ RunProcessRefused \/ Supervise \/ Interrupt \/ Recover
  PROVE  PipesDrained'
<1> USE DEF OutputInv, PipesDrained, output
<1>1. CASE Launch
  <2>1. launches = 0 /\ launches' = 1  BY <1>1 DEF CallInv, OneLaunch, Launch
  <2>2. \A s \in Streams : reader'[s] = "unstarted"  BY <1>1, <2>1 DEF Launch
  <2> QED  BY <1>1, <2>1, <2>2 DEF Launch
<1>2. CASE BeginSupervision \/ SupervisionFails
  <2>1. launches' = 1 /\ UNCHANGED <<written, seen>>
    BY <1>2 DEF CallInv, OneLaunch, AfterLaunch, BeginSupervision, SupervisionFails, history
  <2>2. reader' \in [Streams -> {"unstarted", "reading"}]
    BY <1>2 DEF BeginSupervision, SupervisionFails, Readers
  <2> QED  BY <2>1, <2>2
<1>3. CASE Kill
  BY <1>3 DEF Kill, ChildAlive, history
<1>4. CASE CheckStops \/ Interrupt
  BY <1>4, CheckIs, InterruptIs DEF ChildAlive, history
<1>5. CASE RunProcess \/ RunProcessRefused \/ Recover \/ PreflightFails \/ SaveStarting
           \/ LaunchFails \/ Poll \/ Join \/ JoinTimesOut \/ Finish \/ FinishFails
           \/ Settle \/ HandleFailure
  <2>1. UNCHANGED <<output, child, helper, launches>>
    BY <1>5 DEF RunProcess, RunProcessRefused, Recover, PreflightFails, SaveStarting, LaunchFails,
       Poll, Join, JoinTimesOut, Finish, FinishFails, Settle, HandleFailure, history
  <2> QED  BY <2>1 DEF ChildAlive
<1> QED  BY <1>1, <1>2, <1>3, <1>4, <1>5 DEF Supervise

\* The threads of a call that reaches its end have been started and joined.
LEMMA CallerStepKeepsThreads ==
  ASSUME CallInv, OutputInv,
         RunProcess \/ RunProcessRefused \/ Supervise \/ Interrupt \/ Recover
  PROVE  ThreadsJoined'
<1> USE DEF OutputInv, ThreadsJoined, output
<1>1. CASE BeginSupervision \/ SupervisionFails
  BY <1>1 DEF BeginSupervision, SupervisionFails, Readers
<1>2. CASE CheckStops \/ Interrupt
  BY <1>2, CheckIs, InterruptIs
<1>3. CASE Poll \/ Kill \/ Join \/ JoinTimesOut
  BY <1>3 DEF Poll, Kill, Join, JoinTimesOut
<1>4. CASE RunProcess \/ RunProcessRefused \/ Recover \/ PreflightFails \/ SaveStarting
           \/ LaunchFails \/ Launch \/ Finish \/ FinishFails \/ Settle \/ HandleFailure
  BY <1>4 DEF RunProcess, RunProcessRefused, Recover, PreflightFails, SaveStarting, LaunchFails,
     Launch, Finish, FinishFails, Settle, HandleFailure
<1> QED  BY <1>1, <1>2, <1>3, <1>4 DEF Supervise

LEMMA CallerStepKeepsReceipt ==
  ASSUME CallInv, OutputInv,
         RunProcess \/ RunProcessRefused \/ Supervise \/ Interrupt \/ Recover
  PROVE  ReceiptHasAll'
<1> USE DEF OutputInv, ReceiptHasAll, AllDone, output, history
<1>1. CASE Finish
  <2>1. \A s \in Streams : reader[s] \in {"failed", "done"}
    BY <1>1 DEF Finish, PipesDrained, ThreadsJoined
  <2>2. PICK d \in Durations :
          receipt' = Closed(IF StopReason = "none" THEN "finished" ELSE "stopped",
                            StopReason, d, seen)
    BY <1>1 DEF Finish
  <2>3. /\ receipt'.stop_reason = StopReason /\ receipt'.streams = seen
        /\ receipt'.status = "finished" => StopReason = "none"
    BY <2>2 DEF Closed
  <2>4. StopReason # "output_error" => \A s \in Streams : reader[s] # "failed"
    BY DEF StopReason, ReaderFailed
  <2>5. UNCHANGED <<reader, seen, outcome>> /\ (sup' = "settling" => StopReason # "output_error")
    BY <1>1 DEF Finish
  <2>6. outcome' # "returned"  BY <1>1, <2>5 DEF CallInv, OneLaunch, Finish
  <2> QED  BY <2>1, <2>3, <2>4, <2>5, <2>6
<1>2. CASE SaveStarting \/ LaunchFails \/ BeginSupervision \/ SupervisionFails
  <2>1. receipt'.status \notin Final /\ sup' # "settling" /\ outcome' # "returned"
    BY <1>2 DEF CallInv, OneLaunch, Final, Open, SaveStarting, LaunchFails, BeginSupervision,
       SupervisionFails
  <2> QED  BY <2>1 DEF Final
<1>3. CASE CheckStops \/ Interrupt
  <2>1. UNCHANGED <<receipt, output>> /\ sup' # "settling"
        /\ (outcome' = outcome \/ outcome' = "raised")
    BY <1>3, CheckIs, InterruptIs
  <2> QED  BY <2>1
<1>4. CASE RunProcess \/ RunProcessRefused \/ Recover \/ PreflightFails \/ Launch \/ Poll
           \/ Kill \/ Join \/ JoinTimesOut \/ FinishFails \/ HandleFailure
  <2>1. UNCHANGED <<receipt, output>> /\ sup' # "settling"
        /\ (outcome' = outcome \/ outcome' \in {"none", "raised"})
    BY <1>4 DEF RunProcess, RunProcessRefused, Recover, PreflightFails, Launch, Poll, Kill, Join,
       JoinTimesOut, FinishFails, HandleFailure
  <2> QED  BY <2>1
<1>5. CASE Settle
  <2>1. UNCHANGED <<receipt, output>> /\ sup' = "idle" /\ AllDone
    BY <1>5 DEF Settle, SettleRecord
  <2> QED  BY <1>5, <2>1
<1> QED  BY <1>1, <1>2, <1>3, <1>4, <1>5 DEF Supervise

\* A crash ends the threads: one that was reading is gone without an end of file.
LEMMA CrashKeepsOutput ==
  ASSUME CallInv, OutputInv, Crash
  PROVE  OutputInv'
<1>1. PipesDrained'
  BY DEF Crash, OutputInv, PipesDrained, ChildAlive
<1>2. ThreadsJoined'
  BY DEF Crash, ThreadsJoined
<1>3. AllDone => AllDone'
  BY DEF Crash, OutputInv, PipesDrained, AllDone
<1>4. ReceiptHasAll'
  BY <1>3 DEF Crash, OutputInv, ReceiptHasAll, AllDone
<1> QED  BY <1>1, <1>2, <1>4 DEF OutputInv

\* The child, its descendant and the threads: a thread that is done stays so.
LEMMA OutsideStepKeepsOutput ==
  ASSUME CallInv, OutputInv,
         \/ ChildExits \/ HelperExits \/ Cancel \/ TimerExpires \/ UNCHANGED vars
         \/ \E s \in Streams : ChildWrites(s) \/ ReaderReads(s) \/ ReaderFails(s) \/ ReaderEnds(s)
  PROVE  OutputInv'
<1> USE DEF OutputInv, output, history, ChildAlive
<1>1. CASE ChildExits \/ HelperExits \/ Cancel \/ TimerExpires \/ UNCHANGED vars
  BY <1>1 DEF ChildExits, HelperExits, Cancel, TimerExpires, vars, PipesDrained, ThreadsJoined,
     ReceiptHasAll, AllDone
<1>2. CASE \E s \in Streams : ChildWrites(s)
  BY <1>2 DEF ChildWrites, PipesDrained, ThreadsJoined, ReceiptHasAll, AllDone
<1>3. CASE \E s \in Streams : ReaderReads(s)
  BY <1>3 DEF ReaderReads, CanRead, PipesDrained, ThreadsJoined, ReceiptHasAll, AllDone
<1>4. CASE \E s \in Streams : ReaderFails(s) \/ ReaderEnds(s)
  <2>1. PICK s \in Streams : ReaderFails(s) \/ ReaderEnds(s)  BY <1>4
  <2>2. launches = 1  BY <2>1 DEF CallInv, OneLaunch, PipesDrained, ReaderFails, ReaderEnds
  <2>3. PipesDrained'
    BY <2>1, <2>2 DEF ReaderFails, ReaderEnds, PipesDrained
  <2>4. ThreadsJoined' /\ ReceiptHasAll'
    BY <2>1 DEF ReaderFails, ReaderEnds, PipesDrained, ThreadsJoined, ReceiptHasAll, AllDone
  <2> QED  BY <2>3, <2>4
<1> QED  BY <1>1, <1>2, <1>3, <1>4

LEMMA StepKeepsOutput == CallInv /\ OutputInv /\ [Next]_vars => OutputInv'
<1> SUFFICES ASSUME CallInv, OutputInv, [Next]_vars PROVE OutputInv'  OBVIOUS
<1>1. CASE RunProcess \/ RunProcessRefused \/ Supervise \/ Interrupt \/ Recover
  BY <1>1, CallerStepKeepsPipes, CallerStepKeepsThreads, CallerStepKeepsReceipt DEF OutputInv
<1>2. CASE Crash  BY <1>2, CrashKeepsOutput
<1>3. CASE \/ ChildExits \/ HelperExits \/ Cancel \/ TimerExpires \/ UNCHANGED vars
           \/ \E s \in Streams : ChildWrites(s) \/ ReaderReads(s) \/ ReaderFails(s) \/ ReaderEnds(s)
  BY <1>3, OutsideStepKeepsOutput
<1> QED  BY <1>1, <1>2, <1>3 DEF Next

----------------------------------------------------------------------------
LEMMA SpecKeepsBoth == Spec => [](CallInv /\ OutputInv)
<1>1. Init => CallInv /\ OutputInv  BY CallInvInit, OutputInvInit
<1>2. CallInv /\ OutputInv /\ [Next]_vars => (CallInv /\ OutputInv)'
  BY StepKeepsCall, StepKeepsOutput
<1> QED  BY <1>1, <1>2, PTL DEF Spec

\* One invocation id starts one child, whoever retries it, whatever ledger
\* write is lost and however often the process restarts.
THEOREM OneChild == Spec => []LaunchedOnce
<1>1. CallInv => LaunchedOnce  BY DEF CallInv, OneLaunch, LaunchedOnce
<1> QED  BY <1>1, SpecKeepsBoth, PTL

\* A child that may still run has been charged, one that was never started is
\* free, and a call that started one closes its charge or leaves a receipt
\* that recovery can settle.
THEOREM LaunchIsCharged == Spec => []ChargeMatchesLaunch
<1>1. CallInv => AliveIsCharged
  <2> SUFFICES ASSUME CallInv, ChildAlive
               PROVE  /\ Status(ledger) \in {"reserved", "unknown"}
                      /\ Status(ledgerFile) \in {"reserved", "unknown"}
    BY DEF AliveIsCharged
  <2>1. launches = 1 /\ receipt.status \notin Final
    BY DEF CallInv, ChildGone, ChildAlive
  <2>2. Status(ledger) # "none" /\ Status(ledgerFile) # "none"
    BY <2>1 DEF CallInv, OneLaunch, Accounts
  <2>3. /\ Status(ledger) \in {"none"} \cup Statuses
        /\ Status(ledgerFile) \in {"none"} \cup Statuses
    BY StatusIs DEF CallInv, Accounts
  <2>4. /\ Status(ledger) \notin {"released", "settled"}
        /\ Status(ledgerFile) \notin {"released", "settled"}
    BY <2>1 DEF CallInv, ReleasedNeverRan, SettledAsRecorded
  <2> QED  BY <2>2, <2>3, <2>4 DEF Statuses
<1>2. CallInv => ChargeMatchesLaunch  BY <1>1 DEF CallInv, ChargeMatchesLaunch
<1> QED  BY <1>2, SpecKeepsBoth, PTL

\* Whoever settles, the caller or a later recovery, settles the receipt's figure.
THEOREM ChargeIsReceipt == Spec => []SettledAsRecorded
<1>1. CallInv => SettledAsRecorded  BY DEF CallInv
<1> QED  BY <1>1, SpecKeepsBoth, PTL

\* A receipt without an output error holds all that was ever written, of a
\* killed child and of its descendant too.
THEOREM ReceiptHoldsAllOutput == Spec => []ReceiptIsComplete
<1>1. OutputInv => ReceiptIsComplete
  BY DEF OutputInv, PipesDrained, ReceiptHasAll, AllDone, ReceiptIsComplete
<1> QED  BY <1>1, SpecKeepsBoth, PTL

\* No thread that failed to take its output is passed over, at any moment.
THEOREM NoOutputErrorIsLost == Spec => []OutputErrorIsNotSilent
<1>1. OutputInv => OutputErrorIsNotSilent
  BY DEF OutputInv, ReceiptHasAll, AllDone, ReaderFailed, OutputErrorIsNotSilent, Final
<1> QED  BY <1>1, SpecKeepsBoth, PTL
=============================================================================
