----------------------------- MODULE ProcessRun -----------------------------
(***************************************************************************)
(* One invocation of core/process.py: the calling thread reserves, starts  *)
(* the child, polls it, kills it, joins the threads that drain its output, *)
(* writes the receipt (invocation.json) and settles.  The child and its    *)
(* descendant, the drain threads, the canceller and the clock run beside   *)
(* it; the calling thread may be interrupted and its process may stop.     *)
(* The charge is an entry of BudgetLedger, changed by that module's        *)
(* actions.  The invocation id may be used again by any caller.            *)
(***************************************************************************)
EXTENDS Integers, Sequences

CONSTANTS Streams,     \* stdout and stderr
          Invocation,  \* the invocation's id, as its reservation's id
          Timeout,     \* timeout_sec
          Durations,   \* wall clock a run may be measured with
          MaxChunks,   \* bound: chunks the child writes to a stream
          MaxCrashes,  \* bound: stops of the calling process
          NoLimit,
          WritesFail   \* TRUE: write_json may raise

ASSUME ProcessAssumption ==
  /\ Timeout \in Nat \ {0}
  /\ Durations \subseteq Nat
  /\ MaxChunks \in Nat
  /\ MaxCrashes \in Nat
  /\ WritesFail \in BOOLEAN

VARIABLES sup,        \* where the calling thread is
          doomed,     \* an exception waits for the finally block
          stop,       \* stop_reason
          receipt,    \* invocation.json
          child,      \* the process started
          helper,     \* its descendant: in its process group, or escaped
          reader,     \* the drain threads
          written,    \* chunks put in each pipe
          seen,       \* chunks taken out of each pipe
          cancelled,  \* the cancel event
          expired,    \* timeout_sec have passed since the start
          ledger, ledgerFile,  \* BudgetLedger's object and file
          outcome,    \* history: how the last call ended
          launches,   \* history: children started
          crashes     \* history: stops of the calling process

charge == <<ledger, ledgerFile>>
output == <<reader, written, seen>>
signals == <<cancelled, expired>>
history == <<outcome, launches, crashes>>
vars == <<sup, doomed, stop, receipt, child, helper, output, signals, charge, history>>

Dims == {"process_invocations", "process_wall_seconds"}

\* What an invocation of d seconds uses.
Bill(d) == [process_invocations |-> 1, process_wall_seconds |-> d]
NoAmounts == [d \in {} |-> 0]

Ledger == INSTANCE BudgetLedger WITH
            mem <- ledger, disk <- ledgerFile, floors <- [t \in {} |-> NoAmounts],
            Ids <- {Invocation}, Scopes <- {}, InitialLimits <- [d \in Dims |-> NoLimit],
            Requests <- {Bill(Timeout)}, Actuals <- {Bill(d) : d \in Durations},
            Floors <- {}, Grants <- {}

\* The reservation's status in the object or in the file.
Status(l) == IF Invocation \in DOMAIN l.entries THEN l.entries[Invocation].status ELSE "none"

Final == {"finished", "stopped"}
NoReceipt == [status |-> "none"]
Open(status) == [status |-> status]
OpenStatuses == {"starting", "launch_failed", "running", "execution_error"}
Closed(status, why, d, read) ==
  [status |-> status, stop_reason |-> why, duration |-> d, streams |-> read]
StopReasons == {"none", "output_error", "cancelled", "timeout"}

TypeOK ==
  /\ sup \in {"idle", "preflight", "starting", "launched", "supervising", "checking",
              "closing", "joining", "finishing", "failed", "settling"}
  /\ doomed \in BOOLEAN
  /\ stop \in StopReasons
  /\ receipt \in {NoReceipt} \cup {Open(s) : s \in OpenStatuses} \cup
                 [status : Final, stop_reason : StopReasons, duration : Durations,
                  streams : [Streams -> 0..MaxChunks]]
  /\ child \in {"none", "running", "killed", "exited"}
  /\ helper \in {"none", "group", "escaped"}
  /\ reader \in [Streams -> {"unstarted", "reading", "failed", "done"}]
  /\ written \in [Streams -> 0..MaxChunks]
  /\ seen \in [Streams -> 0..MaxChunks]
  /\ cancelled \in BOOLEAN /\ expired \in BOOLEAN
  /\ Ledger!IsLedger(ledger) /\ Ledger!IsLedger(ledgerFile)
  /\ outcome \in {"none", "returned", "raised"}
  /\ launches \in Nat
  /\ crashes \in 0..MaxCrashes

ReaderFailed == \E s \in Streams : reader[s] = "failed"
ChildAlive == child \in {"running", "killed"}
Readers(state) == [s \in Streams |-> state]

----------------------------------------------------------------------------
(* The calling thread: run_process around _run_process                     *)

\* Fault: an id that is reserved already is taken for the caller's own.
ClaimAgain ==
  \/ Ledger!Reserve(Invocation, Bill(Timeout))
  \/ Invocation \in DOMAIN ledger.entries /\ UNCHANGED charge

\* An id the ledger knows is refused, whatever became of it.
Claim ==
  /\ Invocation \notin DOMAIN ledger.entries
  /\ Ledger!Reserve(Invocation, Bill(Timeout))

\* The exception of a reservation that could not be written leaves run_process.
RunProcess ==
  /\ sup = "idle"
  /\ Claim
  /\ IF ledgerFile' = ledger'
     THEN sup' = "preflight" /\ outcome' = "none"
     ELSE sup' = "idle" /\ outcome' = "raised"
  /\ doomed' = FALSE /\ stop' = "none"
  /\ UNCHANGED <<receipt, child, helper, output, signals, launches, crashes>>

RunProcessRefused ==
  /\ sup = "idle"
  /\ Invocation \in DOMAIN ledger.entries
  /\ outcome' = "raised"
  /\ UNCHANGED <<sup, doomed, stop, receipt, child, helper, output, signals, charge,
                 launches, crashes>>

\* Checks of the arguments, a cancel that came before, the first write.
PreflightFails ==
  /\ sup = "preflight"
  /\ sup' = "failed"
  /\ UNCHANGED <<doomed, stop, receipt, child, helper, output, signals, charge, history>>

SaveStarting ==
  /\ sup = "preflight"
  /\ ~cancelled
  /\ receipt' = Open("starting")
  /\ sup' = "starting"
  /\ UNCHANGED <<doomed, stop, child, helper, output, signals, charge, history>>

LaunchFails ==
  /\ sup = "starting"
  /\ receipt' = Open("launch_failed") \/ (WritesFail /\ receipt' = receipt)
  /\ sup' = "failed"
  /\ UNCHANGED <<doomed, stop, child, helper, output, signals, charge, history>>

Launch ==
  /\ sup = "starting"
  /\ child' = "running"
  /\ helper' \in {"none", "group", "escaped"}
  /\ launches' = launches + 1
  /\ sup' = "launched"
  /\ UNCHANGED <<doomed, stop, receipt, output, signals, charge, outcome, crashes>>

\* The receipt says running and the drain threads start.
BeginSupervision ==
  /\ sup = "launched"
  /\ receipt' = Open("running")
  /\ reader' = Readers("reading")
  /\ sup' = "supervising"
  /\ UNCHANGED <<doomed, stop, child, helper, written, seen, signals, charge, history>>

\* The write fails, or a thread cannot start; the except block writes why.
SupervisionFails ==
  /\ sup = "launched"
  /\ \E started \in SUBSET Streams :
       /\ started # Streams
       /\ reader' = [s \in Streams |-> IF s \in started THEN "reading" ELSE "unstarted"]
  /\ \/ receipt' = Open("execution_error")
     \/ WritesFail /\ receipt' \in {receipt, Open("running")}
  /\ sup' = "closing" /\ doomed' = TRUE
  /\ UNCHANGED <<stop, child, helper, written, seen, signals, charge, history>>

\* process.poll().
Poll ==
  /\ sup = "supervising"
  /\ sup' = IF ChildAlive THEN "checking" ELSE "closing"
  /\ UNCHANGED <<doomed, stop, receipt, child, helper, output, signals, charge, history>>

\* The loop's body, with the answer of a poll the child may have outrun.
CheckStops ==
  /\ sup = "checking"
  /\ stop' = CASE ReaderFailed -> "output_error"
               [] ~ReaderFailed /\ cancelled -> "cancelled"
               [] ~ReaderFailed /\ ~cancelled /\ expired -> "timeout"
               [] OTHER -> "none"
  /\ sup' = IF stop' = "none" THEN "supervising" ELSE "closing"
  /\ UNCHANGED <<doomed, receipt, child, helper, output, signals, charge, history>>

\* killpg reaches the child's group; wait(timeout=5) may give up on a child
\* that is slow to die.
Kill ==
  /\ sup = "closing"
  /\ helper' = IF helper = "group" THEN "none" ELSE helper
  /\ \/ child' = "exited" /\ sup' = "joining"
     \/ child = "running" /\ child' = "killed" /\ sup' = "failed"
  /\ UNCHANGED <<doomed, stop, receipt, output, signals, charge, history>>

\* Fault: what the threads still have to drain is not waited for.
JoinNothing ==
  /\ sup = "joining"
  /\ sup' = IF doomed THEN "failed" ELSE "finishing"
  /\ UNCHANGED <<doomed, stop, receipt, child, helper, output, signals, charge, history>>

Join ==
  /\ sup = "joining"
  /\ \A s \in Streams : reader[s] # "reading"
  /\ sup' = IF doomed THEN "failed" ELSE "finishing"
  /\ UNCHANGED <<doomed, stop, receipt, child, helper, output, signals, charge, history>>

\* Fault: the threads are joined without a timeout.
JoinNeverTimesOut ==
  /\ sup = "joining"
  /\ sup' = "joining"
  /\ UNCHANGED <<doomed, stop, receipt, child, helper, output, signals, charge, history>>

\* A pipe a descendant kept, or a callback that does not return.
JoinTimesOut ==
  /\ sup = "joining"
  /\ \E s \in Streams : reader[s] = "reading"
  /\ sup' = "failed"
  /\ UNCHANGED <<doomed, stop, receipt, child, helper, output, signals, charge, history>>

\* Fault: only an error the poll loop saw counts.
StopReasonOfLoop == stop

StopReason == IF ReaderFailed THEN "output_error" ELSE stop

\* output_complete_callback returned; the receipt is closed.
Finish ==
  /\ sup = "finishing"
  /\ \E d \in Durations :
       receipt' = Closed(IF StopReason = "none" THEN "finished" ELSE "stopped",
                         StopReason, d, seen)
  /\ sup' = IF StopReason = "output_error" THEN "failed" ELSE "settling"
  /\ UNCHANGED <<doomed, stop, child, helper, output, signals, charge, history>>

\* The callback or the last write raises.
FinishFails ==
  /\ sup = "finishing"
  /\ sup' = "failed"
  /\ UNCHANGED <<doomed, stop, receipt, child, helper, output, signals, charge, history>>

\* Fault: the reserved seconds are settled, not the measured ones.
SettleReservation == Ledger!Settle(Invocation, Bill(Timeout))

\* settle_process_record of a closed receipt whose reservation is open.
SettleRecord ==
  /\ receipt.status \in Final
  /\ Ledger!Settle(Invocation, Bill(receipt.duration))

Settle ==
  /\ sup = "settling"
  /\ SettleRecord
  /\ sup' = "idle"
  /\ outcome' = IF ledgerFile' = ledger' THEN "returned" ELSE "raised"
  /\ UNCHANGED <<doomed, stop, receipt, child, helper, output, signals, launches, crashes>>

\* Fault: a receipt that still says starting is taken for a launch that failed.
NotLaunchedUnlessRunning == receipt.status \in {"none", "starting", "launch_failed"}

\* No receipt of this invocation, or one of a launch that failed.
NotLaunched == receipt.status \in {"none", "launch_failed"}

\* What was used is not known.
Doubt == Ledger!MarkUnknown(Invocation, NoAmounts, FALSE)

\* run_process's except block: the receipt decides what becomes of the charge.
HandleFailure ==
  /\ sup = "failed"
  /\ \/ NotLaunched /\ Ledger!Release(Invocation)
     \/ SettleRecord
     \/ ~NotLaunched /\ receipt.status \notin Final /\ Doubt
  /\ sup' = "idle"
  /\ outcome' = "raised"
  /\ UNCHANGED <<doomed, stop, receipt, child, helper, output, signals, launches, crashes>>

\* KeyboardInterrupt: in the try block of the poll loop the finally block
\* still runs, elsewhere in _run_process the except block of run_process
\* is next, and after it nothing is.
Interrupt ==
  /\ sup \notin {"idle", "failed"}
  /\ doomed' = (doomed \/ sup \in {"supervising", "checking"})
  /\ sup' = CASE sup \in {"supervising", "checking"} -> "closing"
              [] sup = "settling" -> "idle"
              [] OTHER -> "failed"
  /\ outcome' = IF sup = "settling" THEN "raised" ELSE outcome
  /\ UNCHANGED <<stop, receipt, child, helper, output, signals, charge, launches, crashes>>

\* The calling process stops: its threads go with it, the child does not.
Crash ==
  /\ crashes < MaxCrashes
  /\ Ledger!Restart
  /\ sup' = "idle"
  /\ reader' = [s \in Streams |-> IF reader[s] = "reading" THEN "unstarted" ELSE reader[s]]
  /\ cancelled' = FALSE /\ expired' = FALSE
  /\ crashes' = crashes + 1
  /\ UNCHANGED <<doomed, stop, receipt, child, helper, written, seen, outcome, launches>>

\* workspace._run finds a closed receipt and settles what is still open.
Recover ==
  /\ sup = "idle"
  /\ SettleRecord
  /\ UNCHANGED <<sup, doomed, stop, receipt, child, helper, output, signals, history>>

----------------------------------------------------------------------------
(* Beside it                                                                *)

ChildWrites(s) ==
  /\ child = "running" \/ helper # "none"
  /\ written[s] < MaxChunks
  /\ written' = [written EXCEPT ![s] = @ + 1]
  /\ UNCHANGED <<sup, doomed, stop, receipt, child, helper, reader, seen, signals, charge, history>>

ChildExits ==
  /\ ChildAlive
  /\ child' = "exited"
  /\ UNCHANGED <<sup, doomed, stop, receipt, helper, output, signals, charge, history>>

HelperExits ==
  /\ helper # "none"
  /\ helper' = "none"
  /\ UNCHANGED <<sup, doomed, stop, receipt, child, output, signals, charge, history>>

CanRead(s) == reader[s] = "reading" /\ seen[s] < written[s]

ReaderReads(s) ==
  /\ CanRead(s)
  /\ seen' = [seen EXCEPT ![s] = @ + 1]
  /\ UNCHANGED <<sup, doomed, stop, receipt, child, helper, reader, written, signals, charge, history>>

\* The log cannot be written, or the caller's output callback raises.
ReaderFails(s) ==
  /\ reader[s] = "reading"
  /\ reader' = [reader EXCEPT ![s] = "failed"]
  /\ UNCHANGED <<sup, doomed, stop, receipt, child, helper, written, seen, signals, charge, history>>

\* End of file: nobody holds the other end.
ReaderEnds(s) ==
  /\ reader[s] = "reading"
  /\ seen[s] = written[s]
  /\ ~ChildAlive /\ helper = "none"
  /\ reader' = [reader EXCEPT ![s] = "done"]
  /\ UNCHANGED <<sup, doomed, stop, receipt, child, helper, written, seen, signals, charge, history>>

Cancel ==
  /\ ~cancelled
  /\ cancelled' = TRUE
  /\ UNCHANGED <<sup, doomed, stop, receipt, child, helper, output, expired, charge, history>>

TimerExpires ==
  /\ sup \in {"launched", "supervising", "checking"}
  /\ ~expired
  /\ expired' = TRUE
  /\ UNCHANGED <<sup, doomed, stop, receipt, child, helper, output, cancelled, charge, history>>

----------------------------------------------------------------------------
Init ==
  /\ sup = "idle" /\ doomed = FALSE /\ stop = "none"
  /\ receipt = NoReceipt
  /\ child = "none" /\ helper = "none"
  /\ reader = Readers("unstarted")
  /\ written = Readers(0) /\ seen = Readers(0)
  /\ cancelled = FALSE /\ expired = FALSE
  /\ ledger = Ledger!EmptyLedger /\ ledgerFile = Ledger!EmptyLedger
  /\ outcome = "none" /\ launches = 0 /\ crashes = 0

\* Every step of a call that is under way.
Supervise ==
  \/ PreflightFails \/ SaveStarting \/ LaunchFails \/ Launch
  \/ BeginSupervision \/ SupervisionFails \/ Poll \/ CheckStops
  \/ Kill \/ Join \/ JoinTimesOut \/ Finish \/ FinishFails
  \/ Settle \/ HandleFailure

Next ==
  \/ RunProcess \/ RunProcessRefused \/ Supervise \/ Interrupt \/ Crash \/ Recover
  \/ ChildExits \/ HelperExits \/ Cancel \/ TimerExpires
  \/ \E s \in Streams : ChildWrites(s) \/ ReaderReads(s) \/ ReaderFails(s) \/ ReaderEnds(s)

\* The calling thread is scheduled and time passes; nothing is asked of the
\* child, its descendant, the drain threads or whoever would cancel.
Spec == Init /\ [][Next]_vars /\ WF_vars(Supervise) /\ WF_vars(TimerExpires)

----------------------------------------------------------------------------
(* Properties                                                               *)

\* One invocation id starts one child at most, over retries by any caller,
\* lost ledger writes and restarts (core/process.py:163-164).
LaunchedOnce == launches <= 1

\* Only a run that never started is free: a released charge, in the object
\* or in the file, belongs to no child (core/process.py:174-184).
ReleasedNeverRan ==
  \A l \in {ledger, ledgerFile} : Status(l) = "released" => launches = 0

\* While the child may still use the machine its charge is open or in doubt,
\* also when the call was interrupted or could not kill it.
AliveIsCharged ==
  ChildAlive => \A l \in {ledger, ledgerFile} : Status(l) \in {"reserved", "unknown"}

\* A call that started a child and ended in this process leaves no open
\* charge, unless its receipt is closed and recovery can settle it.
NoOpenCharge ==
  sup = "idle" /\ launches > 0 /\ crashes = 0 /\ Status(ledger) = "reserved" =>
    receipt.status \in Final

\* What the ledger says of a run matches what was launched, wherever the call
\* fails, is interrupted or crashes between reserve and settle (173-184).
ChargeMatchesLaunch == ReleasedNeverRan /\ AliveIsCharged /\ NoOpenCharge

\* A charge is closed at the figure of the closed receipt, so recovery
\* settles again what the first caller settled (core/process.py:213-221).
SettledAsRecorded ==
  \A l \in {ledger, ledgerFile} :
    Status(l) = "settled" =>
      /\ receipt.status \in Final
      /\ l.entries[Invocation].actual = Bill(receipt.duration)

\* A drain thread's error, whenever it came, neither ends in a finished
\* receipt nor in a result (core/process.py:234-235).
OutputErrorIsNotSilent ==
  ReaderFailed => receipt.status # "finished" /\ outcome # "returned"

\* A receipt closed without an output error has everything the child and its
\* descendant ever wrote, that of a killed run included.
ReceiptIsComplete ==
  receipt.status \in Final /\ receipt.stop_reason # "output_error" =>
    \A s \in Streams : receipt.streams[s] = written[s]

\* Every call ends: a child that runs on, a descendant that keeps a pipe and
\* a callback that hangs do not hold the caller (core/process.py:308-343).
CallEnds == sup # "idle" ~> sup = "idle"

=============================================================================
