------------------------------ MODULE Workspace ------------------------------
(***************************************************************************)
(* tools/workspace.py and tools/publication.py: commands that declare the  *)
(* files they read and write, the receipts that pin those files, and the   *)
(* publication of a manuscript, which must refuse what a receipt shows to  *)
(* be out of date.                                                         *)
(*                                                                         *)
(* One attempt is open at a time (Session); it may end without an answer   *)
(* when the process stops, and is then reconciled before another starts.   *)
(* Anybody may change a file between any two steps: the user, the          *)
(* coordinator's write_file and copy_file, or a child that outlived its    *)
(* supervisor.  A file is known by its bytes: a change that is taken back  *)
(* leaves no trace.  Supervision and accounting are in ProcessRun.         *)
(***************************************************************************)
EXTENDS Integers, Sequences, FiniteSets

CONSTANTS Files,       \* files of the mounts that commands or exports name
          Contents,    \* bytes that tell versions of a file apart
          Absent,      \* there is no such file
          Commands,    \* argument vectors
          Inputs,      \* [Commands -> SUBSET Files]: what each declares, by locator
          Outputs,
          Body,        \* the Markdown file of the export
          Images,      \* the image files it can show
          Given,       \* the files the task starts with
          MaxRuns, MaxTime, MaxEdits, MaxCrashes    \* bounds

ASSUME WorkspaceAssumption ==
  /\ IsFiniteSet(Files)
  /\ Absent \notin Contents
  /\ Inputs \in [Commands -> SUBSET Files] /\ Outputs \in [Commands -> SUBSET Files]
  /\ Body \in Given /\ Given \subseteq Files /\ Images \subseteq Files \ {Body}
  /\ MaxRuns \in Nat /\ MaxTime \in Nat /\ MaxEdits \in Nat /\ MaxCrashes \in Nat

None == "none"
Bytes == Contents \cup {Absent}
Versions == UNION {[S -> Bytes] : S \in SUBSET Files}
NoVersions == [f \in {} |-> Absent]
Published == Images \cup {Body}

\* tools/processes/<id>/invocation.json of a command with declarations: exit is
\* "open" until the receipt is closed, then "ok" for returncode 0 and no
\* stop_reason; binding is None, "error" (output_binding_error) or "bound" with
\* the hashes outputs.  told: its attempt was answered with status ok.
\* Auxiliary: read and left are the inputs the command read and the outputs it
\* left; excused are files somebody else changed while the call could not tell.
Receipt == [command : Commands, at : 0 .. MaxTime, inputs : Versions,
            exit : {"open", "ok", "bad"}, binding : {None, "error", "bound"},
            outputs : Versions, told : BOOLEAN,
            read : Versions, left : Versions, excused : SUBSET Files]

\* What the open attempt holds in memory: where it is, its receipt (0: none yet),
\* the versions it bound, the files whose producers are still to be checked, the
\* producers checked and the outputs hashed; retry: request.json was there.
\* Auxiliary: back are the inputs of a command that were set to the bound version,
\* moved the files changed since it ended, and again since it was bound; touched
\* those changed since the last check of the producers began.
Open == [pc : {"idle", "down", "launch", "work", "hash", "recheck", "answer", "first",
               "body", "validate", "copy", "refresh", "last", "pin", "delivered"},
         kind : {None, "run", "export"}, command : Commands \cup {None}, run : 0 .. MaxRuns,
         bound : Versions, todo : SUBSET Files, checked : SUBSET Nat,
         hashes : Versions, retry : BOOLEAN, back : SUBSET Files, moved : SUBSET Files,
         touched : SUBSET Files]

Idle == [pc |-> "idle", kind |-> None, command |-> None, run |-> 0, bound |-> NoVersions,
         todo |-> {}, checked |-> {}, hashes |-> NoVersions, retry |-> FALSE,
         back |-> {}, moved |-> {}, touched |-> {}]

VARIABLES file,       \* the mounted files
          time,       \* the wall clock; two launches may see the same time
          receipts,   \* by launch; the code only has started_at to order them
          open,       \* the open attempt
          export,     \* request.json, export.json, the project and result.json
          edits, crashes

vars == <<file, time, receipts, open, export, edits, crashes>>

\* copied is what the renderer took into the project; rendered: export.json says
\* exported or compiled, failed: it says failed.  project is the version of the
\* project's files: 0, there are none; 1, as rendered; one more for each edit.
\* pinned is the version result.json hashed, 0 before it is there.  Auxiliary:
\* back are the inputs somebody set to the version of the request since it was
\* saved.
Export == [request : Versions, copied : Versions,
           manifest : {None, "rendered", "failed"},
           project : Nat, pinned : Nat,
           back : SUBSET Files]

NoExport == [request |-> NoVersions, copied |-> NoVersions, manifest |-> None,
             project |-> 0, pinned |-> 0, back |-> {}]

Hashes(files) == [f \in files |-> file[f]]
Current(versions) == \A f \in DOMAIN versions : file[f] = versions[f]
Present(files) == {f \in files : file[f] # Absent}

\* ------------------------------------------------------- declared producers

Declaring(f) == {i \in DOMAIN receipts : f \in Outputs[receipts[i].command]}

\* Mutant: the name of a receipt breaks a tie.
LatestByName(f) ==
  {i \in Declaring(f) : \A j \in Declaring(f) \ {i} :
     \/ receipts[i].at > receipts[j].at
     \/ receipts[i].at = receipts[j].at /\ i < j}

\* _artifact_producers: the receipt that owns f, none when two of them tie.
Latest(f) ==
  {i \in Declaring(f) : \A j \in Declaring(f) \ {i} : receipts[i].at > receipts[j].at}

Certified(i) == receipts[i].exit = "ok" /\ receipts[i].binding = "bound"

\* check, without its recursion: a successful output binding, inputs and
\* outputs as they were bound.
Stands(i) ==
  /\ Certified(i)
  /\ Current(receipts[i].inputs)
  /\ Current(receipts[i].outputs)

\* Mutant: the inputs of a producer are not followed.
NextToCheckDirect(f) == {}

NextToCheck(f) == UNION {Inputs[receipts[i].command] : i \in Latest(f)}

\* check_artifact_producers for the files in open.todo, one producer at a time:
\* an unknown file passes, a known one needs its producer and, in turn, theirs.
CheckProducer ==
  /\ open.pc \in {"first", "last"}
  /\ \E f \in open.todo :
       /\ open' =
            IF Declaring(f) = {} \/ Latest(f) \cap open.checked # {}
            THEN [open EXCEPT !.todo = @ \ {f}]
            ELSE IF \E i \in Latest(f) : Stands(i)
            THEN [open EXCEPT !.checked = @ \cup Latest(f),
                              !.todo = (@ \ {f}) \cup NextToCheck(f)]
            ELSE Idle
  /\ UNCHANGED <<file, time, receipts, export, edits, crashes>>

\* ------------------------------------------------------- a declared command

\* _run, process_artifact_binding: the declared inputs are hashed; a missing one
\* refuses the call before anything starts.
RunBinds ==
  /\ open.pc = "idle" /\ Len(receipts) < MaxRuns
  /\ export.request = NoVersions    \* bound: one export, after the commands
  /\ \E c \in Commands :
       /\ Present(Inputs[c]) = Inputs[c]
       /\ open' = [Idle EXCEPT !.pc = "launch", !.kind = "run", !.command = c,
                               !.bound = Hashes(Inputs[c])]
  /\ UNCHANGED <<file, time, receipts, export, edits, crashes>>

\* run_process opens the receipt, with the binding in it, and starts the
\* command, which reads its inputs.
RunLaunches ==
  /\ open.pc = "launch"
  /\ time' \in {t \in {time, time + 1} : t <= MaxTime}
  /\ receipts' = Append(receipts,
       [command |-> open.command, at |-> time', inputs |-> open.bound, exit |-> "open",
        binding |-> None, outputs |-> NoVersions, told |-> FALSE,
        read |-> Hashes(Inputs[open.command]), left |-> NoVersions, excused |-> {}])
  /\ open' = [open EXCEPT !.pc = "work", !.run = Len(receipts')]
  /\ UNCHANGED <<file, export, edits, crashes>>

\* The ledger has no process left for it.
RunIsRefused ==
  /\ open.pc = "launch"
  /\ open' = Idle
  /\ UNCHANGED <<file, time, receipts, export, edits, crashes>>

\* The command writes any of its outputs and ends; run_process closes the
\* receipt.  Only a return code of 0 goes on to the outputs.
RunEnds ==
  /\ open.pc = "work"
  /\ \E written \in SUBSET Outputs[open.command] : \E new \in [written -> Contents] :
     \E exit \in {"ok", "bad"} :
       /\ file' = [f \in Files |-> IF f \in written THEN new[f] ELSE file[f]]
       /\ receipts' = [receipts EXCEPT
            ![open.run] = [@ EXCEPT !.exit = exit,
                             !.left = [f \in Outputs[open.command] |-> file'[f]]]]
       /\ open' = IF exit = "bad" THEN Idle
                  ELSE [open EXCEPT !.pc = "hash", !.back = @ \cup
                          {f \in written \cap DOMAIN open.bound : new[f] = open.bound[f]}]
  /\ UNCHANGED <<time, export, edits, crashes>>

OutputError ==
  /\ receipts' = [receipts EXCEPT ![open.run] = [@ EXCEPT !.binding = "error"]]
  /\ open' = Idle

\* output_binding: the hashes of the outputs; a missing one is an error.
RunHashesOutputs ==
  /\ open.pc = "hash"
  /\ LET outputs == Outputs[open.command] IN
       \/ /\ Present(outputs) = outputs
          /\ open' = [open EXCEPT !.pc = "recheck", !.hashes = Hashes(outputs)]
          /\ UNCHANGED receipts
       \/ Present(outputs) # outputs /\ OutputError
  /\ UNCHANGED <<file, time, export, edits, crashes>>

Excused == open.back \cup (open.moved \cap DOMAIN open.hashes)

\* Mutant: the inputs are not compared again.
InputsHoldAlways == TRUE

\* _check_process_inputs after the run.
InputsHold == Current(open.bound)

\* The receipt is written again, with the outputs or with the error.
RunIsBound ==
  /\ open.pc = "recheck"
  /\ \/ /\ InputsHold
        /\ receipts' = [receipts EXCEPT
             ![open.run] = [@ EXCEPT !.binding = "bound", !.outputs = open.hashes,
                                     !.excused = Excused]]
        /\ open' = [open EXCEPT !.pc = "answer", !.moved = {}]
     \/ ~ InputsHold /\ OutputError
  /\ UNCHANGED <<file, time, export, edits, crashes>>

\* The observation of the attempt is saved, with status ok; nothing is compared
\* again since the receipt was bound.
RunIsAnswered ==
  /\ open.pc = "answer"
  /\ receipts' = [receipts EXCEPT ![open.run].told = TRUE]
  /\ open' = Idle
  /\ UNCHANGED <<file, time, export, edits, crashes>>

\* Mutant: a bound receipt is taken at its word.
RecoveredUnchecked(i) ==
  IF Certified(i) THEN [receipts[i] EXCEPT !.told = TRUE] ELSE receipts[i]

\* _run on a closed receipt: ok again iff its outputs were bound and all is as
\* it was; nothing is bound, or started, at this point.
Recovered(i) == IF Stands(i) THEN [receipts[i] EXCEPT !.told = TRUE] ELSE receipts[i]

\* An interrupted command is reconciled if it has a receipt (can_reconcile), and
\* is settled without another start if that is open or missing.
RunRecovers ==
  /\ open.pc = "down" /\ open.kind = "run"
  /\ receipts' = IF open.run = 0 THEN receipts
                 ELSE [receipts EXCEPT ![open.run] = Recovered(open.run)]
  /\ open' = Idle
  /\ UNCHANGED <<file, time, export, edits, crashes>>

\* ------------------------------------------------------------ the export

\* export_input_binding: the body, and the images that are there.
Binding == Hashes(Published)
ToCheck(versions) == {f \in DOMAIN versions : versions[f] # Absent}
Exporting(retry) ==
  [Idle EXCEPT !.pc = "first", !.kind = "export", !.retry = retry,
               !.bound = Binding, !.todo = ToCheck(Binding)]

\* export_report, for the first time.
ExportBinds ==
  /\ open.pc = "idle" /\ export.request = NoVersions
  /\ file[Body] # Absent
  /\ open' = Exporting(FALSE)
  /\ UNCHANGED <<file, time, receipts, export, edits, crashes>>

\* request.json is saved before anything is rendered; a retry compares with it
\* and takes the manifest there is.
ExportIsRequested ==
  /\ open.pc = "first" /\ open.todo = {}
  /\ IF ~ open.retry
     THEN /\ export' = [export EXCEPT !.request = open.bound]
          /\ open' = [open EXCEPT !.pc = "body"]
     ELSE /\ open' = IF export.request = open.bound
                     THEN [open EXCEPT !.pc = "refresh"] ELSE Idle
          /\ UNCHANGED export
  /\ UNCHANGED <<file, time, receipts, edits, crashes>>

\* export_acm_report reads the Markdown without comparing it with the binding.
RendererReadsBody ==
  /\ open.pc = "body"
  /\ \/ /\ file[Body] # Absent
        /\ export' = [export EXCEPT !.copied = Hashes({Body})]
        /\ open' = [open EXCEPT !.pc = "validate"]
     \/ open' = Idle /\ UNCHANGED export
  /\ UNCHANGED <<file, time, receipts, edits, crashes>>

Shown == ToCheck([f \in Images |-> open.bound[f]])

\* validate_asset compares every image the text shows with the binding; its
\* check of the producers finds all of them in the cache of the first one.
RendererValidates ==
  /\ open.pc = "validate"
  /\ open' = IF \A f \in Shown : file[f] = open.bound[f]
             THEN [open EXCEPT !.pc = "copy"] ELSE Idle
  /\ UNCHANGED <<file, time, receipts, export, edits, crashes>>

\* _copy_image reads the images again.  The project is compiled and export.json
\* written, whether the rendering went well or not.
RendererCopies ==
  /\ open.pc = "copy"
  /\ \E manifest \in {"rendered", "failed"} :
       /\ manifest = "rendered" => Present(Shown) = Shown
       /\ export' = [export EXCEPT !.manifest = manifest, !.project = 1,
            !.copied = [f \in {Body} \cup Present(Shown) |->
                          IF f = Body THEN export.copied[Body] ELSE file[f]]]
  /\ open' = [open EXCEPT !.pc = "refresh"]
  /\ UNCHANGED <<file, time, receipts, edits, crashes>>

\* Mutant: the producers already in the cache are not checked again.
CheckAgainFromCache == [open EXCEPT !.pc = "last", !.todo = {}]

\* refresh=True: the cache is emptied and every producer checked again.
CheckAgain == [open EXCEPT !.pc = "last", !.todo = ToCheck(open.bound), !.checked = {}]

ExportChecksAgain ==
  /\ open.pc = "refresh"
  /\ open' = CheckAgain
  /\ UNCHANGED <<file, time, receipts, export, edits, crashes>>

\* Mutant: the authoring inputs are not bound again.
BindingHoldsAlways == TRUE

\* report_source and export_input_binding once more.
BindingHolds == Current(open.bound)

ExportCompares ==
  /\ open.pc = "last" /\ open.todo = {}
  /\ open' = IF BindingHolds THEN [open EXCEPT !.pc = "pin"] ELSE Idle
  /\ UNCHANGED <<file, time, receipts, export, edits, crashes>>

\* Mutant: a retry delivers the project as it is.
PinHoldsAlways == export.pinned # 0

\* artifact_hashes of the project against those result.json retains.
PinHolds == export.pinned = export.project

\* A complete rendering is pinned in result.json.  A retry only compares: a
\* rendering that was not pinned before is refused.
ExportIsPinned ==
  /\ open.pc = "pin"
  /\ IF export.manifest = "failed" THEN open' = Idle /\ UNCHANGED export
     ELSE IF open.retry
     THEN /\ open' = IF PinHolds
                     THEN [open EXCEPT !.pc = "delivered"] ELSE Idle
          /\ UNCHANGED export
     ELSE /\ export' = [export EXCEPT !.pinned = export.project]
          /\ open' = [open EXCEPT !.pc = "delivered"]
  /\ UNCHANGED <<file, time, receipts, edits, crashes>>

\* The answer of the attempt is saved.
ExportIsSaved ==
  /\ open.pc = "delivered"
  /\ open' = Idle
  /\ UNCHANGED <<file, time, receipts, export, edits, crashes>>

\* An interrupted export is called again if request.json and export.json are
\* there; otherwise it is settled.
ExportRecovers ==
  /\ open.pc = "down" /\ open.kind = "export"
  /\ open' = IF export.request # NoVersions /\ export.manifest # None
             THEN Exporting(TRUE) ELSE Idle
  /\ UNCHANGED <<file, time, receipts, export, edits, crashes>>

\* ---------------------------------------------------------- the environment

\* Somebody changes, adds or removes a file.
Edit ==
  /\ edits < MaxEdits /\ edits' = edits + 1
  /\ \E f \in Files, c \in Bytes :
       /\ c # file[f]
       /\ file' = [file EXCEPT ![f] = c]
       /\ open' = [open EXCEPT
            !.back = @ \cup {g \in {f} \cap DOMAIN open.bound :
                               open.kind = "run" /\ open.bound[g] = c},
            !.moved = @ \cup {g \in {f} : open.pc \in {"hash", "recheck", "answer"}},
            !.touched = @ \cup {g \in {f} : open.pc \in {"last", "pin"}}]
       /\ export' = IF export.request = NoVersions THEN export
                    ELSE [export EXCEPT !.back = @ \cup
                            {g \in {f} \cap Published : export.request[g] = c}]
  /\ UNCHANGED <<time, receipts, crashes>>

\* The user edits the exported project.
EditProject ==
  /\ edits < MaxEdits /\ edits' = edits + 1
  /\ export.project > 0
  /\ export' = [export EXCEPT !.project = @ + 1]
  /\ UNCHANGED <<file, time, receipts, open, crashes>>

\* The process stops.
Crash ==
  /\ crashes < MaxCrashes /\ crashes' = crashes + 1
  /\ open.pc \notin {"idle", "down"}
  /\ open' = [Idle EXCEPT !.pc = "down", !.kind = open.kind, !.run = open.run]
  /\ UNCHANGED <<file, time, receipts, export, edits>>

Init ==
  /\ \E c \in Contents : file = [f \in Files |-> IF f \in Given THEN c ELSE Absent]
  /\ time = 0 /\ receipts = <<>> /\ open = Idle /\ export = NoExport
  /\ edits = 0 /\ crashes = 0

Next ==
  \/ RunBinds \/ RunLaunches \/ RunIsRefused \/ RunEnds \/ RunHashesOutputs
  \/ RunIsBound \/ RunIsAnswered \/ RunRecovers
  \/ ExportBinds \/ CheckProducer \/ ExportIsRequested
  \/ RendererReadsBody \/ RendererValidates \/ RendererCopies
  \/ ExportChecksAgain \/ ExportCompares \/ ExportIsPinned \/ ExportIsSaved \/ ExportRecovers
  \/ Edit \/ EditProject \/ Crash

Spec == Init /\ [][Next]_vars

\* -------------------------------------------------------------- properties

TypeOK ==
  /\ file \in [Files -> Bytes] /\ time \in 0 .. MaxTime
  /\ receipts \in Seq(Receipt) /\ Len(receipts) <= MaxRuns
  /\ open \in Open /\ export \in Export
  /\ edits \in 0 .. MaxEdits /\ crashes \in 0 .. MaxCrashes

\* The command read the inputs, and left the outputs, that are on disk; only
\* for the files in except is this not known.
Genuine(i, except) ==
  LET r == receipts[i] IN
  /\ r.exit = "ok"
  /\ \A f \in Inputs[r.command] \ except : file[f] = r.read[f]
  /\ \A f \in Outputs[r.command] \ except : file[f] = r.left[f]

\* The last command launched that declares f, whatever the clock said.
LastDeclaring(f) == {i \in Declaring(f) : \A j \in Declaring(f) : j <= i}

\* The files an export depends on, through the commands that declared them.
DependsOn[n \in Nat] ==
  IF n = 0 THEN DOMAIN export.copied
  ELSE DependsOn[n - 1] \cup
       UNION {Inputs[receipts[i].command] : i \in UNION {LastDeclaring(f) : f \in DependsOn[n - 1]}}

Delivers == open.pc # "delivered" /\ open'.pc = "delivered"

\* What is published is up to date, all the way to the files nobody declared to
\* produce: the last command that declared a file succeeded, read what is there
\* and left what is there.  Not covered: a file changed while the last check of
\* the producers ran; an input changed and put back while its command ran; an
\* output changed before its hash was taken.
PublishedIsFresh ==
  [][Delivers =>
       \A f \in DependsOn[Cardinality(Files)] : \A i \in LastDeclaring(f) :
         Genuine(i, receipts[i].excused \cup open.touched)]_vars

\* What is delivered, at once or on the retry after a crash, shows the text and
\* images of request.json, the versions that were approved, and is the project
\* result.json hashed when it was first complete: a project edited since is
\* refused.  Not covered: a file that was changed during the rendering and put
\* back before the last comparison; an edit of the project before result.json
\* hashes it, which nothing compares with the rendering.
PublishedAsBound ==
  [][Delivers =>
       /\ export'.project = export'.pinned
       /\ export.pinned # 0 => export'.pinned = export.pinned
       /\ \A f \in DOMAIN export.copied : export.copied[f] = export.request[f]
                                          \/ f \in export.back]_vars

\* A command is answered as successful, by the call that bound its receipt or
\* when it is reconciled after a crash, only while the inputs it read and the
\* outputs it left are there.  Not covered: an input changed and put back while
\* the command ran; an output changed before its hash was taken; and for the
\* call itself, which compares nothing after the binding, a file changed
\* between the binding and the saved answer.
SuccessIsGenuine ==
  [][\A i \in DOMAIN receipts :
       ~ receipts[i].told /\ receipts'[i].told =>
         Genuine(i, receipts[i].excused \cup open.moved)]_vars
=============================================================================
