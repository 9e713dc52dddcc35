--------------------------- MODULE WorkspaceProofs ---------------------------
(***************************************************************************)
(* What Workspace guarantees for any files, contents, commands, edits and  *)
(* crashes.                                                                *)
(***************************************************************************)
EXTENDS Workspace, FiniteSetTheorems, WellFoundedInduction, TLAPS

----------------------------------------------------------------------------
(* Types.                                                                   *)

LEMMA HashesTyped ==
  ASSUME file \in [Files -> Bytes], NEW S \in SUBSET Files
  PROVE  Hashes(S) \in Versions /\ DOMAIN Hashes(S) = S
BY DEF Hashes, Versions

LEMMA NoVersionsTyped == NoVersions \in Versions /\ DOMAIN NoVersions = {}
<1>1. NoVersions \in [{} -> Bytes]
  BY DEF NoVersions
<1>2. QED  BY <1>1 DEF Versions

LEMMA IdleTyped == Idle \in Open
BY NoVersionsTyped, WorkspaceAssumption DEF Idle, Open, None

LEMMA PublishedFiles == Published \in SUBSET Files
BY WorkspaceAssumption DEF Published

LEMMA InitTyped == Init => TypeOK
<1> SUFFICES ASSUME Init PROVE TypeOK  OBVIOUS
<1>1. file \in [Files -> Bytes]  BY DEF Init, Bytes
<1>2. receipts \in Seq(Receipt) /\ Len(receipts) <= MaxRuns
  BY WorkspaceAssumption DEF Init
<1>3. export \in Export
  BY NoVersionsTyped DEF Init, NoExport, Export, None
<1>4. QED  BY <1>1, <1>2, <1>3, IdleTyped, WorkspaceAssumption DEF Init, TypeOK

\* The steps that leave the receipts and the export alone.
LEMMA OpenTyped ==
  ASSUME TypeOK, UNCHANGED <<time, receipts, export, edits, crashes>>,
         file' \in [Files -> Bytes], open' \in Open
  PROVE  TypeOK'
BY DEF TypeOK

\* A step that rewrites one receipt.
LEMMA ReceiptTyped ==
  ASSUME TypeOK, NEW i \in DOMAIN receipts, NEW r \in Receipt,
         receipts' = [receipts EXCEPT ![i] = r], UNCHANGED <<time, export, edits, crashes>>,
         file' \in [Files -> Bytes], open' \in Open
  PROVE  TypeOK' /\ Len(receipts') = Len(receipts) /\ DOMAIN receipts' = DOMAIN receipts
<1>1. receipts \in Seq(Receipt) /\ i \in 1 .. Len(receipts)  BY DEF TypeOK
<1>2. receipts' \in Seq(Receipt) /\ Len(receipts') = Len(receipts)  BY <1>1
<1>3. QED  BY <1>1, <1>2 DEF TypeOK

----------------------------------------------------------------------------
(* The invariant.  What a receipt binds is what its command read and left,  *)
(* up to the excused files; for a command that has not been bound yet the   *)
(* comparison still to come will find every other change.                   *)

Working == {"work", "hash", "recheck"}

\* Where the open attempt is, and what it holds there.
OpenHolds ==
  /\ open.pc \in {"launch"} \cup Working =>
       /\ open.kind = "run" /\ open.command \in Commands
       /\ DOMAIN open.bound = Inputs[open.command]
  /\ open.pc = "launch" => open.run = 0 /\ Len(receipts) < MaxRuns
  /\ open.pc \in Working =>
       /\ open.run \in DOMAIN receipts
       /\ receipts[open.run].command = open.command
       /\ receipts[open.run].inputs = open.bound
  /\ open.pc = "answer" => open.kind = "run" /\ open.run \in DOMAIN receipts
  /\ open.kind = "run" => open.pc \in {"launch", "answer", "down"} \cup Working
  /\ open.pc \in {"validate", "copy"} => Body \in DOMAIN export.copied
  /\ open.pc = "down" /\ open.kind = "run" => open.run = 0 \/ open.run \in DOMAIN receipts

\* An input that was not read as it was bound differs from the binding, until
\* it is set back; an output that is not as it was left has been changed.
ReadAsBound ==
  open.pc \in Working =>
    \A f \in DOMAIN open.bound :
      \/ receipts[open.run].read[f] = open.bound[f]
      \/ file[f] # open.bound[f]
      \/ f \in open.back

LeftAsHashed ==
  /\ open.pc \in {"hash", "recheck"} => receipts[open.run].exit = "ok"
  /\ open.pc \in {"hash", "recheck"} =>
       \A f \in Outputs[open.command] :
         file[f] = receipts[open.run].left[f] \/ f \in open.moved
  /\ open.pc = "recheck" =>
       /\ DOMAIN open.hashes = Outputs[open.command]
       /\ \A f \in DOMAIN open.hashes :
            open.hashes[f] = receipts[open.run].left[f] \/ f \in open.moved

\* A command that is bound but not answered yet: what is not as it was then has
\* been changed since.
AnswerHolds ==
  open.pc = "answer" => Genuine(open.run, receipts[open.run].excused \cup open.moved)

\* A receipt with a binding.
BoundAsDone(r) ==
  /\ r.exit = "ok"
  /\ DOMAIN r.inputs = Inputs[r.command] /\ DOMAIN r.outputs = Outputs[r.command]
  /\ \A f \in Inputs[r.command] : r.inputs[f] = r.read[f] \/ f \in r.excused
  /\ \A f \in Outputs[r.command] : r.outputs[f] = r.left[f] \/ f \in r.excused

Receipts ==
  \A i \in DOMAIN receipts : receipts[i].binding = "bound" => BoundAsDone(receipts[i])

\* The command that runs has no binding yet.
Unbound == open.pc \in Working => receipts[open.run].binding = None

RunInv ==
  TypeOK /\ OpenHolds /\ ReadAsBound /\ LeftAsHashed /\ Unbound /\ AnswerHolds /\ Receipts

LEMMA InitRuns == Init => RunInv
<1> SUFFICES ASSUME Init PROVE RunInv  OBVIOUS
<1>1. open.pc = "idle" /\ open.kind # "run" /\ receipts = <<>>  BY DEF Init, Idle, None
<1>2. QED
  BY <1>1, InitTyped DEF RunInv, OpenHolds, ReadAsBound, LeftAsHashed, Unbound, AnswerHolds, Receipts, Working

\* A step that ends an attempt, or is taken by one that runs no command.
LEMMA NoCommand ==
  ASSUME RunInv, TypeOK', UNCHANGED receipts,
         open'.pc \notin {"launch", "answer"} \cup Working,
         open'.kind = "run" =>
           open'.pc = "down" /\ (open'.run = 0 \/ open'.run \in DOMAIN receipts),
         open'.pc \in {"validate", "copy"} => Body \in DOMAIN export'.copied
  PROVE  RunInv'
BY DEF RunInv, OpenHolds, ReadAsBound, LeftAsHashed, Unbound, AnswerHolds, Receipts, Working, BoundAsDone

LEMMA RunBindsKeeps == RunInv /\ RunBinds => RunInv'
<1> SUFFICES ASSUME RunInv, RunBinds PROVE RunInv'  OBVIOUS
<1>1. PICK c \in Commands :
        open' = [Idle EXCEPT !.pc = "launch", !.kind = "run", !.command = c,
                             !.bound = Hashes(Inputs[c])]
  BY DEF RunBinds
<1>2. Hashes(Inputs[c]) \in Versions /\ DOMAIN Hashes(Inputs[c]) = Inputs[c]
  BY HashesTyped, WorkspaceAssumption DEF RunInv, TypeOK
<1>3. open' \in Open  BY <1>1, <1>2, IdleTyped DEF Open
<1>4. /\ open'.pc = "launch" /\ open'.kind = "run" /\ open'.command = c
      /\ open'.bound = Hashes(Inputs[c]) /\ open'.run = 0
  BY <1>1 DEF Idle
<1>5. TypeOK'  BY <1>3, OpenTyped DEF RunBinds, RunInv, TypeOK
<1>6. OpenHolds'  BY <1>2, <1>4 DEF OpenHolds, RunBinds, Working
<1>7. QED
  BY <1>4, <1>5, <1>6
  DEF RunInv, RunBinds, ReadAsBound, LeftAsHashed, Unbound, AnswerHolds, Receipts, Working, BoundAsDone

LEMMA RunLaunchesKeeps == RunInv /\ RunLaunches => RunInv'
<1> SUFFICES ASSUME RunInv, RunLaunches PROVE RunInv'  OBVIOUS
<1> DEFINE r == [command |-> open.command, at |-> time', inputs |-> open.bound, exit |-> "open",
                 binding |-> None, outputs |-> NoVersions, told |-> FALSE,
                 read |-> Hashes(Inputs[open.command]), left |-> NoVersions, excused |-> {}]
<1>1. /\ open.pc = "launch" /\ open.command \in Commands /\ open.kind = "run"
      /\ DOMAIN open.bound = Inputs[open.command] /\ Len(receipts) < MaxRuns
  BY DEF RunLaunches, RunInv, OpenHolds
<1>2. time' \in 0 .. MaxTime
  BY WorkspaceAssumption DEF RunLaunches, RunInv, TypeOK
<1>3. /\ Hashes(Inputs[open.command]) \in Versions
      /\ \A f \in Inputs[open.command] : Hashes(Inputs[open.command])[f] = file[f]
  BY <1>1, HashesTyped, WorkspaceAssumption DEF RunInv, TypeOK, Hashes
<1>4. r \in Receipt
  BY <1>1, <1>2, <1>3, NoVersionsTyped DEF Receipt, RunInv, TypeOK, Open, None
<1>5. receipts \in Seq(Receipt) /\ Len(receipts) \in Nat  BY DEF RunInv, TypeOK
<1> HIDE DEF r
<1>6. receipts' = Append(receipts, r)  BY DEF RunLaunches, r
<1>7. /\ receipts' \in Seq(Receipt) /\ Len(receipts') = Len(receipts) + 1
      /\ receipts'[Len(receipts')] = r
      /\ \A i \in DOMAIN receipts : receipts'[i] = receipts[i]
  BY <1>4, <1>5, <1>6
<1>8. Len(receipts') \in 0 .. MaxRuns /\ Len(receipts') \in DOMAIN receipts'
  BY <1>1, <1>5, <1>7, WorkspaceAssumption
<1>9. open' = [open EXCEPT !.pc = "work", !.run = Len(receipts')]  BY DEF RunLaunches
<1>10. /\ open'.pc = "work" /\ open'.run = Len(receipts') /\ open'.kind = open.kind
       /\ open'.command = open.command /\ open'.bound = open.bound /\ open'.back = open.back
  BY <1>9 DEF RunInv, TypeOK, Open
<1>11. open' \in Open  BY <1>8, <1>9 DEF RunInv, TypeOK, Open
<1>12. TypeOK'
  BY <1>2, <1>7, <1>8, <1>11 DEF RunLaunches, RunInv, TypeOK
<1>13. r.command = open.command /\ r.inputs = open.bound /\ r.binding = None
       /\ r.read = Hashes(Inputs[open.command])
  BY DEF r
<1>14. OpenHolds'  BY <1>1, <1>7, <1>8, <1>10, <1>13 DEF OpenHolds, Working
<1>15. ReadAsBound'
  BY <1>1, <1>3, <1>7, <1>10, <1>13 DEF ReadAsBound, RunLaunches
<1>16. LeftAsHashed'  BY <1>10 DEF LeftAsHashed
<1>17. Receipts'
  <2>1. \A i \in DOMAIN receipts' : i \in DOMAIN receipts \/ i = Len(receipts')
    BY <1>5, <1>7
  <2>2. QED  BY <2>1, <1>7, <1>13 DEF Receipts, RunInv, None, BoundAsDone
<1>18. Unbound'  BY <1>7, <1>10, <1>13 DEF Unbound
<1>19. AnswerHolds'  BY <1>10 DEF AnswerHolds
<1>20. QED  BY <1>12, <1>14, <1>15, <1>16, <1>17, <1>18, <1>19 DEF RunInv

LEMMA RunEndsKeeps == RunInv /\ RunEnds => RunInv'
<1> SUFFICES ASSUME RunInv, RunEnds PROVE RunInv'  OBVIOUS
<1>1. PICK written \in SUBSET Outputs[open.command] :
      \E new \in [written -> Contents] : \E exit \in {"ok", "bad"} :
       /\ file' = [f \in Files |-> IF f \in written THEN new[f] ELSE file[f]]
       /\ receipts' = [receipts EXCEPT
            ![open.run] = [@ EXCEPT !.exit = exit,
                             !.left = [f \in Outputs[open.command] |-> file'[f]]]]
       /\ open' = IF exit = "bad" THEN Idle
                  ELSE [open EXCEPT !.pc = "hash", !.back = @ \cup
                          {f \in written \cap DOMAIN open.bound : new[f] = open.bound[f]}]
  BY DEF RunEnds
<1>2. PICK new \in [written -> Contents], exit \in {"ok", "bad"} :
       /\ file' = [f \in Files |-> IF f \in written THEN new[f] ELSE file[f]]
       /\ receipts' = [receipts EXCEPT
            ![open.run] = [@ EXCEPT !.exit = exit,
                             !.left = [f \in Outputs[open.command] |-> file'[f]]]]
       /\ open' = IF exit = "bad" THEN Idle
                  ELSE [open EXCEPT !.pc = "hash", !.back = @ \cup
                          {f \in written \cap DOMAIN open.bound : new[f] = open.bound[f]}]
  BY <1>1
<1>3. /\ open.pc = "work" /\ open.command \in Commands /\ open.kind = "run"
      /\ DOMAIN open.bound = Inputs[open.command] /\ open.run \in DOMAIN receipts
      /\ receipts[open.run].command = open.command /\ receipts[open.run].inputs = open.bound
  BY DEF RunEnds, RunInv, OpenHolds, Working
<1>4. /\ receipts \in Seq(Receipt) /\ receipts[open.run] \in Receipt /\ open \in Open
      /\ file \in [Files -> Bytes] /\ written \subseteq Files
      /\ Outputs[open.command] \subseteq Files /\ Inputs[open.command] \subseteq Files
  BY <1>3, WorkspaceAssumption DEF RunInv, TypeOK
<1> DEFINE left == [f \in Outputs[open.command] |-> file'[f]]
           r == [receipts[open.run] EXCEPT !.exit = exit, !.left = left]
<1>5. file' \in [Files -> Bytes]  BY <1>2, <1>4 DEF Bytes
<1>6. left \in Versions  BY <1>4, <1>5 DEF Versions
<1>7. r \in Receipt  BY <1>4, <1>6 DEF Receipt
<1>8. open' \in Open
  BY <1>2, <1>4, IdleTyped DEF Open
<1>9. receipts' = [receipts EXCEPT ![open.run] = r]  BY <1>2
<1>10. TypeOK' /\ DOMAIN receipts' = DOMAIN receipts
  BY <1>3, <1>5, <1>7, <1>8, <1>9, ReceiptTyped DEF RunEnds, RunInv
<1>11. /\ receipts'[open.run] = r
       /\ \A i \in DOMAIN receipts \ {open.run} : receipts'[i] = receipts[i]
  BY <1>3, <1>9
<1>12. /\ r.command = open.command /\ r.inputs = open.bound /\ r.exit = exit /\ r.left = left
       /\ r.read = receipts[open.run].read
       /\ r.binding = receipts[open.run].binding /\ r.outputs = receipts[open.run].outputs
       /\ r.excused = receipts[open.run].excused
  BY <1>3, <1>4 DEF Receipt
<1>13. receipts[open.run].binding = None /\ None # "bound"
  BY <1>3 DEF RunInv, Unbound, Working, None
<1> HIDE DEF r
<1>14. Receipts' /\ Unbound'
  <2>1. \A i \in DOMAIN receipts' : receipts'[i].binding = receipts[i].binding
    BY <1>10, <1>11, <1>12
  <2>2. Receipts'
    BY <1>10, <1>11, <1>12, <1>13, <2>1 DEF RunInv, Receipts, BoundAsDone
  <2>3. open'.pc = "idle" \/ open'.run = open.run
    BY <1>2, <1>4 DEF Idle, Open
  <2>4. Unbound'
    BY <1>10, <1>3, <1>13, <2>1, <2>3 DEF Unbound, Working
  <2>5. QED  BY <2>2, <2>4
<1>15. CASE exit = "bad"
  BY <1>2, <1>10, <1>14, <1>15
  DEF RunInv, OpenHolds, ReadAsBound, LeftAsHashed, AnswerHolds, Working, Idle, None
<1>16. CASE exit = "ok"
  <2>1. /\ open'.pc = "hash" /\ open'.command = open.command /\ open'.run = open.run
        /\ open'.kind = "run" /\ open'.bound = open.bound
        /\ open'.back = open.back \cup
             {f \in written \cap DOMAIN open.bound : new[f] = open.bound[f]}
    BY <1>2, <1>3, <1>4, <1>16 DEF Open
  <2>2. OpenHolds'  BY <2>1, <1>3, <1>10, <1>11, <1>12 DEF OpenHolds, Working
  <2>3. ReadAsBound'
    <3> SUFFICES ASSUME NEW f \in DOMAIN open.bound,
                        r.read[f] # open.bound[f], file'[f] = open.bound[f]
                 PROVE  f \in open'.back
      BY <2>1, <1>11 DEF ReadAsBound, Working
    <3>1. file[f] # open.bound[f] \/ f \in open.back
      BY <1>3, <1>12 DEF RunInv, ReadAsBound, Working
    <3>2. f \in written => new[f] = open.bound[f]  BY <1>2, <1>3, <1>4
    <3>3. f \notin written => file[f] = open.bound[f]  BY <1>2, <1>3, <1>4
    <3>4. QED  BY <3>1, <3>2, <3>3, <2>1
  <2>4. LeftAsHashed'
    BY <2>1, <1>11, <1>12, <1>16 DEF LeftAsHashed
  <2>5. AnswerHolds'  BY <2>1 DEF AnswerHolds
  <2>6. QED  BY <2>2, <2>3, <2>4, <2>5, <1>10, <1>14 DEF RunInv
<1>17. QED  BY <1>15, <1>16

LEMMA OutputErrorKeeps ==
  ASSUME RunInv, open.pc \in Working, OutputError, UNCHANGED <<file, time, export, edits, crashes>>
  PROVE  RunInv'
<1>1. open.run \in DOMAIN receipts  BY DEF RunInv, OpenHolds
<1>2. receipts[open.run] \in Receipt /\ file \in [Files -> Bytes]
  BY <1>1 DEF RunInv, TypeOK
<1> DEFINE r == [receipts[open.run] EXCEPT !.binding = "error"]
<1>3. r \in Receipt /\ r.binding = "error"  BY <1>2 DEF Receipt
<1>4. receipts' = [receipts EXCEPT ![open.run] = r] /\ open' = Idle  BY DEF OutputError
<1> HIDE DEF r
<1>5. TypeOK' /\ DOMAIN receipts' = DOMAIN receipts
  BY <1>1, <1>2, <1>3, <1>4, IdleTyped, ReceiptTyped DEF RunInv
<1>6. \A i \in DOMAIN receipts' : receipts'[i] = receipts[i] \/ receipts'[i].binding = "error"
  BY <1>1, <1>3, <1>4
<1>7. Receipts'
  BY <1>5, <1>6 DEF RunInv, Receipts, BoundAsDone
<1>8. QED
  BY <1>4, <1>5, <1>7
  DEF RunInv, OpenHolds, ReadAsBound, LeftAsHashed, Unbound, AnswerHolds, Working, Idle, None

LEMMA RunHashesOutputsKeeps == RunInv /\ RunHashesOutputs => RunInv'
<1> SUFFICES ASSUME RunInv, RunHashesOutputs PROVE RunInv'  OBVIOUS
<1>1. open.pc = "hash" /\ open.command \in Commands /\ open \in Open
  BY DEF RunHashesOutputs, RunInv, OpenHolds, Working, TypeOK
<1>2. CASE OutputError
  BY <1>1, <1>2, OutputErrorKeeps DEF RunHashesOutputs, Working
<1>3. CASE ~ OutputError
  <2>1. open' = [open EXCEPT !.pc = "recheck", !.hashes = Hashes(Outputs[open.command])]
        /\ UNCHANGED receipts
    BY <1>3 DEF RunHashesOutputs
  <2>2. /\ Hashes(Outputs[open.command]) \in Versions
        /\ DOMAIN Hashes(Outputs[open.command]) = Outputs[open.command]
        /\ \A f \in Outputs[open.command] : Hashes(Outputs[open.command])[f] = file[f]
    BY <1>1, HashesTyped, WorkspaceAssumption DEF RunInv, TypeOK, Hashes
  <2>3. open' \in Open  BY <1>1, <2>1, <2>2 DEF Open
  <2>4. /\ open'.pc = "recheck" /\ open'.hashes = Hashes(Outputs[open.command])
        /\ open'.command = open.command /\ open'.run = open.run /\ open'.kind = open.kind
        /\ open'.bound = open.bound /\ open'.back = open.back /\ open'.moved = open.moved
    BY <1>1, <2>1 DEF Open
  <2>5. TypeOK'  BY <2>1, <2>3, OpenTyped DEF RunHashesOutputs, RunInv, TypeOK
  <2>6. OpenHolds' /\ ReadAsBound' /\ Unbound' /\ AnswerHolds'
    BY <1>1, <2>1, <2>4
    DEF RunHashesOutputs, RunInv, OpenHolds, ReadAsBound, Unbound, AnswerHolds, Working
  <2>7. LeftAsHashed'
    BY <1>1, <2>1, <2>2, <2>4 DEF RunHashesOutputs, RunInv, LeftAsHashed
  <2>8. Receipts'  BY <2>1 DEF RunInv, Receipts, BoundAsDone
  <2>9. QED  BY <2>5, <2>6, <2>7, <2>8 DEF RunInv
<1>4. QED  BY <1>2, <1>3

LEMMA RunIsBoundKeeps == RunInv /\ RunIsBound => RunInv'
<1> SUFFICES ASSUME RunInv, RunIsBound PROVE RunInv'  OBVIOUS
<1>1. /\ open.pc = "recheck" /\ open.command \in Commands /\ open \in Open
      /\ DOMAIN open.bound = Inputs[open.command] /\ open.run \in DOMAIN receipts
      /\ receipts[open.run].command = open.command /\ receipts[open.run].inputs = open.bound
      /\ receipts[open.run].exit = "ok" /\ DOMAIN open.hashes = Outputs[open.command]
      /\ receipts[open.run] \in Receipt /\ file \in [Files -> Bytes]
  BY DEF RunIsBound, RunInv, OpenHolds, LeftAsHashed, Working, TypeOK
<1>2. CASE OutputError
  BY <1>1, <1>2, OutputErrorKeeps DEF RunIsBound, Working
<1>3. CASE ~ OutputError
  <2> DEFINE r == [receipts[open.run] EXCEPT !.binding = "bound", !.outputs = open.hashes,
                                             !.excused = Excused]
  <2>1. /\ InputsHold /\ receipts' = [receipts EXCEPT ![open.run] = r]
        /\ open' = [open EXCEPT !.pc = "answer", !.moved = {}]
    BY <1>3 DEF RunIsBound
  <2>2. Excused \in SUBSET Files /\ open.hashes \in Versions
    BY <1>1 DEF Excused, Open
  <2>3. r \in Receipt  BY <1>1, <2>2 DEF Receipt
  <2>4. /\ r.command = open.command /\ r.inputs = open.bound /\ r.exit = "ok"
        /\ r.outputs = open.hashes /\ r.excused = Excused
        /\ r.read = receipts[open.run].read /\ r.left = receipts[open.run].left
    BY <1>1 DEF Receipt
  <2>5. \A f \in DOMAIN open.bound : file[f] = open.bound[f]
    BY <2>1 DEF InputsHold, Current
  <2> HIDE DEF r
  <2>6. BoundAsDone(r)
    <3>1. \A f \in Inputs[r.command] : r.inputs[f] = r.read[f] \/ f \in r.excused
      BY <1>1, <2>4, <2>5 DEF RunInv, ReadAsBound, Working, Excused
    <3>2. \A f \in Outputs[r.command] : r.outputs[f] = r.left[f] \/ f \in r.excused
      BY <1>1, <2>4 DEF RunInv, LeftAsHashed, Excused
    <3>3. QED  BY <3>1, <3>2, <2>4, <1>1 DEF BoundAsDone
  <2>7. TypeOK' /\ DOMAIN receipts' = DOMAIN receipts
    <3>1. open' \in Open  BY <1>1, <2>1 DEF Open
    <3> QED  BY <1>1, <2>1, <2>3, <3>1, ReceiptTyped DEF RunIsBound, RunInv
  <2>8. /\ \A i \in DOMAIN receipts' : receipts'[i] = receipts[i] \/ receipts'[i] = r
        /\ receipts'[open.run] = r
    BY <1>1, <2>1
  <2>9. Receipts'
    BY <2>6, <2>7, <2>8 DEF RunInv, Receipts, BoundAsDone
  <2>10. /\ open'.pc = "answer" /\ open'.run = open.run /\ open'.kind = open.kind
         /\ open.kind = "run" /\ UNCHANGED file
    BY <1>1, <2>1 DEF Open, RunIsBound, RunInv, OpenHolds, Working
  <2>11. AnswerHolds'
    <3>1. \A f \in Inputs[r.command] : file[f] = r.read[f] \/ f \in r.excused
      BY <1>1, <2>4, <2>5 DEF RunInv, ReadAsBound, Working, Excused
    <3>2. \A f \in Outputs[r.command] : file[f] = r.left[f] \/ f \in r.excused
      BY <1>1, <2>4 DEF RunInv, LeftAsHashed, Excused
    <3> QED  BY <2>4, <2>8, <2>10, <3>1, <3>2 DEF AnswerHolds, Genuine
  <2>12. QED
    BY <1>1, <2>7, <2>9, <2>10, <2>11
    DEF RunInv, OpenHolds, ReadAsBound, LeftAsHashed, Unbound, Working
<1>4. QED  BY <1>2, <1>3

LEMMA RunIsAnsweredKeeps == RunInv /\ RunIsAnswered => RunInv'
<1> SUFFICES ASSUME RunInv, RunIsAnswered PROVE RunInv'  OBVIOUS
<1>1. /\ open.pc = "answer" /\ open.run \in DOMAIN receipts /\ open' = Idle
      /\ Idle.pc = "idle" /\ Idle.kind # "run" /\ receipts[open.run] \in Receipt
      /\ file' \in [Files -> Bytes]
  BY DEF RunIsAnswered, RunInv, OpenHolds, TypeOK, Idle, None
<1> DEFINE r == [receipts[open.run] EXCEPT !.told = TRUE]
<1>2. /\ r \in Receipt /\ r.binding = receipts[open.run].binding
      /\ BoundAsDone(receipts[open.run]) => BoundAsDone(r)
  BY <1>1 DEF Receipt, BoundAsDone
<1>3. receipts' = [receipts EXCEPT ![open.run] = r]  BY <1>1 DEF RunIsAnswered
<1> HIDE DEF r
<1>4. TypeOK' /\ DOMAIN receipts' = DOMAIN receipts
  <2>1. TypeOK /\ UNCHANGED <<time, export, edits, crashes>>  BY DEF RunIsAnswered, RunInv
  <2>2. open' \in Open  BY <1>1, IdleTyped
  <2> QED  BY <1>1, <1>2, <1>3, <2>1, <2>2, ReceiptTyped
<1>5. \A i \in DOMAIN receipts' : receipts'[i] = receipts[i] \/ (i = open.run /\ receipts'[i] = r)
  BY <1>1, <1>3
<1>6. Receipts'  BY <1>2, <1>4, <1>5 DEF RunInv, Receipts, BoundAsDone
<1>7. QED
  BY <1>1, <1>4, <1>6
  DEF RunInv, OpenHolds, ReadAsBound, LeftAsHashed, Unbound, AnswerHolds, Working

LEMMA RecoveredTyped ==
  ASSUME RunInv, NEW i \in DOMAIN receipts, NEW r, r = Recovered(i)
  PROVE  /\ r \in Receipt
         /\ r.told => receipts[i].told \/ Stands(i)
         /\ r.command = receipts[i].command /\ r.exit = receipts[i].exit
         /\ r.inputs = receipts[i].inputs /\ r.read = receipts[i].read
         /\ r.outputs = receipts[i].outputs /\ r.left = receipts[i].left
         /\ r.binding = receipts[i].binding /\ r.excused = receipts[i].excused
<1>1. receipts[i] \in Receipt  BY DEF RunInv, TypeOK
<1>2. QED  BY <1>1 DEF Recovered, Receipt

LEMMA RunRecoversKeeps == RunInv /\ RunRecovers => RunInv'
<1> SUFFICES ASSUME RunInv, RunRecovers PROVE RunInv'  OBVIOUS
<1>1. /\ open' = Idle /\ file' \in [Files -> Bytes] /\ Idle.pc = "idle" /\ Idle.kind # "run"
      /\ open.run = 0 \/ open.run \in DOMAIN receipts
  BY DEF RunRecovers, RunInv, OpenHolds, TypeOK, Idle, None
<1>2. CASE open.run = 0
  <2>1. TypeOK' /\ UNCHANGED receipts
    BY <1>1, <1>2, IdleTyped, OpenTyped DEF RunRecovers, RunInv
  <2>2. QED  BY <2>1, <1>1, NoCommand DEF Working
<1>3. CASE open.run # 0
  <2>1. PICK i \in DOMAIN receipts : i = open.run  BY <1>1, <1>3
  <2>2. PICK r : r = Recovered(i)  OBVIOUS
  <2>3. receipts' = [receipts EXCEPT ![i] = r]  BY <1>3, <2>1, <2>2 DEF RunRecovers
  <2>4. r \in Receipt  BY <2>2, RecoveredTyped
  <2>5. TypeOK' /\ DOMAIN receipts' = DOMAIN receipts
    <3>1. TypeOK /\ UNCHANGED <<time, export, edits, crashes>>  BY DEF RunRecovers, RunInv
    <3>2. open' \in Open  BY <1>1, IdleTyped
    <3> QED  BY <1>1, <2>3, <2>4, <3>1, <3>2, ReceiptTyped
  <2>6. receipts'[i] = r /\ \A j \in DOMAIN receipts' \ {i} : receipts'[j] = receipts[j]
    <3>1. DOMAIN receipts' = DOMAIN receipts  BY <2>5
    <3> QED  BY <2>3, <3>1, Zenon
  <2>7. BoundAsDone(receipts[i]) => BoundAsDone(r)
    BY <2>2, RecoveredTyped DEF BoundAsDone
  <2>8. r.binding = receipts[i].binding  BY <2>2, RecoveredTyped
  <2>9. Receipts'  BY <2>5, <2>6, <2>7, <2>8 DEF RunInv, Receipts, BoundAsDone
  <2>10. QED
    BY <1>1, <2>5, <2>9
    DEF RunInv, OpenHolds, ReadAsBound, LeftAsHashed, Unbound, AnswerHolds, Working
<1>4. QED  BY <1>2, <1>3

LEMMA EditKeeps == RunInv /\ Edit => RunInv'
<1> SUFFICES ASSUME RunInv, Edit PROVE RunInv'  OBVIOUS
<1>1. PICK f \in Files, c \in Bytes :
       /\ c # file[f]
       /\ file' = [file EXCEPT ![f] = c]
       /\ open' = [open EXCEPT
            !.back = @ \cup {g \in {f} \cap DOMAIN open.bound :
                               open.kind = "run" /\ open.bound[g] = c},
            !.moved = @ \cup {g \in {f} : open.pc \in {"hash", "recheck", "answer"}},
            !.touched = @ \cup {g \in {f} : open.pc \in {"last", "pin"}}]
       /\ export' = IF export.request = NoVersions THEN export
                    ELSE [export EXCEPT !.back = @ \cup
                            {g \in {f} \cap Published : export.request[g] = c}]
  BY DEF Edit
<1>2. /\ file \in [Files -> Bytes] /\ open \in Open /\ export \in Export
  BY DEF RunInv, TypeOK
<1>3. file' \in [Files -> Bytes]  BY <1>1, <1>2
<1>4. open' \in Open  BY <1>1, <1>2 DEF Open
<1>5. export' \in Export
  <2>1. CASE export.request = NoVersions  BY <2>1, <1>1, <1>2
  <2>2. CASE export.request # NoVersions
    <3>1. export' = [export EXCEPT !.back = @ \cup
                       {g \in {f} \cap Published : export.request[g] = c}]
      BY <2>2, <1>1
    <3> DEFINE set == {g \in {f} \cap Published : export.request[g] = c}
    <3>2. export.back \cup set \in SUBSET Files
      <4>1. set \subseteq {f} /\ f \in Files  BY <1>1
      <4>2. QED  BY <4>1, <1>2 DEF Export
    <3>3. QED  BY <3>1, <3>2, <1>2 DEF Export
  <2>3. QED  BY <2>1, <2>2
<1>6. TypeOK'
  <2>1. edits' \in 0 .. MaxEdits  BY WorkspaceAssumption DEF Edit, RunInv, TypeOK
  <2>2. QED  BY <1>3, <1>4, <1>5, <2>1 DEF Edit, RunInv, TypeOK
<1>7. /\ open'.pc = open.pc /\ open'.kind = open.kind /\ open'.command = open.command
      /\ open'.run = open.run /\ open'.bound = open.bound /\ open'.hashes = open.hashes
      /\ open'.back = open.back \cup {g \in {f} \cap DOMAIN open.bound :
                                        open.kind = "run" /\ open.bound[g] = c}
      /\ open'.moved = open.moved \cup {g \in {f} : open.pc \in {"hash", "recheck", "answer"}}
  BY <1>1, <1>2 DEF Open
<1>8. /\ UNCHANGED receipts /\ file'[f] = c /\ \A g \in Files \ {f} : file'[g] = file[g]
      /\ export'.copied = export.copied
  BY <1>1, <1>2 DEF Edit, Export
<1>9. OpenHolds' /\ Unbound' /\ Receipts'
  BY <1>7, <1>8 DEF RunInv, OpenHolds, Unbound, Receipts, BoundAsDone, Working
<1>10. ReadAsBound'
  <2>1. open.pc \in Working => DOMAIN open.bound \subseteq Files /\ open.kind = "run"
    BY WorkspaceAssumption DEF RunInv, OpenHolds, Working
  <2>2. QED  BY <2>1, <1>7, <1>8 DEF RunInv, ReadAsBound
<1>11. LeftAsHashed'
  <2>1. open.pc \in {"hash", "recheck"} => Outputs[open.command] \subseteq Files
    BY WorkspaceAssumption DEF RunInv, OpenHolds, Working
  <2>2. QED  BY <2>1, <1>7, <1>8 DEF RunInv, LeftAsHashed
<1>12. AnswerHolds'
  <2> SUFFICES ASSUME open.pc = "answer"
               PROVE  Genuine(open.run, receipts[open.run].excused \cup open.moved)'
    BY <1>7, <1>8 DEF AnswerHolds
  <2>1. open'.moved = open.moved \cup {f}  BY <1>7
  <2>2. receipts[open.run] \in Receipt  BY DEF RunInv, OpenHolds, TypeOK
  <2>3. Inputs[receipts[open.run].command] \subseteq Files
        /\ Outputs[receipts[open.run].command] \subseteq Files
    BY <2>2, WorkspaceAssumption DEF Receipt
  <2> QED  BY <1>7, <1>8, <2>1, <2>3 DEF RunInv, AnswerHolds, Genuine
<1>13. QED  BY <1>6, <1>9, <1>10, <1>11, <1>12 DEF RunInv

LEMMA CrashKeeps == RunInv /\ Crash => RunInv'
<1> SUFFICES ASSUME RunInv, Crash PROVE RunInv'  OBVIOUS
<1>1. /\ open' = [Idle EXCEPT !.pc = "down", !.kind = open.kind, !.run = open.run]
      /\ open.pc \notin {"idle", "down"} /\ open \in Open
  BY DEF Crash, RunInv, TypeOK
<1>2. open' \in Open  BY <1>1, IdleTyped DEF Open
<1>3. open'.pc = "down" /\ open'.kind = open.kind /\ open'.run = open.run  BY <1>1 DEF Idle
<1>4. crashes' \in 0 .. MaxCrashes
  BY WorkspaceAssumption DEF Crash, RunInv, TypeOK
<1>5. TypeOK' /\ UNCHANGED receipts  BY <1>2, <1>4 DEF Crash, RunInv, TypeOK
<1>6. open.kind = "run" => open.run = 0 \/ open.run \in DOMAIN receipts
  BY <1>1 DEF RunInv, OpenHolds, Working
<1>7. QED  BY <1>3, <1>5, <1>6, NoCommand DEF Working

LEMMA ExportingTyped ==
  ASSUME TypeOK, NEW retry \in BOOLEAN
  PROVE  /\ Exporting(retry) \in Open
         /\ Exporting(retry).pc = "first" /\ Exporting(retry).kind = "export"
         /\ Exporting(retry).bound = Binding /\ Exporting(retry).retry = retry
         /\ Binding \in Versions /\ DOMAIN Binding = Published
<1>1. Binding \in Versions /\ DOMAIN Binding = Published
  BY HashesTyped, PublishedFiles DEF Binding, TypeOK
<1>2. ToCheck(Binding) \in SUBSET Files
  BY <1>1, PublishedFiles DEF ToCheck
<1>3. QED  BY <1>1, <1>2, IdleTyped DEF Exporting, Open, Idle

\* The steps of an export run no command.
Exports ==
  \/ ExportBinds \/ CheckProducer \/ ExportIsRequested
  \/ RendererReadsBody \/ RendererValidates \/ RendererCopies
  \/ ExportChecksAgain \/ ExportCompares \/ ExportIsPinned \/ ExportIsSaved \/ ExportRecovers

Exported == {"first", "body", "validate", "copy", "refresh", "last", "pin", "delivered"}

\* What a step of an export leaves open: nothing, the export it begins, or its
\* own attempt further on.
LEMMA ExportStep ==
  ASSUME RunInv, Exports
  PROVE  /\ UNCHANGED <<file, time, receipts, edits, crashes>>
         /\ open' \in Open /\ open'.pc \in Exported \cup {"idle"}
         /\ open'.kind # "run"
<1>1. open \in Open /\ file \in [Files -> Bytes] /\ TypeOK  BY DEF RunInv, TypeOK
<1>2. Idle \in Open /\ Idle.pc = "idle" /\ Idle.kind # "run"
  BY IdleTyped DEF Idle, None
<1>3. open.pc \in Exported => open.kind # "run"
  BY DEF RunInv, OpenHolds, Exported, Working
<1>4. CASE ExportBinds
  BY <1>1, <1>4, ExportingTyped DEF ExportBinds, Exported
<1>5. CASE ExportRecovers
  BY <1>1, <1>2, <1>5, ExportingTyped DEF ExportRecovers, Exported
<1>6. CASE CheckProducer
  <2>1. PICK f \in open.todo :
          open' = IF Declaring(f) = {} \/ Latest(f) \cap open.checked # {}
                  THEN [open EXCEPT !.todo = @ \ {f}]
                  ELSE IF \E i \in Latest(f) : Stands(i)
                  THEN [open EXCEPT !.checked = @ \cup Latest(f),
                                    !.todo = (@ \ {f}) \cup NextToCheck(f)]
                  ELSE Idle
    BY <1>6 DEF CheckProducer
  <2>2. Latest(f) \in SUBSET (DOMAIN receipts)  BY DEF Latest, Declaring
  <2>3. DOMAIN receipts \in SUBSET Nat /\ \A i \in DOMAIN receipts : receipts[i].command \in Commands
    <3>1. receipts \in Seq(Receipt)  BY <1>1 DEF TypeOK
    <3>2. DOMAIN receipts = 1 .. Len(receipts) /\ \A i \in DOMAIN receipts : receipts[i] \in Receipt
      BY <3>1
    <3>3. QED  BY <3>1, <3>2 DEF Receipt
  <2>4. NextToCheck(f) \in SUBSET Files
    BY <2>2, <2>3, WorkspaceAssumption DEF NextToCheck
  <2>5. Latest(f) \in SUBSET Nat  BY <2>2, <2>3
  <2>6. open.pc \in {"first", "last"}  BY <1>6 DEF CheckProducer
  <2>7. open' \in Open
    <3>1. open.todo \ {f} \in SUBSET Files /\ open.checked \in SUBSET Nat
      BY <1>1 DEF Open
    <3>2. [open EXCEPT !.todo = @ \ {f}] \in Open  BY <3>1, <1>1 DEF Open
    <3>3. [open EXCEPT !.checked = @ \cup Latest(f),
                       !.todo = (@ \ {f}) \cup NextToCheck(f)] \in Open
      <4>1. open.checked \cup Latest(f) \in SUBSET Nat  BY <3>1, <2>5
      <4>2. (open.todo \ {f}) \cup NextToCheck(f) \in SUBSET Files  BY <3>1, <2>4
      <4>3. QED  BY <4>1, <4>2, <1>1 DEF Open
    <3>4. QED  BY <2>1, <3>2, <3>3, <1>2
  <2>8. open' = Idle \/ (open'.pc = open.pc /\ open'.kind = open.kind)
    <3> DEFINE less == [open EXCEPT !.todo = @ \ {f}]
               more == [open EXCEPT !.checked = @ \cup Latest(f),
                                    !.todo = (@ \ {f}) \cup NextToCheck(f)]
    <3>1. /\ less.pc = open.pc /\ less.kind = open.kind
          /\ more.pc = open.pc /\ more.kind = open.kind
      BY <1>1 DEF Open
    <3>2. open' = less \/ open' = more \/ open' = Idle  BY <2>1
    <3> HIDE DEF less, more
    <3>3. QED  BY <3>1, <3>2
  <2>9. QED  BY <2>6, <2>7, <2>8, <1>2, <1>3, <1>6 DEF CheckProducer, Exported
<1>7. CASE ExportChecksAgain
  <2>1. ToCheck(open.bound) \in SUBSET Files
    BY <1>1 DEF ToCheck, Open, Versions
  <2>2. open' = [open EXCEPT !.pc = "last", !.todo = ToCheck(open.bound), !.checked = {}]
        /\ open.pc = "refresh"
    BY <1>7 DEF ExportChecksAgain, CheckAgain
  <2>3. open' \in Open /\ open'.pc = "last" /\ open'.kind = open.kind
    BY <2>1, <2>2, <1>1 DEF Open
  <2>4. QED  BY <2>2, <2>3, <1>3, <1>7 DEF ExportChecksAgain, Exported
<1>8. CASE ExportIsRequested
  BY <1>1, <1>2, <1>3, <1>8 DEF ExportIsRequested, Open, Exported
<1>9. CASE RendererReadsBody
  BY <1>1, <1>2, <1>3, <1>9 DEF RendererReadsBody, Open, Exported
<1>10. CASE RendererValidates
  BY <1>1, <1>2, <1>3, <1>10 DEF RendererValidates, Open, Exported
<1>11. CASE RendererCopies
  BY <1>1, <1>2, <1>3, <1>11 DEF RendererCopies, Open, Exported
<1>12. CASE ExportCompares
  BY <1>1, <1>2, <1>3, <1>12 DEF ExportCompares, Open, Exported
<1>13. CASE ExportIsPinned
  BY <1>1, <1>2, <1>3, <1>13 DEF ExportIsPinned, Open, Exported
<1>14. CASE ExportIsSaved
  BY <1>1, <1>2, <1>14 DEF ExportIsSaved, Exported
<1>15. QED
  BY <1>4, <1>5, <1>6, <1>7, <1>8, <1>9, <1>10, <1>11, <1>12, <1>13, <1>14 DEF Exports

LEMMA ExportTyped ==
  ASSUME RunInv, Exports
  PROVE  export' \in Export
<1>1. /\ open \in Open /\ file \in [Files -> Bytes] /\ export \in Export
  BY DEF RunInv, TypeOK
<1>2. CASE ExportIsRequested
  <2>1. export' = export \/ export' = [export EXCEPT !.request = open.bound]
    BY <1>2 DEF ExportIsRequested
  <2>2. open.bound \in Versions  BY <1>1 DEF Open
  <2>3. QED  BY <1>1, <2>1, <2>2 DEF Export
<1>3. CASE RendererReadsBody
  <2>1. {Body} \in SUBSET Files  BY WorkspaceAssumption
  <2>2. Hashes({Body}) \in Versions  BY <1>1, <2>1, HashesTyped
  <2>3. export' = export \/ export' = [export EXCEPT !.copied = Hashes({Body})]
    BY <1>3 DEF RendererReadsBody
  <2>4. QED  BY <1>1, <2>2, <2>3 DEF Export
<1>4. CASE RendererCopies
  <2>1. PICK manifest \in {"rendered", "failed"} :
          export' = [export EXCEPT !.manifest = manifest, !.project = 1,
            !.copied = [f \in {Body} \cup Present(Shown) |->
                          IF f = Body THEN export.copied[Body] ELSE file[f]]]
    BY <1>4 DEF RendererCopies
  <2> DEFINE copied == [f \in {Body} \cup Present(Shown) |->
                          IF f = Body THEN export.copied[Body] ELSE file[f]]
  <2>2. open.pc = "copy" /\ Body \in DOMAIN export.copied /\ Body \in Files
    BY <1>4, WorkspaceAssumption DEF RendererCopies, RunInv, OpenHolds
  <2>3. export.copied[Body] \in Bytes  BY <2>2, <1>1 DEF Export, Versions
  <2>4. {Body} \cup Present(Shown) \in SUBSET Files
    BY <2>2, WorkspaceAssumption DEF Present, Shown, ToCheck
  <2>5. copied \in Versions
    <3>1. \A f \in DOMAIN copied : copied[f] \in Bytes  BY <2>3, <2>4, <1>1
    <3>2. copied \in [{Body} \cup Present(Shown) -> Bytes]  BY <3>1
    <3>3. QED  BY <2>4, <3>2 DEF Versions
  <2>6. QED  BY <1>1, <2>1, <2>5 DEF Export
<1>5. CASE ExportIsPinned
  <2>1. export' = export \/ export' = [export EXCEPT !.pinned = export.project]
    BY <1>5 DEF ExportIsPinned
  <2>2. QED  BY <1>1, <2>1 DEF Export
<1>6. CASE UNCHANGED export  BY <1>1, <1>6
<1>7. QED
  BY <1>2, <1>3, <1>4, <1>5, <1>6
  DEF Exports, ExportBinds, CheckProducer, RendererValidates, ExportChecksAgain, ExportCompares,
      ExportIsSaved, ExportRecovers

\* The renderer has read the text when it comes to the images.
LEMMA TextIsRead ==
  ASSUME RunInv, Exports, open'.pc \in {"validate", "copy"}
  PROVE  Body \in DOMAIN export'.copied
<1>1. open \in Open /\ export \in Export /\ Idle.pc = "idle"
  BY DEF RunInv, TypeOK, Idle
<1>2. CASE RendererReadsBody
  <2>1. export' = [export EXCEPT !.copied = Hashes({Body})]
    BY <1>1, <1>2 DEF RendererReadsBody
  <2>2. QED  BY <1>1, <2>1 DEF Export, Hashes
<1>3. CASE RendererValidates
  BY <1>3 DEF RendererValidates, RunInv, OpenHolds
<1>4. CASE ExportBinds \/ ExportRecovers
  BY <1>1, <1>4, ExportingTyped DEF ExportBinds, ExportRecovers, RunInv
<1>5. CASE CheckProducer
  <2>1. open.pc \in {"first", "last"} /\ (open' = Idle \/ open'.pc = open.pc)
    BY <1>1, <1>5 DEF CheckProducer, Open
  <2>2. QED  BY <2>1, <1>1
<1>6. CASE ExportIsRequested \/ RendererCopies \/ ExportChecksAgain
  BY <1>1, <1>6
  DEF ExportIsRequested, RendererCopies, ExportChecksAgain, CheckAgain, Open
<1>7. CASE ExportCompares \/ ExportIsPinned \/ ExportIsSaved
  BY <1>1, <1>7 DEF ExportCompares, ExportIsPinned, ExportIsSaved, Open
<1>8. QED
  BY <1>2, <1>3, <1>4, <1>5, <1>6, <1>7 DEF Exports

LEMMA ExportsKeep == RunInv /\ Exports => RunInv'
<1> SUFFICES ASSUME RunInv, Exports PROVE RunInv'  OBVIOUS
<1>1. TypeOK'  BY ExportStep, ExportTyped DEF RunInv, TypeOK
<1>2. UNCHANGED receipts /\ open'.kind # "run" /\ open'.pc \in Exported \cup {"idle"}
  BY ExportStep
<1>3. QED  BY <1>1, <1>2, TextIsRead, NoCommand DEF Exported, Working

LEMMA RunIsRefusedKeeps == RunInv /\ RunIsRefused => RunInv'
<1> SUFFICES ASSUME RunInv, RunIsRefused PROVE RunInv'  OBVIOUS
<1>1. open' = Idle /\ Idle.pc = "idle" /\ Idle.kind # "run" /\ UNCHANGED receipts
  BY DEF RunIsRefused, Idle, None
<1>2. TypeOK'  BY <1>1, IdleTyped, OpenTyped DEF RunIsRefused, RunInv, TypeOK
<1>3. QED  BY <1>1, <1>2, NoCommand DEF Working

LEMMA EditProjectKeeps == RunInv /\ EditProject => RunInv'
<1> SUFFICES ASSUME RunInv, EditProject PROVE RunInv'  OBVIOUS
<1>1. export \in Export /\ export' = [export EXCEPT !.project = @ + 1]
  BY DEF EditProject, RunInv, TypeOK
<1>2. export' \in Export /\ export'.copied = export.copied  BY <1>1 DEF Export
<1>3. edits' \in 0 .. MaxEdits  BY WorkspaceAssumption DEF EditProject, RunInv, TypeOK
<1>4. TypeOK'  BY <1>2, <1>3 DEF EditProject, RunInv, TypeOK
<1>5. QED
  BY <1>2, <1>4
  DEF EditProject, RunInv, OpenHolds, ReadAsBound, LeftAsHashed, Unbound, AnswerHolds, Genuine,
      Working, Receipts, BoundAsDone

LEMMA StutterKeeps == RunInv /\ UNCHANGED vars => RunInv'
BY DEF RunInv, TypeOK, OpenHolds, ReadAsBound, LeftAsHashed, Unbound, AnswerHolds, Genuine,
       Working, Receipts, BoundAsDone, vars

LEMMA StepKeeps == RunInv /\ [Next]_vars => RunInv'
BY RunBindsKeeps, RunLaunchesKeeps, RunIsRefusedKeeps, RunEndsKeeps, RunHashesOutputsKeeps,
   RunIsBoundKeeps, RunIsAnsweredKeeps, RunRecoversKeeps, ExportsKeep, EditKeeps, EditProjectKeeps, CrashKeeps,
   StutterKeeps
DEF Next, Exports

LEMMA AlwaysRunInv == Spec => []RunInv
BY InitRuns, StepKeeps, PTL DEF Spec

\* What is on disk and in memory has the form the code writes, whatever is
\* edited and wherever the process stops.
THEOREM WorkIsTyped == Spec => []TypeOK
<1>1. RunInv => TypeOK  BY DEF RunInv
<1>2. QED  BY <1>1, AlwaysRunInv, PTL

----------------------------------------------------------------------------
(* A command is answered as successful only while what it read and left is  *)
(* there.                                                                   *)

\* Only the call itself and its reconciliation answer so.
LEMMA ToldByComparison ==
  ASSUME RunInv, [Next]_vars, NEW i \in DOMAIN receipts,
         ~ receipts[i].told, receipts'[i].told
  PROVE  RunIsAnswered \/ RunRecovers
<1> SUFFICES ASSUME ~ RunIsAnswered, ~ RunRecovers PROVE FALSE  OBVIOUS
<1>1. receipts \in Seq(Receipt) /\ \A j \in DOMAIN receipts : receipts[j] \in Receipt
  BY DEF RunInv, TypeOK
<1>2. CASE RunLaunches
  BY <1>1, <1>2 DEF RunLaunches
<1>3. CASE RunEnds
  <2>1. open.run \in DOMAIN receipts
    BY <1>3 DEF RunEnds, RunInv, OpenHolds, Working
  <2>2. PICK exit, left :
          receipts' = [receipts EXCEPT ![open.run] = [@ EXCEPT !.exit = exit, !.left = left]]
    BY <1>3 DEF RunEnds
  <2>3. QED  BY <1>1, <2>1, <2>2 DEF Receipt
<1>4. CASE OutputError /\ open.pc \in Working
  <2>1. open.run \in DOMAIN receipts
    BY <1>4 DEF RunInv, OpenHolds
  <2>2. QED  BY <1>1, <1>4, <2>1 DEF OutputError, Receipt
<1>5. CASE UNCHANGED receipts  BY <1>5
<1>6. Exports => UNCHANGED receipts  BY ExportStep
<1>7. RunHashesOutputs => (OutputError /\ open.pc \in Working) \/ UNCHANGED receipts
  BY DEF RunHashesOutputs, Working
<1>8. CASE RunIsBound /\ ~ (OutputError /\ open.pc \in Working)
  <2>1. open.run \in DOMAIN receipts /\ open.pc \in Working
    BY <1>8 DEF RunIsBound, RunInv, OpenHolds, Working
  <2>2. receipts' = [receipts EXCEPT
             ![open.run] = [@ EXCEPT !.binding = "bound", !.outputs = open.hashes,
                                     !.excused = Excused]]
    BY <1>8, <2>1 DEF RunIsBound
  <2>3. QED  BY <1>1, <2>1, <2>2 DEF Receipt
<1>9. QED
  BY <1>2, <1>3, <1>4, <1>5, <1>6, <1>7, <1>8
  DEF Next, Exports, RunBinds, RunIsRefused, Edit, EditProject, Crash, vars

LEMMA AnsweredIsGenuine ==
  ASSUME RunInv, RunIsAnswered, NEW i \in DOMAIN receipts,
         ~ receipts[i].told, receipts'[i].told
  PROVE  Genuine(i, receipts[i].excused \cup open.moved)
<1>1. i = open.run /\ open.pc = "answer"  BY DEF RunIsAnswered
<1>2. QED  BY <1>1 DEF RunInv, AnswerHolds

LEMMA RecoveredIsGenuine ==
  ASSUME RunInv, RunRecovers, NEW i \in DOMAIN receipts,
         ~ receipts[i].told, receipts'[i].told
  PROVE  Genuine(i, receipts[i].excused)
<1>1. open.run # 0 /\ i = open.run /\ receipts' = [receipts EXCEPT ![open.run] = Recovered(open.run)]
  BY DEF RunRecovers
<1>2. PICK r : r = Recovered(i)  OBVIOUS
<1>3. receipts'[i] = r  BY <1>1, <1>2
<1>4. Stands(i) /\ r.excused = receipts[i].excused  BY <1>2, <1>3, RecoveredTyped
<1>5. BoundAsDone(receipts[i])  BY <1>4 DEF Stands, Certified, RunInv, Receipts
<1>6. QED  BY <1>3, <1>4, <1>5 DEF BoundAsDone, Stands, Current, Genuine

\* A command is answered as successful, by the call that bound its receipt or
\* when it is reconciled after a crash, only while the inputs it read and the
\* outputs it left are there; the call itself answers for the time of the binding.
THEOREM SuccessesAreGenuine == Spec => SuccessIsGenuine
<1>1. ASSUME RunInv, [Next]_vars, NEW i \in DOMAIN receipts,
             ~ receipts[i].told, receipts'[i].told
      PROVE  Genuine(i, receipts[i].excused \cup open.moved)
  <2>1. CASE RunIsAnswered  BY <1>1, <2>1, AnsweredIsGenuine
  <2>2. CASE RunRecovers
    <3>1. Genuine(i, receipts[i].excused)  BY <1>1, <2>2, RecoveredIsGenuine
    <3> QED  BY <3>1 DEF Genuine
  <2>3. QED  BY <1>1, <2>1, <2>2, ToldByComparison
<1>2. RunInv /\ [Next]_vars =>
        [\A i \in DOMAIN receipts :
           ~ receipts[i].told /\ receipts'[i].told =>
             Genuine(i, receipts[i].excused \cup open.moved)]_vars
  BY <1>1
<1>3. QED  BY <1>2, AlwaysRunInv, PTL DEF Spec, SuccessIsGenuine

----------------------------------------------------------------------------
(* The project shows what was approved.  A version that was copied and is   *)
(* not the approved one was there at the time: until somebody puts the      *)
(* approved version back, the last comparison sees the difference.          *)

Rendering == {"body", "validate", "copy", "refresh", "last", "pin"}

CopiedAsBound(f) == export.copied[f] = export.request[f] \/ f \in export.back

\* Where the versions of the export are the same.
Requested ==
  /\ export.request = NoVersions => DOMAIN export.copied = {}
  /\ DOMAIN export.copied \subseteq Published
  /\ open.pc \in {"launch"} \cup Working => export.request = NoVersions
  /\ open.pc = "first" /\ ~ open.retry => export.request = NoVersions
  /\ open.pc \in {"first"} \cup Rendering => DOMAIN open.bound = Published
  /\ open.pc \in Rendering => open.bound = export.request

Copied ==
  /\ \A f \in DOMAIN export.copied : CopiedAsBound(f) \/ file[f] # export.request[f]
  /\ open.pc = "pin" => \A f \in DOMAIN export.copied : CopiedAsBound(f)

ExportInv == Requested /\ Copied

LEMMA InitExports == Init => ExportInv
BY NoVersionsTyped
DEF Init, Idle, NoExport, ExportInv, Requested, Copied, CopiedAsBound, Working, Rendering, NoVersions

\* A step that leaves files and export alone, and no rendering open but the
\* one there was.
LEMMA SameExport ==
  ASSUME RunInv, ExportInv, UNCHANGED <<file, export>>,
         \/ open'.pc \notin {"launch", "first"} \cup Working \cup Rendering
         \/ /\ open'.bound = open.bound /\ open'.retry = open.retry
            /\ \/ open'.pc = open.pc
               \/ open.pc \in Rendering /\ open'.pc \in Rendering \ {"pin"}
               \/ open.pc \in {"launch"} \cup Working /\ open'.pc \in Working
  PROVE  ExportInv'
BY DEF ExportInv, Requested, Copied, CopiedAsBound, Working, Rendering

LEMMA RunsKeepExport ==
  ASSUME RunInv, ExportInv,
         RunBinds \/ RunLaunches \/ RunIsRefused \/ RunEnds \/ RunHashesOutputs
         \/ RunIsBound \/ RunIsAnswered \/ RunRecovers
  PROVE  ExportInv'
<1>1. open \in Open /\ Idle.pc = "idle" /\ UNCHANGED export
  BY DEF RunInv, TypeOK, Idle, RunBinds, RunLaunches, RunIsRefused, RunEnds, RunHashesOutputs,
         RunIsBound, RunIsAnswered, RunRecovers
<1>2. CASE RunBinds
  <2>1. open'.pc = "launch" /\ export.request = NoVersions /\ UNCHANGED file
    BY <1>2 DEF RunBinds, Idle
  <2>2. QED
    BY <2>1, <1>1 DEF ExportInv, Requested, Copied, CopiedAsBound, Working, Rendering
<1>3. CASE RunEnds
  <2>1. /\ open.pc = "work" /\ open'.pc \in {"idle", "hash"}
    BY <1>1, <1>3 DEF RunEnds, Open
  <2>2. export.request = NoVersions /\ DOMAIN export.copied = {}
    BY <2>1 DEF ExportInv, Requested, Working
  <2>3. QED
    BY <2>1, <2>2, <1>1 DEF ExportInv, Requested, Copied, CopiedAsBound, Working, Rendering
<1>4. CASE RunLaunches \/ RunHashesOutputs
  <2>1. UNCHANGED file  BY <1>4 DEF RunLaunches, RunHashesOutputs
  <2>2. \/ open' = Idle
        \/ /\ open'.bound = open.bound /\ open'.retry = open.retry
           /\ open.pc \in {"launch"} \cup Working /\ open'.pc \in Working
    BY <1>1, <1>4 DEF RunLaunches, RunHashesOutputs, OutputError, Open, Working
  <2>3. QED  BY <2>1, <2>2, <1>1, SameExport DEF Working, Rendering
<1>5. CASE RunIsRefused \/ RunIsBound \/ RunIsAnswered \/ RunRecovers
  <2>1. UNCHANGED file /\ open'.pc \in {"idle", "answer"}
    BY <1>1, <1>5 DEF RunIsRefused, RunIsBound, RunIsAnswered, RunRecovers, OutputError, Open
  <2>2. QED  BY <2>1, <1>1, SameExport DEF Working, Rendering
<1>6. QED  BY <1>2, <1>3, <1>4, <1>5

LEMMA EditKeepsExport == RunInv /\ ExportInv /\ Edit => ExportInv'
<1> SUFFICES ASSUME RunInv, ExportInv, Edit PROVE ExportInv'  OBVIOUS
<1>1. PICK f \in Files, c \in Bytes :
       /\ file' = [file EXCEPT ![f] = c]
       /\ export' = IF export.request = NoVersions THEN export
                    ELSE [export EXCEPT !.back = @ \cup
                            {g \in {f} \cap Published : export.request[g] = c}]
       /\ open' = [open EXCEPT
            !.back = @ \cup {g \in {f} \cap DOMAIN open.bound :
                               open.kind = "run" /\ open.bound[g] = c},
            !.moved = @ \cup {g \in {f} : open.pc \in {"hash", "recheck", "answer"}},
            !.touched = @ \cup {g \in {f} : open.pc \in {"last", "pin"}}]
  BY DEF Edit
<1>2. file \in [Files -> Bytes] /\ open \in Open /\ export \in Export
  BY DEF RunInv, TypeOK
<1>3. open'.pc = open.pc /\ open'.bound = open.bound /\ open'.retry = open.retry
  BY <1>1, <1>2 DEF Open
<1>4. /\ export'.copied = export.copied /\ export'.request = export.request
      /\ export'.back = export.back \cup
           (IF export.request = NoVersions THEN {}
            ELSE {g \in {f} \cap Published : export.request[g] = c})
  <2>1. CASE export.request = NoVersions  BY <2>1, <1>1
  <2>2. CASE export.request # NoVersions  BY <2>2, <1>1, <1>2 DEF Export
  <2>3. QED  BY <2>1, <2>2
<1>5. Requested'  BY <1>3, <1>4 DEF ExportInv, Requested
<1>6. Copied'
  <2>1. SUFFICES ASSUME NEW g \in DOMAIN export.copied
                 PROVE  /\ (CopiedAsBound(g) \/ file[g] # export.request[g])'
                        /\ CopiedAsBound(g) => CopiedAsBound(g)'
    BY <1>3, <1>4 DEF ExportInv, Copied
  <2>2. g \in Published /\ export.request # NoVersions
    BY DEF ExportInv, Requested
  <2>3. CopiedAsBound(g) => CopiedAsBound(g)'  BY <1>4 DEF CopiedAsBound
  <2>4. g = f /\ c = export.request[g] => g \in export'.back  BY <2>2, <1>4
  <2>5. file'[g] # file[g] => g = f /\ file'[g] = c  BY <1>1, <1>2
  <2>6. QED
    BY <2>3, <2>4, <2>5, <1>4 DEF ExportInv, Copied, CopiedAsBound
<1>7. QED  BY <1>5, <1>6 DEF ExportInv

LEMMA ExportsKeepExport == RunInv /\ ExportInv /\ Exports => ExportInv'
<1> SUFFICES ASSUME RunInv, ExportInv, Exports PROVE ExportInv'  OBVIOUS
<1>1. /\ open \in Open /\ export \in Export /\ file \in [Files -> Bytes] /\ TypeOK
      /\ Idle.pc = "idle" /\ UNCHANGED file
  BY ExportStep DEF RunInv, TypeOK, Idle
<1>2. CASE ExportBinds \/ ExportRecovers
  <2>1. /\ UNCHANGED export
        /\ \/ open' = Idle
           \/ open' = Exporting(TRUE)
           \/ open' = Exporting(FALSE) /\ export.request = NoVersions
    BY <1>2 DEF ExportBinds, ExportRecovers
  <2>2. CASE open' = Idle
    BY <2>1, <2>2, <1>1, SameExport DEF Working, Rendering
  <2>3. CASE open' # Idle
    <3>1. /\ open'.pc = "first" /\ DOMAIN open'.bound = Published
          /\ open'.retry \/ export.request = NoVersions
      BY <2>1, <2>3, <1>1, ExportingTyped
    <3>2. QED
      BY <3>1, <2>1, <1>1 DEF ExportInv, Requested, Copied, CopiedAsBound, Working, Rendering
  <2>4. QED  BY <2>2, <2>3
<1>3. CASE CheckProducer \/ ExportChecksAgain
  <2>1. /\ UNCHANGED export
        /\ \/ open' = Idle
           \/ /\ open'.bound = open.bound /\ open'.retry = open.retry
              /\ \/ open'.pc = open.pc
                 \/ open.pc \in Rendering /\ open'.pc = "last"
    BY <1>1, <1>3 DEF CheckProducer, ExportChecksAgain, CheckAgain, Open, Rendering
  <2>2. QED  BY <2>1, <1>1, SameExport DEF Working, Rendering
<1>4. CASE ExportIsRequested
  <2>1. open.pc = "first" /\ DOMAIN open.bound = Published
    BY <1>4 DEF ExportIsRequested, ExportInv, Requested
  <2>2. CASE open.retry
    <3>1. /\ UNCHANGED export
          /\ \/ open' = Idle
             \/ /\ open'.pc = "refresh" /\ open'.bound = open.bound
                /\ export.request = open.bound
      BY <2>2, <1>1, <1>4 DEF ExportIsRequested, Open
    <3>2. QED
      BY <3>1, <2>1, <1>1 DEF ExportInv, Requested, Copied, CopiedAsBound, Working, Rendering
  <2>3. CASE ~ open.retry
    <3>1. /\ export' = [export EXCEPT !.request = open.bound]
          /\ open'.pc = "body" /\ open'.bound = open.bound
      BY <2>3, <1>1, <1>4 DEF ExportIsRequested, Open
    <3>2. DOMAIN export.copied = {}
      BY <2>1, <2>3 DEF ExportInv, Requested
    <3>3. export'.copied = export.copied /\ export'.request = open.bound
      BY <3>1, <1>1 DEF Export
    <3>4. QED
      BY <3>1, <3>2, <3>3, <2>1
      DEF ExportInv, Requested, Copied, CopiedAsBound, Working, Rendering
  <2>4. QED  BY <2>2, <2>3
<1>5. CASE RendererReadsBody
  <2>1. open.pc = "body"  BY <1>5 DEF RendererReadsBody
  <2>2. CASE UNCHANGED export
    <3>1. \/ open' = Idle
          \/ /\ open'.bound = open.bound /\ open'.retry = open.retry /\ open'.pc = "validate"
      BY <1>1, <1>5 DEF RendererReadsBody, Open
    <3>2. QED  BY <3>1, <2>1, <2>2, <1>1, SameExport DEF Working, Rendering
  <2>3. CASE export' = [export EXCEPT !.copied = Hashes({Body})] /\ open'.pc = "validate"
    <3>1. open'.bound = open.bound  BY <2>3, <1>1, <1>5 DEF RendererReadsBody, Open, Idle
    <3>2. /\ export'.copied = Hashes({Body}) /\ export'.request = export.request
          /\ export'.back = export.back
      BY <2>3, <1>1 DEF Export
    <3>3. DOMAIN export'.copied = {Body} /\ export'.copied[Body] = file[Body]
      BY <3>2 DEF Hashes
    <3>4. DOMAIN export.request = Published /\ Body \in Published /\ open.bound = export.request
      BY <2>1 DEF ExportInv, Requested, Rendering, Published
    <3>5. export.request # NoVersions  BY <3>4, NoVersionsTyped
    <3>6. QED
      BY <3>1, <3>2, <3>3, <3>4, <3>5, <2>3, <1>1
      DEF ExportInv, Requested, Copied, CopiedAsBound, Working, Rendering
  <2>4. QED  BY <2>2, <2>3, <1>1, <1>5 DEF RendererReadsBody, Open
<1>6. CASE RendererValidates
  <2>1. /\ UNCHANGED export /\ open.pc = "validate"
        /\ \/ open' = Idle
           \/ open'.bound = open.bound /\ open'.retry = open.retry /\ open'.pc = "copy"
    BY <1>1, <1>6 DEF RendererValidates, Open
  <2>2. QED  BY <2>1, <1>1, SameExport DEF Working, Rendering
<1>7. CASE RendererCopies
  <2>1. PICK manifest \in {"rendered", "failed"} :
          export' = [export EXCEPT !.manifest = manifest, !.project = 1,
            !.copied = [f \in {Body} \cup Present(Shown) |->
                          IF f = Body THEN export.copied[Body] ELSE file[f]]]
    BY <1>7 DEF RendererCopies
  <2>2. /\ open.pc = "copy" /\ open'.pc = "refresh" /\ open'.bound = open.bound
    BY <1>1, <1>7 DEF RendererCopies, Open
  <2>3. /\ export'.request = export.request /\ export'.back = export.back
        /\ DOMAIN export'.copied = {Body} \cup Present(Shown)
        /\ export'.copied[Body] = export.copied[Body]
        /\ \A f \in Present(Shown) \ {Body} : export'.copied[f] = file[f]
    BY <2>1, <1>1 DEF Export
  <2>4. Body \in DOMAIN export.copied  BY <2>2 DEF RunInv, OpenHolds
  <2>5. DOMAIN export'.copied \subseteq Published
    BY <2>3 DEF Present, Shown, ToCheck, Published
  <2>6. export.request # NoVersions  BY <2>4 DEF ExportInv, Requested
  <2>7. Requested'
    BY <2>2, <2>3, <2>5, <2>6 DEF ExportInv, Requested, Working, Rendering
  <2>8. Copied'
    BY <2>2, <2>3, <2>4, <1>1 DEF ExportInv, Copied, CopiedAsBound
  <2>9. QED  BY <2>7, <2>8 DEF ExportInv
<1>8. CASE ExportCompares
  <2>1. open.pc = "last" /\ UNCHANGED export  BY <1>8 DEF ExportCompares
  <2>2. CASE open' = Idle
    BY <2>1, <2>2, <1>1, SameExport DEF Working, Rendering
  <2>3. CASE BindingHolds /\ open' = [open EXCEPT !.pc = "pin"]
    <3>1. open'.pc = "pin" /\ open'.bound = open.bound  BY <2>3, <1>1 DEF Open
    <3>2. \A f \in DOMAIN export.copied : file[f] = export.request[f]
      BY <2>1, <2>3 DEF ExportInv, Requested, Rendering, BindingHolds, Current
    <3>3. QED
      BY <3>1, <3>2, <2>1, <1>1 DEF ExportInv, Requested, Copied, CopiedAsBound, Working, Rendering
  <2>4. QED  BY <2>2, <2>3, <1>8 DEF ExportCompares
<1>9. CASE ExportIsPinned \/ ExportIsSaved
  <2>1. /\ open'.pc \in {"idle", "delivered"}
        /\ export'.copied = export.copied /\ export'.request = export.request
        /\ export'.back = export.back
    BY <1>1, <1>9 DEF ExportIsPinned, ExportIsSaved, Open, Export
  <2>2. QED
    BY <2>1, <1>1 DEF ExportInv, Requested, Copied, CopiedAsBound, Working, Rendering
<1>10. QED
  BY <1>2, <1>3, <1>4, <1>5, <1>6, <1>7, <1>8, <1>9 DEF Exports

LEMMA OthersKeepExport ==
  ASSUME RunInv, ExportInv, EditProject \/ Crash \/ UNCHANGED vars
  PROVE  ExportInv'
<1>1. CASE EditProject
  <2>1. /\ UNCHANGED <<file, open>> /\ export'.copied = export.copied
        /\ export'.request = export.request /\ export'.back = export.back
    BY <1>1 DEF EditProject, RunInv, TypeOK, Export
  <2>2. QED  BY <2>1 DEF ExportInv, Requested, Copied, CopiedAsBound
<1>2. CASE Crash
  <2>1. UNCHANGED <<file, export>> /\ open'.pc = "down"  BY <1>2 DEF Crash, Idle
  <2>2. QED  BY <2>1, SameExport DEF Working, Rendering
<1>3. CASE UNCHANGED vars
  BY <1>3 DEF vars, ExportInv, Requested, Copied, CopiedAsBound
<1>4. QED  BY <1>1, <1>2, <1>3

\* Only pinning the project delivers it.
LEMMA OnlyPinningDelivers ==
  ASSUME RunInv, [Next]_vars, Delivers
  PROVE  ExportIsPinned /\ open.pc = "pin"
<1> SUFFICES ASSUME ~ ExportIsPinned PROVE FALSE  BY DEF ExportIsPinned
<1>1. open \in Open /\ TypeOK /\ Idle.pc = "idle" /\ open.pc # "delivered" /\ open'.pc = "delivered"
  BY DEF RunInv, TypeOK, Idle, Delivers
<1>2. ~ (RunBinds \/ RunLaunches \/ RunIsRefused \/ RunHashesOutputs \/ RunIsBound
         \/ RunIsAnswered \/ RunRecovers)
  BY <1>1
  DEF RunBinds, RunLaunches, RunIsRefused, RunHashesOutputs, RunIsBound, RunIsAnswered,
      RunRecovers, OutputError, Idle, Open
<1>3. ~ RunEnds
  BY <1>1 DEF RunEnds, Open
<1>4. ~ (ExportBinds \/ ExportRecovers)
  BY <1>1, ExportingTyped DEF ExportBinds, ExportRecovers
<1>5. ~ (CheckProducer \/ ExportChecksAgain \/ ExportIsRequested \/ RendererReadsBody)
  BY <1>1
  DEF CheckProducer, ExportChecksAgain, CheckAgain, ExportIsRequested, RendererReadsBody, Open
<1>6. ~ (RendererValidates \/ RendererCopies \/ ExportCompares \/ ExportIsSaved)
  BY <1>1 DEF RendererValidates, RendererCopies, ExportCompares, ExportIsSaved, Open
<1>7. ~ (Edit \/ EditProject \/ Crash \/ UNCHANGED vars)
  BY <1>1 DEF Edit, EditProject, Crash, vars, Idle, Open
<1>8. QED  BY <1>2, <1>3, <1>4, <1>5, <1>6, <1>7 DEF Next

\* result.json is written once, by the rendering that was not interrupted.
Unpinned ==
  /\ export.request = NoVersions => export.pinned = 0
  /\ open.pc \in Rendering /\ ~ open.retry => export.pinned = 0

LEMMA InitUnpinned == Init => Unpinned
BY DEF Init, Idle, NoExport, Unpinned, Rendering

LEMMA StepKeepsUnpinned == RunInv /\ ExportInv /\ Unpinned /\ [Next]_vars => Unpinned'
<1> SUFFICES ASSUME RunInv, ExportInv, Unpinned, [Next]_vars PROVE Unpinned'  OBVIOUS
<1>1. open \in Open /\ export \in Export /\ TypeOK /\ Idle.pc = "idle"
  BY DEF RunInv, TypeOK, Idle
<1>2. ASSUME export'.pinned = export.pinned,
             export'.request = export.request \/ export.request = NoVersions,
             \/ open'.pc \notin Rendering
             \/ open.pc \in Rendering /\ open'.retry = open.retry
             \/ open'.retry
      PROVE  Unpinned'
  BY <1>2 DEF Unpinned
<1>3. CASE ExportIsPinned
  <2>1. open.pc = "pin" /\ open'.pc \in {"idle", "delivered"} /\ export'.request = export.request
    BY <1>1, <1>3 DEF ExportIsPinned, Open, Export
  <2>2. Body \in DOMAIN export.request
    BY <2>1 DEF ExportInv, Requested, Rendering, Published
  <2>3. export.request # NoVersions  BY <2>2, NoVersionsTyped
  <2> QED  BY <2>1, <2>3 DEF Unpinned, Rendering
<1>4. CASE ExportIsRequested
  <2>1. CASE open.retry
    <3>1. UNCHANGED export /\ (open'.pc = "idle" \/ open'.retry)
      BY <2>1, <1>1, <1>4 DEF ExportIsRequested, Open
    <3> QED  BY <3>1, <1>2 DEF Rendering
  <2>2. CASE ~ open.retry
    <3>1. export.request = NoVersions
      BY <2>2, <1>4 DEF ExportIsRequested, ExportInv, Requested
    <3>2. export'.pinned = export.pinned
      BY <2>2, <1>1, <1>4 DEF ExportIsRequested, Export
    <3> QED  BY <3>1, <3>2 DEF Unpinned
  <2> QED  BY <2>1, <2>2
<1>5. CASE RendererReadsBody \/ RendererCopies
  <2>1. /\ export'.pinned = export.pinned /\ export'.request = export.request
        /\ open.pc \in {"body", "copy"}
        /\ open'.pc = "idle" \/ open'.retry = open.retry
    BY <1>1, <1>5 DEF RendererReadsBody, RendererCopies, Open, Export
  <2> QED  BY <2>1, <1>2 DEF Rendering
<1>6. CASE ExportBinds \/ ExportRecovers
  <2>1. UNCHANGED export /\ open'.pc \in {"first", "idle"}
    BY <1>1, <1>6, ExportingTyped DEF ExportBinds, ExportRecovers
  <2> QED  BY <2>1, <1>2 DEF Rendering
<1>7. CASE CheckProducer
  <2>1. UNCHANGED export /\ (open'.pc = "idle" \/ (open'.pc = open.pc /\ open'.retry = open.retry))
    BY <1>1, <1>7 DEF CheckProducer, Open
  <2> QED  BY <2>1, <1>2 DEF Rendering
<1>8. CASE RendererValidates \/ ExportChecksAgain \/ ExportCompares \/ ExportIsSaved
  <2>1. /\ UNCHANGED export /\ open.pc \in {"validate", "refresh", "last", "delivered"}
        /\ open'.pc = "idle" \/ (open.pc # "delivered" /\ open'.retry = open.retry)
    BY <1>1, <1>8
    DEF RendererValidates, ExportChecksAgain, CheckAgain, ExportCompares, ExportIsSaved, Open
  <2> QED  BY <2>1, <1>2 DEF Rendering
<1>9. CASE RunBinds \/ RunLaunches \/ RunIsRefused \/ RunEnds \/ RunHashesOutputs
           \/ RunIsBound \/ RunIsAnswered \/ RunRecovers
  <2>1. UNCHANGED export
    BY <1>9
    DEF RunBinds, RunLaunches, RunIsRefused, RunEnds, RunHashesOutputs, RunIsBound,
        RunIsAnswered, RunRecovers
  <2>2. CASE RunEnds
    BY <2>1, <2>2, <1>1, <1>2 DEF RunEnds, Open, Rendering
  <2>3. CASE RunBinds
    <3>1. PICK c \in Commands : open' = [Idle EXCEPT !.pc = "launch", !.kind = "run",
                                          !.command = c, !.bound = Hashes(Inputs[c])]
      BY <2>3 DEF RunBinds
    <3>2. open'.pc = "launch"  BY <3>1, IdleTyped DEF Open
    <3> QED  BY <2>1, <3>2, <1>2 DEF Rendering
  <2>4. CASE RunLaunches \/ RunIsRefused
    <3>1. open'.pc \in {"work", "idle"}
      BY <1>1, <2>4 DEF RunLaunches, RunIsRefused, Open
    <3> QED  BY <2>1, <3>1, <1>2 DEF Rendering
  <2>5. CASE RunHashesOutputs
    <3>1. open'.pc \notin Rendering
      BY <1>1, <2>5 DEF RunHashesOutputs, OutputError, Open, Rendering
    <3> QED  BY <2>1, <3>1, <1>2
  <2>6. CASE RunIsBound \/ RunIsAnswered \/ RunRecovers
    <3>1. open'.pc \in {"answer", "idle"}
      BY <1>1, <2>6 DEF RunIsBound, OutputError, RunIsAnswered, RunRecovers, Open
    <3> QED  BY <2>1, <3>1, <1>2 DEF Rendering
  <2> QED  BY <1>9, <2>2, <2>3, <2>4, <2>5, <2>6
<1>10. CASE Crash \/ UNCHANGED vars
  <2>1. UNCHANGED export /\ (open'.pc = "down" \/ open' = open)
    BY <1>10 DEF Crash, vars, Idle
  <2> QED  BY <2>1, <1>2 DEF Rendering, Unpinned
<1>11. CASE EditProject
  <2>1. export'.pinned = export.pinned /\ export'.request = export.request /\ UNCHANGED open
    BY <1>1, <1>11 DEF EditProject, Export
  <2> QED  BY <2>1, <1>2
<1>12. CASE Edit
  <2>1. export'.pinned = export.pinned /\ export'.request = export.request
    BY <1>1, <1>12 DEF Edit, Export
  <2>2. open'.pc = open.pc /\ open'.retry = open.retry
    BY <1>1, <1>12 DEF Edit, Open
  <2> QED  BY <2>1, <2>2, <1>2
<1> QED
  BY <1>3, <1>4, <1>5, <1>6, <1>7, <1>8, <1>9, <1>10, <1>11, <1>12 DEF Next

\* The step that delivers retains the project as it is, or compares it with
\* what was retained.
LEMMA PinnedIsDelivered ==
  ASSUME RunInv, Unpinned, Delivers, ExportIsPinned
  PROVE  /\ export'.project = export'.pinned
         /\ export.pinned # 0 => export'.pinned = export.pinned
<1>1. export \in Export /\ Idle.pc = "idle" /\ open.pc = "pin"
  BY DEF RunInv, TypeOK, Idle, ExportIsPinned
<1>2. CASE open.retry
  BY <1>1, <1>2 DEF ExportIsPinned, PinHolds, Delivers
<1>3. CASE ~ open.retry
  <2>1. export' = [export EXCEPT !.pinned = export.project] /\ export.pinned = 0
    BY <1>1, <1>3 DEF ExportIsPinned, Delivers, Unpinned, Rendering
  <2> QED  BY <1>1, <2>1 DEF Export
<1> QED  BY <1>2, <1>3

\* What is delivered, at once or after a crash, is the project that was retained
\* when it was first complete, and it shows the text and images that were
\* approved, but for a file that was put back while it was rendered and for an
\* edit of the project before it was retained.
THEOREM PublishedIsAsBound == Spec => PublishedAsBound
<1>1. Init => RunInv /\ ExportInv /\ Unpinned  BY InitRuns, InitExports, InitUnpinned
<1>2. RunInv /\ ExportInv /\ Unpinned /\ [Next]_vars => RunInv' /\ ExportInv' /\ Unpinned'
  <2> SUFFICES ASSUME RunInv, ExportInv, Unpinned, [Next]_vars
               PROVE  RunInv' /\ ExportInv' /\ Unpinned'
    OBVIOUS
  <2>1. RunInv' /\ Unpinned'  BY StepKeeps, StepKeepsUnpinned
  <2>2. ExportInv'
    BY RunsKeepExport, EditKeepsExport, ExportsKeepExport, OthersKeepExport DEF Next, Exports
  <2> QED  BY <2>1, <2>2
<1>3. RunInv /\ ExportInv /\ Unpinned /\ [Next]_vars =>
        [Delivers =>
           /\ export'.project = export'.pinned
           /\ export.pinned # 0 => export'.pinned = export.pinned
           /\ \A f \in DOMAIN export.copied : export.copied[f] = export.request[f]
                                              \/ f \in export.back]_vars
  <2> SUFFICES ASSUME RunInv, ExportInv, Unpinned, Delivers, [Next]_vars
               PROVE  /\ export'.project = export'.pinned
                      /\ export.pinned # 0 => export'.pinned = export.pinned
                      /\ \A f \in DOMAIN export.copied : CopiedAsBound(f)
    BY DEF CopiedAsBound
  <2>1. ExportIsPinned /\ open.pc = "pin"  BY OnlyPinningDelivers
  <2>2. \A f \in DOMAIN export.copied : CopiedAsBound(f)  BY <2>1 DEF ExportInv, Copied
  <2> QED  BY <2>1, <2>2, PinnedIsDelivered
<1>4. QED  BY <1>1, <1>2, <1>3, PTL DEF Spec, PublishedAsBound

----------------------------------------------------------------------------
(* What is published is up to date.  The last check of the producers starts *)
(* from nothing and keeps what it has checked: at its end the files it has  *)
(* passed include those of the export and are closed under the commands     *)
(* that produced them, so no chain of commands leads out of them.           *)

\* The last command that declares a file is its producer, if it has one.
InTime ==
  /\ \A i \in DOMAIN receipts : receipts[i].at <= time
  /\ \A i, j \in DOMAIN receipts : i <= j => receipts[i].at <= receipts[j].at

Passed(f) == Declaring(f) = {} \/ Latest(f) \cap open.checked # {}

StoodWhenChecked(i) ==
  /\ i \in DOMAIN receipts /\ Certified(i)
  /\ \A f \in DOMAIN receipts[i].inputs : file[f] = receipts[i].inputs[f] \/ f \in open.touched
  /\ \A f \in DOMAIN receipts[i].outputs : file[f] = receipts[i].outputs[f] \/ f \in open.touched

Checked ==
  open.pc \in {"last", "pin"} =>
    /\ \A i \in open.checked :
         /\ StoodWhenChecked(i)
         /\ \A f \in Inputs[receipts[i].command] : f \in open.todo \/ Passed(f)
    /\ \A f \in ToCheck(open.bound) : f \in open.todo \/ Passed(f)
    /\ open.pc = "pin" => open.todo = {}

\* The text and the images that are shown were there when they were bound.
HasText ==
  /\ open.pc = "first" /\ ~ open.retry => open.bound[Body] # Absent
  /\ export.request # NoVersions => export.request[Body] # Absent
  /\ DOMAIN export.copied \subseteq ToCheck(export.request)

FreshInv == InTime /\ Checked /\ HasText

LEMMA InitFresh == Init => FreshInv
<1> SUFFICES ASSUME Init PROVE FreshInv  OBVIOUS
<1>1. /\ receipts = <<>> /\ open.pc = "idle" /\ export.request = NoVersions
      /\ DOMAIN export.copied = {}
  BY NoVersionsTyped DEF Init, Idle, NoExport
<1> QED  BY <1>1 DEF FreshInv, InTime, Checked, HasText

\* The clock and the times of the launches.
LEMMA LaunchKeepsTime ==
  ASSUME RunInv, InTime, RunLaunches
  PROVE  InTime'
<1>1. /\ receipts \in Seq(Receipt) /\ Len(receipts) \in Nat /\ time \in Nat
      /\ \A i \in DOMAIN receipts : receipts[i].at \in Nat
  <2>1. receipts \in Seq(Receipt) /\ time \in 0 .. MaxTime /\ MaxTime \in Nat
    BY WorkspaceAssumption DEF RunInv, TypeOK
  <2>2. \A r \in Receipt : r.at \in Nat  BY <2>1 DEF Receipt
  <2> QED  BY <2>1, <2>2
<1>2. PICK r : receipts' = Append(receipts, r) /\ r.at = time'
  BY DEF RunLaunches
<1> DEFINE all == Receipt \cup {r}
<1>3. time' \in Nat /\ time <= time'
  BY <1>1 DEF RunLaunches
<1>4. /\ DOMAIN receipts' = DOMAIN receipts \cup {Len(receipts) + 1}
      /\ \A i \in DOMAIN receipts : receipts'[i] = receipts[i] /\ i <= Len(receipts)
      /\ receipts'[Len(receipts) + 1] = r
  <2>1. receipts \in Seq(all) /\ r \in all  BY <1>1
  <2> HIDE DEF all
  <2>2. /\ receipts' \in Seq(all) /\ Len(receipts') = Len(receipts) + 1
        /\ receipts'[Len(receipts) + 1] = r
        /\ \A i \in DOMAIN receipts : receipts'[i] = receipts[i]
    BY <1>2, <2>1
  <2>3. DOMAIN receipts = 1 .. Len(receipts) /\ DOMAIN receipts' = 1 .. (Len(receipts) + 1)
    BY <2>1, <2>2
  <2> QED  BY <2>2, <2>3, <1>1
<1>5. \A i \in DOMAIN receipts' : receipts'[i].at <= time'
  BY <1>1, <1>2, <1>3, <1>4 DEF InTime
<1>6. \A i, j \in DOMAIN receipts' : i <= j => receipts'[i].at <= receipts'[j].at
  <2> SUFFICES ASSUME NEW i \in DOMAIN receipts', NEW j \in DOMAIN receipts', i <= j
               PROVE  receipts'[i].at <= receipts'[j].at
    OBVIOUS
  <2>1. CASE j = Len(receipts) + 1
    BY <2>1, <1>2, <1>4, <1>5
  <2>2. CASE j # Len(receipts) + 1
    <3>1. j \in DOMAIN receipts /\ j <= Len(receipts)  BY <2>2, <1>4
    <3>2. i # Len(receipts) + 1  BY <3>1, <1>1, <1>4
    <3>3. i \in DOMAIN receipts  BY <3>2, <1>4
    <3> QED  BY <3>1, <3>3, <1>4 DEF InTime
  <2> QED  BY <2>1, <2>2
<1> QED  BY <1>5, <1>6 DEF InTime

\* A step that keeps the times of the receipts.
LEMMA SameTimes ==
  ASSUME InTime, UNCHANGED time, DOMAIN receipts' = DOMAIN receipts,
         \A i \in DOMAIN receipts : receipts'[i].at = receipts[i].at
  PROVE  InTime'
BY DEF InTime

LEMMA RewritesKeepTimes ==
  ASSUME RunInv, RunEnds \/ RunHashesOutputs \/ RunIsBound \/ RunIsAnswered \/ RunRecovers
  PROVE  /\ UNCHANGED time /\ DOMAIN receipts' = DOMAIN receipts
         /\ \A i \in DOMAIN receipts : receipts'[i].at = receipts[i].at
<1>1. \A i \in DOMAIN receipts : receipts[i] \in Receipt  BY DEF RunInv, TypeOK
<1>2. ASSUME NEW r, NEW k \in DOMAIN receipts, receipts' = [receipts EXCEPT ![k] = r],
             r.at = receipts[k].at
      PROVE  /\ DOMAIN receipts' = DOMAIN receipts
             /\ \A i \in DOMAIN receipts : receipts'[i].at = receipts[i].at
  BY <1>2
<1>3. open.pc \in Working => open.run \in DOMAIN receipts  BY DEF RunInv, OpenHolds
<1>4. CASE RunEnds
  <2>1. open.run \in DOMAIN receipts  BY <1>3, <1>4 DEF RunEnds, Working
  <2>2. PICK exit, left :
          receipts' = [receipts EXCEPT ![open.run] = [@ EXCEPT !.exit = exit, !.left = left]]
    BY <1>4 DEF RunEnds
  <2> DEFINE r == [receipts[open.run] EXCEPT !.exit = exit, !.left = left]
  <2>3. r.at = receipts[open.run].at  BY <1>1, <2>1 DEF Receipt
  <2>4. receipts' = [receipts EXCEPT ![open.run] = r]  BY <2>2
  <2> HIDE DEF r
  <2> QED  BY <1>2, <1>4, <2>1, <2>3, <2>4 DEF RunEnds
<1>5. CASE OutputError /\ (RunHashesOutputs \/ RunIsBound)
  <2>1. open.run \in DOMAIN receipts  BY <1>3, <1>5 DEF RunHashesOutputs, RunIsBound, Working
  <2> DEFINE r == [receipts[open.run] EXCEPT !.binding = "error"]
  <2>2. r.at = receipts[open.run].at  BY <1>1, <2>1 DEF Receipt
  <2>3. receipts' = [receipts EXCEPT ![open.run] = r]  BY <1>5 DEF OutputError
  <2> HIDE DEF r
  <2> QED  BY <1>2, <1>5, <2>1, <2>2, <2>3 DEF RunHashesOutputs, RunIsBound
<1>6. CASE RunHashesOutputs /\ ~ OutputError
  BY <1>6 DEF RunHashesOutputs
<1>7. CASE RunIsBound /\ ~ OutputError
  <2>1. open.run \in DOMAIN receipts  BY <1>3, <1>7 DEF RunIsBound, Working
  <2> DEFINE r == [receipts[open.run] EXCEPT !.binding = "bound", !.outputs = open.hashes,
                                             !.excused = Excused]
  <2>2. r.at = receipts[open.run].at  BY <1>1, <2>1 DEF Receipt
  <2>3. receipts' = [receipts EXCEPT ![open.run] = r]  BY <1>7 DEF RunIsBound
  <2> HIDE DEF r
  <2> QED  BY <1>2, <1>7, <2>1, <2>2, <2>3 DEF RunIsBound
<1>8. CASE RunRecovers
  <2>1. open.run = 0 \/ open.run \in DOMAIN receipts
    BY <1>8 DEF RunRecovers, RunInv, OpenHolds
  <2>2. CASE open.run = 0
    BY <1>8, <2>2 DEF RunRecovers
  <2>3. CASE open.run # 0
    <3>1. open.run \in DOMAIN receipts  BY <2>1, <2>3
    <3>2. Recovered(open.run).at = receipts[open.run].at
      BY <1>1, <3>1 DEF Recovered, Receipt
    <3>3. receipts' = [receipts EXCEPT ![open.run] = Recovered(open.run)]
      BY <1>8, <2>3 DEF RunRecovers
    <3> QED  BY <1>2, <1>8, <3>1, <3>2, <3>3 DEF RunRecovers
  <2> QED  BY <2>2, <2>3
<1>9. CASE RunIsAnswered
  <2>1. open.run \in DOMAIN receipts  BY <1>9 DEF RunIsAnswered, RunInv, OpenHolds
  <2> DEFINE r == [receipts[open.run] EXCEPT !.told = TRUE]
  <2>2. r.at = receipts[open.run].at  BY <1>1, <2>1 DEF Receipt
  <2>3. receipts' = [receipts EXCEPT ![open.run] = r]  BY <1>9 DEF RunIsAnswered
  <2> HIDE DEF r
  <2> QED  BY <1>2, <1>9, <2>1, <2>2, <2>3 DEF RunIsAnswered
<1> QED  BY <1>4, <1>5, <1>6, <1>7, <1>8, <1>9

LEMMA StepKeepsTime == RunInv /\ InTime /\ [Next]_vars => InTime'
<1> SUFFICES ASSUME RunInv, InTime, [Next]_vars PROVE InTime'  OBVIOUS
<1>1. CASE RunLaunches  BY <1>1, LaunchKeepsTime
<1>2. CASE RunEnds \/ RunHashesOutputs \/ RunIsBound \/ RunIsAnswered \/ RunRecovers
  BY <1>2, RewritesKeepTimes, SameTimes
<1>3. CASE UNCHANGED <<receipts, time>>
  BY <1>3, SameTimes
<1>4. Exports => UNCHANGED <<receipts, time>>
  BY DEF Exports, ExportBinds, CheckProducer, ExportIsRequested, RendererReadsBody,
         RendererValidates, RendererCopies, ExportChecksAgain, ExportCompares, ExportIsPinned,
         ExportIsSaved, ExportRecovers
<1> QED
  BY <1>1, <1>2, <1>3, <1>4
  DEF Next, Exports, RunBinds, RunIsRefused, Edit, EditProject, Crash, vars



\* The owner of a file, if it has one, is the last command that declares it.
LEMMA LatestIsLast ==
  ASSUME RunInv, InTime, NEW f, NEW i \in Latest(f), NEW j \in LastDeclaring(f)
  PROVE  i = j
<1>1. DOMAIN receipts \subseteq Nat /\ \A k \in DOMAIN receipts : receipts[k].at \in Nat
  <2>1. receipts \in Seq(Receipt) /\ MaxTime \in Nat
    BY WorkspaceAssumption DEF RunInv, TypeOK
  <2>2. \A r \in Receipt : r.at \in Nat  BY <2>1 DEF Receipt
  <2> QED  BY <2>1, <2>2
<1>2. /\ i \in DOMAIN receipts /\ j \in DOMAIN receipts /\ i <= j
      /\ j # i => receipts[i].at > receipts[j].at
  BY DEF Latest, LastDeclaring, Declaring
<1>3. receipts[i].at <= receipts[j].at  BY <1>2 DEF InTime
<1> QED  BY <1>1, <1>2, <1>3

\* Steps that leave no last check of the producers open.
LEMMA NotLast ==
  ASSUME RunInv, Next,
         ~ CheckProducer, ~ ExportChecksAgain, ~ ExportCompares, ~ Edit, ~ EditProject
  PROVE  open'.pc \notin {"last", "pin"}
<1>1. open \in Open /\ TypeOK /\ Idle.pc = "idle"  BY DEF RunInv, TypeOK, Idle
<1>2. RunBinds \/ RunLaunches \/ RunIsRefused \/ RunHashesOutputs \/ RunIsBound
        \/ RunIsAnswered \/ RunRecovers
        => open'.pc \notin {"last", "pin"}
  BY <1>1
  DEF RunBinds, RunLaunches, RunIsRefused, RunHashesOutputs, RunIsBound, RunIsAnswered,
      RunRecovers, OutputError, Idle, Open
<1>3. RunEnds => open'.pc \notin {"last", "pin"}
  BY <1>1 DEF RunEnds, Open
<1>4. ExportBinds \/ ExportRecovers => open'.pc \notin {"last", "pin"}
  BY <1>1, ExportingTyped DEF ExportBinds, ExportRecovers
<1>5. ExportIsRequested \/ RendererReadsBody \/ RendererValidates \/ RendererCopies
        => open'.pc \notin {"last", "pin"}
  BY <1>1 DEF ExportIsRequested, RendererReadsBody, RendererValidates, RendererCopies, Open
<1>6. ExportIsPinned \/ ExportIsSaved \/ Crash => open'.pc \notin {"last", "pin"}
  BY <1>1 DEF ExportIsPinned, ExportIsSaved, Crash, Idle, Open
<1> QED  BY <1>2, <1>3, <1>4, <1>5, <1>6 DEF Next

\* A step of the check passes a file nobody declared, one whose producer has
\* been checked, or one whose producer stands, and then asks for its inputs.
LEMMA CheckKeepsChecked == RunInv /\ Checked /\ CheckProducer => Checked'
<1> SUFFICES ASSUME RunInv, Checked, CheckProducer, open'.pc \in {"last", "pin"} PROVE Checked'
  BY DEF Checked
<1>1. open \in Open /\ UNCHANGED <<file, receipts>> /\ Idle.pc = "idle"
  BY DEF CheckProducer, RunInv, TypeOK, Idle
<1>2. PICK f \in open.todo :
        open' = IF Declaring(f) = {} \/ Latest(f) \cap open.checked # {}
                THEN [open EXCEPT !.todo = @ \ {f}]
                ELSE IF \E i \in Latest(f) : Stands(i)
                THEN [open EXCEPT !.checked = @ \cup Latest(f),
                                  !.todo = (@ \ {f}) \cup NextToCheck(f)]
                ELSE Idle
  BY DEF CheckProducer
<1>3. /\ \A g : Declaring(g)' = Declaring(g) /\ Latest(g)' = Latest(g)
      /\ \A i : Certified(i)' = Certified(i)
  BY <1>1 DEF Declaring, Latest, Certified
<1>4. CASE Passed(f)
  <2>1. open' = [open EXCEPT !.todo = @ \ {f}]  BY <1>2, <1>4 DEF Passed
  <2>2. /\ open'.pc = open.pc /\ open'.checked = open.checked /\ open'.bound = open.bound
        /\ open'.touched = open.touched /\ open'.todo = open.todo \ {f}
    BY <2>1, <1>1 DEF Open
  <2>3. \A g : Passed(g)' = Passed(g)  BY <2>2, <1>3 DEF Passed
  <2>4. \A i : StoodWhenChecked(i)' = StoodWhenChecked(i)
    BY <2>2, <1>1, <1>3 DEF StoodWhenChecked
  <2>5. open.pc = "last"
    BY <2>2 DEF CheckProducer
  <2> QED  BY <2>2, <2>3, <2>4, <2>5, <1>1, <1>4 DEF Checked, ToCheck
<1>5. CASE ~ Passed(f)
  <2>1. PICK i \in Latest(f) : Stands(i)
    BY <1>1, <1>2, <1>5 DEF Passed
  <2>2. open' = [open EXCEPT !.checked = @ \cup Latest(f),
                             !.todo = (@ \ {f}) \cup NextToCheck(f)]
    BY <1>2, <1>5, <2>1 DEF Passed
  <2>3. /\ open'.pc = open.pc /\ open'.checked = open.checked \cup Latest(f)
        /\ open'.bound = open.bound /\ open'.touched = open.touched
        /\ open'.todo = (open.todo \ {f}) \cup NextToCheck(f)
    BY <2>2, <1>1 DEF Open
  <2>4. open.pc = "last"  BY <2>3 DEF CheckProducer
  <2>5. Latest(f) = {i}
    <3>1. DOMAIN receipts \subseteq Nat /\ \A k \in DOMAIN receipts : receipts[k].at \in Nat
      <4>1. receipts \in Seq(Receipt) /\ MaxTime \in Nat
        BY WorkspaceAssumption DEF RunInv, TypeOK
      <4>2. \A r \in Receipt : r.at \in Nat  BY <4>1 DEF Receipt
      <4> QED  BY <4>1, <4>2
    <3>2. \A j \in Latest(f) : j = i
      BY <3>1, <2>1 DEF Latest, Declaring
    <3> QED  BY <2>1, <3>2
  <2>6. Passed(f)'  BY <2>3, <2>5, <1>3 DEF Passed
  <2>7. \A g : Passed(g) => Passed(g)'  BY <2>3, <1>3 DEF Passed
  <2>8. StoodWhenChecked(i)'
    BY <2>1, <1>1, <1>3 DEF StoodWhenChecked, Stands, Current, Latest, Declaring
  <2>9. \A j : StoodWhenChecked(j) => StoodWhenChecked(j)'
    BY <2>3, <1>1, <1>3 DEF StoodWhenChecked
  <2>10. \A g \in Inputs[receipts[i].command] : g \in open'.todo
    BY <2>1, <2>3 DEF NextToCheck
  <2>11. \A g : g \in open.todo \/ Passed(g) => g \in open'.todo \/ Passed(g)'
    BY <2>3, <2>6, <2>7
  <2>12. \A j \in open'.checked : j \in open.checked \/ j = i
    BY <2>3, <2>5
  <2>13. /\ \A j \in open.checked :
              /\ StoodWhenChecked(j)
              /\ \A g \in Inputs[receipts[j].command] : g \in open.todo \/ Passed(g)
         /\ \A g \in ToCheck(open.bound) : g \in open.todo \/ Passed(g)
    BY <2>4 DEF Checked
  <2>14. ToCheck(open.bound)' = ToCheck(open.bound)  BY <2>3 DEF ToCheck
  <2>15. \A j \in open'.checked :
           /\ StoodWhenChecked(j)'
           /\ \A g \in Inputs[receipts'[j].command] : g \in open'.todo \/ Passed(g)'
    BY <2>8, <2>9, <2>10, <2>11, <2>12, <2>13, <1>1
  <2>16. \A g \in ToCheck(open.bound)' : g \in open'.todo \/ Passed(g)'
    BY <2>11, <2>13, <2>14
  <2> QED  BY <2>3, <2>4, <2>15, <2>16 DEF Checked
<1> QED  BY <1>4, <1>5

\* An edit since the check began is known as one.
LEMMA EditKeepsChecked == RunInv /\ Checked /\ Edit => Checked'
<1> SUFFICES ASSUME RunInv, Checked, Edit, open'.pc \in {"last", "pin"} PROVE Checked'
  BY DEF Checked
<1>1. PICK f \in Files, c \in Bytes :
       /\ file' = [file EXCEPT ![f] = c]
       /\ open' = [open EXCEPT
            !.back = @ \cup {g \in {f} \cap DOMAIN open.bound :
                               open.kind = "run" /\ open.bound[g] = c},
            !.moved = @ \cup {g \in {f} : open.pc \in {"hash", "recheck", "answer"}},
            !.touched = @ \cup {g \in {f} : open.pc \in {"last", "pin"}}]
  BY DEF Edit
<1>2. file \in [Files -> Bytes] /\ open \in Open /\ UNCHANGED receipts
  BY DEF Edit, RunInv, TypeOK
<1>3. /\ open'.pc = open.pc /\ open'.checked = open.checked /\ open'.todo = open.todo
      /\ open'.bound = open.bound
      /\ open'.touched = open.touched \cup {g \in {f} : open.pc \in {"last", "pin"}}
  BY <1>1, <1>2 DEF Open
<1>4. open.touched \subseteq open'.touched /\ f \in open'.touched  BY <1>3
<1>5. \A g \in Files : file'[g] = file[g] \/ g = f
  BY <1>1, <1>2
<1>6. \A i : StoodWhenChecked(i) => StoodWhenChecked(i)'
  <2> SUFFICES ASSUME NEW i, StoodWhenChecked(i) PROVE StoodWhenChecked(i)'
    OBVIOUS
  <2>1. i \in DOMAIN receipts /\ receipts[i] \in Receipt
    BY DEF StoodWhenChecked, RunInv, TypeOK
  <2>2. DOMAIN receipts[i].inputs \subseteq Files /\ DOMAIN receipts[i].outputs \subseteq Files
    BY <2>1 DEF Receipt, Versions
  <2> QED  BY <2>2, <1>2, <1>4, <1>5 DEF StoodWhenChecked, Certified
<1>7. \A g : Passed(g)' = Passed(g)
  BY <1>2, <1>3 DEF Passed, Latest, Declaring
<1> QED  BY <1>2, <1>3, <1>6, <1>7 DEF Checked, ToCheck



LEMMA StepKeepsChecked == RunInv /\ Checked /\ [Next]_vars => Checked'
<1> SUFFICES ASSUME RunInv, Checked, [Next]_vars PROVE Checked'  OBVIOUS
<1>1. open \in Open /\ Idle.pc = "idle"  BY DEF RunInv, TypeOK, Idle
<1>2. ASSUME UNCHANGED <<file, receipts>>, open'.touched = open.touched,
             open'.checked = open.checked
      PROVE  /\ \A i : StoodWhenChecked(i)' = StoodWhenChecked(i)
             /\ \A g : Passed(g)' = Passed(g)
  BY <1>2 DEF StoodWhenChecked, Certified, Passed, Latest, Declaring
<1>3. CASE CheckProducer  BY <1>3, CheckKeepsChecked
<1>4. CASE Edit  BY <1>4, EditKeepsChecked
<1>5. CASE ExportChecksAgain
  <2>1. open' = [open EXCEPT !.pc = "last", !.todo = ToCheck(open.bound), !.checked = {}]
    BY <1>5 DEF ExportChecksAgain, CheckAgain
  <2>2. /\ open'.pc = "last" /\ open'.todo = ToCheck(open.bound) /\ open'.checked = {}
        /\ open'.bound = open.bound
    BY <2>1, <1>1 DEF Open
  <2> QED  BY <2>2 DEF Checked, ToCheck
<1>6. CASE ExportCompares
  <2>1. open.pc = "last" /\ open.todo = {} /\ UNCHANGED <<file, receipts>>
    BY <1>6 DEF ExportCompares
  <2>2. CASE open' = Idle
    BY <2>2, <1>1 DEF Checked
  <2>3. CASE open' = [open EXCEPT !.pc = "pin"]
    <3>1. /\ open'.todo = open.todo /\ open'.checked = open.checked
          /\ open'.bound = open.bound /\ open'.touched = open.touched
      BY <2>3, <1>1 DEF Open
    <3> QED  BY <3>1, <2>1, <1>2 DEF Checked, ToCheck
  <2> QED  BY <2>2, <2>3, <1>6 DEF ExportCompares
<1>7. CASE EditProject \/ UNCHANGED vars
  <2>1. UNCHANGED <<file, receipts, open>>  BY <1>7 DEF EditProject, vars
  <2> QED  BY <2>1, <1>2 DEF Checked, ToCheck
<1> QED  BY <1>3, <1>4, <1>5, <1>6, <1>7, NotLast DEF Checked

LEMMA StepKeepsText == RunInv /\ ExportInv /\ HasText /\ [Next]_vars => HasText'
<1> SUFFICES ASSUME RunInv, ExportInv, HasText, [Next]_vars PROVE HasText'  OBVIOUS
<1>1. /\ open \in Open /\ export \in Export /\ TypeOK /\ Idle.pc = "idle"
      /\ file \in [Files -> Bytes]
  BY DEF RunInv, TypeOK, Idle
<1>2. Body \in Published  BY DEF Published
<1>3. ASSUME export'.request = export.request, export'.copied = export.copied,
             open'.pc # "first" \/ (open'.pc = open.pc /\ open'.bound = open.bound /\ open'.retry = open.retry)
      PROVE  HasText'
  BY <1>3 DEF HasText, ToCheck
<1>4. CASE ExportBinds
  <2>1. open' = Exporting(FALSE) /\ UNCHANGED export /\ file[Body] # Absent
    BY <1>4 DEF ExportBinds
  <2>2. open'.bound = Binding  BY <2>1, <1>1, ExportingTyped
  <2>3. open'.bound[Body] # Absent  BY <2>1, <2>2, <1>2 DEF Binding, Hashes
  <2> QED  BY <2>1, <2>3 DEF HasText, ToCheck
<1>5. CASE ExportRecovers
  <2>1. UNCHANGED export /\ (open' = Idle \/ open' = Exporting(TRUE))
    BY <1>5 DEF ExportRecovers
  <2>2. open'.pc = "first" => open'.retry
    BY <2>1, <1>1, ExportingTyped
  <2> QED  BY <2>1, <2>2 DEF HasText, ToCheck
<1>6. CASE CheckProducer
  <2>1. UNCHANGED export
        /\ (open' = Idle \/ (open'.pc = open.pc /\ open'.bound = open.bound /\ open'.retry = open.retry))
    BY <1>1, <1>6 DEF CheckProducer, Open
  <2> QED  BY <2>1, <1>1, <1>3
<1>7. CASE ExportIsRequested
  <2>1. CASE open.retry
    <3>1. UNCHANGED export /\ open'.pc # "first"
      BY <2>1, <1>1, <1>7 DEF ExportIsRequested, Open
    <3> QED  BY <3>1, <1>3
  <2>2. CASE ~ open.retry
    <3>1. /\ export' = [export EXCEPT !.request = open.bound] /\ open.pc = "first"
          /\ open'.pc = "body"
      BY <2>2, <1>1, <1>7 DEF ExportIsRequested, Open
    <3>2. export'.request = open.bound /\ export'.copied = export.copied
      BY <3>1, <1>1 DEF Export
    <3>3. export.request = NoVersions /\ open.bound[Body] # Absent
      BY <3>1, <2>2 DEF ExportInv, Requested, HasText
    <3>4. DOMAIN export.copied = {}  BY <3>3 DEF ExportInv, Requested
    <3> QED  BY <3>1, <3>2, <3>3, <3>4 DEF HasText
  <2> QED  BY <2>1, <2>2
<1>8. open.pc \in Rendering => /\ open.bound = export.request /\ DOMAIN export.request = Published
                               /\ export.request[Body] # Absent
  <2> SUFFICES ASSUME open.pc \in Rendering
               PROVE  /\ open.bound = export.request /\ DOMAIN export.request = Published
                      /\ export.request[Body] # Absent
    OBVIOUS
  <2>1. open.bound = export.request /\ DOMAIN export.request = Published
    BY DEF ExportInv, Requested
  <2>2. export.request # NoVersions  BY <2>1, <1>2, NoVersionsTyped
  <2> QED  BY <2>1, <2>2 DEF HasText
<1>9. CASE RendererReadsBody
  <2>1. open.pc = "body" /\ open'.pc \in {"validate", "idle"}
    BY <1>1, <1>9 DEF RendererReadsBody, Open
  <2>2. CASE UNCHANGED export  BY <2>1, <2>2, <1>3
  <2>3. CASE export' = [export EXCEPT !.copied = Hashes({Body})]
    <3>1. export'.copied = Hashes({Body}) /\ export'.request = export.request
      BY <2>3, <1>1 DEF Export
    <3>2. DOMAIN export'.copied = {Body}  BY <3>1 DEF Hashes
    <3>3. Body \in ToCheck(export.request)
      BY <2>1, <1>2, <1>8 DEF Rendering, ToCheck
    <3> QED  BY <2>1, <3>1, <3>2, <3>3 DEF HasText, ToCheck
  <2> QED  BY <2>2, <2>3, <1>9 DEF RendererReadsBody
<1>10. CASE RendererCopies
  <2>1. PICK manifest \in {"rendered", "failed"} :
          export' = [export EXCEPT !.manifest = manifest, !.project = 1,
            !.copied = [f \in {Body} \cup Present(Shown) |->
                          IF f = Body THEN export.copied[Body] ELSE file[f]]]
    BY <1>10 DEF RendererCopies
  <2>2. open.pc = "copy" /\ open'.pc = "refresh"
    BY <1>1, <1>10 DEF RendererCopies, Open
  <2>3. /\ export'.request = export.request
        /\ DOMAIN export'.copied = {Body} \cup Present(Shown)
    BY <2>1, <1>1 DEF Export
  <2>4. {Body} \cup Present(Shown) \subseteq ToCheck(export.request)
    BY <2>2, <1>2, <1>8 DEF Rendering, Present, Shown, ToCheck, Published
  <2> QED  BY <2>2, <2>3, <2>4 DEF HasText, ToCheck
<1>11. CASE RendererValidates \/ ExportChecksAgain \/ ExportCompares
  <2>1. UNCHANGED export /\ open'.pc # "first"
    BY <1>1, <1>11 DEF RendererValidates, ExportChecksAgain, CheckAgain, ExportCompares, Open
  <2> QED  BY <2>1, <1>3
<1>12. CASE ExportIsPinned \/ ExportIsSaved
  <2>1. export'.request = export.request /\ export'.copied = export.copied
    BY <1>1, <1>12 DEF ExportIsPinned, ExportIsSaved, Export
  <2>2. open'.pc # "first"
    BY <1>1, <1>12 DEF ExportIsPinned, ExportIsSaved, Open
  <2> QED  BY <2>1, <2>2, <1>3
<1>13. CASE RunBinds \/ RunLaunches \/ RunIsRefused \/ RunHashesOutputs \/ RunIsBound
            \/ RunIsAnswered \/ RunRecovers
  <2>1. UNCHANGED export
    BY <1>13
    DEF RunBinds, RunLaunches, RunIsRefused, RunHashesOutputs, RunIsBound, RunIsAnswered,
        RunRecovers
  <2>2. CASE RunBinds  BY <2>1, <2>2, <1>3 DEF RunBinds, Idle
  <2>3. CASE RunLaunches \/ (RunHashesOutputs /\ ~ OutputError)
    <3>1. open'.pc # "first"  BY <2>3, <1>1 DEF RunLaunches, RunHashesOutputs, Open
    <3> QED  BY <3>1, <2>1, <1>3
  <2>4. CASE open' = Idle  BY <2>1, <2>4, <1>1, <1>3
  <2>5. CASE RunIsBound /\ open' # Idle
    <3>1. open'.pc = "answer"  BY <2>5, <1>1 DEF RunIsBound, OutputError, Open
    <3> QED  BY <3>1, <2>1, <1>3
  <2> QED
    BY <1>13, <2>2, <2>3, <2>4, <2>5
    DEF RunIsRefused, RunHashesOutputs, RunIsAnswered, RunRecovers, OutputError
<1>14. CASE RunEnds
  <2>1. UNCHANGED export /\ open'.pc # "first"  BY <1>1, <1>14 DEF RunEnds, Open
  <2> QED  BY <2>1, <1>3
<1>15. CASE Crash \/ UNCHANGED vars
  <2>1. UNCHANGED export /\ (open'.pc # "first" \/ open' = open)
    BY <1>15 DEF Crash, vars, Idle
  <2> QED  BY <2>1, <1>3
<1>16. CASE EditProject
  <2>1. export'.request = export.request /\ export'.copied = export.copied /\ UNCHANGED open
    BY <1>1, <1>16 DEF EditProject, Export
  <2> QED  BY <2>1, <1>3
<1>17. CASE Edit
  <2>1. export'.request = export.request /\ export'.copied = export.copied
    BY <1>1, <1>17 DEF Edit, Export
  <2>2. open'.pc = open.pc /\ open'.bound = open.bound /\ open'.retry = open.retry
    BY <1>1, <1>17 DEF Edit, Open
  <2> QED  BY <2>1, <2>2, <1>3
<1> QED
  BY <1>4, <1>5, <1>6, <1>7, <1>9, <1>10, <1>11, <1>12, <1>13, <1>14, <1>15, <1>16, <1>17 DEF Next



\* DependsOn is a recursive function.  A chain of files, each an input of the
\* last command that declared the one before, or that one again, shows that its
\* equation has a solution.
Reads(f) == UNION {Inputs[receipts[i].command] : i \in LastDeclaring(f)}

Chain(p, n) ==
  /\ p \in [0 .. n -> Files]
  /\ p[0] \in DOMAIN export.copied
  /\ \A k \in 0 .. n : k < n => p[k + 1] = p[k] \/ p[k + 1] \in Reads(p[k])

Chained == [n \in Nat |-> {f \in Files : \E p : Chain(p, n) /\ p[n] = f}]

Depends(g) ==
  g = [n \in Nat |-> IF n = 0 THEN DOMAIN export.copied
                     ELSE g[n - 1] \cup
                          UNION {Inputs[receipts[i].command] :
                                   i \in UNION {LastDeclaring(f) : f \in g[n - 1]}}]

LEMMA ReadsAreFiles ==
  ASSUME RunInv, NEW f
  PROVE  Reads(f) \subseteq Files
<1>1. \A i \in LastDeclaring(f) : receipts[i] \in Receipt
  BY DEF LastDeclaring, Declaring, RunInv, TypeOK
<1> QED  BY <1>1, WorkspaceAssumption DEF Reads, Receipt

\* A chain can be cut and made longer.
LEMMA ChainCut ==
  ASSUME NEW n \in Nat, n # 0, NEW p, Chain(p, n)
  PROVE  \E q : Chain(q, n - 1) /\ q[n - 1] = p[n - 1]
<1> DEFINE q == [k \in 0 .. (n - 1) |-> p[k]]
<1>1. /\ n - 1 \in Nat /\ n - 1 \in 0 .. (n - 1) /\ 0 \in 0 .. (n - 1)
      /\ 0 .. (n - 1) \subseteq 0 .. n
      /\ \A k \in 0 .. (n - 1) : k < n /\ (k < n - 1 => k + 1 \in 0 .. (n - 1))
  OBVIOUS
<1>2. p \in [0 .. n -> Files] /\ p[0] \in DOMAIN export.copied
  BY DEF Chain
<1>3. \A k \in 0 .. (n - 1) : p[k + 1] = p[k] \/ p[k + 1] \in Reads(p[k])
  BY <1>1 DEF Chain
<1>4. q \in [0 .. (n - 1) -> Files] /\ \A k \in 0 .. (n - 1) : q[k] = p[k]
  BY <1>1, <1>2
<1> HIDE DEF q
<1>5. Chain(q, n - 1)  BY <1>1, <1>2, <1>3, <1>4 DEF Chain
<1> QED  BY <1>1, <1>4, <1>5

LEMMA ChainOn ==
  ASSUME NEW n \in Nat, n # 0, NEW q, Chain(q, n - 1), NEW f \in Files,
         f = q[n - 1] \/ f \in Reads(q[n - 1])
  PROVE  \E p : Chain(p, n) /\ p[n] = f
<1> DEFINE p == [k \in 0 .. n |-> IF k = n THEN f ELSE q[k]]
<1>1. /\ n - 1 \in Nat /\ n \in 0 .. n /\ 0 \in 0 .. n /\ (n - 1) + 1 = n
      /\ \A k \in 0 .. n : k # n => k \in 0 .. (n - 1)
      /\ \A k \in 0 .. n : k < n => /\ k # n /\ k + 1 \in 0 .. n
                                    /\ k + 1 # n => k < n - 1
                                    /\ k + 1 = n => k = n - 1
  OBVIOUS
<1>2. q \in [0 .. (n - 1) -> Files] /\ q[0] \in DOMAIN export.copied
  BY DEF Chain
<1>3. \A k \in 0 .. (n - 1) : k < n - 1 => q[k + 1] = q[k] \/ q[k + 1] \in Reads(q[k])
  BY DEF Chain
<1>4. p \in [0 .. n -> Files] /\ p[n] = f /\ \A k \in 0 .. n : k # n => p[k] = q[k]
  BY <1>1, <1>2
<1> HIDE DEF p
<1>5. ASSUME NEW k \in 0 .. n, k < n
      PROVE  p[k + 1] = p[k] \/ p[k + 1] \in Reads(p[k])
  <2>1. p[k] = q[k] /\ k \in 0 .. (n - 1)  BY <1>1, <1>4, <1>5
  <2>2. CASE k + 1 = n
    BY <2>1, <2>2, <1>1, <1>4, <1>5
  <2>3. CASE k + 1 # n
    BY <2>1, <2>3, <1>1, <1>3, <1>4, <1>5
  <2> QED  BY <2>2, <2>3
<1>6. Chain(p, n)  BY <1>1, <1>2, <1>4, <1>5 DEF Chain
<1> QED  BY <1>4, <1>6

LEMMA ChainedDepends == RunInv => Depends(Chained)
<1> SUFFICES ASSUME RunInv PROVE Depends(Chained)  OBVIOUS
<1> DEFINE step(n) == IF n = 0 THEN DOMAIN export.copied
                      ELSE Chained[n - 1] \cup
                           UNION {Inputs[receipts[i].command] :
                                    i \in UNION {LastDeclaring(f) : f \in Chained[n - 1]}}
<1>1. \A n \in Nat : Chained[n] = {f \in Files : \E p : Chain(p, n) /\ p[n] = f}
  BY DEF Chained
<1>2. Chained[0] = DOMAIN export.copied
  <2>1. DOMAIN export.copied \subseteq Files  BY DEF RunInv, TypeOK, Export, Versions
  <2>2. ASSUME NEW f \in DOMAIN export.copied PROVE \E p : Chain(p, 0) /\ p[0] = f
    <3> DEFINE p == [k \in 0 .. 0 |-> f]
    <3>1. p \in [0 .. 0 -> Files] /\ p[0] = f  BY <2>1
    <3> HIDE DEF p
    <3>2. Chain(p, 0)  BY <3>1, <2>2 DEF Chain
    <3> QED  BY <3>1, <3>2
  <2>3. \A p : Chain(p, 0) => p[0] \in DOMAIN export.copied  BY DEF Chain
  <2>4. Chained[0] = {f \in Files : \E p : Chain(p, 0) /\ p[0] = f}  BY <1>1
  <2>5. \A f \in Chained[0] : f \in DOMAIN export.copied  BY <2>3, <2>4
  <2>6. \A f \in DOMAIN export.copied : f \in Chained[0]  BY <2>1, <2>2, <2>4
  <2> QED  BY <2>5, <2>6
<1>3. ASSUME NEW n \in Nat, n # 0
      PROVE  Chained[n] = step(n)
  <2>1. n - 1 \in Nat /\ n - 1 \in 0 .. n /\ n - 1 < n /\ (n - 1) + 1 = n  BY <1>3
  <2>2. \A f : f \in step(n) <=>
                 f \in Chained[n - 1] \/ \E g \in Chained[n - 1] : f \in Reads(g)
    BY <1>3 DEF Reads
  <2>3. ASSUME NEW f \in Chained[n] PROVE f \in step(n)
    <3>1. PICK p : Chain(p, n) /\ p[n] = f  BY <1>1, <2>3
    <3>2. p[n - 1] \in Chained[n - 1]
      <4>1. \E q : Chain(q, n - 1) /\ q[n - 1] = p[n - 1]  BY <3>1, <1>3, ChainCut
      <4>2. p[n - 1] \in Files  BY <3>1, <2>1 DEF Chain
      <4> QED  BY <4>1, <4>2, <1>1, <2>1
    <3>3. f = p[n - 1] \/ f \in Reads(p[n - 1])  BY <3>1, <2>1 DEF Chain
    <3> QED  BY <3>2, <3>3, <2>2
  <2>4. ASSUME NEW f \in step(n) PROVE f \in Chained[n]
    <3>1. PICK g \in Chained[n - 1] : f = g \/ f \in Reads(g)  BY <2>2, <2>4
    <3>2. PICK q : Chain(q, n - 1) /\ q[n - 1] = g  BY <1>1, <2>1, <3>1
    <3>3. f \in Files
      <4>1. g \in Files  BY <1>1, <2>1, <3>1
      <4> QED  BY <3>1, <4>1, ReadsAreFiles
    <3>4. \E p : Chain(p, n) /\ p[n] = f  BY <3>1, <3>2, <3>3, <1>3, ChainOn
    <3> QED  BY <1>1, <3>3, <3>4
  <2> HIDE DEF step
  <2> QED  BY <2>3, <2>4
<1>4. \A n \in Nat : Chained[n] = step(n)
  <2> TAKE n \in Nat
  <2>1. CASE n = 0  BY <2>1, <1>2
  <2>2. CASE n # 0  BY <2>2, <1>3
  <2> QED  BY <2>1, <2>2
<1>5. Chained = [n \in Nat |-> Chained[n]]  BY DEF Chained
<1>6. [n \in Nat |-> Chained[n]] = [n \in Nat |-> step(n)]
  <2> HIDE DEF step
  <2> QED  BY <1>4
<1> QED  BY <1>5, <1>6 DEF Depends

LEMMA DependsOnDepends == RunInv => Depends(DependsOn)
<1> SUFFICES ASSUME RunInv PROVE Depends(DependsOn)  OBVIOUS
<1>1. DependsOn = CHOOSE g : Depends(g)
  BY DEF DependsOn, Depends
<1>2. \E g : Depends(g)  BY ChainedDepends
<1> QED  BY <1>1, <1>2



\* Where a check of the producers ends, what has passed is closed: whatever the
\* last command that declared a passed file reads has passed as well.
LEMMA PassedIsClosed ==
  ASSUME RunInv, InTime, Checked, open.pc = "pin", NEW f, Passed(f), NEW i \in LastDeclaring(f)
  PROVE  i \in open.checked /\ \A g \in Inputs[receipts[i].command] : Passed(g)
<1>1. Declaring(f) # {}  BY DEF LastDeclaring
<1>2. PICK j \in Latest(f) : j \in open.checked  BY <1>1 DEF Passed
<1>3. j = i  BY <1>2, LatestIsLast
<1> QED  BY <1>2, <1>3 DEF Checked

Below == {p \in Nat \X Nat : p[1] < p[2]}

LEMMA DependenciesPass ==
  ASSUME RunInv, ExportInv, FreshInv, open.pc = "pin", NEW n \in Nat
  PROVE  \A f \in DependsOn[n] : Passed(f)
<1> DEFINE S == {m \in Nat : \E f \in DependsOn[m] : ~ Passed(f)}
<1>1. \A m \in Nat :
        DependsOn[m] = IF m = 0 THEN DOMAIN export.copied
                       ELSE DependsOn[m - 1] \cup
                            UNION {Inputs[receipts[i].command] :
                                     i \in UNION {LastDeclaring(f) : f \in DependsOn[m - 1]}}
  BY DependsOnDepends DEF Depends
<1>2. ASSUME S # {} PROVE FALSE
  <2>1. IsWellFoundedOn(Below, Nat)
    BY NatLessThanWellFounded, Zenon DEF Below, OpToRel
  <2>2. PICK m \in S : \A k \in S : <<k, m>> \notin Below
    <3>1. S \subseteq Nat  OBVIOUS
    <3> HIDE DEF S
    <3> QED  BY <1>2, <2>1, <3>1, WFMin
  <2>3. m \in Nat /\ \E f \in DependsOn[m] : ~ Passed(f)  BY <2>2
  <2>4. PICK f \in DependsOn[m] : ~ Passed(f)  BY <2>3
  <2>5. CASE m = 0
    <3>1. f \in DOMAIN export.copied  BY <1>1, <2>4, <2>5
    <3>2. f \in ToCheck(open.bound)
      BY <3>1 DEF FreshInv, HasText, ExportInv, Requested, Rendering
    <3> QED  BY <2>4, <3>2 DEF FreshInv, Checked
  <2>6. CASE m # 0
    <3>1. m - 1 \in Nat /\ m - 1 < m  BY <2>3, <2>6
    <3>2. m - 1 \notin S
      <4>1. <<m - 1, m>> \in Below  BY <2>3, <3>1 DEF Below
      <4> HIDE DEF S
      <4> QED  BY <2>2, <4>1
    <3>3. \A g \in DependsOn[m - 1] : Passed(g)  BY <3>1, <3>2
    <3>4. \/ f \in DependsOn[m - 1]
          \/ \E g \in DependsOn[m - 1] : \E i \in LastDeclaring(g) : f \in Inputs[receipts[i].command]
      <4>1. DependsOn[m] = DependsOn[m - 1] \cup
                           UNION {Inputs[receipts[i].command] :
                                    i \in UNION {LastDeclaring(g) : g \in DependsOn[m - 1]}}
        BY <1>1, <2>3, <2>6
      <4> QED  BY <2>4, <4>1
    <3>5. CASE f \in DependsOn[m - 1]  BY <2>4, <3>3, <3>5
    <3>6. CASE f \notin DependsOn[m - 1]
      <4>1. PICK g \in DependsOn[m - 1] :
              \E i \in LastDeclaring(g) : f \in Inputs[receipts[i].command]
        BY <3>4, <3>6
      <4>2. PICK i \in LastDeclaring(g) : f \in Inputs[receipts[i].command]  BY <4>1
      <4> QED  BY <2>4, <3>3, <4>1, <4>2, PassedIsClosed DEF FreshInv
    <3> QED  BY <3>5, <3>6
  <2> QED  BY <2>5, <2>6
<1> QED  BY <1>2

\* What was checked and bound is what its command read and left, unless excused.
LEMMA CheckedIsGenuine ==
  ASSUME RunInv, Checked, open.pc \in {"last", "pin"}, NEW i \in open.checked
  PROVE  Genuine(i, receipts[i].excused \cup open.touched)
<1>1. StoodWhenChecked(i)  BY DEF Checked
<1>2. BoundAsDone(receipts[i])
  BY <1>1 DEF StoodWhenChecked, Certified, RunInv, Receipts
<1> QED  BY <1>1, <1>2 DEF StoodWhenChecked, Certified, BoundAsDone, Genuine

\* What is published is up to date, all the way to the files nobody declared to
\* produce, however long the chain of commands, whatever was edited and wherever
\* the process stopped.
THEOREM PublishedIsUpToDate == Spec => PublishedIsFresh
<1>1. Init => RunInv /\ ExportInv /\ FreshInv  BY InitRuns, InitExports, InitFresh
<1>2. RunInv /\ ExportInv /\ FreshInv /\ [Next]_vars => RunInv' /\ ExportInv' /\ FreshInv'
  <2> SUFFICES ASSUME RunInv, ExportInv, FreshInv, [Next]_vars
               PROVE  RunInv' /\ ExportInv' /\ FreshInv'
    OBVIOUS
  <2>1. RunInv'  BY StepKeeps
  <2>2. ExportInv'
    BY RunsKeepExport, EditKeepsExport, ExportsKeepExport, OthersKeepExport DEF Next, Exports
  <2>3. FreshInv'  BY StepKeepsTime, StepKeepsChecked, StepKeepsText DEF FreshInv
  <2> QED  BY <2>1, <2>2, <2>3
<1>3. RunInv /\ ExportInv /\ FreshInv /\ [Next]_vars =>
        [Delivers => \A f \in DependsOn[Cardinality(Files)] : \A i \in LastDeclaring(f) :
                       Genuine(i, receipts[i].excused \cup open.touched)]_vars
  <2> SUFFICES ASSUME RunInv, ExportInv, FreshInv, [Next]_vars, Delivers,
                      NEW f \in DependsOn[Cardinality(Files)], NEW i \in LastDeclaring(f)
               PROVE  Genuine(i, receipts[i].excused \cup open.touched)
    OBVIOUS
  <2>1. open.pc = "pin"  BY OnlyPinningDelivers
  <2>2. Cardinality(Files) \in Nat  BY WorkspaceAssumption, FS_CardinalityType
  <2>3. Passed(f)  BY <2>1, <2>2, DependenciesPass
  <2>4. i \in open.checked  BY <2>1, <2>3, PassedIsClosed DEF FreshInv
  <2> QED  BY <2>1, <2>4, CheckedIsGenuine DEF FreshInv
<1> QED  BY <1>1, <1>2, <1>3, PTL DEF Spec, PublishedIsFresh

=============================================================================
