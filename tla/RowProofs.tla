----------------------------- MODULE RowProofs -----------------------------
(***************************************************************************)
(* Whose row is it?  The .part file, the final file and the two            *)
(* collections of a program are written by goroutines, passes and start-up *)
(* without a lock that spans two calls; a row is bound to its goroutine by *)
(* nothing but the order of those calls.  The theorems say how far that    *)
(* order carries: each names, as constant-level assumptions, the failures  *)
(* under which it holds; without them TLC finds it violated.               *)
(***************************************************************************)
EXTENDS RecordingProofs

----------------------------------------------------------------------------
(* What the theorems assume of the world.                                  *)

\* No call of the file system fails.
FilesWork == "file" \notin Faulty \/ MaxFaults = 0

\* Nothing removes a recorded program: no low storage, no user.
NothingDeleted == LowSpaceAction # "remove" /\ UserOps \cap {"delete", "deleteFile", "cleanup"} = {}

NeverKilled == MaxCrashes = 0

LEMMA FilesDoNotFail ==
  ASSUME TypeOK, FilesWork
  PROVE  ~Fails("file")
BY BoundsAssumption DEF FilesWork, Fails, TypeOK, OperatorTypeOK

\* An operator that is not killed ends when its goroutines have.
LEMMA ProcessWaits ==
  ASSUME TypeOK, LoopMatchesProcess, NeverKilled, Process
  PROVE  UNCHANGED <<rec, fileVars>>
<1>1. ~Crash /\ ~Shutdown
  BY BoundsAssumption DEF NeverKilled, Crash, Shutdown, TypeOK, OperatorTypeOK
<1>2. ASSUME ProcessEnds("down"), \A r \in Recorders : ~Live(r)
      PROVE  UNCHANGED <<rec, fileVars>>
  BY <1>2 DEF ProcessEnds, TypeOK, OperatorTypeOK
<1> QED
  BY <1>1, <1>2 DEF Process, Exit, Restart, InitRead, InitWrite, LoopFrame,
     LoopMatchesProcess

\* The loop touches no .part file and no goroutine but the one it starts.
LEMMA LoopLeaves ==
  ASSUME Loop
  PROVE  UNCHANGED part /\ (UNCHANGED rec \/ \E r \in Recorders : Spawn(r))
BY DEF Loop, Tick, ListCompletions, ReadRecordingIDs, ReadRecordedIDs, ListCleanup, ReadDue,
       ReadSkipped, CheckSpace, EndTick, Advance, RetryRemoval, RetryRollback,
       RetryCompletion, RetryDelete, CleanupReserve, CheckSkipped, AbortSkipped,
       LowSpaceStop, LowSpaceUnlink, LowSpaceRemove, StartRecording, Spawn, LoopFails,
       LoopFrame, fileVars

\* Nobody else touches a .part file.
LEMMA OutsideFiles ==
  ASSUME \/ User \/ SchedulerReads \/ SchedulerPublishes
         \/ \E q \in Programs : AirAdvances(q)
         \/ UNCHANGED vars
  PROVE  UNCHANGED part
BY DEF User, WriteReserve, WriteRecorded, Reserve, Skip, Unskip, Unreserve,
       Stop, DeleteRecorded, DeleteFile, RestoreStaged, FileFrame, CleanupRecorded, SchedulerReads,
       SchedulerPublishes, AirAdvances, HandlerFrame, opVars, fileVars, vars

\* No .part file outlives the goroutine that wrote it, unless the operator is
\* killed or the file cannot be removed.
THEOREM PartsAreDropped ==
  ASSUME FilesWork, NeverKilled
  PROVE  Spec => []NoOrphanPart
<1>1. Init => LoopMatchesProcess /\ NoOrphanPart
  BY DEF Init, OperatorInit, StoreInit, LoopMatchesProcess, NoOrphanPart
<1>2. TypeOK /\ LoopMatchesProcess /\ NoOrphanPart /\ [Next]_vars => NoOrphanPart'
  <2> SUFFICES ASSUME TypeOK, LoopMatchesProcess, NoOrphanPart, [Next]_vars
               PROVE  NoOrphanPart'
    OBVIOUS
  <2>1. CASE UNCHANGED <<part, rec>>
    BY <2>1 DEF NoOrphanPart, Writing
  <2>2. ASSUME NEW r \in Recorders, Recorder(r)
        PROVE  NoOrphanPart'
    <3> DEFINE q == ProgramOf[r]
    <3>0. /\ q \in Programs /\ part \in [Programs -> {"absent", "empty", "data"}]
          /\ rec \in [Recorders -> Goroutine]
      BY ProgramOfAssumption DEF TypeOK, OperatorTypeOK
    <3>1. \A s \in Recorders \ {r} : rec'[s] = rec[s]
      BY <2>2, RecorderTouches
    <3>2. \/ Writing(r)' /\ \A p \in Programs \ {q} : part'[p] = part[p]
          \/ ~Writing(r) /\ UNCHANGED part
          \/ part' = [part EXCEPT ![q] = "absent"]
      <4>1. CASE OpenStream(r) \/ MarkRecording(r) \/ RemoveFailed(r) \/ ReleaseReserve(r)
                   \/ CompleteRecording(r) \/ ForgetReserve(r) \/ PostProcess(r)
        BY <4>1 DEF OpenStream, MarkRecording, RemoveFailed, ReleaseReserve,
           CompleteRecording, ForgetReserve, PostProcess, Writing, fileVars
      <4>2. CASE CreatePart(r)
        BY <3>0, <4>2, FilesDoNotFail DEF CreatePart, Goto, Writing, Goroutine
      <4>3. CASE CopyData(r)
        BY <3>0, <4>3 DEF CopyData, Writing
      <4>4. CASE Watch(r) \/ SetDeadline(r) \/ EndReached(r)
        BY <3>0, <4>4 DEF Watch, SetDeadline, EndReached, Writing, fileVars, Goroutine
      <4>5. CASE CopyEnds(r) \/ StopCheck(r) \/ AbortCheck(r) \/ Rollback(r) \/ ClearClaim(r)
        <5>1. UNCHANGED part
          BY <4>5 DEF CopyEnds, StopCheck, AbortCheck, Rollback, ClearClaim, fileVars
        <5>2. rec'[r].pc \in {"stopCheck", "abortCheck", "claim", "clear", "unlink"}
          BY <3>0, <4>5 DEF CopyEnds, StopCheck, AbortCheck, Rollback, ClearClaim, Goto,
             Goroutine
        <5> QED BY <5>1, <5>2 DEF Writing
      <4>6. CASE Claim(r)
        BY <3>0, <4>6 DEF Claim, Goto, Writing, fileVars, Goroutine
      <4>7. CASE Promote(r)
        BY <3>0, <4>7 DEF Promote, Goto, Writing, fileVars, Goroutine
      <4>8. CASE UnlinkPart(r)
        BY <3>0, <4>8, FilesDoNotFail DEF UnlinkPart, DropPart
      <4> QED BY <2>2, <4>1, <4>2, <4>3, <4>4, <4>5, <4>6, <4>7, <4>8 DEF Recorder
    <3> SUFFICES ASSUME NEW p \in Programs, part'[p] # "absent"
                 PROVE  \E s \in Recorders : ProgramOf[s] = p /\ Writing(s)'
      BY DEF NoOrphanPart, Writing
    <3>3. CASE p = q /\ Writing(r)'
      BY <3>3
    <3>4. CASE part'[p] = part[p] /\ (p = q => ~Writing(r))
      <4>1. PICK s \in Recorders : ProgramOf[s] = p /\ Writing(s)
        BY <3>4 DEF NoOrphanPart
      <4> QED BY <3>1, <3>4, <4>1 DEF Writing
    <3> QED BY <3>0, <3>2, <3>3, <3>4
  <2>3. ASSUME NEW r \in Recorders, Spawn(r)
        PROVE  NoOrphanPart'
    <3>1. UNCHANGED part /\ \A s \in Recorders : Writing(s) => Writing(s)'
      BY <2>3 DEF Spawn, fileVars, Goto, Writing, TypeOK, OperatorTypeOK
    <3> QED BY <3>1 DEF NoOrphanPart
  <2>4. CASE ~(\E r \in Recorders : Spawn(r)) /\ Loop
    BY <2>1, <2>4, LoopLeaves
  <2>5. CASE Process
    BY <2>1, <2>5, ProcessWaits DEF fileVars
  <2>6. CASE \/ User \/ SchedulerReads \/ SchedulerPublishes
             \/ \E q \in Programs : AirAdvances(q)
             \/ UNCHANGED vars
    BY <2>1, <2>6, OutsideStep, OutsideFiles
  <2> QED BY <2>2, <2>3, <2>4, <2>5, <2>6 DEF Next
<1>3. TypeOK /\ LoopMatchesProcess /\ [Next]_vars => LoopMatchesProcess'
  BY ProcessInvariant
<1> QED BY <1>1, <1>2, <1>3, TypeCorrect, PTL DEF Spec
----------------------------------------------------------------------------
(* One goroutine per row.  Where recorded programs stay and no rename fails *)
(* an active row is taken away by nobody but the goroutine it was inserted  *)
(* for, while that needs it: a retried removal comes after the goroutine    *)
(* that queued it, and before the row of the next.                          *)

Finishes(r) == rec[r].pc \in {"promote", "complete"}
Holds(r) == Owns(r) \/ Finishes(r)

Open(p) == IsRecording(p) /\ ~Claimed(p)

\* No goroutine owns the row of p.
Unowned(p) == \A r \in Recorders : ProgramOf[r] = p => ~Owns(r)

\* The pass has inserted the row of p and is going to start its goroutine.
Starting(p) == \/ loop = "start" /\ p \in pending
               \/ loop = "spawn" /\ p \in todo

\* A goroutine has its row, until a pass completes it in its place, and no
\* other goroutine has it.
RowsHeld ==
  /\ \A r \in Recorders : Owns(r) => Open(ProgramOf[r])
  /\ \A r \in Recorders : Finishes(r) =>
        PendingCompletion(ProgramOf[r]) \/ IsRecorded(ProgramOf[r])
  /\ \A r, s \in Recorders :
        Holds(r) /\ Holds(s) /\ ProgramOf[r] = ProgramOf[s] => r = s

\* A row is in one collection, and its claim is pending.
RowsApart ==
  /\ \A p \in Programs : IsRecorded(p) => ~IsRecording(p)
  /\ \A p \in Programs : Claimed(p) => PendingCompletion(p)

\* A rename never fails, so no claim is ever rolled back.
NoRollback ==
  /\ \A r \in Recorders : rec[r].pc \notin {"rollback", "clear"}
  /\ \A p \in Programs : rollbacks[p] = None

\* What a goroutine has opened is there until it is renamed.
PartsThere ==
  \A r \in Recorders :
     rec[r].pc \in {"copy", "stopCheck", "abortCheck", "claim", "promote"} =>
        part[ProgramOf[r]] # "absent"

\* What is to be removed, and what is to be started, is nobody's.
QueuesApart ==
  /\ \A p \in removals : Open(p) /\ Unowned(p)
  /\ \A p \in Programs : Starting(p) => Open(p) /\ Unowned(p) /\ p \notin removals
  /\ proc \in {"down", "init"} => removals = {}

\* What the loop has listed is still so.
ListsTrue ==
  /\ loop = "removals" => todo \subseteq removals
  /\ loop = "rollbacks" => todo = {}
  /\ loop = "completions" => \A p \in todo : PendingCompletion(p) \/ IsRecorded(p)
  /\ loop = "initWrite" => \A p \in Programs : PendingCompletion(p) => p \in pending
  /\ loop \notin {"setAbort", "start", "spawn", "initWrite"} => pending = {}
  /\ loop \notin {"lowUnlink", "lowRemove"}

\* No handler is about to remove a recorded program.
NobodyDeletes == handler.write \notin {"removeRecorded", "removeStaged"}

HeldOnce == /\ RowsHeld /\ RowsApart /\ NoRollback /\ PartsThere /\ QueuesApart
            /\ ListsTrue /\ NobodyDeletes

\* A step leaves the row of p what it is.
SameRow(p) == /\ IsRecording(p)' <=> IsRecording(p)
              /\ Claimed(p)' <=> Claimed(p)
              /\ PendingCompletion(p)' <=> PendingCompletion(p)
              /\ IsRecorded(p)' <=> IsRecorded(p)
SameRows == \A p \in Programs : SameRow(p)

\* Marking rows that are not claimed does.
LEMMA MarksLeaveRows ==
  ASSUME TypeOK, UNCHANGED recorded,
         \A p \in Programs :
            \/ recording'[p] = recording[p]
            \/ /\ IsRecording(p) /\ ~Claimed(p)
               /\ \E a \in {"system", "user"} :
                     recording'[p] = [recording[p] EXCEPT !.abort = a]
  PROVE  SameRows
<1> SUFFICES ASSUME NEW p \in Programs
             PROVE  SameRow(p)
  BY DEF SameRows
<1>1. CASE recording'[p] = recording[p]
  BY <1>1 DEF SameRow, IsRecording, Claimed, PendingCompletion, IsRecorded
<1>2. ASSUME IsRecording(p), ~Claimed(p), NEW a \in {"system", "user"},
             recording'[p] = [recording[p] EXCEPT !.abort = a]
      PROVE  IsRecording(p)' /\ ~Claimed(p)'
  <2>1. recording[p] \in Row
    BY <1>2 DEF TypeOK, OperatorTypeOK, StoreTypeOK, IsRecording
  <2>2. recording'[p] \in Row /\ recording'[p].claim = recording[p].claim
    BY <1>2, <2>1 DEF Row, AbortMark
  <2> QED BY <1>2, <2>2, NoneAssumption DEF IsRecording, Claimed
<1> QED
  BY <1>1, <1>2 DEF SameRow, IsRecorded, PendingCompletion

\* A step that leaves rows, goroutines and queues alone keeps the rest.
LEMMA QuietStep ==
  ASSUME HeldOnce, SameRows, UNCHANGED <<rec, removals, rollbacks, part>>,
         \A p \in Programs : Starting(p)' => Starting(p),
         proc' \in {"down", "init"} => removals = {},
         ListsTrue', NobodyDeletes', removals \subseteq Programs
  PROVE  HeldOnce'
<1>1. \A r \in Recorders : /\ Owns(r)' <=> Owns(r)
                           /\ Finishes(r)' <=> Finishes(r)
                           /\ Holds(r)' <=> Holds(r)
                           /\ ProgramOf[r] \in Programs
  BY ProgramOfAssumption DEF Owns, Finishes, Holds
<1>2. \A p \in Programs : /\ Open(p)' <=> Open(p)
                          /\ Unowned(p)' <=> Unowned(p)
  BY <1>1 DEF SameRows, SameRow, Open, Unowned
<1>3. RowsHeld'
  BY <1>1, <1>2 DEF HeldOnce, RowsHeld, SameRows, SameRow
<1>4. RowsApart'
  BY DEF HeldOnce, RowsApart, SameRows, SameRow
<1>5. NoRollback' /\ PartsThere'
  BY DEF HeldOnce, NoRollback, PartsThere
<1>6. QueuesApart'
  <2>1. \A p \in Programs : Starting(p)' => Open(p)' /\ Unowned(p)' /\ p \notin removals'
    BY <1>2 DEF HeldOnce, QueuesApart
  <2>2. \A p \in removals' : Open(p)' /\ Unowned(p)'
    BY <1>2 DEF HeldOnce, QueuesApart
  <2> QED BY <2>1, <2>2 DEF QueuesApart
<1> QED BY <1>3, <1>4, <1>5, <1>6 DEF HeldOnce

----------------------------------------------------------------------------
(* What a goroutine's step can be.                                         *)

GoesOn(r) ==
  Owns(r) /\ Owns(r)' /\ Open(ProgramOf[r])' /\ UNCHANGED <<recorded, removals>>
TakesClaim(r) ==
  /\ Owns(r) /\ rec'[r].pc = "promote" /\ PendingCompletion(ProgramOf[r])'
  /\ UNCHANGED <<recorded, removals>>
GivesUp(r) ==
  /\ Owns(r) /\ ~Holds(r)' /\ UNCHANGED recorded
  /\ \/ RemoveRecording(ProgramOf[r]) /\ UNCHANGED removals
     \/ QueueRemoval(ProgramOf[r]) /\ UNCHANGED recording
Completes(r) ==
  Finishes(r) /\ ~Holds(r)' /\ Complete(ProgramOf[r]) /\ UNCHANGED removals
MovesOn(r) ==
  /\ ~Owns(r) /\ ~Owns(r)' /\ (Finishes(r)' => Finishes(r))
  /\ UNCHANGED <<recording, recorded, removals>>

\* A goroutine goes on with its row, claims it, gives it up, completes it, or
\* has none; it is never about to roll a claim back.
LEMMA GoroutineStep ==
  ASSUME TypeOK, FilesWork, HeldOnce, NEW r \in Recorders, Recorder(r)
  PROVE  /\ GoesOn(r) \/ TakesClaim(r) \/ GivesUp(r) \/ Completes(r) \/ MovesOn(r)
         /\ rec'[r].pc \notin {"rollback", "clear"} /\ UNCHANGED rollbacks
<1> DEFINE p == ProgramOf[r]
<1>0. /\ p \in Programs /\ None \notin Recorders /\ None \notin Row
      /\ recording \in [Programs -> Row \cup {None}]
      /\ rec \in [Recorders -> Goroutine] /\ rec[r] \in Goroutine
  BY ProgramOfAssumption, NoneAssumption DEF TypeOK, OperatorTypeOK, StoreTypeOK
<1>1. Owns(r) => IsRecording(p) /\ recording[p] \in Row /\ recording[p].claim = None
  BY <1>0 DEF HeldOnce, RowsHeld, Open, IsRecording, Claimed
<1>2. rec[r].pc \notin {"rollback", "clear"}
  BY DEF HeldOnce, NoRollback
<1>3. ASSUME UNCHANGED <<recording, recorded, removals, rollbacks>>, Owns(r),
             rec'[r].pc \in {"mark", "create", "copy", "stopCheck", "abortCheck", "claim",
                             "unlink", "remove"}
      PROVE  GoesOn(r) /\ rec'[r].pc \notin {"rollback", "clear"} /\ UNCHANGED rollbacks
  BY <1>1, <1>3 DEF GoesOn, Owns, Open, IsRecording, Claimed
<1>4. CASE OpenStream(r) \/ CreatePart(r) \/ CopyEnds(r) \/ StopCheck(r) \/ AbortCheck(r)
  <2>1. UNCHANGED <<recording, recorded, removals, rollbacks>> /\ Owns(r)
    BY <1>4 DEF OpenStream, CreatePart, CopyEnds, StopCheck, AbortCheck, storeVars,
       queueVars, Owns
  <2>2. rec'[r].pc \in {"mark", "create", "copy", "stopCheck", "abortCheck", "claim",
                        "unlink", "remove"}
    BY <1>0, <1>4 DEF OpenStream, CreatePart, CopyEnds, StopCheck, AbortCheck, Goto,
       Goroutine
  <2> QED BY <1>3, <2>1, <2>2
<1>5. CASE CopyData(r) \/ Watch(r) \/ SetDeadline(r) \/ EndReached(r)
  <2>1. UNCHANGED <<recording, recorded, removals, rollbacks>>
    BY <1>5 DEF CopyData, Watch, SetDeadline, EndReached, storeVars, queueVars
  <2>2. rec'[r].pc = rec[r].pc
    BY <1>0, <1>5 DEF CopyData, Watch, SetDeadline, EndReached, Goroutine
  <2>3. Owns(r)
    BY <1>5 DEF CopyData, Watch, SetDeadline, EndReached, Owns
  <2> QED BY <1>1, <1>2, <2>1, <2>2, <2>3 DEF GoesOn, Owns, Open, IsRecording, Claimed
<1>6. CASE UnlinkPart(r)
  <2>1. UNCHANGED <<recording, recorded, removals, rollbacks>> /\ Owns(r)
        /\ rec'[r].pc = "remove"
    BY <1>0, <1>6 DEF UnlinkPart, Goto, storeVars, queueVars, Owns, Goroutine
  <2> QED BY <1>3, <2>1
<1>7. CASE MarkRecording(r)
  <2>1. Owns(r) /\ UNCHANGED <<recorded, removals, rollbacks>>
        /\ rec'[r].pc \in {"create", "remove"}
    BY <1>0, <1>7 DEF MarkRecording, Goto, queueVars, Owns, Goroutine
  <2>2. CASE UNCHANGED recording
    BY <1>3, <2>1, <2>2
  <2>3. CASE MarkActive(p)
    <3>1. recording'[p] = [recording[p] EXCEPT !.path = TRUE, !.pid = -1]
      BY <1>0, <1>1, <2>1, <2>3 DEF MarkActive
    <3>2. recording'[p] \in Row /\ recording'[p].claim = None
      BY <1>1, <2>1, <3>1 DEF Row
    <3> QED
      BY <1>0, <2>1, <3>2 DEF GoesOn, Owns, Open, IsRecording, Claimed
  <2> QED BY <1>7, <2>2, <2>3 DEF MarkRecording
<1>8. CASE Claim(r)
  <2>1. Owns(r) /\ UNCHANGED <<recorded, removals, rollbacks>>
    BY <1>8 DEF Claim, queueVars, Owns
  <2>2. CASE UNCHANGED recording /\ Goto(r, "unlink")
    BY <1>0, <1>3, <2>1, <2>2 DEF Goto, Goroutine
  <2>3. CASE ClaimCompletion(p, r) /\ Goto(r, "promote")
    <3>1. rec'[r].pc = "promote"
      BY <1>0, <2>3 DEF Goto, Goroutine
    <3>2. recording'[p] = [recording[p] EXCEPT !.path = TRUE, !.pid = 0, !.claim = r]
      BY <1>0, <2>3 DEF ClaimCompletion
    <3>3. recording'[p] \in Row /\ recording'[p].claim = r /\ recording'[p].path
          /\ recording'[p].pid = 0
      BY <1>1, <2>1, <3>2 DEF Row
    <3> QED
      BY <1>0, <2>1, <3>1, <3>3
      DEF TakesClaim, Finishes, PendingCompletion, Claimed, IsRecording
  <2> QED BY <1>8, <2>2, <2>3 DEF Claim
<1>9. CASE RemoveFailed(r)
  <2>1. Owns(r) /\ UNCHANGED <<recorded, rollbacks>> /\ rec'[r].pc \in {"release", "done"}
    BY <1>0, <1>9 DEF RemoveFailed, Owns, At
  <2> QED
    BY <1>9, <2>1 DEF RemoveFailed, GivesUp, Holds, Owns, Finishes
<1>10. CASE Promote(r)
  <2>1. part[p] # "absent" /\ ~Fails("file")
    BY <1>10, FilesDoNotFail DEF HeldOnce, PartsThere, Promote
  <2>2. rec'[r].pc = "complete" /\ UNCHANGED <<recording, recorded, removals, rollbacks>>
    BY <1>0, <1>10, <2>1 DEF Promote, Goto, Goroutine, storeVars, queueVars
  <2> QED BY <1>10, <2>2 DEF Promote, MovesOn, Owns, Finishes
<1>11. CASE CompleteRecording(r)
  <2>1. Finishes(r) /\ ~Owns(r) /\ UNCHANGED <<removals, rollbacks>>
        /\ rec'[r].pc \in {"forget", "done"}
    BY <1>0, <1>11 DEF CompleteRecording, Finishes, Owns, Goto, At, Goroutine, queueVars
  <2>2. Complete(p) \/ UNCHANGED <<recording, recorded>>
    BY <1>11 DEF CompleteRecording
  <2> QED BY <2>1, <2>2 DEF Completes, MovesOn, Holds, Owns, Finishes
<1>12. CASE ReleaseReserve(r) \/ ForgetReserve(r) \/ PostProcess(r)
  <2>1. UNCHANGED <<recording, recorded, removals, rollbacks>>
        /\ rec[r].pc \in {"release", "forget", "post"}
    BY <1>12 DEF ReleaseReserve, ForgetReserve, PostProcess, storeVars, queueVars
  <2>2. rec'[r].pc \in {"done", "post"}
    BY <1>0, <1>12 DEF ReleaseReserve, ForgetReserve, PostProcess, CompletedReason, At
  <2> QED BY <2>1, <2>2 DEF MovesOn, Owns, Finishes
<1>13. ~Rollback(r) /\ ~ClearClaim(r)
  BY <1>2 DEF Rollback, ClearClaim
<1> QED
  BY <1>4, <1>5, <1>6, <1>7, <1>8, <1>9, <1>10, <1>11, <1>12, <1>13 DEF Recorder

\* What was opened stays until it is renamed: nobody else has that file.
LEMMA PartsKept ==
  ASSUME TypeOK, FilesWork, HeldOnce, NEW r \in Recorders, Recorder(r)
  PROVE  PartsThere'
<1> DEFINE p == ProgramOf[r]
           Opened == {"copy", "stopCheck", "abortCheck", "claim", "promote"}
<1>0. /\ p \in Programs /\ part \in [Programs -> {"absent", "empty", "data"}]
      /\ rec \in [Recorders -> Goroutine] /\ rec[r] \in Goroutine
  BY ProgramOfAssumption DEF TypeOK, OperatorTypeOK
<1>1. \A s \in Recorders \ {r} : rec'[s] = rec[s]
  BY RecorderTouches
<1>2. \A s \in Recorders \ {r} : rec[s].pc \in Opened /\ ProgramOf[s] = p => ~Holds(r)
  BY DEF HeldOnce, RowsHeld, Holds, Owns, Finishes
<1>3. \A s \in Recorders : rec[s].pc \in Opened => part[ProgramOf[s]] # "absent"
  BY DEF HeldOnce, PartsThere
<1>4. CASE UNCHANGED part /\ (rec'[r].pc \in Opened => rec[r].pc \in Opened)
  BY <1>1, <1>3, <1>4 DEF PartsThere
<1>5. CASE part' = [part EXCEPT ![p] = "empty"] \/ part' = [part EXCEPT ![p] = "data"]
  <2> SUFFICES ASSUME NEW s \in Recorders, rec'[s].pc \in Opened
               PROVE  part'[ProgramOf[s]] # "absent"
    BY DEF PartsThere
  <2>1. ProgramOf[s] \in Programs /\ (ProgramOf[s] # p => rec'[s] = rec[s])
    BY <1>1, ProgramOfAssumption
  <2> QED BY <1>0, <1>3, <1>5, <2>1
<1>6. CASE part' = [part EXCEPT ![p] = "absent"] /\ Holds(r) /\ rec'[r].pc \notin Opened
  <2> SUFFICES ASSUME NEW s \in Recorders, rec'[s].pc \in Opened
               PROVE  part'[ProgramOf[s]] # "absent"
    BY DEF PartsThere
  <2>1. s # r /\ rec[s].pc \in Opened /\ ProgramOf[s] \in Programs
    BY <1>1, <1>6, ProgramOfAssumption
  <2>2. ProgramOf[s] # p
    BY <1>2, <1>6, <2>1
  <2> QED BY <1>0, <1>3, <1>6, <2>1, <2>2
<1>7. CASE CreatePart(r)
  <2>1. part' = [part EXCEPT ![p] = "empty"]
    BY <1>7, FilesDoNotFail DEF CreatePart
  <2> QED BY <1>5, <2>1
<1>8. CASE CopyData(r)
  BY <1>5, <1>8 DEF CopyData
<1>9. CASE Promote(r)
  <2>1. rec'[r].pc = "complete" /\ Holds(r) /\ part' = [part EXCEPT ![p] = "absent"]
    BY <1>0, <1>3, <1>9, FilesDoNotFail DEF Promote, Goto, Goroutine, Holds, Finishes
  <2> QED BY <1>6, <2>1
<1>10. CASE UnlinkPart(r)
  <2>1. rec'[r].pc = "remove" /\ Holds(r) /\ part' = [part EXCEPT ![p] = "absent"]
    BY <1>0, <1>10, FilesDoNotFail
    DEF UnlinkPart, DropPart, Goto, Goroutine, Holds, Owns
  <2> QED BY <1>6, <2>1
<1>11. CASE \/ OpenStream(r) \/ MarkRecording(r) \/ RemoveFailed(r) \/ ReleaseReserve(r)
            \/ CompleteRecording(r) \/ ForgetReserve(r) \/ PostProcess(r)
  <2>1. UNCHANGED part
    BY <1>11 DEF OpenStream, MarkRecording, RemoveFailed, ReleaseReserve,
       CompleteRecording, ForgetReserve, PostProcess, fileVars
  <2>2. rec'[r].pc \notin Opened
    BY <1>0, <1>11 DEF OpenStream, MarkRecording, RemoveFailed, ReleaseReserve,
       CompleteRecording, ForgetReserve, PostProcess, Goto, At, CompletedReason, Goroutine
  <2> QED BY <1>4, <2>1, <2>2
<1>12. CASE CopyEnds(r) \/ StopCheck(r) \/ AbortCheck(r) \/ Claim(r)
  <2>1. UNCHANGED part /\ rec[r].pc \in Opened
    BY <1>12 DEF CopyEnds, StopCheck, AbortCheck, Claim, fileVars
  <2> QED BY <1>4, <2>1
<1>13. CASE Watch(r) \/ SetDeadline(r) \/ EndReached(r)
  <2>1. UNCHANGED part /\ rec'[r].pc = rec[r].pc
    BY <1>0, <1>13 DEF Watch, SetDeadline, EndReached, fileVars, Goroutine
  <2> QED BY <1>4, <2>1
<1>14. ~Rollback(r) /\ ~ClearClaim(r)
  BY DEF HeldOnce, NoRollback, Rollback, ClearClaim
<1> QED
  BY <1>7, <1>8, <1>9, <1>10, <1>11, <1>12, <1>13, <1>14 DEF Recorder

\* A goroutine's step keeps every row with the one that has it.
LEMMA HeldByRecorder ==
  ASSUME TypeOK, LoopMatchesProcess, FilesWork, HeldOnce,
         NEW r \in Recorders, Recorder(r), UNCHANGED userVars
  PROVE  HeldOnce'
<1> DEFINE p == ProgramOf[r]
<1>0. /\ p \in Programs /\ None \notin Row
      /\ recording \in [Programs -> Row \cup {None}]
      /\ recorded \in [Programs -> AbortMark \cup {"absent"}]
      /\ removals \subseteq Programs
      /\ \A s \in Recorders : ProgramOf[s] \in Programs
  BY ProgramOfAssumption, NoneAssumption DEF TypeOK, OperatorTypeOK, StoreTypeOK
<1>1. /\ GoesOn(r) \/ TakesClaim(r) \/ GivesUp(r) \/ Completes(r) \/ MovesOn(r)
      /\ rec'[r].pc \notin {"rollback", "clear"} /\ UNCHANGED rollbacks
  BY GoroutineStep
<1>2. /\ \A s \in Recorders \ {r} : rec'[s] = rec[s]
      /\ \A q \in Programs \ {p} : recording'[q] = recording[q]
  BY RecorderTouches
<1>3. UNCHANGED <<loop, todo, pending, handler>>
  BY RecorderRest DEF RecorderFrame, loopVars, snapVars, TypeOK, OperatorTypeOK, userVars
<1>4. \A q \in Programs \ {p} : SameRow(q)
  <2>1. \A q \in Programs \ {p} : recorded'[q] = recorded[q]
    BY <1>0, <1>1 DEF GoesOn, TakesClaim, GivesUp, Completes, MovesOn, Complete
  <2> QED
    BY <1>2, <2>1 DEF SameRow, IsRecording, Claimed, PendingCompletion, IsRecorded
<1>5. \A s \in Recorders \ {r} : /\ Owns(s)' <=> Owns(s)
                                 /\ Finishes(s)' <=> Finishes(s)
                                 /\ Holds(s)' <=> Holds(s)
  BY <1>2 DEF Owns, Finishes, Holds
<1>6. Holds(r)' => Holds(r)
  BY <1>1 DEF GoesOn, TakesClaim, GivesUp, Completes, MovesOn, Holds, Owns, Finishes
<1>7. \A s \in Recorders \ {r} : ProgramOf[s] = p /\ Holds(r) => ~Owns(s) /\ ~Finishes(s)
  BY DEF HeldOnce, RowsHeld, Holds
<1>8. /\ IsRecorded(p) => ~IsRecording(p)
      /\ Claimed(p) => PendingCompletion(p)
      /\ Owns(r) => Open(p)
      /\ Finishes(r) => PendingCompletion(p) \/ IsRecorded(p)
      /\ p \in removals => Open(p) /\ Unowned(p)
      /\ Starting(p) => Open(p) /\ Unowned(p) /\ p \notin removals
  BY <1>0 DEF HeldOnce, RowsHeld, RowsApart, QueuesApart
<1>9. /\ GoesOn(r) => Open(p)' /\ (IsRecorded(p)' <=> IsRecorded(p))
      /\ TakesClaim(r) => PendingCompletion(p)' /\ (IsRecorded(p)' <=> IsRecorded(p))
      /\ GivesUp(r) => /\ IsRecorded(p)' <=> IsRecorded(p)
                       /\ \/ ~IsRecording(p)' /\ UNCHANGED removals
                          \/ SameRow(p) /\ removals' = removals \cup {p}
      /\ Completes(r) => ~IsRecording(p)' /\ IsRecorded(p)'
      /\ MovesOn(r) => SameRow(p)
  <2>1. GoesOn(r) => Open(p)' /\ (IsRecorded(p)' <=> IsRecorded(p))
    BY DEF GoesOn, IsRecorded
  <2>2. TakesClaim(r) => PendingCompletion(p)' /\ (IsRecorded(p)' <=> IsRecorded(p))
    BY DEF TakesClaim, IsRecorded
  <2>3. GivesUp(r) => /\ IsRecorded(p)' <=> IsRecorded(p)
                      /\ \/ ~IsRecording(p)' /\ UNCHANGED removals
                         \/ SameRow(p) /\ removals' = removals \cup {p}
    BY <1>0 DEF GivesUp, IsRecorded, RemoveRecording, QueueRemoval, IsRecording, SameRow,
       Claimed, PendingCompletion
  <2>4. Completes(r) => ~IsRecording(p)' /\ IsRecorded(p)'
    <3>1. IsRecording(p) => recording[p].abort \in AbortMark
      BY <1>0 DEF IsRecording, Row
    <3> QED BY <1>0, <3>1 DEF Completes, Complete, IsRecording, IsRecorded, AbortMark
  <2>5. MovesOn(r) => SameRow(p)
    BY DEF MovesOn, SameRow, IsRecording, IsRecorded, Claimed, PendingCompletion
  <2> QED BY <2>1, <2>2, <2>3, <2>4, <2>5
<1>10. \A s \in Recorders \ {r} :
          ProgramOf[s] = p /\ (Owns(s) \/ Finishes(s)) => MovesOn(r) /\ SameRow(p)
  BY <1>1, <1>7, <1>9 DEF GoesOn, TakesClaim, GivesUp, Completes, Holds
<1>11. RowsHeld'
  <2>1. ASSUME NEW s \in Recorders
        PROVE  /\ Owns(s)' => Open(ProgramOf[s])'
               /\ Finishes(s)' => PendingCompletion(ProgramOf[s])' \/ IsRecorded(ProgramOf[s])'
    <3>1. CASE s = r
      <4>1. Owns(r)' => GoesOn(r)
        BY <1>1 DEF TakesClaim, GivesUp, Completes, MovesOn, Holds, Owns, Finishes
      <4>2. Finishes(r)' => TakesClaim(r) \/ (MovesOn(r) /\ Finishes(r))
        BY <1>1 DEF GoesOn, GivesUp, Completes, MovesOn, Holds, Owns, Finishes
      <4> QED BY <1>8, <1>9, <3>1, <4>1, <4>2 DEF SameRow
    <3>2. CASE s # r /\ ProgramOf[s] = p
      <4>1. Owns(s)' => Open(p) /\ SameRow(p)
        BY <1>5, <1>10, <3>2 DEF HeldOnce, RowsHeld
      <4>2. Finishes(s)' => (PendingCompletion(p) \/ IsRecorded(p)) /\ SameRow(p)
        BY <1>5, <1>10, <3>2 DEF HeldOnce, RowsHeld
      <4> QED BY <3>2, <4>1, <4>2 DEF SameRow, Open
    <3>3. CASE s # r /\ ProgramOf[s] # p
      <4>1. SameRow(ProgramOf[s])
        BY <1>0, <1>4, <3>3
      <4> QED BY <1>5, <3>3, <4>1 DEF HeldOnce, RowsHeld, SameRow, Open
    <3> QED BY <3>1, <3>2, <3>3
  <2>2. ASSUME NEW s \in Recorders, NEW t \in Recorders, Holds(s)', Holds(t)',
               ProgramOf[s] = ProgramOf[t]
        PROVE  s = t
    <3>1. Holds(s) /\ Holds(t)
      BY <1>5, <1>6, <2>2
    <3> QED BY <2>2, <3>1 DEF HeldOnce, RowsHeld
  <2> QED BY <2>1, <2>2 DEF RowsHeld
<1>12. RowsApart'
  <2> SUFFICES ASSUME NEW q \in Programs
               PROVE  /\ IsRecorded(q)' => ~IsRecording(q)'
                      /\ Claimed(q)' => PendingCompletion(q)'
    BY DEF RowsApart
  <2>1. CASE q # p
    BY <1>4, <2>1 DEF HeldOnce, RowsApart, SameRow
  <2>2. CASE GoesOn(r) \/ TakesClaim(r)
    <3>1. ~IsRecorded(p)'
      BY <1>8, <1>9, <2>2 DEF GoesOn, TakesClaim, Open
    <3> QED BY <1>9, <2>1, <2>2, <3>1 DEF Open
  <2>3. CASE GivesUp(r) \/ Completes(r)
    BY <1>8, <1>9, <2>1, <2>3 DEF SameRow, Claimed
  <2>4. CASE MovesOn(r)
    BY <1>8, <1>9, <2>1, <2>4 DEF SameRow
  <2> QED BY <1>1, <2>2, <2>3, <2>4
<1>13. NoRollback'
  BY <1>1, <1>2 DEF HeldOnce, NoRollback
<1>14. PartsThere'
  BY PartsKept
<1>15. ASSUME Open(p), Unowned(p)
       PROVE  Open(p)' /\ Unowned(p)' /\ UNCHANGED removals
  <2>1. MovesOn(r)
    <3>1. ~Owns(r) /\ ~PendingCompletion(p) /\ ~IsRecorded(p)
      BY <1>0, <1>8, <1>15 DEF Unowned, Open, PendingCompletion
    <3> QED BY <1>1, <1>8, <3>1 DEF GoesOn, TakesClaim, GivesUp, Completes
  <2>2. ~Owns(r)' /\ UNCHANGED removals /\ SameRow(p)
    BY <1>9, <2>1 DEF MovesOn
  <2> QED BY <1>5, <1>15, <2>2 DEF Unowned, Open, SameRow
<1>16. \A q \in Programs \ {p} : /\ Open(q)' <=> Open(q)
                                 /\ Unowned(q)' <=> Unowned(q)
                                 /\ q \in removals' <=> q \in removals
  <2>1. \A q \in Programs \ {p} : Open(q)' <=> Open(q)
    BY <1>4 DEF SameRow, Open
  <2>2. \A q \in Programs \ {p} : Unowned(q)' <=> Unowned(q)
    BY <1>5 DEF Unowned
  <2>3. \A q \in Programs \ {p} : q \in removals' <=> q \in removals
    BY <1>1 DEF GoesOn, TakesClaim, GivesUp, Completes, MovesOn, QueueRemoval
  <2> QED BY <2>1, <2>2, <2>3
<1>17. QueuesApart'
  <2>1. removals' \subseteq Programs
    BY <1>0, <1>1 DEF GoesOn, TakesClaim, GivesUp, Completes, MovesOn, QueueRemoval
  <2>2. p \in removals' => Open(p)' /\ Unowned(p)'
    <3>1. CASE p \in removals
      BY <1>8, <1>15, <3>1
    <3>2. CASE p \notin removals /\ p \in removals'
      <4>1. GivesUp(r) /\ SameRow(p)
        BY <1>1, <1>9, <3>2 DEF GoesOn, TakesClaim, Completes, MovesOn
      <4> QED
        BY <1>5, <1>7, <1>8, <4>1 DEF GivesUp, Holds, Unowned, SameRow, Open
    <3> QED BY <3>1, <3>2
  <2>3. \A q \in Programs : Starting(q)' <=> Starting(q)
    BY <1>3 DEF Starting
  <2>4. Starting(p)' => Open(p)' /\ Unowned(p)' /\ p \notin removals'
    BY <1>0, <1>8, <1>15, <2>3
  <2>5. proc' \notin {"down", "init"}
    BY RecorderRest, RecorderTouches
    DEF RecorderFrame, LoopMatchesProcess, TypeOK, OperatorTypeOK
  <2> QED
    BY <1>0, <1>16, <2>1, <2>2, <2>3, <2>4, <2>5 DEF HeldOnce, QueuesApart
<1>18. ListsTrue' /\ NobodyDeletes'
  <2>1. removals \subseteq removals'
    BY RecorderTouches
  <2>2. loop = "completions" => \A q \in todo : PendingCompletion(q)' \/ IsRecorded(q)'
    <3> SUFFICES ASSUME loop = "completions", NEW q \in todo
                 PROVE  PendingCompletion(q)' \/ IsRecorded(q)'
      OBVIOUS
    <3>1. q \in Programs /\ (PendingCompletion(q) \/ IsRecorded(q))
      BY DEF HeldOnce, ListsTrue, TypeOK, OperatorTypeOK
    <3>2. CASE q # p
      BY <1>4, <3>1, <3>2 DEF SameRow
    <3>3. CASE q = p /\ ~Owns(r)
      BY <1>1, <1>9, <3>1, <3>3 DEF GoesOn, TakesClaim, GivesUp, SameRow
    <3>4. q = p => ~Owns(r)
      BY <1>8, <3>1 DEF Open, PendingCompletion
    <3> QED BY <3>2, <3>3, <3>4
  <2>3. loop # "initWrite"
    BY RecorderTouches DEF LoopMatchesProcess
  <2> QED
    BY <1>3, <2>1, <2>2, <2>3 DEF HeldOnce, ListsTrue, NobodyDeletes
<1> QED BY <1>11, <1>12, <1>13, <1>14, <1>17, <1>18 DEF HeldOnce

----------------------------------------------------------------------------
(* The loop, the process and the others.                                   *)

\* A pass that changes neither rows nor goroutines nor queues.
LEMMA HeldByReads ==
  ASSUME TypeOK, NothingDeleted, HeldOnce, UNCHANGED <<recording, recorded, handler>>,
         \/ Tick \/ ListCompletions \/ ReadRecordingIDs \/ ReadRecordedIDs
         \/ ListCleanup \/ ReadDue \/ ReadSkipped \/ CheckSpace \/ EndTick
         \/ LoopFails("store") \/ LoopFails("file")
         \/ \E q \in Programs : RetryDelete(q) \/ CleanupReserve(q) \/ CheckSkipped(q)
         \/ Advance("removals", "rollbacks", {p \in Programs : rollbacks[p] # None})
         \/ Advance("rollbacks", "listCompletions", {})
         \/ Advance("completions", "deletes", deletes)
         \/ Advance("completions", "initRead", {})
         \/ Advance("deletes", "readRecording", {})
         \/ Advance("cleanup", "readDue", {})
         \/ Advance("skipped", "readSpace", {})
         \/ Advance("lowStop", "start", ToStart)
         \/ Advance("start", "spawn", pending)
  PROVE  HeldOnce'
<1>1. SameRows
  BY DEF SameRows, SameRow, IsRecording, Claimed, PendingCompletion, IsRecorded
<1>2. UNCHANGED <<rec, removals, rollbacks, part>>
  BY DEF Tick, ListCompletions, ReadRecordingIDs, ReadRecordedIDs, ListCleanup, ReadDue,
     ReadSkipped, CheckSpace, EndTick, LoopFails, RetryDelete, CleanupReserve,
     CheckSkipped, Advance, LoopFrame, fileVars, queueVars
<1>3. proc' \in {proc, "failed"}
  BY DEF Tick, ListCompletions, ReadRecordingIDs, ReadRecordedIDs, ListCleanup, ReadDue,
     ReadSkipped, CheckSpace, EndTick, LoopFails, RetryDelete, CleanupReserve,
     CheckSkipped, Advance, LoopFrame
<1>4. proc' \in {"down", "init"} => removals = {}
  BY <1>3 DEF HeldOnce, QueuesApart
<1>5. ListsTrue' /\ \A p \in Programs : Starting(p)' => Starting(p)
  <2> USE DEF ListsTrue, Starting
  <2>0. /\ ListsTrue /\ \A p \in Programs : rollbacks[p] = None
        /\ \A p \in Programs : PendingCompletion(p)' <=> PendingCompletion(p)
        /\ \A p \in Programs : IsRecorded(p)' <=> IsRecorded(p)
        /\ todo \subseteq Programs
    BY <1>1 DEF HeldOnce, NoRollback, SameRows, SameRow, TypeOK, OperatorTypeOK
  <2>1. CASE LoopFails("store") \/ LoopFails("file") \/ EndTick
    BY <2>1 DEF LoopFails, EndTick, Enter
  <2>2. CASE Tick \/ ReadRecordingIDs \/ ReadRecordedIDs
    BY <1>2, <2>0, <2>1, <2>2 DEF Tick, ReadRecordingIDs, ReadRecordedIDs, Enter
  <2>3. CASE ListCleanup \/ ReadDue \/ ReadSkipped
    BY <2>0, <2>1, <2>3 DEF ListCleanup, ReadDue, ReadSkipped, Enter, snapVars
  <2>4. CASE ListCompletions
    BY <2>0, <2>4 DEF ListCompletions, Enter, snapVars
  <2>5. CASE CheckSpace
    BY <2>0, <2>1, <2>5 DEF CheckSpace, Enter, snapVars, NothingDeleted
  <2>6. ASSUME NEW q \in Programs, RetryDelete(q) \/ CleanupReserve(q) \/ CheckSkipped(q)
        PROVE  ListsTrue' /\ \A p \in Programs : Starting(p)' => Starting(p)
    BY <2>0, <2>1, <2>6 DEF RetryDelete, CleanupReserve, CheckSkipped, Enter, snapVars
  <2>7. CASE \/ Advance("removals", "rollbacks", {p \in Programs : rollbacks[p] # None})
             \/ Advance("rollbacks", "listCompletions", {})
             \/ Advance("completions", "deletes", deletes)
             \/ Advance("completions", "initRead", {})
             \/ Advance("deletes", "readRecording", {})
    BY <2>0, <2>7 DEF Advance, Enter, snapVars
  <2>8. CASE \/ Advance("cleanup", "readDue", {})
             \/ Advance("skipped", "readSpace", {})
             \/ Advance("lowStop", "start", ToStart)
             \/ Advance("start", "spawn", pending)
    BY <2>0, <2>8 DEF Advance, Enter, snapVars
  <2> QED BY <2>1, <2>2, <2>3, <2>4, <2>5, <2>6, <2>7, <2>8
<1>6. NobodyDeletes' /\ removals \subseteq Programs
  BY DEF HeldOnce, NobodyDeletes, TypeOK, OperatorTypeOK
<1> QED BY <1>1, <1>2, <1>4, <1>5, <1>6, QuietStep

\* What a step of the loop that changes rows keeps.
LEMMA HeldFrom ==
  ASSUME HeldOnce, RowsHeld', RowsApart', QueuesApart', ListsTrue',
         UNCHANGED <<rollbacks, part, handler>>,
         \A r \in Recorders : rec'[r].pc \in {rec[r].pc, "stream"}
  PROVE  HeldOnce'
BY DEF HeldOnce, NoRollback, PartsThere, NobodyDeletes

\* A queued removal takes the row of the goroutine that queued it.
LEMMA HeldByRemovals ==
  ASSUME TypeOK, HeldOnce, NEW q \in Programs, RetryRemoval(q), UNCHANGED handler
  PROVE  HeldOnce'
<1>0. /\ loop = "removals" /\ loop' = "removals" /\ todo' = todo \ {q} /\ pending' = pending
      /\ UNCHANGED <<recorded, rec, rollbacks, part, proc>>
      /\ q \in removals /\ todo \subseteq removals /\ pending = {}
  BY DEF RetryRemoval, Enter, LoopFrame, snapVars, fileVars, HeldOnce, ListsTrue
<1>1. CASE UNCHANGED <<recording, removals>>
  <2>1. SameRows
    BY <1>0, <1>1 DEF SameRows, SameRow, IsRecording, Claimed, PendingCompletion, IsRecorded
  <2>2. ListsTrue' /\ NobodyDeletes' /\ \A p \in Programs : Starting(p)' => Starting(p)
    BY <1>0, <1>1 DEF HeldOnce, ListsTrue, NobodyDeletes, Starting
  <2> QED
    BY <1>0, <1>1, <2>1, <2>2, QuietStep DEF HeldOnce, QueuesApart, TypeOK, OperatorTypeOK
<1>2. CASE RemoveRecording(q) /\ removals' = removals \ {q}
  <2>1. /\ \A p \in Programs \ {q} : SameRow(p)
        /\ ~IsRecording(q)' /\ (IsRecorded(q)' <=> IsRecorded(q))
    BY <1>0, <1>2 DEF RemoveRecording, SameRow, IsRecording, Claimed, PendingCompletion,
       IsRecorded, TypeOK, OperatorTypeOK, StoreTypeOK
  <2>2. Open(q) /\ Unowned(q) /\ ~IsRecorded(q)
    BY <1>0 DEF HeldOnce, QueuesApart, RowsApart, Open
  <2>3. \A r \in Recorders : /\ Owns(r)' <=> Owns(r)
                             /\ Finishes(r)' <=> Finishes(r)
                             /\ Holds(r)' <=> Holds(r)
                             /\ ProgramOf[r] \in Programs
                             /\ ProgramOf[r] = q => ~Owns(r) /\ ~Finishes(r)
    <3>1. \A r \in Recorders : ProgramOf[r] = q => ~Owns(r) /\ ~Finishes(r)
      BY <2>2 DEF HeldOnce, RowsHeld, Unowned, Open, PendingCompletion
    <3> QED BY <1>0, <3>1, ProgramOfAssumption DEF Owns, Finishes, Holds
  <2>4. RowsHeld'
    BY <2>1, <2>3 DEF HeldOnce, RowsHeld, SameRow, Open
  <2>5. RowsApart'
    BY <2>1 DEF HeldOnce, RowsApart, SameRow, Claimed
  <2>6. QueuesApart'
    <3>1. removals \subseteq Programs /\ \A p \in Programs : ~Starting(p)'
      BY <1>0 DEF Starting, TypeOK, OperatorTypeOK
    <3> QED
      BY <1>0, <1>2, <2>1, <2>3, <3>1
      DEF HeldOnce, QueuesApart, SameRow, Open, Unowned
  <2>7. ListsTrue'
    BY <1>0, <1>2 DEF ListsTrue
  <2>8. \A r \in Recorders : rec'[r].pc \in {rec[r].pc, "stream"}
    BY <1>0
  <2> QED BY <1>0, <2>4, <2>5, <2>6, <2>7, <2>8, HeldFrom
<1> QED BY <1>1, <1>2 DEF RetryRemoval

\* A pending completion moves the row to the other collection.
LEMMA HeldByCompletions ==
  ASSUME TypeOK, HeldOnce, NEW q \in Programs, RetryCompletion(q), UNCHANGED handler
  PROVE  HeldOnce'
<1>0. /\ loop = "completions" /\ loop' = "completions" /\ todo' = todo \ {q}
      /\ pending' = pending /\ UNCHANGED <<rec, removals, rollbacks, part, proc>>
      /\ pending = {} /\ (PendingCompletion(q) \/ IsRecorded(q)) /\ todo \subseteq Programs
  BY DEF RetryCompletion, Enter, LoopFrame, snapVars, fileVars, queueVars, HeldOnce,
     ListsTrue, TypeOK, OperatorTypeOK
<1>1. CASE UNCHANGED <<recording, recorded>>
  <2>1. SameRows
    BY <1>1 DEF SameRows, SameRow, IsRecording, Claimed, PendingCompletion, IsRecorded
  <2>2. ListsTrue' /\ NobodyDeletes' /\ \A p \in Programs : Starting(p)' => Starting(p)
    BY <1>0, <2>1 DEF HeldOnce, ListsTrue, NobodyDeletes, Starting, SameRows, SameRow
  <2> QED
    BY <1>0, <2>1, <2>2, QuietStep DEF HeldOnce, QueuesApart, TypeOK, OperatorTypeOK
<1>2. CASE Complete(q)
  <2>1. \A p \in Programs \ {q} : SameRow(p)
    BY <1>2 DEF Complete, SameRow, IsRecording, Claimed, PendingCompletion, IsRecorded,
       TypeOK, OperatorTypeOK, StoreTypeOK
  <2>2. ~IsRecording(q)' /\ IsRecorded(q)'
    <3>1. recording[q] \in Row /\ recording[q].abort \in AbortMark
      BY <1>2 DEF Complete, IsRecording, TypeOK, OperatorTypeOK, StoreTypeOK, Row
    <3> QED
      BY <1>2, <3>1 DEF Complete, IsRecording, IsRecorded, AbortMark, TypeOK,
         OperatorTypeOK, StoreTypeOK
  <2>3. PendingCompletion(q) /\ ~Open(q)
    BY <1>0, <1>2 DEF Complete, HeldOnce, RowsApart, PendingCompletion, Open
  <2>4. \A r \in Recorders : /\ Owns(r)' <=> Owns(r)
                             /\ Finishes(r)' <=> Finishes(r)
                             /\ Holds(r)' <=> Holds(r)
                             /\ ProgramOf[r] \in Programs
                             /\ ProgramOf[r] = q => ~Owns(r)
    <3>1. \A r \in Recorders : ProgramOf[r] = q => ~Owns(r)
      BY <2>3 DEF HeldOnce, RowsHeld
    <3> QED BY <1>0, <3>1, ProgramOfAssumption DEF Owns, Finishes, Holds
  <2>5. RowsHeld'
    BY <2>1, <2>2, <2>4 DEF HeldOnce, RowsHeld, SameRow, Open
  <2>6. RowsApart'
    BY <2>1, <2>2 DEF HeldOnce, RowsApart, SameRow, Claimed
  <2>7. QueuesApart'
    <3>1. removals \subseteq Programs /\ q \notin removals /\ \A p \in Programs : ~Starting(p)'
      BY <1>0, <2>3 DEF Starting, TypeOK, OperatorTypeOK, HeldOnce, QueuesApart
    <3> QED
      BY <1>0, <2>1, <2>4, <3>1 DEF HeldOnce, QueuesApart, SameRow, Open, Unowned
  <2>8. ListsTrue'
    BY <1>0, <2>1 DEF HeldOnce, ListsTrue, SameRow
  <2> QED BY <1>0, <2>5, <2>6, <2>7, <2>8, HeldFrom
<1> QED BY <1>1, <1>2 DEF RetryCompletion

\* A mark of the system leaves the row to the one that has it.
LEMMA HeldByMarks ==
  ASSUME TypeOK, NothingDeleted, HeldOnce, NEW q \in Programs,
         AbortSkipped(q) \/ LowSpaceStop(q), UNCHANGED handler
  PROVE  HeldOnce'
<1>1. CASE LoopFails("store")
  BY <1>1, HeldByReads DEF LoopFails, storeVars
<1>2. CASE ~LoopFails("store")
  <2>1. /\ SetAbort(q) /\ loop \in {"setAbort", "lowStop"} /\ loop' \in {"skipped", "lowStop"}
        /\ pending' = {} /\ UNCHANGED <<recorded, rec, removals, rollbacks, part, proc>>
    BY <1>2 DEF AbortSkipped, LowSpaceStop, Enter, LoopFrame, snapVars, fileVars,
       queueVars, HeldOnce, ListsTrue
  <2>2. SameRows
    <3>1. \A p \in Programs :
             \/ recording'[p] = recording[p]
             \/ /\ IsRecording(p) /\ ~Claimed(p)
                /\ \E a \in {"system", "user"} :
                      recording'[p] = [recording[p] EXCEPT !.abort = a]
      BY <2>1 DEF SetAbort, TypeOK, OperatorTypeOK, StoreTypeOK
    <3> QED BY <2>1, <3>1, MarksLeaveRows
  <2>3. ListsTrue' /\ NobodyDeletes' /\ \A p \in Programs : ~Starting(p)'
    BY <2>1 DEF HeldOnce, ListsTrue, NobodyDeletes, Starting
  <2> QED
    BY <2>1, <2>2, <2>3, QuietStep DEF HeldOnce, QueuesApart, TypeOK, OperatorTypeOK
<1> QED BY <1>1, <1>2

\* The row of a new recording is nobody else's ...
LEMMA HeldByStart ==
  ASSUME TypeOK, NothingDeleted, StartIsFresh, HeldOnce, NEW q \in Programs,
         StartRecording(q), UNCHANGED handler
  PROVE  HeldOnce'
<1>1. CASE LoopFails("store")
  BY <1>1, HeldByReads DEF LoopFails, storeVars
<1>2. CASE ~LoopFails("store")
  <2>0. /\ UpsertRecording(q) /\ loop = "start" /\ loop' = "start" /\ pending' = pending \cup {q}
        /\ UNCHANGED <<recorded, rec, removals, rollbacks, part, proc>>
        /\ ~IsRecording(q) /\ ~IsRecorded(q)
    BY <1>2 DEF StartRecording, Enter, LoopFrame, fileVars, queueVars, StartIsFresh
  <2>1. \A p \in Programs \ {q} : SameRow(p)
    BY <2>0 DEF UpsertRecording, SameRow, IsRecording, Claimed, PendingCompletion,
       IsRecorded, TypeOK, OperatorTypeOK, StoreTypeOK
  <2>2. Open(q)' /\ ~IsRecorded(q)'
    <3>1. recording'[q] = FreshRow
      BY <2>0 DEF UpsertRecording, TypeOK, OperatorTypeOK, StoreTypeOK
    <3>2. FreshRow \in Row /\ FreshRow.claim = None
      BY DEF FreshRow, Row, AbortMark
    <3> QED
      BY <2>0, <3>1, <3>2, NoneAssumption DEF Open, IsRecording, Claimed, IsRecorded
  <2>3. \A r \in Recorders : /\ Owns(r)' <=> Owns(r)
                             /\ Finishes(r)' <=> Finishes(r)
                             /\ Holds(r)' <=> Holds(r)
                             /\ ProgramOf[r] \in Programs
                             /\ ProgramOf[r] = q => ~Owns(r) /\ ~Finishes(r)
    <3>1. \A r \in Recorders : ProgramOf[r] = q => ~Owns(r) /\ ~Finishes(r)
      BY <2>0 DEF HeldOnce, RowsHeld, Open, PendingCompletion, Claimed
    <3> QED BY <2>0, <3>1, ProgramOfAssumption DEF Owns, Finishes, Holds
  <2>4. RowsHeld'
    BY <2>1, <2>3 DEF HeldOnce, RowsHeld, SameRow, Open
  <2>5. RowsApart'
    BY <2>1, <2>2 DEF HeldOnce, RowsApart, SameRow, Open
  <2>6. QueuesApart'
    <3>1. removals \subseteq Programs /\ q \notin removals
      BY <2>0 DEF TypeOK, OperatorTypeOK, HeldOnce, QueuesApart, Open
    <3>2. \A p \in Programs \ {q} : (Open(p)' <=> Open(p)) /\ (Unowned(p)' <=> Unowned(p))
      BY <2>1, <2>3 DEF SameRow, Open, Unowned
    <3>3. Unowned(q)'
      BY <2>3 DEF Unowned
    <3>4. \A p \in Programs \ {q} : Starting(p)' => Starting(p)
      BY <2>0 DEF Starting
    <3>5. \A p \in removals' : Open(p)' /\ Unowned(p)'
      BY <2>0, <3>1, <3>2 DEF HeldOnce, QueuesApart
    <3>6. \A p \in Programs : Starting(p)' => Open(p)' /\ Unowned(p)' /\ p \notin removals'
      BY <2>0, <2>2, <3>1, <3>2, <3>3, <3>4 DEF HeldOnce, QueuesApart
    <3> QED BY <2>0, <3>5, <3>6 DEF HeldOnce, QueuesApart
  <2>7. ListsTrue'
    BY <2>0 DEF ListsTrue
  <2> QED BY <2>0, <2>4, <2>5, <2>6, <2>7, HeldFrom
<1> QED BY <1>1, <1>2

\* ... until its goroutine is started.
LEMMA HeldBySpawn ==
  ASSUME TypeOK, HeldOnce, NEW r \in Recorders, Spawn(r), UNCHANGED handler
  PROVE  HeldOnce'
<1> DEFINE q == ProgramOf[r]
<1>0. /\ loop = "spawn" /\ loop' = "spawn" /\ q \in todo /\ todo' = todo \ {q}
      /\ UNCHANGED <<recording, recorded, removals, rollbacks, part, proc>>
      /\ rec' = [rec EXCEPT ![r].pc = "stream"] /\ rec \in [Recorders -> Goroutine]
      /\ q \in Programs
  BY ProgramOfAssumption
  DEF Spawn, Enter, Goto, storeVars, fileVars, queueVars, TypeOK, OperatorTypeOK
<1>1. SameRows
  BY <1>0 DEF SameRows, SameRow, IsRecording, Claimed, PendingCompletion, IsRecorded
<1>2. Open(q) /\ Unowned(q) /\ q \notin removals
  BY <1>0 DEF HeldOnce, QueuesApart, Starting
<1>3. Owns(r)' /\ ~Finishes(r)' /\ rec'[r].pc = "stream"
  BY <1>0 DEF Owns, Finishes, Goroutine
<1>4. \A s \in Recorders \ {r} : /\ Owns(s)' <=> Owns(s)
                                 /\ Finishes(s)' <=> Finishes(s)
                                 /\ Holds(s)' <=> Holds(s)
                                 /\ rec'[s].pc = rec[s].pc
                                 /\ ProgramOf[s] \in Programs
  BY <1>0, ProgramOfAssumption DEF Owns, Finishes, Holds
<1>5. \A s \in Recorders : ProgramOf[s] = q => ~Holds(s)
  <2>1. ~PendingCompletion(q) /\ ~IsRecorded(q)
    BY <1>0, <1>2 DEF HeldOnce, RowsApart, Open, PendingCompletion
  <2> QED BY <1>2, <2>1 DEF HeldOnce, RowsHeld, Unowned, Holds
<1>6. RowsHeld'
  <2>1. \A s \in Recorders : Owns(s)' => Open(ProgramOf[s])'
    BY <1>0, <1>1, <1>2, <1>4 DEF HeldOnce, RowsHeld, SameRows, SameRow, Open
  <2>2. \A s \in Recorders : Finishes(s)' =>
           PendingCompletion(ProgramOf[s])' \/ IsRecorded(ProgramOf[s])'
    BY <1>1, <1>3, <1>4 DEF HeldOnce, RowsHeld, SameRows, SameRow
  <2>3. \A s, t \in Recorders :
           Holds(s)' /\ Holds(t)' /\ ProgramOf[s] = ProgramOf[t] => s = t
    <3> SUFFICES ASSUME NEW s \in Recorders, NEW t \in Recorders, Holds(s)', Holds(t)',
                        ProgramOf[s] = ProgramOf[t]
                 PROVE  s = t
      OBVIOUS
    <3>1. CASE s # r /\ t # r
      BY <1>4, <3>1 DEF HeldOnce, RowsHeld
    <3>2. CASE s = r
      BY <1>4, <1>5, <3>2
    <3>3. CASE t = r
      BY <1>4, <1>5, <3>3
    <3> QED BY <3>1, <3>2, <3>3
  <2> QED BY <2>1, <2>2, <2>3 DEF RowsHeld
<1>7. RowsApart'
  BY <1>1 DEF HeldOnce, RowsApart, SameRows, SameRow
<1>8. QueuesApart'
  <2>1. removals \subseteq Programs
    BY DEF TypeOK, OperatorTypeOK
  <2>2. \A p \in Programs \ {q} : (Open(p)' <=> Open(p)) /\ (Unowned(p)' <=> Unowned(p))
    BY <1>1, <1>4 DEF SameRows, SameRow, Open, Unowned
  <2>3. \A p \in Programs : Starting(p)' => Starting(p) /\ p # q
    BY <1>0 DEF Starting
  <2>4. \A p \in removals' : Open(p)' /\ Unowned(p)'
    BY <1>0, <1>2, <2>1, <2>2 DEF HeldOnce, QueuesApart
  <2>5. \A p \in Programs : Starting(p)' => Open(p)' /\ Unowned(p)' /\ p \notin removals'
    BY <1>0, <2>2, <2>3 DEF HeldOnce, QueuesApart
  <2> QED BY <1>0, <2>4, <2>5 DEF HeldOnce, QueuesApart
<1>9. ListsTrue'
  BY <1>0 DEF ListsTrue
<1> QED BY <1>0, <1>3, <1>4, <1>6, <1>7, <1>8, <1>9, HeldFrom

\* So every step of the loop keeps each row with the one that has it.
LEMMA HeldByLoop ==
  ASSUME TypeOK, NothingDeleted, StartIsFresh, HeldOnce, Loop, UNCHANGED handler
  PROVE  HeldOnce'
<1>1. CASE Tick \/ ListCompletions \/ ReadRecordingIDs \/ ReadRecordedIDs \/ ListCleanup
            \/ ReadDue \/ ReadSkipped \/ CheckSpace \/ EndTick
  <2>1. UNCHANGED <<recording, recorded>>
    BY <1>1 DEF Tick, ListCompletions, ReadRecordingIDs, ReadRecordedIDs, ListCleanup,
       ReadDue, ReadSkipped, CheckSpace, EndTick, LoopFails, storeVars
  <2> QED BY <1>1, <2>1, HeldByReads
<1>2. CASE \/ Advance("removals", "rollbacks", {p \in Programs : rollbacks[p] # None})
           \/ Advance("rollbacks", "listCompletions", {})
           \/ Advance("completions", "deletes", deletes)
           \/ Advance("completions", "initRead", {})
           \/ Advance("deletes", "readRecording", {})
           \/ Advance("cleanup", "readDue", {})
           \/ Advance("skipped", "readSpace", {})
           \/ Advance("lowStop", "start", ToStart)
           \/ Advance("start", "spawn", pending)
  <2>1. UNCHANGED <<recording, recorded>>
    BY <1>2 DEF Advance, storeVars
  <2> QED BY <1>2, <2>1, HeldByReads
<1>3. ASSUME NEW q \in Programs, RetryDelete(q) \/ CleanupReserve(q) \/ CheckSkipped(q)
      PROVE  HeldOnce'
  <2>1. UNCHANGED <<recording, recorded>>
    BY <1>3 DEF RetryDelete, CleanupReserve, CheckSkipped, LoopFails, storeVars
  <2> QED BY <1>3, <2>1, HeldByReads
<1>4. ASSUME NEW q \in Programs,
             RetryRollback(q) \/ LowSpaceUnlink(q) \/ LowSpaceRemove(q)
      PROVE  FALSE
  BY <1>4 DEF RetryRollback, LowSpaceUnlink, LowSpaceRemove, HeldOnce, ListsTrue
<1> QED
  BY <1>1, <1>2, <1>3, <1>4, HeldByRemovals, HeldByCompletions, HeldByMarks, HeldByStart,
     HeldBySpawn DEF Loop

\* With the process go its goroutines and its queues.
LEMMA HeldByProcess ==
  ASSUME TypeOK, LoopMatchesProcess, HeldOnce, Process, UNCHANGED userVars
  PROVE  HeldOnce'
<1>0. UNCHANGED <<recorded, part, handler>> /\ removals \subseteq Programs
  BY DEF Process, Crash, Shutdown, Exit, Restart, InitRead, InitWrite, ProcessEnds, storeVars,
     fileVars, userVars, TypeOK, OperatorTypeOK
<1>1. ASSUME \A r \in Recorders : rec'[r].pc \in {"fresh", "done"},
             removals' = {}, \A p \in Programs : rollbacks'[p] = None,
             loop' = "idle", pending' = {},
             \A p \in Programs : recording'[p] \in {recording[p], None}
      PROVE  HeldOnce'
  <2>1. RowsHeld' /\ NoRollback' /\ PartsThere'
    BY <1>1 DEF RowsHeld, NoRollback, PartsThere, Holds, Owns, Finishes
  <2>2. RowsApart'
    BY <1>0, <1>1 DEF HeldOnce, RowsApart, IsRecorded, IsRecording, Claimed, PendingCompletion
  <2>3. QueuesApart' /\ ListsTrue' /\ NobodyDeletes'
    BY <1>0, <1>1 DEF HeldOnce, QueuesApart, ListsTrue, NobodyDeletes, Starting
  <2> QED BY <2>1, <2>2, <2>3 DEF HeldOnce
<1>2. ASSUME ProcessEnds("down")
      PROVE  HeldOnce'
  <2>1. \A r \in Recorders : rec'[r].pc \in {"fresh", "done"}
    BY <1>2 DEF ProcessEnds, Live, At
  <2> QED BY <1>1, <1>2, <2>1 DEF ProcessEnds, Enter, storeVars
<1>3. ASSUME UNCHANGED <<recording, rec, removals, rollbacks>>,
             \A p \in Programs : ~Starting(p)', ListsTrue',
             proc' \in {"down", "init"} => removals = {}
      PROVE  HeldOnce'
  <2>1. SameRows
    BY <1>0, <1>3 DEF SameRows, SameRow, IsRecording, Claimed, PendingCompletion, IsRecorded
  <2>2. NobodyDeletes'
    BY <1>0 DEF HeldOnce, NobodyDeletes
  <2> QED BY <1>0, <1>3, <2>1, <2>2, QuietStep
<1>4. CASE Shutdown
  <2>1. ListsTrue' /\ \A p \in Programs : ~Starting(p)'
    BY <1>4 DEF Shutdown, Enter, ListsTrue, Starting
  <2> QED BY <1>3, <1>4, <2>1 DEF Shutdown, storeVars, queueVars
<1>5. CASE Restart
  <2>1. ListsTrue' /\ \A p \in Programs : ~Starting(p)'
    BY <1>5 DEF Restart, Enter, ListsTrue, Starting, HeldOnce, LoopMatchesProcess, snapVars
  <2> QED
    BY <1>3, <1>5, <2>1 DEF Restart, storeVars, queueVars, HeldOnce, QueuesApart
<1>6. CASE InitRead
  <2>1. CASE ~ProcessEnds("down")
    <3>1. /\ UNCHANGED <<recording, rec, removals, rollbacks, proc>> /\ loop' = "initWrite"
          /\ pending' = {p \in Programs : PendingCompletion(p)}
      BY <1>6, <2>1 DEF InitRead, Enter, LoopFrame, storeVars, queueVars
    <3>2. ListsTrue' /\ \A p \in Programs : ~Starting(p)'
      BY <3>1 DEF ListsTrue, Starting, PendingCompletion, Claimed, IsRecording
    <3> QED BY <1>3, <3>1, <3>2 DEF HeldOnce, QueuesApart
  <2> QED BY <1>2, <2>1
<1>7. CASE InitWrite
  <2>1. CASE ~ProcessEnds("down")
    <3>1. /\ UNCHANGED <<rec, removals, rollbacks>> /\ loop' = "idle" /\ pending' = {}
          /\ \A p \in Programs : recording'[p] \in {recording[p], None}
      BY <1>7, <2>1 DEF InitWrite, Enter, queueVars
    <3>2. removals = {} /\ \A r \in Recorders : rec'[r].pc \in {"fresh", "done"}
      BY <1>7, <3>1 DEF InitWrite, HeldOnce, QueuesApart, LoopMatchesProcess, Live
    <3> QED BY <1>1, <3>1, <3>2 DEF HeldOnce, NoRollback
  <2> QED BY <1>2, <2>1
<1> QED BY <1>2, <1>4, <1>5, <1>6, <1>7 DEF Process, Crash, Exit

\* The others only mark rows.
LEMMA HeldByOthers ==
  ASSUME TypeOK, NothingDeleted, HeldOnce,
         \/ User \/ SchedulerReads \/ SchedulerPublishes
         \/ (\E q \in Programs : AirAdvances(q)) /\ UNCHANGED userVars
         \/ UNCHANGED vars
  PROVE  HeldOnce'
<1>1. /\ UNCHANGED <<proc, loop, todo, pending, rec, removals, rollbacks>>
      /\ \A p \in Programs :
            \/ recording'[p] = recording[p]
            \/ /\ IsRecording(p) /\ ~Claimed(p)
               /\ \E a \in {"system", "user"} :
                     recording'[p] = [recording[p] EXCEPT !.abort = a]
  BY OutsideStep DEF loopVars, snapVars
<1>2. /\ ~WriteRecorded /\ ~RestoreStaged
      /\ \A q \in Programs : ~DeleteRecorded(q) /\ ~DeleteFile(q) /\ ~CleanupRecorded(q)
  BY DEF HeldOnce, NobodyDeletes, NothingDeleted, WriteRecorded, RestoreStaged, Removing,
     DeleteRecorded, DeleteFile, CleanupRecorded, Starts
<1>3. UNCHANGED <<recorded, part>>
  BY <1>2 DEF User, WriteReserve, Reserve, Skip, Unskip, Unreserve, Stop, SchedulerReads,
     SchedulerPublishes, AirAdvances, HandlerFrame, opVars, fileVars, vars, storeVars
<1>4. NobodyDeletes'
  BY <1>2 DEF User, WriteReserve, Reserve, Skip, Unskip, Unreserve, Stop, Later, Idle,
     SchedulerReads, SchedulerPublishes, userVars, vars, HeldOnce, NobodyDeletes
<1>5. SameRows
  BY <1>1, <1>3, MarksLeaveRows
<1>6. ListsTrue' /\ \A p \in Programs : Starting(p)' => Starting(p)
  BY <1>1, <1>5 DEF HeldOnce, ListsTrue, Starting, SameRows, SameRow, TypeOK, OperatorTypeOK
<1> QED
  BY <1>1, <1>3, <1>4, <1>5, <1>6, QuietStep
  DEF HeldOnce, QueuesApart, TypeOK, OperatorTypeOK

\* What a lock on the row would guarantee holds without one, and with it all
\* that it rests on.
RowsSafe == TypeOK /\ LoopMatchesProcess /\ SnapshotsHold /\ StartIsFresh /\ HeldOnce

LEMMA HeldInvariant ==
  ASSUME FilesWork, NothingDeleted
  PROVE  /\ Init => RowsSafe
         /\ RowsSafe /\ [Next]_vars => RowsSafe'
<1>1. Init => RowsSafe
  <2> SUFFICES ASSUME Init
               PROVE  RowsSafe
    OBVIOUS
  <2> USE DEF Init, OperatorInit, StoreInit
  <2>1. TypeOK /\ LoopMatchesProcess /\ SnapshotsHold /\ StartIsFresh
    BY InitTypes DEF LoopMatchesProcess, SnapshotsHold, StartIsFresh, Listed, Live, At
  <2>2. \A r \in Recorders : rec[r].pc = "fresh"
    BY DEF At
  <2>3. RowsHeld /\ RowsApart /\ NoRollback /\ PartsThere
    BY <2>2 DEF RowsHeld, RowsApart, NoRollback, PartsThere, Holds, Owns, Finishes,
       IsRecording, IsRecorded, Claimed
  <2>4. QueuesApart /\ ListsTrue /\ NobodyDeletes
    BY DEF QueuesApart, Starting, ListsTrue, NobodyDeletes, Idle
  <2> QED BY <2>1, <2>3, <2>4 DEF RowsSafe, HeldOnce
<1>2. RowsSafe /\ [Next]_vars => RowsSafe'
  <2> SUFFICES ASSUME TypeOK, LoopMatchesProcess, SnapshotsHold, StartIsFresh, HeldOnce,
                      [Next]_vars
               PROVE  RowsSafe'
    BY DEF RowsSafe
  <2>1. TypeOK' /\ LoopMatchesProcess' /\ SnapshotsHold' /\ StartIsFresh'
    BY NextTypes, ProcessInvariant, FreshInvariant
  <2>2. HeldOnce'
    <3>1. CASE Loop /\ UNCHANGED userVars
      BY <3>1, HeldByLoop DEF userVars
    <3> QED BY <3>1, HeldByRecorder, HeldByProcess, HeldByOthers DEF Next
  <2> QED BY <2>1, <2>2 DEF RowsSafe
<1> QED BY <1>1, <1>2

\* No two goroutines have the same .part file open, while no call of the file
\* system fails and recorded programs stay.
THEOREM WritersAreAlone ==
  ASSUME FilesWork, NothingDeleted
  PROVE  Spec => []OneWriter
<1>1. RowsSafe => OneWriter
  <2>1. ASSUME HeldOnce, NEW r \in Recorders, Writing(r)
        PROVE  Holds(r)
    BY <2>1 DEF HeldOnce, NoRollback, Writing, Holds, Owns, Finishes
  <2> QED BY <2>1 DEF RowsSafe, HeldOnce, RowsHeld, OneWriter
<1>2. (Init => RowsSafe) /\ (RowsSafe /\ [Next]_vars => RowsSafe')
  BY HeldInvariant
<1> QED BY <1>1, <1>2, PTL DEF Spec

----------------------------------------------------------------------------
(* What the lists say of the files.                                        *)

\* Under these, a program gets into "recorded" only with its claimed row, and
\* never out of it.
LEMMA CompletesClaimed ==
  ASSUME NothingDeleted, RowsSafe, [Next]_vars, NEW p \in Programs
  PROVE  \/ recorded'[p] = recorded[p]
         \/ /\ PendingCompletion(p) /\ ~IsRecording(p)' /\ IsRecorded(p)'
            /\ recorded'[p] = recording[p].abort
<1> USE DEF RowsSafe
<1>0. /\ recorded \in [Programs -> AbortMark \cup {"absent"}] /\ recording \in Rows
      /\ \A r \in Recorders : ProgramOf[r] \in Programs
  BY ProgramOfAssumption DEF TypeOK, OperatorTypeOK, StoreTypeOK, Rows
<1> DEFINE Kept == recorded'[p] = recorded[p]
           Moved == /\ PendingCompletion(p) /\ ~IsRecording(p)' /\ IsRecorded(p)'
                    /\ recorded'[p] = recording[p].abort
<1>1. CASE UNCHANGED recorded
  BY <1>1
<1>2. ASSUME NEW q \in Programs, Complete(q), PendingCompletion(q) \/ IsRecorded(q)
      PROVE  Kept \/ Moved
  <2>1. CASE p # q
    BY <1>0, <1>2, <2>1 DEF Complete
  <2>2. CASE p = q
    <3>1. PendingCompletion(q) /\ recording[q] \in Row
      BY <1>0, <1>2 DEF Complete, HeldOnce, RowsApart, Rows, IsRecording
    <3>2. recorded'[q] = recording[q].abort /\ recording'[q] = None
      BY <1>0, <1>2 DEF Complete, Rows
    <3> QED BY <2>2, <3>1, <3>2 DEF IsRecorded, IsRecording, Row, AbortMark
  <2> QED BY <2>1, <2>2
<1>3. ASSUME NEW r \in Recorders, Recorder(r)
      PROVE  Kept \/ Moved
  <2>1. CASE CompleteRecording(r)
    <3>1. Finishes(r)
      BY <2>1 DEF CompleteRecording, Finishes
    <3>2. PendingCompletion(ProgramOf[r]) \/ IsRecorded(ProgramOf[r])
      BY <3>1 DEF HeldOnce, RowsHeld
    <3> QED BY <1>0, <1>1, <1>2, <2>1, <3>2 DEF CompleteRecording
  <2> QED
    BY <1>1, <1>3, <2>1 DEF Recorder, OpenStream, MarkRecording, CreatePart, CopyData,
       CopyEnds, Watch, SetDeadline, EndReached, StopCheck, AbortCheck, Claim, Promote, Rollback,
       ClearClaim, UnlinkPart, RemoveFailed, ReleaseReserve, ForgetReserve, PostProcess,
       storeVars
<1>4. CASE Loop
  <2>1. ASSUME NEW q \in Programs, RetryCompletion(q)
        PROVE  Kept \/ Moved
    BY <1>1, <1>2, <2>1 DEF RetryCompletion, HeldOnce, ListsTrue
  <2>2. \A q \in Programs : ~LowSpaceRemove(q)
    BY DEF LowSpaceRemove, HeldOnce, ListsTrue
  <2> QED
    BY <1>1, <1>4, <2>1, <2>2
    DEF Loop, Tick, ListCompletions, ReadRecordingIDs, ReadRecordedIDs, ListCleanup,
        ReadDue, ReadSkipped, CheckSpace, EndTick, Advance, RetryRemoval, RetryRollback,
        RetryDelete, CleanupReserve, CheckSkipped, AbortSkipped, LowSpaceStop,
        LowSpaceUnlink, StartRecording, Spawn, LoopFails, storeVars
<1>5. ~WriteRecorded
  BY DEF HeldOnce, NobodyDeletes, WriteRecorded, Removing
<1> QED
  BY <1>1, <1>3, <1>4, <1>5
  DEF Next, Process, Crash, Shutdown, Exit, Restart, InitRead, InitWrite, ProcessEnds,
      AirAdvances, User, WriteReserve, Reserve, Skip, Unskip, Unreserve, Stop,
      DeleteRecorded, DeleteFile, RestoreStaged, FileFrame, CleanupRecorded,
      HandlerFrame, SchedulerReads, SchedulerPublishes, vars, storeVars

\* A recording the system aborted is never listed as recorded, while no call
\* of the file system fails and recorded programs stay.
THEOREM AbortedAreNotListed ==
  ASSUME FilesWork, NothingDeleted
  PROVE  Spec => []AbortedNotRecorded
<1>1. Init => AbortedNotRecorded
  BY DEF Init, OperatorInit, StoreInit, AbortedNotRecorded
<1>2. RowsSafe /\ ClaimedNotAborted /\ AbortedNotRecorded /\ [Next]_vars
         => AbortedNotRecorded'
  BY CompletesClaimed DEF AbortedNotRecorded, ClaimedNotAborted, PendingCompletion
<1>3. (Init => RowsSafe) /\ (RowsSafe /\ [Next]_vars => RowsSafe')
  BY HeldInvariant
<1> QED BY <1>1, <1>2, <1>3, ClaimExcludesAbort, PTL DEF Spec

\* A final file comes with the rename, and stays.
LEMMA FinalStays ==
  ASSUME FilesWork, NothingDeleted, RowsSafe, [Next]_vars, NEW p \in Programs
  PROVE  \/ final'[p] = final[p]
         \/ /\ final'[p] /\ UNCHANGED storeVars
            /\ \E r \in Recorders : ProgramOf[r] = p /\ rec'[r].pc = "complete"
<1> USE DEF RowsSafe
<1>0. /\ final \in [Programs -> BOOLEAN] /\ rec \in [Recorders -> Goroutine]
  BY DEF TypeOK, OperatorTypeOK
<1>1. CASE UNCHANGED final
  BY <1>1
<1>2. ASSUME NEW r \in Recorders, Promote(r)
      PROVE  \/ final'[p] = final[p]
             \/ /\ final'[p] /\ UNCHANGED storeVars
                /\ \E s \in Recorders : ProgramOf[s] = p /\ rec'[s].pc = "complete"
  <2>1. /\ final' = [final EXCEPT ![ProgramOf[r]] = TRUE] \/ UNCHANGED final
        /\ UNCHANGED final \/ rec'[r].pc = "complete"
        /\ UNCHANGED storeVars
    BY <1>0, <1>2 DEF Promote, Goto, Goroutine, fileVars
  <2> QED BY <1>0, <2>1
<1>3. CASE \E r \in Recorders : Recorder(r)
  BY <1>1, <1>2, <1>3 DEF Recorder, OpenStream, MarkRecording, CreatePart, CopyData,
     CopyEnds, Watch, SetDeadline, EndReached, StopCheck, AbortCheck, Claim, Rollback, ClearClaim,
     UnlinkPart, RemoveFailed, ReleaseReserve, CompleteRecording, ForgetReserve,
     PostProcess, fileVars
<1>4. CASE Loop
  <2>1. \A q \in Programs : ~LowSpaceUnlink(q)
    BY DEF LowSpaceUnlink, HeldOnce, ListsTrue
  <2> QED
    BY <1>1, <1>4, <2>1
    DEF Loop, Tick, ListCompletions, ReadRecordingIDs, ReadRecordedIDs, ListCleanup,
        ReadDue, ReadSkipped, CheckSpace, EndTick, Advance, RetryRemoval, RetryRollback,
        RetryCompletion, RetryDelete, CleanupReserve, CheckSkipped, AbortSkipped,
        LowSpaceStop, LowSpaceRemove, StartRecording, Spawn, LoopFails, fileVars
<1>5. ~RestoreStaged /\ \A q \in Programs : ~DeleteRecorded(q) /\ ~DeleteFile(q)
  BY DEF NothingDeleted, DeleteRecorded, DeleteFile, Starts, HeldOnce, NobodyDeletes,
     RestoreStaged
<1> QED
  BY <1>1, <1>3, <1>4, <1>5
  DEF Next, Process, Crash, Shutdown, Exit, Restart, InitRead, InitWrite, ProcessEnds,
      AirAdvances, User, WriteReserve, WriteRecorded, Reserve, Skip, Unskip, Unreserve, Stop,
      CleanupRecorded, HandlerFrame, opVars, SchedulerReads, SchedulerPublishes,
      vars, fileVars

\* A claimed row goes only where its program is listed.
LEMMA PendingStays ==
  ASSUME FilesWork, NothingDeleted, RowsSafe, [Next]_vars, NEW p \in Programs,
         PendingCompletion(p)
  PROVE  PendingCompletion(p)' \/ IsRecorded(p)'
<1> USE DEF RowsSafe
<1>0. /\ recording \in Rows /\ Claimed(p) /\ IsRecording(p)
      /\ \A r \in Recorders : ProgramOf[r] \in Programs
  BY ProgramOfAssumption
  DEF TypeOK, OperatorTypeOK, StoreTypeOK, Rows, PendingCompletion, Claimed
<1>1. CASE recording'[p] = recording[p]
  BY <1>1 DEF PendingCompletion, Claimed, IsRecording
<1>2. CASE recorded'[p] # recorded[p]
  BY <1>2, CompletesClaimed
<1>3. ASSUME NEW r \in Recorders, Recorder(r)
      PROVE  PendingCompletion(p)' \/ IsRecorded(p)'
  <2>1. CASE p # ProgramOf[r]
    BY <1>1, <1>3, <2>1, RecorderTouches
  <2>2. CASE p = ProgramOf[r]
    <3>1. ~Owns(r)
      BY <1>0, <2>2 DEF HeldOnce, RowsHeld, Open
    <3>2. Completes(r) \/ MovesOn(r)
      BY <1>3, <3>1, GoroutineStep DEF GoesOn, TakesClaim, GivesUp
    <3>3. ASSUME Completes(r)
          PROVE  IsRecorded(p)'
      <4>1. recorded'[p] = recording[p].abort
        BY <2>2, <3>3 DEF Completes, Complete, TypeOK, OperatorTypeOK, StoreTypeOK
      <4> QED BY <1>0, <4>1 DEF Rows, IsRecording, IsRecorded, Row, AbortMark
    <3> QED BY <1>1, <3>2, <3>3 DEF MovesOn
  <2> QED BY <2>1, <2>2
<1>4. CASE Loop
  <2>1. ASSUME NEW q \in Programs, RetryRemoval(q)
        PROVE  recording'[p] = recording[p]
    <3>1. p # q
      BY <1>0, <2>1 DEF RetryRemoval, HeldOnce, ListsTrue, QueuesApart, Open
    <3> QED BY <1>0, <2>1, <3>1 DEF RetryRemoval, RemoveRecording, Rows
  <2>2. ASSUME NEW q \in Programs, RetryCompletion(q)
        PROVE  recording'[p] = recording[p] \/ IsRecorded(p)'
    <3>1. CASE p # q
      BY <1>0, <2>2, <3>1 DEF RetryCompletion, Complete, Rows
    <3>2. CASE p = q
      <4>1. recording'[p] = recording[p] \/ recorded'[p] = recording[p].abort
        BY <2>2, <3>2 DEF RetryCompletion, Complete, TypeOK, OperatorTypeOK, StoreTypeOK
      <4> QED BY <1>0, <4>1 DEF Rows, IsRecording, IsRecorded, Row, AbortMark
    <3> QED BY <3>1, <3>2
  <2>3. ASSUME NEW q \in Programs, AbortSkipped(q) \/ LowSpaceStop(q)
        PROVE  recording'[p] = recording[p]
    BY <1>0, <2>3 DEF AbortSkipped, LowSpaceStop, LoopFails, storeVars, SetAbort, Rows
  <2>4. ASSUME NEW q \in Programs, StartRecording(q)
        PROVE  recording'[p] = recording[p]
    <3>1. p # q
      BY <1>0, <2>4 DEF StartRecording, StartIsFresh
    <3> QED
      BY <1>0, <2>4, <3>1 DEF StartRecording, LoopFails, storeVars, UpsertRecording, Rows
  <2>5. \A q \in Programs : ~RetryRollback(q)
    BY DEF RetryRollback, HeldOnce, ListsTrue
  <2> QED
    BY <1>1, <1>4, <2>1, <2>2, <2>3, <2>4, <2>5
    DEF Loop, Tick, ListCompletions, ReadRecordingIDs, ReadRecordedIDs, ListCleanup,
        ReadDue, ReadSkipped, CheckSpace, EndTick, Advance, RetryDelete, CleanupReserve,
        CheckSkipped, LowSpaceUnlink, LowSpaceRemove, Spawn, LoopFails, storeVars
<1>5. CASE Process
  BY <1>1, <1>5 DEF Process, Crash, Shutdown, Exit, Restart, InitRead, InitWrite,
     ProcessEnds, storeVars, HeldOnce, ListsTrue
<1>6. CASE \/ User \/ SchedulerReads \/ SchedulerPublishes
           \/ \E q \in Programs : AirAdvances(q)
           \/ UNCHANGED vars
  BY <1>0, <1>1, <1>6, OutsideStep
<1> QED BY <1>3, <1>4, <1>5, <1>6 DEF Next

\* A finished file is always reachable, while no call of the file system fails
\* and recorded programs stay: through crashes and restarts its program is
\* listed as recorded, or its claimed row lets a retry or start-up list it.
THEOREM FinalsAreListed ==
  ASSUME FilesWork, NothingDeleted
  PROVE  Spec => []FinalIsListed
<1>1. Init => FinalIsListed
  BY DEF Init, OperatorInit, FinalIsListed
<1>2. RowsSafe /\ RowsSafe' /\ FinalIsListed /\ [Next]_vars => FinalIsListed'
  <2> SUFFICES ASSUME RowsSafe, RowsSafe', FinalIsListed, [Next]_vars,
                      NEW p \in Programs, final'[p]
               PROVE  IsRecorded(p)' \/ PendingCompletion(p)'
    BY DEF FinalIsListed
  <2>1. ASSUME NEW r \in Recorders, ProgramOf[r] = p, rec'[r].pc = "complete"
        PROVE  IsRecorded(p)' \/ PendingCompletion(p)'
    BY <2>1 DEF RowsSafe, HeldOnce, RowsHeld, Finishes
  <2>2. CASE final[p]
    BY <2>2, PendingStays, CompletesClaimed DEF FinalIsListed, IsRecorded
  <2> QED BY <2>1, <2>2, FinalStays
<1>3. (Init => RowsSafe) /\ (RowsSafe /\ [Next]_vars => RowsSafe')
  BY HeldInvariant
<1> QED BY <1>1, <1>2, <1>3, PTL DEF Spec

\* What is listed or claimed has its file, or is being renamed.
FileComes ==
  \A p \in Programs : IsRecorded(p) \/ Claimed(p) =>
     final[p] \/ \E r \in Recorders : ProgramOf[r] = p /\ rec[r].pc = "promote"

\* Only a goroutine claims a row, and goes on to the rename.
LEMMA ClaimStep ==
  ASSUME FilesWork, RowsSafe, [Next]_vars, NEW p \in Programs, Claimed(p)', ~Claimed(p)
  PROVE  \E r \in Recorders : ProgramOf[r] = p /\ rec'[r].pc = "promote"
<1> USE DEF RowsSafe
<1>0. /\ recording \in Rows /\ None \notin Row
      /\ \A r \in Recorders : ProgramOf[r] \in Programs
  BY ProgramOfAssumption, NoneAssumption
  DEF TypeOK, OperatorTypeOK, StoreTypeOK, Rows
<1>1. ASSUME recording'[p] \in {recording[p], None, FreshRow}
      PROVE  FALSE
  BY <1>1 DEF Claimed, IsRecording, FreshRow
<1>2. ASSUME NEW a \in AbortMark, IsRecording(p),
             recording'[p] = [recording[p] EXCEPT !.abort = a]
      PROVE  FALSE
  <2>1. recording'[p].claim = recording[p].claim
    BY <1>0, <1>2 DEF Rows, IsRecording, Row
  <2> QED BY <1>2, <2>1 DEF Claimed
<1>3. ASSUME NEW r \in Recorders, Recorder(r)
      PROVE  ProgramOf[r] = p /\ rec'[r].pc = "promote"
  <2>1. p = ProgramOf[r]
    BY <1>1, <1>3, RecorderTouches
  <2>2. ~GoesOn(r) /\ ~MovesOn(r)
    BY <1>1, <2>1 DEF GoesOn, MovesOn, Open
  <2>3. ~GivesUp(r) /\ ~Completes(r)
    BY <1>0, <1>1, <2>1 DEF GivesUp, Completes, RemoveRecording, Complete, Rows
  <2> QED BY <1>3, <2>1, <2>2, <2>3, GoroutineStep DEF TakesClaim
<1>4. CASE Loop
  <2>1. ASSUME NEW q \in Programs, RetryRemoval(q) \/ RetryRollback(q) \/ RetryCompletion(q)
        PROVE  FALSE
    BY <1>0, <1>1, <2>1 DEF RetryRemoval, RetryRollback, RetryCompletion, RemoveRecording,
       Complete, Rows
  <2>2. ASSUME NEW q \in Programs, AbortSkipped(q) \/ LowSpaceStop(q)
        PROVE  FALSE
    BY <1>0, <1>1, <1>2, <2>2 DEF AbortSkipped, LowSpaceStop, LoopFails, storeVars,
       SetAbort, Rows, AbortMark
  <2>3. ASSUME NEW q \in Programs, StartRecording(q)
        PROVE  FALSE
    BY <1>0, <1>1, <2>3 DEF StartRecording, LoopFails, storeVars, UpsertRecording, Rows
  <2> QED
    BY <1>1, <1>4, <2>1, <2>2, <2>3
    DEF Loop, Tick, ListCompletions, ReadRecordingIDs, ReadRecordedIDs, ListCleanup,
        ReadDue, ReadSkipped, CheckSpace, EndTick, Advance, RetryDelete, CleanupReserve,
        CheckSkipped, LowSpaceUnlink, LowSpaceRemove, Spawn, LoopFails, storeVars
<1>5. CASE Process
  BY <1>1, <1>5 DEF Process, Crash, Shutdown, Exit, Restart, InitRead, InitWrite,
     ProcessEnds, storeVars
<1>6. CASE \/ User \/ SchedulerReads \/ SchedulerPublishes
           \/ \E q \in Programs : AirAdvances(q)
           \/ UNCHANGED vars
  BY <1>1, <1>2, <1>6, OutsideStep DEF AbortMark
<1> QED BY <1>3, <1>4, <1>5, <1>6 DEF Next

\* A rename that was begun is done, unless the operator is killed.
LEMMA PromotionStays ==
  ASSUME FilesWork, NeverKilled, RowsSafe, [Next]_vars, NEW r \in Recorders,
         rec[r].pc = "promote"
  PROVE  rec'[r].pc = "promote" \/ final'[ProgramOf[r]]
<1> USE DEF RowsSafe
<1>0. /\ final \in [Programs -> BOOLEAN] /\ rec \in [Recorders -> Goroutine]
      /\ ProgramOf[r] \in Programs
  BY ProgramOfAssumption DEF TypeOK, OperatorTypeOK
<1>1. CASE rec'[r] = rec[r]
  BY <1>1
<1>2. CASE Recorder(r)
  <2>1. Promote(r)
    BY <1>2 DEF Recorder, OpenStream, MarkRecording, CreatePart, CopyData, CopyEnds, Watch,
       SetDeadline, EndReached, StopCheck, AbortCheck, Claim, Rollback, ClearClaim, UnlinkPart,
       RemoveFailed, ReleaseReserve, CompleteRecording, ForgetReserve, PostProcess
  <2>2. part[ProgramOf[r]] # "absent" /\ ~Fails("file")
    BY FilesDoNotFail DEF HeldOnce, PartsThere
  <2> QED BY <1>0, <2>1, <2>2 DEF Promote
<1>3. ASSUME NEW s \in Recorders, s # r, Recorder(s)
      PROVE  rec'[r] = rec[r]
  BY <1>3, RecorderTouches
<1>4. CASE Loop
  <2>1. ASSUME NEW s \in Recorders, Spawn(s)
        PROVE  rec'[r] = rec[r]
    BY <1>0, <2>1 DEF Spawn, Goto
  <2> QED BY <1>1, <1>4, <2>1, LoopLeaves
<1>5. CASE Process
  BY <1>1, <1>5, ProcessWaits
<1>6. CASE \/ User \/ SchedulerReads \/ SchedulerPublishes
           \/ \E q \in Programs : AirAdvances(q)
           \/ UNCHANGED vars
  BY <1>1, <1>6, OutsideStep
<1> QED BY <1>1, <1>2, <1>3, <1>4, <1>5, <1>6 DEF Next

\* Lists and files agree in both directions, while no call of the file system
\* fails, recorded programs stay and the operator is not killed: a listed
\* program has its file, unless the rename is still to come.
THEOREM FilesAndListsAgree ==
  ASSUME FilesWork, NothingDeleted, NeverKilled
  PROVE  Spec => []FilesMatchLists
<1>1. Init => FileComes
  BY DEF Init, OperatorInit, StoreInit, FileComes, IsRecorded, IsRecording, Claimed
<1>2. RowsSafe /\ FileComes /\ [Next]_vars => FileComes'
  <2> SUFFICES ASSUME RowsSafe, FileComes, [Next]_vars, NEW p \in Programs,
                      IsRecorded(p)' \/ Claimed(p)'
               PROVE  \/ final'[p]
                      \/ \E r \in Recorders : ProgramOf[r] = p /\ rec'[r].pc = "promote"
    BY DEF FileComes
  <2>1. CASE IsRecorded(p) \/ Claimed(p)
    <3>1. CASE final[p]
      BY <3>1, FinalStays
    <3>2. ASSUME NEW r \in Recorders, ProgramOf[r] = p, rec[r].pc = "promote"
          PROVE  rec'[r].pc = "promote" \/ final'[p]
      BY <3>2, PromotionStays
    <3> QED BY <2>1, <3>1, <3>2 DEF FileComes
  <2>2. CASE ~IsRecorded(p) /\ ~Claimed(p)
    <3>1. Claimed(p)'
      BY <2>2, CompletesClaimed DEF IsRecorded, PendingCompletion
    <3> QED BY <2>2, <3>1, ClaimStep
  <2> QED BY <2>1, <2>2
<1>3. FileComes => RecordedHasFile
  BY DEF FileComes, RecordedHasFile
<1>4. (Init => RowsSafe) /\ (RowsSafe /\ [Next]_vars => RowsSafe')
  BY HeldInvariant
<1>5. Spec => []FinalIsListed
  BY FinalsAreListed
<1> QED BY <1>1, <1>2, <1>3, <1>4, <1>5, PTL DEF Spec, FilesMatchLists

\* Where a goroutine stands is changed by itself, its start and the end of the
\* process only.
LEMMA OwnPace ==
  ASSUME TypeOK, [Next]_vars, NEW r \in Recorders, rec'[r].pc # rec[r].pc
  PROVE  Recorder(r) \/ rec'[r].pc \in {"stream", "done"}
<1>0. rec \in [Recorders -> Goroutine] /\ rec[r] \in Goroutine
  BY DEF TypeOK, OperatorTypeOK
<1>1. CASE UNCHANGED rec
  BY <1>1
<1>2. ASSUME NEW s \in Recorders, s # r, Recorder(s)
      PROVE  FALSE
  BY <1>2, RecorderTouches
<1>3. ASSUME NEW s \in Recorders, Spawn(s)
      PROVE  rec'[r].pc = "stream"
  <2>1. rec'[r] = IF r = s THEN [rec[r] EXCEPT !.pc = "stream"] ELSE rec[r]
    BY <1>0, <1>3 DEF Spawn, Goto
  <2> QED BY <1>0, <2>1 DEF Goroutine
<1>4. ASSUME NEW next, ProcessEnds(next)
      PROVE  rec'[r].pc = "done"
  BY <1>0, <1>4 DEF ProcessEnds, At
<1>5. CASE Process
  BY <1>1, <1>4, <1>5 DEF Process, Crash, Shutdown, Exit, Restart, InitRead, InitWrite,
     LoopFrame
<1>6. CASE \/ User \/ SchedulerReads \/ SchedulerPublishes
           \/ \E q \in Programs : AirAdvances(q)
           \/ UNCHANGED vars
  BY <1>1, <1>6, OutsideStep
<1> QED BY <1>1, <1>2, <1>3, <1>5, <1>6, LoopLeaves DEF Next

\* A goroutine comes to the rename only by claiming.
LEMMA ClaimsFirst ==
  ASSUME TypeOK, [Next]_vars, NEW r \in Recorders, Finishes(r)', ~Finishes(r)
  PROVE  ClaimCompletion(ProgramOf[r], r)
<1> USE DEF Finishes
<1>0. rec \in [Recorders -> Goroutine] /\ rec[r] \in Goroutine
  BY DEF TypeOK, OperatorTypeOK
<1>1. Recorder(r) /\ rec'[r] # rec[r]
  BY OwnPace
<1>2. \A pc \in RecorderPc \ {"promote", "complete"} : ~Goto(r, pc)
  BY <1>0 DEF Goto, Goroutine
<1>3. ~OpenStream(r) /\ ~MarkRecording(r) /\ ~CreatePart(r) /\ ~CopyData(r)
  BY <1>1, <1>2 DEF OpenStream, MarkRecording, CreatePart, CopyData, RecorderPc
<1>4. ~CopyEnds(r) /\ ~Watch(r) /\ ~SetDeadline(r) /\ ~EndReached(r) /\ ~StopCheck(r)
  BY <1>0, <1>2 DEF CopyEnds, Watch, SetDeadline, EndReached, StopCheck, Goroutine, RecorderPc
<1>5. ~AbortCheck(r) /\ ~Promote(r) /\ ~Rollback(r) /\ ~ClearClaim(r) /\ ~UnlinkPart(r)
  BY <1>2 DEF AbortCheck, Promote, Rollback, ClearClaim, UnlinkPart, RecorderPc
<1>6. /\ ~RemoveFailed(r) /\ ~ReleaseReserve(r) /\ ~CompleteRecording(r)
      /\ ~ForgetReserve(r) /\ ~PostProcess(r)
  BY <1>0, <1>2 DEF RemoveFailed, ReleaseReserve, CompleteRecording, ForgetReserve,
     PostProcess, At
<1>7. Claim(r) => ClaimCompletion(ProgramOf[r], r)
  BY <1>2 DEF Claim, RecorderPc
<1> QED BY <1>1, <1>3, <1>4, <1>5, <1>6, <1>7 DEF Recorder

\* The claim a goroutine finds at the rename and after it is its own.
ClaimsOwn ==
  \A r \in Recorders : Finishes(r) /\ Claimed(ProgramOf[r])
                          => recording[ProgramOf[r]].claim = r

\* A goroutine completes only the row it claimed, while no call of the file
\* system fails and recorded programs stay.
THEOREM CompletionsAreOwn ==
  ASSUME FilesWork, NothingDeleted
  PROVE  Spec => CompletesOwnRow
<1>1. Init => ClaimsOwn
  BY ProgramOfAssumption DEF Init, OperatorInit, StoreInit, ClaimsOwn, Claimed, IsRecording
<1>2. RowsSafe /\ RowsSafe' /\ ClaimsOwn /\ [Next]_vars => ClaimsOwn'
  <2> SUFFICES ASSUME RowsSafe, RowsSafe', ClaimsOwn, [Next]_vars,
                      NEW r \in Recorders, NEW p \in Programs, p = ProgramOf[r],
                      Finishes(r)', Claimed(p)'
               PROVE  recording'[p].claim = r
    BY ProgramOfAssumption DEF ClaimsOwn
  <2>0. recording \in Rows /\ None \notin Row
    BY NoneAssumption DEF RowsSafe, TypeOK, OperatorTypeOK, StoreTypeOK, Rows
  <2>1. CASE ~Finishes(r)
    <3>1. ClaimCompletion(p, r)
      BY <2>1, ClaimsFirst DEF RowsSafe
    <3>2. recording[p] \in Row
      BY <2>0, <3>1 DEF ClaimCompletion, MayClaim, IsRecording, Rows
    <3> QED BY <2>0, <3>1, <3>2 DEF ClaimCompletion, Rows, Row
  <2>2. CASE Finishes(r)
    <3>1. Claimed(p)
      <4>1. PendingCompletion(p) \/ IsRecorded(p)
        BY <2>2 DEF RowsSafe, HeldOnce, RowsHeld
      <4>2. ~IsRecorded(p)
        BY CompletesClaimed DEF RowsSafe, HeldOnce, RowsApart, IsRecorded, Claimed,
           PendingCompletion
      <4> QED BY <4>1, <4>2 DEF PendingCompletion
    <3>2. recording[p].claim = r /\ recording[p] \in Row
      BY <2>0, <2>2, <3>1 DEF ClaimsOwn, Claimed, IsRecording, Rows
    <3>3. RowStep(p)
      BY EveryRowStep DEF RowsSafe
    <3>4. ASSUME NEW a \in AbortMark, recording'[p] = [recording[p] EXCEPT !.abort = a]
          PROVE  recording'[p].claim = r
      BY <3>2, <3>4 DEF Row
    <3>5. CASE \/ recording'[p] \in {None, FreshRow}
               \/ recording'[p] = [recording[p] EXCEPT !.claim = None]
      BY <3>2, <3>5 DEF Claimed, IsRecording, FreshRow, Row
    <3>6. CASE recording'[p] = [recording[p] EXCEPT !.path = TRUE, !.pid = -1]
      BY <3>2, <3>6 DEF Row
    <3> QED BY <3>1, <3>2, <3>3, <3>4, <3>5, <3>6 DEF RowStep, MayClaim, AbortMark
  <2> QED BY <2>1, <2>2
<1>3. RowsSafe /\ ClaimsOwn /\ [Next]_vars =>
         [\A r \in Recorders : rec[r].pc = "complete" /\ rec'[r].pc = "forget"
             => recording[ProgramOf[r]].claim = r]_vars
  <2> SUFFICES ASSUME RowsSafe, ClaimsOwn, [Next]_vars, NEW r \in Recorders,
                      rec[r].pc = "complete", rec'[r].pc = "forget"
               PROVE  recording[ProgramOf[r]].claim = r
    OBVIOUS
  <2>1. CompleteRecording(r)
    <3>1. Recorder(r)
      BY OwnPace DEF RowsSafe
    <3> QED
      BY <3>1 DEF Recorder, OpenStream, MarkRecording, CreatePart, CopyData, CopyEnds, Watch,
         SetDeadline, EndReached, StopCheck, AbortCheck, Claim, Promote, Rollback, ClearClaim, UnlinkPart,
         RemoveFailed, ReleaseReserve, ForgetReserve, PostProcess
  <2>2. IsRecording(ProgramOf[r])
    <3>1. rec' # [rec EXCEPT ![r] = At("done")]
      BY DEF At, RowsSafe, TypeOK, OperatorTypeOK
    <3> QED BY <2>1, <3>1 DEF CompleteRecording, Complete
  <2>3. Claimed(ProgramOf[r])
    BY <2>2, ProgramOfAssumption DEF RowsSafe, HeldOnce, RowsHeld, RowsApart, Finishes,
       PendingCompletion
  <2> QED BY <2>3 DEF ClaimsOwn, Finishes
<1>4. (Init => RowsSafe) /\ (RowsSafe /\ [Next]_vars => RowsSafe')
  BY HeldInvariant
<1> QED BY <1>1, <1>2, <1>3, <1>4, PTL DEF Spec, CompletesOwnRow

----------------------------------------------------------------------------
(* What is thrown away.                                                    *)

NothingFails == MaxFaults = 0

\* A goroutine that was cancelled before the end of its program has a mark on
\* its row; one that throws data away has that, or an error of the stream.
MarksExplain ==
  /\ proc # "stopping"
  /\ \A r \in Recorders : rec[r].pc = "fresh" => ~rec[r].cancelled
  /\ \A r \in Recorders : Owns(r) /\ rec[r].cancelled /\ ~rec[r].ended =>
        recording[ProgramOf[r]].abort # "none"
  /\ \A r \in Recorders : rec[r].pc = "unlink" /\ part[ProgramOf[r]] = "data" =>
        rec[r].copyErr \/ recording[ProgramOf[r]].abort # "none"

LEMMA NoFailure ==
  ASSUME TypeOK, NothingFails, NEW kind
  PROVE  ~Fails(kind)
BY BoundsAssumption DEF NothingFails, Fails, TypeOK, OperatorTypeOK

\* A mark stays on the row of a goroutine that keeps it.
LEMMA MarksStay ==
  ASSUME RowsSafe, RowsSafe', [Next]_vars, NEW r \in Recorders, Owns(r), Owns(r)',
         recording[ProgramOf[r]].abort # "none"
  PROVE  recording'[ProgramOf[r]].abort # "none"
<1> DEFINE p == ProgramOf[r]
<1>1. /\ p \in Programs /\ recording[p] \in Row /\ recording'[p] # None
      /\ IsRecording(p)
  BY ProgramOfAssumption DEF RowsSafe, HeldOnce, RowsHeld, Open, IsRecording, TypeOK,
     OperatorTypeOK, StoreTypeOK
<1>2. RowStep(p)
  BY <1>1, EveryRowStep DEF RowsSafe
<1>3. ~(loop = "start" /\ p \in todo)
  BY <1>1 DEF RowsSafe, StartIsFresh
<1> QED BY <1>1, <1>2, <1>3 DEF RowStep, Row, AbortMark

\* What a goroutine's step does to the locals the decision is made on.
LEMMA LocalsStep ==
  ASSUME TypeOK, NEW r \in Recorders, Recorder(r)
  PROVE  /\ rec'[r].pc # "fresh"
         /\ Owns(r)' =>
               /\ Owns(r) \/ rec[r].pc \in {"rollback", "clear"}
               /\ \/ /\ rec'[r].cancelled = rec[r].cancelled
                     /\ rec'[r].ended = rec[r].ended
                  \/ rec'[r].ended
                  \/ recording[ProgramOf[r]].abort # "none"
<1>0. rec \in [Recorders -> Goroutine] /\ rec[r] \in Goroutine
  BY DEF TypeOK, OperatorTypeOK
<1> USE DEF Owns, Goroutine
<1>1. CASE OpenStream(r) \/ MarkRecording(r) \/ CreatePart(r) \/ CopyEnds(r) \/ UnlinkPart(r)
  BY <1>0, <1>1 DEF OpenStream, MarkRecording, CreatePart, CopyEnds, UnlinkPart, Goto
<1>2. CASE StopCheck(r)
  BY <1>0, <1>2 DEF StopCheck, Goto
<1>3. CASE AbortCheck(r) \/ Claim(r) \/ Rollback(r) \/ ClearClaim(r)
  BY <1>0, <1>3 DEF AbortCheck, Claim, Rollback, ClearClaim, Goto
<1>4. CASE Watch(r) \/ SetDeadline(r) \/ EndReached(r) \/ CopyData(r)
  BY <1>0, <1>4 DEF Watch, SetDeadline, EndReached, CopyData
<1>5. CASE RemoveFailed(r) \/ ReleaseReserve(r) \/ ForgetReserve(r) \/ PostProcess(r)
  BY <1>0, <1>5 DEF RemoveFailed, ReleaseReserve, ForgetReserve, PostProcess, At,
     CompletedReason
<1>6. CASE Promote(r) \/ CompleteRecording(r)
  BY <1>0, <1>6 DEF Promote, CompleteRecording, Goto, At
<1> QED BY <1>1, <1>2, <1>3, <1>4, <1>5, <1>6 DEF Recorder

\* The goroutine goes to throw its data away only for one of the reasons.
LEMMA UnlinkReasons ==
  ASSUME NothingFails, RowsSafe, MarksExplain, NEW r \in Recorders, Recorder(r),
         rec'[r].pc = "unlink", part'[ProgramOf[r]] = "data"
  PROVE  rec'[r].copyErr \/ recording'[ProgramOf[r]].abort # "none"
<1> DEFINE p == ProgramOf[r]
<1> USE DEF RowsSafe, Goroutine
<1>0. rec \in [Recorders -> Goroutine] /\ rec[r] \in Goroutine
  BY DEF TypeOK, OperatorTypeOK
<1>1. \A kind : ~Fails(kind)
  BY NoFailure
<1>2. Owns(r) => /\ IsRecording(p) /\ ~Claimed(p)
                 /\ rec[r].cancelled /\ ~rec[r].ended => recording[p].abort # "none"
  BY DEF HeldOnce, RowsHeld, Open, MarksExplain
<1>3. CASE StopCheck(r)
  <2>1. UNCHANGED <<part, recording>> /\ Owns(r)
    BY <1>3 DEF StopCheck, fileVars, storeVars, Owns
  <2>2. Cancelled(r) => rec[r].cancelled
    BY DEF Cancelled, MarksExplain
  <2>3. rec'[r].copyErr = rec[r].copyErr
    BY <1>0, <1>1, <1>3 DEF StopCheck
  <2>4. \/ rec[r].copyErr
        \/ rec[r].cancelled /\ ~rec[r].ended
    BY <1>0, <1>1, <1>2, <1>3, <2>1, <2>2 DEF StopCheck
  <2> QED BY <1>2, <2>1, <2>3, <2>4
<1>4. CASE AbortCheck(r)
  <2>1. UNCHANGED <<part, recording>> /\ Owns(r)
    BY <1>4 DEF AbortCheck, fileVars, storeVars, Owns
  <2> QED BY <1>0, <1>1, <1>2, <1>4, <2>1 DEF AbortCheck, Goto
<1>5. CASE Claim(r)
  <2>1. Owns(r) /\ UNCHANGED recording /\ ~MayClaim(p)
    BY <1>0, <1>1, <1>5 DEF Claim, Owns, Goto
  <2> QED BY <1>2, <2>1 DEF MayClaim
<1>6. CASE OpenStream(r) \/ MarkRecording(r) \/ CreatePart(r) \/ CopyEnds(r) \/ UnlinkPart(r)
  BY <1>0, <1>1, <1>6 DEF OpenStream, MarkRecording, CreatePart, CopyEnds, UnlinkPart, Goto
<1>7. CASE Watch(r) \/ SetDeadline(r) \/ EndReached(r) \/ CopyData(r)
  BY <1>0, <1>7 DEF Watch, SetDeadline, EndReached, CopyData
<1>8. CASE \/ RemoveFailed(r) \/ ReleaseReserve(r) \/ ForgetReserve(r) \/ PostProcess(r)
           \/ Promote(r) \/ CompleteRecording(r)
  BY <1>0, <1>8 DEF RemoveFailed, ReleaseReserve, ForgetReserve, PostProcess, At,
     CompletedReason, Promote, CompleteRecording, Goto
<1>9. ~Rollback(r) /\ ~ClearClaim(r)
  BY DEF HeldOnce, NoRollback, Rollback, ClearClaim
<1> QED
  BY <1>3, <1>4, <1>5, <1>6, <1>7, <1>8, <1>9 DEF Recorder

LEMMA ExplainInvariant ==
  ASSUME NothingFails, NeverKilled, RowsSafe, RowsSafe', MarksExplain, [Next]_vars
  PROVE  MarksExplain'
<1> USE DEF RowsSafe
<1>0. /\ rec \in [Recorders -> Goroutine] /\ part \in [Programs -> {"absent", "empty", "data"}]
      /\ \A r \in Recorders : ProgramOf[r] \in Programs
      /\ FilesWork
  BY ProgramOfAssumption DEF TypeOK, OperatorTypeOK, NothingFails, FilesWork
<1>1. ASSUME NEW r \in Recorders, rec'[r] = rec[r]
      PROVE  /\ rec'[r].pc = "fresh" => ~rec'[r].cancelled
             /\ Owns(r)' /\ rec'[r].cancelled /\ ~rec'[r].ended =>
                   recording'[ProgramOf[r]].abort # "none"
             /\ rec'[r].pc = "unlink" /\ part[ProgramOf[r]] = "data" =>
                   rec'[r].copyErr \/ recording'[ProgramOf[r]].abort # "none"
  <2>1. Owns(r)' <=> Owns(r)
    BY <1>1 DEF Owns
  <2>2. rec[r].pc = "unlink" => Owns(r)
    BY DEF Owns
  <2> QED BY <1>1, <2>1, <2>2, MarksStay DEF MarksExplain
<1>2. CASE UNCHANGED <<rec, part>> /\ proc' # "stopping"
  BY <1>1, <1>2 DEF MarksExplain
<1>3. ASSUME NEW r \in Recorders, Recorder(r), UNCHANGED userVars
      PROVE  MarksExplain'
  <2>1. \A s \in Recorders \ {r} : rec'[s] = rec[s]
    BY <1>3, RecorderTouches
  <2>2. proc' # "stopping"
    BY <1>3, RecorderRest DEF RecorderFrame, MarksExplain, TypeOK, OperatorTypeOK
  <2>3. ASSUME NEW s \in Recorders, s # r, rec[s].pc = "unlink",
               part'[ProgramOf[s]] = "data"
        PROVE  part[ProgramOf[s]] = "data"
    <3>1. ~(Holds(r) /\ ProgramOf[r] = ProgramOf[s])
      BY <2>3 DEF HeldOnce, RowsHeld, Holds, Owns
    <3>2. CASE CopyData(r)
      BY <1>0, <2>3, <3>1, <3>2 DEF CopyData, Holds, Owns
    <3>3. CASE CreatePart(r) \/ UnlinkPart(r) \/ Promote(r)
      BY <1>0, <2>3, <3>3 DEF CreatePart, UnlinkPart, DropPart, Promote, fileVars
    <3> QED
      BY <1>3, <2>3, <3>2, <3>3 DEF Recorder, OpenStream, MarkRecording, CopyEnds, Watch,
         SetDeadline, EndReached, StopCheck, AbortCheck, Claim, Rollback, ClearClaim, RemoveFailed,
         ReleaseReserve, CompleteRecording, ForgetReserve, PostProcess, fileVars
  <2>4. /\ rec'[r].pc # "fresh"
        /\ rec'[r].pc = "unlink" /\ part'[ProgramOf[r]] = "data" =>
              rec'[r].copyErr \/ recording'[ProgramOf[r]].abort # "none"
    BY <1>3, LocalsStep, UnlinkReasons
  <2>5. ASSUME Owns(r)', rec'[r].cancelled, ~rec'[r].ended
        PROVE  recording'[ProgramOf[r]].abort # "none"
    <3>1. Owns(r)
      BY <1>3, <2>5, LocalsStep DEF HeldOnce, NoRollback
    <3>2. recording[ProgramOf[r]].abort # "none"
      BY <1>3, <2>5, <3>1, LocalsStep DEF MarksExplain
    <3> QED BY <2>5, <3>1, <3>2, MarksStay
  <2> QED BY <1>1, <2>1, <2>2, <2>3, <2>4, <2>5 DEF MarksExplain
<1>4. CASE Loop
  <2>1. proc' # "stopping" /\ UNCHANGED part
    BY <1>4, LoopRest, LoopLeaves DEF MarksExplain, TypeOK, OperatorTypeOK, Goroutines
  <2>2. ASSUME NEW r \in Recorders, Spawn(r)
        PROVE  MarksExplain'
    <3>1. rec'[r].pc = "stream" /\ ~rec'[r].cancelled
      BY <1>0, <2>2 DEF Spawn, Goto, Goroutine, MarksExplain
    <3>2. \A s \in Recorders \ {r} : rec'[s] = rec[s]
      BY <1>0, <2>2 DEF Spawn, Goto
    <3> QED BY <1>1, <2>1, <3>1, <3>2 DEF MarksExplain
  <2> QED BY <1>2, <1>4, <2>1, <2>2, LoopLeaves
<1>5. CASE Process
  <2>1. ~Shutdown
    BY BoundsAssumption DEF NeverKilled, Shutdown, TypeOK, OperatorTypeOK
  <2>2. proc' # "stopping"
    BY <1>5, <2>1 DEF Process, Crash, Exit, Restart, InitRead, InitWrite, ProcessEnds,
       LoopFrame, MarksExplain
  <2> QED BY <1>2, <1>5, <2>2, ProcessWaits DEF fileVars
<1>6. CASE \/ User \/ SchedulerReads \/ SchedulerPublishes
           \/ \E q \in Programs : AirAdvances(q)
           \/ UNCHANGED vars
  BY <1>2, <1>6, OutsideStep, OutsideFiles DEF MarksExplain
<1> QED BY <1>3, <1>4, <1>5, <1>6 DEF Next

\* What was received is thrown away only when the stream broke or the row
\* bears a mark, while no call fails, the operator is not killed and recorded
\* programs stay: neither the end of the program nor a row, a list or an id
\* read earlier costs a recording.
THEOREM DiscardsAreJustified ==
  ASSUME NothingFails, NeverKilled, NothingDeleted
  PROVE  Spec => DiscardJustified
<1>0. FilesWork
  BY DEF NothingFails, FilesWork
<1>1. Init => MarksExplain
  BY DEF Init, OperatorInit, MarksExplain, At, Owns
<1>2. RowsSafe /\ MarksExplain /\ [Next]_vars =>
        \A p \in Programs :
          part[p] = "data" /\ part'[p] = "absent" /\ ~final'[p] =>
            \/ \E r \in Recorders :
                  ProgramOf[r] = p /\ rec[r].pc = "unlink" /\ rec[r].copyErr
            \/ IsRecording(p) /\ recording[p].abort # "none"
  <2> SUFFICES ASSUME RowsSafe, MarksExplain, [Next]_vars, NEW p \in Programs,
                      part[p] = "data", part'[p] = "absent", ~final'[p]
               PROVE  \/ \E r \in Recorders :
                            ProgramOf[r] = p /\ rec[r].pc = "unlink" /\ rec[r].copyErr
                      \/ IsRecording(p) /\ recording[p].abort # "none"
    OBVIOUS
  <2>0. /\ part \in [Programs -> {"absent", "empty", "data"}]
        /\ final \in [Programs -> BOOLEAN]
        /\ \A r \in Recorders : ProgramOf[r] \in Programs
        /\ part'[p] # part[p]
    BY ProgramOfAssumption DEF RowsSafe, TypeOK, OperatorTypeOK
  <2>1. ASSUME NEW r \in Recorders, UnlinkPart(r)
        PROVE  \/ \E s \in Recorders :
                     ProgramOf[s] = p /\ rec[s].pc = "unlink" /\ rec[s].copyErr
               \/ IsRecording(p) /\ recording[p].abort # "none"
    <3>1. ProgramOf[r] = p /\ rec[r].pc = "unlink"
      BY <2>0, <2>1 DEF UnlinkPart, DropPart
    <3>2. rec[r].copyErr \/ recording[p].abort # "none"
      BY <3>1 DEF MarksExplain
    <3>3. IsRecording(p)
      BY <3>1 DEF RowsSafe, HeldOnce, RowsHeld, Open, Owns
    <3> QED BY <3>1, <3>2, <3>3
  <2>2. ASSUME NEW r \in Recorders, Recorder(r), ~UnlinkPart(r)
        PROVE  FALSE
    <3>1. CASE CreatePart(r) \/ CopyData(r)
      BY <2>0, <3>1 DEF CreatePart, CopyData
    <3>2. CASE Promote(r)
      BY <2>0, <3>2 DEF Promote, fileVars
    <3> QED
      BY <2>0, <2>2, <3>1, <3>2 DEF Recorder, OpenStream, MarkRecording, CopyEnds, Watch,
         SetDeadline, EndReached, StopCheck, AbortCheck, Claim, Rollback, ClearClaim, RemoveFailed,
         ReleaseReserve, CompleteRecording, ForgetReserve, PostProcess, fileVars
  <2>3. UNCHANGED part \/ \E r \in Recorders : Recorder(r)
    BY LoopLeaves, ProcessWaits, OutsideFiles DEF Next, fileVars, RowsSafe
  <2> QED BY <2>0, <2>1, <2>2, <2>3
<1>3. (Init => RowsSafe) /\ (RowsSafe /\ [Next]_vars => RowsSafe')
  BY <1>0, HeldInvariant
<1>4. RowsSafe /\ RowsSafe' /\ MarksExplain /\ [Next]_vars => MarksExplain'
  BY ExplainInvariant
<1> QED BY <1>1, <1>2, <1>3, <1>4, PTL DEF Spec, DiscardJustified

----------------------------------------------------------------------------
(* What a user stopped.                                                    *)

NoSchedulerRuns == MaxSchedules = 0

\* Where the loop has dropped the reservations that are not active.
Filtered == Listed \ {"readRecorded", "listCleanup", "cleanup", "readDue"}

\* A stopped program has no active reservation, and what the pass still knows
\* of one that was active will not start it: the program was recording when it
\* was stopped, so its row was seen, or was not yet looked for.
StopHolds ==
  /\ plan = None
  /\ \A p \in stopped :
        /\ reserve[p] # "active"
        /\ loop \in Filtered => p \notin due \/ p \in recordingIDs
        /\ loop = "start" => p \notin todo

\* How a step of the loop gets to where it decides on reservations.
LEMMA DueStep ==
  ASSUME TypeOK, Loop
  PROVE  /\ loop' \in Filtered =>
               \/ loop \in Filtered /\ UNCHANGED <<due, recordingIDs>>
               \/ \A p \in due' : reserve[p] = "active"
         /\ loop' = "start" =>
               \/ loop = "start" /\ todo' \subseteq todo
               \/ loop \in Filtered /\ todo' \subseteq due \ recordingIDs
         /\ \A p \in Programs : reserve'[p] \in {reserve[p], "absent"}
<1> DEFINE Decides == /\ loop' \in Filtered =>
                            \/ loop \in Filtered /\ UNCHANGED <<due, recordingIDs>>
                            \/ \A p \in due' : reserve[p] = "active"
                      /\ loop' = "start" =>
                            \/ loop = "start" /\ todo' \subseteq todo
                            \/ loop \in Filtered /\ todo' \subseteq due \ recordingIDs
           Keeps == \A p \in Programs : reserve'[p] \in {reserve[p], "absent"}
<1>0. reserve \in [Programs -> {"absent", "active", "skip"}]
  BY DEF TypeOK, OperatorTypeOK, StoreTypeOK
<1>1. ASSUME LoopFails("store") \/ LoopFails("file")
      PROVE  Decides /\ Keeps
  BY <1>1 DEF LoopFails, Enter, storeVars, Filtered, Listed
<1>2. CASE loop' \notin Filtered \cup {"start"} /\ UNCHANGED reserve
  BY <1>2
<1>3. CASE \/ Tick \/ ListCompletions \/ ReadRecordingIDs \/ ReadRecordedIDs \/ ListCleanup
           \/ EndTick \/ \E r \in Recorders : Spawn(r)
  BY <1>1, <1>2, <1>3 DEF Tick, ListCompletions, ReadRecordingIDs, ReadRecordedIDs,
     ListCleanup, EndTick, Spawn, Enter, storeVars, Filtered, Listed
<1>4. CASE ReadDue
  BY <1>0, <1>1, <1>4 DEF ReadDue, Enter, storeVars
<1>5. CASE ReadSkipped \/ CheckSpace
  BY <1>1, <1>5 DEF ReadSkipped, CheckSpace, Enter, ToStart, ShouldStart, storeVars,
     snapVars, Filtered, Listed
<1>6. ASSUME NEW q \in Programs,
             RetryRemoval(q) \/ RetryRollback(q) \/ RetryCompletion(q)
      PROVE  Decides /\ Keeps
  BY <1>6 DEF RetryRemoval, RetryRollback, RetryCompletion, Enter, Filtered, Listed
<1>7. ASSUME NEW q \in Programs, RetryDelete(q) \/ CleanupReserve(q)
      PROVE  Decides /\ Keeps
  BY <1>0, <1>7 DEF RetryDelete, CleanupReserve, DeleteReserve, Enter, Filtered, Listed
<1>8. ASSUME NEW q \in Programs,
             \/ CheckSkipped(q) \/ AbortSkipped(q) \/ LowSpaceStop(q)
             \/ LowSpaceUnlink(q) \/ LowSpaceRemove(q) \/ StartRecording(q)
      PROVE  Decides /\ Keeps
  BY <1>1, <1>8 DEF CheckSkipped, AbortSkipped, LowSpaceStop, LowSpaceUnlink,
     LowSpaceRemove, StartRecording, Enter, ToStart, ShouldStart, storeVars, snapVars,
     Filtered, Listed
<1>9. CASE \/ Advance("removals", "rollbacks", {p \in Programs : rollbacks[p] # None})
           \/ Advance("rollbacks", "listCompletions", {})
           \/ Advance("completions", "deletes", deletes)
           \/ Advance("completions", "initRead", {})
           \/ Advance("deletes", "readRecording", {})
           \/ Advance("cleanup", "readDue", {})
           \/ Advance("skipped", "readSpace", {})
           \/ Advance("lowStop", "start", ToStart)
           \/ Advance("start", "spawn", pending)
  BY <1>9 DEF Advance, Enter, ToStart, ShouldStart, storeVars, snapVars, Filtered, Listed
<1> QED BY <1>1, <1>3, <1>4, <1>5, <1>6, <1>7, <1>8, <1>9 DEF Loop

LEMMA StopInvariant ==
  ASSUME NoSchedulerRuns, TypeOK, SnapshotsHold, StartIsFresh, StopHolds, [Next]_vars
  PROVE  StopHolds'
<1>0. /\ reserve \in [Programs -> {"absent", "active", "skip"}]
      /\ stopped \subseteq Programs
      /\ \A r \in Recorders : ProgramOf[r] \in Programs
  BY ProgramOfAssumption DEF TypeOK, OperatorTypeOK, StoreTypeOK
<1>1. ASSUME UNCHANGED userVars, \A p \in Programs : reserve'[p] \in {reserve[p], "absent"},
             UNCHANGED loopVars \/ loop' \notin Filtered \cup {"start"}
      PROVE  StopHolds'
  BY <1>0, <1>1 DEF StopHolds, userVars, loopVars, snapVars
<1>2. ASSUME NEW r \in Recorders, Recorder(r), UNCHANGED userVars
      PROVE  StopHolds'
  <2>1. UNCHANGED loopVars
    BY <1>2, RecorderRest DEF RecorderFrame, TypeOK, OperatorTypeOK
  <2>2. \A p \in Programs : reserve'[p] \in {reserve[p], "absent"}
    <3>1. CASE ReleaseReserve(r) \/ ForgetReserve(r)
      BY <1>0, <3>1 DEF ReleaseReserve, ForgetReserve, DeleteReserve
    <3> QED
      BY <1>2, <3>1 DEF Recorder, OpenStream, MarkRecording, CreatePart, CopyData, CopyEnds,
         Watch, SetDeadline, EndReached, StopCheck, AbortCheck, Claim, Promote, Rollback, ClearClaim,
         UnlinkPart, RemoveFailed, CompleteRecording, PostProcess, storeVars
  <2> QED BY <1>1, <1>2, <2>1, <2>2
<1>3. CASE Loop /\ UNCHANGED userVars
  <2> SUFFICES ASSUME NEW p \in stopped
               PROVE  /\ reserve'[p] # "active"
                      /\ loop' \in Filtered => p \notin due' \/ p \in recordingIDs'
                      /\ loop' = "start" => p \notin todo'
    BY <1>3 DEF StopHolds, userVars
  <2> QED BY <1>0, <1>3, DueStep DEF StopHolds
<1>4. CASE Process /\ UNCHANGED userVars
  <2>1. UNCHANGED reserve /\ loop' \notin Filtered \cup {"start"}
    BY <1>4 DEF Process, Crash, Shutdown, Exit, Restart, InitRead, InitWrite, ProcessEnds,
       Enter, storeVars, Filtered, Listed
  <2> QED BY <1>1, <1>4, <2>1
<1>5. CASE \E q \in Programs : Stop(q)
  <2>1. PICK q \in Programs : Stop(q)
    BY <1>5
  <2>2. /\ IsRecording(q) /\ stopped' = stopped \cup {q} /\ UNCHANGED <<loopVars, plan>>
        /\ reserve' = [reserve EXCEPT ![q] = IF @ = "absent" THEN @ ELSE "skip"]
    BY <2>1 DEF Stop, StopByUser, HandlerFrame, opVars
  <2>3. loop \in Filtered => q \in recordingIDs
    BY <2>2 DEF SnapshotsHold, Filtered
  <2>4. loop = "start" => q \notin todo
    BY <2>2 DEF StartIsFresh
  <2>5. reserve'[q] # "active" /\ \A p \in Programs \ {q} : reserve'[p] = reserve[p]
    BY <1>0, <2>2
  <2> QED BY <1>0, <2>2, <2>3, <2>4, <2>5 DEF StopHolds, loopVars, snapVars
<1>6. CASE WriteReserve
  <2>1. /\ UNCHANGED <<loopVars, plan>> /\ stopped' \subseteq stopped
        /\ \A p \in stopped' : reserve'[p] # "active"
    BY <1>0, <1>6 DEF WriteReserve, UpsertReserve, HandlerFrame, opVars, StopHolds
  <2> QED BY <2>1 DEF StopHolds, loopVars, snapVars
<1>7. CASE \/ WriteRecorded \/ RestoreStaged \/ UNCHANGED vars
           \/ \E q \in Programs : \/ Reserve(q) \/ Skip(q) \/ Unskip(q) \/ Unreserve(q)
                                  \/ DeleteRecorded(q) \/ DeleteFile(q) \/ CleanupRecorded(q)
                                  \/ AirAdvances(q) /\ UNCHANGED userVars
  <2>1. /\ UNCHANGED <<loopVars, plan, stopped>>
        /\ \A p \in Programs : reserve'[p] \in {reserve[p], "absent"}
    BY <1>0, <1>7 DEF WriteRecorded, Reserve, Skip, Unskip, Unreserve, DeleteReserve,
       DeleteRecorded, DeleteFile, RestoreStaged, FileFrame, CleanupRecorded,
       AirAdvances, HandlerFrame, opVars, userVars, vars, storeVars
  <2> QED BY <1>0, <2>1 DEF StopHolds, loopVars, snapVars
<1>8. ~SchedulerReads /\ ~SchedulerPublishes
  BY UserBoundsAssumption
  DEF SchedulerReads, SchedulerPublishes, NoSchedulerRuns, StopHolds, TypeOK
<1> QED BY <1>2, <1>3, <1>4, <1>5, <1>6, <1>7, <1>8 DEF Next, User

\* A program whose recording a user stopped is not recorded again until
\* somebody reserves or unskips it, whatever fails and however often the
\* operator is killed and restarted, while the scheduler does not run.
THEOREM StoppedStays ==
  ASSUME NoSchedulerRuns
  PROVE  Spec => StoppedNotRestarted
<1>1. Init => SnapshotsHold /\ StartIsFresh /\ StopHolds
  BY DEF Init, OperatorInit, SnapshotsHold, StartIsFresh, Listed, StopHolds
<1>2. TypeOK /\ SnapshotsHold /\ StartIsFresh /\ StopHolds /\ [Next]_vars
         => SnapshotsHold' /\ StartIsFresh' /\ StopHolds'
  BY FreshInvariant, StopInvariant
<1>3. TypeOK /\ StopHolds /\ [Next]_vars =>
         \A p \in stopped : IsRecording(p)' => IsRecording(p)
  <2> SUFFICES ASSUME TypeOK, StopHolds, [Next]_vars, NEW p \in stopped, IsRecording(p)'
               PROVE  IsRecording(p)
    OBVIOUS
  <2>1. RowStep(p) /\ (loop = "start" => p \notin todo)
    BY EveryRowStep DEF TypeOK, StopHolds
  <2> QED BY <2>1 DEF RowStep, IsRecording, MayClaim
<1> QED BY <1>1, <1>2, <1>3, TypeCorrect, PTL DEF Spec, StoppedNotRestarted

----------------------------------------------------------------------------
(* The promise.                                                            *)

\* What a step does to the row of a program that is not listed, and stays so.
RowChange(p) ==
  \/ PhaseOf(p)' = PhaseOf(p) /\ MarkOf(p)' = MarkOf(p)
  \/ PhaseOf(p) = "none" /\ PhaseOf(p)' = "recording" /\ MarkOf(p)' = "none" /\ ~final[p]
  \/ /\ PhaseOf(p) = "recording" /\ PhaseOf(p)' = "recording"
     /\ MarkOf(p)' \in {"system", "user"}
  \/ PhaseOf(p) = "recording" /\ PhaseOf(p)' = "none" /\ MarkOf(p)' = "none"
  \/ /\ PhaseOf(p) = "recording" /\ PhaseOf(p)' = "finishing"
     /\ MarkOf(p) # "system" /\ MarkOf(p)' = MarkOf(p)

LEMMA UnlistedStep ==
  ASSUME FilesWork, NothingDeleted, RowsSafe, FinalIsListed, [Next]_vars,
         NEW p \in Programs, ~IsRecorded(p), recorded'[p] = recorded[p]
  PROVE  RowChange(p)
<1> USE DEF RowsSafe
<1>0. /\ recording \in Rows /\ None \notin Row /\ None \notin Recorders
      /\ recorded \in [Programs -> AbortMark \cup {"absent"}]
  BY NoneAssumption DEF TypeOK, OperatorTypeOK, StoreTypeOK, Rows
<1>1. recording[p] # None => recording[p] \in Row
  BY <1>0 DEF Rows
<1>2. RowStep(p)
  BY EveryRowStep
<1>3. ~IsRecorded(p)'
  BY DEF IsRecorded
<1>4. Claimed(p) => Claimed(p)'
  BY <1>3, PendingStays DEF HeldOnce, RowsApart, PendingCompletion
<1> USE DEF RowChange, PhaseOf, MarkOf, IsRecording, Claimed
<1>5. CASE recording'[p] = recording[p]
  BY <1>3, <1>5
<1>6. CASE recording'[p] = None
  BY <1>3, <1>4, <1>6
<1>7. CASE recording'[p] = FreshRow /\ loop = "start" /\ p \in todo
  <2>1. ~IsRecording(p) /\ ~final[p]
    BY <1>7 DEF StartIsFresh, FinalIsListed, PendingCompletion
  <2> QED BY <1>0, <1>3, <1>7, <2>1 DEF FreshRow, Row, AbortMark
<1>8. CASE /\ IsRecording(p)
           /\ recording'[p] = [recording[p] EXCEPT !.path = TRUE, !.pid = -1]
  <2>1. /\ recording'[p] \in Row /\ recording'[p].claim = recording[p].claim
        /\ recording'[p].abort = recording[p].abort
    BY <1>1, <1>8 DEF Row
  <2> QED BY <1>0, <1>3, <1>8, <2>1
<1>9. ASSUME IsRecording(p), ~Claimed(p), NEW a \in {"system", "user"},
             recording'[p] = [recording[p] EXCEPT !.abort = a]
      PROVE  RowChange(p)
  <2>1. /\ recording'[p] \in Row /\ recording'[p].claim = recording[p].claim
        /\ recording'[p].abort = a
    BY <1>1, <1>9 DEF Row, AbortMark
  <2> QED BY <1>0, <1>3, <1>9, <2>1
<1>10. ASSUME MayClaim(p), NEW r \in Recorders,
              recording'[p] = [recording[p] EXCEPT !.path = TRUE, !.pid = 0, !.claim = r]
       PROVE  RowChange(p)
  <2>1. /\ recording'[p] \in Row /\ recording'[p].claim = r
        /\ recording'[p].abort = recording[p].abort
    BY <1>1, <1>10 DEF Row, MayClaim
  <2> QED BY <1>0, <1>3, <1>10, <2>1 DEF MayClaim
<1>11. CASE IsRecording(p) /\ recording'[p] = [recording[p] EXCEPT !.claim = None]
  <2>1. /\ recording'[p] \in Row /\ recording'[p].claim = None
        /\ recording'[p].abort = recording[p].abort
    BY <1>1, <1>11 DEF Row
  <2>2. ~Claimed(p)
    BY <1>4, <2>1
  <2> QED BY <1>0, <1>3, <1>11, <2>1, <2>2
<1> QED BY <1>2, <1>5, <1>6, <1>7, <1>8, <1>9, <1>10, <1>11 DEF RowStep

\* The operator implements the promise: every step is, for each program, one of
\* the abstract steps or none, while no call of the file system fails and
\* recorded programs stay.
THEOREM RecorderKeepsPromise ==
  ASSUME FilesWork, NothingDeleted
  PROVE  Spec => KeepsPromise
<1>1. Init => Promise!Init
  BY DEF Init, OperatorInit, StoreInit, Promise!Init, PhaseOf, MarkOf, IsRecorded,
     IsRecording, Claimed
<1>2. RowsSafe /\ RowsSafe' /\ FinalIsListed /\ [Next]_vars => Promise!Next
  <2> SUFFICES ASSUME RowsSafe, RowsSafe', FinalIsListed, [Next]_vars,
                      NEW p \in Programs
               PROVE  Promise!Step(p) \/ Promise!Stays(p)
    BY DEF Promise!Next
  <2>0. /\ [q \in Programs |-> PhaseOf(q)][p] = PhaseOf(p)
        /\ [q \in Programs |-> PhaseOf(q)]'[p] = PhaseOf(p)'
        /\ [q \in Programs |-> MarkOf(q)][p] = MarkOf(p)
        /\ [q \in Programs |-> MarkOf(q)]'[p] = MarkOf(p)'
    OBVIOUS
  <2> USE DEF Promise!Step, Promise!Stays, Promise!Moves, Promise!KeepsMark, Promise!KeepsFile
  <2>1. ASSUME final'[p], UNCHANGED storeVars, NEW r \in Recorders, ProgramOf[r] = p,
               rec'[r].pc = "complete"
        PROVE  Promise!Promote(p)
    <3>1. PhaseOf(p)' = PhaseOf(p) /\ MarkOf(p)' = MarkOf(p)
      BY <2>1 DEF PhaseOf, MarkOf, IsRecorded, IsRecording, Claimed, storeVars
    <3>2. PendingCompletion(p)' \/ IsRecorded(p)'
      BY <2>1 DEF RowsSafe, HeldOnce, RowsHeld, Finishes
    <3>3. PhaseOf(p)' \in {"finishing", "recorded"}
      BY <3>2 DEF PhaseOf, PendingCompletion
    <3> QED BY <2>0, <2>1, <3>1, <3>3 DEF Promise!Promote
  <2>2. CASE final'[p] = final[p] /\ recorded'[p] # recorded[p]
    <3>1. /\ PendingCompletion(p) /\ ~IsRecording(p)' /\ IsRecorded(p)'
          /\ recorded'[p] = recording[p].abort
      BY <2>2, CompletesClaimed
    <3>2. IsRecording(p) /\ Claimed(p) /\ ~IsRecorded(p)
      BY <3>1 DEF PendingCompletion, Claimed, RowsSafe, HeldOnce, RowsApart
    <3>3. PhaseOf(p) = "finishing" /\ PhaseOf(p)' = "recorded" /\ MarkOf(p)' = MarkOf(p)
      BY <3>1, <3>2 DEF PhaseOf, MarkOf
    <3> QED BY <2>0, <2>2, <3>3 DEF Promise!List
  <2>3. CASE final'[p] = final[p] /\ recorded'[p] = recorded[p]
    <3>1. CASE IsRecorded(p)
      BY <2>0, <2>3, <3>1 DEF PhaseOf, MarkOf, IsRecorded
    <3>2. CASE ~IsRecorded(p)
      <4>1. RowChange(p)
        BY <2>3, <3>2, UnlistedStep
      <4> QED
        BY <2>0, <2>3, <4>1 DEF RowChange, Promise!Start, Promise!Mark, Promise!Drop,
           Promise!Finish
    <3> QED BY <3>1, <3>2
  <2> QED BY <2>1, <2>2, <2>3, FinalStays
<1>3. (Init => RowsSafe) /\ (RowsSafe /\ [Next]_vars => RowsSafe')
  BY HeldInvariant
<1>4. Spec => []FinalIsListed
  BY FinalsAreListed
<1> QED BY <1>1, <1>2, <1>3, <1>4, PTL DEF Spec, KeepsPromise, Promise!Spec
=============================================================================
