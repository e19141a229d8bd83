--------------------------- MODULE RecordingTypes ---------------------------
(***************************************************************************)
(* Type correctness of RecordingSystem, for every set of programs and      *)
(* recorders, every bound and every choice of faults.                      *)
(***************************************************************************)
EXTENDS RecordingSystem, TLAPS

Rows == [Programs -> Row \cup {None}]

Goroutines == [Recorders -> Goroutine]

----------------------------------------------------------------------------
(* The transactions of ProgramStore.                                       *)

\* Changing the fields of an active row leaves rows.
LEMMA RowUpdates ==
  ASSUME recording \in Rows, NEW p \in Programs, recording[p] # None
  PROVE  /\ \A a \in AbortMark : [recording EXCEPT ![p].abort = a] \in Rows
         /\ \A c \in Recorders \cup {None} :
               [recording EXCEPT ![p].claim = c] \in Rows
         /\ [recording EXCEPT ![p].path = TRUE, ![p].pid = -1] \in Rows
         /\ \A r \in Recorders :
               [recording EXCEPT ![p].path = TRUE, ![p].pid = 0,
                                 ![p].claim = r] \in Rows
  BY DEF Rows, Row

\* Every transaction on the collection "recording" keeps its type.
LEMMA StoreTypes ==
  ASSUME recording \in Rows, NEW p \in Programs,
         \/ UpsertRecording(p) \/ RemoveRecording(p) \/ MarkActive(p)
         \/ SetAbort(p) \/ ClearCompletionClaim(p) \/ StopByUser(p)
         \/ \E r \in Recorders : ClaimCompletion(p, r)
  PROVE  recording' \in Rows
<1>1. CASE UpsertRecording(p) \/ RemoveRecording(p)
  <2>1. FreshRow \in Row
    BY DEF FreshRow, Row, AbortMark
  <2> QED BY <1>1, <2>1 DEF UpsertRecording, RemoveRecording, Rows
<1>2. CASE MarkActive(p) \/ ClearCompletionClaim(p)
  BY <1>2, RowUpdates DEF MarkActive, ClearCompletionClaim, IsRecording
<1>3. CASE SetAbort(p) \/ StopByUser(p)
  <2>1. recording[p] # None => \A a \in {"system", "user"} :
            [recording EXCEPT ![p].abort = a] \in Rows
    BY RowUpdates DEF AbortMark
  <2> QED BY <1>3, <2>1 DEF SetAbort, StopByUser, IsRecording
<1>4. CASE \E r \in Recorders : ClaimCompletion(p, r)
  BY <1>4, RowUpdates DEF ClaimCompletion, MayClaim, IsRecording
<1> QED BY <1>1, <1>2, <1>3, <1>4

\* The recorded row keeps the mark of the active row it replaces.
LEMMA CompleteTypes ==
  ASSUME StoreTypeOK, NEW p \in Programs, Complete(p)
  PROVE  StoreTypeOK' \/ reserve' # reserve
<1>1. recording[p] \in Row
  BY DEF Complete, IsRecording, StoreTypeOK
<1>2. recording[p].abort \in AbortMark
  BY <1>1 DEF Row
<1> QED BY <1>2 DEF Complete, StoreTypeOK

\* A call that may fail stays within the bound on failures.
LEMMA FaultsType ==
  ASSUME faults \in 0..MaxFaults,
         Succeeds \/ \E kind \in {"store", "file"} : Fails(kind)
  PROVE  faults' \in 0..MaxFaults
  BY BoundsAssumption DEF Succeeds, Fails

----------------------------------------------------------------------------
(* The steps of a goroutine.                                               *)

\* The ways a step changes the goroutine's own record keep its type.
LEMMA GoroutineUpdates ==
  ASSUME rec \in Goroutines, NEW r \in Recorders, NEW pc \in RecorderPc
  PROVE  /\ Goto(r, pc) => rec' \in Goroutines
         /\ [rec EXCEPT ![r] = At(pc)] \in Goroutines
         /\ [rec EXCEPT ![r].cancelled = TRUE] \in Goroutines
         /\ [rec EXCEPT ![r].ended = TRUE, ![r].cancelled = TRUE] \in Goroutines
         /\ \A t \in {"set", "none"} : [rec EXCEPT ![r].timer = t] \in Goroutines
         /\ \A b \in BOOLEAN :
              /\ [rec EXCEPT ![r].pc = pc, ![r].copyErr = b] \in Goroutines
              /\ [rec EXCEPT ![r].pc = pc, ![r].noData = b] \in Goroutines
              /\ [rec EXCEPT ![r].pc = pc, ![r].userStopped = b] \in Goroutines
<1>1. At(pc) \in Goroutine
  BY DEF At, Goroutine
<1>2. /\ [rec EXCEPT ![r] = At(pc)] \in Goroutines
      /\ [rec EXCEPT ![r].cancelled = TRUE] \in Goroutines
      /\ [rec EXCEPT ![r].ended = TRUE, ![r].cancelled = TRUE] \in Goroutines
  BY <1>1 DEF Goroutines, Goroutine
<1>3. Goto(r, pc) => rec' \in Goroutines
  BY DEF Goroutines, Goroutine, Goto
<1>4. ASSUME NEW t \in {"set", "none"}
      PROVE  [rec EXCEPT ![r].timer = t] \in Goroutines
  BY <1>4 DEF Goroutines, Goroutine
<1>5. ASSUME NEW b \in BOOLEAN
      PROVE  /\ [rec EXCEPT ![r].pc = pc, ![r].copyErr = b] \in Goroutines
             /\ [rec EXCEPT ![r].pc = pc, ![r].noData = b] \in Goroutines
             /\ [rec EXCEPT ![r].pc = pc, ![r].userStopped = b] \in Goroutines
  <2>1. [rec EXCEPT ![r].pc = pc, ![r].copyErr = b] \in Goroutines
    BY <1>5 DEF Goroutines, Goroutine
  <2>2. [rec EXCEPT ![r].pc = pc, ![r].noData = b] \in Goroutines
    BY <1>5 DEF Goroutines, Goroutine
  <2>3. [rec EXCEPT ![r].pc = pc, ![r].userStopped = b] \in Goroutines
    BY <1>5 DEF Goroutines, Goroutine
  <2> QED BY <2>1, <2>2, <2>3
<1> QED BY <1>2, <1>3, <1>4, <1>5

\* A goroutine's step keeps the goroutines typed ...
LEMMA RecorderLocals ==
  ASSUME rec \in Goroutines, NEW r \in Recorders, Recorder(r)
  PROVE  rec' \in Goroutines
<1>1. CASE OpenStream(r) \/ MarkRecording(r) \/ CreatePart(r) \/ AbortCheck(r)
  BY <1>1, GoroutineUpdates
  DEF OpenStream, MarkRecording, CreatePart, AbortCheck, RecorderPc
<1>2. CASE Claim(r) \/ Promote(r) \/ Rollback(r) \/ ClearClaim(r) \/ UnlinkPart(r)
  BY <1>2, GoroutineUpdates
  DEF Claim, Promote, Rollback, ClearClaim, UnlinkPart, RecorderPc
<1>3. CASE RemoveFailed(r) \/ ReleaseReserve(r) \/ ForgetReserve(r) \/ PostProcess(r)
  BY <1>3, GoroutineUpdates
  DEF RemoveFailed, ReleaseReserve, ForgetReserve, PostProcess, RecorderPc
<1>4. CASE CompleteRecording(r)
  BY <1>4, GoroutineUpdates DEF CompleteRecording, RecorderPc
<1>5. CASE CopyData(r) \/ Watch(r) \/ SetDeadline(r) \/ EndReached(r)
  BY <1>5, GoroutineUpdates DEF CopyData, Watch, SetDeadline, EndReached, RecorderPc
<1>6. CASE CopyEnds(r)
  <2>1. PICK err \in BOOLEAN :
            rec' = [rec EXCEPT ![r].pc = "stopCheck", ![r].copyErr = err]
    BY <1>6 DEF CopyEnds
  <2> QED BY <2>1, GoroutineUpdates DEF RecorderPc
<1>7. CASE StopCheck(r)
  <2> DEFINE stop == IsRecording(ProgramOf[r]) /\ recording[ProgramOf[r]].abort = "user"
             none == stop /\ part[ProgramOf[r]] = "empty"
  <2>1. \/ Goto(r, "unlink")
        \/ rec' = [rec EXCEPT ![r].pc = "unlink", ![r].noData = none]
        \/ rec' = [rec EXCEPT ![r].pc = "abortCheck", ![r].userStopped = stop]
    BY <1>7 DEF StopCheck
  <2>2. stop \in BOOLEAN /\ none \in BOOLEAN
    OBVIOUS
  <2>3. "unlink" \in RecorderPc /\ "abortCheck" \in RecorderPc
    BY DEF RecorderPc
  <2> HIDE DEF stop, none
  <2>4. /\ [rec EXCEPT ![r].pc = "unlink", ![r].noData = none] \in Goroutines
        /\ [rec EXCEPT ![r].pc = "abortCheck", ![r].userStopped = stop]
              \in Goroutines
    BY <2>2, <2>3, GoroutineUpdates
  <2>5. Goto(r, "unlink") => rec' \in Goroutines
    BY <2>3, GoroutineUpdates
  <2> QED BY <2>1, <2>4, <2>5
<1> QED BY <1>1, <1>2, <1>3, <1>4, <1>5, <1>6, <1>7 DEF Recorder

\* ... the tables ...
LEMMA RecorderStore ==
  ASSUME StoreTypeOK, NEW r \in Recorders, Recorder(r)
  PROVE  StoreTypeOK'
<1>0. ProgramOf[r] \in Programs /\ recording \in Rows
  BY ProgramOfAssumption DEF StoreTypeOK, Rows
<1>1. CASE UNCHANGED storeVars
  BY <1>1 DEF storeVars, StoreTypeOK
<1>2. CASE MarkRecording(r) \/ Claim(r) \/ Rollback(r) \/ ClearClaim(r)
  BY <1>0, <1>2, StoreTypes
  DEF MarkRecording, Claim, Rollback, ClearClaim, StoreTypeOK, Rows
<1>3. CASE RemoveFailed(r)
  BY <1>0, <1>3, StoreTypes DEF RemoveFailed, StoreTypeOK, Rows
<1>4. CASE ReleaseReserve(r) \/ ForgetReserve(r)
  BY <1>0, <1>4 DEF ReleaseReserve, ForgetReserve, DeleteReserve, StoreTypeOK
<1>5. CASE CompleteRecording(r)
  BY <1>0, <1>5, CompleteTypes DEF CompleteRecording, StoreTypeOK
<1> QED
  BY <1>1, <1>2, <1>3, <1>4, <1>5
  DEF Recorder, OpenStream, CreatePart, CopyData, CopyEnds, Watch, SetDeadline, EndReached,
      StopCheck, AbortCheck, Promote, UnlinkPart, PostProcess

\* The part of TypeOK about files and retry queues.
FilesAndQueuesOK ==
    /\ part  \in [Programs -> {"absent", "empty", "data"}]
    /\ final \in [Programs -> BOOLEAN]
    /\ removals \subseteq Programs /\ deletes \subseteq Programs
    /\ rollbacks \in [Programs -> Recorders \cup {None}]

\* ... the files and the queues ...
LEMMA RecorderFiles ==
  ASSUME FilesAndQueuesOK, NEW r \in Recorders, Recorder(r)
  PROVE  FilesAndQueuesOK'
<1>0. ProgramOf[r] \in Programs
  BY ProgramOfAssumption
<1>1. CASE UNCHANGED <<fileVars, queueVars>>
  BY <1>1 DEF fileVars, queueVars, FilesAndQueuesOK
<1>2. CASE CreatePart(r) \/ CopyData(r) \/ Promote(r) \/ UnlinkPart(r)
  BY <1>0, <1>2 DEF CreatePart, CopyData, Promote, UnlinkPart, DropPart,
                    fileVars, queueVars, FilesAndQueuesOK
<1>3. CASE ClearClaim(r) \/ RemoveFailed(r) \/ ReleaseReserve(r) \/ ForgetReserve(r)
  BY <1>0, <1>3 DEF ClearClaim, RemoveFailed, ReleaseReserve, ForgetReserve,
                    QueueRemoval, QueueDelete, fileVars, FilesAndQueuesOK
<1> QED
  BY <1>1, <1>2, <1>3
  DEF Recorder, OpenStream, MarkRecording, CopyEnds, Watch, SetDeadline, EndReached,
      StopCheck, AbortCheck, Claim, Rollback, CompleteRecording, PostProcess

\* ... and the bound on failures; it leaves the world and the loop alone.
LEMMA RecorderRest ==
  ASSUME faults \in 0..MaxFaults, NEW r \in Recorders, Recorder(r)
  PROVE  faults' \in 0..MaxFaults /\ RecorderFrame
<1>1. RecorderFrame
  BY DEF Recorder, OpenStream, MarkRecording, CreatePart, CopyData, CopyEnds,
         Watch, SetDeadline, EndReached, StopCheck, AbortCheck, Claim, Promote, Rollback,
         ClearClaim, UnlinkPart, RemoveFailed, ReleaseReserve,
         CompleteRecording, ForgetReserve, PostProcess
<1>2. Succeeds \/ \E kind \in {"store", "file"} : Fails(kind)
  BY DEF Recorder, OpenStream, MarkRecording, CreatePart, CopyData, CopyEnds,
         Watch, SetDeadline, EndReached, StopCheck, AbortCheck, Claim, Promote, Rollback,
         ClearClaim, UnlinkPart, RemoveFailed, ReleaseReserve,
         CompleteRecording, ForgetReserve, PostProcess, Succeeds
<1> QED BY <1>1, <1>2, FaultsType

\* A goroutine's step keeps everything typed.
LEMMA RecorderTypes ==
  ASSUME TypeOK, NEW r \in Recorders, Recorder(r), UNCHANGED userVars
  PROVE  TypeOK'
  BY RecorderLocals, RecorderStore, RecorderFiles, RecorderRest
  DEF TypeOK, OperatorTypeOK, Goroutines, FilesAndQueuesOK, RecorderFrame,
      loopVars, snapVars, userVars

----------------------------------------------------------------------------
(* The steps of the polling loop.                                          *)

\* A step of the loop keeps the tables typed ...
LEMMA LoopStore ==
  ASSUME StoreTypeOK, Loop
  PROVE  StoreTypeOK'
<1>0. recording \in Rows
  BY DEF StoreTypeOK, Rows
<1>1. CASE UNCHANGED storeVars
  BY <1>1 DEF storeVars, StoreTypeOK
<1>2. ASSUME NEW p \in Programs,
             \/ RetryRemoval(p) \/ RetryRollback(p) \/ AbortSkipped(p)
             \/ LowSpaceStop(p) \/ StartRecording(p)
      PROVE  StoreTypeOK'
  BY <1>0, <1>1, <1>2, StoreTypes
  DEF RetryRemoval, RetryRollback, AbortSkipped, LowSpaceStop, StartRecording,
      LoopFails, StoreTypeOK, Rows
<1>3. ASSUME NEW p \in Programs, RetryCompletion(p)
      PROVE  StoreTypeOK'
  BY <1>3, CompleteTypes DEF RetryCompletion, StoreTypeOK
<1>4. ASSUME NEW p \in Programs,
             RetryDelete(p) \/ CleanupReserve(p) \/ LowSpaceRemove(p)
      PROVE  StoreTypeOK'
  BY <1>1, <1>4 DEF RetryDelete, CleanupReserve, LowSpaceRemove, LoopFails,
                    DeleteReserve, RemoveRecorded, StoreTypeOK
<1> QED
  BY <1>1, <1>2, <1>3, <1>4
  DEF Loop, Tick, ListCompletions, ReadRecordingIDs, ReadRecordedIDs,
      ListCleanup, ReadDue, ReadSkipped, CheckSpace, EndTick, Advance,
      CheckSkipped, LowSpaceUnlink, Spawn, LoopFails

\* ... the files and the queues ...
LEMMA LoopFiles ==
  ASSUME FilesAndQueuesOK, Loop
  PROVE  FilesAndQueuesOK'
<1>1. CASE UNCHANGED <<fileVars, queueVars>>
  BY <1>1 DEF fileVars, queueVars, FilesAndQueuesOK
<1>2. ASSUME NEW p \in Programs,
             \/ RetryRemoval(p) \/ RetryRollback(p) \/ RetryDelete(p)
             \/ CleanupReserve(p) \/ LowSpaceUnlink(p)
      PROVE  FilesAndQueuesOK'
  BY <1>1, <1>2 DEF RetryRemoval, RetryRollback, RetryDelete, CleanupReserve,
                    LowSpaceUnlink, LoopFails, QueueDelete, fileVars, queueVars,
                    FilesAndQueuesOK
<1> QED
  BY <1>1, <1>2
  DEF Loop, Tick, ListCompletions, ReadRecordingIDs, ReadRecordedIDs,
      ListCleanup, ReadDue, ReadSkipped, CheckSpace, EndTick, Advance,
      RetryCompletion, CheckSkipped, AbortSkipped, LowSpaceStop,
      LowSpaceRemove, StartRecording, Spawn, LoopFails

\* The locals of startPendingRecordings.
LocalsOK ==
    /\ loop \in LoopPc /\ todo \subseteq Programs
    /\ recordingIDs \subseteq Programs /\ recordedIDs \subseteq Programs
    /\ due \subseteq Programs /\ pending \subseteq Programs

\* ... its own locals ...
LEMMA LoopLocals ==
  ASSUME LocalsOK, FilesAndQueuesOK, Loop
  PROVE  LocalsOK'
<1>1. CASE Tick \/ ListCompletions \/ EndTick
  BY <1>1 DEF Tick, ListCompletions, EndTick, Enter, snapVars, LocalsOK, LoopPc,
              FilesAndQueuesOK
<1>2. CASE \E kind \in {"store", "file"} : LoopFails(kind)
  BY <1>2 DEF LoopFails, Enter, LocalsOK, LoopPc
<1>3. CASE ReadRecordingIDs \/ ReadRecordedIDs \/ ReadDue
  BY <1>2, <1>3 DEF ReadRecordingIDs, ReadRecordedIDs, ReadDue, Enter,
                    LocalsOK, LoopPc
<1>4. CASE ListCleanup \/ ReadSkipped \/ CheckSpace
  BY <1>2, <1>4 DEF ListCleanup, ReadSkipped, CheckSpace, Enter, StaleReserves,
                    SkippedRecordings, ToStart, snapVars, LocalsOK, LoopPc
<1>5. ASSUME NEW p \in Programs,
             \/ RetryRemoval(p) \/ RetryRollback(p) \/ RetryCompletion(p)
             \/ RetryDelete(p) \/ CleanupReserve(p)
      PROVE  LocalsOK'
  BY <1>5 DEF RetryRemoval, RetryRollback, RetryCompletion, RetryDelete,
              CleanupReserve, Enter, snapVars, LocalsOK, LoopPc
<1>6. ASSUME NEW p \in Programs,
             \/ CheckSkipped(p) \/ AbortSkipped(p) \/ LowSpaceStop(p)
             \/ LowSpaceUnlink(p) \/ LowSpaceRemove(p) \/ StartRecording(p)
      PROVE  LocalsOK'
  BY <1>2, <1>6 DEF CheckSkipped, AbortSkipped, LowSpaceStop, LowSpaceUnlink,
                    LowSpaceRemove, StartRecording, Enter, ToStart, snapVars,
                    LocalsOK, LoopPc
<1>7. ASSUME NEW r \in Recorders, Spawn(r)
      PROVE  LocalsOK'
  BY <1>7 DEF Spawn, Enter, snapVars, LocalsOK
<1>8. ASSUME NEW pc \in LoopPc, NEW next \in LoopPc, NEW S \in SUBSET Programs,
             Advance(pc, next, S)
      PROVE  LocalsOK'
  BY <1>8 DEF Advance, Enter, snapVars, LocalsOK
<1> QED
  BY <1>1, <1>3, <1>4, <1>5, <1>6, <1>7, <1>8
  DEF Loop, ToStart, LocalsOK, LoopPc, FilesAndQueuesOK

\* ... and the rest; a failed call only ever makes the process "failed".
LEMMA LoopRest ==
  ASSUME faults \in 0..MaxFaults, rec \in Goroutines, Loop
  PROVE  /\ faults' \in 0..MaxFaults /\ rec' \in Goroutines
         /\ proc' \in {proc, "failed"} /\ UNCHANGED <<air, crashes>>
<1>1. ASSUME NEW kind \in {"store", "file"}, LoopFails(kind)
      PROVE  /\ faults' \in 0..MaxFaults /\ UNCHANGED rec
             /\ proc' = "failed" /\ UNCHANGED <<air, crashes>>
  BY <1>1, FaultsType DEF LoopFails
<1>2. CASE \E r \in Recorders : Spawn(r)
  BY <1>2, GoroutineUpdates DEF Spawn, RecorderPc
<1>3. CASE /\ Succeeds \/ \E kind \in {"store", "file"} : Fails(kind)
           /\ LoopFrame
  BY <1>3, FaultsType DEF LoopFrame
<1>4. CASE \/ Tick \/ ListCompletions \/ ReadRecordingIDs \/ ReadRecordedIDs
           \/ ListCleanup \/ ReadDue \/ ReadSkipped \/ CheckSpace \/ EndTick
  BY <1>1, <1>3, <1>4 DEF Tick, ListCompletions, ReadRecordingIDs,
     ReadRecordedIDs, ListCleanup, ReadDue, ReadSkipped, CheckSpace, EndTick,
     Succeeds
<1>5. ASSUME NEW p \in Programs,
             \/ RetryRemoval(p) \/ RetryRollback(p) \/ RetryCompletion(p)
             \/ RetryDelete(p) \/ CleanupReserve(p) \/ CheckSkipped(p)
             \/ AbortSkipped(p) \/ LowSpaceStop(p) \/ LowSpaceUnlink(p)
             \/ LowSpaceRemove(p) \/ StartRecording(p)
      PROVE  \/ LoopFails("store") \/ LoopFails("file")
             \/ /\ Succeeds \/ \E kind \in {"store", "file"} : Fails(kind)
                /\ LoopFrame
  BY <1>5 DEF RetryRemoval, RetryRollback, RetryCompletion, RetryDelete,
     CleanupReserve, CheckSkipped, AbortSkipped, LowSpaceStop, LowSpaceUnlink,
     LowSpaceRemove, StartRecording
<1> QED
  BY <1>1, <1>2, <1>3, <1>4, <1>5 DEF Loop, Advance, Succeeds

\* A step of the loop keeps everything typed.
LEMMA LoopTypes ==
  ASSUME TypeOK, Loop, UNCHANGED userVars
  PROVE  TypeOK'
  BY LoopStore, LoopFiles, LoopLocals, LoopRest
  DEF TypeOK, OperatorTypeOK, Goroutines, FilesAndQueuesOK, LocalsOK, userVars

----------------------------------------------------------------------------
(* The process, the users, the scheduler and the clock.                    *)

\* What is left when the process ends is typed.
LEMMA EndsTypes ==
  ASSUME TypeOK, UNCHANGED userVars, ProcessEnds("down"),
         faults' \in 0..MaxFaults, crashes' \in 0..MaxCrashes
  PROVE  TypeOK'
<1>1. rec' \in Goroutines
  <2>1. At("done") \in Goroutine
    BY DEF At, Goroutine, RecorderPc
  <2> QED BY <2>1 DEF ProcessEnds, TypeOK, OperatorTypeOK, Goroutines
<1> QED
  BY <1>1 DEF ProcessEnds, Enter, TypeOK, OperatorTypeOK, StoreTypeOK,
              storeVars, fileVars, LoopPc, Goroutines, userVars

\* Kills, shutdowns and start-ups keep everything typed.
LEMMA ProcessTypes ==
  ASSUME TypeOK, Process, UNCHANGED userVars
  PROVE  TypeOK'
<1>0. faults \in 0..MaxFaults /\ crashes \in 0..MaxCrashes
  BY DEF TypeOK, OperatorTypeOK
<1>1. CASE Crash \/ Exit
  BY <1>0, <1>1, EndsTypes, BoundsAssumption DEF Crash, Exit
<1>2. CASE Shutdown
  BY <1>0, <1>2, BoundsAssumption
  DEF Shutdown, Enter, TypeOK, OperatorTypeOK, StoreTypeOK, storeVars,
      fileVars, queueVars, LoopPc, userVars
<1>3. CASE Restart
  BY <1>3 DEF Restart, Enter, TypeOK, OperatorTypeOK, StoreTypeOK, storeVars,
              fileVars, queueVars, snapVars, LoopPc, userVars
<1>4. CASE Fails("store") /\ ProcessEnds("down") /\ UNCHANGED crashes
  BY <1>0, <1>4, EndsTypes, FaultsType
<1>5. CASE InitRead \/ InitWrite
  <2>1. CASE ~(Fails("store") /\ ProcessEnds("down") /\ UNCHANGED crashes)
    BY <1>5, <2>1
    DEF InitRead, InitWrite, Succeeds, Enter, LoopFrame, TypeOK,
        OperatorTypeOK, StoreTypeOK, storeVars, fileVars, queueVars, LoopPc,
        userVars
  <2> QED BY <1>4, <2>1
<1> QED BY <1>1, <1>2, <1>3, <1>5 DEF Process

\* The handlers of the WUI and the CLI keep everything typed.
LEMMA UserTypes ==
  ASSUME TypeOK, User
  PROVE  TypeOK'
<1> USE DEF HandlerFrame, opVars, TypeOK, OperatorTypeOK, StoreTypeOK,
            fileVars, queueVars, loopVars, snapVars
<1>0. userOps \in 0..MaxUserOps /\ recording \in Rows
  BY DEF Rows
<1>1. ASSUME NEW op, Starts(op)
      PROVE  userOps' \in 0..MaxUserOps
  BY <1>0, <1>1, UserBoundsAssumption DEF Starts
<1>2. CASE WriteReserve \/ WriteRecorded
  BY <1>2
  DEF WriteReserve, WriteRecorded, Removing, UpsertReserve, RemoveRecorded, Idle
<1>3. ASSUME NEW p \in Programs,
             Reserve(p) \/ Skip(p) \/ Unskip(p) \/ CleanupRecorded(p)
      PROVE  TypeOK'
  BY <1>1, <1>3 DEF Reserve, Skip, Unskip, CleanupRecorded, Later, storeVars
<1>4. ASSUME NEW p \in Programs, Unreserve(p)
      PROVE  TypeOK'
  BY <1>1, <1>4 DEF Unreserve, DeleteReserve
<1>5. ASSUME NEW p \in Programs, Stop(p)
      PROVE  TypeOK'
  <2>1. recording' \in Rows
    BY <1>0, <1>5, StoreTypes DEF Stop
  <2>2. reserve' \in [Programs -> {"absent", "active", "skip"}]
    BY <1>5 DEF Stop, StopByUser
  <2> QED BY <1>1, <1>5, <2>1, <2>2 DEF Stop, Rows
<1>6. ASSUME NEW p \in Programs, DeleteRecorded(p) \/ DeleteFile(p)
      PROVE  TypeOK'
  <2>1. final' \in [Programs -> BOOLEAN]
    BY <1>6 DEF DeleteRecorded, DeleteFile
  <2>2. userOps' \in 0..MaxUserOps
    BY <1>1, <1>6 DEF DeleteRecorded, DeleteFile
  <2>3. CASE DeleteRecorded(p)
    BY <2>1, <2>2, <2>3 DEF DeleteRecorded, FileFrame, Later, storeVars
  <2>4. CASE DeleteFile(p)
    BY <2>1, <2>2, <2>4 DEF DeleteFile, FileFrame, storeVars
  <2> QED BY <1>6, <2>3, <2>4
<1>7. CASE RestoreStaged
  <2>1. faults' \in 0..MaxFaults
    BY <1>7, FaultsType DEF RestoreStaged
  <2>2. final' \in [Programs -> BOOLEAN]
    BY <1>7 DEF RestoreStaged
  <2> QED BY <1>7, <2>1, <2>2 DEF RestoreStaged, FileFrame, Idle, storeVars
<1> QED BY <1>2, <1>3, <1>4, <1>5, <1>6, <1>7 DEF User

\* So do the scheduler, the clock and a stutter.
LEMMA OtherTypes ==
  ASSUME TypeOK,
         \/ SchedulerReads \/ SchedulerPublishes
         \/ (\E p \in Programs : AirAdvances(p)) /\ UNCHANGED userVars
         \/ UNCHANGED vars
  PROVE  TypeOK'
<1> USE DEF TypeOK, OperatorTypeOK, StoreTypeOK, storeVars, fileVars,
            queueVars, loopVars, snapVars
<1>1. CASE SchedulerReads
  BY <1>1, UserBoundsAssumption DEF SchedulerReads, opVars
<1>2. CASE SchedulerPublishes
  BY <1>2 DEF SchedulerPublishes, opVars
<1>3. CASE (\E p \in Programs : AirAdvances(p)) /\ UNCHANGED userVars
  BY <1>3 DEF AirAdvances, userVars
<1>4. CASE UNCHANGED vars
  BY <1>4 DEF vars, opVars, userVars
<1> QED BY <1>1, <1>2, <1>3, <1>4

----------------------------------------------------------------------------
\* The initial state is typed.
LEMMA InitTypes == Init => TypeOK
<1>1. Init => rec \in Goroutines
  BY DEF Init, OperatorInit, At, Goroutines, Goroutine, RecorderPc
<1> QED
  BY <1>1, BoundsAssumption, UserBoundsAssumption
  DEF Init, OperatorInit, StoreInit, TypeOK, OperatorTypeOK, StoreTypeOK,
      LoopPc, Idle, Goroutines, AbortMark

\* Every step keeps everything typed.
LEMMA NextTypes == TypeOK /\ [Next]_vars => TypeOK'
  BY LoopTypes, ProcessTypes, RecorderTypes, UserTypes, OtherTypes DEF Next

\* Every variable keeps its type: in particular the pid of a row is 0 or -1,
\* its token is absent or names a recorder, and the failures, crashes and
\* handlers stay within their bounds.
THEOREM TypeCorrect == Spec => []TypeOK
  BY InitTypes, NextTypes, PTL DEF Spec
=============================================================================
