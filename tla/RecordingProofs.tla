-------------------------- MODULE RecordingProofs --------------------------
(***************************************************************************)
(* Safety of RecordingSystem for every set of programs and recorders,      *)
(* every bound and every choice of faults.  The argument is in what a step *)
(* may do to an active row, what the loop still knows of the collections   *)
(* when it acts on the lists it has read, and what will take a row away.   *)
(***************************************************************************)
EXTENDS RecordingTypes

\* What one step may do to the active row of p: leave it, drop it, insert it,
\* fill in its path, mark it unless claimed, claim it, drop the claim.
RowStep(p) ==
    \/ recording'[p] = recording[p]
    \/ recording'[p] = None
    \/ /\ recording'[p] = FreshRow
       /\ loop = "start" /\ p \in todo /\ todo' = todo \ {p}
    \/ /\ IsRecording(p)
       /\ recording'[p] = [recording[p] EXCEPT !.path = TRUE, !.pid = -1]
    \/ /\ IsRecording(p) /\ ~Claimed(p)
       /\ \E a \in {"system", "user"} :
             recording'[p] = [recording[p] EXCEPT !.abort = a]
    \/ /\ MayClaim(p)
       /\ \E r \in Recorders :
             recording'[p] = [recording[p] EXCEPT !.path = TRUE, !.pid = 0,
                                                  !.claim = r]
    \/ /\ IsRecording(p)
       /\ recording'[p] = [recording[p] EXCEPT !.claim = None]

\* Each transaction, on whatever program q, is such a step for every program p.
LEMMA TransactionStep ==
  ASSUME recording \in Rows, NEW q \in Programs, NEW p \in Programs,
         \/ RemoveRecording(q) \/ MarkActive(q) \/ SetAbort(q) \/ StopByUser(q)
         \/ ClearCompletionClaim(q) \/ Complete(q) \/ UNCHANGED recording
         \/ \E r \in Recorders : ClaimCompletion(q, r)
         \/ UpsertRecording(q) /\ loop = "start" /\ q \in todo /\ todo' = todo \ {q}
  PROVE  RowStep(p)
<1>1. CASE p # q
  BY <1>1 DEF RowStep, Rows, RemoveRecording, MarkActive, SetAbort, StopByUser,
              ClearCompletionClaim, Complete, ClaimCompletion, UpsertRecording
<1>2. CASE p = q
  <2>1. CASE \/ RemoveRecording(q) \/ Complete(q) \/ UNCHANGED recording
             \/ UpsertRecording(q) /\ loop = "start" /\ q \in todo /\ todo' = todo \ {q}
    BY <1>2, <2>1 DEF RowStep, Rows, RemoveRecording, Complete, UpsertRecording
  <2>2. CASE MarkActive(q) \/ ClearCompletionClaim(q)
    BY <1>2, <2>2 DEF RowStep, Rows, MarkActive, ClearCompletionClaim, IsRecording
  <2>3. CASE SetAbort(q) \/ StopByUser(q)
    BY <1>2, <2>3 DEF RowStep, Rows, SetAbort, StopByUser, IsRecording
  <2>4. CASE \E r \in Recorders : ClaimCompletion(q, r)
    BY <1>2, <2>4 DEF RowStep, Rows, ClaimCompletion
  <2> QED BY <2>1, <2>2, <2>3, <2>4
<1> QED BY <1>1, <1>2

\* So is each step of a goroutine ...
LEMMA RecorderRows ==
  ASSUME TypeOK, NEW r \in Recorders, Recorder(r)
  PROVE  \A p \in Programs : RowStep(p)
<1>0. recording \in Rows /\ ProgramOf[r] \in Programs
  BY ProgramOfAssumption DEF TypeOK, OperatorTypeOK, StoreTypeOK, Rows
<1>1. CASE UNCHANGED recording
  BY <1>0, <1>1, TransactionStep
<1>2. CASE \/ MarkRecording(r) \/ Claim(r) \/ Rollback(r) \/ ClearClaim(r)
           \/ RemoveFailed(r) \/ CompleteRecording(r)
  BY <1>0, <1>2, TransactionStep
  DEF MarkRecording, Claim, Rollback, ClearClaim, RemoveFailed,
      CompleteRecording
<1> QED
  BY <1>1, <1>2
  DEF Recorder, OpenStream, CreatePart, CopyData, CopyEnds, Watch, SetDeadline, EndReached,
      StopCheck, AbortCheck, Promote, UnlinkPart, ReleaseReserve,
      ForgetReserve, PostProcess, storeVars

\* ... and each step of the loop.
LEMMA LoopRows ==
  ASSUME TypeOK, Loop
  PROVE  \A p \in Programs : RowStep(p)
<1>0. recording \in Rows
  BY DEF TypeOK, OperatorTypeOK, StoreTypeOK, Rows
<1>1. CASE UNCHANGED recording
  BY <1>0, <1>1, TransactionStep
<1>2. ASSUME NEW q \in Programs,
             \/ RetryRemoval(q) \/ RetryRollback(q) \/ RetryCompletion(q)
             \/ AbortSkipped(q) \/ LowSpaceStop(q)
      PROVE  \A p \in Programs : RowStep(p)
  <2>1. \/ RemoveRecording(q) \/ Complete(q) \/ SetAbort(q) \/ UNCHANGED recording
    BY <1>2 DEF RetryRemoval, RetryRollback, RetryCompletion, AbortSkipped,
                LowSpaceStop, LoopFails, storeVars
  <2> QED BY <1>0, <2>1, TransactionStep
<1>3. ASSUME NEW q \in Programs, StartRecording(q)
      PROVE  \A p \in Programs : RowStep(p)
  <2>1. \/ UpsertRecording(q) /\ loop = "start" /\ q \in todo /\ todo' = todo \ {q}
        \/ UNCHANGED recording
    BY <1>3 DEF StartRecording, Enter, LoopFails, storeVars
  <2> QED BY <1>0, <2>1, TransactionStep
<1> QED
  BY <1>1, <1>2, <1>3
  DEF Loop, Tick, ListCompletions, ReadRecordingIDs, ReadRecordedIDs,
      ListCleanup, ReadDue, ReadSkipped, CheckSpace, EndTick, Advance,
      RetryDelete, CleanupReserve, CheckSkipped, LowSpaceUnlink,
      LowSpaceRemove, Spawn, LoopFails, storeVars

\* Every step of the system is such a step for every program.
LEMMA EveryRowStep ==
  ASSUME TypeOK, [Next]_vars
  PROVE  \A p \in Programs : RowStep(p)
<1>0. recording \in Rows
  BY DEF TypeOK, OperatorTypeOK, StoreTypeOK, Rows
<1>1. CASE UNCHANGED recording
  BY <1>0, <1>1, TransactionStep
<1>2. CASE InitWrite
  BY <1>1, <1>2 DEF InitWrite, ProcessEnds, storeVars, RowStep
<1>3. CASE \E q \in Programs : Stop(q)
  BY <1>0, <1>3, TransactionStep DEF Stop
<1> QED
  BY <1>1, <1>2, <1>3, RecorderRows, LoopRows
  DEF Next, Process, Crash, Shutdown, Exit, Restart, InitRead, ProcessEnds,
      AirAdvances, User, WriteReserve, WriteRecorded, Reserve, Skip, Unskip,
      Unreserve, DeleteRecorded, DeleteFile, RestoreStaged,
      FileFrame, CleanupRecorded, SchedulerReads,
      SchedulerPublishes, vars, storeVars

\* A program gets into "recorded" only by leaving "recording".
LEMMA RecordedStep ==
  ASSUME TypeOK, [Next]_vars
  PROVE  \A p \in Programs : IsRecorded(p)' => IsRecorded(p) \/ IsRecording(p)
<1>1. CASE UNCHANGED recorded
  BY <1>1 DEF IsRecorded
<1>2. ASSUME NEW q \in Programs, Complete(q) \/ RemoveRecorded(q)
      PROVE  \A p \in Programs : IsRecorded(p)' => IsRecorded(p) \/ IsRecording(p)
  BY <1>2 DEF Complete, RemoveRecorded, IsRecorded, TypeOK, OperatorTypeOK,
              StoreTypeOK
<1>3. ASSUME NEW r \in Recorders, Recorder(r)
      PROVE  UNCHANGED recorded \/ \E q \in Programs : Complete(q)
  BY <1>3, ProgramOfAssumption
  DEF Recorder, OpenStream, MarkRecording, CreatePart, CopyData, CopyEnds,
      Watch, SetDeadline, EndReached, StopCheck, AbortCheck, Claim, Promote, Rollback,
      ClearClaim, UnlinkPart, RemoveFailed, ReleaseReserve, CompleteRecording,
      ForgetReserve, PostProcess, storeVars
<1>4. ASSUME Loop
      PROVE  UNCHANGED recorded
                \/ \E q \in Programs : Complete(q) \/ RemoveRecorded(q)
  BY <1>4
  DEF Loop, Tick, ListCompletions, ReadRecordingIDs, ReadRecordedIDs,
      ListCleanup, ReadDue, ReadSkipped, CheckSpace, EndTick, Advance,
      RetryRemoval, RetryRollback, RetryCompletion, RetryDelete,
      CleanupReserve, CheckSkipped, AbortSkipped, LowSpaceStop, LowSpaceUnlink,
      LowSpaceRemove, StartRecording, Spawn, LoopFails, storeVars
<1>5. ASSUME User
      PROVE  \A p \in Programs : IsRecorded(p)' => IsRecorded(p)
  <2>1. CASE WriteRecorded
    BY <2>1 DEF WriteRecorded, RemoveRecorded, IsRecorded, TypeOK,
                OperatorTypeOK, StoreTypeOK
  <2> QED
    BY <1>1, <1>5, <2>1
    DEF User, WriteReserve, Reserve, Skip, Unskip, Unreserve, Stop,
        DeleteRecorded, DeleteFile, RestoreStaged,
        FileFrame, CleanupRecorded, storeVars, IsRecorded
<1> QED
  BY <1>1, <1>2, <1>3, <1>4, <1>5
  DEF Next, Process, Crash, Shutdown, Exit, Restart, InitRead, InitWrite,
      ProcessEnds, AirAdvances, SchedulerReads, SchedulerPublishes, vars,
      storeVars

----------------------------------------------------------------------------
(* What the loop knows when it starts recordings.                          *)

\* Where it has listed "recording", but inserted nothing yet.
Listed == {"readRecorded", "listCleanup", "cleanup", "readDue", "readSkipped",
           "skipped", "setAbort", "readSpace", "lowStop", "lowUnlink",
           "lowRemove"}

\* A program that was in neither collection when it was listed is still in
\* neither: only the loop inserts active rows, and what gets into "recorded"
\* was in "recording".
SnapshotsHold ==
    /\ loop \in Listed =>
          \A p \in Programs \ recordingIDs : ~IsRecording(p)
    /\ loop \in Listed \ {"readRecorded"} =>
          \A p \in Programs \ (recordingIDs \cup recordedIDs) : ~IsRecorded(p)

\* How a step gets the loop to a place where a list is in use.
ListsKept ==
    /\ loop' \in Listed =>
          \/ loop \in Listed /\ UNCHANGED recordingIDs
          \/ /\ loop = "readRecording" /\ loop' = "readRecorded"
             /\ UNCHANGED storeVars
             /\ recordingIDs' = {p \in Programs : IsRecording(p)}
    /\ loop' \in Listed \ {"readRecorded"} =>
          \/ /\ loop \in Listed \ {"readRecorded"}
             /\ UNCHANGED <<recordingIDs, recordedIDs>>
          \/ /\ loop = "readRecorded" /\ UNCHANGED <<storeVars, recordingIDs>>
             /\ recordedIDs' = {p \in Programs : IsRecorded(p)}
    /\ loop' = "start" =>
          \/ loop = "start" /\ todo' \subseteq todo
          \/ /\ loop \in Listed \ {"readRecorded"}
             /\ todo' \cap (recordingIDs \cup recordedIDs) = {}

\* A list is in use only after it was read, in the same pass, and what is
\* about to be started is on neither.
LEMMA LoopStep ==
  ASSUME TypeOK, [Next]_vars
  PROVE  ListsKept
<1> USE DEF ListsKept
<1>1. CASE UNCHANGED loopVars
  BY <1>1 DEF loopVars, snapVars
<1>2. CASE loop' \notin Listed \cup {"start"}
  BY <1>2 DEF Listed
<1>3. CASE Loop
  <2>1. CASE \/ Tick \/ ListCompletions \/ EndTick
             \/ \E p \in Programs : \/ RetryRemoval(p) \/ RetryRollback(p)
                                    \/ RetryCompletion(p) \/ RetryDelete(p)
             \/ \E r \in Recorders : Spawn(r)
             \/ \E kind \in {"store", "file"} : LoopFails(kind)
    BY <1>2, <2>1 DEF Tick, ListCompletions, EndTick, RetryRemoval,
       RetryRollback, RetryCompletion, RetryDelete, Spawn, LoopFails, Enter,
       Listed
  <2>2. CASE ReadRecordingIDs \/ ReadRecordedIDs \/ ListCleanup \/ ReadDue
                \/ ReadSkipped
    BY <2>1, <2>2 DEF ReadRecordingIDs, ReadRecordedIDs, ListCleanup, ReadDue,
       ReadSkipped, Enter, snapVars, storeVars, Listed
  <2>3. CASE CheckSpace
    BY <2>1, <2>3 DEF CheckSpace, Enter, ToStart, ShouldStart, snapVars, Listed
  <2>4. ASSUME NEW p \in Programs,
               \/ CleanupReserve(p) \/ CheckSkipped(p) \/ AbortSkipped(p)
               \/ LowSpaceStop(p) \/ LowSpaceUnlink(p) \/ LowSpaceRemove(p)
               \/ StartRecording(p)
        PROVE  ListsKept
    BY <2>1, <2>4 DEF CleanupReserve, CheckSkipped, AbortSkipped, LowSpaceStop,
       LowSpaceUnlink, LowSpaceRemove, StartRecording, Enter, ToStart,
       ShouldStart, snapVars, Listed
  <2>5. CASE \/ Advance("removals", "rollbacks",
                        {p \in Programs : rollbacks[p] # None})
             \/ Advance("rollbacks", "listCompletions", {})
             \/ Advance("completions", "deletes", deletes)
             \/ Advance("completions", "initRead", {})
             \/ Advance("deletes", "readRecording", {})
             \/ Advance("cleanup", "readDue", {})
             \/ Advance("skipped", "readSpace", {})
             \/ Advance("lowStop", "start", ToStart)
             \/ Advance("start", "spawn", pending)
    BY <2>5 DEF Advance, Enter, ToStart, ShouldStart, snapVars, Listed
  <2> QED BY <1>3, <2>1, <2>2, <2>3, <2>4, <2>5 DEF Loop
<1>4. CASE Process
  BY <1>2, <1>4 DEF Process, Crash, Shutdown, Exit, Restart, InitRead,
     InitWrite, ProcessEnds, Enter, Listed
<1>5. CASE \E r \in Recorders : Recorder(r)
  BY <1>1, <1>5, RecorderRest DEF RecorderFrame, TypeOK, OperatorTypeOK
<1>6. CASE User
  BY <1>1, <1>6 DEF User, WriteReserve, WriteRecorded, Reserve, Skip, Unskip,
     Unreserve, Stop, DeleteRecorded, DeleteFile, RestoreStaged,
     FileFrame, CleanupRecorded, HandlerFrame, opVars
<1> QED
  BY <1>1, <1>3, <1>4, <1>5, <1>6
  DEF Next, AirAdvances, SchedulerReads, SchedulerPublishes, opVars, vars

\* StartIsFresh with SnapshotsHold is inductive.
LEMMA FreshInvariant ==
  ASSUME TypeOK, SnapshotsHold, StartIsFresh, [Next]_vars
  PROVE  SnapshotsHold' /\ StartIsFresh'
<1>1. \A p \in Programs :
         IsRecording(p)' =>
            \/ IsRecording(p)
            \/ loop = "start" /\ p \in todo /\ todo' = todo \ {p}
  <2> SUFFICES ASSUME NEW p \in Programs, IsRecording(p)', ~IsRecording(p)
               PROVE  loop = "start" /\ p \in todo /\ todo' = todo \ {p}
    OBVIOUS
  <2>1. RowStep(p)
    BY EveryRowStep
  <2> QED BY <2>1 DEF RowStep, IsRecording, MayClaim
<1>2. \A p \in Programs : IsRecorded(p)' => IsRecorded(p) \/ IsRecording(p)
  BY RecordedStep
<1>3. SnapshotsHold'
  <2>1. ASSUME loop' \in Listed, NEW p \in Programs \ recordingIDs'
        PROVE  ~IsRecording(p)'
    BY <1>1, <2>1, LoopStep DEF ListsKept, SnapshotsHold, Listed, storeVars,
       IsRecording
  <2>2. ASSUME loop' \in Listed \ {"readRecorded"},
               NEW p \in Programs \ (recordingIDs' \cup recordedIDs')
        PROVE  ~IsRecorded(p)'
    BY <1>2, <2>2, LoopStep DEF ListsKept, SnapshotsHold, Listed, storeVars,
       IsRecorded
  <2> QED BY <2>1, <2>2 DEF SnapshotsHold
<1>4. StartIsFresh'
  <2>1. SUFFICES ASSUME loop' = "start", NEW p \in todo'
                 PROVE  ~IsRecording(p)' /\ ~IsRecorded(p)'
    BY DEF StartIsFresh
  <2>2. p \in Programs
    BY NextTypes DEF TypeOK, OperatorTypeOK
  <2>3. ~IsRecording(p) /\ ~IsRecorded(p)
    BY <2>1, <2>2, LoopStep DEF ListsKept, StartIsFresh, SnapshotsHold
  <2> QED BY <1>1, <1>2, <2>1, <2>2, <2>3 DEF Listed
<1> QED BY <1>3, <1>4

\* When a pass inserts an active row, the program is in neither collection:
\* nothing is overwritten, and nothing that was recorded is recorded again.
THEOREM StartsAreFresh == Spec => []StartIsFresh
<1>1. Init => SnapshotsHold /\ StartIsFresh
  BY DEF Init, OperatorInit, SnapshotsHold, StartIsFresh, Listed
<1>2. TypeOK /\ SnapshotsHold /\ StartIsFresh /\ [Next]_vars
         => (SnapshotsHold /\ StartIsFresh)'
  BY FreshInvariant
<1> QED BY <1>1, <1>2, TypeCorrect, PTL DEF Spec

----------------------------------------------------------------------------
(* The claim.                                                              *)

\* A claimed row bears no mark of the system: the transaction that marks
\* refuses a claimed row, and the one that claims a marked row.
THEOREM ClaimExcludesAbort == Spec => []ClaimedNotAborted
<1>1. Init => ClaimedNotAborted
  BY DEF Init, OperatorInit, StoreInit, ClaimedNotAborted, Claimed, IsRecording
<1>2. TypeOK /\ ClaimedNotAborted /\ [Next]_vars => ClaimedNotAborted'
  <2> SUFFICES ASSUME TypeOK, ClaimedNotAborted, [Next]_vars,
                      NEW p \in Programs, Claimed(p)'
               PROVE  recording'[p].abort # "system"
    BY DEF ClaimedNotAborted
  <2>1. RowStep(p) /\ recording[p] \in Row \cup {None}
    BY EveryRowStep DEF TypeOK, OperatorTypeOK, StoreTypeOK
  <2>2. CASE recording'[p] \in {recording[p], None, FreshRow}
    BY <2>2 DEF ClaimedNotAborted, Claimed, IsRecording, FreshRow
  <2>3. ASSUME IsRecording(p)
        PROVE  recording[p] \in Row
    BY <2>1, <2>3 DEF IsRecording
  <2>4. CASE /\ IsRecording(p)
             /\ recording'[p] = [recording[p] EXCEPT !.path = TRUE, !.pid = -1]
    BY <2>3, <2>4 DEF ClaimedNotAborted, Claimed, IsRecording, Row
  <2>5. CASE /\ IsRecording(p) /\ ~Claimed(p)
             /\ \E a \in {"system", "user"} :
                   recording'[p] = [recording[p] EXCEPT !.abort = a]
    BY <2>3, <2>5 DEF Claimed, IsRecording, Row
  <2>6. CASE /\ MayClaim(p)
             /\ \E r \in Recorders :
                   recording'[p] = [recording[p] EXCEPT !.path = TRUE, !.pid = 0,
                                                        !.claim = r]
    BY <2>3, <2>6 DEF MayClaim, Row
  <2>7. CASE /\ IsRecording(p)
             /\ recording'[p] = [recording[p] EXCEPT !.claim = None]
    BY <2>3, <2>7 DEF Claimed, IsRecording, Row
  <2> QED BY <2>1, <2>2, <2>4, <2>5, <2>6, <2>7 DEF RowStep
<1> QED BY <1>1, <1>2, TypeCorrect, PTL DEF Spec

\* A claimed row keeps its mark for as long as it is active: neither a stop nor
\* a row inserted over it changes what the claim decided.
THEOREM ClaimIsFinal == Spec => ClaimFixesMark
<1>1. TypeOK /\ StartIsFresh /\ [Next]_vars =>
         \A p \in Programs : Claimed(p) /\ IsRecording(p)' =>
            recording'[p].abort = recording[p].abort
  <2> SUFFICES ASSUME TypeOK, StartIsFresh, [Next]_vars,
                      NEW p \in Programs, Claimed(p), IsRecording(p)'
               PROVE  recording'[p].abort = recording[p].abort
    OBVIOUS
  <2>1. RowStep(p) /\ recording[p] \in Row
    BY EveryRowStep DEF TypeOK, OperatorTypeOK, StoreTypeOK, Claimed, IsRecording
  <2> QED
    BY <2>1 DEF RowStep, StartIsFresh, Claimed, IsRecording, MayClaim, Row
<1> QED BY <1>1, TypeCorrect, StartsAreFresh, PTL DEF Spec, ClaimFixesMark

----------------------------------------------------------------------------
(* What takes a row away.  RowHasOwner counts any live goroutine; the       *)
(* inductive invariant RowsOwned counts only those that have not removed    *)
(* the row yet, and those entries of the retry queues that still match it.  *)

\* The goroutine will remove the row, claim it, or queue its removal.
Owns(r) == rec[r].pc \in {"stream", "mark", "create", "copy", "stopCheck",
                          "abortCheck", "claim", "unlink", "remove"}

\* A queued rollback that still matches the row.
RollbackPending(p) ==
    /\ rollbacks[p] # None
    /\ recording[p].path /\ recording[p].pid = 0 /\ recording[p].claim = None

Owned(p) ==
    \/ \E r \in Recorders : ProgramOf[r] = p /\ Owns(r)
    \/ loop = "start" /\ p \in pending
    \/ loop = "spawn" /\ p \in todo
    \/ PendingCompletion(p)
    \/ p \in removals
    \/ RollbackPending(p)

RowsOwned == proc = "up" => \A p \in Programs : IsRecording(p) => Owned(p)

\* What the loop may be doing while the process is in each state; at start-up
\* nothing changes the rows that are kept.
LoopMatchesProcess ==
    /\ proc = "down" => loop = "idle"
    /\ proc = "init" => loop \in {"listCompletions", "completions", "initRead",
                                  "initWrite"}
    /\ loop \in {"initRead", "initWrite"} => proc = "init"
    /\ proc \in {"down", "init"} => \A r \in Recorders : ~Live(r)
    /\ loop = "initWrite" =>
          \A p \in pending : IsRecording(p) => PendingCompletion(p)
    /\ loop = "spawn" => todo \subseteq pending

\* A goroutine steps only while it is live, and touches only its own record,
\* its own program's row, and that program's entries in the queues.
LEMMA RecorderTouches ==
  ASSUME TypeOK, NEW r \in Recorders, Recorder(r)
  PROVE  /\ Live(r)
         /\ \A p \in Programs \ {ProgramOf[r]} :
               recording'[p] = recording[p] /\ rollbacks'[p] = rollbacks[p]
         /\ \A s \in Recorders \ {r} : rec'[s] = rec[s]
         /\ removals \subseteq removals'
<1> USE ProgramOfAssumption
<1>1. Live(r)
  BY DEF Live, Recorder, OpenStream, MarkRecording, CreatePart, CopyData,
         CopyEnds, Watch, SetDeadline, EndReached, StopCheck, AbortCheck, Claim, Promote,
         Rollback, ClearClaim, UnlinkPart, RemoveFailed, ReleaseReserve,
         CompleteRecording, ForgetReserve, PostProcess
<1>2. ASSUME NEW p \in Programs, p # ProgramOf[r]
      PROVE  recording'[p] = recording[p]
  <2>1. CASE UNCHANGED recording
    BY <2>1
  <2>2. CASE \/ MarkRecording(r) \/ Claim(r) \/ Rollback(r) \/ ClearClaim(r)
             \/ RemoveFailed(r) \/ CompleteRecording(r)
    BY <1>2, <2>2 DEF MarkRecording, Claim, Rollback, ClearClaim, RemoveFailed,
       CompleteRecording, MarkActive, ClaimCompletion, RemoveRecording,
       ClearCompletionClaim, Complete, TypeOK, OperatorTypeOK, StoreTypeOK
  <2> QED
    BY <2>1, <2>2
    DEF Recorder, OpenStream, CreatePart, CopyData, CopyEnds, Watch, SetDeadline, EndReached,
        StopCheck, AbortCheck, Promote, UnlinkPart, ReleaseReserve,
        ForgetReserve, PostProcess, storeVars
<1>3. ASSUME NEW p \in Programs, p # ProgramOf[r]
      PROVE  rollbacks'[p] = rollbacks[p]
  BY <1>3
  DEF Recorder, OpenStream, MarkRecording, CreatePart, CopyData, CopyEnds,
      Watch, SetDeadline, EndReached, StopCheck, AbortCheck, Claim, Promote, Rollback,
      ClearClaim, UnlinkPart, RemoveFailed, ReleaseReserve, CompleteRecording,
      ForgetReserve, PostProcess, queueVars, TypeOK, OperatorTypeOK
<1>4. ASSUME NEW s \in Recorders, s # r
      PROVE  rec'[s] = rec[s]
  BY <1>4
  DEF Recorder, OpenStream, MarkRecording, CreatePart, CopyData, CopyEnds,
      Watch, SetDeadline, EndReached, StopCheck, AbortCheck, Claim, Promote, Rollback,
      ClearClaim, UnlinkPart, RemoveFailed, ReleaseReserve, CompleteRecording,
      ForgetReserve, PostProcess, Goto, TypeOK, OperatorTypeOK
<1>5. removals \subseteq removals'
  BY DEF Recorder, OpenStream, MarkRecording, CreatePart, CopyData, CopyEnds,
      Watch, SetDeadline, EndReached, StopCheck, AbortCheck, Claim, Promote, Rollback,
      ClearClaim, UnlinkPart, RemoveFailed, ReleaseReserve, CompleteRecording,
      ForgetReserve, PostProcess, QueueRemoval, queueVars
<1> QED BY <1>1, <1>2, <1>3, <1>4, <1>5

----------------------------------------------------------------------------
\* When recorder r steps and does not own its row afterwards, it has claimed
\* the row or queued its removal, the row is gone, or r did not own it before
\* and changes nothing.
LEMMA LettingGo ==
  ASSUME TypeOK, NEW r \in Recorders, Recorder(r), ~Owns(r)',
         IsRecording(ProgramOf[r])'
  PROVE  \/ PendingCompletion(ProgramOf[r])'
         \/ ProgramOf[r] \in removals'
         \/ /\ ~Owns(r)
            /\ recording'[ProgramOf[r]] = recording[ProgramOf[r]]
            /\ rollbacks'[ProgramOf[r]] = rollbacks[ProgramOf[r]]
<1> DEFINE p == ProgramOf[r]
<1>0. p \in Programs /\ recording[p] \in Row \cup {None} /\ None \notin Recorders
  BY ProgramOfAssumption, NoneAssumption DEF TypeOK, OperatorTypeOK, StoreTypeOK
<1>1. CASE \/ OpenStream(r) \/ MarkRecording(r) \/ CreatePart(r) \/ CopyData(r)
           \/ CopyEnds(r) \/ Watch(r) \/ SetDeadline(r) \/ EndReached(r) \/ StopCheck(r)
           \/ AbortCheck(r) \/ UnlinkPart(r) \/ ClearClaim(r)
  <2>1. Owns(r)'
    BY <1>1 DEF OpenStream, MarkRecording, CreatePart, CopyData, CopyEnds, Watch,
       SetDeadline, EndReached, StopCheck, AbortCheck, UnlinkPart, ClearClaim, Goto, Owns,
       TypeOK, OperatorTypeOK, Goroutine
  <2> QED BY <2>1
<1>2. CASE Claim(r)
  <2>1. CASE ClaimCompletion(p, r)
    BY <1>0, <2>1 DEF ClaimCompletion, MayClaim, PendingCompletion, Claimed,
       IsRecording, TypeOK, OperatorTypeOK, StoreTypeOK, Row
  <2>2. CASE Goto(r, "unlink")
    BY <2>2 DEF Goto, Owns, TypeOK, OperatorTypeOK, Goroutine
  <2> QED BY <1>2, <2>1, <2>2 DEF Claim
<1>3. CASE RemoveFailed(r)
  BY <1>0, <1>3 DEF RemoveFailed, RemoveRecording, QueueRemoval, IsRecording,
     TypeOK, OperatorTypeOK, StoreTypeOK
<1>4. CASE Rollback(r) \/ CompleteRecording(r)
  BY <1>0, <1>4 DEF Rollback, CompleteRecording, RemoveRecording, Complete, Owns,
     IsRecording, queueVars, TypeOK, OperatorTypeOK, StoreTypeOK
<1>5. CASE Promote(r) \/ ReleaseReserve(r) \/ ForgetReserve(r) \/ PostProcess(r)
  BY <1>5 DEF Promote, ReleaseReserve, ForgetReserve, PostProcess, Owns,
     storeVars, queueVars
<1> QED BY <1>1, <1>2, <1>3, <1>4, <1>5 DEF Recorder

\* A goroutine's step leaves every row an owner ...
LEMMA OwnedByRecorder ==
  ASSUME TypeOK, NEW r \in Recorders, Recorder(r),
         NEW p \in Programs, IsRecording(p)', IsRecording(p) => Owned(p)
  PROVE  Owned(p)'
<1>0. UNCHANGED <<loop, todo, pending>> /\ Owned(p)
  <2>1. UNCHANGED <<loop, todo, pending>>
    BY RecorderRest DEF RecorderFrame, loopVars, snapVars, TypeOK, OperatorTypeOK
  <2>2. RowStep(p)
    BY RecorderRows
  <2>3. IsRecording(p)
    BY <2>1, <2>2 DEF RowStep, IsRecording, MayClaim
  <2> QED BY <2>1, <2>3
<1>1. CASE p # ProgramOf[r]
  BY <1>0, <1>1, RecorderTouches
  DEF Owned, Owns, PendingCompletion, RollbackPending, Claimed, IsRecording
<1>2. CASE p = ProgramOf[r]
  <2>1. CASE Owns(r)'
    BY <1>2, <2>1 DEF Owned
  <2>2. CASE PendingCompletion(p)' \/ p \in removals'
    BY <2>2 DEF Owned
  <2>3. CASE /\ ~Owns(r) /\ recording'[p] = recording[p]
             /\ rollbacks'[p] = rollbacks[p]
    BY <1>0, <1>2, <2>3, RecorderTouches
    DEF Owned, Owns, PendingCompletion, RollbackPending, Claimed, IsRecording
  <2> QED BY <1>2, <2>1, <2>2, <2>3, LettingGo
<1> QED BY <1>1, <1>2

----------------------------------------------------------------------------
\* Marking an unclaimed row, or not touching it, takes no owner from it.
LEMMA OwnerStays ==
  ASSUME TypeOK, NEW p \in Programs, IsRecording(p), Owned(p),
         loop \notin {"start", "spawn"},
         UNCHANGED rec, removals \subseteq removals' \cup (Programs \ {p}),
         rollbacks'[p] = rollbacks[p],
         \/ recording'[p] = recording[p]
         \/ \E a \in {"system", "user"} :
               recording'[p] = [recording[p] EXCEPT !.abort = a]
  PROVE  Owned(p)'
<1>1. recording[p] \in Row
  BY DEF TypeOK, OperatorTypeOK, StoreTypeOK, IsRecording
<1>2. /\ recording'[p].path = recording[p].path
      /\ recording'[p].pid = recording[p].pid
      /\ recording'[p].claim = recording[p].claim
  BY <1>1 DEF Row
<1>3. PendingCompletion(p) /\ IsRecording(p)' => PendingCompletion(p)'
  BY <1>2 DEF PendingCompletion, Claimed, IsRecording
<1>4. IsRecording(p)'
  BY <1>1, NoneAssumption DEF IsRecording, Row, AbortMark, TypeOK
<1> QED BY <1>2, <1>3, <1>4 DEF Owned, Owns, RollbackPending

\* ... and so does a step of the loop.
LEMMA OwnedByLoop ==
  ASSUME TypeOK, Loop, proc' = "up", loop = "spawn" => todo \subseteq pending,
         NEW p \in Programs, IsRecording(p)', IsRecording(p) => Owned(p)
  PROVE  Owned(p)'
<1>0. recording \in Rows /\ rollbacks \in [Programs -> Recorders \cup {None}]
  BY DEF TypeOK, OperatorTypeOK, StoreTypeOK, Rows
<1>1. ASSUME LoopFails("store") \/ LoopFails("file")
      PROVE  FALSE
  BY <1>1 DEF LoopFails
<1>2. CASE /\ loop \notin {"start", "spawn"}
           /\ UNCHANGED <<recording, rec, removals, rollbacks>>
  BY <1>2, OwnerStays DEF IsRecording
<1>3. ASSUME NEW q \in Programs, RetryRemoval(q)
      PROVE  Owned(p)'
  <2>1. CASE RemoveRecording(q) /\ removals' = removals \ {q}
    <3>1. p # q
      BY <1>0, <2>1 DEF RemoveRecording, Rows, IsRecording
    <3> QED
      BY <1>0, <1>3, <2>1, <3>1, OwnerStays
      DEF RetryRemoval, RemoveRecording, LoopFrame, Rows, IsRecording
  <2>2. CASE UNCHANGED <<recording, removals>>
    BY <1>2, <1>3, <2>2 DEF RetryRemoval, LoopFrame
  <2> QED BY <1>3, <2>1, <2>2 DEF RetryRemoval
<1>4. ASSUME NEW q \in Programs, RetryRollback(q)
      PROVE  Owned(p)'
  <2>1. loop \notin {"start", "spawn"} /\ UNCHANGED <<rec, removals>>
    BY <1>4 DEF RetryRollback, LoopFrame
  <2>2. CASE p # q
    <3>1. recording'[p] = recording[p] /\ rollbacks'[p] = rollbacks[p]
      BY <1>0, <1>4, <2>2 DEF RetryRollback, RemoveRecording, Rows
    <3> QED BY <2>1, <3>1, OwnerStays DEF IsRecording
  <2>3. CASE p = q /\ UNCHANGED <<recording, rollbacks>>
    BY <1>2, <2>1, <2>3
  <2>4. CASE p = q /\ recording'[p] = recording[p] /\ ~RollbackMatches(p)
    <3>1. Owned(p) /\ ~RollbackPending(p)
      BY <2>4 DEF IsRecording, RollbackMatches, RollbackPending
    <3> QED
      BY <2>1, <2>4, <3>1 DEF Owned, Owns, PendingCompletion, Claimed, IsRecording
  <2> QED
    BY <1>0, <1>4, <2>2, <2>3, <2>4
    DEF RetryRollback, RemoveRecording, Rows, IsRecording
<1>5. ASSUME NEW q \in Programs, RetryCompletion(q)
      PROVE  Owned(p)'
  <2>1. recording'[p] = recording[p]
    BY <1>0, <1>5 DEF RetryCompletion, Complete, Rows, IsRecording
  <2> QED
    BY <1>5, <2>1, OwnerStays DEF RetryCompletion, LoopFrame, queueVars, IsRecording
<1>6. ASSUME NEW q \in Programs, AbortSkipped(q) \/ LowSpaceStop(q)
      PROVE  Owned(p)'
  <2>1. \/ recording'[p] = recording[p]
        \/ recording'[p] = [recording[p] EXCEPT !.abort = "system"]
    BY <1>0, <1>1, <1>6 DEF AbortSkipped, LowSpaceStop, SetAbort, Rows
  <2>2. IsRecording(p)
    BY <1>0, <1>1, <1>6 DEF AbortSkipped, LowSpaceStop, SetAbort, Rows, IsRecording
  <2> QED
    BY <1>1, <1>6, <2>1, <2>2, OwnerStays
    DEF AbortSkipped, LowSpaceStop, LoopFrame, queueVars
<1>7. ASSUME NEW q \in Programs, StartRecording(q)
      PROVE  Owned(p)'
  <2>1. loop' = "start" /\ pending' = pending \cup {q}
    BY <1>1, <1>7 DEF StartRecording, Enter
  <2>2. CASE p # q
    <3>1. recording'[p] = recording[p] /\ UNCHANGED <<rec, removals, rollbacks>>
      BY <1>0, <1>1, <1>7, <2>2
      DEF StartRecording, UpsertRecording, LoopFrame, queueVars, Rows
    <3> QED
      BY <1>1, <1>7, <2>1, <3>1
      DEF StartRecording, Owned, Owns, PendingCompletion, RollbackPending,
          Claimed, IsRecording
  <2> QED BY <2>1, <2>2 DEF Owned
<1>8. CASE Advance("start", "spawn", pending)
  BY <1>8 DEF Advance, Enter, LoopFrame, storeVars, queueVars, Owned, Owns,
     PendingCompletion, RollbackPending, Claimed, IsRecording
<1>9. ASSUME NEW r \in Recorders, Spawn(r)
      PROVE  Owned(p)'
  <2>1. Owns(r)' /\ \A s \in Recorders \ {r} : rec'[s] = rec[s]
    BY <1>9 DEF Spawn, Goto, Owns, TypeOK, OperatorTypeOK, Goroutine
  <2>2. UNCHANGED <<recording, removals, rollbacks>> /\ loop = "spawn"
        /\ loop' = "spawn" /\ todo' = todo \ {ProgramOf[r]}
    BY <1>9 DEF Spawn, Enter, storeVars, queueVars
  <2>3. CASE p = ProgramOf[r]
    BY <2>1, <2>3 DEF Owned
  <2>4. CASE p # ProgramOf[r]
    BY <2>1, <2>2, <2>4 DEF Owned, Owns, PendingCompletion, RollbackPending,
       Claimed, IsRecording
  <2> QED BY <2>3, <2>4
<1>10. CASE EndTick
  BY <1>10 DEF EndTick, LoopFrame, storeVars, queueVars, Owned, Owns,
     PendingCompletion, RollbackPending, Claimed, IsRecording
<1> QED
  BY <1>1, <1>2, <1>3, <1>4, <1>5, <1>6, <1>7, <1>8, <1>9, <1>10
  DEF Loop, Tick, ListCompletions, ReadRecordingIDs, ReadRecordedIDs,
      ListCleanup, ReadDue, ReadSkipped, CheckSpace, Advance, RetryDelete,
      CleanupReserve, CheckSkipped, LowSpaceUnlink, LowSpaceRemove, LoopFrame,
      storeVars, queueVars

----------------------------------------------------------------------------
\* The users, the scheduler and the clock change an active row only by marking
\* it, and change nothing else that an owner is made of.
LEMMA OutsideStep ==
  ASSUME TypeOK, \/ User \/ SchedulerReads \/ SchedulerPublishes
                 \/ \E q \in Programs : AirAdvances(q)
                 \/ UNCHANGED vars
  PROVE  /\ UNCHANGED <<proc, loopVars, rec, removals, rollbacks>>
         /\ \A p \in Programs :
               \/ recording'[p] = recording[p]
               \/ /\ IsRecording(p) /\ ~Claimed(p)
                  /\ recording'[p] = [recording[p] EXCEPT !.abort = "user"]
<1>1. UNCHANGED <<proc, loopVars, rec, removals, rollbacks>>
  BY DEF User, WriteReserve, WriteRecorded, Reserve, Skip, Unskip, Unreserve,
         Stop, DeleteRecorded, DeleteFile, RestoreStaged,
         FileFrame, CleanupRecorded, SchedulerReads,
         SchedulerPublishes, AirAdvances, HandlerFrame, opVars, queueVars, vars
<1>2. CASE UNCHANGED recording
  BY <1>1, <1>2
<1>3. CASE \E q \in Programs : Stop(q)
  <2>1. PICK q \in Programs : StopByUser(q)
    BY <1>3 DEF Stop
  <2>2. \A p \in Programs :
           recording'[p] = IF p = q THEN [recording[p] EXCEPT !.abort = "user"]
                                    ELSE recording[p]
    BY <2>1 DEF StopByUser, TypeOK, OperatorTypeOK, StoreTypeOK
  <2> QED BY <1>1, <2>1, <2>2 DEF StopByUser
<1> QED
  BY <1>2, <1>3 DEF User, WriteReserve, WriteRecorded, Reserve, Skip, Unskip,
     Unreserve, DeleteRecorded, DeleteFile, RestoreStaged,
     FileFrame, CleanupRecorded, SchedulerReads,
     SchedulerPublishes, AirAdvances, storeVars, vars

\* LoopMatchesProcess is inductive.
LEMMA ProcessInvariant ==
  ASSUME TypeOK, LoopMatchesProcess, [Next]_vars
  PROVE  LoopMatchesProcess'
<1>1. ASSUME NEW r \in Recorders, Recorder(r)
      PROVE  LoopMatchesProcess'
  <2>1. UNCHANGED <<proc, loop, todo, pending>> /\ Live(r)
    BY <1>1, RecorderRest, RecorderTouches
    DEF RecorderFrame, loopVars, snapVars, TypeOK, OperatorTypeOK
  <2> QED BY <2>1 DEF LoopMatchesProcess
<1>2. CASE Loop
  <2>1. loop \notin {"initRead", "initWrite"} /\ proc # "down"
    BY <1>2 DEF LoopMatchesProcess, Loop, Tick, ListCompletions,
       ReadRecordingIDs, ReadRecordedIDs, ListCleanup, ReadDue, ReadSkipped,
       CheckSpace, EndTick, Advance, RetryRemoval, RetryRollback,
       RetryCompletion, RetryDelete, CleanupReserve, CheckSkipped,
       AbortSkipped, LowSpaceStop, LowSpaceUnlink, LowSpaceRemove,
       StartRecording, Spawn
  <2>2. CASE LoopFails("store") \/ LoopFails("file")
    BY <2>2 DEF LoopFails, Enter, LoopMatchesProcess
  <2>3. CASE proc = "init"
    BY <1>2, <2>3 DEF LoopMatchesProcess, Loop, Tick, ListCompletions,
       ReadRecordingIDs, ReadRecordedIDs, ListCleanup, ReadDue, ReadSkipped,
       CheckSpace, EndTick, Advance, RetryRemoval, RetryRollback,
       RetryCompletion, RetryDelete, CleanupReserve, CheckSkipped,
       AbortSkipped, LowSpaceStop, LowSpaceUnlink, LowSpaceRemove,
       StartRecording, Spawn, Enter, LoopFrame, Live
  <2>4. CASE proc # "init" /\ ~LoopFails("store") /\ ~LoopFails("file")
    <3>1. /\ proc' = proc /\ loop' \notin {"initRead", "initWrite"}
          /\ loop' = "spawn" => todo' \subseteq pending'
      BY <1>2, <2>4 DEF LoopMatchesProcess, Loop, Tick, ListCompletions,
         ReadRecordingIDs, ReadRecordedIDs, ListCleanup, ReadDue, ReadSkipped,
         CheckSpace, EndTick, Advance, RetryRemoval, RetryRollback,
         RetryCompletion, RetryDelete, CleanupReserve, CheckSkipped,
         AbortSkipped, LowSpaceStop, LowSpaceUnlink, LowSpaceRemove,
         StartRecording, Spawn, Enter, LoopFrame, snapVars
    <3> QED BY <2>1, <2>4, <3>1 DEF LoopMatchesProcess
  <2> QED BY <2>2, <2>3, <2>4
<1>3. CASE Process
  <2>1. ASSUME ProcessEnds("down")
        PROVE  LoopMatchesProcess'
    <3>1. \A r \in Recorders : ~Live(r)'
      BY <2>1 DEF ProcessEnds, Live, At
    <3> QED BY <2>1, <3>1 DEF ProcessEnds, Enter, LoopMatchesProcess
  <2>2. CASE Shutdown \/ Restart
    BY <2>2 DEF Shutdown, Restart, Enter, LoopMatchesProcess, Live
  <2>3. CASE InitRead
    BY <2>1, <2>3 DEF InitRead, Enter, LoopFrame, storeVars, LoopMatchesProcess,
       Live, PendingCompletion, Claimed, IsRecording
  <2>4. CASE InitWrite
    BY <2>1, <2>4 DEF InitWrite, Enter, LoopMatchesProcess
  <2> QED BY <1>3, <2>1, <2>2, <2>3, <2>4 DEF Process, Crash, Exit
<1>4. CASE \/ User \/ SchedulerReads \/ SchedulerPublishes
           \/ \E q \in Programs : AirAdvances(q)
           \/ UNCHANGED vars
  <2>1. ASSUME loop' = "initWrite", NEW p \in pending', IsRecording(p)'
        PROVE  PendingCompletion(p)'
    <3>1. p \in pending /\ p \in Programs /\ loop = "initWrite"
      BY <1>4, <2>1, OutsideStep DEF loopVars, snapVars, TypeOK, OperatorTypeOK
    <3>2. \/ recording'[p] = recording[p]
          \/ IsRecording(p) /\ ~Claimed(p)
      BY <1>4, <3>1, OutsideStep
    <3> QED
      BY <2>1, <3>1, <3>2
      DEF LoopMatchesProcess, PendingCompletion, Claimed, IsRecording
  <2> QED
    BY <1>4, <2>1, OutsideStep DEF loopVars, snapVars, LoopMatchesProcess, Live
<1> QED BY <1>1, <1>2, <1>3, <1>4 DEF Next

\* RowsOwned is inductive, given LoopMatchesProcess.
LEMMA OwnerInvariant ==
  ASSUME TypeOK, LoopMatchesProcess, RowsOwned, [Next]_vars
  PROVE  RowsOwned'
<1> SUFFICES ASSUME proc' = "up", NEW p \in Programs, IsRecording(p)'
             PROVE  Owned(p)'
  BY DEF RowsOwned
<1>1. CASE InitWrite
  <2>1. /\ loop = "initWrite" /\ p \in pending /\ IsRecording(p)
        /\ recording'[p] = recording[p]
    BY <1>1 DEF InitWrite, ProcessEnds, IsRecording
  <2> QED
    BY <2>1 DEF LoopMatchesProcess, Owned, PendingCompletion, Claimed, IsRecording
<1>2. CASE Crash \/ Shutdown \/ Exit \/ Restart
  BY <1>2 DEF Crash, Shutdown, Exit, Restart, ProcessEnds
<1>3. CASE InitRead
  BY <1>3 DEF InitRead, LoopFrame, ProcessEnds, LoopMatchesProcess
<1>4. ASSUME NEW r \in Recorders, Recorder(r)
      PROVE  Owned(p)'
  BY <1>4, OwnedByRecorder, RecorderRest DEF RecorderFrame, RowsOwned, TypeOK,
     OperatorTypeOK
<1>5. CASE Loop
  <2>1. proc = "up"
    BY <1>5, LoopRest DEF TypeOK, OperatorTypeOK, Goroutines
  <2> QED
    BY <1>5, <2>1, OwnedByLoop DEF RowsOwned, LoopMatchesProcess
<1>6. CASE \/ User \/ SchedulerReads \/ SchedulerPublishes
           \/ \E q \in Programs : AirAdvances(q)
           \/ UNCHANGED vars
  <2>1. proc = "up" /\ UNCHANGED <<loopVars, rec, removals, rollbacks>>
    BY <1>6, OutsideStep
  <2>2. \/ recording'[p] = recording[p]
        \/ IsRecording(p) /\ recording'[p] = [recording[p] EXCEPT !.abort = "user"]
    BY <1>6, OutsideStep
  <2>3. IsRecording(p) /\ Owned(p)
    BY <2>1, <2>2 DEF RowsOwned, IsRecording
  <2>4. CASE loop \notin {"start", "spawn"}
    BY <2>1, <2>2, <2>3, <2>4, OwnerStays
  <2>5. CASE loop \in {"start", "spawn"}
    <3>1. recording[p] \in Row
      BY <2>3 DEF TypeOK, OperatorTypeOK, StoreTypeOK, IsRecording
    <3> QED
      BY <2>1, <2>2, <2>3, <3>1 DEF loopVars, snapVars, Owned, Owns,
         PendingCompletion, RollbackPending, Claimed, IsRecording, Row
  <2> QED BY <2>4, <2>5
<1> QED BY <1>1, <1>2, <1>3, <1>4, <1>5, <1>6 DEF Next, Process

\* While the operator is up, every active row has something that will take it
\* away: a goroutine, the pass that is about to start one, the completion of a
\* claimed row, or an entry in a retry queue.
THEOREM RowsHaveOwners == Spec => []RowHasOwner
<1>1. Init => LoopMatchesProcess /\ RowsOwned
  BY DEF Init, OperatorInit, StoreInit, LoopMatchesProcess, RowsOwned, IsRecording
<1>2. TypeOK /\ LoopMatchesProcess /\ RowsOwned /\ [Next]_vars
         => (LoopMatchesProcess /\ RowsOwned)'
  BY ProcessInvariant, OwnerInvariant
<1>3. TypeOK /\ LoopMatchesProcess /\ RowsOwned => RowHasOwner
  <2> SUFFICES ASSUME LoopMatchesProcess, RowsOwned, proc = "up",
                      NEW p \in Programs, IsRecording(p)
               PROVE  \/ \E r \in Recorders : ProgramOf[r] = p /\ Live(r)
                      \/ loop \in {"start", "spawn"} /\ p \in pending
                      \/ PendingCompletion(p)
                      \/ p \in removals \/ rollbacks[p] # None
    BY DEF RowHasOwner
  <2>1. Owned(p)
    BY DEF RowsOwned
  <2>2. \A r \in Recorders : Owns(r) => Live(r)
    BY DEF Owns, Live
  <2> QED BY <2>1, <2>2 DEF Owned, RollbackPending, LoopMatchesProcess
<1> QED BY <1>1, <1>2, <1>3, TypeCorrect, PTL DEF Spec
=============================================================================
