----------------------------- MODULE Operator -----------------------------
(***************************************************************************)
(* The operator process (internal/operator/operator.go): the polling loop  *)
(* of Run, one goroutine per recording (finishRecording and                *)
(* recordProgramWithLog), the three in-memory retry queues, and start-up.  *)
(*                                                                         *)
(* The loop and the goroutines interleave at every store and file call.    *)
(* recordingStateMu needs no variable: a goroutine holds it for a single   *)
(* store call, so it is enough that no such call happens while the loop    *)
(* holds it (LoopHoldsMutex).                                              *)
(***************************************************************************)
EXTENDS ProgramStore

CONSTANTS
    ProgramOf,       \* ProgramOf[r]: the program recorder r records
    Automatic,       \* programs reserved by a rule; the others are manual
    LowSpaceAction,  \* StorageLowSpaceAction, "none" when the check is off
    ZeroEndMargin,   \* RecordingEndMargin is 0, as it is unless configured
    Faulty,          \* what can fail: calls of the "store", of the "file" system
    MaxFaults,       \* bound: how many of those calls fail
    MaxCrashes       \* bound: kills and shutdowns of the operator

ASSUME ProgramOfAssumption == ProgramOf \in [Recorders -> Programs]
ASSUME AutomaticAssumption == Automatic \subseteq Programs
ASSUME LowSpaceAssumption  == LowSpaceAction \in {"none", "stop", "remove"}
ASSUME EndMarginAssumption == ZeroEndMargin \in BOOLEAN
ASSUME FaultyAssumption    == Faulty \subseteq {"store", "file"}
ASSUME BoundsAssumption    == MaxFaults \in Nat /\ MaxCrashes \in Nat

VARIABLES
    \* the world
    air,            \* "before", "on" or "after" its margins, per program
    part,           \* <name>.part: "absent", "empty" or "data", per program
    final,          \* the final file exists, per program
    \* the process
    proc,           \* "up", "failed" (Run waits for its goroutines after an
                    \* error), "stopping" (the same, cancelled), "down", "init"
    rec,            \* the goroutines
    removals,       \* pendingRecordingRemovals
    rollbacks,      \* pendingCompletionRollbacks: the token queued, per program
    deletes,        \* pendingReservationDeletes
    \* the locals of startPendingRecordings
    loop,           \* where it stands
    todo,           \* what is left of the slice it ranges over
    recordingIDs, recordedIDs, due, pending,
    \* what is left of the bounds
    faults, crashes

fileVars  == <<part, final>>
queueVars == <<removals, rollbacks, deletes>>
snapVars  == <<recordingIDs, recordedIDs, due, pending>>
loopVars  == <<loop, todo, snapVars>>
opVars    == <<air, fileVars, proc, rec, queueVars, loopVars, faults, crashes>>

RecorderPc ==
    {"fresh", "stream", "mark", "create", "copy", "stopCheck", "abortCheck",
     "claim", "promote", "rollback", "clear", "unlink", "remove", "release",
     "complete", "forget", "post", "done"}

LoopPc ==
    {"idle", "removals", "rollbacks", "listCompletions", "completions",
     "deletes", "readRecording", "readRecorded", "listCleanup", "cleanup",
     "readDue", "readSkipped", "skipped", "setAbort", "readSpace", "lowStop",
     "lowUnlink", "lowRemove", "start", "spawn", "initRead", "initWrite"}

Goroutine == [pc : RecorderPc,
              userStopped : BOOLEAN,   \* local of recordProgramWithLog
              copyErr     : BOOLEAN,   \* io.Copy returned an error
              cancelled   : BOOLEAN,   \* recordCtx is cancelled
              ended       : BOOLEAN,   \* endReached
              timer       : {"unset", "set", "none"},   \* of the end controller
              noData      : BOOLEAN]   \* errUserStoppedWithoutData

At(pc) == [pc |-> pc, userStopped |-> FALSE, copyErr |-> FALSE,
           cancelled |-> FALSE, ended |-> FALSE, timer |-> "unset",
           noData |-> FALSE]

OperatorTypeOK ==
    /\ StoreTypeOK
    /\ air   \in [Programs -> {"before", "on", "after"}]
    /\ part  \in [Programs -> {"absent", "empty", "data"}]
    /\ final \in [Programs -> BOOLEAN]
    /\ proc \in {"up", "failed", "stopping", "down", "init"}
    /\ rec \in [Recorders -> Goroutine]
    /\ removals \subseteq Programs /\ deletes \subseteq Programs
    /\ rollbacks \in [Programs -> Recorders \cup {None}]
    /\ loop \in LoopPc
    /\ todo \subseteq Programs
    /\ recordingIDs \subseteq Programs /\ recordedIDs \subseteq Programs
    /\ due \subseteq Programs /\ pending \subseteq Programs
    /\ faults \in 0..MaxFaults /\ crashes \in 0..MaxCrashes

OperatorInit ==
    /\ StoreInit
    /\ air = [p \in Programs |-> "before"]
    /\ part = [p \in Programs |-> "absent"]
    /\ final = [p \in Programs |-> FALSE]
    /\ proc = "up"
    /\ rec = [r \in Recorders |-> At("fresh")]
    /\ removals = {} /\ deletes = {}
    /\ rollbacks = [p \in Programs |-> None]
    /\ loop = "idle" /\ todo = {}
    /\ recordingIDs = {} /\ recordedIDs = {} /\ due = {} /\ pending = {}
    /\ faults = MaxFaults /\ crashes = MaxCrashes

----------------------------------------------------------------------------
Live(r) == rec[r].pc \notin {"fresh", "done"}

\* Between opening the .part file and the end of recordProgramWithLog.
Writing(r) == rec[r].pc \in {"copy", "stopCheck", "abortCheck", "claim",
                             "promote", "rollback", "clear", "unlink"}

LoopHoldsMutex ==
    loop \in {"rollbacks", "listCompletions", "completions",
              "skipped", "setAbort"}

\* A call of that kind fails, within the bound; a call succeeds.
Fails(kind) == kind \in Faulty /\ faults > 0 /\ faults' = faults - 1
Succeeds    == faults' = faults

\* Variant: the failed removal is not queued.
ForgetRemoval(p) == UNCHANGED removals

\* queueRecordingRemoval, queueReservationDelete: for the next pass.
QueueRemoval(p) == removals' = removals \cup {p}
QueueDelete(p)  == deletes' = deletes \cup {p}

\* Recorder r goes on at pc; its other locals stay.
Goto(r, pc) == rec' = [rec EXCEPT ![r].pc = pc]

\* Variant: an empty .part file is left behind.
DropPartWithData(p) ==
    part' = [part EXCEPT ![p] = IF @ = "data" THEN "absent" ELSE @]

\* os.Remove of the .part file.
DropPart(p) == part' = [part EXCEPT ![p] = "absent"]

\* The world, the loop and the process are not touched by a goroutine's step.
RecorderFrame == UNCHANGED <<air, proc, loopVars, crashes>>

----------------------------------------------------------------------------
(* The goroutine.  It returns at "done".                                   *)

\* ProgramStream; a cancelled context fails it.
OpenStream(r) ==
    /\ rec[r].pc = "stream" /\ rec[r].timer # "unset"
    /\ \/ proc # "stopping" /\ Goto(r, "mark")
       \/ Goto(r, "remove")
    /\ UNCHANGED <<storeVars, fileVars, queueVars, faults>> /\ RecorderFrame

\* updateRecordingProgram, under recordingStateMu.
MarkRecording(r) ==
    /\ rec[r].pc = "mark" /\ ~LoopHoldsMutex
    /\ \/ Succeeds /\ MarkActive(ProgramOf[r]) /\ Goto(r, "create")
       \/ Fails("store") /\ Goto(r, "remove") /\ UNCHANGED recording
    /\ UNCHANGED <<recorded, reserve, fileVars, queueVars>> /\ RecorderFrame

\* OpenFile(O_CREATE|O_TRUNC); the deferred Remove is in place already.
CreatePart(r) ==
    /\ rec[r].pc = "create"
    /\ \/ Succeeds /\ part' = [part EXCEPT ![ProgramOf[r]] = "empty"]
          /\ Goto(r, "copy")
       \/ Fails("file") /\ Goto(r, "unlink") /\ UNCHANGED part
    /\ UNCHANGED <<storeVars, final, queueVars>> /\ RecorderFrame

\* io.Copy moves some of the stream.
CopyData(r) ==
    /\ rec[r].pc = "copy" /\ part[ProgramOf[r]] = "empty"
    /\ part' = [part EXCEPT ![ProgramOf[r]] = "data"]
    /\ UNCHANGED <<storeVars, final, queueVars, rec, faults>> /\ RecorderFrame

\* io.Copy returns: at the end of the stream, or with an error (the tuner, or
\* the stream closed under it when the context was cancelled).
CopyEnds(r) ==
    /\ rec[r].pc = "copy"
    /\ \E err \in BOOLEAN :
          rec' = [rec EXCEPT ![r].pc = "stopCheck", ![r].copyErr = err]
    /\ UNCHANGED <<storeVars, fileVars, queueVars, faults>> /\ RecorderFrame

\* Variant: the poll ignores a user stop.
WatchSystemOnly(r) ==
    /\ rec[r].pc \in {"mark", "create", "copy", "stopCheck"}
    /\ ~rec[r].cancelled
    /\ IsRecording(ProgramOf[r]) /\ recording[ProgramOf[r]].abort = "system"
    /\ rec' = [rec EXCEPT ![r].cancelled = TRUE]
    /\ UNCHANGED <<storeVars, fileVars, queueVars, faults>> /\ RecorderFrame

\* watchRecordingState polls the row and cancels on an abort mark.
Watch(r) ==
    /\ rec[r].pc \in {"mark", "create", "copy", "stopCheck"}
    /\ ~rec[r].cancelled
    /\ IsRecording(ProgramOf[r]) /\ recording[ProgramOf[r]].abort # "none"
    /\ rec' = [rec EXCEPT ![r].cancelled = TRUE]
    /\ UNCHANGED <<storeVars, fileVars, queueVars, faults>> /\ RecorderFrame

\* recordingEndController starts.  Its first look at the clock comes before
\* the stream is open.  Without a margin it sets no timer for an end that has
\* passed already, and ends nothing; with one it ends the recording, which is
\* left to EndReached.
SetDeadline(r) ==
    /\ rec[r].pc = "stream" /\ rec[r].timer = "unset"
    /\ rec' = [rec EXCEPT ![r].timer =
                  IF air[ProgramOf[r]] = "after" /\ ZeroEndMargin
                  THEN "none" ELSE "set"]
    /\ UNCHANGED <<storeVars, fileVars, queueVars, faults>> /\ RecorderFrame

\* Variant: endReached is not stored.
EndReachedUnnoted(r) ==
    /\ rec[r].pc \in {"stream", "mark", "create", "copy", "stopCheck"}
    /\ ~rec[r].cancelled /\ rec[r].timer = "set"
    /\ air[ProgramOf[r]] = "after"
    /\ rec' = [rec EXCEPT ![r].cancelled = TRUE]
    /\ UNCHANGED <<storeVars, fileVars, queueVars, faults>> /\ RecorderFrame

\* ... and the deadline passes.
EndReached(r) ==
    /\ rec[r].pc \in {"stream", "mark", "create", "copy", "stopCheck"}
    /\ ~rec[r].ended /\ rec[r].timer = "set"
    /\ air[ProgramOf[r]] = "after"
    /\ rec' = [rec EXCEPT ![r].ended = TRUE, ![r].cancelled = TRUE]
    /\ UNCHANGED <<storeVars, fileVars, queueVars, faults>> /\ RecorderFrame

Cancelled(r) == rec[r].cancelled \/ proc = "stopping"

\* userStopRequested, and what is decided on its answer down to the second
\* look at the row.
StopCheck(r) ==
    LET p == ProgramOf[r]
        userStopped == IsRecording(p) /\ recording[p].abort = "user"
        broken    == rec[r].copyErr /\ ~rec[r].ended /\ ~userStopped
        noData    == userStopped /\ part[p] = "empty"
        cancelled == ~userStopped /\ Cancelled(r) /\ ~rec[r].ended
        unread    == userStopped /\ part[p] = "absent"
    IN  /\ rec[r].pc = "stopCheck"
        /\ \/ /\ Succeeds
              /\ IF ~IsRecording(p) \/ broken \/ noData \/ cancelled \/ unread
                 THEN rec' = [rec EXCEPT ![r].pc = "unlink",
                                         ![r].noData = noData]
                 ELSE rec' = [rec EXCEPT ![r].pc = "abortCheck",
                                         ![r].userStopped = userStopped]
           \/ (Fails("store") \/ Fails("file")) /\ Goto(r, "unlink")
        /\ UNCHANGED <<storeVars, fileVars, queueVars>> /\ RecorderFrame

\* recordingAbortRequested: any mark set since, unless the stop was seen.
AbortCheck(r) ==
    LET p == ProgramOf[r]
        aborted == recording[p].abort # "none" /\ ~rec[r].userStopped
    IN  /\ rec[r].pc = "abortCheck"
        /\ \/ /\ Succeeds
              /\ IF ~IsRecording(p) \/ aborted THEN Goto(r, "unlink")
                                               ELSE Goto(r, "claim")
           \/ Fails("store") /\ Goto(r, "unlink")
        /\ UNCHANGED <<storeVars, fileVars, queueVars>> /\ RecorderFrame

\* ClaimCompletionWithToken, under recordingStateMu.
Claim(r) ==
    LET p == ProgramOf[r] IN
    /\ rec[r].pc = "claim" /\ ~LoopHoldsMutex
    /\ \/ Succeeds /\ ClaimCompletion(p, r) /\ Goto(r, "promote")
       \/ Succeeds /\ ~MayClaim(p) /\ Goto(r, "unlink") /\ UNCHANGED recording
       \/ Fails("store") /\ Goto(r, "unlink") /\ UNCHANGED recording
    /\ UNCHANGED <<recorded, reserve, fileVars, queueVars>> /\ RecorderFrame

\* replaceRecordingOutput: one rename.
Promote(r) ==
    LET p == ProgramOf[r] IN
    /\ rec[r].pc = "promote"
    /\ \/ /\ Succeeds /\ part[p] # "absent" /\ Goto(r, "complete")
          /\ part' = [part EXCEPT ![p] = "absent"]
          /\ final' = [final EXCEPT ![p] = TRUE]
       \/ /\ \/ Fails("file")
             \/ Succeeds /\ part[p] = "absent"
          /\ Goto(r, "rollback") /\ UNCHANGED fileVars
    /\ UNCHANGED <<storeVars, queueVars>> /\ RecorderFrame

\* rollbackCompletionClaim removes the row, without recordingStateMu.
Rollback(r) ==
    /\ rec[r].pc = "rollback"
    /\ \/ Succeeds /\ RemoveRecording(ProgramOf[r]) /\ Goto(r, "unlink")
       \/ Fails("store") /\ Goto(r, "clear") /\ UNCHANGED recording
    /\ UNCHANGED <<recorded, reserve, fileVars, queueVars>> /\ RecorderFrame

\* That failed: clear the claim if possible, and queue the rollback.
ClearClaim(r) ==
    LET p == ProgramOf[r] IN
    /\ rec[r].pc = "clear"
    /\ \/ Succeeds /\ ClearCompletionClaim(p)
       \/ Fails("store") /\ UNCHANGED recording
    /\ rollbacks' = [rollbacks EXCEPT ![p] = r]
    /\ Goto(r, "unlink")
    /\ UNCHANGED <<recorded, reserve, fileVars, removals, deletes>>
    /\ RecorderFrame

\* The deferred os.Remove of the .part file; its error is ignored.
UnlinkPart(r) ==
    /\ rec[r].pc = "unlink"
    /\ \/ Succeeds /\ DropPart(ProgramOf[r])
       \/ Fails("file") /\ UNCHANGED part
    /\ Goto(r, "remove")
    /\ UNCHANGED <<storeVars, final, queueVars>> /\ RecorderFrame

\* finishRecording after an error: drop the row, or queue that.
RemoveFailed(r) ==
    LET p == ProgramOf[r]
        next == At(IF rec[r].noData THEN "release" ELSE "done")
    IN  /\ rec[r].pc = "remove" /\ ~LoopHoldsMutex
        /\ \/ Succeeds /\ RemoveRecording(p) /\ UNCHANGED removals
           \/ Fails("store") /\ QueueRemoval(p) /\ UNCHANGED recording
        /\ rec' = [rec EXCEPT ![r] = next]
        /\ UNCHANGED <<recorded, reserve, fileVars, rollbacks, deletes>>
        /\ RecorderFrame

\* A user stop before the first byte ends the reservation.
ReleaseReserve(r) ==
    /\ rec[r].pc = "release"
    /\ \/ Succeeds /\ DeleteReserve(ProgramOf[r]) /\ UNCHANGED deletes
       \/ Fails("store") /\ QueueDelete(ProgramOf[r]) /\ UNCHANGED reserve
    /\ rec' = [rec EXCEPT ![r] = At("done")]
    /\ UNCHANGED <<recording, recorded, fileVars, removals, rollbacks>>
    /\ RecorderFrame

\* programstore.Complete, under recordingStateMu; an error ends the goroutine.
CompleteRecording(r) ==
    LET p == ProgramOf[r] IN
    /\ rec[r].pc = "complete" /\ ~LoopHoldsMutex
    /\ \/ Succeeds /\ Complete(p) /\ Goto(r, "forget")
       \/ /\ \/ Succeeds /\ ~IsRecording(p)
             \/ Fails("store")
          /\ rec' = [rec EXCEPT ![r] = At("done")]
          /\ UNCHANGED <<recording, recorded>>
    /\ UNCHANGED <<reserve, fileVars, queueVars>> /\ RecorderFrame

\* completed.AbortReason: completed is still the copy of the reservation the
\* goroutine was given; no assignment reaches its AbortReason.
CompletedReason(r) == "none"

\* Delete the reservation; post-process unless that failed.
ForgetReserve(r) ==
    LET next == IF CompletedReason(r) = "user" THEN "done" ELSE "post" IN
    /\ rec[r].pc = "forget"
    /\ \/ Succeeds /\ DeleteReserve(ProgramOf[r]) /\ UNCHANGED deletes
          /\ rec' = [rec EXCEPT ![r] = At(next)]
       \/ Fails("store") /\ QueueDelete(ProgramOf[r]) /\ UNCHANGED reserve
          /\ rec' = [rec EXCEPT ![r] = At("done")]
    /\ UNCHANGED <<recording, recorded, fileVars, removals, rollbacks>>
    /\ RecorderFrame

\* runPostProcess returns; it changes neither a row nor the file.
PostProcess(r) ==
    /\ rec[r].pc = "post"
    /\ rec' = [rec EXCEPT ![r] = At("done")]
    /\ UNCHANGED <<storeVars, fileVars, queueVars, faults>> /\ RecorderFrame

----------------------------------------------------------------------------
(* The polling loop: startPendingRecordings, one store call per step.      *)

LoopFrame == UNCHANGED <<air, proc, rec, crashes>>

\* Where the loop goes, ranging over S.
Enter(pc, S) == loop' = pc /\ todo' = S

\* startPendingRecordings returns err: Run waits for its goroutines.
LoopFails(kind) ==
    /\ Fails(kind) /\ proc' = "failed" /\ Enter("idle", {})
    /\ recordingIDs' = {} /\ recordedIDs' = {} /\ due' = {} /\ pending' = {}
    /\ UNCHANGED <<air, rec, crashes, storeVars, fileVars, queueVars>>

\* The ticker or a wake-up; now is sampled here.
Tick ==
    /\ proc = "up" /\ loop = "idle"
    /\ Enter("removals", removals)
    /\ due' = {p \in Programs : air[p] = "on"}
    /\ UNCHANGED <<storeVars, fileVars, queueVars, recordingIDs, recordedIDs,
                   pending, faults>>
    /\ LoopFrame

\* The slice is used up: on to the next part, ranging over S.
Advance(pc, next, S) ==
    /\ loop = pc /\ todo = {}
    /\ Enter(next, S)
    /\ UNCHANGED <<storeVars, fileVars, queueVars, snapVars, faults>>
    /\ LoopFrame

RetryRemoval(p) ==
    /\ loop = "removals" /\ p \in todo /\ Enter("removals", todo \ {p})
    /\ \/ Succeeds /\ RemoveRecording(p) /\ removals' = removals \ {p}
       \/ Fails("store") /\ UNCHANGED <<recording, removals>>
    /\ UNCHANGED <<recorded, reserve, fileVars, rollbacks, deletes, snapVars>>
    /\ LoopFrame

\* Variant: neither PID nor the token is compared.
RollbackAnyRow(p) == recording[p].path

\* The row a queued rollback is about: it may have been replaced since.
RollbackMatches(p) ==
    /\ recording[p].path /\ recording[p].pid = 0
    /\ recording[p].claim \in {None, rollbacks[p]}

RetryRollback(p) ==
    /\ loop = "rollbacks" /\ p \in todo /\ Enter("rollbacks", todo \ {p})
    /\ \/ /\ Succeeds /\ rollbacks' = [rollbacks EXCEPT ![p] = None]
          /\ IF IsRecording(p) /\ RollbackMatches(p)
             THEN RemoveRecording(p)
             ELSE UNCHANGED recording
       \/ Fails("store") /\ UNCHANGED <<recording, rollbacks>>
    /\ UNCHANGED <<recorded, reserve, fileVars, removals, deletes, snapVars>>
    /\ LoopFrame

\* retryPendingCompletions reads the rows; an error is ignored.
ListCompletions ==
    /\ loop = "listCompletions"
    /\ \/ Succeeds /\ Enter("completions", {p \in Programs : PendingCompletion(p)})
       \/ Fails("store") /\ Enter("completions", {})
    /\ UNCHANGED <<storeVars, fileVars, queueVars, snapVars>> /\ LoopFrame

\* ... and completes each, whatever became of it since; errors are ignored.
RetryCompletion(p) ==
    /\ loop = "completions" /\ p \in todo /\ Enter("completions", todo \ {p})
    /\ \/ Succeeds /\ Complete(p)
       \/ Succeeds /\ ~IsRecording(p) /\ UNCHANGED <<recording, recorded>>
       \/ Fails("store") /\ UNCHANGED <<recording, recorded>>
    /\ UNCHANGED <<reserve, fileVars, queueVars, snapVars>> /\ LoopFrame

RetryDelete(p) ==
    /\ loop = "deletes" /\ p \in todo /\ Enter("deletes", todo \ {p})
    /\ \/ Succeeds /\ DeleteReserve(p) /\ deletes' = deletes \ {p}
       \/ Fails("store") /\ UNCHANGED <<reserve, deletes>>
    /\ UNCHANGED <<recording, recorded, fileVars, removals, rollbacks, snapVars>>
    /\ LoopFrame

\* The two id snapshots every later decision of the pass is made on.
ReadRecordingIDs ==
    /\ loop = "readRecording"
    /\ \/ /\ Succeeds /\ Enter("readRecorded", {})
          /\ recordingIDs' = {p \in Programs : IsRecording(p)}
          /\ UNCHANGED <<storeVars, fileVars, queueVars, recordedIDs, due,
                         pending>>
          /\ LoopFrame
       \/ LoopFails("store")

ReadRecordedIDs ==
    /\ loop = "readRecorded"
    /\ \/ /\ Succeeds
          /\ recordedIDs' = {p \in Programs : IsRecorded(p)}
          /\ Enter("listCleanup", {})
          /\ UNCHANGED <<storeVars, fileVars, queueVars, recordingIDs, due,
                         pending>>
          /\ LoopFrame
       \/ LoopFails("store")

\* Variant: skipped reservations are overlooked.
StaleUnskipped == {p \in recordedIDs : reserve[p] = "active"}

\* cleanupRecordedReservations: the reservations of recorded programs go.
StaleReserves == {p \in recordedIDs : reserve[p] # "absent"}

ListCleanup ==
    /\ loop = "listCleanup"
    /\ \/ /\ Succeeds /\ Enter("cleanup", StaleReserves)
          /\ UNCHANGED <<storeVars, fileVars, queueVars, snapVars>>
          /\ LoopFrame
       \/ recordedIDs # {} /\ LoopFails("store")

CleanupReserve(p) ==
    /\ loop = "cleanup" /\ p \in todo /\ Enter("cleanup", todo \ {p})
    /\ \/ Succeeds /\ DeleteReserve(p) /\ UNCHANGED deletes
       \/ Fails("store") /\ QueueDelete(p) /\ UNCHANGED reserve
    /\ UNCHANGED <<recording, recorded, fileVars, removals, rollbacks, snapVars>>
    /\ LoopFrame

\* ReadDue; a reservation read with IsSkip is not started.
ReadDue ==
    /\ loop = "readDue"
    /\ \/ /\ Succeeds /\ Enter("readSkipped", {})
          /\ due' = {p \in due : reserve[p] = "active"}
          /\ UNCHANGED <<storeVars, fileVars, queueVars, recordingIDs,
                         recordedIDs, pending>>
          /\ LoopFrame
       \/ LoopFails("store")

\* Variant: the skipped ones are looked for among the due ones.
SkippedAndDue == {p \in recordingIDs \cap Automatic \cap due : reserve[p] = "skip"}

\* The reservations of the programs that were recording, for the skipped ones.
SkippedRecordings ==
    {p \in recordingIDs \cap Automatic : reserve[p] = "skip"}

ReadSkipped ==
    /\ loop = "readSkipped"
    /\ \/ /\ Succeeds /\ Enter("skipped", SkippedRecordings)
          /\ UNCHANGED <<storeVars, fileVars, queueVars, snapVars>>
          /\ LoopFrame
       \/ recordingIDs # {} /\ LoopFails("store")

\* abortSkippedRecordings, under recordingStateMu: read the row ...
CheckSkipped(p) ==
    /\ loop = "skipped" /\ p \in todo
    /\ \/ /\ Succeeds
          /\ IF IsRecording(p) /\ recording[p].abort = "none"
             THEN Enter("setAbort", todo) /\ pending' = {p}
             ELSE Enter("skipped", todo \ {p}) /\ UNCHANGED pending
          /\ UNCHANGED <<storeVars, fileVars, queueVars, recordingIDs,
                         recordedIDs, due>>
          /\ LoopFrame
       \/ LoopFails("store")

\* ... and mark it in a transaction of its own.
AbortSkipped(p) ==
    /\ loop = "setAbort" /\ p \in pending
    /\ \/ /\ Succeeds /\ SetAbort(p)
          /\ Enter("skipped", todo \ {p}) /\ pending' = {}
          /\ UNCHANGED <<recorded, reserve, fileVars, queueVars, recordingIDs,
                         recordedIDs, due>>
          /\ LoopFrame
       \/ LoopFails("store")

\* Variant: the recording ids are forgotten.
ShouldStartUnlessRecorded(p) ==
    /\ p \in due \ recordedIDs
    /\ \E r \in Recorders : ProgramOf[r] = p /\ rec[r].pc = "fresh"

\* Variant: the recorded ids are forgotten.
ShouldStartUnlessRecording(p) ==
    /\ p \in due \ recordingIDs
    /\ \E r \in Recorders : ProgramOf[r] = p /\ rec[r].pc = "fresh"

\* shouldStartWithMargins, on the snapshots of this pass.
ShouldStart(p) ==
    /\ p \in due \ (recordingIDs \cup recordedIDs)
    /\ \E r \in Recorders : ProgramOf[r] = p /\ rec[r].pc = "fresh"  \* bound

ToStart == {p \in Programs : ShouldStart(p)}

\* Both collections and the free space are read; only one collection is used.
CheckSpace ==
    /\ loop = "readSpace"
    /\ \/ /\ Succeeds
          /\ \/ Enter("start", ToStart)
             \/ /\ LowSpaceAction = "stop"
                /\ Enter("lowStop", {p \in Programs : IsRecording(p)
                                           /\ recording[p].abort = "none"})
             \/ /\ LowSpaceAction = "remove"
                /\ \E p \in Programs : IsRecorded(p) /\ Enter("lowUnlink", {p})
          /\ UNCHANGED <<storeVars, fileVars, queueVars, snapVars>>
          /\ LoopFrame
       \/ LowSpaceAction # "none" /\ LoopFails("store")

\* handleLowStorage "stop": mark the rows that were unmarked when read.
LowSpaceStop(p) ==
    /\ loop = "lowStop" /\ p \in todo
    /\ \/ /\ Succeeds /\ SetAbort(p) /\ Enter("lowStop", todo \ {p})
          /\ UNCHANGED <<recorded, reserve, fileVars, queueVars, snapVars>>
          /\ LoopFrame
       \/ LoopFails("store")

\* handleLowStorage "remove": the file of the oldest recording, then its row.
LowSpaceUnlink(p) ==
    /\ loop = "lowUnlink" /\ p \in todo
    /\ \/ /\ Succeeds /\ final' = [final EXCEPT ![p] = FALSE]
          /\ Enter("lowRemove", {p})
          /\ UNCHANGED <<storeVars, part, queueVars, snapVars>> /\ LoopFrame
       \/ LoopFails("file")

LowSpaceRemove(p) ==
    /\ loop = "lowRemove" /\ p \in todo
    /\ \/ /\ Succeeds /\ RemoveRecorded(p) /\ Enter("start", ToStart)
          /\ UNCHANGED <<recording, reserve, fileVars, queueVars, snapVars>>
          /\ LoopFrame
       \/ LoopFails("store")

\* Every due reservation gets its row first ...
StartRecording(p) ==
    /\ loop = "start" /\ p \in todo
    /\ \/ /\ Succeeds /\ UpsertRecording(p) /\ Enter("start", todo \ {p})
          /\ pending' = pending \cup {p}
          /\ UNCHANGED <<recorded, reserve, fileVars, queueVars, recordingIDs,
                         recordedIDs, due>>
          /\ LoopFrame
       \/ LoopFails("store")

\* ... and then its goroutine.
Spawn(r) ==
    /\ loop = "spawn" /\ ProgramOf[r] \in todo /\ rec[r].pc = "fresh"
    /\ Goto(r, "stream") /\ Enter("spawn", todo \ {ProgramOf[r]})
    /\ UNCHANGED <<storeVars, fileVars, queueVars, snapVars, faults, air, proc,
                   crashes>>

\* The pass is over and its snapshots with it.
EndTick ==
    /\ loop = "spawn" /\ todo = {} /\ Enter("idle", {})
    /\ recordingIDs' = {} /\ recordedIDs' = {} /\ due' = {} /\ pending' = {}
    /\ UNCHANGED <<storeVars, fileVars, queueVars, faults>> /\ LoopFrame

Loop ==
    \/ Tick \/ ListCompletions \/ ReadRecordingIDs \/ ReadRecordedIDs
    \/ ListCleanup \/ ReadDue \/ ReadSkipped \/ CheckSpace \/ EndTick
    \/ Advance("removals", "rollbacks",
               {p \in Programs : rollbacks[p] # None})
    \/ Advance("rollbacks", "listCompletions", {})
    \/ proc # "init" /\ Advance("completions", "deletes", deletes)
    \/ proc = "init" /\ Advance("completions", "initRead", {})
    \/ Advance("deletes", "readRecording", {})
    \/ Advance("cleanup", "readDue", {})
    \/ Advance("skipped", "readSpace", {})
    \/ Advance("lowStop", "start", ToStart)
    \/ Advance("start", "spawn", pending)
    \/ \E p \in Programs :
          \/ RetryRemoval(p) \/ RetryRollback(p) \/ RetryCompletion(p)
          \/ RetryDelete(p) \/ CleanupReserve(p) \/ CheckSkipped(p)
          \/ AbortSkipped(p) \/ LowSpaceStop(p) \/ LowSpaceUnlink(p)
          \/ LowSpaceRemove(p) \/ StartRecording(p)
    \/ \E r \in Recorders : Spawn(r)

----------------------------------------------------------------------------
(* The process.                                                            *)

\* What a process loses when it ends: its goroutines, queues and locals.
ProcessEnds(next) ==
    /\ proc' = next
    /\ rec' = [r \in Recorders |-> IF Live(r) THEN At("done") ELSE rec[r]]
    /\ removals' = {} /\ deletes' = {}
    /\ rollbacks' = [p \in Programs |-> None]
    /\ Enter("idle", {})
    /\ recordingIDs' = {} /\ recordedIDs' = {} /\ due' = {} /\ pending' = {}
    /\ UNCHANGED <<storeVars, fileVars, air>>

\* The process is killed.
Crash ==
    /\ proc # "down" /\ crashes > 0 /\ crashes' = crashes - 1
    /\ ProcessEnds("down") /\ UNCHANGED faults

\* SIGTERM: the context is cancelled.  The call the loop is in returns its
\* error, so the pass ends here; starting goroutines asks no context.  It may
\* also come while Run waits for its goroutines after a failed pass.
Shutdown ==
    /\ proc \in {"up", "failed"}
    /\ loop # "spawn" /\ ~(loop = "start" /\ todo = {})
    /\ crashes > 0 /\ crashes' = crashes - 1
    /\ proc' = "stopping" /\ Enter("idle", {})
    /\ recordingIDs' = {} /\ recordedIDs' = {} /\ due' = {} /\ pending' = {}
    /\ UNCHANGED <<storeVars, fileVars, queueVars, air, rec, faults>>

\* recordings.Wait() is over and Run returns.
Exit ==
    /\ proc \in {"failed", "stopping"} /\ \A r \in Recorders : ~Live(r)
    /\ ProcessEnds("down") /\ UNCHANGED <<faults, crashes>>

\* systemd starts the operator: initializeRuntimeState begins with
\* retryPendingCompletions.
Restart ==
    /\ proc = "down" /\ proc' = "init" /\ Enter("listCompletions", {})
    /\ UNCHANGED <<storeVars, fileVars, queueVars, snapVars, air, rec, faults,
                   crashes>>

\* Variant: start-up keeps no pending completion.
InitReadNone ==
    /\ loop = "initRead" /\ Succeeds
    /\ Enter("initWrite", {}) /\ pending' = {}
    /\ UNCHANGED <<storeVars, fileVars, queueVars, recordingIDs, recordedIDs,
                   due>>
    /\ LoopFrame

\* It reads the rows; those whose completion is still pending are kept ...
InitRead ==
    /\ loop = "initRead"
    /\ \/ /\ Succeeds /\ Enter("initWrite", {})
          /\ pending' = {p \in Programs : PendingCompletion(p)}
          /\ UNCHANGED <<storeVars, fileVars, queueVars, recordingIDs,
                         recordedIDs, due>>
          /\ LoopFrame
       \/ Fails("store") /\ ProcessEnds("down") /\ UNCHANGED crashes

\* Variant: start-up leaves the collection as it is.
InitWriteNothing ==
    /\ loop = "initWrite" /\ Succeeds
    /\ proc' = "up" /\ Enter("idle", {}) /\ pending' = {}
    /\ UNCHANGED <<storeVars, fileVars, queueVars, recordingIDs, recordedIDs,
                   due, air, rec, crashes>>

\* ... and the collection is rewritten with only those.
InitWrite ==
    /\ loop = "initWrite"
    /\ \/ /\ Succeeds /\ proc' = "up" /\ Enter("idle", {}) /\ pending' = {}
          /\ recording' = [p \in Programs |->
                              IF p \in pending THEN recording[p] ELSE None]
          /\ UNCHANGED <<recorded, reserve, fileVars, queueVars, recordingIDs,
                         recordedIDs, due, air, rec, crashes>>
       \/ Fails("store") /\ ProcessEnds("down") /\ UNCHANGED crashes

Process == Crash \/ Shutdown \/ Exit \/ Restart \/ InitRead \/ InitWrite

Recorder(r) ==
    \/ OpenStream(r) \/ MarkRecording(r) \/ CreatePart(r) \/ CopyData(r)
    \/ CopyEnds(r) \/ Watch(r) \/ SetDeadline(r) \/ EndReached(r)
    \/ StopCheck(r)
    \/ AbortCheck(r) \/ Claim(r) \/ Promote(r) \/ Rollback(r) \/ ClearClaim(r)
    \/ UnlinkPart(r) \/ RemoveFailed(r) \/ ReleaseReserve(r)
    \/ CompleteRecording(r) \/ ForgetReserve(r) \/ PostProcess(r)

\* Time passes for a program.
AirAdvances(p) ==
    /\ air' = [air EXCEPT ![p] = CASE @ = "before" -> "on"
                                   [] @ = "on" -> "after"
                                   [] OTHER -> @]
    /\ air[p] # "after"
    /\ UNCHANGED <<storeVars, fileVars, proc, rec, queueVars, loopVars, faults,
                   crashes>>
=============================================================================
