-------------------------- MODULE RecordingSystem --------------------------
(***************************************************************************)
(* The operator together with the processes that write the same tables:    *)
(* the WUI and the CLI (reserve, unreserve, skip, unskip, stop, delete,    *)
(* cleanup) and the scheduler, which reads the reservations, plans, and    *)
(* replaces the whole table.  Their handlers read first and write later,   *)
(* and anything may happen in between.                                     *)
(***************************************************************************)
EXTENDS Operator

CONSTANTS
    UserOps,        \* the handlers this instance exercises
    MaxUserOps,     \* bound: handlers that run
    MaxSchedules    \* bound: scheduler runs

ASSUME UserOpsAssumption ==
    UserOps \subseteq {"reserve", "unreserve", "skip", "unskip", "stop",
                       "delete", "deleteFile", "cleanup"}
ASSUME UserBoundsAssumption == MaxUserOps \in Nat /\ MaxSchedules \in Nat

VARIABLES
    \* the handler between its read and its write: what it will write, and
    \* the program; "none" when no handler is in between
    handler,
    \* the reservations a scheduler run is about to publish, or None
    plan,
    \* history: programs whose recording a user stopped, and that no user
    \* asked for again
    stopped,
    userOps, schedules      \* what is left of the bounds

userVars == <<handler, plan, stopped, userOps, schedules>>
vars == <<storeVars, opVars, userVars>>

Idle == [write |-> "none", program |-> None]

TypeOK ==
    /\ OperatorTypeOK
    /\ handler \in [write : {"active", "skip", "removeRecorded", "removeStaged",
                             "none"},
                    program : Programs \cup {None}]
    /\ plan \in [Programs -> {"absent", "active", "skip"}] \cup {None}
    /\ stopped \subseteq Programs
    /\ userOps \in 0..MaxUserOps /\ schedules \in 0..MaxSchedules

Init ==
    /\ OperatorInit
    /\ handler = Idle /\ plan = None /\ stopped = {}
    /\ userOps = MaxUserOps /\ schedules = MaxSchedules

----------------------------------------------------------------------------
\* A handler of kind op starts.
Starts(op) == op \in UserOps /\ userOps > 0 /\ userOps' = userOps - 1

\* It has read what it needed and will write value for p.
Later(p, value) ==
    /\ handler = Idle /\ handler' = [write |-> value, program |-> p]

HandlerFrame == UNCHANGED <<opVars, plan, schedules>>

\* reserveProgram, reserve: refused when the reservation is there.
Reserve(p) ==
    /\ Starts("reserve") /\ p \notin Automatic
    /\ reserve[p] = "absent" /\ Later(p, "active")
    /\ UNCHANGED <<storeVars, stopped>> /\ HandlerFrame

\* handleReserveProgram PUT, updateReserve: the row read is written back.
Skip(p) ==
    /\ Starts("skip") /\ reserve[p] # "absent" /\ Later(p, "skip")
    /\ UNCHANGED <<storeVars, stopped>> /\ HandlerFrame

Unskip(p) ==
    /\ Starts("unskip") /\ reserve[p] # "absent" /\ Later(p, "active")
    /\ UNCHANGED <<storeVars, stopped>> /\ HandlerFrame

\* reservationstore.Upsert of any of the three.
WriteReserve ==
    /\ handler.write \in {"active", "skip"} /\ handler' = Idle
    /\ UpsertReserve(handler.program, handler.write)
    /\ stopped' = IF handler.write = "active" THEN stopped \ {handler.program}
                                              ELSE stopped
    /\ UNCHANGED <<recording, recorded, userOps>> /\ HandlerFrame

\* DELETE of a manual reservation.
Unreserve(p) ==
    /\ Starts("unreserve") /\ p \notin Automatic /\ reserve[p] # "absent"
    /\ DeleteReserve(p)
    /\ UNCHANGED <<recording, recorded, handler, stopped>> /\ HandlerFrame

\* handleRecordingProgram DELETE, stopRecording.
Stop(p) ==
    /\ Starts("stop") /\ StopByUser(p) /\ stopped' = stopped \cup {p}
    /\ UNCHANGED <<recorded, handler>> /\ HandlerFrame

FileFrame == UNCHANGED <<storeVars, stopped, plan, schedules, air, part, proc,
                         rec, queueVars, loopVars, crashes>>

\* deleteRecordedProgram stages the file away; handleRecordedCleanup found it
\* missing.  Both then remove the row.
DeleteRecorded(p) ==
    /\ Starts("delete") /\ IsRecorded(p)
    /\ Later(p, IF final[p] THEN "removeStaged" ELSE "removeRecorded")
    /\ final' = [final EXCEPT ![p] = FALSE]
    /\ UNCHANGED faults /\ FileFrame

\* handleRecordedFile DELETE: the file goes and the row stays.
DeleteFile(p) ==
    /\ Starts("deleteFile") /\ IsRecorded(p) /\ final[p]
    /\ final' = [final EXCEPT ![p] = FALSE]
    /\ UNCHANGED <<faults, handler>> /\ FileFrame

CleanupRecorded(p) ==
    /\ Starts("cleanup") /\ IsRecorded(p) /\ ~final[p]
    /\ Later(p, "removeRecorded")
    /\ UNCHANGED <<storeVars, stopped>> /\ HandlerFrame

Removing(p) ==
    handler.write \in {"removeRecorded", "removeStaged"} /\ handler.program = p

WriteRecorded ==
    /\ Removing(handler.program) /\ handler' = Idle
    /\ RemoveRecorded(handler.program)
    /\ UNCHANGED <<recording, reserve, stopped, userOps>> /\ HandlerFrame

\* The row could not be removed: the staged file is renamed back.
RestoreStaged ==
    /\ handler.write = "removeStaged" /\ handler' = Idle
    /\ Fails("store")
    /\ final' = [final EXCEPT ![handler.program] = TRUE]
    /\ UNCHANGED userOps /\ FileFrame

\* RunWithSource: BuildReserves on the reservations as they are now.  A rule
\* match keeps the skip mark of the reservation it replaces; a manual
\* reservation is taken from the guide again, which has no skip mark, or kept
\* when the guide no longer has it; a program that ended is dropped.
Planned(p) ==
    CASE air[p] = "after" -> {"absent"}
      [] air[p] # "after" /\ p \in Automatic ->
            {IF reserve[p] = "skip" THEN "skip" ELSE "active"}
      [] OTHER -> IF reserve[p] = "absent" THEN {"absent"}
                                           ELSE {"active", reserve[p]}

SchedulerReads ==
    /\ plan = None /\ schedules > 0 /\ schedules' = schedules - 1
    /\ plan' \in {f \in [Programs -> {"absent", "active", "skip"}] :
                     \A p \in Programs : f[p] \in Planned(p)}
    /\ UNCHANGED <<storeVars, opVars, handler, stopped, userOps>>

\* ReplaceSchedulerStateWithRecordingUpdates.
SchedulerPublishes ==
    /\ plan # None /\ reserve' = plan /\ plan' = None
    /\ UNCHANGED <<recording, recorded, opVars, handler, stopped, userOps,
                   schedules>>

User ==
    \/ WriteReserve \/ WriteRecorded \/ RestoreStaged
    \/ \E p \in Programs :
          \/ Reserve(p) \/ Skip(p) \/ Unskip(p) \/ Unreserve(p) \/ Stop(p)
          \/ DeleteRecorded(p) \/ DeleteFile(p) \/ CleanupRecorded(p)

Next ==
    \/ (Loop \/ Process \/ \E r \in Recorders : Recorder(r))
          /\ UNCHANGED userVars
    \/ (\E p \in Programs : AirAdvances(p)) /\ UNCHANGED userVars
    \/ User \/ SchedulerReads \/ SchedulerPublishes

Spec == Init /\ [][Next]_vars

----------------------------------------------------------------------------
(* Fairness.  The loop runs (Run ticks for ever), systemd restarts a failed *)
(* operator, a goroutine runs on, and a blocked one gets recordingStateMu   *)
(* (sync.Mutex hands it to a starving waiter: strong fairness).  A read of  *)
(* the stream is only bound to return once the context is cancelled, which  *)
(* the end timer and the poll of the row see to.  Nothing makes a user, the *)
(* scheduler or the clock move.                                             *)
LockedStep(r) ==
    MarkRecording(r) \/ Claim(r) \/ RemoveFailed(r) \/ CompleteRecording(r)

FreeStep(r) ==
    \/ OpenStream(r) \/ CreatePart(r) \/ Watch(r)
    \/ SetDeadline(r) \/ EndReached(r)
    \/ Cancelled(r) /\ CopyEnds(r)
    \/ StopCheck(r) \/ AbortCheck(r) \/ Promote(r) \/ Rollback(r)
    \/ ClearClaim(r) \/ UnlinkPart(r) \/ ReleaseReserve(r)
    \/ ForgetReserve(r) \/ PostProcess(r)

Fairness ==
    /\ WF_vars(Loop /\ UNCHANGED userVars)
    /\ WF_vars((Exit \/ Restart \/ InitRead \/ InitWrite) /\ UNCHANGED userVars)
    /\ \A r \in Recorders :
          /\ SF_vars(LockedStep(r) /\ UNCHANGED userVars)
          /\ WF_vars(FreeStep(r) /\ UNCHANGED userVars)

FairSpec == Spec /\ Fairness

----------------------------------------------------------------------------
(* Safety.                                                                 *)

\* A pass decides what to start on two id lists it read calls ago, while
\* goroutines, the WUI and the scheduler go on.  When it inserts an active
\* row (operator.go:240) the program has a row in neither collection: nothing
\* is overwritten and nothing that was recorded is recorded again.
StartIsFresh ==
    loop = "start" =>
        \A p \in todo : ~IsRecording(p) /\ ~IsRecorded(p)

\* A claimed row is not marked by the system: what handleLowStorage and
\* abortSkippedRecordings do with stale rows never reaches a recording that is
\* being promoted (programstore.SetAbort, ErrProgramFinalizing).
ClaimedNotAborted ==
    \A p \in Programs : Claimed(p) => recording[p].abort # "system"

\* Two goroutines never have the same .part file open: the row inserted before
\* a goroutine is started stays until its file is closed and gone.
OneWriter ==
    \A r, s \in Recorders :
        Writing(r) /\ Writing(s) /\ ProgramOf[r] = ProgramOf[s] => r = s

\* A recording the system aborted is never listed as recorded.
AbortedNotRecorded == \A p \in Programs : recorded[p] # "system"

\* A finished file is always reachable: its program is listed as recorded, or
\* its claimed row lets a retry or a restart list it.
FinalIsListed ==
    \A p \in Programs : final[p] => IsRecorded(p) \/ PendingCompletion(p)

\* A listed recording has its file, unless the rename is still to come or
\* somebody is removing the recording; only while nobody deletes files alone.
RecordedHasFile ==
    \A p \in Programs : IsRecorded(p) =>
        \/ final[p]
        \/ \E r \in Recorders : ProgramOf[r] = p /\ rec[r].pc = "promote"
        \/ Removing(p)
        \/ loop = "lowRemove" /\ p \in todo

\* Files and lists agree in both directions.
FilesMatchLists == FinalIsListed /\ RecordedHasFile

\* No .part file outlives the goroutine that wrote it.
NoOrphanPart ==
    \A p \in Programs : part[p] # "absent" =>
        \E r \in Recorders : ProgramOf[r] = p /\ Writing(r)

\* Once claimed, a row keeps its abort mark until it leaves the collection:
\* what was decided at the claim is what is recorded.
ClaimFixesMark ==
    [][\A p \in Programs : Claimed(p) /\ IsRecording(p)' =>
            recording'[p].abort = recording[p].abort]_vars

\* What was received is thrown away only when the stream broke or the row bears
\* a mark: neither the end timer nor a stale read costs a recording.
DiscardJustified ==
    [][\A p \in Programs :
          part[p] = "data" /\ part'[p] = "absent" /\ ~final'[p] =>
            \/ \E r \in Recorders :
                  ProgramOf[r] = p /\ rec[r].pc = "unlink" /\ rec[r].copyErr
            \/ IsRecording(p) /\ recording[p].abort # "none"]_vars

\* A goroutine completes only the row it claimed: nothing but the id is looked
\* at (program_collections.go:239), so the order of the calls has to see to it.
\* Only while recorded programs stay and renames work: else a goroutine whose row
\* is gone promotes the row of the next recording.
CompletesOwnRow ==
    [][\A r \in Recorders :
          rec[r].pc = "complete" /\ rec'[r].pc = "forget"
             => recording[ProgramOf[r]].claim = r]_vars

\* A completion rollback retried by a later pass never takes the row of a
\* recording that was started in the meantime (the token compared at
\* operator.go:562).  With three goroutines and four failed calls it may: once
\* the second removal after a failed rename (operator.go:302) has cost one its
\* row, two of them share the next row, and the rollback of one takes it.
RollbackSparesNewRow ==
    [][\A r \in Recorders :
          LET p == ProgramOf[r] IN
          /\ rec[r].pc \in {"copy", "stopCheck", "abortCheck", "claim", "promote"}
          /\ rollbacks[p] \notin {None, r} /\ IsRecording(p)
          /\ loop = "rollbacks" /\ loop' = "rollbacks" /\ todo' # todo
          => IsRecording(p)']_vars

\* A program whose recording a user stopped is not recorded again, over
\* restarts of the operator too, until somebody reserves or unskips it.  A
\* scheduler run may reserve it again (program_collections.go:177 says not).
StoppedNotRestarted ==
    [][\A p \in stopped : IsRecording(p)' => IsRecording(p)]_vars

\* While the operator is up, every active row has something that will take it
\* away: its goroutine, the pass about to start that, the completion of a
\* claimed row, or one of the retry queues.
RowHasOwner ==
    proc = "up" => \A p \in Programs : IsRecording(p) =>
        \/ \E r \in Recorders : ProgramOf[r] = p /\ Live(r)
        \/ loop \in {"start", "spawn"} /\ p \in pending
        \/ PendingCompletion(p)
        \/ p \in removals \/ rollbacks[p] # None

----------------------------------------------------------------------------
(* The abstract recording.                                                 *)

PhaseOf(p) == IF IsRecorded(p) THEN "recorded"
              ELSE IF Claimed(p) THEN "finishing"
              ELSE IF IsRecording(p) THEN "recording" ELSE "none"

MarkOf(p) == IF IsRecorded(p) THEN recorded[p]
             ELSE IF IsRecording(p) THEN recording[p].abort ELSE "none"

Promise == INSTANCE RecordingPromise
           WITH phase <- [p \in Programs |-> PhaseOf(p)],
                mark <- [p \in Programs |-> MarkOf(p)],
                file <- final

\* A program's rows and its file, written by goroutines, passes and start-up in
\* calls of their own, make one recording: started once, dropped or finished,
\* and never lost, marked or repeated once it is claimed.
KeepsPromise == Promise!Spec

----------------------------------------------------------------------------
(* What the documents say and the code does not do.  StopThenPostProcess    *)
(* violates the first; the README names an instance that violates each.     *)

\* Post-processing does not run for an interrupted recording (README.md:231):
\* a user stop marks the row, and the goroutine looks for that mark on its
\* own copy (operator.go:334).
NoPostProcessAfterStop ==
    \A r \in Recorders : rec[r].pc = "post" => recorded[ProgramOf[r]] # "user"

\* A user stop keeps what was recorded until then (cli.go:1314): the second
\* look at the row does not throw it away.
StopKeepsPartial ==
    [][\A r \in Recorders :
          LET p == ProgramOf[r] IN
          rec[r].pc = "abortCheck" /\ rec'[r].pc = "unlink" /\ IsRecording(p)
             => recording[p].abort # "user"]_vars

----------------------------------------------------------------------------
(* Liveness.                                                               *)

\* Started so late that no timer ends it (operator.go:1032): it reads until the
\* stream ends, is broken or the row is marked.
ReadsWithoutTimer(r) ==
    rec[r].pc = "copy" /\ rec[r].timer = "none" /\ ~rec[r].cancelled

\* A program whose air time is over leaves the recording collection: neither
\* a failed call, a crash nor a lost queue leaves a row behind.  Only a
\* goroutine that started after the end, with no end margin, may read on.
RecordingEnds ==
    \A p \in Programs :
        (air[p] = "after" /\ IsRecording(p)) ~>
            (\/ ~IsRecording(p)
             \/ \E r \in Recorders : ProgramOf[r] = p /\ ReadsWithoutTimer(r))

\* The reservation of a recorded program goes away, even when its delete
\* fails, is lost with the process, or a stale handler puts it back.
RecordedReleases ==
    \A p \in Programs :
        (IsRecorded(p) /\ reserve[p] # "absent")
            ~> (reserve[p] = "absent" \/ ~IsRecorded(p))

\* A marked recording ends without waiting for the program to end.
MarkedEnds ==
    \A p \in Programs :
        (IsRecording(p) /\ recording[p].abort # "none") ~> ~IsRecording(p)

\* A skipped automatic reservation stops its recording without waiting for the
\* program to end; only an operator that waits for its goroutines after a
\* failed pass looks at no reservation any more.
SkipTakesEffect ==
    \A p \in Automatic :
        (IsRecording(p) /\ reserve[p] = "skip")
            ~> (~IsRecording(p) \/ reserve[p] # "skip" \/ proc = "failed")

\* A reserved program on air gets a goroutine (while the bound leaves one),
\* after failed attempts and restarts too.
DueStarts ==
    \A p \in Programs :
        LET mine == {r \in Recorders : ProgramOf[r] = p}
            due1 == air[p] = "on" /\ reserve[p] = "active" /\ ~IsRecorded(p)
                       /\ \E r \in mine : rec[r].pc = "fresh"
        IN  due1 ~> (~due1 \/ \E r \in mine : Live(r))
=============================================================================
