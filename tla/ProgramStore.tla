--------------------------- MODULE ProgramStore ---------------------------
(***************************************************************************)
(* The tables the processes of Strata PVR share: the rows of               *)
(* program_collections ("recording" and "recorded") and of reservations.   *)
(* One operator per transaction of internal/programstore and               *)
(* internal/reservationstore; SQLite makes each of them atomic.            *)
(*                                                                         *)
(* A program is its id.  Titles, times and the raw JSON that rides along   *)
(* are left out; what the transactions decide on is kept: the abort mark   *)
(* with its reason, whether Recorded names a file, PID, and the completion *)
(* token (Raw["_strataFinalizing"]), which is the recorder that claimed.   *)
(***************************************************************************)
EXTENDS Integers

CONSTANTS
    Programs,       \* program ids
    Recorders,      \* goroutines that may ever run finishRecording
    None            \* no row, no completion token, no program, no plan

VARIABLES
    recording,      \* collection "recording": an active row, or None
    recorded,       \* collection "recorded": the abort mark kept in the row
    reserve         \* table reservations: IsSkip of the row

storeVars == <<recording, recorded, reserve>>

\* Abort = FALSE; Abort with reason ""; Abort with AbortReasonUser.
AbortMark == {"none", "system", "user"}

Row == [abort : AbortMark,
        path  : BOOLEAN,                  \* Recorded # ""
        pid   : {0, -1},
        claim : Recorders \cup {None}]

ASSUME NoneAssumption == None \notin Row \cup Recorders \cup Programs

StoreTypeOK ==
    /\ recording \in [Programs -> Row \cup {None}]
    /\ recorded  \in [Programs -> AbortMark \cup {"absent"}]
    /\ reserve   \in [Programs -> {"absent", "active", "skip"}]

StoreInit ==
    /\ recording = [p \in Programs |-> None]
    /\ recorded  = [p \in Programs |-> "absent"]
    /\ reserve   = [p \in Programs |-> "active"]

----------------------------------------------------------------------------
IsRecording(p) == recording[p] # None
IsRecorded(p)  == recorded[p] # "absent"

\* CompletionClaimed: the row carries a completion token.
Claimed(p) == IsRecording(p) /\ recording[p].claim # None

\* The rows retryPendingCompletions and initializeRuntimeState look for.
PendingCompletion(p) ==
    Claimed(p) /\ recording[p].path /\ recording[p].pid = 0

\* A copy of the reservation: no output path, no pid, no mark.
FreshRow == [abort |-> "none", path |-> FALSE, pid |-> 0, claim |-> None]

UpsertRecording(p) == recording' = [recording EXCEPT ![p] = FreshRow]

RemoveRecording(p) == recording' = [recording EXCEPT ![p] = None]

\* updateRecordingProgram: Update reports nothing when the row is gone.
MarkActive(p) ==
    recording' = IF IsRecording(p)
                 THEN [recording EXCEPT ![p].path = TRUE, ![p].pid = -1]
                 ELSE recording

\* Variant: a claimed row is marked too.
SetAbortAnyway(p) ==
    recording' = IF IsRecording(p)
                 THEN [recording EXCEPT ![p].abort = "system"]
                 ELSE recording

\* SetAbort refuses a claimed row and clears the reason of any other.
SetAbort(p) ==
    recording' = IF IsRecording(p) /\ ~Claimed(p)
                 THEN [recording EXCEPT ![p].abort = "system"]
                 ELSE recording

\* Variant: a claimed row is stopped too.
StopByUserAnytime(p) ==
    /\ IsRecording(p)
    /\ recording' = [recording EXCEPT ![p].abort = "user"]
    /\ reserve' = [reserve EXCEPT ![p] = IF @ = "absent" THEN @ ELSE "skip"]

\* Variant: the reservation is not skipped.
StopByUserOnly(p) ==
    /\ IsRecording(p) /\ ~Claimed(p)
    /\ recording' = [recording EXCEPT ![p].abort = "user"]
    /\ UNCHANGED reserve

\* StopByUser: one transaction marks the recording and skips the reservation.
StopByUser(p) ==
    /\ IsRecording(p) /\ ~Claimed(p)
    /\ recording' = [recording EXCEPT ![p].abort = "user"]
    /\ reserve' = [reserve EXCEPT ![p] = IF @ = "absent" THEN @ ELSE "skip"]

\* Variant: an aborted row can be claimed.
MayClaimAborted(p) == IsRecording(p) /\ ~Claimed(p)

\* ClaimCompletionWithToken, the callback of UpdateFound.
MayClaim(p) ==
    IsRecording(p) /\ recording[p].abort # "system" /\ ~Claimed(p)

\* Variant: the claim leaves PID at -1.
ClaimKeepingPid(p, r) ==
    /\ MayClaim(p)
    /\ recording' = [recording EXCEPT ![p].path = TRUE, ![p].claim = r]

ClaimCompletion(p, r) ==
    /\ MayClaim(p)
    /\ recording' = [recording EXCEPT ![p].path = TRUE, ![p].pid = 0,
                                      ![p].claim = r]

ClearCompletionClaim(p) ==
    recording' = IF IsRecording(p)
                 THEN [recording EXCEPT ![p].claim = None]
                 ELSE recording

\* Complete: the current active row becomes the recorded row.  It looks at no
\* token, and it does nothing when the active row is gone.
Complete(p) ==
    /\ IsRecording(p)
    /\ recorded'  = [recorded EXCEPT ![p] = recording[p].abort]
    /\ recording' = [recording EXCEPT ![p] = None]

RemoveRecorded(p) == recorded' = [recorded EXCEPT ![p] = "absent"]

DeleteReserve(p) == reserve' = [reserve EXCEPT ![p] = "absent"]

\* reservationstore.Upsert inserts when the row is gone.
UpsertReserve(p, value) == reserve' = [reserve EXCEPT ![p] = value]
=============================================================================
