CONSTANTS
    p1 = p1
    p2 = p2
    r1 = r1
    r2 = r2
    None = None
    Programs = {p1}
    Recorders = {r1, r2}
    ProgramOf <- OneProgram2
    Automatic = {p1}
    LowSpaceAction = "none"
    ZeroEndMargin = TRUE
    Faulty = {"store"}
    MaxFaults = 0
    MaxCrashes = 0
    UserOps = {"stop", "skip", "unskip"}
    MaxUserOps = 2
    MaxSchedules = 1
SPECIFICATION Spec
INVARIANTS
    ClaimedNotAborted
    AbortedNotRecorded
    NoOrphanPart
    FilesMatchLists
PROPERTIES
    ClaimFixesMark
    DiscardJustified
SYMMETRY Recorders2
