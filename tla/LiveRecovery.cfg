CONSTANTS
    p1 = p1
    p2 = p2
    r1 = r1
    r2 = r2
    None = None
    Programs = {p1}
    Recorders = {r1}
    ProgramOf <- OneProgram1
    Automatic = {p1}
    LowSpaceAction = "none"
    ZeroEndMargin = TRUE
    Faulty = {"store"}
    MaxFaults = 1
    MaxCrashes = 1
    UserOps = {"stop", "skip"}
    MaxUserOps = 1
    MaxSchedules = 0
SPECIFICATION FairSpec
PROPERTIES
    RecordingEnds
    RecordedReleases
    MarkedEnds
    SkipTakesEffect
    DueStarts
