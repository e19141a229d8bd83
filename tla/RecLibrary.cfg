CONSTANTS
    p1 = p1
    p2 = p2
    r1 = r1
    r2 = r2
    None = None
    Programs = {p1}
    Recorders = {r1, r2}
    ProgramOf <- OneProgram2
    Automatic = {}
    LowSpaceAction = "remove"
    ZeroEndMargin = FALSE
    Faulty = {"store"}
    MaxFaults = 1
    MaxCrashes = 0
    UserOps = {"reserve", "unreserve", "delete", "deleteFile", "cleanup"}
    MaxUserOps = 2
    MaxSchedules = 0
SPECIFICATION Spec
INVARIANTS
    StartIsFresh
SYMMETRY Recorders2
