CONSTANTS
    p1 = p1
    p2 = p2
    r1 = r1
    r2 = r2
    None = None
    Programs = {p1}
    Recorders = {r1, r2}
    ProgramOf <- OneProgram2
    Automatic = {p1}
    LowSpaceAction = "stop"
    ZeroEndMargin = FALSE
    Faulty = {"store"}
    MaxFaults = 2
    MaxCrashes = 1
    UserOps = {}
    MaxUserOps = 0
    MaxSchedules = 0
SPECIFICATION Spec
INVARIANTS
    OneWriter
    FinalIsListed
PROPERTIES
    KeepsPromise
    CompletesOwnRow
SYMMETRY Recorders2
