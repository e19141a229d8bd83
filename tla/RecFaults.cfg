CONSTANTS
    p1 = p1
    p2 = p2
    r1 = r1
    r2 = r2
    None = None
    Programs = {p1}
    Recorders = {r1, r2}
    ProgramOf <- OneProgram2
    Automatic = {p1}
    LowSpaceAction = "stop"
    ZeroEndMargin = TRUE
    Faulty = {"store", "file"}
    MaxFaults = 3
    MaxCrashes = 1
    UserOps = {"stop"}
    MaxUserOps = 1
    MaxSchedules = 0
SPECIFICATION Spec
INVARIANTS
    RowHasOwner
PROPERTIES
    StoppedNotRestarted
    RollbackSparesNewRow
SYMMETRY Recorders2
