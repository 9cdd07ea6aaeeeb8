CONSTANTS
    Callers = {c1, c2}
    Text <- MCText
    Inputs <- CapInputs
    KeyOf <- MCKeyOf
    Oversized <- MCOversized
    Hostile <- MCHostile
    MinedActions = {}
    InsertedCorroboration = 1
    ConfigTtl = 1
    ConfigCap = 1
    Week = 1
    MaxProposals = 3
    MaxSignals = 3
    MaxClock = 1
    Faults = {"failed_count"}
    MaxFaults = 1
SPECIFICATION Spec
SYMMETRY CallerSymmetry
INVARIANTS CapOvershootBounded
CHECK_DEADLOCK FALSE
