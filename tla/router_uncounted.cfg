CONSTANTS
    Callers = {c1}
    Text <- MCText
    Inputs <- CapInputs
    KeyOf <- MCKeyOf
    Oversized <- MCOversized
    Hostile <- MCHostile
    MinedActions = {}
    InsertedCorroboration = 1
    ConfigTtl = 1
    ConfigCap = 1
    Week = 2
    MaxProposals = 2
    MaxSignals = 2
    MaxClock = 1
    Faults = {"failed_count"}
    MaxFaults = 1
SPECIFICATION Spec
INVARIANTS CapIsCap
CHECK_DEADLOCK FALSE
