CONSTANTS
    Callers = {c1}
    Text <- MCText
    Inputs <- CorrectionInputs
    KeyOf <- MCKeyOf
    Oversized <- MCOversized
    Hostile <- MCHostile
    MinedActions = {}
    InsertedCorroboration = 1
    ConfigTtl = 1
    ConfigCap = 1
    Week = 2
    MaxProposals = 3
    MaxSignals = 2
    MaxClock = 1
    Faults = {}
    MaxFaults = 0
SPECIFICATION Spec
INVARIANTS RepeatedCorrectionWasRepeated
CHECK_DEADLOCK FALSE
