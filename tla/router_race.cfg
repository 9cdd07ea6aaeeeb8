CONSTANTS
    Callers = {c1, c2}
    Text <- MCText
    Inputs <- RaceInputs
    KeyOf <- MCKeyOf
    Oversized <- MCOversized
    Hostile <- MCHostile
    MinedActions <- MCMined
    InsertedCorroboration = 1
    ConfigTtl = 1
    ConfigCap = 1
    Week = 2
    MaxProposals = 2
    MaxSignals = 2
    MaxClock = 1
    Faults = {"crash", "lost_write", "failed_read", "failed_insert", "failed_count", "failed_sink"}
    MaxFaults = 1
SPECIFICATION Spec
SYMMETRY CallerSymmetry
INVARIANTS EvidenceGate CommittedWasApplied
CHECK_DEADLOCK FALSE
