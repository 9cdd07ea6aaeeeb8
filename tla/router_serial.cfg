CONSTANTS
    Callers = {c1}
    Text <- MCText
    Inputs <- SerialInputs
    KeyOf <- MCKeyOf
    Oversized <- MCOversized
    Hostile <- MCHostile
    Flags <- MCFlags
    Turns <- MCTurns
    Questions <- MCQuestions
    Corrections <- MCCorrections
    Workflows <- MCWorkflows
    MinedActions = {}
    InsertedCorroboration = 1
    ConfigTtl = 1
    ConfigCap = 1
    Week = 2
    MaxProposals = 3
    MaxSignals = 2
    MaxClock = 2
    Faults = {"crash", "lost_write", "failed_read", "failed_count", "failed_sink"}
    MaxFaults = 1
SPECIFICATION SignalSpec
INVARIANTS WithinWeeklyCap AppliedExactlyOnce OnePendingPerTarget ResultMatchesStore DetectionsSuggest HostileNeverQueued
PROPERTIES SettledForGood EveryCallReturns
CHECK_DEADLOCK FALSE
