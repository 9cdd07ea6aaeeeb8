CONSTANTS
    Calls = {1, 2, 3}
    CallOf <- MCCallOf
    Refused = {1}
    Stages = {6145}
    HandlerStatus = {"ok"}
    moduleMaxInFlight = 2
    MaxBody = 2
    InboundCap = 2
    OutboundCap = 1
    InboxCap = 1
    MaxClock = 2
SPECIFICATION CallSpec
INVARIANTS OnlyUnsentIsOrphaned CancelReachesHandler ServedWhole
PROPERTIES ImplementsRemoteCall CallReturns
