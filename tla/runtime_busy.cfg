CONSTANTS
    c1 = c1
    c2 = c2
    c3 = c3
    c4 = c4
    Calls = {c1, c2, c3}
    CallOf <- BusyCalls
    Stages = {6145}
    HandlerStatus = {"ok", "invalid"}
    moduleMaxInFlight = 1
    MaxBody = 2
    InboundCap = 1
    OutboundCap = 1
    MaxClock = 0
SPECIFICATION RunningSpec
INVARIANTS ResultsNeverBlock  
PROPERTIES StopCompletes EveryRequestAnswered
