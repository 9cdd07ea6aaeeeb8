CONSTANTS
    c1 = c1
    c2 = c2
    c3 = c3
    c4 = c4
    Calls = {c1, c2, c3, c4}
    CallOf <- GoodCalls
    Stages = {6145}
    HandlerStatus = {"ok"}
    moduleMaxInFlight = 3
    MaxBody = 2
    InboundCap = 2
    OutboundCap = 1
    MaxClock = 1
SPECIFICATION Spec
INVARIANTS DoomedNeverOk WholeBody AnsweredAtMostOnce
