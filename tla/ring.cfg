CONSTANTS
    a = a
    b = b
    bad = bad
    Messages <- MCMessages
    Undecodable <- MCUndecodable
    Capacity = 4
    IndexMod = 8
SPECIFICATION FairSpec
INVARIANTS NoDataRace PayloadStableUntilPoll
PROPERTIES ImplementsFifo EveryFrameLeaves
\* after a host restart both ends stop
CHECK_DEADLOCK FALSE
