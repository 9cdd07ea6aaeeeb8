CONSTANTS
    HdrLen = 2
    ModuleMessageHeaderLen = 1
    MaxPayload = 6
    WordMod = 16
    Geometries <- MCGeometries
    MaxLen = 6
SPECIFICATION FairSpec
INVARIANTS NothingLeaks PlacedIsViewed EmittedIsViewed BodyArrives
PROPERTIES CancelEndsConnect
\* a client that has failed or detached does nothing more
CHECK_DEADLOCK FALSE
