CONSTANTS
    Callers = {p1, p2}
    x = x
    y = y
    Candidates = {x, y}
    KindOf <- MCKindOf
    TargetOf <- MCTargetOf
    ConfidenceOf <- MCConfidenceOf
    Fieldless = {}
    HasDB1 = FALSE
    Threshold = 80
    Minimums = {0, 2}
    MaxCitations = 2
    MaxCalls = 4
    MaxWork = 4
    Reports <- MCReports
    VectorOf <- MCVectorOf
    Queries <- MCQueries
    BUNDLE_SCAN_MAX = 3
    LEARNING_BUNDLE_MAX = 2
    Faults = {"crash", "failed_read", "failed_write", "failed_audit", "failed_enqueue"}
    MaxFaults = 1
SPECIFICATION CaptureSpec
SYMMETRY CallerSymmetry
INVARIANTS PromotedWasCited AuditedWasWritten PromotesCommitted PlacedAsMeant
CorroborationIsDistinct NothingForgotten BundleIsBest
\* the callers may do nothing more
CHECK_DEADLOCK FALSE
