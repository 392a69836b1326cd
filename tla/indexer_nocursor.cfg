SPECIFICATION Spec
CONSTANTS
    Poll = {p1}
    PAGE_LIMIT = 1
    HasCursor = FALSE
    EventKind = {"meter"}
    MaxLedger = 2
    MaxBatch = 2
    MaxSafe = 8
    MaxInt64 = 16
INVARIANT CompleteBelowWatermark
