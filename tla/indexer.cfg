SPECIFICATION FairSpec
CONSTANTS
    Poll = {p1, p2}
    PAGE_LIMIT = 2
    HasCursor = TRUE
    EventKind = {"meter", "other", "unstorable"}
    MaxLedger = 2
    MaxBatch = 2
    MaxSafe = 8
    MaxInt64 = 16
INVARIANTS
    CompleteBelowWatermark
    CacheIsPrefix
    PublishedIsStored
    WatermarkIsClosed
PROPERTIES
    ImplementsEventFeed
    WatermarkCatchesUp
