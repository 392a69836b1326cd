SPECIFICATION Spec
CONSTANTS
    Address = {a1, a2}
    Contract = Contract
    PubKey = {k1}
    Timestamp = {1}
    RateArg <- FreeRates
    AmountArg = {2}
    UnitArg = {1}
    SeqArg = {1, 2}
    MaxI128 = 3
    MaxU64 = 2
    Mint = 2
    TokenArg = {"revocable"}
SYMMETRY Symmetry
PROPERTIES
    GapOnlyByClawback
    RefinesPrepaidLedger
    ImplementsMeterLog
