SPECIFICATION Spec
CONSTANTS
    Address = {a1, a2}
    Contract = Contract
    PubKey = {k1}
    Timestamp = {1}
    RateArg <- FreeRates
    AmountArg <- Amounts
    UnitArg = {1, 2}
    SeqArg = {1, 2}
    MaxI128 = 4
    MaxU64 = 2
    Mint = 2
    TokenArg = {"plain"}
INVARIANT SignatureBilledOnce
