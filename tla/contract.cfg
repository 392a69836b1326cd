SPECIFICATION Spec
CONSTANTS
    Address = {a1, a2}
    Contract = Contract
    PubKey = {k1, k2}
    Timestamp = {1}
    RateArg <- Rates
    AmountArg <- Amounts
    UnitArg = {0, 1, 2}
    SeqArg = {1, 2}
    MaxI128 = 4
    MaxU64 = 2
    Mint = 2
    TokenArg = {"plain"}
SYMMETRY Symmetry
INVARIANTS
    TypeOK
    Solvency
    RevenueMatchesMeters
    EventsMatchMeters
    EventBalanceIsLowerBound
    NoReplay
    NoImpossibleFailure
PROPERTY OwnersConsent
