SPECIFICATION ViewFairSpec
CONSTANTS
    Device = {d1}
    Request <- Requests
    Amount = {3}
    Unit = {1, 2}
    Window <- Windows
    HoursPerDay = 2
    MaxReadings = 2
    MaxFunds = 3
    MaxHour = 1
    MaxEffects = 2
INVARIANTS
    TypeOK
    BalanceIsOneMoment
    SeriesCoversSamples
    RowsConsistent
    NothingStale
PROPERTY LoadingEnds
