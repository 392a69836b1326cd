SPECIFICATION FairSpec
CONSTANTS
    Client = {c1}
    Device = {d1, d2}
    Everything = Everything
    Param = {d1, Malformed}
    BigIntRow = {FALSE, TRUE}
    MaxSamples = 2
    MaxEvents = 2
    MaxRows = 4
INVARIANTS
    TypeOK
    StreamIsChannel
    NoOvertaking
    ChartInOrder
PROPERTIES
    OnlySilentClientsCut
    DeadSocketsReaped
    ChartKeepsUp
