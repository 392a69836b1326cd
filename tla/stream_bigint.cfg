SPECIFICATION Spec
CONSTANTS
    Client = {c1}
    Device = {d1, d2}
    Everything = Everything
    Param = {d1, Malformed}
    BigIntRow = {TRUE}
    MaxSamples = 1
    MaxEvents = 1
    MaxRows = 1
INVARIANT EveryEventDelivered
