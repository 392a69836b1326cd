SPECIFICATION FairSpec
CONSTANTS
    d1 = d1
    Device = {d1}
    Request = {r1, r2}
    MaxSeq <- Two
    MaxFunds = 2
INVARIANTS
    AcknowledgedIsBilled
PROPERTIES
    GapIsForever
    EveryPostAnswered
