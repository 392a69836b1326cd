SPECIFICATION FairSpec
CONSTANTS
    Backend = backend
    Process = {backend, migrate}
    MaxCrashes = 1
    Request = {r1, r2}
    Poll = {p1}
    Socket = {s1}
    PoolMax = 1
    MaxSignals = 2
INVARIANTS
    TypeOK
    OpenIsComplete
    ExitIsGraceful
PROPERTIES
    CrashesExplained
    ShutdownEnds
    ServiceReturns
