SPECIFICATION Spec
CONSTANTS
    Daemons = {d1, d2, d3}
    Clients = {c1}
    NoFile = NoFile
    Stale = Stale
    NoDaemon = NoDaemon
    Surroundings <- SomeSurroundings
INVARIANTS
    TypeOK
    LoneDaemonReachable
    GaveUpHasCause
PROPERTIES
    SpawnedIsReached
CHECK_DEADLOCK FALSE
