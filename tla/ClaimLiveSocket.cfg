SPECIFICATION Spec
CONSTANTS
    Daemons = {d1, d2}
    Clients = {c1, c2}
    NoFile = NoFile
    Stale = Stale
    NoDaemon = NoDaemon
    Surroundings <- SomeSurroundings
PROPERTIES
    OnlyStaleRemoved
CHECK_DEADLOCK FALSE
