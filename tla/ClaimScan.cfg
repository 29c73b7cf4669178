SPECIFICATION Spec
CONSTANTS
    Daemons = {d1, d2}
    Clients = {c1}
    NoFile = NoFile
    Stale = Stale
    NoDaemon = NoDaemon
    Surroundings <- RenamedSurroundings
PROPERTIES
    DocumentedAreFound
CHECK_DEADLOCK FALSE
