SPECIFICATION Spec
CONSTANTS
    a = a
    b = b
    c = c
    Tables = {a, b, c}
    Counts = {0, 3, 6}
    Setups <- CommandLines
    Catalogs <- SomeCatalogs
    Defaults <- StandIns
    DefaultCap = 5
    None = None
    MaxEvents = 1
INVARIANTS
    TypeOK
    LimitCutsLeast
    AutovacuumCovered
    StaleListHandled
PROPERTIES
    FigureIsOwnWork
