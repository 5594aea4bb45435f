SPECIFICATION Spec
CONSTANTS
    s1 = s1
    s2 = s2
    i1 = i1
    i2 = i2
    i3 = i3
    Logbook = Logbook
    None = None
    Instances <- ThreeInstances
    Lists <- SomeLists
    LockKey <- Hash
SYMMETRY Swap
INVARIANTS
    TypeOK
    LockFollowsSession
    SameListExcluded
    SetupOkKeepsRows
