SPECIFICATION Spec
CONSTANTS
    s1 = s1
    s2 = s2
    i1 = i1
    i2 = i2
    i3 = i3
    Logbook = Logbook
    None = None
    Instances <- TwoInstances
    Lists <- SomeLists
    LockKey <- Hash
INVARIANT
    SchemasExcluded
