SPECIFICATION Spec
CONSTANTS
    a = a
    b = b
    c = c
    None = None
    Wildcard = Wildcard
    Malformed = Malformed
    Reference = Reference
    Logbook = Logbook
    Blank = Blank
    Commands <- EveryCommand
    Servers <- SomeServers
INVARIANTS
    CommandLineWins
