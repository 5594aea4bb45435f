SPECIFICATION Spec
CONSTANTS
    Modes = {"cancel"}
    Tables = 2
    MaxRepeats = 1
    MaxSignals = 1
    PollAttempts = 8
INVARIANT
    OnlyMaintenanceActedOn
