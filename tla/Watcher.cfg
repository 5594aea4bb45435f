SPECIFICATION FairSpec
CONSTANTS
    Modes = {"cancel", "terminate", "finish"}
    Tables = 2
    MaxRepeats = 1
    MaxSignals = 3
    PollAttempts = 8
INVARIANTS
    TypeOK
    FlagBeforeInterrupt
    OneSignalIsCareful
    CancelOnce
    OneTableDisturbed
PROPERTIES
    EscalatesOnTarget
    SignalEndsRun
