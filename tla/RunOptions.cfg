SPECIFICATION FairSpec
CONSTANTS
    a = a
    b = b
    NoTable = NoTable
    Tables <- OneTable
    Setups <- EveryOption
    Retries = 1
INVARIANTS
    SuccessIsReal
    RepeatsOnlyFreeze
    ExitCodeFaithful
    DryRunTouchesNothing
    KillsAuthorized
PROPERTIES
    Termination
    ShutdownExits130
