SPECIFICATION Spec
CONSTANTS
    a = a
    b = b
    NoTable = NoTable
    Tables <- TwoTables
    Setups <- BloatGatedOrNot
    Retries = 1
INVARIANTS
    TypeOK
    SummaryAccounts
    StopsPromptly
    CancelledEndsRun
PROPERTY
    KeepsPromise
