SPECIFICATION FairSpec
CONSTANTS
    a = a
    b = b
    NoTable = NoTable
    Tables <- OneTable
    Setups <- Bloat
    Retries = 0
PROPERTY
    LossAbortsAsLost
