SPECIFICATION Spec
CONSTANTS
    a = a
    b = b
    NoTable = NoTable
    Tables <- OneTable
    Setups <- NeverVacuumedAndFreeze
    Retries = 0
INVARIANT
    MatchedOnce
