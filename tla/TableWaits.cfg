SPECIFICATION FairSpec
CONSTANTS
    Budgets = {0, 3, 12}
    Poll = 5
    QueryTime = 1
    Tables = 2
    PassesPerTable = {1, 2}
    Retries = {0, 2, 20}
    Delays = {60}
    MaxRetries = 20
    MaxDelay = 60
    DelayCap = 1000000000
INVARIANTS
    TypeOK
    WithinBudget
    TotalsHonest
    SignalHeard
    DelaysDouble
    OneLateStart
PROPERTY
    EveryTableDecided
