SPECIFICATION FairSpec
CONSTANTS
    k1 = k1
    k2 = k2
    r1 = r1
    r2 = r2
    Caller = {k1, k2}
    ChamaId <- MCChamaId
    Chama <- MCChama
    Reference <- MCReference
    Amount <- MCAmount
    Currency <- MCCurrency
    Workload <- MCWorkload
    Opening <- MCOpening
    MaxRetries = 1
    MaxCalls = 2
INVARIANTS
    TypeOK
    BalanceIsJournalled
    AnswersAreTrue
    OnePostingAnswer
    LockedBalanceIsCurrent
PROPERTIES
    CallsReturn
    ImplementsTreasuryLedger
CHECK_DEADLOCK FALSE
