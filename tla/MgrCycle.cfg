SPECIFICATION MgrSpec
CONSTANTS
    m1 = m1
    m2 = m2
    i1 = i1
    i2 = i2
    ChamaId <- MCChama
    Chama <- MCChama
    Group = 1
    Reference <- MCReference
    Amount = {1}
    Currency = {"KES"}
    Workload <- MCWorkload
    Opening <- MCOpening
    Member = {m1, m2}
    PayoutAmount = 1
    Income = {i1}
    MaxAttempts = 3
    MaxInactive = 1
SYMMETRY Symmetry
INVARIANTS
    PaidInRotationOrder
    OnePostingPerTurn
    OneOpenAttempt
PROPERTY
    PaidTurnsAreFixed
CHECK_DEADLOCK FALSE
