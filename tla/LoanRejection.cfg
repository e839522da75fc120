SPECIFICATION LoanSpec
CONSTANTS
    m1 = m1
    m2 = m2
    m3 = m3
    l1 = l1
    l2 = l2
    x1 = x1
    x2 = x2
    t1 = t1
    ChamaId <- MCChama
    Chama <- MCChama
    Group = 1
    Reference <- MCReference
    Amount = {1, 2}
    Currency = {"KES"}
    Workload <- MCWorkload
    Opening <- MCOpening
    Loan = {l1, l2}
    Member = {m1, m2, m3}
    Pledge = {1}
    MinGuarantors = {1, 2}
    Multiplier = 1
    MaxActiveLoans = 2
    Receipt = {x1, x2}
    Turn = {t1}
SYMMETRY Symmetry
INVARIANT
    NoRejectionAfterDispatch
CHECK_DEADLOCK FALSE
