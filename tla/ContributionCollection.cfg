SPECIFICATION PaymentSpec
CONSTANTS
    n1 = n1
    n2 = n2
    n3 = n3
    c1 = c1
    c2 = c2
    ChamaId <- MCChama
    Chama <- MCChama
    Group = 1
    Reference <- MCReference
    Amount = {1, 2, 3}
    Currency = {"KES"}
    Workload <- MCWorkload
    Opening <- MCOpening
    Contribution = {c1, c2}
    Expected = 2
    Push = {n1, n2, n3}
SYMMETRY Symmetry
INVARIANTS
    StatusFollowsPayments
    TreasuryHoldsReceipts
PROPERTY
    CollectedStaysCollected
CHECK_DEADLOCK FALSE
