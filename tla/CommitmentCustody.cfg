SPECIFICATION DepositSpec
CONSTANTS
    a1 = a1
    a2 = a2
    e1 = e1
    e2 = e2
    Attempt = {a1, a2}
    Evidence = {e1, e2}
SYMMETRY Symmetry
INVARIANTS
    EscrowFollowsState
    ConfirmedAttemptBacksDeposit
PROPERTY
    ImplementsEscrow
