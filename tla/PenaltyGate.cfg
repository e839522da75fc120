SPECIFICATION PenaltySpec
CONSTANTS
    a1 = a1
    e1 = e1
    w1 = w1
    w2 = w2
    Attempt = {a1}
    Evidence = {e1}
    Last = 2
    Worker = {w1, w2}
    MaxTime = 2
    Threshold = 2
INVARIANT
    NoFalsePenalty
