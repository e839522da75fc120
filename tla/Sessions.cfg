SPECIFICATION SessionsSpec

CONSTANTS
    Token = {t1, t2, t3, t4}
    Code = {c1, c2}
    Request = {q1, q2, q3}
    MaxBegun = 5

SYMMETRY Symmetry

CHECK_DEADLOCK FALSE

INVARIANT SessionsEnd
INVARIANT GrantsAreUsedOnce
