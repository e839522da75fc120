SPECIFICATION Spec

CONSTANTS
    r1 = r1
    m1 = m1
    x1 = x1
    s1 = s1
    s2 = s2
    p1 = p1
    p2 = p2
    Job <- MCJob
    Kind <- MCKind
    Payment = {p1, p2}
    Worker = {w1, w2}
    PeriodOf <- MCPeriodOf
    QuotaOf <- MCQuotaOf
    Unlimited = Unlimited
    MonthLength = 1
    MaxTime = 2
    MaxAttempts = 2
    Agendas <- MCAgendas

CHECK_DEADLOCK FALSE

INVARIANT EveryPaymentBuysOnce
INVARIANT QuotaAccounted
INVARIANT DuplicatesNeedLoss
INVARIANT SentIsTrue
INVARIANT AssetIsClean

PROPERTY JobsSettle
