-------------------------- MODULE MCBackgroundWork --------------------------
(* A calendar month and a monthly billing period are a unit of the clock. *)
EXTENDS BackgroundWork

CONSTANTS r1, m1, x1, s1, s2, p1, p2

MCJob == {r1, m1, x1, s1, s2}
MCKind == [j \in MCJob |-> CASE j = r1 -> "reminder"
                             [] j = m1 -> "meeting"
                             [] j = x1 -> "report"
                             [] OTHER  -> "scan"]

Agenda(items, n, time) == [begins |-> items, faults |-> n, until |-> time]

MCAgendas ==
    {Agenda({r1}, 2, 0), Agenda({r1}, 1, 1), Agenda({m1}, 1, 0), Agenda({x1}, 2, 0),
     Agenda({s1}, 2, 0), Agenda({s1, s2}, 0, 0), Agenda({r1, m1}, 0, 0), Agenda({m1, x1}, 0, 0),
     Agenda({r1, p1}, 0, 1), Agenda({p1, p2}, 0, 2), Agenda({p1}, 1, 1)}

MCPeriodOf == [plan \in {"monthly", "annual"} |-> IF plan = "monthly" THEN 1 ELSE 3]
MCQuotaOf ==
    [plan \in {"free", "monthly", "annual"} |->
        CASE plan = "free" -> 1 [] plan = "monthly" -> 2 [] OTHER -> Unlimited]
=============================================================================
