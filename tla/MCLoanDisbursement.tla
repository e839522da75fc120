------------------------- MODULE MCLoanDisbursement -------------------------
(***************************************************************************)
(* Two loans and three members whose two contributions cannot back every   *)
(* pledge, and one merry-go-round turn that competes for the treasury.     *)
(***************************************************************************)
EXTENDS LoanDisbursement, TLC

CONSTANTS m1, m2, m3, l1, l2, x1, x2, t1

MCChama     == {1}
MCReference == {LoanReference(l) : l \in Loan} \cup {<<"mpesa:stk", r>> : r \in Receipt}
               \cup {<<"mgr-payout", t>> : t \in Turn}
MCOpening   == [c \in MCChama |-> 0]
MCWorkload == Postings

Symmetry == {p @@ q @@ r : p \in Permutations({l1, l2}), q \in Permutations({m1, m2, m3}),
                           r \in Permutations({x1, x2})}
=============================================================================
