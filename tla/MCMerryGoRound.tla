--------------------------- MODULE MCMerryGoRound ---------------------------
(***************************************************************************)
(* A cycle of two turns: enough to swap the current turn with the next one *)
(* and to complete, with attempts for a retry of either.                   *)
(***************************************************************************)
EXTENDS MerryGoRound, TLC

CONSTANTS m1, m2, i1, i2

MCChama     == {1}
MCReference == {ReceiptReference(n) : n \in 1..MaxAttempts} \cup {<<"mpesa:stk", i>> : i \in Income}
MCOpening   == [c \in MCChama |-> PayoutAmount]
MCWorkload == Postings

Symmetry == Permutations({m1, m2})
=============================================================================
