----------------------- MODULE MCContributionPayment ------------------------
(***************************************************************************)
(* Two contributions of two units and three pushes: enough for two pushes  *)
(* to compete for the same remainder while a third pays the other one.     *)
(***************************************************************************)
EXTENDS ContributionPayment, TLC

CONSTANTS n1, n2, n3, c1, c2

MCChama == {1}
MCReference == {<<"mpesa:stk", n>> : n \in Push}
MCWorkload == Postings
MCOpening == [c \in MCChama |-> 0]

Symmetry == Permutations(Push) \cup Permutations(Contribution)
=============================================================================
