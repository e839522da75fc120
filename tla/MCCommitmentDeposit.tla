------------------------ MODULE MCCommitmentDeposit ------------------------
(***************************************************************************)
(* Two payment attempts for one deposit, both of which may be paid, and    *)
(* two pieces of evidence, the second of which contradicts the first.      *)
(***************************************************************************)
EXTENDS CommitmentDeposit, TLC

CONSTANTS a1, a2, e1, e2

Symmetry == Permutations({a1, a2}) \cup Permutations({e1, e2})
=============================================================================
