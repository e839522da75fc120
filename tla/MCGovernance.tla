---------------------------- MODULE MCGovernance ----------------------------
(***************************************************************************)
(* A small Chama: its founder and two users who are interchangeable, one   *)
(* invitation, and two polls that may concern the same version.            *)
(***************************************************************************)
EXTENDS Governance, TLC

CONSTANTS u1, u2, u3, anyone, i1, p1, p2

MCRole         == {"member", "chairperson"}
MCManualStatus == {"active", "exited"}
MCMaxUses      == {1, 2}
Symmetry       == Permutations({p1, p2})
=============================================================================
