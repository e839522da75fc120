------------------------ MODULE MCPenaltyAssessment ------------------------
(***************************************************************************)
(* Two contributions and two workers, with a default after the second      *)
(* consecutive miss: they can be assessed in either order or concurrently. *)
(***************************************************************************)
EXTENDS PenaltyAssessment

CONSTANTS a1, e1, w1, w2
=============================================================================
