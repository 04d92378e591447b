------------------------ MODULE MCUserSpaceReconcile ------------------------
(* Small instances of UserSpaceReconcile for TLC. *)
EXTENDS UserSpaceReconcile

CONSTANTS r1, r2, g1, g2, k1

=============================================================================
