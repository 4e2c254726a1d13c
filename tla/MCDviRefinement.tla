-------------------------- MODULE MCDviRefinement ---------------------------
(* The refinement and the liveness of the ring on a small screen, for TLC. *)
EXTENDS DviRefinement
=============================================================================
