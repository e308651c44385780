--------------------------- MODULE MCNodeSession ---------------------------
(***************************************************************************)
(* Instances of NodeSession for TLC.  Symmetry is not used: the runs check *)
(* liveness.                                                               *)
(***************************************************************************)
EXTENDS NodeSession, TLC
=============================================================================
