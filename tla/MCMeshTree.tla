----------------------------- MODULE MCMeshTree -----------------------------
(***************************************************************************)
(* Instances of MeshTree for TLC.                                          *)
(***************************************************************************)
EXTENDS MeshTree, TLC

\* Symmetry is not used: Init chooses a node for the free slots.
=============================================================================
