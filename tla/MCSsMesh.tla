------------------------------ MODULE MCSsMesh ------------------------------
(***************************************************************************)
(* Instances of SsMesh for TLC.                                            *)
(***************************************************************************)
EXTENDS SsMesh, TLC
=============================================================================
