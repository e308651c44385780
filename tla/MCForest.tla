------------------------------ MODULE MCForest ------------------------------
(***************************************************************************)
(* Instances of Forest for TLC.                                            *)
(***************************************************************************)
EXTENDS Forest
=============================================================================
