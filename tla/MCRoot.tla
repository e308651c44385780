------------------------------- MODULE MCRoot -------------------------------
(***************************************************************************)
(* Instances of Root for TLC.  The tick counter starts just below its wrap. *)
(***************************************************************************)
EXTENDS Root, TLC

\* Nodes and sessions are interchangeable where no liveness is checked.
Symmetry == Permutations(Nodes) \cup Permutations(Sessions)
=============================================================================
