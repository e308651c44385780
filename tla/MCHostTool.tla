----------------------------- MODULE MCHostTool -----------------------------
(***************************************************************************)
(* Instances of HostTool for TLC.                                          *)
(***************************************************************************)
EXTENDS HostTool, TLC

\* Threads and teams are interchangeable.
Symmetry == Permutations(Handlers) \cup Permutations(Uuids)
=============================================================================
