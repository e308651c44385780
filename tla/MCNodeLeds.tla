----------------------------- MODULE MCNodeLeds -----------------------------
(***************************************************************************)
(* Instances of NodeLeds for TLC.                                          *)
(***************************************************************************)
EXTENDS NodeLeds

\* A green team.
MCGreen == {<<0, 255, 0>>}

\* A color that differs from black and from what each state makes of it.
MCMixed == {<<128, 64, 0>>}
=============================================================================
