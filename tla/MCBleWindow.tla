---------------------------- MODULE MCBleWindow ----------------------------
(***************************************************************************)
(* Instances of BleWindow for TLC, whose constants the cfg files give.  No *)
(* symmetry: the same run checks that windows close.                       *)
(***************************************************************************)
EXTENDS BleWindow
=============================================================================
