------------------------------ MODULE MCForeign ------------------------------
(***************************************************************************)
(* Instances of ForeignBridge for TLC.                                     *)
(***************************************************************************)
EXTENDS ForeignBridge

CONSTANTS c1, c2, c3
=============================================================================
