------------------------------- MODULE MCInbox -------------------------------
(***************************************************************************)
(* Instances of OwnerInbox for TLC.                                        *)
(***************************************************************************)
EXTENDS OwnerInbox, TLC

CONSTANTS p1, p2, s1, s2
=============================================================================
