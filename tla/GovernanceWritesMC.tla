------------------------- MODULE GovernanceWritesMC -------------------------
(* GovernanceWrites for TLC. *)
EXTENDS GovernanceWrites

CONSTANTS t1, p1, g1, r1
=============================================================================
