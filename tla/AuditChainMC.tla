---------------------------- MODULE AuditChainMC ----------------------------
(***************************************************************************)
(* AuditChain for TLC.  Calls in flight are interchangeable, and so are    *)
(* the anchors.                                                            *)
(***************************************************************************)
EXTENDS AuditChain, TLC

CONSTANTS w1, w2, sql, s3

Symmetry == Permutations({w1, w2}) \cup Permutations({sql, s3})
=============================================================================
