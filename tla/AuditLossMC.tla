----------------------------- MODULE AuditLossMC ----------------------------
(* AuditLoss for TLC; the calls of log_event are interchangeable. *)
EXTENDS AuditLoss, TLC

CONSTANTS w1, w2, sql

Symmetry == Permutations({w1, w2})
=============================================================================
