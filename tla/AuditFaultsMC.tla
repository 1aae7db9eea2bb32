---------------------------- MODULE AuditFaultsMC ---------------------------
(* AuditFaults for TLC; the calls of log_event are interchangeable. *)
EXTENDS AuditFaults, TLC

CONSTANTS w1, w2, sql

Symmetry == Permutations({w1, w2})
=============================================================================
