---------------------------- MODULE TokenVaultMC ----------------------------
(* TokenVault for TLC; requests are interchangeable, and so are values. *)
EXTENDS TokenVault, TLC

CONSTANTS r1, r2, ann, bob

Symmetry == Permutations({r1, r2}) \cup Permutations({ann, bob})
=============================================================================
