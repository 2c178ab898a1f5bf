------------------------- MODULE MCIdentitySession -------------------------
(* Small instances of IdentitySession for TLC.                             *)
EXTENDS IdentitySession, TLC

CONSTANTS s1, s2, e1

Symmetry == Permutations(Sessions)
=============================================================================
