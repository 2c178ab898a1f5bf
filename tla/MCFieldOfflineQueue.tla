------------------------ MODULE MCFieldOfflineQueue ------------------------
(* Small instances of FieldOfflineQueue for TLC.                           *)
EXTENDS FieldOfflineQueue, TLC

CONSTANTS a1, a2, c1, c2, d1, d2, i1, i2

Symmetry == Permutations(Actors) \cup Permutations(Captures) \cup Permutations(Drains)
=============================================================================
