------------------------- MODULE MCCheckoutPayment -------------------------
(* Small instances of CheckoutPayment for TLC.                             *)
EXTENDS CheckoutPayment, TLC

CONSTANTS c1, c2, w1, w2, d1, d2

\* Callers, workers and couriers are compared only for equality.
Symmetry == Permutations(Callers) \cup Permutations(Workers) \cup Permutations(Couriers)
=============================================================================
