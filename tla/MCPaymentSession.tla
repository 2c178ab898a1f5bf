-------------------------- MODULE MCPaymentSession --------------------------
(* Small instances of PaymentSession for TLC.                              *)
EXTENDS PaymentSession, TLC

CONSTANTS k1, k2

\* Keys are compared only for equality.
Symmetry == Permutations(Keys)
=============================================================================
