---------------------- MODULE MCCheckoutFinanceOutbox ----------------------
(* Small instances of CheckoutFinanceOutbox for TLC.                       *)
EXTENDS CheckoutFinanceOutbox, TLC

CONSTANTS online, cod, w1, w2, t1, t2, t3, t4, t5

\* Tokens are uuids compared only for equality, and no worker is special.
Symmetry == Permutations(Tokens) \cup Permutations(Workers)
=============================================================================
