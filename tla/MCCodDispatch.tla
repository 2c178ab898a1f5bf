--------------------------- MODULE MCCodDispatch ---------------------------
(* Model values for CodDispatch: captains, offers, requests and keys are   *)
(* interchangeable.                                                        *)
EXTENDS CodDispatch, TLC

Symmetry == Permutations(Captains) \cup Permutations(Offers)
            \cup Permutations(Requests) \cup Permutations(Keys) \cup Permutations(Workers)
=============================================================================
