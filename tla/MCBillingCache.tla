--------------------------- MODULE MCBillingCache ---------------------------
(* Instances of BillingCache for TLC. *)
EXTENDS BillingCache, TLC

Symmetry == Permutations(Requests) \cup Permutations(Workers)
=============================================================================
