-------------------------- MODULE MCConcurrencySlots --------------------------
EXTENDS ConcurrencySlots, TLC

CONSTANTS a1, b1, b2, a, b

Serving == [r \in Requests |-> IF r = a1 THEN a ELSE b]

\* The two requests of instance b are alike.
RequestSymmetry == Permutations({b1, b2})
=============================================================================
