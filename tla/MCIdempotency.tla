----------------------------- MODULE MCIdempotency -----------------------------
EXTENDS Idempotency, TLC

RequestSymmetry == Permutations(Requests) \cup Permutations(Fingerprints)
=============================================================================
