-------------------------- MODULE MCSubscriptionOrder --------------------------
EXTENDS SubscriptionOrder, TLC

CONSTANTS o12, o120

\* Orders number 12 and 120.
ShortId == [o \in Orders |-> IF o = o12 THEN {o120} ELSE {}]

\* No id is the beginning of another.
DistinctIds == [o \in Orders |-> {}]

HandlerSymmetry == Permutations(Handlers)
=============================================================================
