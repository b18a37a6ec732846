---------------------------- MODULE MCUsageBilling ----------------------------
(* Deliveries for TLC: c1, c2 and c3 carry one request id, c3 with another *)
(* payload and for a key that had no quota; c4 is another request.          *)
EXTENDS UsageBilling, TLC
CONSTANTS c1, c2, c3, c4, i1, i2, f1, f2

ThisId == [c \in Cmds |-> IF c = c4 THEN i2 ELSE i1]
ThisFp == [c \in Cmds |-> IF c = c3 THEN f2 ELSE f1]
ThisRows == [c \in Cmds |-> IF c = c3 THEN {"wallet", "account"} ELSE Rows]
Cost == [c \in Cmds |-> IF c = c4 THEN 2 ELSE 1]

\* c1 and c2 are the same delivery twice, and the edits are alike.
DeliverySymmetry == Permutations({c1, c2}) \cup Permutations(Updates)
=============================================================================
