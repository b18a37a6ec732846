--------------------------- MODULE MCPlatformQuota ---------------------------
(* Instances of PlatformQuota for TLC. *)
EXTENDS PlatformQuota, TLC

Registered == [limit |-> 1, used |-> {}, day |-> NoDay]

\* The registration has written a limit of 1, or the platform has no row.
Rows == {Nil, Registered}

Symmetry == Permutations(Requests) \cup Permutations(Flushers)
=============================================================================
