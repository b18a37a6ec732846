------------------------- MODULE MCSchedulerSnapshot -------------------------
(* An instance of SchedulerSnapshot for TLC.  The poller, the rebuild and the  *)
(* request are members of the same sets of the specification: the rebuilding  *)
(* goroutine of the configuration also plays the request that misses.         *)
EXTENDS SchedulerSnapshot
=============================================================================
