--------------------------- MODULE ConcurrencySlots ---------------------------
(***************************************************************************)
(* The concurrency limit of one user (service/concurrency_service.go,      *)
(* repository/concurrency_cache.go, handler/gateway_helper.go and the      *)
(* waiting part of handler/gateway_handler.go): a Redis sorted set of      *)
(* slots, a Redis counter of waiting requests, and the requests of several *)
(* instances that share them.  The limit of an upstream account works the  *)
(* same way, with the same scripts.                                        *)
(***************************************************************************)
EXTENDS Naturals, FiniteSets

CONSTANTS
    Requests,
    Instances,
    InstanceOf,         \* the instance that serves each request
    MaxConcurrency,     \* the user's limit
    MaxWait,            \* CalculateMaxWait: the limit of the wait counter
    SlotTTL,            \* slotTTLSeconds
    WaitQueueTTL,       \* waitQueueTTLSeconds
    MaxTime,            \* bound: the last reading of the Redis clock
    MaxErrors,          \* bound: Redis calls that report an error
    MaxRestarts         \* bound: instances that are restarted

ASSUME SlotsAssumption ==
    /\ IsFiniteSet(Requests)
    /\ InstanceOf \in [Requests -> Instances]
    /\ MaxConcurrency \in Nat \ {0}
    /\ MaxWait \in Nat \ {0}
    /\ SlotTTL \in Nat \ {0}
    /\ WaitQueueTTL \in Nat \ {0}
    /\ MaxTime \in Nat
    /\ MaxErrors \in Nat
    /\ MaxRestarts \in Nat

VARIABLES
    now,                \* the Redis clock
    slots, score,       \* the sorted set: its members, and when each was added
    waits, waitsExpire, \* the wait counter and its expiry; 0 stands for no key
    at,                 \* what each request does next
    counted,            \* requests whose handler has waitCounted set
    instance,           \* what each instance does
    errors, restarts,   \* faults so far
    expired,            \* history: slots that lapsed under a running request
    swept,              \* history: slots another instance removed at its start
    lost, leaked        \* history: counts without a key, and without a request

setVars   == <<slots, score>>
waitVars  == <<waits, waitsExpire>>
faultVars == <<errors, restarts>>
lossVars  == <<expired, swept, lost, leaked>>
slotsVars == <<now, setVars, waitVars, at, counted, instance, faultVars,
               lossVars>>

\* Where a request can be; "draining" is a request whose client has gone while
\* the upstream's answer is still read.
PCs == {"new", "acquire", "giveUp", "acquired", "running", "draining", "done"}

HoldsSlot == {"acquired", "running"}
Holders   == {r \in Requests : at[r] \in HoldsSlot}

SlotsTypeOK ==
    /\ now         \in 0 .. MaxTime
    /\ slots       \in SUBSET Requests
    /\ score       \in [Requests -> Nat]
    /\ waits       \in 0 .. MaxWait
    /\ waitsExpire \in Nat
    /\ at          \in [Requests -> PCs]
    /\ counted     \in SUBSET Requests
    /\ \A r \in counted : at[r] \in {"acquire", "giveUp", "acquired"}
    /\ instance    \in [Instances -> {"up", "sweepSlots", "deleteWaits"}]
    /\ errors      \in 0 .. MaxErrors
    /\ restarts    \in 0 .. MaxRestarts
    /\ expired     \in SUBSET Requests
    /\ swept       \in SUBSET Requests
    /\ lost        \in Nat
    /\ leaked      \in Nat

SlotsInit ==
    /\ now         = 0
    /\ slots       = {}
    /\ score       = [r \in Requests |-> 0]
    /\ waits       = 0
    /\ waitsExpire = 0
    /\ at          = [r \in Requests |-> "new"]
    /\ counted     = {}
    /\ instance    = [i \in Instances |-> "up"]
    /\ errors      = 0
    /\ restarts    = 0
    /\ expired     = {}
    /\ swept       = {}
    /\ lost        = 0
    /\ leaked      = 0

Goto(r, next) == at' = [at EXCEPT ![r] = next]

Fails ==
    /\ errors < MaxErrors
    /\ errors' = errors + 1
    /\ UNCHANGED restarts

-----------------------------------------------------------------------------
(* The scripts *)

\* ZREMRANGEBYSCORE -inf (now - ttl): the slots it leaves.
Lapsed == {r \in slots : score[r] + SlotTTL <= now}
Live   == slots \ Lapsed

NoteExpired == expired' = expired \cup (Lapsed \cap Holders)

\* Mutant of Free: the limit is compared with <=.
FreeOrFull == Cardinality(Live) <= MaxConcurrency

\* ZCARD < maxConcurrency.
Free == Cardinality(Live) < MaxConcurrency

\* acquireScript for a new request id.
AddSlot(r) ==
    /\ Free
    /\ slots' = Live \cup {r}
    /\ score' = [score EXCEPT ![r] = now]
    /\ NoteExpired

RefuseSlot ==
    /\ ~Free
    /\ slots' = Live
    /\ NoteExpired
    /\ UNCHANGED score

\* The counter key as the scripts find it.
WaitKeyLives == waits > 0 /\ now < waitsExpire
Waiting      == IF WaitKeyLives THEN waits ELSE 0

\* Counts that went with an expired key.
LostWithKey == waits - Waiting

\* Mutant of AddWait: the limit is compared with <=.
AddWaitOrFull ==
    /\ Waiting <= MaxWait
    /\ waits' = Waiting + 1
    /\ waitsExpire' = now + WaitQueueTTL

\* incrementWaitScript below the limit.
AddWait ==
    /\ Waiting < MaxWait
    /\ waits' = Waiting + 1
    /\ waitsExpire' = now + WaitQueueTTL

\* decrementWaitScript.
RemoveWait ==
    /\ waits' = IF Waiting > 0 THEN Waiting - 1 ELSE 0
    /\ UNCHANGED waitsExpire

-----------------------------------------------------------------------------
(* A request (GatewayHandler.Messages) *)

\* IncrementWaitCount; when Redis fails, the request counts as queued although
\* the counter may not have been incremented.
IncrementWaitCount(r) ==
    /\ at[r] = "new"
    /\ instance[InstanceOf[r]] = "up"
    /\ \/ /\ AddWait
          /\ Goto(r, "acquire")
          /\ counted' = counted \cup {r}
          /\ lost' = lost + LostWithKey
          /\ UNCHANGED faultVars
       \/ /\ Waiting >= MaxWait
          /\ Goto(r, "done")
          /\ UNCHANGED <<waitVars, counted, faultVars, lost>>
       \/ /\ Fails
          /\ Goto(r, "acquire")
          /\ counted' = counted \cup {r}
          /\ lost' = lost + 1
          /\ UNCHANGED waitVars
    /\ UNCHANGED <<now, setVars, instance, expired, swept, leaked>>

\* AcquireUserSlot, at once and again after each back-off.
AcquireUserSlot(r) ==
    /\ at[r] = "acquire"
    /\ \/ AddSlot(r) /\ Goto(r, "acquired") /\ UNCHANGED faultVars
       \/ RefuseSlot /\ UNCHANGED <<at, faultVars>>
       \/ Fails /\ AddSlot(r) /\ Goto(r, "giveUp")
    /\ UNCHANGED <<now, waitVars, counted, instance, swept, lost, leaked>>

\* The wait times out, the client leaves or Redis fails.
StopWaiting(r) ==
    /\ at[r] = "acquire"
    /\ Goto(r, "giveUp")
    /\ UNCHANGED <<now, setVars, waitVars, counted, instance, faultVars,
                   lossVars>>

\* Mutant of DecrementWaitCount: a request that gives up does not decrement.
DecrementWhenAcquired(r) ==
    /\ at[r] \in {"acquired", "giveUp"}
    /\ IF at[r] = "acquired" THEN RemoveWait /\ lost' = lost + LostWithKey
                             ELSE UNCHANGED <<waitVars, lost>>
    /\ counted' = counted \ {r}
    /\ Goto(r, IF at[r] = "acquired" THEN "running" ELSE "done")
    /\ UNCHANGED <<now, setVars, instance, faultVars, expired, swept, leaked>>

\* DecrementWaitCount, once: after the slot was acquired, or deferred.
DecrementWaitCount(r) ==
    /\ at[r] \in {"acquired", "giveUp"}
    /\ \/ /\ RemoveWait
          /\ lost' = lost + LostWithKey
          /\ UNCHANGED <<faultVars, leaked>>
       \/ /\ Fails
          /\ leaked' = leaked + 1
          /\ UNCHANGED <<waitVars, lost>>
    /\ counted' = counted \ {r}
    /\ Goto(r, IF at[r] = "acquired" THEN "running" ELSE "done")
    /\ UNCHANGED <<now, setVars, instance, expired, swept>>

\* Mutant of ReleaseUserSlot: the key is deleted.
ReleaseKey(r) == slots' = {} /\ UNCHANGED <<score, faultVars>>

\* ZREM, or an error that leaves the slot until it lapses.
ReleaseUserSlot(r) ==
    \/ slots' = slots \ {r} /\ UNCHANGED <<score, faultVars>>
    \/ Fails /\ UNCHANGED setVars

\* The handler returns, and its deferred release runs.
Finish(r) ==
    /\ at[r] = "running"
    /\ ReleaseUserSlot(r)
    /\ Goto(r, "done")
    /\ UNCHANGED <<now, waitVars, counted, instance, lossVars>>

\* The client disconnects and wrapReleaseOnDone releases the slot, while the
\* handler goes on reading the upstream's answer for its usage.
Disconnect(r) ==
    /\ at[r] = "running"
    /\ ReleaseUserSlot(r)
    /\ Goto(r, "draining")
    /\ UNCHANGED <<now, waitVars, counted, instance, lossVars>>

\* The release has run already and does not run again.
Drained(r) ==
    /\ at[r] = "draining"
    /\ Goto(r, "done")
    /\ UNCHANGED <<now, setVars, waitVars, counted, instance, faultVars,
                   lossVars>>

-----------------------------------------------------------------------------
(* Instances, the clean-up worker and the clock *)

\* The process dies with its requests, which have begun, and is started again.
Restart(i) ==
    /\ restarts < MaxRestarts
    /\ restarts' = restarts + 1
    /\ instance' = [instance EXCEPT ![i] = "sweepSlots"]
    /\ LET dead == {r \in Requests : InstanceOf[r] = i /\ at[r] # "new"} IN
       /\ at' = [r \in Requests |-> IF r \in dead THEN "done" ELSE at[r]]
       /\ counted' = counted \ dead
       /\ leaked' = leaked + Cardinality(counted \cap dead)
    /\ UNCHANGED <<now, setVars, waitVars, errors, expired, swept, lost>>

\* CleanupStaleProcessSlots removes every member without the prefix of the new
\* process, which has not served anything yet.
SweepSlots(i) ==
    /\ instance[i] = "sweepSlots"
    /\ slots' = {}
    /\ swept' = swept \cup (slots \cap Holders)
    /\ instance' = [instance EXCEPT ![i] = "deleteWaits"]
    /\ UNCHANGED <<now, score, waitVars, at, counted, faultVars, expired, lost,
                   leaked>>

\* It then deletes the wait counters, whoever waits.
DeleteWaits(i) ==
    /\ instance[i] = "deleteWaits"
    /\ waits' = 0
    /\ waitsExpire' = 0
    /\ lost' = lost + waits
    /\ leaked' = 0
    /\ instance' = [instance EXCEPT ![i] = "up"]
    /\ UNCHANGED <<now, setVars, at, counted, faultVars, expired, swept>>

\* CleanupExpiredAccountSlots, the count and load queries, the key's EXPIRE.
CleanupExpired ==
    /\ Lapsed # {}
    /\ slots' = Live
    /\ NoteExpired
    /\ UNCHANGED <<now, score, waitVars, at, counted, instance, faultVars,
                   swept, lost, leaked>>

Tick ==
    /\ now < MaxTime
    /\ now' = now + 1
    /\ UNCHANGED <<setVars, waitVars, at, counted, instance, faultVars,
                   lossVars>>

SlotsStep(r) ==
    \/ IncrementWaitCount(r)
    \/ AcquireUserSlot(r)
    \/ StopWaiting(r)
    \/ DecrementWaitCount(r)
    \/ Finish(r)
    \/ Disconnect(r)
    \/ Drained(r)

SlotsNext ==
    \/ \E r \in Requests : SlotsStep(r)
    \/ \E i \in Instances : Restart(i) \/ SweepSlots(i) \/ DeleteWaits(i)
    \/ CleanupExpired
    \/ Tick

SlotsSpec == SlotsInit /\ [][SlotsNext]_slotsVars

-----------------------------------------------------------------------------
(* Properties *)

\* No more requests than the limit allows are served at a time, but for those
\* whose client has gone, that ran longer than a slot lives, or that lost
\* their slot to an instance that was starting.
LimitHolds == Cardinality(Holders \ (expired \cup swept)) <= MaxConcurrency

\* A request that is served keeps its slot, and no other way of losing it is
\* possible than those.
ServedHasSlot == Holders \subseteq slots \cup expired \cup swept

\* The queue outgrows its limit only by the counts that vanished from Redis
\* while their requests were waiting.
QueueIsBounded == Cardinality(counted) <= MaxWait + lost

\* What the counter counts are requests that wait, and counts that dead
\* instances and failed decrements left: nobody is counted twice.
CountIsExplained == waits <= Cardinality(counted) + leaked
=============================================================================
