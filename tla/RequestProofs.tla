---------------------------- MODULE RequestProofs ----------------------------
(***************************************************************************)
(* Proofs about what a request takes and pays: ConcurrencySlots, for any   *)
(* requests, instances, limits and lifetimes, and UsageBilling, for any    *)
(* charges, costs, quotas and edits.  Nothing is shared by the two but the *)
(* request.                                                                *)
(***************************************************************************)
EXTENDS ConcurrencySlots, UsageBilling, FiniteSetTheorems, TLAPS

-----------------------------------------------------------------------------
(* ConcurrencySlots: the scripts bound the sorted set and the counter; what *)
(* has to be shown is how far the requests that are served or that wait can *)
(* differ from them.                                                        *)

\* The scripts keep the sorted set within the limit.
SlotsBounded == Cardinality(slots) <= MaxConcurrency

\* waitCounted is set from the increment to the decrement.
CountedInv ==
    counted = {r \in Requests : at[r] \in {"acquire", "giveUp", "acquired"}}

\* Requests that wait are counted in Redis, or their count was lost there.
QueueInv == Cardinality(counted) <= waits + lost

SlotsInv ==
    /\ SlotsTypeOK
    /\ SlotsBounded
    /\ ServedHasSlot
    /\ CountedInv
    /\ QueueInv
    /\ CountIsExplained

-----------------------------------------------------------------------------
\* Sets of requests are finite; adding or removing one changes their size by
\* at most one.
LEMMA Sizes ==
    ASSUME SlotsTypeOK
    PROVE  \A s \in SUBSET Requests :
              /\ IsFiniteSet(s)
              /\ Cardinality(s) \in Nat
              /\ \A t \in SUBSET s : Cardinality(t) <= Cardinality(s)
              /\ \A r \in Requests :
                    /\ Cardinality(s \cup {r}) =
                          IF r \in s THEN Cardinality(s) ELSE Cardinality(s) + 1
                    /\ Cardinality(s \ {r}) =
                          IF r \in s THEN Cardinality(s) - 1 ELSE Cardinality(s)
<1> SUFFICES ASSUME NEW s \in SUBSET Requests
             PROVE  /\ IsFiniteSet(s)
                    /\ Cardinality(s) \in Nat
                    /\ \A t \in SUBSET s : Cardinality(t) <= Cardinality(s)
                    /\ \A r \in Requests :
                          /\ Cardinality(s \cup {r}) =
                                IF r \in s THEN Cardinality(s)
                                           ELSE Cardinality(s) + 1
                          /\ Cardinality(s \ {r}) =
                                IF r \in s THEN Cardinality(s) - 1
                                           ELSE Cardinality(s)
  OBVIOUS
<1>1. IsFiniteSet(s)
  BY SlotsAssumption, FS_Subset
<1> QED
  BY <1>1, FS_CardinalityType, FS_Subset, FS_AddElement, FS_RemoveElement

\* The scripts read no more than the counter holds.
LEMMA WaitingBounds ==
    ASSUME SlotsTypeOK
    PROVE  Waiting \in Nat /\ Waiting <= waits
BY DEF SlotsTypeOK, Waiting

-----------------------------------------------------------------------------
\* Every step keeps the types.
LEMMA SlotsTypeStep ==
    ASSUME SlotsInv, [SlotsNext]_slotsVars PROVE SlotsTypeOK'
<1> USE SlotsAssumption, Sizes DEF SlotsInv, SlotsTypeOK, PCs, HoldsSlot, Holders,
        Goto, Fails, setVars, waitVars, faultVars, lossVars, CountedInv
<1>1. ASSUME NEW r \in Requests, IncrementWaitCount(r)
      PROVE  SlotsTypeOK'
  BY <1>1, SMTT(30) DEF IncrementWaitCount, AddWait, LostWithKey, Waiting,
       WaitKeyLives
<1>2. ASSUME NEW r \in Requests, AcquireUserSlot(r)
      PROVE  SlotsTypeOK'
  BY <1>2, SMTT(30) DEF AcquireUserSlot, AddSlot, RefuseSlot, NoteExpired,
       Live, Lapsed
<1>3. ASSUME NEW r \in Requests, StopWaiting(r)
      PROVE  SlotsTypeOK'
  BY <1>3, SMTT(30) DEF StopWaiting
<1>4. ASSUME NEW r \in Requests, DecrementWaitCount(r)
      PROVE  SlotsTypeOK'
  BY <1>4, SMTT(30) DEF DecrementWaitCount, RemoveWait, LostWithKey,
       Waiting, WaitKeyLives
<1>5. ASSUME NEW r \in Requests, Finish(r)
      PROVE  SlotsTypeOK'
  BY <1>5, SMTT(30) DEF Finish, ReleaseUserSlot
<1>6. ASSUME NEW r \in Requests, Disconnect(r)
      PROVE  SlotsTypeOK'
  BY <1>6, SMTT(30) DEF Disconnect, ReleaseUserSlot
<1>7. ASSUME NEW r \in Requests, Drained(r)
      PROVE  SlotsTypeOK'
  BY <1>7, SMTT(30) DEF Drained
<1>8. ASSUME NEW i \in Instances, Restart(i)
      PROVE  SlotsTypeOK'
  BY <1>8, SMTT(30) DEF Restart
<1>9. ASSUME NEW i \in Instances, SweepSlots(i)
      PROVE  SlotsTypeOK'
  BY <1>9, SMTT(30) DEF SweepSlots
<1>10. ASSUME NEW i \in Instances, DeleteWaits(i)
      PROVE  SlotsTypeOK'
  BY <1>10, SMTT(30) DEF DeleteWaits
<1>11. ASSUME CleanupExpired
      PROVE  SlotsTypeOK'
  BY <1>11, SMTT(30) DEF CleanupExpired, NoteExpired, Live, Lapsed
<1>12. ASSUME Tick
      PROVE  SlotsTypeOK'
  BY <1>12, SMTT(30) DEF Tick
<1>13. CASE UNCHANGED slotsVars
  BY <1>13, SMTT(30) DEF slotsVars
<1> QED
  BY <1>1, <1>2, <1>3, <1>4, <1>5, <1>6, <1>7, <1>8, <1>9, <1>10, <1>11,
       <1>12, <1>13 DEF SlotsNext, SlotsStep

-----------------------------------------------------------------------------
\* A slot is taken from a request that is served by the sweep, by its expiry,
\* or by its own release.
LEMMA ServedStep ==
    ASSUME SlotsInv, [SlotsNext]_slotsVars PROVE ServedHasSlot'
<1> USE SlotsAssumption DEF SlotsInv, SlotsTypeOK, ServedHasSlot, PCs, HoldsSlot,
        Holders, Goto, Fails, setVars, waitVars, faultVars, lossVars
<1>1. ASSUME NEW r \in Requests, IncrementWaitCount(r)
      PROVE  ServedHasSlot'
  BY <1>1, SMTT(30) DEF IncrementWaitCount, AddWait, LostWithKey, Waiting
<1>2. ASSUME NEW r \in Requests, AcquireUserSlot(r)
      PROVE  ServedHasSlot'
  BY <1>2, SMTT(30) DEF AcquireUserSlot, AddSlot, RefuseSlot, NoteExpired,
       Live
<1>3. ASSUME NEW r \in Requests, StopWaiting(r)
      PROVE  ServedHasSlot'
  BY <1>3, SMTT(30) DEF StopWaiting
<1>4. ASSUME NEW r \in Requests, DecrementWaitCount(r)
      PROVE  ServedHasSlot'
  BY <1>4, SMTT(30) DEF DecrementWaitCount, RemoveWait, LostWithKey, Waiting
<1>5. ASSUME NEW r \in Requests, Finish(r)
      PROVE  ServedHasSlot'
  BY <1>5, SMTT(30) DEF Finish, ReleaseUserSlot
<1>6. ASSUME NEW r \in Requests, Disconnect(r)
      PROVE  ServedHasSlot'
  BY <1>6, SMTT(30) DEF Disconnect, ReleaseUserSlot
<1>7. ASSUME NEW r \in Requests, Drained(r)
      PROVE  ServedHasSlot'
  BY <1>7, SMTT(30) DEF Drained
<1>8. ASSUME NEW i \in Instances, Restart(i)
      PROVE  ServedHasSlot'
  BY <1>8, SMTT(30) DEF Restart
<1>9. ASSUME NEW i \in Instances, SweepSlots(i)
      PROVE  ServedHasSlot'
  BY <1>9, SMTT(30) DEF SweepSlots
<1>10. ASSUME NEW i \in Instances, DeleteWaits(i)
      PROVE  ServedHasSlot'
  BY <1>10, SMTT(30) DEF DeleteWaits
<1>11. ASSUME CleanupExpired
      PROVE  ServedHasSlot'
  BY <1>11, SMTT(30) DEF CleanupExpired, NoteExpired, Live
<1>12. ASSUME Tick
      PROVE  ServedHasSlot'
  BY <1>12, SMTT(30) DEF Tick
<1>13. CASE UNCHANGED slotsVars
  BY <1>13, SMTT(30) DEF slotsVars
<1> QED
  BY <1>1, <1>2, <1>3, <1>4, <1>5, <1>6, <1>7, <1>8, <1>9, <1>10, <1>11,
       <1>12, <1>13 DEF SlotsNext, SlotsStep

-----------------------------------------------------------------------------
\* Waiting requests and set flags go together.
LEMMA CountedStep ==
    ASSUME SlotsInv, [SlotsNext]_slotsVars PROVE CountedInv'
<1> USE SlotsAssumption DEF SlotsInv, SlotsTypeOK, CountedInv, PCs, HoldsSlot,
        Holders, Goto, Fails, setVars, waitVars, faultVars, lossVars
<1>1. ASSUME NEW r \in Requests, IncrementWaitCount(r)
      PROVE  CountedInv'
  BY <1>1, SMTT(30) DEF IncrementWaitCount, AddWait, LostWithKey, Waiting
<1>2. ASSUME NEW r \in Requests, AcquireUserSlot(r)
      PROVE  CountedInv'
  BY <1>2, SMTT(30) DEF AcquireUserSlot, AddSlot, RefuseSlot, NoteExpired,
       Live
<1>3. ASSUME NEW r \in Requests, StopWaiting(r)
      PROVE  CountedInv'
  BY <1>3, SMTT(30) DEF StopWaiting
<1>4. ASSUME NEW r \in Requests, DecrementWaitCount(r)
      PROVE  CountedInv'
  BY <1>4, SMTT(30) DEF DecrementWaitCount, RemoveWait, LostWithKey, Waiting
<1>5. ASSUME NEW r \in Requests, Finish(r)
      PROVE  CountedInv'
  BY <1>5, SMTT(30) DEF Finish, ReleaseUserSlot
<1>6. ASSUME NEW r \in Requests, Disconnect(r)
      PROVE  CountedInv'
  BY <1>6, SMTT(30) DEF Disconnect, ReleaseUserSlot
<1>7. ASSUME NEW r \in Requests, Drained(r)
      PROVE  CountedInv'
  BY <1>7, SMTT(30) DEF Drained
<1>8. ASSUME NEW i \in Instances, Restart(i)
      PROVE  CountedInv'
  BY <1>8, SMTT(30) DEF Restart
<1>9. ASSUME NEW i \in Instances, SweepSlots(i)
      PROVE  CountedInv'
  BY <1>9, SMTT(30) DEF SweepSlots
<1>10. ASSUME NEW i \in Instances, DeleteWaits(i)
      PROVE  CountedInv'
  BY <1>10, SMTT(30) DEF DeleteWaits
<1>11. ASSUME CleanupExpired
      PROVE  CountedInv'
  BY <1>11, SMTT(30) DEF CleanupExpired, NoteExpired, Live
<1>12. ASSUME Tick
      PROVE  CountedInv'
  BY <1>12, SMTT(30) DEF Tick
<1>13. CASE UNCHANGED slotsVars
  BY <1>13, SMTT(30) DEF slotsVars
<1> QED
  BY <1>1, <1>2, <1>3, <1>4, <1>5, <1>6, <1>7, <1>8, <1>9, <1>10, <1>11,
       <1>12, <1>13 DEF SlotsNext, SlotsStep

-----------------------------------------------------------------------------
\* A slot is added below the limit only.
LEMMA BoundedStep ==
    ASSUME SlotsInv, [SlotsNext]_slotsVars PROVE SlotsBounded'
<1> USE SlotsAssumption DEF SlotsInv, SlotsTypeOK, SlotsBounded, setVars
<1>1. Live \in SUBSET Requests /\ Cardinality(Live) <= MaxConcurrency
  BY Sizes DEF Live
<1>2. ASSUME NEW r \in Requests, AcquireUserSlot(r) PROVE SlotsBounded'
  <2>1. CASE AddSlot(r)
    BY <1>1, <2>1, Sizes DEF AddSlot, Free
  <2>2. CASE RefuseSlot
    BY <1>1, <2>2 DEF RefuseSlot
  <2> QED
    BY <1>2, <2>1, <2>2 DEF AcquireUserSlot
<1>3. ASSUME NEW r \in Requests, Finish(r) \/ Disconnect(r) PROVE SlotsBounded'
  <2>1. slots' \in SUBSET slots
    BY <1>3 DEF Finish, Disconnect, ReleaseUserSlot
  <2> QED
    BY <2>1, Sizes
<1>4. ASSUME NEW i \in Instances, SweepSlots(i) PROVE SlotsBounded'
  BY <1>4, FS_EmptySet DEF SweepSlots
<1>5. CASE CleanupExpired
  BY <1>1, <1>5 DEF CleanupExpired
<1>6. ASSUME slots' = slots PROVE SlotsBounded'
  BY <1>6
<1>7. ASSUME NEW r \in Requests,
             IncrementWaitCount(r) \/ StopWaiting(r) \/ DecrementWaitCount(r)
             \/ Drained(r)
      PROVE  slots' = slots
  BY <1>7 DEF IncrementWaitCount, StopWaiting, DecrementWaitCount, Drained
<1>8. ASSUME NEW i \in Instances, Restart(i) \/ DeleteWaits(i)
      PROVE  slots' = slots
  BY <1>8 DEF Restart, DeleteWaits
<1>9. CASE Tick \/ UNCHANGED slotsVars
  BY <1>9, <1>6 DEF Tick, slotsVars
<1> QED
  BY <1>2, <1>3, <1>4, <1>5, <1>6, <1>7, <1>8, <1>9 DEF SlotsNext, SlotsStep

-----------------------------------------------------------------------------
\* A request that is counted in Redis is taken out there by a decrement, or
\* its count is lost.
LEMMA QueueStep ==
    ASSUME SlotsInv, [SlotsNext]_slotsVars PROVE QueueInv'
<1>1. /\ SlotsTypeOK /\ CountedInv /\ QueueInv /\ counted \in SUBSET Requests
      /\ waits \in Nat /\ lost \in Nat /\ leaked \in Nat
      /\ Waiting \in Nat /\ Waiting <= waits
      /\ Cardinality(counted) \in Nat
  BY WaitingBounds, Sizes, SlotsAssumption DEF SlotsInv, SlotsTypeOK
<1>2. ASSUME NEW r \in Requests, IncrementWaitCount(r) PROVE QueueInv'
  <2>1. Cardinality(counted \cup {r}) = Cardinality(counted) + 1
    BY <1>1, <1>2, Sizes DEF CountedInv, IncrementWaitCount
  <2>2. CASE UNCHANGED <<waits, counted, lost, leaked>>
    BY <1>1, <2>2 DEF QueueInv
  <2>3. CASE /\ counted' = counted \cup {r} /\ leaked' = leaked
             /\ \/ waits' = Waiting + 1 /\ lost' = lost + (waits - Waiting)
                \/ waits' = waits /\ lost' = lost + 1
    <3>1. Cardinality(counted') = Cardinality(counted) + 1
      BY <2>1, <2>3
    <3> QED
      BY <1>1, <2>3, <3>1 DEF QueueInv
  <2> QED
    BY <1>2, <2>2, <2>3
       DEF IncrementWaitCount, AddWait, LostWithKey, waitVars
<1>3. ASSUME NEW r \in Requests, DecrementWaitCount(r) PROVE QueueInv'
  <2>1. /\ Cardinality(counted') = Cardinality(counted) - 1
        /\ Cardinality(counted') \in Nat
    BY <1>1, <1>3, Sizes DEF CountedInv, DecrementWaitCount
  <2>2. CASE /\ waits' = IF Waiting > 0 THEN Waiting - 1 ELSE 0
             /\ lost' = lost + (waits - Waiting) /\ leaked' = leaked
    BY <1>1, <2>1, <2>2 DEF QueueInv
  <2>3. CASE /\ waits' = waits
             /\ lost' = lost /\ leaked' = leaked + 1
    BY <1>1, <2>1, <2>3 DEF QueueInv
  <2> QED
    BY <1>3, <2>2, <2>3
       DEF DecrementWaitCount, RemoveWait, LostWithKey, waitVars
<1>4. ASSUME NEW i \in Instances, Restart(i) PROVE QueueInv'
  <2>1. counted' \in SUBSET counted /\ UNCHANGED <<waits, lost>>
    BY <1>4 DEF Restart, waitVars
  <2>2. /\ Cardinality(counted') <= Cardinality(counted)
        /\ Cardinality(counted') \in Nat
    BY <1>1, <2>1, Sizes
  <2> QED
    BY <1>1, <2>1, <2>2 DEF QueueInv
<1>5. ASSUME NEW i \in Instances, DeleteWaits(i) PROVE QueueInv'
  BY <1>1, <1>5 DEF DeleteWaits, QueueInv
<1>6. ASSUME UNCHANGED <<waits, counted, lost, leaked>> PROVE QueueInv'
  BY <1>1, <1>6 DEF QueueInv
<1>7. ASSUME NEW r \in Requests,
             AcquireUserSlot(r) \/ StopWaiting(r) \/ Finish(r)
             \/ Disconnect(r) \/ Drained(r)
      PROVE  UNCHANGED <<waits, counted, lost, leaked>>
  BY <1>7
     DEF AcquireUserSlot, StopWaiting, Finish, Disconnect, Drained, waitVars,
         lossVars
<1>8. ASSUME NEW i \in Instances, SweepSlots(i)
      PROVE  UNCHANGED <<waits, counted, lost, leaked>>
  BY <1>8 DEF SweepSlots, waitVars
<1>9. CASE CleanupExpired \/ Tick \/ UNCHANGED slotsVars
  BY <1>9, <1>6 DEF CleanupExpired, Tick, slotsVars, waitVars, lossVars
<1> QED
  BY <1>2, <1>3, <1>4, <1>5, <1>6, <1>7, <1>8, <1>9 DEF SlotsNext, SlotsStep

-----------------------------------------------------------------------------
\* The counter is incremented for a request that is not counted yet, and a
\* count outlives its request as a leaked one.
LEMMA ExplainedStep ==
    ASSUME SlotsInv, [SlotsNext]_slotsVars PROVE CountIsExplained'
<1>1. /\ SlotsTypeOK /\ CountedInv /\ CountIsExplained /\ counted \in SUBSET Requests
      /\ waits \in Nat /\ lost \in Nat /\ leaked \in Nat
      /\ Waiting \in Nat /\ Waiting <= waits
      /\ Cardinality(counted) \in Nat
  BY WaitingBounds, Sizes, SlotsAssumption DEF SlotsInv, SlotsTypeOK
<1>2. ASSUME NEW r \in Requests, IncrementWaitCount(r) PROVE CountIsExplained'
  <2>1. Cardinality(counted \cup {r}) = Cardinality(counted) + 1
    BY <1>1, <1>2, Sizes DEF CountedInv, IncrementWaitCount
  <2>2. CASE UNCHANGED <<waits, counted, lost, leaked>>
    BY <1>1, <2>2 DEF CountIsExplained
  <2>3. CASE /\ counted' = counted \cup {r} /\ leaked' = leaked
             /\ \/ waits' = Waiting + 1 /\ lost' = lost + (waits - Waiting)
                \/ waits' = waits /\ lost' = lost + 1
    <3>1. Cardinality(counted') = Cardinality(counted) + 1
      BY <2>1, <2>3
    <3> QED
      BY <1>1, <2>3, <3>1 DEF CountIsExplained
  <2> QED
    BY <1>2, <2>2, <2>3
       DEF IncrementWaitCount, AddWait, LostWithKey, waitVars
<1>3. ASSUME NEW r \in Requests, DecrementWaitCount(r) PROVE CountIsExplained'
  <2>1. /\ Cardinality(counted') = Cardinality(counted) - 1
        /\ Cardinality(counted') \in Nat
    BY <1>1, <1>3, Sizes DEF CountedInv, DecrementWaitCount
  <2>2. CASE /\ waits' = IF Waiting > 0 THEN Waiting - 1 ELSE 0
             /\ lost' = lost + (waits - Waiting) /\ leaked' = leaked
    BY <1>1, <2>1, <2>2 DEF CountIsExplained
  <2>3. CASE /\ waits' = waits
             /\ lost' = lost /\ leaked' = leaked + 1
    BY <1>1, <2>1, <2>3 DEF CountIsExplained
  <2> QED
    BY <1>3, <2>2, <2>3
       DEF DecrementWaitCount, RemoveWait, LostWithKey, waitVars
<1>4. ASSUME NEW i \in Instances, Restart(i) PROVE CountIsExplained'
  <2> DEFINE dead == {r \in Requests : InstanceOf[r] = i /\ at[r] # "new"}
  <2>1. /\ counted' = counted \ dead
        /\ leaked' = leaked + Cardinality(counted \cap dead)
        /\ waits' = waits
    BY <1>4 DEF Restart, waitVars
  <2> HIDE DEF dead
  <2>2. Cardinality(counted) = Cardinality(counted \ dead)
                               + Cardinality(counted \cap dead)
    <3>1. /\ IsFiniteSet(counted \ dead) /\ Cardinality(counted \ dead) \in Nat
          /\ IsFiniteSet(counted \cap dead)
          /\ Cardinality(counted \cap dead) \in Nat
      BY <1>1, Sizes
    <3>2. (counted \ dead) \cap (counted \cap dead) = {}
      OBVIOUS
    <3>3. (counted \ dead) \cup (counted \cap dead) = counted
      OBVIOUS
    <3>4. Cardinality(counted)
            = Cardinality(counted \ dead) + Cardinality(counted \cap dead)
              - Cardinality({})
      BY <3>1, <3>2, <3>3, FS_Union, Zenon
    <3> QED
      BY <3>1, <3>4, FS_EmptySet
  <2>3. /\ Cardinality(counted \ dead) \in Nat
        /\ Cardinality(counted \cap dead) \in Nat
    BY <1>1, Sizes
  <2> QED
    BY <1>1, <2>1, <2>2, <2>3 DEF CountIsExplained
<1>5. ASSUME NEW i \in Instances, DeleteWaits(i) PROVE CountIsExplained'
  BY <1>1, <1>5 DEF DeleteWaits, CountIsExplained
<1>6. ASSUME UNCHANGED <<waits, counted, lost, leaked>> PROVE CountIsExplained'
  BY <1>1, <1>6 DEF CountIsExplained
<1>7. ASSUME NEW r \in Requests,
             AcquireUserSlot(r) \/ StopWaiting(r) \/ Finish(r)
             \/ Disconnect(r) \/ Drained(r)
      PROVE  UNCHANGED <<waits, counted, lost, leaked>>
  BY <1>7
     DEF AcquireUserSlot, StopWaiting, Finish, Disconnect, Drained, waitVars,
         lossVars
<1>8. ASSUME NEW i \in Instances, SweepSlots(i)
      PROVE  UNCHANGED <<waits, counted, lost, leaked>>
  BY <1>8 DEF SweepSlots, waitVars
<1>9. CASE CleanupExpired \/ Tick \/ UNCHANGED slotsVars
  BY <1>9, <1>6 DEF CleanupExpired, Tick, slotsVars, waitVars, lossVars
<1> QED
  BY <1>2, <1>3, <1>4, <1>5, <1>6, <1>7, <1>8, <1>9 DEF SlotsNext, SlotsStep

-----------------------------------------------------------------------------
\* Initially nobody has a slot or waits.
LEMMA InitSlotsInv == SlotsInit => SlotsInv
BY SlotsAssumption, FS_EmptySet
   DEF SlotsInit, SlotsInv, SlotsTypeOK, PCs, SlotsBounded, ServedHasSlot,
       Holders, HoldsSlot, CountedInv, QueueInv, CountIsExplained

\* Every step keeps the invariant.
LEMMA NextSlotsInv == SlotsInv /\ [SlotsNext]_slotsVars => SlotsInv'
BY SlotsTypeStep, ServedStep, CountedStep, BoundedStep, QueueStep, ExplainedStep
   DEF SlotsInv

\* The inductive invariant holds in every reachable state.
THEOREM SlotsInvariance == SlotsSpec => []SlotsInv
BY InitSlotsInv, NextSlotsInv, PTL DEF SlotsSpec

\* The scripts and the handlers keep the types.
THEOREM SlotsTypeCorrect == SlotsSpec => []SlotsTypeOK
<1>1. SlotsInv => SlotsTypeOK
  BY DEF SlotsInv
<1> QED
  BY <1>1, SlotsInvariance, PTL

\* Whoever is served without a slot lost it to its expiry or to a sweep.
THEOREM ServedHaveSlots == SlotsSpec => []ServedHasSlot
<1>1. SlotsInv => ServedHasSlot
  BY DEF SlotsInv
<1> QED
  BY <1>1, SlotsInvariance, PTL

\* The limit holds for every request that has not lost its slot.
THEOREM LimitIsKept == SlotsSpec => []LimitHolds
<1>1. SlotsInv => LimitHolds
  <2> SUFFICES ASSUME SlotsInv PROVE LimitHolds
    OBVIOUS
  <2>1. Holders \ (expired \cup swept) \in SUBSET slots
    BY DEF SlotsInv, ServedHasSlot
  <2>2. SlotsTypeOK /\ slots \in SUBSET Requests
    BY DEF SlotsInv, SlotsTypeOK
  <2>3. /\ Cardinality(slots) \in Nat
        /\ Holders \ (expired \cup swept) \in SUBSET Requests
    BY <2>2, Sizes DEF Holders
  <2>4. Cardinality(Holders \ (expired \cup swept)) \in Nat
    BY <2>2, <2>3, Sizes
  <2> QED
    BY <2>1, <2>2, <2>3, <2>4, Sizes, SlotsAssumption
       DEF LimitHolds, SlotsInv, SlotsBounded
<1> QED
  BY <1>1, SlotsInvariance, PTL

\* The wait queue exceeds its limit by lost counts only.
THEOREM QueueIsKept == SlotsSpec => []QueueIsBounded
<1>1. SlotsInv => QueueIsBounded
  BY Sizes, SlotsAssumption
     DEF SlotsInv, SlotsTypeOK, QueueInv, QueueIsBounded
<1> QED
  BY <1>1, SlotsInvariance, PTL

\* The wait counter counts no request twice.
THEOREM CountIsKept == SlotsSpec => []CountIsExplained
<1>1. SlotsInv => CountIsExplained
  BY DEF SlotsInv
<1> QED
  BY <1>1, SlotsInvariance, PTL

-----------------------------------------------------------------------------
(* UsageBilling: the dedup row inserted by an open transaction locks its   *)
(* request id, and the rows it wrote stay locked, so what a statement      *)
(* decided is still true when the transaction commits.                     *)

\* Transactions past the archive.
Charging == {"wallet", "key", "account", "commit"}

\* An open transaction is alone on its request id, which has no committed
\* row, and once it charges none in the archive either.
ClaimInv ==
    \A c \in Cmds :
        /\ Open(c) => dedupFp[IdOf[c]] = NoFp
        /\ pc[c] \in Charging => archiveFp[IdOf[c]] = NoFp
        /\ \A d \in Cmds : Open(c) /\ Open(d) /\ IdOf[c] = IdOf[d] => c = d

\* The tables know every charged request, and nothing else.
KeptInv ==
    /\ \A c \in charged : FpOf[c] \in {dedupFp[IdOf[c]], archiveFp[IdOf[c]]}
    /\ \A i \in Ids :
          /\ dedupFp[i] # NoFp =>
                \E d \in charged : IdOf[d] = i /\ FpOf[d] = dedupFp[i]
          /\ archiveFp[i] # NoFp =>
                \E d \in charged : IdOf[d] = i /\ FpOf[d] = archiveFp[i]

\* The rows written before each statement.
Before(stage) ==
    IF stage = "key" THEN {"wallet"}
    ELSE IF stage = "account" THEN {"wallet", "key"}
    ELSE IF stage = "commit" THEN Rows ELSE {}

WroteInv ==
    \A c \in Cmds : \A r \in Rows :
        r \in wrote[c] <=> r \in RowsOf[c] /\ r \in Before(pc[c])

\* A row has one writer.
LockInv ==
    \A r \in Rows : \A c, d \in Cmds :
        r \in wrote[c] /\ r \in wrote[d] => c = d

\* What the statements decided still holds of the committed rows.
DecidedInv ==
    \A c \in Cmds :
        /\ "close" \in wrote[c] <=> "key" \in wrote[c] /\ KeyCrossing(c)
        /\ "announce" \in wrote[c] \/ "drop" \in wrote[c]
             <=> "account" \in wrote[c] /\ AccountCrossing(c)
        /\ "announce" \notin wrote[c] \/ "drop" \notin wrote[c]

\* Which commands are charged, by where they are.
EndInv ==
    /\ doubted \subseteq charged
    /\ \A c \in Cmds :
          /\ c \in charged => pc[c] \in {"done", "failed"}
          /\ pc[c] = "done" => c \in charged
          /\ pc[c] = "duplicate" =>
                \E d \in charged : IdOf[d] = IdOf[c] /\ FpOf[d] = FpOf[c]
          /\ pc[c] = "failed" /\ c \notin doubted => c \notin charged

\* The row an edit will save, while it is not behind.
EditInv ==
    /\ \A u \in Updates :
          /\ upc[u] = "read" => u \notin resets /\ u \notin behind
          /\ upc[u] = "save" /\ u \in resets => newUsed[u] = 0
          /\ upc[u] = "save" /\ u \notin resets /\ u \notin behind
               => newUsed[u] = keyUsed
    /\ UsageIsCounted

IInv ==
    /\ TypeOK
    /\ ClaimInv
    /\ KeptInv
    /\ WroteInv
    /\ LockInv
    /\ DecidedInv
    /\ EndInv
    /\ EditInv
    /\ ChargedOnce
    /\ ChargedWhole
    /\ LimitIsAnnounced

-----------------------------------------------------------------------------
\* Every step keeps the types.
LEMMA TypeStep ==
    ASSUME TypeOK, [Next]_vars PROVE TypeOK'
<1> USE ConstantsAssumption DEF TypeOK, tableVars, keyVars, accountVars,
        editVars, historyVars, InTx, Ends, Rows, Statuses, Open
<1>1. ASSUME NEW c \in Cmds, Claim(c)
      PROVE  TypeOK'
  BY <1>1, SMTT(30) DEF Claim
<1>2. ASSUME NEW c \in Cmds, CompareFingerprint(c)
      PROVE  TypeOK'
  BY <1>2, SMTT(30) DEF CompareFingerprint, End, Answer
<1>3. ASSUME NEW c \in Cmds, AskArchive(c)
      PROVE  TypeOK'
  BY <1>3, SMTT(30) DEF AskArchive, End, Answer
<1>4. ASSUME NEW c \in Cmds, DeductBalance(c)
      PROVE  TypeOK'
  BY <1>4, SMTT(30) DEF DeductBalance, Effect
<1>5. ASSUME NEW c \in Cmds, IncrementAPIKeyQuota(c)
      PROVE  TypeOK'
  BY <1>5, SMTT(30) DEF IncrementAPIKeyQuota, Effect
<1>6. ASSUME NEW c \in Cmds, IncrementAccountQuota(c)
      PROVE  TypeOK'
  <2>1. PICK event \in AccountEvent(c) : Effect(c, "account", event, "commit")
    BY <1>6 DEF IncrementAccountQuota
  <2>2. event \subseteq {"announce", "drop"}
    BY <2>1 DEF AccountEvent
  <2>3. wrote' \in [Cmds -> SUBSET (Rows \cup {"close", "announce", "drop"})]
    <3>1. CASE "account" \in RowsOf[c]
      <4>1. wrote' = [wrote EXCEPT ![c] = @ \cup {"account"} \cup event]
        BY <2>1, <3>1 DEF Effect
      <4>2. wrote[c] \cup {"account"} \cup event
              \in SUBSET (Rows \cup {"close", "announce", "drop"})
        BY <2>2
      <4> QED
        BY <4>1, <4>2
    <3>2. CASE "account" \notin RowsOf[c]
      BY <2>1, <3>2 DEF Effect
    <3> QED
      BY <3>1, <3>2
  <2> QED
    BY <2>1, <2>3, SMTT(30) DEF Effect
<1>7. ASSUME NEW c \in Cmds, Commit(c)
      PROVE  TypeOK'
  BY <1>7, SMTT(30) DEF Commit, End, Pending
<1>8. ASSUME NEW c \in Cmds, Rollback(c)
      PROVE  TypeOK'
  BY <1>8, SMTT(30) DEF Rollback, End
<1>9. ASSUME NEW i \in Ids, Archive(i)
      PROVE  TypeOK'
  BY <1>9, SMTT(30) DEF Archive
<1>10. ASSUME NEW u \in Updates, ReadKey(u)
      PROVE  TypeOK'
  BY <1>10, SMTT(30) DEF ReadKey, AfterQuota, AfterReset
<1>11. ASSUME NEW u \in Updates, SaveKey(u)
      PROVE  TypeOK'
  BY <1>11, SMTT(30) DEF SaveKey, Pending
<1>12. CASE UNCHANGED vars
  BY <1>12, SMTT(30) DEF vars
<1> QED
  BY <1>1, <1>2, <1>3, <1>4, <1>5, <1>6, <1>7, <1>8, <1>9, <1>10, <1>11,
       <1>12 DEF Next, Step, Edit

-----------------------------------------------------------------------------
\* A claim waits for the open transaction of its id and takes an id without a
\* committed row.
LEMMA ClaimStep ==
    ASSUME TypeOK, ClaimInv, [Next]_vars PROVE ClaimInv'
<1> USE ConstantsAssumption DEF TypeOK, ClaimInv, Charging, tableVars,
        keyVars, accountVars, editVars, historyVars, InTx, Ends, Rows, Open
<1>1. ASSUME NEW c \in Cmds, Claim(c)
      PROVE  ClaimInv'
  BY <1>1, SMTT(30) DEF Claim
<1>2. ASSUME NEW c \in Cmds, CompareFingerprint(c)
      PROVE  ClaimInv'
  BY <1>2, SMTT(30) DEF CompareFingerprint, End, Answer
<1>3. ASSUME NEW c \in Cmds, AskArchive(c)
      PROVE  ClaimInv'
  BY <1>3, SMTT(30) DEF AskArchive, End, Answer
<1>4. ASSUME NEW c \in Cmds, DeductBalance(c)
      PROVE  ClaimInv'
  BY <1>4, SMTT(30) DEF DeductBalance, Effect
<1>5. ASSUME NEW c \in Cmds, IncrementAPIKeyQuota(c)
      PROVE  ClaimInv'
  BY <1>5, SMTT(30) DEF IncrementAPIKeyQuota, Effect
<1>6. ASSUME NEW c \in Cmds, IncrementAccountQuota(c)
      PROVE  ClaimInv'
  BY <1>6, SMTT(30) DEF IncrementAccountQuota, AccountEvent, Effect
<1>7. ASSUME NEW c \in Cmds, Commit(c)
      PROVE  ClaimInv'
  BY <1>7, SMTT(30) DEF Commit, End
<1>8. ASSUME NEW c \in Cmds, Rollback(c)
      PROVE  ClaimInv'
  BY <1>8, SMTT(30) DEF Rollback, End
<1>9. ASSUME NEW i \in Ids, Archive(i)
      PROVE  ClaimInv'
  BY <1>9, SMTT(30) DEF Archive
<1>10. ASSUME NEW u \in Updates, ReadKey(u)
      PROVE  ClaimInv'
  BY <1>10, SMTT(30) DEF ReadKey
<1>11. ASSUME NEW u \in Updates, SaveKey(u)
      PROVE  ClaimInv'
  BY <1>11, SMTT(30) DEF SaveKey
<1>12. CASE UNCHANGED vars
  BY <1>12, SMTT(30) DEF vars
<1> QED
  BY <1>1, <1>2, <1>3, <1>4, <1>5, <1>6, <1>7, <1>8, <1>9, <1>10, <1>11,
       <1>12 DEF Next, Step, Edit

-----------------------------------------------------------------------------
\* A commit keeps the fingerprint, and the clean-up moves it.
LEMMA KeptStep ==
    ASSUME TypeOK, ClaimInv, KeptInv, ChargedOnce, [Next]_vars
    PROVE  KeptInv'
<1> USE ConstantsAssumption DEF TypeOK, ClaimInv, KeptInv, ChargedOnce,
        Charging, tableVars, keyVars, accountVars, editVars, historyVars,
        InTx, Ends, Rows, Open
<1>1. ASSUME NEW c \in Cmds, Claim(c)
      PROVE  KeptInv'
  BY <1>1, SMTT(30) DEF Claim
<1>2. ASSUME NEW c \in Cmds, CompareFingerprint(c)
      PROVE  KeptInv'
  BY <1>2, SMTT(30) DEF CompareFingerprint, End, Answer
<1>3. ASSUME NEW c \in Cmds, AskArchive(c)
      PROVE  KeptInv'
  BY <1>3, SMTT(30) DEF AskArchive, End, Answer
<1>4. ASSUME NEW c \in Cmds, DeductBalance(c)
      PROVE  KeptInv'
  BY <1>4, SMTT(30) DEF DeductBalance, Effect
<1>5. ASSUME NEW c \in Cmds, IncrementAPIKeyQuota(c)
      PROVE  KeptInv'
  BY <1>5, SMTT(30) DEF IncrementAPIKeyQuota, Effect
<1>6. ASSUME NEW c \in Cmds, IncrementAccountQuota(c)
      PROVE  KeptInv'
  BY <1>6, SMTT(30) DEF IncrementAccountQuota, AccountEvent, Effect
<1>7. ASSUME NEW c \in Cmds, Commit(c)
      PROVE  KeptInv'
  BY <1>7, SMTT(30) DEF Commit, End
<1>8. ASSUME NEW c \in Cmds, Rollback(c)
      PROVE  KeptInv'
  BY <1>8, SMTT(30) DEF Rollback, End
<1>9. ASSUME NEW i \in Ids, Archive(i)
      PROVE  KeptInv'
  BY <1>9, SMTT(30) DEF Archive
<1>10. ASSUME NEW u \in Updates, ReadKey(u)
      PROVE  KeptInv'
  BY <1>10, SMTT(30) DEF ReadKey
<1>11. ASSUME NEW u \in Updates, SaveKey(u)
      PROVE  KeptInv'
  BY <1>11, SMTT(30) DEF SaveKey
<1>12. CASE UNCHANGED vars
  BY <1>12, SMTT(30) DEF vars
<1> QED
  BY <1>1, <1>2, <1>3, <1>4, <1>5, <1>6, <1>7, <1>8, <1>9, <1>10, <1>11,
       <1>12 DEF Next, Step, Edit

-----------------------------------------------------------------------------
\* A request with a charge is in one of the tables, so it cannot reach the
\* commit.
LEMMA OnceStep ==
    ASSUME TypeOK, ClaimInv, KeptInv, ChargedOnce, [Next]_vars
    PROVE  ChargedOnce'
<1> USE ConstantsAssumption DEF TypeOK, ClaimInv, KeptInv, ChargedOnce,
        Charging, tableVars, keyVars, accountVars, editVars, historyVars,
        InTx, Ends, Rows, Open
<1>1. ASSUME NEW c \in Cmds, Claim(c)
      PROVE  ChargedOnce'
  BY <1>1, SMTT(30) DEF Claim
<1>2. ASSUME NEW c \in Cmds, CompareFingerprint(c)
      PROVE  ChargedOnce'
  BY <1>2, SMTT(30) DEF CompareFingerprint, End, Answer
<1>3. ASSUME NEW c \in Cmds, AskArchive(c)
      PROVE  ChargedOnce'
  BY <1>3, SMTT(30) DEF AskArchive, End, Answer
<1>4. ASSUME NEW c \in Cmds, DeductBalance(c)
      PROVE  ChargedOnce'
  BY <1>4, SMTT(30) DEF DeductBalance, Effect
<1>5. ASSUME NEW c \in Cmds, IncrementAPIKeyQuota(c)
      PROVE  ChargedOnce'
  BY <1>5, SMTT(30) DEF IncrementAPIKeyQuota, Effect
<1>6. ASSUME NEW c \in Cmds, IncrementAccountQuota(c)
      PROVE  ChargedOnce'
  BY <1>6, SMTT(30) DEF IncrementAccountQuota, AccountEvent, Effect
<1>7. ASSUME NEW c \in Cmds, Commit(c)
      PROVE  ChargedOnce'
  BY <1>7, SMTT(30) DEF Commit, End
<1>8. ASSUME NEW c \in Cmds, Rollback(c)
      PROVE  ChargedOnce'
  BY <1>8, SMTT(30) DEF Rollback, End
<1>9. ASSUME NEW i \in Ids, Archive(i)
      PROVE  ChargedOnce'
  BY <1>9, SMTT(30) DEF Archive
<1>10. ASSUME NEW u \in Updates, ReadKey(u)
      PROVE  ChargedOnce'
  BY <1>10, SMTT(30) DEF ReadKey
<1>11. ASSUME NEW u \in Updates, SaveKey(u)
      PROVE  ChargedOnce'
  BY <1>11, SMTT(30) DEF SaveKey
<1>12. CASE UNCHANGED vars
  BY <1>12, SMTT(30) DEF vars
<1> QED
  BY <1>1, <1>2, <1>3, <1>4, <1>5, <1>6, <1>7, <1>8, <1>9, <1>10, <1>11,
       <1>12 DEF Next, Step, Edit

-----------------------------------------------------------------------------
\* The statements are executed in their order.
LEMMA WroteStep ==
    ASSUME TypeOK, WroteInv, [Next]_vars PROVE WroteInv'
<1> USE ConstantsAssumption DEF TypeOK, WroteInv, Before, tableVars,
        keyVars, accountVars, editVars, historyVars, InTx, Ends, Rows, Open
<1>1. ASSUME NEW c \in Cmds, Claim(c)
      PROVE  WroteInv'
  BY <1>1, SMTT(30) DEF Claim
<1>2. ASSUME NEW c \in Cmds, CompareFingerprint(c)
      PROVE  WroteInv'
  BY <1>2, SMTT(30) DEF CompareFingerprint, End, Answer
<1>3. ASSUME NEW c \in Cmds, AskArchive(c)
      PROVE  WroteInv'
  BY <1>3, SMTT(30) DEF AskArchive, End, Answer
<1>4. ASSUME NEW c \in Cmds, DeductBalance(c)
      PROVE  WroteInv'
  BY <1>4, SMTT(30) DEF DeductBalance, Effect
<1>5. ASSUME NEW c \in Cmds, IncrementAPIKeyQuota(c)
      PROVE  WroteInv'
  BY <1>5, SMTT(30) DEF IncrementAPIKeyQuota, Effect
<1>6. ASSUME NEW c \in Cmds, IncrementAccountQuota(c)
      PROVE  WroteInv'
  BY <1>6, SMTT(30) DEF IncrementAccountQuota, AccountEvent, Effect
<1>7. ASSUME NEW c \in Cmds, Commit(c)
      PROVE  WroteInv'
  BY <1>7, SMTT(30) DEF Commit, End
<1>8. ASSUME NEW c \in Cmds, Rollback(c)
      PROVE  WroteInv'
  BY <1>8, SMTT(30) DEF Rollback, End
<1>9. ASSUME NEW i \in Ids, Archive(i)
      PROVE  WroteInv'
  BY <1>9, SMTT(30) DEF Archive
<1>10. ASSUME NEW u \in Updates, ReadKey(u)
      PROVE  WroteInv'
  BY <1>10, SMTT(30) DEF ReadKey
<1>11. ASSUME NEW u \in Updates, SaveKey(u)
      PROVE  WroteInv'
  BY <1>11, SMTT(30) DEF SaveKey
<1>12. CASE UNCHANGED vars
  BY <1>12, SMTT(30) DEF vars
<1> QED
  BY <1>1, <1>2, <1>3, <1>4, <1>5, <1>6, <1>7, <1>8, <1>9, <1>10, <1>11,
       <1>12 DEF Next, Step, Edit

-----------------------------------------------------------------------------
\* A statement waits for the writer of its row.
LEMMA LockStep ==
    ASSUME TypeOK, LockInv, [Next]_vars PROVE LockInv'
<1> USE ConstantsAssumption DEF TypeOK, LockInv, LockedFor, tableVars,
        keyVars, accountVars, editVars, historyVars, InTx, Ends, Rows, Open
<1>1. ASSUME NEW c \in Cmds, Claim(c)
      PROVE  LockInv'
  BY <1>1, SMTT(30) DEF Claim
<1>2. ASSUME NEW c \in Cmds, CompareFingerprint(c)
      PROVE  LockInv'
  BY <1>2, SMTT(30) DEF CompareFingerprint, End, Answer
<1>3. ASSUME NEW c \in Cmds, AskArchive(c)
      PROVE  LockInv'
  BY <1>3, SMTT(30) DEF AskArchive, End, Answer
<1>4. ASSUME NEW c \in Cmds, DeductBalance(c)
      PROVE  LockInv'
  BY <1>4, SMTT(30) DEF DeductBalance, Effect
<1>5. ASSUME NEW c \in Cmds, IncrementAPIKeyQuota(c)
      PROVE  LockInv'
  BY <1>5, SMTT(30) DEF IncrementAPIKeyQuota, Effect
<1>6. ASSUME NEW c \in Cmds, IncrementAccountQuota(c)
      PROVE  LockInv'
  BY <1>6, SMTT(30) DEF IncrementAccountQuota, AccountEvent, Effect
<1>7. ASSUME NEW c \in Cmds, Commit(c)
      PROVE  LockInv'
  BY <1>7, SMTT(30) DEF Commit, End
<1>8. ASSUME NEW c \in Cmds, Rollback(c)
      PROVE  LockInv'
  BY <1>8, SMTT(30) DEF Rollback, End
<1>9. ASSUME NEW i \in Ids, Archive(i)
      PROVE  LockInv'
  BY <1>9, SMTT(30) DEF Archive
<1>10. ASSUME NEW u \in Updates, ReadKey(u)
      PROVE  LockInv'
  BY <1>10, SMTT(30) DEF ReadKey
<1>11. ASSUME NEW u \in Updates, SaveKey(u)
      PROVE  LockInv'
  BY <1>11, SMTT(30) DEF SaveKey
<1>12. CASE UNCHANGED vars
  BY <1>12, SMTT(30) DEF vars
<1> QED
  BY <1>1, <1>2, <1>3, <1>4, <1>5, <1>6, <1>7, <1>8, <1>9, <1>10, <1>11,
       <1>12 DEF Next, Step, Edit

-----------------------------------------------------------------------------
\* While a row is locked nobody else changes it.
LEMMA DecidedStep ==
    ASSUME TypeOK, LockInv, WroteInv, DecidedInv, [Next]_vars
    PROVE  DecidedInv'
<1> USE ConstantsAssumption DEF TypeOK, LockInv, WroteInv, DecidedInv,
        LockedFor, KeyCrossing, AccountCrossing, Before, tableVars, keyVars,
        accountVars, editVars, historyVars, InTx, Ends, Rows, Open
<1>1. ASSUME NEW c \in Cmds, Claim(c)
      PROVE  DecidedInv'
  BY <1>1, SMTT(30) DEF Claim
<1>2. ASSUME NEW c \in Cmds, CompareFingerprint(c)
      PROVE  DecidedInv'
  BY <1>2, SMTT(30) DEF CompareFingerprint, End, Answer
<1>3. ASSUME NEW c \in Cmds, AskArchive(c)
      PROVE  DecidedInv'
  BY <1>3, SMTT(30) DEF AskArchive, End, Answer
<1>4. ASSUME NEW c \in Cmds, DeductBalance(c)
      PROVE  DecidedInv'
  BY <1>4, SMTT(30) DEF DeductBalance, Effect
<1>5. ASSUME NEW c \in Cmds, IncrementAPIKeyQuota(c)
      PROVE  DecidedInv'
  BY <1>5, SMTT(30) DEF IncrementAPIKeyQuota, Effect
<1>6. ASSUME NEW c \in Cmds, IncrementAccountQuota(c)
      PROVE  DecidedInv'
  BY <1>6, SMTT(30) DEF IncrementAccountQuota, AccountEvent, Effect
<1>7. ASSUME NEW c \in Cmds, Commit(c)
      PROVE  DecidedInv'
  BY <1>7, SMTT(30) DEF Commit, End
<1>8. ASSUME NEW c \in Cmds, Rollback(c)
      PROVE  DecidedInv'
  BY <1>8, SMTT(30) DEF Rollback, End
<1>9. ASSUME NEW i \in Ids, Archive(i)
      PROVE  DecidedInv'
  BY <1>9, SMTT(30) DEF Archive
<1>10. ASSUME NEW u \in Updates, ReadKey(u)
      PROVE  DecidedInv'
  BY <1>10, SMTT(30) DEF ReadKey
<1>11. ASSUME NEW u \in Updates, SaveKey(u)
      PROVE  DecidedInv'
  BY <1>11, SMTT(30) DEF SaveKey
<1>12. CASE UNCHANGED vars
  BY <1>12, SMTT(30) DEF vars
<1> QED
  BY <1>1, <1>2, <1>3, <1>4, <1>5, <1>6, <1>7, <1>8, <1>9, <1>10, <1>11,
       <1>12 DEF Next, Step, Edit

-----------------------------------------------------------------------------
\* A command is charged by its commit.
LEMMA EndStep ==
    ASSUME TypeOK, EndInv, KeptInv, [Next]_vars PROVE EndInv'
<1> USE ConstantsAssumption DEF TypeOK, EndInv, KeptInv, tableVars, keyVars,
        accountVars, editVars, historyVars, InTx, Ends, Rows, Open
<1>1. ASSUME NEW c \in Cmds, Claim(c)
      PROVE  EndInv'
  BY <1>1, SMTT(30) DEF Claim
<1>2. ASSUME NEW c \in Cmds, CompareFingerprint(c)
      PROVE  EndInv'
  BY <1>2, SMTT(30) DEF CompareFingerprint, End, Answer
<1>3. ASSUME NEW c \in Cmds, AskArchive(c)
      PROVE  EndInv'
  BY <1>3, SMTT(30) DEF AskArchive, End, Answer
<1>4. ASSUME NEW c \in Cmds, DeductBalance(c)
      PROVE  EndInv'
  BY <1>4, SMTT(30) DEF DeductBalance, Effect
<1>5. ASSUME NEW c \in Cmds, IncrementAPIKeyQuota(c)
      PROVE  EndInv'
  BY <1>5, SMTT(30) DEF IncrementAPIKeyQuota, Effect
<1>6. ASSUME NEW c \in Cmds, IncrementAccountQuota(c)
      PROVE  EndInv'
  BY <1>6, SMTT(30) DEF IncrementAccountQuota, AccountEvent, Effect
<1>7. ASSUME NEW c \in Cmds, Commit(c)
      PROVE  EndInv'
  BY <1>7, SMTT(30) DEF Commit, End
<1>8. ASSUME NEW c \in Cmds, Rollback(c)
      PROVE  EndInv'
  BY <1>8, SMTT(30) DEF Rollback, End
<1>9. ASSUME NEW i \in Ids, Archive(i)
      PROVE  EndInv'
  BY <1>9, SMTT(30) DEF Archive
<1>10. ASSUME NEW u \in Updates, ReadKey(u)
      PROVE  EndInv'
  BY <1>10, SMTT(30) DEF ReadKey
<1>11. ASSUME NEW u \in Updates, SaveKey(u)
      PROVE  EndInv'
  BY <1>11, SMTT(30) DEF SaveKey
<1>12. CASE UNCHANGED vars
  BY <1>12, SMTT(30) DEF vars
<1> QED
  BY <1>1, <1>2, <1>3, <1>4, <1>5, <1>6, <1>7, <1>8, <1>9, <1>10, <1>11,
       <1>12 DEF Next, Step, Edit

-----------------------------------------------------------------------------
\* The commit finds every row of the charge written.
LEMMA WholeStep ==
    ASSUME TypeOK, WroteInv, EndInv, ChargedWhole, [Next]_vars
    PROVE  ChargedWhole'
<1> USE ConstantsAssumption DEF TypeOK, WroteInv, EndInv, ChargedWhole,
        Before, tableVars, keyVars, accountVars, editVars, historyVars,
        InTx, Ends, Rows, Open
<1>1. ASSUME NEW c \in Cmds, Claim(c)
      PROVE  ChargedWhole'
  BY <1>1, SMTT(30) DEF Claim
<1>2. ASSUME NEW c \in Cmds, CompareFingerprint(c)
      PROVE  ChargedWhole'
  BY <1>2, SMTT(30) DEF CompareFingerprint, End, Answer
<1>3. ASSUME NEW c \in Cmds, AskArchive(c)
      PROVE  ChargedWhole'
  BY <1>3, SMTT(30) DEF AskArchive, End, Answer
<1>4. ASSUME NEW c \in Cmds, DeductBalance(c)
      PROVE  ChargedWhole'
  BY <1>4, SMTT(30) DEF DeductBalance, Effect
<1>5. ASSUME NEW c \in Cmds, IncrementAPIKeyQuota(c)
      PROVE  ChargedWhole'
  BY <1>5, SMTT(30) DEF IncrementAPIKeyQuota, Effect
<1>6. ASSUME NEW c \in Cmds, IncrementAccountQuota(c)
      PROVE  ChargedWhole'
  BY <1>6, SMTT(30) DEF IncrementAccountQuota, AccountEvent, Effect
<1>7. ASSUME NEW c \in Cmds, Commit(c)
      PROVE  ChargedWhole'
  BY <1>7, SMTT(30) DEF Commit, End
<1>8. ASSUME NEW c \in Cmds, Rollback(c)
      PROVE  ChargedWhole'
  BY <1>8, SMTT(30) DEF Rollback, End
<1>9. ASSUME NEW i \in Ids, Archive(i)
      PROVE  ChargedWhole'
  BY <1>9, SMTT(30) DEF Archive
<1>10. ASSUME NEW u \in Updates, ReadKey(u)
      PROVE  ChargedWhole'
  BY <1>10, SMTT(30) DEF ReadKey
<1>11. ASSUME NEW u \in Updates, SaveKey(u)
      PROVE  ChargedWhole'
  BY <1>11, SMTT(30) DEF SaveKey
<1>12. CASE UNCHANGED vars
  BY <1>12, SMTT(30) DEF vars
<1> QED
  BY <1>1, <1>2, <1>3, <1>4, <1>5, <1>6, <1>7, <1>8, <1>9, <1>10, <1>11,
       <1>12 DEF Next, Step, Edit

-----------------------------------------------------------------------------
\* An edit that is not behind saves the usage it found.
LEMMA EditStep ==
    ASSUME TypeOK, EditInv, [Next]_vars PROVE EditInv'
<1> USE ConstantsAssumption DEF TypeOK, EditInv, UsageIsCounted, Pending,
        tableVars, keyVars, accountVars, editVars, historyVars, InTx, Ends,
        Rows, Open
<1>1. ASSUME NEW c \in Cmds, Claim(c)
      PROVE  EditInv'
  BY <1>1, SMTT(30) DEF Claim
<1>2. ASSUME NEW c \in Cmds, CompareFingerprint(c)
      PROVE  EditInv'
  BY <1>2, SMTT(30) DEF CompareFingerprint, End, Answer
<1>3. ASSUME NEW c \in Cmds, AskArchive(c)
      PROVE  EditInv'
  BY <1>3, SMTT(30) DEF AskArchive, End, Answer
<1>4. ASSUME NEW c \in Cmds, DeductBalance(c)
      PROVE  EditInv'
  BY <1>4, SMTT(30) DEF DeductBalance, Effect
<1>5. ASSUME NEW c \in Cmds, IncrementAPIKeyQuota(c)
      PROVE  EditInv'
  BY <1>5, SMTT(30) DEF IncrementAPIKeyQuota, Effect
<1>6. ASSUME NEW c \in Cmds, IncrementAccountQuota(c)
      PROVE  EditInv'
  BY <1>6, SMTT(30) DEF IncrementAccountQuota, AccountEvent, Effect
<1>7. ASSUME NEW c \in Cmds, Commit(c)
      PROVE  EditInv'
  BY <1>7, SMTT(30) DEF Commit, End
<1>8. ASSUME NEW c \in Cmds, Rollback(c)
      PROVE  EditInv'
  BY <1>8, SMTT(30) DEF Rollback, End
<1>9. ASSUME NEW i \in Ids, Archive(i)
      PROVE  EditInv'
  BY <1>9, SMTT(30) DEF Archive
<1>10. ASSUME NEW u \in Updates, ReadKey(u)
      PROVE  EditInv'
  BY <1>10, SMTT(30) DEF ReadKey
<1>11. ASSUME NEW u \in Updates, SaveKey(u)
      PROVE  EditInv'
  BY <1>11, SMTT(30) DEF SaveKey
<1>12. CASE UNCHANGED vars
  BY <1>12, SMTT(30) DEF vars
<1> QED
  BY <1>1, <1>2, <1>3, <1>4, <1>5, <1>6, <1>7, <1>8, <1>9, <1>10, <1>11,
       <1>12 DEF Next, Step, Edit

-----------------------------------------------------------------------------
\* The account crosses its limit once.
LEMMA AnnouncedStep ==
    ASSUME TypeOK, WroteInv, DecidedInv, LimitIsAnnounced, [Next]_vars
    PROVE  LimitIsAnnounced'
<1> USE ConstantsAssumption DEF TypeOK, WroteInv, DecidedInv,
        LimitIsAnnounced, AccountCrossing, tableVars, keyVars, accountVars,
        editVars, historyVars, InTx, Ends, Rows, Open
<1>1. ASSUME NEW c \in Cmds, Claim(c)
      PROVE  LimitIsAnnounced'
  BY <1>1, SMTT(30) DEF Claim
<1>2. ASSUME NEW c \in Cmds, CompareFingerprint(c)
      PROVE  LimitIsAnnounced'
  BY <1>2, SMTT(30) DEF CompareFingerprint, End, Answer
<1>3. ASSUME NEW c \in Cmds, AskArchive(c)
      PROVE  LimitIsAnnounced'
  BY <1>3, SMTT(30) DEF AskArchive, End, Answer
<1>4. ASSUME NEW c \in Cmds, DeductBalance(c)
      PROVE  LimitIsAnnounced'
  BY <1>4, SMTT(30) DEF DeductBalance, Effect
<1>5. ASSUME NEW c \in Cmds, IncrementAPIKeyQuota(c)
      PROVE  LimitIsAnnounced'
  BY <1>5, SMTT(30) DEF IncrementAPIKeyQuota, Effect
<1>6. ASSUME NEW c \in Cmds, IncrementAccountQuota(c)
      PROVE  LimitIsAnnounced'
  <2>1. PICK event \in AccountEvent(c) : Effect(c, "account", event, "commit")
    BY <1>6 DEF IncrementAccountQuota
  <2>2. UNCHANGED <<accountUsed, outbox, dropped>>
    BY <2>1 DEF Effect
  <2> QED
    BY <2>2 DEF LimitIsAnnounced
<1>7. ASSUME NEW c \in Cmds, Commit(c)
      PROVE  LimitIsAnnounced'
  <2>1. /\ outbox' = IF "announce" \in wrote[c] THEN outbox \cup {c} ELSE outbox
        /\ dropped' = IF "drop" \in wrote[c] THEN dropped \cup {c} ELSE dropped
        /\ accountUsed' = IF "account" \in wrote[c]
                             THEN accountUsed + AccountCost[c] ELSE accountUsed
    BY <1>7 DEF Commit
  <2>2. CASE "announce" \in wrote[c] \/ "drop" \in wrote[c]
    <3>1. "account" \in wrote[c] /\ AccountCrossing(c)
      BY <2>2
    <3>2. outbox = {} /\ dropped = {}
      BY <3>1
    <3>3. outbox' \cup dropped' = {c}
      BY <2>1, <2>2, <3>2
    <3>4. AccountLimit > 0 /\ accountUsed' >= AccountLimit
      BY <2>1, <3>1
    <3> QED
      BY <3>3, <3>4
  <2>3. CASE "announce" \notin wrote[c] /\ "drop" \notin wrote[c]
    <3>1. outbox' = outbox /\ dropped' = dropped
      BY <2>1, <2>3
    <3>2. ~("account" \in wrote[c] /\ AccountCrossing(c))
      BY <2>3
    <3>3. AccountLimit > 0 /\ accountUsed' >= AccountLimit
            <=> AccountLimit > 0 /\ accountUsed >= AccountLimit
      BY <2>1, <3>2, SMTT(30)
    <3> QED
      BY <3>1, <3>3
  <2> QED
    BY <2>2, <2>3
<1>8. ASSUME NEW c \in Cmds, Rollback(c)
      PROVE  LimitIsAnnounced'
  BY <1>8, SMTT(30) DEF Rollback, End
<1>9. ASSUME NEW i \in Ids, Archive(i)
      PROVE  LimitIsAnnounced'
  BY <1>9, SMTT(30) DEF Archive
<1>10. ASSUME NEW u \in Updates, ReadKey(u)
      PROVE  LimitIsAnnounced'
  BY <1>10, SMTT(30) DEF ReadKey
<1>11. ASSUME NEW u \in Updates, SaveKey(u)
      PROVE  LimitIsAnnounced'
  BY <1>11, SMTT(30) DEF SaveKey
<1>12. CASE UNCHANGED vars
  BY <1>12, SMTT(30) DEF vars
<1> QED
  BY <1>1, <1>2, <1>3, <1>4, <1>5, <1>6, <1>7, <1>8, <1>9, <1>10, <1>11,
       <1>12 DEF Next, Step, Edit

-----------------------------------------------------------------------------
\* IInv holds in every reachable state.
THEOREM Invariance == Spec => []IInv
<1>1. Init => IInv
  BY ConstantsAssumption, SMTT(30)
     DEF Init, IInv, TypeOK, ClaimInv, KeptInv, WroteInv, LockInv, DecidedInv,
         EndInv, EditInv, UsageIsCounted, ChargedOnce, ChargedWhole,
         LimitIsAnnounced, Open, InTx, Ends, Rows, Statuses, Charging, Before
<1>2. IInv /\ [Next]_vars => IInv'
  BY TypeStep, ClaimStep, KeptStep, OnceStep, WroteStep, LockStep,
     DecidedStep, EndStep, WholeStep, EditStep, AnnouncedStep DEF IInv
<1> QED
  BY <1>1, <1>2, PTL DEF Spec

\* Type correctness.
THEOREM TypeCorrect == Spec => []TypeOK
<1>1. IInv => TypeOK
  BY DEF IInv
<1> QED
  BY <1>1, Invariance, PTL

\* No request is charged twice, whatever is delivered again and whenever the
\* old ids move to the archive (Apply, claimUsageBillingKey).
THEOREM ChargeOnce == Spec => []ChargedOnce
<1>1. IInv => ChargedOnce
  BY DEF IInv
<1> QED
  BY <1>1, Invariance, PTL

\* A charge reaches all its rows or none (applyUsageBillingEffects).
THEOREM ChargeWhole == Spec => []ChargedWhole
<1>1. IInv => ChargedWhole
  BY DEF IInv
<1> QED
  BY <1>1, Invariance, PTL

\* The answer of Apply is true (claimUsageBillingKey).
THEOREM TrueAnswer == Spec => []AnswerIsTrue
<1>1. IInv => AnswerIsTrue
  BY DEF IInv, TypeOK, EndInv, AnswerIsTrue
<1> QED
  BY <1>1, Invariance, PTL

\* One charge announces an account at its limit, unless the outbox drops its
\* event as a duplicate (incrementUsageBillingAccountQuota).
THEOREM OneAnnouncement == Spec => []LimitIsAnnounced
<1>1. IInv => LimitIsAnnounced
  BY DEF IInv
<1> QED
  BY <1>1, Invariance, PTL

\* Only a stale edit loses usage of the key (Update).
THEOREM UsageKept == Spec => []UsageIsCounted
<1>1. IInv => UsageIsCounted
  BY DEF IInv, EditInv
<1> QED
  BY <1>1, Invariance, PTL

\* A charge that crosses the quota closes the key
\* (incrementUsageBillingAPIKeyQuota).
THEOREM CrossingCloses == Spec => ChargeClosesKey
<1> DEFINE Closes == upc' = upc /\ OverQuota' /\ keyStatus' = "active"
                       => OverQuota /\ keyStatus = "active"
<1>1. IInv /\ [Next]_vars => [Closes]_vars
  <2> SUFFICES ASSUME IInv, [Next]_vars PROVE Closes
    OBVIOUS
  <2> USE ConstantsAssumption DEF IInv, TypeOK, OverQuota
  <2>1. ASSUME NEW c \in Cmds, Commit(c) PROVE Closes
    BY <2>1, SMTT(30) DEF Commit, DecidedInv, KeyCrossing, editVars
  <2>2. ASSUME UNCHANGED keyVars PROVE Closes
    BY <2>2 DEF keyVars
  <2>3. ASSUME NEW u \in Updates, SaveKey(u) PROVE Closes
    <3>1. upc'[u] # upc[u]
      BY <2>3 DEF SaveKey
    <3> QED
      BY <3>1
  <2>4. ASSUME NEW c \in Cmds, Step(c), ~Commit(c) PROVE UNCHANGED keyVars
    BY <2>4 DEF Step, Claim, CompareFingerprint, AskArchive, Effect,
       DeductBalance, IncrementAPIKeyQuota, IncrementAccountQuota, Rollback
  <2>5. ASSUME NEW i \in Ids, Archive(i) PROVE UNCHANGED keyVars
    BY <2>5 DEF Archive
  <2>6. ASSUME NEW u \in Updates, ReadKey(u) PROVE UNCHANGED keyVars
    BY <2>6 DEF ReadKey
  <2>7. CASE UNCHANGED vars
    BY <2>2, <2>7 DEF vars, keyVars
  <2> QED
    BY <2>1, <2>2, <2>3, <2>4, <2>5, <2>6, <2>7 DEF Next, Edit
<1> QED
  BY <1>1, Invariance, PTL DEF Spec, ChargeClosesKey
-----------------------------------------------------------------------------
(* Refinement: the commit is the charge *)

LedgerUnchanged ==
    UNCHANGED <<charged, paid, keyUsed, keyQuota, keyStatus, accountUsed,
                outbox, dropped>>

\* At its commit a transaction has written all rows of the charge, its
\* request is not charged, and what it decided still holds.
LEMMA CommitIsCharge ==
    ASSUME IInv, NEW c \in Cmds, Commit(c)
    PROVE  Ledger!Charge(c)
<1> USE DEF IInv, TypeOK
<1>1. pc[c] = "commit" /\ Open(c) /\ pc[c] \in Charging
  BY DEF Commit, Open, InTx, Charging
<1>2. \A r \in Rows : r \in wrote[c] <=> r \in RowsOf[c]
  BY <1>1, SMTT(30) DEF WroteInv, Before, Rows
<1>3. \A d \in charged : IdOf[d] # IdOf[c]
  <2> SUFFICES ASSUME NEW d \in charged, IdOf[d] = IdOf[c] PROVE FALSE
    OBVIOUS
  <2>1. dedupFp[IdOf[c]] = NoFp /\ archiveFp[IdOf[c]] = NoFp
    BY <1>1 DEF ClaimInv
  <2>2. FpOf[d] \in {dedupFp[IdOf[d]], archiveFp[IdOf[d]]}
    BY DEF KeptInv
  <2> QED
    BY <2>1, <2>2, ConstantsAssumption
<1>4. paid' = [r \in DOMAIN paid |->
                  IF r \in RowsOf[c] THEN paid[r] \cup {c} ELSE paid[r]]
  BY <1>2 DEF Commit
<1>5. IF "key" \in RowsOf[c] THEN Ledger!ChargeKey(c)
      ELSE UNCHANGED <<keyUsed, keyStatus>>
  <2>1. "key" \in wrote[c] <=> "key" \in RowsOf[c]
    BY <1>2 DEF Rows
  <2>2. "close" \in wrote[c] <=> "key" \in wrote[c] /\ KeyCrossing(c)
    BY DEF DecidedInv
  <2> QED
    BY <2>1, <2>2, ConstantsAssumption
       DEF Commit, KeyCrossing, Ledger!ChargeKey, Ledger!Crosses
<1>6. IF "account" \in RowsOf[c] THEN Ledger!ChargeAccount(c)
      ELSE UNCHANGED <<accountUsed, outbox, dropped>>
  <2>1. "account" \in wrote[c] <=> "account" \in RowsOf[c]
    BY <1>2 DEF Rows
  <2>2. /\ "announce" \in wrote[c] \/ "drop" \in wrote[c]
             <=> "account" \in wrote[c] /\ AccountCrossing(c)
        /\ "announce" \notin wrote[c] \/ "drop" \notin wrote[c]
    BY DEF DecidedInv
  <2> QED
    BY <2>1, <2>2, ConstantsAssumption
       DEF Commit, AccountCrossing, Ledger!ChargeAccount, Ledger!Crosses
<1> QED
  BY <1>3, <1>4, <1>5, <1>6 DEF Commit, Ledger!Charge

\* Before the commit and after it nothing of a transaction shows.
LEMMA OtherStepsAreHidden ==
    ASSUME NEW c \in Cmds, Step(c), ~Commit(c)
    PROVE  LedgerUnchanged
BY DEF Step, Claim, CompareFingerprint, AskArchive, Effect, DeductBalance,
       IncrementAPIKeyQuota, IncrementAccountQuota, Rollback, LedgerUnchanged,
       keyVars, accountVars, historyVars

\* Usage billing implements the ledger: its interleaved transactions are
\* serial, in the order of their commits (Apply).
THEOREM LedgerImplemented == Spec => ImplementsBillingLedger
<1>1. Init => Ledger!LedgerInit
  BY DEF Init, Rows, Ledger!LedgerInit
<1>2. IInv /\ [Next]_vars => [Ledger!LedgerNext]_Ledger!ledgerVars
  <2> SUFFICES ASSUME IInv, [Next]_vars
               PROVE  Ledger!LedgerNext \/ LedgerUnchanged
    BY DEF LedgerUnchanged, Ledger!ledgerVars
  <2>1. ASSUME NEW c \in Cmds, Step(c)
        PROVE  Ledger!LedgerNext \/ LedgerUnchanged
    BY <2>1, CommitIsCharge, OtherStepsAreHidden DEF Ledger!LedgerNext
  <2>2. ASSUME NEW i \in Ids, Archive(i)
        PROVE  LedgerUnchanged
    BY <2>2 DEF Archive, LedgerUnchanged, keyVars, accountVars, historyVars
  <2>3. ASSUME NEW u \in Updates, ReadKey(u)
        PROVE  LedgerUnchanged
    BY <2>3 DEF ReadKey, LedgerUnchanged, keyVars, accountVars, historyVars
  <2>4. ASSUME NEW u \in Updates, SaveKey(u)
        PROVE  Ledger!EditKey
    BY <2>4 DEF SaveKey, IInv, TypeOK, Statuses, accountVars, Ledger!EditKey
  <2>5. CASE UNCHANGED vars
    BY <2>5 DEF vars, LedgerUnchanged, keyVars, accountVars, historyVars
  <2> QED
    BY <2>1, <2>2, <2>3, <2>4, <2>5 DEF Next, Edit, Ledger!LedgerNext
<1> QED
  BY <1>1, <1>2, Invariance, PTL
     DEF Spec, ImplementsBillingLedger, Ledger!LedgerSpec
=============================================================================
