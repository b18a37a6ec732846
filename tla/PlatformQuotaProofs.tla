------------------------- MODULE PlatformQuotaProofs -------------------------
(***************************************************************************)
(* Proofs about PlatformQuota for any number of requests and flushers, any *)
(* limits and any bounds.  What a request is about to write to the cache,  *)
(* and a flusher to the row, was read earlier: IInv says of each what of   *)
(* today's charges it lacks.                                               *)
(***************************************************************************)
EXTENDS PlatformQuota, TLAPS

Writing(f) == pc[f] = "write"

\* What a request waits to persist, what a flusher has yet to write.
TaskInv ==
    /\ \A r \in Requests :
          /\ cid[r] # 0 <=> pc[r] \in {"persist", "insert"}
          /\ pc[r] = "set" => got[r] # Nil
    /\ \A f \in Flushers : Writing(f) => got[f] # Nil
    /\ \A f \in old : Writing(f)
    /\ flusherOn => \A r \in Requests : cid[r] = 0
    /\ ~flusherOn => ~dirty /\ \A f \in Flushers : ~Writing(f)

\* No charge is counted before it is made.
NumberInv ==
    /\ spent \subseteq 1 .. charges
    /\ row # Nil => row.used \subseteq 1 .. charges
    /\ entry # Nil => entry.used \subseteq 1 .. charges
    /\ \A p \in Requests \cup Flushers :
          got[p] # Nil => got[p].used \subseteq 1 .. charges
    /\ \A r \in Requests : cid[r] <= charges

\* What an entry, there or about to be written, does not count.
CacheInv ==
    /\ entry # Nil => spent \subseteq UsedToday(entry) \cup missed
    /\ \A r \in Requests :
          pc[r] = "set" =>
             spent \subseteq UsedToday(got[r]) \cup since[r] \cup missed

\* Without the flusher each charge is in the row or about to be put there, and
\* a write of one of today's charges takes the clock for today's.
DirectInv ==
    /\ ~flusherOn =>
          spent \subseteq UsedToday(row) \cup lost \cup {cid[r] : r \in Requests}
    /\ \A r \in Requests : cid[r] \in spent => clock[r] = today

\* With it, a charge that is not in the row is in an entry that is marked, or
\* in a snapshot of one.
FlushInv ==
    flusherOn =>
        /\ missed \subseteq lost
        /\ entry = Nil => spent \subseteq UsedToday(row) \cup lost
        /\ \A i \in spent :
              \/ i \in UsedToday(row) \cup lost
              \/ dirty /\ i \in UsedToday(entry)
              \/ \E f \in Flushers : Writing(f) /\ i \in UsedToday(got[f])
        /\ \A f \in Flushers \ old :
              Writing(f) =>
                 spent \cap UsedToday(row)
                    \subseteq UsedToday(got[f]) \cup lost

\* What is read after a change, and not from what an older value has
\* overwritten, is as the change has left it.
ChangeInv ==
    /\ forgiven \subseteq 1 .. charges
    /\ \A r \in Requests :
          /\ cid[r] \notin forgiven
          /\ pc[r] = "set" /\ r \notin late =>
                /\ got[r].limit = LimitOf(row)
                /\ UsedToday(got[r]) \cap forgiven = {}
    /\ \A f \in Flushers \ late :
          Writing(f) => UsedToday(got[f]) \cap forgiven = {}

IInv ==
    /\ TypeOK
    /\ TaskInv
    /\ NumberInv
    /\ CacheInv
    /\ DirectInv
    /\ FlushInv
    /\ ChangeInv
    /\ ChangeHolds
-----------------------------------------------------------------------------
\* A quota with another usage, of another day.
LEMMA Renewed ==
    ASSUME NEW x \in Quotas, NEW s \in SUBSET Ids, NEW day \in 0 .. MaxDay
    PROVE  LET y == [x EXCEPT !.used = s, !.day = day]
           IN  /\ y \in Quotas /\ y # Nil
               /\ y.used = s /\ y.day = day /\ y.limit = x.limit
BY RowsAssumption DEF Quotas

\* A quota with another usage, of the same day.
LEMMA Recounted ==
    ASSUME NEW x \in Quotas, NEW s \in SUBSET Ids
    PROVE  LET y == [x EXCEPT !.used = s]
           IN  /\ y \in Quotas /\ y # Nil
               /\ y.used = s /\ y.day = x.day /\ y.limit = x.limit
BY RowsAssumption DEF Quotas

\* The row counts a charge that is put into it today, and the charges of its
\* window, if that is not begun again; a write of another day leaves none.
LEMMA AddedCounts ==
    ASSUME TypeOK, row # Nil, NEW i \in Ids, NEW day \in 0 .. MaxDay,
           NEW y, y = Added(row, i, day)
    PROVE  /\ y \in Quotas /\ y # Nil /\ y.limit = row.limit
           /\ y.used \subseteq row.used \cup {i}
           /\ UsedToday(y) \subseteq UsedToday(row) \cup {i}
           /\ day = today /\ ~restarted =>
                 UsedToday(y) = UsedToday(row) \cup {i}
           /\ day = today => i \in UsedToday(y)
<1> DEFINE s == IF row.day # day \/ restarted THEN {i} ELSE row.used \cup {i}
<1>1. row \in Quotas /\ s \in SUBSET Ids
  BY DEF TypeOK, Quotas
<1>2. y = [row EXCEPT !.used = s, !.day = day]
  BY DEF Added
<1>3. /\ y \in Quotas /\ y # Nil
      /\ y.used = s /\ y.day = day /\ y.limit = row.limit
  <2> DEFINE z == [row EXCEPT !.used = s, !.day = day]
  <2>1. z \in Quotas /\ z # Nil /\ z.used = s /\ z.day = day /\ z.limit = row.limit
    <3> HIDE DEF s
    <3> QED
      BY <1>1, RowsAssumption DEF Quotas
  <2> QED
    BY <1>2, <2>1, Zenon
<1>4. UsedToday(y) = IF day = today THEN s ELSE {}
  BY <1>3 DEF UsedToday
<1>5. UsedToday(row) = IF row.day = today THEN row.used ELSE {}
  BY DEF UsedToday
<1> QED
  BY <1>3, <1>4, <1>5

\* A write's clock shows a day from its charge's to today.
LEMMA ClockDay ==
    ASSUME TypeOK, NEW r \in Requests, NEW day \in clock[r] .. today
    PROVE  /\ day \in 0 .. MaxDay
           /\ clock[r] = today => day = today
BY ConstantsAssumption DEF TypeOK

\* Every step keeps the types.
LEMMA TypeStep ==
    ASSUME TypeOK, TaskInv, [Next]_vars PROVE TypeOK'
<1> USE ConstantsAssumption, RowsAssumption
        DEF TypeOK, TaskInv, Writing, Goto, dbVars, cacheVars, readVars,
            taskVars, tallyVars, noteVars
<1>1. ASSUME NEW r \in Requests, CheckHit(r)
      PROVE  TypeOK'
  <2>1. entry # Nil => [entry EXCEPT !.used = {}, !.day = today] \in Quotas
    BY DEF Quotas, Ids
  <2>2. QED
    BY <1>1, <2>1, SMTT(30) DEF CheckHit, Decide, MarkLate, Over
<1>2. ASSUME NEW r \in Requests, CheckMiss(r)
      PROVE  TypeOK'
  BY <1>2, SMTT(30) DEF CheckMiss, Fails
<1>3. ASSUME NEW r \in Requests, LoadRow(r)
      PROVE  TypeOK'
  <2>1. EntryOf(row) \in Quotas
    BY DEF Quotas, Ids, EntryOf
  <2>2. QED
    BY <1>3, <2>1, SMTT(30) DEF LoadRow, MarkLate, Unsaved
<1>4. ASSUME NEW r \in Requests, CheckOnce(r)
      PROVE  TypeOK'
  BY <1>4, SMTT(30) DEF CheckOnce, Decide
<1>5. ASSUME NEW r \in Requests, LoadFails(r)
      PROVE  TypeOK'
  BY <1>5, SMTT(30) DEF LoadFails, Fails
<1>6. ASSUME NEW r \in Requests, SetCache(r)
      PROVE  TypeOK'
  <2>1. stale' \in {stale, stale \cup {"entry"}, stale \ {"entry"}}
    BY <1>6 DEF SetCache
  <2>2. stale' \in SUBSET {"entry", "row"}
    BY <2>1
  <2>3. QED
    BY <1>6, <2>1, <2>2, SMTT(30) DEF SetCache, Decide, Miss, Fails
<1>7. ASSUME NEW r \in Requests, Serve(r)
      PROVE  TypeOK'
  BY <1>7, SMTT(30) DEF Serve
<1>8. ASSUME NEW r \in Requests, Incr(r)
      PROVE  TypeOK'
  <2>1. charges + 1 \in Ids
    BY <1>8 DEF Incr, Ids
  <2>2. entry # Nil =>
           [entry EXCEPT !.used = @ \cup {charges + 1}] \in Quotas
    BY <2>1 DEF Quotas
  <2>3. spent' \in SUBSET Ids /\ since' \in [Requests -> SUBSET Ids]
    BY <1>8, <2>1 DEF Incr
  <2>4. entry' \in Quotas \cup {Nil}
    BY <1>8, <2>2 DEF Incr
  <2>5. cid' \in [Requests -> Ids \cup {0}]
    BY <1>8, <2>1 DEF Incr
  <2>6. missed' \in SUBSET Ids /\ lost' \in SUBSET Ids
    BY <1>8, <2>1 DEF Incr, Miss
  <2>7. clock' \in [Requests -> 0 .. MaxDay]
    BY <1>8 DEF Incr
  <2>8. QED
    BY <1>8, <2>1, <2>2, <2>3, <2>4, <2>5, <2>6, <2>7, SMTT(30)
    DEF Incr, MarkDirty, Miss, Fails
<1>9. ASSUME NEW r \in Requests, Persist(r)
      PROVE  TypeOK'
  <2>1. cid[r] \in Ids
    BY <1>9 DEF Persist
  <2>2. PICK day \in clock[r] .. today :
           \/ /\ row # Nil
              /\ row' = Added(row, cid[r], day)
              /\ restarted' = FALSE
              /\ lost' = IF restarted \/ day # today
                            THEN lost \cup UsedToday(row) ELSE lost
              /\ Charged(r)
           \/ /\ row = Nil
              /\ Goto(r, "insert")
              /\ clock' = [clock EXCEPT ![r] = day]
              /\ UNCHANGED <<row, restarted, lost, cid>>
    BY <1>9 DEF Persist
  <2>3. day \in 0 .. MaxDay
    BY <2>2, ClockDay
  <2>4. row' \in Quotas \cup {Nil}
    BY <2>1, <2>2, <2>3, AddedCounts
  <2>5. row # Nil => UsedToday(row) \in SUBSET Ids
    BY DEF UsedToday, Quotas
  <2>6. lost' \in SUBSET Ids /\ restarted' \in BOOLEAN
    BY <2>2, <2>5
  <2>7. /\ pc' \in [Requests \cup Flushers ->
                      {"idle", "load", "once", "set", "served", "incr",
                       "persist", "insert", "write"}]
        /\ cid' \in [Requests -> Ids \cup {0}]
        /\ clock' \in [Requests -> 0 .. MaxDay]
    BY <2>2, <2>3 DEF Charged
  <2>8. (\A q \in Requests : pc'[q] # "write")
        /\ (\A f \in Flushers : pc'[f] \in {"idle", "write"})
    BY <2>2, <2>7 DEF Charged
  <2>9. QED
    BY <1>9, <2>4, <2>6, <2>7, <2>8 DEF Persist
<1>10. ASSUME NEW r \in Requests, Insert(r)
      PROVE  TypeOK'
  <2>1. cid[r] \in Ids
    BY <1>10 DEF Insert
  <2>2. row' \in Quotas
    BY <1>10, <2>1 DEF Insert, Quotas
  <2>3. clock' \in [Requests -> 0 .. MaxDay]
    BY <1>10 DEF Insert, Charged
  <2>4. QED
    BY <1>10, <2>1, <2>2, <2>3, SMTT(30) DEF Insert, Charged
<1>11. ASSUME NEW r \in Requests, PersistFails(r)
      PROVE  TypeOK'
  BY <1>11, SMTT(30) DEF PersistFails, Fails, Charged
<1>12. ASSUME NEW f \in Flushers, Take(f)
      PROVE  TypeOK'
  <2>1. dirty' \in BOOLEAN
    BY <1>12, Zenon DEF Take
  <2>2. QED
    BY <1>12, <2>1, SMTT(30) DEF Take, MarkLate, Fails, Unsaved
<1>13. ASSUME NEW f \in Flushers, Write(f)
      PROVE  TypeOK'
  <2>1. row' \in Quotas
    BY <1>13 DEF Write, LimitOf, Quotas
  <2>2. UsedToday(row) \in SUBSET Ids
    BY DEF UsedToday, Quotas
  <2>3. QED
    BY <1>13, <2>1, <2>2, SMTT(30) DEF Write, LimitOf, Flushed
<1>14. ASSUME NEW f \in Flushers, WriteFails(f)
      PROVE  TypeOK'
  <2>1. dirty' \in BOOLEAN
    BY <1>14, Zenon DEF WriteFails, Returned
  <2>2. QED
    BY <1>14, <2>1, SMTT(30) DEF WriteFails, Returned, Fails, Flushed, Unsaved
<1>15. ASSUME NEW limit \in Limits, SetLimit(limit)
      PROVE  TypeOK'
  <2>1. row' \in Quotas
    BY <1>15 DEF SetLimit, Change, Quotas
  <2>2. QED
    BY <1>15, <2>1, SMTT(30) DEF SetLimit, Change
<1>16. ASSUME Remove
      PROVE  TypeOK'
  <2>1. row' = Nil /\ restarted' = FALSE
    BY <1>16 DEF Remove, Change
  <2>2. spent' \in SUBSET Ids /\ forgiven' \in SUBSET Ids
    BY <1>16 DEF Remove, Forgive
  <2>3. /\ admin' \in {"idle", "drop"} /\ admins' \in 0 .. MaxAdmin
        /\ late' \in SUBSET (Requests \cup Flushers)
        /\ stale' \in SUBSET {"entry", "row"}
    BY <1>16, SMTT(30) DEF Remove, Change, Forgive
  <2>4. UNCHANGED <<flusherOn, today, entry, dirty, pc, got, since, old, cid, clock,
                    charges, missed, faults, lost>>
    BY <1>16 DEF Remove, Change
  <2>5. QED
    BY <2>1, <2>2, <2>3, <2>4
<1>17. ASSUME Reset
      PROVE  TypeOK'
  <2>1. PICK day \in 0 .. today : row' = [row EXCEPT !.used = {}, !.day = day]
    BY <1>17 DEF Reset, Change
  <2>2. row \in Quotas /\ day \in 0 .. MaxDay
    BY <1>17 DEF Reset
  <2>3. row' \in Quotas
    BY <2>1, <2>2, Renewed DEF Quotas
  <2>4. QED
    BY <1>17, <2>3, SMTT(30) DEF Reset, Change, Forgive
<1>18. ASSUME DropEntry
      PROVE  TypeOK'
  <2>1. stale' \in {stale, stale \cup {"entry"}, stale \ {"entry"}}
    BY <1>18 DEF DropEntry, Vanish
  <2>2. stale' \in SUBSET {"entry", "row"}
    BY <2>1
  <2>3. QED
    BY <1>18, <2>1, <2>2, SMTT(30) DEF DropEntry, Vanish, Fails, Unsaved
<1>19. ASSUME Expire
      PROVE  TypeOK'
  BY <1>19, SMTT(30) DEF Expire, Vanish, Fails, Unsaved
<1>20. ASSUME Midnight
      PROVE  TypeOK'
  BY <1>20, SMTT(30) DEF Midnight
<1>21. ASSUME UNCHANGED vars
      PROVE  TypeOK'
  BY <1>21 DEF vars
<1>22. QED
  BY <1>1, <1>2, <1>3, <1>4, <1>5, <1>6, <1>7, <1>8, <1>9, <1>10, <1>11,
  <1>12, <1>13, <1>14, <1>15, <1>16, <1>17, <1>18, <1>19, <1>20, <1>21 DEF
  Next, Request, Administrator

\* Every step keeps TaskInv.
LEMMA TaskStep ==
    ASSUME TypeOK, TaskInv, [Next]_vars PROVE TaskInv'
<1> USE ConstantsAssumption, RowsAssumption
        DEF TypeOK, TaskInv, Writing, Goto, dbVars, cacheVars, readVars,
            taskVars, tallyVars, noteVars
<1>1. ASSUME NEW r \in Requests, CheckHit(r)
      PROVE  TaskInv'
  <2>1. /\ entry \in Quotas
        /\ [entry EXCEPT !.used = {}, !.day = today] \in Quotas
    BY <1>1 DEF CheckHit, Quotas
  <2>2. QED
    BY <1>1, <2>1, SMTT(30) DEF CheckHit, Decide, MarkLate, Over
<1>2. ASSUME NEW r \in Requests, CheckMiss(r)
      PROVE  TaskInv'
  BY <1>2, SMTT(30) DEF CheckMiss, Fails
<1>3. ASSUME NEW r \in Requests, LoadRow(r)
      PROVE  TaskInv'
  <2>1. EntryOf(row) \in Quotas
    BY DEF Quotas, Ids, EntryOf
  <2>2. QED
    BY <1>3, <2>1, SMTT(30) DEF LoadRow, MarkLate, Unsaved
<1>4. ASSUME NEW r \in Requests, CheckOnce(r)
      PROVE  TaskInv'
  BY <1>4, SMTT(30) DEF CheckOnce, Decide
<1>5. ASSUME NEW r \in Requests, LoadFails(r)
      PROVE  TaskInv'
  BY <1>5, SMTT(30) DEF LoadFails, Fails
<1>6. ASSUME NEW r \in Requests, SetCache(r)
      PROVE  TaskInv'
  BY <1>6, SMTT(30) DEF SetCache, Decide, Miss, Fails
<1>7. ASSUME NEW r \in Requests, Serve(r)
      PROVE  TaskInv'
  BY <1>7, SMTT(30) DEF Serve
<1>8. ASSUME NEW r \in Requests, Incr(r)
      PROVE  TaskInv'
  BY <1>8, SMTT(30) DEF Incr, MarkDirty, Miss, Fails, Ids
<1>9. ASSUME NEW r \in Requests, Persist(r)
      PROVE  TaskInv'
  BY <1>9, SMTT(30) DEF Persist, Added, Over, Charged
<1>10. ASSUME NEW r \in Requests, Insert(r)
      PROVE  TaskInv'
  BY <1>10, SMTT(30) DEF Insert, Charged
<1>11. ASSUME NEW r \in Requests, PersistFails(r)
      PROVE  TaskInv'
  BY <1>11, SMTT(30) DEF PersistFails, Fails, Charged
<1>12. ASSUME NEW f \in Flushers, Take(f)
      PROVE  TaskInv'
  BY <1>12, SMTT(30) DEF Take, MarkLate, Fails, Unsaved
<1>13. ASSUME NEW f \in Flushers, Write(f)
      PROVE  TaskInv'
  BY <1>13, SMTT(30) DEF Write, LimitOf, Flushed
<1>14. ASSUME NEW f \in Flushers, WriteFails(f)
      PROVE  TaskInv'
  BY <1>14, SMTT(30) DEF WriteFails, Returned, Fails, Flushed, Unsaved
<1>15. ASSUME NEW limit \in Limits, SetLimit(limit)
      PROVE  TaskInv'
  BY <1>15, SMTT(30) DEF SetLimit, Change
<1>16. ASSUME Remove
      PROVE  TaskInv'
  BY <1>16, SMTT(30) DEF Remove, Change, Forgive
<1>17. ASSUME Reset
      PROVE  TaskInv'
  BY <1>17, SMTT(30) DEF Reset, Change, Forgive
<1>18. ASSUME DropEntry
      PROVE  TaskInv'
  BY <1>18, SMTT(30) DEF DropEntry, Vanish, Fails, Unsaved
<1>19. ASSUME Expire
      PROVE  TaskInv'
  BY <1>19, SMTT(30) DEF Expire, Vanish, Fails, Unsaved
<1>20. ASSUME Midnight
      PROVE  TaskInv'
  BY <1>20, SMTT(30) DEF Midnight
<1>21. ASSUME UNCHANGED vars
      PROVE  TaskInv'
  BY <1>21 DEF vars
<1>22. QED
  BY <1>1, <1>2, <1>3, <1>4, <1>5, <1>6, <1>7, <1>8, <1>9, <1>10, <1>11,
  <1>12, <1>13, <1>14, <1>15, <1>16, <1>17, <1>18, <1>19, <1>20, <1>21 DEF
  Next, Request, Administrator

\* Every step keeps NumberInv.
LEMMA NumberStep ==
    ASSUME TypeOK, TaskInv, NumberInv, [Next]_vars PROVE NumberInv'
<1> USE ConstantsAssumption, RowsAssumption
        DEF TypeOK, TaskInv, NumberInv, Writing, Ids, Quotas, Goto, dbVars,
            cacheVars, readVars, taskVars, tallyVars, noteVars
<1>1. ASSUME NEW r \in Requests, CheckHit(r)
      PROVE  NumberInv'
  <2>1. entry # Nil => [entry EXCEPT !.used = {}, !.day = today].used = {}
    OBVIOUS
  <2>2. got' = got \/ \E x : x.used = {} /\ got' = [got EXCEPT ![r] = x]
    BY <1>1, <2>1 DEF CheckHit
  <2>3. QED
    BY <1>1, <2>1, <2>2, SMTT(30) DEF CheckHit
<1>2. ASSUME NEW r \in Requests, CheckMiss(r)
      PROVE  NumberInv'
  BY <1>2, SMTT(30) DEF CheckMiss, Fails
<1>3. ASSUME NEW r \in Requests, LoadRow(r)
      PROVE  NumberInv'
  BY <1>3, SMTT(30) DEF LoadRow, EntryOf, Over, MarkLate, Unsaved
<1>4. ASSUME NEW r \in Requests, CheckOnce(r)
      PROVE  NumberInv'
  BY <1>4, SMTT(30) DEF CheckOnce, Decide
<1>5. ASSUME NEW r \in Requests, LoadFails(r)
      PROVE  NumberInv'
  BY <1>5, SMTT(30) DEF LoadFails, Fails
<1>6. ASSUME NEW r \in Requests, SetCache(r)
      PROVE  NumberInv'
  BY <1>6, SMTT(30) DEF SetCache, Decide, Miss, Fails
<1>7. ASSUME NEW r \in Requests, Serve(r)
      PROVE  NumberInv'
  BY <1>7, SMTT(30) DEF Serve
<1>8. ASSUME NEW r \in Requests, Incr(r)
      PROVE  NumberInv'
  BY <1>8, SMTT(30) DEF Incr, MarkDirty, Miss, Fails
<1>9. ASSUME NEW r \in Requests, Persist(r)
      PROVE  NumberInv'
  <2>1. cid[r] \in 1 .. charges
    BY <1>9 DEF Persist
  <2>2. ASSUME NEW day \in clock[r] .. today, row # Nil,
               row' = Added(row, cid[r], day)
        PROVE  row'.used \subseteq row.used \cup {cid[r]}
    <3>1. day \in 0 .. MaxDay /\ cid[r] \in Ids
      BY <2>1, ClockDay
    <3>2. QED
      BY <2>2, <3>1, AddedCounts
  <2>3. row' # Nil => row'.used \subseteq 1 .. charges
    <3>1. CASE row # Nil
      BY <1>9, <2>1, <2>2, <3>1 DEF Persist
    <3>2. CASE row = Nil
      BY <1>9, <3>2 DEF Persist
    <3>3. QED
      BY <3>1, <3>2
  <2>4. \A q \in Requests : cid'[q] \in {0, cid[q]}
    BY <1>9 DEF Persist, Charged
  <2>5. UNCHANGED <<spent, entry, got, charges>>
    BY <1>9 DEF Persist
  <2>6. QED
    BY <2>3, <2>4, <2>5
<1>10. ASSUME NEW r \in Requests, Insert(r)
      PROVE  NumberInv'
  <2>1. cid[r] \in 1 .. charges
    BY <1>10 DEF Insert
  <2>2. QED
    BY <1>10, <2>1, SMTT(30) DEF Insert, Charged
<1>11. ASSUME NEW r \in Requests, PersistFails(r)
      PROVE  NumberInv'
  BY <1>11, SMTT(30) DEF PersistFails, Fails, Charged
<1>12. ASSUME NEW f \in Flushers, Take(f)
      PROVE  NumberInv'
  BY <1>12, SMTT(30) DEF Take, MarkLate, Fails, Unsaved
<1>13. ASSUME NEW f \in Flushers, Write(f)
      PROVE  NumberInv'
  BY <1>13, SMTT(30) DEF Write, LimitOf, Flushed
<1>14. ASSUME NEW f \in Flushers, WriteFails(f)
      PROVE  NumberInv'
  BY <1>14, SMTT(30) DEF WriteFails, Returned, Fails, Flushed, Unsaved
<1>15. ASSUME NEW limit \in Limits, SetLimit(limit)
      PROVE  NumberInv'
  BY <1>15, SMTT(30) DEF SetLimit, Change
<1>16. ASSUME Remove
      PROVE  NumberInv'
  BY <1>16, SMTT(30) DEF Remove, Change, Forgive
<1>17. ASSUME Reset
      PROVE  NumberInv'
  BY <1>17, SMTT(30) DEF Reset, Change, Forgive
<1>18. ASSUME DropEntry
      PROVE  NumberInv'
  BY <1>18, SMTT(30) DEF DropEntry, Vanish, Fails, Unsaved
<1>19. ASSUME Expire
      PROVE  NumberInv'
  BY <1>19, SMTT(30) DEF Expire, Vanish, Fails, Unsaved
<1>20. ASSUME Midnight
      PROVE  NumberInv'
  BY <1>20, SMTT(30) DEF Midnight
<1>21. ASSUME UNCHANGED vars
      PROVE  NumberInv'
  BY <1>21 DEF vars
<1>22. QED
  BY <1>1, <1>2, <1>3, <1>4, <1>5, <1>6, <1>7, <1>8, <1>9, <1>10, <1>11,
  <1>12, <1>13, <1>14, <1>15, <1>16, <1>17, <1>18, <1>19, <1>20, <1>21 DEF
  Next, Request, Administrator

\* Every step keeps CacheInv.
LEMMA CacheStep ==
    ASSUME TypeOK, TaskInv, CacheInv, [Next]_vars PROVE CacheInv'
<1> USE ConstantsAssumption, RowsAssumption
        DEF TypeOK, TaskInv, CacheInv, UsedToday, Quotas, Goto, dbVars,
            cacheVars, readVars, taskVars, tallyVars, noteVars
<1>1. ASSUME NEW r \in Requests, CheckHit(r)
      PROVE  CacheInv'
  BY <1>1, SMTT(30) DEF CheckHit, Decide, MarkLate, Over
<1>2. ASSUME NEW r \in Requests, CheckMiss(r)
      PROVE  CacheInv'
  BY <1>2, SMTT(30) DEF CheckMiss, Fails
<1>3. ASSUME NEW r \in Requests, LoadRow(r)
      PROVE  CacheInv'
  BY <1>3, SMTT(30) DEF LoadRow, EntryOf, Over, MarkLate, Unsaved
<1>4. ASSUME NEW r \in Requests, CheckOnce(r)
      PROVE  CacheInv'
  BY <1>4, SMTT(30) DEF CheckOnce, Decide
<1>5. ASSUME NEW r \in Requests, LoadFails(r)
      PROVE  CacheInv'
  BY <1>5, SMTT(30) DEF LoadFails, Fails
<1>6. ASSUME NEW r \in Requests, SetCache(r)
      PROVE  CacheInv'
  BY <1>6, SMTT(30) DEF SetCache, Decide, Miss, Fails
<1>7. ASSUME NEW r \in Requests, Serve(r)
      PROVE  CacheInv'
  BY <1>7, SMTT(30) DEF Serve
<1>8. ASSUME NEW r \in Requests, Incr(r)
      PROVE  CacheInv'
  BY <1>8, SMTT(30) DEF Incr, MarkDirty, Miss, Fails
<1>9. ASSUME NEW r \in Requests, Persist(r)
      PROVE  CacheInv'
  BY <1>9, SMTT(30) DEF Persist, Added, Over, Charged
<1>10. ASSUME NEW r \in Requests, Insert(r)
      PROVE  CacheInv'
  BY <1>10, SMTT(30) DEF Insert, Charged
<1>11. ASSUME NEW r \in Requests, PersistFails(r)
      PROVE  CacheInv'
  BY <1>11, SMTT(30) DEF PersistFails, Fails, Charged
<1>12. ASSUME NEW f \in Flushers, Take(f)
      PROVE  CacheInv'
  BY <1>12, SMTT(30) DEF Take, MarkLate, Fails, Unsaved
<1>13. ASSUME NEW f \in Flushers, Write(f)
      PROVE  CacheInv'
  BY <1>13, SMTT(30) DEF Write, LimitOf, Flushed
<1>14. ASSUME NEW f \in Flushers, WriteFails(f)
      PROVE  CacheInv'
  BY <1>14, SMTT(30) DEF WriteFails, Returned, Fails, Flushed, Unsaved
<1>15. ASSUME NEW limit \in Limits, SetLimit(limit)
      PROVE  CacheInv'
  BY <1>15, SMTT(30) DEF SetLimit, Change
<1>16. ASSUME Remove
      PROVE  CacheInv'
  BY <1>16, SMTT(30) DEF Remove, Change, Forgive
<1>17. ASSUME Reset
      PROVE  CacheInv'
  BY <1>17, SMTT(30) DEF Reset, Change, Forgive
<1>18. ASSUME DropEntry
      PROVE  CacheInv'
  BY <1>18, SMTT(30) DEF DropEntry, Vanish, Fails, Unsaved
<1>19. ASSUME Expire
      PROVE  CacheInv'
  BY <1>19, SMTT(30) DEF Expire, Vanish, Fails, Unsaved
<1>20. ASSUME Midnight
      PROVE  CacheInv'
  BY <1>20, SMTT(30) DEF Midnight
<1>21. ASSUME UNCHANGED vars
      PROVE  CacheInv'
  BY <1>21 DEF vars
<1>22. QED
  BY <1>1, <1>2, <1>3, <1>4, <1>5, <1>6, <1>7, <1>8, <1>9, <1>10, <1>11,
  <1>12, <1>13, <1>14, <1>15, <1>16, <1>17, <1>18, <1>19, <1>20, <1>21 DEF
  Next, Request, Administrator

\* A new limit leaves the usage alone.
LEMMA LimitKeepsUsage ==
    ASSUME TypeOK, NEW limit \in Limits, SetLimit(limit)
    PROVE  UsedToday(row') = UsedToday(row)
<1>1. CASE row = Nil
  BY <1>1, ConstantsAssumption DEF SetLimit, Change, UsedToday, TypeOK
<1>2. CASE row # Nil
  <2>1. row \in Quotas
    BY <1>2 DEF TypeOK
  <2>2. row' = [row EXCEPT !.limit = limit]
    BY <1>2 DEF SetLimit, Change
  <2>3. row' \in Quotas
    BY <2>1, <2>2 DEF Quotas
  <2>4. row'.used = row.used /\ row'.day = row.day
    BY <2>1, <2>2 DEF Quotas
  <2>5. row' # Nil
    BY <2>3, RowsAssumption
  <2>6. QED
    BY <1>2, <2>4, <2>5 DEF UsedToday
<1>3. QED
  BY <1>1, <1>2

\* Every step keeps DirectInv.
LEMMA DirectStep ==
    ASSUME TypeOK, TaskInv, NumberInv, DirectInv, [Next]_vars
    PROVE  DirectInv'
<1> USE ConstantsAssumption, RowsAssumption
        DEF TypeOK, TaskInv, DirectInv, UsedToday, Writing, Ids, Goto, dbVars,
            cacheVars, readVars, taskVars, tallyVars, noteVars
<1>1. ASSUME NEW r \in Requests, CheckHit(r)
      PROVE  DirectInv'
  BY <1>1, SMTT(30) DEF CheckHit, Decide, MarkLate, Over
<1>2. ASSUME NEW r \in Requests, CheckMiss(r)
      PROVE  DirectInv'
  BY <1>2, SMTT(30) DEF CheckMiss, Fails
<1>3. ASSUME NEW r \in Requests, LoadRow(r)
      PROVE  DirectInv'
  BY <1>3, SMTT(30) DEF LoadRow, EntryOf, Over, MarkLate, Unsaved
<1>4. ASSUME NEW r \in Requests, CheckOnce(r)
      PROVE  DirectInv'
  BY <1>4, SMTT(30) DEF CheckOnce, Decide
<1>5. ASSUME NEW r \in Requests, LoadFails(r)
      PROVE  DirectInv'
  BY <1>5, SMTT(30) DEF LoadFails, Fails
<1>6. ASSUME NEW r \in Requests, SetCache(r)
      PROVE  DirectInv'
  BY <1>6, SMTT(30) DEF SetCache, Decide, Miss, Fails
<1>7. ASSUME NEW r \in Requests, Serve(r)
      PROVE  DirectInv'
  BY <1>7, SMTT(30) DEF Serve
<1>8. ASSUME NEW r \in Requests, Incr(r)
      PROVE  DirectInv'
  <2>1. /\ UNCHANGED <<flusherOn, today, row>> /\ lost \subseteq lost'
        /\ spent' = spent \cup {charges + 1}
    BY <1>8 DEF Incr, Miss
  <2>2. \A q \in Requests : cid[q] # charges + 1
    BY DEF NumberInv
  <2>3. CASE flusherOn
    BY <1>8, <2>1, <2>2, <2>3 DEF Incr
  <2>4. CASE ~flusherOn
    <3>1. /\ cid' = [cid EXCEPT ![r] = charges + 1]
          /\ clock' = [clock EXCEPT ![r] = today]
          /\ cid[r] = 0
      BY <1>8, <2>4 DEF Incr
    <3>2. \A q \in Requests : cid'[q] \in spent' => clock'[q] = today'
      BY <2>1, <2>2, <3>1
    <3>3. {cid[q] : q \in Requests} \cap spent
             \subseteq {cid'[q] : q \in Requests}
      BY <3>1
    <3>4. charges + 1 \in {cid'[q] : q \in Requests}
      BY <3>1
    <3>5. QED
      BY <2>1, <2>4, <3>2, <3>3, <3>4
  <2>5. QED
    BY <2>3, <2>4
<1>9. ASSUME NEW r \in Requests, Persist(r)
      PROVE  DirectInv'
  <2>1. cid[r] \in Ids
    BY <1>9 DEF Persist
  <2>2. PICK day \in clock[r] .. today :
           \/ /\ row # Nil
              /\ row' = Added(row, cid[r], day)
              /\ restarted' = FALSE
              /\ lost' = IF restarted \/ day # today
                            THEN lost \cup UsedToday(row) ELSE lost
              /\ Charged(r)
           \/ /\ row = Nil
              /\ Goto(r, "insert")
              /\ clock' = [clock EXCEPT ![r] = day]
              /\ UNCHANGED <<row, restarted, lost, cid>>
    BY <1>9 DEF Persist
  <2>3. day \in 0 .. MaxDay /\ (cid[r] \in spent => day = today)
    BY <2>2, ClockDay
  <2>4. UNCHANGED <<flusherOn, today, spent>>
    BY <1>9 DEF Persist
  <2>5. CASE row # Nil
    <3>1. /\ row' = Added(row, cid[r], day)
          /\ lost' = IF restarted \/ day # today
                        THEN lost \cup UsedToday(row) ELSE lost
          /\ cid' = [cid EXCEPT ![r] = 0] /\ clock' = [clock EXCEPT ![r] = 0]
      BY <2>2, <2>5 DEF Charged
    <3>2. UsedToday(row)' = UsedToday(row')
      BY <2>4 DEF UsedToday
    <3>3. UsedToday(row) \subseteq UsedToday(row)' \cup lost'
      <4>1. CASE restarted \/ day # today
        BY <3>1, <4>1
      <4>2. CASE ~restarted /\ day = today
        <5>1. UsedToday(row') = UsedToday(row) \cup {cid[r]}
          BY <2>1, <2>3, <2>5, <3>1, <4>2, AddedCounts
        <5>2. QED
          BY <3>2, <5>1
      <4>3. QED
        BY <4>1, <4>2
    <3>4. cid[r] \in spent => cid[r] \in UsedToday(row)'
      BY <2>1, <2>3, <2>5, <3>1, <3>2, AddedCounts
    <3>5. lost \subseteq lost'
      BY <3>1
    <3>6. {cid[q] : q \in Requests}
            \subseteq {cid'[q] : q \in Requests} \cup {cid[r]}
      BY <3>1
    <3>7. ~flusherOn' => spent' \subseteq UsedToday(row)' \cup lost'
                                          \cup {cid'[q] : q \in Requests}
      <4> HIDE DEF UsedToday
      <4> QED
        BY <2>4, <3>3, <3>4, <3>5, <3>6
    <3>8. \A q \in Requests : cid'[q] \in spent' => clock'[q] = today'
      <4>1. 0 \notin spent
        OBVIOUS
      <4>2. QED
        BY <2>4, <3>1, <4>1
    <3>9. QED
      BY <3>7, <3>8
  <2>6. CASE row = Nil
    <3>1. clock' = [clock EXCEPT ![r] = day] /\ UNCHANGED <<row, lost, cid>>
      BY <2>2, <2>6
    <3>2. \A q \in Requests : cid'[q] \in spent' => clock'[q] = today'
      BY <2>3, <2>4, <3>1
    <3>3. QED
      BY <2>4, <3>1, <3>2
  <2>7. QED
    BY <2>5, <2>6
<1>10. ASSUME NEW r \in Requests, Insert(r)
      PROVE  DirectInv'
  <2>1. {cid[q] : q \in Requests}
          \subseteq {cid'[q] : q \in Requests} \cup {cid[r]}
    BY <1>10 DEF Insert, Charged
  <2>2. spent \cap (UsedToday(row) \cup {cid[r]}) \subseteq UsedToday(row)' \cup lost'
    <3>1. CASE row = Nil
      <4>1. row' = [limit |-> NoLimit, used |-> {cid[r]}, day |-> clock[r]]
        BY <1>10, <3>1 DEF Insert
      <4>2. row' # Nil
        BY <1>10, <4>1, RowsAssumption DEF Insert, Quotas
      <4>3. QED
        BY <1>10, <3>1, <4>1, <4>2 DEF Insert
    <3>2. CASE row # Nil
      <4>1. row \in Quotas
        BY <3>2
      <4>2. row' = [row EXCEPT !.used = @ \cup {cid[r]}]
        BY <1>10, <3>2 DEF Insert
      <4>3. /\ row'.used = row.used \cup {cid[r]} /\ row'.day = row.day
            /\ row' # Nil
        <5>1. row' \in Quotas
          BY <1>10, <4>1, <4>2 DEF Insert, Quotas
        <5>2. QED
          BY <4>1, <4>2, <5>1, RowsAssumption DEF Quotas
      <4>4. QED
        BY <1>10, <3>2, <4>3 DEF Insert
    <3>3. QED
      BY <3>1, <3>2
  <2>3. \A q \in Requests : cid'[q] \in spent' => clock'[q] = today'
    BY <1>10 DEF Insert, Charged
  <2>4. QED
    BY <1>10, <2>1, <2>2, <2>3 DEF Insert
<1>11. ASSUME NEW r \in Requests, PersistFails(r)
      PROVE  DirectInv'
  BY <1>11, SMTT(30) DEF PersistFails, Fails, Charged
<1>12. ASSUME NEW f \in Flushers, Take(f)
      PROVE  DirectInv'
  BY <1>12, SMTT(30) DEF Take, MarkLate, Fails, Unsaved
<1>13. ASSUME NEW f \in Flushers, Write(f)
      PROVE  DirectInv'
  BY <1>13, SMTT(30) DEF Write, LimitOf, Flushed
<1>14. ASSUME NEW f \in Flushers, WriteFails(f)
      PROVE  DirectInv'
  BY <1>14, SMTT(30) DEF WriteFails, Returned, Fails, Flushed, Unsaved
<1>15. ASSUME NEW limit \in Limits, SetLimit(limit)
      PROVE  DirectInv'
  <2>1. UsedToday(row)' = UsedToday(row)
    BY <1>15, LimitKeepsUsage DEF SetLimit, Change
  <2>2. QED
    BY <1>15, <2>1, SMTT(30) DEF SetLimit, Change
<1>16. ASSUME Remove
      PROVE  DirectInv'
  BY <1>16, SMTT(30) DEF Remove, Change, Forgive
<1>17. ASSUME Reset
      PROVE  DirectInv'
  BY <1>17, SMTT(30) DEF Reset, Change, Forgive
<1>18. ASSUME DropEntry
      PROVE  DirectInv'
  BY <1>18, SMTT(30) DEF DropEntry, Vanish, Fails, Unsaved
<1>19. ASSUME Expire
      PROVE  DirectInv'
  BY <1>19, SMTT(30) DEF Expire, Vanish, Fails, Unsaved
<1>20. ASSUME Midnight
      PROVE  DirectInv'
  BY <1>20, SMTT(30) DEF Midnight
<1>21. ASSUME UNCHANGED vars
      PROVE  DirectInv'
  BY <1>21 DEF vars
<1>22. QED
  BY <1>1, <1>2, <1>3, <1>4, <1>5, <1>6, <1>7, <1>8, <1>9, <1>10, <1>11,
  <1>12, <1>13, <1>14, <1>15, <1>16, <1>17, <1>18, <1>19, <1>20, <1>21 DEF
  Next, Request, Administrator

\* Every step keeps FlushInv.
LEMMA FlushStep ==
    ASSUME TypeOK, TaskInv, NumberInv, CacheInv, FlushInv,
           [Next]_vars PROVE FlushInv'
<1> USE ConstantsAssumption, RowsAssumption
        DEF TypeOK, TaskInv, NumberInv, CacheInv, FlushInv, UsedToday, Writing,
            Ids, Goto, dbVars, cacheVars, readVars, taskVars, tallyVars, noteVars
<1>1. ASSUME NEW r \in Requests, CheckHit(r)
      PROVE  FlushInv'
  BY <1>1, SMTT(30) DEF CheckHit, Decide, MarkLate, Over
<1>2. ASSUME NEW r \in Requests, CheckMiss(r)
      PROVE  FlushInv'
  BY <1>2, SMTT(30) DEF CheckMiss, Fails
<1>3. ASSUME NEW r \in Requests, LoadRow(r)
      PROVE  FlushInv'
  BY <1>3, SMTT(30) DEF LoadRow, EntryOf, Over, MarkLate, Unsaved
<1>4. ASSUME NEW r \in Requests, CheckOnce(r)
      PROVE  FlushInv'
  BY <1>4, SMTT(30) DEF CheckOnce, Decide
<1>5. ASSUME NEW r \in Requests, LoadFails(r)
      PROVE  FlushInv'
  BY <1>5, SMTT(30) DEF LoadFails, Fails
<1>6. ASSUME NEW r \in Requests, SetCache(r)
      PROVE  FlushInv'
  <2>1. CASE entry' = entry /\ UNCHANGED noteVars
    BY <1>6, <2>1, SMTT(30) DEF SetCache, Decide
  <2>2. CASE entry' = got[r] /\ Miss(since[r])
    <3>1. ASSUME flusherOn
          PROVE  /\ spent \subseteq UsedToday(entry') \cup lost'
                 /\ missed' \subseteq lost'
      BY <1>6, <2>2, <3>1 DEF SetCache, Miss
    <3>2. \A f \in Flushers : got'[f] = got[f] /\ pc'[f] = pc[f]
      BY <1>6 DEF SetCache, Decide
    <3>3. entry' # Nil
      BY <1>6, <2>2 DEF SetCache
    <3>4. lost \subseteq lost'
      BY <2>2 DEF Miss
    <3>5. UNCHANGED <<flusherOn, today, row, dirty, spent, old>>
      BY <1>6 DEF SetCache
    <3>6. QED
      BY <3>1, <3>2, <3>3, <3>4, <3>5, SMTT(30)
  <2>3. QED
    BY <1>6, <2>1, <2>2 DEF SetCache
<1>7. ASSUME NEW r \in Requests, Serve(r)
      PROVE  FlushInv'
  BY <1>7, SMTT(30) DEF Serve
<1>8. ASSUME NEW r \in Requests, Incr(r)
      PROVE  FlushInv'
  <2> DEFINE id == charges + 1
  <2>1. id \notin UsedToday(row)
    BY DEF NumberInv
  <2>2. \A f \in Flushers : got'[f] = got[f] /\ pc'[f] = pc[f]
    BY <1>8 DEF Incr
  <2>3. /\ UNCHANGED <<flusherOn, today, row, old>>
        /\ spent' = spent \cup {id}
    BY <1>8 DEF Incr
  <2>4. CASE /\ entry # Nil /\ entry.day = today
             /\ entry' = [entry EXCEPT !.used = @ \cup {id}]
             /\ MarkDirty /\ UNCHANGED <<missed, lost>>
    <3>1. UsedToday(entry)' = UsedToday(entry) \cup {id}
      <4>1. entry \in Quotas /\ id \in Ids
        BY <1>8, <2>4 DEF Incr
      <4>2. entry' \in Quotas
        BY <2>4, <4>1 DEF Quotas
      <4>3. entry'.used = entry.used \cup {id} /\ entry'.day = entry.day
        BY <2>4, <4>1 DEF Quotas
      <4>4. QED
        BY <2>3, <2>4, <4>2, <4>3, RowsAssumption
    <3>2. flusherOn => dirty'
      BY <2>4 DEF MarkDirty
    <3>3. entry' # Nil
      BY <3>1, <2>3, <2>4
    <3>4. QED
      BY <2>1, <2>2, <2>3, <2>4, <3>1, <3>2, <3>3, SMTT(30)
  <2>5. CASE /\ Miss({id}) /\ (dirty => dirty')
             /\ entry' = Nil <=> entry = Nil
             /\ UsedToday(entry)' = UsedToday(entry)
    BY <2>1, <2>2, <2>3, <2>5, SMTT(30) DEF Miss
  <2>6. CASE Miss({id}) /\ UNCHANGED cacheVars
    BY <2>3, <2>5, <2>6
  <2>7. CASE entry = Nil /\ entry' = Nil /\ MarkDirty /\ Miss({id})
    BY <2>3, <2>5, <2>7 DEF MarkDirty
  <2>8. CASE /\ entry # Nil /\ entry.day # today
             /\ entry' = [entry EXCEPT !.used = @ \cup {id}]
             /\ MarkDirty /\ Miss({id})
    <3>1. entry \in Quotas /\ id \in Ids
      BY <1>8, <2>8 DEF Incr
    <3>2. entry' \in Quotas /\ entry'.day = entry.day
      BY <2>8, <3>1 DEF Quotas
    <3>3. QED
      BY <2>3, <2>5, <2>8, <3>2, RowsAssumption DEF MarkDirty
  <2>9. QED
    BY <1>8, <2>4, <2>6, <2>7, <2>8 DEF Incr
<1>9. ASSUME NEW r \in Requests, Persist(r)
      PROVE  FlushInv'
  BY <1>9, SMTT(30) DEF Persist, Added, Over, Charged
<1>10. ASSUME NEW r \in Requests, Insert(r)
      PROVE  FlushInv'
  BY <1>10, SMTT(30) DEF Insert, Charged
<1>11. ASSUME NEW r \in Requests, PersistFails(r)
      PROVE  FlushInv'
  BY <1>11, SMTT(30) DEF PersistFails, Fails, Charged
<1>12. ASSUME NEW f \in Flushers, Take(f)
      PROVE  FlushInv'
  BY <1>12, SMTT(30) DEF Take, MarkLate, Fails, Unsaved
<1>13. ASSUME NEW f \in Flushers, Write(f)
      PROVE  FlushInv'
  <2> SUFFICES ASSUME flusherOn
               PROVE  FlushInv'
    BY <1>13 DEF Write
  <2>1. UsedToday(row)' = UsedToday(got[f])
    <3>1. row' # Nil
      <4>1. row' \in Quotas
        BY <1>13 DEF Write, LimitOf, Quotas
      <4>2. QED
        BY <4>1, RowsAssumption
    <3>2. QED
      BY <1>13, <3>1 DEF Write
  <2>2. UNCHANGED <<flusherOn, today, entry, dirty, missed, spent>>
    BY <1>13 DEF Write
  <2>3. /\ lost \subseteq lost'
        /\ spent \cap UsedToday(row) \subseteq UsedToday(got[f]) \cup lost'
    BY <1>13 DEF Write
  <2>4. \A g \in Flushers \ {f} : got'[g] = got[g] /\ pc'[g] = pc[g]
    BY <1>13 DEF Write, Flushed
  <2>5. pc'[f] = "idle"
    BY <1>13 DEF Write, Flushed
  <2>6. \A g \in Flushers \ old' : ~Writing(g)'
    BY <1>13, <2>4, <2>5 DEF Write
  <2>7. QED
    BY <2>1, <2>2, <2>3, <2>4, <2>5, <2>6, SMTT(30)
<1>14. ASSUME NEW f \in Flushers, WriteFails(f)
      PROVE  FlushInv'
  BY <1>14, SMTT(30) DEF WriteFails, Returned, Fails, Flushed, Unsaved
<1>15. ASSUME NEW limit \in Limits, SetLimit(limit)
      PROVE  FlushInv'
  <2>1. UsedToday(row)' = UsedToday(row)
    BY <1>15, LimitKeepsUsage DEF SetLimit, Change
  <2>2. QED
    BY <1>15, <2>1, SMTT(30) DEF SetLimit, Change
<1>16. ASSUME Remove
      PROVE  FlushInv'
  BY <1>16, SMTT(30) DEF Remove, Change, Forgive
<1>17. ASSUME Reset
      PROVE  FlushInv'
  BY <1>17, SMTT(30) DEF Reset, Change, Forgive
<1>18. ASSUME DropEntry
      PROVE  FlushInv'
  BY <1>18, SMTT(30) DEF DropEntry, Vanish, Fails, Unsaved
<1>19. ASSUME Expire
      PROVE  FlushInv'
  BY <1>19, SMTT(30) DEF Expire, Vanish, Fails, Unsaved
<1>20. ASSUME Midnight
      PROVE  FlushInv'
  BY <1>20, SMTT(30) DEF Midnight
<1>21. ASSUME UNCHANGED vars
      PROVE  FlushInv'
  BY <1>21 DEF vars
<1>22. QED
  BY <1>1, <1>2, <1>3, <1>4, <1>5, <1>6, <1>7, <1>8, <1>9, <1>10, <1>11,
  <1>12, <1>13, <1>14, <1>15, <1>16, <1>17, <1>18, <1>19, <1>20, <1>21 DEF
  Next, Request, Administrator

\* Every step keeps ChangeInv and ChangeHolds.
LEMMA ChangeStep ==
    ASSUME TypeOK, TaskInv, NumberInv, ChangeInv, ChangeHolds,
           [Next]_vars PROVE ChangeInv' /\ ChangeHolds'
<1> USE ConstantsAssumption, RowsAssumption
        DEF TypeOK, TaskInv, NumberInv, ChangeInv, ChangeHolds, UsedToday,
            Writing, Ids, LimitOf, Goto, dbVars, cacheVars, readVars,
            taskVars, tallyVars, noteVars
<1>1. ASSUME NEW r \in Requests, CheckHit(r)
      PROVE  ChangeInv' /\ ChangeHolds'
  <2>1. /\ UNCHANGED <<today, row, entry, admin, stale, forgiven, cid,
                       charges>>
        /\ entry # Nil
    BY <1>1 DEF CheckHit
  <2>2. CASE pc'[r] # "set" /\ UNCHANGED <<got, late>>
    BY <1>1, <2>1, <2>2, SMTT(30) DEF CheckHit, Decide
  <2>3. CASE /\ got' = [got EXCEPT ![r] = [entry EXCEPT !.used = {},
                                                        !.day = today]]
             /\ MarkLate(r, admin = "drop" \/ "entry" \in stale)
    <3> DEFINE e == [entry EXCEPT !.used = {}, !.day = today]
    <3>1. e.limit = entry.limit /\ e.used = {}
      BY <2>1 DEF Quotas
    <3>2. got'[r] = e /\ UsedToday(got[r])' = {}
      BY <2>1, <2>3, <3>1
    <3>3. r \notin late' => e.limit = LimitOf(row)
      BY <2>1, <2>3, <3>1 DEF MarkLate
    <3>4. \A q \in Requests \ {r} :
             pc'[q] = pc[q] /\ got'[q] = got[q] /\ (q \in late' <=> q \in late)
      BY <1>1, <2>3 DEF CheckHit, Decide, MarkLate
    <3>5. \A f \in Flushers :
             pc'[f] = pc[f] /\ got'[f] = got[f] /\ (f \in late' <=> f \in late)
      BY <1>1, <2>3 DEF CheckHit, Decide, MarkLate
    <3> HIDE DEF e
    <3>6. ChangeHolds'
      BY <2>1
    <3>7. \A f \in Flushers \ late' :
             Writing(f)' => UsedToday(got[f])' \cap forgiven' = {}
      BY <2>1, <3>5
    <3>8. \A q \in Requests :
             pc'[q] = "set" /\ q \notin late' =>
                /\ got'[q].limit = LimitOf(row')
                /\ UsedToday(got[q])' \cap forgiven' = {}
      BY <2>1, <3>2, <3>3, <3>4
    <3>9. QED
      BY <2>1, <3>6, <3>7, <3>8
  <2>4. QED
    BY <1>1, <2>2, <2>3, SMTT(30) DEF CheckHit, Decide
<1>2. ASSUME NEW r \in Requests, CheckMiss(r)
      PROVE  ChangeInv' /\ ChangeHolds'
  BY <1>2, SMTT(30) DEF CheckMiss, Fails
<1>3. ASSUME NEW r \in Requests, LoadRow(r)
      PROVE  ChangeInv' /\ ChangeHolds'
  <2>1. /\ EntryOf(row).limit = LimitOf(row)
        /\ UsedToday(EntryOf(row)) \subseteq UsedToday(row)
    BY DEF EntryOf, Over, Quotas
  <2>2. UNCHANGED <<today, row, entry, admin, stale, forgiven, cid, charges>>
    BY <1>3 DEF LoadRow
  <2>3. CASE /\ got' = [got EXCEPT ![r] = EntryOf(row)]
             /\ MarkLate(r, "row" \in stale)
    BY <1>3, <2>1, <2>2, <2>3, SMTT(30) DEF LoadRow, MarkLate
  <2>4. ASSUME NEW q \in Requests, pc[q] = "set",
               got' = [got EXCEPT ![r] = got[q]], MarkLate(r, q \in late)
        PROVE  ChangeInv' /\ ChangeHolds'
    BY <1>3, <2>2, <2>4, SMTT(30) DEF LoadRow, MarkLate
  <2>5. QED
    BY <1>3, <2>3, <2>4 DEF LoadRow
<1>4. ASSUME NEW r \in Requests, CheckOnce(r)
      PROVE  ChangeInv' /\ ChangeHolds'
  BY <1>4, SMTT(30) DEF CheckOnce, Decide
<1>5. ASSUME NEW r \in Requests, LoadFails(r)
      PROVE  ChangeInv' /\ ChangeHolds'
  BY <1>5, SMTT(30) DEF LoadFails, Fails
<1>6. ASSUME NEW r \in Requests, SetCache(r)
      PROVE  ChangeInv' /\ ChangeHolds'
  BY <1>6, SMTT(30) DEF SetCache, Decide, Miss, Fails
<1>7. ASSUME NEW r \in Requests, Serve(r)
      PROVE  ChangeInv' /\ ChangeHolds'
  BY <1>7, SMTT(30) DEF Serve
<1>8. ASSUME NEW r \in Requests, Incr(r)
      PROVE  ChangeInv' /\ ChangeHolds'
  <2> DEFINE id == charges + 1
  <2>1. /\ id \in Ids /\ id \notin forgiven /\ charges' = id
        /\ UNCHANGED <<today, row, admin, stale, forgiven, got, late>>
    BY <1>8 DEF Incr
  <2>2. CASE entry # Nil /\ entry' = [entry EXCEPT !.used = @ \cup {id}]
    <3>1. /\ entry'.used = entry.used \cup {id} /\ entry'.day = entry.day
          /\ entry'.limit = entry.limit
      <4>1. entry \in Quotas /\ entry.used \cup {id} \in SUBSET Ids
        BY <2>1, <2>2 DEF Quotas
      <4>2. QED
        BY <2>2, <4>1, Recounted
    <3>2. ChangeHolds'
      BY <2>1, <2>2, <3>1
    <3>3. ChangeInv'
      BY <1>8, <2>1, SMTT(30) DEF Incr
    <3>4. QED
      BY <3>2, <3>3
  <2>3. CASE entry' = entry
    <3>1. ChangeHolds'
      BY <2>1, <2>3
    <3>2. ChangeInv'
      BY <1>8, <2>1, SMTT(30) DEF Incr
    <3>3. QED
      BY <3>1, <3>2
  <2>4. QED
    BY <1>8, <2>2, <2>3 DEF Incr
<1>9. ASSUME NEW r \in Requests, Persist(r)
      PROVE  ChangeInv' /\ ChangeHolds'
  <2>1. cid[r] \in Ids /\ cid[r] \notin forgiven
    BY <1>9 DEF Persist
  <2>2. UNCHANGED <<today, entry, admin, stale, forgiven, got, late, charges>>
    BY <1>9 DEF Persist
  <2>3. /\ LimitOf(row)' = LimitOf(row)
        /\ UsedToday(row)' \subseteq UsedToday(row) \cup {cid[r]}
    <3>1. CASE row # Nil
      <4>1. PICK day \in clock[r] .. today : row' = Added(row, cid[r], day)
        BY <1>9, <3>1 DEF Persist
      <4>2. day \in 0 .. MaxDay
        BY <4>1, ClockDay
      <4>3. /\ row' # Nil /\ row'.limit = row.limit
            /\ UsedToday(row') \subseteq UsedToday(row) \cup {cid[r]}
        BY <2>1, <3>1, <4>1, <4>2, AddedCounts
      <4>4. UsedToday(row)' = UsedToday(row')
        BY <2>2 DEF UsedToday
      <4>5. QED
        BY <3>1, <4>3, <4>4
    <3>2. CASE row = Nil
      BY <1>9, <2>2, <3>2 DEF Persist
    <3>3. QED
      BY <3>1, <3>2
  <2>4. ChangeHolds'
    BY <2>1, <2>2, <2>3
  <2>5. ChangeInv'
    BY <1>9, <2>1, <2>2, <2>3, SMTT(30) DEF Persist, Charged
  <2>6. QED
    BY <2>4, <2>5
<1>10. ASSUME NEW r \in Requests, Insert(r)
      PROVE  ChangeInv' /\ ChangeHolds'
  <2>1. cid[r] \in Ids /\ cid[r] \notin forgiven
    BY <1>10 DEF Insert
  <2>2. UNCHANGED <<today, entry, admin, stale, forgiven, got, late, charges>>
    BY <1>10 DEF Insert
  <2>3. /\ LimitOf(row)' = LimitOf(row)
        /\ UsedToday(row)' \subseteq UsedToday(row) \cup {cid[r]}
    <3>1. CASE row = Nil
      <4>1. row' = [limit |-> NoLimit, used |-> {cid[r]}, day |-> clock[r]]
        BY <1>10, <3>1 DEF Insert
      <4>2. QED
        BY <2>2, <3>1, <4>1
    <3>2. CASE row # Nil
      <4>1. /\ row' = [row EXCEPT !.used = row.used \cup {cid[r]}]
            /\ row \in Quotas
        BY <1>10, <3>2 DEF Insert
      <4>2. row.used \cup {cid[r]} \in SUBSET Ids
        BY <2>1, <4>1 DEF Quotas
      <4>3. row' \in Quotas
        BY <4>1, <4>2, Recounted
      <4>4. /\ row'.used = row.used \cup {cid[r]} /\ row'.day = row.day
            /\ row'.limit = row.limit /\ row' # Nil
        BY <4>1, <4>3, RowsAssumption DEF Quotas
      <4>5. QED
        BY <2>2, <3>2, <4>4
    <3>3. QED
      BY <3>1, <3>2
  <2>4. ChangeHolds'
    BY <2>1, <2>2, <2>3
  <2>5. ChangeInv'
    BY <1>10, <2>1, <2>2, <2>3, SMTT(30) DEF Insert, Charged
  <2>6. QED
    BY <2>4, <2>5
<1>11. ASSUME NEW r \in Requests, PersistFails(r)
      PROVE  ChangeInv' /\ ChangeHolds'
  BY <1>11, SMTT(30) DEF PersistFails, Fails, Charged
<1>12. ASSUME NEW f \in Flushers, Take(f)
      PROVE  ChangeInv' /\ ChangeHolds'
  BY <1>12, SMTT(30) DEF Take, MarkLate, Fails, Unsaved
<1>13. ASSUME NEW f \in Flushers, Write(f)
      PROVE  ChangeInv' /\ ChangeHolds'
  <2>1. row' = [limit |-> LimitOf(row), used |-> got[f].used,
                 day |-> got[f].day]
    BY <1>13 DEF Write
  <2>2. row' # Nil
    <3>1. row' \in Quotas
      BY <1>13, <2>1 DEF Write, Quotas
    <3>2. QED
      BY <3>1, RowsAssumption
  <2>3. UNCHANGED <<today, entry, admin, forgiven, cid, charges>>
    BY <1>13 DEF Write
  <2>4. /\ LimitOf(row)' = LimitOf(row)
        /\ UsedToday(row)' \subseteq UsedToday(got[f])
    BY <1>13, <2>1, <2>2, <2>3 DEF Write
  <2>5. ChangeHolds'
    BY <1>13, <2>3, <2>4 DEF Write
  <2>6. ChangeInv'
    BY <1>13, <2>3, <2>4, SMTT(30) DEF Write, Flushed
  <2>7. QED
    BY <2>5, <2>6
<1>14. ASSUME NEW f \in Flushers, WriteFails(f)
      PROVE  ChangeInv' /\ ChangeHolds'
  BY <1>14, SMTT(30) DEF WriteFails, Returned, Fails, Flushed, Unsaved
<1>15. ASSUME NEW limit \in Limits, SetLimit(limit)
      PROVE  ChangeInv' /\ ChangeHolds'
  <2>1. UsedToday(row)' = UsedToday(row)
    BY <1>15, LimitKeepsUsage DEF SetLimit, Change
  <2>2. QED
    BY <1>15, <2>1, SMTT(30) DEF SetLimit, Change
<1>16. ASSUME Remove
      PROVE  ChangeInv' /\ ChangeHolds'
  <2>1. UsedToday(row)' = {}
    BY <1>16 DEF Remove, Change
  <2>2. ChangeHolds'
    BY <1>16, <2>1 DEF Remove, Change, Forgive
  <2>3. /\ UNCHANGED <<pc, got, cid, charges>>
        /\ \A p \in Requests \cup Flushers :
              pc[p] \in {"set", "write"} => p \in late'
    BY <1>16 DEF Remove, Change
  <2>4. /\ forgiven' \subseteq 1 .. charges
        /\ \A r \in Requests : cid[r] \notin forgiven'
    BY <1>16 DEF Remove, Forgive
  <2>5. ChangeInv'
    BY <2>3, <2>4
  <2>6. QED
    BY <2>2, <2>5
<1>17. ASSUME Reset
      PROVE  ChangeInv' /\ ChangeHolds'
  <2>1. UsedToday(row)' = {}
    <3>1. PICK day : row' = [row EXCEPT !.used = {}, !.day = day]
      BY <1>17 DEF Reset, Change
    <3>2. row'.used = {}
      BY <1>17, <3>1 DEF Reset, Quotas
    <3>3. QED
      BY <3>2
  <2>2. ChangeHolds'
    BY <1>17, <2>1 DEF Reset, Change, Forgive
  <2>3. ChangeInv'
    BY <1>17, SMTT(30) DEF Reset, Change, Forgive
  <2>4. QED
    BY <2>2, <2>3
<1>18. ASSUME DropEntry
      PROVE  ChangeInv' /\ ChangeHolds'
  BY <1>18, SMTT(30) DEF DropEntry, Vanish, Fails, Unsaved
<1>19. ASSUME Expire
      PROVE  ChangeInv' /\ ChangeHolds'
  BY <1>19, SMTT(30) DEF Expire, Vanish, Fails, Unsaved
<1>20. ASSUME Midnight
      PROVE  ChangeInv' /\ ChangeHolds'
  BY <1>20, SMTT(30) DEF Midnight
<1>21. ASSUME UNCHANGED vars
      PROVE  ChangeInv' /\ ChangeHolds'
  BY <1>21 DEF vars
<1>22. QED
  BY <1>1, <1>2, <1>3, <1>4, <1>5, <1>6, <1>7, <1>8, <1>9, <1>10, <1>11,
  <1>12, <1>13, <1>14, <1>15, <1>16, <1>17, <1>18, <1>19, <1>20, <1>21 DEF
  Next, Request, Administrator

\* IInv holds at the start, and every step keeps it.
THEOREM Invariance == Spec => []IInv
<1>1. Init => IInv
  <2> SUFFICES ASSUME Init
               PROVE  IInv
    OBVIOUS
  <2>1. row # Nil => row \in Quotas /\ row.used = {}
    BY RowsAssumption DEF Init
  <2>2. TypeOK
    <3>1. row \in Quotas \cup {Nil}
      BY <2>1
    <3>2. today \in 0 .. MaxDay /\ charges \in 0 .. MaxCharges
          /\ faults \in 0 .. MaxFaults /\ admins \in 0 .. MaxAdmin
      BY ConstantsAssumption DEF Init
    <3>3. dirty \in BOOLEAN
      BY DEF Init
    <3>4. /\ cid \in [Requests -> Ids \cup {0}]
          /\ since \in [Requests -> SUBSET Ids]
          /\ got \in [Requests \cup Flushers -> Quotas \cup {Nil}]
      BY DEF Init
    <3>5. QED
      BY <3>1, <3>2, <3>3, <3>4 DEF Init, TypeOK
  <2>3. TaskInv /\ NumberInv
    BY <2>1 DEF Init, TaskInv, NumberInv, Writing
  <2>4. CacheInv /\ DirectInv /\ FlushInv
    BY DEF Init, CacheInv, DirectInv, FlushInv, Writing
  <2>5. ChangeInv /\ ChangeHolds
    BY <2>2, <2>3 DEF Init, ChangeInv, ChangeHolds, Writing, TypeOK, Ids
  <2>6. QED
    BY <2>2, <2>3, <2>4, <2>5 DEF IInv
<1>2. IInv /\ [Next]_vars => IInv'
  BY TypeStep, TaskStep, NumberStep, CacheStep, DirectStep, FlushStep,
     ChangeStep
  DEF IInv
<1>3. QED
  BY <1>1, <1>2, PTL DEF Spec

\* The variables have their types (platformQuotaCacheEntry, the rows of
\* user_platform_quotas and the steps of requests, flushers and administrator).
THEOREM TypeCorrect == Spec => []TypeOK
<1>1. IInv => TypeOK
  BY DEF IInv
<1>2. QED
  BY <1>1, Invariance, PTL

\* The entry that admits requests counts today's charges, whatever requests,
\* flushers, midnights and changes of an administrator interleave.
THEOREM CacheCounts == Spec => []UsageIsCounted
<1>1. IInv => UsageIsCounted
  BY DEF IInv, CacheInv, UsageIsCounted, UsedToday
<1>2. QED
  BY <1>1, Invariance, PTL

\* With nothing on its way to the row, the row has today's charges, both with
\* the direct write (IncrementUsageWithReset) and with the flusher's snapshots.
THEOREM RowCounts == Spec => []RowIsRight
<1>1. IInv => RowIsRight
  <2> SUFFICES ASSUME IInv, Quiet
               PROVE  spent \subseteq UsedToday(row) \cup lost
    BY DEF RowIsRight
  <2>1. CASE flusherOn
    BY <2>1 DEF IInv, FlushInv, Quiet, Writing
  <2>2. CASE ~flusherOn
    <3>1. \A r \in Requests : cid[r] = 0
      BY DEF IInv, TaskInv, Quiet
    <3>2. 0 \notin spent
      BY DEF IInv, TypeOK, Ids
    <3>3. QED
      BY <2>2, <3>1, <3>2 DEF IInv, DirectInv
  <2>3. QED
    BY <2>1, <2>2
<1>2. QED
  BY <1>1, Invariance, PTL

\* A change of the administrator is neither undone nor half applied by a
\* request or a flusher that read the row or the entry after it.
THEOREM ChangesHold == Spec => []ChangeHolds
<1>1. IInv => ChangeHolds
  BY DEF IInv
<1>2. QED
  BY <1>1, Invariance, PTL
=============================================================================
