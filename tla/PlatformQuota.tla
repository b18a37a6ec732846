---------------------------- MODULE PlatformQuota ----------------------------
(***************************************************************************)
(* A user's daily quota on a platform (billing_cache_service.go,           *)
(* billing_cache.go, user_platform_quota_repo.go,                          *)
(* user_platform_quota_flusher.go, gateway_service.go).  Requests are      *)
(* admitted by a Redis hash that is loaded from a row on a miss; a charge  *)
(* is added to the hash by a script, and reaches the row either directly   *)
(* or, when the flusher is enabled, as a snapshot of the hash that is      *)
(* taken when its key is in the dirty set.  An administrator changes the   *)
(* row and then deletes the hash.  The weekly and monthly windows are      *)
(* treated in the same way and are left out; so is Redis without a         *)
(* current schema, which is a miss.  Every charge costs 1 and is known     *)
(* here by its number.                                                     *)
(***************************************************************************)
EXTENDS Integers, FiniteSets

CONSTANTS
    Requests,       \* goroutines that serve the user, one request after another
    Flushers,       \* one per instance
    Limits,         \* daily limits an administrator sets
    NoLimit,        \* a limit that is NULL
    NoDay,          \* a window that has not begun
    Nil,            \* no row, no hash
    Modes,          \* values of flusher_enabled
    FirstRows,      \* rows at the registration
    MaxCharges,     \* bound: charges
    MaxDay,         \* bound: midnights
    MaxAdmin,       \* bound: changes of an administrator
    MaxFaults       \* bound: failing calls, evictions, stopped flushers

ASSUME ConstantsAssumption ==
    /\ Limits \subseteq Nat
    /\ NoLimit \notin Limits
    /\ NoDay \notin Nat
    /\ Requests \cap Flushers = {}
    /\ Modes \subseteq BOOLEAN
    /\ MaxCharges \in Nat /\ MaxDay \in Nat
    /\ MaxAdmin \in Nat /\ MaxFaults \in Nat

Ids    == 1 .. MaxCharges
Quotas == [limit : Limits \cup {NoLimit}, used : SUBSET Ids,
           day : (0 .. MaxDay) \cup {NoDay}]

ASSUME RowsAssumption ==
    /\ Nil \notin Quotas
    /\ FirstRows \subseteq {x \in Quotas : x.used = {}} \cup {Nil}

VARIABLES
    flusherOn,  \* cfg.Database.UserPlatformQuotaFlusherEnabled
    today,      \* timezone.StartOfDay(now)
    row,        \* user_platform_quotas
    restarted,  \* its window began with a reset, after midnight
    entry,      \* the hash of the user and platform
    dirty,      \* its key is in billing:upq:dirty
    pc,         \* what each request and flusher does next
    got,        \* the entry it will write
    cid,        \* requests: the charge to persist
    clock,      \* requests: the day its goroutine began, then the day it read
    admin,      \* what the administrator does next
    charges,    \* how many charges so far
    spent,      \* history: today's charges that nobody has forgiven
    forgiven,   \* history: today's charges before a reset or a removal
    since,      \* history: today's charges the entry in got lacks
    missed,     \* history: charges an entry is known to lack
    lost,       \* history: charges the row is known to lack
    late,       \* history: those whose entry is older than a change
    old,        \* history: flushers whose entry is older than a later flush
    stale,      \* history: whether the entry, the row took an older value
    faults, admins      \* how many so far

dbVars    == <<flusherOn, today, row, restarted>>
cacheVars == <<entry, dirty>>
readVars  == <<got, since, late, old>>
taskVars  == <<cid, clock>>
tallyVars == <<charges, spent, forgiven>>
noteVars  == <<missed, lost, stale>>
vars == <<dbVars, cacheVars, pc, readVars, taskVars, admin, tallyVars, noteVars,
          faults, admins>>

TypeOK ==
    /\ flusherOn \in Modes
    /\ today    \in 0 .. MaxDay
    /\ row      \in Quotas \cup {Nil}
    /\ restarted \in BOOLEAN
    /\ entry    \in Quotas \cup {Nil}
    /\ dirty    \in BOOLEAN
    /\ pc       \in [Requests \cup Flushers ->
                      {"idle", "load", "once", "set", "served", "incr",
                       "persist", "insert", "write"}]
    /\ \A r \in Requests : pc[r] # "write"
    /\ \A f \in Flushers : pc[f] \in {"idle", "write"}
    /\ got      \in [Requests \cup Flushers -> Quotas \cup {Nil}]
    /\ cid      \in [Requests -> Ids \cup {0}]
    /\ clock    \in [Requests -> 0 .. MaxDay]
    /\ admin    \in {"idle", "drop"}
    /\ charges  \in 0 .. MaxCharges
    /\ spent    \in SUBSET Ids
    /\ forgiven \in SUBSET Ids
    /\ since    \in [Requests -> SUBSET Ids]
    /\ missed   \in SUBSET Ids
    /\ lost     \in SUBSET Ids
    /\ late     \in SUBSET (Requests \cup Flushers)
    /\ old      \in SUBSET Flushers
    /\ stale    \in SUBSET {"entry", "row"}
    /\ faults   \in 0 .. MaxFaults
    /\ admins   \in 0 .. MaxAdmin

\* A user who has registered (BulkInsertInitial): the row has no window yet.
Init ==
    /\ flusherOn \in Modes
    /\ today    = 0
    /\ row      \in FirstRows
    /\ restarted = FALSE
    /\ entry    = Nil
    /\ dirty    = FALSE
    /\ pc       = [p \in Requests \cup Flushers |-> "idle"]
    /\ got      = [p \in Requests \cup Flushers |-> Nil]
    /\ cid      = [r \in Requests |-> 0]
    /\ clock    = [r \in Requests |-> 0]
    /\ admin    = "idle"
    /\ charges  = 0
    /\ spent    = {}
    /\ forgiven = {}
    /\ since    = [r \in Requests |-> {}]
    /\ missed   = {}
    /\ lost     = {}
    /\ late     = {}
    /\ old      = {}
    /\ stale    = {}
    /\ faults   = 0
    /\ admins   = 0

-----------------------------------------------------------------------------

\* Mutant of Over: a window is over on the day on which it began.
OverAtStart(x) == x.day \notin (today + 1) .. MaxDay

\* quotaWindowExpired: the window began on another day, or never.
Over(x) == x.day # today

UsedToday(x) == IF x # Nil /\ x.day = today THEN x.used ELSE {}

Reached(x) == x.limit # NoLimit /\ Cardinality(x.used) >= x.limit

LimitOf(x) == IF x = Nil THEN NoLimit ELSE x.limit

Fails == faults < MaxFaults /\ faults' = faults + 1

Goto(p, next) == pc' = [pc EXCEPT ![p] = next]

\* The answer of the check: the request is served or refused.
Decide(r, x) == Goto(r, IF Reached(x) THEN "idle" ELSE "served")

\* p holds an entry that is older than an administrator's last change.
MarkLate(p, isLate) == late' = IF isLate THEN late \cup {p} ELSE late \ {p}

\* These charges will be in no entry, and in no snapshot of one.
Miss(ids) ==
    /\ missed' = missed \cup ids
    /\ lost' = IF flusherOn THEN lost \cup ids ELSE lost

Unsaved == spent \ UsedToday(row)

-----------------------------------------------------------------------------
(* The check of a request (checkUserPlatformQuotaEligibility) *)

\* An entry whose window is over is refreshed, unless it has no limit.
CheckHit(r) ==
    /\ pc[r] = "idle" /\ entry # Nil
    /\ \/ /\ Over(entry) /\ entry.limit # NoLimit
          /\ got' = [got EXCEPT ![r] = [entry EXCEPT !.used = {},
                                                     !.day = today]]
          /\ MarkLate(r, admin = "drop" \/ "entry" \in stale)
          /\ Goto(r, "set")
       \/ /\ ~Over(entry) \/ entry.limit = NoLimit
          /\ Decide(r, entry)
          /\ UNCHANGED <<got, late>>
    /\ UNCHANGED <<dbVars, cacheVars, since, old, taskVars, admin, tallyVars,
                   noteVars, faults, admins>>

\* A miss loads the row; an error of Redis looks at it once.
CheckMiss(r) ==
    /\ pc[r] = "idle"
    /\ \/ entry = Nil /\ Goto(r, "load") /\ UNCHANGED faults
       \/ Fails /\ Goto(r, "once")
    /\ UNCHANGED <<dbVars, cacheVars, readVars, taskVars, admin, tallyVars, noteVars,
                   admins>>

\* Without a row, a sentinel without limits; the usage of a window that is
\* over is 0, its start is copied as it is.
EntryOf(x) ==
    IF x = Nil THEN [limit |-> NoLimit, used |-> {}, day |-> today]
    ELSE IF Over(x) THEN [x EXCEPT !.used = {}]
    ELSE x

\* GetByUserPlatform; a request that comes while another one loads the row
\* shares what that one has read (quotaLoadSF).
LoadRow(r) ==
    /\ pc[r] = "load"
    /\ \/ /\ got' = [got EXCEPT ![r] = EntryOf(row)]
          /\ since' = [since EXCEPT ![r] = Unsaved]
          /\ MarkLate(r, "row" \in stale)
       \/ \E q \in Requests :
             /\ pc[q] = "set"
             /\ got' = [got EXCEPT ![r] = got[q]]
             /\ since' = [since EXCEPT ![r] = since[q]]
             /\ MarkLate(r, q \in late)
    /\ Goto(r, "set")
    /\ UNCHANGED <<dbVars, cacheVars, old, taskVars, admin, tallyVars, noteVars,
                   faults, admins>>

CheckOnce(r) ==
    /\ pc[r] = "once"
    /\ Decide(r, EntryOf(row))
    /\ UNCHANGED <<dbVars, cacheVars, readVars, taskVars, admin, tallyVars, noteVars,
                   faults, admins>>

\* The database fails too: the request is served.
LoadFails(r) ==
    /\ pc[r] \in {"load", "once"}
    /\ Fails
    /\ Goto(r, "served")
    /\ UNCHANGED <<dbVars, cacheVars, readVars, taskVars, admin, tallyVars, noteVars,
                   admins>>

\* SetUserPlatformQuotaCache writes the whole entry; an error is only logged.
SetCache(r) ==
    /\ pc[r] = "set"
    /\ \/ /\ entry' = got[r]
          /\ Miss(since[r])
          /\ stale' = IF r \in late THEN stale \cup {"entry"}
                                    ELSE stale \ {"entry"}
          /\ UNCHANGED faults
       \/ Fails /\ UNCHANGED <<entry, noteVars>>
    /\ Decide(r, got[r])
    /\ got' = [got EXCEPT ![r] = Nil]
    /\ since' = [since EXCEPT ![r] = {}]
    /\ late' = late \ {r}
    /\ UNCHANGED <<dbVars, dirty, old, taskVars, admin, tallyVars, admins>>

-----------------------------------------------------------------------------
(* The charge of a request (finalizePostUsageBilling) *)

\* HasUserPlatformQuotaLimit: without a cached limit nothing is counted.
Serve(r) ==
    /\ pc[r] = "served"
    /\ IF entry # Nil /\ entry.limit = NoLimit
          THEN Goto(r, "idle")
          ELSE charges < MaxCharges /\ Goto(r, "incr")
    /\ UNCHANGED <<dbVars, cacheVars, readVars, taskVars, admin, tallyVars, noteVars,
                   faults, admins>>

\* Mutant of MarkDirty: the key is marked when the charge reaches the limit.
MarkDirtyAtLimit ==
    dirty' = (dirty \/ (flusherOn /\ entry # Nil /\ Reached(entry)))

\* The script marks the key only if the hash is there.
MarkDirty == dirty' = (dirty \/ (flusherOn /\ entry # Nil))

\* updateUserPlatformQuotaUsageScript: without a hash nothing happens; the
\* window is not looked at.  An error is only logged.
Incr(r) ==
    /\ pc[r] = "incr"
    /\ charges < MaxCharges
    /\ LET id == charges + 1
       IN  /\ \/ /\ entry' = IF entry = Nil THEN Nil
                             ELSE [entry EXCEPT !.used = @ \cup {id}]
                 /\ MarkDirty
                 /\ IF entry = Nil \/ entry.day # today
                       THEN Miss({id}) ELSE UNCHANGED <<missed, lost>>
                 /\ UNCHANGED faults
              \/ Fails /\ Miss({id}) /\ UNCHANGED cacheVars
           /\ charges' = id
           /\ spent' = spent \cup {id}
           /\ since' = [q \in Requests |-> IF pc[q] = "set"
                                           THEN since[q] \cup {id} ELSE {}]
           /\ IF flusherOn THEN Goto(r, "idle") /\ UNCHANGED taskVars
              ELSE /\ Goto(r, "persist")
                   /\ cid' = [cid EXCEPT ![r] = id]
                   /\ clock' = [clock EXCEPT ![r] = today]
    /\ UNCHANGED <<dbVars, got, late, old, admin, forgiven, stale, admins>>

Charged(r) ==
    /\ Goto(r, "idle")
    /\ cid' = [cid EXCEPT ![r] = 0]
    /\ clock' = [clock EXCEPT ![r] = 0]

\* maybeReset compares the start of the window with the midnight of the
\* write: one of a later day, or that a reset began, is begun again as well.
Added(x, id, day) ==
    [x EXCEPT !.used = IF x.day # day \/ restarted THEN {id} ELSE @ \cup {id},
              !.day = day]

\* IncrementUsageWithReset: the row is locked; without one it is inserted.  The
\* clock was read before, when the write's goroutine started.
Persist(r) ==
    /\ pc[r] = "persist"
    /\ \E day \in clock[r] .. today :
          \/ /\ row # Nil
             /\ row' = Added(row, cid[r], day)
             /\ restarted' = FALSE
             /\ lost' = IF restarted \/ day # today
                           THEN lost \cup UsedToday(row) ELSE lost
             /\ Charged(r)
          \/ /\ row = Nil
             /\ Goto(r, "insert")
             /\ clock' = [clock EXCEPT ![r] = day]
             /\ UNCHANGED <<row, restarted, lost, cid>>
    /\ UNCHANGED <<flusherOn, today, cacheVars, readVars, admin, tallyVars,
                   missed, stale, faults, admins>>

\* ON CONFLICT DO UPDATE adds to a row that has come in between, and leaves
\* its window as it is.
Insert(r) ==
    /\ pc[r] = "insert"
    /\ row' = IF row = Nil
                 THEN [limit |-> NoLimit, used |-> {cid[r]}, day |-> clock[r]]
                 ELSE [row EXCEPT !.used = @ \cup {cid[r]}]
    /\ lost' = IF row # Nil /\ row.day # today THEN lost \cup {cid[r]} ELSE lost
    /\ Charged(r)
    /\ UNCHANGED <<flusherOn, today, restarted, cacheVars, readVars, admin,
                   tallyVars, missed, stale, faults, admins>>

\* The write fails, or the instance stops before it.
PersistFails(r) ==
    /\ pc[r] \in {"persist", "insert"}
    /\ Fails
    /\ lost' = lost \cup {cid[r]}
    /\ Charged(r)
    /\ UNCHANGED <<dbVars, cacheVars, readVars, admin, tallyVars, missed, stale,
                   admins>>

-----------------------------------------------------------------------------
(* The flusher (flushOneBatch) *)

\* PopDirty and BatchGet: a hash that is gone, or has no window, is skipped.
\* A failing BatchGet puts the key back, if that does not fail too.
Take(f) ==
    /\ pc[f] = "idle" /\ dirty
    /\ \/ /\ dirty' = FALSE
          /\ IF entry = Nil \/ entry.day = NoDay
                THEN UNCHANGED <<pc, got, late>>
                ELSE /\ got' = [got EXCEPT ![f] = entry]
                     /\ MarkLate(f, admin = "drop" \/ "entry" \in stale)
                     /\ Goto(f, "write")
          /\ UNCHANGED <<lost, faults>>
       \/ /\ Fails
          /\ dirty' = FALSE
          /\ lost' = lost \cup Unsaved
          /\ UNCHANGED <<pc, got, late>>
    /\ UNCHANGED <<dbVars, entry, since, old, taskVars, admin, tallyVars, missed,
                   stale, admins>>

Flushed(f) ==
    /\ Goto(f, "idle")
    /\ got' = [got EXCEPT ![f] = Nil]
    /\ late' = late \ {f}

\* BatchSnapshotUsage sets usage and window, whatever the row has.
Write(f) ==
    /\ f \in Flushers /\ pc[f] = "write"
    /\ row' = [limit |-> LimitOf(row), used |-> got[f].used, day |-> got[f].day]
    /\ lost' = IF f \in old THEN lost \cup (UsedToday(row) \ UsedToday(got[f]))
                            ELSE lost
    /\ stale' = IF f \in late THEN stale \cup {"row"} ELSE stale \ {"row"}
    /\ old' = {g \in Flushers \ {f} : pc[g] = "write"}
    /\ Flushed(f)
    /\ UNCHANGED <<flusherOn, today, restarted, cacheVars, since, taskVars, admin,
                   tallyVars, missed, faults, admins>>

\* The key is put back, or is lost: the user is gone, putting it back fails,
\* or the instance stops.
Returned ==
    \/ dirty' = TRUE /\ UNCHANGED lost
    \/ lost' = lost \cup Unsaved /\ UNCHANGED dirty

WriteFails(f) ==
    /\ f \in Flushers /\ pc[f] = "write"
    /\ Fails
    /\ Returned
    /\ old' = old \ {f}
    /\ Flushed(f)
    /\ UNCHANGED <<dbVars, entry, since, taskVars, admin, tallyVars, missed, stale,
                   admins>>

-----------------------------------------------------------------------------
(* The administrator (handler/admin/user_handler.go) *)

Change(new) ==
    /\ admin = "idle"
    /\ admins < MaxAdmin
    /\ admins' = admins + 1
    /\ row' = new
    /\ admin' = "drop"
    /\ late' = late \cup {p \in Requests \cup Flushers : pc[p] \in {"set", "write"}}
    /\ UNCHANGED <<flusherOn, today, cacheVars, pc, got, since, old, taskVars,
                   charges, missed, faults>>

\* Today's charges are not to count any more, but for those not yet in the row.
Forgive ==
    LET pending == {cid[r] : r \in Requests}
    IN  /\ forgiven' = forgiven \cup (spent \ pending)
        /\ spent' = spent \cap pending
        /\ stale' = stale \ {"row"}

\* UpsertForUser: a new limit.
SetLimit(limit) ==
    /\ LimitOf(row) # limit
    /\ Change(IF row = Nil THEN [limit |-> limit, used |-> {}, day |-> NoDay]
                           ELSE [row EXCEPT !.limit = limit])
    /\ UNCHANGED <<restarted, spent, forgiven, lost, stale>>

\* UpsertForUser without this platform: the row is deleted.
Remove ==
    /\ row # Nil
    /\ Change(Nil)
    /\ restarted' = FALSE
    /\ Forgive
    /\ UNCHANGED lost

\* ResetExpiredWindow, to a time read before it.
Reset ==
    /\ row # Nil
    /\ \E day \in 0 .. today : Change([row EXCEPT !.used = {}, !.day = day])
    /\ restarted' = TRUE
    /\ Forgive
    /\ UNCHANGED lost

\* The hash is deleted, and its charges that are not saved with it.
Vanish ==
    /\ entry' = Nil
    /\ lost' = IF flusherOn THEN lost \cup Unsaved ELSE lost
    /\ stale' = stale \ {"entry"}

\* Mutant of DropEntry: only an entry whose limit differs is deleted.
DropOldLimit ==
    /\ admin = "drop"
    /\ IF entry # Nil /\ entry.limit # LimitOf(row)
          THEN Vanish ELSE UNCHANGED <<entry, lost, stale>>
    /\ admin' = "idle"
    /\ UNCHANGED <<dbVars, dirty, pc, readVars, taskVars, tallyVars, missed, faults,
                   admins>>

\* DeleteUserPlatformQuotaCache: an error is only logged.
DropEntry ==
    /\ admin = "drop"
    /\ \/ Vanish /\ UNCHANGED faults
       \/ Fails /\ stale' = stale \cup {"entry"} /\ UNCHANGED <<entry, lost>>
    /\ admin' = "idle"
    /\ UNCHANGED <<dbVars, dirty, pc, readVars, taskVars, tallyVars, missed, admins>>

-----------------------------------------------------------------------------

\* The hash's time to live is over, or Redis needs the memory.
Expire ==
    /\ entry # Nil
    /\ Fails
    /\ Vanish
    /\ UNCHANGED <<dbVars, dirty, pc, readVars, taskVars, admin, tallyVars, missed,
                   admins>>

Midnight ==
    /\ today < MaxDay
    /\ today' = today + 1
    /\ spent' = {} /\ forgiven' = {} /\ missed' = {} /\ lost' = {}
    /\ since' = [r \in Requests |-> {}]
    /\ UNCHANGED <<flusherOn, row, restarted, cacheVars, pc, got, late, old,
                   taskVars, admin, charges, stale, faults, admins>>

Request(r) ==
    \/ CheckHit(r) \/ CheckMiss(r) \/ LoadRow(r) \/ CheckOnce(r)
    \/ LoadFails(r) \/ SetCache(r) \/ Serve(r) \/ Incr(r)
    \/ Persist(r) \/ Insert(r) \/ PersistFails(r)

Administrator ==
    \/ \E limit \in Limits : SetLimit(limit)
    \/ Remove \/ Reset \/ DropEntry

Next ==
    \/ \E r \in Requests : Request(r)
    \/ \E f \in Flushers : Take(f) \/ Write(f) \/ WriteFails(f)
    \/ Administrator \/ Expire \/ Midnight

Spec == Init /\ [][Next]_vars

-----------------------------------------------------------------------------
(* Properties *)

\* The cache decides who is served: a current entry counts every charge of
\* today, but for those that met no entry or one of another day, or that came
\* while a request was about to write an entry it had read before them.
UsageIsCounted ==
    entry # Nil /\ entry.day = today => spent \subseteq entry.used \cup missed

\* Nothing is on its way to the row or the cache.
Quiet ==
    /\ ~dirty /\ admin = "idle"
    /\ \A p \in Requests \cup Flushers :
          pc[p] \notin {"set", "persist", "insert", "write"}

\* The row is what the cache is loaded from: it has every charge of today,
\* but for those whose write failed or was a first insert that met a row of
\* another window, and those the row had before a write that began the day
\* before, or that followed a reset, began its window again.  With the
\* flusher it lacks those of an entry that vanished, was overwritten or was
\* not today's before it was taken, or that an older snapshot of another
\* flusher has overwritten.
RowIsRight == Quiet => spent \subseteq UsedToday(row) \cup lost

\* An administrator's change holds once the hash is deleted: no entry has the
\* limit or the usage from before it, and no row the usage, unless it was
\* read before the change and written after it, or the deletion failed.
ChangeHolds ==
    /\ admin = "idle" /\ entry # Nil /\ "entry" \notin stale =>
          entry.limit = LimitOf(row) /\ UsedToday(entry) \cap forgiven = {}
    /\ "row" \notin stale => UsedToday(row) \cap forgiven = {}
=============================================================================
