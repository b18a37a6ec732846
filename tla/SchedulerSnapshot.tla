--------------------------- MODULE SchedulerSnapshot ---------------------------
(***************************************************************************)
(* The scheduler's view of the accounts (scheduler_snapshot_service.go,    *)
(* scheduler_cache.go, scheduler_outbox_repo.go).  An account update       *)
(* commits its row, then inserts an outbox event, then copies the row to   *)
(* Redis; a poller of each instance handles the events above a watermark   *)
(* and rebuilds the buckets they name; a ticker rebuilds every bucket; and *)
(* a request that misses loads the bucket itself.  A bucket is the list of *)
(* the schedulable accounts of one group (one platform, one mode); the     *)
(* account copies it is read with are keys of their own.  The bucket of    *)
(* the accounts without a group is left out.                               *)
(***************************************************************************)
EXTENDS Integers, Sequences

CONSTANTS
    Accounts,
    Buckets,        \* one for each group
    Pollers,        \* runOutboxWorker, one per instance
    Rebuilders,     \* runFullRebuildWorker and runInitialRebuild
    Readers,        \* requests that miss
    Updaters,       \* goroutines that change accounts
    Nil,            \* a deleted row, an absent copy, a free lock
    MaxChanges,     \* bound: changes of accounts
    MaxErrors       \* bound: calls that fail, and workers that die

Workers == Pollers \cup Rebuilders \cup Readers

ASSUME ConstantsAssumption ==
    /\ Nil \notin Workers
    /\ Workers \cap Updaters = {}
    /\ MaxChanges \in Nat
    /\ MaxErrors \in Nat

VARIABLES
    row,        \* accounts, account_groups: each account's buckets and state
    outbox,     \* scheduler_outbox by id
    open,       \* ids that are taken and not yet committed
    watermark,  \* sched:outbox:watermark
    copy,       \* sched:acc and sched:meta keys
    active,     \* the ids of each bucket's active snapshot
    tickets,    \* for a rebuild whose version is above the active one: the
                \* rebuilds of its bucket with such versions up to its own
    lock,       \* who took each bucket's lock
    pc,         \* what each worker and updater does next
    batch,      \* pollers: the listed events that are left
    cur,        \* the bucket a worker rebuilds
    todo,       \* the buckets it has still to rebuild
    seen,       \* pollers: the buckets already rebuilt for this batch
    last,       \* pollers: the last id of the batch
    gap,        \* pollers: ids below it that were not committed when listed
    got,        \* the rows a worker or an updater has read
    owner,      \* workers that took the lock of the bucket they rebuild
    failed,     \* workers with an error to return
    task,       \* updaters: the event to insert, and whether they sync
    behind,     \* history: those who hold rows whose last event was handled
    late,       \* history: workers whose rows were old when they took a version
    doubt,      \* history: list entries known to have missed a change
    stale,      \* history: copies known to have missed a change
    changes, errors     \* how many so far

dbVars      == <<row, outbox, open, changes>>
snapVars    == <<active, tickets>>
pollVars    == <<batch, seen, last, gap>>
jobVars     == <<cur, todo, owner, failed>>
historyVars == <<late, doubt, stale>>
readVars    == <<got, behind>>
vars == <<dbVars, watermark, copy, snapVars, lock, pc, pollVars, jobVars,
          readVars, task, historyVars, errors>>

Rows   == [in : SUBSET Buckets, up : BOOLEAN]
Events == [kind : {"changed", "groups", "lastUsed"}, account : Accounts,
           groups : SUBSET Buckets]
Tasks  == [event : Events, sync : BOOLEAN]

None == [a \in Accounts |-> Nil]

WorkerPCs  == {"idle", "read", "set", "next", "version", "write", "activate",
               "mark"}
UpdaterPCs == {"idle", "drop", "insert", "commit", "read", "set"}

TypeOK ==
    /\ row       \in [Accounts -> Rows \cup {Nil}]
    /\ outbox    \in Seq(Events)
    /\ open      \in SUBSET (1 .. Len(outbox))
    /\ watermark \in 0 .. Len(outbox)
    /\ copy      \in [Accounts -> Rows \cup {Nil}]
    /\ active    \in [Buckets -> (SUBSET Accounts) \cup {Nil}]
    /\ tickets   \in [Workers -> SUBSET Workers]
    /\ lock      \in [Buckets -> Workers \cup {Nil}]
    /\ pc        \in [Workers \cup Updaters -> WorkerPCs \cup UpdaterPCs]
    /\ \A w \in Workers : pc[w] \in WorkerPCs
    /\ \A u \in Updaters : pc[u] \in UpdaterPCs
    /\ batch     \in [Workers -> SUBSET (1 .. Len(outbox))]
    /\ cur       \in [Workers -> Buckets \cup {Nil}]
    /\ todo      \in [Workers -> SUBSET Buckets]
    /\ seen      \in [Workers -> SUBSET Buckets]
    /\ last      \in [Workers -> 0 .. Len(outbox)]
    /\ gap       \in [Workers -> SUBSET (1 .. Len(outbox))]
    /\ got       \in [Workers \cup Updaters -> [Accounts -> Rows \cup {Nil}]]
    /\ owner     \in SUBSET Workers
    /\ failed    \in SUBSET Workers
    /\ task      \in [Updaters -> Tasks \cup {Nil}]
    /\ behind    \in SUBSET (Workers \cup Updaters)
    /\ late      \in SUBSET Workers
    /\ doubt     \in SUBSET (Accounts \X Buckets)
    /\ stale     \in SUBSET Accounts
    /\ changes   \in 0 .. MaxChanges
    /\ errors    \in 0 .. MaxErrors

\* The accounts are schedulable members of some group, and Redis is empty.
Init ==
    /\ row       \in [Accounts -> {[in |-> {b}, up |-> TRUE] : b \in Buckets}]
    /\ outbox    = << >>
    /\ open      = {}
    /\ watermark = 0
    /\ copy      = None
    /\ active    = [b \in Buckets |-> Nil]
    /\ tickets   = [w \in Workers |-> {}]
    /\ lock      = [b \in Buckets |-> Nil]
    /\ pc        = [w \in Workers \cup Updaters |-> "idle"]
    /\ batch     = [w \in Workers |-> {}]
    /\ cur       = [w \in Workers |-> Nil]
    /\ todo      = [w \in Workers |-> {}]
    /\ seen      = [w \in Workers |-> {}]
    /\ last      = [w \in Workers |-> 0]
    /\ gap       = [w \in Workers |-> {}]
    /\ got       = [w \in Workers \cup Updaters |-> None]
    /\ owner     = {}
    /\ failed    = {}
    /\ task      = [u \in Updaters |-> Nil]
    /\ behind    = {}
    /\ late      = {}
    /\ doubt     = {}
    /\ stale     = {}
    /\ changes   = 0
    /\ errors    = 0

-----------------------------------------------------------------------------
(* What the database says, and where the cache differs *)

Belongs(a, b) == row[a] # Nil /\ row[a].up /\ b \in row[a].in

Members(b) == {a \in Accounts : Belongs(a, b)}

Listed(a, b) == active[b] # Nil /\ a \in active[b]

\* An active list that lacks a member, or holds an account that is none.
Wrong == {p \in Accounts \X Buckets :
             /\ active[p[2]] # Nil
             /\ Listed(p[1], p[2]) # Belongs(p[1], p[2])}

Outdated == {a \in Accounts : copy[a] # Nil /\ copy[a] # row[a]}

\* The rebuild has read a, as a member of the bucket.
Holds(w, a) == got[w][a] # Nil

\* Rebuilds with a version whose rows lack the last changes of these accounts.
OldJobs(as, bs) ==
    {w \in Workers : /\ pc[w] \in {"write", "activate"}
                     /\ \E b \in bs, a \in as :
                           /\ cur[w] = b
                           /\ Holds(w, a) # Belongs(a, b)'}

\* No rebuild of these buckets will follow the last changes of the accounts.
Forget(as, bs) ==
    /\ doubt' = doubt \cup {p \in Wrong' : p[1] \in as /\ p[2] \in bs}
    /\ late' = late \cup OldJobs(as, bs)

\* Those who hold a row of these accounts that is no longer theirs.
OldReads(as) ==
    {w \in Workers \cup Updaters :
        \E a \in as : got[w][a] # Nil /\ got[w][a] # row[a]'}

\* No event tells the cache of the last changes of these accounts.
Overlook(as) ==
    /\ Forget(as, Buckets)
    /\ behind' = behind \cup OldReads(as)
    /\ stale' = stale \cup (Outdated' \cap as)

\* w copies accounts; one that it read before its last change is noted.
NoteCopies(w, as) ==
    stale' = (stale \cup IF w \in behind THEN as ELSE {}) \cap Outdated'

Read(w, rows) ==
    /\ got' = [got EXCEPT ![w] = rows]
    /\ behind' = IF \E a \in Accounts : rows[a] \notin {Nil, row[a]} /\ a \in stale
                   THEN behind \cup {w} ELSE behind \ {w}

Unread(w) ==
    /\ got' = [got EXCEPT ![w] = None]
    /\ behind' = behind \ {w}

Visible == (1 .. Len(outbox)) \ open

Goto(w, next) == pc' = [pc EXCEPT ![w] = next]

Least(S) == CHOOSE i \in S : \A j \in S : i <= j
Largest(S) == CHOOSE i \in S : \A j \in S : i >= j

Fails == errors < MaxErrors /\ errors' = errors + 1

-----------------------------------------------------------------------------
(* Changing an account (account_repo.go) *)

\* An update that leaves the row as it is here is left out.
Change(u, a, new) ==
    /\ pc[u] = "idle"
    /\ row[a] # Nil /\ row[a] # new
    /\ changes < MaxChanges
    /\ changes' = changes + 1
    /\ row' = [row EXCEPT ![a] = new]
    /\ UNCHANGED <<outbox, open, watermark, copy, snapVars, lock, pollVars,
                   jobVars, got, errors>>

\* What is left to do after the commit.
Then(u, next, kind, a, groups, sync) ==
    /\ task' = [task EXCEPT ![u] = [event |-> [kind |-> kind, account |-> a,
                                               groups |-> groups],
                                    sync |-> sync]]
    /\ Goto(u, next)
    /\ UNCHANGED <<behind, historyVars>>

\* SetError, SetRateLimited, ClearError, SetSchedulable: the copy is synced,
\* except when an account becomes schedulable.
SetState(u, a, up) ==
    /\ Change(u, a, [row[a] EXCEPT !.up = up])
    /\ \E sync \in IF up THEN BOOLEAN ELSE {TRUE} :
          Then(u, "insert", "changed", a, {}, sync)

\* BindGroups: without a group left no event is written.
BindGroups(u, a, groups) ==
    \/ /\ groups # {}
       /\ Change(u, a, [row[a] EXCEPT !.in = groups])
       /\ Then(u, "insert", "groups", a, row[a].in \cup groups, FALSE)
    \/ /\ groups = {}
       /\ Change(u, a, [row[a] EXCEPT !.in = {}])
       /\ Overlook({a})
       /\ UNCHANGED <<pc, task>>

\* Delete: the copies go before the event is written.
Delete(u, a) ==
    /\ Change(u, a, Nil)
    /\ Then(u, "drop", "changed", a, row[a].in, FALSE)

\* UpdateLastUsed, of a request that used the account: the time is not part of
\* a row here, so its update and its event are one step.
UpdateLastUsed(a) ==
    /\ row[a] # Nil
    /\ changes < MaxChanges
    /\ changes' = changes + 1
    /\ outbox' = Append(outbox, [kind |-> "lastUsed", account |-> a,
                                 groups |-> {}])
    /\ UNCHANGED <<row, open, watermark, copy, snapVars, lock, pc, pollVars,
                   jobVars, readVars, task, historyVars, errors>>

\* The clock passes a limit of the account, or its expiry.  `up' is what the
\* columns say now, so every read and copy of them goes along; no event is
\* written.  The times of older copies are left out.
TimePasses(a) ==
    /\ row[a] # Nil
    /\ changes < MaxChanges
    /\ changes' = changes + 1
    /\ LET new == [row[a] EXCEPT !.up = ~@]
           turned(value) == IF value = row[a] THEN new ELSE value
       IN  /\ row' = [row EXCEPT ![a] = new]
           /\ copy' = [copy EXCEPT ![a] = turned(copy[a])]
           /\ got' = [x \in Workers \cup Updaters |->
                         [got[x] EXCEPT ![a] = turned(got[x][a])]]
    /\ UNCHANGED <<outbox, open, watermark, snapVars, lock, pc, pollVars,
                   jobVars, behind, task, stale, errors>>
    /\ Forget({a}, Buckets)

Target(u) == task[u].event.account

\* deleteSchedulerAccountSnapshot: an error is only logged.
DropCopies(u) ==
    /\ pc[u] = "drop"
    /\ \/ copy' = [copy EXCEPT ![Target(u)] = Nil] /\ UNCHANGED errors
       \/ Fails /\ UNCHANGED copy
    /\ Goto(u, "insert")
    /\ UNCHANGED <<dbVars, watermark, snapVars, lock, pollVars, jobVars, readVars,
                   task, historyVars>>

Return(u) ==
    /\ Goto(u, "idle")
    /\ task' = [task EXCEPT ![u] = Nil]

AfterInsert(u) ==
    IF task[u].sync THEN Goto(u, "read") /\ UNCHANGED task ELSE Return(u)

\* Another event of the account, however old its row was when it was handled,
\* may be less than a second old.
Duplicate(event) ==
    /\ event.kind = "changed"
    /\ \E i \in Visible : /\ outbox[i].kind = "changed"
                          /\ outbox[i].account = event.account

\* enqueueSchedulerOutbox: the insert takes an id; or it fails, which is only
\* logged, or is left out as a duplicate.
Insert(u) ==
    /\ pc[u] = "insert"
    /\ UNCHANGED <<row, changes, watermark, copy, snapVars, lock, pollVars,
                   jobVars, got>>
    /\ \/ /\ outbox' = Append(outbox, task[u].event)
          /\ open' = open \cup {Len(outbox) + 1}
          /\ Goto(u, "commit")
          /\ UNCHANGED <<task, behind, historyVars, errors>>
       \/ /\ \/ Duplicate(task[u].event) /\ UNCHANGED errors
             \/ Fails
          /\ AfterInsert(u)
          /\ Overlook({Target(u)})
          /\ UNCHANGED <<outbox, open>>

\* The transaction of the insert ends.  A poller may have moved the watermark
\* past the id: then no poller lists the event.
Commit(u) ==
    /\ pc[u] = "commit"
    /\ UNCHANGED <<row, outbox, changes, watermark, copy, snapVars, lock,
                   pollVars, jobVars, got, errors>>
    /\ \E i \in open :
          /\ outbox[i] = task[u].event
          /\ open' = open \ {i}
          /\ IF i <= watermark THEN Overlook({Target(u)})
                               ELSE UNCHANGED <<behind, historyVars>>
    /\ AfterInsert(u)

\* syncSchedulerAccountSnapshot reads the row again ...
SyncRead(u) ==
    /\ u \in Updaters /\ pc[u] = "read"
    /\ IF row[Target(u)] = Nil
          THEN Return(u) /\ UNCHANGED readVars
          ELSE /\ Read(u, [None EXCEPT ![Target(u)] = row[Target(u)]])
               /\ Goto(u, "set")
               /\ UNCHANGED task
    /\ UNCHANGED <<dbVars, watermark, copy, snapVars, lock, pollVars, jobVars,
                   historyVars, errors>>

\* ... and writes it; an error is only logged.
SyncSet(u) ==
    /\ u \in Updaters /\ pc[u] = "set"
    /\ UNCHANGED <<dbVars, watermark, snapVars, lock, pollVars, jobVars,
                   late, doubt>>
    /\ \/ copy' = [copy EXCEPT ![Target(u)] = got[u][Target(u)]]
          /\ NoteCopies(u, {Target(u)})
          /\ UNCHANGED errors
       \/ Fails /\ UNCHANGED <<copy, stale>>
    /\ Return(u)
    /\ Unread(u)

-----------------------------------------------------------------------------
(* Handling the outbox (pollOutbox, handleOutboxEvent) *)

\* GetOutboxWatermark and ListAfter.
Poll(w) ==
    /\ pc[w] = "idle"
    /\ \E i \in Visible : i > watermark
    /\ batch' = [batch EXCEPT ![w] = {i \in Visible : i > watermark}]
    /\ seen' = [seen EXCEPT ![w] = {}]
    /\ last' = [last EXCEPT ![w] = Largest(Visible)]
    /\ gap' = [gap EXCEPT ![w] = {i \in open : i < Largest(Visible)}]
    /\ Goto(w, "read")
    /\ UNCHANGED <<dbVars, watermark, copy, snapVars, lock, jobVars, readVars, task,
                   historyVars, errors>>

EndBatch(w) ==
    /\ batch' = [batch EXCEPT ![w] = {}]
    /\ seen' = [seen EXCEPT ![w] = {}]
    /\ last' = [last EXCEPT ![w] = 0]
    /\ gap' = [gap EXCEPT ![w] = {}]

Current(w) == outbox[Least(batch[w])]

\* Mutant of ReadAccount: a cached copy is taken for the account.
ReadCached(w) ==
    /\ w \in Pollers /\ pc[w] = "read"
    /\ LET a == Current(w).account
       IN  Read(w, [None EXCEPT ![a] = IF copy[a] # Nil THEN copy[a]
                                                        ELSE row[a]])
    /\ Goto(w, "set")
    /\ UNCHANGED <<dbVars, watermark, copy, snapVars, lock, pollVars, jobVars,
                   task, historyVars, errors>>

\* GetByID, or the cached copy that UpdateLastUsed modifies.
ReadAccount(w) ==
    /\ w \in Pollers /\ pc[w] = "read"
    /\ LET a == Current(w).account
           value == IF Current(w).kind = "lastUsed" THEN copy[a] ELSE row[a]
       IN  Read(w, [None EXCEPT ![a] = value])
    /\ Goto(w, "set")
    /\ UNCHANGED <<dbVars, watermark, copy, snapVars, lock, pollVars, jobVars,
                   task, historyVars, errors>>

\* The groups of the event, or else those of the row.
EventBuckets(event, value) ==
    IF event.groups # {} \/ value = Nil THEN event.groups ELSE value.in

\* SetAccount, DeleteAccount or UpdateLastUsed; then rebuildByAccount, which
\* leaves out what this batch has rebuilt.
SetAccount(w) ==
    /\ w \in Pollers /\ pc[w] = "set"
    /\ UNCHANGED <<dbVars, watermark, snapVars, lock, batch, last, gap, cur,
                   owner, failed, got, task, errors>>
    /\ LET event   == Current(w)
           a       == event.account
           value   == got[w][a]
           buckets == IF event.kind = "lastUsed" THEN {}
                      ELSE EventBuckets(event, value)
       IN  /\ IF event.kind = "lastUsed" /\ value = Nil
                 THEN UNCHANGED <<copy, stale>>
                 ELSE /\ copy' = [copy EXCEPT ![a] = value]
                      /\ NoteCopies(w, {a})
           /\ todo' = [todo EXCEPT ![w] = buckets \ seen[w]]
           /\ seen' = [seen EXCEPT ![w] = @ \cup buckets]
           /\ IF event.kind = "lastUsed"
                 THEN UNCHANGED <<doubt, late, behind>>
                 ELSE /\ Forget({a}, Buckets \ buckets)
                      /\ behind' = behind \cup OldReads({a})
    /\ Goto(w, "next")

\* Mutant of FinishEvent: an error does not end the batch.
FinishAnyway(w) ==
    /\ w \in Pollers /\ pc[w] = "next"
    /\ todo[w] = {} /\ batch[w] # {}
    /\ LET left == batch[w] \ {Least(batch[w])}
       IN  /\ Goto(w, IF left = {} THEN "mark" ELSE "read")
           /\ batch' = [batch EXCEPT ![w] = left]
    /\ failed' = failed \ {w}
    /\ Unread(w)
    /\ UNCHANGED <<dbVars, watermark, copy, snapVars, lock, seen, last, gap,
                   cur, todo, owner, task, historyVars, errors>>

\* The event is done: the next one of the batch, or the watermark; an error
\* ends the batch and leaves the watermark where it is.
FinishEvent(w) ==
    /\ w \in Pollers /\ pc[w] = "next"
    /\ todo[w] = {} /\ batch[w] # {}
    /\ LET left == batch[w] \ {Least(batch[w])}
       IN  IF w \in failed
              THEN /\ Goto(w, "idle")
                   /\ EndBatch(w)
              ELSE /\ Goto(w, IF left = {} THEN "mark" ELSE "read")
                   /\ batch' = [batch EXCEPT ![w] = left]
                   /\ UNCHANGED <<seen, last, gap>>
    /\ failed' = failed \ {w}
    /\ Unread(w)
    /\ UNCHANGED <<dbVars, watermark, copy, snapVars, lock, cur, todo,
                   owner, task, historyVars, errors>>

\* ListBuckets; the default buckets when none is registered.
AllBuckets ==
    IF \E b \in Buckets : active[b] # Nil
       THEN {b \in Buckets : active[b] # Nil} ELSE Buckets

\* Mutant of Mark: the watermark is the next id to read.
MarkNext(w) ==
    /\ w \in Pollers /\ pc[w] = "mark"
    /\ EndBatch(w)
    /\ UNCHANGED <<dbVars, copy, snapVars, lock, todo, cur, owner, failed,
                   got, task, behind, historyVars, errors>>
    /\ watermark' = last[w] + 1
    /\ Goto(w, "idle")

\* SetOutboxWatermark, whatever is there; then checkOutboxLag, which rebuilds
\* everything when the events were old or many.
Mark(w) ==
    /\ w \in Pollers /\ pc[w] = "mark"
    /\ EndBatch(w)
    /\ UNCHANGED <<dbVars, copy, snapVars, lock, cur, owner, failed,
                   got, task>>
    /\ \/ /\ watermark' = last[w]
          /\ Overlook({outbox[i].account : i \in gap[w] \cap Visible})
          /\ UNCHANGED errors
       \/ Fails /\ UNCHANGED <<watermark, behind, historyVars>>
    /\ \/ Goto(w, "idle") /\ UNCHANGED todo
       \/ /\ Goto(w, "next")
          /\ todo' = [todo EXCEPT ![w] = AllBuckets]

-----------------------------------------------------------------------------
(* Rebuilding buckets (rebuildBucket, SetSnapshot) *)

\* triggerFullRebuild.
FullRebuild(w) ==
    /\ pc[w] = "idle"
    /\ todo' = [todo EXCEPT ![w] = AllBuckets]
    /\ Goto(w, "next")
    /\ UNCHANGED <<dbVars, watermark, copy, snapVars, lock, pollVars, cur,
                   owner, failed, readVars, task, historyVars, errors>>

FinishRebuild(w) ==
    /\ w \in Pollers \cup Rebuilders /\ pc[w] = "next"
    /\ todo[w] = {} /\ batch[w] = {}
    /\ failed' = failed \ {w}
    /\ Goto(w, "idle")
    /\ UNCHANGED <<dbVars, watermark, copy, snapVars, lock, pollVars, cur, todo,
                   owner, readVars, task, historyVars, errors>>

LoadBucket(w, b) ==
    /\ cur' = [cur EXCEPT ![w] = b]
    /\ Read(w, [a \in Accounts |-> IF Belongs(a, b) THEN row[a] ELSE Nil])
    /\ Goto(w, "version")

\* TryLockBucket, then the bucket is read; one that somebody else rebuilds is
\* left to them.
LockBucket(w) ==
    /\ w \in Pollers \cup Rebuilders /\ pc[w] = "next"
    /\ UNCHANGED <<dbVars, watermark, copy, snapVars, pollVars, task>>
    /\ \E b \in todo[w] :
          /\ todo' = [todo EXCEPT ![w] = @ \ {b}]
          /\ \/ /\ lock[b] = Nil
                /\ lock' = [lock EXCEPT ![b] = w]
                /\ owner' = owner \cup {w}
                /\ LoadBucket(w, b)
                /\ UNCHANGED <<failed, historyVars, errors>>
             \/ /\ lock[b] # Nil
                /\ Forget(Accounts, {b})
                /\ UNCHANGED <<pc, lock, cur, owner, readVars, failed, stale, errors>>
             \/ /\ Fails
                /\ failed' = failed \cup {w}
                /\ UNCHANGED <<pc, lock, cur, owner, readVars, historyVars>>

\* The holder of the bucket's lock still runs.
Held(b) ==
    lock[b] \in owner /\ cur[lock[b]] = b

\* Mutant of LockExpires: the lock is taken without a time to live.
LockStays(b) == lock[b] # Nil /\ UNCHANGED vars

\* The lock's 30 seconds are over, whether its holder still runs or not.
LockExpires(b) ==
    /\ lock[b] # Nil
    /\ lock' = [lock EXCEPT ![b] = Nil]
    /\ IF Held(b) THEN Fails ELSE UNCHANGED errors
    /\ UNCHANGED <<dbVars, watermark, copy, snapVars, pc, pollVars, jobVars,
                   readVars, task, historyVars>>

\* GetSnapshot finds no list, an empty one or one with an account whose copy
\* is gone.
Misses(b) ==
    \/ \A a \in Accounts : ~Listed(a, b)
    \/ \E a \in Accounts : Listed(a, b) /\ copy[a] = Nil

\* ListSchedulableAccounts reads the bucket on a miss or an error of Redis,
\* without the bucket's lock.
Fallback(w, b) ==
    /\ pc[w] = "idle"
    /\ (Misses(b) /\ UNCHANGED errors) \/ Fails
    /\ LoadBucket(w, b)
    /\ UNCHANGED <<dbVars, watermark, copy, snapVars, lock, pollVars, todo,
                   owner, failed, task, historyVars>>

\* Its version is above the active one.
HasTicket(w) == w \in tickets[w]

\* These versions are below the active one, or withdrawn.
Void(ws) ==
    tickets' = [w \in Workers |-> IF w \in ws THEN {} ELSE tickets[w] \ ws]

\* SetSnapshot takes its version after the rows were read.
TakeVersion(w) ==
    /\ pc[w] = "version"
    /\ tickets' = [tickets EXCEPT ![w] =
                      {v \in Workers : HasTicket(v) /\ cur[v] = cur[w]}
                      \cup {w}]
    /\ late' = IF \E a \in Accounts : Holds(w, a) # Belongs(a, cur[w])
                  THEN late \cup {w} ELSE late
    /\ Goto(w, "write")
    /\ UNCHANGED <<dbVars, watermark, copy, active, lock, pollVars, jobVars,
                   readVars, task, doubt, stale, errors>>

\* writeAccounts.
WriteCopies(w) ==
    /\ pc[w] = "write"
    /\ UNCHANGED <<dbVars, watermark, snapVars, lock, pollVars, jobVars, readVars,
                   task, late, doubt, errors>>
    /\ LET held == {a \in Accounts : Holds(w, a)}
       IN  /\ copy' = [a \in Accounts |->
                          IF a \in held THEN got[w][a] ELSE copy[a]]
           /\ NoteCopies(w, held)
    /\ Goto(w, "activate")

LeaveBucket(w) ==
    /\ cur' = [cur EXCEPT ![w] = Nil]
    /\ owner' = owner \ {w}
    /\ Unread(w)
    /\ late' = late \ {w}

Resume(w) == Goto(w, IF w \in owner THEN "next" ELSE "idle")

\* UnlockBucket deletes the key, whoever holds it by now.
Release(w) ==
    IF w \in owner THEN lock' = [lock EXCEPT ![cur[w]] = Nil]
                   ELSE UNCHANGED lock

\* activateSnapshotScript: a version below the active one is dropped.  Then
\* the lock is given back.
Activate(w) ==
    /\ pc[w] = "activate"
    /\ UNCHANGED <<dbVars, watermark, copy, pollVars, todo, failed, task,
                   stale>>
    /\ LET b == cur[w]
       IN  \/ /\ HasTicket(w)
              /\ active' = [active EXCEPT ![b] =
                               {a \in Accounts : Holds(w, a)}]
              /\ Void(tickets[w])
              /\ doubt' = {p \in Wrong' :
                              p \in doubt \/ (p[2] = b /\ w \in late)}
           \/ ~HasTicket(w) /\ UNCHANGED <<snapVars, doubt>>
    /\ LeaveBucket(w)
    /\ Resume(w)
    /\ \/ Release(w) /\ UNCHANGED errors
       \/ Fails /\ UNCHANGED lock

\* Its version will never be activated.
Withdraw(w) ==
    /\ Void({w})
    /\ LeaveBucket(w)

\* The load or a write fails; the lock is given back.
RebuildFails(w) ==
    /\ pc[w] \in {"version", "write", "activate"}
    /\ Fails
    /\ Withdraw(w)
    /\ failed' = IF w \in owner THEN failed \cup {w} ELSE failed
    /\ Resume(w)
    /\ Release(w)
    /\ UNCHANGED <<dbVars, watermark, copy, active, pollVars, todo, task, doubt,
                   stale>>

\* A read or a write of the event fails: the batch ends.
EventFails(w) ==
    /\ w \in Pollers /\ pc[w] \in {"read", "set"}
    /\ Fails
    /\ EndBatch(w)
    /\ Unread(w)
    /\ Goto(w, "idle")
    /\ UNCHANGED <<dbVars, watermark, copy, snapVars, lock, jobVars, task, historyVars>>

\* The instance stops: its poller, rebuild or request is gone, a lock stays.
Crash(w) ==
    /\ pc[w] # "idle"
    /\ Fails
    /\ Withdraw(w)
    /\ EndBatch(w)
    /\ todo' = [todo EXCEPT ![w] = {}]
    /\ failed' = failed \ {w}
    /\ Goto(w, "idle")
    /\ UNCHANGED <<dbVars, watermark, copy, active, lock, task, doubt, stale>>

-----------------------------------------------------------------------------

ChangeAccount(u, a) ==
    \/ \E up \in BOOLEAN : SetState(u, a, up)
    \/ \E groups \in SUBSET Buckets : BindGroups(u, a, groups)
    \/ Delete(u, a)

Update(u) ==
    DropCopies(u) \/ Insert(u) \/ Commit(u) \/ SyncRead(u) \/ SyncSet(u)

Work(w) ==
    \/ ReadAccount(w) \/ SetAccount(w) \/ FinishEvent(w) \/ Mark(w)
    \/ FinishRebuild(w) \/ LockBucket(w) \/ TakeVersion(w)
    \/ WriteCopies(w) \/ Activate(w)

Act ==
    \/ \E u \in Updaters : Update(u) \/ \E a \in Accounts : ChangeAccount(u, a)
    \/ \E a \in Accounts : UpdateLastUsed(a)
    \/ \E w \in Pollers : Poll(w) \/ EventFails(w)
    \/ \E w \in Rebuilders : FullRebuild(w)
    \/ \E w \in Readers, b \in Buckets : Fallback(w, b)
    \/ \E w \in Workers : Work(w) \/ RebuildFails(w) \/ Crash(w)
    \/ \E b \in Buckets : LockExpires(b)

Next == Act \/ \E a \in Accounts : TimePasses(a)

Spec == Init /\ [][Next]_vars

\* Goroutines run, the ticker of the full rebuild goes on, and a lock's time
\* passes.
FairSpec ==
    /\ Spec
    /\ \A w \in Workers : WF_vars(Work(w))
    /\ \A w \in Rebuilders : WF_vars(FullRebuild(w))
    /\ \A b \in Buckets : WF_vars(LockExpires(b))

-----------------------------------------------------------------------------
(* Properties *)

\* No change is on its way to the cache.
Quiet ==
    /\ \A w \in Workers \cup Updaters : pc[w] = "idle"
    /\ \A i \in Visible : i <= watermark

\* When the outbox is drained, a bucket lists exactly the group's schedulable
\* accounts, unless a change was overlooked: its event was not inserted, was
\* a duplicate of an older one, was committed below the watermark or named
\* other groups; or the rebuild met the bucket's lock, or a load that was
\* older took a newer version; or it was the clock's, which writes none.
ListsFollowChanges == Quiet => Wrong \subseteq doubt

\* The same for the accounts' copies: a cached account is the row, unless its
\* last event was overlooked or an older read was written after a newer one.
CopiesFollowChanges == Quiet => Outdated \subseteq stale

\* Every wrong entry is repaired: once accounts no longer change, the
\* rebuilds of the ticker leave lists that are right for good.
ListsSettle ==
    \A b \in Buckets :
        <>[](active[b] # Nil => active[b] = Members(b))
=============================================================================
