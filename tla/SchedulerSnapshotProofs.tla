----------------------- MODULE SchedulerSnapshotProofs -----------------------
(***************************************************************************)
(* Proofs about SchedulerSnapshot for any number of accounts, groups,      *)
(* instances, requests and updates.  What a list, a rebuild, a copy or a   *)
(* goroutine holds of an account is old when it lacks the account's last   *)
(* change and is not known to have missed it.  IInv says that what is old  *)
(* is announced: by an update that has still to write its event, or by a   *)
(* visible event above the watermark.  It stays so when a poller moves the *)
(* watermark, because what its batch has handled is not old any more.      *)
(***************************************************************************)
EXTENDS SchedulerSnapshot, WellFoundedInduction, TLAPS

-----------------------------------------------------------------------------
(* The inductive invariant *)

\* The worker has loaded a bucket and not yet left it.
Rebuilding(w) == pc[w] \in {"version", "write", "activate"}

\* A poller has a batch until it has moved the watermark.
InBatch(w) == last[w] # 0

\* Where a worker is in its work, and what it holds there.  A poller rebuilds
\* under the bucket's lock; who does not is a request that misses.
Stage(w) ==
    /\ InBatch(w) => w \in Pollers /\ pc[w] # "idle"
    /\ pc[w] \in {"read", "set", "mark"} => InBatch(w)
    /\ InBatch(w) /\ pc[w] # "mark" => batch[w] # {}
    /\ batch[w] # {} => InBatch(w)
    /\ pc[w] = "mark" => batch[w] = {} /\ todo[w] = {} /\ w \notin failed
    /\ pc[w] \in {"idle", "read", "set"} => todo[w] = {}
    /\ Rebuilding(w) => cur[w] \in Buckets /\ (w \in owner \/ todo[w] = {})
    /\ Rebuilding(w) /\ InBatch(w) => w \in owner
    /\ \A i \in open : InBatch(w) => i > last[w] \/ i \in gap[w]

StageInv == \A w \in Workers : Stage(w)

\* An update knows its task until it returns.
TaskInv ==
    \A u \in Updaters :
        pc[u] # "idle" => task[u] \in Tasks /\ task[u].event.kind # "lastUsed"

\* A version is of a rebuild that has still to activate it, and is above
\* versions of the same bucket only.
TicketInv ==
    \A w \in Workers : \A v \in tickets[w] :
        /\ w \in tickets[w] /\ v \in tickets[v]
        /\ pc[v] \in {"write", "activate"} /\ cur[v] = cur[w]

\* The versions of a bucket are ordered.
OrderInv ==
    \A v, w \in Workers :
        cur[v] = cur[w] => \/ tickets[v] \subseteq tickets[w]
                           \/ tickets[w] \subseteq tickets[v]

\* Somebody has still to announce a change of the account.
Pending(a) ==
    \E u \in Updaters :
        pc[u] \in {"drop", "insert", "commit"} /\ Target(u) = a

\* A visible event that makes a poller read the account.
Announces(i, a) ==
    i \in Visible /\ outbox[i].account = a /\ outbox[i].kind # "lastUsed"

\* The account is announced among the events S, or will be.
Told(S, a) == Pending(a) \/ \E i \in S : Announces(i, a)

\* What lacks the account's last change and is not known to have missed it: a
\* list, a rebuild with a version, a copy, and rows that somebody holds.
OldList(a, b) == <<a, b>> \in Wrong \ doubt

OldJob(w, a, b) ==
    /\ w \in tickets[w] /\ cur[w] = b
    /\ Holds(w, a) # Belongs(a, b)
    /\ w \notin late

OldCopy(a) == a \in Outdated \ stale

OldRead(x, a) == got[x][a] \notin {Nil, row[a]} /\ x \notin behind

\* What is old of an account is announced above the watermark.
Above == {i \in Visible : i > watermark}

ListOld(a, b) == OldList(a, b) \/ \E w \in Workers : OldJob(w, a, b)

CopyOld(a) == OldCopy(a) \/ \E x \in Workers \cup Updaters : OldRead(x, a)

\* A list entry, or a rebuild with a version, that is old is announced.
ListInv ==
    \A a \in Accounts, b \in Buckets : ListOld(a, b) => Told(Above, a)

\* A copy, or rows that somebody may still write to it, that are old are
\* announced.
CopyInv ==
    \A a \in Accounts : CopyOld(a) => Told(Above, a)

\* The events that w's batch does not have, and those it has still to handle.
Unlisted(w) == {i \in Visible : i > last[w] \/ i \in gap[w]}

Rest(w) == {i \in batch[w] : \E j \in batch[w] : j < i}

Left(w) == IF pc[w] \in {"read", "set"} THEN batch[w] ELSE Rest(w)

\* w has still to read the bucket.
Due(w, b) == b \in todo[w] \/ (cur[w] = b /\ pc[w] = "version")

\* What is old once w's own rebuild of the bucket, if it has one, is active.
OldFor(w, a, b) ==
    \/ \E v \in Workers : OldJob(v, a, b) /\ w \in tickets[v]
    \/ /\ ~ (cur[w] = b /\ HasTicket(w))
       /\ ListOld(a, b)

\* The events for which the bucket has still to be rebuilt: a batch rebuilds a
\* bucket once, at the first of its events that names it.
Heard(w, b) == Unlisted(w) \cup (IF b \in seen[w] THEN {} ELSE Left(w))

\* What a batch has handled is not old: the same with the events the batch
\* leaves, and without the buckets it still rebuilds, for the watermark will
\* move past the others.
BatchListInv ==
    \A w \in Pollers, a \in Accounts, b \in Buckets :
        InBatch(w) /\ w \notin failed /\ ~Due(w, b) /\ OldFor(w, a, b)
            => Told(Heard(w, b), a)

\* The same for copies: an event whose row is read is done with all but the
\* read itself.
BatchCopyInv ==
    \A w \in Pollers, a \in Accounts :
        InBatch(w) /\ w \notin failed =>
           /\ CopyOld(a) => Told(Unlisted(w) \cup Left(w), a)
           /\ pc[w] = "set" /\ OldRead(w, a) => Told(Unlisted(w) \cup Rest(w), a)

\* The inductive invariant.
IInv ==
    /\ TypeOK
    /\ StageInv
    /\ TaskInv
    /\ TicketInv
    /\ OrderInv
    /\ ListInv
    /\ CopyInv
    /\ BatchListInv
    /\ BatchCopyInv

-----------------------------------------------------------------------------
(* Numbers of events, rows and tasks *)

\* A set of event ids that is not empty has a least one.
LEMMA LeastIs ==
    ASSUME NEW S \in SUBSET Nat, S # {}
    PROVE  Least(S) \in S /\ \A j \in S : Least(S) <= j
<1>1. PICK x \in S : \A y \in S : ~(<<y, x>> \in OpToRel(<, Nat))
  BY WFMin, NatLessThanWellFounded, Zenon
<1>2. \A y \in S : ~(y < x)
  BY <1>1, Zenon DEF OpToRel
<1>3. \E i \in S : \A j \in S : i <= j
  BY <1>2
<1> QED
  BY <1>3, Zenon DEF Least

\* A set of event ids up to a bound that is not empty has a last one.
LEMMA LargestIs ==
    ASSUME NEW n \in Nat, NEW S \in SUBSET (1 .. n), S # {}
    PROVE  Largest(S) \in S /\ \A j \in S : Largest(S) >= j
<1> DEFINE T == {i \in Nat : i <= n /\ n - i \in S}
<1>1. T \in SUBSET Nat /\ T # {}
  <2>1. PICK s \in S : TRUE
    OBVIOUS
  <2>2. n - s \in T
    BY <2>1
  <2> QED
    BY <2>2
<1>2. Least(T) \in T /\ \A j \in T : Least(T) <= j
  BY <1>1, LeastIs
<1>3. n - Least(T) \in S
  BY <1>2
<1>4. \A j \in S : n - Least(T) >= j
  <2>1. SUFFICES ASSUME NEW j \in S PROVE n - Least(T) >= j
    OBVIOUS
  <2>2. n - j \in T
    OBVIOUS
  <2> QED
    BY <1>2, <2>2
<1>5. \E i \in S : \A j \in S : i >= j
  BY <1>3, <1>4
<1> QED
  BY <1>5, Zenon DEF Largest

\* A row with another state, or in other groups, is a row.
LEMMA StateIsRow ==
    ASSUME NEW r \in Rows, NEW up \in BOOLEAN, NEW g \in SUBSET Buckets
    PROVE  /\ [r EXCEPT !.up = up] \in Rows
           /\ [r EXCEPT !.in = g] \in Rows
           /\ r.in \in SUBSET Buckets
BY DEF Rows

\* An event names an account and groups.
LEMMA EventIs ==
    ASSUME NEW e \in Events
    PROVE  /\ e.account \in Accounts
           /\ e.groups \in SUBSET Buckets
BY DEF Events

\* What Then leaves to an update is a task, and no event of UpdateLastUsed.
LEMMA TaskIs ==
    ASSUME NEW kind \in {"changed", "groups"}, NEW a \in Accounts,
           NEW groups \in SUBSET Buckets, NEW sync \in BOOLEAN
    PROVE  LET event == [kind |-> kind, account |-> a, groups |-> groups]
           IN  /\ event \in Events
               /\ [event |-> event, sync |-> sync] \in Tasks
               /\ [event |-> event, sync |-> sync].event = event
               /\ event.kind # "lastUsed"
BY DEF Events, Tasks

\* The event of UpdateLastUsed is an event.
LEMMA LastUsedIs ==
    ASSUME NEW a \in Accounts
    PROVE  [kind |-> "lastUsed", account |-> a, groups |-> {}] \in Events
BY DEF Events

\* A task has an event, and says whether the copy is synced.
LEMMA TaskEvent ==
    ASSUME NEW t \in Tasks
    PROVE  t.event \in Events /\ t.sync \in BOOLEAN
BY DEF Tasks

\* An event inserted into the outbox is its last; the others stay.
LEMMA Lengths ==
    ASSUME NEW s \in Seq(Events), NEW e \in Events
    PROVE  /\ Append(s, e) \in Seq(Events)
           /\ Len(Append(s, e)) = Len(s) + 1
           /\ Len(s) \in Nat
           /\ \A i \in 1 .. Len(s) : Append(s, e)[i] = s[i] /\ s[i] \in Events
           /\ Append(s, e)[Len(s) + 1] = e
OBVIOUS

-----------------------------------------------------------------------------
(* Types *)

\* Forget notes pairs of accounts and buckets, and rebuilds.
LEMMA ForgetType ==
    ASSUME TypeOK, NEW as, NEW bs, Forget(as, bs)
    PROVE  doubt' \in SUBSET (Accounts \X Buckets) /\ late' \in SUBSET Workers
<1>1. {p \in Wrong' : p[1] \in as /\ p[2] \in bs} \subseteq Accounts \X Buckets
  BY DEF Wrong
<1>2. OldJobs(as, bs) \subseteq Workers
  BY DEF OldJobs
<1> QED
  BY <1>1, <1>2 DEF Forget, TypeOK

\* Overlook notes entries, rebuilds, copies and readers.
LEMMA OverlookType ==
    ASSUME TypeOK, NEW as, Overlook(as)
    PROVE  /\ doubt' \in SUBSET (Accounts \X Buckets)
           /\ late' \in SUBSET Workers
           /\ stale' \in SUBSET Accounts
           /\ behind' \in SUBSET (Workers \cup Updaters)
<1>1. Outdated' \subseteq Accounts
  BY DEF Outdated
<1>2. OldReads(as) \subseteq Workers \cup Updaters
  BY DEF OldReads
<1>3. Forget(as, Buckets)
  BY DEF Overlook
<1> QED
  BY <1>1, <1>2, <1>3, ForgetType DEF Overlook, TypeOK

\* A change leaves rows, and one change less.
LEMMA ChangeType ==
    ASSUME TypeOK, NEW u \in Updaters, NEW a \in Accounts,
           NEW new \in Rows \cup {Nil}, Change(u, a, new)
    PROVE  /\ row' \in [Accounts -> Rows \cup {Nil}]
           /\ changes' \in 0 .. MaxChanges
           /\ row[a] \in Rows
<1>1. row[a] \in Rows
  BY DEF Change, TypeOK
<1>2. changes' \in 0 .. MaxChanges
  BY ConstantsAssumption DEF Change, TypeOK
<1>3. row' \in [Accounts -> Rows \cup {Nil}]
  BY DEF Change, TypeOK
<1> QED
  BY <1>1, <1>2, <1>3

\* What is left to do after the commit is a task and a step of an update.
LEMMA ThenType ==
    ASSUME TypeOK, NEW u \in Updaters, NEW next \in {"insert", "drop"},
           NEW kind \in {"changed", "groups"}, NEW a \in Accounts,
           NEW groups \in SUBSET Buckets, NEW sync \in BOOLEAN,
           Then(u, next, kind, a, groups, sync)
    PROVE  /\ task' \in [Updaters -> Tasks \cup {Nil}]
           /\ pc' \in [Workers \cup Updaters -> WorkerPCs \cup UpdaterPCs]
           /\ \A w \in Workers : pc'[w] = pc[w]
           /\ \A v \in Updaters : pc'[v] \in UpdaterPCs
           /\ UNCHANGED <<behind, late, doubt, stale>>
<1>1. task' \in [Updaters -> Tasks \cup {Nil}]
  <2> DEFINE t == [event |-> [kind |-> kind, account |-> a, groups |-> groups],
                   sync |-> sync]
  <2>1. t \in Tasks
    BY TaskIs
  <2>2. task' = [task EXCEPT ![u] = t]
    BY DEF Then
  <2> HIDE DEF t
  <2> QED
    BY <2>1, <2>2 DEF TypeOK
<1>2. pc' = [pc EXCEPT ![u] = next]
  BY DEF Then, Goto
<1>3. UNCHANGED <<behind, late, doubt, stale>>
  BY DEF Then, historyVars
<1> QED
  BY <1>1, <1>2, <1>3, ConstantsAssumption DEF TypeOK, UpdaterPCs

\* SetState, BindGroups and Delete keep the types.
LEMMA ChangeAccountType ==
    ASSUME TypeOK, NEW u \in Updaters, NEW a \in Accounts, ChangeAccount(u, a)
    PROVE  TypeOK'
<1>1. ASSUME NEW new, Change(u, a, new)
      PROVE  UNCHANGED <<outbox, open, watermark, copy, active, tickets, lock,
                         batch, seen, last, gap, cur, todo, owner, failed, got,
                         errors>>
  BY <1>1, Zenon DEF Change, snapVars, pollVars, jobVars
<1>2. ASSUME NEW up \in BOOLEAN, SetState(u, a, up) PROVE TypeOK'
  <2>1. row[a] \in Rows
    BY <1>2 DEF SetState, Change, TypeOK
  <2> DEFINE new == [row[a] EXCEPT !.up = up]
  <2>2. new \in Rows \cup {Nil} /\ Change(u, a, new)
    BY <1>2, <2>1, StateIsRow DEF SetState
  <2> HIDE DEF new
  <2>3. PICK sync \in BOOLEAN : Then(u, "insert", "changed", a, {}, sync)
    BY <1>2, Zenon DEF SetState
  <2>4. /\ task' \in [Updaters -> Tasks \cup {Nil}]
        /\ pc' \in [Workers \cup Updaters -> WorkerPCs \cup UpdaterPCs]
        /\ \A w \in Workers : pc'[w] = pc[w]
        /\ \A v \in Updaters : pc'[v] \in UpdaterPCs
        /\ UNCHANGED <<behind, late, doubt, stale>>
    BY <2>3, ThenType, Zenon
  <2> QED
    BY <1>1, <2>2, <2>4, ChangeType DEF TypeOK
<1>3. ASSUME NEW groups \in SUBSET Buckets, BindGroups(u, a, groups)
      PROVE  TypeOK'
  <2>1. row[a] \in Rows
    BY <1>3 DEF BindGroups, Change, TypeOK
  <2> DEFINE new == [row[a] EXCEPT !.in = groups]
             named == row[a].in \cup groups
  <2>2. new \in Rows \cup {Nil} /\ named \in SUBSET Buckets
    BY <2>1, StateIsRow
  <2>3. /\ Change(u, a, new)
        /\ \/ Then(u, "insert", "groups", a, named, FALSE)
           \/ Overlook({a}) /\ UNCHANGED <<pc, task>>
    BY <1>3 DEF BindGroups
  <2> HIDE DEF new, named
  <2>4. CASE Then(u, "insert", "groups", a, named, FALSE)
    BY <1>1, <2>2, <2>3, <2>4, ChangeType, ThenType DEF TypeOK
  <2>5. CASE Overlook({a}) /\ UNCHANGED <<pc, task>>
    BY <1>1, <2>2, <2>3, <2>5, ChangeType, OverlookType DEF TypeOK
  <2> QED
    BY <2>3, <2>4, <2>5
<1>4. ASSUME Delete(u, a) PROVE TypeOK'
  <2>1. Change(u, a, Nil) /\ Then(u, "drop", "changed", a, row[a].in, FALSE)
    BY <1>4 DEF Delete
  <2>2. row[a].in \in SUBSET Buckets
    BY <2>1, StateIsRow, ChangeType
  <2> DEFINE named == row[a].in
  <2> HIDE DEF named
  <2> QED
    BY <1>1, <2>1, <2>2, ChangeType, ThenType DEF TypeOK, named
<1> QED
  BY <1>2, <1>3, <1>4, Zenon DEF ChangeAccount

\* The outbox grows by an event; the ids of batches stay ids.
LEMMA AppendType ==
    ASSUME TypeOK, NEW e \in Events, outbox' = Append(outbox, e),
           UNCHANGED <<watermark, pollVars>>
    PROVE  /\ outbox' \in Seq(Events)
           /\ Len(outbox') = Len(outbox) + 1
           /\ Len(outbox) \in Nat
           /\ open \cup {Len(outbox) + 1} \in SUBSET (1 .. Len(outbox'))
           /\ watermark' \in 0 .. Len(outbox')
           /\ batch' \in [Workers -> SUBSET (1 .. Len(outbox'))]
           /\ last' \in [Workers -> 0 .. Len(outbox')]
           /\ gap' \in [Workers -> SUBSET (1 .. Len(outbox'))]
           /\ seen' = seen
<1>1. /\ outbox' \in Seq(Events)
      /\ Len(outbox') = Len(outbox) + 1
      /\ Len(outbox) \in Nat
  BY Lengths DEF TypeOK
<1>2. 1 .. Len(outbox) \subseteq 1 .. Len(outbox')
  BY <1>1
<1>3. 0 .. Len(outbox) \subseteq 0 .. Len(outbox')
  BY <1>1
<1>4. open \cup {Len(outbox) + 1} \in SUBSET (1 .. Len(outbox'))
  <2>1. open \subseteq 1 .. Len(outbox)
    BY DEF TypeOK
  <2>2. Len(outbox) + 1 \in 1 .. Len(outbox')
    BY <1>1
  <2> QED
    BY <1>2, <2>1, <2>2
<1>5. watermark' \in 0 .. Len(outbox') /\ last' \in [Workers -> 0 .. Len(outbox')]
  BY <1>3 DEF TypeOK, pollVars
<1>6. /\ batch' \in [Workers -> SUBSET (1 .. Len(outbox'))]
      /\ gap' \in [Workers -> SUBSET (1 .. Len(outbox'))]
      /\ seen' = seen
  BY <1>2 DEF TypeOK, pollVars
<1> QED
  BY <1>1, <1>4, <1>5, <1>6

\* A step goes on with a step of its worker or update.
LEMMA GotoType ==
    ASSUME TypeOK, NEW x \in Workers \cup Updaters, NEW next, Goto(x, next),
           x \in Workers => next \in WorkerPCs,
           x \in Updaters => next \in UpdaterPCs
    PROVE  /\ pc' \in [Workers \cup Updaters -> WorkerPCs \cup UpdaterPCs]
           /\ \A w \in Workers : pc'[w] \in WorkerPCs
           /\ \A u \in Updaters : pc'[u] \in UpdaterPCs
BY ConstantsAssumption DEF TypeOK, Goto

\* Who has read nothing has read a row of no account.
LEMMA NoneIs == None \in [Accounts -> Rows \cup {Nil}]
BY DEF None

\* Read keeps the types.
LEMMA ReadType ==
    ASSUME TypeOK, NEW x \in Workers \cup Updaters,
           NEW rows \in [Accounts -> Rows \cup {Nil}], Read(x, rows)
    PROVE  /\ got' \in [Workers \cup Updaters -> [Accounts -> Rows \cup {Nil}]]
           /\ behind' \in SUBSET (Workers \cup Updaters)
<1>1. got' = [got EXCEPT ![x] = rows]
  BY Zenon DEF Read
<1>2. behind' \in {behind \cup {x}, behind \ {x}}
  BY DEF Read
<1> QED
  BY <1>1, <1>2 DEF TypeOK

\* Unread keeps the types.
LEMMA UnreadType ==
    ASSUME TypeOK, NEW x \in Workers \cup Updaters, Unread(x)
    PROVE  /\ got' \in [Workers \cup Updaters -> [Accounts -> Rows \cup {Nil}]]
           /\ behind' \in SUBSET (Workers \cup Updaters)
<1>1. got' = [got EXCEPT ![x] = None] /\ behind' = behind \ {x}
  BY Zenon DEF Unread
<1> QED
  BY <1>1, NoneIs DEF TypeOK

\* NoteCopies notes accounts.
LEMMA NoteCopiesType ==
    ASSUME NEW x, NEW as, NoteCopies(x, as)
    PROVE  stale' \in SUBSET Accounts
BY DEF NoteCopies, Outdated

\* A failing call is counted up to its bound.
LEMMA FailsType ==
    ASSUME TypeOK, Fails \/ UNCHANGED errors
    PROVE  errors' \in 0 .. MaxErrors
BY ConstantsAssumption DEF Fails, TypeOK

\* Return keeps the types of a step and a task.
LEMMA ReturnType ==
    ASSUME TypeOK, NEW u \in Updaters, Return(u)
    PROVE  /\ pc' \in [Workers \cup Updaters -> WorkerPCs \cup UpdaterPCs]
           /\ \A w \in Workers : pc'[w] \in WorkerPCs
           /\ \A v \in Updaters : pc'[v] \in UpdaterPCs
           /\ task' \in [Updaters -> Tasks \cup {Nil}]
<1>1. u \notin Workers
  BY ConstantsAssumption
<1>2. Goto(u, "idle") /\ task' = [task EXCEPT ![u] = Nil]
  BY DEF Return
<1>3. /\ pc' \in [Workers \cup Updaters -> WorkerPCs \cup UpdaterPCs]
      /\ \A w \in Workers : pc'[w] \in WorkerPCs
      /\ \A v \in Updaters : pc'[v] \in UpdaterPCs
  BY <1>1, <1>2, GotoType DEF UpdaterPCs
<1> QED
  BY <1>2, <1>3 DEF TypeOK

\* What follows the insert is a step of an update.
LEMMA AfterInsertType ==
    ASSUME TypeOK, NEW u \in Updaters, AfterInsert(u)
    PROVE  /\ pc' \in [Workers \cup Updaters -> WorkerPCs \cup UpdaterPCs]
           /\ \A w \in Workers : pc'[w] \in WorkerPCs
           /\ \A v \in Updaters : pc'[v] \in UpdaterPCs
           /\ task' \in [Updaters -> Tasks \cup {Nil}]
<1>1. CASE Return(u)
  BY <1>1, ReturnType
<1>2. CASE Goto(u, "read") /\ UNCHANGED task
  <2>1. u \notin Workers
    BY ConstantsAssumption
  <2> QED
    BY <1>2, <2>1, GotoType DEF UpdaterPCs, TypeOK
<1> QED
  BY <1>1, <1>2 DEF AfterInsert

\* An update is of an account.
LEMMA TargetIs ==
    ASSUME TaskInv, NEW u \in Updaters, pc[u] # "idle"
    PROVE  /\ task[u].event \in Events
           /\ Target(u) \in Accounts
           /\ Target(u) = task[u].event.account
           /\ task[u].event.kind # "lastUsed"
BY TaskEvent, EventIs DEF TaskInv, Target

\* What is overlooked of the account of a task, with the account as a name.
LEMMA OverlookTarget ==
    ASSUME NEW u, Overlook({Target(u)})
    PROVE  \E a : a = Target(u) /\ Overlook({a})
<1>1. PICK a : a = Target(u)
  OBVIOUS
<1>2. Overlook({a})
  BY <1>1 DEF Overlook, Forget, OldJobs, OldReads
<1> QED
  BY <1>1, <1>2

\* The steps of an update after the commit keep the types.
LEMMA UpdateType ==
    ASSUME TypeOK, TaskInv, NEW u \in Updaters, Update(u)
    PROVE  TypeOK'
<1>0. u \notin Workers /\ u \in Workers \cup Updaters
  BY ConstantsAssumption
<1>1. ASSUME DropCopies(u) PROVE TypeOK'
  <2>1. Target(u) \in Accounts
    BY <1>1, TargetIs DEF DropCopies
  <2>2. copy' \in [Accounts -> Rows \cup {Nil}] /\ errors' \in 0 .. MaxErrors
    BY <1>1, <2>1, FailsType DEF DropCopies, TypeOK
  <2>3. /\ pc' \in [Workers \cup Updaters -> WorkerPCs \cup UpdaterPCs]
        /\ \A w \in Workers : pc'[w] \in WorkerPCs
        /\ \A v \in Updaters : pc'[v] \in UpdaterPCs
    BY <1>0, <1>1, GotoType DEF DropCopies, UpdaterPCs
  <2>4. UNCHANGED <<row, outbox, open, watermark, active, tickets, lock, batch,
                    cur, todo, seen, last, gap, got, owner, failed, task, behind,
                    late, doubt, stale, changes>>
    BY <1>1, Zenon DEF DropCopies, dbVars, snapVars, pollVars, jobVars,
       readVars, historyVars
  <2> QED
    BY <2>2, <2>3, <2>4 DEF TypeOK
<1>2. ASSUME Insert(u) PROVE TypeOK'
  <2>1. UNCHANGED <<row, watermark, copy, active, tickets, lock, batch,
                    cur, todo, seen, last, gap, got, owner, failed, changes>>
    BY <1>2, Zenon DEF Insert, snapVars, pollVars, jobVars
  <2>2. CASE /\ outbox' = Append(outbox, task[u].event)
             /\ open' = open \cup {Len(outbox) + 1}
             /\ Goto(u, "commit")
             /\ UNCHANGED <<task, behind, historyVars, errors>>
    <3>1. task[u].event \in Events
      BY <1>2, TargetIs DEF Insert
    <3>2. /\ outbox' \in Seq(Events)
          /\ open' \in SUBSET (1 .. Len(outbox'))
          /\ watermark' \in 0 .. Len(outbox')
          /\ batch' \in [Workers -> SUBSET (1 .. Len(outbox'))]
          /\ last' \in [Workers -> 0 .. Len(outbox')]
          /\ gap' \in [Workers -> SUBSET (1 .. Len(outbox'))]
      BY <2>1, <2>2, <3>1, AppendType DEF pollVars
    <3>3. /\ pc' \in [Workers \cup Updaters -> WorkerPCs \cup UpdaterPCs]
          /\ \A w \in Workers : pc'[w] \in WorkerPCs
          /\ \A v \in Updaters : pc'[v] \in UpdaterPCs
      BY <1>0, <2>2, GotoType DEF UpdaterPCs
    <3>4. UNCHANGED <<task, behind, late, doubt, stale, errors>>
      BY <2>2 DEF historyVars
    <3> QED
      BY <2>1, <3>2, <3>3, <3>4 DEF TypeOK
  <2>3. CASE /\ Fails \/ UNCHANGED errors
             /\ AfterInsert(u)
             /\ Overlook({Target(u)})
             /\ UNCHANGED <<outbox, open>>
    <3>1. /\ doubt' \in SUBSET (Accounts \X Buckets)
          /\ late' \in SUBSET Workers
          /\ stale' \in SUBSET Accounts
          /\ behind' \in SUBSET (Workers \cup Updaters)
      BY <2>3, OverlookTarget, OverlookType, Zenon
    <3>2. errors' \in 0 .. MaxErrors
      BY <2>3, FailsType
    <3> QED
      BY <2>1, <2>3, <3>1, <3>2, AfterInsertType DEF TypeOK
  <2> QED
    BY <1>2, <2>2, <2>3 DEF Insert
<1>3. ASSUME Commit(u) PROVE TypeOK'
  <2>1. UNCHANGED <<row, outbox, watermark, copy, active, tickets, lock, batch,
                    cur, todo, seen, last, gap, got, owner, failed, changes,
                    errors>>
    BY <1>3, Zenon DEF Commit, snapVars, pollVars, jobVars
  <2>2. open' \in SUBSET (1 .. Len(outbox)) /\ AfterInsert(u)
    BY <1>3 DEF Commit, TypeOK
  <2>3. \/ Overlook({Target(u)})
        \/ UNCHANGED <<behind, late, doubt, stale>>
    BY <1>3, Zenon DEF Commit, historyVars
  <2>4. /\ doubt' \in SUBSET (Accounts \X Buckets)
        /\ late' \in SUBSET Workers
        /\ stale' \in SUBSET Accounts
        /\ behind' \in SUBSET (Workers \cup Updaters)
    <3>1. CASE Overlook({Target(u)})
      BY <3>1, OverlookTarget, OverlookType, Zenon
    <3>2. CASE UNCHANGED <<behind, late, doubt, stale>>
      BY <3>2 DEF TypeOK
    <3> QED
      BY <2>3, <3>1, <3>2
  <2> QED
    BY <2>1, <2>2, <2>4, AfterInsertType DEF TypeOK
<1>4. ASSUME SyncRead(u) PROVE TypeOK'
  <2>1. UNCHANGED <<row, outbox, open, changes, watermark, copy, active, tickets,
                    lock, batch, cur, todo, seen, last, gap, owner, failed,
                    late, doubt, stale, errors>>
    BY <1>4, Zenon DEF SyncRead, dbVars, snapVars, pollVars, jobVars, historyVars
  <2>2. CASE Return(u) /\ UNCHANGED readVars
    BY <2>1, <2>2, ReturnType DEF TypeOK, readVars
  <2>3. CASE /\ Read(u, [None EXCEPT ![Target(u)] = row[Target(u)]])
             /\ Goto(u, "set")
             /\ UNCHANGED task
    <3>1. Target(u) \in Accounts
      BY <1>4, TargetIs DEF SyncRead
    <3> DEFINE rows == [None EXCEPT ![Target(u)] = row[Target(u)]]
    <3>2. rows \in [Accounts -> Rows \cup {Nil}]
      BY <3>1, NoneIs DEF TypeOK
    <3> HIDE DEF rows
    <3>3. /\ got' \in [Workers \cup Updaters -> [Accounts -> Rows \cup {Nil}]]
          /\ behind' \in SUBSET (Workers \cup Updaters)
      BY <1>0, <2>3, <3>2, ReadType DEF rows
    <3>4. /\ pc' \in [Workers \cup Updaters -> WorkerPCs \cup UpdaterPCs]
          /\ \A w \in Workers : pc'[w] \in WorkerPCs
          /\ \A v \in Updaters : pc'[v] \in UpdaterPCs
      BY <1>0, <2>3, GotoType DEF UpdaterPCs
    <3> QED
      BY <2>1, <2>3, <3>3, <3>4 DEF TypeOK
  <2> QED
    BY <1>4, <2>2, <2>3 DEF SyncRead
<1>5. ASSUME SyncSet(u) PROVE TypeOK'
  <2>1. UNCHANGED <<row, outbox, open, changes, watermark, active, tickets,
                    lock, batch, cur, todo, seen, last, gap, owner, failed,
                    late, doubt>>
    BY <1>5, Zenon DEF SyncSet, dbVars, snapVars, pollVars, jobVars
  <2>2. Target(u) \in Accounts
    BY <1>5, TargetIs DEF SyncSet
  <2>3. got[u][Target(u)] \in Rows \cup {Nil}
    BY <1>0, <2>2 DEF TypeOK
  <2>4. copy' \in [Accounts -> Rows \cup {Nil}] /\ stale' \in SUBSET Accounts
        /\ errors' \in 0 .. MaxErrors
    BY <1>5, <2>2, <2>3, NoteCopiesType, FailsType DEF SyncSet, TypeOK
  <2>5. Return(u) /\ Unread(u)
    BY <1>5 DEF SyncSet
  <2> QED
    BY <1>0, <2>1, <2>4, <2>5, ReturnType, UnreadType DEF TypeOK
<1> QED
  BY <1>1, <1>2, <1>3, <1>4, <1>5, Zenon DEF Update

\* GotoType for a worker.
LEMMA WorkerGotoType ==
    ASSUME TypeOK, NEW w \in Workers, NEW next \in WorkerPCs, Goto(w, next)
    PROVE  /\ pc' \in [Workers \cup Updaters -> WorkerPCs \cup UpdaterPCs]
           /\ \A v \in Workers : pc'[v] \in WorkerPCs
           /\ \A u \in Updaters : pc'[u] \in UpdaterPCs
BY ConstantsAssumption, GotoType

\* The end of a batch keeps the types.
LEMMA EndBatchType ==
    ASSUME TypeOK, NEW w \in Workers, EndBatch(w)
    PROVE  /\ batch' \in [Workers -> SUBSET (1 .. Len(outbox))]
           /\ seen' \in [Workers -> SUBSET Buckets]
           /\ last' \in [Workers -> 0 .. Len(outbox)]
           /\ gap' \in [Workers -> SUBSET (1 .. Len(outbox))]
<1>1. 0 \in 0 .. Len(outbox)
  BY DEF TypeOK
<1> QED
  BY <1>1 DEF EndBatch, TypeOK

\* The end of a rebuild keeps the types.
LEMMA LeaveBucketType ==
    ASSUME TypeOK, NEW w \in Workers, LeaveBucket(w)
    PROVE  /\ cur' \in [Workers -> Buckets \cup {Nil}]
           /\ owner' \in SUBSET Workers
           /\ late' \in SUBSET Workers
           /\ got' \in [Workers \cup Updaters -> [Accounts -> Rows \cup {Nil}]]
           /\ behind' \in SUBSET (Workers \cup Updaters)
BY UnreadType DEF LeaveBucket, TypeOK

\* Void keeps the types.
LEMMA VoidType ==
    ASSUME TypeOK, NEW ws, Void(ws)
    PROVE  tickets' \in [Workers -> SUBSET Workers]
BY DEF Void, TypeOK

\* UnlockBucket keeps the types.
LEMMA ReleaseType ==
    ASSUME TypeOK, NEW w, Release(w) \/ UNCHANGED lock
    PROVE  lock' \in [Buckets -> Workers \cup {Nil}]
BY DEF Release, TypeOK

\* The load of a bucket keeps the types.
LEMMA LoadBucketType ==
    ASSUME TypeOK, NEW w \in Workers, NEW b \in Buckets, LoadBucket(w, b)
    PROVE  /\ cur' \in [Workers -> Buckets \cup {Nil}]
           /\ got' \in [Workers \cup Updaters -> [Accounts -> Rows \cup {Nil}]]
           /\ behind' \in SUBSET (Workers \cup Updaters)
           /\ pc' \in [Workers \cup Updaters -> WorkerPCs \cup UpdaterPCs]
           /\ \A v \in Workers : pc'[v] \in WorkerPCs
           /\ \A u \in Updaters : pc'[u] \in UpdaterPCs
<1> DEFINE rows == [a \in Accounts |-> IF Belongs(a, b) THEN row[a] ELSE Nil]
<1>1. rows \in [Accounts -> Rows \cup {Nil}]
  BY DEF TypeOK
<1>2. Read(w, rows) /\ Goto(w, "version") /\ cur' = [cur EXCEPT ![w] = b]
  BY DEF LoadBucket
<1> HIDE DEF rows
<1>3. cur' \in [Workers -> Buckets \cup {Nil}]
  BY <1>2 DEF TypeOK
<1> QED
  BY <1>1, <1>2, <1>3, ReadType, WorkerGotoType DEF WorkerPCs

\* A poller's first event is a visible event of its batch.
LEMMA CurrentIs ==
    ASSUME TypeOK, StageInv, NEW w \in Workers, pc[w] \in {"read", "set"}
    PROVE  /\ Least(batch[w]) \in batch[w]
           /\ Least(batch[w]) \in 1 .. Len(outbox)
           /\ Current(w) \in Events
           /\ Current(w).account \in Accounts
           /\ Current(w).groups \in SUBSET Buckets
<1>1. batch[w] # {} /\ batch[w] \in SUBSET (1 .. Len(outbox))
  BY DEF StageInv, Stage, TypeOK
<1>2. batch[w] \in SUBSET Nat
  BY <1>1
<1>3. Least(batch[w]) \in batch[w]
  BY <1>1, <1>2, LeastIs
<1>4. Least(batch[w]) \in 1 .. Len(outbox)
  BY <1>1, <1>3
<1>5. Current(w) \in Events
  BY <1>4 DEF Current, TypeOK
<1> QED
  BY <1>3, <1>4, <1>5, EventIs

\* The buckets of an event are buckets.
LEMMA EventBucketsIs ==
    ASSUME NEW event \in Events, NEW value \in Rows \cup {Nil}
    PROVE  EventBuckets(event, value) \in SUBSET Buckets
BY EventIs DEF EventBuckets, Rows

\* Poll keeps the types.
LEMMA PollType ==
    ASSUME TypeOK, StageInv, NEW w \in Pollers, Poll(w) \/ EventFails(w)
    PROVE  TypeOK'
<1>0. w \in Workers
  BY DEF Workers
<1>1. CASE Poll(w)
  <2>1. Visible \in SUBSET (1 .. Len(outbox)) /\ Visible # {} /\ Len(outbox) \in Nat
    BY <1>1 DEF Poll, Visible, TypeOK
  <2>2. Largest(Visible) \in 0 .. Len(outbox)
    <3>1. Largest(Visible) \in Visible
      BY <2>1, LargestIs, Zenon
    <3>2. \A i \in Visible : i \in 0 .. Len(outbox)
      BY <2>1
    <3> QED
      BY <3>1, <3>2, Zenon
  <2>3. /\ batch' = [batch EXCEPT ![w] = {i \in Visible : i > watermark}]
        /\ seen' = [seen EXCEPT ![w] = {}]
        /\ last' = [last EXCEPT ![w] = Largest(Visible)]
        /\ gap' = [gap EXCEPT ![w] = {i \in open : i < Largest(Visible)}]
        /\ Goto(w, "read")
        /\ UNCHANGED <<row, outbox, open, changes, watermark, copy, active,
                       tickets, lock, cur, todo, owner, failed, got, behind,
                       task, late, doubt, stale, errors>>
    BY <1>1, Zenon DEF Poll, dbVars, snapVars, jobVars, readVars, historyVars
  <2> DEFINE b == {i \in Visible : i > watermark}
             g == {i \in open : i < Largest(Visible)}
             l == Largest(Visible)
  <2>4. b \in SUBSET (1 .. Len(outbox)) /\ g \in SUBSET (1 .. Len(outbox))
    BY <2>1 DEF TypeOK
  <2> HIDE DEF b, g, l
  <2>5. /\ batch' \in [Workers -> SUBSET (1 .. Len(outbox))]
        /\ seen' \in [Workers -> SUBSET Buckets]
        /\ last' \in [Workers -> 0 .. Len(outbox)]
        /\ gap' \in [Workers -> SUBSET (1 .. Len(outbox))]
    BY <2>2, <2>3, <2>4 DEF TypeOK, b, g, l
  <2> QED
    BY <1>0, <2>3, <2>5, WorkerGotoType DEF TypeOK, WorkerPCs
<1>2. CASE EventFails(w)
  <2>1. /\ Fails /\ EndBatch(w) /\ Unread(w) /\ Goto(w, "idle")
        /\ UNCHANGED <<row, outbox, open, changes, watermark, copy, active,
                       tickets, lock, cur, todo, owner, failed, task, late,
                       doubt, stale>>
    BY <1>2, Zenon DEF EventFails, dbVars, snapVars, jobVars, historyVars
  <2> QED
    BY <1>0, <2>1, EndBatchType, UnreadType, FailsType, WorkerGotoType
       DEF TypeOK, WorkerPCs
<1> QED
  BY <1>1, <1>2

\* The steps of a poller on its batch keep the types.
LEMMA HandleType ==
    ASSUME TypeOK, StageInv, NEW w \in Workers,
           ReadAccount(w) \/ SetAccount(w) \/ FinishEvent(w) \/ Mark(w)
    PROVE  TypeOK'
<1>1. CASE ReadAccount(w)
  <2>1. Current(w).account \in Accounts
    BY <1>1, CurrentIs DEF ReadAccount
  <2> DEFINE a == Current(w).account
             rows == [None EXCEPT ![a] = IF Current(w).kind = "lastUsed"
                                            THEN copy[a] ELSE row[a]]
  <2>2. /\ Read(w, rows) /\ Goto(w, "set")
        /\ UNCHANGED <<row, outbox, open, changes, watermark, copy, active,
                       tickets, lock, batch, seen, last, gap, cur, todo, owner,
                       failed, task, late, doubt, stale, errors>>
    BY <1>1 DEF ReadAccount, dbVars, snapVars, pollVars, jobVars, historyVars
  <2>3. rows \in [Accounts -> Rows \cup {Nil}]
    BY <2>1, NoneIs DEF TypeOK
  <2> HIDE DEF rows
  <2> QED
    BY <2>2, <2>3, ReadType, WorkerGotoType DEF TypeOK, WorkerPCs
<1>2. CASE SetAccount(w)
  <2> DEFINE event == Current(w)
             a == event.account
             value == got[w][a]
             buckets == IF event.kind = "lastUsed" THEN {}
                        ELSE EventBuckets(event, value)
  <2>1. event \in Events /\ a \in Accounts
    BY <1>2, CurrentIs DEF SetAccount
  <2>2. value \in Rows \cup {Nil}
    BY <2>1 DEF TypeOK
  <2>3. buckets \in SUBSET Buckets
    BY <2>1, <2>2, EventBucketsIs
  <2>4. UNCHANGED <<row, outbox, open, changes, watermark, active, tickets, lock,
                    batch, last, gap, cur, owner, failed, got, task, errors>>
    BY <1>2, Zenon DEF SetAccount, dbVars, snapVars
  <2>5. /\ \/ UNCHANGED <<copy, stale>>
           \/ copy' = [copy EXCEPT ![a] = value] /\ NoteCopies(w, {a})
        /\ todo' = [todo EXCEPT ![w] = buckets \ seen[w]]
        /\ seen' = [seen EXCEPT ![w] = @ \cup buckets]
        /\ \/ UNCHANGED <<doubt, late, behind>>
           \/ /\ doubt' = doubt \cup {p \in Wrong' : p[1] \in {a}
                                            /\ p[2] \in Buckets \ buckets}
              /\ late' = late \cup OldJobs({a}, Buckets \ buckets)
              /\ behind' = behind \cup OldReads({a})
        /\ Goto(w, "next")
    BY <1>2 DEF SetAccount, Forget
  <2> HIDE DEF buckets, value, a
  <2>6. copy' \in [Accounts -> Rows \cup {Nil}]
    BY <2>1, <2>2, <2>5 DEF TypeOK
  <2>7. stale' \in SUBSET Accounts
    BY <2>5 DEF NoteCopies, Outdated, TypeOK
  <2>8. doubt' \in SUBSET (Accounts \X Buckets)
    BY <2>5 DEF Wrong, TypeOK
  <2>9. late' \in SUBSET Workers /\ behind' \in SUBSET (Workers \cup Updaters)
    BY <2>5 DEF OldJobs, OldReads, TypeOK
  <2>10. /\ todo' \in [Workers -> SUBSET Buckets]
         /\ seen' \in [Workers -> SUBSET Buckets]
    BY <2>3, <2>5 DEF TypeOK
  <2> QED
    BY <2>4, <2>5, <2>6, <2>7, <2>8, <2>9, <2>10, WorkerGotoType
       DEF TypeOK, WorkerPCs
<1>3. CASE FinishEvent(w)
  <2>1. UNCHANGED <<row, outbox, open, changes, watermark, copy, active, tickets,
                    lock, cur, todo, owner, task, late, doubt, stale, errors>>
    BY <1>3, Zenon DEF FinishEvent, dbVars, snapVars, historyVars
  <2>2. failed' \in SUBSET Workers /\ Unread(w)
    BY <1>3 DEF FinishEvent, TypeOK
  <2>3. \/ Goto(w, "idle") /\ EndBatch(w)
        \/ /\ Goto(w, "mark") \/ Goto(w, "read")
           /\ batch' = [batch EXCEPT ![w] = batch[w] \ {Least(batch[w])}]
           /\ UNCHANGED <<seen, last, gap>>
    BY <1>3 DEF FinishEvent
  <2>4. /\ batch' \in [Workers -> SUBSET (1 .. Len(outbox))]
        /\ seen' \in [Workers -> SUBSET Buckets]
        /\ last' \in [Workers -> 0 .. Len(outbox)]
        /\ gap' \in [Workers -> SUBSET (1 .. Len(outbox))]
    <3>1. CASE EndBatch(w)
      BY <3>1, EndBatchType
    <3>2. CASE /\ batch' = [batch EXCEPT ![w] = batch[w] \ {Least(batch[w])}]
               /\ UNCHANGED <<seen, last, gap>>
      BY <3>2 DEF TypeOK
    <3> QED
      BY <2>3, <3>1, <3>2
  <2>5. /\ pc' \in [Workers \cup Updaters -> WorkerPCs \cup UpdaterPCs]
        /\ \A v \in Workers : pc'[v] \in WorkerPCs
        /\ \A u \in Updaters : pc'[u] \in UpdaterPCs
    BY <2>3, WorkerGotoType DEF WorkerPCs
  <2> QED
    BY <2>1, <2>2, <2>4, <2>5, UnreadType DEF TypeOK
<1>4. CASE Mark(w)
  <2>1. /\ EndBatch(w)
        /\ UNCHANGED <<row, outbox, open, changes, copy, active, tickets, lock,
                       cur, owner, failed, got, task>>
    BY <1>4, Zenon DEF Mark, dbVars, snapVars
  <2>2. \/ Goto(w, "idle") /\ UNCHANGED todo
        \/ Goto(w, "next") /\ todo' = [todo EXCEPT ![w] = AllBuckets]
    BY <1>4, Zenon DEF Mark
  <2>3. /\ todo' \in [Workers -> SUBSET Buckets]
        /\ pc' \in [Workers \cup Updaters -> WorkerPCs \cup UpdaterPCs]
        /\ \A v \in Workers : pc'[v] \in WorkerPCs
        /\ \A u \in Updaters : pc'[u] \in UpdaterPCs
    <3>1. AllBuckets \in SUBSET Buckets
      BY DEF AllBuckets
    <3> QED
      BY <2>2, <3>1, WorkerGotoType DEF WorkerPCs, TypeOK
  <2> DEFINE as == {outbox[i].account : i \in gap[w] \cap Visible}
  <2>4. \/ /\ watermark' = last[w] /\ UNCHANGED errors
           /\ \E s : s = as /\ Overlook(s)
        \/ Fails /\ UNCHANGED <<watermark, behind, late, doubt, stale>>
    BY <1>4 DEF Mark, historyVars, Overlook, Forget, OldJobs, OldReads
  <2>5. /\ watermark' \in 0 .. Len(outbox)
        /\ errors' \in 0 .. MaxErrors
    BY <2>4, FailsType DEF TypeOK
  <2>6. /\ doubt' \in SUBSET (Accounts \X Buckets)
        /\ late' \in SUBSET Workers
        /\ stale' \in SUBSET Accounts
        /\ behind' \in SUBSET (Workers \cup Updaters)
    <3>1. CASE \E s : Overlook(s)
      BY <3>1, OverlookType, Zenon
    <3>2. CASE UNCHANGED <<behind, late, doubt, stale>>
      BY <3>2 DEF TypeOK
    <3> QED
      BY <2>4, <3>1, <3>2
  <2> QED
    BY <2>1, <2>3, <2>5, <2>6, EndBatchType DEF TypeOK
<1> QED
  BY <1>1, <1>2, <1>3, <1>4

\* The steps of a rebuild keep the types.
LEMMA RebuildType ==
    ASSUME TypeOK, StageInv, NEW w \in Workers,
           \/ FinishRebuild(w) \/ LockBucket(w) \/ TakeVersion(w)
           \/ WriteCopies(w) \/ Activate(w) \/ RebuildFails(w) \/ Crash(w)
           \/ FullRebuild(w) \/ \E b \in Buckets : Fallback(w, b)
    PROVE  TypeOK'
<1> USE DEF WorkerPCs
<1>1. CASE FinishRebuild(w)
  <2>1. /\ failed' = failed \ {w} /\ Goto(w, "idle")
        /\ UNCHANGED <<row, outbox, open, changes, watermark, copy, active,
                       tickets, lock, batch, seen, last, gap, cur, todo, owner,
                       got, behind, task, late, doubt, stale, errors>>
    BY <1>1, Zenon DEF FinishRebuild, dbVars, snapVars, pollVars, readVars,
       historyVars
  <2> QED
    BY <2>1, WorkerGotoType DEF TypeOK
<1>2. CASE LockBucket(w)
  <2>1. UNCHANGED <<row, outbox, open, changes, watermark, copy, active, tickets,
                    batch, seen, last, gap, task>>
    BY <1>2, Zenon DEF LockBucket, dbVars, snapVars, pollVars
  <2>2. PICK b \in todo[w] :
          /\ todo' = [todo EXCEPT ![w] = @ \ {b}]
          /\ \/ /\ lock' = [lock EXCEPT ![b] = w]
                /\ owner' = owner \cup {w}
                /\ LoadBucket(w, b)
                /\ UNCHANGED <<failed, late, doubt, stale, errors>>
             \/ /\ Forget(Accounts, {b})
                /\ UNCHANGED <<pc, lock, cur, owner, got, behind, failed, stale,
                               errors>>
             \/ /\ Fails
                /\ failed' = failed \cup {w}
                /\ UNCHANGED <<pc, lock, cur, owner, got, behind, late, doubt,
                               stale>>
    BY <1>2, Zenon DEF LockBucket, readVars, historyVars
  <2>3. b \in Buckets /\ todo' \in [Workers -> SUBSET Buckets]
    BY <2>2 DEF TypeOK
  <2>4. CASE /\ lock' = [lock EXCEPT ![b] = w]
             /\ owner' = owner \cup {w}
             /\ LoadBucket(w, b)
             /\ UNCHANGED <<failed, late, doubt, stale, errors>>
    <3>1. /\ lock' \in [Buckets -> Workers \cup {Nil}]
          /\ owner' \in SUBSET Workers
      BY <2>3, <2>4 DEF TypeOK
    <3> QED
      BY <2>1, <2>3, <2>4, <3>1, LoadBucketType DEF TypeOK
  <2>5. CASE /\ Forget(Accounts, {b})
             /\ UNCHANGED <<pc, lock, cur, owner, got, behind, failed, stale,
                            errors>>
    BY <2>1, <2>3, <2>5, ForgetType DEF TypeOK
  <2>6. CASE /\ Fails
             /\ failed' = failed \cup {w}
             /\ UNCHANGED <<pc, lock, cur, owner, got, behind, late, doubt,
                            stale>>
    BY <2>1, <2>3, <2>6, FailsType DEF TypeOK
  <2> QED
    BY <2>2, <2>4, <2>5, <2>6
<1>3. CASE TakeVersion(w)
  <2>1. /\ tickets' = [tickets EXCEPT ![w] =
                          {v \in Workers : HasTicket(v) /\ cur[v] = cur[w]}
                          \cup {w}]
        /\ late' \in {late, late \cup {w}}
        /\ Goto(w, "write")
        /\ UNCHANGED <<row, outbox, open, changes, watermark, copy, active, lock,
                       batch, seen, last, gap, cur, todo, owner, failed, got,
                       behind, task, doubt, stale, errors>>
    BY <1>3 DEF TakeVersion, dbVars, pollVars, jobVars, readVars
  <2>2. tickets' \in [Workers -> SUBSET Workers] /\ late' \in SUBSET Workers
    BY <2>1 DEF TypeOK
  <2> QED
    BY <2>1, <2>2, WorkerGotoType DEF TypeOK
<1>4. CASE WriteCopies(w)
  <2> DEFINE held == {a \in Accounts : Holds(w, a)}
  <2>1. /\ copy' = [a \in Accounts |-> IF a \in held THEN got[w][a] ELSE copy[a]]
        /\ NoteCopies(w, held) /\ Goto(w, "activate")
        /\ UNCHANGED <<row, outbox, open, changes, watermark, active, tickets,
                       lock, batch, seen, last, gap, cur, todo, owner, failed,
                       got, behind, task, late, doubt, errors>>
    BY <1>4 DEF WriteCopies, dbVars, snapVars, pollVars, jobVars, readVars
  <2>2. copy' \in [Accounts -> Rows \cup {Nil}]
    BY <2>1 DEF TypeOK
  <2>3. stale' \in SUBSET Accounts
    BY <2>1 DEF NoteCopies, Outdated
  <2> QED
    BY <2>1, <2>2, <2>3, WorkerGotoType DEF TypeOK
<1>5. ASSUME Resume(w)
      PROVE  /\ pc' \in [Workers \cup Updaters -> WorkerPCs \cup UpdaterPCs]
             /\ \A v \in Workers : pc'[v] \in WorkerPCs
             /\ \A u \in Updaters : pc'[u] \in UpdaterPCs
  BY <1>5, WorkerGotoType DEF Resume
<1>6. CASE Activate(w)
  <2>1. /\ UNCHANGED <<row, outbox, open, changes, watermark, copy, batch, seen,
                       last, gap, todo, failed, task, stale>>
        /\ LeaveBucket(w) /\ Resume(w)
        /\ Release(w) \/ UNCHANGED lock
        /\ Fails \/ UNCHANGED errors
    BY <1>6 DEF Activate, dbVars, pollVars
  <2>2. \/ /\ active' = [active EXCEPT ![cur[w]] = {a \in Accounts : Holds(w, a)}]
           /\ tickets' = [v \in Workers |-> IF v \in tickets[w] THEN {}
                                            ELSE tickets[v] \ tickets[w]]
           /\ doubt' \subseteq Wrong'
        \/ UNCHANGED <<active, tickets, doubt>>
    BY <1>6 DEF Activate, snapVars, Void
  <2>3. Wrong' \subseteq Accounts \X Buckets
    BY DEF Wrong
  <2>4. /\ active' \in [Buckets -> (SUBSET Accounts) \cup {Nil}]
        /\ tickets' \in [Workers -> SUBSET Workers]
        /\ doubt' \in SUBSET (Accounts \X Buckets)
    <3>1. {a \in Accounts : Holds(w, a)} \in SUBSET Accounts
      OBVIOUS
    <3>2. active' \in [Buckets -> (SUBSET Accounts) \cup {Nil}]
      BY <2>2, <3>1 DEF TypeOK
    <3>3. tickets' \in [Workers -> SUBSET Workers]
      <4>1. \A v \in Workers : tickets[v] \subseteq Workers
        BY DEF TypeOK
      <4>2. tickets \in [Workers -> SUBSET Workers]
        BY DEF TypeOK
      <4> QED
        BY <2>2, <4>1, <4>2
    <3> QED
      BY <2>2, <2>3, <3>2, <3>3 DEF TypeOK
  <2>5. errors' \in 0 .. MaxErrors
    BY <2>1, FailsType
  <2> QED
    BY <1>5, <2>1, <2>4, <2>5, LeaveBucketType, ReleaseType DEF TypeOK
<1>7. CASE RebuildFails(w)
  <2>1. /\ UNCHANGED <<row, outbox, open, changes, watermark, copy, active, batch,
                       seen, last, gap, todo, task, doubt, stale>>
        /\ Fails /\ Void({w}) /\ LeaveBucket(w) /\ Resume(w) /\ Release(w)
        /\ failed' \in {failed, failed \cup {w}}
    BY <1>7 DEF RebuildFails, Withdraw, dbVars, pollVars
  <2>2. failed' \in SUBSET Workers
    BY <2>1 DEF TypeOK
  <2> QED
    BY <1>5, <2>1, <2>2, LeaveBucketType, ReleaseType, VoidType, FailsType
       DEF TypeOK
<1>8. CASE Crash(w)
  <2>1. /\ UNCHANGED <<row, outbox, open, changes, watermark, copy, active, lock,
                       task, doubt, stale>>
        /\ Fails /\ Void({w}) /\ LeaveBucket(w) /\ EndBatch(w)
        /\ todo' = [todo EXCEPT ![w] = {}]
        /\ failed' = failed \ {w}
        /\ Goto(w, "idle")
    BY <1>8, Zenon DEF Crash, Withdraw, dbVars
  <2> QED
    BY <2>1, EndBatchType, LeaveBucketType, VoidType, FailsType, WorkerGotoType
       DEF TypeOK
<1>9. CASE FullRebuild(w)
  <2>1. /\ todo' = [todo EXCEPT ![w] = AllBuckets] /\ Goto(w, "next")
        /\ UNCHANGED <<row, outbox, open, changes, watermark, copy, active,
                       tickets, lock, batch, seen, last, gap, cur, owner, failed,
                       got, behind, task, late, doubt, stale, errors>>
    BY <1>9, Zenon DEF FullRebuild, dbVars, snapVars, pollVars, readVars,
       historyVars
  <2>2. AllBuckets \in SUBSET Buckets
    BY DEF AllBuckets
  <2> QED
    BY <2>1, <2>2, WorkerGotoType DEF TypeOK
<1>10. ASSUME NEW b \in Buckets, Fallback(w, b) PROVE TypeOK'
  <2>1. /\ UNCHANGED <<row, outbox, open, changes, watermark, copy, active,
                       tickets, lock, batch, seen, last, gap, todo, owner,
                       failed, task, late, doubt, stale>>
        /\ LoadBucket(w, b)
        /\ Fails \/ UNCHANGED errors
    BY <1>10, Zenon DEF Fallback, dbVars, snapVars, pollVars, historyVars
  <2>2. errors' \in 0 .. MaxErrors
    BY <2>1, FailsType
  <2> QED
    BY <2>1, <2>2, LoadBucketType DEF TypeOK
<1> QED
  BY <1>1, <1>2, <1>3, <1>4, <1>6, <1>7, <1>8, <1>9, <1>10

\* Every step keeps the types.
LEMMA TypeStep ==
    ASSUME TypeOK, StageInv, TaskInv, [Act]_vars
    PROVE  TypeOK'
<1>1. CASE UNCHANGED vars
  BY <1>1 DEF TypeOK, vars, dbVars, snapVars, pollVars, jobVars, historyVars,
     readVars
<1>2. ASSUME NEW a \in Accounts, UpdateLastUsed(a) PROVE TypeOK'
  <2> DEFINE e == [kind |-> "lastUsed", account |-> a, groups |-> {}]
  <2>1. /\ outbox' = Append(outbox, e) /\ changes' = changes + 1
        /\ changes < MaxChanges
        /\ UNCHANGED <<row, open, watermark, copy, active, tickets, lock, pc,
                       batch, seen, last, gap, cur, todo, owner, failed, got,
                       behind, task, late, doubt, stale, errors>>
    BY <1>2, Zenon DEF UpdateLastUsed, snapVars, pollVars, jobVars, readVars,
       historyVars
  <2>2. e \in Events
    BY LastUsedIs
  <2>3. /\ outbox' \in Seq(Events)
        /\ open \cup {Len(outbox) + 1} \in SUBSET (1 .. Len(outbox'))
        /\ watermark' \in 0 .. Len(outbox')
        /\ batch' \in [Workers -> SUBSET (1 .. Len(outbox'))]
        /\ last' \in [Workers -> 0 .. Len(outbox')]
        /\ gap' \in [Workers -> SUBSET (1 .. Len(outbox'))]
    BY <2>1, <2>2, AppendType DEF pollVars
  <2>4. changes' \in 0 .. MaxChanges
    BY <2>1, ConstantsAssumption DEF TypeOK
  <2> QED
    BY <2>1, <2>3, <2>4 DEF TypeOK
<1>3. ASSUME NEW b \in Buckets, LockExpires(b) PROVE TypeOK'
  <2>1. /\ lock' = [lock EXCEPT ![b] = Nil]
        /\ Fails \/ UNCHANGED errors
        /\ UNCHANGED <<row, outbox, open, changes, watermark, copy, active,
                       tickets, pc, batch, seen, last, gap, cur, todo, owner,
                       failed, got, behind, task, late, doubt, stale>>
    BY <1>3 DEF LockExpires, dbVars, snapVars, pollVars, jobVars, readVars,
       historyVars
  <2>2. lock' \in [Buckets -> Workers \cup {Nil}]
    BY <2>1 DEF TypeOK
  <2> QED
    BY <2>1, <2>2, FailsType DEF TypeOK
<1>4. Pollers \subseteq Workers /\ Rebuilders \subseteq Workers
      /\ Readers \subseteq Workers
  BY DEF Workers
<1>5. ASSUME NEW w \in Workers, Work(w) PROVE TypeOK'
  BY <1>5, HandleType, RebuildType, Zenon DEF Work
<1> QED
  BY <1>1, <1>2, <1>3, <1>4, <1>5, ChangeAccountType, UpdateType, PollType,
     RebuildType, Zenon DEF Act

-----------------------------------------------------------------------------
(* A step is of one worker, or of none *)

WorkerStep(w) ==
    \/ Work(w) \/ RebuildFails(w) \/ Crash(w)
    \/ w \in Pollers /\ (Poll(w) \/ EventFails(w))
    \/ FullRebuild(w) \/ \E b \in Buckets : Fallback(w, b)

OtherStep ==
    \/ \E u \in Updaters : Update(u) \/ \E a \in Accounts : ChangeAccount(u, a)
    \/ \E a \in Accounts : UpdateLastUsed(a)
    \/ \E b \in Buckets : LockExpires(b)

\* The worker's own state is as it was.
Same(w) ==
    /\ pc'[w] = pc[w]
    /\ batch'[w] = batch[w] /\ last'[w] = last[w]
    /\ gap'[w] = gap[w] /\ seen'[w] = seen[w]
    /\ todo'[w] = todo[w] /\ cur'[w] = cur[w]
    /\ w \in failed' <=> w \in failed
    /\ w \in owner' <=> w \in owner
    /\ got'[w] = got[w]

\* A step is of one worker, of none, or leaves everything as it is.
LEMMA StepCases ==
    ASSUME Act
    PROVE  OtherStep \/ \E w \in Workers : WorkerStep(w)
<1>1. Pollers \subseteq Workers /\ Rebuilders \subseteq Workers
      /\ Readers \subseteq Workers
  BY DEF Workers
<1> QED
  BY <1>1, Zenon DEF Act, OtherStep, WorkerStep

\* The end of a batch leaves the batches of other pollers as they are.
LEMMA EndBatchSame ==
    ASSUME TypeOK, NEW w \in Workers, EndBatch(w)
    PROVE  /\ \A v \in Workers \ {w} :
                 /\ batch'[v] = batch[v] /\ last'[v] = last[v]
                 /\ gap'[v] = gap[v] /\ seen'[v] = seen[v]
           /\ batch'[w] = {} /\ last'[w] = 0 /\ gap'[w] = {} /\ seen'[w] = {}
BY DEF EndBatch, TypeOK

\* One worker or update goes on, the others stay.
LEMMA GotoSame ==
    ASSUME TypeOK, NEW w \in Workers \cup Updaters, NEW next, Goto(w, next)
    PROVE  /\ pc'[w] = next
           /\ \A v \in (Workers \cup Updaters) \ {w} : pc'[v] = pc[v]
BY DEF Goto, TypeOK

\* One forgets what it has read, the others do not.
LEMMA UnreadSame ==
    ASSUME TypeOK, NEW w \in Workers \cup Updaters, Unread(w)
    PROVE  /\ got'[w] = None
           /\ \A v \in (Workers \cup Updaters) \ {w} : got'[v] = got[v]
           /\ behind' = behind \ {w}
BY DEF Unread, TypeOK

\* One reads, the others hold what they held.
LEMMA ReadSame ==
    ASSUME TypeOK, NEW w \in Workers \cup Updaters, NEW rows, Read(w, rows)
    PROVE  /\ got'[w] = rows
           /\ \A v \in (Workers \cup Updaters) \ {w} : got'[v] = got[v]
           /\ \A v \in (Workers \cup Updaters) \ {w} : v \in behind' <=> v \in behind
           /\ w \in behind' <=> \E a \in Accounts :
                                   rows[a] \notin {Nil, row[a]} /\ a \in stale
BY DEF Read, TypeOK

\* One worker leaves its bucket, the others do not.
LEMMA LeaveBucketSame ==
    ASSUME TypeOK, NEW w \in Workers, LeaveBucket(w)
    PROVE  /\ cur'[w] = Nil /\ w \notin owner' /\ got'[w] = None
           /\ \A v \in Workers \ {w} :
                 /\ cur'[v] = cur[v] /\ got'[v] = got[v]
                 /\ v \in owner' <=> v \in owner
                 /\ v \in late' <=> v \in late
           /\ \A u \in Updaters : u # w => got'[u] = got[u]
           /\ behind' = behind \ {w} /\ late' = late \ {w}
<1>1. Unread(w) /\ cur' = [cur EXCEPT ![w] = Nil] /\ owner' = owner \ {w}
      /\ late' = late \ {w}
  BY DEF LeaveBucket
<1>2. /\ cur'[w] = Nil
      /\ \A v \in Workers \ {w} : cur'[v] = cur[v]
  BY <1>1 DEF TypeOK
<1> QED
  BY <1>1, <1>2, UnreadSame

\* One worker loads a bucket, the others do not.
LEMMA LoadBucketSame ==
    ASSUME TypeOK, NEW w \in Workers, NEW b \in Buckets, LoadBucket(w, b)
    PROVE  /\ cur'[w] = b /\ pc'[w] = "version"
           /\ got'[w] = [a \in Accounts |-> IF Belongs(a, b) THEN row[a] ELSE Nil]
           /\ \A v \in Workers \ {w} :
                 cur'[v] = cur[v] /\ got'[v] = got[v] /\ pc'[v] = pc[v]
           /\ \A u \in Updaters : u # w => got'[u] = got[u] /\ pc'[u] = pc[u]
           /\ \A v \in (Workers \cup Updaters) \ {w} : v \in behind' <=> v \in behind
<1> DEFINE rows == [a \in Accounts |-> IF Belongs(a, b) THEN row[a] ELSE Nil]
<1>1. Read(w, rows) /\ Goto(w, "version") /\ cur' = [cur EXCEPT ![w] = b]
  BY DEF LoadBucket
<1> HIDE DEF rows
<1>2. /\ cur'[w] = b
      /\ \A v \in Workers \ {w} : cur'[v] = cur[v]
  BY <1>1 DEF TypeOK
<1>3. /\ got'[w] = rows
      /\ \A v \in (Workers \cup Updaters) \ {w} : got'[v] = got[v]
      /\ \A v \in (Workers \cup Updaters) \ {w} : v \in behind' <=> v \in behind
  BY <1>1, ReadSame
<1>4. /\ pc'[w] = "version"
      /\ \A v \in (Workers \cup Updaters) \ {w} : pc'[v] = pc[v]
  BY <1>1, GotoSame
<1> QED
  BY <1>2, <1>3, <1>4 DEF rows

\* What a step of one worker does to the others.
LEMMA OthersSame ==
    ASSUME TypeOK, NEW w \in Workers, WorkerStep(w)
    PROVE  /\ \A v \in Workers \ {w} : Same(v)
           /\ UNCHANGED <<row, outbox, open, task, changes>>
           /\ \A u \in Updaters : pc'[u] = pc[u] /\ got'[u] = got[u]
<1>0. \A u \in Updaters : u # w
  BY ConstantsAssumption
<1> USE DEF Same
<1>1. CASE ReadAccount(w)
  BY <1>0, <1>1, ReadSame, GotoSame
     DEF ReadAccount, dbVars, pollVars, jobVars
<1>2. CASE SetAccount(w)
  <2>1. /\ Goto(w, "next")
        /\ \E x : todo' = [todo EXCEPT ![w] = x]
        /\ \E x : seen' = [seen EXCEPT ![w] = x]
        /\ UNCHANGED <<row, outbox, open, changes, batch, last, gap, cur, owner,
                       failed, got, task>>
    BY <1>2, Zenon DEF SetAccount, dbVars
  <2>2. \A v \in Workers \ {w} : todo'[v] = todo[v] /\ seen'[v] = seen[v]
    BY <2>1 DEF TypeOK
  <2> QED
    BY <1>0, <2>1, <2>2, GotoSame
<1>3. CASE FinishEvent(w)
  <2>1. /\ failed' = failed \ {w} /\ Unread(w)
        /\ UNCHANGED <<row, outbox, open, changes, cur, todo, owner, task>>
    BY <1>3, Zenon DEF FinishEvent, dbVars
  <2>2. \/ Goto(w, "idle") /\ EndBatch(w)
        \/ /\ \E next : Goto(w, next)
           /\ batch' = [batch EXCEPT ![w] = batch[w] \ {Least(batch[w])}]
           /\ UNCHANGED <<seen, last, gap>>
    BY <1>3 DEF FinishEvent
  <2>3. \A v \in Workers \ {w} :
          /\ batch'[v] = batch[v] /\ last'[v] = last[v]
          /\ gap'[v] = gap[v] /\ seen'[v] = seen[v]
    <3>1. CASE EndBatch(w)
      BY <3>1, EndBatchSame
    <3>2. CASE /\ batch' = [batch EXCEPT ![w] = batch[w] \ {Least(batch[w])}]
               /\ UNCHANGED <<seen, last, gap>>
      BY <3>2 DEF TypeOK
    <3> QED
      BY <2>2, <3>1, <3>2
  <2>4. \A v \in (Workers \cup Updaters) \ {w} : pc'[v] = pc[v]
    BY <2>2, GotoSame, Zenon
  <2> QED
    BY <1>0, <2>1, <2>3, <2>4, UnreadSame
<1>4. CASE Mark(w)
  <2>1. /\ EndBatch(w)
        /\ UNCHANGED <<row, outbox, open, changes, cur, owner, failed, got, task>>
    BY <1>4, Zenon DEF Mark, dbVars
  <2>2. /\ \E next : Goto(w, next)
        /\ UNCHANGED todo \/ \E x : todo' = [todo EXCEPT ![w] = x]
    BY <1>4, Zenon DEF Mark
  <2>3. \A v \in Workers \ {w} : todo'[v] = todo[v]
    BY <2>2 DEF TypeOK
  <2>4. \A v \in (Workers \cup Updaters) \ {w} : pc'[v] = pc[v]
    BY <2>2, GotoSame, Zenon
  <2> QED
    BY <1>0, <2>1, <2>3, <2>4, EndBatchSame
<1>5. CASE FinishRebuild(w)
  BY <1>0, <1>5, GotoSame DEF FinishRebuild, dbVars, pollVars, readVars
<1>6. CASE LockBucket(w)
  <2>1. UNCHANGED <<row, outbox, open, changes, batch, seen, last, gap, task>>
    BY <1>6, Zenon DEF LockBucket, dbVars, pollVars
  <2>2. PICK b \in todo[w] :
          /\ todo' = [todo EXCEPT ![w] = @ \ {b}]
          /\ \/ /\ owner' = owner \cup {w} /\ LoadBucket(w, b)
                /\ UNCHANGED failed
             \/ /\ UNCHANGED <<pc, cur, owner, got>>
                /\ failed' \in {failed, failed \cup {w}}
    BY <1>6 DEF LockBucket, readVars
  <2>3. b \in Buckets /\ \A v \in Workers \ {w} : todo'[v] = todo[v]
    BY <2>2 DEF TypeOK
  <2>4. CASE /\ owner' = owner \cup {w} /\ LoadBucket(w, b)
             /\ UNCHANGED failed
    BY <1>0, <2>1, <2>3, <2>4, LoadBucketSame
  <2>5. CASE /\ UNCHANGED <<pc, cur, owner, got>>
             /\ failed' \in {failed, failed \cup {w}}
    BY <1>0, <2>1, <2>3, <2>5
  <2> QED
    BY <2>2, <2>4, <2>5
<1>7. CASE TakeVersion(w)
  BY <1>0, <1>7, GotoSame DEF TakeVersion, dbVars, pollVars, jobVars, readVars
<1>8. CASE WriteCopies(w)
  BY <1>0, <1>8, GotoSame DEF WriteCopies, dbVars, pollVars, jobVars, readVars
<1>9. ASSUME Resume(w)
      PROVE  \A v \in (Workers \cup Updaters) \ {w} : pc'[v] = pc[v]
  BY <1>9, GotoSame DEF Resume
<1>10. CASE Activate(w)
  <2>1. /\ UNCHANGED <<row, outbox, open, changes, batch, seen, last, gap, todo,
                       failed, task>>
        /\ LeaveBucket(w) /\ Resume(w)
    BY <1>10, Zenon DEF Activate, dbVars, pollVars
  <2> QED
    BY <1>0, <1>9, <2>1, LeaveBucketSame
<1>11. CASE RebuildFails(w)
  <2>1. /\ UNCHANGED <<row, outbox, open, changes, batch, seen, last, gap, todo,
                       task>>
        /\ LeaveBucket(w) /\ Resume(w)
        /\ failed' \in {failed, failed \cup {w}}
    BY <1>11 DEF RebuildFails, Withdraw, dbVars, pollVars
  <2> QED
    BY <1>0, <1>9, <2>1, LeaveBucketSame
<1>12. CASE Crash(w)
  <2>1. /\ UNCHANGED <<row, outbox, open, changes, task>>
        /\ LeaveBucket(w) /\ EndBatch(w) /\ Goto(w, "idle")
        /\ todo' = [todo EXCEPT ![w] = {}]
        /\ failed' = failed \ {w}
    BY <1>12, Zenon DEF Crash, Withdraw, dbVars
  <2>2. \A v \in Workers \ {w} : todo'[v] = todo[v]
    BY <2>1 DEF TypeOK
  <2> QED
    BY <1>0, <2>1, <2>2, LeaveBucketSame, EndBatchSame, GotoSame
<1>13. CASE Poll(w)
  <2>1. /\ \E x : batch' = [batch EXCEPT ![w] = x]
        /\ \E x : seen' = [seen EXCEPT ![w] = x]
        /\ \E x : last' = [last EXCEPT ![w] = x]
        /\ \E x : gap' = [gap EXCEPT ![w] = x]
        /\ Goto(w, "read")
        /\ UNCHANGED <<row, outbox, open, changes, cur, todo, owner, failed, got,
                       task>>
    BY <1>13, Zenon DEF Poll, dbVars, jobVars, readVars
  <2>2. \A v \in Workers \ {w} : batch'[v] = batch[v] /\ seen'[v] = seen[v]
    BY <2>1 DEF TypeOK
  <2>3. \A v \in Workers \ {w} : last'[v] = last[v] /\ gap'[v] = gap[v]
    BY <2>1 DEF TypeOK
  <2> QED
    BY <1>0, <2>1, <2>2, <2>3, GotoSame
<1>14. CASE EventFails(w)
  <2>1. /\ EndBatch(w) /\ Unread(w) /\ Goto(w, "idle")
        /\ UNCHANGED <<row, outbox, open, changes, cur, todo, owner, failed, task>>
    BY <1>14, Zenon DEF EventFails, dbVars, jobVars
  <2> QED
    BY <1>0, <2>1, EndBatchSame, UnreadSame, GotoSame
<1>15. CASE FullRebuild(w)
  <2>1. /\ \E x : todo' = [todo EXCEPT ![w] = x]
        /\ Goto(w, "next")
        /\ UNCHANGED <<row, outbox, open, changes, batch, seen, last, gap, cur,
                       owner, failed, got, task>>
    BY <1>15, Zenon DEF FullRebuild, dbVars, pollVars, readVars
  <2>2. \A v \in Workers \ {w} : todo'[v] = todo[v]
    BY <2>1 DEF TypeOK
  <2> QED
    BY <1>0, <2>1, <2>2, GotoSame
<1>16. ASSUME NEW b \in Buckets, Fallback(w, b)
       PROVE  /\ \A v \in Workers \ {w} : Same(v)
              /\ UNCHANGED <<row, outbox, open, task, changes>>
              /\ \A u \in Updaters : pc'[u] = pc[u] /\ got'[u] = got[u]
  <2>1. /\ UNCHANGED <<row, outbox, open, changes, batch, seen, last, gap, todo,
                       owner, failed, task>>
        /\ LoadBucket(w, b)
    BY <1>16, Zenon DEF Fallback, dbVars, pollVars
  <2> QED
    BY <1>0, <2>1, LoadBucketSame
<1> QED
  BY <1>1, <1>2, <1>3, <1>4, <1>5, <1>6, <1>7, <1>8, <1>10, <1>11, <1>12, <1>13,
     <1>14, <1>15, <1>16, Zenon DEF WorkerStep, Work

\* Forget forgives nothing that was noted before.
LEMMA ForgetGrows ==
    ASSUME NEW as, NEW bs, Forget(as, bs)
    PROVE  doubt \subseteq doubt' /\ late \subseteq late'
BY DEF Forget

\* Overlook forgives nothing that was noted before.
LEMMA OverlookGrows ==
    ASSUME NEW as, Overlook(as)
    PROVE  /\ doubt \subseteq doubt' /\ late \subseteq late'
           /\ stale \subseteq stale' /\ behind \subseteq behind'
BY ForgetGrows DEF Overlook

\* What a change of an account leaves as it is.
LEMMA ChangeSame ==
    ASSUME TypeOK, NEW u \in Updaters, NEW a \in Accounts, ChangeAccount(u, a)
    PROVE  /\ UNCHANGED <<outbox, open, watermark, copy, active, tickets, lock,
                          batch, seen, last, gap, cur, todo, owner, failed, got,
                          errors>>
           /\ \A v \in (Workers \cup Updaters) \ {u} : pc'[v] = pc[v]
           /\ \A v \in Updaters \ {u} : task'[v] = task[v]
           /\ \A c \in Accounts \ {a} : row'[c] = row[c]
           /\ doubt \subseteq doubt' /\ late \subseteq late'
           /\ stale \subseteq stale' /\ behind \subseteq behind'
           /\ pc[u] = "idle"
           /\ \/ pc'[u] \in {"insert", "drop"} /\ Target(u)' = a
              \/ Overlook({a}) /\ UNCHANGED <<pc, task>>
<1>1. ASSUME NEW new, Change(u, a, new)
      PROVE  /\ UNCHANGED <<outbox, open, watermark, copy, active, tickets, lock,
                            batch, seen, last, gap, cur, todo, owner, failed, got,
                            errors>>
             /\ \A c \in Accounts \ {a} : row'[c] = row[c]
             /\ pc[u] = "idle"
  <2>1. /\ row' = [row EXCEPT ![a] = new] /\ pc[u] = "idle"
        /\ UNCHANGED <<outbox, open, watermark, copy, active, tickets, lock,
                       batch, seen, last, gap, cur, todo, owner, failed, got,
                       errors>>
    BY <1>1, Zenon DEF Change, snapVars, pollVars, jobVars
  <2> QED
    BY <2>1 DEF TypeOK
<1>2. ASSUME NEW next \in {"insert", "drop"}, NEW kind, NEW groups, NEW sync,
             Then(u, next, kind, a, groups, sync)
      PROVE  /\ \A v \in (Workers \cup Updaters) \ {u} : pc'[v] = pc[v]
             /\ \A v \in Updaters \ {u} : task'[v] = task[v]
             /\ UNCHANGED <<behind, late, doubt, stale>>
             /\ pc'[u] \in {"insert", "drop"} /\ Target(u)' = a
  <2> DEFINE event == [kind |-> kind, account |-> a, groups |-> groups]
             t == [event |-> event, sync |-> sync]
  <2>1. /\ task' = [task EXCEPT ![u] = t] /\ Goto(u, next)
        /\ UNCHANGED <<behind, late, doubt, stale>>
    BY <1>2, Zenon DEF Then, historyVars
  <2>2. t.event.account = a
    OBVIOUS
  <2> HIDE DEF t, event
  <2>3. task'[u] = t /\ \A v \in Updaters \ {u} : task'[v] = task[v]
    BY <2>1 DEF TypeOK
  <2> QED
    BY <2>1, <2>2, <2>3, GotoSame DEF Target
<1>3. ASSUME NEW up \in BOOLEAN, SetState(u, a, up)
      PROVE  /\ \E new : Change(u, a, new)
             /\ \E next \in {"insert", "drop"} : \E kind, groups, sync :
                   Then(u, next, kind, a, groups, sync)
  <2>1. \E new : Change(u, a, new)
    BY <1>3, Zenon DEF SetState
  <2>2. \E sync : Then(u, "insert", "changed", a, {}, sync)
    BY <1>3, Zenon DEF SetState
  <2> QED
    BY <2>1, <2>2, Zenon
<1>4. ASSUME Delete(u, a)
      PROVE  /\ \E new : Change(u, a, new)
             /\ \E next \in {"insert", "drop"} : \E kind, groups, sync :
                   Then(u, next, kind, a, groups, sync)
  <2>1. Change(u, a, Nil) /\ Then(u, "drop", "changed", a, row[a].in, FALSE)
    BY <1>4, Zenon DEF Delete
  <2> QED
    BY <2>1, Zenon
<1>5. ASSUME NEW groups \in SUBSET Buckets, BindGroups(u, a, groups)
      PROVE  /\ \E new : Change(u, a, new)
             /\ \/ \E next \in {"insert", "drop"} : \E kind, gs, sync :
                      Then(u, next, kind, a, gs, sync)
                \/ Overlook({a}) /\ UNCHANGED <<pc, task>>
  <2>1. \/ /\ \E new : Change(u, a, new)
           /\ \E gs : Then(u, "insert", "groups", a, gs, FALSE)
        \/ (\E new : Change(u, a, new)) /\ Overlook({a}) /\ UNCHANGED <<pc, task>>
    BY <1>5, Zenon DEF BindGroups
  <2> QED
    BY <2>1, Zenon
<1>6. CASE /\ \E new : Change(u, a, new)
           /\ \E next \in {"insert", "drop"} : \E kind, groups, sync :
                 Then(u, next, kind, a, groups, sync)
  BY <1>1, <1>2, <1>6
<1>7. CASE /\ \E new : Change(u, a, new)
           /\ Overlook({a}) /\ UNCHANGED <<pc, task>>
  BY <1>1, <1>7, OverlookGrows
<1> QED
  BY <1>3, <1>4, <1>5, <1>6, <1>7, Zenon DEF ChangeAccount

\* What a step of the task of an update leaves as it is.
LEMMA UpdateSame ==
    ASSUME TypeOK, NEW u \in Updaters, Update(u)
    PROVE  /\ UNCHANGED <<row, watermark, active, tickets, batch, seen, last, gap,
                          cur, todo, owner, failed, changes>>
           /\ \A v \in (Workers \cup Updaters) \ {u} : pc'[v] = pc[v]
           /\ \A v \in Updaters \ {u} : task'[v] = task[v]
           /\ \A v \in (Workers \cup Updaters) \ {u} : got'[v] = got[v]
           /\ doubt \subseteq doubt' /\ late \subseteq late'
<1>1. ASSUME Return(u)
      PROVE  /\ \A v \in (Workers \cup Updaters) \ {u} : pc'[v] = pc[v]
             /\ \A v \in Updaters \ {u} : task'[v] = task[v]
  BY <1>1, GotoSame DEF Return, TypeOK
<1>2. ASSUME AfterInsert(u)
      PROVE  /\ \A v \in (Workers \cup Updaters) \ {u} : pc'[v] = pc[v]
             /\ \A v \in Updaters \ {u} : task'[v] = task[v]
  BY <1>1, <1>2, GotoSame DEF AfterInsert
<1>3. CASE DropCopies(u)
  <2>1. /\ Goto(u, "insert")
        /\ UNCHANGED <<row, watermark, active, tickets, batch, seen, last, gap,
                       cur, todo, owner, failed, changes, got, task, doubt, late>>
    BY <1>3, Zenon DEF DropCopies, dbVars, snapVars, pollVars, jobVars, readVars,
       historyVars
  <2> QED
    BY <2>1, GotoSame
<1>4. CASE Insert(u)
  <2>1. UNCHANGED <<row, watermark, active, tickets, batch, seen, last, gap,
                    cur, todo, owner, failed, changes, got>>
    BY <1>4, Zenon DEF Insert, snapVars, pollVars, jobVars
  <2>2. \/ Goto(u, "commit") /\ UNCHANGED <<task, late, doubt>>
        \/ AfterInsert(u) /\ \E as : Overlook(as)
    BY <1>4, OverlookTarget, Zenon DEF Insert, historyVars
  <2> QED
    BY <1>2, <2>1, <2>2, GotoSame, OverlookGrows
<1>5. CASE Commit(u)
  <2>1. UNCHANGED <<row, watermark, active, tickets, batch, seen, last, gap,
                    cur, todo, owner, failed, changes, got>>
    BY <1>5, Zenon DEF Commit, snapVars, pollVars, jobVars
  <2>2. /\ AfterInsert(u)
        /\ (\E as : Overlook(as)) \/ UNCHANGED <<late, doubt>>
    BY <1>5, OverlookTarget, Zenon DEF Commit, historyVars
  <2> QED
    BY <1>2, <2>1, <2>2, OverlookGrows
<1>6. CASE SyncRead(u)
  <2>1. UNCHANGED <<row, watermark, active, tickets, batch, seen, last, gap,
                    cur, todo, owner, failed, changes, late, doubt>>
    BY <1>6, Zenon DEF SyncRead, dbVars, snapVars, pollVars, jobVars, historyVars
  <2>2. \/ Return(u) /\ UNCHANGED got
        \/ (\E rows : Read(u, rows)) /\ Goto(u, "set") /\ UNCHANGED task
    BY <1>6, Zenon DEF SyncRead, readVars
  <2> QED
    BY <1>1, <2>1, <2>2, GotoSame, ReadSame
<1>7. CASE SyncSet(u)
  <2>1. UNCHANGED <<row, watermark, active, tickets, batch, seen, last, gap,
                    cur, todo, owner, failed, changes, late, doubt>>
    BY <1>7, Zenon DEF SyncSet, dbVars, snapVars, pollVars, jobVars
  <2>2. Return(u) /\ Unread(u)
    BY <1>7, Zenon DEF SyncSet
  <2> QED
    BY <1>1, <2>1, <2>2, UnreadSame
<1> QED
  BY <1>3, <1>4, <1>5, <1>6, <1>7, Zenon DEF Update

\* What the steps of no worker leave as it is.
LEMMA OtherSame ==
    ASSUME TypeOK, OtherStep
    PROVE  /\ \A w \in Workers : Same(w)
           /\ UNCHANGED <<watermark, active, tickets>>
           /\ doubt \subseteq doubt' /\ late \subseteq late'
<1> USE DEF Same
<1>0. \A u \in Updaters, w \in Workers : w # u
  BY ConstantsAssumption
<1>1. ASSUME NEW u \in Updaters, NEW a \in Accounts, ChangeAccount(u, a)
      PROVE  /\ \A w \in Workers : Same(w)
             /\ UNCHANGED <<watermark, active, tickets>>
             /\ doubt \subseteq doubt' /\ late \subseteq late'
  BY <1>0, <1>1, ChangeSame
<1>2. ASSUME NEW u \in Updaters, Update(u)
      PROVE  /\ \A w \in Workers : Same(w)
             /\ UNCHANGED <<watermark, active, tickets>>
             /\ doubt \subseteq doubt' /\ late \subseteq late'
  BY <1>0, <1>2, UpdateSame
<1>3. ASSUME NEW a \in Accounts, UpdateLastUsed(a)
      PROVE  /\ \A w \in Workers : Same(w)
             /\ UNCHANGED <<watermark, active, tickets>>
             /\ doubt \subseteq doubt' /\ late \subseteq late'
  <2>1. UNCHANGED <<watermark, active, tickets, pc, batch, last, gap, seen, todo,
                    cur, failed, owner, got, doubt, late>>
    BY <1>3, Zenon DEF UpdateLastUsed, snapVars, pollVars, jobVars, readVars,
       historyVars
  <2> QED
    BY <2>1
<1>4. ASSUME NEW b \in Buckets, LockExpires(b)
      PROVE  /\ \A w \in Workers : Same(w)
             /\ UNCHANGED <<watermark, active, tickets>>
             /\ doubt \subseteq doubt' /\ late \subseteq late'
  <2>1. UNCHANGED <<watermark, active, tickets, pc, batch, last, gap, seen, todo,
                    cur, failed, owner, got, doubt, late>>
    BY <1>4, Zenon DEF LockExpires, dbVars, snapVars, pollVars, jobVars, readVars,
       historyVars
  <2> QED
    BY <2>1
<1> QED
  BY <1>1, <1>2, <1>3, <1>4, Zenon DEF OtherStep

\* Every step leaves a worker as it was, or is the worker's own.
LEMMA OwnStep ==
    ASSUME TypeOK, [Act]_vars, NEW w \in Workers
    PROVE  Same(w) \/ WorkerStep(w)
<1>1. CASE UNCHANGED vars
  BY <1>1 DEF Same, vars, pollVars, jobVars, readVars
<1>2. CASE Act
  BY <1>2, StepCases, OtherSame, OthersSame
<1> QED
  BY <1>1, <1>2

-----------------------------------------------------------------------------
(* What a worker does next, and what an update has still to announce *)

\* Only the id at the end of the outbox is opened.
LEMMA OpenStep ==
    ASSUME TypeOK, [Act]_vars
    PROVE  open' \subseteq open \cup {Len(outbox) + 1}
<1>1. CASE UNCHANGED vars
  BY <1>1, Zenon DEF vars, dbVars
<1>2. ASSUME NEW w \in Workers, WorkerStep(w)
      PROVE  open' \subseteq open \cup {Len(outbox) + 1}
  BY <1>2, OthersSame
<1>3. ASSUME NEW u \in Updaters, NEW a \in Accounts, ChangeAccount(u, a)
      PROVE  open' \subseteq open \cup {Len(outbox) + 1}
  BY <1>3, ChangeSame
<1>4. ASSUME NEW u \in Updaters, Update(u)
      PROVE  open' \subseteq open \cup {Len(outbox) + 1}
  <2>1. \/ UNCHANGED open
        \/ open' = open \cup {Len(outbox) + 1}
        \/ \E i \in open : open' = open \ {i}
    BY <1>4, Zenon DEF Update, DropCopies, Insert, Commit, SyncRead, SyncSet, dbVars
  <2> QED
    BY <2>1
<1>5. ASSUME NEW a \in Accounts, UpdateLastUsed(a)
      PROVE  open' \subseteq open \cup {Len(outbox) + 1}
  BY <1>5 DEF UpdateLastUsed
<1>6. ASSUME NEW b \in Buckets, LockExpires(b)
      PROVE  open' \subseteq open \cup {Len(outbox) + 1}
  BY <1>6 DEF LockExpires, dbVars
<1> QED
  BY <1>1, <1>2, <1>3, <1>4, <1>5, <1>6, StepCases, Zenon DEF OtherStep

\* A worker that is as it was is at a stage of its work as before.
LEMMA StageSame ==
    ASSUME TypeOK, [Act]_vars, NEW w \in Workers, Stage(w), Same(w)
    PROVE  Stage(w)'
<1>1. \A i \in open' : InBatch(w) => i > last[w] \/ i \in gap[w]
  <2>1. last[w] \in 0 .. Len(outbox) /\ Len(outbox) \in Nat
    BY DEF TypeOK
  <2>2. Len(outbox) + 1 > last[w]
    BY <2>1
  <2> QED
    BY <2>2, OpenStep DEF Stage
<1> QED
  BY <1>1 DEF Stage, Same, InBatch, Rebuilding

\* The start of a poller's batch.
LEMMA PollFacts ==
    ASSUME TypeOK, NEW w \in Workers, Poll(w)
    PROVE  /\ pc[w] = "idle" /\ pc'[w] = "read"
           /\ batch'[w] = Above /\ batch'[w] # {}
           /\ seen'[w] = {}
           /\ last'[w] # 0
           /\ \A i \in open : i > last'[w] \/ i \in gap'[w]
           /\ UNCHANGED <<row, outbox, open, watermark, copy, active, tickets,
                          cur, todo, owner, failed, got, behind, task, late,
                          doubt, stale>>
<1>1. /\ pc[w] = "idle"
      /\ \E i \in Visible : i > watermark
      /\ batch' = [batch EXCEPT ![w] = {i \in Visible : i > watermark}]
      /\ seen' = [seen EXCEPT ![w] = {}]
      /\ last' = [last EXCEPT ![w] = Largest(Visible)]
      /\ gap' = [gap EXCEPT ![w] = {i \in open : i < Largest(Visible)}]
      /\ Goto(w, "read")
      /\ UNCHANGED <<row, outbox, open, watermark, copy, active, tickets,
                     cur, todo, owner, failed, got, behind, task, late,
                     doubt, stale>>
  BY Zenon DEF Poll, dbVars, snapVars, jobVars, readVars, historyVars
<1>2. Visible \in SUBSET (1 .. Len(outbox)) /\ Visible # {} /\ Len(outbox) \in Nat
  <2>1. Visible # {}
    BY <1>1
  <2>2. Visible \in SUBSET (1 .. Len(outbox))
    BY DEF Visible
  <2>3. Len(outbox) \in Nat
    BY DEF TypeOK
  <2> QED
    BY <2>1, <2>2, <2>3
<1>3. Largest(Visible) \in Visible /\ \A j \in Visible : Largest(Visible) >= j
  BY <1>2, LargestIs, Zenon
<1>4. \A i \in Visible : i \in Nat /\ i >= 1
  BY <1>2
<1>5. Largest(Visible) \in Nat /\ Largest(Visible) # 0
  <2>1. Largest(Visible) \in Nat /\ Largest(Visible) >= 1
    BY <1>3, <1>4, Zenon
  <2> QED
    BY <2>1
<1>6. \A i \in open : i > Largest(Visible) \/ i < Largest(Visible)
  <2>1. SUFFICES ASSUME NEW i \in open
                 PROVE  i > Largest(Visible) \/ i < Largest(Visible)
    OBVIOUS
  <2>2. i \in Nat /\ i # Largest(Visible)
    <3>1. \A j \in Visible : j \notin open
      BY DEF Visible
    <3>2. Largest(Visible) \notin open
      BY <1>3, <3>1, Zenon
    <3>3. i \in 1 .. Len(outbox)
      BY DEF TypeOK
    <3> QED
      BY <3>2, <3>3
  <2> QED
    BY <1>5, <2>2
<1> DEFINE l == Largest(Visible)
<1> HIDE DEF l
<1>7. last' = [last EXCEPT ![w] = l] /\ gap' = [gap EXCEPT ![w] = {i \in open : i < l}]
  BY <1>1, Zenon DEF l
<1>8. l # 0 /\ \A i \in open : i > l \/ i < l
  BY <1>5, <1>6, Zenon DEF l
<1>9. last'[w] = l /\ gap'[w] = {i \in open : i < l}
  BY <1>7 DEF TypeOK
<1>10. /\ batch'[w] = Above /\ batch'[w] # {} /\ seen'[w] = {} /\ pc'[w] = "read"
  BY <1>1, GotoSame DEF TypeOK, Above
<1> QED
  BY <1>1, <1>8, <1>9, <1>10

-----------------------------------------------------------------------------
(* What each step of a worker does, one variable at a time *)

\* handleAccountEvent reads the row, or for UpdateLastUsed the copy.
LEMMA ReadFacts ==
    ASSUME TypeOK, StageInv, NEW w \in Workers, ReadAccount(w)
    PROVE  /\ w \in Pollers /\ pc[w] = "read" /\ pc'[w] = "set"
           /\ Current(w).account \in Accounts
           /\ \A a \in Accounts :
                 got'[w][a] = IF a # Current(w).account THEN Nil
                              ELSE IF Current(w).kind = "lastUsed" THEN copy[a]
                              ELSE row[a]
           /\ \A v \in (Workers \cup Updaters) \ {w} :
                 got'[v] = got[v] /\ (v \in behind' <=> v \in behind)
           /\ w \in behind' <=> \E a \in Accounts :
                                   got'[w][a] \notin {Nil, row[a]} /\ a \in stale
           /\ UNCHANGED <<watermark, copy, active, tickets, batch, seen, last,
                          gap, cur, todo, owner, failed, late, doubt, stale>>
<1> DEFINE c == Current(w).account
           rows == [None EXCEPT ![c] = IF Current(w).kind = "lastUsed"
                                          THEN copy[c] ELSE row[c]]
<1>1. /\ w \in Pollers /\ pc[w] = "read"
      /\ Read(w, rows) /\ Goto(w, "set")
      /\ UNCHANGED <<watermark, copy, active, tickets, batch, seen, last,
                     gap, cur, todo, owner, failed, late, doubt, stale>>
  BY DEF ReadAccount, snapVars, pollVars, jobVars, historyVars
<1>2. c \in Accounts
  BY <1>1, CurrentIs
<1>3. \A a \in Accounts :
         rows[a] = IF a # c THEN Nil
                   ELSE IF Current(w).kind = "lastUsed" THEN copy[a] ELSE row[a]
  BY <1>2 DEF None
<1> HIDE DEF rows
<1>4. got'[w] = rows
  BY <1>1, ReadSame
<1> QED
  BY <1>1, <1>2, <1>3, <1>4, ReadSame, GotoSame

\* The buckets that SetAccount leaves to be rebuilt, with those that the batch
\* has rebuilt before.
Named(w) ==
    IF Current(w).kind = "lastUsed" THEN {}
    ELSE EventBuckets(Current(w), got[w][Current(w).account])

\* handleAccountEvent writes the copy and names the buckets to rebuild.
LEMMA SetFacts ==
    ASSUME TypeOK, StageInv, NEW w \in Workers, SetAccount(w)
    PROVE  /\ w \in Pollers /\ pc[w] = "set" /\ pc'[w] = "next"
           /\ todo'[w] = Named(w) \ seen[w]
           /\ seen'[w] = seen[w] \cup Named(w)
           /\ Named(w) \in SUBSET Buckets
           /\ doubt \subseteq doubt' /\ late \subseteq late'
           /\ behind \subseteq behind'
           /\ \E a \in Accounts :
                 /\ a = Current(w).account
                 /\ \/ UNCHANGED <<copy, stale>> /\ Current(w).kind = "lastUsed"
                    \/ /\ copy' = [copy EXCEPT ![a] = got[w][a]]
                       /\ NoteCopies(w, {a})
                 /\ Current(w).kind # "lastUsed" =>
                       /\ \E bs : bs = Buckets \ Named(w) /\ Forget({a}, bs)
                       /\ behind' = behind \cup OldReads({a})
           /\ UNCHANGED <<watermark, active, tickets, batch, last, gap, cur,
                          owner, failed, got>>
<1> DEFINE c == Current(w).account
<1>1. /\ w \in Pollers /\ pc[w] = "set"
      /\ Goto(w, "next")
      /\ UNCHANGED <<watermark, active, tickets, batch, last, gap, cur,
                     owner, failed, got>>
  BY Zenon DEF SetAccount, snapVars
<1>2. c \in Accounts /\ Current(w) \in Events
  BY <1>1, CurrentIs
<1>3. got[w][c] \in Rows \cup {Nil}
  BY <1>2 DEF TypeOK
<1>4. Named(w) \in SUBSET Buckets
  <2>1. {} \in SUBSET Buckets
    OBVIOUS
  <2> QED
    BY <1>2, <1>3, <2>1, EventBucketsIs, Zenon DEF Named
<1>5. PICK a : a = c
  OBVIOUS
<1>6. /\ todo' = [todo EXCEPT ![w] = Named(w) \ seen[w]]
      /\ seen' = [seen EXCEPT ![w] = @ \cup Named(w)]
  BY DEF SetAccount, Named
<1>7. \/ UNCHANGED <<copy, stale>> /\ Current(w).kind = "lastUsed"
      \/ /\ copy' = [copy EXCEPT ![a] = got[w][a]]
         /\ NoteCopies(w, {a})
  BY <1>5 DEF SetAccount, NoteCopies
<1>8. IF Current(w).kind = "lastUsed"
         THEN UNCHANGED <<doubt, late, behind>>
         ELSE /\ \E bs : bs = Buckets \ Named(w) /\ Forget({a}, bs)
              /\ behind' = behind \cup OldReads({a})
  <2>1. PICK bs : bs = Buckets \ Named(w)
    OBVIOUS
  <2>2. CASE Current(w).kind = "lastUsed"
    BY <2>2 DEF SetAccount
  <2>3. CASE Current(w).kind # "lastUsed"
    <3>1. bs = Buckets \ EventBuckets(Current(w), got[w][a])
      BY <1>5, <2>1, <2>3 DEF Named
    <3>2. Forget({a}, bs)
      BY <1>5, <2>3, <3>1 DEF SetAccount, Forget, OldJobs
    <3>3. behind' = behind \cup OldReads({a})
      BY <1>5, <2>3 DEF SetAccount, OldReads
    <3> QED
      BY <2>1, <2>3, <3>2, <3>3
  <2> QED
    BY <2>2, <2>3
<1>9. doubt \subseteq doubt' /\ late \subseteq late' /\ behind \subseteq behind'
  <2>1. CASE Current(w).kind = "lastUsed"
    BY <1>8, <2>1
  <2>2. CASE Current(w).kind # "lastUsed"
    BY <1>8, <2>2, ForgetGrows
  <2> QED
    BY <2>1, <2>2
<1>10. todo'[w] = Named(w) \ seen[w] /\ seen'[w] = seen[w] \cup Named(w)
  BY <1>6 DEF TypeOK
<1> QED
  BY <1>1, <1>2, <1>4, <1>5, <1>7, <1>8, <1>9, <1>10, GotoSame

\* pollOutbox goes on with the next event, or ends the batch on an error.
LEMMA FinishFacts ==
    ASSUME TypeOK, NEW w \in Workers, FinishEvent(w)
    PROVE  /\ w \in Pollers /\ pc[w] = "next"
           /\ todo[w] = {} /\ batch[w] # {}
           /\ w \notin failed'
           /\ \/ pc'[w] = "idle" /\ last'[w] = 0 /\ batch'[w] = {}
              \/ /\ w \notin failed
                 /\ batch'[w] = batch[w] \ {Least(batch[w])}
                 /\ pc'[w] = IF batch'[w] = {} THEN "mark" ELSE "read"
                 /\ UNCHANGED <<seen, last, gap>>
           /\ Unread(w)
           /\ UNCHANGED <<watermark, copy, active, tickets, cur, todo, owner,
                          late, doubt, stale>>
<1> DEFINE left == batch[w] \ {Least(batch[w])}
<1>1. /\ w \in Pollers /\ pc[w] = "next"
      /\ todo[w] = {} /\ batch[w] # {}
      /\ failed' = failed \ {w} /\ Unread(w)
      /\ UNCHANGED <<watermark, copy, active, tickets, cur, todo, owner,
                     late, doubt, stale>>
      /\ \/ Goto(w, "idle") /\ EndBatch(w)
         \/ /\ w \notin failed
            /\ Goto(w, IF left = {} THEN "mark" ELSE "read")
            /\ batch' = [batch EXCEPT ![w] = left]
            /\ UNCHANGED <<seen, last, gap>>
  BY Zenon DEF FinishEvent, snapVars, historyVars
<1> HIDE DEF left
<1>2. CASE Goto(w, "idle") /\ EndBatch(w)
  BY <1>1, <1>2, GotoSame, EndBatchSame
<1>3. CASE /\ w \notin failed
           /\ Goto(w, IF left = {} THEN "mark" ELSE "read")
           /\ batch' = [batch EXCEPT ![w] = left]
           /\ UNCHANGED <<seen, last, gap>>
  <2>1. batch'[w] = left
    BY <1>3 DEF TypeOK
  <2> QED
    BY <1>1, <1>3, <2>1, GotoSame DEF left
<1> QED
  BY <1>1, <1>2, <1>3

\* pollOutbox moves the watermark to the last event it listed.
LEMMA MarkFacts ==
    ASSUME TypeOK, NEW w \in Workers, Mark(w)
    PROVE  /\ w \in Pollers /\ pc[w] = "mark"
           /\ last'[w] = 0 /\ batch'[w] = {}
           /\ (pc'[w] = "idle" /\ UNCHANGED todo) \/ pc'[w] = "next"
           /\ \/ /\ watermark' = last[w]
                 /\ \E as : /\ as = {outbox[i].account : i \in gap[w] \cap Visible}
                            /\ Overlook(as)
              \/ UNCHANGED <<watermark, behind, late, doubt, stale>>
           /\ UNCHANGED <<copy, active, tickets, cur, owner, failed, got>>
<1>1. /\ w \in Pollers /\ pc[w] = "mark"
      /\ EndBatch(w)
      /\ (Goto(w, "idle") /\ UNCHANGED todo) \/ Goto(w, "next")
      /\ UNCHANGED <<copy, active, tickets, cur, owner, failed, got>>
  BY Zenon DEF Mark, snapVars
<1>2. \/ /\ watermark' = last[w]
         /\ \E as : /\ as = {outbox[i].account : i \in gap[w] \cap Visible}
                    /\ Overlook(as)
      \/ UNCHANGED <<watermark, behind, late, doubt, stale>>
  BY DEF Mark, historyVars, Overlook, Forget, OldJobs, OldReads
<1> QED
  BY <1>1, <1>2, GotoSame, EndBatchSame

\* rebuildBucket takes the lock and loads, meets the lock, or fails.
LEMMA LockFacts ==
    ASSUME TypeOK, NEW w \in Workers, LockBucket(w)
    PROVE  /\ pc[w] = "next"
           /\ \E b \in todo[w] :
                 /\ b \in Buckets
                 /\ todo'[w] = todo[w] \ {b}
                 /\ \/ /\ w \in owner' /\ cur'[w] = b /\ pc'[w] = "version"
                       /\ LoadBucket(w, b)
                       /\ UNCHANGED <<failed, late, doubt, stale>>
                    \/ /\ Forget(Accounts, {b})
                       /\ UNCHANGED <<pc, cur, owner, got, behind, failed, stale>>
                    \/ /\ w \in failed'
                       /\ UNCHANGED <<pc, cur, owner, got, behind, late, doubt,
                                      stale>>
           /\ UNCHANGED <<watermark, copy, active, tickets, batch, seen, last,
                          gap>>
<1>1. /\ pc[w] = "next"
      /\ UNCHANGED <<watermark, copy, active, tickets, batch, seen, last, gap>>
  BY Zenon DEF LockBucket, snapVars, pollVars
<1>2. PICK b \in todo[w] :
        /\ todo' = [todo EXCEPT ![w] = @ \ {b}]
        /\ \/ /\ owner' = owner \cup {w}
              /\ LoadBucket(w, b)
              /\ UNCHANGED <<failed, late, doubt, stale>>
           \/ /\ Forget(Accounts, {b})
              /\ UNCHANGED <<pc, cur, owner, got, behind, failed, stale>>
           \/ /\ failed' = failed \cup {w}
              /\ UNCHANGED <<pc, cur, owner, got, behind, late, doubt, stale>>
  BY Zenon DEF LockBucket, readVars, historyVars
<1>3. b \in Buckets /\ todo'[w] = todo[w] \ {b}
  BY <1>2 DEF TypeOK
<1>4. LoadBucket(w, b) => cur'[w] = b /\ pc'[w] = "version"
  BY <1>3, LoadBucketSame
<1> QED
  BY <1>1, <1>2, <1>3, <1>4

\* SetSnapshot takes a version above those of its bucket.
LEMMA TakeFacts ==
    ASSUME TypeOK, NEW w \in Workers, TakeVersion(w)
    PROVE  /\ pc[w] = "version" /\ pc'[w] = "write"
           /\ tickets'[w] = {v \in Workers : HasTicket(v) /\ cur[v] = cur[w]}
                               \cup {w}
           /\ \A v \in Workers \ {w} : /\ tickets'[v] = tickets[v]
                                       /\ v \in late' <=> v \in late
           /\ w \in late' \/ \A a \in Accounts : Holds(w, a) = Belongs(a, cur[w])
           /\ UNCHANGED <<watermark, copy, active, batch, seen, last, gap, cur,
                          todo, owner, failed, got, behind, doubt, stale>>
<1>1. /\ pc[w] = "version" /\ Goto(w, "write")
      /\ UNCHANGED <<watermark, copy, active, batch, seen, last, gap, cur,
                     todo, owner, failed, got, behind, doubt, stale>>
  BY Zenon DEF TakeVersion, pollVars, jobVars, readVars
<1>2. tickets' = [tickets EXCEPT ![w] =
                     {v \in Workers : HasTicket(v) /\ cur[v] = cur[w]} \cup {w}]
  BY DEF TakeVersion
<1>3. late' = IF \E a \in Accounts : Holds(w, a) # Belongs(a, cur[w])
                 THEN late \cup {w} ELSE late
  BY DEF TakeVersion
<1>4. /\ \A v \in Workers \ {w} : v \in late' <=> v \in late
      /\ w \in late' \/ \A a \in Accounts : Holds(w, a) = Belongs(a, cur[w])
  BY <1>3
<1>5. /\ tickets'[w] = {v \in Workers : HasTicket(v) /\ cur[v] = cur[w]} \cup {w}
      /\ \A v \in Workers \ {w} : tickets'[v] = tickets[v]
  BY <1>2 DEF TypeOK
<1> QED
  BY <1>1, <1>4, <1>5, GotoSame

\* writeAccounts copies what the rebuild has read.
LEMMA WriteFacts ==
    ASSUME TypeOK, NEW w \in Workers, WriteCopies(w)
    PROVE  /\ pc[w] = "write" /\ pc'[w] = "activate"
           /\ \E as : /\ as = {a \in Accounts : Holds(w, a)}
                      /\ copy' = [a \in Accounts |->
                                     IF a \in as THEN got[w][a] ELSE copy[a]]
                      /\ NoteCopies(w, as)
           /\ UNCHANGED <<watermark, active, tickets, batch, seen, last, gap,
                          cur, todo, owner, failed, got, behind, late, doubt>>
<1>1. /\ pc[w] = "write" /\ Goto(w, "activate")
      /\ UNCHANGED <<watermark, active, tickets, batch, seen, last, gap,
                     cur, todo, owner, failed, got, behind, late, doubt>>
  BY Zenon DEF WriteCopies, snapVars, pollVars, jobVars, readVars
<1>2. \E as : /\ as = {a \in Accounts : Holds(w, a)}
              /\ copy' = [a \in Accounts |-> IF a \in as THEN got[w][a] ELSE copy[a]]
              /\ NoteCopies(w, as)
  BY Zenon DEF WriteCopies
<1> QED
  BY <1>1, <1>2, GotoSame

\* The script activates a version that is not below the active one.
LEMMA ActivateFacts ==
    ASSUME TypeOK, NEW w \in Workers, Activate(w)
    PROVE  /\ pc[w] = "activate"
           /\ pc'[w] = IF w \in owner THEN "next" ELSE "idle"
           /\ LeaveBucket(w)
           /\ \/ /\ HasTicket(w) /\ Void(tickets[w])
                 /\ active' = [active EXCEPT ![cur[w]] =
                                  {a \in Accounts : Holds(w, a)}]
                 /\ doubt' = {p \in Wrong' :
                                 p \in doubt \/ (p[2] = cur[w] /\ w \in late)}
              \/ ~HasTicket(w) /\ UNCHANGED <<active, tickets, doubt>>
           /\ UNCHANGED <<watermark, copy, batch, seen, last, gap, todo, failed,
                          stale>>
<1>1. /\ pc[w] = "activate" /\ LeaveBucket(w) /\ Resume(w)
      /\ UNCHANGED <<watermark, copy, batch, seen, last, gap, todo, failed,
                     stale>>
  BY Zenon DEF Activate, pollVars
<1>2. \/ /\ HasTicket(w) /\ Void(tickets[w])
         /\ active' = [active EXCEPT ![cur[w]] = {a \in Accounts : Holds(w, a)}]
         /\ doubt' = {p \in Wrong' :
                         p \in doubt \/ (p[2] = cur[w] /\ w \in late)}
      \/ ~HasTicket(w) /\ UNCHANGED <<active, tickets, doubt>>
  BY Zenon DEF Activate, snapVars
<1> QED
  BY <1>1, <1>2, GotoSame DEF Resume

\* A rebuild that fails gives up its version and its lock.
LEMMA RebuildFailsFacts ==
    ASSUME TypeOK, NEW w \in Workers, RebuildFails(w)
    PROVE  /\ Rebuilding(w)
           /\ pc'[w] = IF w \in owner THEN "next" ELSE "idle"
           /\ w \in owner => w \in failed'
           /\ Void({w}) /\ LeaveBucket(w)
           /\ UNCHANGED <<watermark, copy, active, batch, seen, last, gap, todo,
                          doubt, stale>>
<1>1. /\ pc[w] \in {"version", "write", "activate"}
      /\ Withdraw(w) /\ Resume(w)
      /\ failed' = IF w \in owner THEN failed \cup {w} ELSE failed
      /\ UNCHANGED <<watermark, copy, active, batch, seen, last, gap, todo,
                     doubt, stale>>
  BY Zenon DEF RebuildFails, pollVars
<1> QED
  BY <1>1, GotoSame DEF Resume, Withdraw, Rebuilding

\* A worker that dies leaves its batch, its bucket and its version.
LEMMA CrashFacts ==
    ASSUME TypeOK, NEW w \in Workers, Crash(w)
    PROVE  /\ pc'[w] = "idle" /\ todo'[w] = {}
           /\ last'[w] = 0 /\ batch'[w] = {}
           /\ Void({w}) /\ LeaveBucket(w)
           /\ UNCHANGED <<watermark, copy, active, doubt, stale>>
<1>1. /\ Withdraw(w) /\ EndBatch(w) /\ Goto(w, "idle")
      /\ todo' = [todo EXCEPT ![w] = {}]
      /\ UNCHANGED <<watermark, copy, active, doubt, stale>>
  BY Zenon DEF Crash
<1>2. todo'[w] = {}
  BY <1>1 DEF TypeOK
<1> QED
  BY <1>1, <1>2, GotoSame, EndBatchSame DEF Withdraw

\* An event that fails ends the batch before the watermark moves.
LEMMA EventFailsFacts ==
    ASSUME TypeOK, NEW w \in Workers, EventFails(w)
    PROVE  /\ pc[w] \in {"read", "set"} /\ pc'[w] = "idle"
           /\ last'[w] = 0 /\ batch'[w] = {}
           /\ Unread(w)
           /\ UNCHANGED <<watermark, copy, active, tickets, cur, todo, owner,
                          failed, late, doubt, stale>>
<1>1. /\ pc[w] \in {"read", "set"}
      /\ EndBatch(w) /\ Unread(w) /\ Goto(w, "idle")
      /\ UNCHANGED <<watermark, copy, active, tickets, cur, todo, owner,
                     failed, late, doubt, stale>>
  BY Zenon DEF EventFails, snapVars, jobVars, historyVars
<1> QED
  BY <1>1, GotoSame, EndBatchSame

\* A full rebuild or a request that misses begins, or a rebuild ends.
LEMMA IdleFacts ==
    ASSUME TypeOK, NEW w \in Workers,
           \/ FinishRebuild(w) \/ FullRebuild(w)
           \/ \E b \in Buckets : Fallback(w, b)
    PROVE  /\ \/ /\ FinishRebuild(w)
                 /\ pc[w] = "next" /\ todo[w] = {} /\ batch[w] = {}
                 /\ pc'[w] = "idle" /\ UNCHANGED <<todo, cur, got, behind>>
              \/ /\ FullRebuild(w)
                 /\ pc[w] = "idle"
                 /\ pc'[w] = "next" /\ UNCHANGED <<cur, got, behind>>
              \/ /\ \E b \in Buckets : LoadBucket(w, b)
                 /\ pc[w] = "idle" /\ cur'[w] \in Buckets
                 /\ pc'[w] = "version" /\ UNCHANGED todo
           /\ UNCHANGED <<watermark, copy, active, tickets, batch, seen, last, gap,
                          owner, late, doubt, stale>>
<1>1. CASE FinishRebuild(w)
  <2>1. /\ pc[w] = "next" /\ todo[w] = {} /\ batch[w] = {}
        /\ Goto(w, "idle")
        /\ UNCHANGED <<todo, cur, got, behind, watermark, copy, active, tickets,
                       batch, seen, last, gap, owner, late, doubt, stale>>
    BY <1>1, Zenon DEF FinishRebuild, snapVars, pollVars, readVars, historyVars
  <2> QED
    BY <1>1, <2>1, GotoSame
<1>2. CASE FullRebuild(w)
  <2>1. /\ pc[w] = "idle" /\ Goto(w, "next")
        /\ UNCHANGED <<cur, got, behind, watermark, copy, active, tickets,
                       batch, seen, last, gap, owner, late, doubt, stale>>
    BY <1>2, Zenon DEF FullRebuild, snapVars, pollVars, readVars, historyVars
  <2> QED
    BY <1>2, <2>1, GotoSame
<1>3. ASSUME NEW b \in Buckets, Fallback(w, b)
      PROVE  /\ LoadBucket(w, b)
             /\ pc[w] = "idle" /\ cur'[w] \in Buckets
             /\ pc'[w] = "version" /\ UNCHANGED todo
             /\ UNCHANGED <<watermark, copy, active, tickets, batch, seen, last,
                            gap, owner, late, doubt, stale>>
  <2>1. /\ pc[w] = "idle" /\ LoadBucket(w, b)
        /\ UNCHANGED <<todo, watermark, copy, active, tickets, batch, seen, last,
                       gap, owner, late, doubt, stale>>
    BY <1>3, Zenon DEF Fallback, snapVars, pollVars, historyVars
  <2> QED
    BY <2>1, LoadBucketSame
<1> QED
  BY <1>1, <1>2, <1>3

-----------------------------------------------------------------------------
(* The steps of workers and updates *)

\* A worker's own step leads to the next stage of its work.
LEMMA StageOwn ==
    ASSUME TypeOK, StageInv, NEW w \in Workers, WorkerStep(w)
    PROVE  Stage(w)'
<1> USE DEF Stage, InBatch, Rebuilding
<1>0. Stage(w) /\ open' = open
  BY OthersSame DEF StageInv
<1>1. CASE ReadAccount(w)
  BY <1>0, <1>1, ReadFacts
<1>2. CASE SetAccount(w)
  BY <1>0, <1>2, SetFacts
<1>3. CASE FinishEvent(w)
  BY <1>0, <1>3, FinishFacts
<1>4. CASE Mark(w)
  BY <1>0, <1>4, MarkFacts
<1>5. CASE LockBucket(w)
  <2>1. /\ pc[w] = "next"
        /\ UNCHANGED <<batch, seen, last, gap>>
        /\ pc'[w] = "next" \/ /\ pc'[w] = "version"
                              /\ cur'[w] \in Buckets /\ w \in owner'
    BY <1>5, LockFacts
  <2> QED
    BY <1>0, <2>1
<1>6. CASE TakeVersion(w)
  BY <1>0, <1>6, TakeFacts
<1>7. CASE WriteCopies(w)
  BY <1>0, <1>7, WriteFacts
<1>8. CASE Activate(w)
  BY <1>0, <1>8, ActivateFacts
<1>9. CASE RebuildFails(w)
  BY <1>0, <1>9, RebuildFailsFacts
<1>10. CASE Crash(w)
  BY <1>0, <1>10, CrashFacts
<1>11. CASE w \in Pollers /\ Poll(w)
  <2>1. /\ pc[w] = "idle" /\ pc'[w] = "read"
        /\ batch'[w] # {} /\ last'[w] # 0 /\ UNCHANGED <<todo, open>>
        /\ \A i \in open : i > last'[w] \/ i \in gap'[w]
    BY <1>11, PollFacts
  <2> QED
    BY <1>0, <1>11, <2>1
<1>12. CASE EventFails(w)
  BY <1>0, <1>12, EventFailsFacts
<1>13. CASE \/ FinishRebuild(w) \/ FullRebuild(w)
            \/ \E b \in Buckets : Fallback(w, b)
  BY <1>0, <1>13, IdleFacts
<1> QED
  BY <1>1, <1>2, <1>3, <1>4, <1>5, <1>6, <1>7, <1>8, <1>9, <1>10, <1>11, <1>12,
     <1>13, Zenon DEF WorkerStep, Work

\* Every step keeps StageInv.
LEMMA StageStep ==
    ASSUME TypeOK, StageInv, [Act]_vars
    PROVE  StageInv'
<1>1. SUFFICES ASSUME NEW w \in Workers PROVE Stage(w)'
  BY DEF StageInv
<1> QED
  BY OwnStep, StageOwn, StageSame DEF StageInv

\* A task is there from the change to its end.
LEMMA TaskStep ==
    ASSUME TypeOK, TaskInv, [Act]_vars
    PROVE  TaskInv'
<1> DEFINE Fine(u) ==
             pc[u] # "idle" => task[u] \in Tasks /\ task[u].event.kind # "lastUsed"
<1>1. SUFFICES ASSUME NEW v \in Updaters PROVE Fine(v)'
  BY DEF TaskInv
<1>2. Fine(v)
  BY DEF TaskInv
<1>3. CASE pc'[v] = pc[v] /\ task'[v] = task[v]
  BY <1>2, <1>3
<1>4. CASE UNCHANGED vars
  BY <1>3, <1>4 DEF vars
<1>5. ASSUME NEW w \in Workers, WorkerStep(w) PROVE Fine(v)'
  BY <1>3, <1>5, OthersSame
<1>6. ASSUME NEW u \in Updaters, NEW a \in Accounts, ChangeAccount(u, a)
      PROVE  Fine(v)'
  <2>1. CASE u # v
    BY <1>3, <1>6, <2>1, ChangeSame
  <2>2. CASE u = v
    <3>1. ASSUME NEW next, NEW kind \in {"changed", "groups"},
                 NEW groups \in SUBSET Buckets, NEW sync \in BOOLEAN,
                 Then(u, next, kind, a, groups, sync)
          PROVE  Fine(v)'
      <4> DEFINE event == [kind |-> kind, account |-> a, groups |-> groups]
                 t == [event |-> event, sync |-> sync]
      <4>1. t \in Tasks /\ t.event = event /\ event.kind # "lastUsed"
        BY TaskIs
      <4>2. task' = [task EXCEPT ![u] = t]
        BY <3>1, Zenon DEF Then
      <4> HIDE DEF event, t
      <4> QED
        BY <2>2, <4>1, <4>2 DEF TypeOK
    <3>2. ASSUME NEW new, Change(u, a, new)
          PROVE  row[a].in \in SUBSET Buckets /\ pc[u] = "idle"
      <4>1. row[a] \in Rows /\ pc[u] = "idle"
        BY <3>2 DEF Change, TypeOK
      <4> QED
        BY <4>1 DEF Rows
    <3>3. ASSUME NEW up \in BOOLEAN, SetState(u, a, up) PROVE Fine(v)'
      <4>1. \E sync \in BOOLEAN : Then(u, "insert", "changed", a, {}, sync)
        BY <3>3, Zenon DEF SetState
      <4> QED
        BY <3>1, <4>1
    <3>4. ASSUME NEW groups \in SUBSET Buckets, BindGroups(u, a, groups)
          PROVE  Fine(v)'
      <4>1. /\ \E new : Change(u, a, new)
            /\ \/ Then(u, "insert", "groups", a, row[a].in \cup groups, FALSE)
               \/ UNCHANGED <<pc, task>>
        BY <3>4, Zenon DEF BindGroups
      <4>2. row[a].in \cup groups \in SUBSET Buckets
        BY <3>2, <4>1
      <4> QED
        BY <1>3, <3>1, <4>1, <4>2
    <3>5. ASSUME Delete(u, a) PROVE Fine(v)'
      <4>1. Change(u, a, Nil) /\ Then(u, "drop", "changed", a, row[a].in, FALSE)
        BY <3>5, Zenon DEF Delete
      <4> QED
        BY <3>1, <3>2, <4>1
    <3> QED
      BY <1>6, <3>3, <3>4, <3>5, Zenon DEF ChangeAccount
  <2> QED
    BY <2>1, <2>2
<1>7. ASSUME NEW u \in Updaters, Update(u) PROVE Fine(v)'
  <2>1. CASE u # v
    BY <1>3, <1>7, <2>1, UpdateSame
  <2>2. CASE u = v
    <3>1. pc[u] # "idle"
      BY <1>7 DEF Update, DropCopies, Insert, Commit, SyncRead, SyncSet
    <3>2. Return(u) \/ UNCHANGED task
      BY <1>7, Zenon DEF Update, DropCopies, Insert, Commit, SyncRead, SyncSet,
         AfterInsert
    <3>3. Return(u) => pc'[u] = "idle"
      BY GotoSame DEF Return
    <3> QED
      BY <1>2, <2>2, <3>1, <3>2, <3>3
  <2> QED
    BY <2>1, <2>2
<1>8. ASSUME NEW a \in Accounts, UpdateLastUsed(a) PROVE Fine(v)'
  BY <1>3, <1>8 DEF UpdateLastUsed
<1>9. ASSUME NEW b \in Buckets, LockExpires(b) PROVE Fine(v)'
  BY <1>3, <1>9 DEF LockExpires
<1> QED
  BY <1>4, <1>5, <1>6, <1>7, <1>8, <1>9, StepCases, Zenon DEF OtherStep

-----------------------------------------------------------------------------
(* Versions *)

\* The lists are as they were, and so is every rebuild with a version.
ListsStay ==
    /\ UNCHANGED <<active, tickets>>
    /\ doubt \subseteq doubt'
    /\ \A v \in Workers :
          HasTicket(v) => /\ cur'[v] = cur[v] /\ got'[v] = got[v]
                          /\ v \in late => v \in late'
                          /\ pc'[v] \in {"write", "activate"}

\* A rebuild has a version from TakeVersion to Activate.
LEMMA TicketIs ==
    ASSUME TicketInv, NEW v \in Workers, HasTicket(v)
    PROVE  pc[v] \in {"write", "activate"}
BY DEF TicketInv, HasTicket

\* A step of a worker without a version leaves the lists as they are.
LEMMA SameLists ==
    ASSUME TypeOK, TicketInv, UNCHANGED <<active, tickets>>,
           doubt \subseteq doubt', late \subseteq late', NEW w,
           \A v \in Workers \ {w} : Same(v),
           w \in Workers => pc[w] \notin {"write", "activate"}
    PROVE  ListsStay
BY TicketIs DEF ListsStay, Same

\* A step leaves the lists as they are, takes a version, activates a list or
\* withdraws a version.
LEMMA ListCases ==
    ASSUME TypeOK, StageInv, TicketInv, [Act]_vars
    PROVE  \/ ListsStay
           \/ \E w \in Workers : TakeVersion(w) \/ RebuildFails(w) \/ Crash(w)
           \/ \E w \in Workers : Activate(w) /\ HasTicket(w)
<1>1. CASE UNCHANGED vars
  BY <1>1, TicketIs DEF ListsStay, vars, snapVars, jobVars, readVars, historyVars
<1>2. CASE OtherStep
  <2>1. \A v \in Workers \ {Nil} : Same(v)
    BY <1>2, OtherSame
  <2>2. Nil \notin Workers
    BY ConstantsAssumption
  <2> QED
    BY <1>2, <2>1, <2>2, OtherSame, SameLists
<1>3. ASSUME NEW w \in Workers, WorkerStep(w), ~TakeVersion(w),
             ~RebuildFails(w), ~Crash(w), ~(Activate(w) /\ HasTicket(w))
      PROVE  ListsStay
  <2>1. \A v \in Workers \ {w} : Same(v)
    BY <1>3, OthersSame
  <2>2. CASE ReadAccount(w)
    BY <2>1, <2>2, ReadFacts, SameLists
  <2>3. CASE SetAccount(w)
    BY <2>1, <2>3, SetFacts, SameLists
  <2>4. CASE FinishEvent(w)
    BY <2>1, <2>4, FinishFacts, SameLists
  <2>5. CASE Mark(w)
    <3>1. doubt \subseteq doubt' /\ late \subseteq late'
      BY <2>5, MarkFacts, OverlookGrows
    <3> QED
      BY <2>1, <2>5, <3>1, MarkFacts, SameLists
  <2>6. CASE LockBucket(w)
    <3>1. doubt \subseteq doubt' /\ late \subseteq late'
      BY <2>6, LockFacts, ForgetGrows
    <3> QED
      BY <2>1, <2>6, <3>1, LockFacts, SameLists
  <2>7. CASE WriteCopies(w)
    BY <2>1, <2>7, WriteFacts, TicketIs DEF ListsStay, Same
  <2>8. CASE Activate(w)
    <3>1. /\ ~HasTicket(w) /\ LeaveBucket(w)
          /\ UNCHANGED <<active, tickets, doubt>>
      BY <1>3, <2>8, ActivateFacts
    <3>2. \A v \in Workers \ {w} : v \in late => v \in late'
      BY <3>1, LeaveBucketSame
    <3> QED
      BY <2>1, <3>1, <3>2, TicketIs DEF ListsStay, Same
  <2>9. CASE Poll(w)
    BY <2>1, <2>9, PollFacts, SameLists
  <2>10. CASE EventFails(w)
    BY <2>1, <2>10, EventFailsFacts, SameLists
  <2>11. CASE \/ FinishRebuild(w) \/ FullRebuild(w)
              \/ \E b \in Buckets : Fallback(w, b)
    BY <2>1, <2>11, IdleFacts, SameLists
  <2> QED
    BY <1>3, <2>2, <2>3, <2>4, <2>5, <2>6, <2>7, <2>8, <2>9, <2>10, <2>11,
       Zenon DEF WorkerStep, Work
<1> QED
  BY <1>1, <1>2, <1>3, StepCases

\* A void version is gone, and below no other.
LEMMA VoidIs ==
    ASSUME NEW ws, Void(ws), NEW v \in Workers
    PROVE  tickets'[v] = IF v \in ws THEN {} ELSE tickets[v] \ ws
BY DEF Void

\* A step that voids versions voids the worker's own.
LEMMA VoidStep ==
    ASSUME TypeOK, NEW w \in Workers,
           (Activate(w) /\ HasTicket(w)) \/ RebuildFails(w) \/ Crash(w)
    PROVE  \E ws : /\ w \in ws
                   /\ ws = IF Activate(w) /\ HasTicket(w) THEN tickets[w] ELSE {w}
                   /\ \A v \in Workers :
                         tickets'[v] = IF v \in ws THEN {} ELSE tickets[v] \ ws
                   /\ cur'[w] = Nil
                   /\ \A v \in Workers \ {w} :
                         Same(v) /\ (v \in late' <=> v \in late)
<1>0. WorkerStep(w)
  BY DEF WorkerStep, Work
<1>1. LeaveBucket(w) /\ (\/ Void({w}) /\ ~(Activate(w) /\ HasTicket(w))
                         \/ Void(tickets[w]) /\ Activate(w) /\ HasTicket(w))
  <2>1. CASE Activate(w) /\ HasTicket(w)
    BY <2>1, ActivateFacts
  <2>2. CASE ~(Activate(w) /\ HasTicket(w))
    BY <2>2, RebuildFailsFacts, CrashFacts
  <2> QED
    BY <2>1, <2>2
<1>2. /\ cur'[w] = Nil
      /\ \A v \in Workers \ {w} : Same(v) /\ (v \in late' <=> v \in late)
  BY <1>0, <1>1, LeaveBucketSame, OthersSame
<1>3. CASE Void({w}) /\ ~(Activate(w) /\ HasTicket(w))
  <2>1. PICK ws : ws = {w}
    OBVIOUS
  <2>2. \A v \in Workers : tickets'[v] = IF v \in ws THEN {} ELSE tickets[v] \ ws
    BY <1>3, <2>1, VoidIs
  <2> QED
    BY <1>2, <1>3, <2>1, <2>2
<1>4. CASE Void(tickets[w]) /\ Activate(w) /\ HasTicket(w)
  <2>1. PICK ws : ws = tickets[w]
    OBVIOUS
  <2>2. \A v \in Workers : tickets'[v] = IF v \in ws THEN {} ELSE tickets[v] \ ws
    BY <1>4, <2>1, VoidIs
  <2> QED
    BY <1>2, <1>4, <2>1, <2>2 DEF HasTicket
<1> QED
  BY <1>1, <1>3, <1>4

\* Every step keeps TicketInv.
LEMMA TicketStep ==
    ASSUME TypeOK, StageInv, TicketInv, [Act]_vars
    PROVE  TicketInv'
<1>1. CASE ListsStay
  <2>1. \A w \in Workers : tickets[w] \subseteq Workers
    BY DEF TypeOK
  <2>2. SUFFICES ASSUME NEW w \in Workers, NEW v \in tickets'[w]
                 PROVE  /\ w \in tickets'[w] /\ v \in tickets'[v]
                        /\ pc'[v] \in {"write", "activate"} /\ cur'[v] = cur'[w]
    BY DEF TicketInv
  <2>3. v \in Workers /\ v \in tickets[w] /\ tickets' = tickets
    BY <1>1, <2>1 DEF ListsStay
  <2>4. /\ w \in tickets[w] /\ v \in tickets[v] /\ cur[v] = cur[w]
    BY <2>3 DEF TicketInv
  <2> QED
    BY <1>1, <2>3, <2>4 DEF ListsStay, HasTicket
<1>2. ASSUME NEW x \in Workers, TakeVersion(x) PROVE TicketInv'
  <2>1. /\ pc[x] = "version" /\ pc'[x] = "write" /\ UNCHANGED cur
        /\ tickets'[x] = {v \in Workers : HasTicket(v) /\ cur[v] = cur[x]}
                            \cup {x}
        /\ \A v \in Workers \ {x} : tickets'[v] = tickets[v]
    BY <1>2, TakeFacts
  <2>2. \A v \in Workers \ {x} : pc'[v] = pc[v]
    BY <1>2, OthersSame DEF WorkerStep, Work, Same
  <2>3. \A w \in Workers : tickets[w] \subseteq Workers
    BY DEF TypeOK
  <2> QED
    BY <2>1, <2>2, <2>3 DEF TicketInv, HasTicket
<1>3. ASSUME NEW x \in Workers,
             (Activate(x) /\ HasTicket(x)) \/ RebuildFails(x) \/ Crash(x)
      PROVE  TicketInv'
  <2>1. PICK ws : /\ x \in ws
                  /\ \A v \in Workers :
                        tickets'[v] = IF v \in ws THEN {} ELSE tickets[v] \ ws
                  /\ \A v \in Workers \ {x} : Same(v)
    BY <1>3, VoidStep
  <2>2. \A w \in Workers : tickets[w] \subseteq Workers
    BY DEF TypeOK
  <2>3. SUFFICES ASSUME NEW w \in Workers, NEW v \in tickets'[w]
                 PROVE  /\ w \in tickets'[w] /\ v \in tickets'[v]
                        /\ pc'[v] \in {"write", "activate"} /\ cur'[v] = cur'[w]
    BY DEF TicketInv
  <2>4. w \notin ws /\ v \in tickets[w] /\ v \notin ws /\ v \in Workers
    BY <2>1, <2>2
  <2>5. /\ w \in tickets[w] /\ v \in tickets[v]
        /\ pc[v] \in {"write", "activate"} /\ cur[v] = cur[w]
    BY <2>4 DEF TicketInv
  <2>6. tickets'[w] = tickets[w] \ ws /\ tickets'[v] = tickets[v] \ ws
    BY <2>1, <2>4
  <2>7. pc'[v] = pc[v] /\ cur'[v] = cur[v] /\ cur'[w] = cur[w]
    BY <2>1, <2>4 DEF Same
  <2> QED
    BY <2>4, <2>5, <2>6, <2>7
<1> QED
  BY <1>1, <1>2, <1>3, ListCases

\* Every step keeps OrderInv.
LEMMA OrderStep ==
    ASSUME TypeOK, StageInv, TicketInv, OrderInv, [Act]_vars
    PROVE  OrderInv'
<1>1. CASE ListsStay
  <2>1. \A v \in Workers : cur'[v] = cur[v] \/ tickets[v] = {}
    BY <1>1 DEF ListsStay, TicketInv, HasTicket, TypeOK
  <2> QED
    BY <1>1, <2>1 DEF ListsStay, OrderInv
<1>2. ASSUME NEW x \in Workers, TakeVersion(x) PROVE OrderInv'
  <2>1. /\ UNCHANGED cur
        /\ tickets'[x] = {v \in Workers : HasTicket(v) /\ cur[v] = cur[x]}
                            \cup {x}
        /\ \A v \in Workers \ {x} : tickets'[v] = tickets[v]
    BY <1>2, TakeFacts
  <2>2. \A v \in Workers \ {x} : cur[v] = cur[x] => tickets[v] \subseteq tickets'[x]
    BY <2>1 DEF TicketInv, HasTicket, TypeOK
  <2> QED
    BY <2>1, <2>2 DEF OrderInv
<1>3. ASSUME NEW x \in Workers,
             (Activate(x) /\ HasTicket(x)) \/ RebuildFails(x) \/ Crash(x)
      PROVE  OrderInv'
  <2>1. PICK ws : /\ x \in ws
                  /\ \A v \in Workers :
                        tickets'[v] = IF v \in ws THEN {} ELSE tickets[v] \ ws
                  /\ \A v \in Workers \ {x} : Same(v)
    BY <1>3, VoidStep
  <2>2. SUFFICES ASSUME NEW v \in Workers, NEW w \in Workers, cur'[v] = cur'[w]
                 PROVE  \/ tickets'[v] \subseteq tickets'[w]
                        \/ tickets'[w] \subseteq tickets'[v]
    BY DEF OrderInv
  <2>3. CASE v \in ws \/ w \in ws
    BY <2>1, <2>3
  <2>4. CASE v \notin ws /\ w \notin ws
    <3>1. tickets'[w] = tickets[w] \ ws /\ tickets'[v] = tickets[v] \ ws
      BY <2>1, <2>4
    <3>2. cur'[v] = cur[v] /\ cur'[w] = cur[w]
      BY <2>1, <2>4 DEF Same
    <3>3. tickets[v] \subseteq tickets[w] \/ tickets[w] \subseteq tickets[v]
      BY <2>2, <3>2 DEF OrderInv
    <3> QED
      BY <3>1, <3>3
  <2> QED
    BY <2>3, <2>4
<1> QED
  BY <1>1, <1>2, <1>3, ListCases

-----------------------------------------------------------------------------
(* What is old is not new *)

\* Who belongs to a bucket is a matter of the row.
LEMMA BelongsSame ==
    ASSUME NEW a, NEW b, row'[a] = row[a]
    PROVE  Belongs(a, b)' = Belongs(a, b)
BY DEF Belongs

\* A step that does not change the account makes no rebuild of it old.
LEMMA JobKept ==
    ASSUME TypeOK, StageInv, TicketInv, [Act]_vars, NEW a \in Accounts,
           row'[a] = row[a], NEW b \in Buckets, NEW v \in Workers, OldJob(v, a, b)'
    PROVE  OldJob(v, a, b) /\ tickets'[v] \subseteq tickets[v]
<1>0. /\ v \in tickets'[v] /\ cur'[v] = b
      /\ (got'[v][a] # Nil) # Belongs(a, b)
      /\ v \notin late'
  BY BelongsSame DEF OldJob, Holds
<1>1. CASE ListsStay
  BY <1>0, <1>1 DEF ListsStay, HasTicket, OldJob, Holds
<1>2. ASSUME NEW x \in Workers, TakeVersion(x)
      PROVE  OldJob(v, a, b) /\ tickets'[v] \subseteq tickets[v]
  <2>1. /\ \A w \in Workers \ {x} : /\ tickets'[w] = tickets[w]
                                    /\ w \in late' <=> w \in late
        /\ x \in late' \/ \A c \in Accounts : Holds(x, c) = Belongs(c, cur[x])
        /\ UNCHANGED <<cur, got>>
    BY <1>2, TakeFacts
  <2>2. v # x
    BY <1>0, <2>1 DEF Holds
  <2> QED
    BY <1>0, <2>1, <2>2 DEF OldJob, Holds
<1>3. ASSUME NEW x \in Workers,
             (Activate(x) /\ HasTicket(x)) \/ RebuildFails(x) \/ Crash(x)
      PROVE  OldJob(v, a, b) /\ tickets'[v] \subseteq tickets[v]
  <2>1. PICK ws : /\ x \in ws
                  /\ \A w \in Workers :
                        tickets'[w] = IF w \in ws THEN {} ELSE tickets[w] \ ws
                  /\ \A w \in Workers \ {x} : Same(w) /\ (w \in late' <=> w \in late)
    BY <1>3, VoidStep
  <2>2. v \notin ws /\ v # x
    BY <1>0, <2>1
  <2> QED
    BY <1>0, <2>1, <2>2 DEF OldJob, Holds, Same
<1> QED
  BY <1>1, <1>2, <1>3, ListCases

\* What an old list entry is, before and after a step.
LEMMA OldListIs ==
    ASSUME NEW a \in Accounts, NEW b \in Buckets
    PROVE  /\ OldList(a, b) <=> /\ active[b] # Nil
                                /\ (a \in active[b]) # Belongs(a, b)
                                /\ <<a, b>> \notin doubt
           /\ OldList(a, b)' <=> /\ active'[b] # Nil
                                 /\ (a \in active'[b]) # Belongs(a, b)'
                                 /\ <<a, b>> \notin doubt'
<1>1. OldList(a, b) <=> /\ active[b] # Nil
                        /\ (a \in active[b]) # Belongs(a, b)
                        /\ <<a, b>> \notin doubt
  BY DEF OldList, Wrong, Listed
<1>2. OldList(a, b)' <=> /\ active'[b] # Nil
                         /\ (a \in active'[b]) # Belongs(a, b)'
                         /\ <<a, b>> \notin doubt'
  BY DEF OldList, Wrong, Listed
<1> QED
  BY <1>1, <1>2

\* An entry is as old as it was while list and row stay.
LEMMA ListStays ==
    ASSUME NEW a \in Accounts, NEW b \in Buckets, row'[a] = row[a],
           active' = active, doubt \subseteq doubt', OldList(a, b)'
    PROVE  OldList(a, b)
BY OldListIs, BelongsSame

\* A list is as old as the rebuild that it comes from.
LEMMA ListActivated ==
    ASSUME TypeOK, StageInv, NEW a \in Accounts, NEW b \in Buckets,
           row'[a] = row[a], NEW x \in Workers, Activate(x), HasTicket(x),
           OldList(a, b)'
    PROVE  IF cur[x] = b THEN OldJob(x, a, b) ELSE OldList(a, b)
<1>1. /\ pc[x] = "activate"
      /\ active' = [active EXCEPT ![cur[x]] = {c \in Accounts : Holds(x, c)}]
      /\ doubt' = {p \in Wrong' : p \in doubt \/ (p[2] = cur[x] /\ x \in late)}
  BY ActivateFacts
<1>2. cur[x] \in Buckets
  BY <1>1 DEF StageInv, Stage, Rebuilding
<1>3. /\ active'[b] # Nil /\ (a \in active'[b]) # Belongs(a, b)
      /\ <<a, b>> \notin doubt'
  BY OldListIs, BelongsSame
<1>4. <<a, b>> \in Wrong'
  BY DEF OldList
<1>5. <<a, b>> \notin doubt /\ ~(b = cur[x] /\ x \in late)
  BY <1>1, <1>3, <1>4
<1>6. CASE cur[x] = b
  <2>1. active'[b] = {c \in Accounts : Holds(x, c)}
    BY <1>1, <1>2, <1>6 DEF TypeOK
  <2> QED
    <3>1. a \in active'[b] <=> got[x][a] # Nil
      BY <2>1 DEF Holds
    <3>2. (got[x][a] # Nil) # Belongs(a, b)
      BY <1>3, <3>1
    <3>3. x \in tickets[x] /\ x \notin late
      BY <1>5, <1>6 DEF HasTicket
    <3> QED
      BY <1>6, <3>2, <3>3 DEF OldJob, Holds
<1>7. CASE cur[x] # b
  <2>1. active'[b] = active[b]
    BY <1>1, <1>2, <1>7 DEF TypeOK
  <2> QED
    BY <1>3, <1>5, <1>7, <2>1, OldListIs
<1> QED
  BY <1>6, <1>7

\* Nothing of an account becomes old in a bucket while its row stays.
LEMMA ListOldKept ==
    ASSUME TypeOK, StageInv, TicketInv, [Act]_vars, NEW a \in Accounts,
           NEW b \in Buckets, row'[a] = row[a], ListOld(a, b)'
    PROVE  ListOld(a, b)
<1>1. CASE \E v \in Workers : OldJob(v, a, b)'
  BY <1>1, JobKept DEF ListOld
<1>2. CASE OldList(a, b)'
  <2>1. CASE ListsStay
    BY <1>2, <2>1, ListStays DEF ListsStay, ListOld
  <2>2. ASSUME NEW x \in Workers, TakeVersion(x) \/ RebuildFails(x) \/ Crash(x)
        PROVE  ListOld(a, b)
    <3>1. active' = active /\ doubt' = doubt
      BY <2>2, TakeFacts, RebuildFailsFacts, CrashFacts
    <3> QED
      BY <1>2, <3>1, ListStays DEF ListOld
  <2>3. ASSUME NEW x \in Workers, Activate(x) /\ HasTicket(x)
        PROVE  ListOld(a, b)
    BY <1>2, <2>3, ListActivated DEF ListOld
  <2> QED
    BY <2>1, <2>2, <2>3, ListCases
<1> QED
  BY <1>1, <1>2 DEF ListOld

\* A worker with a version sees no more that is old, unless it gives up: the
\* version it loses is below that of an older rebuild, and so was voided by it.
LEMMA OldForKept ==
    ASSUME TypeOK, StageInv, TicketInv, OrderInv, [Act]_vars,
           NEW a \in Accounts, NEW b \in Buckets, NEW w \in Workers,
           row'[a] = row[a], OldFor(w, a, b)',
           ~RebuildFails(w), ~Crash(w)
    PROVE  OldFor(w, a, b)
<1>1. CASE \E v \in Workers : OldJob(v, a, b)' /\ w \in tickets'[v]
  BY <1>1, JobKept DEF OldFor
<1>2. CASE ~ (cur'[w] = b /\ w \in tickets'[w]) /\ ListOld(a, b)'
  <2>1. ListOld(a, b)
    BY <1>2, ListOldKept
  <2>2. CASE ~ (cur[w] = b /\ HasTicket(w))
    BY <2>1, <2>2 DEF OldFor
  <2>3. CASE cur[w] = b /\ HasTicket(w)
    <3>1. CASE ListsStay
      BY <1>2, <2>3, <3>1 DEF ListsStay, HasTicket
    <3>2. ASSUME NEW x \in Workers, TakeVersion(x) PROVE OldFor(w, a, b)
      <4>1. UNCHANGED cur /\ w \in tickets'[w]
        BY <2>3, <3>2, TakeFacts DEF HasTicket
      <4> QED
        BY <1>2, <2>3, <4>1
    <3>3. ASSUME NEW x \in Workers,
                 (Activate(x) /\ HasTicket(x)) \/ RebuildFails(x) \/ Crash(x)
          PROVE  OldFor(w, a, b)
      <4>1. PICK ws :
               /\ x \in ws
               /\ ws = IF Activate(x) /\ HasTicket(x) THEN tickets[x] ELSE {x}
               /\ \A v \in Workers :
                     tickets'[v] = IF v \in ws THEN {} ELSE tickets[v] \ ws
               /\ \A v \in Workers \ {x} : Same(v)
        BY <3>3, VoidStep
      <4>2. w \in ws
        BY <1>2, <2>3, <4>1 DEF HasTicket, Same
      <4>3. Activate(x) /\ HasTicket(x) /\ w \in tickets[x]
        BY <3>3, <4>1, <4>2
      <4>4. cur[x] = b
        BY <2>3, <4>3 DEF TicketInv
      <4>5. CASE OldList(a, b)'
        BY <4>3, <4>4, <4>5, ListActivated DEF OldFor
      <4>6. ASSUME NEW v \in Workers, OldJob(v, a, b)' PROVE OldFor(w, a, b)
        <5>1. OldJob(v, a, b) /\ v \in tickets'[v]
          BY <4>6, JobKept DEF OldJob
        <5>2. v \in tickets[v] /\ v \notin tickets[x] /\ cur[v] = cur[x]
          BY <4>1, <4>3, <4>4, <5>1 DEF OldJob
        <5>3. tickets[x] \subseteq tickets[v]
          BY <5>2 DEF OrderInv
        <5> QED
          BY <4>3, <5>1, <5>3 DEF OldFor
      <4> QED
        BY <1>2, <4>5, <4>6 DEF ListOld
    <3> QED
      BY <3>1, <3>2, <3>3, ListCases
  <2> QED
    BY <2>2, <2>3
<1> QED
  BY <1>1, <1>2 DEF OldFor, HasTicket

\* What is not told to a bucket is not old there.
LEMMA ForgetLists ==
    ASSUME TypeOK, TicketInv, ListsStay, NEW as, NEW bs, Forget(as, bs),
           NEW a \in Accounts, NEW b \in Buckets, a \in as, b \in bs
    PROVE  ~ListOld(a, b)'
<1>1. ~OldList(a, b)'
  <2>1. <<a, b>> \in Wrong' => <<a, b>> \in doubt'
    BY DEF Forget
  <2> QED
    BY <2>1 DEF OldList
<1>2. SUFFICES ASSUME NEW v \in Workers, OldJob(v, a, b)' PROVE FALSE
  BY <1>1 DEF ListOld
<1>3. /\ v \in tickets'[v] /\ cur'[v] = b
      /\ (got'[v][a] # Nil) # Belongs(a, b)'
      /\ v \notin late'
  BY <1>2 DEF OldJob, Holds
<1>4. /\ HasTicket(v) /\ cur[v] = b /\ got'[v] = got[v]
  BY <1>3 DEF ListsStay, HasTicket
<1>5. pc[v] \in {"write", "activate"}
  BY <1>4, TicketIs
<1>6. v \in OldJobs(as, bs)
  BY <1>3, <1>4, <1>5 DEF OldJobs, Holds
<1> QED
  BY <1>3, <1>6 DEF Forget

\* What an old copy is, before and after a step.
LEMMA OldCopyIs ==
    ASSUME NEW a \in Accounts
    PROVE  /\ OldCopy(a) <=> copy[a] \notin {Nil, row[a]} /\ a \notin stale
           /\ OldCopy(a)' <=> copy'[a] \notin {Nil, row'[a]} /\ a \notin stale'
           /\ a \in Outdated' <=> copy'[a] \notin {Nil, row'[a]}
BY DEF OldCopy, Outdated

\* Copies are as they were, or gone.
CopiesStay ==
    /\ \A a \in Accounts : copy'[a] \in {copy[a], Nil}
    /\ stale \cap Outdated' \subseteq stale'

\* x writes rows that it has read.
CopiesWritten(x, as) ==
    /\ NoteCopies(x, as)
    /\ \A a \in Accounts : copy'[a] = IF a \in as THEN got[x][a] ELSE copy[a]

\* A copy that stays is as old as it was while the row stays.
LEMMA CopyKept ==
    ASSUME NEW a \in Accounts, row'[a] = row[a], CopiesStay, OldCopy(a)'
    PROVE  OldCopy(a)
BY OldCopyIs DEF CopiesStay

\* A copy that is written is as old as what its writer has read.
LEMMA CopyWritten ==
    ASSUME NEW a \in Accounts, row'[a] = row[a], NEW x, NEW as,
           CopiesWritten(x, as), OldCopy(a)'
    PROVE  IF a \in as THEN OldRead(x, a) ELSE OldCopy(a)
<1>1. /\ copy'[a] \notin {Nil, row[a]} /\ a \notin stale'
      /\ a \in Outdated'
  BY OldCopyIs
<1>2. a \notin stale /\ (a \in as => x \notin behind)
  BY <1>1 DEF CopiesWritten, NoteCopies
<1> QED
  BY <1>1, <1>2, OldCopyIs DEF CopiesWritten, OldRead

\* SetAccount and syncSchedulerAccountSnapshot write the copy of one account.
LEMMA OneWritten ==
    ASSUME TypeOK, NEW x, NEW a \in Accounts, copy' = [copy EXCEPT ![a] = got[x][a]],
           NoteCopies(x, {a})
    PROVE  CopiesWritten(x, {a})
<1>1. \A c \in Accounts : copy'[c] = IF c \in {a} THEN got[x][c] ELSE copy[c]
  BY DEF TypeOK
<1> QED
  BY <1>1 DEF CopiesWritten

\* SetAccount writes the copy of the account of its event.
LEMMA SetWrites ==
    ASSUME TypeOK, StageInv, NEW w \in Workers, SetAccount(w)
    PROVE  \/ CopiesStay /\ UNCHANGED <<copy, stale>> /\ Current(w).kind = "lastUsed"
           \/ \E as : as = {Current(w).account} /\ CopiesWritten(w, as)
<1>1. PICK a \in Accounts :
         /\ a = Current(w).account
         /\ \/ UNCHANGED <<copy, stale>> /\ Current(w).kind = "lastUsed"
            \/ copy' = [copy EXCEPT ![a] = got[w][a]] /\ NoteCopies(w, {a})
  BY SetFacts
<1>2. CASE UNCHANGED <<copy, stale>> /\ Current(w).kind = "lastUsed"
  BY <1>2 DEF CopiesStay
<1>3. CASE copy' = [copy EXCEPT ![a] = got[w][a]] /\ NoteCopies(w, {a})
  BY <1>1, <1>3, OneWritten
<1> QED
  BY <1>1, <1>2, <1>3

\* syncSchedulerAccountSnapshot writes the copy of its account, or fails.
LEMMA SyncSetWrites ==
    ASSUME TypeOK, TaskInv, NEW u \in Updaters, SyncSet(u)
    PROVE  CopiesStay \/ \E as : CopiesWritten(u, as)
<1>1. pc[u] = "set"
  BY DEF SyncSet
<1>2. PICK a \in Accounts : a = Target(u)
  BY <1>1, TargetIs
<1>3. \/ copy' = [copy EXCEPT ![a] = got[u][a]] /\ NoteCopies(u, {a})
      \/ UNCHANGED <<copy, stale>>
  BY <1>2 DEF SyncSet, NoteCopies
<1> QED
  <2>1. CASE UNCHANGED <<copy, stale>>
    BY <2>1 DEF CopiesStay
  <2>2. CASE copy' = [copy EXCEPT ![a] = got[u][a]] /\ NoteCopies(u, {a})
    BY <2>2, OneWritten
  <2> QED
    BY <1>3, <2>1, <2>2

\* A step leaves the copies, or drops them, or writes what was read.
LEMMA CopyCases ==
    ASSUME TypeOK, StageInv, TaskInv, [Act]_vars
    PROVE  CopiesStay \/ \E x \in Workers \cup Updaters : \E as : CopiesWritten(x, as)
<1>0. copy' = copy /\ stale \subseteq stale' => CopiesStay
  BY DEF CopiesStay
<1>1. CASE UNCHANGED vars
  BY <1>0, <1>1 DEF vars, historyVars
<1>2. ASSUME NEW u \in Updaters, NEW a \in Accounts, ChangeAccount(u, a)
      PROVE  CopiesStay
  BY <1>0, <1>2, ChangeSame
<1>3. ASSUME NEW u \in Updaters, Update(u)
      PROVE  CopiesStay \/ \E as : CopiesWritten(u, as)
  <2>1. CASE DropCopies(u)
    <3>1. /\ \E a : copy' \in {copy, [copy EXCEPT ![a] = Nil]}
          /\ stale' = stale
      BY <2>1 DEF DropCopies, historyVars
    <3> QED
      BY <3>1 DEF CopiesStay, TypeOK
  <2>2. CASE Insert(u)
    <3>1. copy' = copy /\ (stale' = stale \/ \E as : Overlook(as))
      BY <2>2, OverlookTarget, Zenon DEF Insert, historyVars
    <3> QED
      BY <1>0, <3>1, OverlookGrows
  <2>3. CASE Commit(u)
    <3>1. copy' = copy /\ (stale' = stale \/ \E as : Overlook(as))
      BY <2>3, OverlookTarget, Zenon DEF Commit, historyVars
    <3> QED
      BY <1>0, <3>1, OverlookGrows
  <2>4. CASE SyncRead(u)
    BY <1>0, <2>4 DEF SyncRead, historyVars
  <2>5. CASE SyncSet(u)
    BY <2>5, SyncSetWrites
  <2> QED
    BY <1>3, <2>1, <2>2, <2>3, <2>4, <2>5, Zenon DEF Update
<1>4. ASSUME NEW a \in Accounts, UpdateLastUsed(a) PROVE CopiesStay
  BY <1>0, <1>4 DEF UpdateLastUsed, historyVars
<1>5. ASSUME NEW b \in Buckets, LockExpires(b) PROVE CopiesStay
  BY <1>0, <1>5 DEF LockExpires, historyVars
<1>6. ASSUME NEW w \in Workers, WorkerStep(w)
      PROVE  CopiesStay \/ \E as : CopiesWritten(w, as)
  <2>1. CASE SetAccount(w)
    BY <2>1, SetWrites
  <2>2. CASE WriteCopies(w)
    <3>1. PICK as :
             /\ copy' = [a \in Accounts |-> IF a \in as THEN got[w][a] ELSE copy[a]]
             /\ NoteCopies(w, as)
      BY <2>2, WriteFacts
    <3> QED
      BY <3>1 DEF CopiesWritten
  <2>3. CASE Mark(w)
    BY <1>0, <2>3, MarkFacts, OverlookGrows
  <2>4. CASE ReadAccount(w)
    BY <1>0, <2>4, ReadFacts
  <2>5. CASE FinishEvent(w)
    BY <1>0, <2>5, FinishFacts
  <2>6. CASE LockBucket(w)
    BY <1>0, <2>6, LockFacts
  <2>7. CASE TakeVersion(w) \/ Activate(w) \/ RebuildFails(w) \/ Crash(w)
    BY <1>0, <2>7, TakeFacts, ActivateFacts, RebuildFailsFacts, CrashFacts
  <2>8. CASE Poll(w) \/ EventFails(w)
    BY <1>0, <2>8, PollFacts, EventFailsFacts
  <2>9. CASE \/ FinishRebuild(w) \/ FullRebuild(w)
             \/ \E b \in Buckets : Fallback(w, b)
    BY <1>0, <2>9, IdleFacts
  <2> QED
    BY <1>6, <2>1, <2>2, <2>3, <2>4, <2>5, <2>6, <2>7, <2>8, <2>9, Zenon
       DEF WorkerStep, Work
<1> QED
  BY <1>1, <1>2, <1>3, <1>4, <1>5, <1>6, StepCases, Zenon DEF OtherStep

\* What is read is the row; what was read is kept with what is known of it.
ReadsStay ==
    \A x \in Workers \cup Updaters :
        \/ \A a \in Accounts : got'[x][a] \in {Nil, row[a]}
        \/ got'[x] = got[x] /\ (x \in behind => x \in behind')

\* What somebody holds is as old as it was while the row stays.
LEMMA ReadKept ==
    ASSUME NEW a \in Accounts, row'[a] = row[a], ReadsStay,
           NEW x \in Workers \cup Updaters, OldRead(x, a)'
    PROVE  OldRead(x, a)
BY DEF ReadsStay, OldRead

\* Who forgets what it has read makes no read old.
LEMMA UnreadStays ==
    ASSUME TypeOK, NEW x \in Workers \cup Updaters, Unread(x)
    PROVE  ReadsStay
<1>1. \A a \in Accounts : None[a] = Nil
  BY DEF None
<1> QED
  BY <1>1, UnreadSame DEF ReadsStay

\* A bucket is loaded from the rows.
LEMMA LoadStays ==
    ASSUME TypeOK, NEW w \in Workers, NEW b \in Buckets, LoadBucket(w, b)
    PROVE  ReadsStay
<1>1. got'[w] = [a \in Accounts |-> IF Belongs(a, b) THEN row[a] ELSE Nil]
  BY LoadBucketSame
<1>2. \A a \in Accounts : got'[w][a] \in {Nil, row[a]}
  BY <1>1
<1>3. \A x \in (Workers \cup Updaters) \ {w} :
         got'[x] = got[x] /\ (x \in behind => x \in behind')
  BY LoadBucketSame
<1> QED
  BY <1>2, <1>3 DEF ReadsStay

\* Only handleAccountEvent reads anything but the row.
LEMMA ReadCases ==
    ASSUME TypeOK, StageInv, TaskInv, [Act]_vars
    PROVE  ReadsStay \/ \E w \in Workers : ReadAccount(w)
<1>0. got' = got /\ behind \subseteq behind' => ReadsStay
  BY DEF ReadsStay
<1>1. CASE UNCHANGED vars
  BY <1>0, <1>1 DEF vars, readVars
<1>2. ASSUME NEW u \in Updaters, NEW a \in Accounts, ChangeAccount(u, a)
      PROVE  ReadsStay
  BY <1>0, <1>2, ChangeSame
<1>3. ASSUME NEW u \in Updaters, Update(u) PROVE ReadsStay
  <2>1. CASE DropCopies(u)
    BY <1>0, <2>1 DEF DropCopies, readVars
  <2>2. CASE Insert(u)
    <3>1. got' = got /\ (behind' = behind \/ \E as : Overlook(as))
      BY <2>2, OverlookTarget, Zenon DEF Insert
    <3> QED
      BY <1>0, <3>1, OverlookGrows
  <2>3. CASE Commit(u)
    <3>1. got' = got /\ (behind' = behind \/ \E as : Overlook(as))
      BY <2>3, OverlookTarget, Zenon DEF Commit
    <3> QED
      BY <1>0, <3>1, OverlookGrows
  <2>4. CASE SyncRead(u)
    <3>1. pc[u] = "read"
      BY <2>4 DEF SyncRead
    <3>2. PICK t \in Accounts : t = Target(u)
      BY <3>1, TargetIs
    <3>3. UNCHANGED readVars \/ Read(u, [None EXCEPT ![t] = row[t]])
      BY <2>4, <3>2 DEF SyncRead
    <3>4. CASE Read(u, [None EXCEPT ![t] = row[t]])
      <4> DEFINE rows == [None EXCEPT ![t] = row[t]]
      <4>1. \A a \in Accounts : rows[a] \in {Nil, row[a]}
        BY DEF None
      <4> HIDE DEF rows
      <4>2. Read(u, rows)
        BY <3>4 DEF rows
      <4> QED
        BY <4>1, <4>2, ReadSame DEF ReadsStay
    <3> QED
      BY <1>0, <3>3, <3>4 DEF readVars
  <2>5. CASE SyncSet(u)
    BY <2>5, UnreadStays DEF SyncSet
  <2> QED
    BY <1>3, <2>1, <2>2, <2>3, <2>4, <2>5, Zenon DEF Update
<1>4. ASSUME NEW a \in Accounts, UpdateLastUsed(a) PROVE ReadsStay
  BY <1>0, <1>4 DEF UpdateLastUsed, readVars
<1>5. ASSUME NEW b \in Buckets, LockExpires(b) PROVE ReadsStay
  BY <1>0, <1>5 DEF LockExpires, readVars
<1>6. ASSUME NEW w \in Workers, WorkerStep(w), ~ReadAccount(w)
      PROVE  ReadsStay
  <2>1. CASE SetAccount(w)
    BY <1>0, <2>1, SetFacts
  <2>2. CASE TakeVersion(w) \/ WriteCopies(w)
    BY <1>0, <2>2, TakeFacts, WriteFacts
  <2>3. CASE Mark(w)
    BY <1>0, <2>3, MarkFacts, OverlookGrows
  <2>4. CASE FinishEvent(w)
    BY <2>4, FinishFacts, UnreadStays
  <2>5. CASE LockBucket(w)
    BY <1>0, <2>5, LockFacts, LoadStays
  <2>6. CASE Activate(w) \/ RebuildFails(w) \/ Crash(w)
    BY <2>6, ActivateFacts, RebuildFailsFacts, CrashFacts, UnreadStays
       DEF LeaveBucket
  <2>7. CASE Poll(w)
    BY <1>0, <2>7, PollFacts
  <2>8. CASE EventFails(w)
    BY <2>8, EventFailsFacts, UnreadStays
  <2>9. CASE \/ FinishRebuild(w) \/ FullRebuild(w)
             \/ \E b \in Buckets : Fallback(w, b)
    BY <1>0, <2>9, IdleFacts, LoadStays
  <2> QED
    BY <1>6, <2>1, <2>2, <2>3, <2>4, <2>5, <2>6, <2>7, <2>8, <2>9, Zenon
       DEF WorkerStep, Work
<1> QED
  BY <1>1, <1>2, <1>3, <1>4, <1>5, <1>6, StepCases, Zenon DEF OtherStep

\* What a poller reads is old only when it modifies the copy.
LEMMA ReadsOld ==
    ASSUME TypeOK, StageInv, NEW w \in Workers, ReadAccount(w),
           NEW a \in Accounts, row'[a] = row[a], NEW x \in Workers \cup Updaters,
           OldRead(x, a)'
    PROVE  IF x = w THEN /\ OldCopy(a) /\ a = Current(w).account
                         /\ Current(w).kind = "lastUsed"
                    ELSE OldRead(x, a)
<1>1. got'[x][a] \notin {Nil, row[a]} /\ x \notin behind'
  BY DEF OldRead
<1>2. CASE x = w
  <2>1. a = Current(w).account /\ Current(w).kind = "lastUsed"
    BY <1>1, <1>2, ReadFacts
  <2>2. got'[w][a] = copy[a]
    BY <2>1, ReadFacts
  <2>3. a \notin stale
    BY <1>1, <1>2, ReadFacts
  <2> QED
    BY <1>1, <1>2, <2>1, <2>2, <2>3, OldCopyIs
<1>3. CASE x # w
  BY <1>1, <1>3, ReadFacts DEF OldRead
<1> QED
  BY <1>2, <1>3

\* No copy or read of an account becomes old while its row stays.
LEMMA CopyOldKept ==
    ASSUME TypeOK, StageInv, TaskInv, [Act]_vars, NEW a \in Accounts,
           row'[a] = row[a], CopyOld(a)'
    PROVE  CopyOld(a)
<1>1. CASE OldCopy(a)'
  BY <1>1, CopyCases, CopyKept, CopyWritten DEF CopyOld
<1>2. ASSUME NEW x \in Workers \cup Updaters, OldRead(x, a)' PROVE CopyOld(a)
  BY <1>2, ReadCases, ReadKept, ReadsOld DEF CopyOld
<1> QED
  BY <1>1, <1>2 DEF CopyOld

\* What is overlooked of an account is not old.
Fresh(a) == (\A b \in Buckets : ~ListOld(a, b)) /\ ~CopyOld(a)

\* What is overlooked of an account is known to have missed the change.
LEMMA OverlookFresh ==
    ASSUME TypeOK, TicketInv, ListsStay, got' = got, NEW as, Overlook(as),
           NEW a \in Accounts, a \in as
    PROVE  Fresh(a)'
<1>1. \A b \in Buckets : ~ListOld(a, b)'
  BY ForgetLists DEF Overlook
<1>2. ~OldCopy(a)'
  BY OldCopyIs DEF Overlook
<1>3. \A x \in Workers \cup Updaters : ~OldRead(x, a)'
  BY DEF Overlook, OldReads, OldRead
<1> QED
  BY <1>1, <1>2, <1>3 DEF Fresh, CopyOld

-----------------------------------------------------------------------------
(* What is announced stays announced *)

\* The outbox is only appended to.
LEMMA OutboxStep ==
    ASSUME TypeOK, TaskInv, [Act]_vars
    PROVE  outbox' = outbox \/ \E e \in Events : outbox' = Append(outbox, e)
<1>1. CASE UNCHANGED vars
  BY <1>1, Zenon DEF vars, dbVars
<1>2. ASSUME NEW w \in Workers, WorkerStep(w) PROVE outbox' = outbox
  BY <1>2, OthersSame
<1>3. ASSUME NEW u \in Updaters, NEW a \in Accounts, ChangeAccount(u, a)
      PROVE  outbox' = outbox
  BY <1>3, ChangeSame
<1>4. ASSUME NEW u \in Updaters, Update(u)
      PROVE  outbox' = outbox \/ \E e \in Events : outbox' = Append(outbox, e)
  <2>1. CASE Insert(u)
    <3>1. task[u].event \in Events
      BY <2>1, TargetIs DEF Insert
    <3> QED
      BY <2>1, <3>1, Zenon DEF Insert
  <2>2. CASE DropCopies(u) \/ Commit(u) \/ SyncRead(u) \/ SyncSet(u)
    BY <2>2, Zenon DEF DropCopies, Commit, SyncRead, SyncSet, dbVars
  <2> QED
    BY <1>4, <2>1, <2>2, Zenon DEF Update
<1>5. ASSUME NEW a \in Accounts, UpdateLastUsed(a)
      PROVE  \E e \in Events : outbox' = Append(outbox, e)
  BY <1>5, LastUsedIs, Zenon DEF UpdateLastUsed
<1>6. ASSUME NEW b \in Buckets, LockExpires(b) PROVE outbox' = outbox
  BY <1>6, Zenon DEF LockExpires, dbVars
<1> QED
  BY <1>1, <1>2, <1>3, <1>4, <1>5, <1>6, StepCases, Zenon DEF OtherStep

\* An event that is seen is seen from then on.
LEMMA VisibleKept ==
    ASSUME TypeOK, TaskInv, [Act]_vars, NEW i \in Visible
    PROVE  i \in Visible' /\ outbox'[i] = outbox[i]
<1>1. i \in 1 .. Len(outbox) /\ i \notin open /\ Len(outbox) \in Nat
  <2>1. Len(outbox) \in Nat
    BY DEF TypeOK
  <2> QED
    BY <2>1 DEF Visible
<1>2. i \notin open'
  BY <1>1, OpenStep
<1>3. i \in 1 .. Len(outbox') /\ outbox'[i] = outbox[i]
  <2>1. CASE outbox' = outbox
    BY <1>1, <2>1
  <2>2. ASSUME NEW e \in Events, outbox' = Append(outbox, e)
        PROVE  i \in 1 .. Len(outbox') /\ outbox'[i] = outbox[i]
    <3>1. outbox \in Seq(Events)
      BY DEF TypeOK
    <3>2. Len(outbox') = Len(outbox) + 1 /\ outbox'[i] = outbox[i]
      BY <1>1, <2>2, <3>1, Lengths
    <3> QED
      BY <1>1, <3>2
  <2> QED
    BY <2>1, <2>2, OutboxStep
<1> QED
  BY <1>2, <1>3 DEF Visible

\* An event that announces a change goes on doing so.
LEMMA AnnouncesKept ==
    ASSUME TypeOK, TaskInv, [Act]_vars, NEW a, NEW i, Announces(i, a)
    PROVE  Announces(i, a)'
BY VisibleKept DEF Announces

\* The steps of updates and of locks leave the lists as they are.
LEMMA OtherLists ==
    ASSUME TypeOK, TicketInv, OtherStep
    PROVE  ListsStay
<1>1. \A v \in Workers \ {Nil} : Same(v)
  BY OtherSame
<1>2. Nil \notin Workers
  BY ConstantsAssumption
<1> QED
  BY <1>1, <1>2, OtherSame, SameLists

\* The step that moves the watermark leaves the lists as they are.
LEMMA MarkLists ==
    ASSUME TypeOK, TicketInv, NEW w \in Workers, Mark(w)
    PROVE  ListsStay
<1>1. \A v \in Workers \ {w} : Same(v)
  BY OthersSame DEF WorkerStep, Work
<1>2. doubt \subseteq doubt' /\ late \subseteq late'
  BY MarkFacts, OverlookGrows
<1> QED
  BY <1>1, <1>2, MarkFacts, SameLists

\* A changed account is still to be announced, or its change is overlooked.
LEMMA RowKept ==
    ASSUME TypeOK, TicketInv, [Act]_vars, NEW a \in Accounts
    PROVE  row'[a] = row[a] \/ Pending(a)' \/ Fresh(a)'
<1>1. CASE UNCHANGED vars
  BY <1>1 DEF vars, dbVars
<1>2. ASSUME NEW w \in Workers, WorkerStep(w) PROVE row'[a] = row[a]
  BY <1>2, OthersSame
<1>3. ASSUME NEW u \in Updaters, NEW c \in Accounts, ChangeAccount(u, c)
      PROVE  row'[a] = row[a] \/ Pending(a)' \/ Fresh(a)'
  <2>1. CASE c # a
    BY <1>3, <2>1, ChangeSame
  <2>2. CASE c = a
    <3>1. CASE pc'[u] \in {"insert", "drop"} /\ Target(u)' = a
      BY <3>1 DEF Pending
    <3>2. CASE Overlook({c})
      <4>1. ListsStay /\ got' = got
        BY <1>3, OtherLists, ChangeSame DEF OtherStep
      <4>2. a \in {c}
        BY <2>2
      <4> QED
        BY <3>2, <4>1, <4>2, OverlookFresh
    <3> QED
      BY <1>3, <2>2, <3>1, <3>2, ChangeSame
  <2> QED
    BY <2>1, <2>2
<1>4. ASSUME NEW u \in Updaters, Update(u) PROVE row'[a] = row[a]
  BY <1>4, UpdateSame
<1>5. ASSUME NEW c \in Accounts, UpdateLastUsed(c) PROVE row'[a] = row[a]
  BY <1>5 DEF UpdateLastUsed
<1>6. ASSUME NEW b \in Buckets, LockExpires(b) PROVE row'[a] = row[a]
  BY <1>6 DEF LockExpires, dbVars
<1> QED
  BY <1>1, <1>2, <1>3, <1>4, <1>5, <1>6, StepCases, Zenon DEF OtherStep

\* An update that has still to announce the account does it, above every
\* watermark and out of every batch, or is overlooked.
LEMMA PendingKept ==
    ASSUME TypeOK, TaskInv, TicketInv, [Act]_vars, NEW a \in Accounts, Pending(a)
    PROVE  \/ Pending(a)' \/ Fresh(a)'
           \/ \E i \in open : i > watermark' /\ Announces(i, a)'
<1> DEFINE Goal == \/ Pending(a)' \/ Fresh(a)'
                   \/ \E i \in open : i > watermark' /\ Announces(i, a)'
<1>0. PICK v \in Updaters : /\ pc[v] \in {"drop", "insert", "commit"}
                            /\ Target(v) = a
  BY DEF Pending
<1>1. CASE pc'[v] \in {"drop", "insert", "commit"} /\ task'[v] = task[v]
  BY <1>0, <1>1 DEF Pending, Target
<1>2. CASE UNCHANGED vars
  BY <1>0, <1>1, <1>2 DEF vars
<1>3. ASSUME NEW w \in Workers, WorkerStep(w) PROVE Goal
  BY <1>0, <1>1, <1>3, OthersSame
<1>4. ASSUME NEW u \in Updaters, NEW c \in Accounts, ChangeAccount(u, c)
      PROVE  Goal
  <2>1. u # v
    BY <1>0, <1>4, ChangeSame
  <2> QED
    BY <1>0, <1>1, <1>4, <2>1, ChangeSame
<1>5. ASSUME NEW u \in Updaters, Update(u) PROVE Goal
  <2>1. CASE u # v
    BY <1>0, <1>1, <1>5, <2>1, UpdateSame
  <2>2. ASSUME u = v, \E c : c = Target(u) /\ Overlook({c}), got' = got
        PROVE  Goal
    <3>1. ListsStay
      BY <1>5, OtherLists DEF OtherStep
    <3> QED
      BY <1>0, <2>2, <3>1, OverlookFresh
  <2>3. CASE u = v /\ DropCopies(u)
    <3>1. Goto(v, "insert") /\ task' = task
      BY <2>3, Zenon DEF DropCopies
    <3> QED
      BY <1>1, <3>1, GotoSame
  <2>4. CASE u = v /\ Insert(u)
    <3>1. \/ Goto(v, "commit") /\ task' = task
          \/ (\E c : c = Target(u) /\ Overlook({c})) /\ got' = got
      BY <2>4, OverlookTarget, Zenon DEF Insert
    <3> QED
      BY <1>1, <2>2, <2>4, <3>1, GotoSame
  <2>5. CASE u = v /\ Commit(u)
    <3>1. got' = got /\ outbox' = outbox /\ watermark' = watermark
      BY <2>5, Zenon DEF Commit
    <3>2. PICK i \in open :
             /\ outbox[i] = task[u].event /\ open' = open \ {i}
             /\ \/ i <= watermark /\ Overlook({Target(u)})
                \/ ~(i <= watermark)
      BY <2>5, Zenon DEF Commit
    <3>3. CASE Overlook({Target(u)})
      BY <2>2, <2>5, <3>1, <3>3, OverlookTarget
    <3>4. CASE ~(i <= watermark)
      <4>1. i \in 1 .. Len(outbox) /\ Len(outbox) \in Nat /\ watermark \in 0 .. Len(outbox)
        BY DEF TypeOK
      <4>2. i > watermark' /\ i \in Visible'
        BY <3>1, <3>2, <3>4, <4>1 DEF Visible
      <4>3. outbox'[i].account = a /\ outbox'[i].kind # "lastUsed"
        BY <1>0, <2>5, <3>1, <3>2, TargetIs
      <4> QED
        BY <4>2, <4>3 DEF Announces
    <3> QED
      BY <3>2, <3>3, <3>4
  <2>6. CASE u = v /\ (SyncRead(u) \/ SyncSet(u))
    BY <1>0, <2>6 DEF SyncRead, SyncSet
  <2> QED
    BY <1>5, <2>1, <2>3, <2>4, <2>5, <2>6, Zenon DEF Update
<1>6. ASSUME NEW c \in Accounts, UpdateLastUsed(c) PROVE Goal
  BY <1>0, <1>1, <1>6 DEF UpdateLastUsed
<1>7. ASSUME NEW b \in Buckets, LockExpires(b) PROVE Goal
  BY <1>0, <1>1, <1>7 DEF LockExpires
<1> QED
  BY <1>2, <1>3, <1>4, <1>5, <1>6, <1>7, StepCases, Zenon DEF OtherStep

\* Only the end of a batch moves the watermark.
LEMMA WatermarkStep ==
    ASSUME TypeOK, [Act]_vars
    PROVE  \/ watermark' = watermark
           \/ \E w \in Workers : Mark(w) /\ watermark' = last[w]
<1>1. CASE UNCHANGED vars
  BY <1>1 DEF vars
<1>2. ASSUME NEW w \in Workers, WorkerStep(w), ~Mark(w)
      PROVE  watermark' = watermark
  <2>1. CASE SetAccount(w) \/ ReadAccount(w)
    BY <2>1, Zenon DEF SetAccount, ReadAccount
  <2>2. CASE FinishEvent(w) \/ LockBucket(w)
    BY <2>2, FinishFacts, LockFacts
  <2>3. CASE TakeVersion(w) \/ WriteCopies(w) \/ Activate(w)
    BY <2>3, TakeFacts, WriteFacts, ActivateFacts
  <2>4. CASE RebuildFails(w) \/ Crash(w) \/ Poll(w) \/ EventFails(w)
    BY <2>4, RebuildFailsFacts, CrashFacts, PollFacts, EventFailsFacts
  <2>5. CASE \/ FinishRebuild(w) \/ FullRebuild(w)
             \/ \E b \in Buckets : Fallback(w, b)
    BY <2>5, IdleFacts
  <2> QED
    BY <1>2, <2>1, <2>2, <2>3, <2>4, <2>5, Zenon DEF WorkerStep, Work
<1>3. ASSUME NEW w \in Workers, Mark(w)
      PROVE  watermark' = watermark \/ watermark' = last[w]
  BY <1>3, MarkFacts
<1> QED
  BY <1>1, <1>2, <1>3, OtherSame, StepCases

\* At the end of a batch the watermark moves to its last event.  What is not
\* yet announced above it was missing from the batch, and is overlooked.
LEMMA MarkTold ==
    ASSUME TypeOK, StageInv, TaskInv, TicketInv, [Act]_vars, NEW w \in Workers,
           Mark(w), watermark' = last[w], NEW a \in Accounts,
           Told(Unlisted(w), a)
    PROVE  Told(Above, a)' \/ Fresh(a)' \/ watermark' = watermark
<1>1. CASE Pending(a)
  BY <1>1, PendingKept DEF Told, Above, Announces
<1>2. ASSUME NEW i \in Unlisted(w), Announces(i, a), watermark' # watermark
      PROVE  Told(Above, a)' \/ Fresh(a)'
  <2>1. i \in Visible /\ Announces(i, a)'
    BY <1>2, AnnouncesKept DEF Announces
  <2>2. CASE i > last[w]
    BY <2>1, <2>2 DEF Told, Above, Announces
  <2>3. CASE i \in gap[w]
    <3>1. PICK as : /\ as = {outbox[j].account : j \in gap[w] \cap Visible}
                    /\ Overlook(as)
      BY <1>2, MarkFacts
    <3>2. a \in as
      BY <1>2, <2>1, <2>3, <3>1 DEF Announces
    <3>3. ListsStay /\ got' = got
      BY MarkLists, MarkFacts
    <3> QED
      BY <3>1, <3>2, <3>3, OverlookFresh
  <2> QED
    BY <1>2, <2>2, <2>3 DEF Unlisted
<1> QED
  BY <1>1, <1>2 DEF Told

\* While the watermark stays, what is announced above it stays so, or is
\* overlooked.
LEMMA ToldKept ==
    ASSUME TypeOK, StageInv, TaskInv, TicketInv, [Act]_vars, NEW a \in Accounts,
           Told(Above, a), watermark' = watermark
    PROVE  Told(Above, a)' \/ Fresh(a)'
<1>1. CASE Pending(a)
  BY <1>1, PendingKept DEF Told, Above, Announces
<1>2. ASSUME NEW i \in Above, Announces(i, a) PROVE Told(Above, a)'
  <2>1. Announces(i, a)' /\ i > watermark'
    BY <1>2, AnnouncesKept DEF Above
  <2> QED
    BY <2>1 DEF Told, Above, Announces
<1> QED
  BY <1>1, <1>2 DEF Told

\* Every step keeps ListInv: a changed account is announced, and the events
\* that the watermark passes were handled by the batch.
LEMMA ListStep ==
    ASSUME TypeOK, StageInv, TaskInv, TicketInv, ListInv, BatchListInv,
           [Act]_vars
    PROVE  ListInv'
<1>1. SUFFICES ASSUME NEW a \in Accounts, NEW b \in Buckets, ListOld(a, b)'
               PROVE  Told(Above, a)'
  BY DEF ListInv
<1>2. CASE Pending(a)'
  BY <1>2 DEF Told
<1>3. CASE ~Pending(a)'
  <2>1. ~Fresh(a)' /\ row'[a] = row[a]
    BY <1>1, <1>3, RowKept DEF Fresh
  <2>2. ListOld(a, b)
    BY <1>1, <2>1, ListOldKept
  <2>3. Told(Above, a)
    BY <2>2 DEF ListInv
  <2>4. CASE watermark' = watermark
    BY <2>1, <2>3, <2>4, ToldKept
  <2>5. ASSUME NEW w \in Workers, Mark(w), watermark' = last[w],
               watermark' # watermark
        PROVE  Told(Above, a)'
    <3>1. w \in Pollers /\ pc[w] = "mark"
      BY <2>5, MarkFacts
    <3>2. /\ InBatch(w) /\ w \notin failed
          /\ batch[w] = {} /\ todo[w] = {}
      BY <3>1 DEF StageInv, Stage
    <3>3. ~HasTicket(w)
      BY <3>1, TicketIs
    <3>4. OldFor(w, a, b) /\ ~Due(w, b)
      BY <2>2, <3>1, <3>2, <3>3 DEF OldFor, Due
    <3>5. Told(Heard(w, b), a)
      BY <3>1, <3>2, <3>4 DEF BatchListInv
    <3>6. Told(Unlisted(w), a)
      BY <3>1, <3>2, <3>5 DEF Told, Heard, Left, Rest
    <3> QED
      BY <2>1, <2>5, <3>6, MarkTold
  <2> QED
    BY <2>4, <2>5, WatermarkStep
<1> QED
  BY <1>2, <1>3

\* Every step keeps CopyInv, by the same argument.
LEMMA CopyStep ==
    ASSUME TypeOK, StageInv, TaskInv, TicketInv, CopyInv, BatchCopyInv,
           [Act]_vars
    PROVE  CopyInv'
<1>1. SUFFICES ASSUME NEW a \in Accounts, CopyOld(a)' PROVE Told(Above, a)'
  BY DEF CopyInv
<1>2. CASE Pending(a)'
  BY <1>2 DEF Told
<1>3. CASE ~Pending(a)'
  <2>1. ~Fresh(a)' /\ row'[a] = row[a]
    BY <1>1, <1>3, RowKept DEF Fresh
  <2>2. CopyOld(a)
    BY <1>1, <2>1, CopyOldKept
  <2>3. Told(Above, a)
    BY <2>2 DEF CopyInv
  <2>4. CASE watermark' = watermark
    BY <2>1, <2>3, <2>4, ToldKept
  <2>5. ASSUME NEW w \in Workers, Mark(w), watermark' = last[w],
               watermark' # watermark
        PROVE  Told(Above, a)'
    <3>1. w \in Pollers /\ pc[w] = "mark"
      BY <2>5, MarkFacts
    <3>2. InBatch(w) /\ w \notin failed /\ batch[w] = {}
      BY <3>1 DEF StageInv, Stage
    <3>3. Told(Unlisted(w) \cup Left(w), a)
      BY <2>2, <3>1, <3>2 DEF BatchCopyInv
    <3>4. Told(Unlisted(w), a)
      BY <3>1, <3>2, <3>3 DEF Told, Left, Rest
    <3> QED
      BY <2>1, <2>5, <3>4, MarkTold
  <2> QED
    BY <2>4, <2>5, WatermarkStep
<1> QED
  BY <1>2, <1>3

-----------------------------------------------------------------------------
(* What a batch has still to handle *)

\* A worker's step announces nothing and takes nothing back.
LEMMA OwnWords ==
    ASSUME TypeOK, NEW w \in Workers, WorkerStep(w)
    PROVE  /\ \A a : Pending(a)' <=> Pending(a)
           /\ \A a, i : Announces(i, a)' <=> Announces(i, a)
           /\ Visible' = Visible
BY OthersSame DEF Pending, Target, Announces, Visible

\* The first event of a batch is the one that the others follow.
LEMMA RestIs ==
    ASSUME TypeOK, NEW w \in Workers, batch[w] # {}
    PROVE  Rest(w) = batch[w] \ {Least(batch[w])}
<1>1. batch[w] \in SUBSET Nat
  BY DEF TypeOK
<1>2. Least(batch[w]) \in batch[w] /\ \A j \in batch[w] : Least(batch[w]) <= j
  BY <1>1, LeastIs
<1>3. \A i \in batch[w] : i # Least(batch[w]) <=> \E j \in batch[w] : j < i
  BY <1>1, <1>2
<1> QED
  BY <1>3 DEF Rest

\* What is announced out of a batch stays so while others step.
LEMMA OthersTold ==
    ASSUME TypeOK, StageInv, TaskInv, TicketInv, [Act]_vars,
           NEW w \in Workers, Same(w), InBatch(w), NEW a \in Accounts, NEW S,
           NEW T, Told(Unlisted(w) \cup S, a), S \subseteq T
    PROVE  \/ Pending(a)' \/ Fresh(a)'
           \/ \E i \in Unlisted(w)' \cup T : Announces(i, a)'
<1>1. /\ last'[w] = last[w] /\ gap'[w] = gap[w]
  BY DEF Same
<1>2. \A i : Announces(i, a)' /\ (i > last[w] \/ i \in gap[w]) => i \in Unlisted(w)'
  BY <1>1 DEF Unlisted, Announces
<1>3. CASE Pending(a)
  <2>1. \A i \in open : i > last[w] \/ i \in gap[w]
    BY DEF StageInv, Stage
  <2> QED
    BY <1>2, <1>3, <2>1, PendingKept
<1>4. ASSUME NEW i \in Unlisted(w) \cup S, Announces(i, a)
      PROVE  \E j \in Unlisted(w)' \cup T : Announces(j, a)'
  BY <1>2, <1>4, AnnouncesKept DEF Unlisted
<1> QED
  BY <1>3, <1>4 DEF Told

\* Every step keeps BatchListInv: what an event announced is not old once its
\* buckets are rebuilt, for each is loaded after the event was seen.
LEMMA BatchListStep ==
    ASSUME TypeOK, StageInv, TaskInv, TicketInv, OrderInv, ListInv,
           BatchListInv, [Act]_vars
    PROVE  BatchListInv'
<1>1. SUFFICES ASSUME NEW w \in Pollers, NEW a \in Accounts, NEW b \in Buckets,
                      InBatch(w)', w \notin failed', ~Due(w, b)',
                      OldFor(w, a, b)', ~Pending(a)'
               PROVE  \E i \in Heard(w, b)' : Announces(i, a)'
  BY DEF BatchListInv, Told
<1>2. w \in Workers
  BY DEF Workers
<1>3. ~Fresh(a)' /\ row'[a] = row[a] /\ ListOld(a, b)'
  BY <1>1, RowKept DEF OldFor, ListOld, Fresh
<1>4. ListOld(a, b)
  BY <1>3, ListOldKept
<1>5. CASE Same(w)
  <2>1. ~RebuildFails(w) /\ ~Crash(w)
    <3>1. pc'[w] = pc[w]
      BY <1>5 DEF Same
    <3>2. ~RebuildFails(w)
      BY <1>2, <3>1, RebuildFailsFacts DEF Rebuilding
    <3>3. ~Crash(w)
      BY <1>2, <3>1, CrashFacts DEF Crash
    <3> QED
      BY <3>2, <3>3
  <2>2. OldFor(w, a, b)
    BY <1>1, <1>2, <1>3, <2>1, OldForKept
  <2>3. InBatch(w) /\ w \notin failed /\ ~Due(w, b)
    BY <1>1, <1>5 DEF Same, InBatch, Due
  <2>4. Told(Heard(w, b), a)
    BY <2>2, <2>3 DEF BatchListInv
  <2> DEFINE S == IF b \in seen[w] THEN {} ELSE Left(w)
  <2>5. Heard(w, b) = Unlisted(w) \cup S
    BY DEF Heard
  <2>6. Heard(w, b)' = Unlisted(w)' \cup S
    BY <1>5 DEF Heard, Same, Left, Rest
  <2> HIDE DEF S
  <2>7. \E i \in Unlisted(w)' \cup S : Announces(i, a)'
    BY <1>1, <1>2, <1>3, <1>5, <2>3, <2>4, <2>5, OthersTold
  <2> QED
    BY <2>6, <2>7
<1>6. CASE WorkerStep(w)
  <2>1. CASE Poll(w)
    <3>1. Told(Above, a)
      BY <1>4 DEF ListInv
    <3>2. PICK i \in Above : Announces(i, a)'
      BY <1>1, <1>2, <1>6, <3>1, OwnWords DEF Told
    <3>3. i \in Heard(w, b)'
      BY <1>2, <2>1, <3>2, PollFacts DEF Heard, Left
    <3> QED
      BY <3>2, <3>3
  <2>2. ~RebuildFails(w)
    <3>1. SUFFICES ASSUME RebuildFails(w) PROVE FALSE
      OBVIOUS
    <3>2. Rebuilding(w) /\ last' = last /\ (w \in owner => w \in failed')
      BY <1>2, <3>1, RebuildFailsFacts
    <3>3. InBatch(w)
      BY <1>1, <3>2 DEF InBatch
    <3> QED
      BY <1>1, <1>2, <3>2, <3>3 DEF StageInv, Stage
  <2>3. ~Crash(w)
    BY <1>1, <1>2, CrashFacts DEF InBatch
  <2>4. OldFor(w, a, b)
    BY <1>1, <1>2, <1>3, <2>2, <2>3, OldForKept
  <2>5. ASSUME InBatch(w), w \notin failed, ~Due(w, b),
               \A i \in Heard(w, b) : Announces(i, a) => i \in Heard(w, b)'
        PROVE  \E i \in Heard(w, b)' : Announces(i, a)'
    <3>1. Told(Heard(w, b), a)
      BY <2>4, <2>5 DEF BatchListInv
    <3> QED
      BY <1>1, <1>2, <1>6, <2>5, <3>1, OwnWords DEF Told
  <2>6. Visible' = Visible
    BY <1>2, <1>6, OwnWords
  <2>7. CASE ReadAccount(w)
    <3>1. /\ pc[w] = "read" /\ pc'[w] = "set"
          /\ UNCHANGED <<batch, seen, last, gap, cur, todo, failed>>
      BY <1>2, <2>7, ReadFacts
    <3>2. InBatch(w) /\ w \notin failed /\ ~Due(w, b)
      BY <1>1, <3>1 DEF InBatch, Due
    <3>3. Heard(w, b)' = Heard(w, b)
      BY <2>6, <3>1 DEF Heard, Unlisted, Left
    <3> QED
      BY <2>5, <3>2, <3>3
  <2>8. CASE SetAccount(w)
    <3>1. /\ pc[w] = "set" /\ pc'[w] = "next"
          /\ todo'[w] = Named(w) \ seen[w]
          /\ seen'[w] = seen[w] \cup Named(w)
          /\ UNCHANGED <<batch, last, gap, failed>>
      BY <1>2, <2>8, SetFacts
    <3>2. /\ InBatch(w) /\ w \notin failed /\ todo[w] = {} /\ batch[w] # {}
          /\ ~Due(w, b)
      BY <1>1, <1>2, <3>1 DEF InBatch, Due, StageInv, Stage
    <3>3. b \notin todo'[w]
      BY <1>1 DEF Due
    <3>4. ASSUME Announces(Least(batch[w]), a) PROVE b \in Named(w)
      <4>1. Current(w).account = a /\ Current(w).kind # "lastUsed"
        BY <3>4 DEF Announces, Current
      <4>2. PICK bs : bs = Buckets \ Named(w) /\ Forget({a}, bs)
        BY <1>2, <2>8, <4>1, SetFacts
      <4>3. ListsStay
        <5>1. \A v \in Workers \ {w} : Same(v)
          BY <1>2, <1>6, OthersSame
        <5> QED
          BY <1>2, <2>8, <5>1, SetFacts, SameLists
      <4>4. b \notin bs
        BY <1>3, <4>2, <4>3, ForgetLists
      <4> QED
        BY <4>2, <4>4
    <3>5. ASSUME NEW i \in Heard(w, b), Announces(i, a)
          PROVE  i \in Heard(w, b)'
      <4>1. CASE i \in Unlisted(w)
        BY <2>6, <3>1, <4>1 DEF Heard, Unlisted
      <4>2. CASE b \notin seen[w] /\ i \in batch[w]
        <5>1. b \notin Named(w)
          BY <3>1, <3>3, <4>2
        <5>2. i # Least(batch[w])
          BY <3>4, <3>5, <5>1
        <5>3. i \in Rest(w)
          BY <1>2, <3>2, <4>2, <5>2, RestIs
        <5>4. i \in Rest(w)' /\ b \notin seen'[w]
          BY <3>1, <4>2, <5>1, <5>3 DEF Rest
        <5> QED
          BY <3>1, <5>4 DEF Heard, Left
      <4> QED
        BY <3>1, <3>5, <4>1, <4>2 DEF Heard, Left
    <3> QED
      BY <2>5, <3>2, <3>5
  <2>9. CASE FinishEvent(w)
    <3>1. /\ pc[w] = "next" /\ todo[w] = {} /\ batch[w] # {}
          /\ w \notin failed
          /\ batch'[w] = batch[w] \ {Least(batch[w])}
          /\ pc'[w] = IF batch'[w] = {} THEN "mark" ELSE "read"
          /\ UNCHANGED <<seen, last, gap>>
      BY <1>1, <1>2, <2>9, FinishFacts DEF InBatch
    <3>2. InBatch(w) /\ ~Due(w, b)
      BY <1>1, <3>1 DEF InBatch, Due
    <3>3. Left(w) = batch'[w]
      BY <1>2, <3>1, RestIs DEF Left
    <3>4. Left(w)' = batch'[w]
      BY <3>1 DEF Left, Rest
    <3>5. Heard(w, b)' = Heard(w, b)
      BY <2>6, <3>1, <3>3, <3>4 DEF Heard, Unlisted
    <3> QED
      BY <2>5, <3>1, <3>2, <3>5
  <2>10. CASE Mark(w)
    BY <1>1, <1>2, <2>10, MarkFacts DEF InBatch
  <2>11. CASE LockBucket(w)
    <3>1. PICK c \in todo[w] :
             /\ c \in Buckets
             /\ todo'[w] = todo[w] \ {c}
             /\ \/ /\ cur'[w] = c /\ pc'[w] = "version"
                   /\ failed' = failed
                \/ /\ Forget(Accounts, {c})
                   /\ UNCHANGED <<pc, cur, failed>>
      BY <1>1, <1>2, <2>11, LockFacts
    <3>2. /\ pc[w] = "next" /\ UNCHANGED <<batch, seen, last, gap>>
      BY <1>2, <2>11, LockFacts
    <3>3. InBatch(w) /\ w \notin failed
      BY <1>1, <3>1, <3>2 DEF InBatch
    <3>4. b # c
      <4>1. CASE cur'[w] = c /\ pc'[w] = "version"
        BY <1>1, <4>1 DEF Due
      <4>2. CASE Forget(Accounts, {c})
        <5>1. doubt \subseteq doubt' /\ late \subseteq late'
          BY <1>2, <2>11, LockFacts, ForgetGrows
        <5>2. \A v \in Workers \ {w} : Same(v)
          BY <1>2, <1>6, OthersSame
        <5>3. ListsStay
          BY <1>2, <2>11, <5>1, <5>2, LockFacts, SameLists
        <5>4. b = c => b \in {c}
          OBVIOUS
        <5> QED
          BY <1>3, <4>2, <5>3, <5>4, ForgetLists
      <4> QED
        BY <3>1, <4>1, <4>2
    <3>5. ~Due(w, b)
      BY <1>1, <3>1, <3>2, <3>4 DEF Due
    <3>6. Heard(w, b)' = Heard(w, b)
      BY <2>6, <3>1, <3>2 DEF Heard, Unlisted, Left, Rest
    <3> QED
      BY <2>5, <3>3, <3>5, <3>6
  <2>12. CASE TakeVersion(w)
    <3>1. /\ pc[w] = "version" /\ pc'[w] = "write"
          /\ w \in tickets'[w]
          /\ \A v \in Workers \ {w} : tickets'[v] = tickets[v]
          /\ w \in late' \/ \A c \in Accounts : Holds(w, c) = Belongs(c, cur[w])
          /\ UNCHANGED <<batch, seen, last, gap, cur, todo, failed, got>>
      BY <1>2, <2>12, TakeFacts
    <3>2. InBatch(w) /\ w \notin failed
      BY <1>1, <3>1 DEF InBatch
    <3>3. cur[w] # b
      <4>1. SUFFICES ASSUME cur[w] = b PROVE FALSE
        OBVIOUS
      <4>2. PICK v \in Workers : OldJob(v, a, b)' /\ w \in tickets'[v]
        BY <1>1, <3>1, <4>1 DEF OldFor, HasTicket
      <4>3. v \in tickets[v] /\ OldJob(v, a, b)
        BY <1>3, <4>2, JobKept DEF OldJob
      <4>4. pc[v] # "version"
        BY <4>3, TicketIs DEF HasTicket
      <4>5. v # w
        BY <3>1, <4>4
      <4>6. w \in tickets[v]
        BY <3>1, <4>2, <4>5
      <4>7. HasTicket(w)
        BY <4>6, TicketInv DEF TicketInv, HasTicket
      <4> QED
        BY <1>2, <3>1, <4>7, TicketIs
    <3>4. ~Due(w, b)
      BY <1>1, <3>1, <3>3 DEF Due
    <3>5. Heard(w, b)' = Heard(w, b)
      BY <2>6, <3>1 DEF Heard, Unlisted, Left, Rest
    <3> QED
      BY <2>5, <3>2, <3>4, <3>5
  <2>13. CASE WriteCopies(w)
    <3>1. /\ pc[w] = "write" /\ pc'[w] = "activate"
          /\ UNCHANGED <<batch, seen, last, gap, cur, todo, failed>>
      BY <1>2, <2>13, WriteFacts
    <3>2. InBatch(w) /\ w \notin failed /\ ~Due(w, b)
      BY <1>1, <3>1 DEF InBatch, Due
    <3>3. Heard(w, b)' = Heard(w, b)
      BY <2>6, <3>1 DEF Heard, Unlisted, Left, Rest
    <3> QED
      BY <2>5, <3>2, <3>3
  <2>14. CASE Activate(w)
    <3>1. /\ pc[w] = "activate" /\ pc'[w] \in {"next", "idle"}
          /\ UNCHANGED <<batch, seen, last, gap, todo, failed>>
      BY <1>2, <2>14, ActivateFacts
    <3>2. InBatch(w) /\ w \notin failed /\ ~Due(w, b)
      BY <1>1, <3>1 DEF InBatch, Due
    <3>3. Heard(w, b)' = Heard(w, b)
      BY <2>6, <3>1 DEF Heard, Unlisted, Left, Rest
    <3> QED
      BY <2>5, <3>2, <3>3
  <2>15. CASE EventFails(w)
    BY <1>1, <1>2, <2>15, EventFailsFacts DEF InBatch
  <2>16. CASE \/ FinishRebuild(w) \/ FullRebuild(w)
              \/ \E c \in Buckets : Fallback(w, c)
    <3>1. /\ last' = last
          /\ pc[w] = "idle" \/ (pc[w] = "next" /\ batch[w] = {})
      BY <1>2, <2>16, IdleFacts
    <3> QED
      BY <1>1, <1>2, <3>1 DEF InBatch, StageInv, Stage
  <2> QED
    BY <1>6, <2>1, <2>2, <2>3, <2>7, <2>8, <2>9, <2>10, <2>11, <2>12, <2>13,
       <2>14, <2>15, <2>16, Zenon DEF WorkerStep, Work
<1> QED
  BY <1>2, <1>5, <1>6, OwnStep

\* Every step keeps BatchCopyInv: the event's row is read after the event was
\* seen.
LEMMA BatchCopyStep ==
    ASSUME TypeOK, StageInv, TaskInv, TicketInv, CopyInv, BatchCopyInv,
           [Act]_vars
    PROVE  BatchCopyInv'
<1>1. SUFFICES ASSUME NEW w \in Pollers, NEW a \in Accounts,
                      InBatch(w)', w \notin failed'
               PROVE  /\ CopyOld(a)' => Told(Unlisted(w) \cup Left(w), a)'
                      /\ pc'[w] = "set" /\ OldRead(w, a)'
                            => Told(Unlisted(w) \cup Rest(w), a)'
  BY DEF BatchCopyInv
<1>2. w \in Workers
  BY DEF Workers
<1>3. CASE Pending(a)'
  BY <1>3 DEF Told
<1>4. CASE Fresh(a)'
  BY <1>2, <1>4 DEF Fresh, CopyOld
<1>5. ASSUME row'[a] = row[a], ~Pending(a)', ~Fresh(a)', Same(w)
      PROVE  /\ CopyOld(a)' => Told(Unlisted(w) \cup Left(w), a)'
             /\ pc'[w] = "set" /\ OldRead(w, a)'
                   => Told(Unlisted(w) \cup Rest(w), a)'
  <2>1. InBatch(w) /\ w \notin failed /\ pc'[w] = pc[w]
    BY <1>1, <1>5 DEF Same, InBatch
  <2>2. Left(w)' = Left(w) /\ Rest(w)' = Rest(w)
    BY <1>5 DEF Same, Left, Rest
  <2>3. ASSUME CopyOld(a)' PROVE Told(Unlisted(w) \cup Left(w), a)'
    <3>1. CopyOld(a)
      BY <1>5, <2>3, CopyOldKept
    <3>2. Told(Unlisted(w) \cup Left(w), a)
      BY <2>1, <3>1 DEF BatchCopyInv
    <3>3. \E i \in Unlisted(w)' \cup Left(w) : Announces(i, a)'
      BY <1>2, <1>5, <2>1, <3>2, OthersTold
    <3> QED
      BY <2>2, <3>3 DEF Told
  <2>4. ASSUME pc'[w] = "set", OldRead(w, a)'
        PROVE  Told(Unlisted(w) \cup Rest(w), a)'
    <3>1. ~ReadAccount(w)
      BY <1>2, <2>1, ReadFacts
    <3>2. OldRead(w, a)
      <4>1. CASE ReadsStay
        BY <1>2, <1>5, <2>4, <4>1, ReadKept
      <4>2. ASSUME NEW x \in Workers, ReadAccount(x) PROVE OldRead(w, a)
        <5>1. w # x
          BY <3>1, <4>2
        <5> QED
          BY <1>2, <1>5, <2>4, <4>2, <5>1, ReadsOld
      <4> QED
        BY <4>1, <4>2, ReadCases
    <3>3. Told(Unlisted(w) \cup Rest(w), a)
      BY <2>1, <2>4, <3>2 DEF BatchCopyInv
    <3>4. \E i \in Unlisted(w)' \cup Rest(w) : Announces(i, a)'
      BY <1>2, <1>5, <2>1, <3>3, OthersTold
    <3> QED
      BY <2>2, <3>4 DEF Told
  <2> QED
    BY <2>3, <2>4
<1>6. ASSUME row'[a] = row[a], ~Pending(a)', WorkerStep(w)
      PROVE  /\ CopyOld(a)' => Told(Unlisted(w) \cup Left(w), a)'
             /\ pc'[w] = "set" /\ OldRead(w, a)'
                   => Told(Unlisted(w) \cup Rest(w), a)'
  <2>1. Visible' = Visible /\ \A i : Announces(i, a)' <=> Announces(i, a)
    BY <1>2, <1>6, OwnWords
  <2>2. ASSUME NEW S, NEW T, Told(S, a),
               \A i \in S : Announces(i, a) => i \in T
        PROVE  \E i \in T : Announces(i, a)'
    BY <1>2, <1>6, <2>1, <2>2, OwnWords DEF Told
  <2>3. ASSUME InBatch(w), w \notin failed, pc'[w] # "set",
               Unlisted(w) \cup Left(w) \subseteq Unlisted(w)' \cup Left(w)'
        PROVE  CopyOld(a)' => Told(Unlisted(w) \cup Left(w), a)'
    <3>1. SUFFICES ASSUME CopyOld(a)'
                   PROVE  \E i \in Unlisted(w)' \cup Left(w)' : Announces(i, a)'
      BY DEF Told
    <3>2. Told(Unlisted(w) \cup Left(w), a)
      BY <1>6, <2>3, <3>1, CopyOldKept DEF BatchCopyInv
    <3> QED
      BY <2>2, <2>3, <3>2
  <2>4. CASE Poll(w)
    <3>1. pc'[w] = "read" /\ batch'[w] = Above
      BY <1>2, <2>4, PollFacts
    <3>2. SUFFICES ASSUME CopyOld(a)'
                   PROVE  \E i \in Unlisted(w)' \cup Left(w)' : Announces(i, a)'
      BY <3>1 DEF Told
    <3>3. Told(Above, a)
      BY <1>6, <3>2, CopyOldKept DEF CopyInv
    <3>4. \E i \in Above : Announces(i, a)'
      BY <2>2, <3>3
    <3> QED
      BY <3>1, <3>4 DEF Left
  <2>5. CASE ReadAccount(w)
    <3>1. /\ pc[w] = "read" /\ pc'[w] = "set"
          /\ UNCHANGED <<batch, last, gap, failed>>
      BY <1>2, <2>5, ReadFacts
    <3>2. InBatch(w) /\ w \notin failed /\ batch[w] # {}
      BY <1>1, <1>2, <3>1 DEF InBatch, StageInv, Stage
    <3>3. /\ Unlisted(w)' = Unlisted(w) /\ Left(w)' = batch[w]
          /\ Left(w) = batch[w] /\ Rest(w)' = Rest(w)
      BY <2>1, <3>1 DEF Unlisted, Left, Rest
    <3>4. ASSUME CopyOld(a)' PROVE Told(Unlisted(w) \cup Left(w), a)'
      <4>1. Told(Unlisted(w) \cup Left(w), a)
        BY <1>6, <3>2, <3>4, CopyOldKept DEF BatchCopyInv
      <4>2. \E i \in Unlisted(w)' \cup Left(w)' : Announces(i, a)'
        BY <2>2, <3>3, <4>1
      <4> QED
        BY <4>2 DEF Told
    <3>5. ASSUME OldRead(w, a)' PROVE Told(Unlisted(w) \cup Rest(w), a)'
      <4>1. /\ OldCopy(a) /\ a = Current(w).account
            /\ Current(w).kind = "lastUsed"
        BY <1>2, <1>6, <2>5, <3>5, ReadsOld
      <4>2. Told(Unlisted(w) \cup Left(w), a)
        BY <3>2, <4>1 DEF BatchCopyInv, CopyOld
      <4>3. ~Announces(Least(batch[w]), a)
        BY <4>1 DEF Announces, Current
      <4>4. \A i \in Unlisted(w) \cup Left(w) :
               Announces(i, a) => i \in Unlisted(w)' \cup Rest(w)'
        BY <1>2, <3>2, <3>3, <4>3, RestIs
      <4>5. \E i \in Unlisted(w)' \cup Rest(w)' : Announces(i, a)'
        BY <2>2, <4>2, <4>4
      <4> QED
        BY <4>5 DEF Told
    <3> QED
      BY <3>4, <3>5
  <2>6. CASE SetAccount(w)
    <3>1. /\ pc[w] = "set" /\ pc'[w] = "next"
          /\ UNCHANGED <<batch, last, gap, failed, got>>
      BY <1>2, <2>6, SetFacts
    <3>2. InBatch(w) /\ w \notin failed /\ batch[w] # {}
      BY <1>1, <1>2, <3>1 DEF InBatch, StageInv, Stage
    <3>3. /\ Unlisted(w)' = Unlisted(w) /\ Left(w)' = Rest(w)
          /\ Left(w) = batch[w]
      BY <2>1, <3>1 DEF Unlisted, Left, Rest
    <3>4. SUFFICES ASSUME CopyOld(a)'
                   PROVE  \E i \in Unlisted(w)' \cup Left(w)' : Announces(i, a)'
      BY <3>1 DEF Told
    <3>5. CASE Announces(Least(batch[w]), a)
      <4>1. Current(w).account = a /\ Current(w).kind # "lastUsed"
        BY <3>5 DEF Announces, Current
      <4>2. behind' = behind \cup OldReads({a})
        BY <1>2, <2>6, <4>1, SetFacts
      <4>3. \A x \in Workers \cup Updaters : ~OldRead(x, a)'
        BY <3>1, <4>2 DEF OldRead, OldReads
      <4>4. OldCopy(a)'
        BY <3>4, <4>3 DEF CopyOld
      <4>5. PICK as : as = {Current(w).account} /\ CopiesWritten(w, as)
        BY <1>2, <2>6, <4>1, SetWrites
      <4>6. OldRead(w, a)
        BY <1>6, <4>1, <4>4, <4>5, CopyWritten
      <4>7. Told(Unlisted(w) \cup Rest(w), a)
        BY <3>1, <3>2, <4>6 DEF BatchCopyInv
      <4> QED
        BY <2>2, <3>3, <4>7
    <3>6. CASE ~Announces(Least(batch[w]), a)
      <4>1. Told(Unlisted(w) \cup Left(w), a)
        BY <1>6, <3>2, <3>4, CopyOldKept DEF BatchCopyInv
      <4>2. \A i \in Unlisted(w) \cup Left(w) :
               Announces(i, a) => i \in Unlisted(w)' \cup Left(w)'
        BY <1>2, <3>2, <3>3, <3>6, RestIs
      <4> QED
        BY <2>2, <4>1, <4>2
    <3> QED
      BY <3>5, <3>6
  <2>7. CASE FinishEvent(w)
    <3>1. /\ pc[w] = "next" /\ batch[w] # {}
          /\ w \notin failed
          /\ batch'[w] = batch[w] \ {Least(batch[w])}
          /\ pc'[w] = IF batch'[w] = {} THEN "mark" ELSE "read"
          /\ UNCHANGED <<last, gap>>
      BY <1>1, <1>2, <2>7, FinishFacts DEF InBatch
    <3>2. InBatch(w)
      BY <1>1, <3>1 DEF InBatch
    <3>3. Left(w) = batch'[w]
      BY <1>2, <3>1, RestIs DEF Left
    <3>4. Left(w)' = batch'[w] /\ Unlisted(w)' = Unlisted(w)
      BY <2>1, <3>1 DEF Left, Rest, Unlisted
    <3> QED
      BY <2>3, <3>1, <3>2, <3>3, <3>4
  <2>8. CASE Mark(w)
    BY <1>1, <1>2, <2>8, MarkFacts DEF InBatch
  <2>9. CASE LockBucket(w)
    <3>1. /\ pc[w] = "next" /\ pc'[w] \in {"next", "version"}
          /\ UNCHANGED <<batch, last, gap>> /\ w \notin failed
      BY <1>1, <1>2, <2>9, LockFacts
    <3>2. InBatch(w)
      BY <1>1, <3>1 DEF InBatch
    <3>3. Left(w)' = Left(w) /\ Unlisted(w)' = Unlisted(w)
      BY <2>1, <3>1 DEF Left, Rest, Unlisted
    <3> QED
      BY <2>3, <3>1, <3>2, <3>3
  <2>10. CASE TakeVersion(w) \/ WriteCopies(w) \/ Activate(w)
    <3>1. /\ pc[w] \in {"version", "write", "activate"}
          /\ pc'[w] \in {"write", "activate", "next", "idle"}
          /\ UNCHANGED <<batch, last, gap, failed>>
      BY <1>2, <2>10, TakeFacts, WriteFacts, ActivateFacts
    <3>2. InBatch(w) /\ w \notin failed
      BY <1>1, <3>1 DEF InBatch
    <3>3. Left(w)' = Left(w) /\ Unlisted(w)' = Unlisted(w)
      BY <2>1, <3>1 DEF Left, Rest, Unlisted
    <3> QED
      BY <2>3, <3>1, <3>2, <3>3
  <2>11. ~RebuildFails(w)
    <3>1. SUFFICES ASSUME RebuildFails(w) PROVE FALSE
      OBVIOUS
    <3>2. Rebuilding(w) /\ last' = last /\ (w \in owner => w \in failed')
      BY <1>2, <3>1, RebuildFailsFacts
    <3>3. InBatch(w)
      BY <1>1, <3>2 DEF InBatch
    <3> QED
      BY <1>1, <1>2, <3>2, <3>3 DEF StageInv, Stage
  <2>12. CASE Crash(w) \/ EventFails(w)
    BY <1>1, <1>2, <2>12, CrashFacts, EventFailsFacts DEF InBatch
  <2>13. CASE \/ FinishRebuild(w) \/ FullRebuild(w)
              \/ \E c \in Buckets : Fallback(w, c)
    <3>1. /\ last' = last
          /\ pc[w] = "idle" \/ (pc[w] = "next" /\ batch[w] = {})
      BY <1>2, <2>13, IdleFacts
    <3> QED
      BY <1>1, <1>2, <3>1 DEF InBatch, StageInv, Stage
  <2> QED
    BY <1>6, <2>4, <2>5, <2>6, <2>7, <2>8, <2>9, <2>10, <2>11, <2>12, <2>13,
       Zenon DEF WorkerStep, Work
<1> QED
  BY <1>2, <1>3, <1>4, <1>5, <1>6, RowKept, OwnStep

-----------------------------------------------------------------------------
(* The invariant *)

\* Initially nothing is old.
LEMMA InitIInv ==
    ASSUME Init
    PROVE  IInv
<1>1. TypeOK
  <2>1. row \in [Accounts -> Rows \cup {Nil}]
    <3>1. \A b \in Buckets : [in |-> {b}, up |-> TRUE] \in Rows \cup {Nil}
      BY DEF Rows
    <3>2. {[in |-> {b}, up |-> TRUE] : b \in Buckets} \subseteq Rows \cup {Nil}
      BY <3>1, Zenon
    <3>3. row \in [Accounts -> {[in |-> {b}, up |-> TRUE] : b \in Buckets}]
      BY DEF Init
    <3> DEFINE S == {[in |-> {b}, up |-> TRUE] : b \in Buckets}
    <3> HIDE DEF S
    <3>4. S \subseteq Rows \cup {Nil} /\ row \in [Accounts -> S]
      BY <3>2, <3>3, Zenon DEF S
    <3> QED
      BY <3>4
  <2>2. /\ outbox \in Seq(Events) /\ Len(outbox) = 0
        /\ open = {} /\ watermark = 0
    BY DEF Init
  <2>3. /\ \A w \in Workers \cup Updaters : pc[w] = "idle"
        /\ pc \in [Workers \cup Updaters -> WorkerPCs \cup UpdaterPCs]
    BY DEF Init, WorkerPCs, UpdaterPCs
  <2>4. \A x \in Workers \cup Updaters : x \in Workers => pc[x] \in WorkerPCs
    BY <2>3 DEF WorkerPCs
  <2>5. \A x \in Workers \cup Updaters : x \in Updaters => pc[x] \in UpdaterPCs
    BY <2>3 DEF UpdaterPCs
  <2>6. copy \in [Accounts -> Rows \cup {Nil}]
    BY NoneIs DEF Init
  <2>7. got \in [Workers \cup Updaters -> [Accounts -> Rows \cup {Nil}]]
    BY NoneIs DEF Init
  <2>8. /\ active \in [Buckets -> (SUBSET Accounts) \cup {Nil}]
        /\ tickets \in [Workers -> SUBSET Workers]
        /\ lock \in [Buckets -> Workers \cup {Nil}]
        /\ cur \in [Workers -> Buckets \cup {Nil}]
        /\ todo \in [Workers -> SUBSET Buckets]
        /\ seen \in [Workers -> SUBSET Buckets]
    BY DEF Init
  <2>9. /\ batch \in [Workers -> SUBSET (1 .. Len(outbox))]
        /\ last \in [Workers -> 0 .. Len(outbox)]
        /\ gap \in [Workers -> SUBSET (1 .. Len(outbox))]
    BY <2>2 DEF Init
  <2>10. /\ owner = {} /\ failed = {} /\ behind = {} /\ late = {} /\ doubt = {}
         /\ stale = {} /\ changes = 0 /\ errors = 0
         /\ task \in [Updaters -> Tasks \cup {Nil}]
    BY DEF Init
  <2>11. changes \in 0 .. MaxChanges /\ errors \in 0 .. MaxErrors
    BY <2>10, ConstantsAssumption
  <2>12. open \in SUBSET (1 .. Len(outbox)) /\ watermark \in 0 .. Len(outbox)
    BY <2>2
  <2> QED
    BY <2>1, <2>2, <2>3, <2>4, <2>5, <2>6, <2>7, <2>8, <2>9, <2>10, <2>11, <2>12
       DEF TypeOK
<1>2. /\ \A w \in Workers : /\ pc[w] = "idle" /\ last[w] = 0 /\ batch[w] = {}
                            /\ todo[w] = {} /\ tickets[w] = {}
      /\ \A u \in Updaters : pc[u] = "idle"
      /\ \A x \in Workers \cup Updaters, a \in Accounts : got[x][a] = Nil
      /\ \A a \in Accounts : copy[a] = Nil
      /\ \A b \in Buckets : active[b] = Nil
      /\ open = {}
  BY DEF Init, None
<1>3. StageInv
  BY <1>2 DEF StageInv, Stage, InBatch, Rebuilding
<1>4. TaskInv /\ TicketInv /\ OrderInv
  BY <1>2 DEF TaskInv, TicketInv, OrderInv
<1>5. \A a \in Accounts, b \in Buckets : ~ListOld(a, b)
  <2>1. \A a \in Accounts, b \in Buckets : ~OldList(a, b)
    BY <1>2, OldListIs
  <2> QED
    BY <1>2, <2>1 DEF ListOld, OldJob
<1>6. \A a \in Accounts : ~CopyOld(a)
  BY <1>2, OldCopyIs DEF CopyOld, OldRead
<1>7. ListInv /\ CopyInv
  BY <1>5, <1>6 DEF ListInv, CopyInv
<1>8. BatchListInv /\ BatchCopyInv
  BY <1>2 DEF BatchListInv, BatchCopyInv, InBatch, Workers
<1> QED
  BY <1>1, <1>3, <1>4, <1>7, <1>8 DEF IInv

-----------------------------------------------------------------------------
(* The clock, whose changes are known to be overlooked at once *)

\* Time changes the row, and the reads and copies that equal it.
LEMMA TimeFacts ==
    ASSUME TypeOK, NEW a \in Accounts, TimePasses(a)
    PROVE  /\ row[a] \in Rows
           /\ \E new \in Rows :
                 /\ row' = [row EXCEPT ![a] = new]
                 /\ copy' = [copy EXCEPT ![a] = IF copy[a] = row[a]
                                                   THEN new ELSE copy[a]]
                 /\ got' = [x \in Workers \cup Updaters |->
                               [got[x] EXCEPT ![a] = IF got[x][a] = row[a]
                                                        THEN new
                                                        ELSE got[x][a]]]
           /\ Forget({a}, Buckets)
           /\ changes' \in 0 .. MaxChanges
           /\ UNCHANGED <<outbox, open, watermark, active, tickets, lock, pc,
                          batch, seen, last, gap, cur, todo, owner, failed,
                          behind, task, stale, errors>>
<1>1. row[a] \in Rows
  BY DEF TimePasses, TypeOK
<1>2. row[a].up \in BOOLEAN
  BY <1>1 DEF Rows
<1> DEFINE new == [row[a] EXCEPT !.up = ~@]
<1>3. new \in Rows
  <2> DEFINE up == ~row[a].up
  <2>1. new = [row[a] EXCEPT !.up = up]
    OBVIOUS
  <2>2. up \in BOOLEAN
    BY <1>2
  <2> HIDE DEF up
  <2>3. [row[a] EXCEPT !.up = up] \in Rows
    BY <1>1, <2>2, StateIsRow
  <2> QED
    BY <2>1, <2>3, Zenon
<1>4. /\ row' = [row EXCEPT ![a] = new]
      /\ copy' = [copy EXCEPT ![a] = IF copy[a] = row[a] THEN new ELSE copy[a]]
      /\ got' = [x \in Workers \cup Updaters |->
                    [got[x] EXCEPT ![a] = IF got[x][a] = row[a]
                                             THEN new ELSE got[x][a]]]
  BY DEF TimePasses
<1>5. changes' \in 0 .. MaxChanges
  <2>1. changes \in 0 .. MaxChanges /\ changes < MaxChanges
        /\ changes' = changes + 1
    BY DEF TimePasses, TypeOK
  <2> QED
    BY <2>1, ConstantsAssumption
<1>6. /\ Forget({a}, Buckets)
      /\ UNCHANGED <<outbox, open, watermark, active, tickets, lock, pc,
                     batch, seen, last, gap, cur, todo, owner, failed,
                     behind, task, stale, errors>>
  BY DEF TimePasses, snapVars, pollVars, jobVars
<1> HIDE DEF new
<1> QED
  BY <1>1, <1>3, <1>4, <1>5, <1>6

\* Time keeps the types.
LEMMA TimeType ==
    ASSUME TypeOK, NEW a \in Accounts, TimePasses(a)
    PROVE  TypeOK'
<1>1. PICK new \in Rows :
         /\ row' = [row EXCEPT ![a] = new]
         /\ copy' = [copy EXCEPT ![a] = IF copy[a] = row[a]
                                           THEN new ELSE copy[a]]
         /\ got' = [x \in Workers \cup Updaters |->
                       [got[x] EXCEPT ![a] = IF got[x][a] = row[a]
                                                THEN new ELSE got[x][a]]]
  BY TimeFacts
<1>2. /\ doubt' \in SUBSET (Accounts \X Buckets)
      /\ late' \in SUBSET Workers
  BY TimeFacts, ForgetType
<1>3. row' \in [Accounts -> Rows \cup {Nil}]
  BY <1>1 DEF TypeOK
<1>4. copy' \in [Accounts -> Rows \cup {Nil}]
  BY <1>1 DEF TypeOK
<1>5. got' \in [Workers \cup Updaters -> [Accounts -> Rows \cup {Nil}]]
  BY <1>1 DEF TypeOK
<1> QED
  BY <1>2, <1>3, <1>4, <1>5, TimeFacts DEF TypeOK

\* Time makes no list, rebuild, copy or read old that is not known to be.
LEMMA TimeOld ==
    ASSUME TypeOK, TicketInv, NEW a \in Accounts, TimePasses(a),
           NEW c \in Accounts
    PROVE  /\ \A b \in Buckets : OldList(c, b)' => OldList(c, b)
           /\ \A w \in Workers, b \in Buckets :
                 OldJob(w, c, b)' => OldJob(w, c, b)
           /\ OldCopy(c)' => OldCopy(c)
           /\ \A x \in Workers \cup Updaters : OldRead(x, c)' => OldRead(x, c)
<1>1. PICK new \in Rows :
         /\ row' = [row EXCEPT ![a] = new]
         /\ copy' = [copy EXCEPT ![a] = IF copy[a] = row[a]
                                           THEN new ELSE copy[a]]
         /\ got' = [x \in Workers \cup Updaters |->
                       [got[x] EXCEPT ![a] = IF got[x][a] = row[a]
                                                THEN new ELSE got[x][a]]]
  BY TimeFacts
<1>2. /\ row \in [Accounts -> Rows \cup {Nil}]
      /\ copy \in [Accounts -> Rows \cup {Nil}]
      /\ got \in [Workers \cup Updaters -> [Accounts -> Rows \cup {Nil}]]
  BY DEF TypeOK
<1>3. /\ doubt' = doubt \cup {p \in Wrong' : p[1] \in {a} /\ p[2] \in Buckets}
      /\ late' = late \cup OldJobs({a}, Buckets)
  BY TimeFacts DEF Forget
<1>4. UNCHANGED <<active, tickets, cur, pc, behind, stale>>
  BY TimeFacts
<1>5. ASSUME c # a
      PROVE  /\ row'[c] = row[c] /\ copy'[c] = copy[c]
             /\ \A x \in Workers \cup Updaters : got'[x][c] = got[x][c]
  BY <1>1, <1>2, <1>5
<1>6. ASSUME NEW b \in Buckets, OldList(c, b)' PROVE OldList(c, b)
  <2>1. <<c, b>> \in Wrong' /\ <<c, b>> \notin doubt'
    BY <1>6 DEF OldList
  <2>2. c # a
    BY <1>3, <2>1
  <2>3. Belongs(c, b)' = Belongs(c, b) /\ Listed(c, b)' = Listed(c, b)
    BY <1>4, <1>5, <2>2 DEF Belongs, Listed
  <2>4. <<c, b>> \in Wrong
    BY <1>4, <2>1, <2>3 DEF Wrong
  <2> QED
    BY <1>3, <2>1, <2>4 DEF OldList
<1>7. ASSUME NEW w \in Workers, NEW b \in Buckets, OldJob(w, c, b)'
      PROVE  OldJob(w, c, b)
  <2>1. /\ w \in tickets[w] /\ cur[w] = b
        /\ Holds(w, c)' # Belongs(c, b)' /\ w \notin late'
    BY <1>4, <1>7 DEF OldJob
  <2>2. CASE c # a
    <3>1. got'[w][c] = got[w][c]
      BY <1>5, <2>2
    <3>2. Holds(w, c)' = Holds(w, c) /\ Belongs(c, b)' = Belongs(c, b)
      BY <1>5, <2>2, <3>1 DEF Holds, Belongs
    <3> QED
      BY <1>3, <2>1, <3>2 DEF OldJob
  <2>3. CASE c = a
    <3>1. pc[w] \in {"write", "activate"}
      BY <2>1 DEF TicketInv
    <3>2. CASE Holds(w, a) # Belongs(a, b)'
      <4>1. w \in OldJobs({a}, Buckets)
        BY <2>1, <3>1, <3>2 DEF OldJobs
      <4> QED
        BY <1>3, <2>1, <4>1
    <3>3. CASE Holds(w, a)' # Holds(w, a)
      <4>1. got'[w][a] = IF got[w][a] = row[a] THEN new ELSE got[w][a]
        BY <1>1, <1>2
      <4>2. row[a] # Nil
        BY DEF TimePasses
      <4>3. row'[a] = new
        BY <1>1, <1>2
      <4>4. got[w][a] = row[a] /\ row'[a] = Nil
        BY <3>3, <4>1, <4>2, <4>3 DEF Holds
      <4> QED
        BY <2>1, <2>3, <4>1, <4>3, <4>4 DEF Belongs, Holds
    <3> QED
      BY <2>1, <2>3, <3>2, <3>3
  <2> QED
    BY <2>2, <2>3
<1>8. ASSUME OldCopy(c)' PROVE OldCopy(c)
  <2>1. copy'[c] # Nil /\ copy'[c] # row'[c] /\ c \notin stale
    BY <1>4, <1>8 DEF OldCopy, Outdated
  <2>2. copy[c] # Nil /\ copy[c] # row[c]
    BY <1>1, <1>2, <1>5, <2>1
  <2> QED
    BY <2>1, <2>2 DEF OldCopy, Outdated
<1>9. ASSUME NEW x \in Workers \cup Updaters, OldRead(x, c)'
      PROVE  OldRead(x, c)
  <2>1. got'[x][c] # Nil /\ got'[x][c] # row'[c] /\ x \notin behind
    BY <1>4, <1>9 DEF OldRead
  <2>2. got[x][c] # Nil /\ got[x][c] # row[c]
    BY <1>1, <1>2, <1>5, <2>1
  <2> QED
    BY <2>1, <2>2 DEF OldRead
<1> QED
  BY <1>6, <1>7, <1>8, <1>9

\* Time keeps the invariant.
LEMMA TimeStep ==
    ASSUME IInv, NEW a \in Accounts, TimePasses(a)
    PROVE  IInv'
<1>1. /\ TypeOK /\ StageInv /\ TaskInv /\ TicketInv /\ OrderInv
      /\ ListInv /\ CopyInv /\ BatchListInv /\ BatchCopyInv
  BY DEF IInv
<1>2. UNCHANGED <<outbox, open, watermark, active, tickets, lock, pc, batch,
                  seen, last, gap, cur, todo, owner, failed, behind, task,
                  stale>>
  BY <1>1, TimeFacts
<1>3. TypeOK'
  BY <1>1, TimeType
<1>4. StageInv'
  BY <1>1, <1>2 DEF StageInv, Stage, InBatch, Rebuilding
<1>5. TaskInv' /\ TicketInv' /\ OrderInv'
  BY <1>1, <1>2 DEF TaskInv, TicketInv, OrderInv
<1>6. /\ Visible' = Visible /\ Above' = Above
      /\ \A S, c : Told(S, c) => Told(S, c)'
  BY <1>2 DEF Visible, Above, Told, Pending, Announces, Target
<1>7. \A c \in Accounts, b \in Buckets : ListOld(c, b)' => ListOld(c, b)
  BY <1>1, TimeOld DEF ListOld
<1>8. \A c \in Accounts : CopyOld(c)' => CopyOld(c)
  BY <1>1, TimeOld DEF CopyOld
<1>9. ListInv' /\ CopyInv'
  BY <1>1, <1>6, <1>7, <1>8 DEF ListInv, CopyInv
<1>10. \A w \in Workers, c \in Accounts, b \in Buckets :
          OldFor(w, c, b)' => OldFor(w, c, b)
  BY <1>1, <1>2, <1>7, TimeOld DEF OldFor, HasTicket
<1>11. \A w \in Workers :
          /\ InBatch(w)' = InBatch(w)
          /\ Unlisted(w)' = Unlisted(w) /\ Left(w)' = Left(w)
          /\ Rest(w)' = Rest(w)
          /\ \A b \in Buckets :
                Due(w, b)' = Due(w, b) /\ Heard(w, b)' = Heard(w, b)
  BY <1>2, <1>6 DEF InBatch, Unlisted, Left, Rest, Due, Heard
<1>12. BatchListInv'
  <2>1. SUFFICES ASSUME NEW w \in Pollers, NEW c \in Accounts,
                        NEW b \in Buckets, InBatch(w)', w \notin failed',
                        ~Due(w, b)', OldFor(w, c, b)'
                 PROVE  Told(Heard(w, b), c)'
    BY DEF BatchListInv
  <2>2. w \in Workers
    BY DEF Workers
  <2>3. InBatch(w) /\ w \notin failed /\ ~Due(w, b) /\ OldFor(w, c, b)
    BY <1>2, <1>10, <1>11, <2>1, <2>2
  <2>4. Told(Heard(w, b), c)
    BY <1>1, <2>3 DEF BatchListInv
  <2> QED
    BY <1>2, <1>11, <2>2, <2>4 DEF Told, Pending, Announces, Target, Visible
<1>13. BatchCopyInv'
  <2>1. SUFFICES ASSUME NEW w \in Pollers, NEW c \in Accounts,
                        InBatch(w)', w \notin failed'
                 PROVE  /\ CopyOld(c)' => Told(Unlisted(w) \cup Left(w), c)'
                        /\ pc'[w] = "set" /\ OldRead(w, c)' =>
                              Told(Unlisted(w) \cup Rest(w), c)'
    BY DEF BatchCopyInv
  <2>2. w \in Workers
    BY DEF Workers
  <2>3. InBatch(w) /\ w \notin failed
    BY <1>2, <1>11, <2>1, <2>2
  <2>4. /\ CopyOld(c) => Told(Unlisted(w) \cup Left(w), c)
        /\ pc[w] = "set" /\ OldRead(w, c) => Told(Unlisted(w) \cup Rest(w), c)
    BY <1>1, <2>3 DEF BatchCopyInv
  <2>5. OldRead(w, c)' => OldRead(w, c)
    BY <1>1, <2>2, TimeOld
  <2>6. ASSUME CopyOld(c)' PROVE Told(Unlisted(w) \cup Left(w), c)'
    <3>1. Told(Unlisted(w) \cup Left(w), c)
      BY <1>8, <2>4, <2>6
    <3> QED
      BY <1>2, <1>11, <2>2, <3>1 DEF Told, Pending, Announces, Target, Visible
  <2>7. ASSUME pc'[w] = "set", OldRead(w, c)'
        PROVE  Told(Unlisted(w) \cup Rest(w), c)'
    <3>1. Told(Unlisted(w) \cup Rest(w), c)
      BY <1>2, <2>4, <2>5, <2>7
    <3> QED
      BY <1>2, <1>11, <2>2, <3>1 DEF Told, Pending, Announces, Target, Visible
  <2> QED
    BY <2>6, <2>7
<1> QED
  BY <1>3, <1>4, <1>5, <1>9, <1>12, <1>13 DEF IInv

\* Every step keeps the invariant.
LEMMA Step ==
    ASSUME IInv, [Next]_vars
    PROVE  IInv'
<1>1. CASE [Act]_vars
  BY <1>1, TypeStep, StageStep, TaskStep, TicketStep, OrderStep, ListStep,
     CopyStep, BatchListStep, BatchCopyStep DEF IInv
<1>2. ASSUME NEW a \in Accounts, TimePasses(a) PROVE IInv'
  BY <1>2, TimeStep
<1> QED
  BY <1>1, <1>2 DEF Next

\* The invariant holds for any number of accounts, groups, instances,
\* requests and updates, whatever fails and dies.
THEOREM Invariance == Spec => []IInv
<1>1. Init => IInv
  BY InitIInv
<1>2. IInv /\ [Next]_vars => IInv'
  BY Step
<1> QED
  BY <1>1, <1>2, PTL DEF Spec

\* The variables have their types (the keys of scheduler_cache.go, the rows
\* of scheduler_outbox and the locals of pollOutbox and rebuildBucket).
THEOREM TypeCorrect == Spec => []TypeOK
<1>1. IInv => TypeOK
  BY DEF IInv
<1> QED
  BY <1>1, Invariance, PTL

\* When nothing is on its way, nothing is announced.
LEMMA QuietIs ==
    ASSUME TypeOK, Quiet, NEW a
    PROVE  ~Told(Above, a)
<1>1. ~Pending(a)
  BY DEF Quiet, Pending
<1>2. Above = {}
  <2>1. \A i \in Visible : i \in Nat
    BY DEF Visible
  <2>2. watermark \in Nat
    BY DEF TypeOK
  <2> QED
    BY <2>1, <2>2 DEF Above, Quiet
<1> QED
  BY <1>1, <1>2 DEF Told

\* pollOutbox with the rebuilds of its events (rebuildByAccount,
\* rebuildBucket) leaves every list as the database says when the outbox is
\* drained, up to the changes known to be overlooked, whatever polls, full
\* rebuilds, misses, failures and crashes interleave.
THEOREM Lists == Spec => []ListsFollowChanges
<1>1. ASSUME IInv, Quiet PROVE Wrong \subseteq doubt
  <2>1. SUFFICES ASSUME NEW p \in Wrong PROVE p \in doubt
    OBVIOUS
  <2>2. PICK a \in Accounts, b \in Buckets : p = <<a, b>>
    BY DEF Wrong
  <2>3. ~Told(Above, a)
    BY <1>1, QuietIs DEF IInv
  <2>4. ~OldList(a, b)
    BY <1>1, <2>3 DEF IInv, ListInv, ListOld
  <2> QED
    BY <2>2, <2>4 DEF OldList
<1>2. IInv => ListsFollowChanges
  BY <1>1 DEF ListsFollowChanges
<1> QED
  BY <1>2, Invariance, PTL

\* With the outbox drained every cached account is its row, up to the listed
\* ways of overlooking a change (handleAccountEvent,
\* syncSchedulerAccountSnapshot, writeAccounts).
THEOREM Copies == Spec => []CopiesFollowChanges
<1>1. ASSUME IInv, Quiet PROVE Outdated \subseteq stale
  <2>1. SUFFICES ASSUME NEW a \in Outdated PROVE a \in stale
    OBVIOUS
  <2>2. a \in Accounts
    BY DEF Outdated
  <2>3. ~Told(Above, a)
    BY <1>1, QuietIs DEF IInv
  <2>4. ~OldCopy(a)
    BY <1>1, <2>2, <2>3 DEF IInv, CopyInv, CopyOld
  <2> QED
    BY <2>4 DEF OldCopy
<1>2. IInv => CopiesFollowChanges
  BY <1>1 DEF CopiesFollowChanges
<1> QED
  BY <1>2, Invariance, PTL
=============================================================================
