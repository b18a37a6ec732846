----------------------------- MODULE BillingCache -----------------------------
(***************************************************************************)
(* The cached balance of a user (billing_cache_service.go,                 *)
(* billing_cache.go) on one instance.  A request is admitted by the        *)
(* balance in Redis; a miss reads the user's row and leaves the balance to *)
(* a queue that a pool of workers empties in any order.  A charge changes  *)
(* the row and queues a deduction, a credit changes the row and deletes    *)
(* the key, and the instance may be stopped meanwhile.  Every charge and   *)
(* every credit is an amount of 1 and is known by its name; the cached     *)
(* number is known by what has been counted in it.  The subscription's     *)
(* usage and the key's rate limits go through the same queue and are left  *)
(* out.                                                                    *)
(***************************************************************************)
EXTENDS Integers, Sequences, FiniteSets

CONSTANTS
    Requests,       \* goroutines that serve the user, a request each time
    Workers,        \* cacheWriteWorkerCount
    MaxCharges,     \* bound: charges
    Credits,        \* redemptions, promotions, transfers
    FirstBalance,   \* the balance at the start
    QueueSize,      \* cacheWriteBufferSize
    Nil,            \* no key, no task
    MaxFaults       \* bound: failing calls

ASSUME ConstantsAssumption ==
    /\ Workers # {}
    /\ MaxCharges \in Nat
    /\ Credits \cap Nat = {}
    /\ FirstBalance \in Int
    /\ QueueSize \in Nat
    /\ MaxFaults \in Nat

VARIABLES
    row,        \* users.balance: the charges and credits in it
    cached,     \* billing:balance:<user>
    queue,      \* cacheWriteChan
    channel,    \* it is open, closed or nil
    stopped,    \* Stop has begun
    worker,     \* the task of each worker
    done,       \* workers that have returned
    pc,         \* what each request does next
    task,       \* the task it puts into the queue
    credit,     \* what the goroutine of each credit does next
    overtaken,  \* history: counted while a balance without it was on its way
    early,      \* history: read in a row before they were deducted
    failed,     \* history: whose deduction or deletion failed
    faults      \* how many so far

poolVars == <<queue, channel, stopped, worker, done>>
noteVars == <<overtaken, early, failed>>
vars == <<row, cached, poolVars, pc, task, credit, noteVars, faults>>

Charges == 1 .. MaxCharges

Ops == Charges \cup Credits

\* A cached balance: the row it is from, and what was deducted from it, once
\* and more than once.
Balances == [read : SUBSET Ops, taken : SUBSET Charges,
             again : SUBSET Charges]

Tasks == [kind : {"set"}, read : SUBSET Ops]
         \cup [kind : {"deduct"}, id : Charges]

ASSUME NilAssumption == Nil \notin Balances \cup Tasks

TypeOK ==
    /\ row       \in SUBSET Ops
    /\ cached    \in Balances \cup {Nil}
    /\ queue     \in Seq(Tasks) /\ Len(queue) <= QueueSize
    /\ channel   \in {"open", "closed", "nil"}
    /\ stopped   \in BOOLEAN
    /\ worker    \in [Workers -> Tasks \cup {Nil}]
    /\ done      \in SUBSET Workers
    /\ pc        \in [Requests -> {"idle", "load", "enqueue", "push", "served",
                                   "direct"}]
    /\ task      \in [Requests -> Tasks \cup {Nil}]
    /\ credit    \in [Credits -> {"idle", "delete", "end"}]
    /\ overtaken \in SUBSET Ops
    /\ early     \in SUBSET Charges
    /\ failed    \in SUBSET Ops
    /\ faults    \in 0 .. MaxFaults

Init ==
    /\ row       = {}
    /\ cached    = Nil
    /\ queue     = <<>>
    /\ channel   = "open"
    /\ stopped   = FALSE
    /\ worker    = [w \in Workers |-> Nil]
    /\ done      = {}
    /\ pc        = [r \in Requests |-> "idle"]
    /\ task      = [r \in Requests |-> Nil]
    /\ credit    = [c \in Credits |-> "idle"]
    /\ overtaken = {}
    /\ early     = {}
    /\ failed    = {}
    /\ faults    = 0

-----------------------------------------------------------------------------

Amount(x) ==
    FirstBalance + Cardinality(x.read \cap Credits)
                 - Cardinality(x.read \cap Charges)
                 - Cardinality(x.taken) - Cardinality(x.again)

FromRow(read) == [read |-> read, taken |-> {}, again |-> {}]

Fails == faults < MaxFaults /\ faults' = faults + 1

Goto(r, next) == pc' = [pc EXCEPT ![r] = next]

\* checkBalanceEligibility: the request is served or refused.
Decide(r, x) == Goto(r, IF Amount(x) > 0 THEN "served" ELSE "idle")

\* Every task that somebody holds.
Held ==
    {queue[i] : i \in DOMAIN queue} \cup {worker[w] : w \in Workers}
    \cup {task[r] : r \in Requests}

\* Charges whose deduction, and credits whose deletion is still to come.
Pending ==
    {i \in Charges : [kind |-> "deduct", id |-> i] \in Held}
    \cup {c \in Credits : credit[c] = "delete"}

\* A balance that was read without this operation will be written after it.
Overtake(i) ==
    overtaken' =
        IF \E t \in Held : t # Nil /\ t.kind = "set" /\ i \notin t.read
        THEN overtaken \cup {i} ELSE overtaken

-----------------------------------------------------------------------------
(* The check of a request (GetUserBalance) *)

CheckHit(r) ==
    /\ pc[r] = "idle" /\ cached # Nil
    /\ Decide(r, cached)
    /\ UNCHANGED <<row, cached, poolVars, task, credit, noteVars, faults>>

\* The key is not there, or Redis fails.
CheckMiss(r) ==
    /\ pc[r] = "idle"
    /\ \/ cached = Nil /\ UNCHANGED faults
       \/ cached # Nil /\ Fails
    /\ Goto(r, "load")
    /\ UNCHANGED <<row, cached, poolVars, task, credit, noteVars>>

\* The request that the others wait for (balanceLoadSF).
Leads(q) == task[q] # Nil /\ task[q].kind = "set"

\* getUserBalanceFromDB; who comes while another one loads gets its balance.
Load(r) ==
    /\ pc[r] = "load"
    /\ \/ /\ \A q \in Requests : ~Leads(q)
          /\ task' = [task EXCEPT ![r] = [kind |-> "set", read |-> row]]
          /\ early' = early \cup (row \cap Charges \cap Pending)
          /\ Goto(r, "enqueue")
       \/ \E q \in Requests :
             /\ Leads(q)
             /\ Decide(r, FromRow(task[q].read))
             /\ UNCHANGED <<task, early>>
    /\ UNCHANGED <<row, cached, poolVars, credit, overtaken, failed, faults>>

\* The balance cannot be read: the request is refused.
LoadFails(r) ==
    /\ pc[r] = "load"
    /\ Fails
    /\ Goto(r, "idle")
    /\ UNCHANGED <<row, cached, poolVars, task, credit, noteVars>>

-----------------------------------------------------------------------------
(* The queue (enqueueCacheWrite, cacheWriteWorker) *)

\* A balance that is not queued is dropped, the request goes on with it.
Answer(r) ==
    /\ Decide(r, FromRow(task[r].read))
    /\ task' = [task EXCEPT ![r] = Nil]

Accepted(r) ==
    \/ task[r].kind = "set" /\ Answer(r)
    \/ /\ task[r].kind = "deduct"
       /\ Goto(r, "idle")
       /\ task' = [task EXCEPT ![r] = Nil]

\* Mutant of Rejected: a deduction is dropped as a balance is.
RejectedForGood(r) == Accepted(r)

\* QueueDeductBalance: a deduction is applied at once.
Rejected(r) ==
    \/ task[r].kind = "set" /\ Answer(r)
    \/ task[r].kind = "deduct" /\ Goto(r, "direct") /\ UNCHANGED task

\* The flag is read before the lock is taken.
Enqueue(r) ==
    /\ pc[r] = "enqueue"
    /\ IF stopped THEN Rejected(r) ELSE Goto(r, "push") /\ UNCHANGED task
    /\ UNCHANGED <<row, cached, poolVars, credit, noteVars, faults>>

Push(r) ==
    /\ pc[r] = "push"
    /\ channel # "closed"
    /\ IF channel = "open" /\ Len(queue) < QueueSize
          THEN queue' = Append(queue, task[r]) /\ Accepted(r)
          ELSE Rejected(r) /\ UNCHANGED queue
    /\ UNCHANGED <<row, cached, channel, stopped, worker, done, credit,
                   noteVars, faults>>

\* Sending on the channel that Stop has just closed panics; the request, or
\* the task of the usage pool, is given up.
PushPanics(r) ==
    /\ pc[r] = "push"
    /\ channel = "closed"
    /\ failed' = IF task[r].kind = "deduct"
                 THEN failed \cup {task[r].id} ELSE failed
    /\ task' = [task EXCEPT ![r] = Nil]
    /\ Goto(r, "idle")
    /\ UNCHANGED <<row, cached, poolVars, credit, overtaken, early, faults>>

Receive(w) ==
    /\ w \notin done
    /\ worker[w] = Nil
    /\ queue # <<>>
    /\ worker' = [worker EXCEPT ![w] = Head(queue)]
    /\ queue' = Tail(queue)
    /\ UNCHANGED <<row, cached, channel, stopped, done, pc, task, credit,
                   noteVars, faults>>

\* Mutant of SetBalance: what was deducted from the former balance is kept.
SetBalanceOnly(read) ==
    cached' = IF cached = Nil THEN FromRow(read)
                              ELSE [cached EXCEPT !.read = read]

\* SetUserBalance.
SetBalance(read) == cached' = FromRow(read)

\* deductBalanceScript: without the key nothing happens.
Deduct(i) ==
    cached' = IF cached = Nil THEN Nil
              ELSE IF i \in cached.taken
              THEN [cached EXCEPT !.again = @ \cup {i}]
              ELSE [cached EXCEPT !.taken = @ \cup {i}]

\* A task succeeds, or fails and is only logged.
Perform(w) ==
    /\ worker[w] # Nil
    /\ \/ /\ worker[w].kind = "set"
          /\ \/ SetBalance(worker[w].read) /\ UNCHANGED faults
             \/ Fails /\ UNCHANGED cached
          /\ UNCHANGED <<overtaken, failed>>
       \/ /\ worker[w].kind = "deduct"
          /\ \/ /\ Deduct(worker[w].id)
                /\ Overtake(worker[w].id)
                /\ UNCHANGED <<failed, faults>>
             \/ /\ Fails
                /\ failed' = failed \cup {worker[w].id}
                /\ UNCHANGED <<cached, overtaken>>
    /\ worker' = [worker EXCEPT ![w] = Nil]
    /\ UNCHANGED <<row, queue, channel, stopped, done, pc, task, credit,
                   early>>

\* DeductBalanceCache by the request itself.
Direct(r) ==
    /\ pc[r] = "direct"
    /\ \/ /\ Deduct(task[r].id)
          /\ Overtake(task[r].id)
          /\ UNCHANGED <<failed, faults>>
       \/ /\ Fails
          /\ failed' = failed \cup {task[r].id}
          /\ UNCHANGED <<cached, overtaken>>
    /\ task' = [task EXCEPT ![r] = Nil]
    /\ Goto(r, "idle")
    /\ UNCHANGED <<row, poolVars, credit, early>>

-----------------------------------------------------------------------------
(* Charges and credits *)

\* applyUsageBilling commits, then finalizePostUsageBilling queues.
Charge(r, i) ==
    /\ pc[r] = "served"
    /\ i = Cardinality(row \cap Charges) + 1
    /\ row' = row \cup {i}
    /\ task' = [task EXCEPT ![r] = [kind |-> "deduct", id |-> i]]
    /\ Goto(r, "enqueue")
    /\ UNCHANGED <<cached, poolVars, credit, noteVars, faults>>

\* A request that costs nothing, or fails, or dies before its charge.
Free(r) ==
    /\ pc[r] = "served"
    /\ Goto(r, "idle")
    /\ UNCHANGED <<row, cached, poolVars, task, credit, noteVars, faults>>

\* The redemption commits; a goroutine of its own will delete the key.
Credit(c) ==
    /\ credit[c] = "idle"
    /\ row' = row \cup {c}
    /\ credit' = [credit EXCEPT ![c] = "delete"]
    /\ UNCHANGED <<cached, poolVars, pc, task, noteVars, faults>>

\* Mutant of DeleteKey: only a balance that is used up is deleted.
DeleteEmpty ==
    cached' = IF cached # Nil /\ Amount(cached) > 0 THEN cached ELSE Nil

DeleteKey == cached' = Nil

\* InvalidateUserBalance fails, or the instance ends before it.
Invalidate(c) ==
    /\ credit[c] = "delete"
    /\ \/ DeleteKey /\ Overtake(c) /\ UNCHANGED <<failed, faults>>
       \/ /\ Fails
          /\ failed' = failed \cup {c}
          /\ UNCHANGED <<cached, overtaken>>
    /\ credit' = [credit EXCEPT ![c] = "end"]
    /\ UNCHANGED <<row, poolVars, pc, task, early>>

-----------------------------------------------------------------------------
(* Stop *)

SetStopped ==
    /\ ~stopped
    /\ stopped' = TRUE
    /\ UNCHANGED <<row, cached, queue, channel, worker, done, pc, task, credit,
                   noteVars, faults>>

Close ==
    /\ stopped /\ channel = "open"
    /\ channel' = "closed"
    /\ UNCHANGED <<row, cached, queue, stopped, worker, done, pc, task, credit,
                   noteVars, faults>>

\* Mutant of MayReturn: a worker leaves the rest of a closed channel.
MayReturnEarly(w) == channel = "closed" /\ worker[w] = Nil

\* A worker's range over the channel ends when it is closed and empty.
MayReturn(w) == channel = "closed" /\ worker[w] = Nil /\ queue = <<>>

Return(w) ==
    /\ w \notin done
    /\ MayReturn(w)
    /\ done' = done \cup {w}
    /\ UNCHANGED <<row, cached, queue, channel, stopped, worker, pc, task,
                   credit, noteVars, faults>>

\* cacheWriteWg.Wait is over.
Forget ==
    /\ channel = "closed" /\ done = Workers
    /\ channel' = "nil"
    /\ UNCHANGED <<row, cached, queue, stopped, worker, done, pc, task, credit,
                   noteVars, faults>>

\* The key's time to live is over.
Expire ==
    /\ cached # Nil
    /\ cached' = Nil
    /\ UNCHANGED <<row, poolVars, pc, task, credit, noteVars, faults>>

-----------------------------------------------------------------------------

Next ==
    \/ \E r \in Requests :
          \/ CheckHit(r) \/ CheckMiss(r) \/ Load(r) \/ LoadFails(r)
          \/ Enqueue(r) \/ Push(r) \/ PushPanics(r) \/ Direct(r) \/ Free(r)
          \/ \E i \in Charges : Charge(r, i)
    \/ \E w \in Workers : Receive(w) \/ Perform(w) \/ Return(w)
    \/ \E c \in Credits : Credit(c) \/ Invalidate(c)
    \/ SetStopped \/ Close \/ Forget \/ Expire

Spec == Init /\ [][Next]_vars

-----------------------------------------------------------------------------
(* Properties *)

\* The cached balance counts every charge of the row, but for those whose
\* deduction is still to come or has failed, and those that were deducted
\* while a balance from before them was on its way to the cache.
ChargesAreCounted ==
    cached # Nil =>
        row \cap Charges \subseteq
            cached.read \cup cached.taken
            \cup Pending \cup overtaken \cup failed

\* And every credit, in the same way.
CreditsAreSeen ==
    cached # Nil =>
        row \cap Credits \subseteq
            cached.read \cup Pending \cup overtaken \cup failed

\* No charge that has not been made is counted, and none is counted twice, but
\* for those that were read in the row before they were deducted.
CountedOnce ==
    cached # Nil =>
        /\ cached.read \cup cached.taken \subseteq row
        /\ cached.again = {}
        /\ cached.read \cap cached.taken \subseteq early

\* Stop waits for every task: when it has come to its end, no task is left in
\* the channel that nobody reads any more.
StopLeavesNothing ==
    channel = "nil" =>
        queue = <<>> /\ \A w \in Workers : worker[w] = Nil
=============================================================================
