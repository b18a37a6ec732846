-------------------------- MODULE BillingCacheProofs --------------------------
(***************************************************************************)
(* Proofs about BillingCache for any requests, workers, charges, credits   *)
(* and any length of the queue.  Two arguments carry them: a deduction is  *)
(* in one place only (the queue, a worker or a request), so that it is     *)
(* applied once; and whatever balance is on its way to the cache, like the *)
(* cached one, has every operation that is not still pending, overtaken or *)
(* failed.                                                                 *)
(***************************************************************************)
EXTENDS BillingCache, FiniteSetTheorems, TLAPS

Deduction(i) == [kind |-> "deduct", id |-> i]

\* A request has a task from its load or charge until the task is queued,
\* dropped or performed.
StageInv ==
    \A r \in Requests :
        /\ task[r] # Nil <=> pc[r] \in {"enqueue", "push", "direct"}
        /\ pc[r] = "direct" => task[r].kind = "deduct"

\* Charges are numbered as they are made.
NumberInv ==
    \E n \in 0 .. MaxCharges : row \cap Charges = 1 .. n

\* A deduction is in one place.
PlaceInv ==
    \A i \in Charges :
        /\ \A r, q \in Requests :
              task[r] = Deduction(i) /\ task[q] = Deduction(i) => r = q
        /\ \A w, v \in Workers :
              worker[w] = Deduction(i) /\ worker[v] = Deduction(i) => w = v
        /\ \A k, l \in DOMAIN queue :
              queue[k] = Deduction(i) /\ queue[l] = Deduction(i) => k = l
        /\ \A r \in Requests, w \in Workers :
              ~(task[r] = Deduction(i) /\ worker[w] = Deduction(i))
        /\ \A r \in Requests, k \in DOMAIN queue :
              ~(task[r] = Deduction(i) /\ queue[k] = Deduction(i))
        /\ \A w \in Workers, k \in DOMAIN queue :
              ~(worker[w] = Deduction(i) /\ queue[k] = Deduction(i))

\* What is on its way to the cache: a balance lacks nothing but what is
\* pending, overtaken or failed, and has early what is to be deducted; a
\* deduction is of a charge that was made.
HeldInv ==
    \A t \in Held \cap Tasks :
        /\ t.kind = "set" =>
              /\ t.read \subseteq row
              /\ row \subseteq t.read \cup Pending \cup overtaken \cup failed
              /\ t.read \cap Charges \cap Pending \subseteq early
        /\ t.kind = "deduct" => t.id \in row

\* The same of the cached balance, from which nothing pending was deducted.
CachedInv ==
    cached # Nil =>
        /\ cached.read \cup cached.taken \subseteq row
        /\ row \subseteq cached.read \cup cached.taken
                          \cup Pending \cup overtaken \cup failed
        /\ cached.again = {}
        /\ cached.taken \cap Pending = {}
        /\ cached.read \cap cached.taken \subseteq early
        /\ cached.read \cap Charges \cap Pending \subseteq early

\* A worker returns when the channel is closed and empty.
StopInv ==
    /\ done # {} => channel # "open" /\ queue = <<>>
    /\ \A w \in done : worker[w] = Nil
    /\ channel = "nil" => done = Workers

IInv ==
    /\ TypeOK
    /\ StageInv
    /\ NumberInv
    /\ PlaceInv
    /\ HeldInv
    /\ CachedInv
    /\ StopInv

-----------------------------------------------------------------------------
(* Tasks and balances *)

LEMMA DeductionIsTask ==
    ASSUME NEW i \in Charges
    PROVE  /\ Deduction(i) \in Tasks
           /\ Deduction(i).kind = "deduct"
           /\ Deduction(i).id = i
           /\ Deduction(i) # Nil
BY NilAssumption DEF Deduction, Tasks

LEMMA TaskIsDeduction ==
    ASSUME NEW t \in Tasks, t.kind = "deduct"
    PROVE  t.id \in Charges /\ t = Deduction(t.id)
BY DEF Deduction, Tasks

LEMMA SetIsTask ==
    ASSUME NEW read \in SUBSET Ops
    PROVE  /\ [kind |-> "set", read |-> read] \in Tasks
           /\ [kind |-> "set", read |-> read] # Nil
BY NilAssumption DEF Tasks

LEMMA TaskIsSet ==
    ASSUME NEW t \in Tasks, t.kind = "set"
    PROVE  t.read \in SUBSET Ops
BY DEF Tasks

LEMMA TaskKinds ==
    ASSUME NEW t \in Tasks
    PROVE  t # Nil /\ t.kind \in {"set", "deduct"}
BY NilAssumption DEF Tasks

LEMMA BalanceFields ==
    ASSUME NEW x \in Balances
    PROVE  /\ x # Nil
           /\ x.read \in SUBSET Ops
           /\ x.taken \in SUBSET Charges
           /\ x.again \in SUBSET Charges
BY NilAssumption DEF Balances

LEMMA FromRowIsBalance ==
    ASSUME NEW read \in SUBSET Ops
    PROVE  /\ FromRow(read) \in Balances
           /\ FromRow(read).read = read
           /\ FromRow(read).taken = {}
           /\ FromRow(read).again = {}
BY DEF FromRow, Balances

\* A deduction that the balance has not yet.
LEMMA DeductOnce ==
    ASSUME NEW i \in Charges, cached \in Balances, i \notin cached.taken,
           Deduct(i)
    PROVE  /\ cached' \in Balances
           /\ cached'.read = cached.read
           /\ cached'.taken = cached.taken \cup {i}
           /\ cached'.again = cached.again
<1>1. cached # Nil
  BY BalanceFields
<1>2. cached' = [cached EXCEPT !.taken = @ \cup {i}]
  BY <1>1 DEF Deduct
<1>3. QED
  BY <1>2 DEF Balances

LEMMA DeductType ==
    ASSUME NEW i \in Charges, cached \in Balances \cup {Nil}, Deduct(i)
    PROVE  cached' \in Balances \cup {Nil}
<1>1. CASE cached = Nil
  BY <1>1 DEF Deduct
<1>2. CASE cached # Nil /\ i \in cached.taken
  <2>1. cached \in Balances /\ cached' = [cached EXCEPT !.again = @ \cup {i}]
    BY <1>2 DEF Deduct
  <2>2. QED
    BY <2>1 DEF Balances
<1>3. CASE cached # Nil /\ i \notin cached.taken
  BY <1>3, DeductOnce
<1>4. QED
  BY <1>1, <1>2, <1>3

-----------------------------------------------------------------------------
(* Types and stages *)

\* What Push does: the task enters the queue and leaves the request, or the
\* request keeps it or drops a balance.
LEMMA PushIs ==
    ASSUME TypeOK, StageInv, NEW r \in Requests, Push(r)
    PROVE  /\ task[r] \in Tasks
           /\ worker' = worker
           /\ \/ /\ queue' = Append(queue, task[r])
                 /\ Len(queue) < QueueSize
                 /\ task' = [task EXCEPT ![r] = Nil]
              \/ /\ queue' = queue
                 /\ \/ task' = task
                    \/ task[r].kind = "set" /\ task' = [task EXCEPT ![r] = Nil]
BY DEF Push, Accepted, Rejected, Answer, TypeOK, StageInv

LEMMA TypeStep ==
    ASSUME TypeOK, StageInv, [Next]_vars PROVE TypeOK'
<1> USE ConstantsAssumption DEF TypeOK, StageInv, Goto, poolVars, noteVars
<1>1. ASSUME NEW r \in Requests, CheckHit(r)
      PROVE  TypeOK'
  BY <1>1, SMTT(30) DEF CheckHit, Decide
<1>2. ASSUME NEW r \in Requests, CheckMiss(r)
      PROVE  TypeOK'
  BY <1>2, SMTT(30) DEF CheckMiss, Fails
<1>3. ASSUME NEW r \in Requests, Load(r)
      PROVE  TypeOK'
  <2>1. [kind |-> "set", read |-> row] \in Tasks
    BY SetIsTask
  <2>2. task' \in [Requests -> Tasks \cup {Nil}]
    BY <1>3, <2>1 DEF Load
  <2>3. early' \in SUBSET Charges
    BY <1>3 DEF Load
  <2>4. pc' \in [Requests -> {"idle", "load", "enqueue", "push", "served",
                              "direct"}]
    BY <1>3 DEF Load, Decide
  <2>5. QED
    BY <1>3, <2>2, <2>3, <2>4 DEF Load
<1>4. ASSUME NEW r \in Requests, LoadFails(r)
      PROVE  TypeOK'
  BY <1>4, SMTT(30) DEF LoadFails, Fails
<1>5. ASSUME NEW r \in Requests, Enqueue(r)
      PROVE  TypeOK'
  BY <1>5, SMTT(30) DEF Enqueue, Rejected, Answer, Decide
<1>6. ASSUME NEW r \in Requests, Push(r)
      PROVE  TypeOK'
  <2>1. task[r] \in Tasks
    BY <1>6, PushIs
  <2>2. \/ queue' = queue
        \/ queue' = Append(queue, task[r]) /\ Len(queue) < QueueSize
    BY <1>6, PushIs
  <2>6. queue' \in Seq(Tasks) /\ Len(queue') <= QueueSize
    BY <2>1, <2>2
  <2>3. task' \in [Requests -> Tasks \cup {Nil}]
    BY <1>6 DEF Push, Accepted, Rejected, Answer
  <2>4. pc' \in [Requests -> {"idle", "load", "enqueue", "push", "served",
                              "direct"}]
    BY <1>6 DEF Push, Accepted, Rejected, Answer, Decide
  <2>5. QED
    BY <1>6, <2>3, <2>4, <2>6 DEF Push
<1>7. ASSUME NEW r \in Requests, PushPanics(r)
      PROVE  TypeOK'
  <2>1. task[r] \in Tasks
    BY <1>7 DEF PushPanics
  <2>2. failed' \in SUBSET Ops
    BY <1>7, <2>1, TaskIsDeduction DEF PushPanics, Ops
  <2>3. QED
    BY <1>7, <2>2 DEF PushPanics
<1>8. ASSUME NEW r \in Requests, Direct(r)
      PROVE  TypeOK'
  <2>1. task[r].id \in Charges
    BY <1>8, TaskIsDeduction DEF Direct
  <2>2. cached' \in Balances \cup {Nil}
    BY <1>8, <2>1, DeductType DEF Direct
  <2>3. overtaken' \in SUBSET Ops /\ failed' \in SUBSET Ops
    BY <1>8, <2>1 DEF Direct, Overtake, Ops
  <2>4. faults' \in 0 .. MaxFaults
    BY <1>8 DEF Direct, Fails
  <2>5. QED
    BY <1>8, <2>2, <2>3, <2>4 DEF Direct
<1>9. ASSUME NEW r \in Requests, NEW i \in Charges, Charge(r, i)
      PROVE  TypeOK'
  <2>1. [kind |-> "deduct", id |-> i] \in Tasks
    BY DEF Tasks
  <2>2. row' \in SUBSET Ops
    BY <1>9 DEF Charge, Ops
  <2>3. QED
    BY <1>9, <2>1, <2>2 DEF Charge
<1>10. ASSUME NEW r \in Requests, Free(r)
      PROVE  TypeOK'
  BY <1>10, SMTT(30) DEF Free
<1>11. ASSUME NEW w \in Workers, Receive(w)
      PROVE  TypeOK'
  <2>1. Head(queue) \in Tasks /\ Tail(queue) \in Seq(Tasks)
        /\ Len(Tail(queue)) <= QueueSize
    BY <1>11 DEF Receive
  <2>2. QED
    BY <1>11, <2>1 DEF Receive
<1>12. ASSUME NEW w \in Workers, Perform(w)
      PROVE  TypeOK'
  <2>1. worker[w] \in Tasks
    BY <1>12 DEF Perform
  <2>2. cached' \in Balances \cup {Nil}
    BY <1>12, <2>1, DeductType, TaskIsDeduction, TaskIsSet, FromRowIsBalance
    DEF Perform, SetBalance
  <2>3. overtaken' \in SUBSET Ops /\ failed' \in SUBSET Ops
    BY <1>12, <2>1, TaskIsDeduction DEF Perform, Overtake, Ops
  <2>4. faults' \in 0 .. MaxFaults
    BY <1>12 DEF Perform, Fails
  <2>5. QED
    BY <1>12, <2>2, <2>3, <2>4 DEF Perform
<1>13. ASSUME NEW w \in Workers, Return(w)
      PROVE  TypeOK'
  BY <1>13 DEF Return
<1>14. ASSUME NEW c \in Credits, Credit(c)
      PROVE  TypeOK'
  BY <1>14 DEF Credit, Ops
<1>15. ASSUME NEW c \in Credits, Invalidate(c)
      PROVE  TypeOK'
  <2>1. overtaken' \in SUBSET Ops /\ failed' \in SUBSET Ops
    BY <1>15 DEF Invalidate, Overtake, Ops
  <2>2. cached' \in Balances \cup {Nil} /\ faults' \in 0 .. MaxFaults
    BY <1>15 DEF Invalidate, DeleteKey, Fails
  <2>3. QED
    BY <1>15, <2>1, <2>2 DEF Invalidate
<1>16. CASE SetStopped \/ Close \/ Forget \/ Expire
  BY <1>16 DEF SetStopped, Close, Forget, Expire
<1>17. CASE UNCHANGED vars
  BY <1>17 DEF vars
<1>18. QED
  BY <1>1, <1>2, <1>3, <1>4, <1>5, <1>6, <1>7, <1>8, <1>9, <1>10, <1>11,
     <1>12, <1>13, <1>14, <1>15, <1>16, <1>17 DEF Next

LEMMA StageStep ==
    ASSUME TypeOK, StageInv, [Next]_vars PROVE StageInv'
<1> USE DEF TypeOK, StageInv, Goto, poolVars, noteVars
<1>1. ASSUME NEW r \in Requests, CheckHit(r) \/ CheckMiss(r)
      PROVE  StageInv'
  BY <1>1, SMTT(30) DEF CheckHit, CheckMiss, Decide
<1>2. ASSUME NEW r \in Requests, Load(r)
      PROVE  StageInv'
  BY <1>2, SetIsTask, SMTT(30) DEF Load, Decide
<1>3. ASSUME NEW r \in Requests, LoadFails(r) \/ Free(r)
      PROVE  StageInv'
  BY <1>3, SMTT(30) DEF LoadFails, Free
<1>4. ASSUME NEW r \in Requests, Enqueue(r)
      PROVE  StageInv'
  BY <1>4, SMTT(30) DEF Enqueue, Rejected, Answer, Decide
<1>5. ASSUME NEW r \in Requests, Push(r)
      PROVE  StageInv'
  BY <1>5, SMTT(30) DEF Push, Accepted, Rejected, Answer, Decide
<1>6. ASSUME NEW r \in Requests, PushPanics(r) \/ Direct(r)
      PROVE  StageInv'
  BY <1>6, SMTT(30) DEF PushPanics, Direct
<1>7. ASSUME NEW r \in Requests, NEW i \in Charges, Charge(r, i)
      PROVE  StageInv'
  <2>1. task' = [task EXCEPT ![r] = Deduction(i)] /\ Deduction(i) # Nil
    BY <1>7, DeductionIsTask DEF Charge, Deduction
  <2>2. QED
    BY <1>7, <2>1, SMTT(30) DEF Charge
<1>8. ASSUME NEW w \in Workers, Receive(w) \/ Perform(w) \/ Return(w)
      PROVE  StageInv'
  BY <1>8 DEF Receive, Perform, Return
<1>9. ASSUME NEW c \in Credits, Credit(c) \/ Invalidate(c)
      PROVE  StageInv'
  BY <1>9 DEF Credit, Invalidate
<1>10. CASE SetStopped \/ Close \/ Forget \/ Expire \/ UNCHANGED vars
  BY <1>10 DEF SetStopped, Close, Forget, Expire, vars
<1>11. QED
  BY <1>1, <1>2, <1>3, <1>4, <1>5, <1>6, <1>7, <1>8, <1>9, <1>10 DEF Next

\* The number of a charge is the next one.
LEMMA NumberOfCharge ==
    ASSUME NumberInv, NEW r \in Requests, NEW i \in Charges, Charge(r, i)
    PROVE  i \notin row
<1>1. PICK n \in 0 .. MaxCharges : row \cap Charges = 1 .. n
  BY DEF NumberInv
<1>2. n \in Int
  BY ConstantsAssumption
<1>3. Cardinality(1 .. n) = n
  BY <1>2, FS_Interval, ConstantsAssumption
<1>4. QED
  <2>1. Cardinality(row \cap Charges) = n
    BY <1>1, <1>3
  <2>2. i = n + 1
    BY <2>1 DEF Charge
  <2>3. QED
    BY <1>1, <1>2, <2>2

LEMMA NumberStep ==
    ASSUME TypeOK, NumberInv, [Next]_vars PROVE NumberInv'
<1>1. PICK n \in 0 .. MaxCharges : row \cap Charges = 1 .. n
  BY DEF NumberInv
<1>2. n \in Int /\ Cardinality(row \cap Charges) = n
  <2>1. n \in Int
    BY ConstantsAssumption
  <2>2. Cardinality(1 .. n) = n
    BY <2>1, FS_Interval, ConstantsAssumption
  <2>3. QED
    BY <1>1, <2>1, <2>2
<1>3. ASSUME NEW r \in Requests, NEW i \in Charges, Charge(r, i)
      PROVE  NumberInv'
  <2>1. i = n + 1 /\ row' = row \cup {i}
    BY <1>2, <1>3 DEF Charge
  <2>2. row' \cap Charges = 1 .. n + 1
    BY <1>1, <2>1 DEF Charges
  <2>3. n + 1 \in 0 .. MaxCharges
    BY <2>1, ConstantsAssumption DEF Charges
  <2>4. QED
    BY <2>2, <2>3 DEF NumberInv
<1>4. ASSUME NEW c \in Credits, Credit(c)
      PROVE  NumberInv'
  <2>1. row' = row \cup {c} /\ c \notin Charges
    BY <1>4, ConstantsAssumption DEF Credit, Charges
  <2>2. QED
    BY <1>1, <2>1 DEF NumberInv
<1>5. CASE row' = row
  BY <1>1, <1>5 DEF NumberInv
<1>6. QED
  BY <1>3, <1>4, <1>5
  DEF Next, CheckHit, CheckMiss, Load, LoadFails, Enqueue, Push, PushPanics,
      Direct, Free, Receive, Perform, Return, Invalidate, SetStopped, Close,
      Forget, Expire, vars

LEMMA StopStep ==
    ASSUME TypeOK, StopInv, [Next]_vars PROVE StopInv'
<1> USE ConstantsAssumption DEF TypeOK, StopInv, poolVars, noteVars
<1>1. ASSUME NEW r \in Requests, Push(r)
      PROVE  StopInv'
  BY <1>1 DEF Push
<1>2. ASSUME NEW w \in Workers, Receive(w)
      PROVE  StopInv'
  BY <1>2 DEF Receive
<1>3. ASSUME NEW w \in Workers, Perform(w)
      PROVE  StopInv'
  BY <1>3 DEF Perform
<1>4. ASSUME NEW w \in Workers, Return(w)
      PROVE  StopInv'
  BY <1>4 DEF Return, MayReturn
<1>5. CASE Close \/ Forget
  BY <1>5 DEF Close, Forget
<1>6. CASE UNCHANGED <<queue, channel, worker, done>>
  BY <1>6
<1>7. QED
  BY <1>1, <1>2, <1>3, <1>4, <1>5, <1>6
  DEF Next, CheckHit, CheckMiss, Load, LoadFails, Enqueue, PushPanics, Direct,
      Free, Charge, Credit, Invalidate, SetStopped, Expire, vars

-----------------------------------------------------------------------------
(* Where tasks are *)

LEMMA HeldIs ==
    ASSUME NEW t
    PROVE  /\ t \in Held <=> \/ \E k \in DOMAIN queue : queue[k] = t
                             \/ \E w \in Workers : worker[w] = t
                             \/ \E r \in Requests : task[r] = t
           /\ t \in Held' <=> \/ \E k \in DOMAIN queue' : queue'[k] = t
                              \/ \E w \in Workers : worker'[w] = t
                              \/ \E r \in Requests : task'[r] = t
BY DEF Held

LEMMA PendingIs ==
    ASSUME NEW i
    PROVE  /\ i \in Pending <=>
                \/ i \in Charges /\ Deduction(i) \in Held
                \/ i \in Credits /\ credit[i] = "delete"
           /\ i \in Pending' <=>
                \/ i \in Charges /\ Deduction(i) \in Held'
                \/ i \in Credits /\ credit'[i] = "delete"
BY DEF Pending, Deduction

\* The task of a request changes, and is not a deduction afterwards.
LEMMA TaskLeaves ==
    ASSUME TypeOK, PlaceInv, NEW r \in Requests, NEW x,
           \A i \in Charges : x # Deduction(i),
           task' = [task EXCEPT ![r] = x], UNCHANGED <<queue, worker>>
    PROVE  PlaceInv'
<1>1. \A q \in Requests : task'[q] = IF q = r THEN x ELSE task[q]
  BY DEF TypeOK
<1>2. QED
  BY <1>1 DEF PlaceInv

LEMMA TailIs ==
    ASSUME TypeOK, queue # <<>>
    PROVE  /\ 1 \in DOMAIN queue
           /\ Head(queue) = queue[1]
           /\ \A k \in DOMAIN Tail(queue) :
                 /\ k + 1 \in DOMAIN queue
                 /\ k + 1 # 1
                 /\ Tail(queue)[k] = queue[k + 1]
           /\ \A k \in DOMAIN queue : k = 1 \/ k - 1 \in DOMAIN Tail(queue)
           /\ \A k, l \in DOMAIN Tail(queue) : k + 1 = l + 1 => k = l
BY DEF TypeOK

LEMMA AppendIs ==
    ASSUME TypeOK, NEW x \in Tasks
    PROVE  /\ DOMAIN Append(queue, x) = DOMAIN queue \cup {Len(queue) + 1}
           /\ Len(queue) + 1 \notin DOMAIN queue
           /\ Append(queue, x)[Len(queue) + 1] = x
           /\ \A k \in DOMAIN queue : Append(queue, x)[k] = queue[k]
BY DEF TypeOK

LEMMA PlaceStep ==
    ASSUME TypeOK, StageInv, NumberInv, PlaceInv, HeldInv, [Next]_vars
    PROVE  PlaceInv'
<1> USE DEF poolVars, noteVars
<1>1. CASE UNCHANGED <<queue, worker, task>>
  BY <1>1 DEF PlaceInv
<1>2. ASSUME NEW r \in Requests, Load(r)
      PROVE  PlaceInv'
  <2>1. CASE task' = task
    BY <1>1, <1>2, <2>1 DEF Load
  <2>2. CASE task' = [task EXCEPT ![r] = [kind |-> "set", read |-> row]]
    <3>1. \A i \in Charges : [kind |-> "set", read |-> row] # Deduction(i)
      BY DEF Deduction
    <3>2. QED
      BY <1>2, <2>2, <3>1, TaskLeaves DEF Load
  <2>3. QED
    BY <1>2, <2>1, <2>2 DEF Load
<1>3. ASSUME NEW r \in Requests, Enqueue(r) \/ PushPanics(r) \/ Direct(r)
      PROVE  PlaceInv'
  <2>1. UNCHANGED <<queue, worker>>
        /\ (task' = task \/ task' = [task EXCEPT ![r] = Nil])
    BY <1>3 DEF Enqueue, Rejected, Answer, PushPanics, Direct
  <2>2. QED
    BY <1>1, <2>1, TaskLeaves, DeductionIsTask
<1>4. ASSUME NEW r \in Requests, Push(r)
      PROVE  PlaceInv'
  <2>1. CASE /\ UNCHANGED <<queue, worker>>
             /\ task' = task \/ task' = [task EXCEPT ![r] = Nil]
    BY <1>1, <2>1, TaskLeaves, DeductionIsTask
  <2>2. CASE /\ queue' = Append(queue, task[r])
             /\ task' = [task EXCEPT ![r] = Nil]
    <3>1. \A q \in Requests : task'[q] = IF q = r THEN Nil ELSE task[q]
      BY <2>2 DEF TypeOK
    <3>2. /\ DOMAIN queue' = DOMAIN queue \cup {Len(queue) + 1}
          /\ queue'[Len(queue) + 1] = task[r]
          /\ \A k \in DOMAIN queue : queue'[k] = queue[k]
      BY <1>4, <2>2, PushIs, AppendIs
    <3>3. worker' = worker
      BY <1>4, PushIs
    <3>4. QED
      BY <3>1, <3>2, <3>3, DeductionIsTask DEF PlaceInv
  <2>3. QED
    BY <1>4, <2>1, <2>2, PushIs
<1>5. ASSUME NEW r \in Requests, NEW i \in Charges, Charge(r, i)
      PROVE  PlaceInv'
  <2>1. i \notin row
    BY <1>5, NumberOfCharge
  <2>2. Deduction(i) \notin Held
    BY <2>1, DeductionIsTask DEF HeldInv
  <2>3. \A q \in Requests : task'[q] = IF q = r THEN Deduction(i) ELSE task[q]
    BY <1>5 DEF Charge, TypeOK, Deduction
  <2>4. UNCHANGED <<queue, worker>>
    BY <1>5 DEF Charge
  <2>5. \A j \in Charges : Deduction(j) = Deduction(i) => j = i
    BY DeductionIsTask
  <2>6. QED
    BY <2>2, <2>3, <2>4, <2>5, HeldIs DEF PlaceInv
<1>6. ASSUME NEW w \in Workers, Receive(w)
      PROVE  PlaceInv'
  <2>1. \A v \in Workers : worker'[v] = IF v = w THEN queue[1] ELSE worker[v]
    BY <1>6, TailIs DEF Receive, TypeOK
  <2>2. queue' = Tail(queue) /\ task' = task /\ queue # <<>>
    BY <1>6 DEF Receive
  <2>3. QED
    BY <2>1, <2>2, TailIs, SMTT(30) DEF PlaceInv
<1>7. ASSUME NEW w \in Workers, Perform(w)
      PROVE  PlaceInv'
  <2>1. \A v \in Workers : worker'[v] = IF v = w THEN Nil ELSE worker[v]
    BY <1>7 DEF Perform, TypeOK
  <2>2. UNCHANGED <<queue, task>>
    BY <1>7 DEF Perform
  <2>3. QED
    BY <2>1, <2>2, DeductionIsTask DEF PlaceInv
<1>8. QED
  BY <1>1, <1>2, <1>3, <1>4, <1>5, <1>6, <1>7
  DEF Next, CheckHit, CheckMiss, LoadFails, Free, Return, Credit, Invalidate,
      SetStopped, Close, Forget, Expire, vars

-----------------------------------------------------------------------------
(* What the cache has *)

\* Nothing new is on its way, the cache keeps its balance or is empty, and
\* what is no longer pending has failed.
LEMMA Kept ==
    ASSUME TypeOK, HeldInv, CachedInv,
           row' = row, overtaken' = overtaken, early' = early,
           failed \subseteq failed',
           cached' \in {cached, Nil},
           \A t \in Tasks : t \in Held' => t \in Held,
           Pending' \subseteq Pending, Pending \subseteq Pending' \cup failed'
    PROVE  HeldInv' /\ CachedInv'
<1>1. HeldInv'
  BY DEF HeldInv
<1>2. CachedInv'
  BY DEF CachedInv
<1>3. QED
  BY <1>1, <1>2

\* A pending deduction is applied.
LEMMA Deducted ==
    ASSUME TypeOK, HeldInv, CachedInv, NEW i \in Charges,
           Deduction(i) \in Held, Deduct(i), Overtake(i),
           UNCHANGED <<row, early, failed>>,
           \A t \in Tasks : t \in Held' => t \in Held,
           Pending' = Pending \ {i}
    PROVE  HeldInv' /\ CachedInv'
<1>1. i \in row /\ i \in Pending
  BY DeductionIsTask, PendingIs DEF HeldInv
<1>2. overtaken \subseteq overtaken'
  BY DEF Overtake
<1>3. \A t \in Held \cap Tasks :
          t.kind = "set" /\ i \notin t.read => i \in overtaken'
  BY TaskKinds DEF Overtake
<1>4. HeldInv'
  BY <1>2, <1>3 DEF HeldInv
<1>5. CachedInv'
  <2>1. CASE cached = Nil
    BY <2>1 DEF CachedInv, Deduct
  <2>2. CASE cached # Nil
    <3>1. cached \in Balances /\ i \notin cached.taken
      BY <1>1, <2>2 DEF TypeOK, CachedInv
    <3>2. /\ cached'.read = cached.read
          /\ cached'.taken = cached.taken \cup {i}
          /\ cached'.again = cached.again
      BY <3>1, DeductOnce
    <3>3. QED
      BY <1>1, <1>2, <2>2, <3>2 DEF CachedInv
  <2>3. QED
    BY <2>1, <2>2
<1>6. QED
  BY <1>4, <1>5

\* The place of a task that leaves: no other place has the deduction.
LEMMA Gone ==
    ASSUME TypeOK, PlaceInv, NEW r \in Requests, NEW i \in Charges,
           task[r] = Deduction(i), task' = [task EXCEPT ![r] = Nil],
           UNCHANGED <<queue, worker, credit>>
    PROVE  /\ Deduction(i) \in Held
           /\ \A t \in Tasks : t \in Held' => t \in Held
           /\ Pending' = Pending \ {i}
<1>1. \A q \in Requests : task'[q] = IF q = r THEN Nil ELSE task[q]
  BY DEF TypeOK
<1>2. Deduction(i) \in Held
  BY HeldIs
<1>3. \A t \in Tasks : t \in Held' => t \in Held
  BY <1>1, HeldIs, TaskKinds
<1>4. Deduction(i) \notin Held'
  BY <1>1, HeldIs, DeductionIsTask DEF PlaceInv
<1>5. \A j \in Charges : j # i /\ Deduction(j) \in Held => Deduction(j) \in Held'
  <2>1. \A j \in Charges : j # i => Deduction(j) # Deduction(i)
    BY DeductionIsTask
  <2>2. QED
    BY <1>1, <2>1, HeldIs
<1>6. \A j : j \in Pending' <=> j \in Pending /\ j # i
  <2>1. i \notin Credits
    BY ConstantsAssumption DEF Charges
  <2>2. QED
    BY <1>3, <1>4, <1>5, <2>1, PendingIs, DeductionIsTask
<1>7. QED
  BY <1>2, <1>3, <1>6

\* The same for a worker.
LEMMA WorkerGone ==
    ASSUME TypeOK, PlaceInv, NEW w \in Workers, NEW i \in Charges,
           worker[w] = Deduction(i), worker' = [worker EXCEPT ![w] = Nil],
           UNCHANGED <<queue, task, credit>>
    PROVE  /\ Deduction(i) \in Held
           /\ \A t \in Tasks : t \in Held' => t \in Held
           /\ Pending' = Pending \ {i}
<1>1. \A v \in Workers : worker'[v] = IF v = w THEN Nil ELSE worker[v]
  BY DEF TypeOK
<1>2. Deduction(i) \in Held
  BY HeldIs
<1>3. \A t \in Tasks : t \in Held' => t \in Held
  BY <1>1, HeldIs, TaskKinds
<1>4. Deduction(i) \notin Held'
  BY <1>1, HeldIs, DeductionIsTask DEF PlaceInv
<1>5. \A j \in Charges : j # i /\ Deduction(j) \in Held => Deduction(j) \in Held'
  <2>1. \A j \in Charges : j # i => Deduction(j) # Deduction(i)
    BY DeductionIsTask
  <2>2. QED
    BY <1>1, <2>1, HeldIs
<1>6. \A j : j \in Pending' <=> j \in Pending /\ j # i
  <2>1. i \notin Credits
    BY ConstantsAssumption DEF Charges
  <2>2. QED
    BY <1>3, <1>4, <1>5, <2>1, PendingIs, DeductionIsTask
<1>7. QED
  BY <1>2, <1>3, <1>6

\* A balance that leaves takes nothing pending with it.
LEMMA Dropped ==
    ASSUME TypeOK, NEW x \in Tasks, x.kind = "set", UNCHANGED credit,
           \A t \in Tasks : t \in Held' => t \in Held,
           \A t \in Tasks : t \in Held => t \in Held' \/ t = x
    PROVE  Pending' = Pending
<1>1. \A i \in Charges : Deduction(i) \in Tasks /\ Deduction(i) # x
  BY DeductionIsTask
<1>2. \A j : j \in Pending' <=> j \in Pending
  BY <1>1, PendingIs
<1>3. QED
  BY <1>2

\* Tasks and credits stay where they are, or a balance is dropped.
LEMMA Still ==
    ASSUME TypeOK, HeldInv, CachedInv,
           UNCHANGED <<row, credit, overtaken, early, queue, worker>>,
           failed \subseteq failed', cached' \in {cached, Nil},
           \/ task' = task
           \/ \E r \in Requests : /\ task[r] \in Tasks
                                  /\ task[r].kind = "set"
                                  /\ task' = [task EXCEPT ![r] = Nil]
    PROVE  HeldInv' /\ CachedInv'
<1>1. CASE task' = task
  <2>1. Held' = Held
    BY <1>1 DEF Held
  <2>2. Pending' = Pending
    BY <2>1 DEF Pending
  <2>3. QED
    BY <2>1, <2>2, Kept
<1>2. ASSUME NEW r \in Requests, task[r] \in Tasks, task[r].kind = "set",
             task' = [task EXCEPT ![r] = Nil]
      PROVE  HeldInv' /\ CachedInv'
  <2>1. \A q \in Requests : task'[q] = IF q = r THEN Nil ELSE task[q]
    BY <1>2 DEF TypeOK
  <2>2. \A t \in Tasks : t \in Held' => t \in Held
    BY <2>1, HeldIs, TaskKinds
  <2>3. \A t \in Tasks : t \in Held => t \in Held' \/ t = task[r]
    BY <2>1, HeldIs
  <2>4. Pending' = Pending
    BY <1>2, <2>2, <2>3, Dropped
  <2>5. QED
    BY <2>2, <2>4, Kept
<1>3. QED
  BY <1>1, <1>2

LEMMA LoadCounts ==
    ASSUME IInv, NEW r \in Requests, Load(r)
    PROVE  HeldInv' /\ CachedInv'
<1> USE DEF IInv, poolVars, noteVars
<1>1. CASE UNCHANGED <<task, early>>
  BY <1>1, Still DEF Load
<1>2. CASE /\ task' = [task EXCEPT ![r] = [kind |-> "set", read |-> row]]
           /\ early' = early \cup (row \cap Charges \cap Pending)
  <2> DEFINE x == [kind |-> "set", read |-> row]
  <2>1. x \in Tasks /\ x.kind = "set" /\ x.read = row
    BY SetIsTask DEF TypeOK
  <2>2. \A q \in Requests : task'[q] = IF q = r THEN x ELSE task[q]
    BY <1>2 DEF TypeOK
  <2>3. task[r] = Nil
    BY DEF Load, StageInv
  <2>4. \A t \in Tasks : t \in Held' => t \in Held \/ t = x
    BY <2>2, HeldIs DEF Load
  <2>5. \A t \in Tasks : t \in Held => t \in Held'
    BY <2>2, <2>3, HeldIs, TaskKinds DEF Load
  <2>6. \A j : j \in Pending' <=> j \in Pending
    <3>1. \A i \in Charges : Deduction(i) \in Tasks /\ Deduction(i) # x
      BY <2>1, DeductionIsTask
    <3>2. QED
      BY <2>4, <2>5, <3>1, PendingIs DEF Load
  <2>7. Pending' = Pending
    BY <2>6
  <2>8. UNCHANGED <<row, cached, overtaken, failed>>
    BY DEF Load
  <2> HIDE DEF x
  <2>9. HeldInv'
    <3>1. SUFFICES ASSUME NEW t \in Held' \cap Tasks
                   PROVE  /\ t.kind = "set" =>
                               /\ t.read \subseteq row'
                               /\ row' \subseteq t.read \cup Pending'
                                          \cup overtaken' \cup failed'
                               /\ t.read \cap Charges \cap Pending'
                                     \subseteq early'
                          /\ t.kind = "deduct" => t.id \in row'
      BY DEF HeldInv
    <3>2. CASE t \in Held
      BY <1>2, <2>7, <2>8, <3>2 DEF HeldInv
    <3>3. CASE t = x
      BY <1>2, <2>1, <2>7, <2>8, <3>3
    <3>4. QED
      BY <2>4, <3>2, <3>3
  <2>10. CachedInv'
    BY <1>2, <2>7, <2>8 DEF CachedInv
  <2>11. QED
    BY <2>9, <2>10
<1>3. QED
  BY <1>1, <1>2 DEF Load

LEMMA QueueCounts ==
    ASSUME IInv, NEW r \in Requests,
           Enqueue(r) \/ Push(r) \/ PushPanics(r) \/ Direct(r)
    PROVE  HeldInv' /\ CachedInv'
<1> USE DEF IInv, poolVars, noteVars
<1>1. CASE Enqueue(r)
  <2>1. task[r] \in Tasks
    BY <1>1 DEF Enqueue, StageInv, TypeOK
  <2>2. \/ task' = task
        \/ task[r].kind = "set" /\ task' = [task EXCEPT ![r] = Nil]
    BY <1>1 DEF Enqueue, Rejected, Answer
  <2>3. QED
    BY <1>1, <2>1, <2>2, Still DEF Enqueue
<1>2. CASE Push(r)
  <2>1. UNCHANGED <<row, cached, credit, overtaken, early, failed>>
    BY <1>2 DEF Push
  <2>2. CASE /\ queue' = queue
             /\ \/ task' = task
                \/ task[r].kind = "set" /\ task' = [task EXCEPT ![r] = Nil]
    BY <1>2, <2>1, <2>2, PushIs, Still
  <2>3. CASE /\ queue' = Append(queue, task[r])
             /\ task' = [task EXCEPT ![r] = Nil]
    <3>1. \A q \in Requests : task'[q] = IF q = r THEN Nil ELSE task[q]
      BY <2>3 DEF TypeOK
    <3>2. /\ task[r] \in Tasks /\ worker' = worker
          /\ DOMAIN queue' = DOMAIN queue \cup {Len(queue) + 1}
          /\ queue'[Len(queue) + 1] = task[r]
          /\ \A k \in DOMAIN queue : queue'[k] = queue[k]
      BY <1>2, <2>3, PushIs, AppendIs
    <3>3. \A t \in Tasks : t \in Held' <=> t \in Held
      BY <3>1, <3>2, HeldIs, TaskKinds
    <3>4. \A j : j \in Pending' <=> j \in Pending
      BY <2>1, <3>3, PendingIs, DeductionIsTask
    <3>5. QED
      BY <2>1, <3>3, <3>4, Kept
  <2>4. QED
    BY <1>2, <2>2, <2>3, PushIs
<1>3. CASE PushPanics(r)
  <2>1. task[r] \in Tasks
    BY <1>3 DEF PushPanics, StageInv, TypeOK
  <2>2. CASE task[r].kind = "set"
    BY <1>3, <2>1, <2>2, Still DEF PushPanics
  <2>3. CASE task[r].kind = "deduct"
    <3>1. task[r].id \in Charges /\ task[r] = Deduction(task[r].id)
      BY <2>1, <2>3, TaskIsDeduction
    <3>2. /\ \A t \in Tasks : t \in Held' => t \in Held
          /\ Pending' = Pending \ {task[r].id}
      BY <1>3, <3>1, Gone DEF PushPanics
    <3>3. failed' = failed \cup {task[r].id}
      BY <1>3, <2>3 DEF PushPanics
    <3>4. QED
      BY <1>3, <3>2, <3>3, Kept DEF PushPanics
  <2>4. QED
    BY <2>1, <2>2, <2>3, TaskKinds
<1>4. CASE Direct(r)
  <2>1. task[r] \in Tasks /\ task[r].kind = "deduct"
    BY <1>4 DEF Direct, StageInv, TypeOK
  <2>2. task[r].id \in Charges /\ task[r] = Deduction(task[r].id)
    BY <2>1, TaskIsDeduction
  <2>3. /\ Deduction(task[r].id) \in Held
        /\ \A t \in Tasks : t \in Held' => t \in Held
        /\ Pending' = Pending \ {task[r].id}
    BY <1>4, <2>2, Gone DEF Direct
  <2>4. CASE /\ Deduct(task[r].id) /\ Overtake(task[r].id)
             /\ UNCHANGED <<failed, faults>>
    BY <1>4, <2>2, <2>3, <2>4, Deducted DEF Direct
  <2>5. CASE /\ failed' = failed \cup {task[r].id}
             /\ UNCHANGED <<cached, overtaken>>
    BY <1>4, <2>3, <2>5, Kept DEF Direct
  <2>6. QED
    BY <1>4, <2>4, <2>5 DEF Direct
<1>5. QED
  BY <1>1, <1>2, <1>3, <1>4

LEMMA ChargeCounts ==
    ASSUME IInv, NEW r \in Requests, NEW i \in Charges, Charge(r, i)
    PROVE  HeldInv' /\ CachedInv'
<1> USE DEF IInv, poolVars, noteVars
<1>1. i \notin row /\ row' = row \cup {i}
  BY NumberOfCharge DEF Charge
<1>2. \A q \in Requests : task'[q] = IF q = r THEN Deduction(i) ELSE task[q]
  BY DEF Charge, TypeOK, Deduction
<1>3. task[r] = Nil
  BY DEF Charge, StageInv
<1>4. UNCHANGED <<cached, queue, worker, credit, overtaken, early, failed>>
  BY DEF Charge
<1>5. \A t \in Tasks : t \in Held' => t \in Held \/ t = Deduction(i)
  BY <1>2, <1>4, HeldIs
<1>6. \A t \in Tasks : t \in Held => t \in Held'
  BY <1>2, <1>3, <1>4, HeldIs, TaskKinds
<1>7. \A j : j \in Pending' <=> j \in Pending \/ j = i
  <2>1. Deduction(i) \in Held'
    BY <1>2, HeldIs
  <2>2. \A j \in Charges : Deduction(j) = Deduction(i) => j = i
    BY DeductionIsTask
  <2>3. QED
    BY <1>4, <1>5, <1>6, <2>1, <2>2, PendingIs, DeductionIsTask
<1>8. HeldInv'
  <2>1. SUFFICES ASSUME NEW t \in Held' \cap Tasks
                 PROVE  /\ t.kind = "set" =>
                             /\ t.read \subseteq row'
                             /\ row' \subseteq t.read \cup Pending'
                                        \cup overtaken' \cup failed'
                             /\ t.read \cap Charges \cap Pending'
                                   \subseteq early'
                        /\ t.kind = "deduct" => t.id \in row'
    BY DEF HeldInv
  <2>2. CASE t \in Held
    BY <1>1, <1>4, <1>7, <2>2 DEF HeldInv
  <2>3. CASE t = Deduction(i)
    BY <1>1, <2>3, DeductionIsTask
  <2>4. QED
    BY <1>5, <2>2, <2>3
<1>9. CachedInv'
  BY <1>1, <1>4, <1>7 DEF CachedInv
<1>10. QED
  BY <1>8, <1>9

LEMMA WorkerCounts ==
    ASSUME IInv, NEW w \in Workers, Receive(w) \/ Perform(w) \/ Return(w)
    PROVE  HeldInv' /\ CachedInv'
<1> USE DEF IInv, poolVars, noteVars
<1>1. CASE Receive(w)
  <2>1. \A v \in Workers : worker'[v] = IF v = w THEN queue[1] ELSE worker[v]
    BY <1>1, TailIs DEF Receive, TypeOK
  <2>2. /\ queue' = Tail(queue) /\ queue # <<>> /\ worker[w] = Nil
        /\ UNCHANGED <<row, cached, task, credit, overtaken, early, failed>>
    BY <1>1 DEF Receive
  <2>3. \A t \in Tasks : t \in Held' => t \in Held
    <3>1. ASSUME NEW k \in DOMAIN queue'
          PROVE  queue'[k] \in Held
      BY <2>2, <3>1, TailIs, HeldIs
    <3>2. ASSUME NEW v \in Workers
          PROVE  worker'[v] \in Held
      BY <2>1, <2>2, TailIs, HeldIs
    <3>3. QED
      BY <2>2, <3>1, <3>2, HeldIs
  <2>4. \A t \in Tasks : t \in Held => t \in Held'
    <3>1. ASSUME NEW k \in DOMAIN queue
          PROVE  queue[k] \in Held'
      <4>1. CASE k = 1
        BY <2>1, <4>1, HeldIs
      <4>2. CASE k # 1
        <5>1. /\ k - 1 \in DOMAIN Tail(queue)
              /\ Tail(queue)[k - 1] = queue[(k - 1) + 1]
          BY <2>2, <4>2, TailIs
        <5>2. (k - 1) + 1 = k
          BY DEF TypeOK
        <5>3. QED
          BY <2>2, <5>1, <5>2, HeldIs
      <4>3. QED
        BY <4>1, <4>2
    <3>2. ASSUME NEW v \in Workers, worker[v] \in Tasks
          PROVE  worker[v] \in Held'
      BY <2>1, <2>2, <3>2, HeldIs, TaskKinds
    <3>3. QED
      BY <2>2, <3>1, <3>2, HeldIs
  <2>5. \A j : j \in Pending' <=> j \in Pending
    BY <2>2, <2>3, <2>4, PendingIs, DeductionIsTask
  <2>6. QED
    BY <2>2, <2>3, <2>5, Kept
<1>2. CASE Perform(w)
  <2>1. /\ worker[w] \in Tasks
        /\ worker' = [worker EXCEPT ![w] = Nil]
        /\ UNCHANGED <<row, queue, task, credit, early>>
    BY <1>2 DEF Perform, TypeOK
  <2>2. CASE worker[w].kind = "set"
    <3> DEFINE x == worker[w]
    <3>1. x.read \in SUBSET Ops /\ UNCHANGED <<overtaken, failed>>
      BY <1>2, <2>1, <2>2, TaskIsSet DEF Perform
    <3>2. \A v \in Workers : worker'[v] = IF v = w THEN Nil ELSE worker[v]
      BY <2>1 DEF TypeOK
    <3>3. \A t \in Tasks : t \in Held' => t \in Held
      BY <2>1, <3>2, HeldIs, TaskKinds
    <3>4. \A t \in Tasks : t \in Held => t \in Held' \/ t = x
      BY <2>1, <3>2, HeldIs
    <3>5. Pending' = Pending
      BY <2>1, <2>2, <3>3, <3>4, Dropped
    <3>6. CASE cached' = cached
      BY <2>1, <3>1, <3>3, <3>5, <3>6, Kept
    <3>7. CASE cached' = FromRow(x.read)
      <4>1. HeldInv'
        BY <2>1, <3>1, <3>3, <3>5 DEF HeldInv
      <4>2. x \in Held \cap Tasks
        BY <2>1, HeldIs
      <4>3. CachedInv'
        BY <2>1, <2>2, <3>1, <3>5, <3>7, <4>2, FromRowIsBalance
        DEF HeldInv, CachedInv
      <4>4. QED
        BY <4>1, <4>3
    <3>8. QED
      BY <1>2, <2>2, <3>6, <3>7 DEF Perform, SetBalance
  <2>3. CASE worker[w].kind = "deduct"
    <3>1. worker[w].id \in Charges /\ worker[w] = Deduction(worker[w].id)
      BY <2>1, <2>3, TaskIsDeduction
    <3>2. /\ Deduction(worker[w].id) \in Held
          /\ \A t \in Tasks : t \in Held' => t \in Held
          /\ Pending' = Pending \ {worker[w].id}
      BY <2>1, <3>1, WorkerGone
    <3>3. CASE /\ Deduct(worker[w].id) /\ Overtake(worker[w].id)
               /\ UNCHANGED <<failed, faults>>
      BY <2>1, <3>1, <3>2, <3>3, Deducted
    <3>4. CASE /\ failed' = failed \cup {worker[w].id}
               /\ UNCHANGED <<cached, overtaken>>
      BY <2>1, <3>2, <3>4, Kept
    <3>5. QED
      BY <1>2, <2>3, <3>3, <3>4 DEF Perform
  <2>4. QED
    BY <2>1, <2>2, <2>3, TaskKinds
<1>3. CASE Return(w)
  BY <1>3, Still DEF Return
<1>4. QED
  BY <1>1, <1>2, <1>3

LEMMA CreditCounts ==
    ASSUME IInv, NEW c \in Credits, Credit(c) \/ Invalidate(c)
    PROVE  HeldInv' /\ CachedInv'
<1> USE DEF IInv, poolVars, noteVars
<1>1. c \notin Charges /\ UNCHANGED <<queue, worker, task, early>>
  BY ConstantsAssumption DEF Charges, Credit, Invalidate
<1>2. Held' = Held
  BY <1>1 DEF Held
<1>3. CASE Credit(c)
  <2>1. /\ row' = row \cup {c}
        /\ UNCHANGED <<cached, overtaken, failed>>
        /\ \A d \in Credits : credit'[d] = IF d = c THEN "delete" ELSE credit[d]
    BY <1>3 DEF Credit, TypeOK
  <2>2. \A j : j \in Pending' <=> j \in Pending \/ j = c
    BY <1>1, <1>2, <2>1, PendingIs
  <2>3. HeldInv'
    BY <1>1, <1>2, <2>1, <2>2 DEF HeldInv
  <2>4. CASE cached = Nil
    BY <2>1, <2>3, <2>4 DEF CachedInv
  <2>5. CASE cached # Nil
    <3>1. cached.taken \in SUBSET Charges
      BY <2>5, BalanceFields DEF TypeOK
    <3>2. CachedInv'
      BY <1>1, <2>1, <2>2, <2>5, <3>1 DEF CachedInv
    <3>3. QED
      BY <2>3, <3>2
  <2>6. QED
    BY <2>4, <2>5
<1>4. CASE Invalidate(c)
  <2>1. /\ row' = row
        /\ \A d \in Credits : credit'[d] = IF d = c THEN "end" ELSE credit[d]
    BY <1>4 DEF Invalidate, TypeOK
  <2>2. \A j : j \in Pending' <=> j \in Pending /\ j # c
    BY <1>1, <1>2, <2>1, PendingIs
  <2>3. CASE DeleteKey /\ Overtake(c) /\ UNCHANGED <<failed, faults>>
    <3>1. overtaken \subseteq overtaken'
      BY <2>3 DEF Overtake
    <3>2. \A t \in Held \cap Tasks :
              t.kind = "set" /\ c \notin t.read => c \in overtaken'
      BY <2>3, TaskKinds DEF Overtake
    <3>3. HeldInv'
      BY <1>1, <1>2, <2>1, <2>2, <2>3, <3>1, <3>2 DEF HeldInv
    <3>4. CachedInv'
      BY <2>3 DEF CachedInv, DeleteKey
    <3>5. QED
      BY <3>3, <3>4
  <2>4. CASE /\ failed' = failed \cup {c}
             /\ UNCHANGED <<cached, overtaken>>
    BY <1>1, <1>2, <2>1, <2>2, <2>4, Kept
  <2>5. QED
    BY <1>4, <2>3, <2>4 DEF Invalidate
<1>5. QED
  BY <1>3, <1>4

LEMMA CountStep ==
    ASSUME IInv, [Next]_vars PROVE HeldInv' /\ CachedInv'
<1> USE DEF IInv, poolVars, noteVars
<1>1. ASSUME NEW r \in Requests,
             CheckHit(r) \/ CheckMiss(r) \/ LoadFails(r) \/ Free(r)
      PROVE  HeldInv' /\ CachedInv'
  BY <1>1, Still DEF CheckHit, CheckMiss, LoadFails, Free
<1>2. CASE SetStopped \/ Close \/ Forget \/ Expire
  BY <1>2, Still DEF SetStopped, Close, Forget, Expire
<1>3. CASE UNCHANGED vars
  BY <1>3, Still DEF vars
<1>4. QED
  BY <1>1, <1>2, <1>3, LoadCounts, QueueCounts, ChargeCounts, WorkerCounts,
     CreditCounts
  DEF Next
-----------------------------------------------------------------------------
(* Theorems *)

\* The inductive invariant holds in every behaviour of the cache, its queue
\* and the stop of the service.
THEOREM Invariance == Spec => []IInv
<1>1. Init => IInv
  <2> SUFFICES ASSUME Init
               PROVE  IInv
    OBVIOUS
  <2>1. TypeOK
    <3>1. queue \in Seq(Tasks) /\ Len(queue) <= QueueSize
      BY ConstantsAssumption DEF Init
    <3>2. faults \in 0 .. MaxFaults
      BY ConstantsAssumption DEF Init
    <3>3. QED
      BY <3>1, <3>2 DEF Init, TypeOK
  <2>2. Held \cap Tasks = {}
    BY TaskKinds, HeldIs DEF Init
  <2>3. StageInv /\ PlaceInv /\ HeldInv /\ CachedInv
    BY <2>2, DeductionIsTask DEF Init, StageInv, PlaceInv, HeldInv, CachedInv
  <2>4. NumberInv
    <3>1. 0 \in 0 .. MaxCharges /\ 1 .. 0 = {}
      BY ConstantsAssumption
    <3>2. QED
      BY <3>1 DEF Init, NumberInv
  <2>5. StopInv
    BY ConstantsAssumption DEF Init, StopInv
  <2>6. QED
    BY <2>1, <2>3, <2>4, <2>5 DEF IInv
<1>2. IInv /\ [Next]_vars => IInv'
  BY TypeStep, StageStep, NumberStep, PlaceStep, StopStep, CountStep DEF IInv
<1>3. QED
  BY <1>1, <1>2, PTL DEF Spec

\* The variables have their types (cacheWriteTask, the channel and the key).
THEOREM TypeCorrect == Spec => []TypeOK
<1>1. IInv => TypeOK
  BY DEF IInv
<1>2. QED
  BY <1>1, Invariance, PTL

\* Every charge reaches the cached balance, unless its deduction is still to
\* come, failed, or was overtaken by a balance loaded before it.
THEOREM ChargesCounted == Spec => []ChargesAreCounted
<1>1. IInv => ChargesAreCounted
  BY DEF IInv, CachedInv, ChargesAreCounted
<1>2. QED
  BY <1>1, Invariance, PTL

\* Every credit is in the cached balance once its invalidation is over, with
\* the same exceptions.
THEOREM CreditsSeen == Spec => []CreditsAreSeen
<1>1. IInv => CreditsAreSeen
  <2> SUFFICES ASSUME IInv, cached # Nil
               PROVE  row \cap Credits \subseteq
                        cached.read \cup Pending \cup overtaken \cup failed
    BY DEF CreditsAreSeen
  <2>1. cached.taken \cap Credits = {}
    BY BalanceFields, ConstantsAssumption DEF IInv, TypeOK, Charges
  <2>2. QED
    BY <2>1 DEF IInv, CachedInv
<1>2. QED
  BY <1>1, Invariance, PTL

\* A deduction is applied once, whatever the queue, its workers and the
\* callers that fall back do.
THEOREM CountOnce == Spec => []CountedOnce
<1>1. IInv => CountedOnce
  BY DEF IInv, CachedInv, CountedOnce
<1>2. QED
  BY <1>1, Invariance, PTL

\* Stop returns when the channel is empty and no worker holds a task.
THEOREM StopIsClean == Spec => []StopLeavesNothing
<1>1. IInv => StopLeavesNothing
  BY ConstantsAssumption DEF IInv, StopInv, StopLeavesNothing
<1>2. QED
  BY <1>1, Invariance, PTL
=============================================================================
