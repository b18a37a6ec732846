-------------------------- MODULE IdempotencyProofs --------------------------
(***************************************************************************)
(* Proofs about Idempotency for any number of requests and payloads and    *)
(* any time limits.  Nothing renews a lock or an expiry, so whether two    *)
(* requests exclude each other is a matter of clock readings: IInv relates *)
(* the row's times to the readings of the request that owns it, and to     *)
(* what the requests that mean to reclaim it have read.                    *)
(***************************************************************************)
EXTENDS Idempotency, TLAPS

\* Nobody's start lies in the future, and whoever is still claiming the row
\* would set a lock that lies there.
ClockInv ==
    /\ \A r \in Requests : started[r] <= now
    /\ late = {} => \A r \in Requests :
                       pc[r] \in Claiming =>
                          now < LockedUntil(r) /\ now < ExpiresAt(r)

\* The row that a request claimed is of its payload, and a stored body too.
PayloadInv ==
    /\ status = "succeeded" => body \in {rowFp, "truncated"}
    /\ \A r \in Requests :
          /\ pc[r] \in Owning \cup {"reclaimExpired", "reclaimFailed"}
          /\ rowId = id[r]
          => rowFp = fp[r]

\* The row is as its owner left it, and has not expired.
OwnerInv ==
    InTime => \A r \in Requests : pc[r] \in Owning =>
                    /\ rowId = id[r]
                    /\ status = "processing"
                    /\ expires = ExpiresAt(r)
                    /\ now < ExpiresAt(r)

\* A processing row that can still be reclaimed by a request which saw it
\* expired is that expired row: a claim since then would have locked it past
\* the request's start.
SeenInv ==
    InTime => \A r \in Requests :
        /\ pc[r] = "reclaimExpired"
        /\ status = "processing"
        /\ Reclaimable(r, seen[r])
        => expires <= started[r]

\* Before the first effect nobody has seen a success.
NoEffectYet ==
    firstLives = 0 =>
        /\ status # "succeeded"
        /\ \A r \in Requests :
              /\ pc[r] # "markSucceeded"
              /\ pc[r] = "reclaimExpired" => seen[r] # "succeeded"

\* While the first effect's record lives, it is in the row and nobody can take
\* the row over.
FirstInv ==
    InTime /\ now < firstLives =>
        /\ rowId # 0
        /\ status \in {"processing", "succeeded"}
        /\ expires = firstLives
        /\ \A r \in Requests :
              /\ pc[r] \notin {"execute", "markFailed"}
              /\ pc[r] = "reclaimExpired" => seen[r] # "succeeded"

IInv ==
    /\ TypeOK
    /\ ClockInv
    /\ PayloadInv
    /\ OwnerInv
    /\ SeenInv
    /\ OneExecution
    /\ NoEffectYet
    /\ FirstInv
    /\ EffectOnce

-----------------------------------------------------------------------------
\* A status leads to an answer or to a reclaim.
LEMMA ByStatusAnswers ==
    ASSUME NEW r \in Requests
    PROVE  ByStatus(r) \in {"unavailable", "replayed", "in_progress", "backoff",
                           "reclaimFailed"}
BY DEF ByStatus

-----------------------------------------------------------------------------
\* Every step keeps the types.
LEMMA TypeStep ==
    ASSUME IInv, [Next]_vars PROVE TypeOK'
<1> USE ByStatusAnswers, ConstantsAssumption
        DEF IInv, TypeOK, InTime, Statuses, Answers, Claiming,
        Owning, PCs, rowVars, Goto, LockedUntil, ExpiresAt, requestVars,
        historyVars
<1>1. ASSUME NEW r \in Requests, Start(r)
      PROVE  TypeOK'
  BY <1>1, SMTT(30) DEF Start
<1>2. ASSUME NEW r \in Requests, CreateProcessing(r)
      PROVE  TypeOK'
  BY <1>2, SMTT(30) DEF CreateProcessing
<1>3. ASSUME NEW r \in Requests, GetExisting(r)
      PROVE  TypeOK'
  BY <1>3, SMTT(30) DEF GetExisting, SameRequest, Remember
<1>4. ASSUME NEW r \in Requests, GetLatest(r)
      PROVE  TypeOK'
  BY <1>4, SMTT(30) DEF GetLatest, SameRequest, Remember
<1>5. ASSUME NEW r \in Requests, TryReclaimExpired(r)
      PROVE  TypeOK'
  BY <1>5, SMTT(30) DEF TryReclaimExpired, Reclaim, Reclaimable
<1>6. ASSUME NEW r \in Requests, TryReclaimFailed(r)
      PROVE  TypeOK'
  BY <1>6, SMTT(30) DEF TryReclaimFailed, Reclaim, Reclaimable
<1>7. ASSUME NEW r \in Requests, ExecuteSucceeds(r)
      PROVE  TypeOK'
  BY <1>7, SMTT(30) DEF ExecuteSucceeds
<1>8. ASSUME NEW r \in Requests, ExecuteFails(r)
      PROVE  TypeOK'
  BY <1>8, SMTT(30) DEF ExecuteFails
<1>9. ASSUME NEW r \in Requests, Abort(r)
      PROVE  TypeOK'
  BY <1>9, SMTT(30) DEF Abort
<1>10. ASSUME NEW r \in Requests, MarkSucceeded(r)
      PROVE  TypeOK'
  BY <1>10, SMTT(30) DEF MarkSucceeded
<1>11. ASSUME NEW r \in Requests, MarkFailedRetryable(r)
      PROVE  TypeOK'
  BY <1>11, SMTT(30) DEF MarkFailedRetryable
<1>12. ASSUME DeleteExpired
      PROVE  TypeOK'
  <2>1. rowId \in Nat /\ swept \in SUBSET Nat
    OBVIOUS
  <2>2. swept' \in SUBSET Nat
    <3>1. CASE swept' = swept
      BY <2>1, <3>1
    <3>2. CASE swept' = swept \cup (IF expires > now THEN {rowId} ELSE {})
      <4>1. CASE expires > now
        BY <2>1, <3>2, <4>1
      <4>2. CASE ~(expires > now)
        BY <2>1, <3>2, <4>2
      <4> QED
        BY <4>1, <4>2
    <3> QED
      BY <1>12, <3>1, <3>2 DEF DeleteExpired
  <2> QED
    BY <1>12, <2>2, SMTT(30) DEF DeleteExpired
<1>13. ASSUME Tick
      PROVE  TypeOK'
  BY <1>13, SMTT(30) DEF Tick, Late
<1>14. ASSUME PickExpired
      PROVE  TypeOK'
  BY <1>14, SMTT(30) DEF PickExpired
<1>15. CASE UNCHANGED vars
  BY <1>15, SMTT(30) DEF vars
<1> QED
  BY <1>1, <1>2, <1>3, <1>4, <1>5, <1>6, <1>7, <1>8, <1>9, <1>10, <1>11,
       <1>12, <1>13, <1>14, <1>15 DEF Next, Step

-----------------------------------------------------------------------------
\* A clock that passes a claiming request's limit makes it late.
LEMMA ClockStep ==
    ASSUME IInv, [Next]_vars PROVE ClockInv'
<1> USE ByStatusAnswers, ConstantsAssumption
        DEF IInv, TypeOK, InTime, ClockInv, Statuses, Answers,
        Claiming, Owning, PCs, rowVars, Goto, LockedUntil, ExpiresAt,
        requestVars, historyVars
<1>1. ASSUME NEW r \in Requests, Start(r)
      PROVE  ClockInv'
  BY <1>1, SMTT(30) DEF Start
<1>2. ASSUME NEW r \in Requests, CreateProcessing(r)
      PROVE  ClockInv'
  BY <1>2, SMTT(30) DEF CreateProcessing
<1>3. ASSUME NEW r \in Requests, GetExisting(r)
      PROVE  ClockInv'
  BY <1>3, SMTT(30) DEF GetExisting, SameRequest, Remember
<1>4. ASSUME NEW r \in Requests, GetLatest(r)
      PROVE  ClockInv'
  BY <1>4, SMTT(30) DEF GetLatest, SameRequest, Remember
<1>5. ASSUME NEW r \in Requests, TryReclaimExpired(r)
      PROVE  ClockInv'
  BY <1>5, SMTT(30) DEF TryReclaimExpired, Reclaim, Reclaimable
<1>6. ASSUME NEW r \in Requests, TryReclaimFailed(r)
      PROVE  ClockInv'
  BY <1>6, SMTT(30) DEF TryReclaimFailed, Reclaim, Reclaimable
<1>7. ASSUME NEW r \in Requests, ExecuteSucceeds(r)
      PROVE  ClockInv'
  BY <1>7, SMTT(30) DEF ExecuteSucceeds
<1>8. ASSUME NEW r \in Requests, ExecuteFails(r)
      PROVE  ClockInv'
  BY <1>8, SMTT(30) DEF ExecuteFails
<1>9. ASSUME NEW r \in Requests, Abort(r)
      PROVE  ClockInv'
  BY <1>9, SMTT(30) DEF Abort
<1>10. ASSUME NEW r \in Requests, MarkSucceeded(r)
      PROVE  ClockInv'
  BY <1>10, SMTT(30) DEF MarkSucceeded
<1>11. ASSUME NEW r \in Requests, MarkFailedRetryable(r)
      PROVE  ClockInv'
  BY <1>11, SMTT(30) DEF MarkFailedRetryable
<1>12. ASSUME DeleteExpired
      PROVE  ClockInv'
  BY <1>12, SMTT(30) DEF DeleteExpired
<1>13. ASSUME Tick
      PROVE  ClockInv'
  BY <1>13, SMTT(30) DEF Tick, Late
<1>14. ASSUME PickExpired
      PROVE  ClockInv'
  BY <1>14, SMTT(30) DEF PickExpired
<1>15. CASE UNCHANGED vars
  BY <1>15, SMTT(30) DEF vars
<1> QED
  BY <1>1, <1>2, <1>3, <1>4, <1>5, <1>6, <1>7, <1>8, <1>9, <1>10, <1>11,
       <1>12, <1>13, <1>14, <1>15 DEF Next, Step

-----------------------------------------------------------------------------
\* A row keeps its payload, and a new row has a new id.
LEMMA PayloadStep ==
    ASSUME IInv, [Next]_vars PROVE PayloadInv'
<1> USE ByStatusAnswers, ConstantsAssumption
        DEF IInv, TypeOK, InTime, PayloadInv, Statuses, Answers,
        Claiming, Owning, PCs, rowVars, Goto, LockedUntil, ExpiresAt,
        requestVars, historyVars
<1>1. ASSUME NEW r \in Requests, Start(r)
      PROVE  PayloadInv'
  BY <1>1, SMTT(30) DEF Start
<1>2. ASSUME NEW r \in Requests, CreateProcessing(r)
      PROVE  PayloadInv'
  BY <1>2, SMTT(30) DEF CreateProcessing
<1>3. ASSUME NEW r \in Requests, GetExisting(r)
      PROVE  PayloadInv'
  BY <1>3, SMTT(30) DEF GetExisting, SameRequest, Remember
<1>4. ASSUME NEW r \in Requests, GetLatest(r)
      PROVE  PayloadInv'
  BY <1>4, SMTT(30) DEF GetLatest, SameRequest, Remember
<1>5. ASSUME NEW r \in Requests, TryReclaimExpired(r)
      PROVE  PayloadInv'
  BY <1>5, SMTT(30) DEF TryReclaimExpired, Reclaim, Reclaimable
<1>6. ASSUME NEW r \in Requests, TryReclaimFailed(r)
      PROVE  PayloadInv'
  BY <1>6, SMTT(30) DEF TryReclaimFailed, Reclaim, Reclaimable
<1>7. ASSUME NEW r \in Requests, ExecuteSucceeds(r)
      PROVE  PayloadInv'
  BY <1>7, SMTT(30) DEF ExecuteSucceeds
<1>8. ASSUME NEW r \in Requests, ExecuteFails(r)
      PROVE  PayloadInv'
  BY <1>8, SMTT(30) DEF ExecuteFails
<1>9. ASSUME NEW r \in Requests, Abort(r)
      PROVE  PayloadInv'
  BY <1>9, SMTT(30) DEF Abort
<1>10. ASSUME NEW r \in Requests, MarkSucceeded(r)
      PROVE  PayloadInv'
  BY <1>10, SMTT(30) DEF MarkSucceeded
<1>11. ASSUME NEW r \in Requests, MarkFailedRetryable(r)
      PROVE  PayloadInv'
  BY <1>11, SMTT(30) DEF MarkFailedRetryable
<1>12. ASSUME DeleteExpired
      PROVE  PayloadInv'
  BY <1>12, SMTT(30) DEF DeleteExpired
<1>13. ASSUME Tick
      PROVE  PayloadInv'
  BY <1>13, SMTT(30) DEF Tick, Late
<1>14. ASSUME PickExpired
      PROVE  PayloadInv'
  BY <1>14, SMTT(30) DEF PickExpired
<1>15. CASE UNCHANGED vars
  BY <1>15, SMTT(30) DEF vars
<1> QED
  BY <1>1, <1>2, <1>3, <1>4, <1>5, <1>6, <1>7, <1>8, <1>9, <1>10, <1>11,
       <1>12, <1>13, <1>14, <1>15 DEF Next, Step

-----------------------------------------------------------------------------
\* Nobody takes the row from an owner that is in time, the clean-up included.
LEMMA OwnerStep ==
    ASSUME IInv, [Next]_vars PROVE OwnerInv'
<1> USE ByStatusAnswers, ConstantsAssumption
        DEF IInv, TypeOK, InTime, OwnerInv, OneExecution,
        SeenInv, ClockInv, Statuses, Answers, Claiming, Owning, PCs,
        rowVars, Goto, LockedUntil, ExpiresAt, requestVars, historyVars
<1>1. ASSUME NEW r \in Requests, Start(r)
      PROVE  OwnerInv'
  BY <1>1, SMTT(30) DEF Start
<1>2. ASSUME NEW r \in Requests, CreateProcessing(r)
      PROVE  OwnerInv'
  BY <1>2, SMTT(30) DEF CreateProcessing
<1>3. ASSUME NEW r \in Requests, GetExisting(r)
      PROVE  OwnerInv'
  BY <1>3, SMTT(30) DEF GetExisting, SameRequest, Remember
<1>4. ASSUME NEW r \in Requests, GetLatest(r)
      PROVE  OwnerInv'
  BY <1>4, SMTT(30) DEF GetLatest, SameRequest, Remember
<1>5. ASSUME NEW r \in Requests, TryReclaimExpired(r)
      PROVE  OwnerInv'
  BY <1>5, SMTT(30) DEF TryReclaimExpired, Reclaim, Reclaimable
<1>6. ASSUME NEW r \in Requests, TryReclaimFailed(r)
      PROVE  OwnerInv'
  BY <1>6, SMTT(30) DEF TryReclaimFailed, Reclaim, Reclaimable
<1>7. ASSUME NEW r \in Requests, ExecuteSucceeds(r)
      PROVE  OwnerInv'
  BY <1>7, SMTT(30) DEF ExecuteSucceeds
<1>8. ASSUME NEW r \in Requests, ExecuteFails(r)
      PROVE  OwnerInv'
  BY <1>8, SMTT(30) DEF ExecuteFails
<1>9. ASSUME NEW r \in Requests, Abort(r)
      PROVE  OwnerInv'
  BY <1>9, SMTT(30) DEF Abort
<1>10. ASSUME NEW r \in Requests, MarkSucceeded(r)
      PROVE  OwnerInv'
  BY <1>10, SMTT(30) DEF MarkSucceeded
<1>11. ASSUME NEW r \in Requests, MarkFailedRetryable(r)
      PROVE  OwnerInv'
  BY <1>11, SMTT(30) DEF MarkFailedRetryable
<1>12. ASSUME DeleteExpired
      PROVE  OwnerInv'
  BY <1>12, SMTT(30) DEF DeleteExpired
<1>13. ASSUME Tick
      PROVE  OwnerInv'
  BY <1>13, SMTT(30) DEF Tick, Late
<1>14. ASSUME PickExpired
      PROVE  OwnerInv'
  BY <1>14, SMTT(30) DEF PickExpired
<1>15. CASE UNCHANGED vars
  BY <1>15, SMTT(30) DEF vars
<1> QED
  BY <1>1, <1>2, <1>3, <1>4, <1>5, <1>6, <1>7, <1>8, <1>9, <1>10, <1>11,
       <1>12, <1>13, <1>14, <1>15 DEF Next, Step

-----------------------------------------------------------------------------
\* A claim locks the row past the start of everybody who has read it before.
LEMMA SeenStep ==
    ASSUME IInv, [Next]_vars PROVE SeenInv'
<1> USE ByStatusAnswers, ConstantsAssumption
        DEF IInv, TypeOK, InTime, SeenInv, OwnerInv, ClockInv,
        Reclaimable, Statuses, Answers, Claiming, Owning, PCs, rowVars,
        Goto, LockedUntil, ExpiresAt, requestVars, historyVars
<1>1. ASSUME NEW r \in Requests, Start(r)
      PROVE  SeenInv'
  BY <1>1, SMTT(30) DEF Start
<1>2. ASSUME NEW r \in Requests, CreateProcessing(r)
      PROVE  SeenInv'
  BY <1>2, SMTT(30) DEF CreateProcessing
<1>3. ASSUME NEW r \in Requests, GetExisting(r)
      PROVE  SeenInv'
  BY <1>3, SMTT(30) DEF GetExisting, SameRequest, Remember
<1>4. ASSUME NEW r \in Requests, GetLatest(r)
      PROVE  SeenInv'
  BY <1>4, SMTT(30) DEF GetLatest, SameRequest, Remember
<1>5. ASSUME NEW r \in Requests, TryReclaimExpired(r)
      PROVE  SeenInv'
  BY <1>5, SMTT(30) DEF TryReclaimExpired, Reclaim
<1>6. ASSUME NEW r \in Requests, TryReclaimFailed(r)
      PROVE  SeenInv'
  BY <1>6, SMTT(30) DEF TryReclaimFailed, Reclaim
<1>7. ASSUME NEW r \in Requests, ExecuteSucceeds(r)
      PROVE  SeenInv'
  BY <1>7, SMTT(30) DEF ExecuteSucceeds
<1>8. ASSUME NEW r \in Requests, ExecuteFails(r)
      PROVE  SeenInv'
  BY <1>8, SMTT(30) DEF ExecuteFails
<1>9. ASSUME NEW r \in Requests, Abort(r)
      PROVE  SeenInv'
  BY <1>9, SMTT(30) DEF Abort
<1>10. ASSUME NEW r \in Requests, MarkSucceeded(r)
      PROVE  SeenInv'
  BY <1>10, SMTT(30) DEF MarkSucceeded
<1>11. ASSUME NEW r \in Requests, MarkFailedRetryable(r)
      PROVE  SeenInv'
  BY <1>11, SMTT(30) DEF MarkFailedRetryable
<1>12. ASSUME DeleteExpired
      PROVE  SeenInv'
  BY <1>12, SMTT(30) DEF DeleteExpired
<1>13. ASSUME Tick
      PROVE  SeenInv'
  BY <1>13, SMTT(30) DEF Tick, Late
<1>14. ASSUME PickExpired
      PROVE  SeenInv'
  BY <1>14, SMTT(30) DEF PickExpired
<1>15. CASE UNCHANGED vars
  BY <1>15, SMTT(30) DEF vars
<1> QED
  BY <1>1, <1>2, <1>3, <1>4, <1>5, <1>6, <1>7, <1>8, <1>9, <1>10, <1>11,
       <1>12, <1>13, <1>14, <1>15 DEF Next, Step

-----------------------------------------------------------------------------
\* Only an absent, failed or expired row can be claimed, and an owner's row
\* is none of these.
LEMMA OneExecutionStep ==
    ASSUME IInv, [Next]_vars PROVE OneExecution'
<1> USE ByStatusAnswers, ConstantsAssumption
        DEF IInv, TypeOK, InTime, OneExecution, OwnerInv,
        SeenInv, ClockInv, Statuses, Answers, Claiming, Owning, PCs,
        rowVars, Goto, LockedUntil, ExpiresAt, requestVars, historyVars
<1>1. ASSUME NEW r \in Requests, Start(r)
      PROVE  OneExecution'
  BY <1>1, SMTT(30) DEF Start
<1>2. ASSUME NEW r \in Requests, CreateProcessing(r)
      PROVE  OneExecution'
  BY <1>2, SMTT(30) DEF CreateProcessing
<1>3. ASSUME NEW r \in Requests, GetExisting(r)
      PROVE  OneExecution'
  BY <1>3, SMTT(30) DEF GetExisting, SameRequest, Remember
<1>4. ASSUME NEW r \in Requests, GetLatest(r)
      PROVE  OneExecution'
  BY <1>4, SMTT(30) DEF GetLatest, SameRequest, Remember
<1>5. ASSUME NEW r \in Requests, TryReclaimExpired(r)
      PROVE  OneExecution'
  BY <1>5, SMTT(30) DEF TryReclaimExpired, Reclaim, Reclaimable
<1>6. ASSUME NEW r \in Requests, TryReclaimFailed(r)
      PROVE  OneExecution'
  BY <1>6, SMTT(30) DEF TryReclaimFailed, Reclaim, Reclaimable
<1>7. ASSUME NEW r \in Requests, ExecuteSucceeds(r)
      PROVE  OneExecution'
  BY <1>7, SMTT(30) DEF ExecuteSucceeds
<1>8. ASSUME NEW r \in Requests, ExecuteFails(r)
      PROVE  OneExecution'
  BY <1>8, SMTT(30) DEF ExecuteFails
<1>9. ASSUME NEW r \in Requests, Abort(r)
      PROVE  OneExecution'
  BY <1>9, SMTT(30) DEF Abort
<1>10. ASSUME NEW r \in Requests, MarkSucceeded(r)
      PROVE  OneExecution'
  BY <1>10, SMTT(30) DEF MarkSucceeded
<1>11. ASSUME NEW r \in Requests, MarkFailedRetryable(r)
      PROVE  OneExecution'
  BY <1>11, SMTT(30) DEF MarkFailedRetryable
<1>12. ASSUME DeleteExpired
      PROVE  OneExecution'
  BY <1>12, SMTT(30) DEF DeleteExpired
<1>13. ASSUME Tick
      PROVE  OneExecution'
  BY <1>13, SMTT(30) DEF Tick, Late
<1>14. ASSUME PickExpired
      PROVE  OneExecution'
  BY <1>14, SMTT(30) DEF PickExpired
<1>15. CASE UNCHANGED vars
  BY <1>15, SMTT(30) DEF vars
<1> QED
  BY <1>1, <1>2, <1>3, <1>4, <1>5, <1>6, <1>7, <1>8, <1>9, <1>10, <1>11,
       <1>12, <1>13, <1>14, <1>15 DEF Next, Step

-----------------------------------------------------------------------------
\* The first success is stored after the first effect.
LEMMA NoEffectStep ==
    ASSUME IInv, [Next]_vars PROVE NoEffectYet'
<1> USE ByStatusAnswers, ConstantsAssumption
        DEF IInv, TypeOK, InTime, NoEffectYet, Statuses,
        Answers, Claiming, Owning, PCs, rowVars, Goto, LockedUntil,
        ExpiresAt, requestVars, historyVars
<1>1. ASSUME NEW r \in Requests, Start(r)
      PROVE  NoEffectYet'
  BY <1>1, SMTT(30) DEF Start
<1>2. ASSUME NEW r \in Requests, CreateProcessing(r)
      PROVE  NoEffectYet'
  BY <1>2, SMTT(30) DEF CreateProcessing
<1>3. ASSUME NEW r \in Requests, GetExisting(r)
      PROVE  NoEffectYet'
  BY <1>3, SMTT(30) DEF GetExisting, SameRequest, Remember
<1>4. ASSUME NEW r \in Requests, GetLatest(r)
      PROVE  NoEffectYet'
  BY <1>4, SMTT(30) DEF GetLatest, SameRequest, Remember
<1>5. ASSUME NEW r \in Requests, TryReclaimExpired(r)
      PROVE  NoEffectYet'
  BY <1>5, SMTT(30) DEF TryReclaimExpired, Reclaim, Reclaimable
<1>6. ASSUME NEW r \in Requests, TryReclaimFailed(r)
      PROVE  NoEffectYet'
  BY <1>6, SMTT(30) DEF TryReclaimFailed, Reclaim, Reclaimable
<1>7. ASSUME NEW r \in Requests, ExecuteSucceeds(r)
      PROVE  NoEffectYet'
  BY <1>7, SMTT(30) DEF ExecuteSucceeds
<1>8. ASSUME NEW r \in Requests, ExecuteFails(r)
      PROVE  NoEffectYet'
  BY <1>8, SMTT(30) DEF ExecuteFails
<1>9. ASSUME NEW r \in Requests, Abort(r)
      PROVE  NoEffectYet'
  BY <1>9, SMTT(30) DEF Abort
<1>10. ASSUME NEW r \in Requests, MarkSucceeded(r)
      PROVE  NoEffectYet'
  BY <1>10, SMTT(30) DEF MarkSucceeded
<1>11. ASSUME NEW r \in Requests, MarkFailedRetryable(r)
      PROVE  NoEffectYet'
  BY <1>11, SMTT(30) DEF MarkFailedRetryable
<1>12. ASSUME DeleteExpired
      PROVE  NoEffectYet'
  BY <1>12, SMTT(30) DEF DeleteExpired
<1>13. ASSUME Tick
      PROVE  NoEffectYet'
  BY <1>13, SMTT(30) DEF Tick, Late
<1>14. ASSUME PickExpired
      PROVE  NoEffectYet'
  BY <1>14, SMTT(30) DEF PickExpired
<1>15. CASE UNCHANGED vars
  BY <1>15, SMTT(30) DEF vars
<1> QED
  BY <1>1, <1>2, <1>3, <1>4, <1>5, <1>6, <1>7, <1>8, <1>9, <1>10, <1>11,
       <1>12, <1>13, <1>14, <1>15 DEF Next, Step

-----------------------------------------------------------------------------
\* The first effect's record is reclaimed only when it has expired.
LEMMA FirstStep ==
    ASSUME IInv, [Next]_vars PROVE FirstInv'
<1> USE ByStatusAnswers, ConstantsAssumption
        DEF IInv, TypeOK, InTime, FirstInv, NoEffectYet,
        OwnerInv, OneExecution, SeenInv, ClockInv, Statuses, Answers,
        Claiming, Owning, PCs, rowVars, Goto, LockedUntil, ExpiresAt,
        requestVars, historyVars
<1>1. ASSUME NEW r \in Requests, Start(r)
      PROVE  FirstInv'
  BY <1>1, SMTT(30) DEF Start
<1>2. ASSUME NEW r \in Requests, CreateProcessing(r)
      PROVE  FirstInv'
  BY <1>2, SMTT(30) DEF CreateProcessing
<1>3. ASSUME NEW r \in Requests, GetExisting(r)
      PROVE  FirstInv'
  BY <1>3, SMTT(30) DEF GetExisting, SameRequest, Remember
<1>4. ASSUME NEW r \in Requests, GetLatest(r)
      PROVE  FirstInv'
  BY <1>4, SMTT(30) DEF GetLatest, SameRequest, Remember
<1>5. ASSUME NEW r \in Requests, TryReclaimExpired(r)
      PROVE  FirstInv'
  BY <1>5, SMTT(30) DEF TryReclaimExpired, Reclaim, Reclaimable
<1>6. ASSUME NEW r \in Requests, TryReclaimFailed(r)
      PROVE  FirstInv'
  BY <1>6, SMTT(30) DEF TryReclaimFailed, Reclaim, Reclaimable
<1>7. ASSUME NEW r \in Requests, ExecuteSucceeds(r)
      PROVE  FirstInv'
  BY <1>7, SMTT(30) DEF ExecuteSucceeds
<1>8. ASSUME NEW r \in Requests, ExecuteFails(r)
      PROVE  FirstInv'
  BY <1>8, SMTT(30) DEF ExecuteFails
<1>9. ASSUME NEW r \in Requests, Abort(r)
      PROVE  FirstInv'
  BY <1>9, SMTT(30) DEF Abort
<1>10. ASSUME NEW r \in Requests, MarkSucceeded(r)
      PROVE  FirstInv'
  BY <1>10, SMTT(30) DEF MarkSucceeded
<1>11. ASSUME NEW r \in Requests, MarkFailedRetryable(r)
      PROVE  FirstInv'
  BY <1>11, SMTT(30) DEF MarkFailedRetryable
<1>12. ASSUME DeleteExpired
      PROVE  FirstInv'
  BY <1>12, SMTT(30) DEF DeleteExpired
<1>13. ASSUME Tick
      PROVE  FirstInv'
  BY <1>13, SMTT(30) DEF Tick, Late
<1>14. ASSUME PickExpired
      PROVE  FirstInv'
  BY <1>14, SMTT(30) DEF PickExpired
<1>15. CASE UNCHANGED vars
  BY <1>15, SMTT(30) DEF vars
<1> QED
  BY <1>1, <1>2, <1>3, <1>4, <1>5, <1>6, <1>7, <1>8, <1>9, <1>10, <1>11,
       <1>12, <1>13, <1>14, <1>15 DEF Next, Step

-----------------------------------------------------------------------------
\* While the first effect's record lives nobody executes (FirstInv).
LEMMA EffectOnceStep ==
    ASSUME IInv, [Next]_vars PROVE EffectOnce'
<1> USE ByStatusAnswers, ConstantsAssumption
        DEF IInv, TypeOK, InTime, EffectOnce, FirstInv,
        OwnerInv, Statuses, Answers, Claiming, Owning, PCs, rowVars, Goto,
        LockedUntil, ExpiresAt, requestVars, historyVars
<1>1. ASSUME NEW r \in Requests, Start(r)
      PROVE  EffectOnce'
  BY <1>1, SMTT(30) DEF Start
<1>2. ASSUME NEW r \in Requests, CreateProcessing(r)
      PROVE  EffectOnce'
  BY <1>2, SMTT(30) DEF CreateProcessing
<1>3. ASSUME NEW r \in Requests, GetExisting(r)
      PROVE  EffectOnce'
  BY <1>3, SMTT(30) DEF GetExisting, SameRequest, Remember
<1>4. ASSUME NEW r \in Requests, GetLatest(r)
      PROVE  EffectOnce'
  BY <1>4, SMTT(30) DEF GetLatest, SameRequest, Remember
<1>5. ASSUME NEW r \in Requests, TryReclaimExpired(r)
      PROVE  EffectOnce'
  BY <1>5, SMTT(30) DEF TryReclaimExpired, Reclaim, Reclaimable
<1>6. ASSUME NEW r \in Requests, TryReclaimFailed(r)
      PROVE  EffectOnce'
  BY <1>6, SMTT(30) DEF TryReclaimFailed, Reclaim, Reclaimable
<1>7. ASSUME NEW r \in Requests, ExecuteSucceeds(r)
      PROVE  EffectOnce'
  BY <1>7, SMTT(30) DEF ExecuteSucceeds
<1>8. ASSUME NEW r \in Requests, ExecuteFails(r)
      PROVE  EffectOnce'
  BY <1>8, SMTT(30) DEF ExecuteFails
<1>9. ASSUME NEW r \in Requests, Abort(r)
      PROVE  EffectOnce'
  BY <1>9, SMTT(30) DEF Abort
<1>10. ASSUME NEW r \in Requests, MarkSucceeded(r)
      PROVE  EffectOnce'
  BY <1>10, SMTT(30) DEF MarkSucceeded
<1>11. ASSUME NEW r \in Requests, MarkFailedRetryable(r)
      PROVE  EffectOnce'
  BY <1>11, SMTT(30) DEF MarkFailedRetryable
<1>12. ASSUME DeleteExpired
      PROVE  EffectOnce'
  BY <1>12, SMTT(30) DEF DeleteExpired
<1>13. ASSUME Tick
      PROVE  EffectOnce'
  BY <1>13, SMTT(30) DEF Tick, Late
<1>14. ASSUME PickExpired
      PROVE  EffectOnce'
  BY <1>14, SMTT(30) DEF PickExpired
<1>15. CASE UNCHANGED vars
  BY <1>15, SMTT(30) DEF vars
<1> QED
  BY <1>1, <1>2, <1>3, <1>4, <1>5, <1>6, <1>7, <1>8, <1>9, <1>10, <1>11,
       <1>12, <1>13, <1>14, <1>15 DEF Next, Step

-----------------------------------------------------------------------------

LEMMA InitIInv == Init => IInv
BY ConstantsAssumption
   DEF Init, IInv, TypeOK, Statuses, Answers, Claiming, Owning, PCs,
       ClockInv, LockedUntil, ExpiresAt, PayloadInv, OwnerInv, SeenInv,
       Reclaimable, OneExecution, NoEffectYet, FirstInv, EffectOnce

LEMMA NextIInv == IInv /\ [Next]_vars => IInv'
BY TypeStep, ClockStep, PayloadStep, OwnerStep, SeenStep, OneExecutionStep,
   NoEffectStep, FirstStep, EffectOnceStep DEF IInv

\* The inductive invariant holds in every reachable state.
THEOREM Invariance == Spec => []IInv
BY InitIInv, NextIInv, PTL DEF Spec

\* Every variable of the coordinator keeps its type.
THEOREM TypeCorrect == Spec => []TypeOK
<1>1. IInv => TypeOK
  BY DEF IInv
<1> QED
  BY <1>1, Invariance, PTL

\* Two requests in time never execute together, unless the clean-up deleted a
\* record that was reclaimed after it had picked it.
THEOREM MutualExclusion == Spec => []OneExecution
<1>1. IInv => OneExecution
  BY DEF IInv
<1> QED
  BY <1>1, Invariance, PTL

\* The first effect is not repeated while its record lives, under the same
\* condition.
THEOREM FirstEffectOnce == Spec => []EffectOnce
<1>1. IInv => EffectOnce
  BY DEF IInv
<1> QED
  BY <1>1, Invariance, PTL

\* A request of another payload never gets the stored answer, and a cut answer
\* is never replayed.
THEOREM ReplayMatches == Spec => ReplayIsOwn
<1> DEFINE Own == \A r \in Requests :
                     pc[r] # "replayed" /\ pc'[r] = "replayed"
                       => body = fp[r]
<1>1. ASSUME IInv, [Next]_vars PROVE Own
  <2> USE DEF IInv, TypeOK, Goto
  <2>1. ASSUME NEW q \in Requests, GetExisting(q) \/ GetLatest(q) PROVE Own
    BY <1>1, <2>1, SMTT(30)
       DEF GetExisting, GetLatest, SameRequest, ByStatus, PayloadInv
  <2>2. ASSUME NEW q \in Requests,
               Start(q) \/ CreateProcessing(q) \/ TryReclaimExpired(q)
               \/ TryReclaimFailed(q) \/ ExecuteSucceeds(q)
               \/ ExecuteFails(q) \/ MarkSucceeded(q)
               \/ MarkFailedRetryable(q) \/ Abort(q)
        PROVE  Own
    BY <1>1, <2>2, SMTT(30)
       DEF Start, CreateProcessing, TryReclaimExpired, TryReclaimFailed,
           ExecuteSucceeds, ExecuteFails, MarkSucceeded, MarkFailedRetryable,
           Abort
  <2>3. CASE PickExpired \/ DeleteExpired \/ Tick \/ UNCHANGED vars
    BY <2>3 DEF PickExpired, DeleteExpired, Tick, vars, requestVars
  <2> QED
    BY <1>1, <2>1, <2>2, <2>3 DEF Next, Step
<1>2. IInv /\ [Next]_vars => [Own]_vars
  BY <1>1
<1> QED
  BY <1>2, Invariance, PTL DEF Spec, ReplayIsOwn
=============================================================================
