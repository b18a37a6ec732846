------------------------- MODULE PaymentRefundProofs -------------------------
(***************************************************************************)
(* Proofs about PaymentRefund for any orders, handlers, amounts and fault  *)
(* bounds.  The properties speak of a row and of two ledgers that a refund *)
(* touches in separate steps; IInv says, for every place a handler can be  *)
(* in, what the ledgers hold while it is there.                            *)
(***************************************************************************)
EXTENDS PaymentRefund, TLAPS

\* The plan a handler carries is one that PrepareRefund can make.
PlanInv ==
    \A h \in Handlers :
        /\ pc[h] = "idle" => deduct[h] = 0
        /\ pc[h] \in {"prepDeduct", "lock"} \cup RefundPCs => amount[h] > 0
        /\ pc[h] \in {"prepDeduct", "lock"} \cup RefundPCs
             => deduct[h] <= amount[h]
        /\ pc[h] \in {"checkLog", "deduct"} => deduct[h] > 0

\* The provider has accepted nothing before a refund reaches "markOk".
PaidBackInv ==
    /\ \A o \in Orders \ unanswered :
          /\ Owed(o) <= Amount
          /\ status[o] \in Refundable => Owed(o) = 0
    /\ \A h \in Handlers :
          pc[h] \in RefundPCs \ {"markOk"} /\ ord[h] \notin unanswered
            => Owed(ord[h]) = 0

\* A refund that reached "markOk" was accepted, and is still owed or paid.
TruthInv ==
    /\ RefundIsTruthful
    /\ \A h \in Handlers :
          pc[h] = "markOk" /\ ord[h] \notin untraded \cup defaulted
            => Owed(ord[h]) >= amount[h]

Deducted(h) == IF deduct[h] > 0 THEN deduct[h] ELSE 0

\* What is taken for an order is the deduction of the refund in progress.
TakenInv ==
    /\ rollbackLog \subseteq unrestored
    /\ \A o \in Orders \ unrestored :
          /\ status[o] \in {"COMPLETED", "REFUND_REQUESTED"} => taken[o] = 0
          /\ status[o] # "REFUND_FAILED"
    /\ \A h \in Handlers :
          pc[h] \in RefundPCs /\ ord[h] \notin unrestored =>
            /\ pc[h] # "markFailed"
            /\ pc[h] \in {"checkLog", "deduct", "restore"}
                 => taken[ord[h]] = 0
            /\ pc[h] \in {"gateway", "rollback", "markOk"}
                 => taken[ord[h]] = Deducted(h)

IInv ==
    /\ TypeOK
    /\ OneRefunder
    /\ PlanInv
    /\ PaidBackInv
    /\ TruthInv
    /\ TakenInv
    /\ TakesNoMoreThanPaidBack

-----------------------------------------------------------------------------
\* Every step keeps the types.
LEMMA TypeStep ==
    ASSUME IInv, [Next]_vars PROVE TypeOK'
<1> USE ConstantsAssumption DEF IInv, TypeOK, Statuses, PCs, RefundPCs,
        Refundable, Final, Start, Goto, Stop, Fails, AnswerIsLost, Release,
        Take, Accepts, AfterLock, moneyVars, doubtVars, planVars,
        handlerVars, faultVars
<1>1. ASSUME NEW h \in Handlers, NEW o \in Orders, RequestRefund(h, o)
      PROVE  TypeOK'
  BY <1>1, SMTT(30) DEF RequestRefund
<1>2. ASSUME NEW h \in Handlers, NEW o \in Orders, NEW a \in 1 .. Amount, NEW deducts \in BOOLEAN,
             PrepareRefund(h, o, a, deducts)
      PROVE  TypeOK'
  BY <1>2, SMTT(30) DEF PrepareRefund
<1>3. ASSUME NEW h \in Handlers, CheckBalance(h)
      PROVE  TypeOK'
  BY <1>3, SMTT(30) DEF CheckBalance
<1>4. ASSUME NEW h \in Handlers, MarkRequested(h)
      PROVE  TypeOK'
  BY <1>4, SMTT(30) DEF MarkRequested
<1>5. ASSUME NEW h \in Handlers, PrepDeduct(h)
      PROVE  TypeOK'
  BY <1>5, SMTT(30) DEF PrepDeduct
<1>6. ASSUME NEW h \in Handlers, Lock(h)
      PROVE  TypeOK'
  BY <1>6, SMTT(30) DEF Lock
<1>7. ASSUME NEW h \in Handlers, CheckLog(h)
      PROVE  TypeOK'
  BY <1>7, SMTT(30) DEF CheckLog
<1>8. ASSUME NEW h \in Handlers, Deduct(h)
      PROVE  TypeOK'
  BY <1>8, SMTT(30) DEF Deduct
<1>9. ASSUME NEW h \in Handlers, GwRefund(h)
      PROVE  TypeOK'
  BY <1>9, SMTT(30) DEF GwRefund
<1>10. ASSUME NEW h \in Handlers, Rollback(h)
      PROVE  TypeOK'
  BY <1>10, SMTT(30) DEF Rollback
<1>11. ASSUME NEW h \in Handlers, RestoreStatus(h) \/ MarkFailed(h)
      PROVE  TypeOK'
  BY <1>11, SMTT(30) DEF RestoreStatus, MarkFailed
<1>12. ASSUME NEW h \in Handlers, MarkRefundOk(h)
      PROVE  TypeOK'
  BY <1>12, SMTT(30) DEF MarkRefundOk
<1>13. ASSUME NEW h \in Handlers, Abort(h)
      PROVE  TypeOK'
  BY <1>13, SMTT(30) DEF Abort
<1>14. ASSUME Spend
      PROVE  TypeOK'
  BY <1>14, SMTT(30) DEF Spend
<1>15. ASSUME NEW o \in Orders, Settle(o)
      PROVE  TypeOK'
  BY <1>15, SMTT(30) DEF Settle
<1>16. ASSUME NEW o \in Orders, RefundFailsLater(o)
      PROVE  TypeOK'
  BY <1>16, SMTT(30) DEF RefundFailsLater
<1>17. CASE UNCHANGED vars
  BY <1>17, SMTT(30) DEF vars
<1> QED
  BY <1>1, <1>2, <1>3, <1>4, <1>5, <1>6, <1>7, <1>8, <1>9, <1>10, <1>11,
       <1>12, <1>13, <1>14, <1>15, <1>16, <1>17 DEF Next, Request, Step

-----------------------------------------------------------------------------
\* Lock needs a refundable order, and the order a handler owns is in
\* REFUNDING; nobody else moves it out of there.
LEMMA OneRefunderStep ==
    ASSUME IInv, [Next]_vars PROVE OneRefunder'
<1> USE ConstantsAssumption DEF IInv, TypeOK, OneRefunder, PCs, RefundPCs,
        Refundable, Final, Start, Goto, Stop, Fails, AnswerIsLost, Release,
        Take, Accepts, AfterLock, moneyVars, doubtVars, planVars,
        handlerVars, faultVars
<1>1. ASSUME NEW h \in Handlers, NEW o \in Orders, RequestRefund(h, o)
      PROVE  OneRefunder'
  BY <1>1, SMTT(30) DEF RequestRefund
<1>2. ASSUME NEW h \in Handlers, NEW o \in Orders, NEW a \in 1 .. Amount, NEW deducts \in BOOLEAN,
             PrepareRefund(h, o, a, deducts)
      PROVE  OneRefunder'
  BY <1>2, SMTT(30) DEF PrepareRefund
<1>3. ASSUME NEW h \in Handlers, CheckBalance(h)
      PROVE  OneRefunder'
  BY <1>3, SMTT(30) DEF CheckBalance
<1>4. ASSUME NEW h \in Handlers, MarkRequested(h)
      PROVE  OneRefunder'
  BY <1>4, SMTT(30) DEF MarkRequested
<1>5. ASSUME NEW h \in Handlers, PrepDeduct(h)
      PROVE  OneRefunder'
  BY <1>5, SMTT(30) DEF PrepDeduct
<1>6. ASSUME NEW h \in Handlers, Lock(h)
      PROVE  OneRefunder'
  BY <1>6, SMTT(30) DEF Lock
<1>7. ASSUME NEW h \in Handlers, CheckLog(h)
      PROVE  OneRefunder'
  BY <1>7, SMTT(30) DEF CheckLog
<1>8. ASSUME NEW h \in Handlers, Deduct(h)
      PROVE  OneRefunder'
  BY <1>8, SMTT(30) DEF Deduct
<1>9. ASSUME NEW h \in Handlers, GwRefund(h)
      PROVE  OneRefunder'
  BY <1>9, SMTT(30) DEF GwRefund
<1>10. ASSUME NEW h \in Handlers, Rollback(h)
      PROVE  OneRefunder'
  BY <1>10, SMTT(30) DEF Rollback
<1>11. ASSUME NEW h \in Handlers, RestoreStatus(h) \/ MarkFailed(h)
      PROVE  OneRefunder'
  BY <1>11, SMTT(30) DEF RestoreStatus, MarkFailed
<1>12. ASSUME NEW h \in Handlers, MarkRefundOk(h)
      PROVE  OneRefunder'
  BY <1>12, SMTT(30) DEF MarkRefundOk
<1>13. ASSUME NEW h \in Handlers, Abort(h)
      PROVE  OneRefunder'
  BY <1>13, SMTT(30) DEF Abort
<1>14. ASSUME Spend
      PROVE  OneRefunder'
  BY <1>14, SMTT(30) DEF Spend
<1>15. ASSUME NEW o \in Orders, Settle(o)
      PROVE  OneRefunder'
  BY <1>15, SMTT(30) DEF Settle
<1>16. ASSUME NEW o \in Orders, RefundFailsLater(o)
      PROVE  OneRefunder'
  BY <1>16, SMTT(30) DEF RefundFailsLater
<1>17. CASE UNCHANGED vars
  BY <1>17, SMTT(30) DEF vars
<1> QED
  BY <1>1, <1>2, <1>3, <1>4, <1>5, <1>6, <1>7, <1>8, <1>9, <1>10, <1>11,
       <1>12, <1>13, <1>14, <1>15, <1>16, <1>17 DEF Next, Request, Step

-----------------------------------------------------------------------------
\* A plan is made once and only lowered afterwards.
LEMMA PlanStep ==
    ASSUME IInv, [Next]_vars PROVE PlanInv'
<1> USE ConstantsAssumption DEF IInv, TypeOK, PlanInv, PCs, RefundPCs,
        Refundable, Final, Start, Goto, Stop, Fails, AnswerIsLost, Release,
        Take, Accepts, AfterLock, moneyVars, doubtVars, planVars,
        handlerVars, faultVars
<1>1. ASSUME NEW h \in Handlers, NEW o \in Orders, RequestRefund(h, o)
      PROVE  PlanInv'
  BY <1>1, SMTT(30) DEF RequestRefund
<1>2. ASSUME NEW h \in Handlers, NEW o \in Orders, NEW a \in 1 .. Amount, NEW deducts \in BOOLEAN,
             PrepareRefund(h, o, a, deducts)
      PROVE  PlanInv'
  BY <1>2, SMTT(30) DEF PrepareRefund
<1>3. ASSUME NEW h \in Handlers, CheckBalance(h)
      PROVE  PlanInv'
  BY <1>3, SMTT(30) DEF CheckBalance
<1>4. ASSUME NEW h \in Handlers, MarkRequested(h)
      PROVE  PlanInv'
  BY <1>4, SMTT(30) DEF MarkRequested
<1>5. ASSUME NEW h \in Handlers, PrepDeduct(h)
      PROVE  PlanInv'
  BY <1>5, SMTT(30) DEF PrepDeduct
<1>6. ASSUME NEW h \in Handlers, Lock(h)
      PROVE  PlanInv'
  BY <1>6, SMTT(30) DEF Lock
<1>7. ASSUME NEW h \in Handlers, CheckLog(h)
      PROVE  PlanInv'
  BY <1>7, SMTT(30) DEF CheckLog
<1>8. ASSUME NEW h \in Handlers, Deduct(h)
      PROVE  PlanInv'
  BY <1>8, SMTT(30) DEF Deduct
<1>9. ASSUME NEW h \in Handlers, GwRefund(h)
      PROVE  PlanInv'
  BY <1>9, SMTT(30) DEF GwRefund
<1>10. ASSUME NEW h \in Handlers, Rollback(h)
      PROVE  PlanInv'
  BY <1>10, SMTT(30) DEF Rollback
<1>11. ASSUME NEW h \in Handlers, RestoreStatus(h) \/ MarkFailed(h)
      PROVE  PlanInv'
  BY <1>11, SMTT(30) DEF RestoreStatus, MarkFailed
<1>12. ASSUME NEW h \in Handlers, MarkRefundOk(h)
      PROVE  PlanInv'
  BY <1>12, SMTT(30) DEF MarkRefundOk
<1>13. ASSUME NEW h \in Handlers, Abort(h)
      PROVE  PlanInv'
  BY <1>13, SMTT(30) DEF Abort
<1>14. ASSUME Spend
      PROVE  PlanInv'
  BY <1>14, SMTT(30) DEF Spend
<1>15. ASSUME NEW o \in Orders, Settle(o)
      PROVE  PlanInv'
  BY <1>15, SMTT(30) DEF Settle
<1>16. ASSUME NEW o \in Orders, RefundFailsLater(o)
      PROVE  PlanInv'
  BY <1>16, SMTT(30) DEF RefundFailsLater
<1>17. CASE UNCHANGED vars
  BY <1>17, SMTT(30) DEF vars
<1> QED
  BY <1>1, <1>2, <1>3, <1>4, <1>5, <1>6, <1>7, <1>8, <1>9, <1>10, <1>11,
       <1>12, <1>13, <1>14, <1>15, <1>16, <1>17 DEF Next, Request, Step

-----------------------------------------------------------------------------
\* GwRefund asks while nothing was accepted; the only way on from there is to
\* a final status, or to stay in REFUNDING for ever.
LEMMA PaidBackStep ==
    ASSUME IInv, [Next]_vars PROVE PaidBackInv'
<1> USE ConstantsAssumption DEF IInv, TypeOK, Owed, PaidBackInv, PlanInv,
        OneRefunder, PCs, Statuses, RefundPCs, Refundable, Final, Start,
        Goto, Stop, Fails, AnswerIsLost, Release, Take, Accepts, AfterLock,
        moneyVars, doubtVars, planVars, handlerVars, faultVars
<1>1. ASSUME NEW h \in Handlers, NEW o \in Orders, RequestRefund(h, o)
      PROVE  PaidBackInv'
  BY <1>1, SMTT(30) DEF RequestRefund
<1>2. ASSUME NEW h \in Handlers, NEW o \in Orders, NEW a \in 1 .. Amount, NEW deducts \in BOOLEAN,
             PrepareRefund(h, o, a, deducts)
      PROVE  PaidBackInv'
  BY <1>2, SMTT(30) DEF PrepareRefund
<1>3. ASSUME NEW h \in Handlers, CheckBalance(h)
      PROVE  PaidBackInv'
  BY <1>3, SMTT(30) DEF CheckBalance
<1>4. ASSUME NEW h \in Handlers, MarkRequested(h)
      PROVE  PaidBackInv'
  BY <1>4, SMTT(30) DEF MarkRequested
<1>5. ASSUME NEW h \in Handlers, PrepDeduct(h)
      PROVE  PaidBackInv'
  BY <1>5, SMTT(30) DEF PrepDeduct
<1>6. ASSUME NEW h \in Handlers, Lock(h)
      PROVE  PaidBackInv'
  BY <1>6, SMTT(30) DEF Lock
<1>7. ASSUME NEW h \in Handlers, CheckLog(h)
      PROVE  PaidBackInv'
  BY <1>7, SMTT(30) DEF CheckLog
<1>8. ASSUME NEW h \in Handlers, Deduct(h)
      PROVE  PaidBackInv'
  BY <1>8, SMTT(30) DEF Deduct
<1>9. ASSUME NEW h \in Handlers, GwRefund(h)
      PROVE  PaidBackInv'
  BY <1>9, SMTT(30) DEF GwRefund
<1>10. ASSUME NEW h \in Handlers, Rollback(h)
      PROVE  PaidBackInv'
  BY <1>10, SMTT(30) DEF Rollback
<1>11. ASSUME NEW h \in Handlers, RestoreStatus(h) \/ MarkFailed(h)
      PROVE  PaidBackInv'
  BY <1>11, SMTT(30) DEF RestoreStatus, MarkFailed
<1>12. ASSUME NEW h \in Handlers, MarkRefundOk(h)
      PROVE  PaidBackInv'
  BY <1>12, SMTT(30) DEF MarkRefundOk
<1>13. ASSUME NEW h \in Handlers, Abort(h)
      PROVE  PaidBackInv'
  BY <1>13, SMTT(30) DEF Abort
<1>14. ASSUME Spend
      PROVE  PaidBackInv'
  BY <1>14, SMTT(30) DEF Spend
<1>15. ASSUME NEW o \in Orders, Settle(o)
      PROVE  PaidBackInv'
  BY <1>15, SMTT(30) DEF Settle
<1>16. ASSUME NEW o \in Orders, RefundFailsLater(o)
      PROVE  PaidBackInv'
  BY <1>16, SMTT(30) DEF RefundFailsLater
<1>17. CASE UNCHANGED vars
  BY <1>17, SMTT(30) DEF vars
<1> QED
  BY <1>1, <1>2, <1>3, <1>4, <1>5, <1>6, <1>7, <1>8, <1>9, <1>10, <1>11,
       <1>12, <1>13, <1>14, <1>15, <1>16, <1>17 DEF Next, Request, Step

-----------------------------------------------------------------------------
\* MarkRefundOk follows a refund of the plan's amount that the provider
\* accepted, and only a failure at the provider withdraws it.
LEMMA TruthStep ==
    ASSUME IInv, [Next]_vars PROVE TruthInv'
<1> USE ConstantsAssumption DEF IInv, TypeOK, Owed, TruthInv, RefundIsTruthful,
        PlanInv, OneRefunder, PCs, Statuses, RefundPCs, Refundable, Final,
        Start, Goto, Stop, Fails, AnswerIsLost, Release, Take, Accepts,
        AfterLock, moneyVars, doubtVars, planVars, handlerVars, faultVars
<1>1. ASSUME NEW h \in Handlers, NEW o \in Orders, RequestRefund(h, o)
      PROVE  TruthInv'
  BY <1>1, SMTT(30) DEF RequestRefund
<1>2. ASSUME NEW h \in Handlers, NEW o \in Orders, NEW a \in 1 .. Amount, NEW deducts \in BOOLEAN,
             PrepareRefund(h, o, a, deducts)
      PROVE  TruthInv'
  BY <1>2, SMTT(30) DEF PrepareRefund
<1>3. ASSUME NEW h \in Handlers, CheckBalance(h)
      PROVE  TruthInv'
  BY <1>3, SMTT(30) DEF CheckBalance
<1>4. ASSUME NEW h \in Handlers, MarkRequested(h)
      PROVE  TruthInv'
  BY <1>4, SMTT(30) DEF MarkRequested
<1>5. ASSUME NEW h \in Handlers, PrepDeduct(h)
      PROVE  TruthInv'
  BY <1>5, SMTT(30) DEF PrepDeduct
<1>6. ASSUME NEW h \in Handlers, Lock(h)
      PROVE  TruthInv'
  BY <1>6, SMTT(30) DEF Lock
<1>7. ASSUME NEW h \in Handlers, CheckLog(h)
      PROVE  TruthInv'
  BY <1>7, SMTT(30) DEF CheckLog
<1>8. ASSUME NEW h \in Handlers, Deduct(h)
      PROVE  TruthInv'
  BY <1>8, SMTT(30) DEF Deduct
<1>9. ASSUME NEW h \in Handlers, GwRefund(h)
      PROVE  TruthInv'
  BY <1>9, SMTT(30) DEF GwRefund
<1>10. ASSUME NEW h \in Handlers, Rollback(h)
      PROVE  TruthInv'
  BY <1>10, SMTT(30) DEF Rollback
<1>11. ASSUME NEW h \in Handlers, RestoreStatus(h) \/ MarkFailed(h)
      PROVE  TruthInv'
  BY <1>11, SMTT(30) DEF RestoreStatus, MarkFailed
<1>12. ASSUME NEW h \in Handlers, MarkRefundOk(h)
      PROVE  TruthInv'
  BY <1>12, SMTT(30) DEF MarkRefundOk
<1>13. ASSUME NEW h \in Handlers, Abort(h)
      PROVE  TruthInv'
  BY <1>13, SMTT(30) DEF Abort
<1>14. ASSUME Spend
      PROVE  TruthInv'
  BY <1>14, SMTT(30) DEF Spend
<1>15. ASSUME NEW o \in Orders, Settle(o)
      PROVE  TruthInv'
  BY <1>15, SMTT(30) DEF Settle
<1>16. ASSUME NEW o \in Orders, RefundFailsLater(o)
      PROVE  TruthInv'
  BY <1>16, SMTT(30) DEF RefundFailsLater
<1>17. CASE UNCHANGED vars
  BY <1>17, SMTT(30) DEF vars
<1> QED
  BY <1>1, <1>2, <1>3, <1>4, <1>5, <1>6, <1>7, <1>8, <1>9, <1>10, <1>11,
       <1>12, <1>13, <1>14, <1>15, <1>16, <1>17 DEF Next, Request, Step

-----------------------------------------------------------------------------
\* Deduct and Rollback are opposite, and the order leaves REFUNDING with a
\* deduction only when it was paid back or is in doubt.
LEMMA TakenStep ==
    ASSUME IInv, [Next]_vars PROVE TakenInv'
<1> USE ConstantsAssumption DEF IInv, TypeOK, TakenInv, Deducted, PlanInv,
        OneRefunder, PCs, Statuses, RefundPCs, Refundable, Final, Start,
        Goto, Stop, Fails, AnswerIsLost, Release, Take, Accepts, AfterLock,
        moneyVars, doubtVars, planVars, handlerVars, faultVars
<1>1. ASSUME NEW h \in Handlers, NEW o \in Orders, RequestRefund(h, o)
      PROVE  TakenInv'
  BY <1>1, SMTT(30) DEF RequestRefund
<1>2. ASSUME NEW h \in Handlers, NEW o \in Orders, NEW a \in 1 .. Amount, NEW deducts \in BOOLEAN,
             PrepareRefund(h, o, a, deducts)
      PROVE  TakenInv'
  BY <1>2, SMTT(30) DEF PrepareRefund
<1>3. ASSUME NEW h \in Handlers, CheckBalance(h)
      PROVE  TakenInv'
  BY <1>3, SMTT(30) DEF CheckBalance
<1>4. ASSUME NEW h \in Handlers, MarkRequested(h)
      PROVE  TakenInv'
  BY <1>4, SMTT(30) DEF MarkRequested
<1>5. ASSUME NEW h \in Handlers, PrepDeduct(h)
      PROVE  TakenInv'
  BY <1>5, SMTT(30) DEF PrepDeduct
<1>6. ASSUME NEW h \in Handlers, Lock(h)
      PROVE  TakenInv'
  BY <1>6, SMTT(30) DEF Lock
<1>7. ASSUME NEW h \in Handlers, CheckLog(h)
      PROVE  TakenInv'
  BY <1>7, SMTT(30) DEF CheckLog
<1>8. ASSUME NEW h \in Handlers, Deduct(h)
      PROVE  TakenInv'
  BY <1>8, SMTT(30) DEF Deduct
<1>9. ASSUME NEW h \in Handlers, GwRefund(h)
      PROVE  TakenInv'
  BY <1>9, SMTT(30) DEF GwRefund
<1>10. ASSUME NEW h \in Handlers, Rollback(h)
      PROVE  TakenInv'
  BY <1>10, SMTT(30) DEF Rollback
<1>11. ASSUME NEW h \in Handlers, RestoreStatus(h) \/ MarkFailed(h)
      PROVE  TakenInv'
  BY <1>11, SMTT(30) DEF RestoreStatus, MarkFailed
<1>12. ASSUME NEW h \in Handlers, MarkRefundOk(h)
      PROVE  TakenInv'
  BY <1>12, SMTT(30) DEF MarkRefundOk
<1>13. ASSUME NEW h \in Handlers, Abort(h)
      PROVE  TakenInv'
  BY <1>13, SMTT(30) DEF Abort
<1>14. ASSUME Spend
      PROVE  TakenInv'
  BY <1>14, SMTT(30) DEF Spend
<1>15. ASSUME NEW o \in Orders, Settle(o)
      PROVE  TakenInv'
  BY <1>15, SMTT(30) DEF Settle
<1>16. ASSUME NEW o \in Orders, RefundFailsLater(o)
      PROVE  TakenInv'
  BY <1>16, SMTT(30) DEF RefundFailsLater
<1>17. CASE UNCHANGED vars
  BY <1>17, SMTT(30) DEF vars
<1> QED
  BY <1>1, <1>2, <1>3, <1>4, <1>5, <1>6, <1>7, <1>8, <1>9, <1>10, <1>11,
       <1>12, <1>13, <1>14, <1>15, <1>16, <1>17 DEF Next, Request, Step

-----------------------------------------------------------------------------
\* The deduction is at most the refund's amount.
LEMMA TakesStep ==
    ASSUME IInv, [Next]_vars PROVE TakesNoMoreThanPaidBack'
<1> USE ConstantsAssumption DEF IInv, TypeOK, Owed, TakesNoMoreThanPaidBack,
        TakenInv, TruthInv, Deducted, PlanInv, OneRefunder, PCs, Statuses,
        RefundPCs, Refundable, Final, Start, Goto, Stop, Fails,
        AnswerIsLost, Release, Take, Accepts, AfterLock, moneyVars,
        doubtVars, planVars, handlerVars, faultVars
<1>1. ASSUME NEW h \in Handlers, NEW o \in Orders, RequestRefund(h, o)
      PROVE  TakesNoMoreThanPaidBack'
  BY <1>1, SMTT(30) DEF RequestRefund
<1>2. ASSUME NEW h \in Handlers, NEW o \in Orders, NEW a \in 1 .. Amount, NEW deducts \in BOOLEAN,
             PrepareRefund(h, o, a, deducts)
      PROVE  TakesNoMoreThanPaidBack'
  BY <1>2, SMTT(30) DEF PrepareRefund
<1>3. ASSUME NEW h \in Handlers, CheckBalance(h)
      PROVE  TakesNoMoreThanPaidBack'
  BY <1>3, SMTT(30) DEF CheckBalance
<1>4. ASSUME NEW h \in Handlers, MarkRequested(h)
      PROVE  TakesNoMoreThanPaidBack'
  BY <1>4, SMTT(30) DEF MarkRequested
<1>5. ASSUME NEW h \in Handlers, PrepDeduct(h)
      PROVE  TakesNoMoreThanPaidBack'
  BY <1>5, SMTT(30) DEF PrepDeduct
<1>6. ASSUME NEW h \in Handlers, Lock(h)
      PROVE  TakesNoMoreThanPaidBack'
  BY <1>6, SMTT(30) DEF Lock
<1>7. ASSUME NEW h \in Handlers, CheckLog(h)
      PROVE  TakesNoMoreThanPaidBack'
  BY <1>7, SMTT(30) DEF CheckLog
<1>8. ASSUME NEW h \in Handlers, Deduct(h)
      PROVE  TakesNoMoreThanPaidBack'
  BY <1>8, SMTT(30) DEF Deduct
<1>9. ASSUME NEW h \in Handlers, GwRefund(h)
      PROVE  TakesNoMoreThanPaidBack'
  BY <1>9, SMTT(30) DEF GwRefund
<1>10. ASSUME NEW h \in Handlers, Rollback(h)
      PROVE  TakesNoMoreThanPaidBack'
  BY <1>10, SMTT(30) DEF Rollback
<1>11. ASSUME NEW h \in Handlers, RestoreStatus(h) \/ MarkFailed(h)
      PROVE  TakesNoMoreThanPaidBack'
  BY <1>11, SMTT(30) DEF RestoreStatus, MarkFailed
<1>12. ASSUME NEW h \in Handlers, MarkRefundOk(h)
      PROVE  TakesNoMoreThanPaidBack'
  BY <1>12, SMTT(30) DEF MarkRefundOk
<1>13. ASSUME NEW h \in Handlers, Abort(h)
      PROVE  TakesNoMoreThanPaidBack'
  BY <1>13, SMTT(30) DEF Abort
<1>14. ASSUME Spend
      PROVE  TakesNoMoreThanPaidBack'
  BY <1>14, SMTT(30) DEF Spend
<1>15. ASSUME NEW o \in Orders, Settle(o)
      PROVE  TakesNoMoreThanPaidBack'
  BY <1>15, SMTT(30) DEF Settle
<1>16. ASSUME NEW o \in Orders, RefundFailsLater(o)
      PROVE  TakesNoMoreThanPaidBack'
  BY <1>16, SMTT(30) DEF RefundFailsLater
<1>17. CASE UNCHANGED vars
  BY <1>17, SMTT(30) DEF vars
<1> QED
  BY <1>1, <1>2, <1>3, <1>4, <1>5, <1>6, <1>7, <1>8, <1>9, <1>10, <1>11,
       <1>12, <1>13, <1>14, <1>15, <1>16, <1>17 DEF Next, Request, Step

-----------------------------------------------------------------------------
\* MarkRequested and Lock check the status; the other updates are made by the
\* owner of REFUNDING.
LEMMA FinalStays ==
    ASSUME IInv, [Next]_vars PROVE (\A q \in Orders : status[q] \in Final => status'[q] = status[q])
<1> USE ConstantsAssumption DEF IInv, TypeOK, OneRefunder, PCs, Statuses,
        RefundPCs, Refundable, Final, Start, Goto, Stop, Fails,
        AnswerIsLost, Release, Take, Accepts, AfterLock, moneyVars,
        doubtVars, planVars, handlerVars, faultVars
<1>1. ASSUME NEW h \in Handlers, NEW o \in Orders, RequestRefund(h, o)
      PROVE  (\A q \in Orders : status[q] \in Final => status'[q] = status[q])
  BY <1>1, SMTT(30) DEF RequestRefund
<1>2. ASSUME NEW h \in Handlers, NEW o \in Orders, NEW a \in 1 .. Amount, NEW deducts \in BOOLEAN,
             PrepareRefund(h, o, a, deducts)
      PROVE  (\A q \in Orders : status[q] \in Final => status'[q] = status[q])
  BY <1>2, SMTT(30) DEF PrepareRefund
<1>3. ASSUME NEW h \in Handlers, CheckBalance(h)
      PROVE  (\A q \in Orders : status[q] \in Final => status'[q] = status[q])
  BY <1>3, SMTT(30) DEF CheckBalance
<1>4. ASSUME NEW h \in Handlers, MarkRequested(h)
      PROVE  (\A q \in Orders : status[q] \in Final => status'[q] = status[q])
  BY <1>4, SMTT(30) DEF MarkRequested
<1>5. ASSUME NEW h \in Handlers, PrepDeduct(h)
      PROVE  (\A q \in Orders : status[q] \in Final => status'[q] = status[q])
  BY <1>5, SMTT(30) DEF PrepDeduct
<1>6. ASSUME NEW h \in Handlers, Lock(h)
      PROVE  (\A q \in Orders : status[q] \in Final => status'[q] = status[q])
  BY <1>6, SMTT(30) DEF Lock
<1>7. ASSUME NEW h \in Handlers, CheckLog(h)
      PROVE  (\A q \in Orders : status[q] \in Final => status'[q] = status[q])
  BY <1>7, SMTT(30) DEF CheckLog
<1>8. ASSUME NEW h \in Handlers, Deduct(h)
      PROVE  (\A q \in Orders : status[q] \in Final => status'[q] = status[q])
  BY <1>8, SMTT(30) DEF Deduct
<1>9. ASSUME NEW h \in Handlers, GwRefund(h)
      PROVE  (\A q \in Orders : status[q] \in Final => status'[q] = status[q])
  BY <1>9, SMTT(30) DEF GwRefund
<1>10. ASSUME NEW h \in Handlers, Rollback(h)
      PROVE  (\A q \in Orders : status[q] \in Final => status'[q] = status[q])
  BY <1>10, SMTT(30) DEF Rollback
<1>11. ASSUME NEW h \in Handlers, RestoreStatus(h) \/ MarkFailed(h)
      PROVE  (\A q \in Orders : status[q] \in Final => status'[q] = status[q])
  BY <1>11, SMTT(30) DEF RestoreStatus, MarkFailed
<1>12. ASSUME NEW h \in Handlers, MarkRefundOk(h)
      PROVE  (\A q \in Orders : status[q] \in Final => status'[q] = status[q])
  BY <1>12, SMTT(30) DEF MarkRefundOk
<1>13. ASSUME NEW h \in Handlers, Abort(h)
      PROVE  (\A q \in Orders : status[q] \in Final => status'[q] = status[q])
  BY <1>13, SMTT(30) DEF Abort
<1>14. ASSUME Spend
      PROVE  (\A q \in Orders : status[q] \in Final => status'[q] = status[q])
  BY <1>14, SMTT(30) DEF Spend
<1>15. ASSUME NEW o \in Orders, Settle(o)
      PROVE  (\A q \in Orders : status[q] \in Final => status'[q] = status[q])
  BY <1>15, SMTT(30) DEF Settle
<1>16. ASSUME NEW o \in Orders, RefundFailsLater(o)
      PROVE  (\A q \in Orders : status[q] \in Final => status'[q] = status[q])
  BY <1>16, SMTT(30) DEF RefundFailsLater
<1>17. CASE UNCHANGED vars
  BY <1>17, SMTT(30) DEF vars
<1> QED
  BY <1>1, <1>2, <1>3, <1>4, <1>5, <1>6, <1>7, <1>8, <1>9, <1>10, <1>11,
       <1>12, <1>13, <1>14, <1>15, <1>16, <1>17 DEF Next, Request, Step

-----------------------------------------------------------------------------

LEMMA InitIInv == Init => IInv
BY ConstantsAssumption
   DEF Init, IInv, TypeOK, Statuses, Refundable, Final, PCs, RefundPCs,
       OneRefunder, PlanInv, PaidBackInv, TruthInv, RefundIsTruthful,
       TakenInv, TakesNoMoreThanPaidBack, Owed

LEMMA NextIInv == IInv /\ [Next]_vars => IInv'
BY TypeStep, OneRefunderStep, PlanStep, PaidBackStep, TruthStep, TakenStep,
   TakesStep DEF IInv

\* The inductive invariant holds in every reachable state.
THEOREM Invariance == Spec => []IInv
BY InitIInv, NextIInv, PTL DEF Spec

\* Every variable of the refund keeps its type.
THEOREM TypeCorrect == Spec => []TypeOK
<1>1. IInv => TypeOK
  BY DEF IInv
<1> QED
  BY <1>1, Invariance, PTL

\* ExecuteRefund's conditional UPDATE gives an order to one handler, which
\* keeps it until it releases it.
THEOREM RefundIsExclusive == Spec => []OneRefunder
<1>1. IInv => OneRefunder
  BY DEF IInv
<1> QED
  BY <1>1, Invariance, PTL

\* Retries, failed updates and crashes never have an order paid back twice,
\* now or later; only a refund that the provider accepted and reported as an
\* error can.
THEOREM RefundOnce == Spec => []PaidBackOnce
<1>1. IInv => PaidBackOnce
  BY DEF IInv, PaidBackInv, PaidBackOnce
<1> QED
  BY <1>1, Invariance, PTL

\* REFUNDED and PARTIALLY_REFUNDED say what the provider has paid or owes,
\* until it fails a refund it had accepted.
THEOREM RefundTruth == Spec => []RefundIsTruthful
<1>1. IInv => RefundIsTruthful
  BY DEF IInv, TruthInv
<1> QED
  BY <1>1, Invariance, PTL

\* A refund that fails and gives the order back has taken nothing.
THEOREM FailureIsFree == Spec => []FailureCostsNothing
<1>1. IInv => FailureCostsNothing
  BY DEF IInv, TakenInv, FailureCostsNothing
<1> QED
  BY <1>1, Invariance, PTL

\* A refund that succeeds takes at most what was paid back or is owed, unless
\* the provider failed it later.
THEOREM RefundIsFair == Spec => []TakesNoMoreThanPaidBack
<1>1. IInv => TakesNoMoreThanPaidBack
  BY DEF IInv
<1> QED
  BY <1>1, Invariance, PTL

\* No stale plan or request reopens a finished refund.
THEOREM FinalForEver == Spec => RefundIsFinal
<1>1. IInv /\ [Next]_vars =>
        [\A o \in Orders : status[o] \in Final => status'[o] = status[o]]_vars
  BY FinalStays
<1> QED
  BY <1>1, Invariance, PTL DEF Spec, RefundIsFinal
=============================================================================
