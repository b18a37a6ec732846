------------------------- MODULE PaymentOrderProofs -------------------------
(***************************************************************************)
(* Proofs about PaymentOrder for any orders, handlers and fault bounds.    *)
(*                                                                         *)
(* The safety properties are not inductive.  A credit rests on the code    *)
(* row, completion on the stage its fulfilment has reached, and one        *)
(* fulfilment at a time on the RECHARGING status, which holds as a lock    *)
(* because the one update of the status that checks nothing, the creation  *)
(* error, comes before any payment unless the creation was in doubt.       *)
(* IInv is the conjunction of these layers.                                *)
(***************************************************************************)
EXTENDS PaymentOrder, TLAPS

\* Handlers that act on a confirmed payment.
ConfirmedPCs == {"toPaid", "already", "reset", "fulfil", "lock"}
                  \cup FulfilPCs

\* The code row and the balance move together.
CodeInv ==
    \A o \in Orders : credits[o] = IF code[o] = "used" THEN 1 ELSE 0

\* The fulfilment's rebate and its audit row move together, the endpoint adds
\* one of its own, and both come after the credit.
RebateInv ==
    \A o \in Orders :
        /\ rebates[o] = (IF rebateLog[o] = "applied" THEN 1 ELSE 0)
                          + (IF byHand[o] = "rewarded" THEN 1 ELSE 0)
        /\ RebateClaimed(o) => code[o] = "used"
        /\ byHand[o] # "none" => code[o] = "used"

\* All that follows a payment presupposes it.
PaidInv ==
    /\ \A o \in Orders :
          o \in paidAt \/ code[o] # "absent"
            \/ status[o] \in {"PAID", "RECHARGING", "COMPLETED"} => Paid(o)
    /\ \A h \in Handlers : pc[h] \in ConfirmedPCs => Paid(ord[h])

\* A confirmed payment is never in a status that the sweeps may close.
PaidAtInv ==
    \A o \in Orders :
        o \in paidAt => status[o] \in {"PAID", "RECHARGING", "COMPLETED",
                                    "FAILED"}

\* The request that creates an order is alone with it until the user can pay,
\* or until the provider has it and the request does not know.
CreateInv ==
    /\ \A o \in Orders :
          status[o] = "ABSENT" => upstream[o] = "none" /\ o \notin doubtful
    /\ \A h \in Handlers :
          /\ pc[h] \in CreatePCs => status[ord[h]] # "ABSENT"
          /\ pc[h] \in CreatePCs /\ ord[h] \notin doubtful
               => upstream[ord[h]] = "none"
          /\ pc[h] = "invoke" => ord[h] \notin doubtful
    /\ \A h, i \in Handlers :
          pc[h] \in CreatePCs /\ pc[i] \in CreatePCs /\ ord[h] = ord[i]
            => h = i

\* Who fulfils an order holds its RECHARGING status; a completion whose
\* answer was lost is the one exception, and nobody else can lock then.  A
\* doubtful order is different: its creation may still report it as FAILED.
LockInv ==
    /\ \A h \in Handlers :
          ord[h] \notin doubtful =>
            /\ pc[h] \in FulfilPCs
                 => status[ord[h]] \in {"RECHARGING", "COMPLETED"}
            /\ pc[h] \in FulfilPCs \ {"markFailed"}
                 => status[ord[h]] = "RECHARGING"
    /\ OneFulfiller

\* How far the fulfilment got is visible in the code and in the audit row.
SettleInv ==
    /\ CompletedIsSettled
    /\ \A h \in Handlers :
          /\ pc[h] \in {"rebate", "complete"} => code[ord[h]] = "used"
          /\ pc[h] = "complete" => RebateClaimed(ord[h])

IInv ==
    /\ TypeOK
    /\ CodeInv
    /\ RebateInv
    /\ PaidInv
    /\ PaidAtInv
    /\ CreateInv
    /\ LockInv
    /\ SettleInv

-----------------------------------------------------------------------------
\* Every step keeps the types: the rows, the ledgers and the handlers.
LEMMA TypeStep ==
    ASSUME IInv, [Next]_vars PROVE TypeOK'
<1> USE ConstantsAssumption DEF IInv, TypeOK, Statuses, UpstreamStates, PCs,
        Ops, CreatePCs, UseCode, FulfilPCs, Start, Goto, Stop,
        ReturnOk, ReturnError, Outcome, SetStatus, orderVars, ackVars,
        codeVars, rebateVars,
        envVars, moneyVars, handlerVars, faultVars
<1>1. ASSUME NEW h \in Handlers, NEW o \in Orders, Request(h, o)
      PROVE  TypeOK'
  BY <1>1, SMTT(30) DEF CreateOrder, CancelOrder, ExpireTimedOutOrder,
       VerifyOrder,
         ReconcilePendingOrder, Webhook, RetryFulfillment, RetryAllowed,
              Request
<1>2. ASSUME NEW h \in Handlers, InvokeProvider(h)
      PROVE  TypeOK'
  BY <1>2, SMTT(30) DEF InvokeProvider
<1>3. ASSUME NEW h \in Handlers,
             InvokeProviderFails(h) \/ InvokeProviderInDoubt(h) \/
             CreateOrderFails(h)
      PROVE  TypeOK'
  BY <1>3, SMTT(30) DEF InvokeProviderFails, InvokeProviderInDoubt,
       CreateOrderFails
<1>4. ASSUME NEW h \in Handlers,
             QueryFindsPaid(h) \/ QueryFindsUnpaid(h) \/
             QueryFails(h) \/ CancelUpstream(h) \/ PersistTradeNo(h)
      PROVE  TypeOK'
  BY <1>4, SMTT(30) DEF QueryFindsPaid, QueryFindsUnpaid, QueryFails,
       CancelUpstream, PersistTradeNo
<1>5. ASSUME NEW h \in Handlers, CloseOrder(h)
      PROVE  TypeOK'
  BY <1>5, SMTT(30) DEF CloseOrder
<1>6. ASSUME NEW h \in Handlers,
             ConfirmPayment(h) \/ RejectPayment(h) \/ NotificationUnread(h)
      PROVE  TypeOK'
  BY <1>6, SMTT(30) DEF ConfirmPayment, RejectPayment, NotificationUnread
<1>7. ASSUME NEW h \in Handlers, ToPaid(h)
      PROVE  TypeOK'
  BY <1>7, SMTT(30) DEF ToPaid
<1>8. ASSUME NEW h \in Handlers, AlreadyProcessed(h) \/
             AlreadyProcessedUnread(h)
      PROVE  TypeOK'
  BY <1>8, SMTT(30) DEF AlreadyProcessed, AlreadyProcessedUnread
<1>9. ASSUME NEW h \in Handlers, ResetForRetry(h)
      PROVE  TypeOK'
  BY <1>9, SMTT(30) DEF ResetForRetry
<1>10. ASSUME NEW h \in Handlers, CheckFulfillable(h)
      PROVE  TypeOK'
  BY <1>10, SMTT(30) DEF CheckFulfillable
<1>11. ASSUME NEW h \in Handlers, LockRecharging(h)
      PROVE  TypeOK'
  BY <1>11, SMTT(30) DEF LockRecharging
<1>12. ASSUME NEW h \in Handlers,
             ResolveRedeemAction(h) \/ CreateCode(h)
      PROVE  TypeOK'
  BY <1>12, SMTT(30) DEF ResolveRedeemAction, CreateCode
<1>13. ASSUME NEW h \in Handlers,
             RedeemCode(h) \/ RedeemCodeRefused(h)
      PROVE  TypeOK'
  BY <1>13, SMTT(30) DEF RedeemCode, RedeemCodeRefused
<1>14. ASSUME NEW h \in Handlers, ApplyRebate(h)
      PROVE  TypeOK'
  BY <1>14, SMTT(30) DEF ApplyRebate
<1>15. ASSUME NEW h \in Handlers, MarkCompleted(h)
      PROVE  TypeOK'
  BY <1>15, SMTT(30) DEF MarkCompleted
<1>16. ASSUME NEW h \in Handlers, MarkFailed(h)
      PROVE  TypeOK'
  BY <1>16, SMTT(30) DEF MarkFailed
<1>17. ASSUME NEW h \in Handlers,
             CallFails(h) \/ Abort(h)
      PROVE  TypeOK'
  BY <1>17, SMTT(30) DEF CallFails, Abort
<1>18. ASSUME NEW o \in Orders,
             Pay(o) \/ Timeout(o) \/ GraceElapses(o)
      PROVE  TypeOK'
  BY <1>18, SMTT(30) DEF Pay, Timeout, GraceElapses
<1>19. ASSUME NEW o \in Orders, RedeemAtEndpoint(o) \/ RewardAtEndpoint(o)
      PROVE  TypeOK'
  BY <1>19, SMTT(30) DEF RedeemAtEndpoint, RewardAtEndpoint
<1>20. CASE UNCHANGED vars
  BY <1>20 DEF vars, orderVars, ackVars, codeVars, rebateVars, envVars,
       moneyVars, handlerVars, faultVars
<1> QED
  BY <1>1, <1>2, <1>3, <1>4, <1>5, <1>6, <1>7, <1>8, <1>9, <1>10, <1>11,
       <1>12, <1>13, <1>14, <1>15, <1>16, <1>17, <1>18, <1>19, <1>20 DEF
       Next, Step, Environment

-----------------------------------------------------------------------------
\* The balance grows exactly when the code goes from unused to used, in
\* RedeemCode and at the endpoint; CreateCode inserts an unused row.
LEMMA CodeStep ==
    ASSUME IInv, [Next]_vars PROVE CodeInv'
<1> USE ConstantsAssumption DEF IInv, TypeOK, CodeInv, UseCode, FulfilPCs,
        Start, Goto, Stop, ReturnOk, ReturnError, Outcome,
        SetStatus, orderVars, ackVars, codeVars, rebateVars, envVars,
        moneyVars, handlerVars,
        faultVars
<1>1. ASSUME NEW h \in Handlers, NEW o \in Orders, Request(h, o)
      PROVE  CodeInv'
  BY <1>1, SMTT(30) DEF CreateOrder, CancelOrder, ExpireTimedOutOrder,
       VerifyOrder,
         ReconcilePendingOrder, Webhook, RetryFulfillment, RetryAllowed,
              Request
<1>2. ASSUME NEW h \in Handlers,
             InvokeProvider(h) \/ InvokeProviderFails(h) \/
             InvokeProviderInDoubt(h) \/
             CreateOrderFails(h)
      PROVE  CodeInv'
  BY <1>2, SMTT(30) DEF InvokeProvider, InvokeProviderFails,
       InvokeProviderInDoubt, CreateOrderFails
<1>3. ASSUME NEW h \in Handlers,
             QueryFindsPaid(h) \/ QueryFindsUnpaid(h) \/
             QueryFails(h) \/ CancelUpstream(h) \/
             PersistTradeNo(h) \/ CloseOrder(h)
      PROVE  CodeInv'
  BY <1>3, SMTT(30) DEF QueryFindsPaid, QueryFindsUnpaid, QueryFails,
       CancelUpstream, PersistTradeNo, CloseOrder
<1>4. ASSUME NEW h \in Handlers,
             ConfirmPayment(h) \/ RejectPayment(h) \/ NotificationUnread(h) \/
             ToPaid(h) \/
             AlreadyProcessed(h) \/ AlreadyProcessedUnread(h)
      PROVE  CodeInv'
  BY <1>4, SMTT(30) DEF ConfirmPayment, RejectPayment, NotificationUnread,
       ToPaid,
       AlreadyProcessed, AlreadyProcessedUnread
<1>5. ASSUME NEW h \in Handlers,
             ResetForRetry(h) \/ CheckFulfillable(h) \/
             LockRecharging(h)
      PROVE  CodeInv'
  BY <1>5, SMTT(30) DEF ResetForRetry, CheckFulfillable, LockRecharging
<1>6. ASSUME NEW h \in Handlers,
             ResolveRedeemAction(h) \/ CreateCode(h)
      PROVE  CodeInv'
  BY <1>6, SMTT(30) DEF ResolveRedeemAction, CreateCode
<1>7. ASSUME NEW h \in Handlers,
             RedeemCode(h) \/ RedeemCodeRefused(h)
      PROVE  CodeInv'
  BY <1>7, SMTT(30) DEF RedeemCode, RedeemCodeRefused
<1>8. ASSUME NEW h \in Handlers, ApplyRebate(h)
      PROVE  CodeInv'
  BY <1>8, SMTT(30) DEF ApplyRebate
<1>9. ASSUME NEW h \in Handlers, MarkCompleted(h)
      PROVE  CodeInv'
  BY <1>9, SMTT(30) DEF MarkCompleted
<1>10. ASSUME NEW h \in Handlers, MarkFailed(h)
      PROVE  CodeInv'
  BY <1>10, SMTT(30) DEF MarkFailed
<1>11. ASSUME NEW h \in Handlers, CallFails(h)
      PROVE  CodeInv'
  BY <1>11, SMTT(30) DEF CallFails
<1>12. ASSUME NEW h \in Handlers, Abort(h)
      PROVE  CodeInv'
  BY <1>12, SMTT(30) DEF Abort
<1>13. ASSUME NEW o \in Orders,
             Pay(o) \/ Timeout(o) \/ GraceElapses(o)
      PROVE  CodeInv'
  BY <1>13, SMTT(30) DEF Pay, Timeout, GraceElapses
<1>14. ASSUME NEW o \in Orders, RedeemAtEndpoint(o) \/ RewardAtEndpoint(o)
      PROVE  CodeInv'
  BY <1>14, SMTT(30) DEF RedeemAtEndpoint, RewardAtEndpoint
<1>15. CASE UNCHANGED vars
  BY <1>15 DEF vars, orderVars, ackVars, codeVars, rebateVars, envVars,
       moneyVars, handlerVars, faultVars
<1> QED
  BY <1>1, <1>2, <1>3, <1>4, <1>5, <1>6, <1>7, <1>8, <1>9, <1>10, <1>11,
       <1>12, <1>13, <1>14, <1>15 DEF Next, Step, Environment

-----------------------------------------------------------------------------
\* ApplyRebate accrues only with a claim it wrote itself, and only behind a
\* used code (SettleInv).
LEMMA RebateStep ==
    ASSUME IInv, [Next]_vars PROVE RebateInv'
<1> USE ConstantsAssumption DEF IInv, TypeOK, RebateInv, SettleInv,
        RebateClaimed, UseCode, FulfilPCs, Start, Goto, Stop,
        ReturnOk, ReturnError, Outcome, SetStatus, orderVars, ackVars,
        codeVars, rebateVars,
        envVars, moneyVars, handlerVars, faultVars
<1>1. ASSUME NEW h \in Handlers, NEW o \in Orders, Request(h, o)
      PROVE  RebateInv'
  BY <1>1, SMTT(30) DEF CreateOrder, CancelOrder, ExpireTimedOutOrder,
       VerifyOrder,
         ReconcilePendingOrder, Webhook, RetryFulfillment, RetryAllowed,
              Request
<1>2. ASSUME NEW h \in Handlers,
             InvokeProvider(h) \/ InvokeProviderFails(h) \/
             InvokeProviderInDoubt(h) \/
             CreateOrderFails(h)
      PROVE  RebateInv'
  BY <1>2, SMTT(30) DEF InvokeProvider, InvokeProviderFails,
       InvokeProviderInDoubt, CreateOrderFails
<1>3. ASSUME NEW h \in Handlers,
             QueryFindsPaid(h) \/ QueryFindsUnpaid(h) \/
             QueryFails(h) \/ CancelUpstream(h) \/
             PersistTradeNo(h) \/ CloseOrder(h)
      PROVE  RebateInv'
  BY <1>3, SMTT(30) DEF QueryFindsPaid, QueryFindsUnpaid, QueryFails,
       CancelUpstream, PersistTradeNo, CloseOrder
<1>4. ASSUME NEW h \in Handlers,
             ConfirmPayment(h) \/ RejectPayment(h) \/ NotificationUnread(h) \/
             ToPaid(h) \/
             AlreadyProcessed(h) \/ AlreadyProcessedUnread(h)
      PROVE  RebateInv'
  BY <1>4, SMTT(30) DEF ConfirmPayment, RejectPayment, NotificationUnread,
       ToPaid,
       AlreadyProcessed, AlreadyProcessedUnread
<1>5. ASSUME NEW h \in Handlers,
             ResetForRetry(h) \/ CheckFulfillable(h) \/
             LockRecharging(h)
      PROVE  RebateInv'
  BY <1>5, SMTT(30) DEF ResetForRetry, CheckFulfillable, LockRecharging
<1>6. ASSUME NEW h \in Handlers,
             ResolveRedeemAction(h) \/ CreateCode(h)
      PROVE  RebateInv'
  BY <1>6, SMTT(30) DEF ResolveRedeemAction, CreateCode
<1>7. ASSUME NEW h \in Handlers,
             RedeemCode(h) \/ RedeemCodeRefused(h)
      PROVE  RebateInv'
  BY <1>7, SMTT(30) DEF RedeemCode, RedeemCodeRefused
<1>8. ASSUME NEW h \in Handlers, ApplyRebate(h)
      PROVE  RebateInv'
  BY <1>8, SMTT(30) DEF ApplyRebate
<1>9. ASSUME NEW h \in Handlers, MarkCompleted(h)
      PROVE  RebateInv'
  BY <1>9, SMTT(30) DEF MarkCompleted
<1>10. ASSUME NEW h \in Handlers, MarkFailed(h)
      PROVE  RebateInv'
  BY <1>10, SMTT(30) DEF MarkFailed
<1>11. ASSUME NEW h \in Handlers, CallFails(h)
      PROVE  RebateInv'
  BY <1>11, SMTT(30) DEF CallFails
<1>12. ASSUME NEW h \in Handlers, Abort(h)
      PROVE  RebateInv'
  BY <1>12, SMTT(30) DEF Abort
<1>13. ASSUME NEW o \in Orders,
             Pay(o) \/ Timeout(o) \/ GraceElapses(o)
      PROVE  RebateInv'
  BY <1>13, SMTT(30) DEF Pay, Timeout, GraceElapses
<1>14. ASSUME NEW o \in Orders, RedeemAtEndpoint(o) \/ RewardAtEndpoint(o)
      PROVE  RebateInv'
  BY <1>14, SMTT(30) DEF RedeemAtEndpoint, RewardAtEndpoint
<1>15. CASE UNCHANGED vars
  BY <1>15 DEF vars, orderVars, ackVars, codeVars, rebateVars, envVars,
       moneyVars, handlerVars, faultVars
<1> QED
  BY <1>1, <1>2, <1>3, <1>4, <1>5, <1>6, <1>7, <1>8, <1>9, <1>10, <1>11,
       <1>12, <1>13, <1>14, <1>15 DEF Next, Step, Environment

-----------------------------------------------------------------------------
\* A handler gets to the confirmed part through ConfirmPayment, or through a
\* retry of an order that has paid_at.
LEMMA PaidStep ==
    ASSUME IInv, [Next]_vars PROVE PaidInv'
<1> USE ConstantsAssumption DEF IInv, TypeOK, PaidInv, CreateInv, Paid,
        Payable, UseCode, PCs, CreatePCs, ConfirmedPCs, FulfilPCs,
        Start, Goto, Stop, ReturnOk, ReturnError, Outcome,
        SetStatus, orderVars, ackVars, codeVars, rebateVars, envVars,
        moneyVars, handlerVars,
        faultVars
<1>1. ASSUME NEW h \in Handlers, NEW o \in Orders, Request(h, o)
      PROVE  PaidInv'
  BY <1>1, SMTT(30) DEF CreateOrder, CancelOrder, ExpireTimedOutOrder,
       VerifyOrder,
         ReconcilePendingOrder, Webhook, RetryFulfillment, RetryAllowed,
              Request
<1>2. ASSUME NEW h \in Handlers, InvokeProvider(h)
      PROVE  PaidInv'
  BY <1>2, SMTT(30) DEF InvokeProvider
<1>3. ASSUME NEW h \in Handlers,
             InvokeProviderFails(h) \/ InvokeProviderInDoubt(h) \/
             CreateOrderFails(h)
      PROVE  PaidInv'
  BY <1>3, SMTT(30) DEF InvokeProviderFails, InvokeProviderInDoubt,
       CreateOrderFails
<1>4. ASSUME NEW h \in Handlers,
             QueryFindsPaid(h) \/ QueryFindsUnpaid(h) \/
             QueryFails(h) \/ CancelUpstream(h) \/ PersistTradeNo(h)
      PROVE  PaidInv'
  BY <1>4, SMTT(30) DEF QueryFindsPaid, QueryFindsUnpaid, QueryFails,
       CancelUpstream, PersistTradeNo
<1>5. ASSUME NEW h \in Handlers, CloseOrder(h)
      PROVE  PaidInv'
  BY <1>5, SMTT(30) DEF CloseOrder
<1>6. ASSUME NEW h \in Handlers,
             ConfirmPayment(h) \/ RejectPayment(h) \/ NotificationUnread(h)
      PROVE  PaidInv'
  BY <1>6, SMTT(30) DEF ConfirmPayment, RejectPayment, NotificationUnread
<1>7. ASSUME NEW h \in Handlers, ToPaid(h)
      PROVE  PaidInv'
  BY <1>7, SMTT(30) DEF ToPaid
<1>8. ASSUME NEW h \in Handlers, AlreadyProcessed(h) \/
             AlreadyProcessedUnread(h)
      PROVE  PaidInv'
  BY <1>8, SMTT(30) DEF AlreadyProcessed, AlreadyProcessedUnread
<1>9. ASSUME NEW h \in Handlers, ResetForRetry(h)
      PROVE  PaidInv'
  BY <1>9, SMTT(30) DEF ResetForRetry
<1>10. ASSUME NEW h \in Handlers, CheckFulfillable(h)
      PROVE  PaidInv'
  BY <1>10, SMTT(30) DEF CheckFulfillable
<1>11. ASSUME NEW h \in Handlers, LockRecharging(h)
      PROVE  PaidInv'
  BY <1>11, SMTT(30) DEF LockRecharging
<1>12. ASSUME NEW h \in Handlers,
             ResolveRedeemAction(h) \/ CreateCode(h)
      PROVE  PaidInv'
  BY <1>12, SMTT(30) DEF ResolveRedeemAction, CreateCode
<1>13. ASSUME NEW h \in Handlers,
             RedeemCode(h) \/ RedeemCodeRefused(h)
      PROVE  PaidInv'
  BY <1>13, SMTT(30) DEF RedeemCode, RedeemCodeRefused
<1>14. ASSUME NEW h \in Handlers, ApplyRebate(h)
      PROVE  PaidInv'
  BY <1>14, SMTT(30) DEF ApplyRebate
<1>15. ASSUME NEW h \in Handlers, MarkCompleted(h)
      PROVE  PaidInv'
  BY <1>15, SMTT(30) DEF MarkCompleted
<1>16. ASSUME NEW h \in Handlers, MarkFailed(h)
      PROVE  PaidInv'
  BY <1>16, SMTT(30) DEF MarkFailed
<1>17. ASSUME NEW h \in Handlers,
             CallFails(h) \/ Abort(h)
      PROVE  PaidInv'
  BY <1>17, SMTT(30) DEF CallFails, Abort
<1>18. ASSUME NEW o \in Orders,
             Pay(o) \/ Timeout(o) \/ GraceElapses(o)
      PROVE  PaidInv'
  BY <1>18, SMTT(30) DEF Pay, Timeout, GraceElapses
<1>19. ASSUME NEW o \in Orders, RedeemAtEndpoint(o) \/ RewardAtEndpoint(o)
      PROVE  PaidInv'
  BY <1>19, SMTT(30) DEF RedeemAtEndpoint, RewardAtEndpoint
<1>20. CASE UNCHANGED vars
  BY <1>20 DEF vars, orderVars, ackVars, codeVars, rebateVars, envVars,
       moneyVars, handlerVars, faultVars
<1> QED
  BY <1>1, <1>2, <1>3, <1>4, <1>5, <1>6, <1>7, <1>8, <1>9, <1>10, <1>11,
       <1>12, <1>13, <1>14, <1>15, <1>16, <1>17, <1>18, <1>19, <1>20 DEF
       Next, Step, Environment

-----------------------------------------------------------------------------
\* CloseOrder only meets PENDING orders and CreateOrderFails only unpaid ones
\* (CreateInv with PaidInv).
LEMMA PaidAtStep ==
    ASSUME IInv, [Next]_vars PROVE PaidAtInv'
<1> USE ConstantsAssumption DEF IInv, TypeOK, PaidAtInv, PaidInv, CreateInv,
        LockInv, Paid, Payable, PCs, CreatePCs, ConfirmedPCs,
        FulfilPCs, Start, Goto, Stop, ReturnOk, ReturnError,
        Outcome, SetStatus, orderVars, ackVars, codeVars, rebateVars, envVars,
        moneyVars,
        handlerVars, faultVars
<1>1. ASSUME NEW h \in Handlers, NEW o \in Orders, Request(h, o)
      PROVE  PaidAtInv'
  BY <1>1, SMTT(30) DEF CreateOrder, CancelOrder, ExpireTimedOutOrder,
       VerifyOrder,
         ReconcilePendingOrder, Webhook, RetryFulfillment, RetryAllowed,
              Request
<1>2. ASSUME NEW h \in Handlers, InvokeProvider(h)
      PROVE  PaidAtInv'
  BY <1>2, SMTT(30) DEF InvokeProvider
<1>3. ASSUME NEW h \in Handlers,
             InvokeProviderFails(h) \/ InvokeProviderInDoubt(h) \/
             CreateOrderFails(h)
      PROVE  PaidAtInv'
  BY <1>3, SMTT(30) DEF InvokeProviderFails, InvokeProviderInDoubt,
       CreateOrderFails
<1>4. ASSUME NEW h \in Handlers,
             QueryFindsPaid(h) \/ QueryFindsUnpaid(h) \/
             QueryFails(h) \/ CancelUpstream(h) \/ PersistTradeNo(h)
      PROVE  PaidAtInv'
  BY <1>4, SMTT(30) DEF QueryFindsPaid, QueryFindsUnpaid, QueryFails,
       CancelUpstream, PersistTradeNo
<1>5. ASSUME NEW h \in Handlers, CloseOrder(h)
      PROVE  PaidAtInv'
  BY <1>5, SMTT(30) DEF CloseOrder
<1>6. ASSUME NEW h \in Handlers,
             ConfirmPayment(h) \/ RejectPayment(h) \/ NotificationUnread(h)
      PROVE  PaidAtInv'
  BY <1>6, SMTT(30) DEF ConfirmPayment, RejectPayment, NotificationUnread
<1>7. ASSUME NEW h \in Handlers, ToPaid(h)
      PROVE  PaidAtInv'
  BY <1>7, SMTT(30) DEF ToPaid
<1>8. ASSUME NEW h \in Handlers, AlreadyProcessed(h) \/
             AlreadyProcessedUnread(h)
      PROVE  PaidAtInv'
  BY <1>8, SMTT(30) DEF AlreadyProcessed, AlreadyProcessedUnread
<1>9. ASSUME NEW h \in Handlers, ResetForRetry(h)
      PROVE  PaidAtInv'
  BY <1>9, SMTT(30) DEF ResetForRetry
<1>10. ASSUME NEW h \in Handlers, CheckFulfillable(h)
      PROVE  PaidAtInv'
  BY <1>10, SMTT(30) DEF CheckFulfillable
<1>11. ASSUME NEW h \in Handlers, LockRecharging(h)
      PROVE  PaidAtInv'
  BY <1>11, SMTT(30) DEF LockRecharging
<1>12. ASSUME NEW h \in Handlers,
             ResolveRedeemAction(h) \/ CreateCode(h)
      PROVE  PaidAtInv'
  BY <1>12, SMTT(30) DEF ResolveRedeemAction, CreateCode
<1>13. ASSUME NEW h \in Handlers,
             RedeemCode(h) \/ RedeemCodeRefused(h)
      PROVE  PaidAtInv'
  BY <1>13, SMTT(30) DEF RedeemCode, RedeemCodeRefused
<1>14. ASSUME NEW h \in Handlers, ApplyRebate(h)
      PROVE  PaidAtInv'
  BY <1>14, SMTT(30) DEF ApplyRebate
<1>15. ASSUME NEW h \in Handlers, MarkCompleted(h)
      PROVE  PaidAtInv'
  BY <1>15, SMTT(30) DEF MarkCompleted
<1>16. ASSUME NEW h \in Handlers, MarkFailed(h)
      PROVE  PaidAtInv'
  BY <1>16, SMTT(30) DEF MarkFailed
<1>17. ASSUME NEW h \in Handlers,
             CallFails(h) \/ Abort(h)
      PROVE  PaidAtInv'
  BY <1>17, SMTT(30) DEF CallFails, Abort
<1>18. ASSUME NEW o \in Orders,
             Pay(o) \/ Timeout(o) \/ GraceElapses(o)
      PROVE  PaidAtInv'
  BY <1>18, SMTT(30) DEF Pay, Timeout, GraceElapses
<1>19. ASSUME NEW o \in Orders, RedeemAtEndpoint(o) \/ RewardAtEndpoint(o)
      PROVE  PaidAtInv'
  BY <1>19, SMTT(30) DEF RedeemAtEndpoint, RewardAtEndpoint
<1>20. CASE UNCHANGED vars
  BY <1>20 DEF vars, orderVars, ackVars, codeVars, rebateVars, envVars,
       moneyVars, handlerVars, faultVars
<1> QED
  BY <1>1, <1>2, <1>3, <1>4, <1>5, <1>6, <1>7, <1>8, <1>9, <1>10, <1>11,
       <1>12, <1>13, <1>14, <1>15, <1>16, <1>17, <1>18, <1>19, <1>20 DEF
       Next, Step, Environment

-----------------------------------------------------------------------------
\* An order is inserted once, and becomes payable when its request ends.
LEMMA CreateStep ==
    ASSUME IInv, [Next]_vars PROVE CreateInv'
<1> USE ConstantsAssumption DEF IInv, TypeOK, CreateInv, PaidInv, Paid,
        Payable, PCs, CreatePCs, ConfirmedPCs, FulfilPCs, Start,
        Goto, Stop, ReturnOk, ReturnError, Outcome, SetStatus,
        orderVars, ackVars, codeVars, rebateVars, envVars, moneyVars,
        handlerVars, faultVars
<1>1. ASSUME NEW h \in Handlers, NEW o \in Orders, Request(h, o)
      PROVE  CreateInv'
  BY <1>1, SMTT(30) DEF CreateOrder, CancelOrder, ExpireTimedOutOrder,
       VerifyOrder,
         ReconcilePendingOrder, Webhook, RetryFulfillment, RetryAllowed,
              Request
<1>2. ASSUME NEW h \in Handlers, InvokeProvider(h)
      PROVE  CreateInv'
  BY <1>2, SMTT(30) DEF InvokeProvider
<1>3. ASSUME NEW h \in Handlers,
             InvokeProviderFails(h) \/ InvokeProviderInDoubt(h) \/
             CreateOrderFails(h)
      PROVE  CreateInv'
  BY <1>3, SMTT(30) DEF InvokeProviderFails, InvokeProviderInDoubt,
       CreateOrderFails
<1>4. ASSUME NEW h \in Handlers,
             QueryFindsPaid(h) \/ QueryFindsUnpaid(h) \/
             QueryFails(h) \/ CancelUpstream(h) \/ PersistTradeNo(h)
      PROVE  CreateInv'
  BY <1>4, SMTT(30) DEF QueryFindsPaid, QueryFindsUnpaid, QueryFails,
       CancelUpstream, PersistTradeNo
<1>5. ASSUME NEW h \in Handlers, CloseOrder(h)
      PROVE  CreateInv'
  BY <1>5, SMTT(30) DEF CloseOrder
<1>6. ASSUME NEW h \in Handlers,
             ConfirmPayment(h) \/ RejectPayment(h) \/ NotificationUnread(h)
      PROVE  CreateInv'
  BY <1>6, SMTT(30) DEF ConfirmPayment, RejectPayment, NotificationUnread
<1>7. ASSUME NEW h \in Handlers, ToPaid(h)
      PROVE  CreateInv'
  BY <1>7, SMTT(30) DEF ToPaid
<1>8. ASSUME NEW h \in Handlers, AlreadyProcessed(h) \/
             AlreadyProcessedUnread(h)
      PROVE  CreateInv'
  BY <1>8, SMTT(30) DEF AlreadyProcessed, AlreadyProcessedUnread
<1>9. ASSUME NEW h \in Handlers, ResetForRetry(h)
      PROVE  CreateInv'
  BY <1>9, SMTT(30) DEF ResetForRetry
<1>10. ASSUME NEW h \in Handlers, CheckFulfillable(h)
      PROVE  CreateInv'
  BY <1>10, SMTT(30) DEF CheckFulfillable
<1>11. ASSUME NEW h \in Handlers, LockRecharging(h)
      PROVE  CreateInv'
  BY <1>11, SMTT(30) DEF LockRecharging
<1>12. ASSUME NEW h \in Handlers,
             ResolveRedeemAction(h) \/ CreateCode(h)
      PROVE  CreateInv'
  BY <1>12, SMTT(30) DEF ResolveRedeemAction, CreateCode
<1>13. ASSUME NEW h \in Handlers,
             RedeemCode(h) \/ RedeemCodeRefused(h)
      PROVE  CreateInv'
  BY <1>13, SMTT(30) DEF RedeemCode, RedeemCodeRefused
<1>14. ASSUME NEW h \in Handlers, ApplyRebate(h)
      PROVE  CreateInv'
  BY <1>14, SMTT(30) DEF ApplyRebate
<1>15. ASSUME NEW h \in Handlers, MarkCompleted(h)
      PROVE  CreateInv'
  BY <1>15, SMTT(30) DEF MarkCompleted
<1>16. ASSUME NEW h \in Handlers, MarkFailed(h)
      PROVE  CreateInv'
  BY <1>16, SMTT(30) DEF MarkFailed
<1>17. ASSUME NEW h \in Handlers,
             CallFails(h) \/ Abort(h)
      PROVE  CreateInv'
  BY <1>17, SMTT(30) DEF CallFails, Abort
<1>18. ASSUME NEW o \in Orders,
             Pay(o) \/ Timeout(o) \/ GraceElapses(o)
      PROVE  CreateInv'
  BY <1>18, SMTT(30) DEF Pay, Timeout, GraceElapses
<1>19. ASSUME NEW o \in Orders, RedeemAtEndpoint(o) \/ RewardAtEndpoint(o)
      PROVE  CreateInv'
  BY <1>19, SMTT(30) DEF RedeemAtEndpoint, RewardAtEndpoint
<1>20. CASE UNCHANGED vars
  BY <1>20 DEF vars, orderVars, ackVars, codeVars, rebateVars, envVars,
       moneyVars, handlerVars, faultVars
<1> QED
  BY <1>1, <1>2, <1>3, <1>4, <1>5, <1>6, <1>7, <1>8, <1>9, <1>10, <1>11,
       <1>12, <1>13, <1>14, <1>15, <1>16, <1>17, <1>18, <1>19, <1>20 DEF
       Next, Step, Environment

-----------------------------------------------------------------------------
\* LockRecharging needs a PAID or FAILED order, and while somebody fulfils it
\* the order is in neither status; nobody else moves it out of RECHARGING.
LEMMA LockStep ==
    ASSUME IInv, [Next]_vars PROVE LockInv'
<1> USE ConstantsAssumption DEF IInv, TypeOK, LockInv, OneFulfiller,
        Fulfilling, CreateInv, PaidInv, Paid, Payable, PCs,
        CreatePCs, ConfirmedPCs, FulfilPCs, Start, Goto, Stop,
        ReturnOk, ReturnError, Outcome, SetStatus, orderVars, ackVars,
        codeVars, rebateVars,
        envVars, moneyVars, handlerVars, faultVars
<1>1. ASSUME NEW h \in Handlers, NEW o \in Orders, Request(h, o)
      PROVE  LockInv'
  BY <1>1, SMTT(30) DEF CreateOrder, CancelOrder, ExpireTimedOutOrder,
       VerifyOrder,
         ReconcilePendingOrder, Webhook, RetryFulfillment, RetryAllowed,
              Request
<1>2. ASSUME NEW h \in Handlers, InvokeProvider(h)
      PROVE  LockInv'
  BY <1>2, SMTT(30) DEF InvokeProvider
<1>3. ASSUME NEW h \in Handlers,
             InvokeProviderFails(h) \/ InvokeProviderInDoubt(h) \/
             CreateOrderFails(h)
      PROVE  LockInv'
  BY <1>3, SMTT(30) DEF InvokeProviderFails, InvokeProviderInDoubt,
       CreateOrderFails
<1>4. ASSUME NEW h \in Handlers,
             QueryFindsPaid(h) \/ QueryFindsUnpaid(h) \/
             QueryFails(h) \/ CancelUpstream(h) \/ PersistTradeNo(h)
      PROVE  LockInv'
  BY <1>4, SMTT(30) DEF QueryFindsPaid, QueryFindsUnpaid, QueryFails,
       CancelUpstream, PersistTradeNo
<1>5. ASSUME NEW h \in Handlers, CloseOrder(h)
      PROVE  LockInv'
  BY <1>5, SMTT(30) DEF CloseOrder
<1>6. ASSUME NEW h \in Handlers,
             ConfirmPayment(h) \/ RejectPayment(h) \/ NotificationUnread(h)
      PROVE  LockInv'
  BY <1>6, SMTT(30) DEF ConfirmPayment, RejectPayment, NotificationUnread
<1>7. ASSUME NEW h \in Handlers, ToPaid(h)
      PROVE  LockInv'
  BY <1>7, SMTT(30) DEF ToPaid
<1>8. ASSUME NEW h \in Handlers, AlreadyProcessed(h) \/
             AlreadyProcessedUnread(h)
      PROVE  LockInv'
  BY <1>8, SMTT(30) DEF AlreadyProcessed, AlreadyProcessedUnread
<1>9. ASSUME NEW h \in Handlers, ResetForRetry(h)
      PROVE  LockInv'
  BY <1>9, SMTT(30) DEF ResetForRetry
<1>10. ASSUME NEW h \in Handlers, CheckFulfillable(h)
      PROVE  LockInv'
  BY <1>10, SMTT(30) DEF CheckFulfillable
<1>11. ASSUME NEW h \in Handlers, LockRecharging(h)
      PROVE  LockInv'
  BY <1>11, SMTT(30) DEF LockRecharging
<1>12. ASSUME NEW h \in Handlers,
             ResolveRedeemAction(h) \/ CreateCode(h)
      PROVE  LockInv'
  BY <1>12, SMTT(30) DEF ResolveRedeemAction, CreateCode
<1>13. ASSUME NEW h \in Handlers,
             RedeemCode(h) \/ RedeemCodeRefused(h)
      PROVE  LockInv'
  BY <1>13, SMTT(30) DEF RedeemCode, RedeemCodeRefused
<1>14. ASSUME NEW h \in Handlers, ApplyRebate(h)
      PROVE  LockInv'
  BY <1>14, SMTT(30) DEF ApplyRebate
<1>15. ASSUME NEW h \in Handlers, MarkCompleted(h)
      PROVE  LockInv'
  BY <1>15, SMTT(30) DEF MarkCompleted
<1>16. ASSUME NEW h \in Handlers, MarkFailed(h)
      PROVE  LockInv'
  BY <1>16, SMTT(30) DEF MarkFailed
<1>17. ASSUME NEW h \in Handlers,
             CallFails(h) \/ Abort(h)
      PROVE  LockInv'
  BY <1>17, SMTT(30) DEF CallFails, Abort
<1>18. ASSUME NEW o \in Orders,
             Pay(o) \/ Timeout(o) \/ GraceElapses(o)
      PROVE  LockInv'
  BY <1>18, SMTT(30) DEF Pay, Timeout, GraceElapses
<1>19. ASSUME NEW o \in Orders, RedeemAtEndpoint(o) \/ RewardAtEndpoint(o)
      PROVE  LockInv'
  BY <1>19, SMTT(30) DEF RedeemAtEndpoint, RewardAtEndpoint
<1>20. CASE UNCHANGED vars
  BY <1>20 DEF vars, orderVars, ackVars, codeVars, rebateVars, envVars,
       moneyVars, handlerVars, faultVars
<1> QED
  BY <1>1, <1>2, <1>3, <1>4, <1>5, <1>6, <1>7, <1>8, <1>9, <1>10, <1>11,
       <1>12, <1>13, <1>14, <1>15, <1>16, <1>17, <1>18, <1>19, <1>20 DEF
       Next, Step, Environment

-----------------------------------------------------------------------------
\* Each stage of a fulfilment leaves the evidence the next one relies on.
LEMMA SettleStep ==
    ASSUME IInv, [Next]_vars PROVE SettleInv'
<1> USE ConstantsAssumption DEF IInv, TypeOK, SettleInv, CompletedIsSettled,
        RebateInv, RebateClaimed, LockInv, OneFulfiller, Fulfilling,
        CreateInv, PaidInv, Paid, Payable, UseCode, PCs, CreatePCs,
        ConfirmedPCs, FulfilPCs, Start, Goto, Stop, ReturnOk,
        ReturnError, Outcome, SetStatus, orderVars, ackVars, codeVars,
        rebateVars, envVars,
        moneyVars, handlerVars, faultVars
<1>1. ASSUME NEW h \in Handlers, NEW o \in Orders, Request(h, o)
      PROVE  SettleInv'
  BY <1>1, SMTT(30) DEF CreateOrder, CancelOrder, ExpireTimedOutOrder,
       VerifyOrder,
         ReconcilePendingOrder, Webhook, RetryFulfillment, RetryAllowed,
              Request
<1>2. ASSUME NEW h \in Handlers, InvokeProvider(h)
      PROVE  SettleInv'
  BY <1>2, SMTT(30) DEF InvokeProvider
<1>3. ASSUME NEW h \in Handlers,
             InvokeProviderFails(h) \/ InvokeProviderInDoubt(h) \/
             CreateOrderFails(h)
      PROVE  SettleInv'
  BY <1>3, SMTT(30) DEF InvokeProviderFails, InvokeProviderInDoubt,
       CreateOrderFails
<1>4. ASSUME NEW h \in Handlers,
             QueryFindsPaid(h) \/ QueryFindsUnpaid(h) \/
             QueryFails(h) \/ CancelUpstream(h) \/ PersistTradeNo(h)
      PROVE  SettleInv'
  BY <1>4, SMTT(30) DEF QueryFindsPaid, QueryFindsUnpaid, QueryFails,
       CancelUpstream, PersistTradeNo
<1>5. ASSUME NEW h \in Handlers, CloseOrder(h)
      PROVE  SettleInv'
  BY <1>5, SMTT(30) DEF CloseOrder
<1>6. ASSUME NEW h \in Handlers,
             ConfirmPayment(h) \/ RejectPayment(h) \/ NotificationUnread(h)
      PROVE  SettleInv'
  BY <1>6, SMTT(30) DEF ConfirmPayment, RejectPayment, NotificationUnread
<1>7. ASSUME NEW h \in Handlers, ToPaid(h)
      PROVE  SettleInv'
  BY <1>7, SMTT(30) DEF ToPaid
<1>8. ASSUME NEW h \in Handlers, AlreadyProcessed(h) \/
             AlreadyProcessedUnread(h)
      PROVE  SettleInv'
  BY <1>8, SMTT(30) DEF AlreadyProcessed, AlreadyProcessedUnread
<1>9. ASSUME NEW h \in Handlers, ResetForRetry(h)
      PROVE  SettleInv'
  BY <1>9, SMTT(30) DEF ResetForRetry
<1>10. ASSUME NEW h \in Handlers, CheckFulfillable(h)
      PROVE  SettleInv'
  BY <1>10, SMTT(30) DEF CheckFulfillable
<1>11. ASSUME NEW h \in Handlers, LockRecharging(h)
      PROVE  SettleInv'
  BY <1>11, SMTT(30) DEF LockRecharging
<1>12. ASSUME NEW h \in Handlers,
             ResolveRedeemAction(h) \/ CreateCode(h)
      PROVE  SettleInv'
  BY <1>12, SMTT(30) DEF ResolveRedeemAction, CreateCode
<1>13. ASSUME NEW h \in Handlers,
             RedeemCode(h) \/ RedeemCodeRefused(h)
      PROVE  SettleInv'
  BY <1>13, SMTT(30) DEF RedeemCode, RedeemCodeRefused
<1>14. ASSUME NEW h \in Handlers, ApplyRebate(h)
      PROVE  SettleInv'
  BY <1>14, SMTT(30) DEF ApplyRebate
<1>15. ASSUME NEW h \in Handlers, MarkCompleted(h)
      PROVE  SettleInv'
  BY <1>15, SMTT(30) DEF MarkCompleted
<1>16. ASSUME NEW h \in Handlers, MarkFailed(h)
      PROVE  SettleInv'
  BY <1>16, SMTT(30) DEF MarkFailed
<1>17. ASSUME NEW h \in Handlers,
             CallFails(h) \/ Abort(h)
      PROVE  SettleInv'
  BY <1>17, SMTT(30) DEF CallFails, Abort
<1>18. ASSUME NEW o \in Orders,
             Pay(o) \/ Timeout(o) \/ GraceElapses(o)
      PROVE  SettleInv'
  BY <1>18, SMTT(30) DEF Pay, Timeout, GraceElapses
<1>19. ASSUME NEW o \in Orders, RedeemAtEndpoint(o) \/ RewardAtEndpoint(o)
      PROVE  SettleInv'
  BY <1>19, SMTT(30) DEF RedeemAtEndpoint, RewardAtEndpoint
<1>20. CASE UNCHANGED vars
  BY <1>20 DEF vars, orderVars, ackVars, codeVars, rebateVars, envVars,
       moneyVars, handlerVars, faultVars
<1> QED
  BY <1>1, <1>2, <1>3, <1>4, <1>5, <1>6, <1>7, <1>8, <1>9, <1>10, <1>11,
       <1>12, <1>13, <1>14, <1>15, <1>16, <1>17, <1>18, <1>19, <1>20 DEF
       Next, Step, Environment

-----------------------------------------------------------------------------

LEMMA InitIInv == Init => IInv
BY ConstantsAssumption
   DEF Init, IInv, TypeOK, Statuses, UpstreamStates, PCs, Ops, FulfilPCs,
       CreatePCs, ConfirmedPCs, CodeInv, RebateInv, RebateClaimed, PaidInv,
       Paid, PaidAtInv, CreateInv, LockInv, OneFulfiller, Fulfilling,
       SettleInv, CompletedIsSettled

LEMMA NextIInv == IInv /\ [Next]_vars => IInv'
BY TypeStep, CodeStep, RebateStep, PaidStep, PaidAtStep, CreateStep, LockStep,
   SettleStep DEF IInv

\* The inductive invariant holds in every reachable state.
THEOREM Invariance == Spec => []IInv
BY InitIInv, NextIInv, PTL DEF Spec

\* Every variable keeps its type.
THEOREM TypeCorrect == Spec => []TypeOK
<1>1. IInv => TypeOK
  BY DEF IInv
<1> QED
  BY <1>1, Invariance, PTL

\* However many notifications, queries, retries and redemptions there are,
\* and whichever of their calls fail, an order is credited at most once.
THEOREM CreditOnce == Spec => []CreditedAtMostOnce
<1>1. IInv => CreditedAtMostOnce
  <2> SUFFICES ASSUME IInv, NEW o \in Orders PROVE credits[o] <= 1
    BY DEF CreditedAtMostOnce
  <2>1. credits[o] = 0 \/ credits[o] = 1
    BY DEF IInv, CodeInv
  <2> QED
    BY <2>1
<1> QED
  BY <1>1, Invariance, PTL

\* Without the order's exact payment at the provider there is no credit, no
\* paid_at and no redeem code.
THEOREM CreditNeedsPayment == Spec => []CreditOnlyForPayment
<1>1. IInv => CreditOnlyForPayment
  BY DEF IInv, CodeInv, PaidInv, CreditOnlyForPayment
<1> QED
  BY <1>1, Invariance, PTL

\* A COMPLETED order is credited and its rebate decided.
THEOREM CompletionIsTruthful == Spec => []CompletedIsSettled
<1>1. IInv => CompletedIsSettled
  BY DEF IInv, SettleInv
<1> QED
  BY <1>1, Invariance, PTL

\* However often the fulfilment is retried, it rewards the inviter at most
\* once per order, as the audit row says; a second reward is the endpoint's
\* own, for a code the user redeemed there; and none comes before the credit.
THEOREM RebateOnce == Spec => []RebatesAreAccounted
<1>1. IInv => RebatesAreAccounted
  <2> SUFFICES ASSUME IInv, NEW o \in Orders, rebates[o] > 0
               PROVE  code[o] = "used"
    BY DEF IInv, RebateInv, RebatesAreAccounted
  <2>1. rebateLog[o] = "applied" \/ byHand[o] = "rewarded"
    BY DEF IInv, RebateInv
  <2> QED
    BY <2>1 DEF IInv, RebateInv, RebateClaimed
<1> QED
  BY <1>1, Invariance, PTL

\* RECHARGING is an exclusive lock on an order whose creation is not in doubt.
THEOREM FulfilmentIsExclusive == Spec => []OneFulfiller
<1>1. IInv => OneFulfiller
  BY DEF IInv, LockInv
<1> QED
  BY <1>1, Invariance, PTL

-----------------------------------------------------------------------------
CompletedKept ==
    \A q \in Orders :
        status[q] = "COMPLETED" =>
            \/ status'[q] = "COMPLETED"
            \/ status'[q] = "FAILED" /\ LateFailure(q)

\* No update of the status meets a COMPLETED order, MarkFailed after a lost
\* answer included, but that of a creation request that does not know better.
LEMMA CompletedStays ==
    ASSUME IInv, [Next]_vars PROVE CompletedKept
<1> USE ConstantsAssumption DEF CompletedKept, LateFailure, IInv, TypeOK,
LockInv, OneFulfiller,
        Fulfilling, CreateInv, PaidInv, Paid, Payable, PCs,
        CreatePCs, ConfirmedPCs, FulfilPCs, Start, Goto, Stop,
        ReturnOk, ReturnError, Outcome, SetStatus, orderVars, ackVars,
        codeVars, rebateVars,
        envVars, moneyVars, handlerVars, faultVars
<1>1. ASSUME NEW h \in Handlers, NEW o \in Orders, Request(h, o)
      PROVE  CompletedKept
  BY <1>1, SMTT(30) DEF CreateOrder, CancelOrder, ExpireTimedOutOrder,
       VerifyOrder,
         ReconcilePendingOrder, Webhook, RetryFulfillment, RetryAllowed,
              Request
<1>2. ASSUME NEW h \in Handlers,
             InvokeProvider(h) \/ InvokeProviderFails(h) \/
             InvokeProviderInDoubt(h) \/
             CreateOrderFails(h)
      PROVE  CompletedKept
  BY <1>2, SMTT(30) DEF InvokeProvider, InvokeProviderFails,
       InvokeProviderInDoubt, CreateOrderFails
<1>3. ASSUME NEW h \in Handlers,
             QueryFindsPaid(h) \/ QueryFindsUnpaid(h) \/
             QueryFails(h) \/ CancelUpstream(h) \/
             PersistTradeNo(h) \/ CloseOrder(h)
      PROVE  CompletedKept
  BY <1>3, SMTT(30) DEF QueryFindsPaid, QueryFindsUnpaid, QueryFails,
       CancelUpstream, PersistTradeNo, CloseOrder
<1>4. ASSUME NEW h \in Handlers,
             ConfirmPayment(h) \/ RejectPayment(h) \/ NotificationUnread(h) \/
             ToPaid(h) \/
             AlreadyProcessed(h) \/ AlreadyProcessedUnread(h)
      PROVE  CompletedKept
  BY <1>4, SMTT(30) DEF ConfirmPayment, RejectPayment, NotificationUnread,
       ToPaid,
       AlreadyProcessed, AlreadyProcessedUnread
<1>5. ASSUME NEW h \in Handlers,
             ResetForRetry(h) \/ CheckFulfillable(h) \/
             LockRecharging(h)
      PROVE  CompletedKept
  BY <1>5, SMTT(30) DEF ResetForRetry, CheckFulfillable, LockRecharging
<1>6. ASSUME NEW h \in Handlers,
             ResolveRedeemAction(h) \/ CreateCode(h) \/
             RedeemCode(h) \/ RedeemCodeRefused(h)
      PROVE  CompletedKept
  BY <1>6, SMTT(30) DEF ResolveRedeemAction, CreateCode, RedeemCode,
       RedeemCodeRefused
<1>7. ASSUME NEW h \in Handlers, ApplyRebate(h)
      PROVE  CompletedKept
  BY <1>7, SMTT(30) DEF ApplyRebate
<1>8. ASSUME NEW h \in Handlers, MarkCompleted(h)
      PROVE  CompletedKept
  BY <1>8, SMTT(30) DEF MarkCompleted
<1>9. ASSUME NEW h \in Handlers,
             MarkFailed(h) \/ CallFails(h) \/ Abort(h)
      PROVE  CompletedKept
  BY <1>9, SMTT(30) DEF MarkFailed, CallFails, Abort
<1>10. ASSUME NEW o \in Orders,
             Pay(o) \/ Timeout(o) \/ GraceElapses(o) \/
             RedeemAtEndpoint(o) \/ RewardAtEndpoint(o)
      PROVE  CompletedKept
  BY <1>10, SMTT(30) DEF Pay, Timeout, GraceElapses, RedeemAtEndpoint,
       RewardAtEndpoint
<1>11. CASE UNCHANGED vars
  BY <1>11 DEF vars, orderVars, ackVars, codeVars, rebateVars, envVars,
       moneyVars, handlerVars, faultVars
<1> QED
  BY <1>1, <1>2, <1>3, <1>4, <1>5, <1>6, <1>7, <1>8, <1>9, <1>10, <1>11 DEF
       Next, Step, Environment

-----------------------------------------------------------------------------
\* paid_at is never cleared.
LEMMA PaidAtStays ==
    ASSUME IInv, [Next]_vars PROVE (paidAt \subseteq paidAt')
<1> USE ConstantsAssumption DEF IInv, TypeOK, FulfilPCs, Start, Goto, Stop,
        ReturnOk, ReturnError, Outcome, SetStatus, orderVars, ackVars,
        codeVars, rebateVars,
        envVars, moneyVars, handlerVars, faultVars
<1>1. ASSUME NEW h \in Handlers, NEW o \in Orders, Request(h, o)
      PROVE  (paidAt \subseteq paidAt')
  BY <1>1, SMTT(30) DEF CreateOrder, CancelOrder, ExpireTimedOutOrder,
       VerifyOrder,
         ReconcilePendingOrder, Webhook, RetryFulfillment, RetryAllowed,
              Request
<1>2. ASSUME NEW h \in Handlers,
             InvokeProvider(h) \/ InvokeProviderFails(h) \/
             InvokeProviderInDoubt(h) \/
             CreateOrderFails(h) \/ QueryFindsPaid(h) \/
             QueryFindsUnpaid(h) \/ QueryFails(h) \/
             CancelUpstream(h) \/ PersistTradeNo(h) \/
             CloseOrder(h) \/ ConfirmPayment(h) \/ RejectPayment(h) \/
             NotificationUnread(h) \/
             ToPaid(h) \/ AlreadyProcessed(h) \/ AlreadyProcessedUnread(h) \/
             ResetForRetry(h) \/
             CheckFulfillable(h) \/ LockRecharging(h) \/
             ResolveRedeemAction(h) \/ CreateCode(h) \/
             RedeemCode(h) \/ RedeemCodeRefused(h) \/
             ApplyRebate(h) \/ MarkCompleted(h) \/ MarkFailed(h) \/
             CallFails(h) \/ Abort(h)
      PROVE  (paidAt \subseteq paidAt')
  BY <1>2, SMTT(30) DEF InvokeProvider, InvokeProviderFails,
       InvokeProviderInDoubt,
       CreateOrderFails, QueryFindsPaid, QueryFindsUnpaid, QueryFails,
       CancelUpstream, PersistTradeNo, CloseOrder, ConfirmPayment,
       RejectPayment, NotificationUnread, ToPaid, AlreadyProcessed,
       AlreadyProcessedUnread, ResetForRetry,
       CheckFulfillable, LockRecharging, ResolveRedeemAction, CreateCode,
       RedeemCode, RedeemCodeRefused, ApplyRebate, MarkCompleted, MarkFailed,
       CallFails, Abort
<1>3. ASSUME NEW o \in Orders,
             Pay(o) \/ Timeout(o) \/ GraceElapses(o) \/
             RedeemAtEndpoint(o) \/ RewardAtEndpoint(o)
      PROVE  (paidAt \subseteq paidAt')
  BY <1>3, SMTT(30) DEF Pay, Timeout, GraceElapses, RedeemAtEndpoint,
       RewardAtEndpoint
<1>4. CASE UNCHANGED vars
  BY <1>4 DEF vars, orderVars, ackVars, codeVars, rebateVars, envVars,
       moneyVars, handlerVars, faultVars
<1> QED
  BY <1>1, <1>2, <1>3, <1>4 DEF Next, Step, Environment

\* What was confirmed is never taken back: a paid order is not closed or
\* reopened, a completed one stays completed unless its creation was in doubt.
THEOREM PaymentKept == Spec => PaymentIsNotLost
<1>1. IInv /\ [Next]_vars =>
         [\A o \in Orders :
            /\ o \in paidAt => o \in paidAt'
            /\ o \in paidAt => status'[o] \in {"PAID", "RECHARGING",
                                               "COMPLETED", "FAILED"}
            /\ status[o] = "COMPLETED" =>
                 \/ status'[o] = "COMPLETED"
                 \/ status'[o] = "FAILED" /\ LateFailure(o)]_vars
  <2> SUFFICES ASSUME IInv, [Next]_vars, NEW o \in Orders
               PROVE  /\ o \in paidAt => o \in paidAt'
                      /\ o \in paidAt' =>
                           status'[o] \in {"PAID", "RECHARGING", "COMPLETED",
                                           "FAILED"}
                      /\ status[o] = "COMPLETED" =>
                           \/ status'[o] = "COMPLETED"
                           \/ status'[o] = "FAILED" /\ LateFailure(o)
    OBVIOUS
  <2>1. PaidAtInv'
    BY PaidAtStep
  <2> QED
    BY <2>1, PaidAtStays, CompletedStays DEF PaidAtInv, CompletedKept
<1> QED
  BY <1>1, Invariance, PTL DEF Spec, PaymentIsNotLost

-----------------------------------------------------------------------------
(* Refinement *)

Payments    == {o \in Orders : Paid(o)}
Completions == {o \in Orders : status[o] = "COMPLETED"}

Redemptions == {o \in Orders : byHand[o] # "none"}

LedgerUnchanged ==
    UNCHANGED <<Payments, credits, rebates, Completions, Redemptions,
    doubtful>>

\* A ledger entry for one order, or none.
LedgerStep ==
    \/ \E o \in Orders : \/ Ledger!Doubt(o)   \/ Ledger!Receive(o)
                         \/ Ledger!Credit(o)  \/ Ledger!Reward(o)
                         \/ Ledger!Complete(o) \/ Ledger!Withdraw(o)
    \/ LedgerUnchanged

\* Each kind of entry, for one order, is a step of the ledger.
LEMMA EntryIsLedgerStep ==
    ASSUME NEW o \in Orders,
           \/ Ledger!Doubt(o)    \/ Ledger!Receive(o) \/ Ledger!Credit(o)
           \/ Ledger!Reward(o)   \/ Ledger!Complete(o)
           \/ Ledger!Withdraw(o)
    PROVE  LedgerStep
BY DEF LedgerStep

-----------------------------------------------------------------------------
\* The entries: a doubtful creation is Doubt, Pay is Receive, a redemption is
\* Credit, ApplyRebate with an accrual and RewardAtEndpoint are Reward,
\* MarkCompleted is Complete, a late creation failure of a completed order is
\* Withdraw; nothing else shows.
LEMMA EachStepIsLedgerStep ==
    ASSUME IInv, [Next]_vars PROVE LedgerStep
<1> USE ConstantsAssumption DEF IInv, TypeOK, LedgerStep, LedgerUnchanged,
        Payments, Completions, Redemptions, CodeInv, RebateInv, RebateClaimed,
        SettleInv, CompletedIsSettled, LockInv, OneFulfiller,
        Fulfilling, CreateInv, PaidInv, Paid, Payable, UseCode, PCs,
        CreatePCs, ConfirmedPCs, FulfilPCs, Start, Goto, Stop,
        ReturnOk, ReturnError, Outcome, SetStatus, orderVars, ackVars,
        codeVars, rebateVars,
        envVars, moneyVars, handlerVars, faultVars
<1>1. ASSUME NEW h \in Handlers, NEW o \in Orders, Request(h, o)
      PROVE  LedgerStep
  BY <1>1, SMTT(30) DEF CreateOrder, CancelOrder, ExpireTimedOutOrder,
       VerifyOrder,
         ReconcilePendingOrder, Webhook, RetryFulfillment, RetryAllowed,
              Request
<1>2. ASSUME NEW h \in Handlers,
             InvokeProvider(h) \/ InvokeProviderFails(h)
      PROVE  LedgerStep
  BY <1>2, SMTT(30) DEF InvokeProvider, InvokeProviderFails
<1>3. ASSUME NEW h \in Handlers,
             QueryFindsPaid(h) \/ QueryFindsUnpaid(h) \/
             QueryFails(h) \/ CancelUpstream(h) \/
             PersistTradeNo(h) \/ CloseOrder(h)
      PROVE  LedgerStep
  BY <1>3, SMTT(30) DEF QueryFindsPaid, QueryFindsUnpaid, QueryFails,
       CancelUpstream, PersistTradeNo, CloseOrder
<1>4. ASSUME NEW h \in Handlers,
             ConfirmPayment(h) \/ RejectPayment(h) \/ NotificationUnread(h) \/
             ToPaid(h) \/
             AlreadyProcessed(h) \/ AlreadyProcessedUnread(h)
      PROVE  LedgerStep
  BY <1>4, SMTT(30) DEF ConfirmPayment, RejectPayment, NotificationUnread,
       ToPaid,
       AlreadyProcessed, AlreadyProcessedUnread
<1>5. ASSUME NEW h \in Handlers,
             ResetForRetry(h) \/ CheckFulfillable(h) \/
             LockRecharging(h)
      PROVE  LedgerStep
  BY <1>5, SMTT(30) DEF ResetForRetry, CheckFulfillable, LockRecharging
<1>6. ASSUME NEW h \in Handlers,
             ResolveRedeemAction(h) \/ CreateCode(h) \/
             RedeemCodeRefused(h)
      PROVE  LedgerStep
  BY <1>6, SMTT(30) DEF ResolveRedeemAction, CreateCode, RedeemCodeRefused
<1>7. ASSUME NEW h \in Handlers,
             MarkFailed(h) \/ CallFails(h) \/ Abort(h)
      PROVE  LedgerStep
  BY <1>7, SMTT(30) DEF MarkFailed, CallFails, Abort
<1>8. ASSUME NEW o \in Orders,
             Timeout(o) \/ GraceElapses(o)
      PROVE  LedgerStep
  BY <1>8, SMTT(30) DEF Timeout, GraceElapses
<1>9. ASSUME NEW h \in Handlers, NEW o \in Orders, o = ord[h], RedeemCode(h)
      PROVE  LedgerStep
  <2>1. credits[o] = 0 /\ credits'[o] = 1 /\ Paid(o)
    BY <1>9 DEF RedeemCode
  <2>2. Redemptions' = Redemptions /\ Payments' = Payments
    BY <1>9 DEF RedeemCode
  <2>3. Ledger!Credit(o)
    BY <1>9, <2>1, <2>2 DEF RedeemCode, Ledger!Credit
  <2> QED
    BY <2>3, EntryIsLedgerStep
<1>10. ASSUME NEW o \in Orders, RedeemAtEndpoint(o)
      PROVE  LedgerStep
  <2>1. credits[o] = 0 /\ credits'[o] = 1 /\ Paid(o)
    BY <1>10 DEF RedeemAtEndpoint
  <2>2. Redemptions' = Redemptions \cup {o}
    BY <1>10 DEF RedeemAtEndpoint
  <2>3. Ledger!Credit(o)
    BY <1>10, <2>1, <2>2 DEF RedeemAtEndpoint, Ledger!Credit
  <2> QED
    BY <1>10, <2>3 DEF RedeemAtEndpoint
<1>11. ASSUME NEW h \in Handlers, ApplyRebate(h)
      PROVE  LedgerStep
  BY <1>11, SMTT(30) DEF ApplyRebate, Ledger!Reward
<1>12. ASSUME NEW h \in Handlers, MarkCompleted(h)
      PROVE  LedgerStep
  BY <1>12, SMTT(30) DEF MarkCompleted, Ledger!Complete
<1>13. ASSUME NEW o \in Orders, Pay(o)
      PROVE  LedgerStep
  BY <1>13, SMTT(30) DEF Pay, Ledger!Receive
<1>14. ASSUME NEW h \in Handlers, NEW o \in Orders, o = ord[h],
              InvokeProviderInDoubt(h)
      PROVE  LedgerStep
  <2>1. Ledger!Doubt(o)
    BY <1>14, SMTT(30) DEF InvokeProviderInDoubt, Ledger!Doubt
  <2> QED
    BY <2>1, EntryIsLedgerStep
<1>15. ASSUME NEW h \in Handlers, NEW o \in Orders, o = ord[h],
              CreateOrderFails(h)
      PROVE  LedgerStep
  <2>1. CASE status[o] = "COMPLETED"
    <3>1. Ledger!Withdraw(o)
      BY <1>15, <2>1, SMTT(30) DEF CreateOrderFails, Ledger!Withdraw
    <3> QED
      BY <3>1, EntryIsLedgerStep
  <2>2. CASE status[o] # "COMPLETED"
    BY <1>15, <2>2, SMTT(30) DEF CreateOrderFails
  <2> QED
    BY <2>1, <2>2
<1>16. ASSUME NEW o \in Orders, RewardAtEndpoint(o)
      PROVE  LedgerStep
  <2>1. Ledger!Reward(o)
    BY <1>16, SMTT(30) DEF RewardAtEndpoint, Ledger!Reward
  <2> QED
    BY <1>16, <2>1 DEF RewardAtEndpoint
<1>17. CASE UNCHANGED vars
  BY <1>17 DEF vars, orderVars, ackVars, codeVars, rebateVars, envVars,
       moneyVars, handlerVars, faultVars
<1>18. \A h \in Handlers :
          RedeemCode(h) \/ InvokeProviderInDoubt(h) \/ CreateOrderFails(h)
            => ord[h] \in Orders
  BY DEF RedeemCode, InvokeProviderInDoubt, CreateOrderFails
<1> QED
  BY <1>1, <1>2, <1>3, <1>4, <1>5, <1>6, <1>7, <1>8, <1>9, <1>10, <1>11,
       <1>12, <1>13, <1>14, <1>15, <1>16, <1>17, <1>18 DEF Next, Step,
       Environment

\* The order service implements the ledger.
THEOREM LedgerImplemented == Spec => ImplementsLedger
<1>1. Init => Ledger!LedgerInit
  BY DEF Init, Paid, Ledger!LedgerInit
<1>2. IInv /\ [Next]_vars => [Ledger!LedgerNext]_Ledger!ledgerVars
  BY EachStepIsLedgerStep
     DEF LedgerStep, LedgerUnchanged, Payments, Completions, Redemptions,
         Ledger!LedgerNext, Ledger!ledgerVars
<1> QED
  BY <1>1, <1>2, Invariance, PTL
     DEF Spec, ImplementsLedger, Ledger!LedgerSpec
=============================================================================
