---------------------------- MODULE PaymentOrder ----------------------------
(***************************************************************************)
(* The life of a balance top-up order of the payment service: creation,    *)
(* payment at the upstream provider, webhook and active query, cancel and  *)
(* expiry, fulfilment through a redeem code, affiliate rebate, admin retry *)
(* (payment_fulfillment.go, payment_order_lifecycle.go, payment_order.go). *)
(*                                                                         *)
(* Every HTTP request and every background sweep is a handler: a goroutine *)
(* that performs one database or provider call per step, so the steps of   *)
(* several handlers interleave between any two calls.  A row of            *)
(* payment_orders is status, paidAt, overdue and stale.                    *)
(***************************************************************************)
EXTENDS Naturals

CONSTANTS
    Orders,         \* the orders
    Handlers,       \* the goroutines that may run at the same time
    NoOrder,        \* the order of an idle handler
    MaxErrors,      \* bound: calls of a fulfilment that return an error
    MaxAborts       \* bound: handlers that die, or lose their context, midway

ASSUME ConstantsAssumption ==
    /\ NoOrder \notin Orders
    /\ MaxErrors \in Nat
    /\ MaxAborts \in Nat

VARIABLES
    status,         \* payment_orders.status, "ABSENT" before the insert
    paidAt,         \* orders whose paid_at is set
    overdue,        \* orders whose expires_at has passed
    stale,          \* orders whose updated_at is before the grace period
    upstream,       \* the payment at the provider
    acked,          \* orders whose notification the provider got a 2xx for
    unread,         \* history: orders with a 2xx for a notification not read
    doubtful,       \* history: orders reported as not created that exist there
    code,           \* redeem_codes row that carries the order's recharge code
    credits,        \* history: times the order's amount was added to a balance
    rebateLog,      \* AFFILIATE_REBATE_APPLIED / _SKIPPED audit row
    rebates,        \* history: times a rebate was accrued for the order
    byHand,         \* how far the redeem endpoint got with the order's code
    pc, op, ord,    \* what each handler does next, for which request and order
    errors, aborts  \* faults so far

orderVars   == <<status, paidAt, overdue, stale>>
ackVars     == <<acked, unread>>
envVars     == <<upstream, ackVars, doubtful>>
codeVars    == <<code, credits, byHand>>
rebateVars  == <<rebateLog, rebates>>
moneyVars   == <<codeVars, rebateVars>>
handlerVars == <<pc, op, ord>>
faultVars   == <<errors, aborts>>
vars == <<orderVars, envVars, moneyVars, handlerVars, faultVars>>

Statuses == {"ABSENT", "PENDING", "PAID", "RECHARGING", "COMPLETED",
             "EXPIRED", "CANCELLED", "FAILED"}

\* "mispaid": the user paid another amount than the order's.
UpstreamStates == {"none", "open", "paid", "mispaid", "closed"}

Ops == {"none", "create", "webhook", "cancel", "expire", "verify", "retry"}

\* Where a handler that owns the order's RECHARGING status can be.
FulfilPCs == {"getCode", "createCode", "redeem", "rebate", "complete",
              "markFailed"}

CreatePCs == {"invoke", "setFailed"}

PCs == {"idle", "query", "cancelUpstream", "tradeNo", "close", "notify",
        "toPaid", "already", "reset", "fulfil", "lock"}
          \cup FulfilPCs \cup CreatePCs

TypeOK ==
    /\ status    \in [Orders -> Statuses]
    /\ paidAt    \in SUBSET Orders
    /\ overdue   \in SUBSET Orders
    /\ stale     \in SUBSET Orders
    /\ upstream  \in [Orders -> UpstreamStates]
    /\ acked     \in SUBSET Orders
    /\ unread    \in SUBSET Orders
    /\ doubtful  \in SUBSET Orders
    /\ code      \in [Orders -> {"absent", "unused", "used"}]
    /\ credits   \in [Orders -> Nat]
    /\ rebateLog \in [Orders -> {"none", "applied", "skipped"}]
    /\ rebates   \in [Orders -> Nat]
    /\ byHand    \in [Orders -> {"none", "credited", "rewarded"}]
    /\ pc        \in [Handlers -> PCs]
    /\ op        \in [Handlers -> Ops]
    /\ ord       \in [Handlers -> Orders \cup {NoOrder}]
    /\ \A h \in Handlers : pc[h] # "idle" => ord[h] \in Orders
    /\ errors    \in 0 .. MaxErrors
    /\ aborts    \in 0 .. MaxAborts

Init ==
    /\ status    = [o \in Orders |-> "ABSENT"]
    /\ paidAt    = {}
    /\ overdue   = {}
    /\ stale     = {}
    /\ upstream  = [o \in Orders |-> "none"]
    /\ acked     = {}
    /\ unread    = {}
    /\ doubtful  = {}
    /\ code      = [o \in Orders |-> "absent"]
    /\ credits   = [o \in Orders |-> 0]
    /\ rebateLog = [o \in Orders |-> "none"]
    /\ rebates   = [o \in Orders |-> 0]
    /\ byHand    = [o \in Orders |-> "none"]
    /\ pc        = [h \in Handlers |-> "idle"]
    /\ op        = [h \in Handlers |-> "none"]
    /\ ord       = [h \in Handlers |-> NoOrder]
    /\ errors    = 0
    /\ aborts    = 0

-----------------------------------------------------------------------------
(* Steps of a handler *)

Start(h, o, request, first) ==
    /\ pc[h] = "idle"
    /\ pc'  = [pc EXCEPT ![h] = first]
    /\ op'  = [op EXCEPT ![h] = request]
    /\ ord' = [ord EXCEPT ![h] = o]

Goto(h, next) ==
    /\ pc' = [pc EXCEPT ![h] = next]
    /\ UNCHANGED <<op, ord>>

Stop(h) ==
    /\ pc'  = [pc EXCEPT ![h] = "idle"]
    /\ op'  = [op EXCEPT ![h] = "none"]
    /\ ord' = [ord EXCEPT ![h] = NoOrder]

\* The handler returns nil; a webhook then answers 2xx.
ReturnOk(h) ==
    /\ Stop(h)
    /\ acked' = acked \cup (IF op[h] = "webhook" THEN {ord[h]} ELSE {})
    /\ UNCHANGED unread

\* The handler returns an error; a webhook then answers 500.
ReturnError(h) ==
    /\ Stop(h)
    /\ UNCHANGED ackVars

\* A call of the fulfilment returned: it goes on, or it reports an error and
\* the order is marked FAILED.
Outcome(h, next) ==
    \/ /\ Goto(h, next)
       /\ UNCHANGED faultVars
    \/ /\ errors < MaxErrors
       /\ errors' = errors + 1
       /\ Goto(h, "markFailed")
       /\ UNCHANGED aborts

\* An UPDATE of the row; ent refreshes updated_at with it.
SetStatus(o, s) ==
    /\ status' = [status EXCEPT ![o] = s]
    /\ stale'  = stale \ {o}

-----------------------------------------------------------------------------
(* CreateOrder *)

\* createOrderInTx commits the PENDING row with its recharge code.
CreateOrder(h, o) ==
    /\ status[o] = "ABSENT"
    /\ Start(h, o, "create", "invoke")
    /\ SetStatus(o, "PENDING")
    /\ UNCHANGED <<paidAt, overdue, envVars, moneyVars, faultVars>>

\* invokeProvider succeeded and its payment details are persisted: the user
\* gets the means to pay.
InvokeProvider(h) ==
    /\ pc[h] = "invoke"
    /\ upstream' = [upstream EXCEPT ![ord[h]] = "open"]
    /\ SetStatus(ord[h], status[ord[h]])
    /\ Stop(h)
    /\ UNCHANGED <<paidAt, overdue, ackVars, doubtful, moneyVars, faultVars>>

\* invokeProvider fails before the provider has the order.
InvokeProviderFails(h) ==
    /\ pc[h] = "invoke"
    /\ Goto(h, "setFailed")
    /\ UNCHANGED <<orderVars, envVars, moneyVars, faultVars>>

\* invokeProvider fails although the provider has the order: the answer is
\* lost, or the payment details cannot be saved, or saving them looks failed.
InvokeProviderInDoubt(h) ==
    /\ pc[h] = "invoke"
    /\ upstream' = [upstream EXCEPT ![ord[h]] = "open"]
    /\ doubtful' = doubtful \cup {ord[h]}
    /\ \/ SetStatus(ord[h], status[ord[h]])
       \/ UNCHANGED <<status, stale>>
    /\ Goto(h, "setFailed")
    /\ UNCHANGED <<paidAt, overdue, ackVars, moneyVars, faultVars>>

\* The status is set whatever it is now, and paid_at is not.
CreateOrderFails(h) ==
    /\ pc[h] = "setFailed"
    /\ SetStatus(ord[h], "FAILED")
    /\ Stop(h)
    /\ UNCHANGED <<paidAt, overdue, envVars, moneyVars, faultVars>>

-----------------------------------------------------------------------------
(* Cancel, expiry, active query *)

CancelOrder(h, o) ==
    /\ status[o] = "PENDING"
    /\ Start(h, o, "cancel", "query")
    /\ UNCHANGED <<orderVars, envVars, moneyVars, faultVars>>

ExpireTimedOutOrder(h, o) ==
    /\ status[o] = "PENDING" /\ o \in overdue
    /\ Start(h, o, "expire", "query")
    /\ UNCHANGED <<orderVars, envVars, moneyVars, faultVars>>

VerifyOrder(h, o) ==
    /\ status[o] \in {"PENDING", "EXPIRED"}
    /\ Start(h, o, "verify", "query")
    /\ UNCHANGED <<orderVars, envVars, moneyVars, faultVars>>

ReconcilePendingOrder(h, o) ==
    /\ status[o] = "PENDING" /\ o \notin overdue
    /\ Start(h, o, "verify", "query")
    /\ UNCHANGED <<orderVars, envVars, moneyVars, faultVars>>

\* checkPaid found the order paid; a trade number it did not know is stored
\* before the notification is handled.
QueryFindsPaid(h) ==
    /\ pc[h] = "query"
    /\ upstream[ord[h]] \in {"paid", "mispaid"}
    /\ \E next \in {"tradeNo", "notify"} : Goto(h, next)
    /\ UNCHANGED <<orderVars, envVars, moneyVars, faultVars>>

\* checkPaid found the order unpaid: a cancel or an expiry withdraws the
\* payment at the provider, a verification has nothing more to do.
QueryFindsUnpaid(h) ==
    /\ pc[h] = "query"
    /\ upstream[ord[h]] \notin {"paid", "mispaid"}
    /\ IF op[h] = "verify" THEN Stop(h) ELSE Goto(h, "cancelUpstream")
    /\ UNCHANGED <<orderVars, envVars, moneyVars, faultVars>>

\* The provider cannot be queried, or answers with an invalid amount twice.
QueryFails(h) ==
    /\ pc[h] = "query"
    /\ IF op[h] = "verify" THEN Stop(h) ELSE Goto(h, "close")
    /\ UNCHANGED <<orderVars, envVars, moneyVars, faultVars>>

\* The result of CancelPayment is ignored.
CancelUpstream(h) ==
    /\ pc[h] = "cancelUpstream"
    /\ \/ /\ upstream[ord[h]] = "open"
          /\ upstream' = [upstream EXCEPT ![ord[h]] = "closed"]
       \/ UNCHANGED upstream
    /\ Goto(h, "close")
    /\ UNCHANGED <<orderVars, ackVars, doubtful, moneyVars, faultVars>>

\* An update without a condition on the status: it also renews updated_at.
PersistTradeNo(h) ==
    /\ pc[h] = "tradeNo"
    /\ \/ SetStatus(ord[h], status[ord[h]])
       \/ UNCHANGED <<status, stale>>
    /\ Goto(h, "notify")
    /\ UNCHANGED <<paidAt, overdue, envVars, moneyVars, faultVars>>

\* Only a PENDING order is closed; otherwise nothing is written.
CloseOrder(h) ==
    /\ pc[h] = "close"
    /\ IF status[ord[h]] = "PENDING"
         THEN SetStatus(ord[h], IF op[h] = "expire" THEN "EXPIRED"
                                                    ELSE "CANCELLED")
         ELSE UNCHANGED <<status, stale>>
    /\ Stop(h)
    /\ UNCHANGED <<paidAt, overdue, envVars, moneyVars, faultVars>>

-----------------------------------------------------------------------------
(* Payment notification *)

\* The provider delivers a success notification, any number of times.
Webhook(h, o) ==
    /\ upstream[o] \in {"paid", "mispaid"}
    /\ Start(h, o, "webhook", "notify")
    /\ UNCHANGED <<orderVars, envVars, moneyVars, faultVars>>

\* Mutant of ConfirmPayment: the amount is not compared.
ConfirmAnyAmount(h) ==
    /\ pc[h] = "notify"
    /\ Goto(h, "toPaid")
    /\ UNCHANGED <<orderVars, envVars, moneyVars, faultVars>>

\* confirmPayment checks the amount against the order's.
ConfirmPayment(h) ==
    /\ pc[h] = "notify"
    /\ upstream[ord[h]] = "paid"
    /\ Goto(h, "toPaid")
    /\ UNCHANGED <<orderVars, envVars, moneyVars, faultVars>>

RejectPayment(h) ==
    /\ pc[h] = "notify"
    /\ upstream[ord[h]] # "paid"
    /\ ReturnError(h)
    /\ UNCHANGED <<orderVars, upstream, doubtful, moneyVars, faultVars>>

\* A read fails before the order is known: handleNotify answers 2xx when the
\* providers cannot be loaded (400 for WeChat Pay), confirmPayment returns nil
\* when it cannot read the order, and a failed lookup by number is a 500.
NotificationUnread(h) ==
    /\ pc[h] = "notify"
    /\ errors < MaxErrors
    /\ errors' = errors + 1
    /\ \/ ReturnError(h)
       \/ /\ Stop(h)
          /\ op[h] = "webhook"
          /\ acked' = acked \cup {ord[h]}
          /\ unread' = unread \cup {ord[h]}
    /\ UNCHANGED <<orderVars, upstream, doubtful, moneyVars, aborts>>

\* Mutant of Payable: a cancelled order cannot be recovered.
PayableIfNotCancelled(o) ==
    \/ status[o] = "PENDING"
    \/ status[o] = "EXPIRED" /\ o \notin stale

Payable(o) ==
    \/ status[o] \in {"PENDING", "CANCELLED"}
    \/ status[o] = "EXPIRED" /\ o \notin stale

ToPaid(h) ==
    /\ pc[h] = "toPaid"
    /\ IF Payable(ord[h])
         THEN /\ SetStatus(ord[h], "PAID")
              /\ paidAt' = paidAt \cup {ord[h]}
              /\ Goto(h, "fulfil")
         ELSE /\ Goto(h, "already")
              /\ UNCHANGED <<status, paidAt, stale>>
    /\ UNCHANGED <<overdue, envVars, moneyVars, faultVars>>

AlreadyProcessed(h) ==
    /\ pc[h] = "already"
    /\ \/ /\ status[ord[h]] = "FAILED"
          /\ Goto(h, "fulfil")
          /\ UNCHANGED ackVars
       \/ /\ status[ord[h]] \in {"PAID", "RECHARGING"}
          /\ ReturnError(h)
       \/ /\ status[ord[h]] \notin {"FAILED", "PAID", "RECHARGING"}
          /\ ReturnOk(h)
    /\ UNCHANGED <<orderVars, upstream, doubtful, moneyVars, faultVars>>

\* A failed read of the order counts as nothing left to do.
AlreadyProcessedUnread(h) ==
    /\ pc[h] = "already"
    /\ errors < MaxErrors
    /\ errors' = errors + 1
    /\ ReturnOk(h)
    /\ UNCHANGED <<orderVars, upstream, doubtful, moneyVars, aborts>>

-----------------------------------------------------------------------------
(* Fulfilment *)

RetryAllowed(o) == o \in paidAt /\ status[o] \in {"FAILED", "PAID"}

RetryFulfillment(h, o) ==
    /\ RetryAllowed(o)
    /\ Start(h, o, "retry", "reset")
    /\ UNCHANGED <<orderVars, envVars, moneyVars, faultVars>>

\* The number of updated rows is not looked at.
ResetForRetry(h) ==
    /\ pc[h] = "reset"
    /\ IF status[ord[h]] \in {"FAILED", "PAID"}
         THEN SetStatus(ord[h], "PAID")
         ELSE UNCHANGED <<status, stale>>
    /\ Goto(h, "fulfil")
    /\ UNCHANGED <<paidAt, overdue, envVars, moneyVars, faultVars>>

\* executeFulfillment and ExecuteBalanceFulfillment read the order.
CheckFulfillable(h) ==
    /\ pc[h] = "fulfil"
    /\ \/ /\ status[ord[h]] = "COMPLETED"
          /\ ReturnOk(h)
       \/ /\ status[ord[h]] \notin {"COMPLETED", "PAID", "FAILED"}
          /\ ReturnError(h)
       \/ /\ status[ord[h]] \in {"PAID", "FAILED"}
          /\ Goto(h, "lock")
          /\ UNCHANGED ackVars
    /\ UNCHANGED <<orderVars, upstream, doubtful, moneyVars, faultVars>>

LockRecharging(h) ==
    /\ pc[h] = "lock"
    /\ IF status[ord[h]] \in {"PAID", "FAILED"}
         THEN /\ SetStatus(ord[h], "RECHARGING")
              /\ Goto(h, "getCode")
              /\ UNCHANGED ackVars
         ELSE /\ ReturnOk(h)
              /\ UNCHANGED <<status, stale>>
    /\ UNCHANGED <<paidAt, overdue, upstream, doubtful, moneyVars, faultVars>>

\* Mutant of ResolveRedeemAction: an existing code counts as a redeemed one.
ResolveByExistence(h) ==
    /\ pc[h] = "getCode"
    /\ Goto(h, IF code[ord[h]] = "absent" THEN "createCode" ELSE "rebate")
    /\ UNCHANGED <<orderVars, envVars, moneyVars, faultVars>>

\* resolveRedeemAction: a failed lookup counts as an absent code.
ResolveRedeemAction(h) ==
    /\ pc[h] = "getCode"
    /\ \/ /\ code[ord[h]] = "absent"
          /\ Goto(h, "createCode")
          /\ UNCHANGED faultVars
       \/ /\ code[ord[h]] = "unused"
          /\ Goto(h, "redeem")
          /\ UNCHANGED faultVars
       \/ /\ code[ord[h]] = "used"
          /\ Goto(h, "rebate")
          /\ UNCHANGED faultVars
       \/ /\ errors < MaxErrors
          /\ errors' = errors + 1
          /\ Goto(h, "createCode")
          /\ UNCHANGED aborts
    /\ UNCHANGED <<orderVars, envVars, moneyVars>>

\* The code column is unique: a second insert is refused.
CreateCode(h) ==
    /\ pc[h] = "createCode"
    /\ IF code[ord[h]] = "absent"
         THEN /\ code' = [code EXCEPT ![ord[h]] = "unused"]
              /\ Outcome(h, "redeem")
         ELSE /\ Goto(h, "markFailed")
              /\ UNCHANGED <<code, faultVars>>
    /\ UNCHANGED <<orderVars, envVars, credits, byHand, rebateVars>>

\* Mutant of UseCode: the update does not ask for an unused code.
UseExistingCode(o) ==
    /\ code[o] # "absent"
    /\ code' = [code EXCEPT ![o] = "used"]
    /\ credits' = [credits EXCEPT ![o] = @ + 1]

\* One transaction: the code goes from unused to used and the balance grows.
UseCode(o) ==
    /\ code[o] = "unused"
    /\ code' = [code EXCEPT ![o] = "used"]
    /\ credits' = [credits EXCEPT ![o] = @ + 1]

\* The second case of Outcome is the read after the commit that fails.
RedeemCode(h) ==
    /\ pc[h] = "redeem"
    /\ UseCode(ord[h])
    /\ Outcome(h, "rebate")
    /\ UNCHANGED <<orderVars, envVars, byHand, rebateVars>>

RedeemCodeRefused(h) ==
    /\ pc[h] = "redeem"
    /\ code[ord[h]] # "unused"
    /\ Goto(h, "markFailed")
    /\ UNCHANGED <<orderVars, envVars, moneyVars, faultVars>>

\* A code that waits unused can be redeemed at the redeem endpoint as well.
RedeemAtEndpoint(o) ==
    /\ UseCode(o)
    /\ byHand' = [byHand EXCEPT ![o] = "credited"]
    /\ UNCHANGED <<orderVars, envVars, rebateVars, handlerVars, faultVars>>

\* The endpoint then accrues the inviter's rebate without an audit row; it is
\* best effort, so a failure or a disabled programme leaves the step out.
RewardAtEndpoint(o) ==
    /\ byHand[o] = "credited"
    /\ byHand' = [byHand EXCEPT ![o] = "rewarded"]
    /\ rebates' = [rebates EXCEPT ![o] = @ + 1]
    /\ UNCHANGED <<orderVars, envVars, code, credits, rebateLog, handlerVars,
                   faultVars>>

RebateClaimed(o) == rebateLog[o] # "none"

\* Mutant of ApplyRebate: the rebate is accrued whether it was claimed or not.
ApplyRebateAgain(h) ==
    /\ pc[h] = "rebate"
    /\ rebateLog' = [rebateLog EXCEPT ![ord[h]] = "applied"]
    /\ rebates' = [rebates EXCEPT ![ord[h]] = @ + 1]
    /\ Outcome(h, "complete")
    /\ UNCHANGED <<orderVars, envVars, codeVars>>

\* applyAffiliateRebateForOrder: claim, accrual and audit in one transaction.
ApplyRebate(h) ==
    /\ pc[h] = "rebate"
    /\ \/ /\ RebateClaimed(ord[h])
          /\ UNCHANGED <<rebateLog, rebates>>
       \/ /\ ~RebateClaimed(ord[h])
          /\ \/ /\ rebateLog' = [rebateLog EXCEPT ![ord[h]] = "applied"]
                /\ rebates' = [rebates EXCEPT ![ord[h]] = @ + 1]
             \/ /\ rebateLog' = [rebateLog EXCEPT ![ord[h]] = "skipped"]
                /\ UNCHANGED rebates
    /\ Outcome(h, "complete")
    /\ UNCHANGED <<orderVars, envVars, codeVars>>

\* markCompleted; a return with an error may follow a committed update.
MarkCompleted(h) ==
    /\ pc[h] = "complete"
    /\ IF status[ord[h]] = "RECHARGING"
         THEN SetStatus(ord[h], "COMPLETED")
         ELSE UNCHANGED <<status, stale>>
    /\ \/ /\ ReturnOk(h)
          /\ UNCHANGED faultVars
       \/ /\ errors < MaxErrors
          /\ errors' = errors + 1
          /\ Goto(h, "markFailed")
          /\ UNCHANGED <<ackVars, aborts>>
    /\ UNCHANGED <<paidAt, overdue, upstream, doubtful, moneyVars>>

\* Mutant of MarkFailed: the status is set whatever it is now.
MarkFailedAlways(h) ==
    /\ pc[h] = "markFailed"
    /\ SetStatus(ord[h], "FAILED")
    /\ ReturnError(h)
    /\ UNCHANGED <<paidAt, overdue, upstream, doubtful, moneyVars, faultVars>>

\* Only a RECHARGING order is marked.
MarkFailed(h) ==
    /\ pc[h] = "markFailed"
    /\ IF status[ord[h]] = "RECHARGING"
         THEN SetStatus(ord[h], "FAILED")
         ELSE UNCHANGED <<status, stale>>
    /\ ReturnError(h)
    /\ UNCHANGED <<paidAt, overdue, upstream, doubtful, moneyVars, faultVars>>

-----------------------------------------------------------------------------
(* Faults *)

\* A call of the fulfilment fails and leaves no effect behind.
CallFails(h) ==
    /\ pc[h] \in {"createCode", "redeem", "rebate", "complete"}
    /\ errors < MaxErrors
    /\ errors' = errors + 1
    /\ Goto(h, "markFailed")
    /\ UNCHANGED <<orderVars, envVars, moneyVars, aborts>>

\* The process dies, or the request's context is cancelled so that every
\* later call of the handler fails, the one of markFailed included.
Abort(h) ==
    /\ pc[h] # "idle"
    /\ aborts < MaxAborts
    /\ aborts' = aborts + 1
    /\ ReturnError(h)
    /\ UNCHANGED <<orderVars, upstream, doubtful, moneyVars, errors>>

-----------------------------------------------------------------------------
(* The user, the clock *)

Pay(o) ==
    /\ upstream[o] = "open"
    /\ \E paid \in {"paid", "mispaid"} :
          upstream' = [upstream EXCEPT ![o] = paid]
    /\ UNCHANGED <<orderVars, ackVars, doubtful, moneyVars, handlerVars,
                   faultVars>>

Timeout(o) ==
    /\ status[o] = "PENDING" /\ o \notin overdue
    /\ overdue' = overdue \cup {o}
    /\ UNCHANGED <<status, paidAt, stale, envVars, moneyVars, handlerVars,
                   faultVars>>

GraceElapses(o) ==
    /\ status[o] = "EXPIRED" /\ o \notin stale
    /\ stale' = stale \cup {o}
    /\ UNCHANGED <<status, paidAt, overdue, envVars, moneyVars, handlerVars,
                   faultVars>>

-----------------------------------------------------------------------------

\* A request or sweep begins.
Request(h, o) ==
    \/ CreateOrder(h, o)
    \/ CancelOrder(h, o)
    \/ ExpireTimedOutOrder(h, o)
    \/ VerifyOrder(h, o)
    \/ ReconcilePendingOrder(h, o)
    \/ Webhook(h, o)
    \/ RetryFulfillment(h, o)

\* A handler that runs takes its next step.
Step(h) ==
    \/ InvokeProvider(h) \/ InvokeProviderFails(h)
    \/ InvokeProviderInDoubt(h) \/ CreateOrderFails(h)
    \/ QueryFindsPaid(h) \/ QueryFindsUnpaid(h) \/ QueryFails(h)
    \/ CancelUpstream(h) \/ PersistTradeNo(h) \/ CloseOrder(h)
    \/ ConfirmPayment(h) \/ RejectPayment(h) \/ NotificationUnread(h)
    \/ ToPaid(h) \/ AlreadyProcessed(h) \/ AlreadyProcessedUnread(h)
    \/ ResetForRetry(h) \/ CheckFulfillable(h) \/ LockRecharging(h)
    \/ ResolveRedeemAction(h) \/ CreateCode(h)
    \/ RedeemCode(h) \/ RedeemCodeRefused(h)
    \/ ApplyRebate(h) \/ MarkCompleted(h) \/ MarkFailed(h)

Environment(o) ==
    \/ Pay(o) \/ Timeout(o) \/ GraceElapses(o)
    \/ RedeemAtEndpoint(o) \/ RewardAtEndpoint(o)

Next ==
    \/ \E h \in Handlers, o \in Orders : Request(h, o)
    \/ \E h \in Handlers : Step(h) \/ CallFails(h) \/ Abort(h)
    \/ \E o \in Orders : Environment(o)

Spec == Init /\ [][Next]_vars

\* A running goroutine is scheduled, a provider repeats a notification until
\* it is acknowledged, and the ticker of the expiry service sweeps the pending
\* orders whose time has passed.
Redelivery(o) == o \notin acked /\ \E h \in Handlers : Webhook(h, o)
Sweep(o) == \E h \in Handlers : ExpireTimedOutOrder(h, o)

Fairness ==
    /\ \A h \in Handlers : WF_vars(Step(h))
    /\ \A o \in Orders : SF_vars(Redelivery(o))
    /\ \A o \in Orders : SF_vars(Timeout(o) \/ Sweep(o))

FairSpec == Spec /\ Fairness

-----------------------------------------------------------------------------
(* Properties *)

Paid(o) == upstream[o] = "paid"

Fulfilling(h, o) == pc[h] \in FulfilPCs /\ ord[h] = o

\* However notifications, queries, retries and redemptions interleave, and
\* wherever a handler fails, an order adds its amount to the balance at most
\* once (the redeem code is the order's idempotency key).
CreditedAtMostOnce == \A o \in Orders : credits[o] <= 1

\* Nothing is credited, and no order shows as paid, before the provider holds
\* the order's exact amount: an order that failed at creation, or that was
\* paid with another amount, stays without credit whoever retries it.
CreditOnlyForPayment ==
    \A o \in Orders :
        credits[o] > 0 \/ o \in paidAt \/ code[o] # "absent" => Paid(o)

\* COMPLETED tells the whole truth: the balance was credited and the rebate
\* was decided before the order shows as completed.
CompletedIsSettled ==
    \A o \in Orders :
        status[o] = "COMPLETED" => code[o] = "used" /\ RebateClaimed(o)

\* The fulfilment rewards the inviter at most once per order, for a credited
\* order, and the audit row says so.  Only an order whose code the user
\* redeemed at the endpoint may bring a second reward, the endpoint's own,
\* which leaves no audit row.
RebatesAreAccounted ==
    \A o \in Orders :
        /\ rebates[o] = (IF rebateLog[o] = "applied" THEN 1 ELSE 0)
                          + (IF byHand[o] = "rewarded" THEN 1 ELSE 0)
        /\ rebates[o] > 0 => code[o] = "used"

\* The RECHARGING status is a lock: one handler at a time fulfils an order,
\* unless its creation was reported as failed although the provider had it:
\* the late FAILED then frees an order that is being fulfilled.
OneFulfiller ==
    \A o \in Orders \ doubtful : \A h, i \in Handlers :
        Fulfilling(h, o) /\ Fulfilling(i, o) => h = i

\* The creation request is about to report a doubtful order as failed.
LateFailure(o) ==
    o \in doubtful /\ \E h \in Handlers : pc[h] = "setFailed" /\ ord[h] = o

\* A cancel, an expiry or a failed fulfilment never takes back what was
\* confirmed: a paid order is not closed again, and a completed one stays
\* completed.  The one request that may take COMPLETED back, to FAILED, is the
\* creation of an order that the provider had although the call failed.
PaymentIsNotLost ==
    [][\A o \in Orders :
          /\ o \in paidAt => o \in paidAt'
          /\ o \in paidAt => status'[o] \in {"PAID", "RECHARGING", "COMPLETED",
                                          "FAILED"}
          /\ status[o] = "COMPLETED" =>
                \/ status'[o] = "COMPLETED"
                \/ status'[o] = "FAILED" /\ LateFailure(o)]_vars

\* A payment whose notifications the provider repeats, or that the expiry
\* sweep finds, is credited, unless the order has expired, or it is FAILED
\* after a call of its fulfilment failed, or its creation when the provider
\* had the order, or it had been cancelled and a notification of it was
\* acknowledged without being read.  A handler that dies midway may leave the
\* order in PAID or RECHARGING.
PaymentIsFulfilled ==
    \A o \in Orders :
        Paid(o) ~> \/ credits[o] = 1
                   \/ status[o] = "EXPIRED"
                   \/ status[o] = "FAILED" /\ (errors > 0 \/ o \in doubtful)
                   \/ status[o] = "CANCELLED" /\ o \in unread
                   \/ status[o] \in {"PAID", "RECHARGING"} /\ aborts > 0

\* payment_order_lifecycle.go: "order was paid, fulfillment can be retried",
\* here by the admin's RetryFulfillment once no handler works on the order.
PaidOrderCanBeRetried ==
    \A o \in Orders :
        /\ o \in paidAt
        /\ status[o] # "COMPLETED"
        /\ \A h \in Handlers : ord[h] # o
        => RetryAllowed(o)

-----------------------------------------------------------------------------

\* The order service implements the ledger of PaymentLedger: the provider's
\* payments, one credit and one rebate per order and one more for a code that
\* the user redeemed, completion after the credit.
Ledger == INSTANCE PaymentLedger WITH
              paid <- {o \in Orders : Paid(o)},
              done <- {o \in Orders : status[o] = "COMPLETED"},
              redeemed <- {o \in Orders : byHand[o] # "none"}

\* What users, inviters and admins see of the service is a behaviour of the
\* ledger: every step of a handler is one ledger entry or none.
ImplementsLedger == Ledger!LedgerSpec

=============================================================================
