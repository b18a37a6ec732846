----------------------------- MODULE PaymentRefund -----------------------------
(***************************************************************************)
(* Refund of completed balance top-up orders of one user                   *)
(* (payment_refund.go): the user requests it, an administrator prepares    *)
(* and executes it.  An execution locks the order with a conditional       *)
(* UPDATE, takes the amount back from the user's balance, asks the payment *)
(* provider for the refund, and undoes the deduction when that fails.  The *)
(* provider may settle a refund later than it accepts it, or not at all.   *)
(* There is no transaction around these calls: each is one step here, and  *)
(* any of them may fail, or take effect and still report an error.         *)
(***************************************************************************)
EXTENDS Integers

CONSTANTS
    Orders,         \* completed orders of the user
    Handlers,       \* the goroutines that may run at the same time
    NoOrder,        \* the order of an idle handler
    Amount,         \* what each order is worth
    Balance,        \* the user's balance at the start
    MaxSpent,       \* bound: what the user spends meanwhile
    MaxErrors,      \* bound: calls that fail without effect
    MaxLost,        \* bound: calls that take effect and report an error
    MaxAborts       \* bound: handlers that die midway

ASSUME ConstantsAssumption ==
    /\ NoOrder \notin Orders
    /\ Amount \in Nat \ {0}
    /\ Balance \in Int
    /\ MaxSpent \in Nat
    /\ MaxErrors \in Nat
    /\ MaxLost \in Nat
    /\ MaxAborts \in Nat

VARIABLES
    status,         \* payment_orders.status
    untraded,       \* orders whose payment_trade_no is empty
    balance,        \* users.balance
    rollbackLog,    \* orders with a REFUND_ROLLBACK_FAILED audit row
    taken,          \* history: net amount the refunds took from the balance
    refunded,       \* history: amount the provider paid back
    pending,        \* amount the provider accepted to pay back and still owes
    unanswered,     \* history: orders whose provider refund reported an error
    defaulted,      \* history: orders with an accepted refund that failed later
    unrestored,     \* history: orders with a deduction or rollback in doubt
    spent,          \* what the user has spent
    pc, ord,        \* what each handler does next, for which order
    amount, deduct, \* RefundPlan: RefundAmount and BalanceToDeduct
    seen,           \* RefundPlan.Order.Status: the status when it was prepared
    errors, lost, aborts    \* faults so far

moneyVars   == <<untraded, balance, taken, refunded, pending, spent>>
doubtVars   == <<unanswered, defaulted, unrestored>>
planVars    == <<amount, deduct, seen>>
handlerVars == <<pc, ord, planVars>>
faultVars   == <<errors, lost, aborts>>
vars == <<status, rollbackLog, moneyVars, doubtVars, handlerVars, faultVars>>

Refundable == {"COMPLETED", "REFUND_REQUESTED", "REFUND_FAILED"}
Final      == {"REFUNDED", "PARTIALLY_REFUNDED"}
Statuses   == Refundable \cup Final \cup {"REFUNDING"}

\* Where a handler that moved the order to REFUNDING can be.
RefundPCs == {"checkLog", "deduct", "gateway", "rollback", "restore",
              "markFailed", "markOk"}

PCs == {"idle", "checkBalance", "request", "prepDeduct", "lock"}
          \cup RefundPCs

TypeOK ==
    /\ status      \in [Orders -> Statuses]
    /\ untraded    \in SUBSET Orders
    /\ balance     \in Int
    /\ rollbackLog \in SUBSET Orders
    /\ taken       \in [Orders -> Int]
    /\ refunded    \in [Orders -> Nat]
    /\ pending     \in [Orders -> Nat]
    /\ unanswered  \in SUBSET Orders
    /\ defaulted   \in SUBSET Orders
    /\ unrestored  \in SUBSET Orders
    /\ spent       \in 0 .. MaxSpent
    /\ pc          \in [Handlers -> PCs]
    /\ ord         \in [Handlers -> Orders \cup {NoOrder}]
    /\ \A h \in Handlers : pc[h] # "idle" => ord[h] \in Orders
    /\ amount      \in [Handlers -> 0 .. Amount]
    /\ deduct      \in [Handlers -> Int]
    /\ seen        \in [Handlers -> Statuses]
    /\ errors      \in 0 .. MaxErrors
    /\ lost        \in 0 .. MaxLost
    /\ aborts      \in 0 .. MaxAborts

Init ==
    /\ status      = [o \in Orders |-> "COMPLETED"]
    /\ untraded    \in SUBSET Orders
    /\ balance     = Balance
    /\ rollbackLog = {}
    /\ taken       = [o \in Orders |-> 0]
    /\ refunded    = [o \in Orders |-> 0]
    /\ pending     = [o \in Orders |-> 0]
    /\ unanswered  = {}
    /\ defaulted   = {}
    /\ unrestored  = {}
    /\ spent       = 0
    /\ pc          = [h \in Handlers |-> "idle"]
    /\ ord         = [h \in Handlers |-> NoOrder]
    /\ amount      = [h \in Handlers |-> 0]
    /\ deduct      = [h \in Handlers |-> 0]
    /\ seen        = [h \in Handlers |-> "COMPLETED"]
    /\ errors      = 0
    /\ lost        = 0
    /\ aborts      = 0

-----------------------------------------------------------------------------
(* Steps of a handler *)

Goto(h, next) ==
    /\ pc' = [pc EXCEPT ![h] = next]
    /\ UNCHANGED ord

Stop(h) ==
    /\ pc'     = [pc EXCEPT ![h] = "idle"]
    /\ ord'    = [ord EXCEPT ![h] = NoOrder]
    /\ amount' = [amount EXCEPT ![h] = 0]
    /\ deduct' = [deduct EXCEPT ![h] = 0]
    /\ seen'   = [seen EXCEPT ![h] = "COMPLETED"]

Start(h, o, first) ==
    /\ pc[h] = "idle"
    /\ pc'  = [pc EXCEPT ![h] = first]
    /\ ord' = [ord EXCEPT ![h] = o]

\* A call that returns an error and had no effect, and one that had.
Fails ==
    /\ errors < MaxErrors
    /\ errors' = errors + 1
    /\ UNCHANGED <<lost, aborts>>

AnswerIsLost ==
    /\ lost < MaxLost
    /\ lost' = lost + 1
    /\ UNCHANGED <<errors, aborts>>

\* The order leaves the handler's hands with status s; where the code drops
\* the error of this UPDATE, the status may also stay as it is.
Release(h, s) ==
    /\ Stop(h)
    /\ \/ /\ status' = [status EXCEPT ![ord[h]] = s]
          /\ UNCHANGED faultVars
       \/ /\ Fails
          /\ UNCHANGED status

-----------------------------------------------------------------------------
(* RequestRefund, by the user *)

\* validateRefundRequest.
RequestRefund(h, o) ==
    /\ status[o] = "COMPLETED"
    /\ Start(h, o, "checkBalance")
    /\ UNCHANGED <<status, rollbackLog, moneyVars, doubtVars, planVars,
                   faultVars>>

CheckBalance(h) ==
    /\ pc[h] = "checkBalance"
    /\ IF balance < Amount
       THEN Stop(h)
       ELSE Goto(h, "request") /\ UNCHANGED planVars
    /\ UNCHANGED <<status, rollbackLog, moneyVars, doubtVars, faultVars>>

MarkRequested(h) ==
    /\ pc[h] = "request"
    /\ status' = [status EXCEPT ![ord[h]] =
                     IF @ = "COMPLETED" THEN "REFUND_REQUESTED" ELSE @]
    /\ Stop(h)
    /\ UNCHANGED <<rollbackLog, moneyVars, doubtVars, faultVars>>

-----------------------------------------------------------------------------
(* PrepareRefund and ExecuteRefund, by an administrator *)

\* The plan keeps the order row it read; a second request may change the row
\* before the plan is executed.
PrepareRefund(h, o, a, deducts) ==
    /\ status[o] \in Refundable
    /\ Start(h, o, IF deducts THEN "prepDeduct" ELSE "lock")
    /\ amount' = [amount EXCEPT ![h] = a]
    /\ seen'   = [seen EXCEPT ![h] = status[o]]
    /\ UNCHANGED <<status, rollbackLog, moneyVars, doubtVars, deduct,
                   faultVars>>

\* When the balance cannot be read the request stops, or goes on without a
\* deduction when it is forced.
PrepDeduct(h) ==
    /\ pc[h] = "prepDeduct"
    /\ \/ /\ deduct' = [deduct EXCEPT ![h] =
                           IF amount[h] < balance THEN amount[h] ELSE balance]
          /\ Goto(h, "lock")
          /\ UNCHANGED <<amount, seen, faultVars>>
       \/ /\ Fails
          /\ \/ Stop(h)
             \/ Goto(h, "lock") /\ UNCHANGED planVars
    /\ UNCHANGED <<status, rollbackLog, moneyVars, doubtVars>>

AfterLock(h) == IF deduct[h] > 0 THEN "checkLog" ELSE "gateway"

\* Mutant of Lock: REFUNDING can be locked again, to resume a dead refund.
LockResumes(h) ==
    /\ pc[h] = "lock"
    /\ \/ /\ status[ord[h]] \in Refundable \cup {"REFUNDING"}
          /\ status' = [status EXCEPT ![ord[h]] = "REFUNDING"]
          /\ Goto(h, AfterLock(h))
          /\ UNCHANGED planVars
       \/ /\ status[ord[h]] \in Final
          /\ Stop(h)
          /\ UNCHANGED status
    /\ UNCHANGED <<rollbackLog, moneyVars, doubtVars, faultVars>>

\* The conditional UPDATE to REFUNDING; 0 rows is a conflict.
Lock(h) ==
    /\ pc[h] = "lock"
    /\ \/ /\ status[ord[h]] \in Refundable
          /\ status' = [status EXCEPT ![ord[h]] = "REFUNDING"]
          /\ Goto(h, AfterLock(h))
          /\ UNCHANGED planVars
       \/ /\ status[ord[h]] \notin Refundable
          /\ Stop(h)
          /\ UNCHANGED status
    /\ UNCHANGED <<rollbackLog, moneyVars, doubtVars, faultVars>>

\* hasAuditLog: an error of the query counts as "no such row".
CheckLog(h) ==
    /\ pc[h] = "checkLog"
    /\ \/ /\ ord[h] \notin rollbackLog
          /\ Goto(h, "deduct")
          /\ UNCHANGED <<planVars, faultVars>>
       \/ /\ ord[h] \in rollbackLog
          /\ deduct' = [deduct EXCEPT ![h] = 0]
          /\ Goto(h, "gateway")
          /\ UNCHANGED <<amount, seen, faultVars>>
       \/ /\ ord[h] \in rollbackLog
          /\ Fails
          /\ Goto(h, "deduct")
          /\ UNCHANGED planVars
    /\ UNCHANGED <<status, rollbackLog, moneyVars, doubtVars>>

Take(o, n) ==
    /\ balance' = balance - n
    /\ taken'   = [taken EXCEPT ![o] = @ + n]

\* Mutant of Deduct: an error does not end the refund.
DeductGoesOn(h) ==
    /\ pc[h] = "deduct"
    /\ Goto(h, "gateway")
    /\ \/ Take(ord[h], deduct[h]) /\ UNCHANGED <<unrestored, faultVars>>
       \/ Fails /\ UNCHANGED <<balance, taken, unrestored>>
    /\ UNCHANGED <<status, untraded, rollbackLog, refunded, pending, spent,
                   planVars, unanswered, defaulted>>

Deduct(h) ==
    /\ pc[h] = "deduct"
    /\ \/ /\ Take(ord[h], deduct[h])
          /\ Goto(h, "gateway")
          /\ UNCHANGED <<unrestored, faultVars>>
       \/ /\ Fails
          /\ Goto(h, "restore")
          /\ UNCHANGED <<balance, taken, unrestored>>
       \/ /\ AnswerIsLost
          /\ Take(ord[h], deduct[h])
          /\ unrestored' = unrestored \cup {ord[h]}
          /\ Goto(h, "restore")
    /\ UNCHANGED <<status, untraded, rollbackLog, refunded, pending, spent,
                   planVars, unanswered, defaulted>>

\* The provider takes the refund on: it pays at once, or answers that the
\* refund is pending, which validateRefundProviderResponse accepts as well.
Accepts(h) ==
    \/ /\ refunded' = [refunded EXCEPT ![ord[h]] = @ + amount[h]]
       /\ UNCHANGED pending
    \/ /\ pending' = [pending EXCEPT ![ord[h]] = @ + amount[h]]
       /\ UNCHANGED refunded

\* Mutant of GwRefund: the provider's status is not validated.
GwRefundUnvalidated(h) ==
    /\ pc[h] = "gateway"
    /\ Goto(h, "markOk")
    /\ Accepts(h) \/ UNCHANGED <<refunded, pending>>
    /\ UNCHANGED <<status, untraded, rollbackLog, balance, taken, spent, doubtVars,
                   planVars, faultVars>>

\* The provider accepts the refund, or refuses; or it accepts and the answer
\* is an error (a timeout, say).  An order without a trade number skips the
\* provider.
GwRefund(h) ==
    /\ pc[h] = "gateway"
    /\ \/ /\ ord[h] \in untraded
          /\ Goto(h, "markOk")
          /\ UNCHANGED <<refunded, pending, unanswered, faultVars>>
       \/ /\ ord[h] \notin untraded
          /\ Accepts(h)
          /\ Goto(h, "markOk")
          /\ UNCHANGED <<unanswered, faultVars>>
       \/ /\ ord[h] \notin untraded
          /\ Goto(h, "rollback")
          /\ UNCHANGED <<refunded, pending, unanswered, faultVars>>
       \/ /\ ord[h] \notin untraded
          /\ AnswerIsLost
          /\ Accepts(h)
          /\ unanswered' = unanswered \cup {ord[h]}
          /\ Goto(h, "rollback")
    /\ UNCHANGED <<status, untraded, rollbackLog, balance, taken, spent,
                   defaulted, unrestored, planVars>>

\* Mutant of Rollback: the deduction is not given back.
RollbackForgotten(h) ==
    /\ pc[h] = "rollback"
    /\ Goto(h, "restore")
    /\ UNCHANGED <<status, rollbackLog, moneyVars, doubtVars, planVars,
                   faultVars>>

\* RollbackRefund.  When it fails, its audit row is written if that write
\* does not fail too (writeAuditLog drops the error).
Rollback(h) ==
    /\ pc[h] = "rollback"
    /\ \/ /\ deduct[h] <= 0
          /\ Goto(h, "restore")
          /\ UNCHANGED <<balance, taken, rollbackLog, unrestored, faultVars>>
       \/ /\ deduct[h] > 0
          /\ Take(ord[h], -deduct[h])
          /\ Goto(h, "restore")
          /\ UNCHANGED <<rollbackLog, unrestored, faultVars>>
       \/ /\ deduct[h] > 0
          /\ \/ Fails /\ UNCHANGED <<balance, taken>>
             \/ AnswerIsLost /\ Take(ord[h], -deduct[h])
          /\ unrestored' = unrestored \cup {ord[h]}
          /\ rollbackLog' \in {rollbackLog, rollbackLog \cup {ord[h]}}
          /\ Goto(h, "markFailed")
    /\ UNCHANGED <<status, untraded, refunded, pending, spent, unanswered,
                   defaulted, planVars>>

\* Mutant of RestoreStatus: nothing is restored.
RestoreForgotten(h) ==
    /\ pc[h] = "restore"
    /\ Stop(h)
    /\ UNCHANGED <<status, rollbackLog, moneyVars, doubtVars, faultVars>>

RestoreStatus(h) ==
    /\ pc[h] = "restore"
    /\ Release(h, IF seen[h] = "REFUND_REQUESTED"
                  THEN "REFUND_REQUESTED" ELSE "COMPLETED")
    /\ UNCHANGED <<rollbackLog, moneyVars, doubtVars>>

\* handleGwFail after a failed rollback.
MarkFailed(h) ==
    /\ pc[h] = "markFailed"
    /\ Release(h, "REFUND_FAILED")
    /\ UNCHANGED <<rollbackLog, moneyVars, doubtVars>>

MarkRefundOk(h) ==
    /\ pc[h] = "markOk"
    /\ Release(h, IF amount[h] < Amount
                  THEN "PARTIALLY_REFUNDED" ELSE "REFUNDED")
    /\ UNCHANGED <<rollbackLog, moneyVars, doubtVars>>

-----------------------------------------------------------------------------

\* The process stops, or the client's context ends, between two calls.
Abort(h) ==
    /\ pc[h] # "idle"
    /\ aborts < MaxAborts
    /\ aborts' = aborts + 1
    /\ Stop(h)
    /\ UNCHANGED <<status, rollbackLog, moneyVars, doubtVars, errors, lost>>

\* The user pays for usage out of the same balance; it may go negative.
Spend ==
    /\ spent < MaxSpent
    /\ spent'   = spent + 1
    /\ balance' = balance - 1
    /\ UNCHANGED <<status, untraded, rollbackLog, taken, refunded, pending,
                   doubtVars, handlerVars, faultVars>>

\* At the provider, later: a pending refund is paid, or it fails.  The order
\* hears of neither.  (Only an unanswered order can have two refunds pending;
\* they end together here.)
Settle(o) ==
    /\ pending[o] > 0
    /\ pending'  = [pending EXCEPT ![o] = 0]
    /\ refunded' = [refunded EXCEPT ![o] = @ + pending[o]]
    /\ UNCHANGED <<status, untraded, rollbackLog, balance, taken, spent,
                   doubtVars, handlerVars, faultVars>>

RefundFailsLater(o) ==
    /\ pending[o] > 0
    /\ pending'   = [pending EXCEPT ![o] = 0]
    /\ defaulted' = defaulted \cup {o}
    /\ UNCHANGED <<status, untraded, rollbackLog, balance, taken, refunded,
                   spent, unanswered, unrestored, handlerVars, faultVars>>

Request(h) ==
    \E o \in Orders :
        \/ RequestRefund(h, o)
        \/ \E a \in 1 .. Amount, deducts \in BOOLEAN :
               PrepareRefund(h, o, a, deducts)

Step(h) ==
    \/ CheckBalance(h) \/ MarkRequested(h) \/ PrepDeduct(h) \/ Lock(h)
    \/ CheckLog(h) \/ Deduct(h) \/ GwRefund(h) \/ Rollback(h)
    \/ RestoreStatus(h) \/ MarkFailed(h) \/ MarkRefundOk(h)

Next ==
    \/ \E h \in Handlers : Request(h) \/ Step(h) \/ Abort(h)
    \/ Spend
    \/ \E o \in Orders : Settle(o) \/ RefundFailsLater(o)

Spec == Init /\ [][Next]_vars

\* A goroutine that has started runs until it returns.
FairSpec == Spec /\ \A h \in Handlers : WF_vars(Step(h))

-----------------------------------------------------------------------------
(* Properties *)

\* Two refunds of one order never run together: a handler past the lock owns
\* the REFUNDING status until it releases it (ExecuteRefund's conditional
\* UPDATE, and every later unconditional one).
OneRefunder ==
    \A h \in Handlers : pc[h] \in RefundPCs =>
        /\ status[ord[h]] = "REFUNDING"
        /\ \A i \in Handlers \ {h} : pc[i] \in RefundPCs => ord[i] # ord[h]

\* What the provider has taken on to pay back, and not failed since.
Owed(o) == refunded[o] + pending[o]

\* The provider pays an order back at most once, now or later, whatever the
\* handlers, the administrator's retries, the failed UPDATEs and the crashes,
\* unless it accepted a refund and reported an error.
PaidBackOnce ==
    \A o \in Orders \ unanswered : Owed(o) <= Amount

\* REFUNDED and PARTIALLY_REFUNDED are true at the provider (markRefundOk
\* after gwRefund): it has paid, or still owes, the whole or a part.  The
\* code marks a refund that is only pending, so what fails at the provider
\* later is excepted, and so is an order it never had.
RefundIsTruthful ==
    \A o \in Orders \ (untraded \cup defaulted) :
        /\ status[o] = "REFUNDED" => Owed(o) >= Amount
        /\ status[o] = "PARTIALLY_REFUNDED" => Owed(o) > 0

\* A refund that did not happen costs the user nothing: an order back in
\* COMPLETED or REFUND_REQUESTED has nothing taken for it, unless a balance
\* call of one of its refunds reported an error (handleGwFail).
FailureCostsNothing ==
    \A o \in Orders \ unrestored :
        status[o] \in {"COMPLETED", "REFUND_REQUESTED"} => taken[o] = 0

\* A completed refund takes no more from the balance than the provider has
\* paid back or owes, under the same condition, unless the provider failed
\* an accepted refund later: nobody gives the deduction back then.
TakesNoMoreThanPaidBack ==
    \A o \in Orders \ (unrestored \cup untraded \cup defaulted) :
        status[o] \in Final => taken[o] <= Owed(o)

\* A finished refund is never reopened by a handler that read the order
\* before (PrepareRefund and RequestRefund act on a row they read earlier).
RefundIsFinal ==
    [][\A o \in Orders : status[o] \in Final => status'[o] = status[o]]_vars

\* No order stays in REFUNDING while its handlers run to their end: every
\* path of ExecuteRefund releases the status, unless that UPDATE fails or the
\* handler dies before it.
RefundingEnds ==
    \A o \in Orders :
        status[o] = "REFUNDING" ~>
            status[o] # "REFUNDING" \/ errors > 0 \/ aborts > 0
=============================================================================
