---------------------------- MODULE PaymentLedger ----------------------------
(***************************************************************************)
(* What the payment service promises about balance orders, without saying  *)
(* how: an order is paid at the provider, then credited once, by the       *)
(* service or by the user's own redemption of its code, then the service   *)
(* accrues at most one rebate and reports the order as completed.  A       *)
(* redemption by the user may bring a rebate of its own, at any later time.*)
(* Only an order whose creation was reported as failed although the        *)
(* provider had it may lose the report of its completion.                  *)
(***************************************************************************)
EXTENDS Naturals

CONSTANT Orders

VARIABLES
    paid,           \* orders whose amount the provider holds
    credits,        \* times each order was added to a balance
    rebates,        \* times a rebate was accrued for each order
    done,           \* orders reported as completed
    redeemed,       \* orders credited by the user's own redemption
    doubtful        \* orders reported as not created that exist nevertheless

ledgerVars == <<paid, credits, rebates, done, redeemed, doubtful>>

LedgerInit ==
    /\ paid = {}
    /\ credits = [o \in Orders |-> 0]
    /\ rebates = [o \in Orders |-> 0]
    /\ done = {}
    /\ redeemed = {}
    /\ doubtful = {}

Doubt(o) ==
    /\ o \notin paid
    /\ doubtful' = doubtful \cup {o}
    /\ UNCHANGED <<paid, credits, rebates, done, redeemed>>

Receive(o) ==
    /\ o \notin paid
    /\ paid' = paid \cup {o}
    /\ UNCHANGED <<credits, rebates, done, redeemed, doubtful>>

Credit(o) ==
    /\ o \in paid
    /\ credits[o] = 0
    /\ credits' = [credits EXCEPT ![o] = 1]
    /\ \/ redeemed' = redeemed \cup {o}
       \/ UNCHANGED redeemed
    /\ UNCHANGED <<paid, rebates, done, doubtful>>

Reward(o) ==
    /\ credits[o] = 1
    /\ rebates[o] < (IF o \in redeemed THEN 2 ELSE 1)
    /\ o \in done => o \in redeemed
    /\ rebates' = [rebates EXCEPT ![o] = @ + 1]
    /\ UNCHANGED <<paid, credits, done, redeemed, doubtful>>

Complete(o) ==
    /\ credits[o] = 1
    /\ o \notin done
    /\ done' = done \cup {o}
    /\ UNCHANGED <<paid, credits, rebates, redeemed, doubtful>>

Withdraw(o) ==
    /\ o \in done \cap doubtful
    /\ done' = done \ {o}
    /\ UNCHANGED <<paid, credits, rebates, redeemed, doubtful>>

LedgerNext ==
    \E o \in Orders :
        \/ Doubt(o) \/ Receive(o) \/ Credit(o) \/ Reward(o) \/ Complete(o)
        \/ Withdraw(o)

LedgerSpec == LedgerInit /\ [][LedgerNext]_ledgerVars

=============================================================================
