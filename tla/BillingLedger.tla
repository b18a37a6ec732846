---------------------------- MODULE BillingLedger ----------------------------
(***************************************************************************)
(* What usage billing promises, without transactions: a request is charged *)
(* in one indivisible step, at most once, and at that moment the key is    *)
(* closed if the charge exhausts its quota and the scheduler is told if it *)
(* takes the account to its limit, unless it has just been told of the     *)
(* account.  An edit of the key, and nothing else, may rewrite the key's   *)
(* usage, quota and status.                                                *)
(***************************************************************************)
EXTENDS Naturals

CONSTANTS
    Cmds, IdOf, RowsOf,     \* charges, their request ids and their rows
    KeyCost, AccountCost, AccountLimit, Quotas, FirstQuota

VARIABLES
    charged,        \* the charges made
    paid,           \* the charges included in each row
    keyUsed, keyQuota, keyStatus,
    accountUsed,
    outbox,         \* the charges the scheduler was told of
    dropped         \* the charges told for by an event of a moment ago

ledgerVars == <<charged, paid, keyUsed, keyQuota, keyStatus, accountUsed,
                outbox, dropped>>

LedgerInit ==
    /\ charged = {}
    /\ paid = [r \in {"wallet", "key", "account"} |-> {}]
    /\ keyUsed = 0 /\ keyQuota = FirstQuota /\ keyStatus = "active"
    /\ accountUsed = 0 /\ outbox = {} /\ dropped = {}

\* The total goes from below the limit, if there is one, to the limit.
Crosses(total, cost, limit) ==
    limit > 0 /\ total < limit /\ total + cost >= limit

ChargeKey(c) ==
    /\ keyUsed' = keyUsed + KeyCost[c]
    /\ IF keyStatus = "active" /\ Crosses(keyUsed, KeyCost[c], keyQuota)
          THEN keyStatus' = "quota_exhausted"
          ELSE UNCHANGED keyStatus

ChargeAccount(c) ==
    /\ accountUsed' = accountUsed + AccountCost[c]
    /\ IF Crosses(accountUsed, AccountCost[c], AccountLimit)
          THEN \/ outbox' = outbox \cup {c} /\ UNCHANGED dropped
               \/ dropped' = dropped \cup {c} /\ UNCHANGED outbox
          ELSE UNCHANGED <<outbox, dropped>>

Charge(c) ==
    /\ \A d \in charged : IdOf[d] # IdOf[c]
    /\ charged' = charged \cup {c}
    /\ paid' = [r \in DOMAIN paid |->
                   IF r \in RowsOf[c] THEN paid[r] \cup {c} ELSE paid[r]]
    /\ IF "key" \in RowsOf[c] THEN ChargeKey(c)
       ELSE UNCHANGED <<keyUsed, keyStatus>>
    /\ IF "account" \in RowsOf[c] THEN ChargeAccount(c)
       ELSE UNCHANGED <<accountUsed, outbox, dropped>>
    /\ UNCHANGED keyQuota

EditKey ==
    /\ keyUsed' \in Nat /\ keyQuota' \in Quotas
    /\ keyStatus' \in {"active", "inactive", "quota_exhausted"}
    /\ UNCHANGED <<charged, paid, accountUsed, outbox, dropped>>

LedgerNext == EditKey \/ \E c \in Cmds : Charge(c)

LedgerSpec == LedgerInit /\ [][LedgerNext]_ledgerVars

=============================================================================
