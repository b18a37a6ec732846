----------------------------- MODULE UsageBilling -----------------------------
(***************************************************************************)
(* Charging finished requests (usage_billing_repo.go: Apply, and           *)
(* gateway_service.go: applyUsageBilling) to one wallet, one API key and   *)
(* one upstream account, while the owner edits the key                     *)
(* (api_key_service.go: Update) and old request ids move to the archive    *)
(* (dashboard_aggregation_repo.go: CleanupUsageBillingDedup).              *)
(*                                                                         *)
(* A command is one delivery of a charge; deliveries of one request share  *)
(* its id.  The transaction is READ COMMITTED: a statement reads committed *)
(* rows, locks the row it writes until the end, and what it wrote          *)
(* (wrote[c]) is seen by the others after the commit.  The wallet is the   *)
(* user's balance or, for a subscription, its usage counters; it is the    *)
(* set of the charges in it, paid["wallet"].  The rate-limit windows of    *)
(* the key and the daily and weekly quota of the account, which the same   *)
(* statements write, are left out, and so are an administrator's edits of  *)
(* the account.                                                            *)
(***************************************************************************)
EXTENDS Naturals, FiniteSets

CONSTANTS
    Cmds,           \* deliveries of charges
    IdOf, FpOf,     \* the request id and the fingerprint of each
    RowsOf,         \* the rows each one charges
    KeyCost, AccountCost,   \* what it adds to the key and to the account
    Ids, Fps, NoFp,
    Updates,        \* the owner's edits of the key
    Quotas, FirstQuota,     \* quotas of the key; 0 is unlimited
    AccountLimit    \* quota_limit of the account; 0 is unlimited

Rows == {"wallet", "key", "account"}

ASSUME ConstantsAssumption ==
    /\ IdOf \in [Cmds -> Ids]
    /\ FpOf \in [Cmds -> Fps]
    /\ NoFp \notin Fps
    /\ RowsOf \in [Cmds -> SUBSET Rows]
    /\ KeyCost \in [Cmds -> Nat \ {0}]
    /\ AccountCost \in [Cmds -> Nat \ {0}]
    /\ Quotas \subseteq Nat
    /\ FirstQuota \in Quotas
    /\ AccountLimit \in Nat

VARIABLES
    dedupFp, archiveFp,     \* fingerprints kept under each request id
    paid,           \* the charges included in each row
    keyUsed, keyQuota, keyStatus,   \* the api_keys row
    accountUsed,    \* accounts.extra->quota_used
    outbox,         \* charges that enqueued an account_changed event
    dropped,        \* history: charges whose event the outbox had already
    pc, wrote,      \* each transaction's next statement, and what it wrote
    upc, newUsed, newQuota, newStatus,  \* each edit, and the row it will save
    resets,         \* edits that reset the usage
    behind,         \* history: edits whose row has changed since they read it
    owed,           \* history: key charges committed since the last reset
    stale,          \* history: "yes" once an edit saved a row it was behind of
    charged,        \* history: committed commands
    doubted         \* history: committed, but reported as failed

tableVars   == <<dedupFp, archiveFp>>
keyVars     == <<keyUsed, keyQuota, keyStatus>>
accountVars == <<accountUsed, outbox, dropped>>
editVars    == <<upc, newUsed, newQuota, newStatus, resets>>
historyVars == <<behind, owed, stale, charged, doubted>>
vars == <<tableVars, paid, keyVars, accountVars, pc, wrote, editVars,
          historyVars>>

Statuses == {"active", "inactive", "quota_exhausted"}

InTx == {"archive", "wallet", "key", "account", "commit"}
Ends == {"done", "duplicate", "failed"}

\* Types of the billing state.
TypeOK ==
    /\ dedupFp \in [Ids -> Fps \cup {NoFp}]
    /\ archiveFp \in [Ids -> Fps \cup {NoFp}]
    /\ paid \in [Rows -> SUBSET Cmds]
    /\ keyUsed \in Nat /\ keyQuota \in Quotas /\ keyStatus \in Statuses
    /\ accountUsed \in Nat
    /\ outbox \subseteq Cmds /\ dropped \subseteq Cmds
    /\ pc \in [Cmds -> {"claim", "conflict"} \cup InTx \cup Ends]
    /\ wrote \in [Cmds -> SUBSET (Rows \cup {"close", "announce", "drop"})]
    /\ upc \in [Updates -> {"read", "save", "saved"}]
    /\ newUsed \in [Updates -> Nat]
    /\ newQuota \in [Updates -> Quotas]
    /\ newStatus \in [Updates -> Statuses]
    /\ resets \subseteq Updates
    /\ behind \subseteq Updates
    /\ owed \in Nat
    /\ stale \in {"no", "yes"}
    /\ charged \subseteq Cmds
    /\ doubted \subseteq Cmds

Init ==
    /\ dedupFp = [i \in Ids |-> NoFp]
    /\ archiveFp = [i \in Ids |-> NoFp]
    /\ paid = [r \in Rows |-> {}]
    /\ keyUsed = 0 /\ keyQuota = FirstQuota /\ keyStatus = "active"
    /\ accountUsed = 0 /\ outbox = {} /\ dropped = {}
    /\ pc = [c \in Cmds |-> "claim"]
    /\ wrote = [c \in Cmds |-> {}]
    /\ upc = [u \in Updates |-> "read"]
    /\ newUsed = [u \in Updates |-> 0]
    /\ newQuota = [u \in Updates |-> FirstQuota]
    /\ newStatus = [u \in Updates |-> "active"]
    /\ resets = {}
    /\ behind = {} /\ owed = 0 /\ stale = "no"
    /\ charged = {} /\ doubted = {}

-----------------------------------------------------------------------------
(* The transaction of Apply. *)

\* c's transaction holds the row of its request id, inserted by itself.
Open(c) == pc[c] \in InTx

\* The row is locked by a transaction other than c's.
LockedFor(c, row) == \E d \in Cmds \ {c} : row \in wrote[d]

\* The transaction ends: with rollback, or with what Commit makes of it.
End(c, answer) ==
    /\ pc' = [pc EXCEPT ![c] = answer]
    /\ wrote' = [wrote EXCEPT ![c] = {}]

\* Answer without the comparison.
AnswerUnchecked(c, kept) == "duplicate"

\* Whether a charge is the same request as the one kept under its id.
Answer(c, kept) == IF kept = FpOf[c] THEN "duplicate" ELSE "failed"

\* The claim inserts the request id; it waits for an open transaction that
\* inserted the same, and meets a conflict with a committed one.
Claim(c) ==
    /\ pc[c] = "claim"
    /\ \A d \in Cmds : Open(d) => IdOf[d] # IdOf[c]
    /\ pc' = [pc EXCEPT ![c] = IF dedupFp[IdOf[c]] = NoFp THEN "archive"
                               ELSE "conflict"]
    /\ UNCHANGED <<tableVars, paid, keyVars, accountVars, wrote, editVars,
                   historyVars>>

\* On conflict the fingerprints are compared.  A row that was archived since
\* is an error: the second SELECT finds none.
CompareFingerprint(c) ==
    /\ pc[c] = "conflict"
    /\ End(c, Answer(c, dedupFp[IdOf[c]]))
    /\ UNCHANGED <<tableVars, paid, keyVars, accountVars, editVars,
                   historyVars>>

\* AskArchive without the archive.
ForgetArchive(c) ==
    /\ pc[c] = "archive"
    /\ pc' = [pc EXCEPT ![c] = "wallet"]
    /\ UNCHANGED <<tableVars, paid, keyVars, accountVars, wrote, editVars,
                   historyVars>>

\* After the insert the archive is asked: a request found there is not
\* charged again.
AskArchive(c) ==
    /\ pc[c] = "archive"
    /\ IF archiveFp[IdOf[c]] = NoFp
          THEN pc' = [pc EXCEPT ![c] = "wallet"] /\ UNCHANGED wrote
          ELSE End(c, Answer(c, archiveFp[IdOf[c]]))
    /\ UNCHANGED <<tableVars, paid, keyVars, accountVars, editVars,
                   historyVars>>

\* Effect without the row's lock: it decides on a row another is changing.
EffectUnlocked(c, row, also, next) ==
    /\ pc[c] = row
    /\ pc' = [pc EXCEPT ![c] = next]
    /\ wrote' = IF row \in RowsOf[c]
                   THEN [wrote EXCEPT ![c] = @ \cup {row} \cup also]
                   ELSE wrote
    /\ UNCHANGED <<tableVars, paid, keyVars, accountVars, editVars,
                   historyVars>>

\* One statement of applyUsageBillingEffects: it waits for the row's lock and
\* is left out when the cost is not positive.
Effect(c, row, also, next) ==
    /\ pc[c] = row
    /\ row \in RowsOf[c] => ~LockedFor(c, row)
    /\ pc' = [pc EXCEPT ![c] = next]
    /\ wrote' = IF row \in RowsOf[c]
                   THEN [wrote EXCEPT ![c] = @ \cup {row} \cup also]
                   ELSE wrote
    /\ UNCHANGED <<tableVars, paid, keyVars, accountVars, editVars,
                   historyVars>>

DeductBalance(c) == Effect(c, "wallet", {}, "key")

\* KeyCrossing with the boundary missed.
KeyCrossingAbove(c) ==
    /\ keyStatus = "active"
    /\ keyQuota > 0
    /\ keyUsed < keyQuota
    /\ keyUsed + KeyCost[c] > keyQuota

\* The key's status changes only when this charge crosses the quota.
KeyCrossing(c) ==
    /\ keyStatus = "active"
    /\ keyQuota > 0
    /\ keyUsed < keyQuota
    /\ keyUsed + KeyCost[c] >= keyQuota

IncrementAPIKeyQuota(c) ==
    Effect(c, "key", IF KeyCrossing(c) THEN {"close"} ELSE {}, "account")

\* AccountCrossing whenever the limit is reached.
AccountReached(c) ==
    /\ AccountLimit > 0
    /\ accountUsed + AccountCost[c] >= AccountLimit

\* The scheduler is told in the same transaction when the account's total
\* quota is crossed.
AccountCrossing(c) ==
    /\ AccountLimit > 0
    /\ accountUsed + AccountCost[c] >= AccountLimit
    /\ accountUsed < AccountLimit

\* What enqueueSchedulerOutbox adds: the event, or nothing when an event of
\* the account less than a second old is in the outbox (of an edit, a rate
\* limit or another quota of the account, which are not modelled here).
AccountEvent(c) ==
    IF AccountCrossing(c) THEN {{"announce"}, {"drop"}} ELSE {{}}

\* IncrementAccountQuota of a bug: its error does not end the transaction.
IncrementAccountQuotaIfPossible(c) ==
    \/ \E event \in AccountEvent(c) : Effect(c, "account", event, "commit")
    \/ /\ pc[c] = "account"
       /\ pc' = [pc EXCEPT ![c] = "commit"]
       /\ UNCHANGED <<tableVars, paid, keyVars, accountVars, wrote, editVars,
                      historyVars>>

IncrementAccountQuota(c) ==
    \E event \in AccountEvent(c) : Effect(c, "account", event, "commit")

\* Rollback of a bug: it also takes back what the key was charged.
RollbackRefunds(c) ==
    /\ Open(c) \/ pc[c] \in {"claim", "conflict"}
    /\ End(c, "failed")
    /\ keyUsed' = IF "key" \in wrote[c] THEN keyUsed - KeyCost[c] ELSE keyUsed
    /\ UNCHANGED <<tableVars, paid, keyQuota, keyStatus, accountVars,
                   editVars, historyVars>>

\* A statement or the commit fails, a row is missing (a key or subscription
\* deleted meanwhile), or the process dies: everything is rolled back, and
\* nobody tries this charge again.
Rollback(c) ==
    /\ Open(c) \/ pc[c] \in {"claim", "conflict"}
    /\ End(c, "failed")
    /\ UNCHANGED <<tableVars, paid, keyVars, accountVars, editVars,
                   historyVars>>

\* Edits that have read the key and not saved it.
Pending == {u \in Updates : upc[u] = "save"}

\* The commit makes the request id and everything written visible; its
\* answer may be lost.
Commit(c) ==
    /\ pc[c] = "commit"
    /\ dedupFp' = [dedupFp EXCEPT ![IdOf[c]] = FpOf[c]]
    /\ paid' = [r \in Rows |-> IF r \in wrote[c] THEN paid[r] \cup {c}
                               ELSE paid[r]]
    /\ keyUsed' = IF "key" \in wrote[c] THEN keyUsed + KeyCost[c] ELSE keyUsed
    /\ owed' = IF "key" \in wrote[c] THEN owed + KeyCost[c] ELSE owed
    /\ behind' = IF "key" \in wrote[c] THEN behind \cup Pending ELSE behind
    /\ keyStatus' = IF "close" \in wrote[c] THEN "quota_exhausted"
                    ELSE keyStatus
    /\ accountUsed' = IF "account" \in wrote[c]
                         THEN accountUsed + AccountCost[c] ELSE accountUsed
    /\ outbox' = IF "announce" \in wrote[c] THEN outbox \cup {c} ELSE outbox
    /\ dropped' = IF "drop" \in wrote[c] THEN dropped \cup {c} ELSE dropped
    /\ charged' = charged \cup {c}
    /\ \E answer \in {"done", "failed"} :
          /\ End(c, answer)
          /\ doubted' = IF answer = "failed" THEN doubted \cup {c}
                        ELSE doubted
    /\ UNCHANGED <<archiveFp, keyQuota, editVars, stale>>

\* CleanupUsageBillingDedup: one statement copies an old row to the archive
\* and deletes it.  How old is left open: a request id may return any time.
Archive(i) ==
    /\ dedupFp[i] # NoFp
    /\ archiveFp' = [archiveFp EXCEPT ![i] =
                        IF @ = NoFp THEN dedupFp[i] ELSE @]
    /\ dedupFp' = [dedupFp EXCEPT ![i] = NoFp]
    /\ UNCHANGED <<paid, keyVars, accountVars, pc, wrote, editVars,
                   historyVars>>

-----------------------------------------------------------------------------
(* The owner edits the key: Update reads the row, changes it and saves it. *)

\* A quota that is changed reopens an exhausted key when it exceeds the usage.
AfterQuota(status, changed, quota) ==
    IF changed = "yes" /\ status = "quota_exhausted" /\ quota > keyUsed
       THEN "active" ELSE status

\* So does a reset of the usage.
AfterReset(status, reset) ==
    IF reset = "yes" /\ status = "quota_exhausted" THEN "active" ELSE status

\* Each field of the request may be absent.
ReadKey(u) ==
    /\ upc[u] = "read"
    /\ upc' = [upc EXCEPT ![u] = "save"]
    /\ \E status \in {keyStatus, "active", "inactive"},
          changed, reset \in {"no", "yes"} :
         \E quota \in IF changed = "yes" THEN Quotas ELSE {keyQuota} :
            /\ newQuota' = [newQuota EXCEPT ![u] = quota]
            /\ newStatus' = [newStatus EXCEPT ![u] =
                    AfterReset(AfterQuota(status, changed, quota), reset)]
            /\ newUsed' = [newUsed EXCEPT ![u] =
                    IF reset = "yes" THEN 0 ELSE keyUsed]
            /\ resets' = IF reset = "yes" THEN resets \cup {u} ELSE resets
    /\ UNCHANGED <<tableVars, paid, keyVars, accountVars, pc, wrote,
                   historyVars>>

\* The whole row is written, usage and status as they were read.
SaveKey(u) ==
    /\ upc[u] = "save"
    /\ \A c \in Cmds : "key" \notin wrote[c]
    /\ upc' = [upc EXCEPT ![u] = "saved"]
    /\ keyUsed' = newUsed[u]
    /\ keyQuota' = newQuota[u]
    /\ keyStatus' = newStatus[u]
    /\ owed' = IF u \in resets THEN 0 ELSE owed
    /\ stale' = IF u \in behind /\ u \notin resets THEN "yes" ELSE stale
    /\ behind' = behind \cup (Pending \ {u})
    /\ UNCHANGED <<tableVars, paid, accountVars, pc, wrote, newUsed, newQuota,
                   newStatus, resets, charged, doubted>>

-----------------------------------------------------------------------------
Step(c) ==
    \/ Claim(c) \/ CompareFingerprint(c) \/ AskArchive(c)
    \/ DeductBalance(c) \/ IncrementAPIKeyQuota(c) \/ IncrementAccountQuota(c)
    \/ Commit(c) \/ Rollback(c)

Edit(u) == ReadKey(u) \/ SaveKey(u)

Next ==
    \/ \E c \in Cmds : Step(c)
    \/ \E i \in Ids : Archive(i)
    \/ \E u \in Updates : Edit(u)

Spec == Init /\ [][Next]_vars

-----------------------------------------------------------------------------
(* Properties. *)

\* A request is charged at most once, however often it is delivered, and when
\* its id has moved to the archive in between (UsageBillingCommand: "must be
\* applied at most once").
ChargedOnce ==
    \A c, d \in charged : IdOf[c] = IdOf[d] => c = d

\* A charge is in all the rows it concerns, or in none (Apply is one
\* transaction, and every error of an effect ends it).
ChargedWhole ==
    \A c \in Cmds, r \in Rows :
        c \in paid[r] <=> c \in charged /\ r \in RowsOf[c]

\* Apply answers truthfully: a duplicate is told so only when the very same
\* request was charged, and a failure costs nothing, unless the answer of the
\* commit was lost.
AnswerIsTrue ==
    \A c \in Cmds :
        /\ pc[c] \in {"done", "duplicate"} =>
              \E d \in charged : IdOf[d] = IdOf[c] /\ FpOf[d] = FpOf[c]
        /\ pc[c] = "failed" /\ c \notin doubted => c \notin charged

\* The scheduler hears of an account that reached its limit once: the charge
\* that crosses it, and no other, adds an event, unless it finds one of the
\* account that is less than a second old
\* (incrementUsageBillingAccountQuota, enqueueSchedulerOutbox).
LimitIsAnnounced ==
    /\ outbox \cup dropped # {} <=>
          AccountLimit > 0 /\ accountUsed >= AccountLimit
    /\ \A c, d \in outbox \cup dropped : c = d

\* The key counts every charge committed since its last reset, unless an edit
\* saved a row it was behind of.
UsageIsCounted == stale = "no" => keyUsed = owed

OverQuota == keyQuota > 0 /\ keyUsed >= keyQuota

\* No charge leaves a key active over its quota, unless it was so before (the
\* CASE of incrementUsageBillingAPIKeyQuota); only an edit may.
ChargeClosesKey ==
    [][upc' = upc /\ OverQuota' /\ keyStatus' = "active"
         => OverQuota /\ keyStatus = "active"]_vars

\* The transactions are as good as serial, under READ COMMITTED and with
\* their statements interleaved: what is committed is what the ledger gets by
\* charging whole requests, each in one step at its commit, with the key's
\* status and the event decided on the rows as they are then (Apply; the
\* row locks of applyUsageBillingEffects).
Ledger == INSTANCE BillingLedger
ImplementsBillingLedger == Ledger!LedgerSpec
=============================================================================
