--------------------------- MODULE SubscriptionOrder ---------------------------
(***************************************************************************)
(* Fulfilment of paid subscription orders of one user for one group        *)
(* (payment_fulfillment.go: ExecuteSubscriptionFulfillment, doSub;         *)
(* codexplus_commerce_entitlement.go: AlreadyGranted; and                  *)
(* subscription_service.go: AssignOrExtendSubscription).  All the orders   *)
(* extend one user_subscriptions row.  Its expires_at is abstracted to the *)
(* set of orders whose days it includes, its notes to the set of orders    *)
(* that left their marker there.                                           *)
(***************************************************************************)
EXTENDS Naturals

CONSTANTS
    Orders,         \* paid orders for the same user and group
    LongerIds,      \* LongerIds[o]: orders whose decimal id starts with o's
    Handlers,       \* the goroutines that may run at the same time
    NoOrder,        \* the order of an idle handler
    MaxExpiries,    \* bound: times the subscription runs out
    MaxErrors,      \* bound: calls that report an error
    MaxAborts       \* bound: handlers that die midway

ASSUME ConstantsAssumption ==
    /\ NoOrder \notin Orders
    /\ LongerIds \in [Orders -> SUBSET Orders]
    /\ MaxExpiries \in Nat
    /\ MaxErrors \in Nat
    /\ MaxAborts \in Nat

VARIABLES
    status,         \* payment_orders.status, from the confirmed payment on
    sub, term, notes,   \* the user_subscriptions row
    audited,        \* orders with a GRANTED or SUBSCRIPTION_SUCCESS audit row
    granted,        \* history: times the order's days were written to the row
    unprotected,    \* history: orders whose marker was overwritten or misread
    pc, ord,        \* what each handler does next, for which order
    seenTerm, seenNotes, seenExpired,   \* the row as each handler read it
    expiries, errors, aborts    \* events and faults so far

subVars     == <<sub, term, notes>>
historyVars == <<granted, unprotected>>
readVars    == <<seenTerm, seenNotes, seenExpired>>
handlerVars == <<pc, ord, readVars>>
faultVars   == <<errors, aborts>>
vars == <<status, subVars, audited, historyVars, handlerVars, expiries,
          faultVars>>

Payable  == {"PAID", "FAILED"}
Statuses == Payable \cup {"RECHARGING", "COMPLETED"}

\* Where a handler that moved the order to RECHARGING can be.
FulfilPCs == {"resolve", "checkGranted", "read", "create", "extend", "record",
              "complete", "markFailed"}

TypeOK ==
    /\ status      \in [Orders -> Statuses]
    /\ sub         \in {"absent", "active", "expired"}
    /\ term        \in SUBSET Orders
    /\ notes       \in SUBSET Orders
    /\ audited     \in SUBSET Orders
    /\ granted     \in [Orders -> Nat]
    /\ unprotected \in SUBSET Orders
    /\ pc          \in [Handlers -> {"idle", "lock"} \cup FulfilPCs]
    /\ ord         \in [Handlers -> Orders \cup {NoOrder}]
    /\ \A h \in Handlers : pc[h] # "idle" => ord[h] \in Orders
    /\ seenTerm    \in [Handlers -> SUBSET Orders]
    /\ seenNotes   \in [Handlers -> SUBSET Orders]
    /\ seenExpired \in SUBSET Handlers
    /\ expiries    \in 0 .. MaxExpiries
    /\ errors      \in 0 .. MaxErrors
    /\ aborts      \in 0 .. MaxAborts

Init ==
    /\ status      = [o \in Orders |-> "PAID"]
    /\ sub         = "absent"
    /\ term        = {}
    /\ notes       = {}
    /\ audited     = {}
    /\ granted     = [o \in Orders |-> 0]
    /\ unprotected = {}
    /\ pc          = [h \in Handlers |-> "idle"]
    /\ ord         = [h \in Handlers |-> NoOrder]
    /\ seenTerm    = [h \in Handlers |-> {}]
    /\ seenNotes   = [h \in Handlers |-> {}]
    /\ seenExpired = {}
    /\ expiries    = 0
    /\ errors      = 0
    /\ aborts      = 0

-----------------------------------------------------------------------------
(* Steps of a handler *)

Goto(h, next) ==
    /\ pc' = [pc EXCEPT ![h] = next]
    /\ UNCHANGED ord

\* What was read is forgotten with the request.
Stop(h) ==
    /\ pc'  = [pc EXCEPT ![h] = "idle"]
    /\ ord' = [ord EXCEPT ![h] = NoOrder]
    /\ seenTerm'    = [seenTerm EXCEPT ![h] = {}]
    /\ seenNotes'   = [seenNotes EXCEPT ![h] = {}]
    /\ seenExpired' = seenExpired \ {h}

Fails ==
    /\ errors < MaxErrors
    /\ errors' = errors + 1
    /\ UNCHANGED aborts

\* A notification or an admin's retry reaches ExecuteSubscriptionFulfillment;
\* the retry leaves the order in PAID or FAILED as well.
ExecuteSubscriptionFulfillment(h, o) ==
    /\ pc[h] = "idle"
    /\ status[o] \in Payable
    /\ pc'  = [pc EXCEPT ![h] = "lock"]
    /\ ord' = [ord EXCEPT ![h] = o]
    /\ UNCHANGED <<status, subVars, audited, historyVars, readVars, expiries,
                   faultVars>>

LockRecharging(h) ==
    /\ pc[h] = "lock"
    /\ \/ /\ status[ord[h]] \in Payable
          /\ status' = [status EXCEPT ![ord[h]] = "RECHARGING"]
          /\ Goto(h, "resolve")
          /\ UNCHANGED readVars
       \/ /\ status[ord[h]] \notin Payable
          /\ Stop(h)
          /\ UNCHANGED status
    /\ UNCHANGED <<subVars, audited, historyVars, expiries, faultVars>>

\* The group must be active and the order's plan resolvable.
Resolve(h) ==
    /\ pc[h] = "resolve"
    /\ \/ Goto(h, "checkGranted") /\ UNCHANGED faultVars
       \/ Goto(h, "markFailed") /\ Fails
    /\ UNCHANGED <<status, subVars, audited, historyVars, readVars, expiries>>

-----------------------------------------------------------------------------
(* AlreadyGranted *)

\* codexPlusCommerceSubscriptionHasOrderMarker: the text "... order 12" is
\* looked for in the notes, where it is also part of "... order 120".
HasOrderMarker(o) ==
    sub # "absent" /\ notes \cap ({o} \cup LongerIds[o]) # {}

\* Mutant of AlreadyGranted: only the audit rows are looked at.
AlreadyAudited(o) == o \in audited

AlreadyGranted(o) == o \in audited \/ HasOrderMarker(o)

\* A query that fails counts as "nothing there".
CheckGranted(h) ==
    /\ pc[h] = "checkGranted"
    /\ \/ /\ Goto(h, IF AlreadyGranted(ord[h]) THEN "complete" ELSE "read")
          /\ UNCHANGED <<unprotected, faultVars>>
       \/ /\ AlreadyGranted(ord[h])
          /\ Fails
          /\ Goto(h, "read")
          /\ unprotected' = unprotected \cup {ord[h]}
    /\ UNCHANGED <<status, subVars, audited, granted, readVars, expiries>>

-----------------------------------------------------------------------------
(* AssignOrExtendSubscription *)

\* A read that fails counts as "no subscription".
ReadSubscription(h) ==
    /\ pc[h] = "read"
    /\ \/ /\ sub # "absent"
          /\ seenTerm'    = [seenTerm EXCEPT ![h] = term]
          /\ seenNotes'   = [seenNotes EXCEPT ![h] = notes]
          /\ seenExpired' = IF sub = "expired" THEN seenExpired \cup {h}
                          ELSE seenExpired \ {h}
          /\ Goto(h, "extend")
          /\ UNCHANGED faultVars
       \/ /\ sub = "absent"
          /\ Goto(h, "create")
          /\ UNCHANGED <<readVars, faultVars>>
       \/ /\ sub # "absent"
          /\ Fails
          /\ Goto(h, "create")
          /\ UNCHANGED readVars
    /\ UNCHANGED <<status, subVars, audited, historyVars, expiries>>

\* The row is written, and the call returns; or it returns an error after
\* the write (the commit's answer or the read of the new row fails).
Written(h) ==
    /\ granted' = [granted EXCEPT ![ord[h]] = @ + 1]
    /\ \/ Goto(h, "record") /\ UNCHANGED faultVars
       \/ Goto(h, "markFailed") /\ Fails

\* The insert; a row that is there already violates the unique index.
CreateSubscription(h) ==
    /\ pc[h] = "create"
    /\ \/ /\ sub = "absent"
          /\ sub'   = "active"
          /\ term'  = {ord[h]}
          /\ notes' = {ord[h]}
          /\ Written(h)
       \/ /\ sub # "absent"
          /\ Goto(h, "markFailed")
          /\ UNCHANGED <<subVars, granted, faultVars>>
    /\ UNCHANGED <<status, audited, unprotected, readVars, expiries>>

\* Mutant of UpdateTerm: the new notes replace the old ones.
UpdateTermOnly(h) ==
    /\ sub'   = "active"
    /\ term'  = (IF h \in seenExpired THEN {} ELSE seenTerm[h]) \cup {ord[h]}
    /\ notes' = {ord[h]}

\* updateExistingSubscriptionTerm: one transaction writes the term and the
\* notes, both computed from the row as it was read before the transaction.
UpdateTerm(h) ==
    /\ sub'   = "active"
    /\ term'  = (IF h \in seenExpired THEN {} ELSE seenTerm[h]) \cup {ord[h]}
    /\ notes' = seenNotes[h] \cup {ord[h]}

\* The markers that are in the notes now and were not when h read them.
Overwritten(h) == notes \ (seenNotes[h] \cup {ord[h]})

\* Mutant of ExtendSubscription: an error of the transaction is dropped.
ExtendIgnoringErrors(h) ==
    /\ pc[h] = "extend"
    /\ \/ /\ UpdateTerm(h)
          /\ Written(h)
          /\ unprotected' = unprotected \cup Overwritten(h)
       \/ /\ Fails
          /\ Goto(h, "record")
          /\ UNCHANGED <<subVars, granted, unprotected>>
    /\ UNCHANGED <<status, audited, readVars, expiries>>

ExtendSubscription(h) ==
    /\ pc[h] = "extend"
    /\ \/ /\ UpdateTerm(h)
          /\ Written(h)
          /\ unprotected' = unprotected \cup Overwritten(h)
       \/ /\ Fails
          /\ Goto(h, "markFailed")
          /\ UNCHANGED <<subVars, granted, unprotected>>
    /\ UNCHANGED <<status, audited, readVars, expiries>>

-----------------------------------------------------------------------------
(* The end of a fulfilment *)

\* RecordGrant: an audit row only for an order with a Codex++ plan, and the
\* error of the write is dropped.
RecordGrant(h) ==
    /\ pc[h] = "record"
    /\ audited' \in {audited, audited \cup {ord[h]}}
    /\ Goto(h, "complete")
    /\ UNCHANGED <<status, subVars, historyVars, readVars, expiries,
                   faultVars>>

\* markCompleted; the UPDATE may report an error, with or without effect, and
\* the audit row may not be written.
MarkCompleted(h) ==
    /\ pc[h] = "complete"
    /\ \/ /\ status' = [status EXCEPT ![ord[h]] =
                           IF @ = "RECHARGING" THEN "COMPLETED" ELSE @]
          /\ audited' \in {audited, audited \cup {ord[h]}}
          /\ Stop(h)
          /\ UNCHANGED faultVars
       \/ /\ Fails
          /\ status' \in {status, [status EXCEPT ![ord[h]] =
                             IF @ = "RECHARGING" THEN "COMPLETED" ELSE @]}
          /\ Goto(h, "markFailed")
          /\ UNCHANGED <<audited, readVars>>
    /\ UNCHANGED <<subVars, historyVars, expiries>>

\* markFailed; its own error is dropped.
MarkFailed(h) ==
    /\ pc[h] = "markFailed"
    /\ \/ /\ status' = [status EXCEPT ![ord[h]] =
                           IF @ = "RECHARGING" THEN "FAILED" ELSE @]
          /\ UNCHANGED faultVars
       \/ Fails /\ UNCHANGED status
    /\ Stop(h)
    /\ UNCHANGED <<subVars, audited, historyVars, expiries>>

-----------------------------------------------------------------------------

\* The process stops between two calls.
Abort(h) ==
    /\ pc[h] # "idle"
    /\ aborts < MaxAborts
    /\ aborts' = aborts + 1
    /\ Stop(h)
    /\ UNCHANGED <<status, subVars, audited, historyVars, expiries, errors>>

\* Time passes expires_at.
Expire ==
    /\ sub = "active"
    /\ expiries < MaxExpiries
    /\ expiries' = expiries + 1
    /\ sub'      = "expired"
    /\ UNCHANGED <<status, term, notes, audited, historyVars,
                   handlerVars, faultVars>>

Step(h) ==
    \/ LockRecharging(h) \/ Resolve(h) \/ CheckGranted(h)
    \/ ReadSubscription(h) \/ CreateSubscription(h) \/ ExtendSubscription(h)
    \/ RecordGrant(h) \/ MarkCompleted(h) \/ MarkFailed(h)

Next ==
    \/ \E h \in Handlers :
          \/ \E o \in Orders : ExecuteSubscriptionFulfillment(h, o)
          \/ Step(h)
          \/ Abort(h)
    \/ Expire

Spec == Init /\ [][Next]_vars

-----------------------------------------------------------------------------
(* Properties *)

\* However often a fulfilment is retried, an order's days are given once,
\* unless another order's grant overwrote its marker or the marker could not
\* be read (doSub: audit rows and notes make the grant idempotent).
GrantedOnce ==
    \A o \in Orders \ unprotected : granted[o] <= 1

\* The orders that a grant, of theirs or of one whose marker contains
\* theirs, lets AlreadyGranted find.
Justified ==
    {o \in Orders : \E p \in {o} \cup LongerIds[o] : granted[p] > 0}

\* A completed order was granted, or its marker was found within that of
\* another order that was.
CompletedIsGranted ==
    \A o \in Orders : status[o] = "COMPLETED" => o \in Justified

\* The notes can be trusted in the retry window: days that the row includes
\* have their marker beside them, even when grants overwrite each other
\* (updateExistingSubscriptionTerm writes both in one transaction).
TermIsNoted == term \subseteq notes

\* "Not expired: days are added to the current expiry time": a grant never
\* takes away days that the running term includes.
ExtendsCurrentTerm ==
    [][sub = "active" => term \subseteq term']_vars
=============================================================================
