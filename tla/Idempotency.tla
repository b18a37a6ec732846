------------------------------ MODULE Idempotency ------------------------------
(***************************************************************************)
(* Requests that carry the same Idempotency-Key (service/idempotency.go,   *)
(* IdempotencyCoordinator.Execute; repository/idempotency_repo.go).  They  *)
(* share one idempotency_records row.  A request reads the clock once,     *)
(* when it starts, and derives its lock and its expiry from that reading;  *)
(* the row is claimed, read and marked by separate statements.             *)
(***************************************************************************)
EXTENDS Naturals

CONSTANTS
    Requests,           \* requests that carry the key
    Fingerprints,       \* the payloads they may have
    NoFingerprint,
    TTL,                \* default_ttl_seconds
    ProcessingTimeout,  \* processing_timeout_seconds
    FailedRetryBackoff, \* failed_retry_backoff_seconds
    MaxTime             \* bound: the last clock reading

ASSUME ConstantsAssumption ==
    /\ NoFingerprint \notin Fingerprints
    /\ TTL \in Nat \ {0}
    /\ ProcessingTimeout \in Nat \ {0}
    /\ FailedRetryBackoff \in Nat
    /\ MaxTime \in Nat \ {0}

VARIABLES
    now,            \* the clock of the database and of every instance
    rowId, rowFp, status, locked, expires, body,
                    \* the idempotency_records row of the key; id 0 when there
                    \* is none, locked 0 for NULL
    nextId,         \* the sequence behind its id
    doomed,         \* the id that a running DeleteExpired has picked, or 0
    pc, fp,         \* what each request does next, and its fingerprint
    started,        \* the clock as each request read it
    id, seen,       \* the id of the row it works on, and the status it read
    late,           \* history: requests slower than the limits they set
    swept,          \* history: ids of the rows deleted before they expired
    lives,          \* history: when the latest effect's record expires
    firstLives,     \* history: when the first effect's record expires
    repeats         \* history: effects repeated while an effect's record lives

historyVars == <<late, swept, lives, firstLives, repeats>>
requestVars == <<pc, fp, started, id, seen>>
rowVars == <<rowId, rowFp, status, locked, expires, body>>
vars == <<now, rowVars, nextId, doomed, requestVars, historyVars>>

Statuses == {"processing", "succeeded", "failed_retryable"}
Answers  == {"executed", "failed", "replayed", "conflict", "in_progress",
             "backoff", "unavailable", "aborted"}
Claiming == {"create", "get", "reclaimExpired", "getAgain", "reclaimFailed"}
Owning   == {"execute", "markSucceeded", "markFailed"}
PCs      == {"new"} \cup Claiming \cup Owning \cup Answers

TypeOK ==
    /\ now        \in 1 .. MaxTime
    /\ nextId     \in Nat \ {0}
    /\ rowId      \in 0 .. nextId - 1
    /\ doomed     \in 0 .. nextId - 1
    /\ rowFp      \in Fingerprints \cup {NoFingerprint}
    /\ status     \in Statuses
    /\ locked     \in Nat
    /\ expires    \in Nat
    /\ body       \in Fingerprints \cup {"none", "truncated"}
    /\ pc         \in [Requests -> PCs]
    /\ fp         \in [Requests -> Fingerprints \cup {NoFingerprint}]
    /\ \A r \in Requests : pc[r] # "new" => fp[r] # NoFingerprint
    /\ started    \in [Requests -> Nat]
    /\ id         \in [Requests -> Nat]
    /\ \A r \in Requests :
          pc[r] \in Owning \cup {"reclaimExpired", "reclaimFailed"}
            => id[r] \in 1 .. nextId - 1
    /\ seen       \in [Requests -> Statuses]
    /\ late       \in SUBSET Requests
    /\ swept      \in SUBSET Nat
    /\ lives      \in Nat
    /\ firstLives \in Nat
    /\ repeats    \in SUBSET {"first", "later"}

Init ==
    /\ now        = 1
    /\ rowId      = 0
    /\ rowFp      = NoFingerprint
    /\ status     = "processing"
    /\ locked     = 0
    /\ expires    = 0
    /\ body       = "none"
    /\ nextId     = 1
    /\ doomed     = 0
    /\ pc         = [r \in Requests |-> "new"]
    /\ fp         = [r \in Requests |-> NoFingerprint]
    /\ started    = [r \in Requests |-> 0]
    /\ id         = [r \in Requests |-> 0]
    /\ seen       = [r \in Requests |-> "processing"]
    /\ late       = {}
    /\ swept      = {}
    /\ lives      = 0
    /\ firstLives = 0
    /\ repeats    = {}

-----------------------------------------------------------------------------
(* The request *)

Goto(r, next) == pc' = [pc EXCEPT ![r] = next]

\* Execute up to the first statement: the fingerprint, and the only reading of
\* the clock before the request is executed.
Start(r) ==
    /\ pc[r] = "new"
    /\ Goto(r, "create")
    /\ \E f \in Fingerprints : fp' = [fp EXCEPT ![r] = f]
    /\ started' = [started EXCEPT ![r] = now]
    /\ UNCHANGED <<now, doomed, rowVars, nextId, id, seen, historyVars>>

LockedUntil(r) == started[r] + ProcessingTimeout
ExpiresAt(r)   == started[r] + TTL

\* INSERT ... ON CONFLICT DO NOTHING.
CreateProcessing(r) ==
    /\ pc[r] = "create"
    /\ \/ /\ rowId = 0
          /\ rowId'   = nextId
          /\ rowFp'   = fp[r]
          /\ status'  = "processing"
          /\ locked'  = LockedUntil(r)
          /\ expires' = ExpiresAt(r)
          /\ body'    = "none"
          /\ nextId' = nextId + 1
          /\ id' = [id EXCEPT ![r] = nextId]
          /\ Goto(r, "execute")
       \/ /\ rowId # 0
          /\ Goto(r, "get")
          /\ UNCHANGED <<rowVars, nextId, id>>
    /\ UNCHANGED <<now, doomed, fp, started, seen, historyVars>>

\* Mutant of SameRequest: the stored fingerprint is not compared.
AnyRequest(r) == rowId # 0

SameRequest(r) == rowFp = fp[r]

\* What to do about a row of the same request, by its status.
ByStatus(r) ==
    CASE status = "succeeded" ->
            IF body = "truncated" THEN "unavailable" ELSE "replayed"
      [] status = "processing" -> "in_progress"
      [] OTHER -> IF locked > started[r] THEN "backoff" ELSE "reclaimFailed"

Remember(r) ==
    /\ id'   = [id   EXCEPT ![r] = rowId]
    /\ seen' = [seen EXCEPT ![r] = status]

\* GetByScopeAndKeyHash after a conflict; the decision uses what was read and
\* the clock of the request's start.
GetExisting(r) ==
    /\ pc[r] = "get"
    /\ \/ /\ rowId = 0
          /\ Goto(r, "unavailable")
          /\ UNCHANGED <<id, seen>>
       \/ /\ rowId # 0
          /\ ~SameRequest(r)
          /\ Goto(r, "conflict")
          /\ UNCHANGED <<id, seen>>
       \/ /\ rowId # 0
          /\ SameRequest(r)
          /\ Goto(r, IF expires > started[r] THEN ByStatus(r)
                                                 ELSE "reclaimExpired")
          /\ Remember(r)
    /\ UNCHANGED <<now, doomed, rowVars, nextId, fp, started, historyVars>>

\* Mutant of Reclaimable: the lock is not looked at.
ReclaimableLocked(r, from) == rowId = id[r] /\ status = from

\* The WHERE of TryReclaim, and its SET.
Reclaimable(r, from) ==
    /\ rowId = id[r]
    /\ status = from
    /\ locked <= started[r]

Reclaim(r) ==
    /\ status'  = "processing"
    /\ locked'  = LockedUntil(r)
    /\ expires' = ExpiresAt(r)
    /\ UNCHANGED <<rowId, rowFp, body>>

TryReclaimExpired(r) ==
    /\ pc[r] = "reclaimExpired"
    /\ \/ Reclaimable(r, seen[r]) /\ Reclaim(r) /\ Goto(r, "execute")
       \/ ~Reclaimable(r, seen[r]) /\ Goto(r, "getAgain") /\ UNCHANGED rowVars
    /\ UNCHANGED <<now, doomed, nextId, fp, started, id, seen, historyVars>>

\* The row after somebody else reclaimed it; its expiry is not looked at.
GetLatest(r) ==
    /\ pc[r] = "getAgain"
    /\ \/ /\ rowId = 0
          /\ Goto(r, "unavailable")
          /\ UNCHANGED <<id, seen>>
       \/ /\ rowId # 0
          /\ ~SameRequest(r)
          /\ Goto(r, "conflict")
          /\ UNCHANGED <<id, seen>>
       \/ /\ rowId # 0
          /\ SameRequest(r)
          /\ Goto(r, ByStatus(r))
          /\ Remember(r)
    /\ UNCHANGED <<now, doomed, rowVars, nextId, fp, started, historyVars>>

TryReclaimFailed(r) ==
    /\ pc[r] = "reclaimFailed"
    /\ \/ /\ Reclaimable(r, "failed_retryable")
          /\ Reclaim(r)
          /\ Goto(r, "execute")
       \/ /\ ~Reclaimable(r, "failed_retryable")
          /\ Goto(r, "in_progress")
          /\ UNCHANGED rowVars
    /\ UNCHANGED <<now, doomed, nextId, fp, started, id, seen, historyVars>>

\* execute(ctx) succeeds: the effect the key protects.
ExecuteSucceeds(r) ==
    /\ pc[r] = "execute"
    /\ Goto(r, "markSucceeded")
    /\ lives' = ExpiresAt(r)
    /\ firstLives' = IF firstLives = 0 THEN ExpiresAt(r) ELSE firstLives
    /\ repeats' = repeats \cup (IF now < firstLives THEN {"first"} ELSE {})
                          \cup (IF now < lives THEN {"later"} ELSE {})
    /\ UNCHANGED <<now, doomed, rowVars, nextId, fp, started, id, seen, late,
                   swept>>

ExecuteFails(r) ==
    /\ pc[r] = "execute"
    /\ Goto(r, "markFailed")
    /\ UNCHANGED <<now, doomed, rowVars, nextId, fp, started, id, seen,
                   historyVars>>

\* Mutant of MarkSucceeded: the record keeps the expiry of the lock.
MarkSucceededBriefly(r) ==
    /\ pc[r] = "markSucceeded"
    /\ rowId = id[r]
    /\ status'  = "succeeded"
    /\ locked'  = 0
    /\ expires' = LockedUntil(r)
    /\ body'    = fp[r]
    /\ Goto(r, "executed")
    /\ UNCHANGED <<now, doomed, rowId, rowFp, nextId, fp, started, id, seen,
                   historyVars>>

\* The response is marshalled, cut when it is too long, and stored; the row is
\* found by its id alone.
MarkSucceeded(r) ==
    /\ pc[r] = "markSucceeded"
    /\ \/ /\ rowId = id[r]
          /\ status'  = "succeeded"
          /\ locked'  = 0
          /\ expires' = ExpiresAt(r)
          /\ body'    \in {fp[r], "truncated"}
          /\ UNCHANGED <<rowId, rowFp>>
       \/ rowId # id[r] /\ UNCHANGED rowVars
    /\ Goto(r, "executed")
    /\ UNCHANGED <<now, doomed, nextId, fp, started, id, seen, historyVars>>

\* The backoff counts from the failure, the expiry from the request's start.
MarkFailedRetryable(r) ==
    /\ pc[r] = "markFailed"
    /\ \/ /\ rowId = id[r]
          /\ status'  = "failed_retryable"
          /\ locked'  = now + FailedRetryBackoff
          /\ expires' = ExpiresAt(r)
          /\ UNCHANGED <<rowId, rowFp, body>>
       \/ rowId # id[r] /\ UNCHANGED rowVars
    /\ Goto(r, "failed")
    /\ UNCHANGED <<now, doomed, nextId, fp, started, id, seen, historyVars>>

\* A statement reports an error, before or after it took effect, or the
\* instance dies; the row stays as it is.
Abort(r) ==
    /\ pc[r] \in Claiming \cup Owning
    /\ Goto(r, "aborted")
    /\ UNCHANGED <<now, doomed, rowVars, nextId, fp, started, id, seen,
                   historyVars>>

-----------------------------------------------------------------------------
(* The clean-up job and the clock *)

\* One statement in two steps, as under READ COMMITTED: the victims are what
\* the statement's snapshot shows, and a victim that was changed meanwhile is
\* matched again by its id alone, not by its expiry.
PickExpired ==
    /\ doomed = 0
    /\ rowId # 0
    /\ expires <= now
    /\ doomed' = rowId
    /\ UNCHANGED <<now, rowVars, nextId, requestVars, historyVars>>

DeleteExpired ==
    /\ doomed # 0
    /\ doomed' = 0
    /\ \/ /\ rowId = doomed
          /\ rowId'   = 0
          /\ rowFp'   = NoFingerprint
          /\ status'  = "processing"
          /\ locked'  = 0
          /\ expires' = 0
          /\ body'    = "none"
          /\ swept'   = swept \cup (IF expires > now THEN {rowId} ELSE {})
       \/ /\ rowId # doomed
          /\ UNCHANGED <<rowVars, swept>>
    /\ UNCHANGED <<now, nextId, requestVars, late, lives, firstLives, repeats>>

\* A request is late when it has not claimed the row before the lock it would
\* set has run out, or not finished before the record expires.
Late(r) ==
    \/ pc[r] \in Claiming /\ now' >= LockedUntil(r)
    \/ pc[r] \in Claiming \cup Owning /\ now' >= ExpiresAt(r)

Tick ==
    /\ now < MaxTime
    /\ now' = now + 1
    /\ late' = late \cup {r \in Requests : Late(r)}
    /\ UNCHANGED <<rowVars, nextId, doomed, requestVars, swept, lives,
                   firstLives, repeats>>

Step(r) ==
    \/ Start(r)
    \/ CreateProcessing(r)
    \/ GetExisting(r)
    \/ TryReclaimExpired(r)
    \/ GetLatest(r)
    \/ TryReclaimFailed(r)
    \/ ExecuteSucceeds(r)
    \/ ExecuteFails(r)
    \/ MarkSucceeded(r)
    \/ MarkFailedRetryable(r)
    \/ Abort(r)

Next == PickExpired \/ DeleteExpired \/ Tick \/ \E r \in Requests : Step(r)

Spec == Init /\ [][Next]_vars

-----------------------------------------------------------------------------
(* Properties *)

\* What the coordinator's promises rest on: every request claims the row
\* before its own lock time is over and finishes before its record expires
\* (both are times it chose at its start, and nothing renews them), and the
\* clean-up has not met a record that was reclaimed after it picked it.
InTime == late = {} /\ swept = {}

\* Two requests never execute at the same time while all are in time.
OneExecution ==
    InTime => \A r, q \in Requests :
                  pc[r] \in Owning /\ pc[q] \in Owning => r = q

\* Under the same condition the effect is not repeated while the record of the
\* first success lives, whatever retries, failures, clean-ups and crashes there
\* are.
EffectOnce == InTime => "first" \notin repeats

\* A replayed answer is the one stored for the same payload.
ReplayIsOwn ==
    [][\A r \in Requests :
          pc[r] # "replayed" /\ pc'[r] = "replayed" => body = fp[r]]_vars

-----------------------------------------------------------------------------
(* What the repository says and the code does not do *)

\* "concurrent same-key requests should execute business side-effect once"
\* (idempotency_test.go:392), also when they find an expired record: TryReclaim
\* compares the status it saw, and a record that was reclaimed and has
\* succeeded again has the same one.
SingleSideEffect == InTime => repeats = {}
=============================================================================
