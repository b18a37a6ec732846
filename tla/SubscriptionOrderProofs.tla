----------------------- MODULE SubscriptionOrderProofs -----------------------
(***************************************************************************)
(* Proofs about SubscriptionOrder for any orders and ids, handlers and fault *)
(* bounds.   That a retry does not grant twice rests on the       *)
(* marker in the notes, which rests on who may write the row while the     *)
(* order is in RECHARGING; IInv follows the marker through the stale reads *)
(* that the handlers hold.                                                 *)
(***************************************************************************)
EXTENDS SubscriptionOrder, TLAPS

\* An order is fulfilled by one handler, which holds its RECHARGING status;
\* only a completion whose answer was lost is already COMPLETED.
LockInv ==
    \A h \in Handlers : pc[h] \in FulfilPCs =>
        /\ status[ord[h]] \in {"RECHARGING", "COMPLETED"}
        /\ pc[h] # "markFailed" => status[ord[h]] = "RECHARGING"
        /\ \A i \in Handlers \ {h} : pc[i] \in FulfilPCs => ord[i] # ord[h]

\* Whatever is noted, or was read from the notes, was granted.
NotedInv ==
    /\ sub = "absent" => notes = {}
    /\ \A p \in notes : granted[p] > 0
    /\ \A h \in Handlers : \A p \in seenNotes[h] : granted[p] > 0

\* Audit rows and completions come from grants.
JustifiedInv ==
    /\ audited \subseteq Justified
    /\ \A h \in Handlers :
          pc[h] \in {"record", "complete"} => ord[h] \in Justified
    /\ CompletedIsGranted

\* The term that is in the row, or was read from it, is noted beside it.
NotesInv ==
    /\ TermIsNoted
    /\ \A h \in Handlers : seenTerm[h] \subseteq seenNotes[h]

\* A grant whose marker nobody overwrote is in the notes, and a handler on
\* its way to a grant has not seen one.
MarkerInv ==
    /\ \A o \in Orders \ unprotected :
          granted[o] > 0 => sub # "absent" /\ o \in notes
    /\ \A h \in Handlers :
          pc[h] \in {"read", "create", "extend"} /\ ord[h] \notin unprotected
            => granted[ord[h]] = 0

IInv ==
    /\ TypeOK
    /\ LockInv
    /\ NotedInv
    /\ JustifiedInv
    /\ NotesInv
    /\ MarkerInv
    /\ GrantedOnce

-----------------------------------------------------------------------------
\* Every step keeps the types.
LEMMA TypeStep ==
    ASSUME IInv, [Next]_vars PROVE TypeOK'
<1> USE ConstantsAssumption DEF IInv, TypeOK, Statuses, FulfilPCs, Payable,
        Goto, Stop, Fails, subVars, historyVars, readVars, handlerVars,
        faultVars
<1>1. ASSUME NEW h \in Handlers, NEW o \in Orders,
             ExecuteSubscriptionFulfillment(h, o)
      PROVE  TypeOK'
  BY <1>1, SMTT(30) DEF ExecuteSubscriptionFulfillment
<1>2. ASSUME NEW h \in Handlers, LockRecharging(h) \/ Resolve(h)
      PROVE  TypeOK'
  BY <1>2, SMTT(30) DEF LockRecharging, Resolve
<1>3. ASSUME NEW h \in Handlers, CheckGranted(h)
      PROVE  TypeOK'
  BY <1>3, SMTT(30) DEF CheckGranted
<1>4. ASSUME NEW h \in Handlers, ReadSubscription(h)
      PROVE  TypeOK'
  BY <1>4, SMTT(30) DEF ReadSubscription
<1>5. ASSUME NEW h \in Handlers, CreateSubscription(h)
      PROVE  TypeOK'
  BY <1>5, SMTT(30) DEF CreateSubscription, Written
<1>6. ASSUME NEW h \in Handlers, ExtendSubscription(h)
      PROVE  TypeOK'
  BY <1>6, SMTT(30) DEF ExtendSubscription, Written, UpdateTerm, Overwritten
<1>7. ASSUME NEW h \in Handlers, RecordGrant(h)
      PROVE  TypeOK'
  BY <1>7, SMTT(30) DEF RecordGrant
<1>8. ASSUME NEW h \in Handlers, MarkCompleted(h)
      PROVE  TypeOK'
  BY <1>8, SMTT(30) DEF MarkCompleted
<1>9. ASSUME NEW h \in Handlers, MarkFailed(h)
      PROVE  TypeOK'
  BY <1>9, SMTT(30) DEF MarkFailed
<1>10. ASSUME NEW h \in Handlers, Abort(h)
      PROVE  TypeOK'
  BY <1>10, SMTT(30) DEF Abort
<1>11. ASSUME Expire
      PROVE  TypeOK'
  BY <1>11, SMTT(30) DEF Expire
<1>12. CASE UNCHANGED vars
  BY <1>12, SMTT(30) DEF vars
<1> QED
  BY <1>1, <1>2, <1>3, <1>4, <1>5, <1>6, <1>7, <1>8, <1>9, <1>10, <1>11,
       <1>12 DEF Next, Step

-----------------------------------------------------------------------------
\* LockRecharging needs a PAID or FAILED order; while somebody fulfils it the
\* order is in neither.
LEMMA LockStep ==
    ASSUME IInv, [Next]_vars PROVE LockInv'
<1> USE ConstantsAssumption DEF IInv, TypeOK, LockInv, FulfilPCs, Payable,
        Goto, Stop, Fails, subVars, historyVars, readVars, handlerVars,
        faultVars
<1>1. ASSUME NEW h \in Handlers, NEW o \in Orders,
             ExecuteSubscriptionFulfillment(h, o)
      PROVE  LockInv'
  BY <1>1, SMTT(30) DEF ExecuteSubscriptionFulfillment
<1>2. ASSUME NEW h \in Handlers, LockRecharging(h) \/ Resolve(h)
      PROVE  LockInv'
  BY <1>2, SMTT(30) DEF LockRecharging, Resolve
<1>3. ASSUME NEW h \in Handlers, CheckGranted(h)
      PROVE  LockInv'
  BY <1>3, SMTT(30) DEF CheckGranted, AlreadyGranted, HasOrderMarker
<1>4. ASSUME NEW h \in Handlers, ReadSubscription(h)
      PROVE  LockInv'
  BY <1>4, SMTT(30) DEF ReadSubscription
<1>5. ASSUME NEW h \in Handlers, CreateSubscription(h)
      PROVE  LockInv'
  BY <1>5, SMTT(30) DEF CreateSubscription, Written
<1>6. ASSUME NEW h \in Handlers, ExtendSubscription(h)
      PROVE  LockInv'
  BY <1>6, SMTT(30) DEF ExtendSubscription, Written, UpdateTerm, Overwritten
<1>7. ASSUME NEW h \in Handlers, RecordGrant(h)
      PROVE  LockInv'
  BY <1>7, SMTT(30) DEF RecordGrant
<1>8. ASSUME NEW h \in Handlers, MarkCompleted(h)
      PROVE  LockInv'
  BY <1>8, SMTT(30) DEF MarkCompleted
<1>9. ASSUME NEW h \in Handlers, MarkFailed(h)
      PROVE  LockInv'
  BY <1>9, SMTT(30) DEF MarkFailed
<1>10. ASSUME NEW h \in Handlers, Abort(h)
      PROVE  LockInv'
  BY <1>10, SMTT(30) DEF Abort
<1>11. ASSUME Expire
      PROVE  LockInv'
  BY <1>11, SMTT(30) DEF Expire
<1>12. CASE UNCHANGED vars
  BY <1>12, SMTT(30) DEF vars
<1> QED
  BY <1>1, <1>2, <1>3, <1>4, <1>5, <1>6, <1>7, <1>8, <1>9, <1>10, <1>11,
       <1>12 DEF Next, Step

-----------------------------------------------------------------------------
\* A marker is written together with its grant.
LEMMA NotedStep ==
    ASSUME IInv, [Next]_vars PROVE NotedInv'
<1> USE ConstantsAssumption DEF IInv, TypeOK, NotedInv, FulfilPCs, Payable,
        Goto, Stop, Fails, subVars, historyVars, readVars, handlerVars,
        faultVars
<1>1. ASSUME NEW h \in Handlers, NEW o \in Orders,
             ExecuteSubscriptionFulfillment(h, o)
      PROVE  NotedInv'
  BY <1>1, SMTT(30) DEF ExecuteSubscriptionFulfillment
<1>2. ASSUME NEW h \in Handlers, LockRecharging(h) \/ Resolve(h)
      PROVE  NotedInv'
  BY <1>2, SMTT(30) DEF LockRecharging, Resolve
<1>3. ASSUME NEW h \in Handlers, CheckGranted(h)
      PROVE  NotedInv'
  BY <1>3, SMTT(30) DEF CheckGranted, AlreadyGranted, HasOrderMarker
<1>4. ASSUME NEW h \in Handlers, ReadSubscription(h)
      PROVE  NotedInv'
  BY <1>4, SMTT(30) DEF ReadSubscription
<1>5. ASSUME NEW h \in Handlers, CreateSubscription(h)
      PROVE  NotedInv'
  BY <1>5, SMTT(30) DEF CreateSubscription, Written
<1>6. ASSUME NEW h \in Handlers, ExtendSubscription(h)
      PROVE  NotedInv'
  BY <1>6, SMTT(30) DEF ExtendSubscription, Written, UpdateTerm, Overwritten
<1>7. ASSUME NEW h \in Handlers, RecordGrant(h)
      PROVE  NotedInv'
  BY <1>7, SMTT(30) DEF RecordGrant
<1>8. ASSUME NEW h \in Handlers, MarkCompleted(h)
      PROVE  NotedInv'
  BY <1>8, SMTT(30) DEF MarkCompleted
<1>9. ASSUME NEW h \in Handlers, MarkFailed(h)
      PROVE  NotedInv'
  BY <1>9, SMTT(30) DEF MarkFailed
<1>10. ASSUME NEW h \in Handlers, Abort(h)
      PROVE  NotedInv'
  BY <1>10, SMTT(30) DEF Abort
<1>11. ASSUME Expire
      PROVE  NotedInv'
  BY <1>11, SMTT(30) DEF Expire
<1>12. CASE UNCHANGED vars
  BY <1>12, SMTT(30) DEF vars
<1> QED
  BY <1>1, <1>2, <1>3, <1>4, <1>5, <1>6, <1>7, <1>8, <1>9, <1>10, <1>11,
       <1>12 DEF Next, Step

-----------------------------------------------------------------------------
\* A marker that is found, or a grant, justifies the order.
LEMMA FoundIsJustified ==
    ASSUME IInv, NEW o \in Orders, AlreadyGranted(o) \/ granted[o] > 0
    PROVE  o \in Justified
BY SMTT(30) DEF IInv, TypeOK, NotedInv, JustifiedInv, Justified, AlreadyGranted,
             HasOrderMarker

-----------------------------------------------------------------------------
\* Grants are never taken back.
LEMMA JustifiedGrows ==
    ASSUME IInv, [Next]_vars PROVE (Justified \subseteq Justified' /\ \A q \in Orders : granted'[q] # granted[q] => q \in Justified')
<1> USE ConstantsAssumption DEF IInv, TypeOK, Justified, FulfilPCs, Payable,
        Goto, Stop, Fails, subVars, historyVars, readVars, handlerVars,
        faultVars
<1>1. ASSUME NEW h \in Handlers, NEW o \in Orders,
             ExecuteSubscriptionFulfillment(h, o)
      PROVE  (Justified \subseteq Justified' /\ \A q \in Orders : granted'[q] # granted[q] => q \in Justified')
  BY <1>1, SMTT(30) DEF ExecuteSubscriptionFulfillment
<1>2. ASSUME NEW h \in Handlers,
             LockRecharging(h) \/ Resolve(h) \/ CheckGranted(h) \/
             ReadSubscription(h) \/ RecordGrant(h) \/ MarkCompleted(h) \/
             MarkFailed(h) \/ Abort(h)
      PROVE  (Justified \subseteq Justified' /\ \A q \in Orders : granted'[q] # granted[q] => q \in Justified')
  BY <1>2, SMTT(30) DEF LockRecharging, Resolve, CheckGranted,
       ReadSubscription, RecordGrant, MarkCompleted, MarkFailed, Abort
<1>3. ASSUME NEW h \in Handlers,
             CreateSubscription(h) \/ ExtendSubscription(h)
      PROVE  (Justified \subseteq Justified' /\ \A q \in Orders : granted'[q] # granted[q] => q \in Justified')
  BY <1>3, SMTT(30) DEF CreateSubscription, ExtendSubscription, Written
<1>4. ASSUME Expire
      PROVE  (Justified \subseteq Justified' /\ \A q \in Orders : granted'[q] # granted[q] => q \in Justified')
  BY <1>4, SMTT(30) DEF Expire
<1>5. CASE UNCHANGED vars
  BY <1>5, SMTT(30) DEF vars
<1> QED
  BY <1>1, <1>2, <1>3, <1>4, <1>5 DEF Next, Step

-----------------------------------------------------------------------------
\* Audit rows and completions follow a grant, or a marker that was found.
LEMMA JustifiedStep ==
    ASSUME IInv, [Next]_vars PROVE JustifiedInv'
<1> USE ConstantsAssumption DEF IInv, TypeOK, JustifiedInv,
        CompletedIsGranted, FulfilPCs, Payable, Goto, Stop, Fails, subVars,
        historyVars, readVars, handlerVars, faultVars
<1>1. ASSUME NEW h \in Handlers, NEW o \in Orders,
             ExecuteSubscriptionFulfillment(h, o)
      PROVE  JustifiedInv'
  BY JustifiedGrows, FoundIsJustified, <1>1, SMTT(30) DEF ExecuteSubscriptionFulfillment
<1>2. ASSUME NEW h \in Handlers, LockRecharging(h) \/ Resolve(h)
      PROVE  JustifiedInv'
  BY JustifiedGrows, FoundIsJustified, <1>2, SMTT(30) DEF LockRecharging, Resolve
<1>3. ASSUME NEW h \in Handlers, CheckGranted(h)
      PROVE  JustifiedInv'
  BY JustifiedGrows, FoundIsJustified, <1>3, SMTT(30) DEF CheckGranted
<1>4. ASSUME NEW h \in Handlers, ReadSubscription(h)
      PROVE  JustifiedInv'
  BY JustifiedGrows, FoundIsJustified, <1>4, SMTT(30) DEF ReadSubscription
<1>5. ASSUME NEW h \in Handlers, CreateSubscription(h)
      PROVE  JustifiedInv'
  BY JustifiedGrows, FoundIsJustified, <1>5, SMTT(30) DEF CreateSubscription, Written
<1>6. ASSUME NEW h \in Handlers, ExtendSubscription(h)
      PROVE  JustifiedInv'
  BY JustifiedGrows, FoundIsJustified, <1>6, SMTT(30) DEF ExtendSubscription, Written, UpdateTerm, Overwritten
<1>7. ASSUME NEW h \in Handlers, RecordGrant(h)
      PROVE  JustifiedInv'
  BY JustifiedGrows, FoundIsJustified, <1>7, SMTT(30) DEF RecordGrant
<1>8. ASSUME NEW h \in Handlers, MarkCompleted(h)
      PROVE  JustifiedInv'
  BY JustifiedGrows, FoundIsJustified, <1>8, SMTT(30) DEF MarkCompleted
<1>9. ASSUME NEW h \in Handlers, MarkFailed(h)
      PROVE  JustifiedInv'
  BY JustifiedGrows, FoundIsJustified, <1>9, SMTT(30) DEF MarkFailed
<1>10. ASSUME NEW h \in Handlers, Abort(h)
      PROVE  JustifiedInv'
  BY JustifiedGrows, FoundIsJustified, <1>10, SMTT(30) DEF Abort
<1>11. ASSUME Expire
      PROVE  JustifiedInv'
  BY JustifiedGrows, FoundIsJustified, <1>11, SMTT(30) DEF Expire
<1>12. CASE UNCHANGED vars
  BY JustifiedGrows, FoundIsJustified, <1>12, SMTT(30) DEF vars
<1> QED
  BY <1>1, <1>2, <1>3, <1>4, <1>5, <1>6, <1>7, <1>8, <1>9, <1>10, <1>11,
       <1>12 DEF Next, Step

-----------------------------------------------------------------------------
\* The term and the notes are written in one transaction, from one read.
LEMMA NotesStep ==
    ASSUME IInv, [Next]_vars PROVE NotesInv'
<1> USE ConstantsAssumption DEF IInv, TypeOK, NotesInv, NotedInv,
        TermIsNoted, FulfilPCs, Payable, Goto, Stop, Fails, subVars,
        historyVars, readVars, handlerVars, faultVars
<1>1. ASSUME NEW h \in Handlers, NEW o \in Orders,
             ExecuteSubscriptionFulfillment(h, o)
      PROVE  NotesInv'
  BY <1>1, SMTT(30) DEF ExecuteSubscriptionFulfillment
<1>2. ASSUME NEW h \in Handlers, LockRecharging(h) \/ Resolve(h)
      PROVE  NotesInv'
  BY <1>2, SMTT(30) DEF LockRecharging, Resolve
<1>3. ASSUME NEW h \in Handlers, CheckGranted(h)
      PROVE  NotesInv'
  BY <1>3, SMTT(30) DEF CheckGranted, AlreadyGranted, HasOrderMarker
<1>4. ASSUME NEW h \in Handlers, ReadSubscription(h)
      PROVE  NotesInv'
  BY <1>4, SMTT(30) DEF ReadSubscription
<1>5. ASSUME NEW h \in Handlers, CreateSubscription(h)
      PROVE  NotesInv'
  BY <1>5, SMTT(30) DEF CreateSubscription, Written
<1>6. ASSUME NEW h \in Handlers, ExtendSubscription(h)
      PROVE  NotesInv'
  BY <1>6, SMTT(30) DEF ExtendSubscription, Written, UpdateTerm, Overwritten
<1>7. ASSUME NEW h \in Handlers, RecordGrant(h)
      PROVE  NotesInv'
  BY <1>7, SMTT(30) DEF RecordGrant
<1>8. ASSUME NEW h \in Handlers, MarkCompleted(h)
      PROVE  NotesInv'
  BY <1>8, SMTT(30) DEF MarkCompleted
<1>9. ASSUME NEW h \in Handlers, MarkFailed(h)
      PROVE  NotesInv'
  BY <1>9, SMTT(30) DEF MarkFailed
<1>10. ASSUME NEW h \in Handlers, Abort(h)
      PROVE  NotesInv'
  BY <1>10, SMTT(30) DEF Abort
<1>11. ASSUME Expire
      PROVE  NotesInv'
  BY <1>11, SMTT(30) DEF Expire
<1>12. CASE UNCHANGED vars
  BY <1>12, SMTT(30) DEF vars
<1> QED
  BY <1>1, <1>2, <1>3, <1>4, <1>5, <1>6, <1>7, <1>8, <1>9, <1>10, <1>11,
       <1>12 DEF Next, Step

-----------------------------------------------------------------------------
\* A write that does not carry a marker over makes its order unprotected;
\* CheckGranted stops the rest.
LEMMA MarkerStep ==
    ASSUME IInv, [Next]_vars PROVE MarkerInv'
<1> USE ConstantsAssumption DEF IInv, TypeOK, MarkerInv, GrantedOnce,
        LockInv, NotedInv, FulfilPCs, Payable, Goto, Stop, Fails, subVars,
        historyVars, readVars, handlerVars, faultVars
<1>1. ASSUME NEW h \in Handlers, NEW o \in Orders,
             ExecuteSubscriptionFulfillment(h, o)
      PROVE  MarkerInv'
  BY <1>1, SMTT(30) DEF ExecuteSubscriptionFulfillment
<1>2. ASSUME NEW h \in Handlers, LockRecharging(h) \/ Resolve(h)
      PROVE  MarkerInv'
  BY <1>2, SMTT(30) DEF LockRecharging, Resolve
<1>3. ASSUME NEW h \in Handlers, CheckGranted(h)
      PROVE  MarkerInv'
  BY <1>3, SMTT(30) DEF CheckGranted, AlreadyGranted, HasOrderMarker
<1>4. ASSUME NEW h \in Handlers, ReadSubscription(h)
      PROVE  MarkerInv'
  BY <1>4, SMTT(30) DEF ReadSubscription
<1>5. ASSUME NEW h \in Handlers, CreateSubscription(h)
      PROVE  MarkerInv'
  BY <1>5, SMTT(30) DEF CreateSubscription, Written
<1>6. ASSUME NEW h \in Handlers, ExtendSubscription(h)
      PROVE  MarkerInv'
  BY <1>6, SMTT(30) DEF ExtendSubscription, Written, UpdateTerm, Overwritten
<1>7. ASSUME NEW h \in Handlers, RecordGrant(h)
      PROVE  MarkerInv'
  BY <1>7, SMTT(30) DEF RecordGrant
<1>8. ASSUME NEW h \in Handlers, MarkCompleted(h)
      PROVE  MarkerInv'
  BY <1>8, SMTT(30) DEF MarkCompleted
<1>9. ASSUME NEW h \in Handlers, MarkFailed(h)
      PROVE  MarkerInv'
  BY <1>9, SMTT(30) DEF MarkFailed
<1>10. ASSUME NEW h \in Handlers, Abort(h)
      PROVE  MarkerInv'
  BY <1>10, SMTT(30) DEF Abort
<1>11. ASSUME Expire
      PROVE  MarkerInv'
  BY <1>11, SMTT(30) DEF Expire
<1>12. CASE UNCHANGED vars
  BY <1>12, SMTT(30) DEF vars
<1> QED
  BY <1>1, <1>2, <1>3, <1>4, <1>5, <1>6, <1>7, <1>8, <1>9, <1>10, <1>11,
       <1>12 DEF Next, Step

-----------------------------------------------------------------------------
\* A grant is written by a handler that has seen none (MarkerInv).
LEMMA GrantedOnceStep ==
    ASSUME IInv, [Next]_vars PROVE GrantedOnce'
<1> USE ConstantsAssumption DEF IInv, TypeOK, GrantedOnce, MarkerInv,
        FulfilPCs, Payable, Goto, Stop, Fails, subVars, historyVars,
        readVars, handlerVars, faultVars
<1>1. ASSUME NEW h \in Handlers, NEW o \in Orders,
             ExecuteSubscriptionFulfillment(h, o)
      PROVE  GrantedOnce'
  BY <1>1, SMTT(30) DEF ExecuteSubscriptionFulfillment
<1>2. ASSUME NEW h \in Handlers, LockRecharging(h) \/ Resolve(h)
      PROVE  GrantedOnce'
  BY <1>2, SMTT(30) DEF LockRecharging, Resolve
<1>3. ASSUME NEW h \in Handlers, CheckGranted(h)
      PROVE  GrantedOnce'
  BY <1>3, SMTT(30) DEF CheckGranted, AlreadyGranted, HasOrderMarker
<1>4. ASSUME NEW h \in Handlers, ReadSubscription(h)
      PROVE  GrantedOnce'
  BY <1>4, SMTT(30) DEF ReadSubscription
<1>5. ASSUME NEW h \in Handlers, CreateSubscription(h)
      PROVE  GrantedOnce'
  BY <1>5, SMTT(30) DEF CreateSubscription, Written
<1>6. ASSUME NEW h \in Handlers, ExtendSubscription(h)
      PROVE  GrantedOnce'
  BY <1>6, SMTT(30) DEF ExtendSubscription, Written, UpdateTerm, Overwritten
<1>7. ASSUME NEW h \in Handlers, RecordGrant(h)
      PROVE  GrantedOnce'
  BY <1>7, SMTT(30) DEF RecordGrant
<1>8. ASSUME NEW h \in Handlers, MarkCompleted(h)
      PROVE  GrantedOnce'
  BY <1>8, SMTT(30) DEF MarkCompleted
<1>9. ASSUME NEW h \in Handlers, MarkFailed(h)
      PROVE  GrantedOnce'
  BY <1>9, SMTT(30) DEF MarkFailed
<1>10. ASSUME NEW h \in Handlers, Abort(h)
      PROVE  GrantedOnce'
  BY <1>10, SMTT(30) DEF Abort
<1>11. ASSUME Expire
      PROVE  GrantedOnce'
  BY <1>11, SMTT(30) DEF Expire
<1>12. CASE UNCHANGED vars
  BY <1>12, SMTT(30) DEF vars
<1> QED
  BY <1>1, <1>2, <1>3, <1>4, <1>5, <1>6, <1>7, <1>8, <1>9, <1>10, <1>11,
       <1>12 DEF Next, Step

-----------------------------------------------------------------------------

LEMMA InitIInv == Init => IInv
BY ConstantsAssumption
   DEF Init, IInv, TypeOK, Statuses, Payable, FulfilPCs, LockInv, NotedInv,
       JustifiedInv, Justified, NotesInv, TermIsNoted, MarkerInv, GrantedOnce,
       CompletedIsGranted

LEMMA NextIInv == IInv /\ [Next]_vars => IInv'
BY TypeStep, LockStep, NotedStep, JustifiedStep, NotesStep, MarkerStep,
   GrantedOnceStep DEF IInv

\* The inductive invariant holds in every reachable state.
THEOREM Invariance == Spec => []IInv
BY InitIInv, NextIInv, PTL DEF Spec

\* Every variable of the fulfilment keeps its type.
THEOREM TypeCorrect == Spec => []TypeOK
<1>1. IInv => TypeOK
  BY DEF IInv
<1> QED
  BY <1>1, Invariance, PTL

\* Retries do not grant an order's days again while its marker is readable.
THEOREM GrantOnce == Spec => []GrantedOnce
<1>1. IInv => GrantedOnce
  BY DEF IInv
<1> QED
  BY <1>1, Invariance, PTL

\* An order completes because of a grant.
THEOREM CompletionIsGranted == Spec => []CompletedIsGranted
<1>1. IInv => CompletedIsGranted
  BY DEF IInv, JustifiedInv
<1> QED
  BY <1>1, Invariance, PTL

\* Days and marker stay together, lost updates included.
THEOREM TermAndNotes == Spec => []TermIsNoted
<1>1. IInv => TermIsNoted
  BY DEF IInv, NotesInv
<1> QED
  BY <1>1, Invariance, PTL
=============================================================================
