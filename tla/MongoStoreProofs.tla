-------------------------- MODULE MongoStoreProofs --------------------------
(* What is proved of MongoStore for every set of calls, identities, inputs  *)
(* and seeds, and every bound on the attempts: its types, its locks, what a *)
(* documentUuid names, and what becomes of locked references.               *)
EXTENDS MongoStoreInv, TLAPS

-----------------------------------------------------------------------------
(* Type correctness.                                                        *)

(* What the callback of a transaction answers is one of the responses.      *)
LEMMA RefusalTypes ==
    /\ \A store, i, refs, ts, validate :
          UpsertRefusal(store, i, refs, ts, validate) \in Refusal \cup {"NONE"}
    /\ \A r, old : UpdateRefusal(r, old) \in Refusal \cup {"NONE"}
    /\ \A refusal : ReinsertRefusal(refusal) \in Refusal
    /\ \A r : DeleteRefusal(r) \in Refusal \cup {"NONE"}
BY DEF UpsertRefusal, UpdateRefusal, ReinsertRefusal, DeleteRefusal, Refusal

LEMMA WriteConflictType ==
    ASSUME TypeOK, NEW r \in Request, pc[r] # "idle"
    PROVE  WriteConflict(r) \in Response
BY InputAssumption DEF TypeOK, WriteConflict, Response, Refusal, Call, Op

(* Documents and their parts have the types the collections expect.         *)
LEMMA DocumentTypes ==
    /\ EmptyStore \in Store /\ NoDraft \in Doc /\ NoUuid \in Uuid
    /\ \A s \in Store : /\ UuidsIn(s) \subseteq Uuid
                        /\ \A i \in Id : s[i] # NoDoc => s[i] \in Doc
BY DEF EmptyStore, Store, NoDraft, Doc, Uuid, UuidsIn

LEMMA EditedDocument ==
    ASSUME NEW d \in Doc
    PROVE  /\ \A t \in Nat : /\ WithCreatedAt(d, t) \in Doc
                             /\ WithCreatedAt(d, t).uuid = d.uuid
                             /\ WithCreatedAt(d, t).refs = d.refs
                             /\ WithCreatedAt(d, t).guarded = d.guarded
           /\ \A b \in BOOLEAN : /\ WithGuarded(d, b) \in Doc
                                 /\ WithGuarded(d, b).uuid = d.uuid
                                 /\ WithGuarded(d, b).refs = d.refs
                                 /\ WithGuarded(d, b).guarded = b
BY DEF WithCreatedAt, WithGuarded, Doc

LEMMA UpsertUuidType ==
    ASSUME TypeOK, NEW r \in Request, pc[r] # "idle", NEW s \in Store
    PROVE  UpsertUuid(r, s) \in Uuid
BY InputAssumption DEF TypeOK, UpsertUuid, Store, Doc, Uuid, Call

LEMMA NewDocumentType ==
    ASSUME TypeOK, NEW r \in Request, pc[r] # "idle", NEW u \in Uuid, NEW t \in Nat
    PROVE  NewDocument(r, u, t) \in Doc
BY InputAssumption DEF TypeOK, NewDocument, Doc, Call

LEMMA CloseType ==
    ASSUME TypeOK, NEW r \in Request, Close(r)
    PROVE  /\ view' \in [Request -> Store]
           /\ wrote' \in [Request -> SUBSET Id]
           /\ locks' \in [Request -> SUBSET Uuid]
           /\ overtakenDocs' \in [Request -> SUBSET Id]
           /\ overtakenLocks' \in [Request -> SUBSET Uuid]
           /\ found' \in [Request -> SUBSET Uuid]
           /\ own' \in [Request -> Uuid]
           /\ draft' \in [Request -> Doc]
BY DocumentTypes DEF TypeOK, Close

LEMMA PublishType ==
    ASSUME TypeOK, NEW r \in Request, Publish(r)
    PROVE  /\ docs' \in Store
           /\ view' \in [Request -> Store]
           /\ wrote' \in [Request -> SUBSET Id]
           /\ locks' \in [Request -> SUBSET Uuid]
           /\ overtakenDocs' \in [Request -> SUBSET Id]
           /\ overtakenLocks' \in [Request -> SUBSET Uuid]
           /\ found' \in [Request -> SUBSET Uuid]
           /\ own' \in [Request -> Uuid]
           /\ draft' \in [Request -> Doc]
           /\ applied' \in [Request -> Nat]
           /\ issued' \in SUBSET Uuid
<1>1. Committed(r) \in Store
  BY DEF TypeOK, Committed, Store
<1>2. issued' \in SUBSET Uuid
  BY <1>1, DocumentTypes DEF TypeOK, Publish
<1>3. /\ overtakenDocs' \in [Request -> SUBSET Id]
      /\ overtakenLocks' \in [Request -> SUBSET Uuid]
  BY DEF TypeOK, Publish
<1> QED
  BY <1>1, <1>2, <1>3, DocumentTypes DEF TypeOK, Publish

LEMMA RetryOrAnswerType ==
    ASSUME TypeOK, NEW r \in Request, NEW response \in Response,
           RetryOrAnswer(r, response), req' = req, pc[r] # "idle"
    PROVE  /\ pc' \in [Request -> {"idle", "begin", "lookup", "lock", "write", "relookup",
                                   "relock", "rewrite", "commit", "done"}]
           /\ \A s \in Request : pc'[s] # "idle" => req'[s] \in Input
           /\ attempt' \in [Request -> 0 .. MaxAttempt]
           /\ result' \in [Request -> Response]
BY AttemptAssumption DEF TypeOK, RetryOrAnswer

LEMMA ThrowType ==
    ASSUME TypeOK, NEW r \in Request, NEW response \in Response,
           Throw(r, response), pc[r] # "idle"
    PROVE  TypeOK'
<1>1. RetryOrAnswer(r, response) /\ Close(r) /\ UNCHANGED <<docs, req, target, applied, issued>>
  BY DEF Throw, callVars, historyVars
<1> QED
  BY <1>1, CloseType, RetryOrAnswerType DEF TypeOK

LEMMA RefuseType ==
    ASSUME TypeOK, NEW r \in Request, NEW response \in Response,
           Refuse(r, response), pc[r] # "idle"
    PROVE  TypeOK'
<1>1. /\ pc' = [pc EXCEPT ![r] = "done"] /\ result' = [result EXCEPT ![r] = response]
      /\ Close(r) /\ UNCHANGED <<docs, req, target, attempt, applied, issued>>
  BY DEF Refuse, callVars, historyVars
<1> QED
  BY <1>1, CloseType DEF TypeOK

(* Every action keeps the types.                                            *)
LEMMA StepType ==
    ASSUME TypeOK, NEW r \in Request, Receive(r) \/ Step(r) \/ Crash(r)
    PROVE  TypeOK'
<1>1. CASE Receive(r)
  <2>1. UuidsIn(docs) \cup {NoUuid} \subseteq Uuid
    BY DocumentTypes DEF TypeOK
  <2> QED
    BY <1>1, <2>1, AttemptAssumption DEF TypeOK, Receive, txnVars, planVars, historyVars
<1>2. CASE BeginUpsert(r)
  <2> DEFINE q == req[r]
             refusal == UpsertRefusal(docs, q.id, q.refs, q.ts, q.validate)
             createdAt == IF docs[q.id] = NoDoc THEN q.ts ELSE docs[q.id].createdAt
             uuid == UpsertUuid(r, docs)
  <2>1. CASE refusal # "NONE" /\ Refuse(r, refusal)
    BY <1>2, <2>1, RefusalTypes, RefuseType DEF BeginUpsert, Response
  <2>2. CASE refusal = "NONE"
    <3>1. createdAt \in Nat /\ uuid \in Uuid
      BY <1>2, UpsertUuidType, InputAssumption DEF BeginUpsert, TypeOK, Call, Doc, Store
    <3>2. NewDocument(r, uuid, createdAt) \in Doc
      BY <1>2, <3>1, NewDocumentType DEF BeginUpsert
    <3> QED
      BY <1>2, <2>2, <3>1, <3>2 DEF BeginUpsert, Refuse, TypeOK, callVars, historyVars
  <2> QED
    BY <1>2, <2>1, <2>2 DEF BeginUpsert
<1>3. CASE BeginUpdate(r)
  <2>1. NewDocument(r, target[r], 0) \in Doc
    BY <1>3, NewDocumentType DEF BeginUpdate, TypeOK
  <2>2. CASE Refuse(r, "UPDATE_FAILURE_REFERENCE")
    BY <1>3, <2>2, RefuseType DEF BeginUpdate, Response, Refusal
  <2>3. CASE pc' = [pc EXCEPT ![r] = "lookup"]
    BY <1>3, <2>1, <2>3 DEF BeginUpdate, Refuse, TypeOK, callVars, historyVars
  <2> QED
    BY <1>3, <2>2, <2>3 DEF BeginUpdate
<1>4. CASE BeginDelete(r)
  <2>1. CASE DeleteRefusal(r) # "NONE"
    BY <1>4, <2>1, RefusalTypes, RefuseType DEF BeginDelete, Response
  <2>2. CASE DeleteRefusal(r) = "NONE"
    BY <1>4, <2>2 DEF BeginDelete, TypeOK, callVars, historyVars
  <2> QED
    BY <2>1, <2>2
<1>5. CASE LookupReferenced(r)
  <2> DEFINE sawAll == draft[r].validated /\ Resolves(docs, draft[r].refs)
  <2>0. sawAll \in BOOLEAN /\ draft[r] \in Doc
    BY DEF TypeOK, Resolves, Doc
  <2> HIDE DEF sawAll
  <2>1. {docs[i].uuid : i \in WithAlias(docs, draft[r].refs)} \subseteq Uuid
    BY DEF TypeOK, Store, Doc, WithAlias
  <2>2. WithGuarded(draft[r], sawAll) \in Doc
    BY <2>0, EditedDocument
  <2>3. UNCHANGED <<docs, req, target, attempt, view, wrote, locks, overtakenDocs,
                    overtakenLocks, own, result, applied, issued>>
    BY <1>5 DEF LookupReferenced, callVars, txnVars, historyVars
  <2>4. found' \in [Request -> SUBSET Uuid]
    BY <1>5, <2>1 DEF LookupReferenced, TypeOK
  <2>5. \/ draft' = draft
        \/ draft' = [draft EXCEPT ![r] = WithGuarded(@, sawAll)]
    BY <1>5 DEF sawAll, LookupReferenced
  <2>6. draft' \in [Request -> Doc]
    BY <2>2, <2>5 DEF TypeOK
  <2>7. pc[r] # "idle" /\ (pc' = [pc EXCEPT ![r] = "lock"] \/ pc' = [pc EXCEPT ![r] = "relock"])
    BY <1>5 DEF LookupReferenced
  <2>8. result' = result
    BY <1>5 DEF LookupReferenced
  <2> QED
    BY <2>3, <2>4, <2>6, <2>7, <2>8 DEF TypeOK
<1>6. CASE LockDocuments(r)
  <2>1. CASE Throw(r, WriteConflict(r))
    BY <1>6, <2>1, WriteConflictType, ThrowType DEF LockDocuments
  <2>2. CASE Throw(r, "UNKNOWN_FAILURE")
    BY <1>6, <2>2, ThrowType DEF LockDocuments, Response, Refusal
  <2>3. CASE ~Throw(r, WriteConflict(r)) /\ ~Throw(r, "UNKNOWN_FAILURE")
    <3>1. RowsToLock(r) \in SUBSET Uuid
      BY DEF RowsToLock, TypeOK
    <3>2. /\ locks' = [locks EXCEPT ![r] = @ \cup RowsToLock(r)]
          /\ view' = [view EXCEPT ![r] = IF Opened(r) THEN @ ELSE docs]
          /\ pc' = [pc EXCEPT ![r] = IF pc[r] = "lock" THEN "write" ELSE "rewrite"]
          /\ pc[r] # "idle"
          /\ UNCHANGED <<docs, req, target, attempt, wrote, overtakenDocs, overtakenLocks,
                         found, own, draft, result, applied, issued>>
      BY <1>6, <2>3 DEF LockDocuments, callVars, planVars, historyVars
    <3>3. locks' \in [Request -> SUBSET Uuid] /\ view' \in [Request -> Store]
      BY <3>1, <3>2 DEF TypeOK
    <3> QED
      BY <3>2, <3>3 DEF TypeOK
  <2> QED
    BY <2>1, <2>2, <2>3
<1>7. ASSUME NEW i \in Id, NEW d \in Doc \cup {NoDoc}, NEW response \in Response,
             pc[r] # "idle", WriteDocument(r, i, d, response)
      PROVE  TypeOK'
  BY <1>7 DEF WriteDocument, TypeOK, Store, callVars, planVars, historyVars
<1>8. CASE UpsertDocument(r)
  BY <1>7, <1>8, WriteConflictType, ThrowType, InputAssumption
  DEF UpsertDocument, TypeOK, Call, Response, Success
<1>9. CASE ReplaceDocument(r)
  <2>1. view[r][req[r].id].createdAt \in Nat
    BY <1>9, InputAssumption DEF ReplaceDocument, Replaceable, TypeOK, Store, Doc, Call
  <2>2. WithCreatedAt(draft[r], view[r][req[r].id].createdAt) \in Doc
    BY <2>1, EditedDocument DEF TypeOK
  <2> QED
    BY <1>7, <1>9, <2>2, WriteConflictType, ThrowType, InputAssumption
    DEF ReplaceDocument, TypeOK, Call, Response, Success
<1>10. CASE RefuseUpdate(r)
  BY <1>10, RefusalTypes, RefuseType DEF RefuseUpdate, Response, Refusal
<1>11. CASE RemoveForReinsert(r)
  <2> PICK old \in AtTarget(r, view[r]) : RemoveThenReinsert(r, old)
    BY <1>11 DEF RemoveForReinsert
  <2> DEFINE v == WithoutOld(view[r], old)
             refusal == UpsertRefusal(v, req[r].id, req[r].refs, req[r].ts, FALSE)
  <2>1. CASE Throw(r, WriteConflict(r)) \/ Refuse(r, ReinsertRefusal(refusal))
    BY <1>11, <2>1, RefusalTypes, WriteConflictType, RefuseType, ThrowType
    DEF RemoveForReinsert, Response
  <2>2. CASE /\ view' = [view EXCEPT ![r] = v]
             /\ wrote' = [wrote EXCEPT ![r] = @ \cup {old}]
             /\ own' = [own EXCEPT ![r] = UpsertUuid(r, v)]
             /\ draft' = [draft EXCEPT ![r] = WithCreatedAt(@, view[r][old].createdAt)]
             /\ pc' = [pc EXCEPT ![r] = "relookup"]
             /\ UNCHANGED <<docs, callVars, attempt, locks, overtakenDocs,
                            overtakenLocks, found, result, historyVars>>
    <3>1. view[r] \in Store /\ old \in Id /\ view[r][old] \in Doc
      BY DEF AtTarget, TypeOK, Store
    <3>2. v \in Store
      BY <3>1 DEF WithoutOld, Store
    <3> HIDE DEF v
    <3>3. UpsertUuid(r, v) \in Uuid
      BY <1>11, <3>2, UpsertUuidType DEF RemoveForReinsert
    <3>4. view[r][old].createdAt \in Nat /\ draft[r] \in Doc
      BY <3>1 DEF Doc, TypeOK
    <3>5. WithCreatedAt(draft[r], view[r][old].createdAt) \in Doc
      BY <3>4, EditedDocument
    <3> QED
      BY <1>11, <2>2, <3>1, <3>2, <3>3, <3>5
      DEF RemoveForReinsert, TypeOK, callVars, historyVars
  <2> QED
    BY <2>1, <2>2 DEF RemoveThenReinsert
<1>12. CASE RemoveDocument(r)
  BY <1>7, <1>12, WriteConflictType, RefuseType, ThrowType
  DEF RemoveDocument, AtTarget, Response, Refusal, Success
<1>13. CASE Commit(r)
  BY <1>13, PublishType DEF Commit, TypeOK, callVars
<1>14. CASE CommitLost(r)
  <2>1. CASE Throw(r, "UNKNOWN_FAILURE")
    BY <1>14, <2>1, ThrowType DEF CommitLost, Response, Refusal
  <2>2. CASE Publish(r) /\ RetryOrAnswer(r, "UNKNOWN_FAILURE") /\ UNCHANGED callVars
    <3>1. "UNKNOWN_FAILURE" \in Response
      BY DEF Response, Refusal
    <3> QED
      BY <1>14, <2>2, <3>1, PublishType, RetryOrAnswerType DEF CommitLost, TypeOK, callVars
  <2> QED
    BY <1>14, <2>1, <2>2 DEF CommitLost
<1>15. CASE Crash(r)
  <2>1. CASE Close(r) /\ UNCHANGED <<docs, historyVars>>
    BY <1>15, <2>1, CloseType DEF Crash, TypeOK, callVars, historyVars, Response
  <2>2. CASE Publish(r)
    BY <1>15, <2>2, PublishType DEF Crash, TypeOK, callVars, Response
  <2> QED
    BY <1>15, <2>1, <2>2 DEF Crash
<1> QED
  BY <1>1, <1>2, <1>3, <1>4, <1>5, <1>6, <1>8, <1>9, <1>10, <1>11, <1>12,
     <1>13, <1>14, <1>15 DEF Step

LEMMA InitType == Init => TypeOK
BY DocumentTypes, SeedAssumption, AttemptAssumption DEF Init, TypeOK, Response, NoCall

(* Types hold in every reachable state (what the collections and the        *)
(* sessions of the code may contain).                                       *)
THEOREM TypeCorrect == Spec => []TypeOK
<1>1. TypeOK /\ [Next]_vars => TypeOK'
  <2> SUFFICES ASSUME TypeOK, [Next]_vars PROVE TypeOK'
    OBVIOUS
  <2>1. CASE UNCHANGED vars
    BY <2>1 DEF vars, callVars, txnVars, planVars, historyVars, TypeOK
  <2>2. CASE Next
    BY <2>1, <2>2, StepType DEF Next, Quiescent
  <2> QED
    BY <2>1, <2>2
<1> QED
  BY <1>1, InitType, PTL DEF Spec

-----------------------------------------------------------------------------
(* The locks.                                                               *)

(* Nothing of the call s changes, nor the documents collection.             *)
Untouched(s) ==
    /\ docs' = docs
    /\ pc'[s] = pc[s] /\ req'[s] = req[s] /\ target'[s] = target[s]
    /\ view'[s] = view[s] /\ wrote'[s] = wrote[s] /\ locks'[s] = locks[s]
    /\ overtakenDocs'[s] = overtakenDocs[s]
    /\ overtakenLocks'[s] = overtakenLocks[s]
    /\ found'[s] = found[s] /\ own'[s] = own[s] /\ draft'[s] = draft[s]

(* The transaction of r is over, by abort or by commit.                     *)
Over(r) ==
    /\ pc'[r] \in {"begin", "done"}
    /\ wrote'[r] = {} /\ locks'[r] = {}
    /\ overtakenDocs'[r] = {} /\ overtakenLocks'[r] = {}
    /\ draft'[r] = NoDraft

(* The transaction of r ends and leaves nothing behind.                     *)
Aborted(r) == Over(r) /\ docs' = docs /\ \A s \in Request \ {r} : Untouched(s)

LEMMA UntouchedInv ==
    ASSUME NEW s \in Request, Untouched(s), TransactionInv(s)
    PROVE  TransactionInv(s)'
<1> USE DEF Untouched
<1>1. Opened(s)' = Opened(s)
  BY DEF Opened
<1>2. HeldAt(s)'
  BY <1>1 DEF TransactionInv, HeldAt
<1>3. SnapshotCurrent(s)'
  BY <1>1 DEF TransactionInv, SnapshotCurrent
<1>4. PlanOf(s)'
  BY DEF TransactionInv, PlanOf
<1>5. WritesLocked(s)'
  BY DEF TransactionInv, WritesLocked
<1> QED
  BY <1>2, <1>3, <1>4, <1>5 DEF TransactionInv

LEMMA OverInv ==
    ASSUME NEW r \in Request, Over(r)
    PROVE  TransactionInv(r)'
<1> USE DEF Over
<1>2. HeldAt(r)'
  BY DEF HeldAt, Locked
<1>3. SnapshotCurrent(r)'
  BY DEF SnapshotCurrent, Opened
<1>4. PlanOf(r)'
  <2>1. pc'[r] \notin {"lookup", "lock", "write"} \cup Reinserting
    BY DEF Reinserting
  <2>2. ~draft'[r].guarded
    BY DEF NoDraft
  <2> QED
    BY <2>1, <2>2 DEF PlanOf, Reinserting
<1>5. WritesLocked(r)'
  BY DEF WritesLocked
<1> QED
  BY <1>2, <1>3, <1>4, <1>5 DEF TransactionInv

LEMMA AbortedInv ==
    ASSUME LockInv, NEW r \in Request, Aborted(r)
    PROVE  LockInv'
<1>1. LocksExclude'
  BY DEF LockInv, LocksExclude, Aborted, Over, Untouched
<1>2. ASSUME NEW s \in Request PROVE TransactionInv(s)'
  BY <1>2, OverInv, UntouchedInv DEF Aborted, LockInv
<1> QED
  BY <1>1, <1>2 DEF LockInv

(* Every refusal and every exception is such an end.                        *)
LEMMA RefuseAborts ==
    ASSUME TypeOK, NEW r \in Request, NEW response, Refuse(r, response)
    PROVE  Aborted(r)
BY DEF TypeOK, Refuse, Close, Aborted, Over, Untouched, callVars, historyVars

LEMMA ThrowAborts ==
    ASSUME TypeOK, NEW r \in Request, NEW response, Throw(r, response)
    PROVE  Aborted(r)
BY DEF TypeOK, Throw, RetryOrAnswer, Close, Aborted, Over, Untouched, callVars, historyVars

(* The transaction of r is committed, whether or not its client learns it.  *)
PublishedBy(r) ==
    /\ pc[r] = "commit"
    /\ Publish(r)
    /\ Over(r)
    /\ \A s \in Request \ {r} : pc'[s] = pc[s]
    /\ UNCHANGED callVars

LEMMA CommitPublishes ==
    ASSUME TypeOK, NEW r \in Request,
           \/ Commit(r)
           \/ CommitLost(r) /\ ~Throw(r, "UNKNOWN_FAILURE")
           \/ Crash(r) /\ ~(Close(r) /\ UNCHANGED <<docs, historyVars>>)
    PROVE  PublishedBy(r)
BY DEF TypeOK, Commit, CommitLost, Crash, RetryOrAnswer, Publish, Over, PublishedBy, callVars

LEMMA CrashAborts ==
    ASSUME TypeOK, NEW r \in Request, Crash(r), Close(r), UNCHANGED <<docs, historyVars>>
    PROVE  Aborted(r)
BY DEF TypeOK, Crash, Close, Aborted, Over, Untouched, callVars

(* What the commit of r leaves for another open transaction.                *)
LEMMA PublishedToOthers ==
    ASSUME TypeOK, NEW r \in Request, PublishedBy(r), NEW s \in Request \ {r}
    PROVE  /\ pc'[s] = pc[s] /\ req'[s] = req[s] /\ target'[s] = target[s]
           /\ view'[s] = view[s] /\ wrote'[s] = wrote[s] /\ locks'[s] = locks[s]
           /\ found'[s] = found[s] /\ own'[s] = own[s] /\ draft'[s] = draft[s]
           /\ Opened(s)' = Opened(s)
           /\ ~Opened(s) => /\ overtakenDocs'[s] = overtakenDocs[s]
                            /\ overtakenLocks'[s] = overtakenLocks[s]
           /\ Opened(s) => /\ overtakenDocs'[s] = overtakenDocs[s] \cup wrote[r]
                           /\ overtakenLocks'[s] = overtakenLocks[s] \cup locks[r]
BY DEF TypeOK, PublishedBy, Publish, Opened, callVars

LEMMA PublishedDocs ==
    ASSUME NEW r \in Request, PublishedBy(r), NEW i \in Id
    PROVE  docs'[i] = IF i \in wrote[r] THEN view[r][i] ELSE docs[i]
BY DEF PublishedBy, Publish, Committed

LEMMA PublishedInv ==
    ASSUME TypeOK, LockInv, NEW r \in Request, PublishedBy(r)
    PROVE  LockInv'
<1>1. Over(r) /\ TransactionInv(r)'
  BY OverInv DEF PublishedBy
<1>2. LocksExclude'
  <2>1. ASSUME NEW s \in Request
        PROVE  /\ locks'[s] \cap overtakenLocks'[s] = {}
               /\ wrote'[s] \cap overtakenDocs'[s] = {}
    <3>1. CASE s = r
      BY <1>1, <3>1 DEF Over
    <3>2. CASE s # r
      BY <3>2, PublishedToOthers DEF LockInv, LocksExclude
    <3> QED
      BY <3>1, <3>2
  <2>2. ASSUME NEW s \in Request, NEW u \in Request, s # u
        PROVE  locks'[s] \cap locks'[u] = {} /\ wrote'[s] \cap wrote'[u] = {}
    <3>1. \A v \in Request : /\ locks'[v] = IF v = r THEN {} ELSE locks[v]
                             /\ wrote'[v] = IF v = r THEN {} ELSE wrote[v]
      BY <1>1, PublishedToOthers DEF Over
    <3> QED
      BY <2>2, <3>1 DEF LockInv, LocksExclude
  <2> QED
    BY <2>1, <2>2 DEF LocksExclude
<1>3. ASSUME NEW s \in Request \ {r}
      PROVE  TransactionInv(s)'
  <2>1. TransactionInv(s) /\ WritesLocked(r) /\ wrote[r] \cap wrote[s] = {}
    BY DEF LockInv, LocksExclude, TransactionInv
  <2>2. HeldAt(s)'
    BY <2>1, PublishedToOthers DEF TransactionInv, HeldAt
  <2>3. SnapshotCurrent(s)'
    <3> SUFFICES ASSUME Opened(s)
                 PROVE  SnapshotCurrent(s)'
      BY PublishedToOthers DEF SnapshotCurrent
    <3>1. ASSUME NEW i \in Id \ (wrote'[s] \cup overtakenDocs'[s])
          PROVE  view'[s][i] = docs'[i]
      BY <2>1, PublishedToOthers, PublishedDocs DEF TransactionInv, SnapshotCurrent
    <3>2. ASSUME NEW i \in overtakenDocs'[s], docs'[i] # NoDoc
          PROVE  docs'[i].uuid \in overtakenLocks'[s]
      <4>1. i \in Id
        BY PublishedToOthers DEF TypeOK
      <4>2. CASE i \in wrote[r]
        BY <2>1, <3>2, <4>1, <4>2, PublishedToOthers, PublishedDocs DEF WritesLocked
      <4>3. CASE i \notin wrote[r]
        BY <2>1, <3>2, <4>1, <4>3, PublishedToOthers, PublishedDocs
        DEF TransactionInv, SnapshotCurrent
      <4> QED
        BY <4>2, <4>3
    <3> QED
      BY <3>1, <3>2 DEF SnapshotCurrent
  <2>4. PlanOf(s)'
    BY <2>1, PublishedToOthers DEF TransactionInv, PlanOf
  <2>5. WritesLocked(s)'
    <3>1. \A i \in wrote[s] : i \in Id /\ docs'[i] = docs[i]
      BY <2>1, PublishedDocs DEF TypeOK
    <3> QED
      BY <2>1, <3>1, PublishedToOthers DEF TransactionInv, WritesLocked
  <2> QED
    BY <2>2, <2>3, <2>4, <2>5 DEF TransactionInv
<1> QED
  BY <1>1, <1>2, <1>3 DEF LockInv

(* A step of r that leaves the rest alone needs to be looked at for r only. *)
LEMMA OwnStepInv ==
    ASSUME LockInv, NEW r \in Request, \A s \in Request \ {r} : Untouched(s),
           TransactionInv(r)', LocksExclude'
    PROVE  LockInv'
BY UntouchedInv DEF LockInv

(* The locks and the writes of r stay as they are, and so do those that     *)
(* overtook it.                                                             *)
LEMMA SameLocks ==
    ASSUME LockInv, NEW r \in Request, \A s \in Request \ {r} : Untouched(s),
           wrote'[r] = wrote[r], locks'[r] = locks[r],
           overtakenDocs'[r] = overtakenDocs[r], overtakenLocks'[r] = overtakenLocks[r]
    PROVE  LocksExclude'
<1>1. \A s \in Request : /\ wrote'[s] = wrote[s] /\ locks'[s] = locks[s]
                         /\ overtakenDocs'[s] = overtakenDocs[s]
                         /\ overtakenLocks'[s] = overtakenLocks[s]
  BY DEF Untouched
<1> QED
  BY <1>1 DEF LockInv, LocksExclude

LEMMA ReceiveInv ==
    ASSUME TypeOK, LockInv, NEW r \in Request, Receive(r)
    PROVE  LockInv'
<1>1. HeldAt(r) /\ pc[r] = "idle" /\ ~Opened(r)
  BY DEF Receive, LockInv, TransactionInv, Opened
<1>2. Aborted(r)
  BY <1>1 DEF Receive, Aborted, Over, Untouched, TypeOK, HeldAt, Locked, txnVars, planVars
<1> QED
  BY <1>2, AbortedInv

(* What a step that opens a transaction with r's first read leaves.         *)
LEMMA BeginFrame ==
    ASSUME TypeOK, LockInv, NEW r \in Request, pc[r] = "begin",
           BeginUpsert(r) \/ BeginUpdate(r) \/ BeginDelete(r), ~Aborted(r)
    PROVE  /\ \A s \in Request \ {r} : Untouched(s)
           /\ docs' = docs /\ req'[r] = req[r] /\ target'[r] = target[r]
           /\ wrote'[r] = {} /\ locks'[r] = {}
           /\ overtakenDocs'[r] = {} /\ overtakenLocks'[r] = {}
           /\ LocksExclude'
           /\ \/ /\ pc'[r] = "lookup" /\ req[r].op \in {"upsert", "update"}
                 /\ \E c : draft'[r] = NewDocument(r, own'[r], c)
              \/ pc'[r] = "lock" /\ req[r].op = "delete" /\ draft'[r] = NoDraft
           /\ Opened(r)' => view'[r] = docs
<1>1. /\ wrote[r] = {} /\ locks[r] = {} /\ draft[r] = NoDraft
      /\ overtakenDocs[r] = {} /\ overtakenLocks[r] = {}
  BY DEF LockInv, TransactionInv, HeldAt, Opened, Locked
<1>2. \A response : ~Refuse(r, response)
  BY RefuseAborts
<1>3. CASE BeginUpsert(r)
  <2>1. \A s \in Request \ {r} : Untouched(s)
    BY <1>2, <1>3 DEF BeginUpsert, TypeOK, Untouched, callVars
  <2>2. /\ wrote' = wrote /\ locks' = locks /\ overtakenDocs' = overtakenDocs
        /\ overtakenLocks' = overtakenLocks
    BY <1>2, <1>3 DEF BeginUpsert
  <2>3. LocksExclude'
    BY <2>1, <2>2, SameLocks
  <2> QED
    BY <1>1, <1>2, <1>3, <2>1, <2>2, <2>3 DEF BeginUpsert, TypeOK, callVars
<1>4. CASE BeginUpdate(r)
  <2>1. \A s \in Request \ {r} : Untouched(s)
    BY <1>2, <1>4 DEF BeginUpdate, TypeOK, Untouched, callVars
  <2>2. /\ wrote' = wrote /\ locks' = locks /\ overtakenDocs' = overtakenDocs
        /\ overtakenLocks' = overtakenLocks
    BY <1>2, <1>4 DEF BeginUpdate
  <2>3. LocksExclude'
    BY <2>1, <2>2, SameLocks
  <2> QED
    BY <1>1, <1>2, <1>4, <2>1, <2>2, <2>3 DEF BeginUpdate, TypeOK, Opened, callVars
<1>5. CASE BeginDelete(r)
  <2>1. \A s \in Request \ {r} : Untouched(s)
    BY <1>2, <1>5 DEF BeginDelete, TypeOK, Untouched, callVars
  <2>2. /\ wrote' = wrote /\ locks' = locks /\ overtakenDocs' = overtakenDocs
        /\ overtakenLocks' = overtakenLocks /\ draft' = draft
    BY <1>2, <1>5 DEF BeginDelete
  <2>3. LocksExclude'
    BY <2>1, <2>2, SameLocks
  <2> QED
    BY <1>1, <1>2, <1>5, <2>1, <2>2, <2>3 DEF BeginDelete, TypeOK, Opened, callVars
<1> QED
  BY <1>3, <1>4, <1>5

LEMMA BeginInv ==
    ASSUME TypeOK, LockInv, NEW r \in Request,
           BeginUpsert(r) \/ BeginUpdate(r) \/ BeginDelete(r)
    PROVE  LockInv'
<1>1. CASE Aborted(r)
  BY <1>1, AbortedInv
<1>2. CASE ~Aborted(r)
  <2>1. pc[r] = "begin"
    BY DEF BeginUpsert, BeginUpdate, BeginDelete
  <2>2. HeldAt(r)'
    BY <1>2, <2>1, BeginFrame DEF HeldAt, Locked
  <2>3. SnapshotCurrent(r)'
    BY <1>2, <2>1, BeginFrame DEF SnapshotCurrent
  <2>4. WritesLocked(r)'
    BY <1>2, <2>1, BeginFrame DEF WritesLocked
  <2>5. PlanOf(r)'
    <3>1. \A response : ~Refuse(r, response)
      BY <1>2, RefuseAborts
    <3>2. CASE BeginUpsert(r)
      BY <3>1, <3>2 DEF BeginUpsert, UpsertUuid, PlanOf, Reinserting, NewDocument, TypeOK, callVars
    <3>3. CASE BeginUpdate(r)
      BY <3>1, <3>3 DEF BeginUpdate, PlanOf, Reinserting, NewDocument, TypeOK, callVars
    <3>4. CASE BeginDelete(r)
      <4>1. draft'[r] = NoDraft /\ own'[r] = target'[r] /\ pc'[r] = "lock" /\ req'[r].op = "delete"
        BY <1>2, <2>1, <3>1, <3>4, BeginFrame DEF BeginDelete, TypeOK, callVars
      <4> QED
        BY <4>1 DEF PlanOf, Reinserting, NoDraft
    <3> QED
      BY <3>2, <3>3, <3>4
  <2> QED
    BY <1>2, <2>1, <2>2, <2>3, <2>4, <2>5, BeginFrame, OwnStepInv DEF TransactionInv
<1> QED
  BY <1>1, <1>2

(* The lookup without a session changes nothing the locks are about.        *)
LEMMA LookupFrame ==
    ASSUME TypeOK, NEW r \in Request, LookupReferenced(r)
    PROVE  /\ \A s \in Request \ {r} : Untouched(s)
           /\ docs' = docs /\ req' = req /\ target' = target /\ own' = own
           /\ view' = view /\ wrote' = wrote /\ locks' = locks
           /\ overtakenDocs' = overtakenDocs /\ overtakenLocks' = overtakenLocks
           /\ found'[r] = {docs[i].uuid : i \in WithAlias(docs, draft[r].refs)}
           /\ \/ pc[r] = "relookup" /\ pc'[r] = "relock" /\ draft'[r] = draft[r]
              \/ /\ pc[r] = "lookup" /\ pc'[r] = "lock"
                 /\ draft'[r].uuid = draft[r].uuid /\ draft'[r].refs = draft[r].refs
                 /\ draft'[r].guarded = (draft[r].validated /\ Resolves(docs, draft[r].refs))
                 /\ draft[r].validated = FALSE => draft'[r].guarded = FALSE
           /\ Opened(r)' = Opened(r)
<1> DEFINE sawAll == draft[r].validated /\ Resolves(docs, draft[r].refs)
<1>1. sawAll \in BOOLEAN /\ draft[r] \in Doc
  BY DEF TypeOK, Resolves, Doc
<1>2. /\ docs' = docs /\ req' = req /\ target' = target /\ own' = own
      /\ view' = view /\ wrote' = wrote /\ locks' = locks
      /\ overtakenDocs' = overtakenDocs /\ overtakenLocks' = overtakenLocks
      /\ found' = [found EXCEPT ![r] = {docs[i].uuid : i \in WithAlias(docs, draft[r].refs)}]
      /\ \/ /\ pc[r] = "relookup" /\ pc' = [pc EXCEPT ![r] = "relock"] /\ draft' = draft
         \/ /\ pc[r] = "lookup" /\ pc' = [pc EXCEPT ![r] = "lock"]
            /\ draft' = [draft EXCEPT ![r] = WithGuarded(@, sawAll)]
  BY DEF LookupReferenced, callVars, txnVars
<1> HIDE DEF sawAll
<1>3. /\ \A s \in Request \ {r} : Untouched(s)
      /\ found'[r] = {docs[i].uuid : i \in WithAlias(docs, draft[r].refs)}
      /\ \/ pc[r] = "relookup" /\ pc'[r] = "relock" /\ draft'[r] = draft[r]
         \/ /\ pc[r] = "lookup" /\ pc'[r] = "lock"
            /\ draft'[r] = WithGuarded(draft[r], sawAll)
  BY <1>2 DEF Untouched, TypeOK
<1>4. Opened(r)' = Opened(r)
  BY <1>2, <1>3 DEF Opened
<1>5. /\ WithGuarded(draft[r], sawAll).uuid = draft[r].uuid
      /\ WithGuarded(draft[r], sawAll).refs = draft[r].refs
      /\ WithGuarded(draft[r], sawAll).guarded = sawAll
  BY <1>1, EditedDocument
<1> QED
  BY <1>2, <1>3, <1>4, <1>5 DEF sawAll

LEMMA LookupInv ==
    ASSUME TypeOK, LockInv, NEW r \in Request, LookupReferenced(r)
    PROVE  LockInv'
<1>1. TransactionInv(r) /\ pc[r] \in {"lookup", "relookup"}
  BY DEF LockInv, LookupReferenced
<1>2. HeldAt(r)'
  BY <1>1, LookupFrame DEF TransactionInv, HeldAt, Locked
<1>3. SnapshotCurrent(r)'
  BY <1>1, LookupFrame DEF TransactionInv, SnapshotCurrent
<1>4. PlanOf(r)'
  <2>1. CASE pc[r] = "lookup"
    BY <1>1, <2>1, LookupFrame DEF TransactionInv, PlanOf, Reinserting
  <2>2. CASE pc[r] = "relookup"
    BY <1>1, <2>2, LookupFrame DEF TransactionInv, PlanOf, Reinserting
  <2> QED
    BY <1>1, <2>1, <2>2
<1>5. WritesLocked(r)'
  <2>1. CASE wrote[r] = {}
    BY <2>1, LookupFrame DEF WritesLocked
  <2>2. CASE draft'[r] = draft[r]
    <3>1. UNCHANGED <<docs, req, target, view, wrote, locks>>
      BY LookupFrame
    <3> QED
      BY <1>1, <2>2, <3>1 DEF TransactionInv, WritesLocked
  <2>3. CASE pc[r] = "lookup"
    BY <1>1, <2>1, <2>3 DEF TransactionInv, HeldAt, Locked
  <2>4. CASE pc[r] = "relookup"
    BY <2>2, <2>4, LookupFrame
  <2> QED
    BY <1>1, <2>3, <2>4
<1>6. LocksExclude'
  BY LookupFrame, SameLocks
<1> QED
  BY <1>2, <1>3, <1>4, <1>5, <1>6, LookupFrame, OwnStepInv DEF TransactionInv

(* The insert of the lock rows, where it neither conflicts nor fails.       *)
LEMMA LockFrame ==
    ASSUME TypeOK, NEW r \in Request, LockDocuments(r), ~Aborted(r)
    PROVE  /\ \A s \in Request \ {r} : Untouched(s)
           /\ UNCHANGED <<docs, req, target, wrote, overtakenDocs, overtakenLocks,
                          found, own, draft>>
           /\ ~LockConflict(r, RowsToLock(r)) /\ own[r] \notin found[r]
           /\ locks'[r] = locks[r] \cup RowsToLock(r)
           /\ view'[r] = IF Opened(r) THEN view[r] ELSE docs
           /\ \/ pc[r] = "lock" /\ pc'[r] = "write"
              \/ pc[r] = "relock" /\ pc'[r] = "rewrite"
           /\ Opened(r)'
<1>1. \A response : ~Throw(r, response)
  BY ThrowAborts
<1>2. /\ UNCHANGED <<docs, req, target, wrote, overtakenDocs, overtakenLocks,
                     found, own, draft>>
      /\ ~LockConflict(r, RowsToLock(r)) /\ own[r] \notin found[r]
      /\ locks' = [locks EXCEPT ![r] = @ \cup RowsToLock(r)]
      /\ view' = [view EXCEPT ![r] = IF Opened(r) THEN @ ELSE docs]
      /\ pc' = [pc EXCEPT ![r] = IF pc[r] = "lock" THEN "write" ELSE "rewrite"]
      /\ pc[r] \in {"lock", "relock"}
  BY <1>1 DEF LockDocuments, callVars, planVars
<1> QED
  BY <1>2 DEF TypeOK, Untouched, Opened

LEMMA LockDocumentsInv ==
    ASSUME TypeOK, LockInv, NEW r \in Request, LockDocuments(r)
    PROVE  LockInv'
<1>1. CASE Aborted(r)
  BY <1>1, AbortedInv
<1>2. CASE ~Aborted(r)
  <2>1. TransactionInv(r)
    BY DEF LockInv
  <2>2. /\ \A s \in Request \ {r} : Untouched(s)
        /\ UNCHANGED <<docs, req, target, wrote, overtakenDocs, overtakenLocks,
                       found, own, draft>>
        /\ locks'[r] = locks[r] \cup RowsToLock(r)
        /\ view'[r] = IF Opened(r) THEN view[r] ELSE docs
        /\ \/ pc[r] = "lock" /\ pc'[r] = "write"
           \/ pc[r] = "relock" /\ pc'[r] = "rewrite"
        /\ Opened(r)'
    BY <1>2, LockFrame
  <2>3. RowsToLock(r) \cap overtakenLocks[r] = {}
    BY <1>2, LockFrame DEF LockConflict
  <2>4. \A s \in Request \ {r} : RowsToLock(r) \cap locks[s] = {}
    BY <1>2, LockFrame DEF LockConflict
  <2>5. LocksExclude'
    <3>1. \A s \in Request : /\ wrote'[s] = wrote[s]
                             /\ overtakenDocs'[s] = overtakenDocs[s]
                             /\ overtakenLocks'[s] = overtakenLocks[s]
      BY <2>2
    <3>2. \A s \in Request : locks'[s] = IF s = r THEN locks[r] \cup RowsToLock(r) ELSE locks[s]
      BY <2>2 DEF Untouched
    <3> QED
      BY <2>3, <2>4, <3>1, <3>2 DEF LockInv, LocksExclude
  <2>6. HeldAt(r)'
    BY <2>1, <2>2 DEF TransactionInv, HeldAt, Locked
  <2>7. SnapshotCurrent(r)'
    <3>1. CASE Opened(r)
      BY <2>1, <2>2, <3>1 DEF TransactionInv, SnapshotCurrent
    <3>2. CASE ~Opened(r)
      BY <2>1, <2>2, <3>2 DEF TransactionInv, SnapshotCurrent, HeldAt
    <3> QED
      BY <3>1, <3>2
  <2>8. PlanOf(r)'
    <3>1. CASE pc[r] = "lock"
      BY <2>1, <2>2, <3>1 DEF TransactionInv, PlanOf, Reinserting, RowsToLock, Opened
    <3>2. CASE pc[r] = "relock"
      BY <2>1, <2>2, <3>2 DEF TransactionInv, PlanOf, Reinserting, RowsToLock, Opened
    <3> QED
      BY <2>2, <3>1, <3>2
  <2>9. WritesLocked(r)'
    <3>1. CASE wrote[r] = {}
      BY <2>2, <3>1 DEF WritesLocked
    <3>2. CASE Opened(r)
      BY <2>1, <2>2, <3>2 DEF TransactionInv, WritesLocked
    <3> QED
      BY <2>1, <2>2, <3>1, <3>2 DEF TransactionInv, HeldAt, Locked, Opened
  <2> QED
    BY <2>2, <2>5, <2>6, <2>7, <2>8, <2>9, OwnStepInv DEF TransactionInv
<1> QED
  BY <1>1, <1>2

(* A write of r: the document i becomes d in r's view, and r holds it.      *)
Writes(r, i, d) ==
    /\ \A s \in Request \ {r} : Untouched(s)
    /\ UNCHANGED <<docs, req, target, locks, overtakenDocs, overtakenLocks, found>>
    /\ i \in Id
    /\ \A j \in Id : view'[r][j] = IF j = i THEN d ELSE view[r][j]
    /\ wrote'[r] = wrote[r] \cup {i}
    /\ draft'[r].uuid = draft[r].uuid
    /\ draft'[r].refs = draft[r].refs
    /\ draft'[r].guarded = draft[r].guarded
    /\ \/ pc[r] \in {"write", "rewrite"} /\ pc'[r] = "commit" /\ own' = own
       \/ pc[r] = "write" /\ pc'[r] = "relookup"

LEMMA WriteFrame ==
    ASSUME TypeOK, NEW r \in Request, NEW i \in Id, NEW d, NEW response,
           pc[r] \in {"write", "rewrite"}, WriteDocument(r, i, d, response)
    PROVE  Writes(r, i, d)
BY DEF TypeOK, Store, WriteDocument, Writes, Untouched, callVars, planVars

(* The locks r holds when it writes are those of what it writes, provided   *)
(* it holds the one of the document it sees and of the one it puts there.   *)
LEMMA WriteInv ==
    ASSUME TypeOK, LockInv, NEW r \in Request, NEW i, NEW d, Writes(r, i, d),
           ~DocConflict(r, i),
           view[r][i] # NoDoc => view[r][i].uuid \in locks[r],
           d # NoDoc => /\ d.uuid \in locks[r]
                        /\ d.refs = draft[r].refs /\ d.guarded = draft[r].guarded,
           d = NoDoc => /\ req[r].op # "upsert"
                        /\ wrote[r] = {}
                        /\ view[r][i] # NoDoc => view[r][i].uuid = target[r],
           PlanOf(r)'
    PROVE  LockInv'
<1>1. TransactionInv(r) /\ Opened(r) /\ Opened(r)' /\ i \in Id
  BY DEF LockInv, Writes, Opened
<1>2. i \notin overtakenDocs[r] /\ \A s \in Request \ {r} : i \notin wrote[s]
  BY DEF DocConflict
<1>3. i \notin wrote[r] => docs[i] = view[r][i]
  BY <1>1, <1>2 DEF TransactionInv, SnapshotCurrent
<1>4. LocksExclude'
  <2>1. \A s \in Request : /\ locks'[s] = locks[s]
                           /\ overtakenDocs'[s] = overtakenDocs[s]
                           /\ overtakenLocks'[s] = overtakenLocks[s]
                           /\ wrote'[s] = IF s = r THEN wrote[r] \cup {i} ELSE wrote[s]
    BY DEF Writes, Untouched
  <2> QED
    BY <1>2, <2>1 DEF LockInv, LocksExclude
<1>5. HeldAt(r)'
  BY <1>1 DEF Writes, HeldAt, Locked
<1>6. SnapshotCurrent(r)'
  <2>1. UNCHANGED <<docs, overtakenDocs, overtakenLocks>> /\ wrote'[r] = wrote[r] \cup {i}
    BY DEF Writes
  <2>2. \A j \in Id \ {i} : view'[r][j] = view[r][j]
    BY DEF Writes
  <2> QED
    BY <1>1, <2>1, <2>2 DEF TransactionInv, SnapshotCurrent
<1>7. WritesLocked(r)'
  <2>1. UNCHANGED <<docs, req, target, locks>> /\ wrote[r] \subseteq Id
    BY DEF Writes, TypeOK
  <2>2. /\ draft'[r].refs = draft[r].refs /\ draft'[r].guarded = draft[r].guarded
        /\ view'[r][i] = d /\ \A j \in Id \ {i} : view'[r][j] = view[r][j]
        /\ wrote'[r] = wrote[r] \cup {i}
    BY DEF Writes
  <2>3. docs[i] # NoDoc => docs[i].uuid \in locks[r]
    BY <1>1, <1>3 DEF TransactionInv, WritesLocked
  <2>4. d = NoDoc => docs[i] = view[r][i]
    BY <1>3
  <2> QED
    BY <1>1, <2>1, <2>2, <2>3, <2>4 DEF TransactionInv, WritesLocked
<1> QED
  BY <1>1, <1>4, <1>5, <1>6, <1>7, OwnStepInv DEF TransactionInv, Writes

LEMMA CommitPlan ==
    ASSUME NEW r \in Request, PlanOf(r), pc'[r] = "commit", req' = req,
           draft'[r].guarded = draft[r].guarded
    PROVE  PlanOf(r)'
<1>1. draft'[r].guarded => req'[r].validate /\ req'[r].op # "delete"
  BY DEF PlanOf
<1>2. pc'[r] \notin {"lookup", "lock", "write", "rewrite"} \cup Reinserting
  BY DEF Reinserting
<1> QED
  BY <1>1, <1>2 DEF PlanOf, Reinserting

LEMMA UpsertDocumentInv ==
    ASSUME TypeOK, LockInv, NEW r \in Request, UpsertDocument(r)
    PROVE  LockInv'
<1> DEFINE i == req[r].id
<1>1. CASE Aborted(r)
  BY <1>1, AbortedInv
<1>2. CASE ~Aborted(r)
  <2>1. PICK response : WriteDocument(r, i, draft[r], response)
    BY <1>2, ThrowAborts DEF UpsertDocument
  <2>2. ~DocConflict(r, i) /\ i \in Id
    BY <1>2, ThrowAborts, InputAssumption DEF UpsertDocument, TypeOK, Call
  <2>3. pc[r] = "rewrite" \/ (pc[r] = "write" /\ req[r].op = "upsert")
    BY <1>2 DEF UpsertDocument
  <2> HIDE DEF i
  <2>4. Writes(r, i, draft[r])
    BY <2>1, <2>2, <2>3, WriteFrame
  <2>5. PlanOf(r) /\ draft[r] \in Doc
    BY DEF LockInv, TransactionInv, TypeOK
  <2>6. /\ draft[r].uuid \in locks[r]
        /\ view[r][i] # NoDoc => view[r][i].uuid \in locks[r]
    BY <2>3, <2>5 DEF i, PlanOf, Reinserting
  <2>7. PlanOf(r)'
    BY <2>1, <2>4, <2>5, CommitPlan DEF Writes, WriteDocument, TypeOK
  <2>8. draft[r] # NoDoc
    BY <2>5, NoDocAssumption
  <2> QED
    BY <2>2, <2>4, <2>6, <2>7, <2>8, WriteInv
<1> QED
  BY <1>1, <1>2

LEMMA ReplaceDocumentInv ==
    ASSUME TypeOK, LockInv, NEW r \in Request, ReplaceDocument(r)
    PROVE  LockInv'
<1> DEFINE i == req[r].id
           replaced == WithCreatedAt(draft[r], view[r][i].createdAt)
<1>1. CASE Aborted(r)
  BY <1>1, AbortedInv
<1>2. CASE ~Aborted(r)
  <2>1. ~DocConflict(r, i) /\ WriteDocument(r, i, replaced, "UPDATE_SUCCESS")
    BY <1>2, ThrowAborts DEF ReplaceDocument
  <2>2. /\ pc[r] = "write" /\ req[r].op = "update" /\ i \in Id
        /\ view[r][i] # NoDoc /\ view[r][i].uuid = target[r]
    BY InputAssumption DEF ReplaceDocument, Replaceable, TypeOK, Call
  <2>3. draft[r] \in Doc /\ view[r][i].createdAt \in Nat
    BY <2>2 DEF TypeOK, Store, Doc
  <2>4. /\ replaced \in Doc /\ replaced.uuid = draft[r].uuid
        /\ replaced.refs = draft[r].refs /\ replaced.guarded = draft[r].guarded
    BY <2>3, EditedDocument
  <2> HIDE DEF i, replaced
  <2>5. Writes(r, i, replaced)
    BY <2>1, <2>2, WriteFrame
  <2>6. PlanOf(r)
    BY DEF LockInv, TransactionInv
  <2>7. target[r] \in locks[r] /\ draft[r].uuid = target[r]
    BY <2>2, <2>6 DEF PlanOf
  <2>8. PlanOf(r)'
    BY <2>1, <2>5, <2>6, CommitPlan DEF Writes, WriteDocument, TypeOK
  <2>9. replaced # NoDoc
    BY <2>4, NoDocAssumption
  <2> QED
    BY <2>1, <2>2, <2>4, <2>5, <2>7, <2>8, <2>9, WriteInv
<1> QED
  BY <1>1, <1>2

LEMMA RemoveDocumentInv ==
    ASSUME TypeOK, LockInv, NEW r \in Request, RemoveDocument(r)
    PROVE  LockInv'
<1>1. CASE Aborted(r)
  BY <1>1, AbortedInv
<1>2. CASE ~Aborted(r)
  <2>1. PICK i \in AtTarget(r, view[r]) :
           ~DocConflict(r, i) /\ WriteDocument(r, i, NoDoc, "DELETE_SUCCESS")
    BY <1>2, RefuseAborts, ThrowAborts DEF RemoveDocument
  <2>2. /\ pc[r] = "write" /\ req[r].op = "delete"
        /\ i \in Id /\ view[r][i].uuid = target[r]
    BY DEF RemoveDocument, AtTarget
  <2>3. Writes(r, i, NoDoc)
    BY <2>1, <2>2, WriteFrame
  <2>4. PlanOf(r) /\ HeldAt(r)
    BY DEF LockInv, TransactionInv
  <2>5. target[r] \in locks[r] /\ wrote[r] = {}
    BY <2>2, <2>4 DEF PlanOf, HeldAt
  <2>6. PlanOf(r)'
    BY <2>1, <2>3, <2>4, CommitPlan DEF Writes, WriteDocument, TypeOK
  <2> QED
    BY <2>1, <2>2, <2>3, <2>5, <2>6, WriteInv
<1> QED
  BY <1>1, <1>2

(* The deletion that an identity change begins with.                        *)
LEMMA ReinsertFrame ==
    ASSUME TypeOK, LockInv, NEW r \in Request, RemoveForReinsert(r), ~Aborted(r)
    PROVE  \E old \in AtTarget(r, view[r]) :
              /\ ~DocConflict(r, old) /\ UpdateRefusal(r, old) = "NONE"
              /\ Writes(r, old, NoDoc)
              /\ pc[r] = "write" /\ pc'[r] = "relookup" /\ req[r].op = "update"
              /\ view'[r][req[r].id] # NoDoc => own'[r] = view'[r][req[r].id].uuid
<1>1. PICK old \in AtTarget(r, view[r]) :
         UpdateRefusal(r, old) = "NONE" /\ RemoveThenReinsert(r, old)
  BY DEF RemoveForReinsert
<1> DEFINE v == WithoutOld(view[r], old)
           edited == WithCreatedAt(draft[r], view[r][old].createdAt)
<1>2. /\ ~DocConflict(r, old)
      /\ view' = [view EXCEPT ![r] = v]
      /\ wrote' = [wrote EXCEPT ![r] = @ \cup {old}]
      /\ own' = [own EXCEPT ![r] = UpsertUuid(r, v)]
      /\ draft' = [draft EXCEPT ![r] = edited]
      /\ pc' = [pc EXCEPT ![r] = "relookup"]
      /\ UNCHANGED <<docs, req, target, locks, overtakenDocs, overtakenLocks, found>>
  BY <1>1, RefuseAborts, ThrowAborts DEF RemoveThenReinsert, callVars
<1>3. /\ pc[r] = "write" /\ req[r].op = "update" /\ req[r].id \in Id
      /\ old \in Id /\ view[r] \in Store /\ view[r][old] \in Doc
  BY InputAssumption DEF RemoveForReinsert, AtTarget, TypeOK, Store, Call
<1>4. /\ edited.uuid = draft[r].uuid
      /\ edited.refs = draft[r].refs /\ edited.guarded = draft[r].guarded
  <2>1. draft[r] \in Doc /\ view[r][old].createdAt \in Nat
    BY <1>3 DEF TypeOK, Doc
  <2> QED
    BY <2>1, EditedDocument
<1>5. \A j \in Id : v[j] = IF j = old THEN NoDoc ELSE view[r][j]
  BY <1>3 DEF WithoutOld, Store
<1>6. v[req[r].id] # NoDoc => UpsertUuid(r, v) = v[req[r].id].uuid
  BY DEF UpsertUuid
<1> HIDE DEF v, edited
<1>7. Writes(r, old, NoDoc)
  BY <1>2, <1>3, <1>4, <1>5 DEF Writes, Untouched, TypeOK
<1>8. view'[r] = v /\ own'[r] = UpsertUuid(r, v) /\ pc'[r] = "relookup"
  BY <1>2 DEF TypeOK
<1> QED
  BY <1>1, <1>2, <1>3, <1>6, <1>7, <1>8

LEMMA RemoveForReinsertInv ==
    ASSUME TypeOK, LockInv, NEW r \in Request, RemoveForReinsert(r)
    PROVE  LockInv'
<1>1. CASE Aborted(r)
  BY <1>1, AbortedInv
<1>2. CASE ~Aborted(r)
  <2>1. PICK old \in AtTarget(r, view[r]) :
              /\ ~DocConflict(r, old)
              /\ Writes(r, old, NoDoc)
              /\ pc[r] = "write" /\ pc'[r] = "relookup" /\ req[r].op = "update"
              /\ view'[r][req[r].id] # NoDoc => own'[r] = view'[r][req[r].id].uuid
    BY <1>2, ReinsertFrame
  <2>2. view[r][old].uuid = target[r] /\ PlanOf(r) /\ HeldAt(r)
    BY DEF AtTarget, LockInv, TransactionInv
  <2>3. target[r] \in locks[r] /\ wrote[r] = {}
    BY <2>1, <2>2 DEF PlanOf, HeldAt
  <2>4. PlanOf(r)'
    BY <2>1, <2>2, <2>3 DEF Writes, PlanOf, Reinserting
  <2> QED
    BY <2>1, <2>2, <2>3, <2>4, WriteInv
<1> QED
  BY <1>1, <1>2

(* Every step keeps the locks exclusive and what they protect current.      *)
LEMMA StepLockInv ==
    ASSUME TypeOK, LockInv, NEW r \in Request, Receive(r) \/ Step(r) \/ Crash(r)
    PROVE  LockInv'
<1>1. CASE CommitLost(r)
  BY <1>1, CommitPublishes, PublishedInv, ThrowAborts, AbortedInv
<1>2. CASE Crash(r)
  BY <1>2, CommitPublishes, PublishedInv, CrashAborts, AbortedInv
<1>3. CASE RefuseUpdate(r)
  BY <1>3, RefuseAborts, AbortedInv DEF RefuseUpdate
<1> QED
  BY <1>1, <1>2, <1>3, ReceiveInv, BeginInv, LookupInv, LockDocumentsInv,
     UpsertDocumentInv, ReplaceDocumentInv, RemoveForReinsertInv, RemoveDocumentInv,
     CommitPublishes, PublishedInv DEF Step

LEMMA InitLockInv == Init => LockInv
BY DEF Init, LockInv, LocksExclude, TransactionInv, HeldAt, SnapshotCurrent, PlanOf,
       WritesLocked, Opened, Reinserting, NoDraft

(* The rows of the concurrency collection are exclusive locks, and what an  *)
(* open transaction saw of the documents it has locked is what is committed.*)
THEOREM LocksProtect == Spec => []LockInv
<1>1. TypeOK /\ LockInv /\ [Next]_vars => LockInv'
  <2> SUFFICES ASSUME TypeOK, LockInv, [Next]_vars PROVE LockInv'
    OBVIOUS
  <2>1. CASE UNCHANGED vars
    <3>1. \A s \in Request : Untouched(s)
      BY <2>1 DEF vars, callVars, txnVars, planVars, Untouched
    <3>2. LocksExclude'
      BY <2>1 DEF vars, txnVars, LockInv, LocksExclude
    <3> QED
      BY <3>1, <3>2, UntouchedInv DEF LockInv
  <2>2. CASE Next
    BY <2>1, <2>2, StepLockInv DEF Next, Quiescent
  <2> QED
    BY <2>1, <2>2
<1> QED
  BY <1>1, InitLockInv, TypeCorrect, PTL DEF Spec

-----------------------------------------------------------------------------
(* A documentUuid names one document for life, whatever calls run beside    *)
(* each other, are tried again or end with their process: the proof that    *)
(* MongoStore implements DocumentStore, and what rests on it.  Then why a   *)
(* document never loses a reference whose document was seen by the lookup   *)
(* of the documents to lock, if every DELETE is checked.                    *)
(* What a step of another call leaves alone.                                *)
Bystander(s) ==
    /\ Untouched(s)
    /\ attempt'[s] = attempt[s] /\ applied'[s] = applied[s] /\ result'[s] = result[s]

LEMMA BystanderInv ==
    ASSUME NEW s \in Request, Bystander(s), issued' = issued, CallInv(s)
    PROVE  CallInv(s)'
<1> USE DEF Bystander, Untouched
<1>1. Opened(s)' = Opened(s)
  BY DEF Opened
<1>2. Generated(s)'
  BY DEF CallInv, Generated
<1>3. DraftOf(s)'
  BY DEF CallInv, DraftOf, NewerVersion
<1>4. ReinsertOf(s)'
  BY DEF CallInv, ReinsertOf, NewerVersion
<1>5. EffectOf(s)'
  BY DEF CallInv, EffectOf, Inserts, Overwrites, Updates, Deletes, NewerVersion
<1>6. AppliedOf(s)'
  BY <1>1 DEF CallInv, AppliedOf, NothingLeftToDo
<1> QED
  BY <1>2, <1>3, <1>4, <1>5, <1>6 DEF CallInv

(* A step of r that commits nothing.                                        *)
Private(r) ==
    /\ docs' = docs /\ issued' = issued
    /\ \A s \in Request \ {r} : Bystander(s)

LEMMA PrivateInv ==
    ASSUME IdentityInv, NEW r \in Request, Private(r), CallInv(r)'
    PROVE  IdentityInv'
<1>1. \A s \in Request : CallInv(s)'
  BY BystanderInv DEF IdentityInv, Private
<1>2. UuidUnique'
  BY DEF IdentityInv, Private, UuidUnique, Abstract!UuidUnique, Abstract!Present
<1>3. UuidsIn(docs)' \subseteq issued'
  BY DEF IdentityInv, Private, UuidsIn
<1> QED
  BY <1>1, <1>2, <1>3 DEF IdentityInv

(* The attempt of r is over, and the call with it or another one begins.    *)
EndsAttempt(r) ==
    /\ pc[r] # "idle" /\ pc[r] # "done"
    /\ \/ pc'[r] = "done" /\ attempt'[r] = attempt[r]
       \/ pc'[r] = "begin" /\ attempt'[r] = attempt[r] + 1
    /\ req'[r] = req[r] /\ target'[r] = target[r]

Withdraws(r) == Aborted(r) /\ Private(r) /\ EndsAttempt(r) /\ applied'[r] = applied[r]

LEMMA WithdrawsInv ==
    ASSUME TypeOK, IdentityInv, NEW r \in Request, Withdraws(r)
    PROVE  IdentityInv'
<1> USE DEF Withdraws, Private, Aborted, Over, EndsAttempt
<1>1. Generated(r)'
  <2>1. attempt[r] \in Nat
    BY DEF TypeOK
  <2>2. Generated(r)
    BY DEF IdentityInv, CallInv
  <2> QED
    BY <2>1, <2>2 DEF Generated
<1>2. DraftOf(r)' /\ ReinsertOf(r)' /\ EffectOf(r)'
  BY DEF DraftOf, ReinsertOf, EffectOf, Reinserting
<1>3. AppliedOf(r)'
  BY DEF IdentityInv, CallInv, AppliedOf, NothingLeftToDo, Opened, Reinserting
<1> QED
  BY <1>1, <1>2, <1>3, PrivateInv DEF CallInv

LEMMA RefuseWithdraws ==
    ASSUME TypeOK, NEW r \in Request, NEW response, Refuse(r, response),
           pc[r] \notin {"idle", "done"}
    PROVE  Withdraws(r)
<1>1. Aborted(r)
  BY RefuseAborts
<1>2. Private(r) /\ EndsAttempt(r) /\ applied'[r] = applied[r]
  BY <1>1 DEF TypeOK, Refuse, Aborted, Private, Bystander, EndsAttempt, callVars, historyVars
<1> QED
  BY <1>1, <1>2 DEF Withdraws

LEMMA ThrowWithdraws ==
    ASSUME TypeOK, NEW r \in Request, NEW response, Throw(r, response),
           pc[r] \notin {"idle", "done"}
    PROVE  Withdraws(r)
<1>1. Aborted(r)
  BY ThrowAborts
<1>2. Private(r) /\ EndsAttempt(r) /\ applied'[r] = applied[r]
  BY <1>1 DEF TypeOK, Throw, RetryOrAnswer, Aborted, Private, Bystander, EndsAttempt,
              callVars, historyVars
<1> QED
  BY <1>1, <1>2 DEF Withdraws

LEMMA CrashWithdraws ==
    ASSUME TypeOK, NEW r \in Request, Crash(r), Close(r), UNCHANGED <<docs, historyVars>>
    PROVE  Withdraws(r)
<1>1. Aborted(r)
  BY CrashAborts
<1>2. Private(r) /\ EndsAttempt(r) /\ applied'[r] = applied[r]
  BY <1>1 DEF TypeOK, Crash, Aborted, Private, Bystander, EndsAttempt, callVars, historyVars
<1> QED
  BY <1>1, <1>2 DEF Withdraws

-----------------------------------------------------------------------------
(* The steps of a call.                                                     *)
LEMMA ReceiveIdentity ==
    ASSUME TypeOK, LockInv, IdentityInv, NEW r \in Request, Receive(r)
    PROVE  IdentityInv'
<1>1. Private(r) /\ pc[r] = "idle" /\ pc'[r] = "begin" /\ attempt'[r] = 1
      /\ target'[r] \in UuidsIn(docs) \cup {NoUuid} /\ applied'[r] = applied[r]
  BY DEF TypeOK, Receive, Private, Bystander, Untouched, txnVars, planVars, historyVars
<1>2. Generated(r)'
  BY <1>1 DEF IdentityInv, CallInv, Generated, Private
<1>3. DraftOf(r)' /\ ReinsertOf(r)' /\ EffectOf(r)' /\ AppliedOf(r)'
  BY <1>1 DEF IdentityInv, CallInv, Generated, DraftOf, ReinsertOf, EffectOf, AppliedOf, Reinserting
<1> QED
  BY <1>1, <1>2, <1>3, PrivateInv DEF CallInv

(* A step within an attempt.                                                *)
Continues(r) ==
    /\ Private(r)
    /\ pc[r] \notin {"idle", "done"} /\ pc'[r] \notin {"idle", "done"}
    /\ attempt'[r] = attempt[r] /\ applied'[r] = applied[r]
    /\ req'[r] = req[r] /\ target'[r] = target[r]

LEMMA ContinuesInv ==
    ASSUME IdentityInv, NEW r \in Request, Continues(r),
           DraftOf(r)', ReinsertOf(r)', EffectOf(r)', AppliedOf(r)'
    PROVE  IdentityInv'
<1>1. Generated(r)'
  BY DEF IdentityInv, CallInv, Generated, Continues, Private
<1> QED
  BY <1>1, PrivateInv DEF CallInv, Continues

(* A call not refused for its timestamp is newer than what it overwrites.   *)
LEMMA UpsertIsNewer ==
    ASSUME NEW s \in Store, NEW i \in Id, NEW refs, NEW ts \in Nat, NEW validate,
           UpsertRefusal(s, i, refs, ts, validate) = "NONE", s[i] # NoDoc
    PROVE  ts > s[i].lastModifiedAt
BY DEF UpsertRefusal, Store, Doc

LEMMA CallTypes ==
    ASSUME TypeOK, NEW r \in Request, pc[r] # "idle"
    PROVE  /\ req[r].id \in Id /\ req[r].ts \in Nat /\ req[r].op \in Op
           /\ view[r] \in Store /\ docs \in Store /\ draft[r] \in Doc
BY InputAssumption DEF TypeOK, Call

LEMMA BeginIdentity ==
    ASSUME TypeOK, IdentityInv, NEW r \in Request,
           BeginUpsert(r) \/ BeginUpdate(r) \/ BeginDelete(r)
    PROVE  IdentityInv'
<1>0. pc[r] = "begin"
  BY DEF BeginUpsert, BeginUpdate, BeginDelete
<1>1. CASE \E response : Refuse(r, response)
  BY <1>0, <1>1, RefuseWithdraws, WithdrawsInv
<1>2. CASE BeginUpsert(r) /\ ~\E response : Refuse(r, response)
  <2> DEFINE q == req[r]
             uuid == UpsertUuid(r, docs)
             createdAt == IF docs[q.id] = NoDoc THEN q.ts ELSE docs[q.id].createdAt
  <2>1. /\ UpsertRefusal(docs, q.id, q.refs, q.ts, q.validate) = "NONE"
        /\ pc' = [pc EXCEPT ![r] = "lookup"] /\ view' = [view EXCEPT ![r] = docs]
        /\ draft' = [draft EXCEPT ![r] = NewDocument(r, uuid, createdAt)]
        /\ own' = [own EXCEPT ![r] = uuid]
        /\ UNCHANGED <<docs, req, target, attempt, wrote, locks, overtakenDocs,
                       overtakenLocks, found, result, applied, issued>>
        /\ q.op = "upsert"
    BY <1>2 DEF BeginUpsert, callVars, historyVars
  <2>2. Continues(r)
    BY <1>0, <2>1 DEF TypeOK, Continues, Private, Bystander, Untouched
  <2>3. /\ view'[r] = docs /\ draft'[r] = NewDocument(r, uuid, createdAt) /\ pc'[r] = "lookup"
        /\ req'[r] = q /\ attempt'[r] = attempt[r]
    BY <2>1 DEF TypeOK
  <2>4. docs[q.id] # NoDoc => q.ts > docs[q.id].lastModifiedAt
    BY <1>0, <2>1, CallTypes, UpsertIsNewer
  <2>5. DraftOf(r)'
    BY <2>1, <2>3, <2>4 DEF DraftOf, NewDocument, NewerVersion, UpsertUuid
  <2>6. ReinsertOf(r)' /\ EffectOf(r)' /\ AppliedOf(r)'
    BY <2>1, <2>3 DEF ReinsertOf, EffectOf, AppliedOf, Reinserting
  <2> QED
    BY <2>2, <2>5, <2>6, ContinuesInv
<1>3. CASE BeginUpdate(r) /\ ~\E response : Refuse(r, response)
  <2> DEFINE q == req[r]
  <2>1. /\ pc' = [pc EXCEPT ![r] = "lookup"]
        /\ view' = [view EXCEPT ![r] = IF q.validate THEN docs ELSE @]
        /\ draft' = [draft EXCEPT ![r] = NewDocument(r, target[r], 0)]
        /\ own' = [own EXCEPT ![r] = target[r]]
        /\ UNCHANGED <<docs, req, target, attempt, wrote, locks, overtakenDocs,
                       overtakenLocks, found, result, applied, issued>>
        /\ q.op = "update"
    BY <1>3 DEF BeginUpdate, callVars, historyVars
  <2>2. Continues(r)
    BY <1>0, <2>1 DEF TypeOK, Continues, Private, Bystander, Untouched
  <2>3. /\ q.validate => view'[r] = docs
        /\ draft'[r] = NewDocument(r, target[r], 0) /\ pc'[r] = "lookup"
        /\ req'[r] = q /\ target'[r] = target[r] /\ applied'[r] = applied[r] /\ docs' = docs
    BY <2>1 DEF TypeOK
  <2>4. DraftOf(r)' /\ ReinsertOf(r)' /\ EffectOf(r)'
    BY <2>1, <2>3 DEF DraftOf, ReinsertOf, EffectOf, Reinserting, NewDocument
  <2>5. AppliedOf(r)'
    BY <2>1, <2>3 DEF IdentityInv, CallInv, AppliedOf, NothingLeftToDo, Opened, Reinserting
  <2> QED
    BY <2>2, <2>4, <2>5, ContinuesInv
<1>4. CASE BeginDelete(r) /\ ~\E response : Refuse(r, response)
  <2> DEFINE q == req[r]
  <2>1. /\ pc' = [pc EXCEPT ![r] = "lock"]
        /\ view' = [view EXCEPT ![r] = IF q.validate THEN docs ELSE @]
        /\ own' = [own EXCEPT ![r] = target[r]]
        /\ UNCHANGED <<docs, req, target, attempt, wrote, locks, overtakenDocs,
                       overtakenLocks, found, draft, result, applied, issued>>
        /\ q.op = "delete"
    BY <1>4 DEF BeginDelete, callVars, historyVars
  <2>2. Continues(r)
    BY <1>0, <2>1 DEF TypeOK, Continues, Private, Bystander, Untouched
  <2>3. /\ q.validate => view'[r] = docs
        /\ pc'[r] = "lock"
        /\ req'[r] = q /\ target'[r] = target[r] /\ applied'[r] = applied[r] /\ docs' = docs
    BY <2>1 DEF TypeOK
  <2>4. DraftOf(r)' /\ ReinsertOf(r)' /\ EffectOf(r)'
    BY <2>1, <2>3 DEF DraftOf, ReinsertOf, EffectOf, Reinserting
  <2>5. AppliedOf(r)'
    BY <2>1, <2>3 DEF IdentityInv, CallInv, AppliedOf, NothingLeftToDo, Opened, Reinserting
  <2> QED
    BY <2>2, <2>4, <2>5, ContinuesInv
<1> QED
  BY <1>1, <1>2, <1>3, <1>4

LEMMA LookupIdentity ==
    ASSUME TypeOK, IdentityInv, NEW r \in Request, LookupReferenced(r)
    PROVE  IdentityInv'
<1>1. /\ UNCHANGED <<docs, req, target, attempt, view, wrote, result, applied, issued>>
      /\ pc[r] \in {"lookup", "relookup"} /\ pc'[r] \in {"lock", "relock"}
      /\ pc'[r] = "lock" <=> pc[r] = "lookup"
      /\ \A s \in Request \ {r} : Untouched(s)
      /\ Opened(r)' = Opened(r)
  BY LookupFrame DEF LookupReferenced, TypeOK, callVars, txnVars, historyVars
<1>2. /\ draft'[r].uuid = draft[r].uuid /\ draft'[r].createdAt = draft[r].createdAt
      /\ draft'[r].lastModifiedAt = draft[r].lastModifiedAt
  <2> DEFINE sawAll == draft[r].validated /\ Resolves(docs, draft[r].refs)
  <2>1. draft[r] \in Doc
    BY DEF TypeOK
  <2>2. draft'[r] = draft[r] \/ draft'[r] = WithGuarded(draft[r], sawAll)
    BY DEF LookupReferenced, TypeOK
  <2> HIDE DEF sawAll
  <2> QED
    BY <2>1, <2>2 DEF WithGuarded, Doc
<1>3. Continues(r)
  BY <1>1 DEF Continues, Private, Bystander
<1>4. DraftOf(r)' /\ ReinsertOf(r)' /\ EffectOf(r)'
  BY <1>1, <1>2 DEF IdentityInv, CallInv, DraftOf, ReinsertOf, EffectOf, Reinserting, NewerVersion
<1>5. AppliedOf(r)'
  BY <1>1 DEF IdentityInv, CallInv, AppliedOf, NothingLeftToDo, Reinserting
<1> QED
  BY <1>3, <1>4, <1>5, ContinuesInv

LEMMA LockDocumentsIdentity ==
    ASSUME TypeOK, IdentityInv, NEW r \in Request, LockDocuments(r)
    PROVE  IdentityInv'
<1>0. pc[r] \in {"lock", "relock"}
  BY DEF LockDocuments
<1>1. CASE \E response : Throw(r, response)
  BY <1>0, <1>1, ThrowWithdraws, WithdrawsInv
<1>2. CASE ~\E response : Throw(r, response)
  <2>1. /\ UNCHANGED <<docs, req, target, attempt, wrote, overtakenDocs, overtakenLocks,
                       found, own, draft, result, applied, issued>>
        /\ view' = [view EXCEPT ![r] = IF Opened(r) THEN @ ELSE docs]
        /\ pc' = [pc EXCEPT ![r] = IF pc[r] = "lock" THEN "write" ELSE "rewrite"]
        /\ locks' = [locks EXCEPT ![r] = @ \cup RowsToLock(r)]
    BY <1>2 DEF LockDocuments, callVars, planVars, historyVars
  <2>2. Continues(r)
    BY <1>0, <2>1 DEF TypeOK, Continues, Private, Bystander, Untouched
  <2>3. /\ pc'[r] = IF pc[r] = "lock" THEN "write" ELSE "rewrite"
        /\ view'[r] = IF Opened(r) THEN view[r] ELSE docs
        /\ req'[r].op = "upsert" \/ pc[r] = "relock" => Opened(r)
    BY <1>0, <2>1 DEF TypeOK, Opened
  <2>4. DraftOf(r)' /\ ReinsertOf(r)' /\ EffectOf(r)'
    BY <1>0, <2>1, <2>3 DEF IdentityInv, CallInv, DraftOf, ReinsertOf, EffectOf, Reinserting,
                            NewerVersion
  <2>5. AppliedOf(r)'
    BY <1>0, <2>1, <2>3 DEF IdentityInv, CallInv, AppliedOf, NothingLeftToDo, Reinserting
  <2> QED
    BY <2>2, <2>4, <2>5, ContinuesInv
<1> QED
  BY <1>1, <1>2

(* A write that conflicts with nobody replaces what is committed, which is  *)
(* what the transaction sees.                                               *)
LEMMA WriteContinues ==
    ASSUME TypeOK, LockInv, NEW r \in Request, NEW i \in Id, NEW d, NEW response,
           pc[r] \in {"write", "rewrite"}, ~DocConflict(r, i), WriteDocument(r, i, d, response)
    PROVE  /\ Continues(r) /\ pc'[r] = "commit"
           /\ docs' = docs /\ draft' = draft /\ result'[r] = response
           /\ wrote'[r] = wrote[r] \cup {i}
           /\ \A j \in Id : view'[r][j] = IF j = i THEN d ELSE view[r][j]
           /\ i \notin wrote[r] => docs[i] = view[r][i]
<1>1. Writes(r, i, d)
  BY WriteFrame
<1>2. /\ UNCHANGED <<docs, req, target, attempt, draft, applied, issued>>
      /\ result' = [result EXCEPT ![r] = response] /\ pc'[r] = "commit"
  BY DEF WriteDocument, TypeOK, callVars, planVars, historyVars
<1>3. Continues(r)
  BY <1>1, <1>2 DEF Writes, Continues, Private, Bystander, TypeOK
<1>4. i \notin wrote[r] => docs[i] = view[r][i]
  BY DEF LockInv, TransactionInv, SnapshotCurrent, Opened, DocConflict
<1> QED
  BY <1>1, <1>2, <1>3, <1>4 DEF Writes, TypeOK

LEMMA UpsertDocumentIdentity ==
    ASSUME TypeOK, LockInv, IdentityInv, NEW r \in Request, UpsertDocument(r)
    PROVE  IdentityInv'
<1> DEFINE i == req[r].id
           d == draft[r]
<1>0. /\ (pc[r] = "write" /\ req[r].op = "upsert") \/ pc[r] = "rewrite"
      /\ i \in Id /\ docs \in Store /\ d # NoDoc
  BY CallTypes, NoDocAssumption DEF UpsertDocument
<1>1. CASE DocConflict(r, i)
  BY <1>0, <1>1, ThrowWithdraws, WithdrawsInv DEF UpsertDocument
<1>2. CASE ~DocConflict(r, i)
  <2> DEFINE response == IF view[r][i] = NoDoc /\ req[r].op = "upsert"
                         THEN "INSERT_SUCCESS" ELSE "UPDATE_SUCCESS"
  <2>1. WriteDocument(r, i, d, response)
    BY <1>2 DEF UpsertDocument
  <2>2. /\ Continues(r) /\ pc'[r] = "commit" /\ docs' = docs /\ draft' = draft
        /\ result'[r] = response /\ wrote'[r] = wrote[r] \cup {i}
        /\ \A j \in Id : view'[r][j] = IF j = i THEN d ELSE view[r][j]
        /\ i \notin wrote[r] => docs[i] = view[r][i]
    BY <1>0, <1>2, <2>1, WriteContinues
  <2> HIDE DEF response
  <2>3. req'[r] = req[r] /\ attempt'[r] = attempt[r] /\ applied'[r] = applied[r] /\ target'[r] = target[r]
    BY <2>2 DEF Continues
  <2>4. CASE pc[r] = "write"
    <3>1. wrote[r] = {} /\ req[r].op = "upsert"
      BY <1>0, <2>4 DEF LockInv, TransactionInv, HeldAt
    <3>2. /\ d.lastModifiedAt = req[r].ts
          /\ view[r][i] = NoDoc => d.uuid = <<r, attempt[r]>> /\ d.createdAt = req[r].ts
          /\ view[r][i] # NoDoc => NewerVersion(d, view[r][i])
      BY <2>4, <3>1 DEF IdentityInv, CallInv, DraftOf
    <3>3. view[r][i] = NoDoc => Inserts(r)'
      BY <1>0, <2>2, <2>3, <3>1, <3>2 DEF Inserts, response
    <3>4. view[r][i] # NoDoc => Overwrites(r)'
      BY <1>0, <2>2, <2>3, <3>1, <3>2 DEF Overwrites, response, NewerVersion
    <3>5. DraftOf(r)' /\ ReinsertOf(r)' /\ EffectOf(r)' /\ AppliedOf(r)'
      BY <2>2, <2>3, <3>1, <3>3, <3>4 DEF DraftOf, ReinsertOf, EffectOf, AppliedOf, Reinserting
    <3> QED
      BY <2>2, <3>5, ContinuesInv
  <2>5. CASE pc[r] = "rewrite"
    <3>1. PICK old \in Id \ {i} : wrote[r] = {old} /\ docs[old] # NoDoc /\ view[r][old] = NoDoc
                                  /\ NewerVersion(d, docs[old])
      BY <2>5 DEF IdentityInv, CallInv, ReinsertOf, Reinserting
    <3>2. /\ d.lastModifiedAt = req[r].ts /\ req[r].op = "update" /\ d.uuid = target[r]
          /\ view[r][i] # NoDoc => view[r][i].lastModifiedAt < req[r].ts
      BY <2>5 DEF IdentityInv, CallInv, ReinsertOf, Reinserting, LockInv, TransactionInv, PlanOf
    <3>3. Updates(r)'
      BY <1>0, <2>2, <2>3, <3>1, <3>2 DEF Updates, response, NewerVersion
    <3>4. applied[r] = 0
      BY <2>5, <3>2 DEF IdentityInv, CallInv, AppliedOf, Reinserting
    <3>5. DraftOf(r)' /\ ReinsertOf(r)' /\ EffectOf(r)' /\ AppliedOf(r)'
      BY <2>2, <2>3, <3>3, <3>4 DEF DraftOf, ReinsertOf, EffectOf, AppliedOf, Reinserting
    <3> QED
      BY <2>2, <3>5, ContinuesInv
  <2> QED
    BY <1>0, <2>4, <2>5
<1> QED
  BY <1>1, <1>2

LEMMA ReplaceDocumentIdentity ==
    ASSUME TypeOK, LockInv, IdentityInv, NEW r \in Request, ReplaceDocument(r)
    PROVE  IdentityInv'
<1> DEFINE i == req[r].id
           d == WithCreatedAt(draft[r], view[r][i].createdAt)
<1>0. /\ pc[r] = "write" /\ req[r].op = "update" /\ Replaceable(r)
      /\ i \in Id /\ view[r] \in Store /\ draft[r] \in Doc /\ req[r].ts \in Nat
  BY CallTypes DEF ReplaceDocument
<1>1. CASE DocConflict(r, i)
  BY <1>0, <1>1, ThrowWithdraws, WithdrawsInv DEF ReplaceDocument
<1>2. CASE ~DocConflict(r, i)
  <2>1. WriteDocument(r, i, d, "UPDATE_SUCCESS")
    BY <1>2 DEF ReplaceDocument
  <2>2. /\ view[r][i] \in Doc /\ view[r][i] # NoDoc /\ view[r][i].uuid = target[r]
        /\ view[r][i].lastModifiedAt < req[r].ts
    BY <1>0, NoDocAssumption DEF Replaceable, Store
  <2>3. d \in Doc /\ d # NoDoc /\ d.createdAt = view[r][i].createdAt
        /\ d.uuid = draft[r].uuid /\ d.lastModifiedAt = draft[r].lastModifiedAt
    BY <1>0, <2>2, NoDocAssumption DEF WithCreatedAt, Doc
  <2> HIDE DEF d
  <2>4. /\ Continues(r) /\ pc'[r] = "commit" /\ docs' = docs /\ draft' = draft
        /\ result'[r] = "UPDATE_SUCCESS" /\ wrote'[r] = wrote[r] \cup {i}
        /\ \A j \in Id : view'[r][j] = IF j = i THEN d ELSE view[r][j]
        /\ i \notin wrote[r] => docs[i] = view[r][i]
    BY <1>0, <1>2, <2>1, WriteContinues
  <2>5. req'[r] = req[r] /\ attempt'[r] = attempt[r] /\ applied'[r] = applied[r] /\ target'[r] = target[r]
    BY <2>4 DEF Continues
  <2>6. wrote[r] = {} /\ draft[r].uuid = target[r] /\ draft[r].lastModifiedAt = req[r].ts
    BY <1>0 DEF LockInv, TransactionInv, HeldAt, PlanOf, IdentityInv, CallInv, DraftOf
  <2>7. Updates(r)'
    <3>1. NewerVersion(d, docs[i])
      BY <1>0, <2>2, <2>3, <2>4, <2>6 DEF NewerVersion
    <3> QED
      BY <1>0, <2>2, <2>3, <2>4, <2>5, <2>6, <3>1 DEF Updates, NewerVersion
  <2>8. applied[r] = 0
    <3>1. ~NothingLeftToDo(r, view[r]) /\ Opened(r)
      BY <1>0, <2>2 DEF NothingLeftToDo, Opened, Doc
    <3> QED
      BY <1>0, <3>1 DEF IdentityInv, CallInv, AppliedOf
  <2>9. DraftOf(r)' /\ ReinsertOf(r)' /\ EffectOf(r)' /\ AppliedOf(r)'
    BY <2>4, <2>5, <2>7, <2>8 DEF DraftOf, ReinsertOf, EffectOf, AppliedOf, Reinserting
  <2> QED
    BY <2>4, <2>9, ContinuesInv
<1> QED
  BY <1>1, <1>2

LEMMA RemoveDocumentIdentity ==
    ASSUME TypeOK, LockInv, IdentityInv, NEW r \in Request, RemoveDocument(r)
    PROVE  IdentityInv'
<1>0. pc[r] = "write" /\ req[r].op = "delete"
  BY DEF RemoveDocument
<1>1. CASE \/ AtTarget(r, view[r]) = {}
           \/ \E i \in AtTarget(r, view[r]) : DocConflict(r, i) /\ Throw(r, WriteConflict(r))
  BY <1>0, <1>1, RefuseWithdraws, ThrowWithdraws, WithdrawsInv DEF RemoveDocument
<1>2. CASE \E i \in AtTarget(r, view[r]) :
             ~DocConflict(r, i) /\ WriteDocument(r, i, NoDoc, "DELETE_SUCCESS")
  <2>1. PICK i \in AtTarget(r, view[r]) :
           ~DocConflict(r, i) /\ WriteDocument(r, i, NoDoc, "DELETE_SUCCESS")
    BY <1>2
  <2>2. i \in Id /\ view[r][i] # NoDoc /\ view[r][i].uuid = target[r]
    BY DEF AtTarget
  <2>4. /\ Continues(r) /\ pc'[r] = "commit" /\ docs' = docs
        /\ result'[r] = "DELETE_SUCCESS" /\ wrote'[r] = wrote[r] \cup {i}
        /\ \A j \in Id : view'[r][j] = IF j = i THEN NoDoc ELSE view[r][j]
        /\ i \notin wrote[r] => docs[i] = view[r][i]
    BY <1>0, <2>1, <2>2, WriteContinues
  <2>5. req'[r] = req[r] /\ applied'[r] = applied[r] /\ target'[r] = target[r] /\ wrote[r] = {}
    BY <1>0, <2>4 DEF Continues, LockInv, TransactionInv, HeldAt
  <2>6. Deletes(r)'
    BY <1>0, <2>2, <2>4, <2>5 DEF Deletes
  <2>7. applied[r] = 0
    BY <1>0, <2>2 DEF IdentityInv, CallInv, AppliedOf, NothingLeftToDo, Opened
  <2>8. DraftOf(r)' /\ ReinsertOf(r)' /\ EffectOf(r)' /\ AppliedOf(r)'
    BY <2>4, <2>5, <2>6, <2>7 DEF DraftOf, ReinsertOf, EffectOf, AppliedOf, Reinserting
  <2> QED
    BY <2>4, <2>8, ContinuesInv
<1> QED
  BY <1>1, <1>2 DEF RemoveDocument

LEMMA RemoveForReinsertIdentity ==
    ASSUME TypeOK, LockInv, IdentityInv, NEW r \in Request, RemoveForReinsert(r)
    PROVE  IdentityInv'
<1>0. /\ pc[r] = "write" /\ req[r].op = "update" /\ ~Replaceable(r)
      /\ req[r].id \in Id /\ view[r] \in Store /\ draft[r] \in Doc /\ req[r].ts \in Nat
  BY CallTypes DEF RemoveForReinsert
<1>1. PICK old \in AtTarget(r, view[r]) :
         UpdateRefusal(r, old) = "NONE" /\ RemoveThenReinsert(r, old)
  BY DEF RemoveForReinsert
<1> DEFINE i == req[r].id
           v == WithoutOld(view[r], old)
           d == WithCreatedAt(draft[r], view[r][old].createdAt)
           refusal == UpsertRefusal(v, i, req[r].refs, req[r].ts, FALSE)
<1>2. CASE \E response : Refuse(r, response) \/ Throw(r, response)
  BY <1>0, <1>2, RefuseWithdraws, ThrowWithdraws, WithdrawsInv
<1>3. CASE ~\E response : Refuse(r, response) \/ Throw(r, response)
  <2>1. /\ ~DocConflict(r, old) /\ refusal = "NONE"
        /\ view' = [view EXCEPT ![r] = v]
        /\ wrote' = [wrote EXCEPT ![r] = @ \cup {old}]
        /\ own' = [own EXCEPT ![r] = UpsertUuid(r, v)]
        /\ draft' = [draft EXCEPT ![r] = d]
        /\ pc' = [pc EXCEPT ![r] = "relookup"]
        /\ UNCHANGED <<docs, req, target, attempt, locks, overtakenDocs,
                       overtakenLocks, found, result, applied, issued>>
    BY <1>1, <1>3 DEF RemoveThenReinsert, callVars, historyVars
  <2>2. /\ old \in Id /\ view[r][old] \in Doc /\ view[r][old] # NoDoc
        /\ view[r][old].uuid = target[r] /\ view[r][old].lastModifiedAt < req[r].ts
    BY <1>0, <1>1, NoDocAssumption DEF AtTarget, UpdateRefusal, Store, Doc
  <2>3. old # i
    BY <1>0, <2>2 DEF Replaceable
  <2>4. v \in Store /\ \A j \in Id : v[j] = IF j = old THEN NoDoc ELSE view[r][j]
    BY <1>0, <2>2 DEF WithoutOld, Store
  <2>5. v[i] # NoDoc => v[i].lastModifiedAt < req[r].ts
    <3> HIDE DEF v
    <3>1. v[i] # NoDoc => v[i] \in Doc
      BY <1>0, <2>4 DEF Store
    <3> QED
      BY <1>0, <2>1, <3>1 DEF UpsertRefusal, Doc
  <2>6. /\ wrote[r] = {} /\ draft[r].uuid = target[r] /\ draft[r].lastModifiedAt = req[r].ts
    BY <1>0 DEF LockInv, TransactionInv, HeldAt, PlanOf, IdentityInv, CallInv, DraftOf
  <2>7. docs[old] = view[r][old]
    BY <1>0, <2>1, <2>2, <2>6 DEF LockInv, TransactionInv, SnapshotCurrent, Opened, DocConflict
  <2>8. d.createdAt = view[r][old].createdAt /\ d.uuid = draft[r].uuid
        /\ d.lastModifiedAt = draft[r].lastModifiedAt
    BY <1>0, <2>2 DEF WithCreatedAt, Doc
  <2> HIDE DEF v, d
  <2>9. Continues(r)
    BY <1>0, <2>1 DEF TypeOK, Continues, Private, Bystander, Untouched
  <2>10. /\ view'[r] = v /\ wrote'[r] = {old} /\ draft'[r] = d /\ pc'[r] = "relookup"
         /\ req'[r] = req[r] /\ docs' = docs /\ applied'[r] = applied[r]
    BY <2>1, <2>6 DEF TypeOK
  <2>11. ReinsertOf(r)'
    <3>1. NewerVersion(d, docs[old])
      BY <1>0, <2>2, <2>6, <2>7, <2>8 DEF NewerVersion, Doc
    <3> QED
      BY <2>2, <2>3, <2>4, <2>5, <2>6, <2>7, <2>8, <2>10, <3>1 DEF ReinsertOf, NewerVersion
  <2>12. applied[r] = 0
    <3>1. ~NothingLeftToDo(r, view[r]) /\ Opened(r)
      BY <1>0, <2>2 DEF NothingLeftToDo, Opened, Doc
    <3> QED
      BY <1>0, <3>1 DEF IdentityInv, CallInv, AppliedOf
  <2>13. DraftOf(r)' /\ EffectOf(r)'
    BY <2>10 DEF DraftOf, EffectOf
  <2>14. AppliedOf(r)'
    BY <2>10, <2>12 DEF AppliedOf
  <2> QED
    BY <2>9, <2>11, <2>13, <2>14, ContinuesInv
<1> QED
  BY <1>2, <1>3

-----------------------------------------------------------------------------
(* The commit is one step of the abstract store.                            *)
LEMMA PublishedIssued ==
    ASSUME TypeOK, NEW r \in Request, PublishedBy(r), NEW new,
           \A i \in Id : docs'[i] # NoDoc => docs'[i].uuid \in issued \cup new,
           \A u \in new : \E i \in Id : docs'[i] # NoDoc /\ docs'[i].uuid = u
    PROVE  issued' = issued \cup new
<1>1. issued' = issued \cup {docs'[i].uuid : i \in {j \in Id : docs'[j] # NoDoc}}
  BY DEF PublishedBy, Publish, UuidsIn
<1>2. ASSUME NEW u PROVE u \in issued' <=> u \in issued \cup new
  BY <1>1
<1> QED
  BY <1>2

LEMMA PublishedIsStoreStep ==
    ASSUME TypeOK, LockInv, IdentityInv, NEW r \in Request, PublishedBy(r)
    PROVE  Abstract!Next
<1>0. /\ pc[r] = "commit" /\ req[r].id \in Id /\ docs \in Store
      /\ \A i \in Id : docs'[i] = IF i \in wrote[r] THEN view[r][i] ELSE docs[i]
      /\ \A i \in Id : docs[i] # NoDoc => docs[i].uuid \in issued
      /\ attempt[r] \in 0 .. MaxAttempt
  BY CallTypes, PublishedDocs DEF PublishedBy, IdentityInv, UuidsIn, TypeOK
<1> DEFINE i == req[r].id
<1>1. CASE Inserts(r)
  <2>1. docs[i] = NoDoc /\ docs'[i] = draft[r] /\ docs'[i] # NoDoc
        /\ docs'[i].uuid = <<r, attempt[r]>> /\ docs'[i].createdAt = docs'[i].lastModifiedAt
        /\ \A j \in Id \ {i} : docs'[j] = docs[j]
    BY <1>0, <1>1 DEF Inserts
  <2>2. docs'[i].uuid \notin issued
    BY <1>0, <2>1 DEF IdentityInv, CallInv, Generated
  <2>3. issued' = issued \cup {docs'[i].uuid}
    <3>1. /\ \A k \in Id : docs'[k] # NoDoc => docs'[k].uuid \in issued \cup {docs'[i].uuid}
          /\ \A u \in {docs'[i].uuid} : \E k \in Id : docs'[k] # NoDoc /\ docs'[k].uuid = u
      BY <1>0, <2>1
    <3> QED
      BY <3>1, PublishedIssued
  <2>4. Abstract!Create(i)
    BY <2>1, <2>2, <2>3 DEF Abstract!Create, Abstract!Present, Abstract!OnlyChanged
  <2> QED
    BY <1>0, <2>4 DEF Abstract!Next
<1>2. CASE Overwrites(r)
  <2>1. docs[i] # NoDoc /\ docs'[i] = draft[r] /\ docs'[i] # NoDoc
        /\ NewerVersion(docs'[i], docs[i])
        /\ \A j \in Id \ {i} : docs'[j] = docs[j]
    BY <1>0, <1>2 DEF Overwrites
  <2>2. issued' = issued
    <3>1. \A k \in Id : docs'[k] # NoDoc => docs'[k].uuid \in issued
      BY <1>0, <2>1 DEF NewerVersion
    <3>2. issued' = issued \cup {}
      BY <3>1, PublishedIssued
    <3> QED
      BY <3>2
  <2>3. Abstract!Replace(i)
    BY <2>1, <2>2 DEF Abstract!Replace, Abstract!Supersedes, Abstract!Present,
                      Abstract!OnlyChanged, NewerVersion
  <2> QED
    BY <1>0, <2>3 DEF Abstract!Next
<1>3. CASE Updates(r)
  <2>1. PICK old \in Id :
           /\ wrote[r] = {old, i} /\ docs[old] # NoDoc
           /\ NewerVersion(view[r][i], docs[old])
           /\ old # i => /\ view[r][old] = NoDoc
                         /\ docs[i] # NoDoc => docs[i].lastModifiedAt < req[r].ts
    BY <1>3 DEF Updates
  <2>2. docs'[i] = view[r][i] /\ docs'[i] # NoDoc /\ docs'[i].lastModifiedAt = req[r].ts
        /\ \A j \in Id \ {old, i} : docs'[j] = docs[j]
    BY <1>0, <1>3, <2>1 DEF Updates
  <2>3. CASE old = i
    <3>1. issued' = issued
      <4>1. \A k \in Id : docs'[k] # NoDoc => docs'[k].uuid \in issued
        BY <1>0, <2>1, <2>2, <2>3 DEF NewerVersion
      <4>2. issued' = issued \cup {}
        BY <4>1, PublishedIssued
      <4> QED
        BY <4>2
    <3>2. Abstract!Replace(i)
      BY <2>1, <2>2, <2>3, <3>1 DEF Abstract!Replace, Abstract!Supersedes, Abstract!Present,
                        Abstract!OnlyChanged, NewerVersion
    <3> QED
      BY <1>0, <3>2 DEF Abstract!Next
  <2>4. CASE old # i
    <3>1. docs'[old] = NoDoc
      BY <1>0, <2>1, <2>4
    <3>2. issued' = issued
      <4>1. \A k \in Id : docs'[k] # NoDoc => docs'[k].uuid \in issued
        BY <1>0, <2>1, <2>2, <3>1 DEF NewerVersion
      <4>2. issued' = issued \cup {}
        BY <4>1, PublishedIssued
      <4> QED
        BY <4>2
    <3>3. docs[i] # NoDoc => docs'[i].lastModifiedAt > docs[i].lastModifiedAt
      <4>1. req[r].ts \in Nat /\ (docs[i] # NoDoc => docs[i] \in Doc)
        BY <1>0, CallTypes DEF Store
      <4> QED
        BY <2>1, <2>2, <2>4, <4>1 DEF Doc
    <3>4. Abstract!Rename(old, i)
      BY <2>1, <2>2, <2>4, <3>1, <3>2, <3>3
      DEF Abstract!Rename, Abstract!Supersedes, Abstract!Present, Abstract!OnlyChanged,
          NewerVersion
    <3> QED
      BY <1>0, <3>4 DEF Abstract!Next
  <2> QED
    BY <2>3, <2>4
<1>4. CASE Deletes(r)
  <2>1. PICK j \in Id : wrote[r] = {j} /\ view[r][j] = NoDoc /\ docs[j] # NoDoc
    BY <1>4 DEF Deletes
  <2>2. docs'[j] = NoDoc /\ \A k \in Id \ {j} : docs'[k] = docs[k]
    BY <1>0, <2>1
  <2>3. issued' = issued
    <3>1. \A k \in Id : docs'[k] # NoDoc => docs'[k].uuid \in issued
      BY <1>0, <2>2
    <3>2. issued' = issued \cup {}
      BY <3>1, PublishedIssued
    <3> QED
      BY <3>2
  <2>4. Abstract!Remove(j)
    BY <2>1, <2>2, <2>3 DEF Abstract!Remove, Abstract!Present, Abstract!OnlyChanged
  <2> QED
    BY <2>4 DEF Abstract!Next
<1> QED
  BY <1>0, <1>1, <1>2, <1>3, <1>4 DEF IdentityInv, CallInv, EffectOf

(* A step of the abstract store leaves documentUuids unique and recorded.   *)
LEMMA StoreStepKeepsUuids ==
    ASSUME IdentityInv, Abstract!Next
    PROVE  UuidUnique' /\ UuidsIn(docs)' \subseteq issued'
<1>0. /\ \A i, j \in Id : docs[i] # NoDoc /\ docs[j] # NoDoc /\ docs[i].uuid = docs[j].uuid => i = j
      /\ \A i \in Id : docs[i] # NoDoc => docs[i].uuid \in issued
  BY DEF IdentityInv, UuidUnique, Abstract!UuidUnique, Abstract!Present, UuidsIn
<1>1. /\ \A i, j \in Id : docs'[i] # NoDoc /\ docs'[j] # NoDoc /\ docs'[i].uuid = docs'[j].uuid => i = j
      /\ \A i \in Id : docs'[i] # NoDoc => docs'[i].uuid \in issued'
  <2>1. CASE \E i \in Id : Abstract!Create(i)
    BY <1>0, <2>1 DEF Abstract!Create, Abstract!Present, Abstract!OnlyChanged
  <2>2. CASE \E i \in Id : Abstract!Replace(i)
    BY <1>0, <2>2 DEF Abstract!Replace, Abstract!Supersedes, Abstract!Present, Abstract!OnlyChanged
  <2>3. CASE \E i \in Id : Abstract!Remove(i)
    BY <1>0, <2>3 DEF Abstract!Remove, Abstract!Present, Abstract!OnlyChanged
  <2>4. CASE \E i, j \in Id : Abstract!Rename(i, j)
    BY <1>0, <2>4 DEF Abstract!Rename, Abstract!Supersedes, Abstract!Present, Abstract!OnlyChanged
  <2> QED
    BY <2>1, <2>2, <2>3, <2>4 DEF Abstract!Next
<1> QED
  BY <1>1 DEF UuidUnique, Abstract!UuidUnique, Abstract!Present, UuidsIn

(* A version of a document is only followed by later ones.                  *)
LEMMA StoreStepAdvances ==
    ASSUME TypeOK, TypeOK', IdentityInv, Abstract!Next, NEW j \in Id, docs'[j] # NoDoc,
           docs'[j].uuid \in issued
    PROVE  \E i \in Id : /\ docs[i] # NoDoc /\ docs[i].uuid = docs'[j].uuid
                         /\ docs'[j].lastModifiedAt >= docs[i].lastModifiedAt
<1>1. docs'[j] # docs[j] \/ (docs[j] # NoDoc /\ docs'[j].lastModifiedAt >= docs[j].lastModifiedAt)
  BY DEF TypeOK, Store, Doc
<1>2. CASE docs'[j] # docs[j]
  <2>1. PICK i \in Id : docs[i] # NoDoc /\ docs[i].uuid = docs'[j].uuid
                        /\ docs'[j].lastModifiedAt > docs[i].lastModifiedAt
    BY <1>2 DEF Abstract!Next, Abstract!Create, Abstract!Replace, Abstract!Remove, Abstract!Rename,
                Abstract!Supersedes, Abstract!Present, Abstract!OnlyChanged
  <2>2. docs'[j].lastModifiedAt \in Nat /\ docs[i].lastModifiedAt \in Nat
    BY <2>1 DEF TypeOK, Store, Doc
  <2> QED
    BY <2>1, <2>2
<1> QED
  BY <1>1, <1>2

(* The only documentUuid a commit can add is the one its attempt generated. *)
LEMMA PublishedNewUuid ==
    ASSUME TypeOK, LockInv, IdentityInv, NEW r \in Request, PublishedBy(r)
    PROVE  /\ \A k \in Id : docs'[k] # NoDoc => docs'[k].uuid \in issued \cup {<<r, attempt[r]>>}
           /\ issued \subseteq issued'
           /\ issued' \subseteq issued \cup {<<r, attempt[r]>>}
<1>0. /\ pc[r] = "commit" /\ req[r].id \in Id
      /\ \A i \in Id : docs'[i] = IF i \in wrote[r] THEN view[r][i] ELSE docs[i]
      /\ \A i \in Id : docs[i] # NoDoc => docs[i].uuid \in issued
  BY CallTypes, PublishedDocs DEF PublishedBy, IdentityInv, UuidsIn, TypeOK
<1>1. Inserts(r) \/ Overwrites(r) \/ Updates(r) \/ Deletes(r)
  BY <1>0 DEF IdentityInv, CallInv, EffectOf
<1>2. \A k \in Id : docs'[k] # NoDoc => docs'[k].uuid \in issued \cup {<<r, attempt[r]>>}
  <2>1. CASE Inserts(r)
    BY <1>0, <2>1 DEF Inserts
  <2>2. CASE Overwrites(r)
    BY <1>0, <2>2 DEF Overwrites, NewerVersion
  <2>3. CASE Updates(r)
    <3>1. PICK old \in Id : /\ wrote[r] = {old, req[r].id} /\ docs[old] # NoDoc
                            /\ view[r][req[r].id].uuid = docs[old].uuid
                            /\ old # req[r].id => view[r][old] = NoDoc
      BY <2>3 DEF Updates, NewerVersion
    <3>2. docs[old].uuid \in issued
      BY <1>0, <3>1
    <3>3. ASSUME NEW k \in Id, docs'[k] # NoDoc
          PROVE  docs'[k].uuid \in issued \cup {<<r, attempt[r]>>}
      <4>1. docs'[k] = IF k \in {old, req[r].id} THEN view[r][k] ELSE docs[k]
        BY <1>0, <3>1
      <4>2. CASE k = req[r].id
        BY <3>1, <3>2, <4>1, <4>2
      <4>3. CASE k # req[r].id
        BY <1>0, <3>1, <3>3, <4>1, <4>3
      <4> QED
        BY <4>2, <4>3
    <3> QED
      BY <3>3
  <2>4. CASE Deletes(r)
    BY <1>0, <2>4 DEF Deletes
  <2> QED
    BY <1>1, <2>1, <2>2, <2>3, <2>4
<1>3. issued' = issued \cup {docs'[i].uuid : i \in {j \in Id : docs'[j] # NoDoc}}
  BY DEF PublishedBy, Publish, UuidsIn
<1> QED
  BY <1>2, <1>3

(* What the answer of a committed transaction says has happened.            *)
AnswerOf(r) ==
    LET before == docs[req[r].id]
        after == docs'[req[r].id]
    IN  \/ result[r] = "INSERT_SUCCESS" /\ before = NoDoc /\ after = draft[r]
        \/ /\ result[r] = "UPDATE_SUCCESS" /\ req[r].op = "upsert"
           /\ before # NoDoc /\ after = draft[r]
        \/ /\ result[r] = "UPDATE_SUCCESS" /\ req[r].op = "update"
           /\ after # NoDoc /\ after.uuid = target[r]
           /\ after.lastModifiedAt = req[r].ts
           /\ target[r] \in UuidsIn(docs)
        \/ /\ result[r] = "DELETE_SUCCESS"
           /\ UuidsIn(docs') = UuidsIn(docs) \ {target[r]}

LEMMA PublishedAnswer ==
    ASSUME TypeOK, LockInv, IdentityInv, NEW r \in Request, PublishedBy(r)
    PROVE  /\ AnswerOf(r)
           /\ req[r].op # "upsert" => NothingLeftToDo(r, docs')
<1>0. /\ pc[r] = "commit" /\ req[r].id \in Id /\ req[r].ts \in Nat
      /\ \A i \in Id : docs'[i] = IF i \in wrote[r] THEN view[r][i] ELSE docs[i]
      /\ \A i, j \in Id : docs[i] # NoDoc /\ docs[j] # NoDoc /\ docs[i].uuid = docs[j].uuid => i = j
      /\ \A i, j \in Id : docs'[i] # NoDoc /\ docs'[j] # NoDoc /\ docs'[i].uuid = docs'[j].uuid => i = j
  BY CallTypes, PublishedDocs, PublishedIsStoreStep, StoreStepKeepsUuids
  DEF PublishedBy, IdentityInv, UuidUnique, Abstract!UuidUnique, Abstract!Present
<1>1. CASE Inserts(r) \/ Overwrites(r)
  BY <1>0, <1>1 DEF Inserts, Overwrites, AnswerOf
<1>2. CASE Updates(r)
  <2>1. AnswerOf(r)
    <3>1. PICK old \in Id : docs[old] # NoDoc /\ docs[old].uuid = view[r][req[r].id].uuid
      BY <1>2 DEF Updates, NewerVersion
    <3>2. target[r] \in UuidsIn(docs)
      BY <1>2, <3>1 DEF Updates, UuidsIn
    <3> QED
      BY <1>0, <1>2, <3>2 DEF Updates, AnswerOf
  <2>2. docs'[req[r].id] # NoDoc /\ docs'[req[r].id].uuid = target[r]
        /\ docs'[req[r].id].lastModifiedAt = req[r].ts /\ req[r].op = "update"
    BY <1>0, <1>2 DEF Updates
  <2>3. NothingLeftToDo(r, docs')
    BY <1>0, <2>2 DEF NothingLeftToDo
  <2> QED
    BY <2>1, <2>3
<1>3. CASE Deletes(r)
  <2>1. PICK i \in Id : wrote[r] = {i} /\ view[r][i] = NoDoc
                       /\ docs[i] # NoDoc /\ docs[i].uuid = target[r]
    BY <1>3 DEF Deletes
  <2>2. docs'[i] = NoDoc /\ \A j \in Id \ {i} : docs'[j] = docs[j]
    BY <1>0, <2>1
  <2>3. \A j \in Id : docs'[j] # NoDoc => docs'[j].uuid # target[r]
    BY <1>0, <2>1, <2>2
  <2>4. ASSUME NEW u PROVE u \in UuidsIn(docs') <=> u \in UuidsIn(docs) \ {target[r]}
    BY <2>1, <2>2, <2>3 DEF UuidsIn
  <2>5. UuidsIn(docs') = UuidsIn(docs) \ {target[r]}
    BY <2>4
  <2> QED
    BY <1>3, <2>3, <2>5 DEF Deletes, AnswerOf, NothingLeftToDo
<1> QED
  BY <1>0, <1>1, <1>2, <1>3 DEF IdentityInv, CallInv, EffectOf

(* The transaction is committed and the attempt over.                       *)
CommitsCall(r) ==
    /\ PublishedBy(r) /\ EndsAttempt(r)
    /\ applied'[r] = applied[r] + 1
    /\ \A s \in Request \ {r} : /\ attempt'[s] = attempt[s] /\ applied'[s] = applied[s]
                                /\ result'[s] = result[s]

LEMMA CommitCommitsCall ==
    ASSUME TypeOK, NEW r \in Request,
           \/ Commit(r)
           \/ CommitLost(r) /\ ~Throw(r, "UNKNOWN_FAILURE")
           \/ Crash(r) /\ ~(Close(r) /\ UNCHANGED <<docs, historyVars>>)
    PROVE  CommitsCall(r)
<1>1. PublishedBy(r)
  BY CommitPublishes
<1> QED
  BY <1>1 DEF TypeOK, Commit, CommitLost, Crash, RetryOrAnswer, Publish, PublishedBy, EndsAttempt,
              CommitsCall, callVars

LEMMA CommitsCallIdentity ==
    ASSUME TypeOK, TypeOK', LockInv, IdentityInv, NEW r \in Request, CommitsCall(r)
    PROVE  IdentityInv'
<1>0. PublishedBy(r) /\ Over(r) /\ pc[r] = "commit" /\ req' = req /\ target' = target
  BY DEF CommitsCall, PublishedBy, callVars
<1>1. UuidUnique' /\ UuidsIn(docs)' \subseteq issued'
  BY <1>0, PublishedIsStoreStep, StoreStepKeepsUuids
<1>2. /\ \A k \in Id : docs'[k] # NoDoc => docs'[k].uuid \in issued \cup {<<r, attempt[r]>>}
      /\ issued \subseteq issued' /\ issued' \subseteq issued \cup {<<r, attempt[r]>>}
  BY <1>0, PublishedNewUuid
<1>3. CallInv(r)'
  <2>1. Generated(r)'
    <3>1. attempt[r] \in Nat
      BY DEF TypeOK
    <3> QED
      BY <1>0, <1>2, <3>1 DEF IdentityInv, CallInv, Generated, CommitsCall, EndsAttempt
  <2>2. DraftOf(r)' /\ ReinsertOf(r)' /\ EffectOf(r)'
    BY <1>0 DEF DraftOf, ReinsertOf, EffectOf, Reinserting, Over
  <2>3. AppliedOf(r)'
    <3>1. req[r].op # "upsert" => applied[r] = 0 /\ NothingLeftToDo(r, docs')
      BY <1>0, PublishedAnswer DEF IdentityInv, CallInv, AppliedOf
    <3>2. NothingLeftToDo(r, docs') => NothingLeftToDo(r, docs)'
      BY <1>0 DEF NothingLeftToDo
    <3> QED
      BY <1>0, <3>1, <3>2 DEF AppliedOf, CommitsCall, Over, Opened, Reinserting
  <2> QED
    BY <2>1, <2>2, <2>3 DEF CallInv
<1>4. ASSUME NEW s \in Request \ {r} PROVE CallInv(s)'
  <2>1. /\ pc'[s] = pc[s] /\ view'[s] = view[s] /\ wrote'[s] = wrote[s]
        /\ draft'[s] = draft[s] /\ Opened(s)' = Opened(s)
        /\ attempt'[s] = attempt[s] /\ applied'[s] = applied[s] /\ result'[s] = result[s]
    BY <1>0, <1>4, PublishedToOthers DEF CommitsCall
  <2>2. \A i \in wrote[s] : docs'[i] = docs[i] /\ i \in Id
    BY <1>0, <1>4, PublishedDocs DEF LockInv, LocksExclude, TypeOK
  <2>3. CallInv(s)
    BY DEF IdentityInv
  <2>4. Generated(s)'
    BY <1>0, <1>2, <2>1, <2>3 DEF CallInv, Generated
  <2>5. DraftOf(s)'
    BY <1>0, <2>1, <2>3 DEF CallInv, DraftOf, NewerVersion
  <2>6. ReinsertOf(s)'
    BY <1>0, <2>1, <2>2, <2>3 DEF CallInv, ReinsertOf, NewerVersion
  <2>7. EffectOf(s)'
    <3>1. Inserts(s) => Inserts(s)'
      BY <1>0, <2>1, <2>2 DEF Inserts
    <3>2. Overwrites(s) => Overwrites(s)'
      BY <1>0, <2>1, <2>2 DEF Overwrites, NewerVersion
    <3>3. Updates(s) => Updates(s)'
      BY <1>0, <2>1, <2>2 DEF Updates, NewerVersion
    <3>4. Deletes(s) => Deletes(s)'
      BY <1>0, <2>1, <2>2 DEF Deletes
    <3> QED
      BY <2>1, <2>3, <3>1, <3>2, <3>3, <3>4 DEF CallInv, EffectOf
  <2>8. AppliedOf(s)'
    <3>1. ASSUME NothingLeftToDo(s, docs), s \in Request PROVE NothingLeftToDo(s, docs)'
      <4>1. ASSUME NEW j \in Id, docs'[j] # NoDoc, docs'[j].uuid = target[s]
            PROVE  req[s].op = "update" /\ docs'[j].lastModifiedAt >= req[s].ts
        <5>1. docs'[j].uuid \in issued
          <6>1. NoUuid # <<r, attempt[r]>>
            BY NoUuidAssumption DEF TypeOK
          <6> QED
            BY <1>0, <1>2, <2>3, <4>1, <6>1, NoUuidAssumption
            DEF CallInv, Generated, IdentityInv, EffectOf
        <5>2. PICK i \in Id : docs[i] # NoDoc /\ docs[i].uuid = docs'[j].uuid
                              /\ docs'[j].lastModifiedAt >= docs[i].lastModifiedAt
          BY <1>0, <4>1, <5>1, PublishedIsStoreStep, StoreStepAdvances
        <5>3. req[s].op = "update" /\ docs[i].lastModifiedAt >= req[s].ts
          BY <3>1, <4>1, <5>2 DEF NothingLeftToDo
        <5>4. docs[i].lastModifiedAt \in Nat /\ docs'[j].lastModifiedAt \in Nat
              /\ req[s].ts \in Nat
          <6>1. req[s] \in Call \/ req[s] = NoCall
            BY InputAssumption DEF TypeOK
          <6> QED
            BY <4>1, <5>2, <6>1 DEF TypeOK, Store, Doc, Call, NoCall
        <5> QED
          BY <5>2, <5>3, <5>4
      <4> QED
        BY <1>0, <4>1 DEF NothingLeftToDo
    <3>2. NothingLeftToDo(s, view[s]) => NothingLeftToDo(s, view[s])'
      BY <1>0, <2>1 DEF NothingLeftToDo
    <3> QED
      BY <1>0, <1>4, <2>1, <2>3, <3>1, <3>2 DEF CallInv, AppliedOf
  <2> QED
    BY <2>4, <2>5, <2>6, <2>7, <2>8 DEF CallInv
<1> QED
  BY <1>1, <1>3, <1>4 DEF IdentityInv

-----------------------------------------------------------------------------
LEMMA StepIdentity ==
    ASSUME TypeOK, LockInv, IdentityInv, NEW r \in Request, Receive(r) \/ Step(r) \/ Crash(r)
    PROVE  IdentityInv'
<1>0. TypeOK'
  BY StepType
<1>1. CASE Commit(r)
  BY <1>0, <1>1, CommitCommitsCall, CommitsCallIdentity
<1>2. CASE CommitLost(r)
  <2>1. pc[r] \notin {"idle", "done"}
    BY <1>2 DEF CommitLost
  <2> QED
    BY <1>0, <1>2, <2>1, CommitCommitsCall, CommitsCallIdentity, ThrowWithdraws, WithdrawsInv
<1>3. CASE Crash(r)
  BY <1>0, <1>3, CommitCommitsCall, CommitsCallIdentity, CrashWithdraws, WithdrawsInv
<1>4. CASE RefuseUpdate(r)
  <2>1. pc[r] \notin {"idle", "done"}
    BY <1>4 DEF RefuseUpdate
  <2> QED
    BY <1>4, <2>1, RefuseWithdraws, WithdrawsInv DEF RefuseUpdate
<1> QED
  BY <1>1, <1>2, <1>3, <1>4, ReceiveIdentity, BeginIdentity, LookupIdentity,
     LockDocumentsIdentity, UpsertDocumentIdentity, ReplaceDocumentIdentity,
     RemoveForReinsertIdentity, RemoveDocumentIdentity DEF Step

LEMMA InitIdentity == Init => IdentityInv
<1> SUFFICES ASSUME Init PROVE IdentityInv
  OBVIOUS
<1>1. \A i \in Id : docs[i] # NoDoc => docs[i].uuid = <<i, 0>>
  BY SeedAssumption DEF Init
<1>2. UuidUnique
  BY <1>1 DEF UuidUnique, Abstract!UuidUnique, Abstract!Present
<1>3. \A u \in issued : \E i \in Id : u = <<i, 0>>
  BY <1>1 DEF Init, UuidsIn
<1>4. ASSUME NEW r \in Request PROVE CallInv(r)
  <2>1. Generated(r)
    BY <1>3, NamesAssumption DEF Init, Generated
  <2>2. DraftOf(r) /\ ReinsertOf(r) /\ EffectOf(r) /\ AppliedOf(r)
    BY DEF Init, DraftOf, ReinsertOf, EffectOf, AppliedOf, Reinserting
  <2> QED
    BY <2>1, <2>2 DEF CallInv
<1> QED
  BY <1>2, <1>4 DEF IdentityInv, Init

LEMMA StutterIdentity == IdentityInv /\ UNCHANGED vars => IdentityInv'
<1> SUFFICES ASSUME IdentityInv, UNCHANGED vars PROVE IdentityInv'
  OBVIOUS
<1>1. /\ docs' = docs /\ issued' = issued
      /\ \A s \in Request : Bystander(s)
  BY DEF vars, callVars, txnVars, planVars, historyVars, Bystander, Untouched
<1>2. UuidUnique' /\ UuidsIn(docs)' \subseteq issued'
  BY <1>1 DEF IdentityInv, UuidUnique, Abstract!UuidUnique, Abstract!Present, UuidsIn
<1> QED
  BY <1>1, <1>2, BystanderInv DEF IdentityInv

(* What every call's draft and pending writes mean for the committed        *)
(* documents (documentUuid in upsertDocumentTransaction, the filters of     *)
(* tryUpdateByReplacement, deleteOne by documentUuid).                      *)
THEOREM IdentitiesKept == Spec => []IdentityInv
<1>1. TypeOK /\ LockInv /\ IdentityInv /\ [Next]_vars => IdentityInv'
  BY StepIdentity, StutterIdentity DEF Next, Quiescent
<1> QED
  BY <1>1, InitIdentity, TypeCorrect, LocksProtect, PTL DEF Spec

(* Two documents never have one documentUuid.                               *)
THEOREM UuidsUnique == Spec => []UuidUnique
<1>1. IdentityInv => UuidUnique
  BY DEF IdentityInv
<1> QED
  BY <1>1, IdentitiesKept, PTL

(* A PUT or DELETE whose commit was answered with an error and that async-  *)
(* retry or withTransaction runs again is not applied a second time.        *)
THEOREM RetriesApplyOnce == Spec => []AppliedAtMostOnce
<1>1. TypeOK /\ IdentityInv => AppliedAtMostOnce
  BY DEF TypeOK, IdentityInv, CallInv, AppliedOf, AppliedAtMostOnce
<1> QED
  BY <1>1, TypeCorrect, IdentitiesKept, PTL

(* A step of MongoStore commits nothing, or one transaction.                *)
LEMMA StepCommitsOne ==
    ASSUME TypeOK, LockInv, IdentityInv, [Next]_vars
    PROVE  \/ UNCHANGED <<docs, issued, applied>>
           \/ \E r \in Request : CommitsCall(r)
<1>1. CASE UNCHANGED vars
  BY <1>1 DEF vars, historyVars
<1>2. ASSUME NEW r \in Request, Receive(r) \/ Step(r) \/ Crash(r)
      PROVE  UNCHANGED <<docs, issued, applied>> \/ CommitsCall(r)
  <2>1. CASE Commit(r) \/ CommitLost(r) \/ Crash(r)
    BY <2>1, CommitCommitsCall DEF CommitLost, Throw, historyVars
  <2>2. CASE ~(Commit(r) \/ CommitLost(r) \/ Crash(r))
    BY <1>2, <2>2 DEF Step, Receive, BeginUpsert, BeginUpdate, BeginDelete, LookupReferenced,
       LockDocuments, UpsertDocument, ReplaceDocument, RefuseUpdate, RemoveForReinsert,
       RemoveThenReinsert, RemoveDocument, WriteDocument, Refuse, Throw, historyVars
  <2> QED
    BY <2>1, <2>2
<1> QED
  BY <1>1, <1>2 DEF Next, Quiescent

(* The collection of committed documents behaves as the abstract store: no  *)
(* version replaces a newer one, a documentUuid and its createdAt last for  *)
(* life, and no deleted documentUuid comes back.                            *)
THEOREM ImplementsStore == Spec => ImplementsDocumentStore
<1>1. Init => Abstract!Init
  BY DEF Init, Abstract!Init, Abstract!StoredUuids, Abstract!Present, UuidsIn
<1>2. TypeOK /\ LockInv /\ IdentityInv /\ [Next]_vars => [Abstract!Next]_<<docs, issued>>
  BY StepCommitsOne, PublishedIsStoreStep DEF CommitsCall
<1> QED
  BY <1>1, <1>2, TypeCorrect, LocksProtect, IdentitiesKept, PTL
  DEF Spec, ImplementsDocumentStore, Abstract!Spec

(* Whenever a transaction is committed, the response its call has decided   *)
(* on says what it does to the documents.                                   *)
THEOREM AnswersAreTrue == Spec => AnswerTellsWhatHappened
<1>1. ASSUME TypeOK, LockInv, IdentityInv, [Next]_vars, NEW r \in Request, applied'[r] # applied[r]
      PROVE  AnswerOf(r)
  <2>1. CommitsCall(r)
    BY <1>1, StepCommitsOne DEF CommitsCall
  <2> QED
    BY <1>1, <2>1, PublishedAnswer DEF CommitsCall
<1>2. TypeOK /\ LockInv /\ IdentityInv /\ [Next]_vars =>
        [\A r \in Request : applied'[r] # applied[r] => AnswerOf(r)]_vars
  BY <1>1
<1> QED
  BY <1>2, TypeCorrect, LocksProtect, IdentitiesKept, PTL DEF Spec, AnswerTellsWhatHappened, AnswerOf

-----------------------------------------------------------------------------
(* References.                                                              *)
(* Some committed document refers to i, and its lookup saw what it refers   *)
(* to.                                                                      *)
GuardedReferenceTo(i) ==
    \E j \in Id : docs[j] # NoDoc /\ docs[j].guarded /\ docs[j].refs \cap Aliases(i) # {}

LEMMA ReferenceIsSeen ==
    ASSUME NEW i \in Id, GuardedReferenceTo(i)
    PROVE  Referenced(docs, i)
BY DEF GuardedReferenceTo, Referenced

LEMMA UntouchedReferences ==
    ASSUME NEW s \in Request, Untouched(s)
    PROVE  /\ \A i : Removing(s, i)' = Removing(s, i)
           /\ PlannedReferencesHeld(s) => PlannedReferencesHeld(s)'
           /\ DeleteChecked(s) => DeleteChecked(s)'
<1> USE DEF Untouched
<1>1. Opened(s)' = Opened(s) /\ \A i : Referenced(view[s], i)' = Referenced(view[s], i)
  BY DEF Opened, Referenced
<1>2. \A i : Removing(s, i)' = Removing(s, i)
  BY <1>1 DEF Removing
<1>3. \A a : /\ FoundOrOvertaken(s, a)' = FoundOrOvertaken(s, a)
             /\ HeldReference(s, a)' = HeldReference(s, a)
  BY DEF FoundOrOvertaken, HeldReference
<1>4. PlannedReferencesHeld(s) => PlannedReferencesHeld(s)'
  BY <1>3 DEF PlannedReferencesHeld
<1>5. DeleteChecked(s) => DeleteChecked(s)'
  BY <1>1 DEF DeleteChecked
<1> QED
  BY <1>2, <1>4, <1>5

(* A step of r that commits nothing keeps the references, unless it sets    *)
(* out to delete a document somebody refers to.                             *)
LEMMA OwnStepReferences ==
    ASSUME ReferenceInv, NEW r \in Request, \A s \in Request \ {r} : Untouched(s),
           docs' = docs,
           \A i \in Id : docs[i] # NoDoc /\ GuardedReferenceTo(i) /\ Removing(r, i)'
                            => Removing(r, i),
           PlannedReferencesHeld(r)', DeleteChecked(r)'
    PROVE  ReferenceInv'
<1>1. ASSUME NEW j \in Id, docs[j] # NoDoc, docs[j].guarded, NEW a \in docs[j].refs
      PROVE  \E i \in Id : Kept(a, i)'
  <2>1. PICK i \in Id : Kept(a, i)
    BY <1>1 DEF ReferenceInv, CommittedReferencesKept
  <2>2. GuardedReferenceTo(i) /\ docs[i] # NoDoc
    BY <1>1, <2>1 DEF GuardedReferenceTo, Kept
  <2>3. \A s \in Request : ~Removing(s, i)'
    BY <2>1, <2>2, UntouchedReferences DEF Kept
  <2> QED
    BY <2>1, <2>3 DEF Kept
<1>2. CommittedReferencesKept'
  BY <1>1 DEF CommittedReferencesKept
<1>3. \A s \in Request : PlannedReferencesHeld(s)' /\ DeleteChecked(s)'
  BY UntouchedReferences DEF ReferenceInv
<1> QED
  BY <1>2, <1>3 DEF ReferenceInv

LEMMA OverReferences ==
    ASSUME NEW r \in Request, Over(r)
    PROVE  /\ \A i : ~Removing(r, i)'
           /\ PlannedReferencesHeld(r)' /\ DeleteChecked(r)'
<1>1. \A i : ~Removing(r, i)'
  BY DEF Over, Removing
<1>2. PlannedReferencesHeld(r)'
  BY DEF Over, PlannedReferencesHeld, NoDraft
<1>3. DeleteChecked(r)'
  BY DEF Over, DeleteChecked
<1> QED
  BY <1>1, <1>2, <1>3

LEMMA AbortedReferences ==
    ASSUME ReferenceInv, NEW r \in Request, Aborted(r)
    PROVE  ReferenceInv'
BY OverReferences, OwnStepReferences DEF Aborted

LEMMA ReceiveReferences ==
    ASSUME TypeOK, LockInv, ReferenceInv, NEW r \in Request, Receive(r)
    PROVE  ReferenceInv'
<1>1. Aborted(r)
  BY DEF Receive, LockInv, TransactionInv, HeldAt, Opened, Locked, Aborted, Over,
         Untouched, TypeOK, txnVars, planVars
<1> QED
  BY <1>1, AbortedReferences

LEMMA BeginReferences ==
    ASSUME TypeOK, LockInv, ReferenceInv, NEW r \in Request,
           BeginUpsert(r) \/ BeginUpdate(r) \/ BeginDelete(r)
    PROVE  ReferenceInv'
<1>1. CASE Aborted(r)
  BY <1>1, AbortedReferences
<1>2. CASE ~Aborted(r)
  <2>1. /\ \A s \in Request \ {r} : Untouched(s)
        /\ docs' = docs /\ wrote'[r] = {} /\ pc'[r] \in {"lookup", "lock"}
        /\ Opened(r)' => view'[r] = docs
        /\ pc'[r] = "lock" => draft'[r] = NoDraft
    <3>1. pc[r] = "begin"
      BY DEF BeginUpsert, BeginUpdate, BeginDelete
    <3> QED
      BY <1>2, <3>1, BeginFrame
  <2>2. \A i \in Id : GuardedReferenceTo(i) => ~Removing(r, i)'
    <3>1. Opened(r)' => \A i \in Id : Referenced(docs, i) => Referenced(view[r], i)'
      BY <2>1 DEF Referenced
    <3> QED
      BY <2>1, <3>1, ReferenceIsSeen DEF Removing
  <2>3. PlannedReferencesHeld(r)'
    BY <2>1 DEF PlannedReferencesHeld, Locked, NoDraft
  <2>4. DeleteChecked(r)'
    <3>1. CASE pc'[r] = "lookup"
      BY <3>1 DEF DeleteChecked
    <3>2. CASE pc'[r] = "lock" /\ ~BeginDelete(r)
      BY <1>2, <3>2, RefuseAborts DEF BeginUpsert, BeginUpdate, TypeOK
    <3>3. CASE BeginDelete(r) /\ req'[r].validate
      <4>1. DeleteRefusal(r) = "NONE" /\ req' = req /\ target' = target
        BY <1>2, <3>3, RefuseAborts DEF BeginDelete, callVars
      <4>2. view'[r] = docs
        BY <2>1, <3>3, <4>1, <1>2, RefuseAborts DEF BeginDelete, Opened, TypeOK, callVars
      <4>3. \A i \in AtTarget(r, docs) : ~Referenced(docs, i)
        BY <3>3, <4>1 DEF DeleteRefusal
      <4>4. \A i \in Id : Referenced(docs, i) = Referenced(view[r], i)'
        BY <4>2 DEF Referenced
      <4> QED
        BY <4>1, <4>2, <4>3, <4>4 DEF DeleteChecked, AtTarget
    <3> QED
      BY <2>1, <3>1, <3>2, <3>3 DEF DeleteChecked
  <2> QED
    BY <2>1, <2>2, <2>3, <2>4, OwnStepReferences
<1> QED
  BY <1>1, <1>2

LEMMA LookupReferences ==
    ASSUME TypeOK, LockInv, ReferenceInv, NEW r \in Request, LookupReferenced(r)
    PROVE  ReferenceInv'
<1>1. /\ \A s \in Request \ {r} : Untouched(s)
      /\ UNCHANGED <<docs, req, target, view, wrote, locks, overtakenLocks>>
      /\ Opened(r)' = Opened(r)
      /\ \/ pc[r] = "lookup" /\ pc'[r] = "lock"
         \/ pc[r] = "relookup" /\ pc'[r] = "relock"
  BY LookupFrame
<1>2. \A i \in Id : Removing(r, i)' => Removing(r, i)
  <2>1. \A i \in Id : Referenced(view[r], i)' = Referenced(view[r], i)
    BY <1>1 DEF Referenced
  <2> QED
    BY <1>1, <2>1 DEF Removing
<1>3. PlannedReferencesHeld(r)'
  <2>1. CASE pc[r] = "lookup"
    <3> SUFFICES ASSUME draft'[r].guarded, NEW a \in draft'[r].refs
                 PROVE  FoundOrOvertaken(r, a)'
      BY <1>1, <2>1 DEF PlannedReferencesHeld, Locked
    <3>1. a \in draft[r].refs /\ Resolves(docs, draft[r].refs)
      BY <2>1, LookupFrame
    <3>2. PICK i \in Id : docs[i] # NoDoc /\ a \in Aliases(i)
      BY <3>1 DEF Resolves
    <3>3. docs[i].uuid \in found'[r]
      BY <3>1, <3>2, LookupFrame DEF WithAlias
    <3> QED
      BY <1>1, <3>2, <3>3 DEF FoundOrOvertaken
  <2>2. CASE pc[r] = "relookup"
    <3>1. draft'[r] = draft[r]
      BY <2>2, LookupFrame
    <3>2. \A a : HeldReference(r, a)' = HeldReference(r, a)
      BY <1>1 DEF HeldReference
    <3> QED
      BY <1>1, <2>2, <3>1, <3>2 DEF ReferenceInv, PlannedReferencesHeld, Locked
  <2> QED
    BY <1>1, <2>1, <2>2
<1>4. DeleteChecked(r)'
  <2>1. pc[r] = "lookup" => req[r].op # "delete"
    BY DEF LockInv, TransactionInv, PlanOf
  <2> QED
    BY <1>1, <2>1 DEF DeleteChecked
<1> QED
  BY <1>1, <1>2, <1>3, <1>4, OwnStepReferences

(* Every document the lookup found is locked, or a later version or the     *)
(* deletion of one of them is a conflict.                                   *)
LEMMA LockDocumentsReferences ==
    ASSUME TypeOK, LockInv, ReferenceInv, NEW r \in Request, LockDocuments(r)
    PROVE  ReferenceInv'
<1>1. CASE Aborted(r)
  BY <1>1, AbortedReferences
<1>2. CASE ~Aborted(r)
  <2>1. /\ \A s \in Request \ {r} : Untouched(s)
        /\ UNCHANGED <<docs, req, target, wrote, overtakenLocks, found, own, draft>>
        /\ ~LockConflict(r, RowsToLock(r)) /\ own[r] \notin found[r]
        /\ locks'[r] = locks[r] \cup RowsToLock(r)
        /\ view'[r] = IF Opened(r) THEN view[r] ELSE docs
        /\ \/ pc[r] = "lock" /\ pc'[r] = "write"
           \/ pc[r] = "relock" /\ pc'[r] = "rewrite"
    BY <1>2, LockFrame
  <2>2. \A i \in Id : GuardedReferenceTo(i) /\ Removing(r, i)' => Removing(r, i)
    <3>1. CASE Opened(r)
      <4>1. \A i \in Id : Referenced(view[r], i)' = Referenced(view[r], i)
        BY <2>1, <3>1 DEF Referenced
      <4> QED
        BY <2>1, <3>1, <4>1 DEF Removing
    <3>2. CASE ~Opened(r)
      <4>1. \A i \in Id : Referenced(docs, i) => Referenced(view[r], i)'
        BY <2>1, <3>2 DEF Referenced
      <4>2. wrote'[r] = {}
        BY <2>1, <3>2 DEF Opened, LockInv, TransactionInv, HeldAt, Locked
      <4> QED
        BY <4>1, <4>2, ReferenceIsSeen DEF Removing
    <3> QED
      BY <3>1, <3>2
  <2>3. PlannedReferencesHeld(r)'
    <3> SUFFICES ASSUME draft[r].guarded, NEW a \in draft[r].refs
                 PROVE  HeldReference(r, a)'
      BY <2>1 DEF PlannedReferencesHeld
    <3>1. CASE pc[r] = "lock"
      <4>1. FoundOrOvertaken(r, a)
        BY <3>1 DEF ReferenceInv, PlannedReferencesHeld
      <4>2. found[r] \cap overtakenLocks[r] = {}
        BY <2>1 DEF LockConflict, RowsToLock
      <4>3. PICK i \in Id : docs[i] # NoDoc /\ a \in Aliases(i) /\ docs[i].uuid \in found[r]
        BY <4>1, <4>2 DEF FoundOrOvertaken
      <4>4. req[r].op = "update" => own[r] = target[r]
        BY <3>1 DEF LockInv, TransactionInv, PlanOf
      <4> QED
        BY <2>1, <4>3, <4>4 DEF HeldReference, RowsToLock
    <3>2. CASE pc[r] = "relock"
      <4>1. HeldReference(r, a)
        BY <3>2 DEF ReferenceInv, PlannedReferencesHeld, Locked
      <4> QED
        BY <2>1, <4>1 DEF HeldReference
    <3> QED
      BY <2>1, <3>1, <3>2
  <2>4. DeleteChecked(r)'
    <3>1. CASE req[r].op = "delete" /\ req[r].validate /\ pc[r] = "lock"
      <4>1. view'[r] = view[r]
        BY <2>1, <3>1 DEF Opened
      <4>2. \A i \in Id : Referenced(view[r], i)' = Referenced(view[r], i)
        BY <4>1 DEF Referenced
      <4> QED
        BY <2>1, <3>1, <4>1, <4>2 DEF ReferenceInv, DeleteChecked
    <3> QED
      BY <2>1, <3>1 DEF DeleteChecked
  <2> QED
    BY <2>1, <2>2, <2>3, <2>4, OwnStepReferences
<1> QED
  BY <1>1, <1>2

(* A write keeps the references unless it removes a document that r was not *)
(* already removing.                                                        *)
LEMMA WritesReferences ==
    ASSUME TypeOK, ReferenceInv, NEW r \in Request, NEW i, NEW d, Writes(r, i, d),
           d = NoDoc => /\ wrote[r] = {}
                        /\ docs[i] # NoDoc => Removing(r, i)
    PROVE  ReferenceInv'
<1>1. /\ \A s \in Request \ {r} : Untouched(s)
      /\ UNCHANGED <<docs, req, target, locks>>
      /\ wrote'[r] = wrote[r] \cup {i} /\ i \in Id /\ wrote[r] \subseteq Id
      /\ \A j \in Id : view'[r][j] = IF j = i THEN d ELSE view[r][j]
      /\ draft'[r].refs = draft[r].refs /\ draft'[r].guarded = draft[r].guarded
      /\ pc[r] \in Locked /\ pc'[r] \in Locked
      /\ pc'[r] \notin {"lookup", "lock", "write"}
  BY DEF Writes, Locked, TypeOK
<1>2. \A j \in Id : docs[j] # NoDoc /\ Removing(r, j)' => Removing(r, j)
  BY <1>1 DEF Removing
<1>3. PlannedReferencesHeld(r)'
  <2>1. \A a : HeldReference(r, a)' = HeldReference(r, a)
    BY <1>1 DEF HeldReference
  <2> QED
    BY <1>1, <2>1 DEF ReferenceInv, PlannedReferencesHeld
<1>4. DeleteChecked(r)'
  BY <1>1 DEF DeleteChecked
<1> QED
  BY <1>1, <1>2, <1>3, <1>4, OwnStepReferences

LEMMA UpsertDocumentReferences ==
    ASSUME TypeOK, ReferenceInv, NEW r \in Request, UpsertDocument(r)
    PROVE  ReferenceInv'
<1>1. CASE Aborted(r)
  BY <1>1, AbortedReferences
<1>2. CASE ~Aborted(r)
  <2>1. PICK response : WriteDocument(r, req[r].id, draft[r], response)
    BY <1>2, ThrowAborts DEF UpsertDocument
  <2>2. pc[r] \in {"write", "rewrite"} /\ req[r].id \in Id /\ draft[r] # NoDoc
    BY InputAssumption, NoDocAssumption DEF UpsertDocument, TypeOK, Call
  <2>3. Writes(r, req[r].id, draft[r])
    BY <2>1, <2>2, WriteFrame
  <2> QED
    BY <2>2, <2>3, WritesReferences
<1> QED
  BY <1>1, <1>2

LEMMA ReplaceDocumentReferences ==
    ASSUME TypeOK, ReferenceInv, NEW r \in Request, ReplaceDocument(r)
    PROVE  ReferenceInv'
<1> DEFINE i == req[r].id
           replaced == WithCreatedAt(draft[r], view[r][i].createdAt)
<1>1. CASE Aborted(r)
  BY <1>1, AbortedReferences
<1>2. CASE ~Aborted(r)
  <2>1. WriteDocument(r, i, replaced, "UPDATE_SUCCESS")
    BY <1>2, ThrowAborts DEF ReplaceDocument
  <2>2. pc[r] = "write" /\ i \in Id /\ draft[r] \in Doc /\ view[r][i].createdAt \in Nat
    BY InputAssumption DEF ReplaceDocument, Replaceable, TypeOK, Call, Store, Doc
  <2>3. replaced # NoDoc
    BY <2>2, EditedDocument, NoDocAssumption
  <2> HIDE DEF i, replaced
  <2>4. Writes(r, i, replaced)
    BY <2>1, <2>2, WriteFrame
  <2> QED
    BY <2>3, <2>4, WritesReferences
<1> QED
  BY <1>1, <1>2

(* What r removes it saw with no reference to it, under a lock it took      *)
(* before anybody else could commit one.                                    *)
LEMMA RemovedWasRemoving ==
    ASSUME LockInv, NEW r \in Request, NEW i \in AtTarget(r, view[r]),
           pc[r] = "write", req[r].op \in {"update", "delete"},
           ~DocConflict(r, i), ~Referenced(view[r], i)
    PROVE  wrote[r] = {} /\ Removing(r, i)
<1>1. Opened(r) /\ TransactionInv(r)
  BY DEF Opened, LockInv
<1>2. wrote[r] = {} /\ target[r] \in locks[r]
  BY <1>1 DEF TransactionInv, HeldAt, PlanOf
<1>3. target[r] \notin overtakenLocks[r]
  BY <1>2 DEF LockInv, LocksExclude
<1>4. docs[i] = view[r][i] /\ view[r][i].uuid = target[r]
  BY <1>1, <1>2 DEF TransactionInv, SnapshotCurrent, DocConflict, AtTarget
<1> QED
  BY <1>1, <1>2, <1>3, <1>4 DEF Removing

LEMMA RemoveForReinsertReferences ==
    ASSUME TypeOK, LockInv, ReferenceInv, NEW r \in Request, RemoveForReinsert(r)
    PROVE  ReferenceInv'
<1>1. CASE Aborted(r)
  BY <1>1, AbortedReferences
<1>2. CASE ~Aborted(r)
  <2>1. PICK old \in AtTarget(r, view[r]) :
              /\ ~DocConflict(r, old) /\ UpdateRefusal(r, old) = "NONE"
              /\ Writes(r, old, NoDoc) /\ pc[r] = "write" /\ req[r].op = "update"
    BY <1>2, ReinsertFrame
  <2>2. ~Referenced(view[r], old)
    BY <2>1 DEF UpdateRefusal
  <2> QED
    BY <2>1, <2>2, RemovedWasRemoving, WritesReferences
<1> QED
  BY <1>1, <1>2

LEMMA RemoveDocumentReferences ==
    ASSUME TypeOK, LockInv, ReferenceInv, ValidatedDeletes, NEW r \in Request,
           RemoveDocument(r)
    PROVE  ReferenceInv'
<1>1. CASE Aborted(r)
  BY <1>1, AbortedReferences
<1>2. CASE ~Aborted(r)
  <2>1. PICK i \in AtTarget(r, view[r]) :
           ~DocConflict(r, i) /\ WriteDocument(r, i, NoDoc, "DELETE_SUCCESS")
    BY <1>2, RefuseAborts, ThrowAborts DEF RemoveDocument
  <2>2. /\ pc[r] = "write" /\ req[r].op = "delete" /\ req[r].validate /\ i \in Id
        /\ view[r][i] # NoDoc /\ view[r][i].uuid = target[r]
    BY DEF RemoveDocument, TypeOK, ValidatedDeletes, AtTarget
  <2>3. ~Referenced(view[r], i)
    BY <2>2 DEF ReferenceInv, DeleteChecked
  <2>4. Writes(r, i, NoDoc)
    BY <2>1, <2>2, WriteFrame
  <2> QED
    BY <2>1, <2>2, <2>3, <2>4, RemovedWasRemoving, WritesReferences
<1> QED
  BY <1>1, <1>2

-----------------------------------------------------------------------------
(* A commit is the one step that changes the documents.                     *)

(* Another transaction removes after the commit of r what it was removing   *)
(* before, unless r locked it.                                              *)
LEMMA PublishedRemoving ==
    ASSUME TypeOK, LockInv, NEW r \in Request, PublishedBy(r),
           NEW s \in Request, NEW i \in Id, docs'[i] # NoDoc, Removing(s, i)'
    PROVE  /\ s # r /\ docs'[i].uuid \notin locks[r]
           /\ i \notin wrote[r] /\ docs'[i] = docs[i] /\ Removing(s, i)
<1>1. s # r
  BY OverReferences DEF PublishedBy
<1>2. /\ pc'[s] = pc[s] /\ req'[s] = req[s] /\ target'[s] = target[s]
      /\ view'[s] = view[s] /\ wrote'[s] = wrote[s] /\ Opened(s)' = Opened(s)
      /\ Opened(s) => overtakenLocks'[s] = overtakenLocks[s] \cup locks[r]
  BY <1>1, PublishedToOthers
<1>3. /\ docs'[i] = IF i \in wrote[r] THEN view[r][i] ELSE docs[i]
      /\ i \in wrote[r] => docs'[i].uuid \in locks[r]
  BY PublishedDocs DEF LockInv, TransactionInv, WritesLocked
<1>4. Referenced(view[s], i)' = Referenced(view[s], i)
  BY <1>2 DEF Referenced
<1>5. CASE i \in wrote[s] /\ view[s][i] = NoDoc
  <2>1. i \notin wrote[r] /\ docs'[i] = docs[i]
    BY <1>1, <1>3, <1>5 DEF LockInv, LocksExclude
  <2>2. docs'[i].uuid \in locks[s]
    BY <1>5, <2>1 DEF LockInv, TransactionInv, WritesLocked
  <2>3. docs'[i].uuid \notin locks[r]
    BY <1>1, <2>2 DEF LockInv, LocksExclude
  <2> QED
    BY <1>1, <1>5, <2>1, <2>3 DEF Removing
<1>6. CASE ~(i \in wrote[s] /\ view[s][i] = NoDoc)
  <2>1. /\ Opened(s) /\ pc[s] \in {"lookup", "lock", "write"}
        /\ req[s].op \in {"update", "delete"} /\ target[s] = docs'[i].uuid
        /\ target[s] \notin overtakenLocks[s] \cup locks[r]
        /\ ~Referenced(view[s], i)
    BY <1>2, <1>4, <1>6 DEF Removing
  <2> QED
    BY <1>1, <1>3, <2>1 DEF Removing
<1> QED
  BY <1>5, <1>6

LEMMA PublishedReferences ==
    ASSUME TypeOK, LockInv, ReferenceInv, NEW r \in Request, PublishedBy(r)
    PROVE  ReferenceInv'
<1>1. ASSUME NEW j \in Id, docs'[j] # NoDoc, docs'[j].guarded, NEW a \in docs'[j].refs
      PROVE  \E i \in Id : Kept(a, i)'
  <2>1. CASE j \notin wrote[r]
    <3>1. PICK i \in Id : Kept(a, i)
      BY <1>1, <2>1, PublishedDocs DEF ReferenceInv, CommittedReferencesKept
    <3>2. docs'[i] # NoDoc
      BY <3>1, PublishedDocs DEF Kept, Removing
    <3> QED
      BY <3>1, <3>2, PublishedRemoving DEF Kept
  <2>2. CASE j \in wrote[r]
    <3>1. draft[r].guarded /\ a \in draft[r].refs
      BY <1>1, <2>2, PublishedDocs DEF LockInv, TransactionInv, WritesLocked
    <3>2. pc[r] \in Locked
      BY DEF PublishedBy, Locked
    <3>3. PICK i \in Id : /\ docs[i] # NoDoc /\ a \in Aliases(i) /\ docs[i].uuid \in locks[r]
                          /\ req[r].op = "update" => docs[i].uuid # target[r]
      BY <3>1, <3>2 DEF ReferenceInv, PlannedReferencesHeld, HeldReference
    <3>4. req[r].op = "upsert" \/ req[r].op = "update"
      <4>1. req[r].op # "delete"
        BY <3>1 DEF LockInv, TransactionInv, PlanOf
      <4>2. req[r].op \in Op
        BY InputAssumption DEF PublishedBy, TypeOK, Call
      <4> QED
        BY <4>1, <4>2 DEF Op
    <3>5. i \in wrote[r] => view[r][i] # NoDoc /\ view[r][i].uuid \in locks[r]
      BY <3>3, <3>4 DEF LockInv, TransactionInv, WritesLocked
    <3>6. docs'[i] # NoDoc /\ docs'[i].uuid \in locks[r]
      BY <3>3, <3>5, PublishedDocs
    <3> QED
      BY <3>3, <3>6, PublishedRemoving DEF Kept
  <2> QED
    BY <2>1, <2>2
<1>2. CommittedReferencesKept'
  BY <1>1 DEF CommittedReferencesKept
<1>3. ASSUME NEW s \in Request PROVE PlannedReferencesHeld(s)' /\ DeleteChecked(s)'
  <2>1. CASE s = r
    BY <2>1, OverReferences DEF PublishedBy
  <2>2. CASE s # r
    <3>1. /\ pc'[s] = pc[s] /\ req'[s] = req[s] /\ target'[s] = target[s]
          /\ view'[s] = view[s] /\ locks'[s] = locks[s] /\ found'[s] = found[s]
          /\ draft'[s] = draft[s]
          /\ Opened(s) => overtakenLocks'[s] = overtakenLocks[s] \cup locks[r]
      BY <2>2, PublishedToOthers
    <3>2. DeleteChecked(s)'
      <4>1. \A i \in Id : Referenced(view[s], i)' = Referenced(view[s], i)
        BY <3>1 DEF Referenced
      <4> QED
        BY <3>1, <4>1 DEF ReferenceInv, DeleteChecked
    <3>3. ASSUME draft[s].guarded, NEW a \in draft[s].refs, pc[s] = "lock"
          PROVE  FoundOrOvertaken(s, a)'
      <4>1. FoundOrOvertaken(s, a)
        BY <3>3 DEF ReferenceInv, PlannedReferencesHeld
      <4>2. overtakenLocks'[s] = overtakenLocks[s] \cup locks[r]
        BY <3>1, <3>3 DEF LockInv, TransactionInv, PlanOf, Opened
      <4>3. CASE found[s] \cap overtakenLocks[s] # {}
        BY <3>1, <4>2, <4>3 DEF FoundOrOvertaken
      <4>4. ASSUME NEW i \in Id, docs[i] # NoDoc, a \in Aliases(i), docs[i].uuid \in found[s]
            PROVE  FoundOrOvertaken(s, a)'
        <5>1. CASE i \in wrote[r]
          <6>1. docs[i].uuid \in locks[r]
            BY <4>4, <5>1 DEF LockInv, TransactionInv, WritesLocked
          <6> QED
            BY <3>1, <4>2, <4>4, <6>1 DEF FoundOrOvertaken
        <5>2. CASE i \notin wrote[r]
          <6>1. docs'[i] = docs[i]
            BY <5>2, PublishedDocs
          <6> QED
            BY <3>1, <4>4, <6>1 DEF FoundOrOvertaken
        <5> QED
          BY <5>1, <5>2
      <4> QED
        BY <4>1, <4>3, <4>4 DEF FoundOrOvertaken
    <3>4. ASSUME draft[s].guarded, NEW a \in draft[s].refs, pc[s] \in Locked
          PROVE  HeldReference(s, a)'
      <4>1. PICK i \in Id : /\ docs[i] # NoDoc /\ a \in Aliases(i) /\ docs[i].uuid \in locks[s]
                            /\ req[s].op = "update" => docs[i].uuid # target[s]
        BY <3>4 DEF ReferenceInv, PlannedReferencesHeld, HeldReference
      <4>2. i \notin wrote[r]
        BY <2>2, <4>1 DEF LockInv, LocksExclude, TransactionInv, WritesLocked
      <4>3. docs'[i] = docs[i]
        BY <4>2, PublishedDocs
      <4> QED
        BY <3>1, <4>1, <4>3 DEF HeldReference
    <3>5. PlannedReferencesHeld(s)'
      BY <3>1, <3>3, <3>4 DEF PlannedReferencesHeld
    <3> QED
      BY <3>2, <3>5
  <2> QED
    BY <2>1, <2>2
<1> QED
  BY <1>2, <1>3 DEF ReferenceInv

-----------------------------------------------------------------------------
LEMMA StepReferences ==
    ASSUME TypeOK, LockInv, ReferenceInv, ValidatedDeletes, NEW r \in Request,
           Receive(r) \/ Step(r) \/ Crash(r)
    PROVE  ReferenceInv'
<1>1. CASE CommitLost(r)
  BY <1>1, CommitPublishes, PublishedReferences, ThrowAborts, AbortedReferences
<1>2. CASE Crash(r)
  BY <1>2, CommitPublishes, PublishedReferences, CrashAborts, AbortedReferences
<1>3. CASE RefuseUpdate(r)
  BY <1>3, RefuseAborts, AbortedReferences DEF RefuseUpdate
<1> QED
  BY <1>1, <1>2, <1>3, ReceiveReferences, BeginReferences, LookupReferences,
     LockDocumentsReferences, UpsertDocumentReferences, ReplaceDocumentReferences,
     RemoveForReinsertReferences, RemoveDocumentReferences, CommitPublishes,
     PublishedReferences DEF Step

LEMMA InitReferences == Init => ReferenceInv
<1> SUFFICES ASSUME Init PROVE ReferenceInv
  OBVIOUS
<1>1. ASSUME NEW j \in Id, docs[j] # NoDoc, docs[j].guarded, NEW a \in docs[j].refs
      PROVE  \E i \in Id : Kept(a, i)
  <2>1. Resolves(docs, docs[j].refs)
    BY <1>1, SeedAssumption DEF Init
  <2>2. \A s \in Request, i \in Id : ~Removing(s, i)
    BY DEF Init, Removing
  <2> QED
    BY <1>1, <2>1, <2>2 DEF Resolves, Kept
<1>2. ASSUME NEW r \in Request PROVE PlannedReferencesHeld(r) /\ DeleteChecked(r)
  BY DEF Init, PlannedReferencesHeld, DeleteChecked, NoDraft, NoCall
<1> QED
  BY <1>1, <1>2 DEF ReferenceInv, CommittedReferencesKept

(* The invariant of the locks and of the references (lockDocuments and the  *)
(* lookup before it): every step preserves it.                              *)
THEOREM Inductive == Spec => []InductiveInv
<1>1. Init => InductiveInv
  BY InitType, InitLockInv, InitIdentity, InitReferences DEF InductiveInv
<1>2. InductiveInv /\ [Next]_vars => InductiveInv'
  <2> SUFFICES ASSUME InductiveInv, [Next]_vars PROVE InductiveInv'
    OBVIOUS
  <2>1. CASE UNCHANGED vars
    <3>1. docs' = docs /\ \A s \in Request : Untouched(s)
      BY <2>1 DEF vars, callVars, txnVars, planVars, Untouched
    <3>2. TypeOK' /\ LocksExclude'
      BY <2>1 DEF vars, callVars, txnVars, planVars, historyVars, TypeOK,
                  InductiveInv, LockInv, LocksExclude
    <3>3. LockInv'
      BY <3>1, <3>2, UntouchedInv DEF InductiveInv, LockInv
    <3>4. ReferenceInv => ReferenceInv'
      <4> SUFFICES ASSUME ReferenceInv PROVE ReferenceInv'
        OBVIOUS
      <4>1. \A a, i : Kept(a, i) => Kept(a, i)'
        BY <3>1, UntouchedReferences DEF Kept
      <4>2. CommittedReferencesKept'
        BY <3>1, <4>1 DEF ReferenceInv, CommittedReferencesKept
      <4> QED
        BY <3>1, <4>2, UntouchedReferences DEF ReferenceInv
    <3>5. IdentityInv'
      BY <2>1, StutterIdentity DEF InductiveInv
    <3> QED
      BY <3>2, <3>3, <3>4, <3>5 DEF InductiveInv, ValidatedDeletes
  <2>2. CASE Next /\ ~UNCHANGED vars
    <3>1. PICK r \in Request : Receive(r) \/ Step(r) \/ Crash(r)
      BY <2>2 DEF Next, Quiescent
    <3>2. TypeOK' /\ LockInv'
      BY <3>1, StepType, StepLockInv DEF InductiveInv
    <3>3. ValidatedDeletes => ReferenceInv'
      BY <3>1, StepReferences DEF InductiveInv
    <3>4. IdentityInv'
      BY <3>1, StepIdentity DEF InductiveInv
    <3> QED
      BY <3>2, <3>3, <3>4 DEF InductiveInv, ValidatedDeletes
  <2> QED
    BY <2>1, <2>2
<1> QED
  BY <1>1, <1>2, PTL DEF Spec

(* A document whose references were all seen by the lookup of the documents *)
(* to lock never loses one of them, whatever POSTs, PUTs and DELETEs run    *)
(* beside it, fail, are tried again or end with their process.              *)
THEOREM GuardedReferencesSafe == Spec => []GuardedReferencesResolve
<1>1. InductiveInv => GuardedReferencesResolve
  BY DEF InductiveInv, ReferenceInv, CommittedReferencesKept, Kept,
         GuardedReferencesResolve, Resolves
<1> QED
  BY <1>1, Inductive, PTL
=============================================================================
