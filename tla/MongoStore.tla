----------------------------- MODULE MongoStore -----------------------------
(***************************************************************************)
(* The document store of the MongoDB backend: concurrent POST (upsert),    *)
(* PUT (update by documentUuid) and DELETE requests, each a multi-document *)
(* transaction over the "documents" and the "concurrency" collections.     *)
(*                                                                         *)
(* A transaction reads a snapshot taken at its first statement and fails   *)
(* with WriteConflict as soon as it writes a key that another open         *)
(* transaction wrote, or that was committed after its snapshot.  Inserting *)
(* and deleting a row keyed by a documentUuid in the concurrency           *)
(* collection turns that rule into a lock on the document (lockDocuments). *)
(* The lookup of the documents to lock carries no session, so it reads     *)
(* what is committed at that moment and not the snapshot.                  *)
(***************************************************************************)
EXTENDS Integers, FiniteSets

CONSTANTS
    Request,      \* the concurrent calls of the backend
    Id,           \* MeadowlarkIds a document can have as its _id
    SuperId,      \* MeadowlarkIds of superclass identities
    Super,        \* Super[i]: the superclass identity of the document i, if any
    Input,        \* what a call can ask for, documentUuid apart
    Seed,         \* contents the documents collection may start with
    MaxAttempt,   \* bound on the attempts at one call (async-retry, withTransaction)
    NoDoc,        \* no document
    NoUuid        \* a documentUuid nobody was ever given

Alias == Id \cup SuperId

(* generateDocumentUuid never repeats itself: the uuid an attempt generates *)
(* is named after the call and the attempt, a seeded one after its _id.     *)
Uuid == ((Request \cup Id) \X (0 .. MaxAttempt)) \cup {NoUuid}

(* A document.  "guarded" is history: the document was validated and the    *)
(* lookup of the documents to lock saw every reference of it.               *)
Doc == [uuid : Uuid, refs : SUBSET Alias, validated : BOOLEAN,
        createdAt : Nat, lastModifiedAt : Nat, guarded : BOOLEAN]

Store == [Id -> Doc \cup {NoDoc}]

(* What the body, the URL and the role of a call determine. "validate" is   *)
(* validateDocumentReferencesExist or validateNoReferencesToDocument,       *)
(* "allow" is resourceInfo.allowIdentityUpdates, "ts" is requestTimestamp.  *)
Op == {"upsert", "update", "delete"}
Call == [op : Op, id : Id, refs : SUBSET Alias, validate : BOOLEAN,
         allow : BOOLEAN, ts : Nat]

Success == {"INSERT_SUCCESS", "UPDATE_SUCCESS", "DELETE_SUCCESS"}
Refusal == {"UPSERT_FAILURE_WRITE_CONFLICT", "UPDATE_FAILURE_WRITE_CONFLICT",
            "DELETE_FAILURE_WRITE_CONFLICT", "INSERT_FAILURE_CONFLICT",
            "UPDATE_FAILURE_CONFLICT", "INSERT_FAILURE_REFERENCE",
            "UPDATE_FAILURE_REFERENCE", "DELETE_FAILURE_REFERENCE",
            "UPDATE_FAILURE_NOT_EXISTS", "DELETE_FAILURE_NOT_EXISTS",
            "UPDATE_FAILURE_IMMUTABLE_IDENTITY", "UPDATE_CASCADE_REQUIRED",
            "UNKNOWN_FAILURE"}
Response == Success \cup Refusal \cup {"NONE"}

VARIABLES
    docs,            \* the committed documents collection
    pc,              \* where each call is
    req,             \* what each call asks for
    target,          \* the documentUuid in the URL of a PUT or DELETE
    attempt,         \* the number of the current attempt
    view,            \* the snapshot of the open transaction, with its own writes
    wrote,           \* the _ids the open transaction wrote in "documents"
    locks,           \* the _ids it wrote in "concurrency": the locks it holds
    overtakenDocs,   \* the _ids others committed since its snapshot
    overtakenLocks,  \* the lock rows others committed since its snapshot
    found,           \* documentUuids the last lookup returned
    own,             \* the documentUuid pushed after them
    draft,           \* the document to be written
    result,          \* the response of the last statement that decided one
    applied,         \* history: how often a call's transaction was committed
    issued           \* history: every documentUuid that was ever committed

callVars == <<req, target>>
txnVars  == <<view, wrote, locks, overtakenDocs, overtakenLocks>>
planVars == <<found, own, draft>>
historyVars == <<applied, issued>>
vars == <<docs, pc, callVars, attempt, txnVars, planVars, result, historyVars>>

NoCall == [op |-> "none", id |-> NoUuid, refs |-> {}, validate |-> FALSE,
           allow |-> FALSE, ts |-> 0]
EmptyStore == [i \in Id |-> NoDoc]
NoDraft == [uuid |-> NoUuid, refs |-> {}, validated |-> FALSE,
            createdAt |-> 0, lastModifiedAt |-> 0, guarded |-> FALSE]

UuidsIn(store) == {store[i].uuid : i \in {j \in Id : store[j] # NoDoc}}

Aliases(i) == {i} \cup Super[i]

(* Documents one of whose aliases is in the set: aliasMeadowlarkIds $in.    *)
WithAlias(store, as) == {i \in Id : store[i] # NoDoc /\ Aliases(i) \cap as # {}}

(* Every alias of the set is an alias of a document of the store.           *)
Resolves(store, as) == \A a \in as : \E i \in Id : store[i] # NoDoc /\ a \in Aliases(i)

(* onlyDocumentsReferencing: some document, itself included, refers to i.   *)
Referenced(store, i) == \E j \in Id : store[j] # NoDoc /\ store[j].refs \cap Aliases(i) # {}

ASSUME NoDocAssumption   == NoDoc \notin Doc
ASSUME NoUuidAssumption  == NoUuid \notin (Request \cup Id) \X (0 .. MaxAttempt)
ASSUME AttemptAssumption == MaxAttempt \in Nat \ {0}
ASSUME SuperAssumption   == Super \in [Id -> SUBSET SuperId]
ASSUME NamesAssumption   == Request \cap Id = {}
ASSUME InputAssumption   == Input \subseteq Call
ASSUME SeedAssumption    ==
    \A s \in Seed :
       /\ s \in Store
       /\ \A i \in Id : s[i] # NoDoc => /\ s[i].uuid = <<i, 0>>
                                        /\ s[i].guarded => s[i].validated
                                        /\ s[i].validated => Resolves(s, s[i].refs)

-----------------------------------------------------------------------------
(* Transactions of the server, as the code in src/ relies on them.          *)

(* The first statement of a POST is a read; a PUT or DELETE that does not   *)
(* validate opens its transaction with the insert of the lock rows.         *)
Opened(r) ==
    \/ pc[r] \in {"write", "relookup", "relock", "rewrite", "commit"}
    \/ /\ pc[r] \in {"lookup", "lock"}
       /\ req[r].op = "upsert" \/ req[r].validate

LockConflict(r, rows) ==
    \/ rows \cap overtakenLocks[r] # {}
    \/ \E s \in Request \ {r} : rows \cap locks[s] # {}

DocConflict(r, i) ==
    \/ i \in overtakenDocs[r]
    \/ \E s \in Request \ {r} : i \in wrote[s]

Close(r) ==
    /\ view' = [view EXCEPT ![r] = EmptyStore]
    /\ wrote' = [wrote EXCEPT ![r] = {}]
    /\ locks' = [locks EXCEPT ![r] = {}]
    /\ overtakenDocs' = [overtakenDocs EXCEPT ![r] = {}]
    /\ overtakenLocks' = [overtakenLocks EXCEPT ![r] = {}]
    /\ found' = [found EXCEPT ![r] = {}]
    /\ own' = [own EXCEPT ![r] = NoUuid]
    /\ draft' = [draft EXCEPT ![r] = NoDraft]

(* The writes of r become visible, and every other open transaction is      *)
(* overtaken on the keys r wrote.                                           *)
Committed(r) == [i \in Id |-> IF i \in wrote[r] THEN view[r][i] ELSE docs[i]]

Publish(r) ==
    /\ docs' = Committed(r)
    /\ view' = [view EXCEPT ![r] = EmptyStore]
    /\ wrote' = [wrote EXCEPT ![r] = {}]
    /\ locks' = [locks EXCEPT ![r] = {}]
    /\ overtakenDocs' = [s \in Request |->
          IF s = r THEN {}
          ELSE overtakenDocs[s] \cup (IF Opened(s) THEN wrote[r] ELSE {})]
    /\ overtakenLocks' = [s \in Request |->
          IF s = r THEN {}
          ELSE overtakenLocks[s] \cup (IF Opened(s) THEN locks[r] ELSE {})]
    /\ found' = [found EXCEPT ![r] = {}]
    /\ own' = [own EXCEPT ![r] = NoUuid]
    /\ draft' = [draft EXCEPT ![r] = NoDraft]
    /\ applied' = [applied EXCEPT ![r] = @ + 1]
    /\ issued' = issued \cup UuidsIn(Committed(r))

-----------------------------------------------------------------------------
(* How a call ends or starts over.                                          *)

(* An exception leaves withTransaction: async-retry runs the call again or, *)
(* once the attempts are used up, the catch block answers.                  *)
(* (Faults the properties must notice stand before the definition they      *)
(* spoil, here retries without end and one attempt too many.)               *)
RetryOrAnswerForever(r, response) ==
    /\ pc' = [pc EXCEPT ![r] = "begin"]
    /\ UNCHANGED <<attempt, result>>

RetryOrAnswerOnceMore(r, response) ==
    IF attempt[r] <= MaxAttempt
    THEN /\ pc' = [pc EXCEPT ![r] = "begin"]
         /\ attempt' = [attempt EXCEPT ![r] = @ + 1]
         /\ UNCHANGED result
    ELSE /\ pc' = [pc EXCEPT ![r] = "done"]
         /\ result' = [result EXCEPT ![r] = response]
         /\ UNCHANGED attempt

RetryOrAnswer(r, response) ==
    IF attempt[r] < MaxAttempt
    THEN /\ pc' = [pc EXCEPT ![r] = "begin"]
         /\ attempt' = [attempt EXCEPT ![r] = @ + 1]
         /\ UNCHANGED result
    ELSE /\ pc' = [pc EXCEPT ![r] = "done"]
         /\ result' = [result EXCEPT ![r] = response]
         /\ UNCHANGED attempt

Throw(r, response) ==
    /\ RetryOrAnswer(r, response)
    /\ Close(r)
    /\ UNCHANGED <<docs, callVars, historyVars>>

WriteConflict(r) ==
    CASE req[r].op = "upsert" -> "UPSERT_FAILURE_WRITE_CONFLICT"
      [] req[r].op = "update" -> "UPDATE_FAILURE_WRITE_CONFLICT"
      [] req[r].op = "delete" -> "DELETE_FAILURE_WRITE_CONFLICT"

(* A response that is no success: the callback aborts the transaction.      *)
(* (Fault: a failure that commits what was written before it.)              *)
RefuseCommitting(r, response) ==
    /\ pc' = [pc EXCEPT ![r] = "commit"]
    /\ result' = [result EXCEPT ![r] = response]
    /\ UNCHANGED <<docs, callVars, attempt, txnVars, planVars, historyVars>>

Refuse(r, response) ==
    /\ pc' = [pc EXCEPT ![r] = "done"]
    /\ result' = [result EXCEPT ![r] = response]
    /\ Close(r)
    /\ UNCHANGED <<docs, callVars, attempt, historyVars>>

(* A call reaches the backend.  A PUT or DELETE names the documentUuid of a *)
(* document its client has seen, or one that does not exist.                *)
Receive(r) ==
    /\ pc[r] = "idle"
    /\ \E q \in Input, u \in UuidsIn(docs) \cup {NoUuid} :
          /\ q.op = "upsert" => u = NoUuid
          /\ req' = [req EXCEPT ![r] = q]
          /\ target' = [target EXCEPT ![r] = u]
    /\ pc' = [pc EXCEPT ![r] = "begin"]
    /\ attempt' = [attempt EXCEPT ![r] = 1]
    /\ UNCHANGED <<docs, txnVars, planVars, result, historyVars>>

-----------------------------------------------------------------------------
(* What the code decides from what its transaction sees.                    *)

(* Each document found counts for the first alias of it that was asked for. *)
FirstMatch(i, refs) == IF i \in refs THEN {i} ELSE Super[i] \cap refs

(* validateReferences compares two counts and, only if they differ, looks   *)
(* for the references no document found stands for.                         *)
ReferencesValid(store, refs) ==
    LET inDb == WithAlias(store, refs)
    IN  \/ Cardinality(refs) = Cardinality(inDb)
        \/ refs \subseteq UNION {FirstMatch(i, refs) : i \in inDb}

(* What upsertDocumentTransaction refuses, "NONE" if it goes on.            *)
UpsertRefusal(store, i, refs, ts, validate) ==
    LET existing == store[i]
        isInsert == existing = NoDoc
    IN  IF ~isInsert /\ existing.lastModifiedAt >= ts
        THEN "UPSERT_FAILURE_WRITE_CONFLICT"
        ELSE IF isInsert /\ WithAlias(store, Super[i]) # {}
        THEN "INSERT_FAILURE_CONFLICT"
        ELSE IF validate /\ ~ReferencesValid(store, refs)
        THEN IF isInsert THEN "INSERT_FAILURE_REFERENCE" ELSE "UPDATE_FAILURE_REFERENCE"
        ELSE "NONE"

(* documentUuid in upsertDocumentTransaction: kept, or generated.           *)
(* (Fault: a documentUuid generated outside the transaction's callback.)    *)
UpsertUuidOncePerCall(r, store) ==
    IF store[req[r].id] = NoDoc THEN <<r, 1>> ELSE store[req[r].id].uuid

UpsertUuid(r, store) ==
    IF store[req[r].id] = NoDoc THEN <<r, attempt[r]>> ELSE store[req[r].id].uuid

(* The documents a PUT or DELETE by documentUuid can find.                  *)
AtTarget(r, store) == {i \in Id : store[i] # NoDoc /\ store[i].uuid = target[r]}

(* The filter of updateOne in tryUpdateByReplacement.                       *)
(* (Fault: $lte for $lt.)                                                   *)
ReplaceableAtEqualTime(r) ==
    LET existing == view[r][req[r].id]
    IN  /\ existing # NoDoc
        /\ existing.uuid = target[r]
        /\ existing.lastModifiedAt <= req[r].ts

Replaceable(r) ==
    LET existing == view[r][req[r].id]
    IN  /\ existing # NoDoc
        /\ existing.uuid = target[r]
        /\ existing.lastModifiedAt < req[r].ts

(* Why a PUT that replaced nothing is refused, "NONE" if the document old   *)
(* is to be deleted and inserted again under its new identity.              *)
UpdateRefusal(r, old) ==
    IF view[r][old].lastModifiedAt >= req[r].ts
    THEN "UPDATE_FAILURE_WRITE_CONFLICT"
    ELSE IF ~req[r].allow
    THEN "UPDATE_FAILURE_IMMUTABLE_IDENTITY"
    ELSE IF Referenced(view[r], old)
    THEN "UPDATE_CASCADE_REQUIRED"
    ELSE "NONE"

(* insertUpdatedDocument's translation of a refused upsert.                 *)
ReinsertRefusal(refusal) ==
    IF refusal = "INSERT_FAILURE_CONFLICT" THEN "UPDATE_FAILURE_CONFLICT"
    ELSE "UNKNOWN_FAILURE"

(* meadowlarkDocumentFrom *)
NewDocument(r, uuid, createdAt) ==
    [uuid |-> uuid, refs |-> req[r].refs, validated |-> req[r].validate,
     createdAt |-> createdAt, lastModifiedAt |-> req[r].ts, guarded |-> FALSE]

WithCreatedAt(d, createdAt) == [d EXCEPT !.createdAt = createdAt]
WithGuarded(d, sawAll) == [d EXCEPT !.guarded = sawAll]

-----------------------------------------------------------------------------
(* The statements of a call up to the locks.                                *)

BeginUpsert(r) ==
    LET q == req[r]
        refusal == UpsertRefusal(docs, q.id, q.refs, q.ts, q.validate)
        uuid == UpsertUuid(r, docs)
        createdAt == IF docs[q.id] = NoDoc THEN q.ts ELSE docs[q.id].createdAt
    IN  /\ pc[r] = "begin" /\ q.op = "upsert"
        /\ \/ refusal # "NONE" /\ Refuse(r, refusal)
           \/ /\ refusal = "NONE"
              /\ pc' = [pc EXCEPT ![r] = "lookup"]
              /\ view' = [view EXCEPT ![r] = docs]
              /\ own' = [own EXCEPT ![r] = uuid]
              /\ draft' = [draft EXCEPT ![r] = NewDocument(r, uuid, createdAt)]
              /\ UNCHANGED <<docs, callVars, attempt, wrote, locks, overtakenDocs,
                             overtakenLocks, found, result, historyVars>>

(* A PUT knows its createdAt only once it has read the stored document.     *)
BeginUpdate(r) ==
    LET q == req[r]
    IN  /\ pc[r] = "begin" /\ q.op = "update"
        /\ \/ /\ q.validate /\ ~ReferencesValid(docs, q.refs)
              /\ Refuse(r, "UPDATE_FAILURE_REFERENCE")
           \/ /\ q.validate => ReferencesValid(docs, q.refs)
              /\ pc' = [pc EXCEPT ![r] = "lookup"]
              /\ view' = [view EXCEPT ![r] = IF q.validate THEN docs ELSE @]
              /\ own' = [own EXCEPT ![r] = target[r]]
              /\ draft' = [draft EXCEPT ![r] = NewDocument(r, target[r], 0)]
              /\ UNCHANGED <<docs, callVars, attempt, wrote, locks, overtakenDocs,
                             overtakenLocks, found, result, historyVars>>

(* checkForReferencesToDocument, unless the role of the client skips it.    *)
DeleteRefusal(r) ==
    IF ~req[r].validate THEN "NONE"
    ELSE IF AtTarget(r, docs) = {} THEN "DELETE_FAILURE_NOT_EXISTS"
    ELSE IF \E i \in AtTarget(r, docs) : Referenced(docs, i) THEN "DELETE_FAILURE_REFERENCE"
    ELSE "NONE"

BeginDelete(r) ==
    /\ pc[r] = "begin" /\ req[r].op = "delete"
    /\ \/ DeleteRefusal(r) # "NONE" /\ Refuse(r, DeleteRefusal(r))
       \/ /\ DeleteRefusal(r) = "NONE"
          /\ pc' = [pc EXCEPT ![r] = "lock"]
          /\ view' = [view EXCEPT ![r] = IF req[r].validate THEN docs ELSE @]
          /\ own' = [own EXCEPT ![r] = target[r]]
          /\ UNCHANGED <<docs, callVars, attempt, wrote, locks, overtakenDocs,
                         overtakenLocks, found, draft, result, historyVars>>

(* The find on aliasMeadowlarkIds that is given no session.                 *)
LookupReferenced(r) ==
    LET as == draft[r].refs
        sawAll == draft[r].validated /\ Resolves(docs, as)
    IN  /\ pc[r] \in {"lookup", "relookup"}
        /\ found' = [found EXCEPT ![r] = {docs[i].uuid : i \in WithAlias(docs, as)}]
        /\ IF pc[r] = "lookup"
           THEN /\ pc' = [pc EXCEPT ![r] = "lock"]
                /\ draft' = [draft EXCEPT ![r] = WithGuarded(@, sawAll)]
           ELSE /\ pc' = [pc EXCEPT ![r] = "relock"]
                /\ UNCHANGED draft
        /\ UNCHANGED <<docs, callVars, attempt, txnVars, own, result, historyVars>>

(* (Fault: the documents referred to are not locked.)                       *)
RowsToLockOwnOnly(r) == {own[r]}
RowsToLock(r) == found[r] \cup {own[r]}

(* insertMany fails on a row that is listed twice; the deleteMany after it  *)
(* leaves the write conflict in place until the transaction ends.           *)
LockDocuments(r) ==
    /\ pc[r] \in {"lock", "relock"}
    /\ \/ LockConflict(r, RowsToLock(r)) /\ Throw(r, WriteConflict(r))
       \/ /\ ~LockConflict(r, RowsToLock(r)) /\ own[r] \in found[r]
          /\ Throw(r, "UNKNOWN_FAILURE")
       \/ /\ ~LockConflict(r, RowsToLock(r)) /\ own[r] \notin found[r]
          /\ locks' = [locks EXCEPT ![r] = @ \cup RowsToLock(r)]
          /\ view' = [view EXCEPT ![r] = IF Opened(r) THEN @ ELSE docs]
          /\ pc' = [pc EXCEPT ![r] = IF pc[r] = "lock" THEN "write" ELSE "rewrite"]
          /\ UNCHANGED <<docs, callVars, attempt, wrote, overtakenDocs,
                         overtakenLocks, planVars, result, historyVars>>

-----------------------------------------------------------------------------
(* The statements that write documents, and the end of the transaction.     *)

WriteDocument(r, i, d, response) ==
    /\ view' = [view EXCEPT ![r][i] = d]
    /\ wrote' = [wrote EXCEPT ![r] = @ \cup {i}]
    /\ pc' = [pc EXCEPT ![r] = "commit"]
    /\ result' = [result EXCEPT ![r] = response]
    /\ UNCHANGED <<docs, callVars, attempt, locks, overtakenDocs,
                   overtakenLocks, planVars, historyVars>>

(* replaceOne with upsert, by a POST or by a PUT that deleted its document. *)
UpsertDocument(r) ==
    LET i == req[r].id
    IN  /\ \/ pc[r] = "write" /\ req[r].op = "upsert"
           \/ pc[r] = "rewrite"
        /\ \/ DocConflict(r, i) /\ Throw(r, WriteConflict(r))
           \/ /\ ~DocConflict(r, i)
              /\ WriteDocument(r, i, draft[r],
                    IF view[r][i] = NoDoc /\ req[r].op = "upsert"
                    THEN "INSERT_SUCCESS" ELSE "UPDATE_SUCCESS")

(* updateOne sets everything but documentUuid, createdAt and createdBy.     *)
ReplaceDocument(r) ==
    LET i == req[r].id
        existing == view[r][i]
        replaced == WithCreatedAt(draft[r], existing.createdAt)
    IN  /\ pc[r] = "write" /\ req[r].op = "update"
        /\ Replaceable(r)
        /\ \/ DocConflict(r, i) /\ Throw(r, WriteConflict(r))
           \/ ~DocConflict(r, i) /\ WriteDocument(r, i, replaced, "UPDATE_SUCCESS")

RefuseUpdate(r) ==
    /\ pc[r] = "write" /\ req[r].op = "update"
    /\ ~Replaceable(r)
    /\ \/ AtTarget(r, view[r]) = {} /\ Refuse(r, "UPDATE_FAILURE_NOT_EXISTS")
       \/ \E old \in AtTarget(r, view[r]) :
             /\ UpdateRefusal(r, old) # "NONE"
             /\ Refuse(r, UpdateRefusal(r, old))

(* The identity changes: the document is deleted, and the call goes on as   *)
(* an upsert of the document under its new _id.                             *)
(* (Fault: the old identity is not deleted.)                                *)
WithOld(store, old) == store
WithoutOld(store, old) == [store EXCEPT ![old] = NoDoc]

RemoveThenReinsert(r, old) ==
    LET q == req[r]
        v == WithoutOld(view[r], old)
        refusal == UpsertRefusal(v, q.id, q.refs, q.ts, FALSE)
    IN  \/ DocConflict(r, old) /\ Throw(r, WriteConflict(r))
        \/ ~DocConflict(r, old) /\ refusal # "NONE" /\ Refuse(r, ReinsertRefusal(refusal))
        \/ /\ ~DocConflict(r, old) /\ refusal = "NONE"
           /\ view' = [view EXCEPT ![r] = v]
           /\ wrote' = [wrote EXCEPT ![r] = @ \cup {old}]
           /\ own' = [own EXCEPT ![r] = UpsertUuid(r, v)]
           /\ draft' = [draft EXCEPT ![r] = WithCreatedAt(@, view[r][old].createdAt)]
           /\ pc' = [pc EXCEPT ![r] = "relookup"]
           /\ UNCHANGED <<docs, callVars, attempt, locks, overtakenDocs,
                          overtakenLocks, found, result, historyVars>>

RemoveForReinsert(r) ==
    /\ pc[r] = "write" /\ req[r].op = "update"
    /\ ~Replaceable(r)
    /\ \E old \in AtTarget(r, view[r]) :
          UpdateRefusal(r, old) = "NONE" /\ RemoveThenReinsert(r, old)

(* deleteOne by documentUuid.                                               *)
RemoveDocument(r) ==
    /\ pc[r] = "write" /\ req[r].op = "delete"
    /\ \/ AtTarget(r, view[r]) = {} /\ Refuse(r, "DELETE_FAILURE_NOT_EXISTS")
       \/ \E i \in AtTarget(r, view[r]) :
             \/ DocConflict(r, i) /\ Throw(r, WriteConflict(r))
             \/ ~DocConflict(r, i) /\ WriteDocument(r, i, NoDoc, "DELETE_SUCCESS")

Commit(r) ==
    /\ pc[r] = "commit"
    /\ Publish(r)
    /\ pc' = [pc EXCEPT ![r] = "done"]
    /\ UNCHANGED <<callVars, attempt, result>>

(* withTransaction gives up on a commit whose outcome it never learned and  *)
(* throws: the transaction may have been committed all the same.            *)
CommitLost(r) ==
    /\ pc[r] = "commit"
    /\ \/ Throw(r, "UNKNOWN_FAILURE")
       \/ /\ Publish(r)
          /\ RetryOrAnswer(r, "UNKNOWN_FAILURE")
          /\ UNCHANGED callVars

(* The process ends with the call unanswered.  The server aborts what it    *)
(* left open, or has committed it already.                                  *)
Crash(r) ==
    /\ pc[r] \notin {"idle", "done"}
    /\ pc' = [pc EXCEPT ![r] = "done"]
    /\ result' = [result EXCEPT ![r] = "NONE"]
    /\ \/ Close(r) /\ UNCHANGED <<docs, historyVars>>
       \/ pc[r] = "commit" /\ Publish(r)
    /\ UNCHANGED <<callVars, attempt>>

-----------------------------------------------------------------------------
Init ==
    /\ docs \in Seed
    /\ pc = [r \in Request |-> "idle"]
    /\ req = [r \in Request |-> NoCall]
    /\ target = [r \in Request |-> NoUuid]
    /\ attempt = [r \in Request |-> 0]
    /\ view = [r \in Request |-> EmptyStore]
    /\ wrote = [r \in Request |-> {}]
    /\ locks = [r \in Request |-> {}]
    /\ overtakenDocs = [r \in Request |-> {}]
    /\ overtakenLocks = [r \in Request |-> {}]
    /\ found = [r \in Request |-> {}]
    /\ own = [r \in Request |-> NoUuid]
    /\ draft = [r \in Request |-> NoDraft]
    /\ result = [r \in Request |-> "NONE"]
    /\ applied = [r \in Request |-> 0]
    /\ issued = UuidsIn(docs)

Step(r) ==
    \/ BeginUpsert(r) \/ BeginUpdate(r) \/ BeginDelete(r)
    \/ LookupReferenced(r) \/ LockDocuments(r)
    \/ UpsertDocument(r) \/ ReplaceDocument(r) \/ RefuseUpdate(r)
    \/ RemoveForReinsert(r) \/ RemoveDocument(r)
    \/ Commit(r) \/ CommitLost(r)

Quiescent == (\A r \in Request : pc[r] = "done") /\ UNCHANGED vars

Next ==
    \/ \E r \in Request : Receive(r) \/ Step(r) \/ Crash(r)
    \/ Quiescent

Spec == Init /\ [][Next]_vars

FairSpec == Spec /\ \A r \in Request : WF_vars(Step(r))

-----------------------------------------------------------------------------
(* Properties.                                                              *)

TypeOK ==
    /\ docs \in Store
    /\ pc \in [Request -> {"idle", "begin", "lookup", "lock", "write", "relookup",
                           "relock", "rewrite", "commit", "done"}]
    /\ req \in [Request -> Input \cup {NoCall}]
    /\ \A r \in Request : pc[r] # "idle" => req[r] \in Input
    /\ target \in [Request -> Uuid]
    /\ attempt \in [Request -> 0 .. MaxAttempt]
    /\ view \in [Request -> Store]
    /\ wrote \in [Request -> SUBSET Id]
    /\ locks \in [Request -> SUBSET Uuid]
    /\ overtakenDocs \in [Request -> SUBSET Id]
    /\ overtakenLocks \in [Request -> SUBSET Uuid]
    /\ found \in [Request -> SUBSET Uuid]
    /\ own \in [Request -> Uuid]
    /\ draft \in [Request -> Doc]
    /\ result \in [Request -> Response]
    /\ applied \in [Request -> Nat]
    /\ issued \in SUBSET Uuid

ValidatedDeletes == \A q \in Input : q.op = "delete" => q.validate

(* A document whose references were all seen by the lookup of the documents *)
(* to lock never loses one of them, however its POST or PUT interleaves     *)
(* with the DELETEs and identity changes of the documents it refers to.     *)
GuardedReferencesResolve ==
    ValidatedDeletes =>
       \A i \in Id : docs[i] # NoDoc /\ docs[i].guarded => Resolves(docs, docs[i].refs)

(* What the repository's design promises: a validated document refers to    *)
(* documents that exist (meadowlark-referential-integrity-in-document-      *)
(* databases.md).                                                           *)
ValidatedReferencesResolve ==
    ValidatedDeletes =>
       \A i \in Id : docs[i] # NoDoc /\ docs[i].validated => Resolves(docs, docs[i].refs)

(* Retrying after a commit whose outcome was lost never applies a PUT or a  *)
(* DELETE a second time.                                                    *)
AppliedAtMostOnce == \A r \in Request : req[r].op # "upsert" => applied[r] <= 1

(* A commit does what the response says that its transaction has decided on:*)
(* none for a failure, not even of the deletion in a PUT whose reinsertion  *)
(* was refused; a document that was not there for INSERT_SUCCESS, one that  *)
(* was for the UPDATE_SUCCESS of a POST; the request's version of it; none  *)
(* with that uuid after a DELETE.  The client may be told less: of a commit *)
(* whose outcome is lost UNKNOWN_FAILURE, or what a later run decides, which*)
(* meets its own change (a write conflict, or no document to delete).       *)
AnswerTellsWhatHappened ==
    [][\A r \in Request :
          applied'[r] # applied[r] =>
             LET before == docs[req[r].id]
                 after == docs'[req[r].id]
             IN  \/ result[r] = "INSERT_SUCCESS" /\ before = NoDoc /\ after = draft[r]
                 \/ /\ result[r] = "UPDATE_SUCCESS" /\ req[r].op = "upsert"
                    /\ before # NoDoc /\ after = draft[r]
                 \/ /\ result[r] = "UPDATE_SUCCESS" /\ req[r].op = "update"
                    /\ after # NoDoc /\ after.uuid = target[r]
                    /\ after.lastModifiedAt = req[r].ts
                    /\ target[r] \in UuidsIn(docs)
                 \/ /\ result[r] = "DELETE_SUCCESS"
                    /\ UuidsIn(docs') = UuidsIn(docs) \ {target[r]}]_vars

(* Every call is answered, or ends with its process: a conflicting writer   *)
(* fails at once and never waits for the other.                             *)
EveryCallAnswered == \A r \in Request : pc[r] = "begin" ~> pc[r] = "done"

(* Whatever the interleaving, retries and lost commits, what is committed   *)
(* is a sequence of steps of the abstract store: no version of a document   *)
(* replaces a newer one, a documentUuid and its createdAt last for life, and*)
(* a deleted documentUuid never comes back.                                 *)
Abstract == INSTANCE DocumentStore WITH store <- docs, Ordered <- TRUE, Exclusive <- FALSE
ImplementsDocumentStore == Abstract!Spec
UuidUnique == Abstract!UuidUnique

=============================================================================
