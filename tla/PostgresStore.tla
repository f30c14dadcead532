---------------------------- MODULE PostgresStore ----------------------------
(***************************************************************************)
(* The document store of the PostgreSQL backend: POST (upsert), PUT        *)
(* (update by documentUuid) and DELETE calls, each a series of statements  *)
(* on a session of the connection pool over the tables "documents",        *)
(* "aliases" and "references".                                             *)
(*                                                                         *)
(* BackendFacade gives the session back to the pool as soon as the call    *)
(* has sent its first statement, so calls of one worker process can run on *)
(* one session, their statements taking turns in the client's queue, and   *)
(* BEGIN and COMMIT then speak for all of them.                            *)
(*                                                                         *)
(* Transactions are READ COMMITTED: each statement sees what is committed  *)
(* when it runs and what its own transaction wrote, writers of one row     *)
(* wait for each other, and NOWAIT locks fail at once.                     *)
(***************************************************************************)
EXTENDS Integers, FiniteSets, Sequences

CONSTANTS
    Request,      \* the concurrent calls of the backend
    Session,      \* sessions of the connection pools of all workers
    Overlap,      \* how many calls may be under way on one session
    Id,           \* MeadowlarkIds a document can have
    SuperId,      \* MeadowlarkIds of superclass identities
    Super,        \* Super[i]: the superclass identity of the document i, if any
    Input,        \* what a call can ask for, documentUuid apart
    Seed,         \* contents the documents table may start with
    NoDoc,        \* no document
    NoUuid        \* a documentUuid nobody was ever given

Alias == Id \cup SuperId

(* generateDocumentUuid never repeats itself: a uuid is named after the     *)
(* call that generated it, a seeded one after its MeadowlarkId.             *)
Uuid == Request \cup Id \cup {NoUuid}

Doc == [uuid : Uuid, refs : SUBSET Alias, validated : BOOLEAN,
        createdAt : Nat, lastModifiedAt : Nat]

(* The unique index on meadowlark_id makes the table a function of it.      *)
Store == [Id -> Doc \cup {NoDoc}]

(* A row of "aliases" says that alias names the document mid with that      *)
(* uuid, one of "references" that the document mid refers to alias.  There  *)
(* is no unique index: "by" tells apart rows inserted by different calls.   *)
Row == [table : {"aliases", "references"}, by : Request \cup Id, uuid : Uuid,
        mid : Id, alias : Alias]

Call == [op : {"upsert", "update", "delete"}, id : Id, refs : SUBSET Alias,
         validate : BOOLEAN, allow : BOOLEAN, ts : Nat]

Success == {"INSERT_SUCCESS", "UPDATE_SUCCESS", "DELETE_SUCCESS"}
Response == Success \cup
    {"UPSERT_FAILURE_WRITE_CONFLICT", "UPDATE_FAILURE_WRITE_CONFLICT",
     "INSERT_FAILURE_CONFLICT", "INSERT_FAILURE_REFERENCE", "UPDATE_FAILURE_REFERENCE",
     "DELETE_FAILURE_REFERENCE", "UPDATE_FAILURE_NOT_EXISTS", "DELETE_FAILURE_NOT_EXISTS",
     "UPDATE_FAILURE_IMMUTABLE_IDENTITY", "UNKNOWN_FAILURE", "NONE"}

Statement == {"begin", "find", "super", "validate", "referencing", "report", "write",
              "unalias", "alias", "unref", "ref", "commit", "rollback"}

VARIABLES
    docs,      \* the committed table "documents"
    rows,      \* the committed tables "aliases" and "references"
    queue,     \* the calls with a statement sent to each session
    txn,       \* the transaction of each session: "none", "open" or "failed"
    pending,   \* documents it wrote, by MeadowlarkId
    gone,      \* committed rows it deleted
    fresh,     \* rows it inserted
    shared,    \* alias rows it locked FOR SHARE
    locked,    \* alias rows it locked FOR NO KEY UPDATE
    pc,        \* the statement each call has sent
    req,       \* what each call asks for
    session,   \* the session it runs on
    uuid,      \* its documentUuid: of the URL, found, or generated
    old,       \* the MeadowlarkId whose alias and reference rows it deletes
    list,      \* aliases it has yet to insert, or those it found
    doomed,    \* rows a waiting DELETE statement found when it started
    result,    \* the response, as far as it is decided
    missed,    \* history: an UPDATE found no row and its call went on
    issued     \* history: every documentUuid that was ever committed

tables == <<docs, rows, issued>>
txnVars == <<txn, pending, gone, fresh, shared, locked>>
callVars == <<req, session>>
planVars == <<uuid, old, list, doomed>>
vars == <<tables, queue, txnVars, pc, callVars, planVars, result, missed>>

NoCall == [op |-> "none", id |-> NoUuid, refs |-> {}, validate |-> FALSE,
           allow |-> FALSE, ts |-> 0]
NoSession == NoUuid
Nothing == [i \in {} |-> NoDoc]

Overlay(d, e) == [i \in Id |-> IF i \in DOMAIN d THEN d[i] ELSE e[i]]

UuidsIn(store) == {store[i].uuid : i \in {j \in Id : store[j] # NoDoc}}
At(store, u) == {i \in Id : store[i] # NoDoc /\ store[i].uuid = u}

Aliases(i) == {i} \cup Super[i]
Resolves(store, as) == \A a \in as : \E i \in Id : store[i] # NoDoc /\ a \in Aliases(i)

AliasRow(by, u, i, a) == [table |-> "aliases", by |-> by, uuid |-> u, mid |-> i, alias |-> a]
ReferenceRow(by, i, a) ==
    [table |-> "references", by |-> by, uuid |-> NoUuid, mid |-> i, alias |-> a]

(* The rows that go with the documents of a store nobody is writing to.     *)
RowsOf(store) ==
    UNION {{AliasRow(i, store[i].uuid, i, a) : a \in Aliases(i)}
             \cup {ReferenceRow(i, i, a) : a \in store[i].refs} :
           i \in {j \in Id : store[j] # NoDoc}}

ASSUME NoDocAssumption   == NoDoc \notin Doc
ASSUME NamesAssumption   == /\ Request \cap Id = {} /\ NoUuid \notin Request \cup Id
                             /\ Id \cap SuperId = {}
ASSUME OverlapAssumption == Overlap \in Nat \ {0}
ASSUME SuperAssumption   == Super \in [Id -> SUBSET SuperId]
ASSUME InputAssumption   == Input \subseteq Call /\ \A q \in Input : IsFiniteSet(q.refs)
ASSUME SeedAssumption    ==
    \A s \in Seed :
       /\ s \in Store
       /\ \A i \in Id : s[i] # NoDoc => s[i].uuid = i /\ (s[i].validated => Resolves(s, s[i].refs))

-----------------------------------------------------------------------------
(* Sessions and transactions of the server, as the code in src/ relies on   *)
(* them.                                                                    *)

View(s) == Overlay(pending[s], docs)
Rows(s) == (rows \ gone[s]) \cup fresh[s]

Others(r) == Session \ {session[r]}

(* The statement of the call that is first in its client's queue runs.      *)
Sent(r, statement) ==
    /\ pc[r] = statement
    /\ queue[session[r]] # <<>> /\ Head(queue[session[r]]) = r

(* The call sends its next statement, behind those that wait already.       *)
(* (Fault: a call that has its answer sends another statement.)             *)
ThenAlways(r, next) ==
    /\ pc' = [pc EXCEPT ![r] = next]
    /\ queue' = [queue EXCEPT ![session[r]] = Append(Tail(@), r)]

Then(r, next) ==
    /\ pc' = [pc EXCEPT ![r] = next]
    /\ queue' = [queue EXCEPT ![session[r]] =
                    IF next = "done" THEN Tail(@) ELSE Append(Tail(@), r)]

EndTransaction(s, status) ==
    /\ txn' = [txn EXCEPT ![s] = status]
    /\ pending' = [pending EXCEPT ![s] = Nothing]
    /\ gone' = [gone EXCEPT ![s] = {}]
    /\ fresh' = [fresh EXCEPT ![s] = {}]
    /\ shared' = [shared EXCEPT ![s] = {}]
    /\ locked' = [locked EXCEPT ![s] = {}]

(* What a statement writes belongs to the open transaction of its session   *)
(* or, without one, is committed at once.                                   *)
Write(s, d, deleted, inserted) ==
    IF txn[s] = "open"
    THEN /\ pending' = [pending EXCEPT ![s] =
                          [i \in DOMAIN @ \cup DOMAIN d |-> IF i \in DOMAIN d THEN d[i] ELSE @[i]]]
         /\ gone' = [gone EXCEPT ![s] = @ \cup (deleted \ fresh[s])]
         /\ fresh' = [fresh EXCEPT ![s] = (@ \ deleted) \cup inserted]
         /\ UNCHANGED <<tables, txn, shared, locked>>
    ELSE /\ docs' = Overlay(d, docs)
         /\ rows' = (rows \ deleted) \cup inserted
         /\ issued' = issued \cup UuidsIn(docs')
         /\ UNCHANGED txnVars

Publish(s) ==
    /\ docs' = View(s)
    /\ rows' = Rows(s)
    /\ issued' = issued \cup UuidsIn(docs')

(* The statement fails, and with it the transaction: its locks and writes   *)
(* are given up now, its session refuses everything until it ends.  The     *)
(* catch block of the call rolls back.                                      *)
Fail(r) ==
    /\ Then(r, "rollback")
    /\ IF txn[session[r]] = "open" THEN EndTransaction(session[r], "failed")
                                   ELSE UNCHANGED txnVars
    /\ result' = [result EXCEPT ![r] = "UNKNOWN_FAILURE"]
    /\ doomed' = [doomed EXCEPT ![r] = {}]
    /\ UNCHANGED <<tables, callVars, uuid, old, list, missed>>

(* Rows a SELECT ... NOWAIT cannot lock, FOR SHARE or FOR NO KEY UPDATE.    *)
HeldAgainstShare(s) == UNION {gone[t] \cup locked[t] : t \in Session \ {s}}
HeldAgainstUpdate(s) == HeldAgainstShare(s) \cup UNION {shared[t] : t \in Session \ {s}}

(* What the statement a call has sent writes or deletes: the documents, and *)
(* the rows, found when the statement started if it had to wait.            *)
WrittenDocs(r) ==
    LET at == At(View(session[r]), uuid[r])
    IN  {i \in Id : /\ pc[r] = "write"
                    /\ \/ i \in at
                       \/ /\ i = req[r].id /\ req[r].op # "delete"
                          /\ result[r] = "INSERT_SUCCESS" \/ at # {}}

DeletedRows(r) ==
    LET table == CASE pc[r] = "unalias" -> "aliases" [] pc[r] = "unref" -> "references"
                   [] OTHER -> "none"
        now == {w \in Rows(session[r]) : w.table = table /\ w.mid \in old[r]}
    IN  IF doomed[r] = {} THEN now ELSE doomed[r] \cap Rows(session[r])

(* Sessions whose transactions the statement must wait for.                 *)
Blockers(r) ==
    {t \in Others(r) :
       \/ WrittenDocs(r) \cap DOMAIN pending[t] # {}
       \/ DeletedRows(r) \cap (gone[t] \cup shared[t] \cup locked[t]) # {}}

Blocked(s) == IF queue[s] = <<>> \/ txn[s] = "failed" THEN {} ELSE Blockers(Head(queue[s]))

(* s is on a circle of sessions each of which waits for the next.           *)
Deadlocked(s) ==
    \E S \in SUBSET Session :
       /\ s \in S
       /\ \A t \in S : \E u \in S : u \in Blocked(t)
       /\ \A t \in S : \E u \in S : t \in Blocked(u)

-----------------------------------------------------------------------------
(* A call arrives and opens its transaction; BEGIN in an open transaction   *)
(* is no more than a warning.                                               *)
Receive(r) ==
    /\ pc[r] = "idle"
    /\ \E q \in Input, u \in UuidsIn(docs) \cup {NoUuid}, s \in Session :
          /\ q.op = "upsert" => u = NoUuid
          /\ Len(queue[s]) < Overlap
          /\ req' = [req EXCEPT ![r] = q]
          /\ uuid' = [uuid EXCEPT ![r] = u]
          /\ session' = [session EXCEPT ![r] = s]
          /\ queue' = [queue EXCEPT ![s] = Append(@, r)]
    /\ pc' = [pc EXCEPT ![r] = "begin"]
    /\ UNCHANGED <<tables, txnVars, old, list, doomed, result, missed>>

Begin(r) ==
    /\ Sent(r, "begin") /\ txn[session[r]] # "failed"
    /\ txn' = [txn EXCEPT ![session[r]] = "open"]
    /\ Then(r, "find")
    /\ UNCHANGED <<tables, pending, gone, fresh, shared, locked, callVars, planVars,
                   result, missed>>

(* A failed transaction refuses every statement but COMMIT and ROLLBACK.    *)
Rejected(r) ==
    /\ pc[r] \notin {"idle", "commit", "rollback", "done"} /\ Sent(r, pc[r])
    /\ txn[session[r]] = "failed"
    /\ Fail(r)

-----------------------------------------------------------------------------
(* The statements that read.                                                *)

Reads(r, statement) == Sent(r, statement) /\ txn[session[r]] # "failed"

BeforeWrite(r) == IF req[r].validate /\ req[r].refs # {} THEN "validate" ELSE "write"

(* A response that needs no ROLLBACK in the eyes of the code: the           *)
(* transaction stays open.                                                  *)
Return(r, response) ==
    /\ Then(r, "done")
    /\ result' = [result EXCEPT ![r] = response]
    /\ UNCHANGED <<tables, txnVars, callVars, planVars, missed>>

(* A response reported, and rolled back.                                    *)
Refuse(r, next, response) ==
    /\ Then(r, next)
    /\ result' = [result EXCEPT ![r] = response]
    /\ UNCHANGED <<tables, callVars, planVars, missed>>

(* findDocumentByMeadowlarkId                                               *)
FindForUpsert(r) ==
    LET q == req[r]
        now == View(session[r])[q.id]
        isInsert == now = NoDoc
    IN  /\ Reads(r, "find") /\ q.op = "upsert"
        /\ \/ /\ ~isInsert /\ now.lastModifiedAt >= q.ts
              /\ Return(r, "UPSERT_FAILURE_WRITE_CONFLICT")
           \/ /\ ~isInsert => now.lastModifiedAt < q.ts
              /\ uuid' = [uuid EXCEPT ![r] = IF isInsert THEN r ELSE now.uuid]
              /\ old' = [old EXCEPT ![r] = {q.id}]
              /\ result' = [result EXCEPT ![r] =
                               IF isInsert THEN "INSERT_SUCCESS" ELSE "UPDATE_SUCCESS"]
              /\ Then(r, IF isInsert /\ Super[q.id] # {} THEN "super" ELSE BeforeWrite(r))
              /\ UNCHANGED <<tables, txnVars, callVars, list, doomed, missed>>

(* findDocumentByDocumentUuid, for a PUT                                    *)
FindForUpdate(r) ==
    LET q == req[r]
        view == View(session[r])
    IN  /\ Reads(r, "find") /\ q.op = "update"
        /\ \/ At(view, uuid[r]) = {} /\ Return(r, "UPDATE_FAILURE_NOT_EXISTS")
           \/ \E i \in At(view, uuid[r]) :
                 \/ /\ view[i].lastModifiedAt >= q.ts
                    /\ Return(r, "UPDATE_FAILURE_WRITE_CONFLICT")
                 \/ /\ view[i].lastModifiedAt < q.ts /\ ~q.allow /\ i # q.id
                    /\ Return(r, "UPDATE_FAILURE_IMMUTABLE_IDENTITY")
                 \/ /\ view[i].lastModifiedAt < q.ts /\ (q.allow \/ i = q.id)
                    /\ old' = [old EXCEPT ![r] = {i}]
                    /\ result' = [result EXCEPT ![r] = "UPDATE_SUCCESS"]
                    /\ Then(r, BeforeWrite(r))
                    /\ UNCHANGED <<tables, txnVars, callVars, uuid, list, doomed, missed>>

(* findAliasMeadowlarkIdsForDocumentByDocumentUuid locks what it finds; the *)
(* first row found gives the MeadowlarkId.                                  *)
FindForDelete(r) ==
    LET q == req[r]
        s == session[r]
        found == {w \in Rows(s) : w.table = "aliases" /\ w.uuid = uuid[r]}
    IN  /\ Reads(r, "find") /\ q.op = "delete"
        /\ \/ found \cap HeldAgainstShare(s) # {} /\ Fail(r)
           \/ /\ found = {} /\ q.validate
              /\ Refuse(r, "rollback", "DELETE_FAILURE_NOT_EXISTS")
              /\ UNCHANGED txnVars
           \/ /\ found \cap HeldAgainstShare(s) = {} /\ (q.validate => found # {})
              /\ shared' = [shared EXCEPT ![s] = IF txn[s] = "open" THEN @ \cup found ELSE @]
              /\ \E i \in Id :
                    /\ found # {} => i \in {w.mid : w \in found}
                    /\ old' = [old EXCEPT ![r] = IF found = {} THEN {} ELSE {i}]
              /\ list' = [list EXCEPT ![r] = IF q.validate THEN {w.alias : w \in found} ELSE {}]
              /\ Then(r, IF q.validate THEN "referencing" ELSE "write")
              /\ UNCHANGED <<tables, txn, pending, gone, fresh, locked, callVars, uuid,
                             doomed, result, missed>>

(* findReferencingMeadowlarkIds, the document's own references apart        *)
CheckReferencing(r) ==
    LET parents == {w.mid : w \in {v \in Rows(session[r]) :
                                      v.table = "references" /\ v.alias \in list[r]}} \ old[r]
    IN  /\ Reads(r, "referencing")
        /\ list' = [list EXCEPT ![r] = parents]
        /\ Then(r, IF parents # {} THEN "report" ELSE "write")
        /\ UNCHANGED <<tables, txnVars, callVars, uuid, old, doomed, result, missed>>

(* findAliasMeadowlarkId of the superclass identity                         *)
CheckSuperclass(r) ==
    LET inUse == \E w \in Rows(session[r]) :
                    w.table = "aliases" /\ w.alias \in Super[req[r].id]
    IN  /\ Reads(r, "super")
        /\ \/ inUse /\ Refuse(r, "report", "INSERT_FAILURE_CONFLICT")
           \/ ~inUse /\ Refuse(r, BeforeWrite(r), result[r])
        /\ UNCHANGED txnVars

(* validateReferenceExistence locks the alias rows it finds; counts are     *)
(* compared, and aliases only if the counts differ.                         *)
(* (Fault: FOR SHARE in place of FOR NO KEY UPDATE.)                        *)
LockReferencedShared(s, found) ==
    /\ shared' = [shared EXCEPT ![s] = IF txn[s] = "open" THEN @ \cup found ELSE @]
    /\ UNCHANGED <<txn, pending, gone, fresh, locked>>

LockReferenced(s, found) ==
    /\ locked' = [locked EXCEPT ![s] = IF txn[s] = "open" THEN @ \cup found ELSE @]
    /\ UNCHANGED <<txn, pending, gone, fresh, shared>>

ValidateReferences(r) ==
    LET s == session[r]
        refs == req[r].refs
        found == {w \in Rows(s) : w.table = "aliases" /\ w.alias \in refs}
        valid == \/ Cardinality(refs) = Cardinality(found)
                 \/ refs \subseteq {w.alias : w \in found}
    IN  /\ Reads(r, "validate")
        /\ \/ found \cap HeldAgainstUpdate(s) # {} /\ Fail(r)
           \/ /\ found \cap HeldAgainstUpdate(s) = {}
              /\ LockReferenced(s, found)
              /\ \/ valid /\ Refuse(r, "write", result[r])
                 \/ /\ ~valid
                    /\ Refuse(r, "report", IF result[r] = "INSERT_SUCCESS"
                                           THEN "INSERT_FAILURE_REFERENCE"
                                           ELSE "UPDATE_FAILURE_REFERENCE")

(* findReferringDocumentInfoForErrorReporting, before the ROLLBACK          *)
(* (Fault: no ROLLBACK.)                                                    *)
AfterReportNothing == "done"
AfterReport == "rollback"

Report(r) ==
    LET known == \E i \in list[r] : View(session[r])[i] # NoDoc
    IN  /\ Reads(r, "report")
        /\ Then(r, AfterReport)
        /\ list' = [list EXCEPT ![r] = {}]
        /\ result' = [result EXCEPT ![r] =
              IF req[r].op # "delete" THEN @
              ELSE IF known THEN "DELETE_FAILURE_REFERENCE" ELSE "UNKNOWN_FAILURE"]
        /\ UNCHANGED <<tables, txnVars, callVars, uuid, old, doomed, missed>>

-----------------------------------------------------------------------------
(* The statements that write.                                               *)

Writes(r, statement) ==
    Sent(r, statement) /\ txn[session[r]] # "failed" /\ Blockers(r) = {}

(* (Fault: an UPDATE that sets created_at as well.)                         *)
NewVersionCreatedNow(r, createdAt) ==
    [uuid |-> uuid[r], refs |-> req[r].refs, validated |-> req[r].validate,
     createdAt |-> req[r].ts, lastModifiedAt |-> req[r].ts]

NewVersion(r, createdAt) ==
    [uuid |-> uuid[r], refs |-> req[r].refs, validated |-> req[r].validate,
     createdAt |-> createdAt, lastModifiedAt |-> req[r].ts]

(* The unique index refuses a second document of one MeadowlarkId.          *)
InsertDocument(r) ==
    LET i == req[r].id
    IN  /\ Writes(r, "write") /\ req[r].op # "delete" /\ result[r] = "INSERT_SUCCESS"
        /\ \/ View(session[r])[i] # NoDoc /\ Fail(r)
           \/ /\ View(session[r])[i] = NoDoc
              /\ Write(session[r], [j \in {i} |-> NewVersion(r, req[r].ts)], {}, {})
              /\ Then(r, "unalias")
              /\ UNCHANGED <<callVars, planVars, result, missed>>

(* The response of a call whose UPDATE found no row: a POST does not look.  *)
(* (Fault: neither does a PUT.)                                             *)
UpdatedNothingUnnoticed(r) == result[r]
UpdatedNothing(r) ==
    IF req[r].op = "upsert" THEN result[r] ELSE "UPDATE_FAILURE_NOT_EXISTS"

(* UPDATE ... WHERE document_uuid, whatever its last_modified_at is by now. *)
UpdateDocument(r) ==
    LET i == req[r].id
        view == View(session[r])
        at == At(view, uuid[r])
        moved(j) == [k \in {i, j} |->
                        IF k = i THEN NewVersion(r, view[j].createdAt) ELSE NoDoc]
    IN  /\ Writes(r, "write") /\ req[r].op # "delete" /\ result[r] = "UPDATE_SUCCESS"
        /\ \/ /\ at = {}
              /\ missed' = TRUE
              /\ result' = [result EXCEPT ![r] = UpdatedNothing(r)]
              /\ Then(r, "unalias")
              /\ UNCHANGED <<tables, txnVars, callVars, planVars>>
           \/ \E j \in at :
                 \/ j # i /\ view[i] # NoDoc /\ Fail(r)
                 \/ /\ j = i \/ view[i] = NoDoc
                    /\ Write(session[r], moved(j), {}, {})
                    /\ Then(r, "unalias")
                    /\ UNCHANGED <<callVars, planVars, result, missed>>

DeleteDocument(r) ==
    LET at == At(View(session[r]), uuid[r])
    IN  /\ Writes(r, "write") /\ req[r].op = "delete"
        /\ Write(session[r], [i \in at |-> NoDoc], {}, {})
        /\ result' = [result EXCEPT ![r] =
              IF at = {} THEN "DELETE_FAILURE_NOT_EXISTS" ELSE "DELETE_SUCCESS"]
        /\ Then(r, "unref")
        /\ UNCHANGED <<callVars, planVars, missed>>

(* A DELETE of rows that must wait will delete only rows it found at first. *)
Wait(r) ==
    /\ pc[r] \in {"unalias", "unref"} /\ Sent(r, pc[r])
    /\ txn[session[r]] # "failed"
    /\ Blockers(r) # {} /\ doomed[r] = {}
    /\ doomed' = [doomed EXCEPT ![r] = DeletedRows(r)]
    /\ UNCHANGED <<tables, queue, txnVars, pc, callVars, uuid, old, list, result, missed>>

Deadlock(r) ==
    /\ pc[r] \in {"write", "unalias", "unref"} /\ Sent(r, pc[r])
    /\ txn[session[r]] # "failed"
    /\ Deadlocked(session[r])
    /\ Fail(r)

(* The statement after the last write.  (Fault: no COMMIT.)                 *)
FinishNothing == "done"
Finish == "commit"

(* (Fault: the alias rows of the earlier version are left.)                 *)
ObsoleteAliasesNone(r) == {}
ObsoleteAliases(r) == DeletedRows(r)

DeleteAliases(r) ==
    /\ Writes(r, "unalias")
    /\ Write(session[r], Nothing, ObsoleteAliases(r), {})
    /\ list' = [list EXCEPT ![r] = IF req[r].op = "delete" THEN {} ELSE Aliases(req[r].id)]
    /\ Then(r, IF req[r].op = "delete" THEN Finish ELSE "alias")
    /\ doomed' = [doomed EXCEPT ![r] = {}]
    /\ UNCHANGED <<callVars, uuid, old, result, missed>>

(* insertAlias: the document's own MeadowlarkId, then the superclass's      *)
InsertAlias(r) ==
    LET i == req[r].id
    IN  /\ Writes(r, "alias")
        /\ \E a \in list[r] :
              /\ i \in list[r] => a = i
              /\ Write(session[r], Nothing, {}, {AliasRow(r, uuid[r], i, a)})
              /\ list' = [list EXCEPT ![r] = @ \ {a}]
              /\ Then(r, IF list[r] = {a} THEN "unref" ELSE "alias")
        /\ UNCHANGED <<callVars, uuid, old, doomed, result, missed>>

DeleteReferences(r) ==
    LET q == req[r]
    IN  /\ Writes(r, "unref")
        /\ Write(session[r], Nothing, DeletedRows(r), {})
        /\ list' = [list EXCEPT ![r] = q.refs]
        /\ Then(r, IF q.op = "delete" THEN "unalias" ELSE IF q.refs = {} THEN Finish ELSE "ref")
        /\ doomed' = [doomed EXCEPT ![r] = {}]
        /\ UNCHANGED <<callVars, uuid, old, result, missed>>

(* insertOutboundReferences                                                 *)
InsertReference(r) ==
    /\ Writes(r, "ref")
    /\ \E a \in list[r] :
          /\ Write(session[r], Nothing, {}, {ReferenceRow(r, req[r].id, a)})
          /\ list' = [list EXCEPT ![r] = @ \ {a}]
          /\ Then(r, IF list[r] = {a} THEN Finish ELSE "ref")
    /\ UNCHANGED <<callVars, uuid, old, doomed, result, missed>>

(* COMMIT of a failed transaction rolls back, and is no error.              *)
Commit(r) ==
    LET s == session[r]
    IN  /\ Sent(r, "commit")
        /\ IF txn[s] = "open" THEN Publish(s) ELSE UNCHANGED tables
        /\ EndTransaction(s, "none")
        /\ Then(r, "done")
        /\ UNCHANGED <<callVars, planVars, result, missed>>

Rollback(r) ==
    /\ Sent(r, "rollback")
    /\ EndTransaction(session[r], "none")
    /\ Then(r, "done")
    /\ UNCHANGED <<tables, callVars, planVars, result, missed>>

(* The worker process ends.  The server rolls its session back, unless a    *)
(* COMMIT was carried out whose caller is not there any more.               *)
Crash(s) ==
    /\ queue[s] # <<>>
    /\ \/ UNCHANGED tables
       \/ pc[Head(queue[s])] = "commit" /\ txn[s] = "open" /\ Publish(s)
    /\ EndTransaction(s, "none")
    /\ queue' = [queue EXCEPT ![s] = <<>>]
    /\ LET ended == {r \in Request : session[r] = s /\ pc[r] \notin {"idle", "done"}}
       IN  /\ pc' = [r \in Request |-> IF r \in ended THEN "done" ELSE pc[r]]
           /\ result' = [r \in Request |-> IF r \in ended THEN "NONE" ELSE result[r]]
           /\ doomed' = [r \in Request |-> IF r \in ended THEN {} ELSE doomed[r]]
    /\ UNCHANGED <<callVars, uuid, old, list, missed>>

-----------------------------------------------------------------------------
Init ==
    /\ docs \in Seed
    /\ rows = RowsOf(docs)
    /\ queue = [s \in Session |-> <<>>]
    /\ txn = [s \in Session |-> "none"]
    /\ pending = [s \in Session |-> Nothing]
    /\ gone = [s \in Session |-> {}]
    /\ fresh = [s \in Session |-> {}]
    /\ shared = [s \in Session |-> {}]
    /\ locked = [s \in Session |-> {}]
    /\ pc = [r \in Request |-> "idle"]
    /\ req = [r \in Request |-> NoCall]
    /\ session = [r \in Request |-> NoSession]
    /\ uuid = [r \in Request |-> NoUuid]
    /\ old = [r \in Request |-> {}]
    /\ list = [r \in Request |-> {}]
    /\ doomed = [r \in Request |-> {}]
    /\ result = [r \in Request |-> "NONE"]
    /\ missed = FALSE
    /\ issued = UuidsIn(docs)

Step(r) ==
    \/ Begin(r) \/ Rejected(r)
    \/ FindForUpsert(r) \/ FindForUpdate(r) \/ FindForDelete(r)
    \/ CheckReferencing(r) \/ CheckSuperclass(r) \/ ValidateReferences(r) \/ Report(r)
    \/ InsertDocument(r) \/ UpdateDocument(r) \/ DeleteDocument(r)
    \/ DeleteAliases(r) \/ InsertAlias(r) \/ DeleteReferences(r) \/ InsertReference(r)
    \/ Wait(r) \/ Deadlock(r) \/ Commit(r) \/ Rollback(r)

Quiescent == (\A r \in Request : pc[r] = "done") /\ UNCHANGED vars

Next ==
    \/ \E r \in Request : Receive(r) \/ Step(r)
    \/ \E s \in Session : Crash(s)
    \/ Quiescent

Spec == Init /\ [][Next]_vars

FairSpec == Spec /\ \A r \in Request : WF_vars(Step(r))

-----------------------------------------------------------------------------
(* Properties.                                                              *)

Active(s) == {r \in Request : session[r] = s /\ pc[r] \notin {"idle", "done"}}

(* A session's queue holds exactly the calls that use it, each once.        *)
QueueOK(s) ==
    /\ \A r \in Request : r \in Active(s) <=> \E n \in DOMAIN queue[s] : queue[s][n] = r
    /\ \A m, n \in DOMAIN queue[s] : queue[s][m] = queue[s][n] => m = n
    /\ Len(queue[s]) <= Overlap

(* Every variable has its type, and each call that uses a session has one   *)
(* statement in its queue.                                                  *)
TypeOK ==
    /\ docs \in Store
    /\ rows \subseteq Row
    /\ queue \in [Session -> Seq(Request)]
    /\ \A s \in Session : QueueOK(s)
    /\ txn \in [Session -> {"none", "open", "failed"}]
    /\ pending = [s \in Session |-> pending[s]]
    /\ \A s \in Session : /\ DOMAIN pending[s] \subseteq Id
                          /\ pending[s] \in [DOMAIN pending[s] -> Doc \cup {NoDoc}]
    /\ gone \in [Session -> SUBSET Row]
    /\ fresh \in [Session -> SUBSET Row]
    /\ shared \in [Session -> SUBSET Row]
    /\ locked \in [Session -> SUBSET Row]
    /\ pc \in [Request -> Statement \cup {"idle", "done"}]
    /\ req \in [Request -> Input \cup {NoCall}]
    /\ session \in [Request -> Session \cup {NoSession}]
    /\ \A r \in Request : pc[r] # "idle" => session[r] \in Session /\ req[r] \in Input
    /\ uuid \in [Request -> Uuid]
    /\ old \in [Request -> {{}} \cup {{i} : i \in Id}]
    /\ list \in [Request -> SUBSET Alias]
    /\ doomed \in [Request -> SUBSET Row]
    /\ result \in [Request -> Response]
    /\ missed \in BOOLEAN
    /\ issued \subseteq Uuid

OneCallPerSession == Overlap = 1
IdentitiesFixed == \A r \in Request : ~req[r].allow
SuperDisjoint == \A i, j \in Id : Super[i] \cap Super[j] # {} => i = j
ValidatedDeletes == \A r \in Request : req[r].op = "delete" => req[r].validate

(* A session nobody uses may have a transaction left open by a response     *)
(* returned without ROLLBACK, but it holds no lock and no uncommitted write *)
(* that would make other calls wait or leak into the next call's COMMIT.    *)
LeftOpenHoldsNothing ==
    \A s \in Session : Active(s) = {} =>
       /\ txn[s] # "failed"
       /\ DOMAIN pending[s] = {}
       /\ gone[s] \cup fresh[s] \cup shared[s] \cup locked[s] = {}

(* A validated document refers to documents that exist, whatever POSTs,     *)
(* PUTs and DELETEs of it and of what it refers to run at the same time:    *)
(* validateReferences locks the aliases that a DELETE must lock.  This      *)
(* takes sessions that serve one call at a time, no identity changes, no    *)
(* superclass identity that two documents could have, and no UPDATE that    *)
(* found its document deleted in the meantime.                              *)
ValidatedReferencesResolve ==
    OneCallPerSession /\ ValidatedDeletes /\ IdentitiesFixed /\ SuperDisjoint /\ ~missed =>
       \A i \in Id : docs[i] # NoDoc /\ docs[i].validated => Resolves(docs, docs[i].refs)

(* The three tables agree whenever a transaction has been committed: each   *)
(* document has one row for each of its aliases and references, and no row  *)
(* is without its document; on sessions that serve one call at a time, with *)
(* no identity changes and no UPDATE that found its document deleted.       *)
SameContents(v, w) ==
    v.table = w.table /\ v.uuid = w.uuid /\ v.mid = w.mid /\ v.alias = w.alias
TablesAgree ==
    OneCallPerSession /\ IdentitiesFixed /\ ~missed =>
       /\ \A v \in RowsOf(docs) : \E w \in rows : SameContents(v, w)
       /\ \A w \in rows : \E v \in RowsOf(docs) : SameContents(v, w)
       /\ \A v, w \in rows : SameContents(v, w) => v = w

(* What is committed is what the response says, on sessions that serve one  *)
(* call at a time: a new document for INSERT_SUCCESS, the request's version *)
(* for UPDATE_SUCCESS (a POST whose document was deleted after it was found *)
(* changes nothing), none with that uuid after a DELETE, and no change for  *)
(* any other response.                                                      *)
AnswerTellsWhatHappened ==
    [][OneCallPerSession =>
         \A r \in Request :
            pc[r] \notin {"idle", "done"} /\ pc'[r] = "done" /\ result'[r] # "NONE" =>
               LET i == req[r].id
                   stored == docs'[i] # NoDoc /\ docs'[i].uuid = uuid[r]
                                /\ docs'[i].lastModifiedAt = req[r].ts
                   existed == uuid[r] \in UuidsIn(docs)
               IN  CASE result'[r] = "INSERT_SUCCESS" -> docs[i] = NoDoc /\ stored
                     [] result'[r] = "UPDATE_SUCCESS" ->
                           IF existed THEN stored ELSE req[r].op = "upsert" /\ docs' = docs
                     [] result'[r] = "DELETE_SUCCESS" ->
                           existed /\ UuidsIn(docs') = UuidsIn(docs) \ {uuid[r]}
                     [] OTHER -> docs' = docs]_vars

(* Every call is answered, or ends with its process: a statement that waits *)
(* for a row waits for calls that end, or the deadlock is broken.           *)
EveryCallAnswered == \A r \in Request : pc[r] = "begin" ~> pc[r] = "done"

(* Whatever the interleaving, a commit creates, replaces, moves or removes  *)
(* one document; a documentUuid and its createdAt last for life, and a      *)
(* deleted documentUuid never comes back, and no document takes the         *)
(* identity of another.  Versions are not ordered.                          *)
Abstract == INSTANCE DocumentStore WITH store <- docs, Ordered <- FALSE, Exclusive <- TRUE
ImplementsDocumentStore == Abstract!Spec
=============================================================================
