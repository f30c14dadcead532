--------------------------- MODULE RequestPipeline ---------------------------
(***************************************************************************)
(* One worker's requests, from their arrival to the response: plugins, the *)
(* middleware stack, ownership, the handler, the document store, and the   *)
(* listener that tells the search index (OpenSearch or Elasticsearch) of a *)
(* change once the store has committed it.  Authorization is the subject   *)
(* of AuthMiddleware and the inside of the store that of MongoStore and    *)
(* PostgresStore; here each is a step that answers.                        *)
(***************************************************************************)
EXTENDS Integers, Sequences, FiniteSets

CONSTANTS
    Requests,          \* requests the worker is sent, numbered as they arrive
    Inputs,            \* what each of them can ask for
    Id, NoDoc,         \* MeadowlarkIds, and no document
    Resource,          \* endpoints
    ResourceOf,        \* the endpoint of each MeadowlarkId
    Descriptors,       \* the endpoints of descriptors
    Renamable,         \* the endpoints with allowIdentityUpdates
    LoadedDescriptors, \* the descriptors of the XML files, in their order
    Backends,          \* the document store plugins it may be configured with
    InitialStores,     \* stores the worker may start with, all of it indexed
    Clients, Loader,   \* clients, and who the descriptor loader acts as
    Seed,              \* who wrote the documents of an initial store
    Nothing, NoUuid,
    LoadedParts,       \* how many plugins may come to be loaded
    Refusals,          \* the statuses authorize may refuse a request with
    MaxUuid,           \* bound: documentUuids there are
    MaxCrashes         \* times the worker may end

ASSUME LoadedDescriptorsAssumption ==
    LoadedDescriptors \in Seq(Id) /\ LoadedDescriptors # <<>>

(* generateDocumentUuid never repeats itself: uuids are counted.            *)
Uuid == 1 .. MaxUuid
Write == {"upsert", "update", "deleteById"}
Op == Write \cup {"getById", "query", "loadDescriptors"}
Check == {"path", "body", "namespace", "endpoint", "document", "equality", "extraction", "query", "id"}
Input == [op : Op, resource : Resource, id : Id, client : Clients, ownership : BOOLEAN,
          bad : SUBSET Check]

(* A document is by the request that wrote it last, whose client is its     *)
(* writer: not always its owner, and kept by no store.                      *)
Doc == [uuid : Uuid, createdBy : Clients \cup {Loader}, writer : Clients \cup {Loader},
        lastModifiedAt : Nat, by : Requests \cup {Seed}]
(* What the index holds of a document, in the index of an endpoint and      *)
(* under a documentUuid.                                                    *)
Entry == Resource \X Uuid
Value == [id : Id, createdBy : Clients \cup {Loader}, by : Requests \cup {Seed}]
Change == [entry : Entry, value : Value \cup {Nothing}]
Call == [by : Requests, entry : Entry, value : Value \cup {Nothing}]

ASSUME BoundsAssumption == MaxUuid \in Nat /\ MaxCrashes \in Nat /\ LoadedParts \subseteq 0 .. 3
ASSUME NamesAssumption ==
    /\ Seed \notin Requests /\ NoDoc \notin Doc /\ NoUuid \notin Uuid
    /\ Nothing \notin Value /\ Nothing \notin Entry
(* A document of a POST or PUT has the identity its endpoint's schema gives *)
(* it.                                                                      *)
ASSUME InputsAssumption ==
    /\ ResourceOf \in [Id -> Resource]
    /\ Inputs \in [Requests -> SUBSET Input] /\ \A r \in Requests : Inputs[r] # {}
    /\ \A r \in Requests : \A q \in Inputs[r] :
           q.op \in {"upsert", "update"} => q.resource = ResourceOf[q.id]
ASSUME BackendsAssumption == Backends \subseteq {"MongoDB", "PostgreSQL"}
ASSUME RefusalsAssumption == Refusals \subseteq {400, 401, 500, 502}
(* The first documentUuids are those of the store the worker starts with.   *)
ASSUME StoresAssumption ==
    \A s \in InitialStores :
        LET there == {i \in Id : s[i] # NoDoc} IN
        /\ s \in [Id -> Doc \cup {NoDoc}]
        /\ Cardinality(there) \in 0 .. MaxUuid
        /\ \A i \in there : s[i].by = Seed /\ s[i].writer = s[i].createdBy /\ s[i].uuid <= Cardinality(there)
        /\ \A i, j \in there : s[i].uuid = s[j].uuid => i = j

VARIABLES
    loading,     \* loadAllPlugins: "no", "running", "over"
    loaded,      \* the plugins that are loaded
    schema,      \* whether the API schema is cached
    clock,       \* the latest timestamp
    store,       \* the document store
    issued,      \* how many documentUuids were generated
    backend,     \* the document store's plugin
    found,       \* the documentUuid a POST or PUT has found in PostgreSQL, to be rewritten
    index,       \* the search index
    calls,       \* calls to the index that may still be applied
    crashes,     \* times the worker ended
    pc,          \* where each request is
    input,       \* what it asks for
    uuid,        \* the documentUuid in its path
    bad,         \* the checks it fails
    guarded,     \* whether its stack was built with the loaded store's middleware
    timestamp,   \* timestampRequest
    todo,        \* the next descriptor to load
    result,      \* what the store or the index responded
    notice,      \* the change the listeners are told of
    answer,      \* the documents a query found
    status,      \* the response, 0 until there is one
    saw,         \* history: the owners its document had since it arrived
    before,      \* history: the requests that were answered when it arrived
    wrote,       \* history: the changes it committed
    reported,    \* history: the changes the store said it made, and those it began with
    skipped,     \* history: the descriptors whose upsert failed
    troubled     \* history: entries whose last change did not reach the index

workerVars == <<loading, loaded, schema, clock>>
storeVars == <<store, issued, backend, found>>
indexVars == <<index, calls, troubled>>
requestVars == <<input, uuid, bad, guarded>>
handlerVars == <<timestamp, todo, result, notice, answer, status, skipped>>
historyVars == <<saw, before, wrote, reported>>
vars == <<workerVars, indexVars, requestVars, handlerVars, historyVars, storeVars, crashes, pc>>

Part == {"store", "query", "listeners"}
Progress == {"idle", "plugins", "authorize", "ownership", "store", "stored", "indexing",
             "query", "answer", "done", "lost"}
Success == {"INSERT_SUCCESS", "UPDATE_SUCCESS", "DELETE_SUCCESS"}
NoNotice == [entry |-> Nothing, value |-> Nothing]
Nobody == "nobody"

TypeOK ==
    /\ loading \in {"no", "running", "over"} /\ loaded \subseteq Part /\ schema \in BOOLEAN
    /\ store \in [Id -> Doc \cup {NoDoc}]
    /\ index \in [Entry -> Value \cup {Nothing}]
    /\ calls \subseteq Call
    /\ pc \in [Requests -> Progress] /\ guarded \in [Requests -> BOOLEAN]
    /\ input \in [Requests -> Input]
    /\ uuid \in [Requests -> Uuid \cup {NoUuid}] /\ found \in [Requests -> Uuid \cup {NoUuid}]
    /\ \A r \in Requests : timestamp[r] \in 0 .. clock /\ bad[r] \subseteq Check
    /\ todo \in [Requests -> DOMAIN LoadedDescriptors]
    /\ status \in [Requests -> {0, 200, 201, 202, 204, 400, 401, 403, 404, 409, 500, 502}]
    /\ \A r \in Requests : answer[r] \subseteq Value /\ skipped[r] \subseteq Id
    /\ troubled \subseteq Entry

-----------------------------------------------------------------------------
(* The middlewares, which a request fails that has what they check in bad.  *)
(* Each gives the status of its response, or 0 when it lets it through.     *)

Rejects(r, check, code) == IF check \in bad[r] THEN code ELSE 0

(* A path that is none, or whose documentUuid is not well-formed.           *)
parsePath(r) == Rejects(r, "path", 404)
parseBody(r) == Rejects(r, "body", 400)

(* get parses the path by itself and drops the 404 of a malformed one: it   *)
(* goes on as a query of no endpoint in no namespace.                       *)
LacksPath(r) == input[r].op = "query" /\ "path" \in bad[r]

(* NoProjectSchema has no endpoint, so that the namespace, unknown as it is,*)
(* is looked up for the names of its endpoints, which throws.               *)
matchResourceSchema(r) == Rejects(r, IF LacksPath(r) THEN "path" ELSE "namespace", 500)
validateEndpoint(r) == Rejects(r, "endpoint", 404)
endpointValidation(r) == IF matchResourceSchema(r) # 0 THEN matchResourceSchema(r) ELSE validateEndpoint(r)

documentValidation(r) == Rejects(r, "document", 400)
equalityConstraintValidation(r) == Rejects(r, "equality", 400)
(* An identity that cannot be found throws.                                 *)
documentInfoExtraction(r) == Rejects(r, "extraction", 500)
queryValidation(r) == Rejects(r, "query", 400)

(* The stacks: what comes after authorize and before ownership.             *)
postStack(r) ==
    <<parsePath(r), parseBody(r), endpointValidation(r), documentValidation(r),
      equalityConstraintValidation(r), documentInfoExtraction(r)>>
putStack(r) ==
    <<parsePath(r), parseBody(r), endpointValidation(r), documentValidation(r),
      equalityConstraintValidation(r), documentInfoExtraction(r)>>
deleteStack(r) == <<parsePath(r), endpointValidation(r)>>
getByIdStack(r) == <<endpointValidation(r)>>
queryStack(r) == <<endpointValidation(r), queryValidation(r)>>

(* The first that fails makes the response, and those after it keep it.     *)
StackStatus(stack) ==
    LET failing == {k \in DOMAIN stack : stack[k] # 0}
    IN IF failing = {} THEN 0 ELSE stack[CHOOSE k \in failing : \A j \in failing : k <= j]

(* PUT needs a documentUuid, and the same one in the body.                  *)
UpdateRefusal(r) == IF uuid[r] = NoUuid \/ "id" \in bad[r] THEN 400 ELSE 0
DeleteRefusal(r) == IF uuid[r] = NoUuid THEN 404 ELSE 0
HandlerStatus(r) ==
    CASE input[r].op = "update" -> UpdateRefusal(r)
      [] input[r].op = "deleteById" -> DeleteRefusal(r)
      [] OTHER -> 0

(* What the handlers answer to the store's responses, which are named here  *)
(* without the operation in front of them.                                  *)
UpsertStatus(response) ==
    CASE response = "INSERT_SUCCESS" -> 201
      [] response = "UPDATE_SUCCESS" -> 200
      [] response \in {"FAILURE_REFERENCE", "FAILURE_CONFLICT", "FAILURE_WRITE_CONFLICT"} -> 409
      [] OTHER -> 500

(* Fault: the outcome nobody listed counts as a conflict.                   *)
FailureIsAConflict(response) ==
    CASE response = "UPDATE_SUCCESS" -> 204
      [] response = "FAILURE_NOT_EXISTS" -> 404
      [] response = "UPDATE_FAILURE_IMMUTABLE_IDENTITY" -> 400
      [] OTHER -> 409

UpdateStatus(response) ==
    CASE response = "UPDATE_SUCCESS" -> 204
      [] response = "FAILURE_NOT_EXISTS" -> 404
      [] response = "UPDATE_FAILURE_IMMUTABLE_IDENTITY" -> 400
      [] response \in {"FAILURE_REFERENCE", "FAILURE_CONFLICT", "FAILURE_WRITE_CONFLICT",
                       "UPDATE_CASCADE_REQUIRED"} -> 409
      [] OTHER -> 500

(* A deletion that met another transaction is answered 404.                 *)
DeleteStatus(response) ==
    CASE response = "DELETE_SUCCESS" -> 204
      [] response \in {"FAILURE_NOT_EXISTS", "FAILURE_WRITE_CONFLICT"} -> 404
      [] response = "FAILURE_REFERENCE" -> 409
      [] OTHER -> 500

GetStatus(response) ==
    CASE response = "UNKNOWN_FAILURE" -> 500 [] response = "FAILURE_NOT_EXISTS" -> 404 [] OTHER -> 200

QueryStatus(response) ==
    CASE response \in {"UNKNOWN_FAILURE", "QUERY_FAILURE_INVALID_QUERY"} -> 500
      [] response = "QUERY_FAILURE_CONNECTION_ERROR" -> 502
      [] OTHER -> 200

ResponseStatus(op, response) ==
    CASE op = "upsert" -> UpsertStatus(response)
      [] op = "update" -> UpdateStatus(response)
      [] op = "deleteById" -> DeleteStatus(response)
      [] op = "getById" -> GetStatus(response)
      [] op = "query" -> QueryStatus(response)

-----------------------------------------------------------------------------
(* What is where.                                                           *)

At(u) == {i \in Id : store[i] # NoDoc /\ store[i].uuid = u}

(* The document a request is about: by its documentUuid when it has one, by *)
(* its identity when it is a POST.                                          *)
Target(r) ==
    IF uuid[r] # NoUuid THEN At(uuid[r])
    ELSE IF input[r].op = "upsert" THEN {i \in {input[r].id} : store[i] # NoDoc} ELSE {}

Owners(s, r) ==
    LET owned == {i \in Id : s[i] # NoDoc /\
                     IF uuid[r] # NoUuid THEN s[i].uuid = uuid[r] ELSE i = input[r].id}
    IN IF ~input[r].ownership THEN {} ELSE IF owned = {} THEN {Nobody} ELSE {s[i].createdBy : i \in owned}

(* The entry the index should have for what the store holds: listeners pass *)
(* on the client of the request as the owner, whatever owner the store kept.*)
Projection(s, e) ==
    LET there == {i \in Id : s[i] # NoDoc /\ <<ResourceOf[i], s[i].uuid>> = e} IN
    IF there = {} THEN Nothing
    ELSE LET i == CHOOSE j \in there : TRUE
         IN [id |-> i, createdBy |-> s[i].writer, by |-> s[i].by]

InFlight(r) == pc[r] \notin {"idle", "done", "lost"}
Publishing(r) == pc[r] \in {"stored", "indexing"}

(* A change of the entry is on its way to the index.                        *)
OnItsWay(e) ==
    \/ \E r \in Requests : Publishing(r) /\ notice[r].entry = e
    \/ \E c \in calls : c.entry = e

-----------------------------------------------------------------------------
(* Up to the store.                                                         *)

(* A GET with a documentUuid is of a document, without one it is a query;   *)
(* PUT and DELETE may come with or without, POST comes without.             *)
get(q, u) ==
    /\ q.op = "getById" => u # NoUuid
    /\ q.op \in {"query", "upsert", "loadDescriptors"} => u = NoUuid

(* Loading the plugins begins with the first request of the worker.         *)
initialize == IF loading = "no" THEN "running" ELSE loading

Arrive(r, q, u) ==
    /\ pc[r] = "idle" /\ \A o \in Requests : o < r => pc[o] # "idle"
    /\ get(q, u)
    /\ input' = [input EXCEPT ![r] = q]
    /\ uuid' = [uuid EXCEPT ![r] = u]
    /\ pc' = [pc EXCEPT ![r] = "plugins"]
    /\ loading' = initialize
    /\ before' = [before EXCEPT ![r] = IF q.op = "query" THEN {o \in Requests : pc[o] = "done"} ELSE {}]
    /\ UNCHANGED <<loaded, schema, clock, indexVars, bad, guarded, handlerVars, saw, wrote, reported,
                   storeVars, crashes>>

(* The plugins are loaded one after the other and the first that fails is   *)
(* the last.                                                                *)
Loaded(n) == {<<"store", "query", "listeners">>[k] : k \in 1 .. n}

loadAllPlugins(n) ==
    /\ loading = "running"
    /\ loading' = "over"
    /\ loaded' = Loaded(n)
    /\ UNCHANGED <<schema, clock, indexVars, requestVars, handlerVars, historyVars, storeVars, crashes, pc>>

(* ensurePluginsLoaded is over, once for all requests, however it ended.    *)
PluginsLoaded == loading = "over"

Answered(r, s) ==
    /\ pc' = [pc EXCEPT ![r] = "done"]
    /\ status' = [status EXCEPT ![r] = s]
    /\ timestamp' = [timestamp EXCEPT ![r] = 0]

GoTo(r, where) == pc' = [pc EXCEPT ![r] = where] /\ UNCHANGED <<status, timestamp>>

(* POST and PUT take the time before anything is awaited.                   *)
timestampRequest(r, t) ==
    /\ t \in IF input[r].op \in {"upsert", "update"} THEN {clock, clock + 1} ELSE {0}
    /\ clock' = IF input[r].op \in {"upsert", "update"} THEN t ELSE clock
    /\ timestamp' = [timestamp EXCEPT ![r] = t]

(* The API schema is read unless it is cached, and without it no namespace  *)
(* is known.                                                                *)
findApiSchema(r, isRead) ==
    LET needsSchema == input[r].op # "loadDescriptors" IN
    /\ isRead \in IF needsSchema /\ ~schema THEN BOOLEAN ELSE {schema}
    /\ schema' = isRead
    /\ bad' = [bad EXCEPT ![r] = input[r].bad \cup IF needsSchema /\ ~isRead THEN {"namespace"} ELSE {}]

(* The stack is made with the middleware of the store that is loaded now.   *)
Begin(r, t, isRead) ==
    /\ pc[r] = "plugins"
    /\ PluginsLoaded
    /\ timestampRequest(r, t)
    /\ findApiSchema(r, isRead)
    /\ guarded' = [guarded EXCEPT ![r] = "store" \in loaded]
    /\ saw' = [saw EXCEPT ![r] = Owners(store, r)]
    /\ pc' = [pc EXCEPT ![r] = "authorize"]
    /\ UNCHANGED <<loading, loaded, indexVars, input, uuid, todo, result, notice, answer, status,
                   skipped, before, wrote, reported, storeVars, crashes>>

Continue(r) ==
    IF HandlerStatus(r) # 0 THEN Answered(r, HandlerStatus(r)) ELSE GoTo(r, "store")

(* securityMiddleware, or the handler when ownership is not asked about.    *)
Secured(r) == IF input[r].ownership /\ guarded[r] THEN GoTo(r, "ownership") ELSE Continue(r)

(* authorize refuses the request (AuthMiddleware), or the rest of the stack *)
(* follows without an await that another request could change anything at.  *)
Passes(r, stack, onward) ==
    /\ pc[r] = "authorize"
    /\ \/ \E refusal \in Refusals : Answered(r, refusal)
       \/ StackStatus(stack) # 0 /\ Answered(r, StackStatus(stack))
       \/ StackStatus(stack) = 0 /\ onward
    /\ UNCHANGED <<workerVars, indexVars, requestVars, todo, result, notice, answer, skipped,
                   historyVars, storeVars, crashes>>

upsert(r) == input[r].op = "upsert" /\ Passes(r, postStack(r), Secured(r))
update(r) == input[r].op = "update" /\ Passes(r, putStack(r), Secured(r))
deleteIt(r) == input[r].op = "deleteById" /\ Passes(r, deleteStack(r), Secured(r))
getById(r) == input[r].op = "getById" /\ Passes(r, getByIdStack(r), Secured(r))
query(r) == input[r].op = "query" /\ Passes(r, queryStack(r), GoTo(r, "query"))
loadDescriptors(r) == input[r].op = "loadDescriptors" /\ Passes(r, <<>>, GoTo(r, "store"))

(* Fault: descriptors have no owner, whatever is done with them.            *)
NoDescriptorIsOwned(r) == input[r].resource \in Descriptors

(* Reading a descriptor is everybody's right.                               *)
OwnershipNotApplicable(r) == input[r].resource \in Descriptors /\ input[r].op = "getById"

(* One read of the store, before the handler's own.  What is not there      *)
(* belongs to nobody.                                                       *)
rejectByOwnershipSecurity(r, fails) ==
    IF OwnershipNotApplicable(r) THEN "NOT_APPLICABLE"
    ELSE IF fails THEN "UNKNOWN_FAILURE"
    ELSE IF Target(r) = {} THEN "NOT_APPLICABLE"
    ELSE IF \A i \in Target(r) : store[i].createdBy = input[r].client THEN "ACCESS_APPROVED"
    ELSE "ACCESS_DENIED"

securityMiddleware(r, fails) ==
    /\ pc[r] = "ownership"
    /\ LET securityResult == rejectByOwnershipSecurity(r, fails) IN
       CASE securityResult \in {"ACCESS_APPROVED", "NOT_APPLICABLE"} -> Continue(r)
         [] securityResult = "UNKNOWN_FAILURE" -> Answered(r, 500)
         [] securityResult = "ACCESS_DENIED" -> Answered(r, 403)
    /\ UNCHANGED <<workerVars, indexVars, requestVars, todo, result, notice, answer, skipped,
                   historyVars, storeVars, crashes>>

-----------------------------------------------------------------------------
(* The document store, and what it may answer.  A call is one step, apart   *)
(* from what PostgreSQL reads in one statement and rewrites in another, and *)
(* from what MongoDB runs again.                                            *)

IsLoad(r) == input[r].op = "loadDescriptors"
(* The descriptor loader upserts as newSecurity and newDocumentInfo say:    *)
(* for no client and at timestamp 0.                                        *)
IdOf(r) == IF IsLoad(r) THEN LoadedDescriptors[todo[r]] ELSE input[r].id
ClientOf(r) == IF IsLoad(r) THEN Loader ELSE input[r].client
EndpointOf(r) == IF IsLoad(r) THEN ResourceOf[IdOf(r)] ELSE input[r].resource

Version(r, u, owner) ==
    [uuid |-> u, createdBy |-> owner, writer |-> ClientOf(r), lastModifiedAt |-> timestamp[r], by |-> r]
Indexed(r) == [id |-> IdOf(r), createdBy |-> ClientOf(r), by |-> r]
Notice(r, u, value) == [entry |-> <<EndpointOf(r), u>>, value |-> value]

Responds(r, response, n) ==
    /\ result' = [result EXCEPT ![r] = response]
    /\ notice' = [notice EXCEPT ![r] = n]
    /\ found' = [found EXCEPT ![r] = NoUuid]
    /\ GoTo(r, "stored")
    /\ skipped' = IF IsLoad(r) /\ response \notin Success
                  THEN [skipped EXCEPT ![r] = @ \cup {IdOf(r)}] ELSE skipped

(* The call rejects: its handler answers for it, no listener is told, and   *)
(* the loader of descriptors ends.                                          *)
Throws(r) ==
    /\ Answered(r, 500)
    /\ found' = [found EXCEPT ![r] = NoUuid]
    /\ UNCHANGED <<result, notice, skipped>>

(* withTransaction, or retry, runs the transaction again.                   *)
Reruns(r) == GoTo(r, "store") /\ UNCHANGED <<result, notice, found, skipped>>

(* The store committed s; the change n is for the listeners to tell, if     *)
(* they are told.  Entries it changed besides that one are never told of:   *)
(* of a document another one took the identity of, or that was reached over *)
(* an endpoint that is not its own.                                         *)
Commits(r, s, n, isTold) ==
    LET e == n.entry
        besides == {x \in Entry \ {e} : Projection(s, x) # Projection(store, x)}
        isInOrder == isTold /\ ~OnItsWay(e)
    IN /\ store' = s
       /\ issued' = IF e[2] > issued THEN e[2] ELSE issued
       /\ wrote' = [wrote EXCEPT ![r] = @ \cup {n}]
       /\ reported' = IF isTold THEN [reported EXCEPT ![r] = @ \cup {n}] ELSE reported
       /\ saw' = [o \in Requests |-> IF InFlight(o) /\ o # r THEN saw[o] \cup Owners(s, o) ELSE saw[o]]
       /\ troubled' = (IF isInOrder THEN troubled \ {e} ELSE troubled \cup {e}) \cup besides
       /\ UNCHANGED backend

(* The store commits and says so, or the answer to the commit is lost: then *)
(* MongoDB may run the transaction again, on a store that has the change.   *)
Succeeds(r, s, n, response) ==
    \/ Commits(r, s, n, TRUE) /\ Responds(r, response, n)
    \/ /\ Commits(r, s, n, FALSE)
       /\ \/ Responds(r, "UNKNOWN_FAILURE", n)
          \/ Throws(r)
          \/ backend = "MongoDB" /\ Reruns(r)

(* Nothing is committed: the call failed, met another transaction, or was   *)
(* refused for references it has or would leave behind.                     *)
Refuses(r, responses, n) ==
    /\ \/ \E response \in responses \cup {"UNKNOWN_FAILURE", "FAILURE_WRITE_CONFLICT", "FAILURE_REFERENCE"} :
              Responds(r, response, n)
       \/ Throws(r)
    /\ UNCHANGED <<store, issued, backend, wrote, reported, saw, troubled>>

(* The document is older than the request.                                  *)
IsFresh(r, i) == timestamp[r] > store[i].lastModifiedAt

(* PostgreSQL reads the document, which is to be fresh, in a statement of   *)
(* its own: other requests may come before it is rewritten.                 *)
Finds(r, i) ==
    /\ backend = "PostgreSQL" /\ found[r] = NoUuid
    /\ found' = [found EXCEPT ![r] = store[i].uuid]
    /\ GoTo(r, "store")
    /\ UNCHANGED <<store, issued, backend, wrote, reported, saw, troubled, result, notice, skipped>>

(* It rewrites what has the documentUuid by now, fresh or not, unless the   *)
(* identity is another document's.                                          *)
Rewrites(r, j, n) ==
    \E i \in At(found[r]) :
        /\ i = j \/ store[j] = NoDoc
        /\ Succeeds(r, [store EXCEPT ![i] = NoDoc, ![j] = Version(r, found[r], ClientOf(r))], n,
                    "UPDATE_SUCCESS")

(* Nothing has it any more: a POST does not look at how many rows there     *)
(* were, and listeners are told of a change that was not made.              *)
Misses(r, n) ==
    /\ found[r] # NoUuid /\ At(found[r]) = {}
    /\ reported' = [reported EXCEPT ![r] = @ \cup {n}]
    /\ troubled' = troubled \cup {n.entry}
    /\ Responds(r, "UPDATE_SUCCESS", n)
    /\ UNCHANGED <<store, issued, backend, wrote, saw>>

upsertDocument(r) ==
    LET i == IdOf(r)
        isThere == store[i] # NoDoc
        u == IF found[r] # NoUuid THEN found[r] ELSE IF isThere THEN store[i].uuid ELSE issued + 1
        n == Notice(r, u, Indexed(r))
        version == [store EXCEPT ![i] = Version(r, u, ClientOf(r))]
    IN \/ /\ found[r] = NoUuid /\ ~isThere /\ issued < MaxUuid
          /\ Succeeds(r, version, n, "INSERT_SUCCESS")
       \/ /\ isThere /\ IsFresh(r, i)
          /\ Finds(r, i) \/ (backend = "MongoDB" /\ Succeeds(r, version, n, "UPDATE_SUCCESS"))
       \/ Rewrites(r, i, n)
       \/ Misses(r, n)
       \/ Refuses(r, IF isThere THEN {} ELSE {"FAILURE_CONFLICT"}, n)

(* Why a PUT of identity j may be refused besides: stale requests are told  *)
(* so before they are told of the identity.                                 *)
UpdateFailures(r, j) ==
    LET isRenamable == input[r].resource \in Renamable
        others == At(uuid[r]) \ {j}
    IN IF At(uuid[r]) = {} THEN {"FAILURE_NOT_EXISTS"}
       ELSE IF isRenamable /\ others # {} /\ backend = "MongoDB"
       THEN {"UPDATE_CASCADE_REQUIRED", "FAILURE_CONFLICT"}
       ELSE IF ~isRenamable /\ \E i \in others : IsFresh(r, i)
       THEN {"UPDATE_FAILURE_IMMUTABLE_IDENTITY"}
       ELSE {}

(* A document keeps its identity unless its endpoint lets it change; MongoDB*)
(* then puts it in the place of a document that has the identity already,   *)
(* as the requester's, while a document that keeps its identity keeps its   *)
(* owner.                                                                   *)
updateDocumentById(r) ==
    LET j == input[r].id
        n == Notice(r, uuid[r], Indexed(r))
        owner(i) == IF i = j THEN store[i].createdBy ELSE ClientOf(r)
    IN \/ \E i \in At(uuid[r]) :
             /\ i = j \/ input[r].resource \in Renamable
             /\ IsFresh(r, i)
             /\ \/ Finds(r, i)
                \/ /\ backend = "MongoDB"
                   /\ Succeeds(r, [store EXCEPT ![i] = NoDoc, ![j] = Version(r, uuid[r], owner(i))], n,
                               "UPDATE_SUCCESS")
       \/ Rewrites(r, j, n)
       \/ Refuses(r, UpdateFailures(r, j), n)

(* By documentUuid alone: the endpoint does not matter to the store.        *)
deleteDocumentById(r) ==
    LET n == Notice(r, uuid[r], Nothing)
    IN \/ \E i \in At(uuid[r]) : Succeeds(r, [store EXCEPT ![i] = NoDoc], n, "DELETE_SUCCESS")
       \/ Refuses(r, IF At(uuid[r]) = {} THEN {"FAILURE_NOT_EXISTS"} ELSE {}, n)

(* Fault: loadDescriptors waits for a plugin that cannot be loaded.         *)
KeepsTrying(r) == UNCHANGED loaded /\ GoTo(r, "store")

(* loadDescriptors tries once more to load the store plugin.                *)
loadDocumentStore(r) ==
    \/ loaded' = loaded \cup {"store"} /\ GoTo(r, "store")
    \/ UNCHANGED loaded /\ Answered(r, 500)

(* Without a store plugin every call fails.                                 *)
NoDocumentStore(r) ==
    /\ pc[r] = "store" /\ "store" \notin loaded
    /\ IF IsLoad(r)
       THEN loadDocumentStore(r) /\ UNCHANGED result
       ELSE /\ result' = [result EXCEPT ![r] = "UNKNOWN_FAILURE"]
            /\ GoTo(r, "answer")
            /\ UNCHANGED loaded
    /\ UNCHANGED <<loading, schema, clock, indexVars, requestVars, todo, notice, answer, skipped,
                   historyVars, storeVars, crashes>>

StoreCall(r) ==
    /\ pc[r] = "store" /\ "store" \in loaded
    /\ CASE input[r].op \in {"upsert", "loadDescriptors"} -> upsertDocument(r)
         [] input[r].op = "update" -> updateDocumentById(r)
         [] input[r].op = "deleteById" -> deleteDocumentById(r)
         [] OTHER -> FALSE
    /\ UNCHANGED <<workerVars, requestVars, index, calls, todo, answer, before, crashes>>

getDocumentById(r) ==
    /\ pc[r] = "store" /\ "store" \in loaded
    /\ input[r].op = "getById"
    /\ \/ result' = [result EXCEPT ![r] = "UNKNOWN_FAILURE"]
       \/ result' = [result EXCEPT ![r] = IF At(uuid[r]) = {} THEN "FAILURE_NOT_EXISTS" ELSE "GET_SUCCESS"]
    /\ GoTo(r, "answer")
    /\ UNCHANGED <<workerVars, indexVars, requestVars, todo, notice, answer, skipped, historyVars,
                   storeVars, crashes>>

-----------------------------------------------------------------------------
(* The listeners and the search index.                                      *)

(* Fault: the listeners do not look at what became of the request.          *)
EveryResult(r) == TRUE

(* What the listeners of the index pass on.                                 *)
afterUpsertDocument(r) == result[r] \in {"INSERT_SUCCESS", "UPDATE_SUCCESS"}
afterUpdateDocumentById(r) == result[r] = "UPDATE_SUCCESS"
afterDeleteDocumentById(r) == result[r] = "DELETE_SUCCESS"

IsToldOf(r) ==
    CASE input[r].op \in {"upsert", "loadDescriptors"} -> afterUpsertDocument(r)
      [] input[r].op = "update" -> afterUpdateDocumentById(r)
      [] input[r].op = "deleteById" -> afterDeleteDocumentById(r)

(* Fault: nobody waits for the index.                                       *)
FireAndForget(r) == GoTo(r, "answer")

(* The handler waits for the listeners, and they for the index.             *)
AwaitIndex(r) == GoTo(r, "indexing")

Publish(r) ==
    /\ pc[r] = "stored"
    /\ IF "listeners" \in loaded /\ IsToldOf(r)
       THEN /\ calls' = calls \cup {[by |-> r, entry |-> notice[r].entry, value |-> notice[r].value]}
            /\ AwaitIndex(r)
            /\ UNCHANGED troubled
       ELSE /\ troubled' = IF IsToldOf(r) THEN troubled \cup {notice[r].entry} ELSE troubled
            /\ GoTo(r, "answer")
            /\ UNCHANGED calls
    /\ UNCHANGED <<workerVars, index, requestVars, todo, result, notice, answer, skipped,
                   historyVars, storeVars, crashes>>

Forget(r) ==
    /\ result' = [result EXCEPT ![r] = "none"]
    /\ notice' = [notice EXCEPT ![r] = NoNotice]

(* The client of the index cannot be created: the listener throws before it *)
(* looks at the result, and the handler answers for it.                     *)
ListenerThrows(r) ==
    /\ pc[r] = "stored" /\ "listeners" \in loaded
    /\ troubled' = IF IsToldOf(r) THEN troubled \cup {notice[r].entry} ELSE troubled
    /\ Answered(r, 500) /\ Forget(r)
    /\ UNCHANGED <<workerVars, index, calls, requestVars, todo, answer, skipped,
                   historyVars, storeVars, crashes>>

Awaited(c) == pc[c.by] = "indexing" /\ notice[c.by].entry = c.entry
CallReturns(c) ==
    /\ calls' = calls \ {c}
    /\ pc' = IF Awaited(c) THEN [pc EXCEPT ![c.by] = "answer"] ELSE pc

(* The index does as it is told, in whatever order the calls reach it:      *)
(* changes carry no version.                                                *)
IndexApplies(c) ==
    /\ c \in calls
    /\ index' = [index EXCEPT ![c.entry] = c.value]
    /\ CallReturns(c)
    /\ UNCHANGED <<workerVars, troubled, requestVars, handlerVars, historyVars, storeVars, crashes>>

(* It refuses the call, or is never reached; the error is logged.           *)
IndexFails(c) ==
    /\ c \in calls
    /\ troubled' = troubled \cup {c.entry}
    /\ CallReturns(c)
    /\ UNCHANGED <<workerVars, index, requestVars, handlerVars, historyVars, storeVars, crashes>>

(* The client gives up on a call that may yet be applied.                   *)
IndexTimesOut(r) ==
    /\ pc[r] = "indexing"
    /\ troubled' = troubled \cup {notice[r].entry}
    /\ GoTo(r, "answer")
    /\ UNCHANGED <<workerVars, index, calls, requestVars, todo, result, notice, answer, skipped,
                   historyVars, storeVars, crashes>>

(* Fault: clients are shown their own descriptors only.                     *)
OwnDescriptors(r, v) == input[r].ownership => v.createdBy = input[r].client

(* Clients that own what they write are shown what they own, descriptors    *)
(* apart.                                                                   *)
MayFind(r, v) ==
    input[r].ownership /\ input[r].resource \notin Descriptors => v.createdBy = input[r].client

(* The errors of the clients of the two search engines, as they tell them   *)
(* apart: that there is no such index is in the message or, for OpenSearch, *)
(* in the body of the response.                                             *)
MissingIndexErrors == {"index_not_found_exception", "IndexNotFoundException"}
EngineErrors ==
    MissingIndexErrors \cup {"TimeoutError", "SemanticAnalysisException", "message", "Response Error", "other"}

handleElasticSearchError(error) ==
    CASE error = "TimeoutError" -> "QUERY_FAILURE_CONNECTION_ERROR"
      [] error = "index_not_found_exception" -> "QUERY_FAILURE_INDEX_NOT_FOUND"
      [] error = "message" -> "QUERY_FAILURE_INVALID_QUERY"
      [] OTHER -> "UNKNOWN_FAILURE"

handleOpenSearchError(error) ==
    CASE error = "TimeoutError" -> "QUERY_FAILURE_CONNECTION_ERROR"
      [] error \in MissingIndexErrors -> "QUERY_FAILURE_INDEX_NOT_FOUND"
      [] error \in {"message", "SemanticAnalysisException"} -> "QUERY_FAILURE_INVALID_QUERY"
      [] OTHER -> "UNKNOWN_FAILURE"

(* The index of an endpoint is made with its first document.                *)
QueryFailures(r) ==
    LET isEmpty == \A u \in Uuid : index[<<input[r].resource, u>>] = Nothing
        errors == EngineErrors \ (IF isEmpty THEN {} ELSE MissingIndexErrors)
    IN {handle[e] : handle \in {[e \in errors |-> handleOpenSearchError(e)],
                                [e \in errors |-> handleElasticSearchError(e)]}, e \in errors}

Hits(r) ==
    {v \in {index[<<input[r].resource, u>>] : u \in Uuid} \ {Nothing} : MayFind(r, v)}

queryDocuments(r) ==
    /\ pc[r] = "query" /\ "query" \in loaded
    /\ \/ /\ result' = [result EXCEPT ![r] = "QUERY_SUCCESS"]
          /\ answer' = [answer EXCEPT ![r] = Hits(r)]
       \/ /\ \E failure \in QueryFailures(r) : result' = [result EXCEPT ![r] = failure]
          /\ UNCHANGED answer
    /\ GoTo(r, "answer")
    /\ UNCHANGED <<workerVars, indexVars, requestVars, todo, notice, skipped, historyVars,
                   storeVars, crashes>>

(* Without a query plugin every query fails.                                *)
NoQueryHandler(r) ==
    /\ pc[r] = "query" /\ "query" \notin loaded
    /\ result' = [result EXCEPT ![r] = "UNKNOWN_FAILURE"]
    /\ GoTo(r, "answer")
    /\ UNCHANGED <<workerVars, indexVars, requestVars, todo, notice, answer, skipped, historyVars,
                   storeVars, crashes>>

-----------------------------------------------------------------------------
(* The response.                                                            *)

(* Fault: the first descriptor that is not stored ends the load.            *)
StopsAtFailure(r) == todo[r] < Len(LoadedDescriptors) /\ result[r] \in Success

(* A descriptor that fails is logged, and the next is loaded.               *)
HasMoreDescriptors(r) == todo[r] < Len(LoadedDescriptors)

Respond(r) ==
    /\ pc[r] = "answer"
    /\ IF ~IsLoad(r) THEN Answered(r, ResponseStatus(input[r].op, result[r])) /\ UNCHANGED todo
       ELSE IF HasMoreDescriptors(r) THEN GoTo(r, "store") /\ todo' = [todo EXCEPT ![r] = @ + 1]
       ELSE Answered(r, 202) /\ UNCHANGED todo
    /\ Forget(r)
    /\ UNCHANGED <<workerVars, indexVars, requestVars, answer, skipped, historyVars,
                   storeVars, crashes>>

(* The worker ends and another takes its place: nothing replays what the    *)
(* listeners had not been told, and a call on its way may still arrive.     *)
Crash ==
    /\ crashes < MaxCrashes /\ \E r \in Requests : InFlight(r)
    /\ crashes' = crashes + 1
    /\ troubled' = troubled \cup {notice[r].entry : r \in {o \in Requests : Publishing(o) /\ IsToldOf(o)}}
    /\ loading' = "no" /\ loaded' = {} /\ schema' = FALSE
    /\ pc' = [r \in Requests |-> IF InFlight(r) THEN "lost" ELSE pc[r]]
    /\ timestamp' = [r \in Requests |-> 0]
    /\ result' = [r \in Requests |-> "none"]
    /\ notice' = [r \in Requests |-> NoNotice]
    /\ found' = [r \in Requests |-> NoUuid]
    /\ UNCHANGED <<clock, index, calls, requestVars, todo, answer, status, skipped, historyVars,
                   store, issued, backend>>

-----------------------------------------------------------------------------
NoInput(r) == CHOOSE q \in Inputs[r] : TRUE

Init ==
    /\ loading = "no" /\ loaded = {} /\ schema = FALSE /\ clock = 1
    /\ store \in InitialStores
    /\ issued = Cardinality({i \in Id : store[i] # NoDoc})
    /\ backend \in Backends
    /\ found = [r \in Requests |-> NoUuid]
    /\ index = [e \in Entry |-> Projection(store, e)]
    /\ calls = {} /\ troubled = {} /\ crashes = 0
    /\ pc = [r \in Requests |-> "idle"]
    /\ input = [r \in Requests |-> NoInput(r)]
    /\ uuid = [r \in Requests |-> NoUuid]
    /\ bad = [r \in Requests |-> {}]
    /\ guarded = [r \in Requests |-> FALSE]
    /\ timestamp = [r \in Requests |-> 0]
    /\ todo = [r \in Requests |-> 1]
    /\ result = [r \in Requests |-> "none"]
    /\ notice = [r \in Requests |-> NoNotice]
    /\ answer = [r \in Requests |-> {}]
    /\ status = [r \in Requests |-> 0]
    /\ saw = [r \in Requests |-> {}]
    /\ before = [r \in Requests |-> {}]
    /\ wrote = [r \in Requests |-> {}]
    /\ reported = [r \in Requests \cup {Seed} |->
                   IF r # Seed THEN {}
                   ELSE {[entry |-> e, value |-> index[e]] : e \in {x \in Entry : index[x] # Nothing}}]
    /\ skipped = [r \in Requests |-> {}]

Handle(r) ==
    \/ \E t \in 0 .. clock + 1, isRead \in BOOLEAN : Begin(r, t, isRead)
    \/ upsert(r) \/ update(r) \/ deleteIt(r) \/ getById(r) \/ query(r) \/ loadDescriptors(r)
    \/ \E fails \in BOOLEAN : securityMiddleware(r, fails)
    \/ NoDocumentStore(r) \/ StoreCall(r) \/ getDocumentById(r)
    \/ NoQueryHandler(r) \/ queryDocuments(r)
    \/ Publish(r) \/ ListenerThrows(r) \/ IndexTimesOut(r) \/ Respond(r)

Load == \E n \in LoadedParts : loadAllPlugins(n)
Worker == Load \/ \E r \in Requests : Handle(r)
CallEnds == \E c \in calls : IndexApplies(c) \/ IndexFails(c)

(* Every request is over and so is every call to the index.                 *)
Quiescent ==
    /\ \A r \in Requests : pc[r] \in {"done", "lost"}
    /\ calls = {}
    /\ UNCHANGED vars

Next ==
    \/ \E r \in Requests : \E q \in Inputs[r] : \E u \in (1 .. issued) \cup {NoUuid} : Arrive(r, q, u)
    \/ Worker \/ CallEnds \/ Crash
    \/ Quiescent

Spec == Init /\ [][Next]_vars

(* Imports end, the store answers or fails, the clients of the index time   *)
(* out, and the event loop goes on while there is anything to resume.       *)
FairSpec == Spec /\ WF_vars(Worker)

-----------------------------------------------------------------------------
(* Properties.                                                              *)

IsAnswered(r) == pc[r] = "done"

(* The status mapping of Upsert.ts, Update.ts and Delete.ts, the catch of   *)
(* the handlers and of the facade, and the listeners between the commit and *)
(* the answer: a client told of success has had its change committed, unless*)
(* a POST answered 200 found in PostgreSQL a document that another request  *)
(* deleted before it was rewritten.  A client told that the request is at   *)
(* fault has no success to its name, and has changed nothing unless MongoDB *)
(* ran the request again after a commit whose answer was lost: then it is   *)
(* told 404 or 409, of the store that has its own change.                   *)
AnswerTellsWhatWasWritten ==
    \A r \in Requests :
        IsAnswered(r) /\ input[r].op \in Write =>
            /\ status[r] \in {200, 201, 204} =>
                   /\ reported[r] # {}
                   /\ \A c \in reported[r] \ wrote[r] :
                         /\ backend = "PostgreSQL" /\ status[r] = 200
                         /\ \E o \in Requests \ {r} : \E d \in wrote[o] :
                               d.value = Nothing /\ d.entry[2] = c.entry[2]
            /\ status[r] \in 400 .. 499 =>
                   /\ reported[r] = {}
                   /\ wrote[r] # {} => backend = "MongoDB" /\ status[r] \in {404, 409}

(* UpdateOpensearch.ts is awaited before the answer: once nothing is on its *)
(* way, the index shows exactly what the store holds under every entry that *)
(* had no call fail, cross another or miss it (ghost "troubled"), however   *)
(* many changes, restarts and reloads went before.  The owner it shows is   *)
(* the client that wrote the document last, which is the owner in the store *)
(* of PostgreSQL; in MongoDB a document keeps its owner through the PUT of  *)
(* another client, and the index does not show that owner.                  *)
IndexFollowsStore ==
    \A e \in Entry :
        e \notin troubled /\ ~(\E r \in Requests : InFlight(r) /\ notice[r].entry = e) =>
            /\ index[e] = Projection(store, e)
            /\ \A i \in Id :
                  store[i] # NoDoc /\ <<ResourceOf[i], store[i].uuid>> = e /\ backend = "PostgreSQL"
                  => index[e] # Nothing /\ index[e].createdBy = store[i].createdBy

(* A query that is answered shows its client what earlier answers said was  *)
(* written: every document of the endpoint whose last version was answered  *)
(* before the query arrived.  A client that is shown only its own finds what*)
(* it wrote last itself: in MongoDB its document is lost to its queries, and*)
(* still its own, once another client has written it (see the index).       *)
QueryFindsWhatWasAnswered ==
    \A r \in Requests :
        IsAnswered(r) /\ input[r].op = "query" /\ status[r] = 200 =>
            \A e \in {input[r].resource} \X Uuid :
                LET v == Projection(store, e) IN
                v # Nothing /\ e \notin troubled /\ v.by \in before[r] \cup {Seed} /\
                (input[r].ownership /\ input[r].resource \notin Descriptors => v.createdBy = input[r].client)
                => v \in answer[r]

(* OwnershipSecurity.ts reads the owner before the handler reads or writes: *)
(* a request that went through under OWNERSHIP_BASED was about a document   *)
(* that was its client's, or did not exist, at some moment since it began,  *)
(* whatever other requests did between the check and the act.               *)
OwnersAct ==
    \A r \in Requests :
        /\ IsAnswered(r) /\ status[r] \in {200, 201, 204}
        /\ input[r].ownership /\ guarded[r] /\ input[r].op \in Write \cup {"getById"}
        /\ ~(input[r].op = "getById" /\ input[r].resource \in Descriptors)
        => saw[r] \cap {input[r].client, Nobody} # {}

(* "this will load all descriptors" (meadowlark-loading-descriptors.md:5):  *)
(* after the 202, every descriptor of the files is in the store, were it    *)
(* there already or stored now, unless its own upsert failed or a request   *)
(* by documentUuid deleted it or gave it another identity; one descriptor's *)
(* failure keeps none of the others out.                                    *)
LoadedDescriptorsAreThere ==
    \A r \in Requests :
        IsAnswered(r) /\ status[r] = 202 =>
            \A n \in DOMAIN LoadedDescriptors :
                LET i == LoadedDescriptors[n] IN
                \/ store[i] # NoDoc
                \/ i \in skipped[r]
                \/ \E o \in Requests : uuid[o] # NoUuid /\ wrote[o] # {}

(* Every request is answered, with a status, or falls with its worker: no   *)
(* failure of a plugin, a store or an index leaves one waiting, so that     *)
(* time and again there is nobody who waits.                                *)
EveryRequestAnswered ==
    []<>(\A r \in Requests : pc[r] \in {"idle", "lost"} \/ (IsAnswered(r) /\ status[r] # 0))

(* The search index implements DocumentIndex: queries show changes that the *)
(* store said it made, after it said so, and nothing else.  With            *)
(* AnswerTellsWhatWasWritten these are the committed ones, apart from the   *)
(* POSTs that miss their document in PostgreSQL; the owner shown is the     *)
(* client of the request.                                                   *)
Reported == UNION {reported[r] : r \in DOMAIN reported}
Index == INSTANCE DocumentIndex WITH reported <- Reported, shown <- index
ImplementsDocumentIndex == Index!Spec
=============================================================================
