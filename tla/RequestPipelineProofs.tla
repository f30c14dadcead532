------------------------ MODULE RequestPipelineProofs ------------------------
(* What RequestPipeline keeps however requests, listeners, calls to the     *)
(* index, their failures and restarts of the worker interleave: IInv says   *)
(* where each request can be, what it has written and says of it, and who   *)
(* is to tell the index of an entry.  It is shown of every step apart for   *)
(* the request that takes it and for those that wait beside it.             *)
EXTENDS RequestPipeline, WellFoundedInduction, TLAPS

Statuses == {0, 200, 201, 202, 204, 400, 401, 403, 404, 409, 500, 502}

(* What the store and the index may respond.                                *)
Results ==
    Success \cup
    {"none", "UNKNOWN_FAILURE", "FAILURE_NOT_EXISTS", "FAILURE_REFERENCE", "FAILURE_CONFLICT",
     "FAILURE_WRITE_CONFLICT", "UPDATE_FAILURE_IMMUTABLE_IDENTITY", "UPDATE_CASCADE_REQUIRED",
     "GET_SUCCESS", "QUERY_SUCCESS", "QUERY_FAILURE_INVALID_QUERY",
     "QUERY_FAILURE_CONNECTION_ERROR", "QUERY_FAILURE_INDEX_NOT_FOUND"}

(* What is told of a call to the store: an upsert for which no documentUuid *)
(* is left is refused before it has one.                                    *)
Notices == [entry : (Resource \X Nat) \cup {Nothing}, value : Value \cup {Nothing}]

(* The variables TypeOK leaves out.                                         *)
HistoryTyped ==
    /\ clock \in Nat /\ issued \in 0 .. MaxUuid
    /\ timestamp \in [Requests -> Nat] /\ bad \in [Requests -> SUBSET Check]
    /\ answer \in [Requests -> SUBSET Value] /\ skipped \in [Requests -> SUBSET Id]
    /\ notice \in [Requests -> Notices]
    /\ result \in [Requests -> Results]
    /\ saw \in [Requests -> SUBSET (Clients \cup {Loader, Nobody})]
    /\ before \in [Requests -> SUBSET Requests]
    /\ wrote \in [Requests -> SUBSET Change]
    /\ reported \in [Requests \cup {Seed} -> SUBSET Change]
    /\ backend \in Backends

(* In PostgreSQL a document is by its owner.                                *)
IsByOwner(s) ==
    backend = "PostgreSQL" => \A i \in Id : s[i] # NoDoc => s[i].createdBy = s[i].writer

(* A documentUuid was issued, and to one document.                          *)
StoreInv ==
    /\ IsByOwner(store)
    /\ \A i \in Id : store[i] # NoDoc => store[i].uuid <= issued
    /\ \A i, j \in Id :
           store[i] # NoDoc /\ store[j] # NoDoc /\ store[i].uuid = store[j].uuid => i = j

(* Where a request can be, given what it asks for.                          *)
PathInv(r) ==
    /\ input[r] \in Inputs[r]
    /\ pc[r] = "idle" => uuid[r] = NoUuid
    /\ pc[r] # "idle" => get(input[r], uuid[r])
    /\ pc[r] = "ownership" => input[r].op \in Write \cup {"getById"}
    /\ pc[r] = "query" => input[r].op = "query"
    /\ pc[r] = "store" => input[r].op # "query"
    /\ Publishing(r) => input[r].op \in Write \cup {"loadDescriptors"}
    /\ (pc[r] = "store" \/ Publishing(r)) /\ input[r].op \in {"update", "deleteById"} => uuid[r] # NoUuid
    /\ uuid[r] # NoUuid => uuid[r] <= issued

(* What became of a documentUuid: its document was deleted by a request, or *)
(* one by documentUuid may have given it another identity.                  *)
HasDeleted(o, u) == uuid[o] # NoUuid /\ \E d \in wrote[o] : d.value = Nothing /\ d.entry[2] = u
IsTaken == \E o \in Requests : uuid[o] # NoUuid /\ wrote[o] # {}

(* The document of a PUT that is run again is not older than the request.   *)
HasAged(r) ==
    input[r].op = "update" => \A i \in At(uuid[r]) : store[i].lastModifiedAt >= timestamp[r]

(* What the store reported of a write and did not commit was answered 200,  *)
(* of a document that another request has deleted.                          *)
MissedInv(r) ==
    \A c \in reported[r] \ wrote[r] :
        /\ backend = "PostgreSQL" /\ input[r].op = "upsert"
        /\ pc[r] \in {"stored", "indexing", "answer"} => result[r] = "UPDATE_SUCCESS"
        /\ pc[r] = "done" /\ status[r] \in {200, 201, 204} => status[r] = 200
        /\ \E o \in Requests \ {r} : HasDeleted(o, c.entry[2])

(* What a write has committed, and says.                                    *)
WroteInv(r) ==
    /\ pc[r] \in {"idle", "plugins", "authorize", "ownership"} => wrote[r] = {} /\ reported[r] = {}
    /\ input[r].op \in Write =>
        /\ MissedInv(r)
        /\ pc[r] = "store" =>
               reported[r] = {} /\ (wrote[r] # {} => backend = "MongoDB" /\ HasAged(r))
        /\ pc[r] \in {"stored", "indexing", "answer"} =>
               /\ result[r] \in Success => reported[r] # {}
               /\ result[r] \notin Success \cup {"UNKNOWN_FAILURE"} =>
                      /\ reported[r] = {}
                      /\ wrote[r] # {} =>
                             backend = "MongoDB" /\ result[r] # "UPDATE_FAILURE_IMMUTABLE_IDENTITY"
        /\ pc[r] = "done" =>
               /\ status[r] \in {200, 201, 204} => reported[r] # {}
               /\ status[r] \in 400 .. 499 =>
                      /\ reported[r] = {}
                      /\ wrote[r] # {} => backend = "MongoDB" /\ status[r] \in {404, 409}

(* What PostgreSQL has found is still there, or another request deleted it. *)
FoundInv(r) ==
    /\ \/ pc[r] \in {"idle", "plugins", "authorize", "ownership"}
       \/ IsLoad(r) /\ pc[r] \in {"stored", "indexing", "answer"}
       => found[r] = NoUuid
    /\ pc[r] = "store" /\ found[r] # NoUuid =>
        /\ backend = "PostgreSQL" /\ found[r] <= issued
        /\ input[r].op \in {"upsert", "loadDescriptors"} => IsTaken \/ At(found[r]) \subseteq {IdOf(r)}
        /\ input[r].op = "update" => found[r] = uuid[r]
        /\ At(found[r]) # {} \/ \E o \in Requests \ {r} : HasDeleted(o, found[r])

(* Who is to tell the index of an entry.                                    *)
Tells(r, e) == Publishing(r) /\ IsToldOf(r) /\ notice[r].entry = e

NoticeInv(r) ==
    /\ Publishing(r) /\ IsToldOf(r) =>
           notice[r] \in reported[r] /\ (notice[r].value # Nothing => notice[r].value.by = r)
    /\ pc[r] = "indexing" => IsToldOf(r)

CallsInv == \A c \in calls : [entry |-> c.entry, value |-> c.value] \in reported[c.by]

(* An entry that is not troubled is either as the store has it or its last  *)
(* change is told of by one request, with at most one call.                 *)
FollowInv ==
    \A e \in Entry \ troubled :
        /\ \A r, o \in Requests : Tells(r, e) /\ Tells(o, e) => r = o
        /\ \A r \in Requests : Tells(r, e) => notice[r].value = Projection(store, e)
        /\ \A c \in calls : c.entry = e =>
               Tells(c.by, e) /\ pc[c.by] = "indexing" /\ c.value = notice[c.by].value
        /\ (\A r \in Requests : ~Tells(r, e)) => index[e] = Projection(store, e)

(* Requests whose ownership is asked about.                                 *)
IsOwned(r) ==
    /\ input[r].ownership /\ guarded[r] /\ input[r].op \in Write \cup {"getById"}
    /\ ~(input[r].op = "getById" /\ input[r].resource \in Descriptors)

SawInv(r) ==
    /\ pc[r] \in {"authorize", "ownership"} /\ ~IsLoad(r) => Owners(store, r) \subseteq saw[r]
    /\ IsOwned(r) =>
         /\ pc[r] \in {"store", "stored", "indexing", "answer"} =>
                saw[r] \cap {input[r].client, Nobody} # {}
         /\ pc[r] = "done" /\ status[r] \in {200, 201, 204} =>
                saw[r] \cap {input[r].client, Nobody} # {}

(* The documents that a query shows if they were written before it arrived. *)
ShowsOldDocuments(r) ==
    \A e \in {input[r].resource} \X Uuid :
        LET v == Projection(store, e) IN
        v # Nothing /\ e \notin troubled /\ v.by \in before[r] \cup {Seed} /\ MayFind(r, v)
            => v \in answer[r]

QueryInv(r) ==
    /\ \A o \in before[r] : pc[o] = "done"
    /\ input[r].op = "query" =>
         /\ pc[r] = "answer" /\ QueryStatus(result[r]) = 200 => ShowsOldDocuments(r)
         /\ pc[r] = "done" /\ status[r] = 200 => ShowsOldDocuments(r)

(* A descriptor that was stored is there, unless a request by documentUuid  *)
(* took it away.                                                            *)
IsKept(r, i) ==
    \/ store[i] # NoDoc
    \/ i \in skipped[r]
    \/ IsTaken

LoadInv(r) ==
    /\ pc[r] \in {"idle", "plugins", "authorize"} => todo[r] = 1
    /\ input[r].op = "loadDescriptors" =>
         /\ pc[r] \in {"store", "stored", "indexing", "answer"} =>
                \A n \in DOMAIN LoadedDescriptors : n < todo[r] => IsKept(r, LoadedDescriptors[n])
         /\ pc[r] \in {"stored", "indexing", "answer"} => IsKept(r, LoadedDescriptors[todo[r]])
    /\ pc[r] = "done" /\ status[r] = 202 =>
           \A n \in DOMAIN LoadedDescriptors : IsKept(r, LoadedDescriptors[n])

IInv ==
    /\ TypeOK /\ HistoryTyped
    /\ StoreInv /\ CallsInv /\ FollowInv
    /\ \A r \in Requests :
           /\ PathInv(r) /\ WroteInv(r) /\ FoundInv(r) /\ NoticeInv(r)
           /\ SawInv(r) /\ QueryInv(r) /\ LoadInv(r)
-----------------------------------------------------------------------------
(* Statuses.                                                                *)
LEMMA FirstFailure ==
    ASSUME NEW T, T \subseteq Nat, T # {}
    PROVE  \E m \in T : \A n \in T : m <= n
<1>1. IsWellFoundedOn(OpToRel(<, Nat), Nat)
  BY NatLessThanWellFounded
<1>2. PICK m \in T : \A n \in T : <<n, m>> \notin OpToRel(<, Nat)
  BY <1>1, WFMin
<1>3. \A n \in T : ~(n < m)
  BY <1>2 DEF OpToRel
<1> QED
  BY <1>3

LEMMA StackAnswers ==
    ASSUME NEW stack \in Seq({0, 400, 404, 500})
    PROVE  StackStatus(stack) \in {0, 400, 404, 500}
<1> DEFINE failing == {k \in DOMAIN stack : stack[k] # 0}
<1>1. CASE failing = {}
  BY <1>1 DEF StackStatus
<1>2. CASE failing # {}
  <2>1. failing \subseteq Nat
    OBVIOUS
  <2>2. PICK m \in failing : \A j \in failing : m <= j
    BY <1>2, <2>1, FirstFailure
  <2>3. (CHOOSE k \in failing : \A j \in failing : k <= j) \in failing
    BY <2>2
  <2> QED
    BY <1>2, <2>3 DEF StackStatus
<1> QED
  BY <1>1, <1>2

LEMMA Stacks ==
    ASSUME NEW r \in Requests
    PROVE  /\ StackStatus(postStack(r)) \in {0, 400, 404, 500}
           /\ StackStatus(putStack(r)) \in {0, 400, 404, 500}
           /\ StackStatus(deleteStack(r)) \in {0, 400, 404, 500}
           /\ StackStatus(getByIdStack(r)) \in {0, 400, 404, 500}
           /\ StackStatus(queryStack(r)) \in {0, 400, 404, 500}
           /\ StackStatus(<<>>) = 0
<1> DEFINE C == {0, 400, 404, 500}
<1>1. /\ parsePath(r) \in C /\ parseBody(r) \in C /\ endpointValidation(r) \in C
      /\ documentValidation(r) \in C /\ equalityConstraintValidation(r) \in C
      /\ documentInfoExtraction(r) \in C /\ queryValidation(r) \in C
  BY DEF parsePath, parseBody, endpointValidation, matchResourceSchema, validateEndpoint,
         documentValidation, equalityConstraintValidation, documentInfoExtraction,
         queryValidation, Rejects
<1> HIDE DEF C
<1>2. postStack(r) \in Seq(C) /\ putStack(r) \in Seq(C)
  BY <1>1 DEF postStack, putStack
<1>3. deleteStack(r) \in Seq(C) /\ getByIdStack(r) \in Seq(C) /\ queryStack(r) \in Seq(C)
  BY <1>1 DEF deleteStack, getByIdStack, queryStack
<1>4. StackStatus(<<>>) = 0
  BY DEF StackStatus
<1> QED
  BY <1>2, <1>3, <1>4, StackAnswers DEF C

LEMMA ResponseTyped ==
    ASSUME NEW response, NEW op \in Write \cup {"getById", "query"}
    PROVE  ResponseStatus(op, response) \in Statuses \ {0, 202}
BY DEF ResponseStatus, UpsertStatus, UpdateStatus, DeleteStatus, GetStatus, QueryStatus, Write,
       Statuses

-----------------------------------------------------------------------------
(* Types.                                                                   *)
TypeInv == TypeOK /\ HistoryTyped

LEMMA AnsweredTyped ==
    ASSUME TypeInv, NEW r \in Requests, NEW s \in Statuses, Answered(r, s)
    PROVE  /\ pc' \in [Requests -> Progress]
           /\ status' \in [Requests -> Statuses]
           /\ timestamp' \in [Requests -> Nat]
           /\ \A o \in Requests : timestamp'[o] \in 0 .. clock
BY DEF Answered, TypeInv, TypeOK, HistoryTyped, Progress, Statuses

LEMMA GoToTyped ==
    ASSUME TypeInv, NEW r \in Requests, NEW where \in Progress, GoTo(r, where)
    PROVE  /\ pc' \in [Requests -> Progress]
           /\ status' \in [Requests -> Statuses]
           /\ timestamp' \in [Requests -> Nat]
           /\ \A o \in Requests : timestamp'[o] \in 0 .. clock
BY DEF GoTo, TypeInv, TypeOK, HistoryTyped, Statuses

(* What a step that only moves a request leaves to be shown.                *)
Moved ==
    /\ pc' \in [Requests -> Progress]
    /\ status' \in [Requests -> Statuses]
    /\ timestamp' \in [Requests -> Nat]
    /\ \A o \in Requests : timestamp'[o] \in 0 .. clock

LEMMA MovedTyped ==
    ASSUME TypeInv, Moved,
           UNCHANGED <<workerVars, indexVars, requestVars, todo, result, notice, answer, skipped,
                       historyVars, storeVars>>
    PROVE  TypeInv'
BY DEF TypeInv, TypeOK, HistoryTyped, Moved, Statuses, workerVars, indexVars, requestVars,
       historyVars, storeVars, Doc, Value, Entry, Call, Change
-----------------------------------------------------------------------------
(* The ways from authorize to the store.                                    *)
Failures == {400, 401, 403, 404, 500, 502}
Named(r) == input[r].op \in {"update", "deleteById"} => uuid[r] # NoUuid
Stays ==
    UNCHANGED <<workerVars, indexVars, requestVars, todo, result, notice, answer, skipped,
                historyVars, storeVars, crashes>>

LEMMA ContinueForms ==
    ASSUME NEW r \in Requests, Continue(r)
    PROVE  (\E s \in Failures : Answered(r, s)) \/ (GoTo(r, "store") /\ Named(r))
BY DEF Continue, HandlerStatus, UpdateRefusal, DeleteRefusal, Failures, Named

(* The steps from authorize on.                                             *)
Authorizes(r) ==
    upsert(r) \/ update(r) \/ deleteIt(r) \/ getById(r) \/ query(r) \/ loadDescriptors(r)

LEMMA SecuredForms ==
    ASSUME NEW r \in Requests, Secured(r)
    PROVE  \/ \E s \in Failures : Answered(r, s)
           \/ GoTo(r, "ownership")
           \/ GoTo(r, "store") /\ Named(r) /\ ~IsOwned(r)
<1>1. CASE input[r].ownership /\ guarded[r]
  BY <1>1 DEF Secured
<1>2. CASE ~(input[r].ownership /\ guarded[r])
  BY <1>2, ContinueForms DEF Secured, IsOwned
<1> QED
  BY <1>1, <1>2

LEMMA PassesForms ==
    ASSUME NEW r \in Requests, NEW stack, NEW onward, Passes(r, stack, onward),
           StackStatus(stack) \in {0, 400, 404, 500}
    PROVE  /\ pc[r] = "authorize" /\ Stays
           /\ onward \/ \E s \in Failures : Answered(r, s)
BY RefusalsAssumption DEF Passes, Stays, Failures

LEMMA AuthorizesForms ==
    ASSUME NEW r \in Requests, Authorizes(r)
    PROVE  /\ pc[r] = "authorize" /\ Stays
           /\ \/ \E s \in Failures : Answered(r, s)
              \/ GoTo(r, "ownership") /\ input[r].op \in Write \cup {"getById"}
              \/ GoTo(r, "query") /\ input[r].op = "query"
              \/ GoTo(r, "store") /\ Named(r) /\ ~IsOwned(r) /\ input[r].op # "query"
<1>1. CASE upsert(r)
  BY <1>1, Stacks, PassesForms, SecuredForms DEF upsert, Write
<1>2. CASE update(r)
  BY <1>2, Stacks, PassesForms, SecuredForms DEF update, Write
<1>3. CASE deleteIt(r)
  BY <1>3, Stacks, PassesForms, SecuredForms DEF deleteIt, Write
<1>4. CASE getById(r)
  BY <1>4, Stacks, PassesForms, SecuredForms DEF getById, Write
<1>5. CASE query(r)
  BY <1>5, Stacks, PassesForms DEF query
<1>6. CASE loadDescriptors(r)
  BY <1>6, Stacks, PassesForms DEF loadDescriptors, Named, IsOwned, Write
<1> QED
  BY <1>1, <1>2, <1>3, <1>4, <1>5, <1>6 DEF Authorizes

(* The owner of what the request is about was its client or nobody.         *)
LEMMA ApprovedOwners ==
    ASSUME TypeInv, NEW r \in Requests, PathInv(r), pc[r] = "ownership", input[r].ownership,
           input[r].op \in Write \cup {"getById"},
           Target(r) = {} \/ \A i \in Target(r) : store[i].createdBy = input[r].client,
           Named(r)
    PROVE  Owners(store, r) \cap {input[r].client, Nobody} # {}
<1> DEFINE owned == {i \in Id : store[i] # NoDoc /\
                        IF uuid[r] # NoUuid THEN store[i].uuid = uuid[r] ELSE i = input[r].id}
<1>1. input[r].id \in Id /\ get(input[r], uuid[r])
  BY DEF PathInv, TypeInv, TypeOK, Input
<1>2. Target(r) = owned
  BY <1>1 DEF Target, At, get, Named, Write
<1>3. Owners(store, r) = IF owned = {} THEN {Nobody} ELSE {store[i].createdBy : i \in owned}
  BY DEF Owners
<1>4. CASE owned = {}
  BY <1>3, <1>4
<1>5. CASE owned # {}
  <2>1. PICK i \in owned : TRUE
    BY <1>5
  <2>2. store[i].createdBy = input[r].client
    BY <1>2, <2>1
  <2> QED
    BY <1>3, <1>5, <2>1, <2>2
<1> QED
  BY <1>4, <1>5

LEMMA SecurityForms ==
    ASSUME TypeInv, NEW r \in Requests, PathInv(r), SawInv(r), NEW fails \in BOOLEAN,
           securityMiddleware(r, fails)
    PROVE  /\ pc[r] = "ownership" /\ Stays
           /\ \/ \E s \in Failures : Answered(r, s)
              \/ /\ GoTo(r, "store") /\ Named(r)
                 /\ IsOwned(r) => saw[r] \cap {input[r].client, Nobody} # {}
<1>1. pc[r] = "ownership" /\ Stays /\ input[r].op \in Write \cup {"getById"}
  BY DEF securityMiddleware, Stays, PathInv
<1>2. CASE rejectByOwnershipSecurity(r, fails) \notin {"ACCESS_APPROVED", "NOT_APPLICABLE"}
  <2>1. Answered(r, 500) \/ Answered(r, 403)
    BY <1>2 DEF securityMiddleware, rejectByOwnershipSecurity
  <2> QED
    BY <1>1, <2>1 DEF Failures
<1>3. CASE rejectByOwnershipSecurity(r, fails) \in {"ACCESS_APPROVED", "NOT_APPLICABLE"}
  <2>1. Continue(r)
    BY <1>3 DEF securityMiddleware
  <2>2. CASE \E s \in Failures : Answered(r, s)
    BY <1>1, <2>2
  <2>3. CASE GoTo(r, "store") /\ Named(r)
    <3>1. ASSUME IsOwned(r) PROVE saw[r] \cap {input[r].client, Nobody} # {}
      <4>1. Target(r) = {} \/ \A i \in Target(r) : store[i].createdBy = input[r].client
        BY <1>3, <3>1 DEF rejectByOwnershipSecurity, IsOwned, OwnershipNotApplicable
      <4>2. Owners(store, r) \cap {input[r].client, Nobody} # {}
        BY <1>1, <2>3, <3>1, <4>1, ApprovedOwners DEF IsOwned
      <4> QED
        BY <1>1, <4>2 DEF SawInv, IsLoad, Write
    <3> QED
      BY <1>1, <2>3, <3>1
  <2> QED
    BY <2>1, <2>2, <2>3, ContinueForms
<1> QED
  BY <1>2, <1>3

-----------------------------------------------------------------------------
(* Every action keeps the types.                                            *)
LEMMA FailureMoves ==
    ASSUME TypeInv, NEW r \in Requests, \E s \in Failures : Answered(r, s)
    PROVE  Moved
<1>1. PICK s \in Failures : Answered(r, s)
  OBVIOUS
<1>2. s \in Statuses
  BY DEF Failures, Statuses
<1> QED
  BY <1>1, <1>2, AnsweredTyped DEF Moved

LEMMA GoToMoves ==
    ASSUME TypeInv, NEW r \in Requests, NEW where \in Progress, GoTo(r, where)
    PROVE  Moved
BY GoToTyped DEF Moved

LEMMA StaysTyped ==
    ASSUME TypeInv, Moved, Stays
    PROVE  TypeInv'
BY MovedTyped DEF Stays

LEMMA AuthorizesTyped ==
    ASSUME TypeInv, NEW r \in Requests, Authorizes(r)
    PROVE  TypeInv'
<1>1. Moved
  BY AuthorizesForms, FailureMoves, GoToMoves DEF Progress
<1> QED
  BY <1>1, AuthorizesForms, StaysTyped

LEMMA SecurityTyped ==
    ASSUME TypeInv, NEW r \in Requests, PathInv(r), SawInv(r), NEW fails \in BOOLEAN,
           securityMiddleware(r, fails)
    PROVE  TypeInv'
<1>1. Moved
  BY SecurityForms, FailureMoves, GoToMoves DEF Progress
<1> QED
  BY <1>1, SecurityForms, StaysTyped

LEMMA ArriveTyped ==
    ASSUME TypeInv, NEW r \in Requests, NEW q \in Inputs[r], NEW u \in (1 .. issued) \cup {NoUuid},
           Arrive(r, q, u)
    PROVE  TypeInv'
<1>1. q \in Input /\ u \in Uuid \cup {NoUuid}
  BY InputsAssumption, BoundsAssumption DEF TypeInv, HistoryTyped, Uuid
<1> QED
  BY <1>1 DEF Arrive, initialize, TypeInv, TypeOK, HistoryTyped, indexVars, handlerVars, storeVars, Progress

LEMMA LoadTyped ==
    ASSUME TypeInv, Load
    PROVE  TypeInv'
<1>1. PICK n \in LoadedParts : loadAllPlugins(n)
  BY DEF Load
<1>2. Loaded(n) \subseteq Part
  <2>1. n \in 0 .. 3
    BY BoundsAssumption
  <2>2. \A k \in 1 .. n : <<"store", "query", "listeners">>[k] \in Part
    BY <2>1 DEF Part
  <2> QED
    BY <2>2 DEF Loaded
<1> QED
  BY <1>1, <1>2 DEF loadAllPlugins, TypeInv, TypeOK, HistoryTyped, indexVars, requestVars,
                    handlerVars, historyVars, storeVars

LEMMA OwnersTyped ==
    ASSUME NEW s \in [Id -> Doc \cup {NoDoc}], NEW r
    PROVE  Owners(s, r) \subseteq Clients \cup {Loader, Nobody}
BY DEF Owners, Doc

LEMMA BeginTyped ==
    ASSUME TypeInv, NEW r \in Requests, NEW t \in 0 .. clock + 1, NEW isRead \in BOOLEAN,
           Begin(r, t, isRead)
    PROVE  TypeInv'
<1>1. /\ clock' \in Nat /\ clock <= clock' /\ t <= clock' /\ t \in Nat
      /\ timestamp' = [timestamp EXCEPT ![r] = t]
  BY DEF Begin, timestampRequest, TypeInv, HistoryTyped
<1>2. schema' \in BOOLEAN /\ bad' \in [Requests -> SUBSET Check]
  BY DEF Begin, findApiSchema, TypeInv, TypeOK, HistoryTyped, Input, Check
<1>3. saw' \in [Requests -> SUBSET (Clients \cup {Loader, Nobody})]
  BY OwnersTyped DEF Begin, TypeInv, TypeOK, HistoryTyped
<1>4. timestamp' \in [Requests -> Nat] /\ \A o \in Requests : timestamp'[o] \in 0 .. clock'
  BY <1>1 DEF TypeInv, TypeOK, HistoryTyped
<1>5. /\ pc' \in [Requests -> Progress] /\ guarded' \in [Requests -> BOOLEAN]
      /\ UNCHANGED <<loading, loaded, indexVars, input, uuid, todo, result, notice, answer, status,
                     skipped, before, wrote, reported, storeVars>>
  BY DEF Begin, TypeInv, TypeOK, Progress
<1> QED
  BY <1>1, <1>2, <1>3, <1>4, <1>5 DEF TypeInv, TypeOK, HistoryTyped, indexVars, storeVars

LEMMA NoDocumentStoreTyped ==
    ASSUME TypeInv, NEW r \in Requests, NoDocumentStore(r)
    PROVE  TypeInv'
<1>1. Moved
  <2>1. Answered(r, 500) \/ GoTo(r, "store") \/ GoTo(r, "answer")
    BY DEF NoDocumentStore, loadDocumentStore
  <2> QED
    BY <2>1, FailureMoves, GoToMoves DEF Progress, Failures
<1>2. result' \in [Requests -> Results] /\ loaded' \subseteq Part
  <2>1. \/ result' = result
        \/ result' = [result EXCEPT ![r] = "UNKNOWN_FAILURE"]
    BY DEF NoDocumentStore
  <2>2. loaded' = loaded \/ loaded' = loaded \cup {"store"}
    BY DEF NoDocumentStore, loadDocumentStore
  <2>3. result' \in [Requests -> Results]
    BY <2>1 DEF TypeInv, HistoryTyped, Results
  <2>4. loaded' \subseteq Part
    BY <2>2 DEF TypeInv, TypeOK, Part
  <2> QED
    BY <2>3, <2>4
<1> QED
  BY <1>1, <1>2
     DEF NoDocumentStore, Moved, Statuses, TypeInv, TypeOK, HistoryTyped, indexVars, requestVars,
         historyVars, storeVars

LEMMA QueryFailuresAre ==
    ASSUME NEW r, NEW failure \in QueryFailures(r)
    PROVE  /\ failure \in Results /\ failure # "QUERY_SUCCESS"
           /\ QueryStatus(failure) = 200 =>
                  \A u \in Uuid : index[<<input[r].resource, u>>] = Nothing
<1> DEFINE isEmpty == \A u \in Uuid : index[<<input[r].resource, u>>] = Nothing
           errors == EngineErrors \ (IF isEmpty THEN {} ELSE MissingIndexErrors)
<1>1. PICK e \in errors : failure = handleOpenSearchError(e) \/ failure = handleElasticSearchError(e)
  <2>1. PICK handle \in {[e \in errors |-> handleOpenSearchError(e)],
                        [e \in errors |-> handleElasticSearchError(e)]} :
             \E e \in errors : failure = handle[e]
    BY DEF QueryFailures
  <2>2. CASE handle = [e \in errors |-> handleOpenSearchError(e)]
    BY <2>1, <2>2
  <2>3. CASE handle = [e \in errors |-> handleElasticSearchError(e)]
    BY <2>1, <2>3
  <2> QED
    BY <2>1, <2>2, <2>3
<1>2. e \in EngineErrors /\ (e \in MissingIndexErrors => isEmpty)
  OBVIOUS
<1> HIDE DEF errors, isEmpty
<1> DEFINE failed == {"QUERY_FAILURE_CONNECTION_ERROR", "QUERY_FAILURE_INVALID_QUERY", "UNKNOWN_FAILURE"}
<1>3. \/ handleOpenSearchError(e) \in failed
      \/ handleOpenSearchError(e) = "QUERY_FAILURE_INDEX_NOT_FOUND" /\ e \in MissingIndexErrors
  BY <1>2 DEF handleOpenSearchError, EngineErrors, MissingIndexErrors
<1>4. \/ handleElasticSearchError(e) \in failed
      \/ handleElasticSearchError(e) = "QUERY_FAILURE_INDEX_NOT_FOUND" /\ e \in MissingIndexErrors
  BY <1>2 DEF handleElasticSearchError, EngineErrors, MissingIndexErrors
<1>5. failure \in failed \/ (failure = "QUERY_FAILURE_INDEX_NOT_FOUND" /\ isEmpty)
  BY <1>1, <1>2, <1>3, <1>4
<1> QED
  BY <1>5 DEF isEmpty, QueryStatus, Results

LEMMA ReadTyped ==
    ASSUME TypeInv, NEW r \in Requests,
           getDocumentById(r) \/ queryDocuments(r) \/ NoQueryHandler(r)
    PROVE  TypeInv'
<1>1. Moved
  BY GoToMoves DEF getDocumentById, queryDocuments, NoQueryHandler, Progress
<1>2. result' \in [Requests -> Results]
  <2>1. PICK response \in Results : result' = [result EXCEPT ![r] = response]
    BY QueryFailuresAre DEF getDocumentById, queryDocuments, NoQueryHandler, Results
  <2> QED
    BY <2>1 DEF TypeInv, HistoryTyped
<1>3. answer' \in [Requests -> SUBSET Value]
  <2>1. \A u \in Uuid : index[<<input[r].resource, u>>] \in Value \cup {Nothing}
    BY DEF TypeInv, TypeOK, Input, Entry
  <2>2. Hits(r) \subseteq Value
    BY <2>1 DEF Hits
  <2>3. answer' = answer \/ answer' = [answer EXCEPT ![r] = Hits(r)]
    BY DEF getDocumentById, queryDocuments, NoQueryHandler
  <2> QED
    BY <2>2, <2>3 DEF TypeInv, HistoryTyped
<1>4. UNCHANGED <<workerVars, indexVars, requestVars, todo, notice, skipped, historyVars, storeVars>>
  BY DEF getDocumentById, queryDocuments, NoQueryHandler
<1> QED
  BY <1>1, <1>2, <1>3, <1>4
     DEF Moved, Statuses, TypeInv, TypeOK, HistoryTyped, workerVars, indexVars, requestVars,
         historyVars, storeVars

(* What a request tells is a change the store has reported.                 *)
LEMMA ToldIsReported ==
    ASSUME TypeInv, NEW r \in Requests, NoticeInv(r), Publishing(r), IsToldOf(r)
    PROVE  notice[r] \in reported[r] /\ notice[r] \in Change
BY DEF NoticeInv, TypeInv, HistoryTyped

LEMMA PublishTyped ==
    ASSUME TypeInv, NEW r \in Requests, NoticeInv(r),
           Publish(r) \/ ListenerThrows(r) \/ IndexTimesOut(r)
    PROVE  TypeInv'
<1>1. Publishing(r) /\ (IsToldOf(r) => notice[r] \in Change)
  BY ToldIsReported DEF Publish, ListenerThrows, IndexTimesOut, Publishing
<1>2. troubled' = troubled \/ (IsToldOf(r) /\ troubled' = troubled \cup {notice[r].entry})
  BY DEF Publish, ListenerThrows, IndexTimesOut, NoticeInv
<1>3. troubled' \subseteq Entry
  BY <1>1, <1>2 DEF TypeInv, TypeOK, Change
<1>4. calls' \subseteq Call
  <2>1. \/ calls' = calls
        \/ /\ IsToldOf(r)
           /\ calls' = calls \cup {[by |-> r, entry |-> notice[r].entry, value |-> notice[r].value]}
    BY DEF Publish, ListenerThrows, IndexTimesOut
  <2> QED
    BY <1>1, <2>1 DEF TypeInv, TypeOK, Change, Call
<1>5. Moved
  <2>1. Answered(r, 500) \/ GoTo(r, "indexing") \/ GoTo(r, "answer")
    BY DEF Publish, ListenerThrows, IndexTimesOut, AwaitIndex
  <2> QED
    BY <2>1, FailureMoves, GoToMoves DEF Progress, Failures
<1>6. /\ result' \in [Requests -> Results] /\ notice' \in [Requests -> Notices]
  <2>1. /\ result' = result \/ result' = [result EXCEPT ![r] = "none"]
        /\ notice' = notice \/ notice' = [notice EXCEPT ![r] = NoNotice]
    BY DEF Publish, ListenerThrows, IndexTimesOut, Forget
  <2> QED
    BY <2>1 DEF TypeInv, HistoryTyped, Results, Notices, NoNotice
<1>7. UNCHANGED <<workerVars, index, requestVars, todo, answer, skipped, historyVars, storeVars>>
  BY DEF Publish, ListenerThrows, IndexTimesOut
<1> QED
  BY <1>3, <1>4, <1>5, <1>6, <1>7
     DEF Moved, Statuses, TypeInv, TypeOK, HistoryTyped, workerVars, requestVars,
         historyVars, storeVars

LEMMA CallEndsTyped ==
    ASSUME TypeInv, NEW c \in calls, IndexApplies(c) \/ IndexFails(c)
    PROVE  TypeInv'
<1>1. c \in Call
  BY DEF TypeInv, TypeOK
<1>2. index' \in [Entry -> Value \cup {Nothing}] /\ troubled' \subseteq Entry
  BY <1>1 DEF IndexApplies, IndexFails, TypeInv, TypeOK, Call
<1>3. calls' \subseteq Call /\ pc' \in [Requests -> Progress]
  BY DEF IndexApplies, IndexFails, CallReturns, TypeInv, TypeOK, Progress
<1>4. UNCHANGED <<workerVars, requestVars, handlerVars, historyVars, storeVars>>
  BY DEF IndexApplies, IndexFails
<1> QED
  BY <1>2, <1>3, <1>4
     DEF TypeInv, TypeOK, HistoryTyped, workerVars, requestVars, handlerVars, historyVars, storeVars

LEMMA RespondTyped ==
    ASSUME TypeInv, NEW r \in Requests, Respond(r)
    PROVE  TypeInv'
<1>1. Moved /\ todo' \in [Requests -> DOMAIN LoadedDescriptors]
  <2>1. CASE ~IsLoad(r)
    <3>1. input[r].op \in Write \cup {"getById", "query"}
      BY <2>1 DEF IsLoad, TypeInv, TypeOK, Input, Op
    <3>2. Answered(r, ResponseStatus(input[r].op, result[r])) /\ todo' = todo
      BY <2>1 DEF Respond
    <3> QED
      BY <3>1, <3>2, ResponseTyped, AnsweredTyped DEF Moved, TypeInv, TypeOK
  <2>2. CASE IsLoad(r) /\ HasMoreDescriptors(r)
    <3>1. GoTo(r, "store") /\ todo' = [todo EXCEPT ![r] = @ + 1]
      BY <2>2 DEF Respond
    <3>2. todo[r] + 1 \in DOMAIN LoadedDescriptors
      BY <2>2, LoadedDescriptorsAssumption DEF HasMoreDescriptors, TypeInv, TypeOK
    <3> QED
      BY <3>1, <3>2, GoToMoves DEF Progress, TypeInv, TypeOK
  <2>3. CASE IsLoad(r) /\ ~HasMoreDescriptors(r)
    BY <2>3, AnsweredTyped DEF Respond, Statuses, Moved, TypeInv, TypeOK
  <2> QED
    BY <2>1, <2>2, <2>3
<1>2. /\ result' \in [Requests -> Results] /\ notice' \in [Requests -> Notices]
  BY DEF Respond, Forget, TypeInv, HistoryTyped, Results, Notices, NoNotice
<1>3. UNCHANGED <<workerVars, indexVars, requestVars, answer, skipped, historyVars, storeVars>>
  BY DEF Respond
<1> QED
  BY <1>1, <1>2, <1>3
     DEF Moved, Statuses, TypeInv, TypeOK, HistoryTyped, workerVars, indexVars, requestVars,
         historyVars, storeVars

LEMMA CrashTyped ==
    ASSUME TypeInv, \A r \in Requests : NoticeInv(r), Crash
    PROVE  TypeInv'
<1>1. \A r \in Requests : Publishing(r) /\ IsToldOf(r) => notice[r].entry \in Entry
  BY ToldIsReported DEF Change
<1>2. troubled' \subseteq Entry
  BY <1>1 DEF Crash, TypeInv, TypeOK
<1>3. /\ pc' \in [Requests -> Progress] /\ timestamp' \in [Requests -> Nat]
      /\ \A r \in Requests : timestamp'[r] \in 0 .. clock
      /\ result' \in [Requests -> Results] /\ notice' \in [Requests -> Notices]
      /\ found' \in [Requests -> Uuid \cup {NoUuid}]
  BY DEF Crash, TypeInv, TypeOK, HistoryTyped, Results, Notices, NoNotice, Progress
<1>4. /\ loading' \in {"no", "running", "over"} /\ loaded' \subseteq Part /\ schema' \in BOOLEAN
      /\ UNCHANGED <<clock, index, calls, requestVars, todo, answer, status, skipped, historyVars,
                     store, issued, backend>>
  BY DEF Crash
<1> QED
  BY <1>2, <1>3, <1>4
     DEF TypeInv, TypeOK, HistoryTyped, requestVars, historyVars

-----------------------------------------------------------------------------
(* What the store can hold after a call.                                    *)

(* No document of PostgreSQL goes unless it is deleted, one moves only if a *)
(* request by documentUuid moved it, and in MongoDB none becomes older.     *)
Outlives(s, n) ==
    backend = "PostgreSQL" =>
        \A i \in Id : store[i] # NoDoc =>
            \/ \E k \in Id : s[k] # NoDoc /\ s[k].uuid = store[i].uuid
            \/ n.value = Nothing /\ n.entry[2] = store[i].uuid
IsPlaced(r, s) ==
    \A k \in Id : s[k] # NoDoc /\ s[k].uuid <= issued =>
        (store[k] # NoDoc /\ store[k].uuid = s[k].uuid) \/ uuid[r] # NoUuid \/ IsTaken
Matures(s) ==
    backend = "MongoDB" =>
        \A k \in Id : s[k] # NoDoc =>
            \/ s[k].uuid > issued
            \/ \E l \in Id : /\ store[l] # NoDoc /\ store[l].uuid = s[k].uuid
                             /\ store[l].lastModifiedAt <= s[k].lastModifiedAt
IsOfAge(r, s) ==
    input[r].op = "update" =>
        \A k \in Id : s[k] # NoDoc /\ s[k].uuid = uuid[r] => s[k].lastModifiedAt >= timestamp[r]

(* What is proved of a store s that r commits the change n with.            *)
IsProper(r, s, n) ==
    /\ s \in [Id -> Doc \cup {NoDoc}] /\ n \in Change /\ IsByOwner(s)
    /\ \A i \in Id : s[i] # NoDoc => s[i].uuid <= issued \/ s[i].uuid = n.entry[2]
    /\ \A i, j \in Id : s[i] # NoDoc /\ s[j] # NoDoc /\ s[i].uuid = s[j].uuid => i = j
    /\ Projection(s, n.entry) = n.value
    /\ IF n.value = Nothing THEN uuid[r] # NoUuid ELSE n.value.by = r
    /\ \A i \in Id : store[i] # NoDoc /\ s[i] = NoDoc => uuid[r] # NoUuid \/ IsTaken
    /\ IsLoad(r) => s[IdOf(r)] # NoDoc
    /\ Outlives(s, n) /\ IsPlaced(r, s) /\ Matures(s) /\ IsOfAge(r, s)

(* A write names a document, and it names its client.                       *)
LEMMA NamesTyped ==
    ASSUME TypeInv, NEW r \in Requests
    PROVE  /\ IdOf(r) \in Id /\ ClientOf(r) \in Clients \cup {Loader}
           /\ EndpointOf(r) \in Resource /\ Indexed(r) \in Value
           /\ \A u \in Uuid, owner \in Clients \cup {Loader} :
                  Version(r, u, owner) \in Doc /\ Version(r, u, owner) # NoDoc
<1>1. input[r] \in Input /\ todo[r] \in DOMAIN LoadedDescriptors /\ timestamp[r] \in Nat
  BY DEF TypeInv, TypeOK, HistoryTyped
<1>2. IdOf(r) \in Id /\ ClientOf(r) \in Clients \cup {Loader}
  BY <1>1, LoadedDescriptorsAssumption DEF IdOf, ClientOf, Input
<1>3. EndpointOf(r) \in Resource
  BY <1>1, <1>2, InputsAssumption DEF EndpointOf, Input
<1>4. \A u \in Uuid, owner \in Clients \cup {Loader} : Version(r, u, owner) \in Doc
  BY <1>1, <1>2 DEF Version, Doc
<1> QED
  BY <1>2, <1>3, <1>4, NamesAssumption DEF Indexed, Value

(* An entry shows the one document that has its documentUuid.               *)
LEMMA ProjectionIs ==
    ASSUME NEW s, NEW j \in Id, s[j] # NoDoc,
           \A k \in Id : s[k] # NoDoc /\ s[k].uuid = s[j].uuid => k = j
    PROVE  Projection(s, <<ResourceOf[j], s[j].uuid>>) =
               [id |-> j, createdBy |-> s[j].writer, by |-> s[j].by]
<1> DEFINE e == <<ResourceOf[j], s[j].uuid>>
           there == {k \in Id : s[k] # NoDoc /\ <<ResourceOf[k], s[k].uuid>> = e}
<1>1. there = {j}
  OBVIOUS
<1>2. (CHOOSE k \in there : TRUE) = j
  BY <1>1
<1> QED
  BY <1>1, <1>2 DEF Projection

LEMMA ProjectionIsNothing ==
    ASSUME NEW s, NEW e, \A k \in Id : s[k] # NoDoc => s[k].uuid # e[2]
    PROVE  Projection(s, e) = Nothing
<1>1. \A k \in Id : s[k] # NoDoc => <<ResourceOf[k], s[k].uuid>> # e
  OBVIOUS
<1> QED
  BY <1>1 DEF Projection

(* When a version of r may be put in the place of what i holds.             *)
MayPut(r, i, u, owner) ==
    /\ ~IsLoad(r) => input[r].resource = ResourceOf[input[r].id]
    /\ \/ store[i] # NoDoc /\ store[i].uuid = u
       \/ u = issued + 1 /\ i = IdOf(r) /\ store[i] = NoDoc
    /\ i = IdOf(r) \/ uuid[r] # NoUuid \/ IsTaken
    /\ backend = "PostgreSQL" => owner = ClientOf(r) /\ (i = IdOf(r) \/ store[IdOf(r)] = NoDoc)
    /\ backend = "MongoDB" /\ store[i] # NoDoc => IsFresh(r, i)
    /\ input[r].op = "update" => u = uuid[r]

LEMMA PutIsProper ==
    ASSUME TypeInv, StoreInv, NEW r \in Requests, NEW i \in Id, NEW u \in Uuid,
           NEW owner \in Clients \cup {Loader}, MayPut(r, i, u, owner)
    PROVE  IsProper(r, [store EXCEPT ![i] = NoDoc, ![IdOf(r)] = Version(r, u, owner)],
                    Notice(r, u, Indexed(r)))
<1> DEFINE j == IdOf(r)
           v == Version(r, u, owner)
           s == [store EXCEPT ![i] = NoDoc, ![j] = v]
           n == Notice(r, u, Indexed(r))
<1>1. /\ j \in Id /\ v \in Doc /\ v # NoDoc /\ EndpointOf(r) \in Resource /\ Indexed(r) \in Value
      /\ store \in [Id -> Doc \cup {NoDoc}] /\ issued \in Nat /\ timestamp[r] \in Nat
  BY NamesTyped DEF TypeInv, TypeOK, HistoryTyped
<1>2. /\ s \in [Id -> Doc \cup {NoDoc}] /\ s[j] = v /\ s[j] # NoDoc /\ s[j].uuid = u
      /\ s[j].createdBy = owner /\ s[j].writer = ClientOf(r) /\ s[j].lastModifiedAt = timestamp[r] /\ s[j].by = r
      /\ \A k \in Id \ {j} : s[k] = NoDoc \/ (s[k] = store[k] /\ k # i)
      /\ \A k \in Id \ {i, j} : s[k] = store[k]
  BY <1>1 DEF Version
<1> HIDE DEF s
<1>3. \A k \in Id \ {j} : s[k] # NoDoc => s[k].uuid # u /\ s[k].uuid <= issued
  <2>1. SUFFICES ASSUME NEW k \in Id \ {j}, s[k] # NoDoc
                 PROVE  s[k].uuid # u /\ s[k].uuid <= issued
    OBVIOUS
  <2>2. s[k] = store[k] /\ k # i /\ store[k] \in Doc
    BY <1>1, <1>2, <2>1
  <2>3. store[k].uuid <= issued /\ store[k].uuid \in Nat
    BY <2>1, <2>2 DEF StoreInv, Doc, Uuid
  <2> QED
    BY <1>1, <2>1, <2>2, <2>3 DEF StoreInv, MayPut
<1>4. \A k, l \in Id : s[k] # NoDoc /\ s[l] # NoDoc /\ s[k].uuid = s[l].uuid => k = l
  <2>1. SUFFICES ASSUME NEW k \in Id, NEW l \in Id, s[k] # NoDoc, s[l] # NoDoc, s[k].uuid = s[l].uuid
                 PROVE  k = l
    OBVIOUS
  <2>2. CASE k = j \/ l = j
    BY <1>2, <1>3, <2>1, <2>2
  <2>3. CASE k # j /\ l # j
    BY <1>2, <2>1, <2>3 DEF StoreInv
  <2> QED
    BY <2>2, <2>3
<1>5. n \in Change /\ n.entry = <<ResourceOf[j], u>> /\ n.value = Indexed(r)
  <2>1. EndpointOf(r) = ResourceOf[j]
    BY DEF EndpointOf, IdOf, MayPut
  <2> QED
    BY <1>1, <2>1 DEF Notice, Change, Entry
<1>6. Projection(s, n.entry) = n.value
  <2>1. Projection(s, <<ResourceOf[j], s[j].uuid>>) =
            [id |-> j, createdBy |-> s[j].writer, by |-> s[j].by]
    BY <1>1, <1>2, <1>4, ProjectionIs
  <2> QED
    BY <1>2, <1>5, <2>1 DEF Indexed
<1>7. n.value.by = r /\ n.value # Nothing
  BY <1>1, <1>5, NamesAssumption DEF Indexed
<1>8. \A k \in Id : store[k] # NoDoc /\ s[k] = NoDoc => uuid[r] # NoUuid \/ IsTaken
  BY <1>2 DEF MayPut
<1>9. \A k \in Id : s[k] # NoDoc => s[k].uuid <= issued \/ s[k].uuid = n.entry[2]
  BY <1>2, <1>3, <1>5
<1>10. IsByOwner(s)
  BY <1>1, <1>2 DEF IsByOwner, StoreInv, MayPut
<1>11. Outlives(s, n)
  <2>1. SUFFICES ASSUME backend = "PostgreSQL", NEW k \in Id, store[k] # NoDoc
                 PROVE  \E l \in Id : s[l] # NoDoc /\ s[l].uuid = store[k].uuid
    BY DEF Outlives
  <2>2. CASE k = i
    BY <1>1, <1>2, <2>1, <2>2 DEF MayPut
  <2>3. CASE k # i
    <3>1. k # j
      BY <2>1, <2>3 DEF MayPut
    <3> QED
      BY <1>2, <2>1, <2>3, <3>1
  <2> QED
    BY <2>2, <2>3
<1>12. IsPlaced(r, s)
  <2>1. SUFFICES ASSUME NEW k \in Id, s[k] # NoDoc, s[k].uuid <= issued, ~(uuid[r] # NoUuid \/ IsTaken)
                 PROVE  store[k] # NoDoc /\ store[k].uuid = s[k].uuid
    BY DEF IsPlaced
  <2>2. CASE k = j
    BY <1>1, <1>2, <2>1, <2>2 DEF MayPut
  <2>3. CASE k # j
    BY <1>2, <2>1, <2>3
  <2> QED
    BY <2>2, <2>3
<1>13. Matures(s)
  <2>1. SUFFICES ASSUME backend = "MongoDB", NEW k \in Id, s[k] # NoDoc, ~(s[k].uuid > issued)
                 PROVE  \E l \in Id : /\ store[l] # NoDoc /\ store[l].uuid = s[k].uuid
                                      /\ store[l].lastModifiedAt <= s[k].lastModifiedAt
    BY DEF Matures
  <2>2. \A l \in Id : store[l] # NoDoc => store[l].lastModifiedAt \in Nat
    BY <1>1 DEF Doc
  <2>3. CASE k = j
    <3>1. store[i] # NoDoc /\ store[i].uuid = u /\ timestamp[r] > store[i].lastModifiedAt
      BY <1>1, <1>2, <2>1, <2>3 DEF MayPut, IsFresh
    <3> QED
      BY <1>1, <1>2, <2>2, <2>3, <3>1
  <2>4. CASE k # j
    BY <1>2, <2>1, <2>2, <2>4
  <2> QED
    BY <2>3, <2>4
<1>14. IsOfAge(r, s)
  <2>1. SUFFICES ASSUME input[r].op = "update", NEW k \in Id, s[k] # NoDoc, s[k].uuid = uuid[r]
                 PROVE  s[k].lastModifiedAt >= timestamp[r]
    BY DEF IsOfAge
  <2>2. k = j
    BY <1>3, <2>1 DEF MayPut
  <2> QED
    BY <1>1, <1>2, <2>2
<1> HIDE DEF n, j, v
<1>15. IsProper(r, s, n)
  BY <1>1, <1>2, <1>4, <1>5, <1>6, <1>7, <1>8, <1>9, <1>10, <1>11, <1>12, <1>13, <1>14 DEF IsProper, j
<1> QED
  BY <1>15 DEF s, n, j, v

(* A document is taken out of the store.                                    *)
LEMMA TakeIsProper ==
    ASSUME TypeInv, StoreInv, NEW r \in Requests, NEW i \in Id, input[r].op = "deleteById",
           uuid[r] \in Uuid, store[i] # NoDoc, store[i].uuid = uuid[r]
    PROVE  IsProper(r, [store EXCEPT ![i] = NoDoc], Notice(r, uuid[r], Nothing))
<1> DEFINE s == [store EXCEPT ![i] = NoDoc]
           n == Notice(r, uuid[r], Nothing)
<1>1. /\ EndpointOf(r) \in Resource /\ store \in [Id -> Doc \cup {NoDoc}] /\ uuid[r] # NoUuid
      /\ ~IsLoad(r) /\ input[r].op # "update"
  BY NamesTyped, NamesAssumption DEF TypeInv, TypeOK, IsLoad
<1>2. /\ s \in [Id -> Doc \cup {NoDoc}]
      /\ \A k \in Id : s[k] # NoDoc => s[k] = store[k] /\ k # i
      /\ \A k \in Id \ {i} : s[k] = store[k]
  BY <1>1
<1>3. n \in Change /\ n.entry[2] = uuid[r] /\ n.value = Nothing
  BY <1>1 DEF Notice, Change, Entry
<1> HIDE DEF s, n
<1>4. \A k \in Id : s[k] # NoDoc => s[k].uuid # n.entry[2] /\ s[k].uuid <= issued
  BY <1>2, <1>3 DEF StoreInv
<1>5. Projection(s, n.entry) = n.value
  BY <1>3, <1>4, ProjectionIsNothing
<1>6. \A k, l \in Id : s[k] # NoDoc /\ s[l] # NoDoc /\ s[k].uuid = s[l].uuid => k = l
  BY <1>2 DEF StoreInv
<1>7. IsByOwner(s) /\ Outlives(s, n) /\ IsPlaced(r, s) /\ IsOfAge(r, s)
  BY <1>1, <1>2, <1>3 DEF IsByOwner, StoreInv, Outlives, IsPlaced, IsOfAge
<1>8. Matures(s)
  <2>1. \A k \in Id : store[k] # NoDoc => store[k].lastModifiedAt <= store[k].lastModifiedAt
    BY <1>1 DEF Doc
  <2> QED
    BY <1>2, <2>1 DEF Matures
<1>9. IsProper(r, s, n)
  BY <1>1, <1>2, <1>3, <1>4, <1>5, <1>6, <1>7, <1>8 DEF IsProper
<1> QED
  BY <1>9 DEF s, n

(* The ways a call of the store ends: nothing is done ...                   *)
Declines(r, n, response) ==
    /\ Responds(r, response, n)
    /\ response \in Results \ Success /\ n \in Notices
    /\ response = "UPDATE_FAILURE_IMMUTABLE_IDENTITY" =>
           input[r].op = "update" /\ \E i \in At(uuid[r]) : IsFresh(r, i)
Holds(r, i) ==
    /\ Finds(r, i) /\ i \in Id /\ store[i] # NoDoc
    /\ \/ input[r].op \in {"upsert", "loadDescriptors"} /\ i = IdOf(r)
       \/ input[r].op = "update" /\ store[i].uuid = uuid[r]
IsCalm(r) ==
    /\ UNCHANGED <<store, issued, backend, wrote, reported, saw, troubled>>
    /\ (\E n, response : Declines(r, n, response)) \/ Throws(r) \/ \E i : Holds(r, i)

(* ... or something that was not done is reported ...                       *)
Skips(r, n) ==
    /\ Misses(r, n) /\ input[r].op \in {"upsert", "loadDescriptors"}
    /\ n \in Change /\ n.entry[2] = found[r] /\ n.value # Nothing /\ n.value.by = r

(* ... or something is done, and reported or not.                           *)
IsOutcome(r, response) ==
    \/ input[r].op \in {"upsert", "loadDescriptors"} /\ response \in {"INSERT_SUCCESS", "UPDATE_SUCCESS"}
    \/ input[r].op = "update" /\ response = "UPDATE_SUCCESS"
    \/ input[r].op = "deleteById" /\ response = "DELETE_SUCCESS"
Ends(r, n, isTold) ==
    \/ isTold /\ \E response \in Success : IsOutcome(r, response) /\ Responds(r, response, n)
    \/ /\ ~isTold
       /\ Responds(r, "UNKNOWN_FAILURE", n) \/ Throws(r) \/ (backend = "MongoDB" /\ Reruns(r))
Writes(r, s, n, isTold) ==
    Commits(r, s, n, isTold) /\ Ends(r, n, isTold) /\ IsProper(r, s, n) /\ isTold \in BOOLEAN

Forms(r) ==
    IsCalm(r) \/ (\E n : Skips(r, n)) \/ \E s, n, isTold : Writes(r, s, n, isTold)

LEMMA RefusesForms ==
    ASSUME NEW r, NEW responses, NEW n \in Notices, Refuses(r, responses, n),
           responses \subseteq Results \ Success,
           "UPDATE_FAILURE_IMMUTABLE_IDENTITY" \in responses =>
               input[r].op = "update" /\ \E i \in At(uuid[r]) : IsFresh(r, i)
    PROVE  IsCalm(r)
<1>1. {"UNKNOWN_FAILURE", "FAILURE_WRITE_CONFLICT", "FAILURE_REFERENCE"} \subseteq Results \ Success
  BY DEF Results, Success
<1>2. CASE Throws(r)
  BY <1>2 DEF Refuses, IsCalm
<1>3. CASE ~Throws(r)
  <2>1. PICK response \in responses \cup {"UNKNOWN_FAILURE", "FAILURE_WRITE_CONFLICT", "FAILURE_REFERENCE"} :
            Responds(r, response, n)
    BY <1>3 DEF Refuses
  <2>2. Declines(r, n, response)
    BY <1>1, <2>1 DEF Declines
  <2> QED
    BY <2>2 DEF Refuses, IsCalm
<1> QED
  BY <1>2, <1>3

LEMMA SucceedsForms ==
    ASSUME NEW r, NEW s, NEW n, NEW response \in Success, Succeeds(r, s, n, response),
           IsProper(r, s, n), IsOutcome(r, response)
    PROVE  Forms(r)
<1>1. Writes(r, s, n, TRUE) \/ Writes(r, s, n, FALSE)
  BY DEF Succeeds, Writes, Ends
<1> QED
  BY <1>1 DEF Forms

(* PostgreSQL rewrites what it has found.                                   *)
LEMMA RewritesForms ==
    ASSUME TypeInv, StoreInv, NEW r \in Requests, PathInv(r), FoundInv(r), pc[r] = "store",
           input[r].op \in {"upsert", "loadDescriptors", "update"},
           found[r] # NoUuid, NEW n, n = Notice(r, found[r], Indexed(r)), Rewrites(r, IdOf(r), n)
    PROVE  Forms(r)
<1>1. PICK i \in At(found[r]) :
          /\ i = IdOf(r) \/ store[IdOf(r)] = NoDoc
          /\ Succeeds(r, [store EXCEPT ![i] = NoDoc, ![IdOf(r)] = Version(r, found[r], ClientOf(r))], n,
                      "UPDATE_SUCCESS")
  BY DEF Rewrites
<1>2. i \in Id /\ store[i] # NoDoc /\ store[i].uuid = found[r] /\ found[r] \in Uuid
  BY <1>1 DEF At, TypeInv, TypeOK
<1>3. backend = "PostgreSQL" /\ (input[r].op = "update" => found[r] = uuid[r])
  BY DEF FoundInv
<1>4. i = IdOf(r) \/ uuid[r] # NoUuid \/ IsTaken
  <2>1. CASE input[r].op = "update"
    BY <2>1, <1>3
  <2>2. CASE input[r].op # "update"
    <3>1. IsTaken \/ At(found[r]) \subseteq {IdOf(r)}
      BY <2>2 DEF FoundInv
    <3> QED
      BY <1>1, <3>1
  <2> QED
    BY <2>1, <2>2
<1>5. ~IsLoad(r) => input[r].resource = ResourceOf[input[r].id]
  BY InputsAssumption DEF PathInv, IsLoad
<1>6. MayPut(r, i, found[r], ClientOf(r)) /\ ClientOf(r) \in Clients \cup {Loader}
  BY <1>1, <1>2, <1>3, <1>4, <1>5, NamesTyped DEF MayPut
<1> DEFINE s == [store EXCEPT ![i] = NoDoc, ![IdOf(r)] = Version(r, found[r], ClientOf(r))]
<1>7. IsProper(r, s, n)
  BY <1>2, <1>6, PutIsProper
<1>8. IsOutcome(r, "UPDATE_SUCCESS") /\ "UPDATE_SUCCESS" \in Success
  BY DEF IsOutcome, Success
<1>9. Succeeds(r, s, n, "UPDATE_SUCCESS")
  BY <1>1
<1> HIDE DEF s
<1> QED
  BY <1>7, <1>8, <1>9, SucceedsForms

LEMMA UpsertForms ==
    ASSUME TypeInv, StoreInv, NEW r \in Requests, PathInv(r), FoundInv(r), pc[r] = "store",
           upsertDocument(r), input[r].op \in {"upsert", "loadDescriptors"}
    PROVE  Forms(r)
<1> DEFINE i == IdOf(r)
           isThere == store[i] # NoDoc
           u == IF found[r] # NoUuid THEN found[r] ELSE IF isThere THEN store[i].uuid ELSE issued + 1
           n == Notice(r, u, Indexed(r))
           s == [store EXCEPT ![i] = Version(r, u, ClientOf(r))]
<1>1. /\ i \in Id /\ EndpointOf(r) \in Resource /\ Indexed(r) \in Value /\ ClientOf(r) \in Clients \cup {Loader}
      /\ store \in [Id -> Doc \cup {NoDoc}] /\ issued \in 0 .. MaxUuid /\ found[r] \in Uuid \cup {NoUuid}
  BY NamesTyped DEF TypeInv, TypeOK, HistoryTyped
<1>2. u \in Nat /\ (isThere \/ found[r] # NoUuid => u \in Uuid)
  BY <1>1, BoundsAssumption DEF Doc, Uuid
<1>3. n \in Notices
  BY <1>1, <1>2 DEF Notice, Notices
<1>4. CASE Refuses(r, IF isThere THEN {} ELSE {"FAILURE_CONFLICT"}, n)
  <2>1. (IF isThere THEN {} ELSE {"FAILURE_CONFLICT"}) \subseteq Results \ Success
    BY DEF Results, Success
  <2>2. IsCalm(r)
    BY <1>3, <1>4, <2>1, RefusesForms
  <2> QED
    BY <2>2 DEF Forms
<1>5. ASSUME NEW response \in {"INSERT_SUCCESS", "UPDATE_SUCCESS"}, Succeeds(r, s, n, response),
             found[r] = NoUuid,
             IF isThere THEN backend = "MongoDB" /\ IsFresh(r, i) ELSE issued < MaxUuid
      PROVE  Forms(r)
  <2>1. u \in Uuid
    BY <1>1, <1>2, <1>5, BoundsAssumption DEF Uuid
  <2>2. s = [store EXCEPT ![i] = NoDoc, ![i] = Version(r, u, ClientOf(r))]
    BY <1>1
  <2>3. ~IsLoad(r) => input[r].resource = ResourceOf[input[r].id]
    BY InputsAssumption DEF PathInv, IsLoad
  <2>4. (store[i] # NoDoc /\ store[i].uuid = u) \/ (u = issued + 1 /\ i = IdOf(r) /\ store[i] = NoDoc)
    BY <1>5
  <2> HIDE DEF u
  <2>5. MayPut(r, i, u, ClientOf(r))
    BY <1>5, <2>3, <2>4 DEF MayPut
  <2>6. IsProper(r, s, n)
    BY <1>1, <2>1, <2>2, <2>5, PutIsProper
  <2>7. IsOutcome(r, response) /\ response \in Success
    BY <1>5 DEF IsOutcome, Success
  <2> HIDE DEF s, n
  <2> QED
    BY <1>5, <2>6, <2>7, SucceedsForms
<1>6. CASE isThere /\ Finds(r, i)
  <2>1. Holds(r, i)
    BY <1>1, <1>6 DEF Holds
  <2>2. IsCalm(r)
    BY <2>1 DEF Holds, Finds, IsCalm
  <2> QED
    BY <2>2 DEF Forms
<1>7. CASE Rewrites(r, i, n)
  <2>1. found[r] # NoUuid
    BY <1>1, <1>7, NamesAssumption DEF Rewrites, At, Doc
  <2>2. n = Notice(r, found[r], Indexed(r))
    BY <2>1
  <2> HIDE DEF n
  <2> QED
    BY <1>7, <2>1, <2>2, RewritesForms
<1>8. CASE Misses(r, n)
  <2>1. found[r] # NoUuid
    BY <1>8 DEF Misses
  <2>2. n \in Change /\ n.entry[2] = found[r] /\ n.value # Nothing /\ n.value.by = r
    BY <1>1, <1>2, <2>1, NamesAssumption DEF Notice, Change, Entry, Indexed
  <2> HIDE DEF n
  <2>3. Skips(r, n)
    BY <1>8, <2>2 DEF Skips
  <2> QED
    BY <2>3 DEF Forms
<1>9. \/ /\ found[r] = NoUuid /\ ~isThere /\ issued < MaxUuid
         /\ Succeeds(r, s, n, "INSERT_SUCCESS")
      \/ /\ isThere /\ IsFresh(r, i)
         /\ Finds(r, i) \/ (backend = "MongoDB" /\ Succeeds(r, s, n, "UPDATE_SUCCESS"))
      \/ Rewrites(r, i, n) \/ Misses(r, n)
      \/ Refuses(r, IF isThere THEN {} ELSE {"FAILURE_CONFLICT"}, n)
  BY DEF upsertDocument
<1>10. backend = "MongoDB" => found[r] = NoUuid
  BY DEF FoundInv
<1> HIDE DEF s, n, u, i
<1> QED
  BY <1>4, <1>5, <1>6, <1>7, <1>8, <1>9, <1>10

LEMMA UpdateForms ==
    ASSUME TypeInv, StoreInv, NEW r \in Requests, PathInv(r), FoundInv(r), pc[r] = "store",
           updateDocumentById(r), input[r].op = "update", uuid[r] # NoUuid
    PROVE  Forms(r)
<1> DEFINE j == input[r].id
           n == Notice(r, uuid[r], Indexed(r))
           owner(i) == IF i = j THEN store[i].createdBy ELSE ClientOf(r)
<1>1. /\ j = IdOf(r) /\ j \in Id /\ EndpointOf(r) \in Resource /\ Indexed(r) \in Value
      /\ uuid[r] \in Uuid /\ ~IsLoad(r) /\ ClientOf(r) \in Clients \cup {Loader}
      /\ store \in [Id -> Doc \cup {NoDoc}]
  BY NamesTyped DEF IdOf, IsLoad, TypeInv, TypeOK
<1>2. n \in Notices
  BY <1>1 DEF Notice, Notices, Uuid
<1>3. CASE Refuses(r, UpdateFailures(r, j), n)
  <2>1. UpdateFailures(r, j) \subseteq Results \ Success
    BY DEF UpdateFailures, Results, Success
  <2>2. "UPDATE_FAILURE_IMMUTABLE_IDENTITY" \in UpdateFailures(r, j) =>
            \E i \in At(uuid[r]) : IsFresh(r, i)
    BY DEF UpdateFailures
  <2>3. IsCalm(r)
    BY <1>2, <1>3, <2>1, <2>2, RefusesForms
  <2> QED
    BY <2>3 DEF Forms
<1>4. ASSUME NEW i \in At(uuid[r]), IsFresh(r, i), backend = "MongoDB",
             Succeeds(r, [store EXCEPT ![i] = NoDoc, ![j] = Version(r, uuid[r], owner(i))], n, "UPDATE_SUCCESS")
      PROVE  Forms(r)
  <2> DEFINE s == [store EXCEPT ![i] = NoDoc, ![j] = Version(r, uuid[r], owner(i))]
  <2>1. i \in Id /\ store[i] # NoDoc /\ store[i].uuid = uuid[r]
    BY <1>4 DEF At
  <2>2. input[r].resource = ResourceOf[input[r].id]
    BY InputsAssumption DEF PathInv
  <2>3. owner(i) \in Clients \cup {Loader}
    BY <1>1, <2>1 DEF Doc
  <2>4. MayPut(r, i, uuid[r], owner(i))
    BY <1>1, <1>4, <2>1, <2>2 DEF MayPut
  <2> HIDE DEF owner
  <2>5. IsProper(r, s, n)
    BY <1>1, <2>1, <2>3, <2>4, PutIsProper
  <2>6. IsOutcome(r, "UPDATE_SUCCESS") /\ "UPDATE_SUCCESS" \in Success /\ Succeeds(r, s, n, "UPDATE_SUCCESS")
    BY <1>4 DEF IsOutcome, Success
  <2> HIDE DEF s, n
  <2> QED
    BY <2>5, <2>6, SucceedsForms
<1>5. ASSUME NEW i \in At(uuid[r]), Finds(r, i) PROVE Forms(r)
  <2>1. Holds(r, i)
    BY <1>5 DEF At, Holds
  <2>2. IsCalm(r)
    BY <2>1 DEF Holds, Finds, IsCalm
  <2> QED
    BY <2>2 DEF Forms
<1>6. CASE Rewrites(r, j, n)
  <2>1. found[r] # NoUuid
    BY <1>1, <1>6, NamesAssumption DEF Rewrites, At, Doc
  <2>2. n = Notice(r, found[r], Indexed(r))
    BY <2>1 DEF FoundInv
  <2> HIDE DEF n
  <2> QED
    BY <1>1, <1>6, <2>1, <2>2, RewritesForms
<1>7. \/ \E i \in At(uuid[r]) :
           /\ IsFresh(r, i)
           /\ \/ Finds(r, i)
              \/ /\ backend = "MongoDB"
                 /\ Succeeds(r, [store EXCEPT ![i] = NoDoc, ![j] = Version(r, uuid[r], owner(i))], n,
                             "UPDATE_SUCCESS")
      \/ Rewrites(r, j, n)
      \/ Refuses(r, UpdateFailures(r, j), n)
  BY DEF updateDocumentById
<1> HIDE DEF n, j, owner
<1> QED
  BY <1>3, <1>4, <1>5, <1>6, <1>7

LEMMA DeleteForms ==
    ASSUME TypeInv, StoreInv, NEW r \in Requests, deleteDocumentById(r),
           input[r].op = "deleteById", uuid[r] # NoUuid
    PROVE  Forms(r)
<1> DEFINE n == Notice(r, uuid[r], Nothing)
<1>1. EndpointOf(r) \in Resource /\ uuid[r] \in Uuid
  BY NamesTyped DEF TypeInv, TypeOK
<1>2. n \in Notices
  BY <1>1 DEF Notice, Notices, Uuid
<1>3. ASSUME NEW responses \in {{"FAILURE_NOT_EXISTS"}, {}}, Refuses(r, responses, n)
      PROVE  Forms(r)
  <2>1. responses \subseteq Results \ Success /\ "UPDATE_FAILURE_IMMUTABLE_IDENTITY" \notin responses
    BY <1>3 DEF Results, Success
  <2>2. IsCalm(r)
    BY <1>2, <1>3, <2>1, RefusesForms
  <2> QED
    BY <2>2 DEF Forms
<1>4. ASSUME NEW i \in At(uuid[r]), Succeeds(r, [store EXCEPT ![i] = NoDoc], n, "DELETE_SUCCESS")
      PROVE  Forms(r)
  <2> DEFINE s == [store EXCEPT ![i] = NoDoc]
  <2>1. i \in Id /\ store[i] # NoDoc /\ store[i].uuid = uuid[r]
    BY <1>4 DEF At
  <2>2. IsProper(r, s, n)
    BY <1>1, <2>1, TakeIsProper
  <2>3. IsOutcome(r, "DELETE_SUCCESS") /\ "DELETE_SUCCESS" \in Success /\ Succeeds(r, s, n, "DELETE_SUCCESS")
    BY <1>4 DEF IsOutcome, Success
  <2> HIDE DEF s, n
  <2> QED
    BY <2>2, <2>3, SucceedsForms
<1> HIDE DEF n
<1>5. \/ \E i \in At(uuid[r]) : Succeeds(r, [store EXCEPT ![i] = NoDoc], n, "DELETE_SUCCESS")
      \/ Refuses(r, {"FAILURE_NOT_EXISTS"}, n) \/ Refuses(r, {}, n)
  BY DEF deleteDocumentById, n
<1> QED
  BY <1>3, <1>4, <1>5

(* A call of the store ends in one of these ways.                           *)
LEMMA StoreForms ==
    ASSUME TypeInv, StoreInv, NEW r \in Requests, PathInv(r), FoundInv(r), StoreCall(r)
    PROVE  Forms(r)
<1>1. pc[r] = "store"
  BY DEF StoreCall
<1>2. CASE input[r].op \in {"upsert", "loadDescriptors"}
  BY <1>1, <1>2, UpsertForms DEF StoreCall
<1>3. CASE input[r].op = "update"
  <2>1. updateDocumentById(r) /\ uuid[r] # NoUuid
    BY <1>1, <1>3 DEF StoreCall, PathInv
  <2> QED
    BY <1>1, <1>3, <2>1, UpdateForms
<1>4. CASE input[r].op = "deleteById"
  <2>1. deleteDocumentById(r) /\ uuid[r] # NoUuid
    BY <1>1, <1>4 DEF StoreCall, PathInv
  <2> QED
    BY <1>4, <2>1, DeleteForms
<1> QED
  BY <1>2, <1>3, <1>4 DEF StoreCall

(* What a call of the store leaves alone.                                   *)
StoreFrame == UNCHANGED <<workerVars, requestVars, index, calls, todo, answer, before, crashes>>

(* How it leaves the request.                                               *)
Leaves(r) ==
    \/ \E n \in Notices, response \in Results : Responds(r, response, n)
    \/ Throws(r)
    \/ Reruns(r)
    \/ /\ \E u \in Uuid : found' = [found EXCEPT ![r] = u]
       /\ GoTo(r, "store")
       /\ UNCHANGED <<result, notice, skipped>>

LEMMA LeavesTyped ==
    ASSUME TypeInv, NEW r \in Requests, Leaves(r)
    PROVE  /\ Moved /\ result' \in [Requests -> Results] /\ notice' \in [Requests -> Notices]
           /\ skipped' \in [Requests -> SUBSET Id] /\ found' \in [Requests -> Uuid \cup {NoUuid}]
<1>1. CASE \E n \in Notices, response \in Results : Responds(r, response, n)
  <2>1. Moved
    BY <1>1, GoToMoves DEF Responds, Progress
  <2>2. skipped' \in [Requests -> SUBSET Id]
    BY <1>1, NamesTyped DEF Responds, TypeInv, HistoryTyped
  <2> QED
    BY <1>1, <2>1, <2>2 DEF Responds, TypeInv, TypeOK, HistoryTyped
<1>2. CASE Throws(r)
  <2>1. Moved
    BY <1>2, FailureMoves DEF Throws, Failures
  <2> QED
    BY <1>2, <2>1 DEF Throws, TypeInv, TypeOK, HistoryTyped
<1>3. CASE Reruns(r)
  BY <1>3, GoToMoves DEF Reruns, Progress, TypeInv, TypeOK, HistoryTyped
<1>4. CASE /\ \E u \in Uuid : found' = [found EXCEPT ![r] = u]
           /\ GoTo(r, "store")
           /\ UNCHANGED <<result, notice, skipped>>
  BY <1>4, GoToMoves DEF Progress, TypeInv, TypeOK, HistoryTyped
<1> QED
  BY <1>1, <1>2, <1>3, <1>4 DEF Leaves

LEMMA CalmLeaves ==
    ASSUME TypeInv, NEW r \in Requests, IsCalm(r)
    PROVE  Leaves(r)
<1>1. CASE \E n, response : Declines(r, n, response)
  BY <1>1 DEF Declines, Leaves
<1>2. CASE Throws(r)
  BY <1>2 DEF Leaves
<1>3. ASSUME NEW i, Holds(r, i) PROVE Leaves(r)
  <2>1. store[i].uuid \in Uuid
    BY <1>3 DEF Holds, TypeInv, TypeOK, Doc
  <2> QED
    BY <1>3, <2>1 DEF Holds, Finds, Leaves
<1> QED
  BY <1>1, <1>2, <1>3 DEF IsCalm

LEMMA ChangesAreNotices == Change \subseteq Notices
BY DEF Change, Notices, Entry, Uuid

LEMMA SkipsLeaves ==
    ASSUME NEW r, NEW n, Skips(r, n)
    PROVE  Leaves(r) /\ Responds(r, "UPDATE_SUCCESS", n)
BY ChangesAreNotices DEF Skips, Misses, Leaves, Results, Success

LEMMA WritesLeaves ==
    ASSUME NEW r, NEW s, NEW n, NEW isTold, Writes(r, s, n, isTold)
    PROVE  Leaves(r)
<1>1. n \in Notices /\ Success \cup {"UNKNOWN_FAILURE"} \subseteq Results
  BY ChangesAreNotices DEF Writes, IsProper, Results
<1> QED
  BY <1>1 DEF Writes, Ends, Leaves

LEMMA CalmTyped ==
    ASSUME TypeInv, NEW r \in Requests, StoreFrame, IsCalm(r)
    PROVE  TypeInv'
<1>1. UNCHANGED <<workerVars, requestVars, index, calls, todo, answer, before, store, issued, backend,
                  wrote, reported, saw, troubled>>
  BY DEF IsCalm, StoreFrame
<1> QED
  BY <1>1, CalmLeaves, LeavesTyped
     DEF Moved, Statuses, TypeInv, TypeOK, HistoryTyped, workerVars, requestVars

LEMMA SkipsTyped ==
    ASSUME TypeInv, NEW r \in Requests, StoreFrame, NEW n, Skips(r, n)
    PROVE  TypeInv'
<1>1. UNCHANGED <<workerVars, requestVars, index, calls, todo, answer, before, store, issued, backend,
                  wrote, saw>>
  BY DEF Skips, Misses, StoreFrame
<1>2. reported' \in [Requests \cup {Seed} -> SUBSET Change]
  BY DEF Skips, Misses, TypeInv, HistoryTyped
<1>3. troubled' \subseteq Entry
  BY DEF Skips, Misses, Change, TypeInv, TypeOK
<1> QED
  BY <1>1, <1>2, <1>3, SkipsLeaves, LeavesTyped
     DEF Moved, Statuses, TypeInv, TypeOK, HistoryTyped, workerVars, requestVars

LEMMA WritesTyped ==
    ASSUME TypeInv, NEW r \in Requests, StoreFrame, NEW s, NEW n, NEW isTold, Writes(r, s, n, isTold)
    PROVE  TypeInv'
<1>1. n \in Change /\ Commits(r, s, n, isTold) /\ IsProper(r, s, n)
  BY DEF Writes, IsProper
<1>2. n.entry \in Entry /\ n.entry[2] \in Uuid
  BY <1>1 DEF Change, Entry
<1>3. store' \in [Id -> Doc \cup {NoDoc}] /\ backend' = backend
  BY <1>1 DEF Commits, IsProper
<1>4. issued' \in 0 .. MaxUuid
  <2>1. issued' = issued \/ issued' = n.entry[2]
    BY <1>1 DEF Commits
  <2> QED
    BY <1>2, <2>1, BoundsAssumption DEF TypeInv, HistoryTyped, Uuid
<1>5. wrote' \in [Requests -> SUBSET Change] /\ reported' \in [Requests \cup {Seed} -> SUBSET Change]
  BY <1>1 DEF Commits, TypeInv, HistoryTyped
<1>6. saw' \in [Requests -> SUBSET (Clients \cup {Loader, Nobody})]
  <2>1. \A o \in Requests : Owners(s, o) \subseteq Clients \cup {Loader, Nobody}
    BY <1>1, OwnersTyped DEF IsProper
  <2> QED
    BY <1>1, <2>1 DEF Commits, TypeInv, HistoryTyped
<1>7. troubled' \subseteq Entry
  BY <1>1, <1>2 DEF Commits, TypeInv, TypeOK
<1>8. UNCHANGED <<workerVars, requestVars, index, calls, todo, answer, before>>
  BY DEF StoreFrame
<1> QED
  BY <1>3, <1>4, <1>5, <1>6, <1>7, <1>8, WritesLeaves, LeavesTyped
     DEF Moved, Statuses, TypeInv, TypeOK, HistoryTyped, workerVars, requestVars

LEMMA WritesStore ==
    ASSUME TypeInv, StoreInv, NEW r, NEW s, NEW n, NEW isTold, Writes(r, s, n, isTold)
    PROVE  StoreInv'
<1>1. issued \in Nat /\ n.entry[2] \in Nat
  BY DEF TypeInv, HistoryTyped, Writes, IsProper, Change, Entry, Uuid
<1>2. /\ store' = s /\ issued' = IF n.entry[2] > issued THEN n.entry[2] ELSE issued
      /\ backend' = backend
  BY DEF Writes, Commits
<1>3. \A i \in Id : s[i] # NoDoc => s[i].uuid \in Nat
  BY DEF Writes, IsProper, Doc, Uuid
<1>4. IsByOwner(store)'
  BY <1>2 DEF Writes, IsProper, IsByOwner
<1> QED
  BY <1>1, <1>2, <1>3, <1>4 DEF Writes, IsProper, StoreInv

-----------------------------------------------------------------------------
(* What one request's step leaves of the others.                            *)
RequestInv(r) ==
    /\ PathInv(r) /\ WroteInv(r) /\ FoundInv(r) /\ NoticeInv(r)
    /\ SawInv(r) /\ QueryInv(r) /\ LoadInv(r)

(* The step leaves o where it is and what it is.                            *)
Waits(o) ==
    /\ input'[o] = input[o] /\ uuid'[o] = uuid[o] /\ guarded'[o] = guarded[o]
    /\ pc'[o] = pc[o] /\ status'[o] = status[o] /\ todo'[o] = todo[o]
    /\ result'[o] = result[o] /\ notice'[o] = notice[o] /\ answer'[o] = answer[o]
    /\ timestamp'[o] = timestamp[o] /\ found'[o] = found[o]
    /\ before'[o] = before[o] /\ wrote'[o] = wrote[o] /\ reported'[o] = reported[o]
    /\ saw[o] \subseteq saw'[o] /\ skipped[o] \subseteq skipped'[o]

(* Nothing is undone: who is done remains done, and what was written        *)
(* remains written.                                                         *)
Grows ==
    /\ backend' = backend /\ (issued' = issued \/ (issued' \in Nat /\ issued' > issued))
    /\ \A o \in Requests :
          /\ pc[o] = "done" => pc'[o] = "done"
          /\ wrote[o] \subseteq wrote'[o] /\ (wrote[o] # {} => uuid'[o] = uuid[o])

LEMMA GrowsForms ==
    ASSUME Grows
    PROVE  /\ \A o \in Requests : \A u : HasDeleted(o, u) => HasDeleted(o, u)'
           /\ IsTaken => IsTaken'
BY DEF Grows, HasDeleted, IsTaken

LEMMA WaitsForms ==
    ASSUME NEW o, Waits(o)
    PROVE  /\ IsToldOf(o)' <=> IsToldOf(o)
           /\ Publishing(o)' <=> Publishing(o)
           /\ \A e : Tells(o, e)' <=> Tells(o, e)
           /\ IsOwned(o)' <=> IsOwned(o)
           /\ IsLoad(o)' <=> IsLoad(o)
           /\ InFlight(o)' <=> InFlight(o)
<1>1. IsToldOf(o)' <=> IsToldOf(o)
  BY DEF Waits, IsToldOf, afterUpsertDocument, afterUpdateDocumentById, afterDeleteDocumentById
<1>2. Publishing(o)' <=> Publishing(o)
  BY DEF Waits, Publishing
<1> QED
  BY <1>1, <1>2 DEF Waits, Tells, IsOwned, IsLoad, InFlight

(* The store becomes s, and with it its owners and what is to be indexed.   *)
LEMMA StoreBecomes ==
    ASSUME NEW s, store' = s
    PROVE  /\ \A e : Projection(store, e)' = Projection(s, e)
           /\ \A o : input'[o] = input[o] /\ uuid'[o] = uuid[o] =>
                  Owners(store, o)' = Owners(s, o)
<1>1. ASSUME NEW e PROVE Projection(store, e)' = Projection(s, e)
  BY DEF Projection
<1>2. ASSUME NEW o, input'[o] = input[o], uuid'[o] = uuid[o]
      PROVE  Owners(store, o)' = Owners(s, o)
  <2> DEFINE Has(t, i) == IF uuid[o] # NoUuid THEN t[i].uuid = uuid[o] ELSE i = input[o].id
             owned(t) == {i \in Id : t[i] # NoDoc /\ Has(t, i)}
  <2>1. \A i : Has(store, i)' <=> Has(s, i)
    BY <1>2
  <2> HIDE DEF Has
  <2>2. owned(store)' = owned(s)
    BY <2>1
  <2>3. /\ Owners(s, o) = IF ~input[o].ownership THEN {}
                          ELSE IF owned(s) = {} THEN {Nobody} ELSE {s[i].createdBy : i \in owned(s)}
        /\ Owners(store, o)' = IF ~input'[o].ownership THEN {}
                               ELSE IF owned(store)' = {} THEN {Nobody}
                               ELSE {store'[i].createdBy : i \in owned(store)'}
    BY DEF Owners, Has
  <2> HIDE DEF owned
  <2> QED
    BY <1>2, <2>2, <2>3
<1> QED
  BY <1>1, <1>2

LEMMA StoreStays ==
    ASSUME UNCHANGED store
    PROVE  /\ \A e : Projection(store, e)' = Projection(store, e)
           /\ \A o : input'[o] = input[o] /\ uuid'[o] = uuid[o] =>
                  Owners(store, o)' = Owners(store, o)
BY StoreBecomes

LEMMA KeptStays ==
    ASSUME UNCHANGED store, Grows, NEW o, skipped[o] \subseteq skipped'[o], NEW i, IsKept(o, i)
    PROVE  IsKept(o, i)'
BY GrowsForms DEF IsKept

LEMMA AtStays ==
    ASSUME UNCHANGED store
    PROVE  \A u : At(u)' = At(u)
BY DEF At

LEMMA AgedStays ==
    ASSUME UNCHANGED store, NEW o, HasAged(o),
           input'[o] = input[o], uuid'[o] = uuid[o], timestamp'[o] = timestamp[o]
    PROVE  HasAged(o)'
BY AtStays DEF HasAged

LEMMA MissedStays ==
    ASSUME Grows, NEW r \in Requests, MissedInv(r),
           input'[r] = input[r], wrote'[r] = wrote[r], reported'[r] = reported[r],
           pc'[r] \in {"stored", "indexing", "answer"} =>
               pc[r] \in {"stored", "indexing", "answer"} /\ result'[r] = result[r],
           pc'[r] = "done" /\ status'[r] \in {200, 201, 204} /\ reported[r] \ wrote[r] # {} =>
               status'[r] = 200
    PROVE  MissedInv(r)'
<1>1. SUFFICES ASSUME NEW c \in reported[r] \ wrote[r]
               PROVE  /\ backend' = "PostgreSQL" /\ input'[r].op = "upsert"
                      /\ pc'[r] \in {"stored", "indexing", "answer"} => result'[r] = "UPDATE_SUCCESS"
                      /\ pc'[r] = "done" /\ status'[r] \in {200, 201, 204} => status'[r] = 200
                      /\ \E o \in Requests \ {r} : HasDeleted(o, c.entry[2])'
  BY DEF MissedInv
<1>2. /\ backend = "PostgreSQL" /\ input[r].op = "upsert"
      /\ pc[r] \in {"stored", "indexing", "answer"} => result[r] = "UPDATE_SUCCESS"
      /\ \E o \in Requests \ {r} : HasDeleted(o, c.entry[2])
  BY <1>1 DEF MissedInv
<1>3. \E o \in Requests \ {r} : HasDeleted(o, c.entry[2])'
  BY <1>2, GrowsForms
<1> QED
  BY <1>1, <1>2, <1>3 DEF Grows

(* What was found is there while the store is as it was.                    *)
LEMMA FoundStays ==
    ASSUME UNCHANGED store, Grows, TypeInv, NEW r \in Requests, FoundInv(r),
           input'[r] = input[r], uuid'[r] = uuid[r], todo'[r] = todo[r], found'[r] = found[r],
           pc'[r] = "store" => pc[r] = "store" \/ found[r] = NoUuid,
           \/ pc'[r] \in {"idle", "plugins", "authorize", "ownership"}
           \/ IsLoad(r) /\ pc'[r] \in {"stored", "indexing", "answer"}
           => found[r] = NoUuid
    PROVE  FoundInv(r)'
<1>1. IsLoad(r)' = IsLoad(r) /\ IdOf(r)' = IdOf(r)
  BY DEF IsLoad, IdOf
<1>2. SUFFICES ASSUME pc'[r] = "store", found[r] # NoUuid
               PROVE  /\ backend' = "PostgreSQL" /\ found[r] <= issued'
                      /\ input[r].op \in {"upsert", "loadDescriptors"} =>
                             IsTaken' \/ At(found[r])' \subseteq {IdOf(r)}
                      /\ input[r].op = "update" => found[r] = uuid[r]
                      /\ At(found[r])' # {} \/ \E o \in Requests \ {r} : HasDeleted(o, found[r])'
  BY <1>1 DEF FoundInv, At
<1>3. /\ backend = "PostgreSQL" /\ found[r] <= issued
      /\ input[r].op \in {"upsert", "loadDescriptors"} => IsTaken \/ At(found[r]) \subseteq {IdOf(r)}
      /\ input[r].op = "update" => found[r] = uuid[r]
      /\ At(found[r]) # {} \/ \E o \in Requests \ {r} : HasDeleted(o, found[r])
  BY <1>2 DEF FoundInv
<1>4. backend' = "PostgreSQL" /\ found[r] <= issued'
  BY <1>2, <1>3, BoundsAssumption DEF Grows, TypeInv, TypeOK, HistoryTyped, Uuid
<1>5. At(found[r])' = At(found[r])
  BY AtStays
<1> QED
  BY <1>3, <1>4, <1>5, GrowsForms

LEMMA WaitsKeeps ==
    ASSUME TypeInv, NEW o \in Requests, Waits(o), Grows, RequestInv(o),
           InFlight(o) => Owners(store, o)' \subseteq saw'[o] \/ Owners(store, o)' = Owners(store, o),
           ShowsOldDocuments(o) => ShowsOldDocuments(o)',
           \A i \in Id : IsKept(o, i) => IsKept(o, i)',
           backend = "MongoDB" /\ uuid[o] # NoUuid /\ HasAged(o) => HasAged(o)', FoundInv(o)'
    PROVE  RequestInv(o)'
<1>1. PathInv(o)'
  <2>1. uuid[o] # NoUuid => uuid[o] <= issued'
    BY BoundsAssumption DEF RequestInv, PathInv, Grows, TypeInv, TypeOK, HistoryTyped, Uuid
  <2> QED
    BY <2>1, WaitsForms DEF Waits, RequestInv, PathInv, get
<1>2. WroteInv(o)'
  <2>1. input[o].op \in Write => MissedInv(o)'
    BY MissedStays DEF RequestInv, WroteInv, Waits, MissedInv
  <2>2. input[o].op \in Write /\ pc[o] = "store" =>
            reported[o] = {} /\ (wrote[o] # {} => backend = "MongoDB" /\ HasAged(o)')
    <3>1. input[o].op = "update" /\ pc[o] = "store" => uuid[o] # NoUuid
      BY DEF RequestInv, PathInv
    <3>2. input[o].op # "update" => HasAged(o)'
      BY DEF HasAged, Waits
    <3> QED
      BY <3>1, <3>2 DEF RequestInv, WroteInv
  <2> QED
    BY <2>1, <2>2 DEF Waits, RequestInv, WroteInv, Grows
<1>3. NoticeInv(o)'
  BY WaitsForms DEF Waits, RequestInv, NoticeInv
<1>4. SawInv(o)'
  <2>1. pc[o] \in {"authorize", "ownership"} /\ ~IsLoad(o) => Owners(store, o)' \subseteq saw'[o]
    BY DEF RequestInv, SawInv, Waits, InFlight
  <2>2. IsOwned(o) /\ saw[o] \cap {input[o].client, Nobody} # {} => saw'[o] \cap {input[o].client, Nobody} # {}
    BY DEF Waits
  <2> QED
    BY <2>1, <2>2, WaitsForms DEF RequestInv, SawInv, Waits
<1>5. QueryInv(o)'
  <2>1. before[o] \subseteq Requests
    BY DEF TypeInv, HistoryTyped
  <2> QED
    BY <2>1 DEF RequestInv, QueryInv, Waits, Grows, QueryStatus
<1>6. LoadInv(o)'
  <2>1. \A n \in DOMAIN LoadedDescriptors : LoadedDescriptors[n] \in Id
    BY LoadedDescriptorsAssumption
  <2>2. todo[o] \in DOMAIN LoadedDescriptors
    BY DEF TypeInv, TypeOK
  <2> QED
    BY <2>1, <2>2 DEF RequestInv, LoadInv, Waits
<1> QED
  BY <1>1, <1>2, <1>3, <1>4, <1>5, <1>6 DEF RequestInv

(* A step that changes neither the store nor o.                             *)
LEMMA QuietKeeps ==
    ASSUME TypeInv, NEW o \in Requests, Waits(o), Grows, RequestInv(o),
           UNCHANGED store, troubled \subseteq troubled'
    PROVE  RequestInv(o)'
<1>1. ShowsOldDocuments(o) => ShowsOldDocuments(o)'
  BY StoreStays DEF ShowsOldDocuments, Waits, MayFind
<1>2. Owners(store, o)' = Owners(store, o)
  BY StoreStays DEF Waits
<1>3. \A i \in Id : IsKept(o, i) => IsKept(o, i)'
  BY KeptStays DEF Waits
<1>4. HasAged(o) => HasAged(o)'
  BY AgedStays DEF Waits
<1>5. FoundInv(o)'
  BY FoundStays DEF Waits, RequestInv, FoundInv
<1> QED
  BY <1>1, <1>2, <1>3, <1>4, <1>5, WaitsKeeps

(* Steps that neither begin nor end telling the index of something.         *)
LEMMA QuietFollows ==
    ASSUME FollowInv, UNCHANGED <<store, index, calls, troubled>>,
           \A o \in Requests : Publishing(o) \/ Publishing(o)' => Waits(o),
           \A c \in calls : c.by \in Requests
    PROVE  FollowInv'
<1>1. \A o \in Requests, e \in Entry :
          /\ Tells(o, e)' <=> Tells(o, e)
          /\ Tells(o, e) => notice'[o] = notice[o] /\ pc'[o] = pc[o]
  BY WaitsForms DEF Tells, Waits
<1>2. \A e \in Entry : Projection(store, e)' = Projection(store, e)
  BY StoreStays
<1> QED
  BY <1>1, <1>2 DEF FollowInv

-----------------------------------------------------------------------------
(* A request's own steps, up to the store.                                  *)
Alone(r) == (\A o \in Requests \ {r} : Waits(o)) /\ Grows

(* What a request's own invariants need of a step that writes nothing.      *)
Same(r) ==
    /\ input'[r] = input[r] /\ uuid'[r] = uuid[r] /\ guarded'[r] = guarded[r]
    /\ before'[r] = before[r] /\ saw'[r] = saw[r]
    /\ wrote'[r] = wrote[r] /\ reported'[r] = reported[r]
    /\ skipped[r] \subseteq skipped'[r] /\ store' = store

LEMMA SameForms ==
    ASSUME NEW r \in Requests, Same(r), Alone(r)
    PROVE  /\ IsOwned(r)' <=> IsOwned(r)
           /\ IsLoad(r)' <=> IsLoad(r)
           /\ Owners(store, r)' = Owners(store, r)
           /\ \A i : IsKept(r, i) => IsKept(r, i)'
           /\ (\A o \in before[r] : pc[o] = "done") /\ before[r] \subseteq Requests
                  => \A o \in before'[r] : pc'[o] = "done"
<1>1. IsOwned(r)' <=> IsOwned(r)
  BY DEF Same, IsOwned
<1>2. Owners(store, r)' = Owners(store, r)
  BY StoreStays DEF Same
<1>3. \A i : IsKept(r, i) => IsKept(r, i)'
  BY KeptStays DEF Same, Alone
<1> QED
  BY <1>1, <1>2, <1>3 DEF Same, Alone, Grows, IsLoad

(* The ways a request takes from authorize and from ownership.              *)
Advances(r) ==
    \/ \E s \in Failures : Answered(r, s)
    \/ GoTo(r, "ownership") /\ input[r].op \in Write \cup {"getById"} /\ pc[r] = "authorize"
    \/ GoTo(r, "query") /\ input[r].op = "query"
    \/ /\ GoTo(r, "store") /\ Named(r) /\ input[r].op # "query"
       /\ IsOwned(r) => saw[r] \cap {input[r].client, Nobody} # {}

LEMMA AdvancesAlone ==
    ASSUME TypeInv, NEW r \in Requests, pc[r] \in {"authorize", "ownership"}, Stays, Advances(r)
    PROVE  /\ Alone(r) /\ Same(r) /\ todo'[r] = todo[r] /\ UNCHANGED <<store, index, calls, troubled>>
           /\ ~Publishing(r) /\ ~Publishing(r)' /\ found' = found
           /\ \/ pc'[r] = "done" /\ status'[r] \in Failures
              \/ pc'[r] = "ownership" /\ input[r].op \in Write \cup {"getById"} /\ pc[r] = "authorize"
              \/ pc'[r] = "query" /\ input[r].op = "query"
              \/ /\ pc'[r] = "store" /\ Named(r) /\ input[r].op # "query"
                 /\ IsOwned(r) => saw[r] \cap {input[r].client, Nobody} # {}
<1>1. /\ \A o \in Requests \ {r} : pc'[o] = pc[o] /\ status'[o] = status[o] /\ timestamp'[o] = timestamp[o]
      /\ \/ pc'[r] = "done" /\ status'[r] \in Failures
         \/ pc'[r] = "ownership" /\ input[r].op \in Write \cup {"getById"} /\ pc[r] = "authorize"
         \/ pc'[r] = "query" /\ input[r].op = "query"
         \/ /\ pc'[r] = "store" /\ Named(r) /\ input[r].op # "query"
            /\ IsOwned(r) => saw[r] \cap {input[r].client, Nobody} # {}
  BY DEF Advances, Answered, GoTo, TypeInv, TypeOK, HistoryTyped
<1>2. UNCHANGED <<input, uuid, guarded, todo, result, notice, answer, before, wrote, reported, saw, skipped,
                  found, store, issued, backend, index, calls, troubled>>
  BY DEF Stays, requestVars, historyVars, storeVars, indexVars
<1>3. Alone(r) /\ Same(r)
  BY <1>1, <1>2 DEF Alone, Waits, Grows, Same
<1> QED
  BY <1>1, <1>2, <1>3 DEF Publishing

LEMMA AdvancesKeeps ==
    ASSUME TypeInv, NEW r \in Requests, RequestInv(r), pc[r] \in {"authorize", "ownership"}, Stays,
           Advances(r)
    PROVE  RequestInv(r)'
<1> USE AdvancesAlone
<1>1. input[r].op \in Op /\ before[r] \subseteq Requests /\ todo[r] \in Nat
  BY LoadedDescriptorsAssumption DEF TypeInv, TypeOK, HistoryTyped, Input
<1>2. PathInv(r)'
  <2>1. uuid'[r] # NoUuid => uuid'[r] <= issued'
    BY BoundsAssumption DEF RequestInv, PathInv, Same, Alone, Grows, TypeInv, TypeOK, HistoryTyped, Uuid
  <2> QED
    BY <2>1 DEF RequestInv, PathInv, Same, Publishing, Named, get
<1>3. WroteInv(r)'
  BY DEF RequestInv, WroteInv, MissedInv, Same, Failures
<1>4. NoticeInv(r)' /\ FoundInv(r)'
  BY DEF RequestInv, NoticeInv, FoundInv, Publishing
<1>5. SawInv(r)'
  BY SameForms DEF RequestInv, SawInv, Same, Failures
<1>6. QueryInv(r)'
  BY <1>1, SameForms DEF RequestInv, QueryInv, Same, Failures
<1>7. LoadInv(r)'
  <2>1. CASE pc[r] = "authorize"
    BY <2>1, LoadedDescriptorsAssumption DEF RequestInv, LoadInv, Same, Failures
  <2>2. CASE pc[r] = "ownership"
    BY <2>2 DEF RequestInv, LoadInv, PathInv, Same, Failures, Write
  <2> QED
    BY <2>1, <2>2
<1> QED
  BY <1>2, <1>3, <1>4, <1>5, <1>6, <1>7 DEF RequestInv

LEMMA AuthorizesAdvances ==
    ASSUME NEW r \in Requests, Authorizes(r)
    PROVE  pc[r] = "authorize" /\ Stays /\ Advances(r)
BY AuthorizesForms DEF Advances

LEMMA SecurityAdvances ==
    ASSUME TypeInv, NEW r \in Requests, PathInv(r), SawInv(r), NEW fails \in BOOLEAN,
           securityMiddleware(r, fails)
    PROVE  pc[r] = "ownership" /\ Stays /\ Advances(r)
BY SecurityForms DEF Advances, PathInv, Write

LEMMA ArriveAlone ==
    ASSUME TypeInv, NEW r \in Requests, NEW q \in Inputs[r], NEW u \in (1 .. issued) \cup {NoUuid},
           Arrive(r, q, u), WroteInv(r)
    PROVE  /\ Alone(r) /\ UNCHANGED <<store, index, calls, troubled>>
           /\ ~Publishing(r) /\ ~Publishing(r)' /\ pc[r] = "idle"
           /\ pc'[r] = "plugins" /\ input'[r] = q /\ uuid'[r] = u /\ get(q, u)
           /\ wrote'[r] = wrote[r] /\ wrote[r] = {} /\ reported'[r] = reported[r] /\ reported[r] = {}
           /\ todo'[r] = todo[r] /\ found' = found /\ issued' = issued
           /\ \A o \in before'[r] : pc[o] = "done" /\ o \in Requests
<1>1. /\ pc[r] = "idle" /\ pc' = [pc EXCEPT ![r] = "plugins"] /\ get(q, u)
      /\ input' = [input EXCEPT ![r] = q] /\ uuid' = [uuid EXCEPT ![r] = u]
      /\ UNCHANGED <<guarded, todo, result, notice, answer, status, wrote, reported, saw, skipped,
                     timestamp, found, store, issued, backend, index, calls, troubled>>
  BY DEF Arrive, handlerVars, storeVars, indexVars
<1>2. /\ \A o \in Requests \ {r} : before'[o] = before[o]
      /\ \A o \in before'[r] : pc[o] = "done" /\ o \in Requests
  BY DEF Arrive, TypeInv, HistoryTyped
<1>3. wrote[r] = {} /\ reported[r] = {}
  BY <1>1 DEF WroteInv
<1>4. Alone(r)
  BY <1>1, <1>2, <1>3 DEF Alone, Waits, Grows, TypeInv, TypeOK
<1> QED
  BY <1>1, <1>2, <1>3, <1>4 DEF TypeInv, TypeOK, Publishing

LEMMA ArriveKeeps ==
    ASSUME TypeInv, NEW r \in Requests, NEW q \in Inputs[r], NEW u \in (1 .. issued) \cup {NoUuid},
           Arrive(r, q, u), RequestInv(r)
    PROVE  RequestInv(r)'
<1>1. /\ Alone(r) /\ ~Publishing(r)' /\ pc[r] = "idle"
      /\ pc'[r] = "plugins" /\ input'[r] = q /\ uuid'[r] = u /\ get(q, u)
      /\ wrote'[r] = {} /\ reported'[r] = {} /\ todo'[r] = todo[r] /\ found' = found /\ issued' = issued
      /\ \A o \in before'[r] : pc[o] = "done" /\ o \in Requests
  BY ArriveAlone DEF RequestInv
<1>2. PathInv(r)' /\ NoticeInv(r)' /\ SawInv(r)'
  <2>1. u # NoUuid => u <= issued
    BY DEF TypeInv, HistoryTyped
  <2> QED
    BY <1>1, <2>1 DEF PathInv, NoticeInv, SawInv, get
<1>3. WroteInv(r)' /\ LoadInv(r)' /\ FoundInv(r)'
  BY <1>1 DEF RequestInv, WroteInv, MissedInv, LoadInv, FoundInv
<1>4. QueryInv(r)'
  BY <1>1 DEF QueryInv, Alone, Grows
<1> QED
  BY <1>2, <1>3, <1>4 DEF RequestInv

(* Plugins are loaded beside the requests.                                  *)
LEMMA AllWait ==
    ASSUME UNCHANGED <<requestVars, handlerVars, historyVars, storeVars, pc>>
    PROVE  (\A o \in Requests : Waits(o)) /\ Grows
BY DEF requestVars, handlerVars, historyVars, storeVars, Waits, Grows

LEMMA BeginAlone ==
    ASSUME TypeInv, NEW r \in Requests, NEW t, NEW isRead, Begin(r, t, isRead)
    PROVE  /\ Alone(r) /\ UNCHANGED <<store, index, calls, troubled>>
           /\ ~Publishing(r) /\ ~Publishing(r)' /\ pc[r] = "plugins" /\ pc'[r] = "authorize"
           /\ input'[r] = input[r] /\ uuid'[r] = uuid[r] /\ before'[r] = before[r]
           /\ wrote'[r] = wrote[r] /\ reported'[r] = reported[r] /\ todo'[r] = todo[r]
           /\ saw'[r] = Owners(store, r) /\ found' = found /\ issued' = issued
<1>1. /\ pc[r] = "plugins" /\ pc' = [pc EXCEPT ![r] = "authorize"]
      /\ saw' = [saw EXCEPT ![r] = Owners(store, r)]
      /\ UNCHANGED <<input, uuid, todo, result, notice, answer, status, skipped, before, wrote, reported,
                     found, store, issued, backend, index, calls, troubled>>
  BY DEF Begin, storeVars, indexVars
<1>2. \A o \in Requests \ {r} : guarded'[o] = guarded[o] /\ timestamp'[o] = timestamp[o]
  BY DEF Begin, timestampRequest, TypeInv, TypeOK, HistoryTyped
<1>3. Alone(r)
  BY <1>1, <1>2 DEF Alone, Waits, Grows, TypeInv, TypeOK, HistoryTyped
<1> QED
  BY <1>1, <1>3 DEF TypeInv, TypeOK, HistoryTyped, Publishing

LEMMA BeginKeeps ==
    ASSUME TypeInv, NEW r \in Requests, NEW t, NEW isRead, Begin(r, t, isRead), RequestInv(r)
    PROVE  RequestInv(r)'
<1> USE BeginAlone
<1>1. before[r] \subseteq Requests
  BY DEF TypeInv, HistoryTyped
<1>2. PathInv(r)'
  BY DEF RequestInv, PathInv, get
<1>3. WroteInv(r)' /\ NoticeInv(r)' /\ FoundInv(r)'
  BY DEF RequestInv, WroteInv, MissedInv, NoticeInv, FoundInv
<1>4. SawInv(r)'
  BY StoreStays DEF SawInv
<1>5. QueryInv(r)' /\ LoadInv(r)'
  BY <1>1 DEF RequestInv, QueryInv, LoadInv, Alone, Grows
<1> QED
  BY <1>2, <1>3, <1>4, <1>5 DEF RequestInv

LEMMA NoDocumentStoreAlone ==
    ASSUME TypeInv, NEW r \in Requests, NoDocumentStore(r)
    PROVE  /\ Alone(r) /\ Same(r) /\ todo'[r] = todo[r] /\ UNCHANGED <<store, index, calls, troubled>>
           /\ ~Publishing(r) /\ ~Publishing(r)' /\ pc[r] = "store" /\ found' = found /\ issued' = issued
           /\ \/ IsLoad(r) /\ pc'[r] = "store"
              \/ IsLoad(r) /\ pc'[r] = "done" /\ status'[r] = 500
              \/ ~IsLoad(r) /\ pc'[r] = "answer" /\ result'[r] = "UNKNOWN_FAILURE"
<1>1. /\ pc[r] = "store"
      /\ \A o \in Requests \ {r} : /\ pc'[o] = pc[o] /\ status'[o] = status[o]
                                   /\ result'[o] = result[o] /\ timestamp'[o] = timestamp[o]
      /\ \/ IsLoad(r) /\ pc'[r] = "store"
         \/ IsLoad(r) /\ pc'[r] = "done" /\ status'[r] = 500
         \/ ~IsLoad(r) /\ pc'[r] = "answer" /\ result'[r] = "UNKNOWN_FAILURE"
  BY DEF NoDocumentStore, loadDocumentStore, Answered, GoTo, TypeInv, TypeOK, HistoryTyped
<1>2. UNCHANGED <<input, uuid, guarded, todo, notice, answer, before, wrote, reported, saw, skipped,
                  found, store, issued, backend, index, calls, troubled>>
  BY DEF NoDocumentStore, requestVars, historyVars, storeVars, indexVars
<1>3. Alone(r) /\ Same(r)
  BY <1>1, <1>2 DEF Alone, Waits, Grows, Same
<1> QED
  BY <1>1, <1>2, <1>3 DEF Publishing

LEMMA NoDocumentStoreKeeps ==
    ASSUME TypeInv, NEW r \in Requests, NoDocumentStore(r), RequestInv(r)
    PROVE  RequestInv(r)'
<1> USE NoDocumentStoreAlone
<1>1. before[r] \subseteq Requests
  BY DEF TypeInv, HistoryTyped
<1>2. PathInv(r)'
  BY DEF RequestInv, PathInv, Same, get
<1>3. WroteInv(r)' /\ NoticeInv(r)'
  BY DEF RequestInv, WroteInv, MissedInv, NoticeInv, Same, IsLoad, Write, Publishing, Success
<1>7. FoundInv(r)'
  BY FoundStays DEF RequestInv, Same, Alone
<1>4. SawInv(r)'
  BY SameForms DEF RequestInv, SawInv, Same, IsLoad
<1>5. QueryInv(r)'
  BY <1>1, SameForms DEF RequestInv, QueryInv, PathInv, Same
<1>6. LoadInv(r)'
  BY SameForms, LoadedDescriptorsAssumption DEF RequestInv, LoadInv, Same, IsLoad
<1> QED
  BY <1>2, <1>3, <1>4, <1>5, <1>6, <1>7 DEF RequestInv

(* A read answers with what it found.                                       *)
LEMMA ReadAlone ==
    ASSUME TypeInv, NEW r \in Requests,
           getDocumentById(r) \/ queryDocuments(r) \/ NoQueryHandler(r)
    PROVE  /\ Alone(r) /\ Same(r) /\ todo'[r] = todo[r] /\ UNCHANGED <<store, index, calls, troubled>>
           /\ ~Publishing(r) /\ ~Publishing(r)' /\ pc'[r] = "answer" /\ found' = found /\ issued' = issued
           /\ \/ pc[r] = "store" /\ input[r].op = "getById"
              \/ /\ pc[r] = "query"
                 /\ \/ result'[r] = "QUERY_SUCCESS" /\ answer'[r] = Hits(r)
                    \/ result'[r] \in QueryFailures(r) \/ result'[r] = "UNKNOWN_FAILURE"
<1>1. /\ pc' = [pc EXCEPT ![r] = "answer"] /\ status' = status
      /\ UNCHANGED <<input, uuid, guarded, todo, notice, before, wrote, reported, saw, skipped,
                     timestamp, found, store, issued, backend, index, calls, troubled>>
  BY DEF getDocumentById, queryDocuments, NoQueryHandler, GoTo, requestVars, historyVars, storeVars, indexVars
<1>2. \E response : result' = [result EXCEPT ![r] = response]
  BY DEF getDocumentById, queryDocuments, NoQueryHandler
<1>3. answer' = answer \/ answer' = [answer EXCEPT ![r] = Hits(r)]
  BY DEF getDocumentById, queryDocuments, NoQueryHandler
<1>4. \A o \in Requests \ {r} : result'[o] = result[o] /\ answer'[o] = answer[o]
  BY <1>2, <1>3 DEF TypeInv, HistoryTyped
<1>5. \/ pc[r] = "store" /\ input[r].op = "getById"
      \/ /\ pc[r] = "query"
         /\ \/ result'[r] = "QUERY_SUCCESS" /\ answer'[r] = Hits(r)
            \/ result'[r] \in QueryFailures(r) \/ result'[r] = "UNKNOWN_FAILURE"
  <2>1. CASE getDocumentById(r)
    BY <2>1 DEF getDocumentById
  <2>2. CASE queryDocuments(r)
    <3>1. \/ result' = [result EXCEPT ![r] = "QUERY_SUCCESS"] /\ answer' = [answer EXCEPT ![r] = Hits(r)]
          \/ \E failure \in QueryFailures(r) : result' = [result EXCEPT ![r] = failure]
      BY <2>2 DEF queryDocuments
    <3> QED
      BY <2>2, <3>1 DEF queryDocuments, TypeInv, HistoryTyped
  <2>3. CASE NoQueryHandler(r)
    BY <2>3 DEF NoQueryHandler, TypeInv, HistoryTyped
  <2> QED
    BY <2>1, <2>2, <2>3
<1>6. Alone(r) /\ Same(r)
  <2>1. \A o \in Requests \ {r} : pc'[o] = pc[o]
    BY <1>1 DEF TypeInv, TypeOK
  <2>2. pc[r] # "done"
    BY <1>5
  <2>3. \A o \in Requests \ {r} : Waits(o)
    BY <1>1, <1>4, <2>1 DEF Waits
  <2>4. Grows
    BY <1>1, <2>1, <2>2 DEF Grows
  <2> QED
    BY <1>1, <2>3, <2>4 DEF Alone, Same
<1> QED
  BY <1>1, <1>5, <1>6 DEF Publishing, TypeInv, TypeOK

(* What was answered before the query arrived is in the index.              *)
LEMMA OldDocumentsAreIndexed ==
    ASSUME TypeInv, FollowInv, \A o \in Requests : NoticeInv(o),
           NEW r \in Requests, QueryInv(r), NEW e \in Entry \ troubled,
           Projection(store, e) # Nothing, Projection(store, e).by \in before[r] \cup {Seed}
    PROVE  index[e] = Projection(store, e)
<1>1. ASSUME NEW o \in Requests, Tells(o, e) PROVE FALSE
  <2>1. notice[o].value = Projection(store, e) /\ Publishing(o) /\ IsToldOf(o)
    BY <1>1 DEF FollowInv, Tells
  <2>2. Projection(store, e).by = o
    BY <2>1 DEF NoticeInv
  <2>3. o \in before[r]
    BY <2>2, NamesAssumption
  <2> QED
    BY <2>1, <2>3 DEF QueryInv, Publishing
<1> QED
  BY <1>1 DEF FollowInv

LEMMA ReadKeeps ==
    ASSUME TypeInv, FollowInv, \A o \in Requests : NoticeInv(o), NEW r \in Requests, RequestInv(r),
           getDocumentById(r) \/ queryDocuments(r) \/ NoQueryHandler(r)
    PROVE  RequestInv(r)'
<1>1. before[r] \subseteq Requests /\ input[r].resource \in Resource
  BY DEF TypeInv, TypeOK, HistoryTyped, Input
<1>2. PathInv(r)'
  BY ReadAlone DEF RequestInv, PathInv, Same, get
<1>3. WroteInv(r)' /\ NoticeInv(r)' /\ FoundInv(r)'
  <2>1. input[r].op \notin Write /\ ~IsLoad(r)
    BY ReadAlone DEF RequestInv, PathInv, Write, IsLoad
  <2> QED
    BY <2>1, ReadAlone DEF WroteInv, NoticeInv, FoundInv, IsLoad, Same
<1>4. SawInv(r)'
  BY ReadAlone, SameForms DEF RequestInv, SawInv, PathInv, IsOwned, Same, Write
<1>5. QueryInv(r)'
  <2>1. \A o \in before'[r] : pc'[o] = "done"
    BY <1>1, ReadAlone, SameForms DEF RequestInv, QueryInv
  <2>2. ASSUME input[r].op = "query", QueryStatus(result'[r]) = 200
        PROVE  ShowsOldDocuments(r)'
    <3>1. \/ result'[r] = "QUERY_SUCCESS" /\ answer'[r] = Hits(r)
          \/ \A u \in Uuid : index[<<input[r].resource, u>>] = Nothing
      BY <2>2, ReadAlone, QueryFailuresAre DEF QueryStatus
    <3>2. SUFFICES ASSUME NEW u \in Uuid, NEW v,
                          v = Projection(store, <<input[r].resource, u>>),
                          v # Nothing, <<input[r].resource, u>> \notin troubled,
                          v.by \in before[r] \cup {Seed}, MayFind(r, v)
                   PROVE  v \in answer'[r]
      BY ReadAlone, StoreStays DEF ShowsOldDocuments, Same, MayFind
    <3>3. <<input[r].resource, u>> \in Entry \ troubled
      BY <1>1, <3>2 DEF Entry
    <3>4. index[<<input[r].resource, u>>] = v
      BY <3>2, <3>3, OldDocumentsAreIndexed DEF RequestInv
    <3>5. answer'[r] = Hits(r)
      BY <3>1, <3>2, <3>4
    <3> QED
      BY <3>2, <3>4, <3>5 DEF Hits
  <2> QED
    BY <2>1, <2>2, ReadAlone DEF QueryInv, Same
<1>6. LoadInv(r)'
  BY ReadAlone DEF RequestInv, PathInv, LoadInv, Same
<1> QED
  BY <1>2, <1>3, <1>4, <1>5, <1>6 DEF RequestInv

-----------------------------------------------------------------------------
(* Telling the index.                                                       *)

(* A step of r after which whatever it tells of, or told of, is troubled.   *)
LEMMA LeavesFollows ==
    ASSUME TypeInv, FollowInv, UNCHANGED <<store, index, calls>>, troubled \subseteq troubled',
           NEW r \in Requests, \A o \in Requests \ {r} : Waits(o),
           \A e \in Entry : Tells(r, e) \/ Tells(r, e)' => e \in troubled'
    PROVE  FollowInv'
<1>1. SUFFICES ASSUME NEW e \in Entry, e \notin troubled'
               PROVE  /\ \A p, o \in Requests : Tells(p, e)' /\ Tells(o, e)' => p = o
                      /\ \A p \in Requests : Tells(p, e)' => notice'[p].value = Projection(store, e)'
                      /\ \A c \in calls' : c.entry = e =>
                             Tells(c.by, e)' /\ pc'[c.by] = "indexing" /\ c.value = notice'[c.by].value
                      /\ (\A p \in Requests : ~Tells(p, e)') => index'[e] = Projection(store, e)'
  BY DEF FollowInv
<1>2. ~Tells(r, e) /\ ~Tells(r, e)' /\ e \in Entry \ troubled
  BY <1>1
<1>3. \A o \in Requests : Tells(o, e)' <=> Tells(o, e)
  BY <1>2, WaitsForms
<1>4. \A o \in Requests : Tells(o, e) => notice'[o] = notice[o] /\ pc'[o] = pc[o]
  BY <1>2 DEF Waits
<1>5. Projection(store, e)' = Projection(store, e)
  BY StoreStays
<1>6. \A c \in calls : c.by \in Requests
  BY DEF TypeInv, TypeOK, Call
<1> QED
  BY <1>2, <1>3, <1>4, <1>5, <1>6 DEF FollowInv

LEMMA PublishAlone ==
    ASSUME TypeInv, NEW r \in Requests, NoticeInv(r),
           Publish(r) \/ ListenerThrows(r) \/ IndexTimesOut(r)
    PROVE  /\ Alone(r) /\ Same(r) /\ todo'[r] = todo[r] /\ UNCHANGED <<store, index>>
           /\ Publishing(r) /\ found' = found /\ issued' = issued
           /\ \/ /\ pc[r] = "stored" /\ pc'[r] = "indexing" /\ IsToldOf(r)
                 /\ result'[r] = result[r] /\ notice'[r] = notice[r]
                 /\ calls' = calls \cup {[by |-> r, entry |-> notice[r].entry, value |-> notice[r].value]}
                 /\ troubled' = troubled
              \/ /\ ~Publishing(r)' /\ calls' = calls
                 /\ troubled' = IF IsToldOf(r) THEN troubled \cup {notice[r].entry} ELSE troubled
                 /\ \/ pc'[r] = "answer" /\ result'[r] = result[r]
                    \/ pc'[r] = "done" /\ status'[r] = 500
<1>1. /\ UNCHANGED <<input, uuid, guarded, todo, answer, before, wrote, reported, saw, skipped,
                     found, store, issued, backend, index>>
      /\ pc[r] \in {"stored", "indexing"}
  BY DEF Publish, ListenerThrows, IndexTimesOut, requestVars, historyVars, storeVars
<1>2. /\ result' = result \/ result' = [result EXCEPT ![r] = "none"]
      /\ notice' = notice \/ notice' = [notice EXCEPT ![r] = NoNotice]
      /\ \E where : pc' = [pc EXCEPT ![r] = where]
      /\ status' = status \/ status' = [status EXCEPT ![r] = 500]
      /\ timestamp' = timestamp \/ timestamp' = [timestamp EXCEPT ![r] = 0]
  BY DEF Publish, ListenerThrows, IndexTimesOut, Forget, Answered, GoTo, AwaitIndex
<1>3. \A o \in Requests \ {r} : /\ pc'[o] = pc[o] /\ status'[o] = status[o]
                                /\ result'[o] = result[o] /\ notice'[o] = notice[o]
                                /\ timestamp'[o] = timestamp[o]
  BY <1>2 DEF TypeInv, TypeOK, HistoryTyped
<1>4. Alone(r)
  <2>1. \A o \in Requests \ {r} : Waits(o)
    BY <1>1, <1>3 DEF Waits
  <2>2. Grows
    BY <1>1, <1>3 DEF Grows
  <2> QED
    BY <2>1, <2>2 DEF Alone
<1>5. \/ /\ pc[r] = "stored" /\ pc'[r] = "indexing" /\ IsToldOf(r)
         /\ result'[r] = result[r] /\ notice'[r] = notice[r]
         /\ calls' = calls \cup {[by |-> r, entry |-> notice[r].entry, value |-> notice[r].value]}
         /\ troubled' = troubled
      \/ /\ pc'[r] \in {"answer", "done"} /\ calls' = calls
         /\ troubled' = IF IsToldOf(r) THEN troubled \cup {notice[r].entry} ELSE troubled
         /\ \/ pc'[r] = "answer" /\ result'[r] = result[r]
            \/ pc'[r] = "done" /\ status'[r] = 500
  <2>1. CASE Publish(r)
    <3>1. CASE "listeners" \in loaded /\ IsToldOf(r)
      BY <2>1, <3>1 DEF Publish, AwaitIndex, GoTo, TypeInv, TypeOK
    <3>2. CASE ~("listeners" \in loaded /\ IsToldOf(r))
      BY <2>1, <3>2 DEF Publish, GoTo, TypeInv, TypeOK
    <3> QED
      BY <3>1, <3>2
  <2>2. CASE ListenerThrows(r)
    BY <2>2 DEF ListenerThrows, Answered, TypeInv, TypeOK
  <2>3. CASE IndexTimesOut(r)
    <3>1. IsToldOf(r)
      BY <2>3 DEF IndexTimesOut, NoticeInv
    <3> QED
      BY <2>3, <3>1 DEF IndexTimesOut, GoTo, TypeInv, TypeOK
  <2> QED
    BY <2>1, <2>2, <2>3
<1>6. Same(r) /\ Publishing(r) /\ (pc'[r] \in {"answer", "done"} => ~Publishing(r)')
  BY <1>1 DEF Same, Publishing
<1> QED
  BY <1>1, <1>4, <1>5, <1>6

LEMMA PublishKeeps ==
    ASSUME TypeInv, NEW r \in Requests, RequestInv(r),
           Publish(r) \/ ListenerThrows(r) \/ IndexTimesOut(r)
    PROVE  RequestInv(r)'
<1>1. NoticeInv(r) /\ before[r] \subseteq Requests /\ pc[r] \in {"stored", "indexing"} /\ input[r].op # "query"
  BY PublishAlone DEF RequestInv, PathInv, TypeInv, HistoryTyped, Publishing, Write
<1>2. PathInv(r)'
  BY <1>1, PublishAlone DEF RequestInv, PathInv, Same, Publishing, get
<1>3. WroteInv(r)' /\ FoundInv(r)'
  <2>1. input[r].op \in Write => MissedInv(r)'
    BY <1>1, PublishAlone, MissedStays DEF RequestInv, WroteInv, Same, Alone
  <2>2. WroteInv(r)'
    BY <1>1, <2>1, PublishAlone DEF RequestInv, WroteInv, Same, Alone, Grows
  <2>3. FoundInv(r)'
    BY <1>1, PublishAlone, FoundStays DEF RequestInv, FoundInv, Same, Alone
  <2> QED
    BY <2>2, <2>3
<1>4. NoticeInv(r)'
  <2>1. CASE pc'[r] = "indexing"
    <3>1. IsToldOf(r)' <=> IsToldOf(r)
      BY <1>1, <2>1, PublishAlone
         DEF Same, Publishing, IsToldOf, afterUpsertDocument, afterUpdateDocumentById, afterDeleteDocumentById
    <3> QED
      BY <1>1, <2>1, <3>1, PublishAlone DEF Same, NoticeInv, Publishing
  <2>2. CASE pc'[r] # "indexing"
    BY <1>1, <2>2, PublishAlone DEF NoticeInv, Publishing
  <2> QED
    BY <2>1, <2>2
<1>5. SawInv(r)'
  BY <1>1, PublishAlone, SameForms DEF RequestInv, SawInv, Same
<1>6. QueryInv(r)'
  BY <1>1, PublishAlone, SameForms DEF RequestInv, QueryInv, Same
<1>7. LoadInv(r)'
  BY <1>1, PublishAlone, SameForms, LoadedDescriptorsAssumption DEF RequestInv, LoadInv, Same
<1> QED
  BY <1>2, <1>3, <1>4, <1>5, <1>6, <1>7 DEF RequestInv

LEMMA PublishFollows ==
    ASSUME TypeInv, FollowInv, CallsInv, NEW r \in Requests, NoticeInv(r),
           Publish(r) \/ ListenerThrows(r) \/ IndexTimesOut(r)
    PROVE  FollowInv' /\ CallsInv'
<1> USE PublishAlone
<1>1. reported' = reported
  BY DEF Publish, ListenerThrows, IndexTimesOut, historyVars
<1>2. CASE pc'[r] = "indexing"
  <2> DEFINE call == [by |-> r, entry |-> notice[r].entry, value |-> notice[r].value]
  <2>1. /\ pc[r] = "stored" /\ IsToldOf(r) /\ result'[r] = result[r] /\ notice'[r] = notice[r]
        /\ calls' = calls \cup {call} /\ UNCHANGED <<troubled, store, index>> /\ input'[r] = input[r]
    BY <1>2 DEF Publishing, Same
  <2>2. notice[r] \in reported[r] /\ notice[r] \in Change
    BY ToldIsReported, <2>1
  <2>3. CallsInv'
    <3>1. [entry |-> call.entry, value |-> call.value] = notice[r]
      BY <2>2 DEF Change
    <3>2. call.by = r
      OBVIOUS
    <3> HIDE DEF call
    <3> QED
      BY <1>1, <2>1, <2>2, <3>1, <3>2 DEF CallsInv
  <2>4. \A o \in Requests, e \in Entry :
            /\ Tells(o, e)' <=> Tells(o, e)
            /\ notice'[o] = notice[o] /\ (pc[o] = "indexing" => pc'[o] = "indexing")
    <3>1. ASSUME NEW o \in Requests \ {r}, NEW e \in Entry
          PROVE  /\ Tells(o, e)' <=> Tells(o, e)
                 /\ notice'[o] = notice[o] /\ (pc[o] = "indexing" => pc'[o] = "indexing")
      BY WaitsForms DEF Alone, Waits
    <3>2. IsToldOf(r)' <=> IsToldOf(r)
      BY <2>1 DEF IsToldOf, afterUpsertDocument, afterUpdateDocumentById, afterDeleteDocumentById
    <3>3. \A e \in Entry : Tells(r, e)' <=> Tells(r, e)
      BY <1>2, <2>1, <3>2 DEF Tells, Publishing
    <3> QED
      BY <1>2, <2>1, <3>1, <3>3
  <2>5. \A e \in Entry : call.entry = e => Tells(r, e)'
    BY <2>1, <2>4 DEF Tells, Publishing
  <2>6. \A e \in Entry : Projection(store, e)' = Projection(store, e)
    BY StoreStays, <2>1
  <2>7. \A c \in calls : c.by \in Requests
    BY DEF TypeInv, TypeOK, Call
  <2>8. call.by = r /\ call.value = notice'[r].value
    BY <2>1
  <2> HIDE DEF call
  <2>9. FollowInv'
    BY <1>2, <2>1, <2>4, <2>5, <2>6, <2>7, <2>8 DEF FollowInv
  <2> QED
    BY <2>3, <2>9
<1>3. CASE pc'[r] # "indexing"
  <2>1. /\ UNCHANGED <<calls, store, index>> /\ ~Publishing(r)'
        /\ troubled' = IF IsToldOf(r) THEN troubled \cup {notice[r].entry} ELSE troubled
    BY <1>3
  <2>2. FollowInv'
    BY <2>1, LeavesFollows DEF Tells, Alone
  <2> QED
    BY <1>1, <2>1, <2>2 DEF CallsInv
<1> QED
  BY <1>2, <1>3

-----------------------------------------------------------------------------
(* The response.                                                            *)
LEMMA ResponseTells ==
    ASSUME NEW response, NEW op \in Write
    PROVE  /\ ResponseStatus(op, response) \in {200, 201, 204} => response \in Success
           /\ ResponseStatus(op, response) \in {200, 201, 204} /\ op = "upsert" /\ response = "UPDATE_SUCCESS"
                  => ResponseStatus(op, response) = 200
           /\ ResponseStatus(op, response) \in 400 .. 499 =>
                  /\ response \notin Success \cup {"UNKNOWN_FAILURE"}
                  /\ response # "UPDATE_FAILURE_IMMUTABLE_IDENTITY" => ResponseStatus(op, response) \in {404, 409}
BY DEF ResponseStatus, UpsertStatus, UpdateStatus, DeleteStatus, Write, Success

LEMMA RespondAlone ==
    ASSUME TypeInv, NEW r \in Requests, Respond(r)
    PROVE  /\ Alone(r) /\ Same(r) /\ UNCHANGED <<store, index, calls, troubled>>
           /\ ~Publishing(r) /\ ~Publishing(r)' /\ pc[r] = "answer" /\ answer'[r] = answer[r]
           /\ found' = found /\ issued' = issued
           /\ \/ /\ ~IsLoad(r) /\ pc'[r] = "done" /\ todo'[r] = todo[r]
                 /\ status'[r] = ResponseStatus(input[r].op, result[r])
              \/ IsLoad(r) /\ pc'[r] = "store" /\ todo'[r] = todo[r] + 1
              \/ /\ IsLoad(r) /\ pc'[r] = "done" /\ todo'[r] = todo[r] /\ status'[r] = 202
                 /\ ~HasMoreDescriptors(r)
<1>1. /\ pc[r] = "answer" /\ result' = [result EXCEPT ![r] = "none"] /\ notice' = [notice EXCEPT ![r] = NoNotice]
      /\ UNCHANGED <<input, uuid, guarded, answer, before, wrote, reported, saw, skipped, found, store,
                     issued, backend, index, calls, troubled>>
  BY DEF Respond, Forget, requestVars, historyVars, storeVars, indexVars
<1>2. /\ \A o \in Requests \ {r} : /\ pc'[o] = pc[o] /\ status'[o] = status[o] /\ todo'[o] = todo[o]
                                   /\ timestamp'[o] = timestamp[o]
      /\ \/ /\ ~IsLoad(r) /\ pc'[r] = "done" /\ todo'[r] = todo[r]
            /\ status'[r] = ResponseStatus(input[r].op, result[r])
         \/ IsLoad(r) /\ pc'[r] = "store" /\ todo'[r] = todo[r] + 1
         \/ /\ IsLoad(r) /\ pc'[r] = "done" /\ todo'[r] = todo[r] /\ status'[r] = 202
            /\ ~HasMoreDescriptors(r)
  <2>1. CASE ~IsLoad(r)
    BY <2>1 DEF Respond, Answered, TypeInv, TypeOK, HistoryTyped
  <2>2. CASE IsLoad(r) /\ HasMoreDescriptors(r)
    BY <2>2 DEF Respond, GoTo, TypeInv, TypeOK, HistoryTyped
  <2>3. CASE IsLoad(r) /\ ~HasMoreDescriptors(r)
    BY <2>3 DEF Respond, Answered, TypeInv, TypeOK, HistoryTyped
  <2> QED
    BY <2>1, <2>2, <2>3
<1>3. \A o \in Requests \ {r} : Waits(o)
  BY <1>1, <1>2 DEF Waits, TypeInv, HistoryTyped
<1>4. Grows
  BY <1>1, <1>2 DEF Grows
<1> QED
  BY <1>1, <1>2, <1>3, <1>4 DEF Alone, Same, Publishing

LEMMA RespondKeeps ==
    ASSUME TypeInv, NEW r \in Requests, RequestInv(r), Respond(r)
    PROVE  RequestInv(r)'
<1> USE RespondAlone
<1>1. before[r] \subseteq Requests /\ input[r].op \in Op
  BY DEF TypeInv, TypeOK, HistoryTyped, Input
<1>2. PathInv(r)'
  BY DEF RequestInv, PathInv, Same, Publishing, get, IsLoad
<1>3. WroteInv(r)'
  <2>1. CASE input[r].op \in Write
    <3>1. /\ MissedInv(r)
          /\ result[r] \in Success => reported[r] # {}
          /\ result[r] \notin Success \cup {"UNKNOWN_FAILURE"} =>
                 /\ reported[r] = {}
                 /\ wrote[r] # {} =>
                        backend = "MongoDB" /\ result[r] # "UPDATE_FAILURE_IMMUTABLE_IDENTITY"
      BY <2>1 DEF RequestInv, WroteInv
    <3>2. /\ pc'[r] = "done" /\ status'[r] = ResponseStatus(input[r].op, result[r])
          /\ input'[r] = input[r] /\ backend' = backend /\ wrote'[r] = wrote[r] /\ reported'[r] = reported[r]
      BY <2>1 DEF IsLoad, Write, Same, Alone, Grows
    <3>3. status'[r] \in {200, 201, 204} /\ reported[r] \ wrote[r] # {} => status'[r] = 200
      BY <2>1, <3>1, <3>2, ResponseTells DEF MissedInv
    <3>4. MissedInv(r)'
      BY <3>1, <3>2, <3>3, MissedStays DEF Alone
    <3> QED
      BY <2>1, <3>1, <3>2, <3>4, ResponseTells DEF WroteInv
  <2>2. CASE input[r].op \notin Write
    BY <2>2 DEF RequestInv, WroteInv, Same
  <2> QED
    BY <2>1, <2>2
<1>4. NoticeInv(r)' /\ FoundInv(r)'
  BY FoundStays DEF RequestInv, NoticeInv, FoundInv, Publishing, Same, IsLoad
<1>5. SawInv(r)'
  BY SameForms DEF RequestInv, SawInv, Same, IsLoad, IsOwned
<1>6. QueryInv(r)'
  <2>1. \A o \in before'[r] : pc'[o] = "done"
    BY <1>1, SameForms DEF RequestInv, QueryInv
  <2>2. ASSUME input[r].op = "query", status'[r] = 200 PROVE ShowsOldDocuments(r)'
    <3>1. status'[r] = QueryStatus(result[r])
      BY <2>2 DEF IsLoad, ResponseStatus
    <3>2. ShowsOldDocuments(r)
      BY <2>2, <3>1 DEF RequestInv, QueryInv
    <3> QED
      BY <3>2, StoreStays DEF ShowsOldDocuments, Same, MayFind
  <2> QED
    BY <2>1, <2>2 DEF QueryInv, Same, IsLoad
<1>7. LoadInv(r)'
  <2>1. todo[r] \in 1 .. Len(LoadedDescriptors) /\ DOMAIN LoadedDescriptors = 1 .. Len(LoadedDescriptors)
        /\ Len(LoadedDescriptors) \in Nat
    BY LoadedDescriptorsAssumption DEF TypeInv, TypeOK
  <2>2. CASE ~IsLoad(r)
    <3>1. status'[r] # 202
      BY <1>1, <2>2, ResponseTyped DEF IsLoad, Op
    <3> QED
      BY <2>2, <3>1 DEF LoadInv, Same, IsLoad
  <2>3. CASE IsLoad(r)
    <3>1. /\ \A n \in DOMAIN LoadedDescriptors : n < todo[r] => IsKept(r, LoadedDescriptors[n])
          /\ IsKept(r, LoadedDescriptors[todo[r]])
      BY <2>3 DEF RequestInv, LoadInv, IsLoad
    <3>2. \A n \in DOMAIN LoadedDescriptors : n < todo[r] + 1 => IsKept(r, LoadedDescriptors[n])'
      BY <2>1, <3>1, SameForms
    <3>3. CASE pc'[r] = "store"
      BY <2>3, <3>2, <3>3 DEF LoadInv, Same
    <3>4. CASE pc'[r] = "done"
      <4>1. todo[r] = Len(LoadedDescriptors)
        BY <2>1, <2>3, <3>4 DEF HasMoreDescriptors
      <4> QED
        BY <2>1, <3>2, <3>4, <4>1 DEF LoadInv
    <3> QED
      BY <2>3, <3>3, <3>4
  <2> QED
    BY <2>2, <2>3
<1> QED
  BY <1>2, <1>3, <1>4, <1>5, <1>6, <1>7 DEF RequestInv

-----------------------------------------------------------------------------
(* A call to the index ends.                                                *)
LEMMA CallAlone ==
    ASSUME TypeInv, NEW c \in calls, IndexApplies(c) \/ IndexFails(c)
    PROVE  /\ c.by \in Requests /\ c.entry \in Entry
           /\ Alone(c.by) /\ Same(c.by) /\ todo'[c.by] = todo[c.by]
           /\ UNCHANGED <<store, issued, found, reported>>
           /\ calls' = calls \ {c}
           /\ result'[c.by] = result[c.by] /\ notice'[c.by] = notice[c.by]
           /\ \/ Awaited(c) /\ pc[c.by] = "indexing" /\ pc'[c.by] = "answer" /\ notice[c.by].entry = c.entry
              \/ ~Awaited(c) /\ Waits(c.by)
<1>1. c.by \in Requests /\ c.entry \in Entry
  BY DEF TypeInv, TypeOK, Call
<1>2. /\ UNCHANGED <<input, uuid, guarded, status, timestamp, todo, result, notice, answer, before, wrote,
                     reported, saw, skipped, found, store, issued, backend>>
      /\ calls' = calls \ {c}
      /\ pc' = IF Awaited(c) THEN [pc EXCEPT ![c.by] = "answer"] ELSE pc
  BY DEF IndexApplies, IndexFails, CallReturns, requestVars, handlerVars, historyVars, storeVars
<1>3. /\ \A o \in Requests \ {c.by} : pc'[o] = pc[o]
      /\ \/ Awaited(c) /\ pc[c.by] = "indexing" /\ pc'[c.by] = "answer" /\ notice[c.by].entry = c.entry
         \/ ~Awaited(c) /\ pc'[c.by] = pc[c.by]
  BY <1>1, <1>2 DEF Awaited, TypeInv, TypeOK
<1>4. \A o \in Requests \ {c.by} : Waits(o)
  BY <1>2, <1>3 DEF Waits
<1>5. Grows
  BY <1>2, <1>3 DEF Grows
<1>6. ~Awaited(c) => Waits(c.by)
  BY <1>2, <1>3 DEF Waits
<1> QED
  BY <1>1, <1>2, <1>3, <1>4, <1>5, <1>6 DEF Alone, Same

LEMMA CallKeeps ==
    ASSUME TypeInv, NEW c \in calls, IndexApplies(c) \/ IndexFails(c), RequestInv(c.by), Awaited(c)
    PROVE  RequestInv(c.by)'
<1> DEFINE r == c.by
<1>1. /\ r \in Requests /\ Alone(r) /\ Same(r) /\ todo'[r] = todo[r]
      /\ result'[r] = result[r] /\ pc[r] = "indexing" /\ pc'[r] = "answer"
      /\ UNCHANGED <<store, issued, found>>
  BY CallAlone
<1>2. RequestInv(r) /\ before[r] \subseteq Requests /\ input[r].op # "query"
  BY <1>1 DEF TypeInv, HistoryTyped, RequestInv, PathInv, Publishing, Write
<1> HIDE DEF r
<1>3. PathInv(r)' /\ NoticeInv(r)'
  BY <1>1, <1>2 DEF RequestInv, PathInv, NoticeInv, Same, Publishing, get
<1>4. WroteInv(r)' /\ FoundInv(r)'
  <2>1. input[r].op \in Write => MissedInv(r)'
    BY <1>1, <1>2, MissedStays DEF RequestInv, WroteInv, Same, Alone
  <2>2. WroteInv(r)'
    BY <1>1, <1>2, <2>1 DEF RequestInv, WroteInv, Same, Alone, Grows
  <2>3. FoundInv(r)'
    BY <1>1, <1>2 DEF RequestInv, FoundInv, Same, IsLoad
  <2> QED
    BY <2>2, <2>3
<1>5. SawInv(r)'
  BY <1>1, <1>2, SameForms DEF RequestInv, SawInv, Same
<1>6. QueryInv(r)'
  BY <1>1, <1>2, SameForms DEF RequestInv, QueryInv, Same
<1>7. LoadInv(r)'
  BY <1>1, <1>2, SameForms, LoadedDescriptorsAssumption DEF RequestInv, LoadInv, Same
<1> QED
  BY <1>3, <1>4, <1>5, <1>6, <1>7 DEF RequestInv, r

LEMMA CallFollows ==
    ASSUME TypeInv, FollowInv, CallsInv, NEW c \in calls, IndexApplies(c) \/ IndexFails(c)
    PROVE  FollowInv' /\ CallsInv'
<1>1. CallsInv'
  BY CallAlone DEF CallsInv
<1>2. \A o \in Requests, e \in Entry \ {c.entry} :
          /\ Tells(o, e)' <=> Tells(o, e)
          /\ Tells(o, e) => notice'[o] = notice[o] /\ pc'[o] = pc[o]
  <2>1. SUFFICES ASSUME NEW o \in Requests, NEW e \in Entry \ {c.entry}
                 PROVE  /\ Tells(o, e)' <=> Tells(o, e)
                        /\ Tells(o, e) => notice'[o] = notice[o] /\ pc'[o] = pc[o]
    OBVIOUS
  <2>2. CASE Waits(o)
    BY <2>2, WaitsForms DEF Waits
  <2>3. CASE ~Waits(o)
    <3>1. o = c.by /\ notice'[o] = notice[o] /\ notice[o].entry = c.entry
      BY <2>3, CallAlone DEF Alone
    <3> QED
      BY <2>1, <3>1 DEF Tells
  <2> QED
    BY <2>2, <2>3
<1>3. \A e \in Entry : Projection(store, e)' = Projection(store, e)
  BY StoreStays, CallAlone
<1>4. troubled \subseteq troubled' /\ \A e \in Entry \ {c.entry} : index'[e] = index[e]
  BY CallAlone DEF IndexApplies, IndexFails, TypeInv, TypeOK
<1>5. \A d \in calls : d.by \in Requests /\ d \in Call
  BY DEF TypeInv, TypeOK, Call
<1>6. SUFFICES ASSUME NEW e \in Entry, e \notin troubled'
               PROVE  /\ \A p, o \in Requests : Tells(p, e)' /\ Tells(o, e)' => p = o
                      /\ \A p \in Requests : Tells(p, e)' => notice'[p].value = Projection(store, e)'
                      /\ \A d \in calls' : d.entry = e =>
                             Tells(d.by, e)' /\ pc'[d.by] = "indexing" /\ d.value = notice'[d.by].value
                      /\ (\A p \in Requests : ~Tells(p, e)') => index'[e] = Projection(store, e)'
  BY <1>1 DEF FollowInv
<1>7. CASE e # c.entry
  <2>1. e \in Entry \ troubled /\ index'[e] = index[e] /\ calls' \subseteq calls
    BY <1>4, <1>6, <1>7, CallAlone
  <2> QED
    BY <1>2, <1>3, <1>5, <1>7, <2>1 DEF FollowInv
<1>8. CASE e = c.entry
  <2>1. IndexApplies(c) /\ e \in Entry \ troubled
    BY <1>4, <1>6, <1>8 DEF IndexFails
  <2>2. /\ Tells(c.by, e) /\ pc[c.by] = "indexing" /\ c.value = notice[c.by].value
        /\ notice[c.by].entry = e
    BY <1>8, <2>1 DEF FollowInv, Tells
  <2>3. c.value = Projection(store, e) /\ \A o \in Requests \ {c.by} : ~Tells(o, e)
    BY <1>5, <2>1, <2>2 DEF FollowInv
  <2>4. Awaited(c)
    BY <1>8, <2>2 DEF Awaited
  <2>5. \A o \in Requests : ~Tells(o, e)'
    <3>1. \A o \in Requests \ {c.by} : ~Tells(o, e)'
      BY <2>3, WaitsForms, CallAlone DEF Alone
    <3>2. ~Tells(c.by, e)'
      BY <2>4, CallAlone DEF Tells, Publishing
    <3> QED
      BY <3>1, <3>2
  <2>6. index'[e] = c.value
    BY <1>8, <2>1 DEF IndexApplies, TypeInv, TypeOK
  <2>7. \A d \in calls : d.entry = e => d = c
    <3>1. SUFFICES ASSUME NEW d \in calls, d.entry = e PROVE d = c
      OBVIOUS
    <3>2. Tells(d.by, e) /\ d.value = notice[d.by].value
      BY <2>1, <3>1 DEF FollowInv
    <3>3. d.by = c.by
      BY <1>5, <2>3, <3>2
    <3> QED
      BY <1>5, <1>8, <2>2, <3>1, <3>2, <3>3 DEF Call
  <2> QED
    BY <1>3, <2>3, <2>5, <2>6, <2>7, CallAlone
<1> QED
  BY <1>7, <1>8

-----------------------------------------------------------------------------
(* The worker ends.                                                         *)
LEMMA CrashForms ==
    ASSUME TypeInv, Crash
    PROVE  /\ UNCHANGED <<input, uuid, guarded, todo, answer, status, skipped, saw, before, wrote, reported,
                           store, issued, backend, index, calls>>
           /\ Grows /\ troubled \subseteq troubled'
           /\ \A o \in Requests :
                /\ Same(o)
                /\ pc'[o] = "lost" \/ (pc[o] \in {"idle", "done"} /\ pc'[o] = pc[o])
                /\ \A e : Tells(o, e) => e \in troubled'
<1>1. /\ UNCHANGED <<input, uuid, guarded, todo, answer, status, skipped, saw, before, wrote, reported,
                     store, issued, backend, index, calls>>
      /\ pc' = [r \in Requests |-> IF InFlight(r) THEN "lost" ELSE pc[r]]
      /\ troubled' = troubled \cup {notice[r].entry : r \in {o \in Requests : Publishing(o) /\ IsToldOf(o)}}
  BY DEF Crash, requestVars, historyVars, storeVars
<1>2. \A o \in Requests : Same(o)
  BY <1>1 DEF Same
<1>3. \A o \in Requests :
          pc'[o] = "lost" \/ (pc[o] \in {"idle", "done"} /\ pc'[o] = pc[o])
  <2>1. \A o \in Requests : pc'[o] = IF InFlight(o) THEN "lost" ELSE pc[o]
    BY <1>1
  <2>2. \A o \in Requests : InFlight(o) \/ pc[o] \in {"idle", "done", "lost"}
    BY DEF InFlight
  <2> QED
    BY <2>1, <2>2
<1>4. Grows
  <2>1. \A o \in Requests : pc[o] = "done" => pc'[o] = "done"
    BY <1>1 DEF InFlight
  <2> QED
    BY <1>1, <2>1 DEF Grows
<1>5. \A o \in Requests : \A e : Tells(o, e) => e \in troubled'
  BY <1>1 DEF Tells
<1> QED
  BY <1>1, <1>2, <1>3, <1>4, <1>5

LEMMA CrashKeeps ==
    ASSUME TypeInv, Crash, NEW r \in Requests, RequestInv(r)
    PROVE  RequestInv(r)'
<1>1. /\ Same(r) /\ Grows /\ status'[r] = status[r] /\ todo'[r] = todo[r] /\ answer'[r] = answer[r]
      /\ pc'[r] = "lost" \/ (pc[r] \in {"idle", "done"} /\ pc'[r] = pc[r])
      /\ UNCHANGED <<store, issued>> /\ troubled \subseteq troubled' /\ before[r] \subseteq Requests
      /\ found'[r] = NoUuid
  BY CrashForms DEF TypeInv, HistoryTyped, Crash
<1>2. pc[r] = "idle" /\ pc'[r] = "lost" => FALSE
  BY DEF Crash, InFlight
<1>3. PathInv(r)'
  BY <1>1, <1>2 DEF RequestInv, PathInv, Same, Publishing, get
<1>4. WroteInv(r)' /\ NoticeInv(r)' /\ FoundInv(r)'
  <2>1. input[r].op \in Write => MissedInv(r)'
    BY <1>1, MissedStays DEF RequestInv, WroteInv, MissedInv, Same
  <2>2. WroteInv(r)'
    BY <1>1, <2>1 DEF RequestInv, WroteInv, Same, Grows
  <2> QED
    BY <1>1, <2>2 DEF NoticeInv, FoundInv, Publishing
<1>5. IsOwned(r)' <=> IsOwned(r)
  BY <1>1 DEF Same, IsOwned
<1>6. SawInv(r)'
  BY <1>1, <1>5 DEF RequestInv, SawInv, Same
<1>7. QueryInv(r)'
  <2>1. ShowsOldDocuments(r) => ShowsOldDocuments(r)'
    BY <1>1, StoreStays DEF ShowsOldDocuments, Same, MayFind
  <2> QED
    BY <1>1, <2>1 DEF RequestInv, QueryInv, Same, Grows
<1>8. LoadInv(r)'
  <2>1. \A i : IsKept(r, i) => IsKept(r, i)'
    BY <1>1, KeptStays DEF Same
  <2> QED
    BY <1>1, <2>1 DEF RequestInv, LoadInv, Same
<1> QED
  BY <1>3, <1>4, <1>6, <1>7, <1>8 DEF RequestInv

LEMMA CrashFollows ==
    ASSUME TypeInv, FollowInv, CallsInv, Crash
    PROVE  FollowInv' /\ CallsInv'
<1>1. UNCHANGED <<reported, store, index, calls>> /\ troubled \subseteq troubled'
  BY CrashForms
<1>2. \A o \in Requests : \A e \in Entry \ troubled' : ~Tells(o, e) /\ ~Tells(o, e)'
  BY CrashForms DEF Tells, Publishing
<1>3. \A c \in calls : c.by \in Requests
  BY DEF TypeInv, TypeOK, Call
<1>4. \A e \in Entry : Projection(store, e)' = Projection(store, e)
  BY <1>1, StoreStays
<1> QED
  BY <1>1, <1>2, <1>3, <1>4 DEF FollowInv, CallsInv

-----------------------------------------------------------------------------
(* The store's calls.                                                       *)
LEMMA StoreCallIs ==
    ASSUME NEW r, StoreCall(r)
    PROVE  /\ StoreFrame /\ pc[r] = "store" /\ input[r].op \in Write \cup {"loadDescriptors"}
BY DEF StoreCall, StoreFrame, Write

(* What the ways a call ends say of the request that made it.               *)
LEMMA RespondsForms ==
    ASSUME TypeInv, NEW r \in Requests, NEW n, NEW response, Responds(r, response, n)
    PROVE  /\ pc'[r] = "stored" /\ result'[r] = response /\ notice'[r] = n /\ found'[r] = NoUuid
           /\ IsLoad(r) /\ response \notin Success => IdOf(r) \in skipped'[r]
BY DEF Responds, GoTo, TypeInv, TypeOK, HistoryTyped

LEMMA ThrowsForms ==
    ASSUME TypeInv, NEW r \in Requests, Throws(r)
    PROVE  pc'[r] = "done" /\ status'[r] = 500 /\ found'[r] = NoUuid
BY DEF Throws, Answered, TypeInv, TypeOK, HistoryTyped

LEMMA RerunsForms ==
    ASSUME TypeInv, NEW r \in Requests, Reruns(r)
    PROVE  pc'[r] = "store" /\ found'[r] = found[r] /\ timestamp'[r] = timestamp[r]
BY DEF Reruns, GoTo, TypeInv, TypeOK

(* What any of them leaves of the others.                                   *)
LEMMA LeavesForms ==
    ASSUME TypeInv, NEW r \in Requests, Leaves(r), StoreFrame
    PROVE  /\ \A o \in Requests \ {r} :
                 /\ pc'[o] = pc[o] /\ status'[o] = status[o] /\ timestamp'[o] = timestamp[o]
                 /\ result'[o] = result[o] /\ notice'[o] = notice[o] /\ found'[o] = found[o]
                 /\ skipped'[o] = skipped[o]
           /\ skipped[r] \subseteq skipped'[r]
           /\ UNCHANGED <<input, uuid, guarded, todo, answer, before, index, calls>>
<1>1. UNCHANGED <<input, uuid, guarded, todo, answer, before, index, calls>>
  BY DEF StoreFrame, requestVars
<1>2. /\ \E where : pc' = [pc EXCEPT ![r] = where]
      /\ status' = status \/ \E code : status' = [status EXCEPT ![r] = code]
      /\ timestamp' = timestamp \/ timestamp' = [timestamp EXCEPT ![r] = 0]
      /\ result' = result \/ \E response : result' = [result EXCEPT ![r] = response]
      /\ notice' = notice \/ \E n : notice' = [notice EXCEPT ![r] = n]
      /\ found' = found \/ \E u : found' = [found EXCEPT ![r] = u]
      /\ skipped' = skipped \/ skipped' = [skipped EXCEPT ![r] = @ \cup {IdOf(r)}]
  BY DEF Leaves, Responds, Throws, Reruns, Answered, GoTo
<1>3. \A o \in Requests \ {r} :
          /\ pc'[o] = pc[o] /\ status'[o] = status[o] /\ timestamp'[o] = timestamp[o]
          /\ result'[o] = result[o] /\ notice'[o] = notice[o] /\ found'[o] = found[o]
          /\ skipped'[o] = skipped[o]
  BY <1>2 DEF TypeInv, TypeOK, HistoryTyped
<1>4. skipped[r] \subseteq skipped'[r]
  BY <1>2 DEF TypeInv, HistoryTyped
<1> QED
  BY <1>1, <1>3, <1>4

-----------------------------------------------------------------------------
(* A call that does nothing.                                                *)
LEMMA CalmAlone ==
    ASSUME TypeInv, NEW r \in Requests, StoreCall(r), IsCalm(r)
    PROVE  /\ Alone(r) /\ Same(r) /\ todo'[r] = todo[r]
           /\ UNCHANGED <<store, issued, index, calls, troubled, reported>>
           /\ pc[r] = "store" /\ input[r].op \in Write \cup {"loadDescriptors"}
<1>1. /\ StoreFrame /\ pc[r] = "store" /\ input[r].op \in Write \cup {"loadDescriptors"}
      /\ UNCHANGED <<store, issued, backend, wrote, reported, saw, troubled>> /\ Leaves(r)
  BY StoreCallIs, CalmLeaves DEF IsCalm
<1>2. Same(r)
  BY <1>1, LeavesForms DEF Same
<1>3. \A o \in Requests \ {r} : Waits(o)
  BY <1>1, LeavesForms DEF Waits
<1>4. Grows
  BY <1>1, LeavesForms DEF Grows
<1> QED
  BY <1>1, <1>2, <1>3, <1>4, LeavesForms DEF Alone

LEMMA CalmForms ==
    ASSUME TypeInv, NEW r \in Requests, IsCalm(r)
    PROVE  \/ /\ pc'[r] = "stored" /\ result'[r] \notin Success /\ found'[r] = NoUuid
              /\ IsLoad(r) => IdOf(r) \in skipped'[r]
              /\ result'[r] = "UPDATE_FAILURE_IMMUTABLE_IDENTITY" =>
                     input[r].op = "update" /\ \E i \in At(uuid[r]) : IsFresh(r, i)
           \/ pc'[r] = "done" /\ status'[r] = 500 /\ found'[r] = NoUuid
           \/ pc'[r] = "store" /\ \E i : Holds(r, i) /\ found'[r] = store[i].uuid
<1>1. ASSUME NEW n, NEW response, Declines(r, n, response)
      PROVE  /\ pc'[r] = "stored" /\ result'[r] \notin Success /\ found'[r] = NoUuid
             /\ IsLoad(r) => IdOf(r) \in skipped'[r]
             /\ result'[r] = "UPDATE_FAILURE_IMMUTABLE_IDENTITY" =>
                    input[r].op = "update" /\ \E i \in At(uuid[r]) : IsFresh(r, i)
  BY <1>1, RespondsForms DEF Declines
<1>2. CASE Throws(r)
  BY <1>2, ThrowsForms
<1>3. ASSUME NEW i, Holds(r, i)
      PROVE  pc'[r] = "store" /\ \E k : Holds(r, k) /\ found'[r] = store[k].uuid
  <2>1. pc' = [pc EXCEPT ![r] = "store"] /\ found' = [found EXCEPT ![r] = store[i].uuid]
    BY <1>3 DEF Holds, Finds, GoTo
  <2>2. pc'[r] = "store" /\ found'[r] = store[i].uuid
    BY <2>1 DEF TypeInv, TypeOK
  <2> QED
    BY <1>3, <2>2
<1> QED
  BY <1>1, <1>2, <1>3 DEF IsCalm

(* What is found is there, and for the request.                             *)
LEMMA HoldsFound ==
    ASSUME TypeInv, StoreInv, NEW r \in Requests, RequestInv(r), StoreCall(r), IsCalm(r),
           NEW i, Holds(r, i), found'[r] = store[i].uuid, pc'[r] = "store"
    PROVE  FoundInv(r)' /\ (input[r].op \in Write => wrote[r] = {})
<1>1. /\ i \in Id /\ store[i] # NoDoc /\ backend = "PostgreSQL" /\ store[i].uuid <= issued
      /\ \/ input[r].op \in {"upsert", "loadDescriptors"} /\ i = IdOf(r)
         \/ input[r].op = "update" /\ store[i].uuid = uuid[r]
  BY DEF Holds, Finds, StoreInv
<1>2. /\ UNCHANGED <<store, issued, input, uuid, todo>> /\ backend' = backend /\ pc[r] = "store"
  BY CalmAlone, StoreCallIs DEF StoreFrame, requestVars, IsCalm
<1>3. IdOf(r)' = IdOf(r)
  BY <1>2 DEF IdOf, IsLoad
<1>4. At(found[r])' = {i}
  <2>1. At(store[i].uuid) = {i}
    BY <1>1 DEF At, StoreInv
  <2> QED
    BY <1>2, <2>1 DEF At
<1>5. FoundInv(r)'
  BY <1>1, <1>2, <1>3, <1>4 DEF FoundInv
<1>6. input[r].op \in Write => wrote[r] = {}
  BY <1>1, <1>2 DEF RequestInv, WroteInv
<1> QED
  BY <1>5, <1>6

LEMMA CalmKeeps ==
    ASSUME TypeInv, StoreInv, NEW r \in Requests, RequestInv(r), StoreCall(r), IsCalm(r)
    PROVE  RequestInv(r)' /\ \A e : ~Tells(r, e)'
<1> USE CalmAlone
<1>1. /\ before[r] \subseteq Requests /\ input[r].op # "query" /\ timestamp[r] \in Nat
      /\ \A i \in Id : store[i] # NoDoc => store[i].lastModifiedAt \in Nat
  BY DEF TypeInv, TypeOK, HistoryTyped, Write, Doc
<1>2. pc'[r] = "stored" => ~IsToldOf(r)'
  BY CalmForms
     DEF Same, IsToldOf, afterUpsertDocument, afterUpdateDocumentById, afterDeleteDocumentById, Success, Write
<1>3. pc'[r] \in {"store", "stored", "done"} /\ (pc'[r] = "done" => status'[r] = 500)
  BY CalmForms
<1>4. PathInv(r)'
  BY <1>3 DEF RequestInv, PathInv, Same, get, Write, Publishing
<1>5. WroteInv(r)'
  <2>1. SUFFICES ASSUME input[r].op \in Write PROVE WroteInv(r)'
    BY <1>3 DEF WroteInv, Same
  <2>2. reported[r] = {} /\ (wrote[r] # {} => backend = "MongoDB" /\ HasAged(r))
    BY <2>1 DEF RequestInv, WroteInv
  <2>3. MissedInv(r)'
    BY <2>2 DEF MissedInv, Same
  <2>4. CASE pc'[r] = "stored"
    <3>1. wrote[r] # {} => result'[r] # "UPDATE_FAILURE_IMMUTABLE_IDENTITY"
      <4>1. SUFFICES ASSUME wrote[r] # {}, result'[r] = "UPDATE_FAILURE_IMMUTABLE_IDENTITY" PROVE FALSE
        OBVIOUS
      <4>2. PICK i \in At(uuid[r]) : IsFresh(r, i) /\ input[r].op = "update"
        BY <2>4, <4>1, CalmForms
      <4>3. store[i].lastModifiedAt >= timestamp[r] /\ i \in Id /\ store[i] # NoDoc
        BY <2>2, <4>1, <4>2 DEF HasAged, At
      <4> QED
        BY <1>1, <4>2, <4>3 DEF IsFresh
    <3>2. result'[r] \notin Success
      BY <2>4, CalmForms
    <3> QED
      BY <2>2, <2>3, <2>4, <3>1, <3>2 DEF WroteInv, Same, Alone, Grows
  <2>5. CASE pc'[r] = "store"
    <3>1. wrote[r] = {}
      BY <2>1, <2>5, CalmForms, HoldsFound
    <3> QED
      BY <2>2, <2>3, <2>5, <3>1 DEF WroteInv, Same
  <2>6. CASE pc'[r] = "done"
    BY <1>3, <2>3, <2>6 DEF WroteInv
  <2> QED
    BY <1>3, <2>4, <2>5, <2>6
<1>6. FoundInv(r)'
  BY <1>3, CalmForms, HoldsFound DEF FoundInv
<1>7. NoticeInv(r)'
  BY <1>2, <1>3 DEF NoticeInv, Publishing
<1>8. SawInv(r)'
  BY <1>3, SameForms DEF RequestInv, SawInv, Same
<1>9. QueryInv(r)'
  BY <1>1, SameForms DEF RequestInv, QueryInv, Same
<1>10. LoadInv(r)'
  <2>1. ASSUME IsLoad(r), pc'[r] = "stored" PROVE IsKept(r, LoadedDescriptors[todo[r]])'
    BY <2>1, CalmForms DEF IsKept, IdOf
  <2> QED
    BY <1>3, <2>1, SameForms DEF RequestInv, LoadInv, Same, IsLoad
<1>11. \A e : ~Tells(r, e)'
  BY <1>2, <1>3 DEF Tells, Publishing
<1> QED
  BY <1>4, <1>5, <1>6, <1>7, <1>8, <1>9, <1>10, <1>11 DEF RequestInv

-----------------------------------------------------------------------------
(* A call that reports what it has not done.                                *)
LEMMA SkipsAlone ==
    ASSUME TypeInv, NEW r \in Requests, StoreCall(r), NEW n, Skips(r, n)
    PROVE  /\ Alone(r) /\ UNCHANGED <<store, issued, index, calls, wrote, saw, input, uuid, guarded, before, todo>>
           /\ pc[r] = "store" /\ pc'[r] = "stored" /\ result'[r] = "UPDATE_SUCCESS" /\ notice'[r] = n
           /\ found'[r] = NoUuid /\ reported'[r] = reported[r] \cup {n} /\ n.entry \in Entry
           /\ troubled' = troubled \cup {n.entry} /\ skipped[r] \subseteq skipped'[r]
           /\ \A o \in Requests : reported[o] \subseteq reported'[o]
<1>1. /\ StoreFrame /\ pc[r] = "store" /\ Leaves(r) /\ Responds(r, "UPDATE_SUCCESS", n)
      /\ reported' = [reported EXCEPT ![r] = @ \cup {n}] /\ troubled' = troubled \cup {n.entry}
      /\ UNCHANGED <<store, issued, backend, wrote, saw>> /\ n.entry \in Entry
  BY StoreCallIs, SkipsLeaves DEF Skips, Misses, Change
<1>2. reported'[r] = reported[r] \cup {n} /\ \A o \in Requests \ {r} : reported'[o] = reported[o]
  BY <1>1 DEF TypeInv, HistoryTyped
<1>3. \A o \in Requests \ {r} : Waits(o)
  BY <1>1, <1>2, LeavesForms DEF Waits
<1>4. Grows
  BY <1>1, LeavesForms DEF Grows
<1> QED
  BY <1>1, <1>2, <1>3, <1>4, LeavesForms, RespondsForms DEF Alone

LEMMA SkipsKeeps ==
    ASSUME TypeInv, NEW r \in Requests, RequestInv(r), StoreCall(r), NEW n, Skips(r, n)
    PROVE  RequestInv(r)'
<1>1. /\ Alone(r) /\ UNCHANGED <<store, issued, index, calls, wrote, saw, input, uuid, guarded, before, todo>>
      /\ pc[r] = "store" /\ pc'[r] = "stored" /\ result'[r] = "UPDATE_SUCCESS" /\ notice'[r] = n
      /\ found'[r] = NoUuid /\ reported'[r] = reported[r] \cup {n} /\ skipped[r] \subseteq skipped'[r]
  BY SkipsAlone
<1>2. /\ input[r].op \in {"upsert", "loadDescriptors"} /\ found[r] # NoUuid /\ At(found[r]) = {}
      /\ n.entry[2] = found[r] /\ n.value # Nothing /\ n.value.by = r
  BY DEF Skips, Misses
<1>3. backend = "PostgreSQL" /\ \E o \in Requests \ {r} : HasDeleted(o, n.entry[2])
  BY <1>1, <1>2 DEF RequestInv, FoundInv
<1>4. /\ backend' = "PostgreSQL" /\ \E o \in Requests \ {r} : HasDeleted(o, n.entry[2])'
      /\ Grows /\ before[r] \subseteq Requests
  <2>1. Grows /\ backend' = backend /\ before[r] \subseteq Requests
    BY <1>1 DEF Alone, Grows, TypeInv, HistoryTyped
  <2>2. \A o \in Requests : HasDeleted(o, n.entry[2]) => HasDeleted(o, n.entry[2])'
    BY <2>1, GrowsForms
  <2> QED
    BY <1>3, <2>1, <2>2
<1>5. PathInv(r)'
  BY <1>1, <1>2 DEF RequestInv, PathInv, get, Publishing, Write
<1>6. WroteInv(r)'
  <2>1. SUFFICES ASSUME input[r].op \in Write PROVE WroteInv(r)'
    BY <1>1 DEF WroteInv
  <2>2. reported[r] = {} /\ wrote[r] = {} /\ input[r].op = "upsert"
    BY <1>1, <1>2, <1>3, <2>1 DEF RequestInv, WroteInv, Write
  <2>3. MissedInv(r)'
    BY <1>1, <1>2, <1>4, <2>2 DEF MissedInv
  <2> QED
    BY <1>1, <2>2, <2>3 DEF WroteInv, Success
<1>7. FoundInv(r)'
  BY <1>1 DEF FoundInv
<1>8. NoticeInv(r)'
  BY <1>1, <1>2 DEF NoticeInv
<1>9. SawInv(r)'
  BY <1>1 DEF RequestInv, SawInv, IsOwned
<1>10. QueryInv(r)'
  BY <1>1, <1>2, <1>4 DEF RequestInv, QueryInv, Grows
<1>11. LoadInv(r)'
  <2>1. IsTaken'
    BY <1>4 DEF HasDeleted, IsTaken
  <2> QED
    BY <1>1, <2>1 DEF RequestInv, LoadInv, IsKept
<1> QED
  BY <1>5, <1>6, <1>7, <1>8, <1>9, <1>10, <1>11 DEF RequestInv

-----------------------------------------------------------------------------
(* A call that changes the store.                                           *)
LEMMA WritesAlone ==
    ASSUME TypeInv, NEW r \in Requests, StoreCall(r), NEW s, NEW n, NEW isTold, Writes(r, s, n, isTold)
    PROVE  /\ Alone(r) /\ store' = s /\ wrote'[r] = wrote[r] \cup {n} /\ saw'[r] = saw[r]
           /\ isTold => reported'[r] = reported[r] \cup {n}
           /\ ~isTold => reported'[r] = reported[r]
           /\ \A o \in Requests : reported[o] \subseteq reported'[o]
           /\ \A o \in Requests \ {r} : InFlight(o) => Owners(store, o)' \subseteq saw'[o]
           /\ UNCHANGED <<index, calls, input, uuid, guarded, before, todo, backend>>
           /\ issued' = issued \/ (issued' \in Nat /\ issued' > issued)
           /\ pc[r] = "store" /\ input[r].op \in Write \cup {"loadDescriptors"}
           /\ skipped[r] \subseteq skipped'[r]
<1>1. /\ StoreFrame /\ store' = s /\ UNCHANGED backend
      /\ wrote' = [wrote EXCEPT ![r] = @ \cup {n}]
      /\ reported' = IF isTold THEN [reported EXCEPT ![r] = @ \cup {n}] ELSE reported
      /\ saw' = [o \in Requests |-> IF InFlight(o) /\ o # r THEN saw[o] \cup Owners(s, o) ELSE saw[o]]
      /\ issued' = IF n.entry[2] > issued THEN n.entry[2] ELSE issued
      /\ pc[r] = "store" /\ input[r].op \in Write \cup {"loadDescriptors"} /\ Leaves(r)
  BY StoreCallIs, WritesLeaves DEF Writes, Commits
<1>2. issued' = issued \/ (issued' \in Nat /\ issued' > issued)
  <2>1. n.entry[2] \in Nat
    BY DEF Writes, IsProper, Change, Entry, Uuid
  <2> QED
    BY <1>1, <2>1
<1>3. /\ wrote'[r] = wrote[r] \cup {n} /\ saw'[r] = saw[r]
      /\ isTold => reported'[r] = reported[r] \cup {n}
      /\ ~isTold => reported'[r] = reported[r]
      /\ \A o \in Requests \ {r} :
            /\ wrote'[o] = wrote[o] /\ reported'[o] = reported[o]
            /\ saw[o] \subseteq saw'[o] /\ (InFlight(o) => Owners(s, o) \subseteq saw'[o])
  BY <1>1 DEF TypeInv, HistoryTyped
<1>4. \A o \in Requests \ {r} : Waits(o)
  BY <1>1, <1>3, LeavesForms DEF Waits
<1>5. Grows
  BY <1>1, <1>2, <1>3, <1>4, LeavesForms DEF Grows, Waits
<1>6. \A o \in Requests \ {r} : Owners(store, o)' = Owners(s, o)
  BY <1>1, <1>4, StoreBecomes DEF Waits
<1> QED
  BY <1>1, <1>2, <1>3, <1>4, <1>5, <1>6, LeavesForms DEF Alone

LEMMA WritesForms ==
    ASSUME TypeInv, NEW r \in Requests, NEW s, NEW n, NEW isTold, Writes(r, s, n, isTold)
    PROVE  \/ /\ isTold /\ pc'[r] = "stored" /\ notice'[r] = n /\ found'[r] = NoUuid
              /\ result'[r] \in Success /\ IsOutcome(r, result'[r])
           \/ ~isTold /\ pc'[r] = "stored" /\ result'[r] = "UNKNOWN_FAILURE" /\ found'[r] = NoUuid
           \/ ~isTold /\ pc'[r] = "done" /\ status'[r] = 500 /\ found'[r] = NoUuid
           \/ /\ ~isTold /\ pc'[r] = "store" /\ backend = "MongoDB"
              /\ found'[r] = found[r] /\ timestamp'[r] = timestamp[r]
<1>1. CASE isTold
  <2>1. PICK response \in Success : IsOutcome(r, response) /\ Responds(r, response, n)
    BY <1>1 DEF Writes, Ends
  <2> QED
    BY <1>1, <2>1, RespondsForms
<1>2. CASE ~isTold
  <2>1. Responds(r, "UNKNOWN_FAILURE", n) \/ Throws(r) \/ (backend = "MongoDB" /\ Reruns(r))
    BY <1>2 DEF Writes, Ends
  <2> QED
    BY <1>2, <2>1, RespondsForms, ThrowsForms, RerunsForms
<1> QED
  BY <1>1, <1>2

LEMMA WritesTakes ==
    ASSUME TypeInv, NEW r \in Requests, StoreCall(r), NEW s, NEW n, NEW isTold, Writes(r, s, n, isTold)
    PROVE  uuid[r] # NoUuid \/ IsTaken => IsTaken'
BY WritesAlone, GrowsForms DEF Alone, IsTaken

LEMMA WritesKept ==
    ASSUME TypeInv, NEW r \in Requests, StoreCall(r), NEW s, NEW n, NEW isTold, Writes(r, s, n, isTold),
           NEW o \in Requests, NEW i \in Id, IsKept(o, i)
    PROVE  IsKept(o, i)'
<1>1. store' = s /\ skipped[o] \subseteq skipped'[o]
  BY WritesAlone DEF Alone, Waits
<1>2. CASE store[i] # NoDoc
  BY <1>1, <1>2, WritesTakes DEF Writes, IsProper, IsKept
<1>3. CASE store[i] = NoDoc
  BY <1>1, <1>3, WritesTakes DEF IsKept
<1> QED
  BY <1>2, <1>3

(* What another request has found is there, or it is this one that deletes  *)
(* it.                                                                      *)
LEMMA WritesFound ==
    ASSUME TypeInv, NEW r \in Requests, StoreCall(r), NEW s, NEW n, NEW isTold, Writes(r, s, n, isTold),
           NEW o \in Requests \ {r}, FoundInv(o)
    PROVE  FoundInv(o)'
<1>1. /\ Waits(o) /\ Grows /\ store' = s /\ backend' = backend /\ uuid'[r] = uuid[r] /\ n \in wrote'[r]
      /\ issued \in Nat /\ (issued' = issued \/ (issued' \in Nat /\ issued' > issued))
      /\ found'[o] = found[o]
  <2>1. /\ Alone(r) /\ store' = s /\ backend' = backend /\ uuid' = uuid /\ wrote'[r] = wrote[r] \cup {n}
        /\ issued' = issued \/ (issued' \in Nat /\ issued' > issued)
    BY WritesAlone
  <2> QED
    BY <2>1 DEF Alone, Waits, TypeInv, HistoryTyped
<1>2. IsLoad(o)' = IsLoad(o) /\ IdOf(o)' = IdOf(o)
  BY <1>1 DEF IsLoad, IdOf, Waits
<1>3. SUFFICES ASSUME pc[o] = "store", found[o] # NoUuid
               PROVE  /\ backend = "PostgreSQL" /\ found[o] <= issued'
                      /\ input[o].op \in {"upsert", "loadDescriptors"} =>
                             IsTaken' \/ At(found[o])' \subseteq {IdOf(o)}
                      /\ input[o].op = "update" => found[o] = uuid[o]
                      /\ At(found[o])' # {} \/ \E p \in Requests \ {o} : HasDeleted(p, found[o])'
  BY <1>1, <1>2 DEF FoundInv, Waits, At
<1>4. /\ backend = "PostgreSQL" /\ found[o] <= issued
      /\ input[o].op \in {"upsert", "loadDescriptors"} => IsTaken \/ At(found[o]) \subseteq {IdOf(o)}
      /\ input[o].op = "update" => found[o] = uuid[o]
      /\ At(found[o]) # {} \/ \E p \in Requests \ {o} : HasDeleted(p, found[o])
  BY <1>3 DEF FoundInv
<1>5. found[o] <= issued'
  <2>1. found[o] \in Nat
    BY <1>3, BoundsAssumption DEF TypeInv, TypeOK, Uuid
  <2> QED
    BY <1>1, <1>4, <2>1
<1>6. ASSUME input[o].op \in {"upsert", "loadDescriptors"}, ~IsTaken'
      PROVE  At(found[o])' \subseteq {IdOf(o)}
  <2>1. ~IsTaken /\ uuid[r] = NoUuid /\ At(found[o]) \subseteq {IdOf(o)}
    BY <1>4, <1>6, WritesTakes
  <2>2. SUFFICES ASSUME NEW k \in Id, s[k] # NoDoc, s[k].uuid = found[o] PROVE k = IdOf(o)
    BY <1>1 DEF At
  <2>3. store[k] # NoDoc /\ store[k].uuid = found[o]
    BY <1>4, <2>1, <2>2 DEF Writes, IsProper, IsPlaced
  <2> QED
    BY <2>1, <2>3 DEF At
<1>7. CASE At(found[o]) # {}
  <2>1. PICK i \in Id : store[i] # NoDoc /\ store[i].uuid = found[o]
    BY <1>7 DEF At
  <2>2. \/ \E k \in Id : s[k] # NoDoc /\ s[k].uuid = found[o]
        \/ n.value = Nothing /\ n.entry[2] = found[o] /\ uuid[r] # NoUuid
    BY <1>4, <2>1 DEF Writes, IsProper, Outlives
  <2>3. (\E k \in Id : s[k] # NoDoc /\ s[k].uuid = found[o]) => At(found[o])' # {}
    BY <1>1 DEF At
  <2>4. n.value = Nothing /\ n.entry[2] = found[o] /\ uuid[r] # NoUuid => HasDeleted(r, found[o])'
    BY <1>1 DEF HasDeleted
  <2> QED
    BY <1>4, <1>5, <1>6, <2>2, <2>3, <2>4
<1>8. CASE \E p \in Requests \ {o} : HasDeleted(p, found[o])
  <2>1. PICK p \in Requests \ {o} : HasDeleted(p, found[o])
    BY <1>8
  <2>2. HasDeleted(p, found[o])'
    BY <1>1, <2>1 DEF HasDeleted, Grows
  <2> QED
    BY <1>4, <1>5, <1>6, <2>2
<1> QED
  BY <1>4, <1>7, <1>8

LEMMA WritesAged ==
    ASSUME TypeInv, NEW r \in Requests, StoreCall(r), NEW s, NEW n, NEW isTold, Writes(r, s, n, isTold),
           NEW o \in Requests \ {r}, PathInv(o), backend = "MongoDB", uuid[o] # NoUuid, HasAged(o)
    PROVE  HasAged(o)'
<1>1. Waits(o) /\ store' = s /\ s \in [Id -> Doc \cup {NoDoc}] /\ store \in [Id -> Doc \cup {NoDoc}]
  BY WritesAlone DEF Alone, Writes, IsProper, TypeInv, TypeOK
<1>2. SUFFICES ASSUME input[o].op = "update", NEW k \in Id, s[k] # NoDoc, s[k].uuid = uuid[o]
               PROVE  s[k].lastModifiedAt >= timestamp[o]
  BY <1>1 DEF HasAged, Waits, At
<1>3. uuid[o] <= issued /\ uuid[o] \in Nat /\ issued \in Nat /\ timestamp[o] \in Nat
  BY BoundsAssumption DEF PathInv, TypeInv, TypeOK, HistoryTyped, Uuid
<1>4. PICK l \in Id : /\ store[l] # NoDoc /\ store[l].uuid = s[k].uuid
                      /\ store[l].lastModifiedAt <= s[k].lastModifiedAt
  BY <1>2, <1>3 DEF Writes, IsProper, Matures
<1>5. store[l].lastModifiedAt >= timestamp[o]
  BY <1>2, <1>4 DEF HasAged, At
<1>6. store[l].lastModifiedAt \in Nat /\ s[k].lastModifiedAt \in Nat
  BY <1>1, <1>2, <1>4 DEF Doc
<1> QED
  BY <1>3, <1>4, <1>5, <1>6

(* A commit changes no document that was written before a query arrived.    *)
LEMMA WritesProjection ==
    ASSUME NEW r, NEW s, NEW n, NEW isTold, Writes(r, s, n, isTold), NEW e \in Entry \ troubled'
    PROVE  /\ e = n.entry => Projection(store, e)' = n.value /\ isTold /\ ~OnItsWay(e)
           /\ e # n.entry => Projection(store, e)' = Projection(store, e) /\ e \notin troubled
<1>1. Projection(store, e)' = Projection(s, e)
  BY StoreBecomes DEF Writes, Commits
<1> DEFINE besides == {x \in Entry \ {n.entry} : Projection(s, x) # Projection(store, x)}
           isInOrder == isTold /\ ~OnItsWay(n.entry)
<1>2. troubled' = (IF isInOrder THEN troubled \ {n.entry} ELSE troubled \cup {n.entry}) \cup besides
  BY DEF Writes, Commits
<1>3. CASE e = n.entry
  BY <1>1, <1>2, <1>3 DEF Writes, IsProper
<1>4. CASE e # n.entry
  BY <1>1, <1>2, <1>4
<1> QED
  BY <1>3, <1>4

LEMMA WritesShows ==
    ASSUME TypeInv, NEW r \in Requests, StoreCall(r), NEW s, NEW n, NEW isTold, Writes(r, s, n, isTold),
           NEW o \in Requests \ {r}, QueryInv(o), ShowsOldDocuments(o)
    PROVE  ShowsOldDocuments(o)'
<1>1. Waits(o) /\ pc[r] = "store"
  BY WritesAlone DEF Alone
<1>2. SUFFICES ASSUME NEW e \in {input[o].resource} \X Uuid, NEW v, v = Projection(store, e)',
                      v # Nothing, e \notin troubled', v.by \in before[o] \cup {Seed}, MayFind(o, v)
               PROVE  v \in answer[o]
  BY <1>1 DEF ShowsOldDocuments, Waits, MayFind
<1>3. e \in Entry \ troubled'
  BY <1>2 DEF TypeInv, TypeOK, Input, Entry
<1>4. e # n.entry
  <2>1. SUFFICES ASSUME e = n.entry PROVE FALSE
    OBVIOUS
  <2>2. v.by = r
    BY <1>2, <1>3, <2>1, WritesProjection DEF Writes, IsProper
  <2>3. r \notin before[o] /\ r # Seed
    BY <1>1, NamesAssumption DEF QueryInv
  <2> QED
    BY <1>2, <2>2, <2>3
<1>5. v = Projection(store, e) /\ e \notin troubled
  BY <1>2, <1>3, <1>4, WritesProjection
<1> QED
  BY <1>2, <1>5 DEF ShowsOldDocuments

LEMMA WritesOthers ==
    ASSUME TypeInv, NEW r \in Requests, StoreCall(r), NEW s, NEW n, NEW isTold, Writes(r, s, n, isTold),
           NEW o \in Requests \ {r}, RequestInv(o)
    PROVE  RequestInv(o)'
<1>1. Waits(o) /\ Grows /\ (InFlight(o) => Owners(store, o)' \subseteq saw'[o])
  BY WritesAlone DEF Alone
<1>2. ShowsOldDocuments(o) => ShowsOldDocuments(o)'
  BY WritesShows DEF RequestInv
<1>3. \A i \in Id : IsKept(o, i) => IsKept(o, i)'
  BY WritesKept
<1>4. FoundInv(o)' /\ (backend = "MongoDB" /\ uuid[o] # NoUuid /\ HasAged(o) => HasAged(o)')
  BY WritesFound, WritesAged DEF RequestInv
<1> QED
  BY <1>1, <1>2, <1>3, <1>4, WaitsKeeps

LEMMA WritesKeeps ==
    ASSUME TypeInv, NEW r \in Requests, RequestInv(r), StoreCall(r), NEW s, NEW n, NEW isTold,
           Writes(r, s, n, isTold)
    PROVE  RequestInv(r)'
<1>1. /\ Alone(r) /\ store' = s /\ wrote'[r] = wrote[r] \cup {n} /\ saw'[r] = saw[r]
      /\ isTold => reported'[r] = reported[r] \cup {n}
      /\ ~isTold => reported'[r] = reported[r]
      /\ UNCHANGED <<input, uuid, guarded, before, todo, backend>>
      /\ issued' = issued \/ (issued' \in Nat /\ issued' > issued)
      /\ pc[r] = "store" /\ input[r].op \in Write \cup {"loadDescriptors"}
      /\ Grows /\ before[r] \subseteq Requests /\ input[r].op # "query"
  <2>1. /\ Alone(r) /\ store' = s /\ wrote'[r] = wrote[r] \cup {n} /\ saw'[r] = saw[r]
        /\ isTold => reported'[r] = reported[r] \cup {n}
        /\ ~isTold => reported'[r] = reported[r]
        /\ UNCHANGED <<input, uuid, guarded, before, todo, backend>>
        /\ issued' = issued \/ (issued' \in Nat /\ issued' > issued)
        /\ pc[r] = "store" /\ input[r].op \in Write \cup {"loadDescriptors"}
    BY WritesAlone
  <2>2. Grows /\ before[r] \subseteq Requests /\ input[r].op # "query"
    BY <2>1 DEF Alone, TypeInv, HistoryTyped, Write
  <2> QED
    BY <2>1, <2>2
<1>2. \/ isTold /\ pc'[r] = "stored" /\ notice'[r] = n /\ result'[r] \in Success /\ found'[r] = NoUuid
      \/ ~isTold /\ pc'[r] = "stored" /\ result'[r] = "UNKNOWN_FAILURE" /\ found'[r] = NoUuid
      \/ ~isTold /\ pc'[r] = "done" /\ status'[r] = 500 /\ found'[r] = NoUuid
      \/ /\ ~isTold /\ pc'[r] = "store" /\ backend = "MongoDB"
         /\ found'[r] = found[r] /\ timestamp'[r] = timestamp[r]
  BY WritesForms
<1>3. pc'[r] \in {"store", "stored", "done"} /\ (pc'[r] = "done" => status'[r] = 500)
  BY <1>2
<1>4. PathInv(r)'
  <2>1. uuid[r] # NoUuid => uuid[r] <= issued'
    BY <1>1, BoundsAssumption DEF RequestInv, PathInv, TypeInv, TypeOK, HistoryTyped, Uuid
  <2> QED
    BY <1>1, <1>3, <2>1 DEF RequestInv, PathInv, get, Write, Publishing
<1>5. WroteInv(r)'
  <2>1. SUFFICES ASSUME input[r].op \in Write PROVE WroteInv(r)'
    BY <1>1, <1>3 DEF WroteInv
  <2>2. reported[r] = {}
    BY <1>1, <2>1 DEF RequestInv, WroteInv
  <2>3. MissedInv(r)'
    BY <1>1, <2>2 DEF MissedInv
  <2>4. CASE pc'[r] = "stored"
    <3>1. /\ result'[r] \in Success => reported'[r] # {}
          /\ result'[r] \in Success \cup {"UNKNOWN_FAILURE"}
      BY <1>1, <1>2, <2>4 DEF Success
    <3> QED
      BY <2>3, <2>4, <3>1 DEF WroteInv
  <2>5. CASE pc'[r] = "store"
    <3>1. HasAged(r)'
      <4>1. timestamp'[r] = timestamp[r] /\ store' = s
        BY <1>2, <1>1, <2>5
      <4> QED
        BY <1>1, <4>1 DEF HasAged, At, Writes, IsProper, IsOfAge
    <3> QED
      BY <1>2, <1>1, <2>2, <2>3, <2>5, <3>1 DEF WroteInv
  <2>6. CASE pc'[r] = "done"
    BY <1>3, <2>3, <2>6 DEF WroteInv
  <2> QED
    BY <1>3, <2>4, <2>5, <2>6
<1>6. FoundInv(r)'
  <2>1. pc'[r] = "store" => found'[r] = NoUuid
    BY <1>2, <1>1 DEF RequestInv, FoundInv
  <2>2. pc'[r] # "store" => found'[r] = NoUuid
    BY <1>2
  <2> QED
    BY <2>1, <2>2 DEF FoundInv
<1>7. NoticeInv(r)'
  <2>1. SUFFICES ASSUME Publishing(r)', IsToldOf(r)'
                 PROVE  notice'[r] \in reported'[r] /\ (notice'[r].value # Nothing => notice'[r].value.by = r)
    BY <1>3 DEF NoticeInv, Publishing
  <2>2. result'[r] # "UNKNOWN_FAILURE"
    BY <1>1, <2>1 DEF IsToldOf, afterUpsertDocument, afterUpdateDocumentById, afterDeleteDocumentById, Write
  <2>3. isTold /\ notice'[r] = n
    BY <1>2, <2>1, <2>2 DEF Publishing
  <2> QED
    BY <1>1, <2>3 DEF Writes, IsProper
<1>8. SawInv(r)'
  BY <1>1, <1>3 DEF RequestInv, SawInv, IsOwned
<1>9. QueryInv(r)'
  BY <1>1 DEF RequestInv, QueryInv, Grows
<1>10. LoadInv(r)'
  <2>1. \A i \in Id : IsKept(r, i) => IsKept(r, i)'
    BY WritesKept
  <2>2. \A m \in DOMAIN LoadedDescriptors : LoadedDescriptors[m] \in Id
    BY LoadedDescriptorsAssumption
  <2>3. ASSUME IsLoad(r) PROVE IsKept(r, LoadedDescriptors[todo[r]])'
    BY <1>1, <2>3 DEF IsKept, IdOf, Writes, IsProper
  <2> QED
    BY <1>1, <1>3, <2>1, <2>2, <2>3 DEF RequestInv, LoadInv, IsLoad
<1> QED
  BY <1>4, <1>5, <1>6, <1>7, <1>8, <1>9, <1>10 DEF RequestInv

LEMMA WritesFollows ==
    ASSUME TypeInv, FollowInv, NEW r \in Requests, StoreCall(r), NEW s, NEW n, NEW isTold,
           Writes(r, s, n, isTold)
    PROVE  FollowInv'
<1>1. /\ \A o \in Requests \ {r} : Waits(o)
      /\ pc[r] = "store" /\ UNCHANGED <<index, calls, input>>
  BY WritesAlone DEF Alone
<1>2. ASSUME Publishing(r)', IsToldOf(r)'
      PROVE  isTold /\ notice'[r] = n /\ pc'[r] = "stored"
  <2>1. result'[r] # "UNKNOWN_FAILURE"
    BY <1>2, WritesAlone DEF IsToldOf, afterUpsertDocument, afterUpdateDocumentById, afterDeleteDocumentById, Write
  <2> QED
    BY <1>2, <2>1, WritesForms DEF Publishing
<1>3. \A o \in Requests \ {r}, e \in Entry :
          (Tells(o, e)' <=> Tells(o, e)) /\ notice'[o] = notice[o] /\ pc'[o] = pc[o]
  BY <1>1, WaitsForms DEF Waits
<1>4. \A e \in Entry : ~Tells(r, e) /\ (Tells(r, e)' => e = n.entry)
  BY <1>1, <1>2 DEF Tells, Publishing
<1>5. \A c \in calls : c.by \in Requests
  BY DEF TypeInv, TypeOK, Call
<1>6. SUFFICES ASSUME NEW e \in Entry \ troubled'
               PROVE  /\ \A p, o \in Requests : Tells(p, e)' /\ Tells(o, e)' => p = o
                      /\ \A p \in Requests : Tells(p, e)' => notice'[p].value = Projection(store, e)'
                      /\ \A c \in calls' : c.entry = e =>
                             Tells(c.by, e)' /\ pc'[c.by] = "indexing" /\ c.value = notice'[c.by].value
                      /\ (\A p \in Requests : ~Tells(p, e)') => index'[e] = Projection(store, e)'
  BY DEF FollowInv
<1>7. CASE e = n.entry
  <2>1. Projection(store, e)' = n.value /\ isTold /\ ~OnItsWay(e)
    BY <1>7, WritesProjection
  <2>2. \A o \in Requests \ {r} : ~Tells(o, e)'
    BY <1>3, <2>1 DEF OnItsWay, Tells
  <2>3. \A c \in calls' : c.entry # e
    BY <1>1, <2>1 DEF OnItsWay
  <2>4. Tells(r, e)' /\ notice'[r] = n
    <3>1. pc'[r] = "stored" /\ notice'[r] = n /\ IsOutcome(r, result'[r])
      BY <2>1, WritesForms
    <3>2. IsToldOf(r)'
      BY <1>1, <3>1
         DEF IsOutcome, IsToldOf, afterUpsertDocument, afterUpdateDocumentById, afterDeleteDocumentById
    <3> QED
      BY <1>7, <3>1, <3>2 DEF Tells, Publishing
  <2> QED
    BY <1>1, <2>1, <2>2, <2>3, <2>4
<1>8. CASE e # n.entry
  <2>1. Projection(store, e)' = Projection(store, e) /\ e \in Entry \ troubled
    BY <1>8, WritesProjection
  <2>2. \A o \in Requests : (Tells(o, e)' <=> Tells(o, e)) /\ (Tells(o, e) => notice'[o] = notice[o] /\ pc'[o] = pc[o])
    BY <1>3, <1>4, <1>8
  <2> QED
    BY <1>1, <1>5, <2>1, <2>2 DEF FollowInv
<1> QED
  BY <1>7, <1>8

(* Calls to the index are of changes that were reported, and remain so.     *)
LEMMA CallsStay ==
    ASSUME TypeInv, CallsInv, UNCHANGED calls, \A o \in Requests : reported[o] \subseteq reported'[o]
    PROVE  CallsInv'
<1>1. \A c \in calls : c.by \in Requests
  BY DEF TypeInv, TypeOK, Call
<1> QED
  BY <1>1 DEF CallsInv

-----------------------------------------------------------------------------
(* The worker starts.                                                       *)
LEMMA ProjectionTyped ==
    ASSUME NEW s \in [Id -> Doc \cup {NoDoc}], NEW e
    PROVE  Projection(s, e) \in Value \cup {Nothing}
<1> DEFINE there == {i \in Id : s[i] # NoDoc /\ <<ResourceOf[i], s[i].uuid>> = e}
<1>1. CASE there = {}
  BY <1>1 DEF Projection
<1>2. CASE there # {}
  <2>1. PICK j \in Id : j = (CHOOSE k \in there : TRUE) /\ s[j] # NoDoc
    BY <1>2
  <2>2. s[j] \in Doc
    BY <2>1
  <2>3. Projection(s, e) = [id |-> j, createdBy |-> s[j].writer, by |-> s[j].by]
    BY <1>2, <2>1 DEF Projection
  <2> QED
    BY <2>2, <2>3 DEF Doc, Value
<1> QED
  BY <1>1, <1>2

LEMMA InitStore ==
    ASSUME Init
    PROVE  /\ store \in [Id -> Doc \cup {NoDoc}] /\ issued \in 0 .. MaxUuid /\ StoreInv
<1> DEFINE there == {i \in Id : store[i] # NoDoc}
<1>1. store \in InitialStores /\ issued = Cardinality(there)
  BY DEF Init
<1>2. /\ store \in [Id -> Doc \cup {NoDoc}]
      /\ Cardinality(there) \in 0 .. MaxUuid
      /\ \A i \in there : store[i].writer = store[i].createdBy /\ store[i].uuid <= Cardinality(there)
      /\ \A i, j \in there : store[i].uuid = store[j].uuid => i = j
  BY <1>1, StoresAssumption
<1> QED
  BY <1>1, <1>2 DEF StoreInv, IsByOwner

LEMMA InitTyped ==
    ASSUME Init
    PROVE  TypeInv
<1>1. index \in [Entry -> Value \cup {Nothing}]
  BY InitStore, ProjectionTyped DEF Init
<1>2. input \in [Requests -> Input]
  <2>1. \A r \in Requests : NoInput(r) \in Input
    BY InputsAssumption DEF NoInput
  <2> QED
    BY <2>1 DEF Init
<1>3. reported \in [Requests \cup {Seed} -> SUBSET Change]
  BY <1>1 DEF Init, Change
<1>4. todo \in [Requests -> DOMAIN LoadedDescriptors]
  BY LoadedDescriptorsAssumption DEF Init
<1>5. /\ loading \in {"no", "running", "over"} /\ loaded \subseteq Part /\ schema \in BOOLEAN
      /\ calls = {} /\ troubled = {} /\ clock = 1
      /\ pc \in [Requests -> Progress] /\ guarded \in [Requests -> BOOLEAN]
      /\ uuid \in [Requests -> Uuid \cup {NoUuid}] /\ found \in [Requests -> Uuid \cup {NoUuid}]
      /\ backend \in Backends
  BY DEF Init, Progress
<1>6. /\ timestamp = [r \in Requests |-> 0] /\ bad = [r \in Requests |-> {}]
      /\ status = [r \in Requests |-> 0] /\ answer = [r \in Requests |-> {}]
      /\ skipped = [r \in Requests |-> {}] /\ saw = [r \in Requests |-> {}]
      /\ before = [r \in Requests |-> {}] /\ wrote = [r \in Requests |-> {}]
  BY DEF Init
<1>7. notice \in [Requests -> Notices] /\ result \in [Requests -> Results]
  BY DEF Init, Notices, NoNotice, Results
<1> QED
  BY <1>1, <1>2, <1>3, <1>4, <1>5, <1>6, <1>7, InitStore DEF TypeInv, TypeOK, HistoryTyped

LEMMA InitRequest ==
    ASSUME Init, NEW r \in Requests
    PROVE  RequestInv(r)
<1>1. /\ pc[r] = "idle" /\ uuid[r] = NoUuid /\ wrote[r] = {} /\ todo[r] = 1 /\ before[r] = {}
      /\ input[r] = NoInput(r) /\ found[r] = NoUuid /\ reported[r] = {}
  BY NamesAssumption DEF Init
<1>2. input[r] \in Inputs[r]
  BY <1>1, InputsAssumption DEF NoInput
<1>3. PathInv(r) /\ WroteInv(r) /\ FoundInv(r) /\ NoticeInv(r)
  BY <1>1, <1>2 DEF PathInv, WroteInv, MissedInv, FoundInv, NoticeInv, Publishing
<1> QED
  BY <1>1, <1>3 DEF RequestInv, SawInv, QueryInv, LoadInv

(* The worker starts with nothing under way and an index that follows.      *)
THEOREM Initial == Init => IInv
<1>1. SUFFICES ASSUME Init PROVE IInv
  OBVIOUS
<1>2. CallsInv
  BY <1>1 DEF Init, CallsInv
<1>3. FollowInv
  BY <1>1 DEF Init, FollowInv, Tells, Publishing
<1> QED
  BY <1>1, <1>2, <1>3, InitStore, InitTyped, InitRequest DEF IInv, TypeInv, RequestInv

-----------------------------------------------------------------------------
(* Every step keeps the invariant.                                          *)
LEMMA Parts == IInv <=> /\ TypeInv /\ StoreInv /\ CallsInv /\ FollowInv
                        /\ \A r \in Requests : RequestInv(r)
BY DEF IInv, TypeInv, RequestInv

(* The steps of a request that is not telling the index of anything.        *)
LEMMA QuietStep ==
    ASSUME IInv, NEW r \in Requests, TypeInv', Alone(r), RequestInv(r)', reported'[r] = reported[r],
           UNCHANGED <<store, issued, index, calls, troubled>>, ~Publishing(r), ~Publishing(r)'
    PROVE  IInv'
<1>1. \A o \in Requests \ {r} : RequestInv(o)'
  BY Parts, QuietKeeps DEF Alone
<1>2. \A c \in calls : c.by \in Requests
  BY Parts DEF TypeInv, TypeOK, Call
<1>3. FollowInv'
  BY <1>2, Parts, QuietFollows DEF Alone
<1>4. CallsInv'
  <2>1. \A o \in Requests : reported'[o] = reported[o]
    BY DEF Alone, Waits
  <2> QED
    BY <1>2, <2>1, Parts DEF CallsInv
<1>5. StoreInv'
  BY Parts DEF StoreInv, IsByOwner, Alone, Grows
<1>6. \A o \in Requests : RequestInv(o)'
  BY <1>1
<1> QED
  BY <1>3, <1>4, <1>5, <1>6 DEF IInv, TypeInv, RequestInv

(* The steps after which the index, or the calls to it, may be others.      *)
LEMMA LoudStep ==
    ASSUME IInv, NEW r \in Requests, TypeInv', Alone(r), RequestInv(r)', FollowInv', CallsInv',
           UNCHANGED <<store, issued>>, troubled \subseteq troubled'
    PROVE  IInv'
<1>1. \A o \in Requests \ {r} : RequestInv(o)'
  BY Parts, QuietKeeps DEF Alone
<1>2. StoreInv'
  BY Parts DEF StoreInv, IsByOwner, Alone, Grows
<1>3. \A o \in Requests : RequestInv(o)'
  BY <1>1
<1> QED
  BY <1>2, <1>3 DEF IInv, TypeInv, RequestInv

LEMMA AdvancesStep ==
    ASSUME IInv, NEW r \in Requests, pc[r] \in {"authorize", "ownership"}, Stays, Advances(r), TypeInv'
    PROVE  IInv'
<1>1. TypeInv /\ RequestInv(r)
  BY Parts
<1>2. /\ Alone(r) /\ Same(r) /\ UNCHANGED <<store, index, calls, troubled>>
      /\ ~Publishing(r) /\ ~Publishing(r)'
  BY <1>1, AdvancesAlone
<1>3. RequestInv(r)' /\ issued' = issued
  BY <1>1, AdvancesKeeps DEF Stays, storeVars
<1> QED
  BY <1>2, <1>3, QuietStep DEF Same

LEMMA SecurityStep ==
    ASSUME IInv, NEW r \in Requests, \E fails \in BOOLEAN : securityMiddleware(r, fails)
    PROVE  IInv'
<1>1. PICK fails \in BOOLEAN : securityMiddleware(r, fails)
  OBVIOUS
<1>2. TypeInv /\ PathInv(r) /\ SawInv(r)
  BY Parts DEF RequestInv
<1> QED
  BY <1>1, <1>2, SecurityTyped, SecurityAdvances, AdvancesStep

LEMMA AuthorizesStep ==
    ASSUME IInv, NEW r \in Requests, Authorizes(r)
    PROVE  IInv'
BY Parts, AuthorizesTyped, AuthorizesAdvances, AdvancesStep

LEMMA ArriveStep ==
    ASSUME IInv, NEW r \in Requests, NEW q \in Inputs[r], NEW u \in (1 .. issued) \cup {NoUuid},
           Arrive(r, q, u)
    PROVE  IInv'
<1>1. TypeInv /\ RequestInv(r) /\ TypeInv'
  BY Parts, ArriveTyped
<1>2. /\ Alone(r) /\ reported'[r] = reported[r] /\ UNCHANGED <<store, index, calls, troubled>>
      /\ ~Publishing(r) /\ ~Publishing(r)'
  BY <1>1, ArriveAlone DEF RequestInv
<1>3. RequestInv(r)' /\ issued' = issued
  BY <1>1, ArriveKeeps DEF Arrive, storeVars
<1> QED
  BY <1>1, <1>2, <1>3, QuietStep

LEMMA BeginStep ==
    ASSUME IInv, NEW r \in Requests, \E t \in 0 .. clock + 1, isRead \in BOOLEAN : Begin(r, t, isRead)
    PROVE  IInv'
<1>1. PICK t \in 0 .. clock + 1, isRead \in BOOLEAN : Begin(r, t, isRead)
  OBVIOUS
<1>2. TypeInv /\ RequestInv(r) /\ TypeInv'
  BY <1>1, Parts, BeginTyped
<1>3. /\ Alone(r) /\ reported'[r] = reported[r] /\ UNCHANGED <<store, index, calls, troubled>>
      /\ ~Publishing(r) /\ ~Publishing(r)'
  BY <1>1, <1>2, BeginAlone
<1>4. RequestInv(r)' /\ issued' = issued
  BY <1>1, <1>2, BeginKeeps DEF Begin, storeVars
<1> QED
  BY <1>2, <1>3, <1>4, QuietStep

LEMMA NoDocumentStoreStep ==
    ASSUME IInv, NEW r \in Requests, NoDocumentStore(r)
    PROVE  IInv'
<1>1. TypeInv /\ RequestInv(r) /\ TypeInv'
  BY Parts, NoDocumentStoreTyped
<1>2. /\ Alone(r) /\ Same(r) /\ UNCHANGED <<store, index, calls, troubled>>
      /\ ~Publishing(r) /\ ~Publishing(r)'
  BY <1>1, NoDocumentStoreAlone
<1>3. RequestInv(r)' /\ issued' = issued
  BY <1>1, NoDocumentStoreKeeps DEF NoDocumentStore, storeVars
<1> QED
  BY <1>1, <1>2, <1>3, QuietStep DEF Same

LEMMA ReadStep ==
    ASSUME IInv, NEW r \in Requests, getDocumentById(r) \/ queryDocuments(r) \/ NoQueryHandler(r)
    PROVE  IInv'
<1>1. TypeInv /\ RequestInv(r) /\ TypeInv' /\ FollowInv /\ \A o \in Requests : NoticeInv(o)
  BY Parts, ReadTyped DEF RequestInv
<1>2. /\ Alone(r) /\ Same(r) /\ UNCHANGED <<store, index, calls, troubled>>
      /\ ~Publishing(r) /\ ~Publishing(r)'
  BY <1>1, ReadAlone
<1>3. RequestInv(r)'
  BY <1>1, ReadKeeps
<1>4. issued' = issued
  BY DEF getDocumentById, queryDocuments, NoQueryHandler, storeVars
<1> QED
  BY <1>1, <1>2, <1>3, <1>4, QuietStep DEF Same

LEMMA RespondStep ==
    ASSUME IInv, NEW r \in Requests, Respond(r)
    PROVE  IInv'
<1>1. TypeInv /\ RequestInv(r) /\ TypeInv'
  BY Parts, RespondTyped
<1>2. /\ Alone(r) /\ Same(r) /\ UNCHANGED <<store, index, calls, troubled>>
      /\ ~Publishing(r) /\ ~Publishing(r)'
  BY <1>1, RespondAlone
<1>3. RequestInv(r)' /\ issued' = issued
  BY <1>1, RespondKeeps DEF Respond, storeVars
<1> QED
  BY <1>1, <1>2, <1>3, QuietStep DEF Same

LEMMA PublishStep ==
    ASSUME IInv, NEW r \in Requests, Publish(r) \/ ListenerThrows(r) \/ IndexTimesOut(r)
    PROVE  IInv'
<1>1. TypeInv /\ RequestInv(r) /\ NoticeInv(r) /\ FollowInv /\ CallsInv
  BY Parts DEF RequestInv
<1>2. TypeInv' /\ FollowInv' /\ CallsInv' /\ RequestInv(r)'
  BY <1>1, PublishTyped, PublishFollows, PublishKeeps
<1>3. Alone(r) /\ UNCHANGED store /\ troubled \subseteq troubled'
  BY <1>1, PublishAlone
<1>4. issued' = issued
  BY DEF Publish, ListenerThrows, IndexTimesOut, storeVars
<1> QED
  BY <1>2, <1>3, <1>4, LoudStep

LEMMA CallStep ==
    ASSUME IInv, CallEnds
    PROVE  IInv'
<1>1. PICK c \in calls : IndexApplies(c) \/ IndexFails(c)
  BY DEF CallEnds
<1>2. TypeInv /\ FollowInv /\ CallsInv
  BY Parts
<1>3. TypeInv' /\ FollowInv' /\ CallsInv'
  BY <1>1, <1>2, CallEndsTyped, CallFollows
<1>4. c.by \in Requests /\ Alone(c.by) /\ UNCHANGED store /\ (Awaited(c) \/ Waits(c.by))
  BY <1>1, <1>2, CallAlone
<1>5. issued' = issued /\ troubled \subseteq troubled'
  BY <1>1 DEF IndexApplies, IndexFails, storeVars
<1>6. RequestInv(c.by)'
  <2>1. CASE Awaited(c)
    BY <1>1, <1>2, <1>4, <2>1, CallKeeps, Parts
  <2>2. CASE Waits(c.by)
    BY <1>2, <1>4, <1>5, <2>2, QuietKeeps, Parts DEF Alone
  <2> QED
    BY <1>4, <2>1, <2>2
<1> QED
  BY <1>3, <1>4, <1>5, <1>6, LoudStep

LEMMA StoreStep ==
    ASSUME IInv, NEW r \in Requests, StoreCall(r)
    PROVE  IInv'
<1>1. /\ TypeInv /\ StoreInv /\ FollowInv /\ CallsInv /\ RequestInv(r) /\ PathInv(r) /\ FoundInv(r)
      /\ StoreFrame /\ pc[r] = "store"
  BY Parts, StoreCallIs DEF RequestInv
<1>2. CASE IsCalm(r)
  <2>1. Alone(r) /\ UNCHANGED <<store, issued, index, calls, troubled, reported>>
    BY <1>1, <1>2, CalmAlone
  <2>2. TypeInv' /\ RequestInv(r)' /\ \A e : ~Tells(r, e)'
    BY <1>1, <1>2, CalmTyped, CalmKeeps
  <2>3. FollowInv'
    BY <1>1, <2>1, <2>2, LeavesFollows DEF Alone, Tells, Publishing
  <2>4. CallsInv'
    BY <1>1, <2>1, CallsStay
  <2> QED
    BY <2>1, <2>2, <2>3, <2>4, LoudStep
<1>3. ASSUME NEW n, Skips(r, n) PROVE IInv'
  <2>1. /\ Alone(r) /\ UNCHANGED <<store, issued, index, calls>> /\ notice'[r] = n
        /\ troubled' = troubled \cup {n.entry} /\ \A o \in Requests : reported[o] \subseteq reported'[o]
    BY <1>1, <1>3, SkipsAlone
  <2>2. TypeInv' /\ RequestInv(r)'
    BY <1>1, <1>3, SkipsTyped, SkipsKeeps
  <2>3. FollowInv'
    BY <1>1, <2>1, LeavesFollows DEF Alone, Tells, Publishing
  <2>4. CallsInv'
    BY <1>1, <2>1, CallsStay
  <2> QED
    BY <2>1, <2>2, <2>3, <2>4, LoudStep
<1>4. ASSUME NEW s, NEW n, NEW isTold, Writes(r, s, n, isTold) PROVE IInv'
  <2>1. TypeInv' /\ StoreInv' /\ FollowInv'
    BY <1>1, <1>4, WritesTyped, WritesStore, WritesFollows
  <2>2. CallsInv'
    <3>1. UNCHANGED calls /\ \A o \in Requests : reported[o] \subseteq reported'[o]
      BY <1>1, <1>4, WritesAlone
    <3> QED
      BY <1>1, <3>1, CallsStay
  <2>3. RequestInv(r)'
    BY <1>1, <1>4, WritesKeeps
  <2>4. \A o \in Requests \ {r} : RequestInv(o)'
    BY <1>1, <1>4, WritesOthers, Parts
  <2>5. \A o \in Requests : RequestInv(o)'
    BY <2>3, <2>4
  <2> QED
    BY <2>1, <2>2, <2>5 DEF IInv, TypeInv, RequestInv
<1> QED
  BY <1>1, <1>2, <1>3, <1>4, StoreForms DEF Forms

LEMMA CrashStep ==
    ASSUME IInv, Crash
    PROVE  IInv'
<1>1. TypeInv /\ FollowInv /\ CallsInv /\ \A r \in Requests : NoticeInv(r) /\ RequestInv(r)
  BY Parts DEF RequestInv
<1>2. TypeInv' /\ FollowInv' /\ CallsInv' /\ \A r \in Requests : RequestInv(r)'
  BY <1>1, CrashTyped, CrashFollows, CrashKeeps
<1>3. StoreInv'
  BY Parts, CrashForms DEF StoreInv, IsByOwner
<1> QED
  BY <1>2, <1>3 DEF IInv, TypeInv, RequestInv

(* Loading plugins, and steps that change nothing.                          *)
LEMMA IdleStep ==
    ASSUME IInv, Load \/ UNCHANGED vars
    PROVE  IInv'
<1>1. UNCHANGED <<requestVars, handlerVars, historyVars, storeVars, indexVars, pc>>
  BY DEF Load, loadAllPlugins, vars
<1>2. TypeInv'
  <2>1. CASE Load
    BY <2>1, LoadTyped, Parts
  <2>2. CASE UNCHANGED vars
    BY <2>2, Parts DEF TypeInv, TypeOK, HistoryTyped, vars, workerVars, requestVars, handlerVars,
                       historyVars, storeVars, indexVars
  <2> QED
    BY <2>1, <2>2
<1>3. (\A o \in Requests : Waits(o)) /\ Grows
  BY <1>1, AllWait
<1>4. UNCHANGED <<store, issued, backend, index, calls, troubled, reported>>
  BY <1>1 DEF storeVars, indexVars, historyVars
<1>5. \A o \in Requests : RequestInv(o)'
  BY <1>3, <1>4, QuietKeeps, Parts
<1>6. FollowInv'
  <2>1. \A c \in calls : c.by \in Requests
    BY Parts DEF TypeInv, TypeOK, Call
  <2> QED
    BY <1>3, <1>4, <2>1, QuietFollows, Parts
<1>7. CallsInv' /\ StoreInv'
  BY <1>4, Parts DEF CallsInv, StoreInv, IsByOwner
<1> QED
  BY <1>2, <1>5, <1>6, <1>7 DEF IInv, TypeInv, RequestInv

(* The steps there are.                                                     *)
LEMMA NextForms ==
    ASSUME [Next]_vars
    PROVE  \/ \E r \in Requests : \E q \in Inputs[r] : \E u \in (1 .. issued) \cup {NoUuid} : Arrive(r, q, u)
           \/ \E r \in Requests :
                 \/ \E t \in 0 .. clock + 1, isRead \in BOOLEAN : Begin(r, t, isRead)
                 \/ Authorizes(r) \/ \E fails \in BOOLEAN : securityMiddleware(r, fails)
                 \/ NoDocumentStore(r) \/ StoreCall(r)
                 \/ getDocumentById(r) \/ NoQueryHandler(r) \/ queryDocuments(r)
                 \/ Publish(r) \/ ListenerThrows(r) \/ IndexTimesOut(r) \/ Respond(r)
           \/ CallEnds \/ Crash \/ Load \/ UNCHANGED vars
<1>1. CASE Worker
  BY <1>1 DEF Worker, Handle, Authorizes
<1> QED
  BY <1>1 DEF Next, Quiescent

(* No handler, listener, call of the index or restart breaks it.            *)
THEOREM Inductive == IInv /\ [Next]_vars => IInv'
<1>1. SUFFICES ASSUME IInv, [Next]_vars PROVE IInv'
  OBVIOUS
<1>2. ASSUME NEW r \in Requests, NEW q \in Inputs[r], NEW u \in (1 .. issued) \cup {NoUuid}, Arrive(r, q, u)
      PROVE  IInv'
  BY <1>1, <1>2, ArriveStep
<1>3. ASSUME NEW r \in Requests,
             \/ \E t \in 0 .. clock + 1, isRead \in BOOLEAN : Begin(r, t, isRead)
             \/ Authorizes(r) \/ \E fails \in BOOLEAN : securityMiddleware(r, fails)
             \/ NoDocumentStore(r) \/ StoreCall(r)
             \/ getDocumentById(r) \/ NoQueryHandler(r) \/ queryDocuments(r)
             \/ Publish(r) \/ ListenerThrows(r) \/ IndexTimesOut(r) \/ Respond(r)
      PROVE  IInv'
  BY <1>1, <1>3, BeginStep, AuthorizesStep, SecurityStep, NoDocumentStoreStep, StoreStep, ReadStep,
     PublishStep, RespondStep
<1>4. CASE CallEnds \/ Crash \/ Load \/ UNCHANGED vars
  BY <1>1, <1>4, CallStep, CrashStep, IdleStep
<1> QED
  BY <1>1, <1>2, <1>3, <1>4, NextForms

-----------------------------------------------------------------------------
(* What follows for every behaviour.                                        *)

(* It holds in every state of every behaviour.                              *)
THEOREM Invariance == Spec => []IInv
<1>1. IInv /\ UNCHANGED vars => IInv'
  BY Inductive
<1> QED
  BY Initial, Inductive, <1>1, PTL DEF Spec

(* Every variable keeps its type: no request is ever in a place, and no     *)
(* response of a value, that the handlers and the listeners do not know.    *)
THEOREM TypeCorrect == Spec => []TypeOK
BY Invariance, PTL DEF IInv

(* A success is answered only for a change that was committed, or for one   *)
(* that a POST to PostgreSQL missed because another request had deleted its *)
(* document; a 4xx never for one the store has reported, and only in MongoDB*)
(* for one that was committed before the transaction was run again.         *)
THEOREM AnswersTellWhatWasWritten == Spec => []AnswerTellsWhatWasWritten
<1>1. ASSUME IInv PROVE AnswerTellsWhatWasWritten
  <2>1. SUFFICES ASSUME NEW r \in Requests, IsAnswered(r), input[r].op \in Write
                 PROVE  /\ status[r] \in {200, 201, 204} =>
                               /\ reported[r] # {}
                               /\ \A c \in reported[r] \ wrote[r] :
                                     /\ backend = "PostgreSQL" /\ status[r] = 200
                                     /\ \E o \in Requests \ {r} : \E d \in wrote[o] :
                                           d.value = Nothing /\ d.entry[2] = c.entry[2]
                        /\ status[r] \in 400 .. 499 =>
                               /\ reported[r] = {}
                               /\ wrote[r] # {} => backend = "MongoDB" /\ status[r] \in {404, 409}
    BY DEF AnswerTellsWhatWasWritten
  <2>2. WroteInv(r) /\ MissedInv(r) /\ pc[r] = "done"
    BY <1>1, <2>1 DEF IInv, WroteInv, IsAnswered
  <2>3. ASSUME status[r] \in {200, 201, 204}, NEW c \in reported[r] \ wrote[r]
        PROVE  /\ backend = "PostgreSQL" /\ status[r] = 200
               /\ \E o \in Requests \ {r} : \E d \in wrote[o] :
                     d.value = Nothing /\ d.entry[2] = c.entry[2]
    BY <2>2, <2>3 DEF MissedInv, HasDeleted
  <2> QED
    BY <2>1, <2>2, <2>3 DEF WroteInv
<1> QED
  BY <1>1, Invariance, PTL

(* The listeners' updates leave every entry that is not troubled as the     *)
(* store has it, apart from owners in MongoDB, once nobody is about to tell *)
(* the index of it.                                                         *)
THEOREM IndexFollows == Spec => []IndexFollowsStore
<1>1. ASSUME IInv PROVE IndexFollowsStore
  <2>1. SUFFICES ASSUME NEW e \in Entry, e \notin troubled,
                        ~(\E r \in Requests : InFlight(r) /\ notice[r].entry = e)
                 PROVE  /\ index[e] = Projection(store, e)
                        /\ \A i \in Id :
                              store[i] # NoDoc /\ <<ResourceOf[i], store[i].uuid>> = e
                              /\ backend = "PostgreSQL"
                              => index[e] # Nothing /\ index[e].createdBy = store[i].createdBy
    BY DEF IndexFollowsStore
  <2>2. \A r \in Requests : ~Tells(r, e)
    BY <2>1 DEF Tells, Publishing, InFlight
  <2>3. index[e] = Projection(store, e)
    BY <1>1, <2>1, <2>2 DEF IInv, FollowInv
  <2>4. ASSUME NEW i \in Id, store[i] # NoDoc, <<ResourceOf[i], store[i].uuid>> = e,
               backend = "PostgreSQL"
        PROVE  index[e] # Nothing /\ index[e].createdBy = store[i].createdBy
    <3>1. Projection(store, <<ResourceOf[i], store[i].uuid>>) =
              [id |-> i, createdBy |-> store[i].writer, by |-> store[i].by]
      BY <1>1, <2>4, ProjectionIs DEF IInv, StoreInv
    <3>2. store[i].createdBy = store[i].writer /\ store[i] \in Doc
      BY <1>1, <2>4 DEF IInv, StoreInv, IsByOwner, TypeOK
    <3>3. [id |-> i, createdBy |-> store[i].writer, by |-> store[i].by] \in Value
      BY <3>2 DEF Doc, Value
    <3> QED
      BY <2>3, <2>4, <3>1, <3>2, <3>3, NamesAssumption
  <2> QED
    BY <2>3, <2>4
<1> QED
  BY <1>1, Invariance, PTL

(* A query that is answered with 200 holds the documents it may show whose  *)
(* last version was answered before it arrived: a client that is shown only *)
(* its own, those it wrote last itself.                                     *)
THEOREM QueriesFindWhatWasAnswered == Spec => []QueryFindsWhatWasAnswered
<1>1. ASSUME IInv PROVE QueryFindsWhatWasAnswered
  <2>1. SUFFICES ASSUME NEW r \in Requests, IsAnswered(r), input[r].op = "query", status[r] = 200
                 PROVE  ShowsOldDocuments(r)
    BY DEF QueryFindsWhatWasAnswered, ShowsOldDocuments, MayFind
  <2> QED
    BY <1>1, <2>1 DEF IInv, QueryInv, IsAnswered
<1> QED
  BY <1>1, Invariance, PTL

(* A request that succeeds under OWNERSHIP_BASED was, at a moment since it  *)
(* began, about a document of its client's or about none.                   *)
THEOREM OwnersActed == Spec => []OwnersAct
<1>1. IInv => OwnersAct
  BY DEF IInv, SawInv, IsOwned, OwnersAct, IsAnswered
<1> QED
  BY <1>1, Invariance, PTL

(* After the 202 of loadDescriptors every descriptor of the files is in the *)
(* store, failed by itself, or was taken away by a request by documentUuid. *)
THEOREM DescriptorsLoaded == Spec => []LoadedDescriptorsAreThere
<1>1. IInv => LoadedDescriptorsAreThere
  BY DEF IInv, LoadInv, IsKept, IsTaken, LoadedDescriptorsAreThere, IsAnswered
<1> QED
  BY <1>1, Invariance, PTL

-----------------------------------------------------------------------------
(* The search index implements DocumentIndex.                               *)
LEMMA IndexStarts == Init => Index!Init
<1>1. SUFFICES ASSUME Init, NEW e \in Entry, index[e] # Nothing
               PROVE  [entry |-> e, value |-> index[e]] \in Reported
  BY DEF Index!Init
<1>2. [entry |-> e, value |-> index[e]] \in reported[Seed] /\ Seed \in DOMAIN reported
  BY <1>1 DEF Init
<1> QED
  BY <1>2 DEF Reported

(* A step that reports nothing and leaves the index alone stutters.         *)
LEMMA IndexStutters ==
    ASSUME UNCHANGED <<reported, index>>
    PROVE  UNCHANGED <<Reported, index>>
BY DEF Reported

LEMMA IndexReports ==
    ASSUME TypeInv, NEW r \in Requests, NEW n, UNCHANGED index,
           reported' = [reported EXCEPT ![r] = @ \cup {n}]
    PROVE  Index!Report
<1>1. DOMAIN reported = Requests \cup {Seed}
  BY DEF TypeInv, HistoryTyped
<1>2. /\ DOMAIN reported' = DOMAIN reported /\ r \in DOMAIN reported /\ reported'[r] = reported[r] \cup {n}
      /\ \A o \in DOMAIN reported \ {r} : reported'[o] = reported[o]
  BY <1>1
<1>3. Reported' = Reported \cup {n}
  <2>1. \A x : x \in Reported' <=> \E o \in DOMAIN reported : x \in reported'[o]
    BY <1>2 DEF Reported
  <2>2. \A x : x \in Reported <=> \E o \in DOMAIN reported : x \in reported[o]
    BY DEF Reported
  <2>3. \A x : x \in Reported' <=> x \in Reported \/ x = n
    BY <1>2, <2>1, <2>2
  <2> QED
    BY <2>3
<1> QED
  BY <1>3 DEF Index!Report

(* A call of the store reports one change or none.                          *)
LEMMA IndexStores ==
    ASSUME TypeInv, NEW r \in Requests, Forms(r), StoreFrame
    PROVE  [Index!Next]_<<Reported, index>>
<1>1. UNCHANGED index
  BY DEF StoreFrame
<1>2. UNCHANGED reported \/ \E n : reported' = [reported EXCEPT ![r] = @ \cup {n}]
  <2>1. CASE IsCalm(r)
    BY <2>1 DEF IsCalm
  <2>2. ASSUME NEW n, Skips(r, n) PROVE reported' = [reported EXCEPT ![r] = @ \cup {n}]
    BY <2>2 DEF Skips, Misses
  <2>3. ASSUME NEW s, NEW n, NEW isTold, Writes(r, s, n, isTold)
        PROVE  UNCHANGED reported \/ reported' = [reported EXCEPT ![r] = @ \cup {n}]
    BY <2>3 DEF Writes, Commits
  <2> QED
    BY <2>1, <2>2, <2>3 DEF Forms
<1> QED
  BY <1>1, <1>2, IndexStutters, IndexReports DEF Index!Next

LEMMA IndexReflects ==
    ASSUME TypeInv, CallsInv, NEW c \in calls, IndexApplies(c)
    PROVE  Index!Reflect
<1>1. c.by \in DOMAIN reported
  BY DEF TypeInv, TypeOK, HistoryTyped, Call
<1>2. [entry |-> c.entry, value |-> c.value] \in Reported
  BY <1>1 DEF CallsInv, Reported
<1>3. index' = [index EXCEPT ![c.entry] = c.value] /\ UNCHANGED reported
  BY DEF IndexApplies, historyVars
<1>4. UNCHANGED Reported
  BY <1>3 DEF Reported
<1> QED
  BY <1>2, <1>3, <1>4 DEF Index!Reflect

LEMMA IndexSteps == IInv /\ [Next]_vars => [Index!Next]_<<Reported, index>>
<1>1. SUFFICES ASSUME IInv, [Next]_vars PROVE [Index!Next]_<<Reported, index>>
  OBVIOUS
<1>2. TypeInv /\ StoreInv /\ CallsInv /\ \A r \in Requests : PathInv(r) /\ FoundInv(r)
  BY <1>1, Parts DEF RequestInv
<1>3. ASSUME NEW r \in Requests, StoreCall(r) PROVE [Index!Next]_<<Reported, index>>
  BY <1>2, <1>3, StoreCallIs, StoreForms, IndexStores
<1>4. ASSUME NEW c \in calls, IndexApplies(c) PROVE [Index!Next]_<<Reported, index>>
  BY <1>2, <1>4, IndexReflects DEF Index!Next
<1>5. ASSUME NEW c \in calls, IndexFails(c) PROVE UNCHANGED <<reported, index>>
  BY <1>5 DEF IndexFails, historyVars
<1>6. ASSUME NEW r \in Requests, NEW q, NEW u, Arrive(r, q, u) PROVE UNCHANGED <<reported, index>>
  BY <1>6 DEF Arrive, indexVars
<1>7. ASSUME NEW r \in Requests,
             \/ \E t \in 0 .. clock + 1, isRead \in BOOLEAN : Begin(r, t, isRead)
             \/ NoDocumentStore(r)
             \/ getDocumentById(r) \/ NoQueryHandler(r) \/ queryDocuments(r)
             \/ Publish(r) \/ ListenerThrows(r) \/ IndexTimesOut(r) \/ Respond(r)
      PROVE  UNCHANGED <<reported, index>>
  BY <1>7 DEF Begin, NoDocumentStore, getDocumentById, NoQueryHandler, queryDocuments, Publish,
              ListenerThrows, IndexTimesOut, Respond, historyVars, indexVars
<1>8. ASSUME NEW r \in Requests, Authorizes(r) \/ \E fails \in BOOLEAN : securityMiddleware(r, fails)
      PROVE  UNCHANGED <<reported, index>>
  <2>1. Stays
    BY <1>8, AuthorizesForms DEF securityMiddleware, Stays
  <2> QED
    BY <2>1 DEF Stays, historyVars, indexVars
<1>9. Crash \/ Load \/ UNCHANGED vars => UNCHANGED <<reported, index>>
  BY DEF Crash, Load, loadAllPlugins, historyVars, indexVars, vars
<1>10. CallEnds => [Index!Next]_<<Reported, index>>
  BY <1>4, <1>5, IndexStutters DEF CallEnds
<1> QED
  BY <1>1, <1>3, <1>6, <1>7, <1>8, <1>9, <1>10, NextForms, IndexStutters

(* Queries are shown what the store said it changed and nothing else, under *)
(* the client of the request, whatever order calls reach the index in and   *)
(* whichever of them fail.                                                  *)
THEOREM ImplementsIndex == Spec => ImplementsDocumentIndex
<1>1. Spec => Index!Init /\ [][Index!Next]_<<Reported, index>>
  BY IndexStarts, IndexSteps, Invariance, PTL DEF Spec
<1> QED
  BY <1>1 DEF ImplementsDocumentIndex, Index!Spec
==============================================================================
