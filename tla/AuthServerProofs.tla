---------------------------- MODULE AuthServerProofs ----------------------------
(* What AuthServer keeps whatever the interleaving of requests with the     *)
(* loading of the plugin, the store's answers, its failures and the clock.  *)
EXTENDS AuthServer, TLAPS

Last(s) == s[Len(s)]

(* The history of a client ends with what is stored, and a bootstrap        *)
(* administrator stays one.                                                 *)
HistoryInv ==
    /\ past \in [Clients -> Seq(ClientDocument)]
    /\ \A c \in Clients :
        /\ clients[c] = IF past[c] = <<>> THEN NoClient ELSE Last(past[c])
        /\ \A i \in 1 .. Len(past[c]) :
               past[c][i].isBootstrapAdmin => Last(past[c]).isBootstrapAdmin

(* A request has arrived by now, with what was there then.                  *)
ArrivalInv(r) ==
    /\ since[r].time <= now
    /\ \A c \in Clients : since[r].at[c] <= Len(past[c])

(* Who has not asked the store yet has no document of it.                   *)
UnaskedInv(r) == pc[r] \in {"idle", "plugins", "begin"} => found[r].document = NoClient

Writing(r) == pc[r] \in {"statement", "insert", "commit"}
Creating(r) == Writing(r) /\ input[r].op = "createClient"

AsAdministrator(r) ==
    IsBootstrap(r) \/ ("admin" \in JwtRoles(bearer[r]) /\ ~Expired(bearer[r], since[r].time))

(* No two requests create one client.                                       *)
CreatorsApart ==
    \A r, o \in Requests : Creating(r) /\ Creating(o) /\ r # o => target[r] # target[o]

(* Who writes may, and writes to a client that is there or that it creates. *)
WriteInv(r) ==
    /\ pc[r] = "read" => input[r].op \in ReadOp
    /\ Writing(r) => input[r].op \in WriteOp /\ AsAdministrator(r)
    /\ Creating(r) => target[r] \in Clients /\ past[target[r]] = <<>>
    /\ pc[r] = "insert" => IsBootstrap(r)
    /\ pc[r] = "commit" /\ input[r].op # "createClient" =>
           target[r] \in Clients /\ clients[target[r]] # NoClient

(* What a request for a token has read, and is told.                        *)
TokenInv(r) ==
    /\ pc[r] \in {"read", "answer"} /\ input[r].op = "requestToken" => target[r] = input[r].clientId
    /\ pc[r] = "answer" /\ input[r].op = "requestToken" /\ target[r] \in Clients =>
           \/ found[r].response = "UNKNOWN_FAILURE"
           \/ found[r].document \in States(r, target[r])
    /\ pc[r] = "done" /\ input[r].op = "requestToken" /\ target[r] \in Clients =>
            /\ status[r] = 200 =>
                   \E client \in States(r, target[r]) :
                       Lets(client, input[r].secret) /\ client.roles = subject[r].roles
            /\ status[r] \in {401, 403} =>
                   \E client \in States(r, target[r]) : ~Lets(client, input[r].secret)

IsActive(client) == client # NoClient /\ client.active = "true"

(* What an introspection has read, and says.                                *)
IntrospectionInv(r) ==
    LET c == subject[r].client_id IN
    /\ pc[r] \in {"read", "answer"} /\ input[r].op = "verifyToken" =>
           subject[r].kind = "signed" /\ ~Expired(subject[r], since[r].time)
    /\ pc[r] = "answer" /\ input[r].op = "verifyToken" /\ c \in Clients =>
           \/ found[r].response = "UNKNOWN_FAILURE" /\ found[r].document = NoClient
           \/ found[r].document \in States(r, c)
    /\ pc[r] = "done" /\ input[r].op = "verifyToken" /\ status[r] = 200 /\ c \in Clients =>
            IF SaysActive(r)
            THEN /\ ~Expired(subject[r], since[r].time)
                 /\ \E client \in States(r, c) : IsActive(client)
            ELSE \/ Expired(subject[r], now)
                 \/ found[r].response = "UNKNOWN_FAILURE"
                 \/ \E client \in States(r, c) : ~IsActive(client)

HadAdministrator(r) ==
    \E c \in Clients : since[r].at[c] > 0 /\ past[c][since[r].at[c]].isBootstrapAdmin

(* A bootstrap that comes too late.                                         *)
LateBootstrapInv(r) ==
    pc[r] # "idle" /\ IsBootstrap(r) /\ HadAdministrator(r) =>
        /\ pc[r] \notin {"insert", "commit"}
        /\ pc[r] = "answer" => found[r].response \in {"ALREADY_EXISTS", "UNKNOWN_FAILURE"}
        /\ pc[r] = "done" => status[r] # 201

RequestInv(r) ==
    /\ ArrivalInv(r) /\ UnaskedInv(r) /\ WriteInv(r)
    /\ TokenInv(r) /\ IntrospectionInv(r) /\ LateBootstrapInv(r)

Arrival == [time : Nat, at : [Clients -> Nat]]

IInv ==
    /\ TypeOK
    /\ since \in [Requests -> Arrival]
    /\ HistoryInv
    /\ CreatorsApart
    /\ \A r \in Requests : RequestInv(r)

-----------------------------------------------------------------------------
(* What the operators of the handlers answer.                               *)
LEMMA NoBearerTyped == NoBearer \in Jwt
BY DEF NoBearer, Bearer, Jwt, BearerKind, AnyClientId, Issuer

LEMMA TokenTyped ==
    ASSUME NEW c \in AnyClientId, NEW roles \in SUBSET AuthorizationClientRole,
           NEW time \in 0 .. MaxTime
    PROVE  createToken(c, roles, time) \in Jwt
BY TokenLifeAssumption, MaxTimeAssumption DEF createToken, Jwt, BearerKind, Issuer

LEMMA RespondedTyped ==
    \A response \in StoreResponse :
        Responded(response) \in [response : StoreResponse, document : ClientDocument \cup {NoClient}]
BY DEF Responded

LEMMA WrittenTyped ==
    ASSUME TypeOK, NEW r \in Requests, input[r].op \in WriteOp, NEW old,
           input[r].op # "createClient" => old \in ClientDocument
    PROVE  /\ Written(r, old) \in ClientDocument
           /\ input[r].op # "createClient" => Written(r, old).isBootstrapAdmin = old.isBootstrapAdmin
<1>1. input[r] \in Input /\ input[r].roles \in SUBSET AuthorizationClientRole
      /\ input[r].active \in {"true", "false", "omitted"}
  BY DEF TypeOK, Input
<1>2. hashClientSecretBuffer(r) \in [hash : Secret] /\ IsBootstrap(r) \in BOOLEAN
  BY DEF hashClientSecretBuffer, Secret, IsBootstrap
<1>3. CASE input[r].op = "createClient"
  BY <1>1, <1>2, <1>3 DEF Written, authorizationDocumentFromCreate, ClientDocument, Active
<1>4. CASE input[r].op = "updateClient"
  <2>1. UpdatedActive(input[r].active) \in Active
    BY <1>1 DEF UpdatedActive, Active
  <2> QED
    BY <1>1, <1>4, <2>1 DEF Written, ClientDocument
<1>5. CASE input[r].op = "resetSecret"
  BY <1>2, <1>5 DEF Written, ClientDocument
<1> QED
  BY <1>3, <1>4, <1>5 DEF WriteOp

(* What a request that the store is not asked for is told, and what is sure *)
(* of one that goes on to the store.                                        *)
LEMMA EarlyFacts ==
    ASSUME TypeOK, NEW r \in Requests
    PROVE  /\ EarlyStatus(r) \in {0, 200, 400, 401, 403}
           /\ input[r].op = "requestToken" /\ EarlyStatus(r) \in {200, 401, 403} =>
                  input[r].clientId \in HardcodedKey
           /\ EarlyStatus(r) = 0 /\ input[r].op \in WriteOp =>
                  \/ IsBootstrap(r)
                  \/ "admin" \in JwtRoles(bearer[r]) /\ ~Expired(bearer[r], now)
           /\ EarlyStatus(r) = 0 /\ input[r].op = "verifyToken" =>
                  subject[r].kind = "signed" /\ ~Expired(subject[r], now)
           /\ EarlyStatus(r) = 200 /\ input[r].op = "verifyToken" =>
                  \/ Expired(subject[r], now)
                  \/ subject[r].client_id \in HardcodedKey
<1> DEFINE refused == validateAdminTokenForAccess(bearer[r], now)
           introspected == introspectBearerToken(subject[r], now)
<1>1. /\ refused \in {0, 401, 403}
      /\ refused = 0 => "admin" \in JwtRoles(bearer[r]) /\ ~Expired(bearer[r], now)
  BY DEF validateAdminTokenForAccess, validateTokenForAccess, hasAdminRole
<1>2. /\ introspected \in {"invalid", "inactive", "active", "askStore"}
      /\ introspected = "inactive" => Expired(subject[r], now)
      /\ introspected = "active" => subject[r].client_id \in HardcodedKey
      /\ introspected = "askStore" => subject[r].kind = "signed" /\ ~Expired(subject[r], now)
  BY DEF introspectBearerToken
<1>3. /\ HardcodedStatus(input[r]) \in {0, 200, 401}
      /\ HardcodedStatus(input[r]) # 0 => input[r].clientId \in HardcodedKey
  BY DEF HardcodedStatus
<1>4. /\ IntrospectedStatus(r) \in {0, 200, 400, 401}
      /\ IntrospectedStatus(r) = 0 => introspected = "askStore"
      /\ IntrospectedStatus(r) = 200 => introspected \in {"inactive", "active"}
  <2> HIDE DEF introspected
  <2>1. IntrospectedStatus(r) =
          IF introspected = "invalid" THEN 400
          ELSE IF introspected = "askStore" THEN 0
          ELSE IF MayIntrospect(bearer[r], subject[r]) THEN 200 ELSE 401
    BY DEF IntrospectedStatus, introspected
  <2> QED
    BY <1>2, <2>1
<1> HIDE DEF refused, introspected
<1>5. EarlyStatus(r) =
        IF NeedsAdmin(r) /\ refused # 0 THEN refused
        ELSE IF input[r].op = "verifyToken" /\ ~validateTokenForAccess(bearer[r], now) THEN 401
        ELSE IF MissingClientId(input[r]) \/ ~parsedBody(input[r]) THEN 400
        ELSE IF input[r].op = "requestToken" THEN HardcodedStatus(input[r])
        ELSE IF input[r].op = "verifyToken" THEN IntrospectedStatus(r)
        ELSE IF IsBootstrap(r) /\ ~AsksForAdminOnly(input[r]) THEN 401 ELSE 0
  BY DEF EarlyStatus, refused
<1>6. NeedsAdmin(r) <=> (input[r].op \notin {"requestToken", "verifyToken"} /\ ~IsBootstrap(r))
  BY DEF NeedsAdmin
<1> QED
  BY <1>1, <1>2, <1>3, <1>4, <1>5, <1>6 DEF WriteOp

(* What a request is told from what the store answered.                     *)
LEMMA AnswerFacts ==
    ASSUME TypeOK, NEW r \in Requests
    PROVE  /\ ResponseStatus(r) \in {200, 201, 204, 400, 401, 403, 404, 500}
           /\ input[r].op = "requestToken" /\ ResponseStatus(r) = 200 =>
                  /\ found[r].response # "UNKNOWN_FAILURE"
                  /\ Lets(found[r].document, input[r].secret)
           /\ input[r].op = "requestToken" /\ ResponseStatus(r) \in {401, 403} =>
                  /\ found[r].response # "UNKNOWN_FAILURE"
                  /\ ~Lets(found[r].document, input[r].secret)
           /\ input[r].op = "createClient"
              /\ found[r].response \in {"ALREADY_EXISTS", "UNKNOWN_FAILURE"} => ResponseStatus(r) # 201
<1>1. SuccessStatus(input[r]) \in {200, 201, 204} /\ VerifyStatus(r) \in {200, 401}
  BY DEF SuccessStatus, VerifyStatus, ReadOp
<1>2. /\ TokenRequestStatus(input[r], found[r].document) \in {200, 401, 403}
      /\ TokenRequestStatus(input[r], found[r].document) = 200 <=>
             Lets(found[r].document, input[r].secret)
  BY DEF TokenRequestStatus, Lets
<1> QED
  BY <1>1, <1>2 DEF ResponseStatus

-----------------------------------------------------------------------------
(* What a commit does to the store and to its history.                      *)
(* The history only grows.                                                  *)
HistoryGrows ==
    /\ past' \in [Clients -> Seq(ClientDocument)]
    /\ \A c \in Clients :
        /\ Len(past[c]) <= Len(past'[c])
        /\ \A i \in 1 .. Len(past[c]) : past'[c][i] = past[c][i]
        /\ clients[c] # NoClient => clients'[c] # NoClient

LEMMA StoredTyped ==
    ASSUME HistoryInv, NEW c \in Clients
    PROVE  /\ clients[c] # NoClient => clients[c] \in ClientDocument /\ past[c] # <<>>
           /\ past[c] # <<>> => clients[c] = Last(past[c]) /\ Len(past[c]) >= 1
           /\ past[c] = <<>> => clients[c] = NoClient /\ Len(past[c]) = 0
           /\ Len(past[c]) \in Nat
<1>1. /\ past[c] \in Seq(ClientDocument)
      /\ clients[c] = IF past[c] = <<>> THEN NoClient ELSE Last(past[c])
  BY DEF HistoryInv
<1>2. past[c] # <<>> => Len(past[c]) >= 1 /\ Last(past[c]) \in ClientDocument
  BY <1>1 DEF Last
<1> QED
  BY <1>1, <1>2, ClientsAssumption

LEMMA CommitStored ==
    ASSUME TypeOK, HistoryInv, NEW r \in Requests, Committed(r), target[r] \in Clients,
           input[r].op \in WriteOp,
           input[r].op # "createClient" => clients[target[r]] # NoClient,
           input[r].op = "createClient" => past[target[r]] = <<>>
    PROVE  /\ HistoryInv' /\ HistoryGrows
           /\ clients' \in [Clients -> ClientDocument \cup {NoClient}]
           /\ \A d \in Clients : d # target[r] => past'[d] = past[d]
<1> DEFINE t == target[r]
           doc == Written(r, clients[t])
<1>1. t \in Clients /\ past[t] \in Seq(ClientDocument)
  BY DEF HistoryInv
<1>2. doc \in ClientDocument /\ (input[r].op # "createClient" => doc.isBootstrapAdmin = clients[t].isBootstrapAdmin)
  BY <1>1, StoredTyped, WrittenTyped
<1>3. clients' = [clients EXCEPT ![t] = doc] /\ past' = [past EXCEPT ![t] = Append(@, doc)]
  BY DEF Committed
<1> HIDE DEF doc
<1>4. /\ clients' \in [Clients -> ClientDocument \cup {NoClient}]
      /\ past' \in [Clients -> Seq(ClientDocument)]
      /\ clients'[t] = doc /\ past'[t] = Append(past[t], doc)
      /\ \A d \in Clients : d # t => clients'[d] = clients[d] /\ past'[d] = past[d]
  BY <1>1, <1>2, <1>3 DEF TypeOK, HistoryInv
<1> HIDE DEF t
<1>5. /\ Len(past'[t]) = Len(past[t]) + 1 /\ Len(past[t]) \in Nat
      /\ past'[t] # <<>> /\ Last(past'[t]) = doc
      /\ \A i \in 1 .. Len(past[t]) : past'[t][i] = past[t][i]
  BY <1>1, <1>2, <1>4 DEF Last
<1>6. \A i \in 1 .. Len(past'[t]) : past'[t][i].isBootstrapAdmin => Last(past'[t]).isBootstrapAdmin
  <2> SUFFICES ASSUME NEW i \in 1 .. Len(past'[t]), past'[t][i].isBootstrapAdmin
               PROVE  doc.isBootstrapAdmin
    BY <1>5
  <2>1. CASE i = Len(past'[t])
    BY <1>5, <2>1 DEF Last
  <2>2. CASE i # Len(past'[t])
    <3>1. i \in 1 .. Len(past[t]) /\ past[t][i].isBootstrapAdmin
      BY <1>5, <2>2
    <3>2. past[t] # <<>> /\ Last(past[t]).isBootstrapAdmin
      BY <1>1, <3>1 DEF HistoryInv
    <3>3. clients[t] = Last(past[t]) /\ input[r].op # "createClient"
      BY <1>1, <3>2, StoredTyped DEF t
    <3> QED
      BY <1>2, <3>2, <3>3
  <2> QED
    BY <2>1, <2>2
<1>7. HistoryInv'
  <2>1. ASSUME NEW c \in Clients
        PROVE  /\ clients'[c] = IF past'[c] = <<>> THEN NoClient ELSE Last(past'[c])
               /\ \A i \in 1 .. Len(past'[c]) :
                      past'[c][i].isBootstrapAdmin => Last(past'[c]).isBootstrapAdmin
    BY <1>4, <1>5, <1>6 DEF HistoryInv
  <2> QED
    BY <1>4, <2>1 DEF HistoryInv, Last
<1>8. HistoryGrows
  <2>1. ASSUME NEW c \in Clients
        PROVE  /\ Len(past[c]) <= Len(past'[c])
               /\ \A i \in 1 .. Len(past[c]) : past'[c][i] = past[c][i]
               /\ clients[c] # NoClient => clients'[c] # NoClient
    <3>1. Len(past[c]) \in Nat
      BY StoredTyped
    <3>2. CASE c = t
      BY <1>2, <1>4, <1>5, <3>1, <3>2, ClientsAssumption
    <3>3. CASE c # t
      BY <1>4, <3>1, <3>3
    <3> QED
      BY <3>2, <3>3
  <2> QED
    BY <1>4, <2>1 DEF HistoryGrows
<1> QED
  BY <1>4, <1>7, <1>8 DEF t

LEMMA StoreUnchanged ==
    ASSUME HistoryInv, UNCHANGED <<clients, past>>
    PROVE  HistoryInv' /\ HistoryGrows
<1>1. HistoryInv'
  BY DEF HistoryInv, Last
<1>2. HistoryGrows
  BY StoredTyped DEF HistoryInv, HistoryGrows
<1> QED
  BY <1>1, <1>2

(* What is stored now is one of the states of the time under way.           *)
LEMMA CurrentState ==
    ASSUME HistoryInv, NEW r \in Requests, since \in [Requests -> Arrival], ArrivalInv(r),
           NEW c \in Clients
    PROVE  clients[c] \in States(r, c)
<1> DEFINE n == Len(past[c])
<1>1. n \in Nat /\ since[r].at[c] \in Nat /\ since[r].at[c] <= n
  BY StoredTyped DEF ArrivalInv, Arrival
<1>2. n \in since[r].at[c] .. Len(past[c])
  BY <1>1
<1>3. clients[c] = IF n = 0 THEN NoClient ELSE past[c][n]
  BY <1>1, StoredTyped DEF Last
<1> QED
  BY <1>2, <1>3 DEF States

LEMMA StatesGrow ==
    ASSUME HistoryInv, HistoryGrows, NEW r \in Requests, since \in [Requests -> Arrival],
           since'[r] = since[r], NEW c \in Clients
    PROVE  \A client \in States(r, c) : client \in States(r, c)'
<1> SUFFICES ASSUME NEW client \in States(r, c) PROVE client \in States(r, c)'
  OBVIOUS
<1>1. PICK i \in since[r].at[c] .. Len(past[c]) : client = IF i = 0 THEN NoClient ELSE past[c][i]
  BY DEF States
<1>2. /\ since[r].at[c] \in Nat /\ Len(past[c]) \in Nat /\ Len(past'[c]) \in Nat
      /\ Len(past[c]) <= Len(past'[c])
  BY StoredTyped DEF Arrival, HistoryGrows
<1>3. i \in since'[r].at[c] .. Len(past'[c])
  BY <1>1, <1>2
<1>4. client = IF i = 0 THEN NoClient ELSE past'[c][i]
  BY <1>1, <1>2 DEF HistoryGrows
<1> QED
  BY <1>3, <1>4 DEF States

-----------------------------------------------------------------------------
(* What a step leaves to a request that does not take it.                   *)
Passive(g) ==
    /\ pc'[g] = pc[g] /\ input'[g] = input[g] /\ bearer'[g] = bearer[g]
    /\ subject'[g] = subject[g] /\ target'[g] = target[g] /\ found'[g] = found[g]
    /\ status'[g] = status[g] /\ since'[g] = since[g]

Base == TypeOK /\ since \in [Requests -> Arrival] /\ HistoryInv

LEMMA Times ==
    ASSUME Base, NEW g \in Requests
    PROVE  /\ now \in Nat /\ since[g].time \in Nat /\ subject[g].exp \in Int /\ bearer[g].exp \in Int
           /\ \A c \in Clients : since[g].at[c] \in Nat /\ Len(past[c]) \in Nat
BY StoredTyped DEF Base, TypeOK, Arrival, Jwt

LEMMA ArrivalKept ==
    ASSUME Base, HistoryGrows, NEW g \in Requests, ArrivalInv(g), since'[g] = since[g],
           now' \in Nat, now <= now'
    PROVE  ArrivalInv(g)'
<1>1. \A c \in Clients : Len(past'[c]) \in Nat
  BY DEF HistoryGrows
<1> QED
  BY <1>1, Times DEF ArrivalInv, HistoryGrows

LEMMA IntrospectionKept ==
    ASSUME Base, HistoryGrows, NEW g \in Requests, IntrospectionInv(g), Passive(g),
           now' \in Nat, now <= now'
    PROVE  IntrospectionInv(g)'
<1> DEFINE c == subject[g].client_id
<1>1. \A client : c \in Clients /\ client \in States(g, c) => client \in States(g, c)'
  BY StatesGrow DEF Base, Passive
<1>2. subject'[g] = subject[g] /\ subject'[g].client_id = c
  BY DEF Passive
<1>3. Expired(subject[g], now) => Expired(subject[g], now')
  BY Times DEF Expired
<1>4. SaysActive(g)' <=> SaysActive(g)
  BY DEF SaysActive, Passive
<1>5. /\ pc'[g] \in {"read", "answer"} /\ input'[g].op = "verifyToken" =>
            subject'[g].kind = "signed" /\ ~Expired(subject'[g], since'[g].time)
      /\ pc'[g] = "answer" /\ input'[g].op = "verifyToken" /\ c \in Clients =>
            \/ found'[g].response = "UNKNOWN_FAILURE" /\ found'[g].document = NoClient
            \/ found'[g].document \in States(g, c)'
  BY <1>1, <1>2 DEF IntrospectionInv, Passive
<1>6. pc'[g] = "done" /\ input'[g].op = "verifyToken" /\ status'[g] = 200 /\ c \in Clients =>
            IF SaysActive(g)'
            THEN /\ ~Expired(subject'[g], since'[g].time)
                 /\ \E client \in States(g, c)' : IsActive(client)
            ELSE \/ Expired(subject'[g], now')
                 \/ found'[g].response = "UNKNOWN_FAILURE"
                 \/ \E client \in States(g, c)' : ~IsActive(client)
  <2> SUFFICES ASSUME pc[g] = "done", input[g].op = "verifyToken", status[g] = 200, c \in Clients
               PROVE  IF SaysActive(g)
                      THEN /\ ~Expired(subject[g], since[g].time)
                           /\ \E client \in States(g, c)' : IsActive(client)
                      ELSE \/ Expired(subject[g], now')
                           \/ found[g].response = "UNKNOWN_FAILURE"
                           \/ \E client \in States(g, c)' : ~IsActive(client)
    BY <1>2, <1>4 DEF Passive
  <2>1. CASE SaysActive(g)
    BY <1>1, <2>1 DEF IntrospectionInv
  <2>2. CASE ~SaysActive(g)
    BY <1>1, <1>3, <2>2 DEF IntrospectionInv
  <2> QED
    BY <2>1, <2>2
<1> QED
  BY <1>2, <1>5, <1>6 DEF IntrospectionInv, States, IsActive, SaysActive

LEMMA TokenKept ==
    ASSUME Base, HistoryGrows, NEW g \in Requests, TokenInv(g), Passive(g)
    PROVE  TokenInv(g)'
<1>1. PICK c : c = target[g]
  OBVIOUS
<1>2. \A client : c \in Clients /\ client \in States(g, c) => client \in States(g, c)'
  BY StatesGrow DEF Base, Passive
<1>3. target'[g] = c /\ input'[g] = input[g] /\ subject'[g] = subject[g]
      /\ found'[g] = found[g] /\ status'[g] = status[g] /\ pc'[g] = pc[g]
  BY <1>1 DEF Passive
<1>4. /\ pc'[g] \in {"read", "answer"} /\ input'[g].op = "requestToken" => c = input'[g].clientId
      /\ pc'[g] = "answer" /\ input'[g].op = "requestToken" /\ c \in Clients =>
             \/ found'[g].response = "UNKNOWN_FAILURE"
             \/ found'[g].document \in States(g, c)'
  BY <1>1, <1>2, <1>3 DEF TokenInv
<1>5. pc'[g] = "done" /\ input'[g].op = "requestToken" /\ c \in Clients =>
            /\ status'[g] = 200 =>
                   \E client \in States(g, c)' :
                       Lets(client, input'[g].secret) /\ client.roles = subject'[g].roles
            /\ status'[g] \in {401, 403} =>
                   \E client \in States(g, c)' : ~Lets(client, input'[g].secret)
  BY <1>1, <1>2, <1>3 DEF TokenInv
<1> QED
  BY <1>3, <1>4, <1>5 DEF TokenInv, States, Lets

LEMMA LateBootstrapKept ==
    ASSUME Base, HistoryGrows, NEW g \in Requests, ArrivalInv(g), LateBootstrapInv(g), Passive(g)
    PROVE  LateBootstrapInv(g)'
<1>1. HadAdministrator(g)' => HadAdministrator(g)
  BY Times DEF HadAdministrator, HistoryGrows, ArrivalInv, Passive
<1> QED
  BY <1>1 DEF LateBootstrapInv, IsBootstrap, Passive

LEMMA RequestKept ==
    ASSUME Base, HistoryGrows, NEW g \in Requests, RequestInv(g), Passive(g),
           now' \in Nat, now <= now', Creating(g) => past'[target[g]] = past[target[g]]
    PROVE  RequestInv(g)'
<1>1. ArrivalInv(g)' /\ UnaskedInv(g)'
  BY ArrivalKept DEF RequestInv, UnaskedInv, Passive
<1>2. WriteInv(g)'
  BY DEF RequestInv, WriteInv, Writing, Creating, AsAdministrator, IsBootstrap, Passive, HistoryGrows
<1>3. TokenInv(g)' /\ IntrospectionInv(g)' /\ LateBootstrapInv(g)'
  BY TokenKept, IntrospectionKept, LateBootstrapKept DEF RequestInv, Passive
<1> QED
  BY <1>1, <1>2, <1>3 DEF RequestInv

-----------------------------------------------------------------------------
(* The steps.                                                               *)
LEMMA OneSteps ==
    ASSUME IInv, NEW r \in Requests, TypeOK', since' \in [Requests -> Arrival],
           HistoryInv', HistoryGrows, CreatorsApart', RequestInv(r)', now' = now,
           \A g \in Requests \ {r} :
               Passive(g) /\ (Creating(g) => past'[target[g]] = past[target[g]])
    PROVE  IInv'
<1>1. Base /\ now \in Nat
  BY DEF IInv, Base, TypeOK
<1>2. \A g \in Requests \ {r} : RequestInv(g)'
  BY <1>1, RequestKept DEF IInv
<1> QED
  BY <1>2 DEF IInv

LEMMA ApartKept ==
    ASSUME IInv, \A g \in Requests : Creating(g)' => Creating(g) /\ target'[g] = target[g]
    PROVE  CreatorsApart'
BY DEF IInv, CreatorsApart

LEMMA ArriveInv ==
    ASSUME IInv, NEW r \in Requests, NEW q \in Inputs, NEW b \in BearersFor(q), NEW s \in SubjectsFor(q),
           Arrive(r, q, b, s)
    PROVE  IInv'
<1>1. Base /\ now \in Nat /\ RequestInv(r)
  BY DEF IInv, Base, TypeOK
<1>2. q \in Input /\ b \in Jwt /\ s \in Jwt
  BY <1>1, InputsAssumption, ForeignAssumption, NoBearerTyped DEF BearersFor, SubjectsFor, Base, TypeOK
<1>3. /\ pc' = [pc EXCEPT ![r] = "plugins"]
      /\ UNCHANGED <<clients, now, issued, target, found, status, past>>
  BY DEF Arrive
<1>4. TypeOK'
  <2>1. /\ plugin' \in Plugin /\ pc' \in [Requests -> Progress] /\ input' \in [Requests -> Input]
        /\ bearer' \in [Requests -> Jwt] /\ subject' \in [Requests -> Jwt]
    BY <1>1, <1>2 DEF Arrive, Base, TypeOK, Plugin, Progress
  <2> QED
    BY <1>1, <1>3, <2>1 DEF Base, TypeOK
<1>5. [time |-> now, at |-> [c \in Clients |-> Len(past[c])]] \in Arrival
  BY <1>1, StoredTyped DEF Arrival, Base
<1>6. /\ since' \in [Requests -> Arrival]
      /\ since'[r] = [time |-> now, at |-> [c \in Clients |-> Len(past[c])]]
  BY <1>1, <1>5 DEF Arrive, Base
<1>7. HistoryInv' /\ HistoryGrows
  BY <1>1, <1>3, StoreUnchanged DEF Base
<1>8. \A g \in Requests \ {r} : Passive(g)
  BY <1>1 DEF Arrive, Passive, Base, TypeOK
<1>9. pc[r] = "idle" /\ pc'[r] = "plugins"
  BY <1>1 DEF Arrive, Base, TypeOK
<1>10. CreatorsApart'
  BY <1>8, <1>9, ApartKept DEF Creating, Writing, Passive
<1>11. RequestInv(r)'
  <2>1. ArrivalInv(r)'
    BY <1>1, <1>3, <1>6, StoredTyped DEF ArrivalInv, Base
  <2>2. UnaskedInv(r)'
    BY <1>1, <1>3, <1>9 DEF UnaskedInv, RequestInv
  <2> QED
    BY <1>9, <2>1, <2>2
    DEF RequestInv, WriteInv, Writing, Creating, TokenInv, IntrospectionInv, LateBootstrapInv
<1> QED
  BY <1>1, <1>3, <1>4, <1>6, <1>7, <1>8, <1>10, <1>11, OneSteps

LEMMA PluginsLoadedInv ==
    ASSUME IInv, NEW r \in Requests, PluginsLoaded(r)
    PROVE  IInv'
<1>1. Base /\ now \in Nat /\ RequestInv(r)
  BY DEF IInv, Base, TypeOK
<1>2. /\ pc[r] = "plugins" /\ pc' = [pc EXCEPT ![r] = "begin"]
      /\ UNCHANGED <<plugin, clients, now, issued, input, bearer, subject, target, found, status,
                     past, since>>
  BY DEF PluginsLoaded
<1>3. TypeOK' /\ since' \in [Requests -> Arrival]
  BY <1>1, <1>2 DEF Base, TypeOK, Progress
<1>4. HistoryInv' /\ HistoryGrows
  BY <1>1, <1>2, StoreUnchanged DEF Base
<1>5. pc'[r] = "begin" /\ \A g \in Requests \ {r} : Passive(g)
  BY <1>1, <1>2 DEF Passive, Base, TypeOK
<1>6. CreatorsApart'
  BY <1>5, ApartKept DEF Creating, Writing, Passive
<1>7. RequestInv(r)'
  <2>1. ArrivalInv(r)'
    BY <1>1, <1>2, <1>4, ArrivalKept DEF RequestInv
  <2>2. UnaskedInv(r)'
    BY <1>1, <1>2 DEF UnaskedInv, RequestInv
  <2> QED
    BY <1>5, <2>1, <2>2
    DEF RequestInv, WriteInv, Writing, Creating, TokenInv, IntrospectionInv, LateBootstrapInv
<1> QED
  BY <1>1, <1>2, <1>3, <1>4, <1>5, <1>6, <1>7, OneSteps

LEMMA BeginType ==
    ASSUME Base, NEW r \in Requests, Begin(r)
    PROVE  /\ TypeOK'
           /\ GivenHardcoded(r) \in Jwt
           /\ input[r].op # "requestToken" => GivenHardcoded(r) = subject[r]
           /\ CreatesClient(r) => NewClientId \in Clients /\ IsFresh(NewClientId)
           /\ target'[r] = IF CreatesClient(r) THEN NewClientId
                           ELSE IF input[r].op = "createClient" THEN NoClientId ELSE input[r].clientId
<1>1. CreatesClient(r) => NewClientId \in Clients /\ IsFresh(NewClientId)
  BY DEF Begin, NewClientId
<1>2. input[r] \in Input /\ input[r].clientId \in AnyClientId /\ subject[r] \in Jwt /\ now \in 0 .. MaxTime
  BY DEF Base, TypeOK, Input
<1>3. GivenHardcoded(r) \in Jwt
  <2>1. \A c \in HardcodedKey : HardcodedRoles(c) \in SUBSET AuthorizationClientRole
    BY DEF HardcodedRoles, AuthorizationClientRole
  <2>2. \A c \in HardcodedKey : createToken(c, HardcodedRoles(c), now) \in Jwt
    BY <1>2, <2>1, TokenTyped DEF AnyClientId
  <2>3. input[r].op = "requestToken" /\ EarlyStatus(r) = 200 => input[r].clientId \in HardcodedKey
    BY EarlyFacts DEF Base
  <2> QED
    BY <1>2, <2>2, <2>3 DEF GivenHardcoded
<1>4. /\ target' \in [Requests -> AnyClientId]
      /\ target'[r] = IF CreatesClient(r) THEN NewClientId
                      ELSE IF input[r].op = "createClient" THEN NoClientId ELSE input[r].clientId
  BY <1>1, <1>2 DEF Begin, Base, TypeOK, AnyClientId
<1>5. status' \in [Requests -> {0, 200, 201, 204, 400, 401, 403, 404, 500}]
  BY EarlyFacts DEF Begin, Base, TypeOK
<1>6. subject' \in [Requests -> Jwt] /\ issued' \subseteq Jwt
  BY <1>3 DEF Begin, Base, TypeOK
<1>7. pc' \in [Requests -> Progress]
  BY DEF Begin, Base, TypeOK, Progress, FirstStep
<1> QED
  BY <1>1, <1>3, <1>4, <1>5, <1>6, <1>7 DEF Begin, Base, TypeOK, GivenHardcoded

LEMMA BeginInv ==
    ASSUME IInv, NEW r \in Requests, Begin(r)
    PROVE  IInv'
<1>1. Base /\ now \in Nat /\ RequestInv(r)
  BY DEF IInv, Base, TypeOK
<1>2. /\ pc[r] = "begin"
      /\ UNCHANGED <<plugin, clients, now, input, bearer, found, past, since>>
  BY DEF Begin
<1>3. TypeOK' /\ since' \in [Requests -> Arrival]
  BY <1>1, <1>2, BeginType DEF Base
<1>4. HistoryInv' /\ HistoryGrows
  BY <1>1, <1>2, StoreUnchanged DEF Base
<1>5. \A g \in Requests \ {r} : Passive(g)
  BY <1>1 DEF Begin, Passive, Base, TypeOK
<1>6. /\ pc'[r] = IF EarlyStatus(r) # 0 THEN "done" ELSE FirstStep(input[r])
      /\ status'[r] = EarlyStatus(r) /\ subject'[r] = GivenHardcoded(r)
      /\ found'[r] = found[r] /\ found[r].document = NoClient
  BY <1>1, <1>2 DEF Begin, Base, TypeOK, RequestInv, UnaskedInv
<1>7. input[r].op \in ReadOp \cup WriteOp
  BY <1>1 DEF Base, TypeOK, Input
<1>8. Creating(r)' => CreatesClient(r)
  BY <1>2, <1>6 DEF Creating, Writing, CreatesClient, FirstStep
<1>9. CreatorsApart'
  <2> SUFFICES ASSUME NEW g \in Requests, NEW o \in Requests, Creating(g)', Creating(o)', g # o
               PROVE  target'[g] # target'[o]
    BY DEF CreatorsApart
  <2>1. CASE g # r /\ o # r
    BY <1>5, <2>1 DEF IInv, CreatorsApart, Creating, Writing, Passive
  <2>2. ASSUME NEW e \in Requests, e # r, Creating(e)', Creating(r)' PROVE target'[e] # target'[r]
    <3>1. input[e].op = "createClient" /\ target'[e] = target[e]
      BY <1>5, <2>2 DEF Creating, Writing, Passive
    <3>2. target'[r] = NewClientId /\ IsFresh(NewClientId)
      BY <1>1, <1>8, <2>2, BeginType
    <3> QED
      BY <3>1, <3>2 DEF IsFresh
  <2> QED
    BY <2>1, <2>2
<1>10. RequestInv(r)'
  <2>1. ArrivalInv(r)' /\ UnaskedInv(r)'
    <3>1. ArrivalInv(r)'
      BY <1>1, <1>2, <1>4, ArrivalKept DEF RequestInv
    <3> QED
      BY <1>6, <3>1 DEF UnaskedInv
  <2>2. ~Expired(bearer[r], now) => ~Expired(bearer[r], since[r].time)
    BY <1>1, Times DEF RequestInv, ArrivalInv, Expired
  <2>3. ~Expired(subject[r], now) => ~Expired(subject[r], since[r].time)
    BY <1>1, Times DEF RequestInv, ArrivalInv, Expired
  <2>4. WriteInv(r)'
    <3>1. pc'[r] = "read" => input[r].op \in ReadOp
      BY <1>6, <1>7 DEF FirstStep
    <3>2. Writing(r)' => pc'[r] = "statement" /\ EarlyStatus(r) = 0 /\ input[r].op \in WriteOp
      BY <1>6, <1>7 DEF FirstStep, Writing
    <3>3. Writing(r)' => AsAdministrator(r)'
      BY <1>1, <1>2, <2>2, <3>2, EarlyFacts DEF AsAdministrator, IsBootstrap, Base
    <3>4. Creating(r)' => target'[r] \in Clients /\ past'[target'[r]] = <<>>
      <4>1. Creating(r)' => target'[r] \in Clients /\ clients[target'[r]] = NoClient
        BY <1>1, <1>8, BeginType DEF IsFresh
      <4> QED
        BY <1>1, <1>2, <4>1, StoredTyped, ClientsAssumption DEF Base, HistoryInv, Last
    <3>5. pc'[r] \notin {"insert", "commit"}
      BY <1>6 DEF FirstStep
    <3> QED
      BY <1>2, <3>1, <3>2, <3>3, <3>4, <3>5 DEF WriteInv
  <2>5. TokenInv(r)'
    <3>1. input[r].op = "requestToken" => target'[r] = input[r].clientId
      BY <1>1, BeginType DEF CreatesClient
    <3>2. input[r].op = "requestToken" /\ target'[r] \in Clients => status'[r] \notin {200, 401, 403}
      BY <1>1, <1>6, <3>1, EarlyFacts, HardcodedIdsAssumption DEF Base
    <3>3. pc'[r] # "answer"
      BY <1>6 DEF FirstStep
    <3> QED
      BY <1>2, <3>1, <3>2, <3>3 DEF TokenInv
  <2>6. IntrospectionInv(r)'
    <3>1. input[r].op = "verifyToken" => subject'[r] = subject[r]
      BY <1>1, <1>6, BeginType
    <3>2. pc'[r] = "read" => EarlyStatus(r) = 0
      BY <1>6
    <3>3. pc'[r] # "answer" /\ ~SaysActive(r)'
      BY <1>6 DEF FirstStep, SaysActive
    <3>4. input[r].op = "verifyToken" /\ pc'[r] = "read" =>
              subject[r].kind = "signed" /\ ~Expired(subject[r], since[r].time)
      BY <1>1, <2>3, <3>2, EarlyFacts DEF Base
    <3>5. input[r].op = "verifyToken" /\ pc'[r] = "done" /\ status'[r] = 200
              /\ subject[r].client_id \in Clients => Expired(subject[r], now)
      <4>1. EarlyStatus(r) = 200 /\ input[r].op = "verifyToken" =>
                Expired(subject[r], now) \/ subject[r].client_id \in HardcodedKey
        BY <1>1, EarlyFacts DEF Base
      <4>2. subject[r].client_id \in Clients => subject[r].client_id \notin HardcodedKey
        BY HardcodedIdsAssumption
      <4> QED
        BY <1>6, <4>1, <4>2
    <3> QED
      BY <1>2, <3>1, <3>3, <3>4, <3>5 DEF IntrospectionInv
  <2>7. LateBootstrapInv(r)'
    BY <1>1, <1>6, EarlyFacts DEF LateBootstrapInv, FirstStep, Base
  <2> QED
    BY <2>1, <2>4, <2>5, <2>6, <2>7 DEF RequestInv
<1> QED
  BY <1>1, <1>2, <1>3, <1>4, <1>5, <1>9, <1>10, OneSteps

(* A step of the store that changes nothing but what the request found.     *)
LEMMA StoreFailsInv ==
    ASSUME IInv, NEW r \in Requests, StoreFails(r)
    PROVE  IInv'
<1>1. Base /\ now \in Nat /\ RequestInv(r)
  BY DEF IInv, Base, TypeOK
<1>2. /\ pc[r] \in {"read", "statement", "insert"} /\ pc' = [pc EXCEPT ![r] = "answer"]
      /\ found' = [found EXCEPT ![r] = Responded("UNKNOWN_FAILURE")]
      /\ UNCHANGED <<plugin, clients, now, issued, input, bearer, subject, target, status, past, since>>
  BY DEF StoreFails, ReplyLost
<1>3. TypeOK' /\ since' \in [Requests -> Arrival]
  <2>1. Responded("UNKNOWN_FAILURE") \in [response : StoreResponse, document : ClientDocument \cup {NoClient}]
    BY RespondedTyped DEF StoreResponse
  <2> QED
    BY <1>1, <1>2, <2>1 DEF Base, TypeOK, Progress
<1>4. HistoryInv' /\ HistoryGrows
  BY <1>1, <1>2, StoreUnchanged DEF Base
<1>5. /\ pc'[r] = "answer" /\ found'[r].response = "UNKNOWN_FAILURE" /\ found'[r].document = NoClient
      /\ \A g \in Requests \ {r} : Passive(g)
  BY <1>1, <1>2 DEF Passive, Base, TypeOK, Responded
<1>6. CreatorsApart'
  BY <1>5, ApartKept DEF Creating, Writing, Passive
<1>7. RequestInv(r)'
  <2>1. ArrivalInv(r)'
    BY <1>1, <1>2, <1>4, ArrivalKept DEF RequestInv
  <2>2. pc[r] = "read" \/ input[r].op \in WriteOp
    BY <1>1, <1>2 DEF RequestInv, WriteInv, Writing
  <2>3. TokenInv(r)' /\ IntrospectionInv(r)'
    BY <1>1, <1>2, <1>5, <2>2 DEF RequestInv, TokenInv, IntrospectionInv, WriteOp
  <2>4. WriteInv(r)' /\ UnaskedInv(r)' /\ LateBootstrapInv(r)'
    BY <1>5 DEF WriteInv, Writing, Creating, UnaskedInv, LateBootstrapInv
  <2> QED
    BY <2>1, <2>3, <2>4 DEF RequestInv
<1> QED
  BY <1>1, <1>2, <1>3, <1>4, <1>5, <1>6, <1>7, OneSteps

LEMMA ReadClientInv ==
    ASSUME IInv, NEW r \in Requests, ReadClient(r)
    PROVE  IInv'
<1> DEFINE c == IF input[r].op = "verifyToken" THEN JwtClientId(subject[r]) ELSE target[r]
           known == c \in Clients /\ clients[c] # NoClient
<1>1. Base /\ now \in Nat /\ RequestInv(r)
  BY DEF IInv, Base, TypeOK
<1>2. /\ pc[r] = "read" /\ pc' = [pc EXCEPT ![r] = "answer"] /\ target' = [target EXCEPT ![r] = c]
      /\ UNCHANGED <<plugin, clients, now, issued, input, bearer, subject, status, past, since>>
  BY DEF ReadClient
<1>3. input[r].op \in ReadOp
  BY <1>1, <1>2 DEF RequestInv, WriteInv
<1>4. PICK answer \in [response : StoreResponse, document : ClientDocument \cup {NoClient}] :
         /\ found' = [found EXCEPT ![r] = answer]
         /\ input[r].op # "getClients" => answer.document = IF known THEN clients[c] ELSE NoClient
  <2>1. /\ Responded("SUCCESS") \in [response : StoreResponse, document : ClientDocument \cup {NoClient}]
        /\ Responded("NOT_EXISTS") \in [response : StoreResponse, document : ClientDocument \cup {NoClient}]
    BY RespondedTyped DEF StoreResponse
  <2>2. known => [response |-> "SUCCESS", document |-> clients[c]]
                    \in [response : StoreResponse, document : ClientDocument \cup {NoClient}]
    BY <1>1 DEF Base, TypeOK, StoreResponse
  <2> HIDE DEF c
  <2>3. CASE input[r].op = "getClients"
    BY <2>1, <2>3 DEF ReadClient
  <2>4. CASE input[r].op # "getClients" /\ known
    BY <2>2, <2>4 DEF ReadClient, c
  <2>5. CASE input[r].op # "getClients" /\ ~known
    BY <2>1, <2>5 DEF ReadClient, Responded, c
  <2> QED
    BY <2>3, <2>4, <2>5
<1>5. c \in AnyClientId
  BY <1>1 DEF Base, TypeOK, JwtClientId, AnyClientId, Jwt
<1>6. /\ input[r].op = "requestToken" => c = target[r] /\ c = input[r].clientId
      /\ input[r].op = "verifyToken" => c = subject[r].client_id
  BY <1>1, <1>2 DEF RequestInv, TokenInv, IntrospectionInv, JwtClientId
<1> HIDE DEF c
<1>7. TypeOK' /\ since' \in [Requests -> Arrival]
  BY <1>1, <1>2, <1>4, <1>5 DEF Base, TypeOK, Progress
<1>8. HistoryInv' /\ HistoryGrows
  BY <1>1, <1>2, StoreUnchanged DEF Base
<1>9. /\ pc'[r] = "answer" /\ found'[r] = answer /\ target'[r] = c
      /\ \A g \in Requests \ {r} : Passive(g)
  BY <1>1, <1>2, <1>4 DEF Passive, Base, TypeOK
<1>10. CreatorsApart'
  BY <1>9, ApartKept DEF Creating, Writing, Passive
<1>11. RequestInv(r)'
  <2>1. ArrivalInv(r)'
    BY <1>1, <1>2, <1>8, ArrivalKept DEF RequestInv
  <2>2. input[r].op # "getClients" /\ c \in Clients => answer.document \in States(r, c)
    <3>1. c \in Clients => clients[c] \in States(r, c)
      BY <1>1, CurrentState DEF Base, RequestInv
    <3> QED
      BY <1>4, <3>1
  <2>3. TokenInv(r)'
    BY <1>2, <1>6, <1>9, <2>2 DEF TokenInv, States
  <2>4. IntrospectionInv(r)'
    BY <1>1, <1>2, <1>6, <1>9, <2>2 DEF RequestInv, IntrospectionInv, States
  <2>5. WriteInv(r)' /\ UnaskedInv(r)'
    BY <1>9 DEF WriteInv, Writing, Creating, UnaskedInv
  <2>6. LateBootstrapInv(r)'
    BY <1>2, <1>3 DEF LateBootstrapInv, IsBootstrap, ReadOp
  <2> QED
    BY <2>1, <2>3, <2>4, <2>5, <2>6 DEF RequestInv
<1> QED
  BY <1>1, <1>2, <1>7, <1>8, <1>9, <1>10, <1>11, OneSteps

LEMMA LateOutcome ==
    ASSUME Base, NEW r \in Requests, ArrivalInv(r), IsBootstrap(r), HadAdministrator(r)
    PROVE  BootstrapAdminExists /\ StatementOutcome(r) = "ALREADY_EXISTS"
<1>1. PICK c \in Clients : since[r].at[c] > 0 /\ past[c][since[r].at[c]].isBootstrapAdmin
  BY DEF HadAdministrator
<1>2. since[r].at[c] \in 1 .. Len(past[c])
  BY <1>1, Times DEF ArrivalInv
<1>3. past[c] # <<>> /\ Last(past[c]).isBootstrapAdmin
  BY <1>1, <1>2, StoredTyped DEF Base, HistoryInv
<1>4. clients[c] # NoClient /\ clients[c].isBootstrapAdmin
  BY <1>3, StoredTyped, ClientsAssumption DEF Base, HistoryInv, Last
<1>5. BootstrapAdminExists
  BY <1>4 DEF BootstrapAdminExists
<1> QED
  BY <1>5 DEF StatementOutcome, IsBootstrap

LEMMA OutcomeTyped ==
    ASSUME NEW r \in Requests
    PROVE  /\ StatementOutcome(r) \in {"SUCCESS", "ALREADY_EXISTS", "NOT_EXISTS"}
           /\ input[r].op # "createClient" /\ StatementOutcome(r) = "SUCCESS" =>
                  target[r] \in Clients /\ clients[target[r]] # NoClient
           /\ IsBootstrap(r) /\ ~BootstrapAdminExists => StatementOutcome(r) = "SUCCESS"
BY DEF StatementOutcome, IsBootstrap

(* The steps of a statement that does not change the store yet.             *)
LEMMA UncommittedInv ==
    ASSUME IInv, NEW r \in Requests, TransactionStatement(r) \/ CheckBootstrapAdminExists(r)
    PROVE  IInv'
<1>1. Base /\ now \in Nat /\ RequestInv(r)
  BY DEF IInv, Base, TypeOK
<1>2. PICK next \in {"commit", "insert", "answer"} :
         /\ pc' = [pc EXCEPT ![r] = next]
         /\ next = "commit" => StatementOutcome(r) = "SUCCESS"
         /\ next = "insert" => IsBootstrap(r) /\ ~BootstrapAdminExists
  BY DEF TransactionStatement, CheckBootstrapAdminExists
<1>3. /\ pc[r] = "statement"
      /\ found' = [found EXCEPT ![r] = Responded(StatementOutcome(r))]
      /\ UNCHANGED <<plugin, clients, now, issued, input, bearer, subject, target, status, past, since>>
  BY DEF TransactionStatement, CheckBootstrapAdminExists
<1>4. TypeOK' /\ since' \in [Requests -> Arrival]
  <2>1. Responded(StatementOutcome(r))
            \in [response : StoreResponse, document : ClientDocument \cup {NoClient}]
    BY OutcomeTyped, RespondedTyped DEF StoreResponse
  <2> QED
    BY <1>1, <1>2, <1>3, <2>1 DEF Base, TypeOK, Progress
<1>5. HistoryInv' /\ HistoryGrows
  BY <1>1, <1>3, StoreUnchanged DEF Base
<1>6. /\ pc'[r] = next /\ found'[r].response = StatementOutcome(r)
      /\ \A g \in Requests \ {r} : Passive(g)
  BY <1>1, <1>2, <1>3 DEF Passive, Base, TypeOK, Responded
<1>7. CreatorsApart'
  BY <1>3, <1>6, ApartKept DEF Creating, Writing, Passive
<1>8. RequestInv(r)'
  <2>1. ArrivalInv(r)' /\ UnaskedInv(r)'
    BY <1>1, <1>3, <1>5, <1>6, ArrivalKept DEF RequestInv, UnaskedInv
  <2>2. input[r].op \in WriteOp
    BY <1>1, <1>3 DEF RequestInv, WriteInv, Writing
  <2>3. TokenInv(r)' /\ IntrospectionInv(r)'
    BY <1>3, <2>2 DEF TokenInv, IntrospectionInv, WriteOp
  <2>4. WriteInv(r)'
    <3>1. /\ AsAdministrator(r)' <=> AsAdministrator(r)
          /\ IsBootstrap(r)' <=> IsBootstrap(r)
      BY <1>3 DEF AsAdministrator, IsBootstrap
    <3> QED
      BY <1>1, <1>2, <1>3, <1>6, <2>2, <3>1, OutcomeTyped DEF RequestInv, WriteInv, Writing, Creating
  <2>5. LateBootstrapInv(r)'
    <3>1. HadAdministrator(r)' <=> HadAdministrator(r)
      BY <1>3 DEF HadAdministrator
    <3>2. IsBootstrap(r)' <=> IsBootstrap(r)
      BY <1>3 DEF IsBootstrap
    <3>3. IsBootstrap(r) /\ HadAdministrator(r) =>
             next = "answer" /\ found'[r].response = "ALREADY_EXISTS"
      BY <1>1, <1>2, <1>6, LateOutcome DEF RequestInv
    <3> QED
      BY <1>6, <3>1, <3>2, <3>3 DEF LateBootstrapInv
  <2> QED
    BY <2>1, <2>3, <2>4, <2>5 DEF RequestInv
<1> QED
  BY <1>1, <1>3, <1>4, <1>5, <1>6, <1>7, <1>8, OneSteps

(* The steps that may change the store, and end the request's part in it.   *)
LEMMA CommittedInv ==
    ASSUME IInv, NEW r \in Requests, Commit(r) \/ SingleStatement(r) \/ InsertBootstrapAdmin(r)
    PROVE  IInv'
<1>1. Base /\ now \in Nat /\ RequestInv(r)
  BY DEF IInv, Base, TypeOK
<1>2. /\ Writing(r) /\ pc' = [pc EXCEPT ![r] = "answer"]
      /\ UNCHANGED <<plugin, now, issued, input, bearer, subject, target, status, since>>
      /\ \/ found' = found
         \/ ReplyLost(r)
         \/ pc[r] = "statement" /\ found' = [found EXCEPT ![r] = Responded(StatementOutcome(r))]
  BY DEF Commit, SingleStatement, InsertBootstrapAdmin, Writing
<1>3. input[r].op \in WriteOp
  BY <1>1, <1>2 DEF RequestInv, WriteInv
<1>4. \/ UNCHANGED <<clients, past>>
      \/ /\ Committed(r) /\ target[r] \in Clients
         /\ input[r].op # "createClient" => clients[target[r]] # NoClient
         /\ input[r].op = "createClient" => past[target[r]] = <<>>
  <2>1. input[r].op = "createClient" => target[r] \in Clients /\ past[target[r]] = <<>>
    BY <1>1, <1>2 DEF RequestInv, WriteInv, Creating
  <2>2. CASE Commit(r)
    BY <1>1, <2>1, <2>2 DEF Commit, Uncommitted, RequestInv, WriteInv
  <2>3. CASE SingleStatement(r)
    <3>1. input[r].op # "createClient" /\
          (StatementOutcome(r) = "SUCCESS" => target[r] \in Clients /\ clients[target[r]] # NoClient)
      BY <2>3, OutcomeTyped DEF SingleStatement
    <3>2. (StatementOutcome(r) = "SUCCESS" /\ Committed(r)) \/ UNCHANGED <<clients, past>>
      BY <2>3 DEF SingleStatement, Uncommitted
    <3> QED
      BY <3>1, <3>2
  <2>4. CASE InsertBootstrapAdmin(r)
    BY <1>1, <2>1, <2>4 DEF InsertBootstrapAdmin, RequestInv, WriteInv, IsBootstrap
  <2> QED
    BY <1>2, <2>2, <2>3, <2>4
<1>5. /\ HistoryInv' /\ HistoryGrows
      /\ clients' \in [Clients -> ClientDocument \cup {NoClient}]
      /\ \A d \in Clients :
             d # target[r] \/ (input[r].op # "createClient" /\ past[d] = <<>>) => past'[d] = past[d]
  <2>1. CASE UNCHANGED <<clients, past>>
    BY <1>1, <2>1, StoreUnchanged DEF Base, TypeOK
  <2>2. CASE /\ Committed(r) /\ target[r] \in Clients
             /\ input[r].op # "createClient" => clients[target[r]] # NoClient
             /\ input[r].op = "createClient" => past[target[r]] = <<>>
    <3>1. /\ HistoryInv' /\ HistoryGrows
          /\ clients' \in [Clients -> ClientDocument \cup {NoClient}]
          /\ \A d \in Clients : d # target[r] => past'[d] = past[d]
      BY <1>1, <1>3, <2>2, CommitStored DEF Base
    <3>2. input[r].op # "createClient" => past[target[r]] # <<>>
      BY <1>1, <2>2, StoredTyped DEF Base
    <3> QED
      BY <3>1, <3>2
  <2> QED
    BY <1>4, <2>1, <2>2
<1>6. TypeOK' /\ since' \in [Requests -> Arrival]
  <2>1. Responded(StatementOutcome(r))
            \in [response : StoreResponse, document : ClientDocument \cup {NoClient}]
    BY OutcomeTyped, RespondedTyped DEF StoreResponse
  <2>2. Responded("UNKNOWN_FAILURE")
            \in [response : StoreResponse, document : ClientDocument \cup {NoClient}]
    BY RespondedTyped DEF StoreResponse
  <2>3. found' \in [Requests -> [response : StoreResponse, document : ClientDocument \cup {NoClient}]]
    BY <1>1, <1>2, <2>1, <2>2 DEF Base, TypeOK, ReplyLost
  <2> QED
    BY <1>1, <1>2, <1>5, <2>3 DEF Base, TypeOK, Progress
<1>7. pc'[r] = "answer" /\ \A g \in Requests \ {r} : Passive(g)
  BY <1>1, <1>2 DEF Passive, Base, TypeOK, ReplyLost
<1>8. CreatorsApart'
  BY <1>7, ApartKept DEF Creating, Writing, Passive
<1>9. \A g \in Requests \ {r} : Creating(g) => past'[target[g]] = past[target[g]]
  <2> SUFFICES ASSUME NEW g \in Requests, g # r, Creating(g) PROVE past'[target[g]] = past[target[g]]
    OBVIOUS
  <2>1. target[g] \in Clients /\ past[target[g]] = <<>>
    BY DEF IInv, RequestInv, WriteInv
  <2>2. input[r].op = "createClient" => target[g] # target[r]
    BY <1>2 DEF IInv, CreatorsApart, Creating
  <2> QED
    BY <1>5, <2>1, <2>2
<1>10. RequestInv(r)'
  <2>1. ArrivalInv(r)' /\ UnaskedInv(r)'
    BY <1>1, <1>2, <1>5, <1>7, ArrivalKept DEF RequestInv, UnaskedInv
  <2>2. TokenInv(r)' /\ IntrospectionInv(r)' /\ WriteInv(r)'
    BY <1>2, <1>3, <1>7 DEF TokenInv, IntrospectionInv, WriteInv, Writing, Creating, WriteOp
  <2>3. LateBootstrapInv(r)'
    <3>1. HadAdministrator(r)' => HadAdministrator(r)
      BY <1>1, <1>2, <1>5, Times DEF HadAdministrator, HistoryGrows, ArrivalInv, RequestInv
    <3>2. IsBootstrap(r)' <=> IsBootstrap(r)
      BY <1>2 DEF IsBootstrap
    <3>3. IsBootstrap(r) /\ HadAdministrator(r) => SingleStatement(r)
      BY <1>1 DEF RequestInv, LateBootstrapInv, Commit, InsertBootstrapAdmin
    <3>4. IsBootstrap(r) => ~SingleStatement(r)
      BY DEF IsBootstrap, SingleStatement
    <3> QED
      BY <3>1, <3>2, <3>3, <3>4 DEF LateBootstrapInv
  <2> QED
    BY <2>1, <2>2, <2>3 DEF RequestInv
<1> QED
  BY <1>1, <1>2, <1>5, <1>6, <1>7, <1>8, <1>9, <1>10, OneSteps

LEMMA AnswerInv ==
    ASSUME IInv, NEW r \in Requests, Answer(r)
    PROVE  IInv'
<1>1. Base /\ now \in 0 .. MaxTime /\ now \in Nat /\ RequestInv(r)
  BY DEF IInv, Base, TypeOK
<1>2. /\ pc[r] = "answer" /\ pc' = [pc EXCEPT ![r] = "done"]
      /\ status' = [status EXCEPT ![r] = ResponseStatus(r)]
      /\ subject' = [subject EXCEPT ![r] = TokenFor(r)]
      /\ UNCHANGED <<plugin, clients, now, input, bearer, target, found, past, since>>
  BY DEF Answer
<1>3. /\ found[r].document \in ClientDocument \cup {NoClient} /\ target[r] \in AnyClientId
      /\ subject[r] \in Jwt
  BY <1>1 DEF Base, TypeOK
<1>4. input[r].op = "requestToken" /\ ResponseStatus(r) = 200 => found[r].document \in ClientDocument
  BY <1>1, <1>3, AnswerFacts DEF Lets, Base
<1>5. TokenFor(r) \in Jwt
  BY <1>1, <1>3, <1>4, TokenTyped DEF TokenFor, ClientDocument
<1>6. TypeOK' /\ since' \in [Requests -> Arrival]
  <2>1. issued' \subseteq Jwt
    BY <1>1, <1>5 DEF Answer, Base, TypeOK
  <2>2. ResponseStatus(r) \in {200, 201, 204, 400, 401, 403, 404, 500}
    BY <1>1, AnswerFacts DEF Base
  <2> QED
    BY <1>1, <1>2, <1>5, <2>1, <2>2 DEF Base, TypeOK, Progress
<1>7. HistoryInv' /\ HistoryGrows
  BY <1>1, <1>2, StoreUnchanged DEF Base
<1>8. /\ pc'[r] = "done" /\ status'[r] = ResponseStatus(r) /\ subject'[r] = TokenFor(r)
      /\ \A g \in Requests \ {r} : Passive(g)
  BY <1>1, <1>2 DEF Passive, Base, TypeOK
<1>9. CreatorsApart'
  BY <1>8, ApartKept DEF Creating, Writing, Passive
<1>10. RequestInv(r)'
  <2>1. ArrivalInv(r)' /\ UnaskedInv(r)'
    BY <1>1, <1>2, <1>7, <1>8, ArrivalKept DEF RequestInv, UnaskedInv
  <2>2. WriteInv(r)'
    BY <1>8 DEF WriteInv, Writing, Creating
  <2>3. TokenInv(r)'
    <3> SUFFICES ASSUME input[r].op = "requestToken", target[r] \in Clients
                 PROVE  /\ ResponseStatus(r) = 200 =>
                              \E client \in States(r, target[r]) :
                                  Lets(client, input[r].secret) /\ client.roles = TokenFor(r).roles
                        /\ ResponseStatus(r) \in {401, 403} =>
                              \E client \in States(r, target[r]) : ~Lets(client, input[r].secret)
      BY <1>2, <1>8 DEF TokenInv, States
    <3>1. found[r].response # "UNKNOWN_FAILURE" => found[r].document \in States(r, target[r])
      BY <1>1, <1>2 DEF RequestInv, TokenInv
    <3>2. ResponseStatus(r) = 200 =>
             /\ found[r].response # "UNKNOWN_FAILURE" /\ Lets(found[r].document, input[r].secret)
             /\ TokenFor(r).roles = found[r].document.roles
      BY <1>1, AnswerFacts DEF Base, TokenFor, createToken
    <3>3. ResponseStatus(r) \in {401, 403} =>
             found[r].response # "UNKNOWN_FAILURE" /\ ~Lets(found[r].document, input[r].secret)
      BY <1>1, AnswerFacts DEF Base
    <3> QED
      BY <3>1, <3>2, <3>3
  <2>4. IntrospectionInv(r)'
    <3> DEFINE c == subject[r].client_id
    <3> SUFFICES ASSUME input[r].op = "verifyToken", c \in Clients
                 PROVE  IF SaysActive(r)
                        THEN /\ ~Expired(subject[r], since[r].time)
                             /\ \E client \in States(r, c) : IsActive(client)
                        ELSE \/ Expired(subject[r], now)
                             \/ found[r].response = "UNKNOWN_FAILURE"
                             \/ \E client \in States(r, c) : ~IsActive(client)
      <4>1. input[r].op = "verifyToken" => subject'[r] = subject[r]
        BY <1>8 DEF TokenFor
      <4>2. SaysActive(r)' <=> SaysActive(r)
        BY <1>2 DEF SaysActive
      <4> QED
        BY <1>2, <1>8, <4>1, <4>2 DEF IntrospectionInv, States
    <3>1. /\ ~Expired(subject[r], since[r].time)
          /\ \/ found[r].response = "UNKNOWN_FAILURE" /\ found[r].document = NoClient
             \/ found[r].document \in States(r, c)
      BY <1>1, <1>2 DEF RequestInv, IntrospectionInv
    <3> QED
      BY <3>1 DEF SaysActive, IsActive
  <2>5. LateBootstrapInv(r)'
    <3>1. HadAdministrator(r)' <=> HadAdministrator(r)
      BY <1>2 DEF HadAdministrator
    <3>2. IsBootstrap(r)' <=> IsBootstrap(r)
      BY <1>2 DEF IsBootstrap
    <3>3. IsBootstrap(r) /\ HadAdministrator(r) => ResponseStatus(r) # 201
      BY <1>1, <1>2, AnswerFacts DEF RequestInv, LateBootstrapInv, IsBootstrap, Base
    <3> QED
      BY <1>8, <3>1, <3>2, <3>3 DEF LateBootstrapInv
  <2> QED
    BY <2>1, <2>2, <2>3, <2>4, <2>5 DEF RequestInv
<1> QED
  BY <1>1, <1>2, <1>6, <1>7, <1>8, <1>9, <1>10, OneSteps

(* The clock, the import of the plugin, and nothing.                        *)
LEMMA RestInv ==
    ASSUME IInv, Tick \/ Load \/ UNCHANGED vars
    PROVE  IInv'
<1>1. Base
  BY DEF IInv, Base
<1>2. /\ UNCHANGED <<clients, past, issued, requestVars>>
      /\ now \in Nat /\ now' \in 0 .. MaxTime /\ now <= now' /\ plugin' \in Plugin
  BY <1>1, MaxTimeAssumption
  DEF Tick, Load, loadAuthorizationStore, vars, Base, TypeOK, Plugin
<1>3. /\ TypeOK' /\ since' \in [Requests -> Arrival] /\ CreatorsApart'
      /\ \A g \in Requests : Passive(g)
  BY <1>1, <1>2 DEF IInv, Base, TypeOK, Passive, requestVars, CreatorsApart, Creating, Writing
<1>4. HistoryInv' /\ HistoryGrows
  BY <1>1, <1>2, StoreUnchanged DEF Base
<1>5. \A g \in Requests : RequestInv(g)'
  BY <1>1, <1>2, <1>3, <1>4, RequestKept DEF IInv
<1> QED
  BY <1>3, <1>4, <1>5 DEF IInv

-----------------------------------------------------------------------------
(* The invariant, and what follows from it.                                 *)
LEMMA InitInv == Init => IInv
<1> SUFFICES ASSUME Init PROVE IInv
  OBVIOUS
<1>1. clients \in [Clients -> ClientDocument \cup {NoClient}]
  BY ClientsAssumption DEF Init
<1>2. input \in [Requests -> Input]
  <2>1. (CHOOSE q \in Inputs : TRUE) \in Input
    BY InputsAssumption
  <2> QED
    BY <2>1 DEF Init
<1>3. TypeOK
  <2>1. Responded("NOT_EXISTS") \in [response : StoreResponse, document : ClientDocument \cup {NoClient}]
    BY RespondedTyped DEF StoreResponse
  <2> QED
    BY <1>1, <1>2, <2>1, NoBearerTyped, MaxTimeAssumption DEF Init, TypeOK, Plugin, Progress, AnyClientId
<1>4. since \in [Requests -> Arrival]
  BY DEF Init, Arrival
<1>5. HistoryInv
  <2>1. past \in [Clients -> Seq(ClientDocument)]
    BY <1>1 DEF Init
  <2>2. ASSUME NEW c \in Clients
        PROVE  /\ clients[c] = IF past[c] = <<>> THEN NoClient ELSE Last(past[c])
               /\ \A i \in 1 .. Len(past[c]) : past[c][i].isBootstrapAdmin => Last(past[c]).isBootstrapAdmin
    <3>1. past[c] = IF clients[c] = NoClient THEN <<>> ELSE <<clients[c]>>
      BY DEF Init
    <3>2. CASE clients[c] = NoClient
      BY <3>1, <3>2
    <3>3. CASE clients[c] # NoClient
      <4>1. past[c] = <<clients[c]>>
        BY <3>1, <3>3
      <4> QED
        BY <4>1 DEF Last
    <3> QED
      BY <3>2, <3>3
  <2> QED
    BY <2>1, <2>2 DEF HistoryInv
<1>6. ASSUME NEW r \in Requests PROVE RequestInv(r)
  <2>1. pc[r] = "idle" /\ found[r].document = NoClient /\ now = 0
        /\ since[r].time = 0 /\ \A c \in Clients : since[r].at[c] = 0
    BY DEF Init, Responded
  <2>2. ArrivalInv(r)
    BY <1>5, <2>1, StoredTyped DEF ArrivalInv
  <2> QED
    BY <2>1, <2>2
    DEF RequestInv, UnaskedInv, WriteInv, Writing, Creating, TokenInv, IntrospectionInv, LateBootstrapInv
<1>7. CreatorsApart
  BY DEF Init, CreatorsApart, Creating, Writing
<1> QED
  BY <1>3, <1>4, <1>5, <1>6, <1>7 DEF IInv

LEMMA NextInv == IInv /\ [Next]_vars => IInv'
<1> SUFFICES ASSUME IInv, [Next]_vars PROVE IInv'
  OBVIOUS
<1>1. ASSUME NEW r \in Requests, NEW q \in Inputs, NEW b \in BearersFor(q), NEW s \in SubjectsFor(q),
             Arrive(r, q, b, s)
      PROVE  IInv'
  BY <1>1, ArriveInv
<1>2. ASSUME NEW r \in Requests, Serve(r) PROVE IInv'
  BY <1>2, PluginsLoadedInv, BeginInv, ReadClientInv, UncommittedInv, CommittedInv, StoreFailsInv, AnswerInv
  DEF Serve
<1>3. CASE Tick \/ Load \/ Quiescent \/ UNCHANGED vars
  BY <1>3, RestInv DEF Quiescent
<1> QED
  BY <1>1, <1>2, <1>3 DEF Next

LEMMA Inductive == Spec => []IInv
BY InitInv, NextInv, PTL DEF Spec

(* TypeOK: what the handlers and both store plugins exchange, store and     *)
(* answer is of the types the source declares, whatever fails.              *)
THEOREM TypeCorrect == Spec => []TypeOK
BY Inductive, PTL DEF IInv

(* TokenAnswersAreCurrent: between the read of RequestToken.ts and its      *)
(* answer others write; what was read is nonetheless a state of the time    *)
(* the request was under way, and the only ground of the answer.            *)
THEOREM TokenAnswersSafe == Spec => []TokenAnswersAreCurrent
<1>1. IInv => TokenAnswersAreCurrent
  BY DEF IInv, RequestInv, TokenInv, TokenAnswersAreCurrent
<1> QED
  BY <1>1, Inductive, PTL

(* IntrospectionIsCurrent: the same for the client VerifyToken.ts reads     *)
(* after it judged the token, with the store failing at any moment.         *)
THEOREM IntrospectionSafe == Spec => []IntrospectionIsCurrent
<1>1. IInv => IntrospectionIsCurrent
  BY DEF IInv, RequestInv, IntrospectionInv, IntrospectionIsCurrent, IsActive
<1> QED
  BY <1>1, Inductive, PTL

(* BootstrapOnce: no update, reset or creation of CreateClient.ts and its   *)
(* stores ever takes the mark of a bootstrap administrator away, so that a  *)
(* later bootstrap finds it.                                                *)
THEOREM BootstrapSafe == Spec => []BootstrapOnce
<1>1. IInv => BootstrapOnce
  BY DEF IInv, RequestInv, LateBootstrapInv, BootstrapOnce, HadAdministrator
<1> QED
  BY <1>1, Inductive, PTL

(* OnlyAdministratorsWrite: a statement, an insert or a commit is reached   *)
(* only past validateAdminTokenForAccess or as a bootstrap.                 *)
THEOREM WritersAreAdministrators == Spec => OnlyAdministratorsWrite
<1> DEFINE Authorized ==
        clients' # clients =>
            \E r \in Requests :
                /\ pc[r] \in {"statement", "insert", "commit"} /\ pc'[r] = "answer"
                /\ IsBootstrap(r) \/ ( /\ "admin" \in JwtRoles(bearer[r])
                                       /\ ~Expired(bearer[r], since[r].time))
<1>1. IInv /\ [Next]_vars => [Authorized]_vars
  <2> SUFFICES ASSUME IInv, [Next]_vars, clients' # clients PROVE Authorized
    OBVIOUS
  <2>1. PICK r \in Requests : Commit(r) \/ SingleStatement(r) \/ InsertBootstrapAdmin(r)
    BY DEF Next, Serve, Arrive, PluginsLoaded, Begin, ReadClient, TransactionStatement,
           CheckBootstrapAdminExists, StoreFails, Answer, Load, loadAuthorizationStore, Tick,
           Quiescent, vars
  <2>2. pc[r] \in {"statement", "insert", "commit"} /\ pc'[r] = "answer"
    BY <2>1 DEF Commit, SingleStatement, InsertBootstrapAdmin, IInv, TypeOK
  <2>3. AsAdministrator(r)
    BY <2>2 DEF IInv, RequestInv, WriteInv, Writing
  <2> QED
    BY <2>2, <2>3 DEF AsAdministrator
<1> QED
  BY <1>1, Inductive, PTL DEF Spec, OnlyAdministratorsWrite
================================================================================
