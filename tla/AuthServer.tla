----------------------------- MODULE AuthServer -----------------------------
(***************************************************************************)
(* The OAuth server and its client store: requests for tokens, their       *)
(* introspection, and the management of clients, over the store plugin of  *)
(* either backend.                                                         *)
(*                                                                         *)
(* A handler runs without interruption up to the call of the store, the    *)
(* store answers at some later moment, and the handler answers from what   *)
(* the store said then.  MongoDB writes in a transaction that another      *)
(* request cannot see before it is committed; PostgreSQL writes in single  *)
(* statements, a creation in BEGIN and COMMIT.                             *)
(***************************************************************************)
EXTENDS AuthTokens, FiniteSets, Sequences

CONSTANTS
    Requests,          \* requests the server is sent
    Inputs,            \* what they can ask for, bearers apart
    InitialClients,    \* client stores the server may start with
    Foreign,           \* bearers that are no token of this server
    NoClient           \* no client

(* Secrets are told apart by the order they were generated in, or by the    *)
(* request that made them up.                                               *)
Secret == Requests \cup {"first", "guess", "hardcoded"}
hashClientSecretBuffer(secret) == [hash |-> secret]

Active == {"true", "false", "null"}
ClientDocument == [clientSecretHashed : [hash : Secret], roles : SUBSET AuthorizationClientRole,
                   active : Active, isBootstrapAdmin : BOOLEAN]

ReadOp == {"requestToken", "verifyToken", "getClientById", "getClients"}
WriteOp == {"createClient", "updateClient", "resetSecret"}
ClientOp == {"getClientById", "updateClient", "resetSecret"}
Body == {"none", "malformed", "invalid", "misspelled", "valid", "grantOnly"}
Header == {"none", "basic", "malformed"}
Input == [op : ReadOp \cup WriteOp, clientId : AnyClientId, secret : Secret,
          roles : SUBSET AuthorizationClientRole, active : {"true", "false", "omitted"},
          body : Body, header : Header]

Plugin == {"none", "loading", "failed", "mongodb", "postgresql"}

ASSUME InputsAssumption == Inputs # {} /\ Inputs \subseteq Input
ASSUME ForeignAssumption == Foreign \subseteq Jwt
ASSUME ClientsAssumption ==
    /\ InitialClients \subseteq [Clients -> ClientDocument \cup {NoClient}]
    /\ NoClient \notin ClientDocument

VARIABLES
    plugin,      \* the loaded authorization store plugin
    clients,     \* the committed authorizations collection or table
    now,         \* the clock
    issued,      \* the tokens that were handed out
    pc,          \* where each request is
    input,       \* what it asks for
    bearer,      \* the bearer in its Authorization header
    subject,     \* the token it wants to have introspected, or is given
    target,      \* the client it is about, after the path and ClientId.new
    found,       \* what the store answered
    status,      \* its response, 0 until there is one
    past,        \* history: the states each client went through
    since        \* history: how many of them there were, and the time, on arrival

requestVars == <<pc, input, bearer, subject, target, found, status, since>>
vars == <<plugin, clients, now, issued, requestVars, past>>

Progress == {"idle", "plugins", "begin", "read", "statement", "insert", "commit", "answer", "done"}
(* The answers of the store, whatever the call; a read also has a document. *)
StoreResponse == {"SUCCESS", "NOT_EXISTS", "ALREADY_EXISTS", "UNKNOWN_FAILURE"}
Responded(response) == [response |-> response, document |-> NoClient]

TypeOK ==
    /\ plugin \in Plugin
    /\ clients \in [Clients -> ClientDocument \cup {NoClient}]
    /\ now \in 0 .. MaxTime
    /\ issued \subseteq Jwt
    /\ pc \in [Requests -> Progress]
    /\ input \in [Requests -> Input]
    /\ bearer \in [Requests -> Jwt]
    /\ subject \in [Requests -> Jwt]
    /\ target \in [Requests -> AnyClientId]
    /\ found \in [Requests -> [response : StoreResponse, document : ClientDocument \cup {NoClient}]]
    /\ status \in [Requests -> {0, 200, 201, 204, 400, 401, 403, 404, 500}]

-----------------------------------------------------------------------------
(* Reading the body and the path of a request.                              *)

(* A body with a misspelled property passes once the suggestion is applied. *)
BodyIsValid(q) == q.body \in {"valid", "misspelled", "grantOnly"}

(* Credentials are in the body, or else in the Authorization header, where  *)
(* they have to be "Basic" and to split in two.                             *)
parseRequestTokenBody(q) ==
    BodyIsValid(q) /\ (q.body = "grantOnly" => q.header = "basic")

(* The body a handler needs: none for what is told by the path alone.       *)
parsedBody(q) ==
    CASE q.op = "requestToken" -> parseRequestTokenBody(q)
      [] q.op \in {"verifyToken", "createClient", "updateClient"} -> BodyIsValid(q)
      [] OTHER -> TRUE

MissingClientId(q) == q.op \in ClientOp /\ q.clientId = NoClientId

IsBootstrap(r) == input[r].op = "createClient" /\ bearer[r] = NoBearer

NeedsAdmin(r) == input[r].op \notin {"requestToken", "verifyToken"} /\ ~IsBootstrap(r)

(* A bootstrap is for an administrator and for nothing else.                *)
AsksForAdminOnly(q) == q.roles = {"admin"}

(* requestToken for the two credentials the program is built with; 0 when   *)
(* the store decides.                                                       *)
HardcodedStatus(q) ==
    IF q.clientId \notin HardcodedKey THEN 0
    ELSE IF ~HardcodedEnabled THEN 401
    ELSE IF q.secret = "hardcoded" THEN 200 ELSE 0

(* verifyToken as far as the token itself tells.                            *)
IntrospectedStatus(r) ==
    LET introspected == introspectBearerToken(subject[r], now) IN
    IF introspected = "invalid" THEN 400
    ELSE IF introspected = "askStore" THEN 0
    ELSE IF MayIntrospect(bearer[r], subject[r]) THEN 200 ELSE 401

(* The response a request gets before the store is asked, in the order of   *)
(* the checks; 0 when the store is asked.                                   *)
EarlyStatus(r) ==
    LET q == input[r]
        refused == validateAdminTokenForAccess(bearer[r], now)
    IN IF NeedsAdmin(r) /\ refused # 0 THEN refused
       ELSE IF q.op = "verifyToken" /\ ~validateTokenForAccess(bearer[r], now) THEN 401
       ELSE IF MissingClientId(q) \/ ~parsedBody(q) THEN 400
       ELSE IF q.op = "requestToken" THEN HardcodedStatus(q)
       ELSE IF q.op = "verifyToken" THEN IntrospectedStatus(r)
       ELSE IF IsBootstrap(r) /\ ~AsksForAdminOnly(q) THEN 401 ELSE 0

-----------------------------------------------------------------------------
(* Requests arrive; the first of them has the store plugin loaded, once.    *)

(* ClientId.new: an id nobody has.                                          *)
IsFresh(c) ==
    /\ clients[c] = NoClient
    /\ \A r \in Requests : input[r].op = "createClient" => target[r] # c
NewClientId == CHOOSE c \in Clients : IsFresh(c)

(* Callers present tokens they were given, foreign ones, or none.  What a   *)
(* handler does not look at is left out.                                    *)
BearersFor(q) == IF q.op = "requestToken" THEN {NoBearer} ELSE issued \cup Foreign
SubjectsFor(q) == IF q.op = "verifyToken" THEN issued \cup (Foreign \ {NoBearer}) ELSE {NoBearer}

Arrive(r, q, b, s) ==
    /\ pc[r] = "idle"
    /\ input' = [input EXCEPT ![r] = q]
    /\ bearer' = [bearer EXCEPT ![r] = b]
    /\ subject' = [subject EXCEPT ![r] = s]
    /\ since' = [since EXCEPT ![r] = [time |-> now, at |-> [c \in Clients |-> Len(past[c])]]]
    /\ pc' = [pc EXCEPT ![r] = "plugins"]
    /\ plugin' = IF plugin = "none" THEN "loading" ELSE plugin
    /\ UNCHANGED <<clients, now, issued, target, found, status, past>>

(* The import of the plugin ends; an error is logged and the store stays    *)
(* the one that fails every call.                                           *)
loadAuthorizationStore(outcome) ==
    /\ plugin = "loading"
    /\ plugin' = outcome
    /\ UNCHANGED <<clients, now, issued, requestVars, past>>

(* Fault: they wait for a store rather than for the attempt.                *)
StoreLoaded(r) ==
    /\ pc[r] = "plugins"
    /\ plugin \in {"mongodb", "postgresql"}
    /\ pc' = [pc EXCEPT ![r] = "begin"]
    /\ UNCHANGED <<plugin, clients, now, issued, input, bearer, subject, target, found, status, past, since>>

(* ensurePluginsLoaded is over for everyone who waited for it.              *)
PluginsLoaded(r) ==
    /\ pc[r] = "plugins"
    /\ plugin # "loading"
    /\ pc' = [pc EXCEPT ![r] = "begin"]
    /\ UNCHANGED <<plugin, clients, now, issued, input, bearer, subject, target, found, status, past, since>>

FirstStep(q) == IF q.op \in ReadOp THEN "read" ELSE "statement"

(* A token for one of the built-in credentials needs no store.              *)
GivenHardcoded(r) ==
    IF input[r].op = "requestToken" /\ EarlyStatus(r) = 200
    THEN createToken(input[r].clientId, HardcodedRoles(input[r].clientId), now) ELSE subject[r]

CreatesClient(r) == input[r].op = "createClient" /\ EarlyStatus(r) = 0

(* Clients bounds the number of clients: ids are there for all who create.  *)
Begin(r) ==
    /\ pc[r] = "begin"
    /\ CreatesClient(r) => \E c \in Clients : IsFresh(c)
    /\ target' = [target EXCEPT ![r] =
           IF CreatesClient(r) THEN NewClientId
           ELSE IF input[r].op = "createClient" THEN NoClientId ELSE input[r].clientId]
    /\ status' = [status EXCEPT ![r] = EarlyStatus(r)]
    /\ subject' = [subject EXCEPT ![r] = GivenHardcoded(r)]
    /\ issued' = IF GivenHardcoded(r) = subject[r] THEN issued ELSE issued \cup {GivenHardcoded(r)}
    /\ pc' = [pc EXCEPT ![r] = IF EarlyStatus(r) # 0 THEN "done" ELSE FirstStep(input[r])]
    /\ UNCHANGED <<plugin, clients, now, input, bearer, found, past, since>>

-----------------------------------------------------------------------------
(* The client store.                                                        *)

(* Fault: a missing "active" is stored as it is.                            *)
UpdatedAsAsked(active) == active

(* PostgreSQL takes a missing "active" for true, whatever the client was;   *)
(* MongoDB stores it as null, which no reader takes for true.               *)
UpdatedActive(active) ==
    IF active # "omitted" THEN active ELSE IF plugin = "postgresql" THEN "true" ELSE "null"

authorizationDocumentFromCreate(r, isBootstrapAdmin) ==
    [clientSecretHashed |-> hashClientSecretBuffer(r), roles |-> input[r].roles,
     active |-> IF input[r].active = "omitted" THEN "true" ELSE input[r].active,
     isBootstrapAdmin |-> isBootstrapAdmin]

(* What a statement makes of the document of its client.                    *)
Written(r, old) ==
    CASE input[r].op = "createClient" -> authorizationDocumentFromCreate(r, IsBootstrap(r))
      [] input[r].op = "updateClient" ->
             [clientSecretHashed |-> old.clientSecretHashed, roles |-> input[r].roles,
              active |-> UpdatedActive(input[r].active), isBootstrapAdmin |-> old.isBootstrapAdmin]
      [] input[r].op = "resetSecret" ->
             [clientSecretHashed |-> hashClientSecretBuffer(r), roles |-> old.roles,
              active |-> old.active, isBootstrapAdmin |-> old.isBootstrapAdmin]

(* Fault: a bootstrap administrator that was deactivated is overlooked.     *)
ActiveBootstrapAdminExists ==
    \E c \in Clients :
        clients[c] # NoClient /\ clients[c].isBootstrapAdmin /\ clients[c].active = "true"

BootstrapAdminExists == \E c \in Clients : clients[c] # NoClient /\ clients[c].isBootstrapAdmin

(* The outcome of a statement, known before it is committed.                *)
StatementOutcome(r) ==
    IF input[r].op = "createClient"
    THEN IF IsBootstrap(r) /\ BootstrapAdminExists THEN "ALREADY_EXISTS" ELSE "SUCCESS"
    ELSE IF target[r] \in Clients /\ clients[target[r]] # NoClient THEN "SUCCESS" ELSE "NOT_EXISTS"

StoreIsThere == plugin \in {"mongodb", "postgresql"}

(* The connection is lost before the store's reply to r is there.           *)
ReplyLost(r) == found' = [found EXCEPT ![r] = Responded("UNKNOWN_FAILURE")]

(* The store cannot be reached, or there is no store plugin.                *)
StoreFails(r) ==
    /\ pc[r] \in {"read", "statement", "insert"}
    /\ ReplyLost(r)
    /\ pc' = [pc EXCEPT ![r] = "answer"]
    /\ UNCHANGED <<plugin, clients, now, issued, input, bearer, subject, target, status, past, since>>

(* getAuthorizationClient and getAllAuthorizationClients: the committed     *)
(* document of the client, as it is at this moment.  No client of the       *)
(* introspected token: it counts as one that does not exist.                *)
ReadClient(r) ==
    LET c == IF input[r].op = "verifyToken" THEN JwtClientId(subject[r]) ELSE target[r] IN
    /\ pc[r] = "read"
    /\ StoreIsThere
    /\ found' = [found EXCEPT ![r] =
           IF input[r].op = "getClients"
           THEN IF plugin = "postgresql" /\ \A d \in Clients : clients[d] = NoClient
                THEN Responded("NOT_EXISTS") ELSE Responded("SUCCESS")
           ELSE IF c \in Clients /\ clients[c] # NoClient
                THEN [response |-> "SUCCESS", document |-> clients[c]] ELSE Responded("NOT_EXISTS")]
    /\ target' = [target EXCEPT ![r] = c]
    /\ pc' = [pc EXCEPT ![r] = "answer"]
    /\ UNCHANGED <<plugin, clients, now, issued, input, bearer, subject, status, past, since>>

Committed(r) ==
    LET document == Written(r, clients[target[r]]) IN
    /\ clients' = [clients EXCEPT ![target[r]] = document]
    /\ past' = [past EXCEPT ![target[r]] = Append(@, document)]

Uncommitted == UNCHANGED <<clients, past>>

(* Transactions that write one document follow one another: the later is    *)
(* retried until the earlier has ended.                                     *)
Unlocked(r) == \A o \in Requests : pc[o] = "commit" => target[o] # target[r]

HasTransaction(r) == plugin = "mongodb" \/ (input[r].op = "createClient" /\ ~IsBootstrap(r))

(* A statement in a transaction.  The response is decided here, before the  *)
(* commit.                                                                  *)
TransactionStatement(r) ==
    /\ pc[r] = "statement"
    /\ StoreIsThere
    /\ HasTransaction(r)
    /\ Unlocked(r)
    /\ found' = [found EXCEPT ![r] = Responded(StatementOutcome(r))]
    /\ pc' = [pc EXCEPT ![r] = IF StatementOutcome(r) = "SUCCESS" THEN "commit" ELSE "answer"]
    /\ UNCHANGED <<plugin, clients, now, issued, input, bearer, subject, target, status, past, since>>

(* The transaction is committed, or the connection is lost before it is:    *)
(* the error is logged, and the response stays the one already decided,     *)
(* unless PostgreSQL's rollback is rejected too.                            *)
Commit(r) ==
    /\ pc[r] = "commit"
    /\ Committed(r) \/ Uncommitted
    /\ found' = found \/ (plugin = "postgresql" /\ ReplyLost(r))
    /\ pc' = [pc EXCEPT ![r] = "answer"]
    /\ UNCHANGED <<plugin, now, issued, input, bearer, subject, target, status, since>>

(* PostgreSQL updates and resets a client in one statement.                 *)
SingleStatement(r) ==
    /\ pc[r] = "statement"
    /\ plugin = "postgresql"
    /\ input[r].op # "createClient"
    /\ found' = [found EXCEPT ![r] = Responded(StatementOutcome(r))] \/ ReplyLost(r)
    /\ IF StatementOutcome(r) = "SUCCESS" THEN Committed(r) ELSE Uncommitted
    /\ pc' = [pc EXCEPT ![r] = "answer"]
    /\ UNCHANGED <<plugin, now, issued, input, bearer, subject, target, status, since>>

(* PostgreSQL looks for a bootstrap administrator in one statement and      *)
(* inserts it in another, outside a transaction.                            *)
CheckBootstrapAdminExists(r) ==
    /\ pc[r] = "statement"
    /\ plugin = "postgresql"
    /\ IsBootstrap(r)
    /\ found' = [found EXCEPT ![r] = Responded(StatementOutcome(r))]
    /\ pc' = [pc EXCEPT ![r] = IF BootstrapAdminExists THEN "answer" ELSE "insert"]
    /\ UNCHANGED <<plugin, clients, now, issued, input, bearer, subject, target, status, past, since>>

InsertBootstrapAdmin(r) ==
    /\ pc[r] = "insert"
    /\ Committed(r)
    /\ found' = found \/ ReplyLost(r)
    /\ pc' = [pc EXCEPT ![r] = "answer"]
    /\ UNCHANGED <<plugin, now, issued, input, bearer, subject, target, status, since>>

-----------------------------------------------------------------------------
(* The handlers answer from what the store said.                            *)

SuccessStatus(q) ==
    CASE q.op \in ReadOp -> 200
      [] q.op = "updateClient" -> 204
      [] OTHER -> 201

(* Fault: the secret is not compared.                                       *)
AnySecretStatus(q, client) ==
    IF client = NoClient THEN 401
    ELSE IF client.active # "true" THEN 403 ELSE 200

(* requestToken for a client of the store.                                  *)
TokenRequestStatus(q, client) ==
    IF client = NoClient THEN 401
    ELSE IF client.active # "true" THEN 403
    ELSE IF client.clientSecretHashed # hashClientSecretBuffer(q.secret) THEN 401 ELSE 200

(* verifyToken once the client of the token was looked for.                 *)
VerifyStatus(r) == IF MayIntrospect(bearer[r], subject[r]) THEN 200 ELSE 401

(* A store that fails while a token is introspected makes it inactive.      *)
ResponseStatus(r) ==
    IF input[r].op = "verifyToken" THEN VerifyStatus(r)
    ELSE IF found[r].response = "UNKNOWN_FAILURE" THEN 500
    ELSE IF input[r].op = "requestToken" THEN TokenRequestStatus(input[r], found[r].document)
    ELSE IF found[r].response = "NOT_EXISTS" THEN 404
    ELSE IF found[r].response = "ALREADY_EXISTS" THEN 401 ELSE SuccessStatus(input[r])

TokenFor(r) ==
    IF input[r].op = "requestToken" /\ ResponseStatus(r) = 200
    THEN createToken(target[r], found[r].document.roles, now) ELSE subject[r]

Answer(r) ==
    /\ pc[r] = "answer"
    /\ status' = [status EXCEPT ![r] = ResponseStatus(r)]
    /\ subject' = [subject EXCEPT ![r] = TokenFor(r)]
    /\ issued' = IF TokenFor(r) = subject[r] THEN issued ELSE issued \cup {TokenFor(r)}
    /\ pc' = [pc EXCEPT ![r] = "done"]
    /\ UNCHANGED <<plugin, clients, now, input, bearer, target, found, past, since>>

Tick ==
    /\ now < MaxTime
    /\ now' = now + 1
    /\ UNCHANGED <<plugin, clients, issued, requestVars, past>>

Quiescent == (\A r \in Requests : pc[r] \in {"idle", "done"}) /\ UNCHANGED vars

-----------------------------------------------------------------------------
Init ==
    /\ plugin = "none"
    /\ clients \in InitialClients
    /\ now = 0
    /\ issued = {}
    /\ pc = [r \in Requests |-> "idle"]
    /\ input \in [Requests -> {CHOOSE q \in Inputs : TRUE}]
    /\ bearer = [r \in Requests |-> NoBearer]
    /\ subject = [r \in Requests |-> NoBearer]
    /\ target = [r \in Requests |-> NoClientId]
    /\ found = [r \in Requests |-> Responded("NOT_EXISTS")]
    /\ status = [r \in Requests |-> 0]
    /\ past = [c \in Clients |-> IF clients[c] = NoClient THEN <<>> ELSE <<clients[c]>>]
    /\ since = [r \in Requests |-> [time |-> 0, at |-> [c \in Clients |-> 0]]]

(* The steps of the server itself, and those of its store.                  *)
Serve(r) ==
    \/ PluginsLoaded(r)
    \/ Begin(r)
    \/ ReadClient(r)
    \/ TransactionStatement(r)
    \/ Commit(r)
    \/ SingleStatement(r)
    \/ CheckBootstrapAdminExists(r)
    \/ InsertBootstrapAdmin(r)
    \/ StoreFails(r)
    \/ Answer(r)

Load == \E outcome \in {"mongodb", "postgresql", "failed"} : loadAuthorizationStore(outcome)

Next ==
    \/ \E r \in Requests, q \in Inputs :
           \E b \in BearersFor(q), s \in SubjectsFor(q) : Arrive(r, q, b, s)
    \/ \E r \in Requests : Serve(r)
    \/ Load
    \/ Tick
    \/ Quiescent

Spec == Init /\ [][Next]_vars

(* Node runs every request on; an import and a call of the store end, if    *)
(* only with an error.                                                      *)
Fairness == WF_vars(Load) /\ \A r \in Requests : WF_vars(Serve(r))
FairSpec == Spec /\ Fairness

-----------------------------------------------------------------------------
(* Properties.                                                              *)

(* The states a client was in while a request was under way.                *)
States(r, c) ==
    {IF i = 0 THEN NoClient ELSE past[c][i] : i \in since[r].at[c] .. Len(past[c])}

Lets(client, secret) ==
    /\ client # NoClient
    /\ client.active = "true"
    /\ client.clientSecretHashed = hashClientSecretBuffer(secret)

(* RequestToken.ts reads a client and answers later; clients are updated,   *)
(* deactivated and given new secrets meanwhile.  Every answer is one the    *)
(* client warranted at some moment since the request arrived: a token       *)
(* carries roles the client had together with this secret while it was      *)
(* active, and a refusal was called for.                                    *)
TokenAnswersAreCurrent ==
    \A r \in Requests :
        pc[r] = "done" /\ input[r].op = "requestToken" /\ target[r] \in Clients =>
            /\ status[r] = 200 =>
                   \E client \in States(r, target[r]) :
                       Lets(client, input[r].secret) /\ client.roles = subject[r].roles
            /\ status[r] \in {401, 403} =>
                   \E client \in States(r, target[r]) : ~Lets(client, input[r].secret)

(* VerifyToken.ts: a token is said to be active only if it had not expired  *)
(* when the request arrived and its client was active at some moment since; *)
(* and to be inactive only if it has expired, its client was not active, or *)
(* the store could not be asked.                                            *)
SaysActive(r) == found[r].document # NoClient /\ found[r].document.active = "true"
IntrospectionIsCurrent ==
    \A r \in Requests :
        LET c == subject[r].client_id IN
        pc[r] = "done" /\ input[r].op = "verifyToken" /\ status[r] = 200 /\ c \in Clients =>
            IF SaysActive(r)
            THEN /\ ~Expired(subject[r], since[r].time)
                 /\ \E client \in States(r, c) : client # NoClient /\ client.active = "true"
            ELSE \/ Expired(subject[r], now)
                 \/ found[r].response = "UNKNOWN_FAILURE"
                 \/ \E client \in States(r, c) : client = NoClient \/ client.active # "true"

(* CreateClient.ts: a bootstrap that arrives when a bootstrap administrator *)
(* is stored is refused, whatever was done to that administrator since it   *)
(* was created.                                                             *)
BootstrapOnce ==
    \A r \in Requests :
        /\ pc[r] = "done" /\ IsBootstrap(r)
        /\ \E c \in Clients : since[r].at[c] > 0 /\ past[c][since[r].at[c]].isBootstrapAdmin
        => status[r] # 201

(* The store changes only on behalf of a request whose bearer, on arrival,  *)
(* was an unexpired token with the role "admin" (validateAdminTokenForAccess*)
(* in every managing handler), or of a bootstrap.                           *)
OnlyAdministratorsWrite ==
    [][clients' # clients =>
        \E r \in Requests :
            /\ pc[r] \in {"statement", "insert", "commit"} /\ pc'[r] = "answer"
            /\ IsBootstrap(r) \/ ( /\ "admin" \in JwtRoles(bearer[r])
                                   /\ ~Expired(bearer[r], since[r].time))]_vars

(* Every request is answered, also when the plugin cannot be loaded or the  *)
(* store cannot be reached.                                                 *)
EveryRequestAnswered == \A r \in Requests : pc[r] = "plugins" ~> pc[r] = "done"
=============================================================================
