--------------------------- MODULE AuthMiddleware ---------------------------
(***************************************************************************)
(* The authorization of requests by one worker of the API, an OAuth client *)
(* of the server of AuthServer: it asks the server to introspect the       *)
(* caller's token, for which it needs a token of its own, and caches both  *)
(* what it learnt about the caller's token and its own token.              *)
(*                                                                         *)
(* Requests interleave at every await.  The two caches are variables of    *)
(* the module, shared by all of them; a restarted worker has lost both.    *)
(* The server handles a call in one step, at some moment between sending   *)
(* and answer (AuthServer has its steps).                                  *)
(***************************************************************************)
EXTENDS AuthTokens, FiniteSets

CONSTANTS
    Frontends,         \* requests under way at a time
    Callers,           \* the tokens callers present
    CacheTTL,          \* OAUTH_CLIENT_PROVIDED_TOKEN_CACHE_TTL, in ticks
    CacheMax,          \* OAUTH_CLIENT_PROVIDED_TOKEN_CACHE_MAX_ENTRIES
    MaxDelay,          \* bound on the time a call of the server takes
    ownClient          \* OWN_OAUTH_CLIENT_ID_FOR_CLIENT_AUTH

ASSUME TokensAssumption == Callers \subseteq Jwt /\ ownClient \in AnyClientId
ASSUME BoundsAssumption == CacheTTL \in Nat /\ CacheMax \in Nat \ {0} /\ MaxDelay \in Nat

VARIABLES
    now,              \* the clock
    active,           \* the clients that are active in the client store
    changedAt,        \* history: when a client was last deactivated or activated
    ownToken,         \* cachedOwnAccessTokenForClientAuth
    cached,           \* cachedClientsTokenInfo: the tokens in it, with their expiry
    pc,               \* where each request is
    token,            \* the caller's token
    sentAt,           \* when its call of the server was sent
    carried,          \* the own token that call carries
    reply,            \* what the server said
    outcome,          \* the result of authorize: a status, or the roles found
    began,            \* history: when the request began
    troubled          \* history: one of its calls failed

callVars == <<sentAt, carried, reply>>
storeVars == <<active, changedAt>>
vars == <<now, storeVars, ownToken, cached, pc, token, callVars, outcome, began, troubled>>

NoReply == "none"
VerifyReply == {"active", "inactive", "refused", "notJwt", "failed"}
OwnReply == {"token", "invalid", "failed"}
Phase == {"idle", "own1", "verify1", "own2", "verify2", "done"}

Refused(status) == [status |-> status, roles |-> {}]
Authorized(roles) == [status |-> 0, roles |-> roles]
Upstream == Authorized({"upstream"})
Undecided == Refused(1)
Outcome == [status : {0, 1, 400, 401, 500, 502},
            roles : SUBSET (AuthorizationClientRole \cup {"upstream"})]

TypeOK ==
    /\ now \in 0 .. MaxTime
    /\ active \subseteq Clients
    /\ changedAt \in [Clients -> 0 .. MaxTime]
    /\ ownToken \in Jwt
    /\ DOMAIN cached \subseteq Callers /\ \A t \in DOMAIN cached : cached[t] \in Nat
    /\ pc \in [Frontends -> Phase]
    /\ token \in [Frontends -> Callers \cup {NoBearer}]
    /\ sentAt \in [Frontends -> 0 .. MaxTime]
    /\ carried \in [Frontends -> Jwt]
    /\ reply \in [Frontends -> VerifyReply \cup OwnReply \cup {NoReply}]
    /\ outcome \in [Frontends -> Outcome]
    /\ began \in [Frontends -> 0 .. MaxTime]
    /\ troubled \in [Frontends -> BOOLEAN]
    /\ IsFiniteSet(DOMAIN cached) /\ Cardinality(DOMAIN cached) <= CacheMax

-----------------------------------------------------------------------------
(* The server (VerifyToken.ts and RequestToken.ts, one call in one step).   *)

ClientIsActive(t) == t.client_id \in active

VerifiedAs(requester, t) ==
    LET introspected == introspectBearerToken(t, now) IN
    IF ~validateTokenForAccess(requester, now) THEN "refused"
    ELSE IF introspected = "invalid" THEN "notJwt"
    ELSE IF ~MayIntrospect(requester, t) THEN "refused"
    ELSE IF introspected = "active" \/ (introspected = "askStore" /\ ClientIsActive(t))
         THEN "active" ELSE "inactive"

OnCall(f) == pc[f] \in {"own1", "verify1", "own2", "verify2"} /\ reply[f] = NoReply
AsksForOwn(f) == pc[f] \in {"own1", "own2"}

ServerAnswers(f) ==
    /\ OnCall(f)
    /\ IF AsksForOwn(f)
       THEN /\ reply' = [reply EXCEPT ![f] = "token"]
            /\ carried' = [carried EXCEPT ![f] = createToken(ownClient, {"verify-only"}, now)]
       ELSE /\ reply' = [reply EXCEPT ![f] = VerifiedAs(carried[f], token[f])]
            /\ UNCHANGED carried
    /\ UNCHANGED <<now, storeVars, ownToken, cached, pc, token, sentAt, outcome, began, troubled>>

(* The server cannot be reached, after the retries of axios, or answers 5xx;*)
(* or it refuses the credentials the worker was configured with: with 401   *)
(* or 404 as unknown, with 403, which authorize takes for a failure, as     *)
(* those of a client that is not active.                                    *)
CallFails(f, how) ==
    /\ OnCall(f)
    /\ how \in IF AsksForOwn(f) THEN {"failed", "invalid"} ELSE {"failed"}
    /\ reply' = [reply EXCEPT ![f] = how]
    /\ troubled' = [troubled EXCEPT ![f] = TRUE]
    /\ UNCHANGED <<now, storeVars, ownToken, cached, pc, token, sentAt, carried, outcome, began>>

-----------------------------------------------------------------------------
(* The worker.                                                              *)

(* The cache keeps an entry for CacheTTL and at most CacheMax of them; the  *)
(* one that would go first makes room.                                      *)
WithoutOldest(c) ==
    LET oldest == CHOOSE t \in DOMAIN c : \A u \in DOMAIN c : c[t] <= c[u]
    IN [t \in DOMAIN c \ {oldest} |-> c[t]]

(* Fault: the number of entries is not looked at.                           *)
CacheEverything(t) ==
    cached' = [u \in DOMAIN cached \cup {t} |-> IF u = t THEN now + CacheTTL ELSE cached[u]]

(* Fault: the entry lives as long as the token.                             *)
CacheUntilExpiry(t) ==
    LET c == [u \in DOMAIN cached \cup {t} |-> IF u = t THEN now + CacheTTL + TokenLife ELSE cached[u]]
    IN cached' = IF Cardinality(DOMAIN c) > CacheMax THEN WithoutOldest(c) ELSE c

Cache(t) ==
    LET c == [u \in DOMAIN cached \cup {t} |-> IF u = t THEN now + CacheTTL ELSE cached[u]]
    IN cached' = IF Cardinality(DOMAIN c) > CacheMax THEN WithoutOldest(c) ELSE c

(* Send one of the two calls: for an own token, or for the verification of  *)
(* the caller's token with the own token that is there at this moment.      *)
Send(f, phase, own) ==
    /\ pc' = [pc EXCEPT ![f] = phase]
    /\ sentAt' = [sentAt EXCEPT ![f] = now]
    /\ carried' = [carried EXCEPT ![f] = own]
    /\ reply' = [reply EXCEPT ![f] = NoReply]
    /\ UNCHANGED outcome

Conclude(f, result) ==
    /\ pc' = [pc EXCEPT ![f] = "done"]
    /\ outcome' = [outcome EXCEPT ![f] = result]
    /\ reply' = [reply EXCEPT ![f] = NoReply]
    /\ carried' = [carried EXCEPT ![f] = NoBearer]
    /\ sentAt' = [sentAt EXCEPT ![f] = 0]

(* authorize up to its first await.  A response another middleware has made *)
(* passes through whatever the bearer.                                      *)
authorize(f, t, isUpstream) ==
    /\ pc[f] = "idle"
    /\ isUpstream => t = NoBearer
    /\ token' = [token EXCEPT ![f] = t]
    /\ began' = [began EXCEPT ![f] = now]
    /\ troubled' = [troubled EXCEPT ![f] = FALSE]
    /\ IF isUpstream THEN Conclude(f, Upstream)
       ELSE IF t.kind = "missing" THEN Conclude(f, Refused(400))
       ELSE IF t \in DOMAIN cached THEN Conclude(f, Authorized(t.roles))
       ELSE IF ownToken = NoBearer THEN Send(f, "own1", NoBearer)
       ELSE Send(f, "verify1", ownToken)
    /\ UNCHANGED <<now, storeVars, ownToken, cached>>

(* The answer to the request for an own token: whatever own token other     *)
(* requests have put there meanwhile, this one takes its place.             *)
OwnTokenArrives(f) ==
    /\ AsksForOwn(f) /\ reply[f] # NoReply
    /\ IF reply[f] = "token"
       THEN /\ ownToken' = carried[f]
            /\ Send(f, IF pc[f] = "own1" THEN "verify1" ELSE "verify2", carried[f])
       ELSE /\ Conclude(f, Refused(IF reply[f] = "invalid" THEN 500 ELSE 502))
            /\ UNCHANGED ownToken
    /\ UNCHANGED <<now, storeVars, cached, token, began, troubled>>

(* Fault: whatever is not "active" is the caller's fault.                   *)
EveryFailureIsA401(answer) == 401

VerificationStatus(answer) ==
    CASE answer \in {"notJwt", "inactive"} -> 401
      [] answer = "failed" -> 500
      [] answer = "refused" -> 502

(* Fault: the own token is not renewed when the server refuses it.          *)
NeverRenewed(f) == FALSE

(* Fault: the call is repeated until it succeeds.                           *)
TriesAgain(f) == reply[f] \in {"refused", "failed"}

(* A refused own token is renewed, once.                                    *)
RenewsOwnToken(f) == pc[f] = "verify1" /\ reply[f] = "refused"

VerificationArrives(f) ==
    /\ pc[f] \in {"verify1", "verify2"} /\ reply[f] # NoReply
    /\ IF RenewsOwnToken(f) THEN Send(f, "own2", NoBearer) /\ UNCHANGED cached
       ELSE IF reply[f] = "active" THEN Conclude(f, Authorized(token[f].roles)) /\ Cache(token[f])
       ELSE Conclude(f, Refused(VerificationStatus(reply[f]))) /\ UNCHANGED cached
    /\ UNCHANGED <<now, storeVars, ownToken, token, began, troubled>>

(* The request goes on with what authorize said; the slot takes another.    *)
Leave(f) ==
    /\ pc[f] = "done"
    /\ pc' = [pc EXCEPT ![f] = "idle"]
    /\ token' = [token EXCEPT ![f] = NoBearer]
    /\ outcome' = [outcome EXCEPT ![f] = Undecided]
    /\ began' = [began EXCEPT ![f] = 0]
    /\ troubled' = [troubled EXCEPT ![f] = FALSE]
    /\ UNCHANGED <<now, storeVars, ownToken, cached, callVars>>

(* The worker ends and another takes its place.                             *)
Restart ==
    /\ ownToken' = NoBearer
    /\ cached' = [t \in {} |-> 0]
    /\ pc' = [f \in Frontends |-> "idle"]
    /\ token' = [f \in Frontends |-> NoBearer]
    /\ sentAt' = [f \in Frontends |-> 0]
    /\ carried' = [f \in Frontends |-> NoBearer]
    /\ reply' = [f \in Frontends |-> NoReply]
    /\ outcome' = [f \in Frontends |-> Undecided]
    /\ began' = [f \in Frontends |-> 0]
    /\ troubled' = [f \in Frontends |-> FALSE]
    /\ UNCHANGED <<now, storeVars>>

-----------------------------------------------------------------------------
(* The world: clients are deactivated and activated, and time passes.  What *)
(* becomes of the worker's own client shows in CallFails.                   *)

Deactivate(c) ==
    /\ c \in active \ {ownClient}
    /\ active' = active \ {c}
    /\ changedAt' = [changedAt EXCEPT ![c] = now]
    /\ UNCHANGED <<now, ownToken, cached, pc, token, callVars, outcome, began, troubled>>

Activate(c) ==
    /\ c \notin active
    /\ active' = active \cup {c}
    /\ changedAt' = [changedAt EXCEPT ![c] = now]
    /\ UNCHANGED <<now, ownToken, cached, pc, token, callVars, outcome, began, troubled>>

(* The timer of the cache drops an entry when its time is over.  No call    *)
(* takes longer than MaxDelay, and what was decided is passed on at once.   *)
Tick ==
    /\ now < MaxTime
    /\ \A f \in Frontends : pc[f] \notin {"idle", "done"} => now < sentAt[f] + MaxDelay
    /\ \A f \in Frontends : pc[f] # "done"
    /\ now' = now + 1
    /\ cached' = [t \in {u \in DOMAIN cached : now + 1 <= cached[u]} |-> cached[t]]
    /\ UNCHANGED <<storeVars, ownToken, pc, token, callVars, outcome, began, troubled>>

-----------------------------------------------------------------------------
Init ==
    /\ now = 0
    /\ active = Clients
    /\ changedAt = [c \in Clients |-> 0]
    /\ ownToken = NoBearer
    /\ cached = [t \in {} |-> 0]
    /\ pc = [f \in Frontends |-> "idle"]
    /\ token = [f \in Frontends |-> NoBearer]
    /\ sentAt = [f \in Frontends |-> 0]
    /\ carried = [f \in Frontends |-> NoBearer]
    /\ reply = [f \in Frontends |-> NoReply]
    /\ outcome = [f \in Frontends |-> Undecided]
    /\ began = [f \in Frontends |-> 0]
    /\ troubled = [f \in Frontends |-> FALSE]

Proceed(f) == OwnTokenArrives(f) \/ VerificationArrives(f) \/ Leave(f)
Reply(f) == ServerAnswers(f) \/ \E how \in {"failed", "invalid"} : CallFails(f, how)

Next ==
    \/ \E f \in Frontends, t \in Callers \cup {NoBearer}, isUpstream \in BOOLEAN :
           authorize(f, t, isUpstream)
    \/ \E f \in Frontends : Proceed(f) \/ Reply(f)
    \/ \E c \in Clients : Deactivate(c) \/ Activate(c)
    \/ Restart
    \/ Tick

Spec == Init /\ [][Next]_vars

(* A call ends, if only with an error, and Node resumes who waited for it.  *)
Fairness == \A f \in Frontends : WF_vars(Proceed(f)) /\ WF_vars(Reply(f))
FairSpec == Spec /\ Fairness

-----------------------------------------------------------------------------
(* Properties.                                                              *)

IsAuthorized(f) == pc[f] = "done" /\ outcome[f].status = 0 /\ outcome[f] # Upstream

(* AuthorizationMiddleware.ts asks the server once per CacheTTL and token:  *)
(* who is authorized has a token that was good no longer ago than the cache *)
(* keeps it and the call that filled the cache can have taken, whichever    *)
(* requests, deactivations and restarts came in between.  The built-in      *)
(* clients are always active, where they are enabled.                       *)
AuthorizedWasGood ==
    \A f \in Frontends :
        IsAuthorized(f) =>
            LET t == token[f] IN
            /\ t.kind = "signed" /\ t.iss = "own"
            /\ now <= t.exp + CacheTTL + MaxDelay
            /\ \/ HardcodedEnabled /\ t.client_id \in HardcodedKey
               \/ t.client_id \in active
               \/ now <= changedAt[t.client_id] + CacheTTL + MaxDelay

(* A caller is told 401 only for a reason that lies with its own token: it  *)
(* is none of this server's, it has expired, or its client was not active   *)
(* at some moment of the request.  That the worker's own token expired, was *)
(* replaced by another request or was lost is never the caller's 401.       *)
RefusedWasBad ==
    \A f \in Frontends :
        pc[f] = "done" /\ outcome[f].status = 401 =>
            LET t == token[f] IN
            \/ t.kind # "signed" \/ t.iss # "own" \/ Expired(t, now)
            \/ t.client_id \notin active \/ changedAt[t.client_id] >= began[f]

(* An own token that expires, for all the requests that share it at once,   *)
(* is renewed unnoticed: authorize answers 500 or 502 only when one of its  *)
(* calls to the server failed.  The own token has to outlive two calls: the *)
(* one that brings it and the one that carries it.                          *)
GatewayErrorsHaveACause ==
    TokenLife >= 2 * MaxDelay =>
        \A f \in Frontends : pc[f] = "done" /\ outcome[f].status \in {500, 502} => troubled[f]

(* Every request gets its answer or falls with its worker: no request waits *)
(* for the own token another one is fetching.                               *)
EveryRequestAuthorized == \A f \in Frontends : pc[f] # "idle" ~> pc[f] \in {"done", "idle"}
=============================================================================
