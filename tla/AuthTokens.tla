----------------------------- MODULE AuthTokens -----------------------------
(***************************************************************************)
(* The bearer tokens of the authorization server: what a signed token      *)
(* carries, how a request that carries one is admitted, and what the       *)
(* introspection of one decides before the client store is asked.          *)
(*                                                                         *)
(* A token is self-contained: it is judged by its signature, its issuer    *)
(* and its expiry alone, and a role it carries is the role its client had  *)
(* when it was issued.                                                     *)
(***************************************************************************)
EXTENDS Integers

CONSTANTS
    Clients,           \* client ids ClientId.new can return
    TokenLife,         \* OAUTH_EXPIRATION_MINUTES, in ticks of the clock
    MaxTime,           \* bound on the clock
    HardcodedEnabled   \* OAUTH_HARD_CODED_CREDENTIALS_ENABLED

ASSUME TokenLifeAssumption == TokenLife \in Nat
ASSUME MaxTimeAssumption == MaxTime \in Nat
ASSUME HardcodedAssumption == HardcodedEnabled \in BOOLEAN

admin1 == "meadowlark_admin_key_1"
verifyOnly1 == "meadowlark_verify-only_key_1"
HardcodedKey == {admin1, verifyOnly1}
HardcodedRoles(key) == IF key = admin1 THEN {"admin"} ELSE {"verify-only"}
ASSUME HardcodedIdsAssumption == Clients \cap HardcodedKey = {}

NoClientId == ""
AnyClientId == Clients \cup HardcodedKey \cup {NoClientId}

AuthorizationClientRole == {"vendor", "host", "admin", "assessment", "verify-only"}

(* What verify of nJwt makes of a bearer: a token signed with the signing   *)
(* key, one whose signature fails or that cannot be parsed, one it refuses  *)
(* for another reason (an algorithm, a "not before"), or no bearer at all.  *)
BearerKind == {"signed", "unreadable", "refused", "missing"}
Issuer == {"own", "other"}
Jwt == [kind : BearerKind, client_id : AnyClientId, roles : SUBSET AuthorizationClientRole,
        exp : Int, iss : Issuer]

Bearer(kind) == [kind |-> kind, client_id |-> NoClientId, roles |-> {}, exp |-> 0, iss |-> "other"]
NoBearer == Bearer("missing")

(* A token for the client with the roles the store held when it was read;   *)
(* the clock is read when the token is made.                                *)
createToken(clientId, roles, time) ==
    [kind |-> "signed", client_id |-> clientId, roles |-> roles,
     exp |-> time + TokenLife, iss |-> "own"]

Expired(token, time) == token.kind = "signed" /\ time > token.exp

(* The claims of a bearer nJwt refused are not there to be read.            *)
JwtRoles(token) == IF token.kind = "signed" THEN token.roles ELSE {}
JwtClientId(token) == IF token.kind = "signed" THEN token.client_id ELSE NoClientId

hasAdminRole(roles) == "admin" \in roles
hasAdminOrVerifyOnlyRole(roles) == hasAdminRole(roles) \/ "verify-only" \in roles

(* A bearer gives access unless it is missing, expired, unreadable or has   *)
(* the wrong signature; issuer, audience and client store are not asked.    *)
validateTokenForAccess(token, time) ==
    token.kind \in {"signed", "refused"} /\ ~Expired(token, time)

(* Fault: the role of the token is not looked at.                           *)
AnyTokenForAccess(token, time) ==
    IF ~validateTokenForAccess(token, time) THEN 401 ELSE 0

(* The status a request for an administrator is refused with, 0 if it is    *)
(* not.                                                                     *)
validateAdminTokenForAccess(token, time) ==
    IF ~validateTokenForAccess(token, time) THEN 401
    ELSE IF ~hasAdminRole(JwtRoles(token)) THEN 403 ELSE 0

(* Fault: the expiry is not looked at.                                      *)
NeverExpired(token, time) ==
    IF token.kind # "signed" \/ token.iss # "own" THEN "invalid"
    ELSE IF HardcodedEnabled /\ token.client_id \in HardcodedKey THEN "active"
    ELSE "askStore"

(* The first half of introspectBearerToken: the bearer is no token of this  *)
(* server, one that has expired, or one whose client decides.               *)
introspectBearerToken(token, time) ==
    IF token.kind # "signed" THEN "invalid"
    ELSE IF Expired(token, time) THEN "inactive"
    ELSE IF token.iss # "own" THEN "invalid"
    ELSE IF HardcodedEnabled /\ token.client_id \in HardcodedKey THEN "active"
    ELSE "askStore"

(* Who may have a token introspected: its own client, and the two roles     *)
(* that may introspect any token.                                           *)
MayIntrospect(requester, token) ==
    \/ JwtClientId(requester) = JwtClientId(token)
    \/ hasAdminOrVerifyOnlyRole(JwtRoles(requester))
=============================================================================
