-------------------------- MODULE AuthMiddlewareProofs --------------------------
(* What AuthMiddleware keeps whatever the interleaving of requests, the     *)
(* age of the two caches, failures of the server and restarts.              *)
EXTENDS AuthMiddleware, FiniteSetTheorems, WellFoundedInduction, TLAPS

Calling == {"own1", "verify1", "own2", "verify2"}
Verifying == {"verify1", "verify2"}

(* The token was this server's, unexpired and its client active at "when"   *)
(* or at some moment since.                                                 *)
WasGood(t, when) ==
    /\ t.kind = "signed" /\ t.iss = "own" /\ when <= t.exp
    /\ \/ HardcodedEnabled /\ t.client_id \in HardcodedKey
       \/ t.client_id \in active
       \/ t.client_id \in Clients /\ when <= changedAt[t.client_id]

(* The token was none of this server's, has expired, or its client was not  *)
(* active at some moment since "when".                                      *)
WasBad(t, when) ==
    \/ t.kind # "signed" \/ t.iss # "own" \/ Expired(t, now)
    \/ t.client_id \notin active \/ changedAt[t.client_id] >= when

IsOwn(t) == t \in Jwt /\ t.kind = "signed" /\ t.roles = {"verify-only"}

(* What a call on its way to the server or back carries.                    *)
OwnCallInv(f) ==
    /\ AsksForOwn(f) => reply[f] \in OwnReply \cup {NoReply}
    /\ AsksForOwn(f) /\ reply[f] = "token" =>
           IsOwn(carried[f]) /\ sentAt[f] + TokenLife <= carried[f].exp
    /\ pc[f] \in Verifying => reply[f] \in VerifyReply \cup {NoReply} /\ IsOwn(carried[f])
    /\ pc[f] = "verify2" => sentAt[f] + TokenLife <= carried[f].exp + MaxDelay

(* What the server said.                                                    *)
ReplyInv(f) ==
    /\ pc[f] \in Verifying /\ reply[f] = "active" => WasGood(token[f], sentAt[f])
    /\ pc[f] \in Verifying /\ reply[f] \in {"inactive", "notJwt"} => WasBad(token[f], began[f])
    /\ pc[f] \in Calling /\ reply[f] \in {"failed", "invalid"} => troubled[f]
    /\ pc[f] = "verify2" /\ reply[f] = "refused" => TokenLife < 2 * MaxDelay

(* What authorize made of it.                                               *)
OutcomeInv(f) ==
    /\ IsAuthorized(f) => WasGood(token[f], now - CacheTTL - MaxDelay)
    /\ pc[f] = "done" /\ outcome[f].status = 401 => WasBad(token[f], began[f])
    /\ pc[f] = "done" /\ outcome[f].status \in {500, 502} =>
           troubled[f] \/ TokenLife < 2 * MaxDelay

TimeInv(f) ==
    /\ began[f] <= now
    /\ sentAt[f] <= now
    /\ pc[f] \in Calling => now <= sentAt[f] + MaxDelay

CacheInv ==
    \A t \in DOMAIN cached :
        /\ now <= cached[t] /\ cached[t] <= now + CacheTTL
        /\ WasGood(t, cached[t] - CacheTTL - MaxDelay)

IInv ==
    /\ TypeOK
    /\ ownToken = NoBearer \/ IsOwn(ownToken)
    /\ CacheInv
    /\ \A f \in Frontends : TimeInv(f) /\ OwnCallInv(f) /\ ReplyInv(f) /\ OutcomeInv(f)

-----------------------------------------------------------------------------
(* Types.                                                                   *)
LEMMA Least ==
    ASSUME NEW T, T \subseteq Nat, T # {}
    PROVE  \E m \in T : \A n \in T : m <= n
<1>1. IsWellFoundedOn(OpToRel(<, Nat), Nat)
  BY NatLessThanWellFounded
<1>2. PICK m \in T : \A n \in T : <<n, m>> \notin OpToRel(<, Nat)
  BY <1>1, WFMin
<1>3. \A n \in T : ~(n < m)
  BY <1>2 DEF OpToRel
<1> QED
  BY <1>3

(* The entry that makes room is one of those in the cache.                  *)
LEMMA OldestLeaves ==
    ASSUME NEW c, DOMAIN c # {}, \A t \in DOMAIN c : c[t] \in Nat
    PROVE  \E oldest \in DOMAIN c :
              /\ DOMAIN WithoutOldest(c) = DOMAIN c \ {oldest}
              /\ \A t \in DOMAIN c \ {oldest} : WithoutOldest(c)[t] = c[t]
<1> DEFINE times == {c[t] : t \in DOMAIN c}
           oldest == CHOOSE t \in DOMAIN c : \A u \in DOMAIN c : c[t] <= c[u]
<1>1. PICK m \in times : \A n \in times : m <= n
  <2>1. times \subseteq Nat /\ times # {}
    OBVIOUS
  <2> HIDE DEF times
  <2> QED
    BY <2>1, Least
<1>2. \E t \in DOMAIN c : \A u \in DOMAIN c : c[t] <= c[u]
  BY <1>1
<1>3. oldest \in DOMAIN c
  BY <1>2
<1>4. WithoutOldest(c) = [t \in DOMAIN c \ {oldest} |-> c[t]]
  BY DEF WithoutOldest
<1> HIDE DEF oldest
<1> QED
  BY <1>3, <1>4

LEMMA CacheKeeps ==
    ASSUME TypeOK, NEW t \in Callers, Cache(t)
    PROVE  /\ DOMAIN cached' \subseteq DOMAIN cached \cup {t}
           /\ \A u \in DOMAIN cached' : cached'[u] = IF u = t THEN now + CacheTTL ELSE cached[u]
           /\ IsFiniteSet(DOMAIN cached') /\ Cardinality(DOMAIN cached') <= CacheMax
<1> DEFINE c == [u \in DOMAIN cached \cup {t} |-> IF u = t THEN now + CacheTTL ELSE cached[u]]
<1>1. cached' = IF Cardinality(DOMAIN c) > CacheMax THEN WithoutOldest(c) ELSE c
  BY DEF Cache
<1>2. /\ DOMAIN c = DOMAIN cached \cup {t}
      /\ \A u \in DOMAIN c : c[u] = IF u = t THEN now + CacheTTL ELSE cached[u]
  OBVIOUS
<1> HIDE DEF c
<1>3. \A u \in DOMAIN c : c[u] \in Nat
  BY <1>2, BoundsAssumption DEF TypeOK
<1>4. /\ IsFiniteSet(DOMAIN c) /\ Cardinality(DOMAIN c) \in Nat
      /\ Cardinality(DOMAIN c) <= CacheMax + 1
  <2>1. IsFiniteSet(DOMAIN cached) /\ Cardinality(DOMAIN cached) \in Nat
        /\ Cardinality(DOMAIN cached) <= CacheMax
    BY FS_CardinalityType DEF TypeOK
  <2> QED
    BY <1>2, <2>1, FS_AddElement, FS_CardinalityType, BoundsAssumption
<1>5. CASE Cardinality(DOMAIN c) > CacheMax
  <2>1. PICK oldest \in DOMAIN c :
           /\ DOMAIN cached' = DOMAIN c \ {oldest}
           /\ \A u \in DOMAIN c \ {oldest} : cached'[u] = c[u]
    BY <1>1, <1>2, <1>3, <1>5, OldestLeaves
  <2>2. IsFiniteSet(DOMAIN cached') /\ Cardinality(DOMAIN cached') = Cardinality(DOMAIN c) - 1
    BY <1>4, <2>1, FS_RemoveElement
  <2> QED
    BY <1>2, <1>4, <2>1, <2>2, BoundsAssumption
<1>6. CASE ~(Cardinality(DOMAIN c) > CacheMax)
  BY <1>1, <1>2, <1>4, <1>6, BoundsAssumption
<1> QED
  BY <1>5, <1>6

LEMMA TokensTyped ==
    /\ NoBearer \in Jwt
    /\ \A time \in 0 .. MaxTime :
          LET own == createToken(ownClient, {"verify-only"}, time)
          IN  IsOwn(own) /\ own.exp = time + TokenLife
<1>1. NoBearer \in Jwt
  BY DEF NoBearer, Bearer, Jwt, BearerKind, AnyClientId, Issuer
<1>2. ASSUME NEW time \in 0 .. MaxTime
      PROVE  LET own == createToken(ownClient, {"verify-only"}, time)
             IN  IsOwn(own) /\ own.exp = time + TokenLife
  BY <1>2, TokensAssumption, TokenLifeAssumption, MaxTimeAssumption
  DEF createToken, Jwt, BearerKind, Issuer, AuthorizationClientRole, IsOwn
<1> QED
  BY <1>1, <1>2

LEMMA OutcomesTyped ==
    /\ Upstream \in Outcome /\ Undecided \in Outcome
    /\ \A status \in {400, 401, 500, 502} : Refused(status) \in Outcome
    /\ \A t \in Callers : Authorized(t.roles) \in Outcome
BY TokensAssumption DEF Upstream, Undecided, Authorized, Refused, Outcome, Jwt

LEMMA SendTyped ==
    ASSUME TypeOK, NEW f \in Frontends, NEW phase \in Phase, NEW own \in Jwt, Send(f, phase, own)
    PROVE  /\ pc' \in [Frontends -> Phase] /\ sentAt' \in [Frontends -> 0 .. MaxTime]
           /\ carried' \in [Frontends -> Jwt]
           /\ reply' \in [Frontends -> VerifyReply \cup OwnReply \cup {NoReply}]
           /\ outcome' \in [Frontends -> Outcome]
BY DEF Send, TypeOK

LEMMA ConcludeTyped ==
    ASSUME TypeOK, NEW f \in Frontends, NEW result \in Outcome, Conclude(f, result)
    PROVE  /\ pc' \in [Frontends -> Phase] /\ sentAt' \in [Frontends -> 0 .. MaxTime]
           /\ carried' \in [Frontends -> Jwt]
           /\ reply' \in [Frontends -> VerifyReply \cup OwnReply \cup {NoReply}]
           /\ outcome' \in [Frontends -> Outcome]
BY TokensTyped, MaxTimeAssumption DEF Conclude, TypeOK, Phase

LEMMA InitType == Init => TypeOK
BY TokensTyped, OutcomesTyped, FS_EmptySet, MaxTimeAssumption, BoundsAssumption
DEF Init, TypeOK, Phase

LEMMA AuthorizeType ==
    ASSUME TypeOK, NEW f \in Frontends, NEW t \in Callers \cup {NoBearer}, NEW isUpstream \in BOOLEAN,
           authorize(f, t, isUpstream)
    PROVE  TypeOK'
<1>1. /\ token' \in [Frontends -> Callers \cup {NoBearer}]
      /\ began' \in [Frontends -> 0 .. MaxTime] /\ troubled' \in [Frontends -> BOOLEAN]
      /\ UNCHANGED <<now, storeVars, ownToken, cached>>
  BY DEF authorize, TypeOK
<1>2. /\ pc' \in [Frontends -> Phase] /\ sentAt' \in [Frontends -> 0 .. MaxTime]
      /\ carried' \in [Frontends -> Jwt]
      /\ reply' \in [Frontends -> VerifyReply \cup OwnReply \cup {NoReply}]
      /\ outcome' \in [Frontends -> Outcome]
  <2>1. "own1" \in Phase /\ "verify1" \in Phase /\ NoBearer \in Jwt /\ ownToken \in Jwt
    BY TokensTyped DEF Phase, TypeOK
  <2>2. t \in DOMAIN cached => Authorized(t.roles) \in Outcome
    BY OutcomesTyped DEF TypeOK
  <2>3. \/ Conclude(f, Upstream) \/ Conclude(f, Refused(400))
        \/ (t \in DOMAIN cached /\ Conclude(f, Authorized(t.roles)))
        \/ Send(f, "own1", NoBearer) \/ Send(f, "verify1", ownToken)
    BY DEF authorize
  <2> QED
    BY <2>1, <2>2, <2>3, OutcomesTyped, SendTyped, ConcludeTyped
<1> QED
  BY <1>1, <1>2 DEF TypeOK, storeVars

LEMMA OwnTokenArrivesType ==
    ASSUME TypeOK, NEW f \in Frontends, OwnTokenArrives(f)
    PROVE  TypeOK'
<1>1. UNCHANGED <<now, storeVars, cached, token, began, troubled>> /\ ownToken' \in Jwt
  BY DEF OwnTokenArrives, TypeOK
<1>2. carried[f] \in Jwt /\ "verify1" \in Phase /\ "verify2" \in Phase
  BY DEF TypeOK, Phase
<1>3. \/ Send(f, "verify1", carried[f]) \/ Send(f, "verify2", carried[f])
      \/ Conclude(f, Refused(500)) \/ Conclude(f, Refused(502))
  BY DEF OwnTokenArrives
<1>4. /\ pc' \in [Frontends -> Phase] /\ sentAt' \in [Frontends -> 0 .. MaxTime]
      /\ carried' \in [Frontends -> Jwt]
      /\ reply' \in [Frontends -> VerifyReply \cup OwnReply \cup {NoReply}]
      /\ outcome' \in [Frontends -> Outcome]
  BY <1>2, <1>3, OutcomesTyped, SendTyped, ConcludeTyped
<1> QED
  BY <1>1, <1>4 DEF TypeOK, storeVars

LEMMA VerificationArrivesType ==
    ASSUME IInv, NEW f \in Frontends, VerificationArrives(f)
    PROVE  TypeOK'
<1>1. TypeOK /\ UNCHANGED <<now, storeVars, ownToken, token, began, troubled>>
  BY DEF VerificationArrives, IInv
<1>2. reply[f] \in VerifyReply
  BY DEF VerificationArrives, IInv, OwnCallInv, Verifying
<1>3. reply[f] = "active" \/ VerificationStatus(reply[f]) \in {401, 500, 502}
  BY <1>2 DEF VerifyReply, VerificationStatus
<1>4. token[f] \in Callers \/ ~(reply[f] = "active")
  <2>1. NoBearer.kind = "missing"
    BY DEF NoBearer, Bearer
  <2> QED
    BY <1>1, <2>1 DEF VerificationArrives, IInv, ReplyInv, WasGood, Verifying, TypeOK
<1>5. \/ Send(f, "own2", NoBearer) /\ UNCHANGED cached
      \/ reply[f] = "active" /\ Conclude(f, Authorized(token[f].roles)) /\ Cache(token[f])
      \/ reply[f] # "active" /\ Conclude(f, Refused(VerificationStatus(reply[f]))) /\ UNCHANGED cached
  BY DEF VerificationArrives
<1>6. /\ pc' \in [Frontends -> Phase] /\ sentAt' \in [Frontends -> 0 .. MaxTime]
      /\ carried' \in [Frontends -> Jwt]
      /\ reply' \in [Frontends -> VerifyReply \cup OwnReply \cup {NoReply}]
      /\ outcome' \in [Frontends -> Outcome]
  <2>1. NoBearer \in Jwt /\ "own2" \in Phase
    BY TokensTyped DEF Phase
  <2>2. reply[f] = "active" => Authorized(token[f].roles) \in Outcome
    BY <1>4, OutcomesTyped
  <2>3. reply[f] # "active" => Refused(VerificationStatus(reply[f])) \in Outcome
    BY <1>3, OutcomesTyped
  <2> QED
    BY <1>1, <1>5, <2>1, <2>2, <2>3, SendTyped, ConcludeTyped
<1>7. /\ DOMAIN cached' \subseteq Callers /\ \A t \in DOMAIN cached' : cached'[t] \in Nat
      /\ IsFiniteSet(DOMAIN cached') /\ Cardinality(DOMAIN cached') <= CacheMax
  <2>1. CASE UNCHANGED cached
    BY <1>1, <2>1 DEF TypeOK
  <2>2. CASE reply[f] = "active" /\ Cache(token[f])
    <3>1. now + CacheTTL \in Nat
      BY <1>1, BoundsAssumption, MaxTimeAssumption DEF TypeOK
    <3> QED
      BY <1>1, <1>4, <2>2, <3>1, CacheKeeps DEF TypeOK
  <2> QED
    BY <1>5, <2>1, <2>2
<1> QED
  BY <1>1, <1>6, <1>7 DEF TypeOK, storeVars

LEMMA ReplyType ==
    ASSUME IInv, NEW f \in Frontends, Reply(f)
    PROVE  TypeOK'
<1>1. TypeOK /\ now \in 0 .. MaxTime
  BY DEF IInv, TypeOK
<1>2. CASE ServerAnswers(f)
  <2>1. UNCHANGED <<now, storeVars, ownToken, cached, pc, token, sentAt, outcome, began, troubled>>
    BY <1>2 DEF ServerAnswers
  <2>2. createToken(ownClient, {"verify-only"}, now) \in Jwt
    BY <1>1, TokensTyped DEF IsOwn
  <2>3. VerifiedAs(carried[f], token[f]) \in VerifyReply
    BY DEF VerifiedAs, VerifyReply
  <2>4. carried' \in [Frontends -> Jwt]
    BY <1>1, <1>2, <2>2 DEF ServerAnswers, TypeOK
  <2>5. reply' \in [Frontends -> VerifyReply \cup OwnReply \cup {NoReply}]
    BY <1>1, <1>2, <2>3 DEF ServerAnswers, TypeOK, OwnReply
  <2> QED
    BY <1>1, <2>1, <2>4, <2>5 DEF TypeOK, storeVars
<1>3. ASSUME NEW how, CallFails(f, how) PROVE TypeOK'
  BY <1>1, <1>3 DEF CallFails, TypeOK, OwnReply, VerifyReply, storeVars
<1> QED
  BY <1>2, <1>3 DEF Reply

LEMMA RestType ==
    ASSUME TypeOK,
           \/ \E f \in Frontends : Leave(f)
           \/ \E c \in Clients : Deactivate(c) \/ Activate(c)
           \/ Restart \/ Tick
    PROVE  TypeOK'
<1>1. ASSUME NEW f \in Frontends, Leave(f) PROVE TypeOK'
  BY <1>1, OutcomesTyped, MaxTimeAssumption DEF Leave, TypeOK, Phase, storeVars, callVars
<1>2. ASSUME NEW c \in Clients, Deactivate(c) \/ Activate(c) PROVE TypeOK'
  BY <1>2 DEF Deactivate, Activate, TypeOK, callVars
<1>3. CASE Restart
  BY <1>3, TokensTyped, OutcomesTyped, FS_EmptySet, MaxTimeAssumption, BoundsAssumption
  DEF Restart, TypeOK, storeVars, Phase
<1>4. CASE Tick
  <2>1. DOMAIN cached' \subseteq DOMAIN cached /\ \A t \in DOMAIN cached' : cached'[t] = cached[t]
    BY <1>4 DEF Tick
  <2>2. IsFiniteSet(DOMAIN cached') /\ Cardinality(DOMAIN cached') <= CacheMax
    <3>1. IsFiniteSet(DOMAIN cached') /\ Cardinality(DOMAIN cached') <= Cardinality(DOMAIN cached)
      BY <2>1, FS_Subset DEF TypeOK
    <3>2. Cardinality(DOMAIN cached') \in Nat /\ Cardinality(DOMAIN cached) \in Nat
      BY <3>1, FS_CardinalityType DEF TypeOK
    <3> QED
      BY <3>1, <3>2, BoundsAssumption DEF TypeOK
  <2>3. /\ now' \in 0 .. MaxTime
        /\ UNCHANGED <<storeVars, ownToken, pc, token, callVars, outcome, began, troubled>>
    BY <1>4, MaxTimeAssumption DEF Tick, TypeOK
  <2> QED
    BY <2>1, <2>2, <2>3 DEF TypeOK, storeVars, callVars
<1> QED
  BY <1>1, <1>2, <1>3, <1>4

-----------------------------------------------------------------------------
(* What time, and what clients do, make of a judgement.                     *)
TokensGiven == \A t \in Callers \cup {NoBearer} : t \in Jwt

LEMMA TokensAreGiven == TokensGiven
BY TokensAssumption, TokensTyped DEF TokensGiven

LEMMA GoodEarlier ==
    ASSUME TypeOK, NEW t \in Jwt, NEW when \in Int, WasGood(t, when), NEW before \in Int, before <= when
    PROVE  WasGood(t, before)
<1>1. t.exp \in Int
  BY DEF Jwt
<1>2. t.client_id \in Clients => changedAt[t.client_id] \in Int
  BY DEF TypeOK
<1> QED
  BY <1>1, <1>2 DEF WasGood

ClientChanges == \E c \in Clients : Deactivate(c) \/ Activate(c)

LEMMA GoodKept ==
    ASSUME TypeOK, ClientChanges, NEW t \in Jwt, NEW when \in Int, when <= now, WasGood(t, when)
    PROVE  WasGood(t, when)'
<1>1. PICK c \in Clients :
         /\ active' \in {active \ {c}, active \cup {c}}
         /\ changedAt' = [changedAt EXCEPT ![c] = now]
  BY DEF ClientChanges, Deactivate, Activate
<1>2. /\ c \in Clients /\ changedAt'[c] = now
      /\ \A d \in Clients : d # c => changedAt'[d] = changedAt[d]
      /\ \A d : d # c => (d \in active' <=> d \in active)
  BY <1>1 DEF TypeOK
<1> QED
  BY <1>2 DEF WasGood

LEMMA BadKept ==
    ASSUME TypeOK, ClientChanges, NEW t \in Jwt, NEW when \in Int, when <= now, WasBad(t, when)
    PROVE  WasBad(t, when)'
<1>1. PICK c \in Clients :
         /\ active' \in {active \ {c}, active \cup {c}}
         /\ changedAt' = [changedAt EXCEPT ![c] = now]
         /\ now' = now
  BY DEF ClientChanges, Deactivate, Activate
<1>2. /\ changedAt'[c] = now
      /\ \A d \in Clients : d # c => changedAt'[d] = changedAt[d]
      /\ \A d : d # c => (d \in active' <=> d \in active)
      /\ active \subseteq Clients
  BY <1>1 DEF TypeOK
<1>3. CASE t.client_id = c
  BY <1>1, <1>2, <1>3 DEF WasBad, TypeOK
<1>4. CASE t.client_id # c
  BY <1>1, <1>2, <1>4 DEF WasBad
<1> QED
  BY <1>3, <1>4

-----------------------------------------------------------------------------
(* The steps.                                                               *)
FrontInv(f) == TimeInv(f) /\ OwnCallInv(f) /\ ReplyInv(f) /\ OutcomeInv(f)

LEMMA FrontKept ==
    ASSUME NEW g \in Frontends, FrontInv(g), UNCHANGED <<now, storeVars>>,
           pc'[g] = pc[g], token'[g] = token[g], sentAt'[g] = sentAt[g], carried'[g] = carried[g],
           reply'[g] = reply[g], outcome'[g] = outcome[g], began'[g] = began[g],
           troubled'[g] = troubled[g]
    PROVE  FrontInv(g)'
<1>1. now' = now /\ active' = active /\ changedAt' = changedAt
  BY DEF storeVars
<1>2. TimeInv(g)' /\ OwnCallInv(g)'
  BY <1>1 DEF FrontInv, TimeInv, OwnCallInv, AsksForOwn
<1>3. ReplyInv(g)' /\ OutcomeInv(g)'
  BY <1>1 DEF FrontInv, ReplyInv, OutcomeInv, IsAuthorized, WasGood, WasBad
<1> QED
  BY <1>2, <1>3 DEF FrontInv

LEMMA SendInv ==
    ASSUME TypeOK, NEW f \in Frontends, NEW phase \in Calling, NEW own, Send(f, phase, own),
           UNCHANGED <<now, storeVars>>, began'[f] <= now,
           phase \in Verifying => IsOwn(own),
           phase = "verify2" => now + TokenLife <= own.exp + MaxDelay
    PROVE  FrontInv(f)'
<1>1. /\ pc'[f] = phase /\ sentAt'[f] = now /\ carried'[f] = own /\ reply'[f] = NoReply
      /\ now' = now /\ now \in Nat
  BY DEF Send, TypeOK
<1>2. TimeInv(f)'
  BY <1>1, BoundsAssumption DEF TimeInv
<1>3. OwnCallInv(f)'
  BY <1>1 DEF OwnCallInv, AsksForOwn, NoReply, Calling, Verifying
<1>4. ReplyInv(f)' /\ OutcomeInv(f)'
  BY <1>1 DEF ReplyInv, OutcomeInv, IsAuthorized, NoReply, Calling
<1> QED
  BY <1>2, <1>3, <1>4 DEF FrontInv

LEMMA ConcludeInv ==
    ASSUME TypeOK, NEW f \in Frontends, NEW result, Conclude(f, result),
           UNCHANGED <<now, storeVars>>, began'[f] <= now,
           result.status = 0 /\ result # Upstream => WasGood(token'[f], now - CacheTTL - MaxDelay),
           result.status = 401 => WasBad(token'[f], began'[f]),
           result.status \in {500, 502} => troubled'[f] \/ TokenLife < 2 * MaxDelay
    PROVE  FrontInv(f)'
<1>1. /\ pc'[f] = "done" /\ sentAt'[f] = 0 /\ outcome'[f] = result
      /\ now' = now /\ now \in Nat /\ active' = active /\ changedAt' = changedAt
  BY DEF Conclude, TypeOK, storeVars
<1>2. TimeInv(f)' /\ OwnCallInv(f)' /\ ReplyInv(f)'
  BY <1>1 DEF TimeInv, OwnCallInv, ReplyInv, AsksForOwn, Calling, Verifying
<1>3. OutcomeInv(f)'
  BY <1>1 DEF OutcomeInv, IsAuthorized, WasGood, WasBad
<1> QED
  BY <1>2, <1>3 DEF FrontInv

LEMMA CacheUnchanged ==
    ASSUME CacheInv, UNCHANGED <<now, storeVars, cached>>
    PROVE  CacheInv'
BY DEF CacheInv, WasGood, storeVars

(* What a step of one request leaves to the others.                         *)
Only(f) ==
    /\ \A g \in Frontends \ {f} :
          /\ pc'[g] = pc[g] /\ token'[g] = token[g] /\ sentAt'[g] = sentAt[g]
          /\ carried'[g] = carried[g] /\ reply'[g] = reply[g] /\ outcome'[g] = outcome[g]
          /\ began'[g] = began[g] /\ troubled'[g] = troubled[g]
    /\ UNCHANGED <<now, storeVars>>

LEMMA OneSteps ==
    ASSUME IInv, NEW f \in Frontends, Only(f), FrontInv(f)', TypeOK', CacheInv',
           ownToken' = NoBearer \/ IsOwn(ownToken')
    PROVE  IInv'
<1>1. \A g \in Frontends \ {f} : FrontInv(g)'
  BY FrontKept DEF IInv, FrontInv, Only
<1> QED
  BY <1>1 DEF IInv, FrontInv, IsOwn

LEMMA AuthorizeInv ==
    ASSUME IInv, NEW f \in Frontends, NEW t \in Callers \cup {NoBearer}, NEW isUpstream \in BOOLEAN,
           authorize(f, t, isUpstream)
    PROVE  IInv'
<1>1. TypeOK /\ TypeOK'
  BY AuthorizeType DEF IInv
<1>2. /\ token'[f] = t /\ began'[f] = now /\ now \in Nat
      /\ UNCHANGED <<now, storeVars, ownToken, cached>>
  BY <1>1 DEF authorize, TypeOK
<1>3. Only(f)
  BY <1>1 DEF authorize, Conclude, Send, Only, TypeOK
<1>4. FrontInv(f)'
  <2>1. CASE Conclude(f, Upstream)
    BY <1>1, <1>2, <2>1, ConcludeInv DEF Upstream, Authorized
  <2>2. CASE Conclude(f, Refused(400))
    BY <1>1, <1>2, <2>2, ConcludeInv DEF Refused
  <2>3. CASE t \in DOMAIN cached /\ Conclude(f, Authorized(t.roles))
    <3>1. t \in Jwt /\ cached[t] \in Nat
      BY <1>1, <2>3, TokensAreGiven DEF TokensGiven, TypeOK
    <3>2. WasGood(t, cached[t] - CacheTTL - MaxDelay) /\ now <= cached[t]
      BY <2>3 DEF IInv, CacheInv
    <3>3. WasGood(t, now - CacheTTL - MaxDelay)
      BY <1>1, <1>2, <3>1, <3>2, GoodEarlier, BoundsAssumption
    <3> QED
      BY <1>1, <1>2, <2>3, <3>3, ConcludeInv DEF Authorized
  <2>4. CASE Send(f, "own1", NoBearer)
    BY <1>1, <1>2, <2>4, SendInv DEF Calling, Verifying
  <2>5. CASE ownToken # NoBearer /\ Send(f, "verify1", ownToken)
    BY <1>1, <1>2, <2>5, SendInv DEF Calling, Verifying, IInv
  <2> QED
    BY <2>1, <2>2, <2>3, <2>4, <2>5 DEF authorize
<1>5. CacheInv'
  BY <1>2, CacheUnchanged DEF IInv
<1> QED
  BY <1>1, <1>2, <1>3, <1>4, <1>5, OneSteps DEF IInv

LEMMA OwnTokenArrivesInv ==
    ASSUME IInv, NEW f \in Frontends, OwnTokenArrives(f)
    PROVE  IInv'
<1>1. TypeOK /\ TypeOK' /\ FrontInv(f)
  BY OwnTokenArrivesType DEF IInv, FrontInv
<1>2. UNCHANGED <<now, storeVars, cached, token, began, troubled>> /\ AsksForOwn(f) /\ reply[f] # NoReply
  BY DEF OwnTokenArrives
<1>3. Only(f)
  BY <1>1, <1>2 DEF OwnTokenArrives, Conclude, Send, Only, TypeOK
<1>4. CASE reply[f] = "token"
  <2>1. ownToken' = carried[f] /\ IsOwn(carried[f])
    BY <1>1, <1>2, <1>4 DEF OwnTokenArrives, FrontInv, OwnCallInv
  <2>2. now + TokenLife <= carried[f].exp + MaxDelay
    <3>1. sentAt[f] + TokenLife <= carried[f].exp /\ now <= sentAt[f] + MaxDelay
      BY <1>1, <1>2, <1>4 DEF FrontInv, OwnCallInv, TimeInv, AsksForOwn, Calling
    <3>2. carried[f].exp \in Int /\ sentAt[f] \in Int /\ now \in Int
      BY <1>1 DEF TypeOK, Jwt
    <3> QED
      BY <3>1, <3>2, BoundsAssumption, TokenLifeAssumption
  <2>3. Send(f, "verify1", carried[f]) \/ Send(f, "verify2", carried[f])
    BY <1>4 DEF OwnTokenArrives
  <2>4. FrontInv(f)'
    BY <1>1, <1>2, <2>1, <2>2, <2>3, SendInv DEF Calling, Verifying, FrontInv, TimeInv
  <2>5. CacheInv'
    BY <1>2, CacheUnchanged DEF IInv
  <2> QED
    BY <1>1, <1>3, <2>1, <2>4, <2>5, OneSteps
<1>5. CASE reply[f] # "token"
  <2>1. ownToken' = ownToken /\ (Conclude(f, Refused(500)) \/ Conclude(f, Refused(502)))
    BY <1>5 DEF OwnTokenArrives
  <2>2. troubled'[f]
    BY <1>1, <1>2, <1>5 DEF FrontInv, OwnCallInv, ReplyInv, OwnReply, NoReply, AsksForOwn, Calling
  <2>3. FrontInv(f)'
    BY <1>1, <1>2, <2>1, <2>2, ConcludeInv DEF Refused, FrontInv, TimeInv
  <2>4. CacheInv'
    BY <1>2, CacheUnchanged DEF IInv
  <2> QED
    BY <1>1, <1>3, <2>1, <2>3, <2>4, OneSteps DEF IInv
<1> QED
  BY <1>4, <1>5

LEMMA VerificationArrivesInv ==
    ASSUME IInv, NEW f \in Frontends, VerificationArrives(f)
    PROVE  IInv'
<1>1. TypeOK /\ TypeOK' /\ FrontInv(f) /\ CacheInv
  BY VerificationArrivesType DEF IInv, FrontInv
<1>2. /\ UNCHANGED <<now, storeVars, ownToken, token, began, troubled>>
      /\ pc[f] \in Verifying /\ pc[f] \in Calling /\ reply[f] # NoReply
  BY DEF VerificationArrives, Verifying, Calling
<1>3. /\ now \in Nat /\ sentAt[f] \in Nat /\ began[f] \in Nat /\ token[f] \in Jwt
      /\ token[f] \in Callers \cup {NoBearer}
  BY <1>1, TokensAreGiven DEF TypeOK, TokensGiven
<1>4. /\ began'[f] <= now /\ sentAt[f] <= now /\ now <= sentAt[f] + MaxDelay
      /\ reply[f] \in VerifyReply
  BY <1>1, <1>2 DEF FrontInv, TimeInv, OwnCallInv
<1>5. Only(f)
  BY <1>1, <1>2 DEF VerificationArrives, Conclude, Send, Only, TypeOK
<1>6. CASE Send(f, "own2", NoBearer) /\ UNCHANGED cached
  <2>1. FrontInv(f)'
    BY <1>1, <1>2, <1>4, <1>6, SendInv DEF Calling, Verifying
  <2>2. CacheInv'
    BY <1>1, <1>2, <1>6, CacheUnchanged
  <2> QED
    BY <1>1, <1>2, <1>5, <2>1, <2>2, OneSteps DEF IInv
<1>7. CASE reply[f] = "active" /\ Conclude(f, Authorized(token[f].roles)) /\ Cache(token[f])
  <2>1. WasGood(token[f], sentAt[f])
    BY <1>1, <1>2, <1>7 DEF FrontInv, ReplyInv
  <2>2. WasGood(token[f], now - CacheTTL - MaxDelay) /\ WasGood(token[f], now - MaxDelay)
    BY <1>1, <1>3, <1>4, <2>1, GoodEarlier, BoundsAssumption
  <2>3. token'[f] = token[f]
    BY <1>2
  <2>4. FrontInv(f)'
    BY <1>1, <1>2, <1>4, <1>7, <2>2, <2>3, ConcludeInv DEF Authorized
  <2>5. token[f] \in Callers
    <3>1. NoBearer.kind = "missing"
      BY DEF NoBearer, Bearer
    <3> QED
      BY <1>3, <2>1, <3>1 DEF WasGood
  <2>6. /\ DOMAIN cached' \subseteq DOMAIN cached \cup {token[f]}
        /\ \A u \in DOMAIN cached' : cached'[u] = IF u = token[f] THEN now + CacheTTL ELSE cached[u]
    BY <1>1, <1>7, <2>5, CacheKeeps
  <2>7. ASSUME NEW u \in DOMAIN cached'
        PROVE  /\ now <= cached'[u] /\ cached'[u] <= now + CacheTTL
               /\ WasGood(u, cached'[u] - CacheTTL - MaxDelay)
    <3>1. CASE u = token[f]
      <4>1. cached'[u] = now + CacheTTL /\ cached'[u] - CacheTTL - MaxDelay = now - MaxDelay
        BY <1>3, <2>6, <3>1, BoundsAssumption
      <4> QED
        BY <1>3, <2>2, <3>1, <4>1, BoundsAssumption
    <3>2. CASE u # token[f]
      BY <1>1, <2>6, <3>2 DEF CacheInv
    <3> QED
      BY <3>1, <3>2
  <2>8. now' = now /\ active' = active /\ changedAt' = changedAt
    BY <1>2 DEF storeVars
  <2>9. CacheInv'
    BY <2>7, <2>8 DEF CacheInv, WasGood
  <2> QED
    BY <1>1, <1>2, <1>5, <2>4, <2>9, OneSteps DEF IInv
<1>8. CASE /\ reply[f] # "active" /\ ~RenewsOwnToken(f) /\ UNCHANGED cached
           /\ Conclude(f, Refused(VerificationStatus(reply[f])))
  <2> DEFINE status == VerificationStatus(reply[f])
  <2>1. /\ status \in {401, 500, 502}
        /\ status = 401 => reply[f] \in {"inactive", "notJwt"}
        /\ status = 500 => reply[f] = "failed"
        /\ status = 502 => reply[f] = "refused"
    BY <1>4, <1>8 DEF VerificationStatus, VerifyReply
  <2>2. token'[f] = token[f] /\ began'[f] = began[f] /\ troubled'[f] = troubled[f]
    BY <1>2
  <2>3. status = 401 => WasBad(token[f], began[f])
    BY <1>1, <1>2, <2>1 DEF FrontInv, ReplyInv
  <2>4. status = 500 => troubled[f]
    BY <1>1, <1>2, <2>1 DEF FrontInv, ReplyInv
  <2>5. status = 502 => TokenLife < 2 * MaxDelay
    BY <1>1, <1>2, <1>8, <2>1 DEF FrontInv, ReplyInv, RenewsOwnToken, Verifying
  <2>6. /\ Refused(status).status = 401 => WasBad(token'[f], began'[f])
        /\ Refused(status).status \in {500, 502} => troubled'[f] \/ TokenLife < 2 * MaxDelay
        /\ Refused(status).status # 0
    BY <2>1, <2>2, <2>3, <2>4, <2>5 DEF Refused
  <2> HIDE DEF status
  <2>7. FrontInv(f)'
    BY <1>1, <1>2, <1>4, <1>8, <2>6, ConcludeInv DEF status
  <2>8. CacheInv'
    BY <1>1, <1>2, <1>8, CacheUnchanged
  <2> QED
    BY <1>1, <1>2, <1>5, <2>7, <2>8, OneSteps DEF IInv
<1> QED
  BY <1>6, <1>7, <1>8 DEF VerificationArrives

(* What a verification by a token the worker was given says.                *)
LEMMA Verified ==
    ASSUME TypeOK, NEW own, IsOwn(own), NEW t \in Jwt, NEW sent \in Nat, sent <= now,
           NEW began0 \in Nat, began0 <= now
    PROVE  LET said == VerifiedAs(own, t) IN
           /\ said \in VerifyReply
           /\ said # "failed"
           /\ said = "active" => WasGood(t, sent)
           /\ said \in {"inactive", "notJwt"} => WasBad(t, began0)
           /\ said = "refused" => now > own.exp
<1>1. MayIntrospect(own, t)
  BY DEF IsOwn, MayIntrospect, JwtRoles, hasAdminOrVerifyOnlyRole
<1>2. ~validateTokenForAccess(own, now) => now > own.exp
  BY DEF IsOwn, validateTokenForAccess, Expired
<1>3. /\ now \in Nat /\ t.exp \in Int
  BY DEF TypeOK, Jwt
<1> DEFINE introspected == introspectBearerToken(t, now)
<1>4. /\ introspected \in {"invalid", "inactive", "active", "askStore"}
      /\ introspected = "invalid" => t.kind # "signed" \/ t.iss # "own"
      /\ introspected = "inactive" => Expired(t, now)
      /\ introspected \in {"active", "askStore"} =>
            t.kind = "signed" /\ t.iss = "own" /\ now <= t.exp
      /\ introspected = "active" => HardcodedEnabled /\ t.client_id \in HardcodedKey
  BY <1>3 DEF introspectBearerToken, Expired
<1> HIDE DEF introspected
<1>5. VerifiedAs(own, t) =
        IF ~validateTokenForAccess(own, now) THEN "refused"
        ELSE IF introspected = "invalid" THEN "notJwt"
        ELSE IF introspected = "active" \/ (introspected = "askStore" /\ ClientIsActive(t))
             THEN "active" ELSE "inactive"
  BY <1>1 DEF VerifiedAs, introspected
<1>6. VerifiedAs(own, t) = "active" => WasGood(t, sent)
  BY <1>3, <1>4, <1>5 DEF WasGood, ClientIsActive
<1>7. VerifiedAs(own, t) \in {"inactive", "notJwt"} => WasBad(t, began0)
  BY <1>4, <1>5 DEF WasBad, ClientIsActive
<1> QED
  BY <1>2, <1>5, <1>6, <1>7 DEF VerifyReply

LEMMA ServerAnswersInv ==
    ASSUME IInv, NEW f \in Frontends, ServerAnswers(f)
    PROVE  IInv'
<1>1. TypeOK /\ TypeOK' /\ FrontInv(f) /\ CacheInv
  BY ReplyType DEF IInv, FrontInv, Reply
<1>2. UNCHANGED <<now, storeVars, ownToken, cached, pc, token, sentAt, outcome, began, troubled>>
  BY DEF ServerAnswers
<1>3. pc[f] \in Calling /\ now' = now /\ active' = active /\ changedAt' = changedAt
  BY <1>2 DEF ServerAnswers, OnCall, Calling, storeVars
<1>4. /\ now \in 0 .. MaxTime /\ sentAt[f] \in Nat /\ began[f] \in Nat /\ token[f] \in Jwt
      /\ began[f] <= now /\ sentAt[f] <= now /\ now <= sentAt[f] + MaxDelay
  BY <1>1, <1>3, TokensAreGiven DEF TypeOK, TokensGiven, FrontInv, TimeInv
<1>5. Only(f)
  BY <1>1, <1>2 DEF ServerAnswers, Only, TypeOK
<1>6. CacheInv'
  BY <1>1, <1>2, CacheUnchanged
<1>7. TimeInv(f)' /\ OutcomeInv(f)'
  BY <1>1, <1>2, <1>3 DEF FrontInv, TimeInv, OutcomeInv, IsAuthorized, Calling
<1>8. OwnCallInv(f)' /\ ReplyInv(f)'
  <2>1. CASE AsksForOwn(f)
    <3>1. reply'[f] = "token" /\ carried'[f] = createToken(ownClient, {"verify-only"}, now)
      BY <1>1, <2>1 DEF ServerAnswers, TypeOK
    <3>2. IsOwn(carried'[f]) /\ carried'[f].exp = now + TokenLife
      BY <1>4, <3>1, TokensTyped
    <3>3. sentAt[f] + TokenLife <= carried'[f].exp
      BY <1>4, <3>2, TokenLifeAssumption
    <3> QED
      BY <1>2, <2>1, <3>1, <3>2, <3>3 DEF OwnCallInv, ReplyInv, AsksForOwn, Verifying, OwnReply, IsOwn
  <2>2. CASE ~AsksForOwn(f)
    <3> DEFINE said == VerifiedAs(carried[f], token[f])
    <3>1. reply'[f] = said /\ carried' = carried /\ pc[f] \in Verifying
      BY <1>1, <1>3, <2>2 DEF ServerAnswers, TypeOK, AsksForOwn, Calling, Verifying
    <3>2. IsOwn(carried[f])
      BY <1>1, <3>1 DEF FrontInv, OwnCallInv
    <3>3. /\ said \in VerifyReply
          /\ said # "failed"
          /\ said = "active" => WasGood(token[f], sentAt[f])
          /\ said \in {"inactive", "notJwt"} => WasBad(token[f], began[f])
          /\ said = "refused" => now > carried[f].exp
      BY <1>1, <1>4, <3>2, Verified
    <3> HIDE DEF said
    <3>4. OwnCallInv(f)'
      BY <1>1, <1>2, <2>2, <3>1, <3>2, <3>3 DEF FrontInv, OwnCallInv, AsksForOwn, IsOwn
    <3>5. pc[f] = "verify2" /\ said = "refused" => TokenLife < 2 * MaxDelay
      <4>1. pc[f] = "verify2" => sentAt[f] + TokenLife <= carried[f].exp + MaxDelay
        BY <1>1 DEF FrontInv, OwnCallInv
      <4>2. carried[f].exp \in Int
        BY <1>1 DEF TypeOK, Jwt
      <4> QED
        BY <1>4, <3>3, <4>1, <4>2, TokenLifeAssumption, BoundsAssumption
    <3>6. said # "invalid"
      BY <3>3 DEF VerifyReply
    <3> QED
      BY <1>2, <1>3, <3>1, <3>3, <3>4, <3>5, <3>6 DEF ReplyInv, WasGood, WasBad
  <2> QED
    BY <2>1, <2>2
<1> QED
  BY <1>1, <1>2, <1>5, <1>6, <1>7, <1>8, OneSteps DEF IInv, FrontInv

LEMMA CallFailsInv ==
    ASSUME IInv, NEW f \in Frontends, NEW how \in {"failed", "invalid"}, CallFails(f, how)
    PROVE  IInv'
<1>1. TypeOK /\ TypeOK' /\ FrontInv(f) /\ CacheInv
  BY ReplyType DEF IInv, FrontInv, Reply
<1>2. UNCHANGED <<now, storeVars, ownToken, cached, pc, token, sentAt, carried, outcome, began>>
  BY DEF CallFails
<1>3. /\ pc[f] \in Calling /\ now' = now
      /\ reply'[f] = how /\ troubled'[f]
      /\ how = "failed" \/ AsksForOwn(f)
  BY <1>1, <1>2 DEF CallFails, OnCall, Calling, TypeOK
<1>4. Only(f)
  BY <1>1, <1>2 DEF CallFails, Only, TypeOK
<1>5. CacheInv'
  BY <1>1, <1>2, CacheUnchanged
<1>6. TimeInv(f)' /\ OutcomeInv(f)'
  BY <1>1, <1>2, <1>3 DEF FrontInv, TimeInv, OutcomeInv, IsAuthorized, Calling
<1>7. OwnCallInv(f)'
  BY <1>1, <1>2, <1>3 DEF FrontInv, OwnCallInv, AsksForOwn, IsOwn, OwnReply, VerifyReply, Verifying
<1>8. ReplyInv(f)'
  BY <1>2, <1>3 DEF ReplyInv
<1> QED
  BY <1>1, <1>2, <1>4, <1>5, <1>6, <1>7, <1>8, OneSteps DEF IInv, FrontInv

LEMMA LeaveInv ==
    ASSUME IInv, NEW f \in Frontends, Leave(f)
    PROVE  IInv'
<1>1. TypeOK /\ TypeOK' /\ FrontInv(f) /\ CacheInv
  BY RestType DEF IInv, FrontInv
<1>2. UNCHANGED <<now, storeVars, ownToken, cached, callVars>>
  BY DEF Leave
<1>3. pc'[f] = "idle" /\ began'[f] = 0 /\ sentAt'[f] = sentAt[f] /\ now' = now /\ now \in Nat
  BY <1>1, <1>2 DEF Leave, TypeOK, callVars
<1>4. Only(f)
  BY <1>1, <1>2 DEF Leave, Only, TypeOK, callVars
<1>5. FrontInv(f)'
  BY <1>1, <1>3
  DEF FrontInv, TimeInv, OwnCallInv, ReplyInv, OutcomeInv, IsAuthorized, AsksForOwn, Calling, Verifying
<1>6. CacheInv'
  BY <1>1, <1>2, CacheUnchanged
<1> QED
  BY <1>1, <1>2, <1>4, <1>5, <1>6, OneSteps DEF IInv

(* A deactivation or activation is itself the moment a judgement speaks of. *)
LEMMA ClientChangesInv ==
    ASSUME IInv, ClientChanges
    PROVE  IInv'
<1>1. TypeOK /\ TypeOK'
  BY RestType DEF IInv, ClientChanges
<1>2. UNCHANGED <<now, ownToken, cached, pc, token, callVars, outcome, began, troubled>>
  BY DEF ClientChanges, Deactivate, Activate
<1>3. now \in Nat /\ now' = now
  BY <1>1, <1>2 DEF TypeOK
<1>4. CacheInv'
  <2>1. ASSUME NEW t \in DOMAIN cached
        PROVE  /\ now <= cached[t] /\ cached[t] <= now + CacheTTL
               /\ WasGood(t, cached[t] - CacheTTL - MaxDelay)'
    <3>1. t \in Jwt /\ cached[t] \in Nat
      BY <1>1, TokensAssumption DEF TypeOK
    <3>2. /\ now <= cached[t] /\ cached[t] <= now + CacheTTL
          /\ WasGood(t, cached[t] - CacheTTL - MaxDelay)
      BY DEF IInv, CacheInv
    <3>3. PICK when \in Int : when = cached[t] - CacheTTL - MaxDelay
      BY <3>1, BoundsAssumption
    <3>4. when <= now /\ WasGood(t, when)
      BY <1>3, <3>1, <3>2, <3>3, BoundsAssumption
    <3>5. WasGood(t, when)'
      BY <1>1, <3>1, <3>4, GoodKept
    <3> QED
      BY <1>2, <3>2, <3>3, <3>5 DEF WasGood
  <2> QED
    BY <1>2, <2>1 DEF CacheInv
<1>5. ASSUME NEW f \in Frontends PROVE FrontInv(f)'
  <2>1. FrontInv(f)
    BY DEF IInv, FrontInv
  <2>2. PICK t \in Jwt : t = token[f] /\ t = token'[f]
    BY <1>1, <1>2, TokensAreGiven DEF TypeOK, TokensGiven
  <2>3. PICK sent \in Nat : sent = sentAt[f] /\ sent = sentAt'[f] /\ sent <= now
    BY <1>1, <1>2, <2>1 DEF TypeOK, callVars, FrontInv, TimeInv
  <2>4. PICK start \in Nat : start = began[f] /\ start = began'[f] /\ start <= now
    BY <1>1, <1>2, <2>1 DEF TypeOK, FrontInv, TimeInv
  <2>5. TimeInv(f)' /\ OwnCallInv(f)'
    BY <1>2, <2>1 DEF FrontInv, TimeInv, OwnCallInv, AsksForOwn, IsOwn, callVars
  <2>6. WasGood(t, sent) => WasGood(t, sent)'
    BY <1>1, <2>3, GoodKept
  <2>7. WasBad(t, start) => WasBad(t, start)'
    BY <1>1, <2>4, BadKept
  <2>8. PICK since \in Int : since = now - CacheTTL - MaxDelay
    BY <1>3, BoundsAssumption
  <2>9. WasGood(t, since) => WasGood(t, since)'
    BY <1>1, <1>3, <2>8, GoodKept, BoundsAssumption
  <2>10. ReplyInv(f)'
    BY <1>2, <2>1, <2>2, <2>3, <2>4, <2>6, <2>7
    DEF FrontInv, ReplyInv, callVars, WasGood, WasBad
  <2>11. OutcomeInv(f)'
    BY <1>2, <2>1, <2>2, <2>4, <2>7, <2>8, <2>9
    DEF FrontInv, OutcomeInv, IsAuthorized, WasGood, WasBad
  <2> QED
    BY <2>5, <2>10, <2>11 DEF FrontInv
<1> QED
  BY <1>1, <1>2, <1>4, <1>5 DEF IInv, FrontInv, IsOwn

LEMMA RestartInv ==
    ASSUME IInv, Restart
    PROVE  IInv'
<1>1. TypeOK /\ TypeOK'
  BY RestType DEF IInv
<1>2. /\ ownToken' = NoBearer /\ DOMAIN cached' = {} /\ now' = now /\ now \in Nat
      /\ \A f \in Frontends : pc'[f] = "idle" /\ sentAt'[f] = 0 /\ began'[f] = 0
  BY <1>1 DEF Restart, TypeOK
<1>3. CacheInv'
  BY <1>2 DEF CacheInv
<1>4. \A f \in Frontends : FrontInv(f)'
  BY <1>2
  DEF FrontInv, TimeInv, OwnCallInv, ReplyInv, OutcomeInv, IsAuthorized, AsksForOwn, Calling, Verifying
<1> QED
  BY <1>1, <1>2, <1>3, <1>4 DEF IInv, FrontInv

LEMMA TickInv ==
    ASSUME IInv, Tick
    PROVE  IInv'
<1>1. TypeOK /\ TypeOK'
  BY RestType DEF IInv
<1>2. /\ UNCHANGED <<storeVars, ownToken, pc, token, callVars, outcome, began, troubled>>
      /\ now' = now + 1 /\ now \in Nat
      /\ \A f \in Frontends : pc[f] # "done"
      /\ \A f \in Frontends : pc[f] \notin {"idle", "done"} => now < sentAt[f] + MaxDelay
  BY <1>1 DEF Tick, TypeOK
<1>3. active' = active /\ changedAt' = changedAt
  BY <1>2 DEF storeVars
<1>4. CacheInv'
  <2>1. ASSUME NEW t \in DOMAIN cached'
        PROVE  t \in DOMAIN cached /\ cached'[t] = cached[t] /\ now + 1 <= cached[t]
    BY DEF Tick
  <2>2. ASSUME NEW t \in DOMAIN cached'
        PROVE  /\ now' <= cached'[t] /\ cached'[t] <= now' + CacheTTL
               /\ WasGood(t, cached[t] - CacheTTL - MaxDelay)
    <3>1. t \in DOMAIN cached /\ cached'[t] = cached[t] /\ now + 1 <= cached[t] /\ cached[t] \in Nat
      BY <1>1, <2>1 DEF TypeOK
    <3>2. cached[t] <= now + CacheTTL /\ WasGood(t, cached[t] - CacheTTL - MaxDelay)
      BY <3>1 DEF IInv, CacheInv
    <3> QED
      BY <1>2, <3>1, <3>2, BoundsAssumption
  <2> QED
    BY <1>3, <2>1, <2>2 DEF CacheInv, WasGood
<1>5. ASSUME NEW f \in Frontends PROVE FrontInv(f)'
  <2>1. FrontInv(f) /\ pc[f] # "done" /\ token[f] \in Jwt /\ began[f] \in Nat /\ sentAt[f] \in Nat
    BY <1>1, <1>2, TokensAreGiven DEF IInv, FrontInv, TypeOK, TokensGiven
  <2>2. TimeInv(f)'
    BY <1>2, <2>1, BoundsAssumption DEF FrontInv, TimeInv, Calling, callVars
  <2>3. OwnCallInv(f)'
    BY <1>2, <2>1 DEF FrontInv, OwnCallInv, AsksForOwn, IsOwn, callVars
  <2>4. OutcomeInv(f)'
    BY <1>2, <2>1 DEF OutcomeInv, IsAuthorized
  <2>5. Expired(token[f], now) => Expired(token[f], now + 1)
    BY <1>2, <2>1 DEF Expired, Jwt
  <2>6. ReplyInv(f)'
    BY <1>2, <1>3, <2>1, <2>5 DEF FrontInv, ReplyInv, WasGood, WasBad, callVars
  <2> QED
    BY <2>2, <2>3, <2>4, <2>6 DEF FrontInv
<1> QED
  BY <1>1, <1>2, <1>4, <1>5 DEF IInv, FrontInv, IsOwn

-----------------------------------------------------------------------------
(* The invariant, and what follows from it.                                 *)
LEMMA InitInv == Init => IInv
<1> SUFFICES ASSUME Init PROVE IInv
  OBVIOUS
<1>1. TypeOK
  BY InitType
<1>2. CacheInv
  BY DEF Init, CacheInv
<1>3. ASSUME NEW f \in Frontends
      PROVE  TimeInv(f) /\ OwnCallInv(f) /\ ReplyInv(f) /\ OutcomeInv(f)
  BY DEF Init, TimeInv, OwnCallInv, ReplyInv, OutcomeInv, IsAuthorized, AsksForOwn, Calling, Verifying
<1> QED
  BY <1>1, <1>2, <1>3 DEF Init, IInv

LEMMA NextInv == IInv /\ [Next]_vars => IInv'
<1> SUFFICES ASSUME IInv, [Next]_vars PROVE IInv'
  OBVIOUS
<1>1. ASSUME NEW f \in Frontends, NEW t \in Callers \cup {NoBearer}, NEW isUpstream \in BOOLEAN,
             authorize(f, t, isUpstream)
      PROVE  IInv'
  BY <1>1, AuthorizeInv
<1>2. ASSUME NEW f \in Frontends, Proceed(f) PROVE IInv'
  BY <1>2, OwnTokenArrivesInv, VerificationArrivesInv, LeaveInv DEF Proceed
<1>3. ASSUME NEW f \in Frontends, Reply(f) PROVE IInv'
  BY <1>3, ServerAnswersInv, CallFailsInv DEF Reply
<1>4. ASSUME NEW c \in Clients, Deactivate(c) \/ Activate(c) PROVE IInv'
  BY <1>4, ClientChangesInv DEF ClientChanges
<1>5. CASE UNCHANGED vars
  BY <1>5
  DEF vars, callVars, storeVars, IInv, TypeOK, CacheInv, TimeInv, OwnCallInv, ReplyInv, OutcomeInv,
      AsksForOwn, IsAuthorized, WasGood, WasBad
<1> QED
  BY <1>1, <1>2, <1>3, <1>4, <1>5, RestartInv, TickInv DEF Next

LEMMA Inductive == Spec => []IInv
BY InitInv, NextInv, PTL DEF Spec

(* TypeOK: the cache of AuthorizationMiddleware.ts holds callers' tokens    *)
(* only, never more than its maximum, and authorize ends with the roles of  *)
(* the caller's token or one of the statuses it answers.                    *)
THEOREM TypeCorrect == Spec => []TypeOK
BY Inductive, PTL DEF IInv

(* AuthorizedWasGood: a cached entry vouches for a token at the moment the  *)
(* server answered, which CacheTTL and MaxDelay bound, however requests,    *)
(* deactivations and restarts interleave with the calls.                    *)
THEOREM AuthorizedSafe == Spec => []AuthorizedWasGood
<1>1. IInv => AuthorizedWasGood
  <2> SUFFICES ASSUME IInv, NEW f \in Frontends, IsAuthorized(f)
               PROVE  LET t == token[f] IN
                      /\ t.kind = "signed" /\ t.iss = "own"
                      /\ now <= t.exp + CacheTTL + MaxDelay
                      /\ \/ HardcodedEnabled /\ t.client_id \in HardcodedKey
                         \/ t.client_id \in active
                         \/ now <= changedAt[t.client_id] + CacheTTL + MaxDelay
    BY DEF AuthorizedWasGood
  <2>1. WasGood(token[f], now - CacheTTL - MaxDelay)
    BY DEF IInv, OutcomeInv
  <2>2. now \in Nat /\ token[f] \in Jwt /\ token[f].exp \in Int
    BY TokensAreGiven DEF IInv, TypeOK, TokensGiven, Jwt
  <2>3. token[f].client_id \in Clients => changedAt[token[f].client_id] \in Nat
    BY DEF IInv, TypeOK
  <2> QED
    BY <2>1, <2>2, <2>3, BoundsAssumption DEF WasGood
<1> QED
  BY <1>1, Inductive, PTL

(* RefusedWasBad: the 401 of authorize is about the caller's token, never   *)
(* about the worker's own, which others replace and expire meanwhile.       *)
THEOREM RefusedSafe == Spec => []RefusedWasBad
<1>1. IInv => RefusedWasBad
  BY DEF IInv, OutcomeInv, RefusedWasBad, WasBad
<1> QED
  BY <1>1, Inductive, PTL

(* GatewayErrorsHaveACause: the second verification carries a token young   *)
(* enough to be accepted, so that a 502 of authorize has a failed call      *)
(* behind it as soon as an own token outlives two calls.                    *)
THEOREM GatewaySafe == Spec => []GatewayErrorsHaveACause
<1>1. IInv => GatewayErrorsHaveACause
  BY BoundsAssumption, TokenLifeAssumption DEF IInv, OutcomeInv, GatewayErrorsHaveACause
<1> QED
  BY <1>1, Inductive, PTL
================================================================================
