------------------------- MODULE DocumentIntakeProofs -------------------------
(* What passes the intake, for every schema, every set of requests and      *)
(* every interleaving: references meet the documents they spell out, one    *)
(* id is one identity unless a value has a '#' in it, and strictness is not *)
(* lost in the caches.                                                      *)
EXTENDS DocumentIntake, Functions, FiniteSetTheorems, TLAPS

(* Where a request is, what its schema object and the caches can be.        *)
TypeInv ==
  /\ input \in [Requests -> UNION {Inputs[r] : r \in Requests}]
  /\ \A r \in Requests : input[r] \in Inputs[r]
  /\ apiSchemaCache \in Requests \cup {0}
  /\ validatorCache \in [Requests \X Resources -> {"none", "lax", "strict"}]
  /\ compiledFor \subseteq Requests \X Resources
  /\ pc \in [Requests -> {"start", "reading", "loaded", "done"}]
  /\ schema \in [Requests -> Requests \cup {0}]
  /\ outcome \in [Requests -> {"none", "passed", "400", "404", "500"}]

(* A request that looks for validators has a schema object, and one that    *)
(* has an outcome looks for nothing any more.                               *)
Position ==
  \A r \in Requests : /\ pc[r] = "loaded" => schema[r] \in Requests
                      /\ outcome[r] # "none" => pc[r] = "done"

(* Validators are lax only where overposting is allowed, and there they are *)
(* strict only after a query.                                               *)
CacheInv ==
  \A v \in Requests \X Resources :
    /\ validatorCache[v] = "lax" => overposting
    /\ validatorCache[v] = "strict" /\ overposting => v \in compiledFor

(* A document that was passed on has been checked.                          *)
Checked ==
  \A r \in Passed : /\ input[r].resource \in Resources /\ Complete(input[r])
                    /\ validateEqualityConstraints(input[r].resource, input[r].body)
                    /\ HasIdentity(input[r].resource, input[r].body)

IInv == TypeInv /\ Position /\ CacheInv /\ Checked /\ StrictWhereAsked

------------------------------------------------------------------------------
(* Strictness and checks, one request at a time.                            *)
Judged(r) == LET q == input[r] IN
  outcome[r] # "none" /\ q.resource \in Resources =>
  /\ q.kind = "query" /\ UnknownParameters(q) # {} => outcome[r] # "passed"
  /\ q.kind # "query" /\ Unknown(q) # {} /\ ~overposting => outcome[r] # "passed"
  /\ /\ q.kind # "query" /\ overposting /\ Complete(q) /\ outcome[r] = "400"
     /\ validateEqualityConstraints(q.resource, q.body)
     => <<schema[r], q.resource>> \in compiledFor

CheckedOne(r) ==
  outcome[r] = "passed" /\ input[r].kind # "query" =>
    /\ input[r].resource \in Resources /\ Complete(input[r])
    /\ validateEqualityConstraints(input[r].resource, input[r].body)
    /\ HasIdentity(input[r].resource, input[r].body)

LEMMA OneByOne ==
    /\ StrictWhereAsked <=> \A r \in Requests : Judged(r)
    /\ Checked <=> \A r \in Requests : CheckedOne(r)
<1>1. StrictWhereAsked <=> \A r \in Requests : Judged(r)
  BY DEF StrictWhereAsked, Judged
<1>2. Checked <=> \A r \in Requests : CheckedOne(r)
  BY DEF Checked, CheckedOne, Passed
<1> QED
  BY <1>1, <1>2

LEMMA OneByOneAfter ==
    ASSUME \A r \in Requests : Judged(r)' /\ CheckedOne(r)'
    PROVE  StrictWhereAsked' /\ Checked'
<1>1. StrictWhereAsked'
  BY DEF StrictWhereAsked, Judged
<1>2. Checked'
  BY DEF Checked, CheckedOne, Passed
<1> QED
  BY <1>1, <1>2

(* Inputs and the setting never change, and what a query has had compiled   *)
(* stays on record.                                                         *)
Kept == input' = input /\ overposting' = overposting /\ compiledFor \subseteq compiledFor'

(* What is found of a request stays found while another one moves.          *)
LEMMA OthersKept ==
    ASSUME IInv, Kept, NEW r \in Requests, NEW p \in Requests,
           outcome'[p] = outcome[p], schema'[p] = schema[p]
    PROVE  Judged(p)' /\ CheckedOne(p)'
<1>1. Judged(p) /\ CheckedOne(p)
  BY OneByOne DEF IInv
<1>2. /\ UnknownParameters(input[p])' = UnknownParameters(input[p])
      /\ Unknown(input[p])' = Unknown(input[p])
      /\ Complete(input[p])' = Complete(input[p])
      /\ validateEqualityConstraints(input[p].resource, input[p].body)'
           = validateEqualityConstraints(input[p].resource, input[p].body)
      /\ HasIdentity(input[p].resource, input[p].body)' = HasIdentity(input[p].resource, input[p].body)
  BY DEF Kept, UnknownParameters, Unknown, Known, Required, Complete, validateEqualityConstraints,
         HasIdentity, Winning, Keys, allEqual, JsonPath, ElementsOf
<1>3. Judged(p)'
  BY <1>1, <1>2 DEF Kept, Judged
<1>4. CheckedOne(p)'
  BY <1>1, <1>2 DEF Kept, CheckedOne
<1> QED
  BY <1>3, <1>4

(* A request that is not answered yet is neither judged nor checked.        *)
LEMMA NothingYet ==
    ASSUME NEW r \in Requests, outcome'[r] = "none"
    PROVE  Judged(r)' /\ CheckedOne(r)'
BY DEF Judged, CheckedOne

LEMMA Initially ==
    Init => IInv
<1> SUFFICES ASSUME Init PROVE IInv
  OBVIOUS
<1>1. TypeInv
  BY DEF Init, TypeInv
<1>2. Position /\ CacheInv
  BY DEF Init, Position, CacheInv
<1>3. \A r \in Requests : Judged(r) /\ CheckedOne(r)
  BY DEF Init, Judged, CheckedOne
<1> QED
  BY <1>1, <1>2, <1>3, OneByOne DEF IInv

------------------------------------------------------------------------------
LEMMA FindsApiSchema ==
    ASSUME IInv, NEW r \in Requests, findApiSchema(r) PROVE IInv'
<1>1. outcome[r] = "none" /\ Kept
  BY DEF IInv, Position, findApiSchema, Kept
<1>2. TypeInv'
  BY DEF IInv, TypeInv, findApiSchema
<1>3. Position'
  BY DEF IInv, TypeInv, Position, findApiSchema
<1>4. CacheInv'
  BY DEF IInv, CacheInv, findApiSchema
<1>5. Judged(r)' /\ CheckedOne(r)'
  BY <1>1, NothingYet DEF findApiSchema
<1>6. \A p \in Requests \ {r} : Judged(p)' /\ CheckedOne(p)'
  BY <1>1, OthersKept DEF findApiSchema, IInv, TypeInv
<1> QED
  BY <1>2, <1>3, <1>4, <1>5, <1>6, OneByOneAfter DEF IInv

LEMMA LoadsApiSchema ==
    ASSUME IInv, NEW r \in Requests, loadApiSchemaFromFile(r) PROVE IInv'
<1>1. outcome[r] = "none" /\ Kept
  BY DEF IInv, Position, loadApiSchemaFromFile, Kept
<1>2. TypeInv'
  BY DEF IInv, TypeInv, loadApiSchemaFromFile
<1>3. Position'
  BY DEF IInv, TypeInv, Position, loadApiSchemaFromFile
<1>4. CacheInv'
  BY DEF IInv, CacheInv, loadApiSchemaFromFile
<1>5. Judged(r)' /\ CheckedOne(r)'
  BY <1>1, NothingYet DEF loadApiSchemaFromFile
<1>6. \A p \in Requests \ {r} : Judged(p)' /\ CheckedOne(p)'
  BY <1>1, OthersKept DEF loadApiSchemaFromFile, IInv, TypeInv
<1> QED
  BY <1>2, <1>3, <1>4, <1>5, <1>6, OneByOneAfter DEF IInv

LEMMA LoadFails ==
    ASSUME IInv, NEW r \in Requests, loadApiSchemaFails(r) PROVE IInv'
<1>1. outcome[r] = "none" /\ Kept
  BY DEF IInv, Position, loadApiSchemaFails, Kept
<1>2. TypeInv'
  BY DEF IInv, TypeInv, loadApiSchemaFails, Ends
<1>3. Position'
  BY DEF IInv, TypeInv, Position, loadApiSchemaFails, Ends
<1>4. CacheInv'
  BY DEF IInv, CacheInv, loadApiSchemaFails
<1>5. Judged(r)' /\ CheckedOne(r)'
  BY DEF Judged, CheckedOne, loadApiSchemaFails, Ends, IInv, TypeInv
<1>6. \A p \in Requests \ {r} : Judged(p)' /\ CheckedOne(p)'
  BY <1>1, OthersKept DEF loadApiSchemaFails, IInv, TypeInv, Ends
<1> QED
  BY <1>2, <1>3, <1>4, <1>5, <1>6, OneByOneAfter DEF IInv

LEMMA EndpointRefused ==
    ASSUME IInv, NEW r \in Requests, refuseEndpoint(r) PROVE IInv'
<1>1. outcome[r] = "none" /\ Kept
  BY DEF IInv, Position, refuseEndpoint, Kept
<1>2. TypeInv'
  BY DEF IInv, TypeInv, refuseEndpoint, Ends
<1>3. Position'
  BY DEF IInv, TypeInv, Position, refuseEndpoint, Ends
<1>4. CacheInv'
  BY DEF IInv, CacheInv, refuseEndpoint
<1>5. Judged(r)' /\ CheckedOne(r)'
  BY DEF Judged, CheckedOne, refuseEndpoint, Ends, IInv, TypeInv
<1>6. \A p \in Requests \ {r} : Judged(p)' /\ CheckedOne(p)'
  BY <1>1, OthersKept DEF refuseEndpoint, IInv, TypeInv, Ends
<1> QED
  BY <1>2, <1>3, <1>4, <1>5, <1>6, OneByOneAfter DEF IInv

(* What getSchemaValidatorsFor hands out and puts in the cache: lax only    *)
(* for documents and where overposting is allowed, and there strict only    *)
(* for a query or after one.                                                *)
LEMMA ValidatorsHonest ==
    ASSUME IInv, NEW r \in Requests, schema[r] \in Requests, input[r].resource \in Resources,
           NEW isQuery \in BOOLEAN, getSchemaValidatorsFor(isQuery, r), overposting' = overposting
    PROVE  /\ validatorCache' \in [Requests \X Resources -> {"none", "lax", "strict"}]
           /\ compiledFor' \subseteq Requests \X Resources /\ compiledFor \subseteq compiledFor'
           /\ CacheInv'
           /\ Validators(isQuery, r) = "lax" => overposting /\ ~isQuery
           /\ isQuery => Validators(isQuery, r) = "strict"
           /\ Validators(isQuery, r) = "lax"
                \/ isQuery \/ ~overposting \/ <<schema[r], input[r].resource>> \in compiledFor
<1> DEFINE v == <<schema[r], input[r].resource>>
<1>1. v \in Requests \X Resources
  OBVIOUS
<1>2. validatorCache[v] = validatorCache[schema[r], input[r].resource]
  BY Zenon
<1>3. validatorCache \in [Requests \X Resources -> {"none", "lax", "strict"}] /\ CacheInv
      /\ compiledFor \subseteq Requests \X Resources
  BY DEF IInv, TypeInv
<1>4. CASE Cached(isQuery, r) # "none"
  <2>1. UNCHANGED <<validatorCache, compiledFor>> /\ Validators(isQuery, r) = validatorCache[v]
        /\ ~isQuery
    BY <1>2, <1>4 DEF getSchemaValidatorsFor, Validators, Cached
  <2>2. CacheInv'
    BY <1>3, <2>1 DEF CacheInv
  <2>3. validatorCache[v] \in {"lax", "strict"}
    BY <1>1, <1>3, <1>4, <2>1 DEF Validators
  <2> QED
    BY <1>1, <1>3, <2>1, <2>2, <2>3 DEF CacheInv
<1>5. CASE Cached(isQuery, r) = "none"
  <2>1. /\ validatorCache' = [validatorCache EXCEPT ![v] = Compiled(isQuery)]
        /\ compiledFor' = IF isQuery THEN compiledFor \cup {v} ELSE compiledFor
        /\ Validators(isQuery, r) = Compiled(isQuery)
    BY <1>5 DEF getSchemaValidatorsFor, Validators
  <2>2. /\ Compiled(isQuery) \in {"lax", "strict"} /\ (Compiled(isQuery) = "lax" => overposting /\ ~isQuery)
        /\ Compiled(isQuery) = "strict" => isQuery \/ ~overposting
    BY DEF Compiled
  <2>3. CacheInv'
    BY <1>1, <1>3, <2>1, <2>2 DEF CacheInv
  <2> QED
    BY <1>1, <1>3, <2>1, <2>2, <2>3
<1> QED
  BY <1>4, <1>5

LEMMA WritesDocument ==
    ASSUME IInv, NEW r \in Requests, writeDocument(r) PROVE IInv'
<1> DEFINE q == input[r]
           good == /\ validateDocument(r, Validators(FALSE, r))
                   /\ validateEqualityConstraints(q.resource, q.body)
           found == HasIdentity(q.resource, q.body) /\ HasWholeReferences(q.resource, q.body)
           status == IF ~good THEN "400" ELSE IF found THEN "passed" ELSE "500"
<1>1. /\ outcome[r] = "none" /\ schema[r] \in Requests /\ q.resource \in Resources
      /\ q.kind # "query" /\ getSchemaValidatorsFor(FALSE, r)
  BY DEF IInv, Position, writeDocument
<1>2. /\ Ends(r, status) /\ input' = input /\ overposting' = overposting
      /\ schema' = schema /\ apiSchemaCache' = apiSchemaCache
  BY DEF writeDocument
<1>3. /\ validatorCache' \in [Requests \X Resources -> {"none", "lax", "strict"}]
      /\ compiledFor' \subseteq Requests \X Resources /\ compiledFor \subseteq compiledFor'
      /\ CacheInv'
      /\ Validators(FALSE, r) = "lax" => overposting
      /\ Validators(FALSE, r) = "lax"
           \/ ~overposting \/ <<schema[r], q.resource>> \in compiledFor
  BY <1>1, <1>2, ValidatorsHonest
<1>4. Kept
  BY <1>2, <1>3 DEF Kept
<1>5. /\ status \in {"passed", "400", "500"}
      /\ status = "passed" => /\ Complete(q) /\ validateEqualityConstraints(q.resource, q.body)
                              /\ HasIdentity(q.resource, q.body)
                              /\ overposting \/ Unknown(q) = {}
      /\ status = "400" /\ overposting /\ Complete(q) /\ validateEqualityConstraints(q.resource, q.body)
           => <<schema[r], q.resource>> \in compiledFor
  BY <1>3 DEF validateDocument
<1> HIDE DEF status
<1>6. outcome'[r] = status
  BY <1>2 DEF Ends, IInv, TypeInv
<1>7. TypeInv'
  BY <1>2, <1>3, <1>5 DEF IInv, TypeInv, Ends
<1>8. Position'
  BY <1>2 DEF IInv, TypeInv, Position, Ends
<1>9. Judged(r)' /\ CheckedOne(r)'
  <2>1. /\ Unknown(q)' = Unknown(q) /\ Complete(q)' = Complete(q)
        /\ validateEqualityConstraints(q.resource, q.body)' = validateEqualityConstraints(q.resource, q.body)
        /\ HasIdentity(q.resource, q.body)' = HasIdentity(q.resource, q.body)
    BY <1>2 DEF Unknown, Known, Required, Complete, validateEqualityConstraints,
                HasIdentity, Winning, Keys, allEqual, JsonPath, ElementsOf
  <2> QED
    BY <1>1, <1>2, <1>3, <1>5, <1>6, <2>1 DEF Judged, CheckedOne
<1>10. \A p \in Requests \ {r} : Judged(p)' /\ CheckedOne(p)'
  BY <1>2, <1>4, OthersKept DEF IInv, TypeInv, Ends
<1> QED
  BY <1>3, <1>7, <1>8, <1>9, <1>10, OneByOneAfter DEF IInv

LEMMA QueriesDocuments ==
    ASSUME IInv, NEW r \in Requests, queryDocuments(r) PROVE IInv'
<1> DEFINE q == input[r]
<1>1. /\ outcome[r] = "none" /\ schema[r] \in Requests /\ q.resource \in Resources /\ q.kind = "query"
      /\ input' = input /\ overposting' = overposting
      /\ schema' = schema /\ apiSchemaCache' = apiSchemaCache
  BY DEF IInv, Position, queryDocuments
<1>2. PICK status \in {"passed", "400"} :
        /\ Ends(r, status)
        /\ status = "passed" => UnknownParameters(q) = {}
        /\ validatorCache' \in [Requests \X Resources -> {"none", "lax", "strict"}]
        /\ compiledFor' \subseteq Requests \X Resources /\ compiledFor \subseteq compiledFor'
        /\ CacheInv'
  <2>1. CASE ~HasParameters(q) /\ Ends(r, "passed") /\ UNCHANGED <<validatorCache, compiledFor>>
    <3>1. UnknownParameters(q) = {}
      BY <2>1 DEF HasParameters, UnknownParameters
    <3>2. CacheInv'
      BY <1>1, <2>1 DEF IInv, CacheInv
    <3> QED
      BY <2>1, <3>1, <3>2 DEF IInv, TypeInv
  <2>2. CASE Ends(r, "400") /\ UNCHANGED <<validatorCache, compiledFor>>
    <3>1. CacheInv'
      BY <1>1, <2>2 DEF IInv, CacheInv
    <3> QED
      BY <2>2, <3>1 DEF IInv, TypeInv
  <2>3. CASE /\ getSchemaValidatorsFor(TRUE, r)
             /\ Ends(r, IF validateQueryParameters(r, Validators(TRUE, r)) THEN "passed" ELSE "400")
    <3>1. /\ validatorCache' \in [Requests \X Resources -> {"none", "lax", "strict"}]
          /\ compiledFor' \subseteq Requests \X Resources /\ compiledFor \subseteq compiledFor'
          /\ CacheInv' /\ Validators(TRUE, r) = "strict"
      BY <1>1, <2>3, ValidatorsHonest
    <3>2. CASE validateQueryParameters(r, Validators(TRUE, r))
      BY <2>3, <3>1, <3>2 DEF validateQueryParameters
    <3>3. CASE ~validateQueryParameters(r, Validators(TRUE, r))
      BY <2>3, <3>1, <3>3
    <3> QED
      BY <3>2, <3>3
  <2> QED
    BY <2>1, <2>2, <2>3 DEF queryDocuments
<1>3. Kept
  BY <1>1, <1>2 DEF Kept
<1>4. outcome'[r] = status
  BY <1>2 DEF Ends, IInv, TypeInv
<1>5. TypeInv'
  BY <1>1, <1>2 DEF IInv, TypeInv, Ends
<1>6. Position'
  BY <1>1, <1>2 DEF IInv, TypeInv, Position, Ends
<1>7. Judged(r)' /\ CheckedOne(r)'
  <2>1. UnknownParameters(q)' = UnknownParameters(q)
    BY <1>1 DEF UnknownParameters
  <2> QED
    BY <1>1, <1>2, <1>4, <2>1 DEF Judged, CheckedOne
<1>8. \A p \in Requests \ {r} : Judged(p)' /\ CheckedOne(p)'
  BY <1>1, <1>2, <1>3, OthersKept DEF IInv, TypeInv, Ends
<1> QED
  BY <1>2, <1>5, <1>6, <1>7, <1>8, OneByOneAfter DEF IInv

LEMMA Stutters ==
    ASSUME IInv, UNCHANGED vars PROVE IInv'
<1>1. TypeInv' /\ Position' /\ CacheInv'
  BY DEF IInv, TypeInv, Position, CacheInv, vars
<1>2. \A p \in Requests : Judged(p)' /\ CheckedOne(p)'
  BY OthersKept DEF vars, Kept
<1> QED
  BY <1>1, <1>2, OneByOneAfter DEF IInv

(* Every step of the intake keeps the caches honest and the findings true.  *)
THEOREM Inductive == Spec => []IInv
<1>1. Init => IInv
  BY Initially
<1>2. IInv /\ [Next]_vars => IInv'
  <2> SUFFICES ASSUME IInv, [Next]_vars PROVE IInv'
    OBVIOUS
  <2>1. CASE \E r \in Requests : \/ findApiSchema(r) \/ loadApiSchemaFromFile(r)
                                 \/ loadApiSchemaFails(r) \/ refuseEndpoint(r)
                                 \/ writeDocument(r) \/ queryDocuments(r)
    BY <2>1, FindsApiSchema, LoadsApiSchema, LoadFails, EndpointRefused, WritesDocument, QueriesDocuments
  <2>2. CASE UNCHANGED vars
    BY <2>2, Stutters
  <2> QED
    BY <2>1, <2>2 DEF Next, AllDone
<1> QED
  BY <1>1, <1>2, PTL DEF Spec

(* getSchemaValidatorsFor: whatever order requests come in, no query with   *)
(* an unknown parameter and, without overposting, no document with an       *)
(* unknown property passes; with it, only a query makes documents refused.  *)
THEOREM StrictSafe == Spec => []StrictWhereAsked
<1>1. IInv => StrictWhereAsked
  BY DEF IInv
<1> QED
  BY <1>1, Inductive, PTL

------------------------------------------------------------------------------
(* Two functions on the keys of an identity make one identity exactly when  *)
(* they are the same, whatever the order of the keys.                       *)
LEMMA InOrder ==
    ASSUME NEW order, NEW u, NEW f,
           u = [key \in ElementsOf(order) |-> u[key]], f = [key \in ElementsOf(order) |-> f[key]]
    PROVE  ([i \in DOMAIN order |-> <<order[i], u[order[i]]>>]
              = [i \in DOMAIN order |-> <<order[i], f[order[i]]>>]) <=> u = f
<1> DEFINE ids(g) == [i \in DOMAIN order |-> <<order[i], g[order[i]]>>]
<1>1. ASSUME ids(u) = ids(f) PROVE u = f
  <2>1. \A i \in DOMAIN order : ids(u)[i] = <<order[i], u[order[i]]>> /\ ids(f)[i] = <<order[i], f[order[i]]>>
    OBVIOUS
  <2>2. \A i \in DOMAIN order : u[order[i]] = f[order[i]]
    BY <1>1, <2>1
  <2>3. \A key \in ElementsOf(order) : u[key] = f[key]
    BY <2>2 DEF ElementsOf
  <2> QED
    BY <2>3
<1>2. ASSUME u = f PROVE ids(u) = ids(f)
  BY <1>2
<1> QED
  BY <1>1, <1>2

(* extractDocumentIdentity lists what the body says of itself in the order  *)
(* of identityPathOrder.                                                    *)
LEMMA OwnIdentity ==
    ASSUME NEW d, Schema[d.resource].kind = "resource"
    PROVE  LET order == Schema[d.resource].order IN
           /\ extractDocumentIdentity(d.resource, d.body)
                = [i \in DOMAIN order |-> <<order[i], Says(d)[order[i]]>>]
           /\ Says(d) = [key \in ElementsOf(order) |-> Says(d)[key]]
<1> DEFINE order == Schema[d.resource].order
           id(i) == <<order[i], JsonPath(Winning(d.resource, order[i]), d.body)[1]>>
<1>1. extractDocumentIdentity(d.resource, d.body) = [i \in DOMAIN order |-> id(i)]
  BY DEF extractDocumentIdentity
<1>2. \A i \in DOMAIN order : order[i] \in ElementsOf(order)
  BY DEF ElementsOf
<1>3. \A i \in DOMAIN order : id(i) = <<order[i], Says(d)[order[i]]>>
  BY <1>2 DEF Says
<1> HIDE DEF id
<1>4. [i \in DOMAIN order |-> id(i)] = [i \in DOMAIN order |-> <<order[i], Says(d)[order[i]]>>]
  BY <1>3
<1>5. Says(d) = [key \in ElementsOf(order) |-> Says(d)[key]]
  BY DEF Says
<1> QED
  BY <1>1, <1>4, <1>5

(* deriveSuperclassInfoFrom lists what the body says of itself as a         *)
(* document of its superclass in the order of the superclass' identity.     *)
LEMMA SuperclassIdentity ==
    ASSUME NEW d, d.resource \in Resources, Schema[d.resource].kind = "resource", IsSubclass(d.resource)
    PROVE  LET super == Schema[d.resource].subclass.resource
               order == Abstract[super]
           IN  /\ super \notin Resources /\ super \in DOMAIN Abstract
               /\ deriveSuperclassInfoFrom(d.resource, extractDocumentIdentity(d.resource, d.body))
                    = meadowlarkId(super, [i \in DOMAIN order |-> <<order[i], SaysAsSuperclass(d)[order[i]]>>])
               /\ SaysAsSuperclass(d) = [key \in ElementsOf(order) |-> SaysAsSuperclass(d)[key]]
               /\ NoSeparator(extractDocumentIdentity(d.resource, d.body)) =>
                    NoSeparator([i \in DOMAIN order |-> <<order[i], SaysAsSuperclass(d)[order[i]]>>])
<1> DEFINE sub == Schema[d.resource].subclass
           own == Schema[d.resource].order
           order == Abstract[sub.resource]
           identity == extractDocumentIdentity(d.resource, d.body)
           old(key) == IF sub.type = "domainEntity" /\ key = sub.to THEN sub.from ELSE key
           says == SaysAsSuperclass(d)
           listed == [i \in DOMAIN order |-> <<order[i], says[order[i]]>>]
           renamed == [i \in DOMAIN identity |->
                         IF identity[i][1] = sub.from THEN <<sub.to, identity[i][2]>> ELSE identity[i]]
<1>1. /\ sub.type \in {"association", "domainEntity"} /\ sub.resource \notin Resources
      /\ sub.resource \in DOMAIN Abstract
      /\ DOMAIN order = DOMAIN own
      /\ \A i \in DOMAIN own : order[i] = Renamed(sub, own[i])
      /\ sub.type = "domainEntity" => sub.to \notin ElementsOf(own) \ {sub.from}
  BY SuperclassAssumption DEF SuperclassAssumption, IsSubclass
<1>2. /\ DOMAIN identity = DOMAIN own
      /\ \A i \in DOMAIN own : identity[i] = <<own[i], Says(d)[own[i]]>>
  BY OwnIdentity
<1>3. says = [key \in ElementsOf(order) |-> Says(d)[old(key)]]
  BY DEF SaysAsSuperclass
<1>4. \A i \in DOMAIN own : own[i] \in ElementsOf(own) /\ order[i] \in ElementsOf(order)
  BY <1>1 DEF ElementsOf
<1>5. \A i \in DOMAIN own : old(order[i]) = own[i]
  BY <1>1, <1>4 DEF Renamed
<1>6. \A i \in DOMAIN own : says[order[i]] = Says(d)[own[i]]
  <2> HIDE DEF says, old, order, own
  <2>1. \A key \in ElementsOf(order) : says[key] = Says(d)[old(key)]
    BY <1>3
  <2> QED
    BY <1>4, <1>5, <2>1
<1>7. says = [key \in ElementsOf(order) |-> says[key]]
  BY <1>3
<1> HIDE DEF says, old
<1>10. NoSeparator(identity) => NoSeparator(listed)
  <2>1. \A i \in DOMAIN own : listed[i][2] = identity[i][2]
    BY <1>1, <1>2, <1>6
  <2> HIDE DEF identity
  <2> QED
    BY <1>1, <1>2, <2>1 DEF NoSeparator
<1>8. CASE sub.type = "association"
  <2>1. deriveSuperclassInfoFrom(d.resource, identity) = meadowlarkId(sub.resource, identity)
    BY <1>8 DEF deriveSuperclassInfoFrom
  <2>2. \A i \in DOMAIN own : order[i] = own[i]
    BY <1>1, <1>8 DEF Renamed
  <2>3. \A i \in DOMAIN own : identity[i] = <<order[i], says[order[i]]>>
    BY <1>2, <1>6, <2>2
  <2>4. identity = [i \in DOMAIN own |-> identity[i]]
    BY <1>2, OwnIdentity
  <2> HIDE DEF identity
  <2>5. identity = listed
    BY <1>1, <2>3, <2>4
  <2> QED
    BY <1>1, <1>7, <1>10, <2>1, <2>5 DEF identity, says
<1>9. CASE sub.type = "domainEntity"
  <2>1. deriveSuperclassInfoFrom(d.resource, identity) = meadowlarkId(sub.resource, renamed)
    BY <1>9 DEF deriveSuperclassInfoFrom
  <2>2. \A i \in DOMAIN own : identity[i][1] = own[i] /\ identity[i][2] = Says(d)[own[i]]
    BY <1>2
  <2> HIDE DEF identity
  <2>3. \A i \in DOMAIN own :
          (IF identity[i][1] = sub.from THEN <<sub.to, identity[i][2]>> ELSE identity[i])
            = <<order[i], says[order[i]]>>
    BY <1>1, <1>2, <1>6, <1>9, <2>2 DEF Renamed
  <2>4. renamed = listed
    BY <1>1, <1>2, <2>3
  <2> QED
    BY <1>1, <1>7, <1>10, <2>1, <2>4 DEF identity, says
<1> QED
  BY <1>1, <1>8, <1>9

(* n elements, each a key and its value.                                    *)
IsIdentity(identity, n) ==
    DOMAIN identity = 1 .. n /\ \A i \in 1 .. n : identity[i] = <<identity[i][1], identity[i][2]>>

SameElements(one, two) == \A i \in DOMAIN one : one[i] = two[i]

(* Without a '#' in its values the text of an identity is its elements, in  *)
(* their order.                                                             *)
LEMMA PlainText ==
    ASSUME NEW n \in Nat, NEW identity, IsIdentity(identity, n), NoSeparator(identity)
    PROVE  /\ \A i \in 1 .. n : <<i, identity[i]>> \in Joined(identity)
           /\ \A z \in Joined(identity) : \E i \in 1 .. n : z = <<i, identity[i]>>
<1> USE DEF IsIdentity
<1>1. ASSUME NEW i \in 1 .. n PROVE Pieces(identity[i]) = <<identity[i]>>
  <2>1. Text(identity[i][2]) = [first |-> identity[i][2], rest |-> <<>>]
    BY DEF NoSeparator, Text
  <2>2. Pieces(identity[i]) = << <<identity[i][1], identity[i][2]>> >> \o <<>>
    BY <2>1 DEF Pieces
  <2> DEFINE piece == <<identity[i][1], identity[i][2]>>
  <2>3. piece = identity[i]
    OBVIOUS
  <2> HIDE DEF piece
  <2>4. <<piece>> \o <<>> = <<piece>>
    OBVIOUS
  <2> QED
    BY <2>2, <2>3, <2>4 DEF piece
<1>2. \A i \in 1 .. n : DOMAIN Pieces(identity[i]) = {1} /\ Pieces(identity[i])[1] = identity[i]
  <2> SUFFICES ASSUME NEW i \in 1 .. n
               PROVE  DOMAIN Pieces(identity[i]) = {1} /\ Pieces(identity[i])[1] = identity[i]
    OBVIOUS
  <2> DEFINE piece == identity[i]
  <2>1. Pieces(identity[i]) = <<piece>>
    BY <1>1
  <2> HIDE DEF piece
  <2>2. DOMAIN <<piece>> = {1} /\ <<piece>>[1] = piece
    OBVIOUS
  <2> QED
    BY <2>1, <2>2 DEF piece
<1>3. Positions(identity) = {<<i, 1>> : i \in 1 .. n}
  <2>1. Positions(identity) = UNION {{i} \X {1} : i \in 1 .. n}
    BY <1>2 DEF Positions
  <2> QED
    BY <2>1
<1>4. ASSUME NEW i \in 1 .. n PROVE Place(identity, <<i, 1>>) = i
  <2> DEFINE upTo == {y \in Positions(identity) : y[1] < i \/ (y[1] = i /\ y[2] <= 1)}
             f == [j \in 1 .. i |-> <<j, 1>>]
  <2>1. upTo = {<<j, 1>> : j \in 1 .. i}
    BY <1>3
  <2>2. f \in Bijection(1 .. i, upTo)
    BY <2>1 DEF Bijection, Injection, Surjection, IsInjective
  <2>3. IsFiniteSet(1 .. i) /\ Cardinality(1 .. i) = i
    BY FS_Interval
  <2> HIDE DEF f, upTo
  <2>5. ExistsBijection(1 .. i, upTo)
    BY <2>2 DEF ExistsBijection
  <2>4. Cardinality(upTo) = i
    BY <2>3, <2>5, FS_Bijection
  <2> QED
    BY <2>4 DEF Place, upTo
<1>5. \A x \in Positions(identity) :
        \E i \in 1 .. n : x = <<i, 1>> /\ <<Place(identity, x), Pieces(identity[x[1]])[x[2]]>> = <<i, identity[i]>>
  BY <1>2, <1>3, <1>4
<1>6. \A i \in 1 .. n :
        /\ <<i, 1>> \in Positions(identity)
        /\ <<Place(identity, <<i, 1>>), Pieces(identity[i])[1]>> = <<i, identity[i]>>
  BY <1>2, <1>3, <1>4
<1>7. \A i \in 1 .. n : <<i, identity[i]>> \in Joined(identity)
  <2> SUFFICES ASSUME NEW i \in 1 .. n PROVE <<i, identity[i]>> \in Joined(identity)
    OBVIOUS
  <2> DEFINE x == <<i, 1>>
  <2>1. x \in Positions(identity) /\ x[1] = i /\ x[2] = 1
    BY <1>6
  <2> HIDE DEF x
  <2>2. <<Place(identity, x), Pieces(identity[x[1]])[x[2]]>> = <<i, identity[i]>>
    BY <1>6, <2>1 DEF x
  <2> QED
    BY <2>1, <2>2 DEF Joined
<1>8. \A z \in Joined(identity) : \E i \in 1 .. n : z = <<i, identity[i]>>
  BY <1>5 DEF Joined
<1> QED
  BY <1>7, <1>8

(* Two identities with the same keys in the same order and without a '#' in *)
(* their values have one text only if they are the same.                    *)
LEMMA OneText ==
    ASSUME NEW n \in Nat, NEW one, IsIdentity(one, n), NEW two, IsIdentity(two, n),
           NoSeparator(one), NoSeparator(two), Joined(one) = Joined(two)
    PROVE  SameElements(one, two)
<1> SUFFICES ASSUME NEW i \in 1 .. n PROVE one[i] = two[i]
  BY DEF SameElements, IsIdentity
<1>1. <<i, one[i]>> \in Joined(two)
  BY PlainText
<1>2. \E j \in 1 .. n : <<i, one[i]>> = <<j, two[j]>>
  BY <1>1, PlainText
<1> QED
  BY <1>2

(* A value for every key of the order, and their list in the order.         *)
IsOf(u, order) == u = [key \in ElementsOf(order) |-> u[key]]
IsListOf(one, order, u) ==
    DOMAIN one = DOMAIN order /\ \A i \in DOMAIN order : one[i] = <<order[i], u[order[i]]>>

(* So do the identities u and f make of the values of one order's keys.     *)
LEMMA OneTextInOrder ==
    ASSUME NEW order, order \in Seq(ElementsOf(order)),
           NEW u, IsOf(u, order), NEW f, IsOf(f, order),
           NEW one, IsListOf(one, order, u), NEW two, IsListOf(two, order, f),
           NoSeparator(one), NoSeparator(two), Joined(one) = Joined(two)
    PROVE  u = f
<1> USE DEF IsOf, IsListOf
<1>1. PICK n \in Nat : DOMAIN order = 1 .. n
  OBVIOUS
<1>2. /\ DOMAIN one = 1 .. n /\ \A i \in 1 .. n : one[i] = <<order[i], u[order[i]]>>
      /\ DOMAIN two = 1 .. n /\ \A i \in 1 .. n : two[i] = <<order[i], f[order[i]]>>
  BY <1>1
<1>3. IsIdentity(one, n) /\ IsIdentity(two, n)
  BY <1>2 DEF IsIdentity
<1>4. SameElements(one, two)
  BY <1>3, OneText
<1>5. ASSUME NEW key \in ElementsOf(order) PROVE u[key] = f[key]
  <2>1. PICK i \in DOMAIN order : key = order[i]
    BY DEF ElementsOf
  <2>2. one[i] = <<key, u[key]>> /\ two[i] = <<key, f[key]>> /\ i \in DOMAIN one
    BY <2>1
  <2>3. one[i] = two[i]
    BY <1>4, <2>2 DEF SameElements
  <2> DEFINE a == u[key]
             b == f[key]
  <2>4. <<key, a>> = <<key, b>>
    BY <2>2, <2>3
  <2> HIDE DEF a, b
  <2>5. a = b
    BY <2>4
  <2> QED
    BY <2>5 DEF a, b
<1> QED
  BY <1>5

(* An element of a reference property whose keys are those of its target's  *)
(* identity gets the id of a document if it spells it out and, where no     *)
(* value has a '#' in it, only then.                                        *)
LEMMA ElementMeets ==
    ASSUME NEW e, e.resource \in Resources, Schema[e.resource].kind = "resource",
           NEW paths, MayName(paths, e), SameKeys(paths),
           NEW u, u = [key \in Keys(paths) |-> u[key]]
    PROVE  /\ Means(paths, u, e) => ReferenceId(paths, u) \in Aliases(e.resource, e.body)
           /\ /\ NoSeparator(Sorted(paths, u))
              /\ NoSeparator(extractDocumentIdentity(e.resource, e.body))
              /\ ReferenceId(paths, u) \in Aliases(e.resource, e.body)
              => Means(paths, u, e)
<1> DEFINE own == Schema[e.resource].order
           order == identityPathOrderForReference(paths.target)
           super == Schema[e.resource].subclass.resource
           ids(o, g) == [i \in DOMAIN o |-> <<o[i], g[o[i]]>>]
           identity == extractDocumentIdentity(e.resource, e.body)
<1>1. u = [key \in ElementsOf(order) |-> u[key]]
  BY DEF SameKeys
<1>2. Sorted(paths, u) = ids(order, u)
  <2>1. \A i \in DOMAIN order : order[i] \in DOMAIN u
    BY <1>1 DEF ElementsOf
  <2>2. \A i \in DOMAIN order : <<order[i], ValueOf(u, order[i])>> = <<order[i], u[order[i]]>>
    BY <2>1 DEF ValueOf
  <2> QED
    BY <2>2 DEF Sorted
<1>3. identity = ids(own, Says(e)) /\ Says(e) = [key \in ElementsOf(own) |-> Says(e)[key]]
  BY OwnIdentity
<1>4. IsSubclass(e.resource) =>
        /\ super \notin Resources /\ super \in DOMAIN Abstract
        /\ deriveSuperclassInfoFrom(e.resource, identity)
             = meadowlarkId(super, ids(Abstract[super], SaysAsSuperclass(e)))
        /\ SaysAsSuperclass(e) = [key \in ElementsOf(Abstract[super]) |-> SaysAsSuperclass(e)[key]]
        /\ NoSeparator(identity) => NoSeparator(ids(Abstract[super], SaysAsSuperclass(e)))
  BY SuperclassIdentity
<1>5. ReferenceId(paths, u) = <<paths.target, Joined(ids(order, u))>>
  BY <1>2 DEF ReferenceId, meadowlarkId
<1>6. Aliases(e.resource, e.body)
        = {<<e.resource, Joined(ids(own, Says(e)))>>}
            \cup (IF IsSubclass(e.resource)
                  THEN {<<super, Joined(ids(Abstract[super], SaysAsSuperclass(e)))>>} ELSE {})
  BY <1>3, <1>4 DEF Aliases, meadowlarkId
<1>7. own \in Seq(ElementsOf(own))
      /\ (super \in DOMAIN Abstract => Abstract[super] \in Seq(ElementsOf(Abstract[super])))
  BY OrderAssumption DEF OrderAssumption
<1> HIDE DEF identity
(* The elements of u are those of g if their ids are, in one order.         *)
<1>8. ASSUME NEW o, o = order, o \in Seq(ElementsOf(o)), NEW g, g = [key \in ElementsOf(o) |-> g[key]]
      PROVE  /\ u = g => Joined(ids(order, u)) = Joined(ids(o, g))
             /\ /\ NoSeparator(ids(order, u)) /\ NoSeparator(ids(o, g))
                /\ Joined(ids(order, u)) = Joined(ids(o, g))
                => u = g
  <2>1. ASSUME u = g PROVE Joined(ids(order, u)) = Joined(ids(o, g))
    BY <1>8, <2>1
  <2>2. ASSUME NoSeparator(ids(order, u)), NoSeparator(ids(o, g)),
               Joined(ids(order, u)) = Joined(ids(o, g))
        PROVE  u = g
    <3> DEFINE one == ids(order, u)
               two == ids(o, g)
    <3>1. IsListOf(one, o, u) /\ IsListOf(two, o, g)
      BY <1>8 DEF IsListOf
    <3>3. NoSeparator(one) /\ NoSeparator(two) /\ Joined(one) = Joined(two)
      BY <2>2
    <3>2. IsOf(u, o) /\ IsOf(g, o)
      BY <1>1, <1>8 DEF IsOf
    <3> HIDE DEF one, two, order, ids
    <3> QED
      BY <1>8, <3>1, <3>2, <3>3, OneTextInOrder
  <2> QED
    BY <2>1, <2>2
<1>9. CASE paths.target = e.resource
  <2>1. own = order
    BY <1>9 DEF identityPathOrderForReference
  <2>2. /\ u = Says(e) => Joined(ids(order, u)) = Joined(ids(own, Says(e)))
        /\ /\ NoSeparator(ids(order, u)) /\ NoSeparator(ids(own, Says(e)))
           /\ Joined(ids(order, u)) = Joined(ids(own, Says(e)))
           => u = Says(e)
    <3> HIDE DEF ids, order
    <3> QED
      BY <1>3, <1>7, <1>8, <2>1
  <2> HIDE DEF ids, order
  <2>3. ~(IsSubclass(e.resource) /\ paths.target = super)
    BY <1>4, <1>9
  <2> QED
    BY <1>2, <1>3, <1>5, <1>6, <1>9, <2>2, <2>3 DEF Means, identity
<1>10. CASE paths.target # e.resource /\ IsSubclass(e.resource)
  <2>1. paths.target = super
    BY <1>10 DEF MayName
  <2>2. Abstract[super] = order
    BY <1>4, <1>10, <2>1 DEF identityPathOrderForReference
  <2> DEFINE says == SaysAsSuperclass(e)
             upper == Abstract[super]
  <2>3. says = [key \in ElementsOf(upper) |-> says[key]] /\ upper \in Seq(ElementsOf(upper)) /\ upper = order
    BY <1>4, <1>7, <1>10, <2>2
  <2> HIDE DEF ids, order, says, upper
  <2>4. /\ u = says => Joined(ids(order, u)) = Joined(ids(upper, says))
        /\ /\ NoSeparator(ids(order, u)) /\ NoSeparator(ids(upper, says))
           /\ Joined(ids(order, u)) = Joined(ids(upper, says))
           => u = says
    BY <1>8, <2>3
  <2>5. NoSeparator(identity) => NoSeparator(ids(upper, says))
    BY <1>4, <1>10 DEF upper, says
  <2>6. Aliases(e.resource, e.body)
          = {<<e.resource, Joined(ids(own, Says(e)))>>, <<super, Joined(ids(upper, says))>>}
    BY <1>6, <1>10 DEF upper, says
  <2>7. Means(paths, u, e) <=> u = says
    BY <1>10, <2>1 DEF Means, says
  <2>8. ReferenceId(paths, u) \in Aliases(e.resource, e.body)
          <=> Joined(ids(order, u)) = Joined(ids(upper, says))
    BY <1>5, <1>10, <2>1, <2>6
  <2> QED
    BY <1>2, <2>4, <2>5, <2>7, <2>8 DEF identity
<1>11. CASE paths.target # e.resource /\ ~IsSubclass(e.resource)
  <2> HIDE DEF ids, order
  <2> QED
    BY <1>5, <1>6, <1>11 DEF Means
<1> QED
  BY <1>9, <1>10, <1>11

(* extractDocumentReferences, extractDocumentIdentity and                   *)
(* deriveSuperclassInfoFrom agree: an element of a reference that has the   *)
(* keys of its target's identity finds a document that it spells out, and   *)
(* without a '#' in the values of both it finds no other.                   *)
THEOREM ReferencesMeet == Spec => []ReferenceMeetsIdentity
<1>1. IInv => ReferenceMeetsIdentity
  <2> SUFFICES ASSUME IInv, NEW r \in Passed, NEW q \in Passed,
                      Schema[input[q].resource].kind = "resource",
                      NEW p \in ReferenceProperties(input[r].resource, FALSE),
                      MayName(Schema[input[r].resource].mapping[p], input[q]),
                      SameKeys(Schema[input[r].resource].mapping[p])
               PROVE  LET d == input[r]
                          e == input[q]
                          paths == Schema[d.resource].mapping[p]
                      IN  \A u \in ElementsOf(References(paths, d.body)) :
                            /\ Means(paths, u, e) => ReferenceId(paths, u) \in Aliases(e.resource, e.body)
                            /\ /\ NoSeparator(Sorted(paths, u))
                               /\ NoSeparator(extractDocumentIdentity(e.resource, e.body))
                               /\ ReferenceId(paths, u) \in Aliases(e.resource, e.body)
                               => Means(paths, u, e)
    BY DEF ReferenceMeetsIdentity
  <2> DEFINE d == input[r]
             e == input[q]
             paths == Schema[d.resource].mapping[p]
             elements == ElementsOf(References(paths, d.body))
             unsorted(i) == [key \in Keys(paths) |-> Slice(paths, key, d.body)[i]]
  <2>1. e.resource \in Resources
    BY DEF IInv, Checked
  <2>2. \A u \in elements : u = [key \in Keys(paths) |-> u[key]]
    <3> DEFINE length == Len(Slice(paths, paths.order[1], d.body))
    <3>1. References(paths, d.body) = [i \in 1 .. length |-> unsorted(i)]
      BY DEF References
    <3> HIDE DEF length
    <3>2. \A u \in elements : \E i \in 1 .. length : u = unsorted(i)
      <4> HIDE DEF unsorted
      <4> QED
        BY <3>1 DEF ElementsOf
    <3> QED
      BY <3>2
  <2> HIDE DEF e, paths, elements
  <2> QED
    BY <2>1, <2>2, ElementMeets DEF e, paths, elements
<1> QED
  BY <1>1, Inductive, PTL

------------------------------------------------------------------------------
LEMMA PairCardinality ==
    ASSUME NEW x, NEW y, x # y
    PROVE  Cardinality({x, y}) = 2
<1>1. IsFiniteSet({x}) /\ Cardinality({x}) = 1
  BY FS_Singleton
<1>2. Cardinality({x} \cup {y}) = Cardinality({x}) + 1
  <2>1. y \notin {x}
    OBVIOUS
  <2> QED
    BY <1>1, <2>1, FS_AddElement
<1>3. {x, y} = {x} \cup {y}
  OBVIOUS
<1> QED
  BY <1>1, <1>2, <1>3

(* A constraint that holds leaves no two values at its two paths.           *)
LEMMA EqualValues ==
    ASSUME NEW values, values \in Seq(ElementsOf(values)),
           NEW others, others \in Seq(ElementsOf(others)), allEqual(values, others)
    PROVE  \A x, y \in ElementsOf(values) \cup ElementsOf(others) : x = y
<1> DEFINE both == values \o others
           S == ElementsOf(values) \cup ElementsOf(others)
           n == Len(values)
           m == Len(others)
<1>1. /\ n \in Nat /\ DOMAIN values = 1 .. n /\ m \in Nat /\ DOMAIN others = 1 .. m
  OBVIOUS
<1>2. values \in Seq(S) /\ others \in Seq(S)
  <2>1. values \in [1 .. n -> ElementsOf(values)] /\ others \in [1 .. m -> ElementsOf(others)]
    BY <1>1 DEF ElementsOf
  <2> QED
    BY <1>1, <2>1
<1>3. /\ Len(both) = n + m /\ DOMAIN both = 1 .. n + m
      /\ \A i \in 1 .. n : both[i] = values[i]
      /\ \A i \in 1 .. m : both[n + i] = others[i]
  <2> HIDE DEF S
  <2> QED
    BY <1>1, <1>2
<1> HIDE DEF both
<1>4. S \subseteq ElementsOf(both)
  <2>1. \A i \in 1 .. n : values[i] \in ElementsOf(both)
    BY <1>1, <1>3 DEF ElementsOf
  <2>2. \A i \in 1 .. m : others[i] \in ElementsOf(both)
    <3>1. \A i \in 1 .. m : n + i \in 1 .. n + m
      BY <1>1
    <3> QED
      BY <1>3, <3>1 DEF ElementsOf
  <2> QED
    BY <1>1, <2>1, <2>2 DEF ElementsOf
<1>5. IsFiniteSet(ElementsOf(both)) /\ Cardinality(ElementsOf(both)) <= 1
  <2>1. IsFiniteSet(DOMAIN both)
    BY <1>1, <1>3, FS_Interval
  <2>2. IsFiniteSet(ElementsOf(both))
    <3> DEFINE f == [i \in DOMAIN both |-> both[i]]
    <3>1. f \in Surjection(DOMAIN both, ElementsOf(both))
      BY DEF Surjection, ElementsOf
    <3> QED
      BY <2>1, <3>1, FS_Surjection
  <2> QED
    BY <2>2 DEF allEqual, both
<1>6. ASSUME NEW x \in S, NEW y \in S PROVE x = y
  <2>1. {x, y} \subseteq ElementsOf(both)
    BY <1>4
  <2>2. IsFiniteSet({x, y}) /\ Cardinality({x, y}) <= 1
    BY <1>5, <2>1, FS_Subset, FS_CardinalityType
  <2> DEFINE pair == {x, y}
  <2>3. x # y => Cardinality(pair) = 2
    BY PairCardinality
  <2> HIDE DEF pair
  <2>4. Cardinality(pair) <= 1
    BY <2>2 DEF pair
  <2> QED
    BY <2>3, <2>4
<1> QED
  BY <1>6

LEMMA PathIsSequence ==
    ASSUME NEW body, \A path \in DOMAIN body : body[path] \in Seq(ElementsOf(body[path])), NEW path
    PROVE  JsonPath(path, body) \in Seq(ElementsOf(JsonPath(path, body)))
<1>1. CASE path \in DOMAIN body
  BY <1>1 DEF JsonPath
<1>2. CASE path \notin DOMAIN body
  BY <1>2 DEF JsonPath
<1> QED
  BY <1>1, <1>2

(* In a document that was passed on the path that wins has one value, and   *)
(* every value a constraint ties to it is that one.                         *)
LEMMA TiedValues ==
    ASSUME IInv, NEW r \in Passed, Schema[input[r].resource].kind = "resource",
           NEW key \in ElementsOf(Schema[input[r].resource].order)
    PROVE  LET res == input[r].resource
               body == input[r].body
               value == JsonPath(Winning(res, key), body)[1]
           IN  /\ value \in ElementsOf(JsonPath(Winning(res, key), body))
               /\ \A path \in Tied(res, key) : \A x \in ElementsOf(JsonPath(path, body)) : x = value
<1> DEFINE q == input[r]
           res == q.resource
           body == q.body
           wins == Winning(res, key)
           value == JsonPath(wins, body)[1]
<1>1. /\ r \in Requests /\ q \in Inputs[r] /\ res \in Resources
      /\ validateEqualityConstraints(res, body) /\ HasIdentity(res, body)
  BY DEF IInv, TypeInv, Checked, Passed
<1>2. \A path \in DOMAIN body : body[path] \in Seq(ElementsOf(body[path]))
  BY <1>1, BodyAssumption DEF BodyAssumption
<1>3. Len(JsonPath(wins, body)) = 1
  BY <1>1 DEF HasIdentity
<1>4. \A path : JsonPath(path, body) \in Seq(ElementsOf(JsonPath(path, body)))
  BY <1>2, PathIsSequence
<1>5. ElementsOf(JsonPath(wins, body)) = {value}
  <2> DEFINE s == JsonPath(wins, body)
  <2> HIDE DEF s
  <2>1. ASSUME s \in Seq(ElementsOf(s)), Len(s) = 1 PROVE ElementsOf(s) = {s[1]}
    <3>1. DOMAIN s = {1}
      BY <2>1
    <3> QED
      BY <3>1 DEF ElementsOf
  <2> QED
    BY <1>3, <1>4, <2>1 DEF s
<1> HIDE DEF value
<1>6. ASSUME NEW path, allEqual(JsonPath(path, body), JsonPath(wins, body))
               \/ allEqual(JsonPath(wins, body), JsonPath(path, body)),
             NEW x \in ElementsOf(JsonPath(path, body))
      PROVE  x = value
  <2> DEFINE values == JsonPath(path, body)
             others == JsonPath(wins, body)
  <2>1. /\ values \in Seq(ElementsOf(values)) /\ others \in Seq(ElementsOf(others))
        /\ x \in ElementsOf(values) /\ value \in ElementsOf(others)
    BY <1>4, <1>5, <1>6
  <2> HIDE DEF values, others
  <2>2. CASE allEqual(values, others)
    BY <2>1, <2>2, EqualValues
  <2>3. CASE allEqual(others, values)
    BY <2>1, <2>3, EqualValues
  <2> QED
    BY <1>6, <2>2, <2>3 DEF values, others
<1>7. ASSUME NEW path \in Tied(res, key), NEW x \in ElementsOf(JsonPath(path, body)) PROVE x = value
  <2>1. \A c \in Schema[res].constraints : allEqual(JsonPath(c[1], body), JsonPath(c[2], body))
    BY <1>1 DEF validateEqualityConstraints
  <2>2. \/ path = wins
        \/ \E c \in Schema[res].constraints : c[2] = wins /\ path = c[1]
        \/ \E c \in Schema[res].constraints : c[1] = wins /\ path = c[2]
    BY DEF Tied
  <2>3. \/ path = wins
        \/ allEqual(JsonPath(path, body), JsonPath(wins, body))
        \/ allEqual(JsonPath(wins, body), JsonPath(path, body))
    BY <2>1, <2>2
  <2> QED
    BY <1>5, <1>6, <1>7, <2>3
<1> QED
  BY <1>5, <1>7 DEF value

(* Of two documents with one id, all values tied to a key of it are one, if *)
(* no value of it has a '#' in it.                                          *)
LEMMA OneValue ==
    ASSUME IInv, NEW r \in Passed, NEW q \in Passed, input[q].resource = input[r].resource,
           Schema[input[r].resource].kind = "resource",
           r = q \/ OneId(input[r].resource, input[r], input[q]),
           NEW key \in ElementsOf(Schema[input[r].resource].order)
    PROVE  Cardinality(ValuesTied(key, input[r], input[q])) = 1
<1> DEFINE d == input[r]
           e == input[q]
           res == d.resource
           order == Schema[res].order
           wins == Winning(res, key)
           value == JsonPath(wins, d.body)[1]
           all == ValuesTied(key, d, e)
<1>1. /\ value \in ElementsOf(JsonPath(wins, d.body))
      /\ \A path \in Tied(res, key) : \A x \in ElementsOf(JsonPath(path, d.body)) : x = value
  BY TiedValues
<1>2. \A path \in Tied(res, key) : \A x \in ElementsOf(JsonPath(path, e.body)) :
        x = JsonPath(wins, e.body)[1]
  BY TiedValues
<1>3. JsonPath(wins, e.body)[1] = value
  <2>1. CASE r = q
    BY <2>1
  <2>2. CASE OneId(res, d, e)
    <3>1. PICK i \in DOMAIN order : order[i] = key
      BY DEF ElementsOf
    <3>2. Says(d)[key] = value /\ Says(e)[key] = JsonPath(wins, e.body)[1]
      BY DEF Says
    <3>8. res \in Resources
      BY DEF IInv, Checked
    <3>9. order \in Seq(ElementsOf(order))
      BY <3>8, OrderAssumption DEF OrderAssumption
    <3> HIDE DEF d, e, value, wins
    <3>3. extractDocumentIdentity(res, d.body) = [j \in DOMAIN order |-> <<order[j], Says(d)[order[j]]>>]
      BY OwnIdentity DEF d
    <3>4. extractDocumentIdentity(res, e.body) = [j \in DOMAIN order |-> <<order[j], Says(e)[order[j]]>>]
      <4>1. e.resource = res /\ Schema[e.resource].kind = "resource"
        BY DEF d, e
      <4> HIDE DEF res
      <4>2. extractDocumentIdentity(e.resource, e.body)
              = [j \in DOMAIN Schema[e.resource].order |->
                   <<Schema[e.resource].order[j], Says(e)[Schema[e.resource].order[j]]>>]
        BY <4>1, OwnIdentity
      <4> QED
        BY <4>1, <4>2
    <3> DEFINE one == extractDocumentIdentity(res, d.body)
               two == extractDocumentIdentity(res, e.body)
    <3>10. NoSeparator(one) /\ NoSeparator(two) /\ Joined(one) = Joined(two)
      BY <2>2 DEF OneId, meadowlarkId
    <3>11. Says(d) = Says(e)
      <4>1. IsListOf(one, order, Says(d)) /\ IsListOf(two, order, Says(e))
        BY <3>3, <3>4 DEF IsListOf
      <4>2. IsOf(Says(d), order) /\ IsOf(Says(e), order)
        BY OwnIdentity DEF d, e, IsOf
      <4> HIDE DEF one, two, order
      <4> QED
        BY <3>9, <3>10, <4>1, <4>2, OneTextInOrder
    <3> QED
      BY <3>2, <3>11
  <2> QED
    BY <2>1, <2>2
<1>4. wins \in Tied(res, key)
  BY DEF Tied
<1> HIDE DEF value, wins, d, e
<1>5. all = {value}
  BY <1>1, <1>2, <1>3, <1>4 DEF ValuesTied
<1> HIDE DEF all
<1>6. Cardinality(all) = 1
  BY <1>5, FS_Singleton
<1> QED
  BY <1>6 DEF all, d, e

(* extractDocumentIdentity, meadowlarkIdForDocumentIdentity and             *)
(* validateEqualityConstraints: documents with one id, made of values       *)
(* without '#', agree wherever a constraint ties a value to one of the id.  *)
THEOREM IdentitiesTellApart == Spec => []IdentityTellsApart
<1>1. IInv => IdentityTellsApart
  BY OneValue DEF IdentityTellsApart
<1> QED
  BY <1>1, Inductive, PTL
==============================================================================
