---------------------------- MODULE DocumentIntake ----------------------------
(***************************************************************************)
(* What a document goes through between the parsing of its body and the    *)
(* document store: the API schema is found, the endpoint and the document  *)
(* (or the query) are validated with cached validators, values that must   *)
(* be the same are compared, and the document's identity, its superclass   *)
(* identity and its references are extracted.  From meadowlark-core:       *)
(* api-schema/, validation/, extraction/ and the middlewares that call     *)
(* them.                                                                   *)
(*                                                                         *)
(* A schema is data: what the code reads of a resource's schema is a       *)
(* record of the constant Schema.  A body is what a JsonPath finds in it:  *)
(* a function from paths to the sequence of the values at that path, one   *)
(* for a property, one per element for a collection.  The two hashes that  *)
(* make a meadowlarkId are taken to collide for no two texts; the text of  *)
(* an identity is modelled as the code puts it together.                   *)
(***************************************************************************)
EXTENDS Naturals, Sequences, FiniteSets

CONSTANTS
  Schema,      \* for each resource, its resource schema
  Abstract,    \* for each abstract resource, its identityPathOrder
  Collections, \* the paths that lead through a collection
  Foreign,     \* the endpoints of projects that the API schema does not have
  Split,       \* the values with a '#' in them, as what it separates
  Inputs       \* for each request, the inputs it may be

Requests == DOMAIN Inputs
Resources == DOMAIN Schema

VARIABLES
  overposting,    \* ALLOW_OVERPOSTING
  input,          \* what each request asks for
  apiSchemaCache, \* the loaded schema object, named by the request that read it; 0 before
  validatorCache, \* the validators of each schema object's resources
  compiledFor,    \* history: those of them that a query has had compiled
  pc,             \* where each request is
  schema,         \* the schema object each request was given
  outcome         \* "passed" on, or the status of the refusal

vars == <<overposting, input, apiSchemaCache, validatorCache, compiledFor, pc, schema, outcome>>

Init ==
  /\ overposting \in BOOLEAN
  /\ input \in [Requests -> UNION {Inputs[r] : r \in Requests}]
  /\ \A r \in Requests : input[r] \in Inputs[r]
  /\ apiSchemaCache = 0
  /\ validatorCache = [v \in Requests \X Resources |-> "none"]
  /\ compiledFor = {}
  /\ pc = [r \in Requests |-> "start"]
  /\ schema = [r \in Requests |-> 0]
  /\ outcome = [r \in Requests |-> "none"]

(***************************************************************************)
(* Reading a body.                                                         *)
(***************************************************************************)
JsonPath(path, body) == IF path \in DOMAIN body THEN body[path] ELSE <<>>

ElementsOf(s) == {s[i] : i \in DOMAIN s}

\* A DocumentPaths' keys.
Keys(paths) == DOMAIN paths.path

(***************************************************************************)
(* DocumentIdentityExtractor: the path of a key is that of the last        *)
(* identity property that has the key, and the values come in the order    *)
(* of identityPathOrder.                                                   *)
(***************************************************************************)
IdentityPaths(res, key) ==
  {Schema[res].mapping[p].path[key] :
     p \in {q \in ElementsOf(Schema[res].identity) : key \in Keys(Schema[res].mapping[q])}}

Winning(res, key) ==
  LET names == Schema[res].identity
      has == {i \in DOMAIN names : key \in Keys(Schema[res].mapping[names[i]])}
      last == CHOOSE i \in has : \A j \in has : j <= i
  IN  Schema[res].mapping[names[last]].path[key]

extractDocumentIdentity(res, body) ==
  CASE Schema[res].kind = "descriptor" -> << <<"descriptor", JsonPath("$.uri", body)[1]>> >>
    [] Schema[res].kind = "schoolYear" -> << <<"schoolYear", JsonPath("$.schoolYear", body)[1]>> >>
    [] OTHER -> [i \in DOMAIN Schema[res].order |->
                   LET key == Schema[res].order[i]
                   IN  <<key, JsonPath(Winning(res, key), body)[1]>>]

(***************************************************************************)
(* DocumentIdentity: the text of an identity is key=value for each of its  *)
(* elements, joined by '#'.  Nothing is escaped: a value with a '#' in it  *)
(* adds pieces of its own, which may read like those of other elements.    *)
(* No key has a '#' or a '=' in it, so that a piece is read as a key and   *)
(* a value.  The text is the set of its pieces, each with its place.       *)
(***************************************************************************)
Text(value) == IF value \in DOMAIN Split THEN Split[value] ELSE [first |-> value, rest |-> <<>>]

Pieces(element) == << <<element[1], Text(element[2]).first>> >> \o Text(element[2]).rest

Positions(identity) == UNION {{i} \X DOMAIN Pieces(identity[i]) : i \in DOMAIN identity}

Place(identity, x) ==
  Cardinality({y \in Positions(identity) : y[1] < x[1] \/ (y[1] = x[1] /\ y[2] <= x[2])})

Joined(identity) ==
  {<<Place(identity, x), Pieces(identity[x[1]])[x[2]]>> : x \in Positions(identity)}

meadowlarkId(res, identity) == <<res, Joined(identity)>>

(***************************************************************************)
(* SuperclassInfoExtractor: the superclass' resource, with the identity of *)
(* the subclass, in which a domain entity renames one key.                 *)
(***************************************************************************)
IsSubclass(res) == Schema[res].subclass.type # "none"

deriveSuperclassInfoFrom(res, identity) ==
  LET sub == Schema[res].subclass
      renamed == [i \in DOMAIN identity |->
                    IF identity[i][1] = sub.from THEN <<sub.to, identity[i][2]>> ELSE identity[i]]
  IN  meadowlarkId(sub.resource, IF sub.type = "association" THEN identity ELSE renamed)

\* The ids under which a stored document is found.
Aliases(res, body) ==
  LET identity == extractDocumentIdentity(res, body)
  IN  {meadowlarkId(res, identity)} \cup
        (IF IsSubclass(res) THEN {deriveSuperclassInfoFrom(res, identity)} ELSE {})

(***************************************************************************)
(* DocumentReferenceExtractor: the values of each of a reference's paths   *)
(* are a slice through all elements of a collection; the i-th values of    *)
(* the slices are a reference, put in the order of the identity of the     *)
(* resource referred to.  A key the reference does not have is undefined.  *)
(***************************************************************************)
identityPathOrderForReference(res) ==
  IF res \in Resources THEN Schema[res].order ELSE Abstract[res]

ReferenceProperties(res, descriptor) ==
  {p \in DOMAIN Schema[res].mapping :
     Schema[res].mapping[p].reference /\ Schema[res].mapping[p].descriptor = descriptor}

Slice(paths, key, body) == JsonPath(paths.path[key], body)

References(paths, body) ==
  LET length == Len(Slice(paths, paths.order[1], body))
      unsorted(i) == [key \in Keys(paths) |-> Slice(paths, key, body)[i]]
  IN  [i \in 1 .. length |-> unsorted(i)]

Undefined == 0
ValueOf(unsorted, key) == IF key \in DOMAIN unsorted THEN unsorted[key] ELSE Undefined

\* Fault: the keys stay in the order the reference has them in.
InTheOrderWritten(paths, unsorted) ==
  [i \in DOMAIN paths.order |-> <<paths.order[i], ValueOf(unsorted, paths.order[i])>>]

Sorted(paths, unsorted) ==
  LET order == identityPathOrderForReference(paths.target)
  IN  [i \in DOMAIN order |-> <<order[i], ValueOf(unsorted, order[i])>>]

ReferenceId(paths, unsorted) == meadowlarkId(paths.target, Sorted(paths, unsorted))

ReferenceIds(paths, body) ==
  {ReferenceId(paths, unsorted) : unsorted \in ElementsOf(References(paths, body))}

extractDocumentReferences(res, body) ==
  UNION {ReferenceIds(Schema[res].mapping[p], body) : p \in ReferenceProperties(res, FALSE)}

(***************************************************************************)
(* DescriptorValueExtractor: all the values of a descriptor property make  *)
(* one reference.                                                          *)
(***************************************************************************)
extractDescriptorValues(res, body) ==
  {LET paths == Schema[res].mapping[p]
       values == Slice(paths, paths.order[1], body)
   IN  meadowlarkId(paths.target, [i \in DOMAIN values |-> <<"descriptor", values[i]>>]) :
     p \in {q \in ReferenceProperties(res, TRUE) :
              Slice(Schema[res].mapping[q], Schema[res].mapping[q].order[1], body) # <<>>}}

(***************************************************************************)
(* The invariants of the extractors: each key of the identity is found,    *)
(* once, and not in a collection, be it of one element; and the slices of  *)
(* a reference are of one length.                                          *)
(***************************************************************************)
HasIdentity(res, body) ==
  Schema[res].kind = "resource" =>
    /\ Schema[res].order # <<>>
    /\ \A key \in ElementsOf(Schema[res].order) :
         Winning(res, key) \notin Collections /\ Len(JsonPath(Winning(res, key), body)) = 1

HasWholeReferences(res, body) ==
  \A p \in ReferenceProperties(res, FALSE) :
    LET paths == Schema[res].mapping[p] IN
    \A key, other \in Keys(paths) : Len(Slice(paths, key, body)) = Len(Slice(paths, other, body))

(***************************************************************************)
(* EqualityConstraintValidator: all values at the two paths are the same.  *)
(***************************************************************************)
\* Fault: a collection is compared by its first element.
FirstsAreEqual(values, others) ==
  values = <<>> \/ others = <<>> \/ values[1] = others[1]

allEqual(values, others) == Cardinality(ElementsOf(values \o others)) <= 1

validateEqualityConstraints(res, body) ==
  \A c \in Schema[res].constraints : allEqual(JsonPath(c[1], body), JsonPath(c[2], body))

(***************************************************************************)
(* ResourceSchemaValidation: a resource's validators are compiled once.    *)
(* Compiled for documents they remove unknown properties when overposting  *)
(* is allowed ("lax") and refuse them when not; compiled for a query they  *)
(* refuse them.  Both are put in the cache for documents; the cache for    *)
(* queries stays empty.                                                    *)
(***************************************************************************)
Compiled(isQuery) == IF overposting /\ ~isQuery THEN "lax" ELSE "strict"

\* Fault: one cache for documents and queries.
FromOneCache(isQuery, r) == validatorCache[schema[r], input[r].resource]

Cached(isQuery, r) ==
  IF isQuery THEN "none" ELSE validatorCache[schema[r], input[r].resource]

Validators(isQuery, r) ==
  IF Cached(isQuery, r) # "none" THEN Cached(isQuery, r) ELSE Compiled(isQuery)

getSchemaValidatorsFor(isQuery, r) ==
  IF Cached(isQuery, r) # "none" THEN UNCHANGED <<validatorCache, compiledFor>>
  ELSE /\ validatorCache' = [validatorCache EXCEPT
                               ![<<schema[r], input[r].resource>>] = Compiled(isQuery)]
       /\ compiledFor' = IF isQuery THEN compiledFor \cup {<<schema[r], input[r].resource>>}
                                    ELSE compiledFor

(***************************************************************************)
(* DocumentValidator: the schema for updates has the id, which that for    *)
(* inserts does not know.                                                  *)
(***************************************************************************)
Required(q) == Schema[q.resource].required \cup (IF q.kind = "update" THEN {"$.id"} ELSE {})
Known(q) == Required(q) \cup Schema[q.resource].optional

Complete(q) == Required(q) \subseteq DOMAIN q.body
Unknown(q) == DOMAIN q.body \ Known(q)

validateDocument(r, validators) ==
  Complete(input[r]) /\ (validators = "lax" \/ Unknown(input[r]) = {})

(***************************************************************************)
(* PaginationValidator and QueryStringValidator.  A parameter is "absent", *)
(* a "number", or "refused": a word, or less than zero.                    *)
(***************************************************************************)
validatePaginationParameters(q) ==
  /\ q.limit # "refused" /\ q.offset # "refused"
  /\ q.offset # "absent" => q.limit # "absent"

HasParameters(q) == q.parameters # {} \/ q.limit # "absent" \/ q.offset # "absent"
UnknownParameters(q) == q.parameters \ Schema[q.resource].query

validateQueryParameters(r, validators) ==
  validators = "lax" \/ UnknownParameters(input[r]) = {}

------------------------------------------------------------------------------
(***************************************************************************)
(* What the code takes for granted of a schema: the superclass is no       *)
(* resource of its own, and its identity is the subclass', where a domain  *)
(* entity renames one key.  deriveSuperclassInfoFrom renames in place and  *)
(* sorts nothing.                                                          *)
(***************************************************************************)
Renamed(sub, key) == IF sub.type = "domainEntity" /\ key = sub.from THEN sub.to ELSE key

SuperclassAssumption ==
  \A res \in Resources :
    LET sub == Schema[res].subclass
        order == Schema[res].order
    IN  /\ sub.type \in {"none", "association", "domainEntity"}
        /\ IsSubclass(res) =>
             /\ sub.resource \in DOMAIN Abstract /\ sub.resource \notin Resources
             /\ DOMAIN Abstract[sub.resource] = DOMAIN order
             /\ \A i \in DOMAIN order : Abstract[sub.resource][i] = Renamed(sub, order[i])
             /\ sub.type = "domainEntity" => sub.to \notin ElementsOf(order) \ {sub.from}
ASSUME SuperclassAssumption

\* The keys of an identity come in an order.
OrderAssumption ==
  /\ \A res \in Resources : Schema[res].order \in Seq(ElementsOf(Schema[res].order))
  /\ \A super \in DOMAIN Abstract : Abstract[super] \in Seq(ElementsOf(Abstract[super]))
ASSUME OrderAssumption

\* What a JsonPath finds is a sequence.
BodyAssumption ==
  \A r \in Requests : \A q \in Inputs[r] :
    \A path \in DOMAIN q.body : q.body[path] \in Seq(ElementsOf(q.body[path]))
ASSUME BodyAssumption

------------------------------------------------------------------------------
Ends(r, with) ==
  /\ outcome' = [outcome EXCEPT ![r] = with]
  /\ pc' = [pc EXCEPT ![r] = "done"]

(***************************************************************************)
(* ApiSchemaLoader: two requests that find no schema both read the file,   *)
(* and go on with an object of their own.                                  *)
(***************************************************************************)
findApiSchema(r) ==
  /\ pc[r] = "start"
  /\ \/ /\ apiSchemaCache # 0
        /\ schema' = [schema EXCEPT ![r] = apiSchemaCache]
        /\ pc' = [pc EXCEPT ![r] = "loaded"]
     \/ /\ apiSchemaCache = 0
        /\ pc' = [pc EXCEPT ![r] = "reading"]
        /\ UNCHANGED schema
  /\ UNCHANGED <<overposting, input, apiSchemaCache, validatorCache, compiledFor, outcome>>

loadApiSchemaFromFile(r) ==
  /\ pc[r] = "reading"
  /\ apiSchemaCache' = r
  /\ schema' = [schema EXCEPT ![r] = r]
  /\ pc' = [pc EXCEPT ![r] = "loaded"]
  /\ UNCHANGED <<overposting, input, validatorCache, compiledFor, outcome>>

\* The file cannot be read: the request goes on with NoApiSchema, in which the
\* search for a similar endpoint fails on the missing project.
loadApiSchemaFails(r) ==
  /\ pc[r] = "reading"
  /\ Ends(r, "500")
  /\ UNCHANGED <<overposting, input, apiSchemaCache, validatorCache, compiledFor, schema>>

\* validateEndpoint: no resource has this endpoint.  The search for a similar
\* one fails where the schema lacks the whole project.
refuseEndpoint(r) ==
  /\ pc[r] = "loaded" /\ input[r].resource \notin Resources
  /\ Ends(r, IF input[r].resource \in Foreign THEN "500" ELSE "404")
  /\ UNCHANGED <<overposting, input, apiSchemaCache, validatorCache, compiledFor, schema>>

\* documentValidation, equalityConstraintValidation and documentInfoExtraction
\* run in one turn of the event loop; the extraction fails at its invariants.
writeDocument(r) ==
  /\ pc[r] = "loaded" /\ input[r].resource \in Resources
  /\ input[r].kind \in {"insert", "update"}
  /\ getSchemaValidatorsFor(FALSE, r)
  /\ LET res == input[r].resource
         body == input[r].body
         good == validateDocument(r, Validators(FALSE, r)) /\ validateEqualityConstraints(res, body)
         found == HasIdentity(res, body) /\ HasWholeReferences(res, body)
     IN  Ends(r, IF ~good THEN "400" ELSE IF found THEN "passed" ELSE "500")
  /\ UNCHANGED <<overposting, input, apiSchemaCache, schema>>

\* queryValidation: a query without parameters is not validated, and one whose
\* pagination is refused gets no further.
queryDocuments(r) ==
  /\ pc[r] = "loaded" /\ input[r].resource \in Resources /\ input[r].kind = "query"
  /\ LET q == input[r] IN
     \/ /\ ~HasParameters(q)
        /\ Ends(r, "passed") /\ UNCHANGED <<validatorCache, compiledFor>>
     \/ /\ HasParameters(q) /\ ~validatePaginationParameters(q)
        /\ Ends(r, "400") /\ UNCHANGED <<validatorCache, compiledFor>>
     \/ /\ HasParameters(q) /\ validatePaginationParameters(q)
        /\ getSchemaValidatorsFor(TRUE, r)
        /\ Ends(r, IF validateQueryParameters(r, Validators(TRUE, r)) THEN "passed" ELSE "400")
  /\ UNCHANGED <<overposting, input, apiSchemaCache, schema>>

AllDone ==
  /\ \A r \in Requests : pc[r] = "done"
  /\ UNCHANGED vars

Next ==
  \/ \E r \in Requests :
       \/ findApiSchema(r) \/ loadApiSchemaFromFile(r) \/ loadApiSchemaFails(r)
       \/ refuseEndpoint(r) \/ writeDocument(r) \/ queryDocuments(r)
  \/ AllDone

Spec == Init /\ [][Next]_vars

------------------------------------------------------------------------------
\* The documents that have been passed on to the store.
Passed == {r \in Requests : outcome[r] = "passed" /\ input[r].kind # "query"}

\* What the body of d says of itself: the value at each key of its identity.
Says(d) == [key \in ElementsOf(Schema[d.resource].order) |->
              JsonPath(Winning(d.resource, key), d.body)[1]]

\* The same, said of it as a document of its superclass.
SaysAsSuperclass(d) ==
  LET sub == Schema[d.resource].subclass
      old(key) == IF sub.type = "domainEntity" /\ key = sub.to THEN sub.from ELSE key
  IN  [key \in ElementsOf(Abstract[sub.resource]) |-> Says(d)[old(key)]]

\* A reference names the values of its target's identity by the keys of that.
SameKeys(paths) == Keys(paths) = ElementsOf(identityPathOrderForReference(paths.target))

\* A reference property is for documents of e's resource, or of its superclass.
MayName(paths, e) == paths.target \in {e.resource, Schema[e.resource].subclass.resource}

\* An element of a reference property of d spells out the identity of e.
Means(paths, unsorted, e) ==
  \/ paths.target = e.resource /\ unsorted = Says(e)
  \/ /\ IsSubclass(e.resource) /\ paths.target = Schema[e.resource].subclass.resource
     /\ unsorted = SaysAsSuperclass(e)

\* No value of an identity has a '#' in it.
NoSeparator(identity) == \A i \in DOMAIN identity : identity[i][2] \notin DOMAIN Split

(***************************************************************************)
(* extractDocumentReferences, extractDocumentIdentity and                  *)
(* deriveSuperclassInfoFrom agree: a reference that spells out a document, *)
(* by its own identity or as a document of its superclass, is given an id  *)
(* that finds it, whatever the order of the keys, the position in a        *)
(* collection and the values.  That it finds nothing else is true only of  *)
(* values without '#': with it two identities can be one text, and a       *)
(* reference can find a document that it does not spell out.               *)
(***************************************************************************)
ReferenceMeetsIdentity ==
  \A r \in Passed, q \in Passed :
    LET d == input[r]
        e == input[q]
    IN  Schema[e.resource].kind = "resource" =>
          \A p \in ReferenceProperties(d.resource, FALSE) :
            LET paths == Schema[d.resource].mapping[p] IN
            MayName(paths, e) /\ SameKeys(paths) =>
              \A u \in ElementsOf(References(paths, d.body)) :
                /\ Means(paths, u, e) => ReferenceId(paths, u) \in Aliases(e.resource, e.body)
                /\ /\ NoSeparator(Sorted(paths, u))
                   /\ NoSeparator(extractDocumentIdentity(e.resource, e.body))
                   /\ ReferenceId(paths, u) \in Aliases(e.resource, e.body)
                   => Means(paths, u, e)

\* The paths whose values a constraint ties to those at the path that wins.
Tied(res, key) ==
  LET wins == Winning(res, key)
  IN  {wins} \cup {c[1] : c \in {x \in Schema[res].constraints : x[2] = wins}}
             \cup {c[2] : c \in {x \in Schema[res].constraints : x[1] = wins}}

ValuesTied(key, d, e) ==
  UNION {ElementsOf(JsonPath(path, body)) :
           path \in Tied(d.resource, key), body \in {d.body, e.body}}

\* Two documents of a resource have one id, and no '#' in what it is made of.
OneId(res, d, e) ==
  LET identity(q) == extractDocumentIdentity(res, q.body) IN
  /\ meadowlarkId(res, identity(d)) = meadowlarkId(res, identity(e))
  /\ NoSeparator(identity(d)) /\ NoSeparator(identity(e))

(***************************************************************************)
(* validateEqualityConstraints, extractDocumentIdentity and the text that  *)
(* an id is made of: two documents with one id, made of values without     *)
(* '#', agree at every path that an equality constraint ties to one the id *)
(* was made of, in every element of a collection.  With '#' in its values, *)
(* one id can be that of two identities.                                   *)
(***************************************************************************)
IdentityTellsApart ==
  \A r \in Passed : \A q \in {p \in Passed : p <= r} :
    LET d == input[r]
        e == input[q]
        res == d.resource
    IN  /\ e.resource = res /\ Schema[res].kind = "resource"
        /\ r = q \/ OneId(res, d, e)
        => \A key \in ElementsOf(Schema[res].order) : Cardinality(ValuesTied(key, d, e)) = 1

(***************************************************************************)
(* getSchemaValidatorsFor: whatever was validated before, no query with an *)
(* unknown parameter and, unless overposting is allowed, no document with  *)
(* an unknown property is passed on.  With overposting allowed, a document *)
(* is refused for an unknown property only once a query has had the        *)
(* resource's validators compiled.                                         *)
(***************************************************************************)
StrictWhereAsked ==
  \A r \in Requests : LET q == input[r] IN
    outcome[r] # "none" /\ q.resource \in Resources =>
    /\ q.kind = "query" /\ UnknownParameters(q) # {} => outcome[r] # "passed"
    /\ q.kind # "query" /\ Unknown(q) # {} /\ ~overposting => outcome[r] # "passed"
    /\ /\ q.kind # "query" /\ overposting /\ Complete(q) /\ outcome[r] = "400"
       /\ validateEqualityConstraints(q.resource, q.body)
       => <<schema[r], q.resource>> \in compiledFor

(***************************************************************************)
(* extractDescriptorValues, by its comment, extracts the descriptor of     *)
(* each descriptor value: each of them is referred to by its own id.       *)
(***************************************************************************)
EachDescriptorReferredTo ==
  \A r \in Passed : LET d == input[r] IN
    \A p \in ReferenceProperties(d.resource, TRUE) :
      LET paths == Schema[d.resource].mapping[p] IN
      \A value \in ElementsOf(Slice(paths, paths.order[1], d.body)) :
        meadowlarkId(paths.target, << <<"descriptor", value>> >>)
          \in extractDescriptorValues(d.resource, d.body)

(***************************************************************************)
(* extractDocumentIdentity, by its comment, may let one path with a key    *)
(* overwrite another because a constraint has made their values equal.     *)
(***************************************************************************)
DuplicateKeysAgree ==
  \A r \in Passed : LET d == input[r] IN
    \A key \in ElementsOf(Schema[d.resource].order) :
      Cardinality(UNION {ElementsOf(JsonPath(path, d.body)) : path \in IdentityPaths(d.resource, key)}) <= 1
==============================================================================
