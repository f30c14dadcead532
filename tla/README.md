# A TLA+ development of Meadowlark

Meadowlark is an implementation of the Ed-Fi API: clients POST, PUT, DELETE and
GET JSON documents (a School, a Session, a CourseOffering ...), which refer to
each other by identity. The server validates documents, keeps them in a
*document store* (MongoDB or PostgreSQL), and keeps a *query index*
(OpenSearch or Elasticsearch) of them through listeners.

This directory specifies the parts of Meadowlark whose correctness depends on
interleaving, retries and failure, checks them on small instances with TLC, and
proves the central safety properties for every instance with TLAPS.

All paths below are relative to `src/Meadowlark-js/` unless they start with
`src/`. `PROJECT.json` maps each definition to the lines it models, and lists
runs, mutants, findings, hazards and theorems.

## Files

| File | What it is |
| --- | --- |
| `MongoStore.tla` | the MongoDB document store: concurrent POST, PUT and DELETE |
| `DocumentStore.tla` | what a document store promises, without saying how |
| `MongoStoreInv.tla` | the inductive invariant of `MongoStore` |
| `MongoStoreProofs.tla` | proofs: types, the lock discipline, documentUuids, retries, answers, the refinement of `DocumentStore`, locked references |
| `MCMongoStore.tla`, `Mongo*.cfg` | the instances of `MongoStore` TLC checks |
| `PostgresStore.tla` | the PostgreSQL document store: statements, sessions, row locks |
| `PostgresStoreInv.tla` | the inductive invariant of `PostgresStore` |
| `PostgresProofs.tla` | proofs: types, what sessions hold, sessions left open, what a call has written, answers, the refinement of `DocumentStore` |
| `PostgresTableProofs.tla` | proofs: the three tables agree, references resolve |
| `MCPostgresStore.tla`, `Postgres*.cfg` | its instances |
| `RequestPipeline.tla` | one worker's requests: plugins, middleware, ownership, handlers, listeners, the search index |
| `DocumentIndex.tla` | what a search index beside a document store promises |
| `RequestPipelineProofs.tla` | proofs: answers, the index, queries, ownership, descriptors, the refinement of `DocumentIndex` |
| `MCRequestPipeline.tla`, `RequestPipeline.cfg` | its instance |
| `AuthTokens.tla` | bearer tokens: what they carry, whom they admit, what introspection makes of them |
| `AuthServer.tla` | the OAuth server and its client store, over MongoDB, PostgreSQL or neither |
| `AuthMiddleware.tla` | `authorize`: the token cache, the worker's own token and its renewal |
| `AuthServerProofs.tla`, `AuthMiddlewareProofs.tla` | proofs: the inductive invariants of the two and all their safety properties |
| `MCAuthServer.tla`, `MCAuthMiddleware.tla` and their `.cfg` | their instances |
| `Service.tla`, `MCService.tla`, `Service.cfg` | workers, shared connections, signals, shutdown |
| `ServiceProofs.tla` | proofs: types, graceful ends, causes of failures |
| `DocumentIntake.tla` | validation, identities, references, descriptors: from a body to what the store gets |
| `DocumentIntakeProofs.tla` | proofs: strictness of validation, references and the documents they name, what one id says |
| `MCDocumentIntake.tla`, `DocumentIntake.cfg`, `Intake*.cfg` | its instances, over an excerpt of the data standard |

Run `tlc -config MongoReferences.cfg MCMongoStore.tla` to check (the `.cfg` and
its MC module have the same prefix), and `tlapm MongoStoreProofs.tla` to prove.

## Inventory of the system

| Component | State | Operations | What is hard |
| --- | --- | --- | --- |
| MongoDB document store, `backends/meadowlark-mongodb-backend/src` | collections `documents` and `concurrency`; one session per call | upsert, update by uuid, delete by uuid, get | snapshot transactions, locks made of write conflicts, a look-up outside the session, two nested retry loops, lost commits, process exit |
| PostgreSQL document store, `backends/meadowlark-postgresql-backend/src` | tables `documents`, `aliases`, `references`; a pool of sessions | the same | sessions released while in use, transactions left open, row locks with and without NOWAIT |
| OpenSearch and Elasticsearch backends | one index per resource, keyed by documentUuid | index, delete, query | changes of one document applied out of order, lost, or missed by a crash |
| Listeners, `packages/meadowlark-core/src/plugin/listener` | subscriptions | before/after each store call | run between commit and response |
| Request pipeline, `packages/meadowlark-core/src/{handler,middleware}` | none beyond a request | parse, authorize, timestamp, validate, handle, answer | short circuits; mapping of results to status codes |
| Authorization middleware | cache of verified tokens, Meadowlark's own token | authorize | stale entries, own token expiring under concurrent requests |
| Authorization server, `packages/meadowlark-authz-server/src` | clients; signing key | create, update, reset, token, verify | the bootstrap administrator, deactivation against tokens already issued |
| Validation, extraction, hashing | none | pure functions of a document | boundaries of the decisions |
| Plugin loader, descriptor loader | loaded plugins | load | partial failure |
| Fastify service, `services/meadowlark-fastify/src` | worker processes, connections | start, serve, close | worker exit, order of shutdown |
| Kafka stream, deployment scripts, Meadowlark.net | - | - | not modelled: third-party configuration and an unfinished port |

How they interact: a worker receives an HTTP request and runs the middleware
chain; `authorize` asks its cache or the authorization server; the handler calls
the *before* listeners, the document store, and the *after* listeners (the
indexing backends), each awaited, and maps the store's result to a status code.
Requests share only the database, the index, and the module-level caches of
their worker process. All real concurrency is therefore between calls on
the database, plus `await` points within one Node.js process.

### What makes each component correct

- Document stores: a committed validated document refers to documents that
  exist; an older version never replaces a newer one; a documentUuid is for
  life; a commit does what the response decided on by then says; every call is
  answered.
- Index: where every call reached it in order, it holds what the store holds, with
  the client that wrote last as the owner; it never shows what the store did not
  report. (It does not converge otherwise: nothing is replayed.)
- Ownership: who acts on a document owned it, or nobody did, while the request ran.
- Token cache: nobody is let through on information older than the time to live
  and a call; nobody is refused because Meadowlark's own token expired.
- Authorization server: answers about clients and tokens were true at some
  moment of the request; only administrators write; one bootstrap administrator
  keeps the next from being made.
- Pipeline: success means committed, unless a PostgreSQL POST missed its document;
  a 4xx means nothing was changed, unless MongoDB reran a request after a commit
  whose answer was lost; every request is answered.
- Service: a graceful end cuts nobody off and does end; no failure outlasts its
  cause.
- Intake: a reference meets the document it spells out; as long as no value has
  a `#` in it, it meets no other, and two documents have one id only if they agree
  in all the values tied to their identity; strictness of validation depends on
  what was validated before in one direction only.

## Plan

Done: **MongoStore** with `DocumentStore` and its proofs, **PostgresStore** against
the same `DocumentStore`, **RequestPipeline** with the index and `DocumentIndex`,
**AuthServer**, **AuthMiddleware**, **Service**, **DocumentIntake**.

Proved: every safety property of **MongoStore**, **PostgresStore**,
**RequestPipeline**, **AuthServer**, **AuthMiddleware**, **Service** and
**DocumentIntake**, that both stores implement `DocumentStore` and the pipeline
`DocumentIndex`.

Left: nothing that the prover can reach; liveness stays with TLC.

### What is proved and what is only checked

| Module | Proved for all constants | Only model-checked, and why |
| --- | --- | --- |
| `MongoStore` | all safety properties, the refinement | `EveryCallAnswered`: liveness |
| `PostgresStore` | all safety properties, the refinement | `EveryCallAnswered`: liveness |
| `AuthServer` | all safety properties | `EveryRequestAnswered`: liveness |
| `AuthMiddleware` | all safety properties | `EveryRequestAuthorized`: liveness |
| `RequestPipeline` | all safety properties, the refinement | `EveryRequestAnswered`: liveness |
| `Service` | all safety properties | `SignalEndsProcess`: liveness |
| `DocumentIntake` | all safety properties | the two violated ones, which the code does not have |

Liveness under fairness needs ENABLED, which the prover does not handle.

## How the modules fit together

`RequestPipeline` is the middle. Its `authorize` is one step that passes or refuses,
whose inside is `AuthMiddleware`; the server that one calls is a step there, whose
inside is `AuthServer`; both use the tokens of `AuthTokens`. Its store call is one step
that commits or refuses (two where PostgreSQL reads before it rewrites, more where
MongoDB runs a transaction again), whose inside is `MongoStore` or `PostgresStore`;
each implements `DocumentStore`. What the pipeline lets a store answer is what those
modules do: a commit told as a failure (`CommitLost`, then another run), and the POST
of `PostgresStore` that rewrites nothing (`UpdatedNothing`). Its checks (`bad`) stand for what `DocumentIntake` computes. `Service` has what these
take for granted: that there is a process, a connection and, for PostgreSQL, the tables.

They are not composed into one specification: the product is out of TLC's reach,
and each boundary is a promise: answers of the store in any interleaving, for a
commit that was lost too; a verification answered at one moment.

## MongoStore

### State and actions

A call of the backend is a member of `Request`; `pc[r]` says which statement it
comes to. A document is a record `Doc`; `docs` is the committed `documents`
collection, keyed by MeadowlarkId (the `_id`). The open transaction of a call
has a snapshot with its own writes (`view`), the keys it wrote (`wrote` in
`documents`, `locks` in `concurrency`), and the keys that others committed since
the snapshot (`overtakenDocs`, `overtakenLocks`).

| Action | Code |
| --- | --- |
| `Receive` | `BackendFacade.ts` 43-57 |
| `BeginUpsert` | `Upsert.ts` 34-139: existence, staleness, superclass identity, references |
| `BeginUpdate` | `Update.ts` 322-394: references, the document to be written |
| `BeginDelete` | `Delete.ts` 24-104: existence, references to the document |
| `LookupReferenced` | `Upsert.ts` 141-150, `Update.ts` 154-164 and 262-271: the find without a session |
| `LockDocuments` | `Db.ts` 131-152: insert and delete of the rows of `concurrency` |
| `UpsertDocument` | `Upsert.ts` 161-190: `replaceOne` with upsert |
| `ReplaceDocument` | `Update.ts` 91-136: `updateOne` with the filter on `lastModifiedAt` |
| `RefuseUpdate` | `Update.ts` 186-205 and 249-315 |
| `RemoveForReinsert` | `Update.ts` 145-241 and 27-82: an identity change deletes, then upserts |
| `RemoveDocument` | `Delete.ts` 106-118 |
| `Commit` | the end of `withTransaction` |
| `CommitLost` | the driver gives up on a commit whose outcome it does not know |
| `Crash` | the process ends; the server aborts what was open |

`Throw` is an exception that leaves `withTransaction`: `async-retry` starts
over, or the catch block answers. `Refuse` is a response that is not a success:
the callback aborts the transaction and the call is over.

The reads a transaction does before its look-up see one snapshot, so they are
one action. A PUT or DELETE that skips validation opens its transaction with the
first insert into `concurrency`, so its snapshot is taken there. The look-up
of the documents to lock has no session: it sees what is committed when it runs,
and is an action of its own.

### What stands for MongoDB

Defined in the section "Transactions of the server" and marked external in
`PROJECT.json`: a transaction reads a snapshot, sees its own writes, and fails
with `WriteConflict` at the moment it writes a key that another open transaction
has written or that was committed after its snapshot; a commit is atomic;
an abort or the end of the process leaves nothing. The lock of a document is
an instance of that rule: a row inserted and deleted again in one transaction
still conflicts.

### Abstractions, and what they leave out

- References are a set of aliases; a list with the same reference twice and the
  separate list of descriptors are not distinguished from it. (Two equal
  references make `validateReferences` compare 2 with 1, find nothing missing,
  and go on.)
- `aliasMeadowlarkIds` is a function of the `_id`: a superclass identity is
  derived from the identity.
- `createdBy`, the body and the resource name are left out; no decision of these
  functions depends on them.
- A commit's majority write concern and the look-up's majority read concern are
  one committed state. A look-up that lags behind would only add behaviours
  of the kind `MongoDangling` shows.
- The branches for `acknowledged: false` (write concern 0) and for
  `modifiedCount === 0` (impossible, `lastModifiedAt` grows strictly) are left out.
- The catch blocks call `session.abortTransaction()` once more and read
  `e.codeName`. The model follows the code's reading: a write conflict is
  answered as one, anything else as `UNKNOWN_FAILURE`.
- `guarded` (a field of `Doc`), `applied` and `issued` are history: nothing in
  the model reads them.

### Bounds

`MaxAttempt` bounds the attempts at a call. In the code it is the product of
`MONGODB_MAX_NUMBER_OF_RETRIES` + 1 (default 2) and the repetitions of
`withTransaction` within its 120 seconds; the interesting case is one failed
attempt followed by another, so 2 is enough, and the proofs hold for any value.
Requests per instance: 3 in the run without retries (one that comes to refer to a document,
one that removes or renames that document, and one that rewrites it), 2 with
retries. Identities: a document, the identity it may change to, a referrer, and
two subclasses with a common superclass identity. Timestamps are 1 to 3: stored,
older or equal, newer.

### Runs

| Run | Checks | Shows |
| --- | --- | --- |
| `mongo_references` | `TypeOK`, `InductiveInv`, `GuardedReferencesResolve`, `UuidUnique` | references that were locked do not dangle; the invariant of the proofs holds |
| `mongo_retry` | `AppliedAtMostOnce`, `AnswerTellsWhatHappened`, `ImplementsDocumentStore`, `EveryCallAnswered` | through retries and lost commits, no PUT or DELETE is applied twice, a commit does what the response decided on by then says (the answer may say less: `UNKNOWN_FAILURE`, or what a later run decides), commits are steps of `DocumentStore`, and no call waits for another |
| `mongo_dangling` | `ValidatedReferencesResolve` is violated | the window between validation and look-up |

The first two pass, the last is a finding: `PROJECT.json` quotes the document
that says otherwise. A POST validates `session`; a DELETE of `session` runs from start
to commit; the POST's look-up no longer sees it, so it locks nothing but itself and
commits. What the code does guarantee is `GuardedReferencesResolve`: once the
look-up has seen every reference, no interleaving removes one of them.

Other behaviour the model has, which no property judges: two subclass documents
with one superclass identity, inserted at the same time, are both stored (the
check is a read, the inserts write no common key); a PUT that changes an identity
to one another document has replaces that document; of two references answered
by one document under two of its aliases, `validateReferences` reports the second
missing, though it is there; a
document that refers to itself cannot be rewritten, since its
own documentUuid is inserted twice (`LockDocuments`), and the answer is
`UNKNOWN_FAILURE`.

`DocumentStore` says of every commit that it creates a document under a new
documentUuid, replaces a document by a newer version of it, removes it, or moves
it to another identity, with `createdAt` kept. It does not mention references,
retries or locks. `ImplementsDocumentStore` is the refinement with
`store <- docs`, for a store that orders versions (`Ordered`) but lets an identity
change take over another document (`Exclusive` is FALSE).

Deadlock is checked in all runs; `Quiescent` is the intended end.

### Fairness

`FairSpec` has weak fairness of `Step(r)` for each call: each statement of a call
returns eventually, with a result or an error, because the driver's operations
and the event loop have no unbounded waits. `Receive` and `Crash` are not fair:
clients need not call and processes need not fail. A conflict fails at once, so no
action of one call ever waits for another call, and strong fairness is not
needed. The number of attempts is finite because `async-retry` counts them and
`withTransaction` gives up after its time limit.

### Proofs

| Theorem | States |
| --- | --- |
| `TypeCorrect` | `Spec => []TypeOK` |
| `LocksProtect` | `Spec => []LockInv` |
| `UuidsUnique` | `Spec => []UuidUnique` |
| `RetriesApplyOnce` | `Spec => []AppliedAtMostOnce` |
| `ImplementsStore` | `Spec => ImplementsDocumentStore` |
| `AnswersAreTrue` | `Spec => AnswerTellsWhatHappened` |
| `Inductive` | `Spec => []InductiveInv` |
| `GuardedReferencesSafe` | `Spec => []GuardedReferencesResolve` |

They hold for every `Request`, `Id`, `Super`, `Input`, `Seed` and `MaxAttempt`
that satisfies the named assumptions of `MongoStore`: `Seed` stores are
well-formed and their validated documents' references exist (SeedAssumption), a
model value for "no document" is no document, a unique name for a documentUuid
that nobody has, calls and identities have different names.
`GuardedReferencesSafe` speaks of instances where deletes are validated
(`ValidatedDeletes`): a client with the `assessment` role skips validation, and
its DELETE removes a document whoever refers to it.

The safety properties are not inductive: whether a reference survives depends on
what the open transactions have seen and locked. The invariant adds, for each
call, in `MongoStoreInv`:

1. *Locks* (`LockInv`): who is past `LockDocuments` holds the rows of everything
   found and of its own document; two calls never hold the same row, nor have
   they written the same document; a row or document committed by others since
   the snapshot is recorded as overtaken.
2. *Snapshots*: what differs between the snapshot of an open transaction and the
   committed collection is overtaken or the transaction's own write; so a document
   found by the look-up that changes before it is locked makes the lock fail.
3. *Removal*: who removes a document saw no reference to it in its snapshot. A
   document that came to refer to it since was committed under the same lock row,
   which would be overtaken.
4. *Identities*: a documentUuid in a collection or a snapshot was issued, by a seed or
   to one call; what a call is about to write has the documentUuid it found, or its
   own new one; a call that comes to the end of its transaction has written what its
   response says and nothing else; a call whose commit was lost and that starts
   over finds its own document at least as new as the one it would write.

The action that matters is the commit: `Publish` puts everything the call wrote
or locked into the overtaken sets of the others, which restores 1-4 for them. The
proofs treat the actions one by one, with `TypeCorrect` and `LocksProtect` as
lemmas for the rest. The refinement maps every step but `Publish` to a stutter;
4 makes `Publish` one of the four changes `DocumentStore` allows.

Only model-checked: `EveryCallAnswered` (liveness under fairness).

## PostgresStore

### State and actions

A call is a series of statements on one session of the connection pool. `pc[r]`
is the statement it has sent; `queue[s]` are the calls with a statement in the
queue of the session's client, which runs them first come, first served. `docs` is the
committed `documents` table, keyed by MeadowlarkId (its unique index); `rows` are
the committed rows of `aliases` and `references`, which have no unique index.
A session's transaction (`txn`: none, open, failed) has the documents it wrote
(`pending`), the committed rows it deleted (`gone`), the rows it inserted
(`fresh`) and the alias rows it locked (`shared`, `locked`).

| Action | Code (`backends/meadowlark-postgresql-backend/src`) |
| --- | --- |
| `Receive` | `BackendFacade.ts` 46-80 |
| `Begin`, `Commit`, `Rollback` | `SqlHelper.ts` 28-38 and its callers |
| `FindForUpsert` | `Upsert.ts` 38-61: existence, staleness |
| `FindForUpdate` | `Update.ts` 34-62: existence, staleness, identity change |
| `FindForDelete` | `Delete.ts` 24-53: the alias rows, FOR SHARE NOWAIT |
| `CheckReferencing` | `Delete.ts` 55-61: documents that refer to this one |
| `CheckSuperclass` | `Upsert.ts` 60-89 |
| `ValidateReferences` | `ReferenceValidation.ts` 26-112, FOR NO KEY UPDATE NOWAIT |
| `Report` | `Delete.ts` 67-88: the documents a failure message names, then ROLLBACK |
| `InsertDocument`, `UpdateDocument`, `DeleteDocument` | `SqlHelper.ts` 340-466 |
| `DeleteAliases`, `InsertAlias` | `Update.ts` 94-104, `Upsert.ts` 128-136 |
| `DeleteReferences`, `InsertReference` | `Update.ts` 106-117, `Upsert.ts` 138-156 |
| `Rejected`, `Wait`, `Deadlock`, `Crash` | the server |

Every statement is an action, since other sessions run in between. `Fail` is the
catch block: ROLLBACK, then `UNKNOWN_FAILURE`. `Refuse` is a response followed by
ROLLBACK, `Return` one without it (a stale POST, most refusals of a PUT): the
session goes back to the pool inside a transaction.

`BackendFacade` returns the promise of a call without awaiting it, so `finally`
gives the session back when the first statement has been sent. `Overlap` says how
many calls may then be under way on one session. The pool gives the client that became idle last to the next
call, so sharing is what happens as soon as calls overlap (`Overlap = 2`).
`Overlap = 1` is an assumption, that each session serves one call at a time; it
separates what the locks and the order of statements achieve from what sharing
undoes. Properties that need it name it (`OneCallPerSession`).

### What stands for PostgreSQL and its client

In the sections "Sessions and transactions of the server", marked external:

- READ COMMITTED: a statement sees what is committed when it runs and its own
  transaction's writes (`View`, `Rows`).
- Writers of one row or one unique key wait for each other (`Blockers`); a DELETE
  that waited deletes of the rows it found at the start those that are still there
  (`doomed`); an UPDATE that waited applies to the version it finds.
- NOWAIT locks fail at once. A failed statement aborts the transaction, whose
  locks and writes are given up; its session refuses all but COMMIT and ROLLBACK,
  and COMMIT then rolls back without an error.
- BEGIN inside a transaction is a warning; without a transaction a statement
  commits by itself.
- A circle of waiting sessions is broken: any of them may fail (`Deadlock`).

### Abstractions, and what they leave out

- References and descriptors are one set; equal references are one.
- The double wait of an identity change (the old row, the new key) is one
  atomic step.
- Failures of ROLLBACK and of the connection are left out, as are the body and
  the fields no decision depends on.
- A circle is found exactly for up to four sessions.
- `missed` (an UPDATE found no row and its call went on) and `issued` are history.

### Bounds

Three calls on three sessions where each serves one call, on two sessions where
they share: a DELETE, a writer of the same document, and a document that comes to
refer to it; any property broken by an interleaving of two of them, with a third
in between, shows. Identities: a Session and the identity it may change to, or a
School with a superclass identity, and a CourseOffering. Timestamps are 1 to 3.

### Runs

| Run | Checks | Shows |
| --- | --- | --- |
| `postgres` | `TypeOK`, `ValidatedReferencesResolve`, `TablesAgree`, `LeftOpenHoldsNothing`, `AnswerTellsWhatHappened`, `ImplementsDocumentStore` | on sessions that serve one call: alias locks keep references whole, the three tables agree, answers and commits agree, commits are steps of `DocumentStore`, versions unordered, identities exclusive |
| `postgres_shared` | `EveryCallAnswered` | on shared sessions every wait ends |

Both pass. What they say of references and tables holds under named conditions,
each of which sets a behaviour of the code apart:

- `OneCallPerSession`: on a shared session one call's ROLLBACK ends another's
  transaction, whose later statements then commit one by one, so that a document
  may stay without its aliases.
- `~missed`: a document deleted between the read and the UPDATE of a POST or PUT
  is not updated, but the alias and reference rows that go with it are written.
- `IdentitiesFixed`: a PUT that changes an identity does not look for documents
  that refer to the old one, where the MongoDB backend answers
  `UPDATE_CASCADE_REQUIRED`.
- `SuperDisjoint`: two subclass documents of one superclass identity, inserted at
  the same time, give one reference two alias rows; the comparison of counts in
  `validateReferences` can then hide a missing reference.
- `ValidatedDeletes`: a DELETE without validation removes a document whoever
  refers to it.

`IdentitiesFixed` and `ValidatedDeletes` are about the calls under way, so that one run
has behaviours with and without them. Versions are unordered because the UPDATE
has no timestamp in its WHERE: two PUTs that both passed the stale check are
applied in either order.

A conflict on a NOWAIT lock, a deadlock and a duplicate key are answered
`UNKNOWN_FAILURE` without a retry; no checked property judges that.

### Fairness

`FairSpec` has weak fairness of `Step(r)` for each call. A call whose statement
is not first in the queue, or waits for a row, has no step enabled; it
gets its turn because the calls it waits for are finite series of statements, each
fair itself, and a circle of waits is broken by the server. `Receive` and `Crash`
are not fair.

### Proofs

| Theorem | States |
| --- | --- |
| `TypeCorrect` | `Spec => []TypeOK` |
| `SessionsExclude` | `Spec => [](SessionInv /\ LocksExclude)` |
| `LeftOpenSafe` | `Spec => []LeftOpenHoldsNothing` |
| `CommitsKept` | `OneCallPerSession /\ Spec => []IdentityInv` |
| `ImplementsStore` | `OneCallPerSession /\ Spec => ImplementsDocumentStore` |
| `AnswersAreTrue` | `Spec => AnswerTellsWhatHappened` |
| `Inductive` | `Spec => []InductiveInv` |
| `ReferencesResolve` | `Spec => []ValidatedReferencesResolve` |
| `TablesStayTogether` | `Spec => []TablesAgree` |

They hold for every set of calls, sessions, identities and inputs, and every
`Overlap`. Assumed are the named assumptions of `PostgresStore`: seeds are
well-formed, an identity is no superclass identity (the two are hashes of
different resource names), and the references of a document are finitely many.
The conditions listed under Runs are hypotheses inside the properties, except
`OneCallPerSession` in `ImplementsStore`, which the runs' constants state.

The invariant, in `PostgresStoreInv`, has four layers, each proved on the one before:

1. *Sessions* (`SessionInv`, `LocksExclude`), whatever is shared: what is written,
   deleted, inserted and locked belongs to an open transaction; no document is
   written and no row deleted or locked for update by two; a session nobody uses
   has nothing. This holds because a statement runs only when `Blockers` is empty,
   and is what makes one commit independent of another.
2. *Calls* (`IdentityInv`), one call to a session: at each statement, what the call
   has read and written so far: nothing before its write, then one document, with
   the documentUuid and `createdAt` it read. An UPDATE that waited may have missed
   its row; then it has written none.
3. *Tables* (`TableInv`): the committed rows of an identity are those of the
   committed document, row by row with the call that wrote them; between its
   statements a call has deleted exactly the old rows and inserted the new ones up
   to the point its `list` says; a DELETE that waits (`doomed`) has fixed the rows that
   are still the old ones. All of it is what a commit exchanges in one step.
4. *References* (`ReferenceInv`): a POST or PUT past its validation holds an alias
   row of each reference, and a DELETE past its check those of its
   document; by 1 not both. A DELETE that found no referring document keeps finding
   none, since whoever comes to refer needs a lock on the alias it holds.

Layers 3 and 4 hold under `IdentitiesFixed` and until `missed`, layer 4 also
under `ValidatedDeletes` and `SuperDisjoint`: for each of these TLC shows a
behaviour without it in which the property fails, as listed above.

Only model-checked: `EveryCallAnswered` (liveness under fairness).

## RequestPipeline and DocumentIndex

### State and actions

A member of `Requests` is an HTTP request; `pc[r]` says which `await` it is at. One
worker serves all of them: it has its loaded plugins (`loading`, `loaded`), the
cached API schema (`schema`) and its `clock`. `store` is the committed documents by
MeadowlarkId in one of the two stores (`backend`), `index` the search index by endpoint
and documentUuid, `calls` the calls of the index that are on their way and may outlive
the request that made them. `found[r]` is the documentUuid PostgreSQL has read for a
write it has yet to do.

| Action | Code (`packages/meadowlark-core/src` unless named) |
| --- | --- |
| `Arrive` | `CrudHandler.ts`, `MeadowlarkConverter.ts`; `FrontendFacade.ts` 38-41: loading begins |
| `loadAllPlugins` | `plugin/PluginLoader.ts` 95-104: store, query handler, listeners, until one fails |
| `Begin` | timestamp, API schema, and the stack made with the store's middleware as loaded |
| `upsert`, `update`, `deleteIt`, `getById`, `query` | `FrontendFacade.ts`: authorization, then the rest of the stack without an `await` at which another request could change anything |
| `securityMiddleware` | `OwnershipSecurity.ts` of both backends: one read before the handler |
| `StoreCall`, `getDocumentById` | `handler/Upsert.ts`, `Update.ts`, `Delete.ts`, `GetById.ts`: the call of the store |
| `NoDocumentStore`, `NoQueryHandler` | the plugins that stand in for one that failed to load |
| `Publish`, `ListenerThrows` | `plugin/listener/Publish.ts`, `UpdateOpensearch.ts`, `UpdateElasticsearch.ts` |
| `IndexApplies`, `IndexFails`, `IndexTimesOut` | the search engine and its client |
| `queryDocuments` | `QueryOpensearch.ts`, `QueryElasticsearch.ts` and both mappings of errors |
| `loadDescriptors`, `Respond` | `handler/DescriptorLoader.ts`: one upsert after the other; the status |
| `Crash` | the worker ends and another takes its place |

### Abstractions, and what they leave out

- A request says which checks it fails (`bad`), in any combination; `DocumentIntake`
  computes them.
- A store call is one step apart from two places where other requests come between:
  PostgreSQL reads a document (`Finds`) and rewrites what has its documentUuid later
  (`Rewrites`, `Misses`); MongoDB runs a transaction again after a commit whose answer
  was lost (`Reruns`), on a store that has the change. The call commits, commits and
  loses the answer, is refused for a reason one of the two stores has, or is rejected
  (`Throws`): the handler answers 500, and a load of descriptors ends. Whether
  references resolve is left to those modules.
- The owner (`createdBy`) is written as each store does: PostgreSQL's rewrite takes the
  client of the request; MongoDB's POST and identity change do, its other PUTs keep
  the owner (`Update.ts` 105-117). The listeners send the client of the request.
- A POST has no documentUuid in its path.
- A query asks for the documents of an endpoint, of one client where ownership
  applies; paging and filters are left out. That the owner is matched as text, so
  that one client's id within another's would match too, is not distinguished.
- The worker ends only while it serves somebody; an idle end changes nothing but
  the caches.
- `saw`, `before`, `wrote` (what a request committed), `reported` (what the store told
  it of that), `skipped`, `troubled` and the `writer` of a document are history. `troubled` are the
  entries whose last change did not reach the index in order: the call failed or
  timed out, crossed another, was lost with the worker, or there was no listener.

### Run and bounds

| Run | Checks | Shows |
| --- | --- | --- |
| `pipeline` | `AnswerTellsWhatWasWritten`, `IndexFollowsStore`, `QueryFindsWhatWasAnswered`, `OwnersAct`, `LoadedDescriptorsAreThere`, `EveryRequestAnswered`, `ImplementsDocumentIndex` | what a client may conclude from a status; when the index can be trusted; that a check made before an act holds at some moment of it |

Two requests, the first from seven changes, the second from two more, reads and
requests that are refused, beside or after it: two is how many it takes to cross on
one document. The store, of either kind, is empty or holds a Session and a descriptor.
The plugins fail at the first, at the second or not at all; the worker ends at most once (`MaxCrashes`). `MaxUuid` bounds the documentUuids
that are ever generated; four are more than two requests make.

`TypeOK` is proved; no run spends time on it.

Behaviour worth knowing, which the properties leave room for: an index that missed a
change keeps missing it until the document is written again; a query handler that
cannot be imported keeps the listeners of that process unattached; a committed
change is answered 500 when the listener throws; a DELETE that met another
transaction is answered 404; a PUT over another document's identity leaves that
document's entry in the index. Three more show in the properties, as exceptions or as
what they say of the owner:

- In MongoDB the PUT of another client keeps a document's owner, while the index is
  told that client's id: the owner's queries under OWNERSHIP_BASED no longer find the
  document, which it may still read and write (`IndexFollowsStore`,
  `QueryFindsWhatWasAnswered`).
- In MongoDB a request whose commit took effect without an answer is run again and
  meets its own change: a DELETE is answered 404, a POST or PUT 409, with the change
  made and no listener told (`AnswerTellsWhatWasWritten`).
- In PostgreSQL a POST that read its document before another request deleted it
  rewrites nothing and is answered 200; the listeners put the document into the index
  (`AnswerTellsWhatWasWritten`, `ImplementsDocumentIndex`).

### Fairness

`FairSpec` has weak fairness of `Worker`: imports end, the store answers, the
clients of the index time out, and the event loop goes on while there is
anything to resume. The search engine is not fair: it need not answer.

### Proofs

| Theorem | States |
| --- | --- |
| `TypeCorrect` | `Spec => []TypeOK` |
| `AnswersTellWhatWasWritten` | `Spec => []AnswerTellsWhatWasWritten` |
| `IndexFollows` | `Spec => []IndexFollowsStore` |
| `QueriesFindWhatWasAnswered` | `Spec => []QueryFindsWhatWasAnswered` |
| `OwnersActed` | `Spec => []OwnersAct` |
| `DescriptorsLoaded` | `Spec => []LoadedDescriptorsAreThere` |
| `ImplementsIndex` | `Spec => ImplementsDocumentIndex` |

They hold for any number of requests, documents, endpoints, clients and descriptors,
for every store the worker may start with and every number of restarts. The
assumptions are the named ones of `RequestPipeline`: there is a descriptor to load;
names do not clash; a documentUuid of an initial store names one document; a POST or
PUT is about a document of its own endpoint, since a MeadowlarkId hashes the endpoint's
name with the identity (`DocumentIdentity.ts`); `authorize` refuses with the statuses
`AuthMiddleware` has.

`IInv` is the invariant, which TLC holds on the `pipeline` instance too. For each
request it has `PathInv` (where it can be, given what it asks for), `WroteInv` (what
its last result says of what it wrote and was told of; `MissedInv`, within it, that
what was told and not written was of a document another request has deleted),
`FoundInv` (what PostgreSQL has read is still there, or another request has deleted
it), `NoticeInv` (what it tells the index of is what the store reported to it), `SawInv`,
`QueryInv` and `LoadInv`, which say of the request on its way what the properties say of
it once it is answered. Beside these:

- `StoreInv`: a documentUuid was issued and names one document, and in PostgreSQL the
  last writer is the owner. It makes the entry a commit tells of exactly the one that
  changes for that document.
- `FollowInv`: of an entry that is not troubled, either the index has what the store
  has, or one request, and only one, is about to tell of it or has a call on its way,
  with the value the store has now. A commit that finds someone else telling of the
  same entry makes it troubled; one that does not becomes the only one, and the call
  that is applied ends it. `IndexFollowsStore` alone is not inductive: it does not say
  what a call on its way will write.
- `CallsInv`: a call on its way carries a change the store reported, also when who made it has
  given up on it or has ended with its worker. The refinement rests on it.

A query can be trusted because of `FollowInv` and one fact more: a document whose last
version was written by a request that is done has nobody left to tell of it. Each step is
shown apart for the request that takes it and for those that wait; only `Commits`
reaches the others, through the owners they see, the entries they look for, the
documents they have found and the descriptors they count on. `StoreForms` says of all
calls of the store that they leave it alone, miss their document or commit properly, so
that what follows does not tell a POST from a PUT or a DELETE. A rerun commits nothing
the second time because the request is then no newer than the document (`HasAged`).

Only model-checked: `EveryRequestAnswered` (liveness under fairness).

## AuthTokens, AuthServer and AuthMiddleware

### State and actions

`AuthServer` is the OAuth server: `clients` is the committed collection or table,
`now` the clock, `issued` the tokens handed out. A handler runs without interruption
up to its call of the store, the store answers later, and the handler answers from
what it was told.

| Action | Code (`packages/meadowlark-authz-server/src` unless named) |
| --- | --- |
| `Arrive`, `loadAuthorizationStore`, `PluginsLoaded` | `plugin/AuthorizationPluginLoader.ts` |
| `Begin` | the handlers up to the store: bearer, body, built-in credentials, id and secret of a new client |
| `ReadClient` | `getAuthorizationClient`, `getAllAuthorizationClients` of both backends |
| `TransactionStatement`, `Commit` | MongoDB's `withTransaction`, PostgreSQL's creation in BEGIN and COMMIT; a commit may fail, or take effect and lose its reply |
| `SingleStatement` | PostgreSQL's update and reset, whose reply may be lost (`ReplyLost`) |
| `CheckBootstrapAdminExists`, `InsertBootstrapAdmin` | PostgreSQL's bootstrap: a read, then an insert |
| `StoreFails` | the catch blocks, and the plugin that stands in for a missing one |
| `Answer` | `RequestToken.ts`, `VerifyToken.ts`, `GetClient.ts` ...: status and token |

`AuthMiddleware` is the other end, `middleware/AuthorizationMiddleware.ts` in a
worker: `ownToken` and `cached` are its two module variables. `authorize`,
`OwnTokenArrives` and `VerificationArrives` are the stretches between its awaits,
`ServerAnswers` and `CallFails` the server's, in one step at some moment between
sending and answer, and `Deactivate` and `Activate` what others do to clients. Time
passes in `Tick`, and no call takes longer than `MaxDelay`.

### Abstractions, and what they leave out

- A secret is whose it is, its hash an injective function of it; signing keys, the
  parsing of headers and the wording of tokens are left out.
- Bodies are what the validators make of them: malformed, invalid, misspelled, valid.
- Scopes other than roles, and the names of clients, decide nothing and are left out.
- A cache's time to live is exact, and what is evicted for room is what expires first.

### Runs and bounds

| Run | Checks | Shows |
| --- | --- | --- |
| `auth_server` | `TypeOK`, `TokenAnswersAreCurrent`, `IntrospectionIsCurrent`, `BootstrapOnce`, `OnlyAdministratorsWrite`, `EveryRequestAnswered` | answers were true of the store at some moment of the request; who writes; who gets an answer |
| `auth_middleware` | `TypeOK`, `AuthorizedWasGood`, `RefusedWasBad`, `GatewayErrorsHaveACause`, `EveryRequestAuthorized` | what the cache may get wrong and for how long; that the worker's own token is renewed unnoticed |

The server: two requests of ten kinds, three clients (one stored, a vendor or the
bootstrap administrator, and as many as two requests create), one tick, after which
a token that lives one tick is not yet and a foreign one already expired. The
middleware: two requests at a time and as many in turn as time allows, tokens of one client of which
one expires at once, a cache with room for one, a worker that restarts.

Behaviour the properties leave room for: an acknowledged creation, update or reset
whose commit fails afterwards (the response is decided inside the transaction; the
catch block only logs; in PostgreSQL the rollback may be rejected too, which is
answered 500); a change that took effect and is answered 500, its reply lost; two bootstraps at the same time, both of which succeed; a
PUT without `active`, which PostgreSQL stores as true, whatever it was, and
MongoDB as null, which no reader takes for true; a token that carries the roles
its client had when it was issued.

### Fairness

Weak fairness of each request's steps and of the import: store calls end, with a
result or an error. In `AuthMiddleware`, of each request's steps and of the answer
to its call, since axios gives up. Nothing else is fair.

### Proofs

| Theorem | States |
| --- | --- |
| `AuthMiddlewareProofs!TypeCorrect` | `Spec => []TypeOK` |
| `AuthorizedSafe` | `Spec => []AuthorizedWasGood` |
| `RefusedSafe` | `Spec => []RefusedWasBad` |
| `GatewaySafe` | `Spec => []GatewayErrorsHaveACause` |
| `AuthServerProofs!TypeCorrect` | `Spec => []TypeOK` |
| `TokenAnswersSafe` | `Spec => []TokenAnswersAreCurrent` |
| `IntrospectionSafe` | `Spec => []IntrospectionIsCurrent` |
| `BootstrapSafe` | `Spec => []BootstrapOnce` |
| `WritersAreAdministrators` | `Spec => OnlyAdministratorsWrite` |

They hold for every set of clients, requests, tokens and stored clients, every
token life, time to live, cache size and delay, with either backend or none.
Assumed: what callers present and what another server issued is a token
(`TokensAssumption`, `ForeignAssumption`), inputs are what the handlers' validators
tell apart (`InputsAssumption`), the store begins with documents of the client's
shape (`ClientsAssumption`), and ids of stored clients, which are UUIDs, are none of
the hard-coded ones (`HardcodedIdsAssumption`). The other assumptions say that
numbers are numbers.

*The middleware.* `IInv` says of each thing the worker remembers what was true when
it was told: a cached entry, of a token that was good at the moment `CacheTTL` and
a call's `MaxDelay` before the entry expires; a call under way, that it carries a
token of the worker's own, which at the second verification had at least
`TokenLife` less one delay to live when the call was sent; a reply, what the server
saw between the sending and now; and a failed call, that it has been noted. The
properties follow: a 401 is about the caller's token, since what the server answers
to a refused own token never reaches the caller as 401.

`GatewayErrorsHaveACause` needs `TokenLife >= 2 * MaxDelay`, no less: the second
verification may carry a token issued at the start of one call and be answered at
the end of the next. With `MaxDelay = 2` and `TokenLife = 3` one request alone gets a
502 with no failure behind it. `AuthorizedWasGood` has a disjunct for the built-in
clients of the hard-coded credentials, which are in no store and stay active.

*The server.* `past` and `since` are history: the documents each client has had, and
how many of them there were when each request arrived. `IInv` says that the history
ends with what is stored and never loses the mark of a bootstrap administrator
(`HistoryInv`); that what a request has read is one of the states its client had
since the request arrived (`TokenInv`, `IntrospectionInv`); that whoever is about to
write is an administrator whose token had not expired on arrival, or a bootstrap, and
that two requests never create one client (`WriteInv`, `CreatorsApart`, because an id
is drawn anew); and that a bootstrap which arrived after another was stored never gets to its insert
(`LateBootstrapInv`).

Only model-checked: `EveryRequestAnswered` and `EveryRequestAuthorized` (liveness
under fairness).

## Service

### State and actions

Each worker is a process (`proc[w]`) with module variables of its own: the shared
client or pool (`singleton[w]`). A client or pool has the name of the request that
made it (`handle`). A request (`pc[r]`) is what the connection sees of it: it asks
for the shared client, perhaps connects, perhaps creates the tables, works and is
answered; with the answer its local variables are gone.

| Action | Code |
| --- | --- |
| `Accept`, `Refuse` | `services/meadowlark-fastify/src/Service.ts` |
| `MongoFinds`, `MongoConnects`, `MongoConnectFails`, `MongoWorks` | MongoDB `Db.ts` 22-90 |
| `PostgresMakesPool`, `PostgresAsksPool`, `PostgresServesQueue`, `PostgresConnects`, `PostgresConnectFails`, `CreateDatabase`, `PostgresWorks` | PostgreSQL `Db.ts` 33-100, `BackendFacade.ts` |
| `CreateTables`, `CreateTablesFails` | `SqlHelper.ts` 681-802 |
| `closeGracefully`, `closeSharedConnection`, `PoolEnded`, `ServiceCloses` | `ServiceFactory.ts` 16-27, `Connection.ts`, PostgreSQL `Db.ts` 118-127, MongoDB `Db.ts` 74-80 |
| `Kill` | a crash, or a second signal; `ClusterService.ts` 45 starts no replacement |
| `Outage`, `Recovery`, `OperatorCreatesDatabase`, `PoolEnds` | the server, its operator, the libraries |

### Abstractions

Requests are numbered in the order they arrive, and the first worker to get one is
worker 1: the rest is symmetric. The 13 statements that create schema, tables and
indexes are `Statements`, each IF NOT EXISTS; two are enough for one worker to be
between two while another is at either. A worker that cannot listen ends at once and
is left out of `Init`. A second signal of another kind, while the first is being
served, is left out.

### Run and bounds

| Run | Checks | Shows |
| --- | --- | --- |
| `service` | `TypeOK`, `OnlyAKillCutsRequests`, `FailuresHaveCauses`, `SignalEndsProcess` | a graceful end cuts nobody off and ends, unless a pool can never be ended; every failure has a cause at that moment |

Three requests on two workers (the lesser of three threads and two processors), a
pool of two clients, one outage, both backends, with and without the database: three
requests fill a pool and leave one to wait for it.

Behaviour the properties name: `Leaks`, a client whose table creation threw and that
nobody releases, and `Stranded`, a request in the queue of a pool that is being
ended, each keep a worker from ending (`Hangs`). A missing database is never
created: the configuration is a new object at every call, so that the name set on one
is not the name used. A pool whose first connection failed stays in the variable.
A request that connects to MongoDB while `closeSharedConnection` awaits the close of
the client has its own client dropped from the variable without being closed; ending a
PostgreSQL pool that is being ended already is rejected at once.

### Fairness

Weak fairness of `SystemStep`: connection attempts, statements and the turns of the
event loop end. Requests, signals, outages and the end of an outage are not fair.

### Proofs

| Theorem | States |
| --- | --- |
| `TypeCorrect` | `Spec => []TypeOK` |
| `StopsGracefully` | `Spec => []OnlyAKillCutsRequests` |
| `FailuresExplained` | `Spec => FailuresHaveCauses` |

They hold for every number of requests, threads, processors, statements, pooled
clients and outages; `ServiceAssumption` says no more than that these are numbers and
the backend one of the two. `FailuresHaveCauses` is about a step and needs to know
how its state came about. With MongoDB, a closed client has a cause only because it
belongs to the worker of the request that uses it, which has stopped listening:
`MongoInv` says of every client in use or in a module variable that it was opened on
the same worker, and of a closed one that its worker is stopping. With PostgreSQL, `RequestInv` says that who has
got past its connection has a pool, and who creates tables has some left to create,
so that a failed statement or a missing table shows in `tables`.
`OnlyAKillCutsRequests` is inductive as soon as requests stay with their worker.

Only model-checked: `SignalEndsProcess` (liveness under fairness).

## DocumentIntake

### State and actions

Mostly operators: `extractDocumentIdentity`, `meadowlarkId`, `deriveSuperclassInfoFrom`,
`extractDocumentReferences`, `extractDescriptorValues`, `validateEqualityConstraints`,
`validateDocument`, `validateQueryParameters` and `validatePaginationParameters` are the
functions of these names under `packages/meadowlark-core/src/{extraction,validation,model}`.
A schema is a constant, what the code reads of a resource's schema; a body is what a
JsonPath finds in it: a function from paths to sequences of values. An id is the
resource with the text that is hashed: `key=value` of each element, joined by `#` and
not escaped. A text is the pieces between its `#`s, which is what tells two texts apart:
`Split` gives the pieces of the values that have a `#` in them. Only the hash itself
is assumed not to collide.

`HasIdentity` and `HasWholeReferences` are the invariants at which an extraction throws,
which FrontendFacade answers with 500.

The state is the module-level caches (`apiSchemaCache`, `validatorCache`) that
requests share. `loadApiSchemaFromFile`, `loadApiSchemaFails`, `refuseEndpoint`,
`writeDocument` and `queryDocuments` are the stretches between two awaits.
`compiledFor` is history.

### Runs and bounds

| Run | Checks | Shows |
| --- | --- | --- |
| `intake` | `ReferenceMeetsIdentity`, `IdentityTellsApart`, `StrictWhereAsked` | a reference spelled out in any order, in a collection or to a superclass finds the document it names, and no other for values without `#`; so does one id mean equal values where constraints tie them; leniency leaks in one direction only |
| `intake_descriptors` | `EachDescriptorReferredTo` is violated | several values of one descriptor property |
| `intake_identities` | `DuplicateKeysAgree` is violated | two identity paths of one key without a constraint |

Thirteen resources of the data standard with their real keys, paths and orders; three
requests, the first of documents referred to, the second of documents that refer,
the third a query with an unknown parameter; each value 1 or 2, and for course
offerings 3, which has a `#` in it (`Split`) that makes two of their identities one
text. `Collections` are the paths in arrays; an endpoint of a namespace in `Foreign` has
no schema of its project.

The two findings, in short. A School with two grade levels yields one reference whose
identity has two elements, the id of no descriptor, so that a validated POST is
refused whatever is stored. And feederSchoolAssociations has `schoolId` twice in its
identity: the later path wins, two associations that differ in the other school
are one document, and no equality constraint makes the two agree.

Behaviour the run has and no property judges as wrong: two identities whose values
hold `#` may be one text, so that two documents have one id, and a reference finds a
document it does not spell out; an endpoint of an unknown namespace is answered 500
(`EndpointValidator.ts` 36); a reference property named for
its role (`graduationSchoolYear` of a GraduationPlan whose own key is `schoolYear`) has
no value at the target's key, so its id is that of no document (`ReferenceMeetsIdentity`
speaks of the references that have their target's keys, `SameKeys`); validators compiled
for a query are stored in the cache of the documents, which with overposting allowed
makes a later document with unknown properties be refused (`StrictWhereAsked` allows
this as the only cause); two first requests each read the schema file, and have
validators of their own; a document whose identity has a school year and whose
`graduationSchoolYearTypeReference` is empty is valid, since the schemas in
`ds-schemas/` do not require the year, and is answered 500 instead of 400.

There is no liveness: nothing here waits but for the file.

### Proofs

All three invariants, for every schema, set of requests and inputs, in
`DocumentIntakeProofs`; none of its definitions is recursive. `IInv` is inductive:

- `TypeInv`, and `Position`: who looks for validators has a schema object, and who
  has an outcome looks for nothing any more.
- `CacheInv`: cached validators are lax only where overposting is allowed, and are
  strict there only after a query (`compiledFor`). `StrictWhereAsked` alone is not
  inductive: it says nothing of a resource that has been compiled and not yet used.
- `Checked`: what was passed on was complete, has equal values where constraints ask
  for them and has its identity.

`ReferenceMeetsIdentity` and `IdentityTellsApart` follow from `Checked` by lemmas about
the extractors: `OwnIdentity` and `SuperclassIdentity` (an identity lists what the body
says in the order of the keys), `InOrder` (two such lists are one exactly when the
bodies say the same), `PlainText` and `OneText` (without `#` each element is one piece,
so that two identities with one text are one), `OneTextInOrder`, `ElementMeets`,
`EqualValues` and `TiedValues`.

Assumed of the constants: `BodyAssumption`, that a JsonPath finds a sequence,
`OrderAssumption`, that the keys of an identity come in an order, and
`SuperclassAssumption`, which the code takes for granted where it renames a key in
place and sorts nothing: a superclass is abstract, and its identityPathOrder is the
subclass', with the one key of a domain entity renamed ("MetaEd only allows the
super/subclass relationship of Domain Entities to have a single common identity
field", `ResourceSchema.ts`). All eighteen subclasses in `DataStandard-3.3.1-b.json`
satisfy it. That an identity's path is required is not assumed; it is not true of
school years.

## Mutants

Each property of a passing run has a variant of one definition (marked "Fault" next
to it) under which TLC finds it violated: a way to get the code wrong that the run
would notice. In the stores: locking only the own document, committing a refused call,
replacing at an equal timestamp, a documentUuid generated once per call, keeping the
old identity on a rename, retrying without end, locking validated references FOR
SHARE, leaving old alias rows, ending without COMMIT. In the others: not waiting for
the index, publishing whatever the result, checking ownership of no descriptor, stopping
a load at the first failure, caching for the life of a token, never renewing the own
token, overlooking a deactivated administrator, not awaiting `service.close()`, never
releasing a client, keeping a failed client, writing references' keys in the order
written, one cache for documents and queries.

## Not modelled

- JSON Schema validation of types and formats, and the extraction of descriptor and
  school year identities (one element each, by functions of their own).
- The JsonPath library's behaviour on malformed documents.
- Query filters, paging and totals of the search engines; free-text matching.
- Hash functions, signing keys, configuration look-up, logging, metadata endpoints and
  the XSD and Swagger pages: no state, no order.
- Kafka, containers and scripts: third-party configuration. The C# port
  (`src/Meadowlark.net`): two statements without a transaction, unfinished.

`PROJECT.json` lists each component with its status, and each hazard of the code with
the properties that cover it or the reason why none does.
