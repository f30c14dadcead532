------------------------------- MODULE Service -------------------------------
(***************************************************************************)
(* The life of the service's processes and of the connection each of them  *)
(* shares between its requests: services/meadowlark-fastify (ClusterService, *)
(* ServiceFactory, Service), the closing of the connections                *)
(* (MeadowlarkConnection, FrontendFacade.closeConnection, Connection) and  *)
(* the module variables that hold the shared client (MongoDB: Db.ts) or    *)
(* the shared pool (PostgreSQL: Db.ts), with the creation of the tables    *)
(* (SqlHelper.ts).                                                         *)
(*                                                                         *)
(* Every worker is a process with module variables of its own; all workers *)
(* use one database server.  A request is only what the connection sees of *)
(* it: it asks for the shared client, perhaps connects, perhaps creates    *)
(* the tables, does its work and is answered.  Between two of these steps  *)
(* the process runs other requests.                                        *)
(***************************************************************************)
EXTENDS Naturals, FiniteSets

CONSTANTS
  MaxRequests, \* bound: how many requests need the document store
  Threads,     \* FASTIFY_NUM_THREADS
  CPUs,        \* the processors of the machine
  Backends,    \* the document stores the service may be configured with
  Statements,  \* how many statements create the tables: 13 in the code
  PoolMax,     \* the clients a pool of PostgreSQL holds at most
  MaxOutages   \* bound: how often the database server goes away

ASSUME ServiceAssumption ==
  /\ Threads \in Nat \ {0} /\ CPUs \in Nat \ {0}
  /\ Statements \in Nat \ {0} /\ PoolMax \in Nat \ {0}
  /\ MaxRequests \in Nat /\ MaxOutages \in Nat
  /\ Backends \subseteq {"mongodb", "postgresql"}

VARIABLES
  backend,   \* the document store the service is configured with
  database,  \* whether the database exists on the server
  tables,    \* how many of the statements that create tables have taken effect
  server,    \* whether the database server answers
  outages,   \* how often it has gone away
  proc,      \* what each worker is doing
  killed,    \* history: the workers that were killed rather than asked to stop
  singleton, \* each worker's shared client or pool, named by the request that made it
  handle,    \* the state of the client or pool each request made
  leaked,    \* the requests whose pooled client was never released
  at,        \* the worker that serves each request
  using,     \* the client or pool each request was given
  pc,        \* where each request is
  ddl,       \* how many of the statements each request has sent
  status     \* the status each request was answered with, 0 before

store == <<backend, database, tables, server, outages>>
workers == <<proc, killed, singleton>>
handles == <<handle, leaked>>
requests == <<at, using, pc, ddl, status>>
vars == <<store, workers, handles, requests>>

\* A machine of n processors runs at most n workers; with one thread the
\* service runs in the first process, without a cluster.
Workers == 1 .. (IF Threads < CPUs THEN Threads ELSE CPUs)

\* The requests, in the order they arrive in: nothing else tells them apart.
Requests == 1 .. MaxRequests

\* The null of a module variable.
Nothing == 0

Handles == Requests

\* A worker between its listening and its service.close() still takes requests.
Accepting == {"listening", "closingStore", "endingPool"}

\* The steps at which a request has been taken and not been answered.
Underway == {"asking", "connecting", "first", "queued", "tables", "ending", "working"}

InFlight(w) == {r \in Requests : at[r] = w /\ pc[r] \in Underway}

\* What has become of a worker when service.listen() has returned: where the
\* port is taken, the process has ended itself.
Listening == {"listening", "gone"}

Init ==
  /\ backend \in Backends
  /\ database \in IF backend = "mongodb" THEN {TRUE} ELSE BOOLEAN
  /\ tables \in IF database /\ backend = "postgresql" THEN {0, Statements} ELSE {0}
  /\ server = TRUE /\ outages = 0
  /\ proc \in [Workers -> Listening] /\ killed = {}
  /\ singleton = [w \in Workers |-> Nothing]
  /\ handle = [h \in Handles |-> "none"] /\ leaked = {}
  /\ at = [r \in Requests |-> 0] /\ using = [r \in Requests |-> Nothing]
  /\ pc = [r \in Requests |-> "idle"] /\ ddl = [r \in Requests |-> 0]
  /\ status = [r \in Requests |-> 0]

(***************************************************************************)
(* The database server: it goes away and comes back, and an operator may   *)
(* create the database PostgreSQL is missing.                              *)
(***************************************************************************)
Outage ==
  /\ server /\ outages < MaxOutages
  /\ server' = FALSE /\ outages' = outages + 1
  /\ UNCHANGED <<backend, database, tables, workers, handles, requests>>

Recovery ==
  /\ ~server /\ server' = TRUE
  /\ UNCHANGED <<backend, database, tables, outages, workers, handles, requests>>

OperatorCreatesDatabase ==
  /\ ~database /\ database' = TRUE
  /\ UNCHANGED <<backend, tables, server, outages, workers, handles, requests>>

(***************************************************************************)
(* A request's way to its answer.                                          *)
(***************************************************************************)
Goes(r, to) == pc' = [pc EXCEPT ![r] = to]

\* With the answer, the request's local variables are gone.
Answers(r, code) ==
  /\ Goes(r, "answered")
  /\ status' = [status EXCEPT ![r] = code]
  /\ using' = [using EXCEPT ![r] = Nothing]
  /\ ddl' = [ddl EXCEPT ![r] = 0]

\* Requests are numbered as they arrive, and the worker the first of them comes
\* to is number 1: the workers are otherwise alike.
Arrives(r, w) ==
  /\ pc[r] = "idle" /\ \A q \in 1 .. r - 1 : pc[q] # "idle"
  /\ r = 1 => w = 1

\* A worker takes a request, which begins by asking for the shared client.
Accept(r, w) ==
  /\ Arrives(r, w) /\ proc[w] \in Accepting
  /\ at' = [at EXCEPT ![r] = w]
  /\ Goes(r, "asking")
  /\ UNCHANGED <<store, workers, handles, using, ddl, status>>

\* Once service.close() has been called, a request on a connection that is
\* still open is answered 503 before any handler runs.
Refuse(r, w) ==
  /\ Arrives(r, w) /\ proc[w] = "draining"
  /\ at' = [at EXCEPT ![r] = w]
  /\ Answers(r, 503)
  /\ UNCHANGED <<store, workers, handles>>

------------------------------------------------------------------------------
(***************************************************************************)
(* MongoDB: getSharedClient and getNewClient.  The variable is set when    *)
(* the connection succeeds, so two requests that find it null both         *)
(* connect, and the later one replaces the earlier one's client.           *)
(***************************************************************************)
MongoFinds(r) ==
  /\ backend = "mongodb" /\ pc[r] = "asking"
  /\ IF singleton[at[r]] = Nothing
       THEN Goes(r, "connecting") /\ UNCHANGED using
       ELSE Goes(r, "working") /\ using' = [using EXCEPT ![r] = singleton[at[r]]]
  /\ UNCHANGED <<store, workers, handles, at, ddl, status>>

MongoConnects(r) ==
  /\ backend = "mongodb" /\ pc[r] = "connecting" /\ server
  /\ handle' = [handle EXCEPT ![r] = "open"]
  /\ singleton' = [singleton EXCEPT ![at[r]] = r]
  /\ using' = [using EXCEPT ![r] = r]
  /\ Goes(r, "working")
  /\ UNCHANGED <<store, proc, killed, leaked, at, ddl, status>>

\* Fault: the variable is assigned before the connection is awaited.
KeepsTheFailedClient(r) == r

\* What a failed connection leaves in the module variable.
AfterFailedConnect(r) == singleton[at[r]]

MongoConnectFails(r) ==
  /\ backend = "mongodb" /\ pc[r] = "connecting" /\ ~server
  /\ singleton' = [singleton EXCEPT ![at[r]] = AfterFailedConnect(r)]
  /\ Answers(r, 500)
  /\ UNCHANGED <<store, proc, killed, handles, at>>

\* The work on the store.  What the driver does with a client that has been
\* closed depends on how far the operation has got: it may still succeed.
MongoWorks(r) ==
  /\ backend = "mongodb" /\ pc[r] = "working"
  /\ \/ /\ server /\ handle[using[r]] # "none" /\ Answers(r, 200)
     \/ /\ ~server \/ handle[using[r]] # "open"
        /\ Answers(r, 500)
  /\ UNCHANGED <<store, workers, handles, at>>

------------------------------------------------------------------------------
(***************************************************************************)
(* PostgreSQL: getSharedClient, createConnectionPoolAndReturnClient and    *)
(* checkExistsAndCreateTables.  The pool is put in the module variable     *)
(* before anything is known of it.                                         *)
(***************************************************************************)

\* Fault: the "finally" that releases the client is missing.
NeverReleased(h) == {r \in Requests : at[r] = at[h] /\ pc[r] \notin {"asking", "queued", "ending"}}

\* The clients of a pool that are not idle: a request holds one while it
\* connects and while it creates the tables.  The facade's "finally" releases
\* it as soon as the operation has been started, so not while that runs.
Held(h) == {r \in Requests : using[r] = h /\ pc[r] \in {"connecting", "first", "tables"}}

Busy(h) == Held(h) \cup (leaked \cap {h})

\* The caller that finds no pool makes one, and is the only one to create tables.
PostgresMakesPool(r) ==
  /\ backend = "postgresql" /\ pc[r] = "asking" /\ singleton[at[r]] = Nothing
  /\ handle' = [handle EXCEPT ![r] = "open"]
  /\ singleton' = [singleton EXCEPT ![at[r]] = r]
  /\ using' = [using EXCEPT ![r] = r]
  /\ Goes(r, "first")
  /\ UNCHANGED <<store, proc, killed, leaked, at, ddl, status>>

\* Everyone after it asks the pool: one that has been ended throws at once,
\* one whose clients are all busy keeps the request waiting.
PostgresAsksPool(r) ==
  /\ backend = "postgresql" /\ pc[r] = "asking" /\ singleton[at[r]] # Nothing
  /\ LET h == singleton[at[r]] IN
     \/ /\ handle[h] # "open" /\ Answers(r, 500)
     \/ /\ handle[h] = "open"
        /\ using' = [using EXCEPT ![r] = h]
        /\ Goes(r, IF Cardinality(Busy(h)) < PoolMax THEN "connecting" ELSE "queued")
        /\ UNCHANGED <<ddl, status>>
  /\ UNCHANGED <<store, workers, handles, at>>

\* A released client serves a waiting request, unless the pool is being ended.
PostgresServesQueue(r) ==
  /\ pc[r] = "queued" /\ handle[using[r]] = "open"
  /\ Cardinality(Busy(using[r])) < PoolMax
  /\ Goes(r, "connecting")
  /\ UNCHANGED <<store, workers, handles, at, using, ddl, status>>

PostgresConnects(r) ==
  /\ backend = "postgresql" /\ server /\ database
  /\ \/ pc[r] = "first" /\ Goes(r, "tables")
     \/ pc[r] = "connecting" /\ Goes(r, "working")
  /\ UNCHANGED <<store, workers, handles, at, using, ddl, status>>

\* A failed connection leaves the pool in the variable.  When the database is
\* missing, the one that made the pool ends it and waits for that.
PostgresConnectFails(r) ==
  /\ backend = "postgresql"
  /\ \/ /\ ~server \/ (pc[r] = "connecting" /\ ~database)
        /\ pc[r] \in {"first", "connecting"}
        /\ Answers(r, 500) /\ UNCHANGED handle
     \/ /\ server /\ ~database /\ pc[r] = "first"
        /\ handle' = [handle EXCEPT ![r] = "ending"]
        /\ Goes(r, "ending") /\ UNCHANGED <<using, ddl, status>>
  /\ UNCHANGED <<store, workers, leaked, at>>

\* The database is to be created over a connection to the database "postgres",
\* but getDbConfiguration returns a new object each time: the name it was given
\* is lost, the client asks for the missing database again, and if that has
\* appeared since, CREATE DATABASE fails.  The ended pool stays in the variable.
CreateDatabase(r) ==
  /\ pc[r] = "ending" /\ handle[r] = "ended"
  /\ Answers(r, 500)
  /\ UNCHANGED <<store, workers, handles, at>>

\* Fault: the statements are not IF NOT EXISTS.
OneMoreTable(i) == tables + 1

\* Statement i is IF NOT EXISTS: it takes effect unless it already has.
TablesAfter(i) == IF tables < i THEN i ELSE tables

CreateTables(r) ==
  /\ pc[r] = "tables" /\ server
  /\ tables' = TablesAfter(ddl[r] + 1)
  /\ ddl' = [ddl EXCEPT ![r] = @ + 1]
  /\ Goes(r, IF ddl[r] + 1 = Statements THEN "working" ELSE "tables")
  /\ UNCHANGED <<backend, database, server, outages, workers, handles, at, using, status>>

\* A statement throws when the server is away, or when another worker is at the
\* same one: IF NOT EXISTS does not keep two transactions from both trying.
\* The exception leaves getSharedClient, and nobody releases the client.
CreateTablesFails(r) ==
  /\ pc[r] = "tables"
  /\ \/ ~server
     \/ /\ tables = ddl[r]
        /\ \E o \in Requests \ {r} : pc[o] = "tables" /\ ddl[o] = ddl[r]
  /\ leaked' = leaked \cup {r}
  /\ Answers(r, 500)
  /\ UNCHANGED <<store, workers, handle, at>>

\* The work on the store.  The client is back in the pool while it runs, so
\* that ending the pool breaks the connection it runs on.
PostgresWorks(r) ==
  /\ backend = "postgresql" /\ pc[r] = "working"
  /\ Answers(r, IF server /\ tables = Statements /\ handle[using[r]] = "open" THEN 200 ELSE 500)
  /\ UNCHANGED <<store, workers, handles, at>>

\* A pool that is being ended is ended when its last busy client is back.
PoolEnds(h) ==
  /\ handle[h] = "ending" /\ Busy(h) = {}
  /\ handle' = [handle EXCEPT ![h] = "ended"]
  /\ UNCHANGED <<store, workers, leaked, requests>>

------------------------------------------------------------------------------
(***************************************************************************)
(* The processes.                                                          *)
(***************************************************************************)
Becomes(w, to) == proc' = [proc EXCEPT ![w] = to]

\* SIGINT or SIGTERM: the handler closes the connections, the query handler's
\* first.  When that throws, the document store's is left open.
closeGracefully(w) ==
  /\ proc[w] = "listening"
  /\ Becomes(w, "closingStore") \/ Becomes(w, "draining")
  /\ UNCHANGED <<store, killed, singleton, handles, requests>>

Exists(w) == singleton[w] # Nothing

\* A client of worker w has been closed.
Closed(w) == \E h \in Handles : at[h] = w /\ handle[h] = "ended"

\* MongoDB: closes the client, and only then empties the variable, which may by
\* now hold a client that was connected meanwhile and that nobody closes.
\* PostgreSQL: empties the variable and then ends the pool, which rejects at
\* once when the pool is being ended or has been.
closeSharedConnection(w) ==
  /\ proc[w] = "closingStore"
  /\ \/ ~Exists(w) /\ Becomes(w, "draining") /\ UNCHANGED <<singleton, handle>>
     \/ /\ Exists(w) /\ backend = "mongodb" /\ ~Closed(w)
        /\ handle' = [handle EXCEPT ![singleton[w]] = "ended"]
        /\ UNCHANGED <<proc, singleton>>
     \/ /\ Exists(w)
        /\ IF backend = "mongodb" THEN Closed(w) ELSE handle[singleton[w]] # "open"
        /\ singleton' = [singleton EXCEPT ![w] = Nothing]
        /\ Becomes(w, "draining") /\ UNCHANGED handle
     \/ /\ Exists(w) /\ backend = "postgresql" /\ handle[singleton[w]] = "open"
        /\ handle' = [handle EXCEPT ![singleton[w]] = "ending"]
        /\ singleton' = [singleton EXCEPT ![w] = Nothing]
        /\ Becomes(w, "endingPool")
  /\ UNCHANGED <<store, killed, leaked, requests>>

\* The pools of worker w that are being ended.
EndingPools(w) == {h \in Handles : at[h] = w /\ handle[h] = "ending"}

PoolEnded(w) ==
  /\ proc[w] = "endingPool" /\ EndingPools(w) = {}
  /\ Becomes(w, "draining")
  /\ UNCHANGED <<store, killed, singleton, handles, requests>>

\* Fault: service.close() is not awaited.
NotAwaited(w) == TRUE

\* service.close() waits for the requests that have been taken.
Drained(w) == InFlight(w) = {}

\* What ends with a process: its requests and its memory.
Cut(w) ==
  /\ pc' = [r \in Requests |-> IF r \in InFlight(w) THEN "cut" ELSE pc[r]]
  /\ using' = [r \in Requests |-> IF at[r] = w THEN Nothing ELSE using[r]]
  /\ ddl' = [r \in Requests |-> IF at[r] = w THEN 0 ELSE ddl[r]]
  /\ handle' = [h \in Handles |-> IF at[h] = w THEN "none" ELSE handle[h]]
  /\ leaked' = {h \in leaked : at[h] # w}
  /\ singleton' = [singleton EXCEPT ![w] = Nothing]

\* service.close() has returned; its onClose hook starts another closing of
\* the connections and does not wait for it, and the process ends itself.
ServiceCloses(w) ==
  /\ proc[w] = "draining" /\ Drained(w)
  /\ Becomes(w, "gone") /\ Cut(w)
  /\ UNCHANGED <<store, killed, at, status>>

\* A crash, or the second signal of a kind, whose handler has been removed.
\* The primary only logs that a worker has exited: there is no replacement.
Kill(w) ==
  /\ proc[w] # "gone"
  /\ Becomes(w, "gone") /\ Cut(w)
  /\ killed' = killed \cup {w}
  /\ UNCHANGED <<store, at, status>>

\* A worker whose closing waits for a pool that never ends: a client of it was
\* leaked.  And a request that waits at a pool that no longer serves its queue.
Leaks(w) == \E h \in EndingPools(w) : h \in leaked
Stranded(r) == pc[r] = "queued" /\ handle[using[r]] # "open"
Hangs(w) ==
  \/ Leaks(w)
  \/ \E r \in InFlight(w) : Stranded(r)

\* The requests are answered, cut off, stranded or find no worker.
Quiescent ==
  /\ \A r \in Requests : pc[r] \in {"answered", "cut"} \/ Stranded(r) \/ pc[r] = "idle"
  /\ \A w \in Workers : proc[w] \in {"listening", "gone"} \/ Hangs(w)
  /\ UNCHANGED vars

------------------------------------------------------------------------------
RequestStep(r) ==
  \/ MongoFinds(r) \/ MongoConnects(r) \/ MongoConnectFails(r) \/ MongoWorks(r)
  \/ PostgresMakesPool(r) \/ PostgresAsksPool(r) \/ PostgresServesQueue(r)
  \/ PostgresConnects(r) \/ PostgresConnectFails(r) \/ CreateDatabase(r)
  \/ CreateTables(r) \/ CreateTablesFails(r) \/ PostgresWorks(r)

WorkerStep(w) == closeSharedConnection(w) \/ PoolEnded(w) \/ ServiceCloses(w)

\* What the service does by itself, as far as it has been asked to.
SystemStep ==
  \/ \E r \in Requests : RequestStep(r)
  \/ \E h \in Handles : PoolEnds(h)
  \/ \E w \in Workers : WorkerStep(w)

Next ==
  \/ SystemStep
  \/ \E r \in Requests, w \in Workers : Accept(r, w) \/ Refuse(r, w)
  \/ \E w \in Workers : closeGracefully(w) \/ Kill(w)
  \/ Outage \/ Recovery \/ OperatorCreatesDatabase
  \/ Quiescent

Spec == Init /\ [][Next]_vars

\* A connection attempt, a statement and an event loop's turn each come to an
\* end, with or without success.  Nobody has to send a request or a signal, and
\* the server need not come back.
FairSpec == Spec /\ WF_vars(SystemStep)

------------------------------------------------------------------------------
(***************************************************************************)
(* Every variable holds a value of its type.                               *)
(***************************************************************************)
TypeOK ==
  /\ backend \in Backends /\ database \in BOOLEAN /\ server \in BOOLEAN
  /\ tables \in 0 .. Statements /\ outages \in 0 .. MaxOutages
  /\ proc \in [Workers -> Accepting \cup {"draining", "gone"}]
  /\ killed \subseteq Workers /\ leaked \subseteq Requests
  /\ singleton \in [Workers -> Requests \cup {Nothing}]
  /\ handle \in [Handles -> {"none", "open", "ending", "ended"}]
  /\ at \in [Requests -> Workers \cup {0}]
  /\ using \in [Requests -> Requests \cup {Nothing}]
  /\ pc \in [Requests -> Underway \cup {"idle", "answered", "cut"}]
  /\ ddl \in [Requests -> 0 .. Statements]
  /\ status \in [Requests -> {0, 200, 500, 503}]

(***************************************************************************)
(* closeGracefully: a process that is asked to stop answers every request  *)
(* it has taken before it ends, whatever it has closed under them; only a  *)
(* process that is killed cuts a request off.                              *)
(***************************************************************************)
OnlyAKillCutsRequests == \A r \in Requests : pc[r] = "cut" => at[r] \in killed

\* What may make a request fail at this moment.
Cause(r) ==
  \/ ~server
  \/ proc[at[r]] # "listening"
  \/ /\ backend = "postgresql"
     /\ \/ ~database \/ tables < Statements
        \/ \E h \in {using[r], singleton[at[r]]} \ {Nothing} : handle[h] # "open"

(***************************************************************************)
(* getSharedClient: a request fails only while the server is away or its   *)
(* worker is stopping.  With MongoDB nothing of an earlier failure stays:  *)
(* the next request connects again.  With PostgreSQL a request also fails  *)
(* while the database or a table is missing, and on a pool that was ended. *)
(***************************************************************************)
FailuresHaveCauses ==
  [][\A r \in Requests : status[r] = 0 /\ status'[r] = 500 => Cause(r)]_vars

(***************************************************************************)
(* closeGracefully: a worker that is asked to stop does stop, unless a     *)
(* client of PostgreSQL was leaked by a table creation that threw, or a    *)
(* request waits in the queue of a pool that is being ended.  A worker is  *)
(* asked once: that none is stopping, again and again, says each stops.    *)
(***************************************************************************)
SignalEndsProcess ==
  []<>(\A w \in Workers : proc[w] \in {"listening", "gone"} \/ Hangs(w))
==============================================================================
