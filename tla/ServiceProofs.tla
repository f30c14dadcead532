---------------------------- MODULE ServiceProofs ----------------------------
(* What Service keeps for every number of workers, requests, statements and *)
(* pooled clients, however signals, crashes and outages come between.       *)
EXTENDS Service, TLAPS

(* A request has reached a worker, and knows a table is left to be created. *)
ProgressInv(r) ==
    /\ IF pc[r] = "idle" THEN at[r] = 0 ELSE at[r] \in Workers
    /\ pc[r] = "tables" => ddl[r] < Statements
    /\ pc[r] \notin {"tables", "working"} => ddl[r] = 0

(* A request that has asked for the shared client was given one, and who    *)
(* creates the tables its own.                                              *)
UsingInv(r) ==
    /\ pc[r] \in {"first", "tables", "ending"} => using[r] = r
    /\ pc[r] = "working" => using[r] # Nothing
    /\ pc[r] \in {"connecting", "queued"} /\ backend = "postgresql" => using[r] # Nothing

RequestInv(r) == ProgressInv(r) /\ UsingInv(r)

(* A client of MongoDB was opened by a request of the same worker, and is   *)
(* closed only when that worker is asked to stop.                           *)
OwnClient(h, w) == at[h] = w /\ handle[h] \in {"open", "ended"}

MongoInv ==
    backend = "mongodb" =>
        /\ \A r \in Requests : /\ pc[r] \notin {"first", "queued", "tables", "ending"}
                               /\ pc[r] = "working" => OwnClient(using[r], at[r])
        /\ \A w \in Workers : singleton[w] # Nothing => OwnClient(singleton[w], w)
        /\ \A h \in Handles : /\ handle[h] # "ending"
                              /\ handle[h] # "none" => at[h] \in Workers
                              /\ handle[h] = "ended" => proc[at[h]] # "listening"

IInv ==
    /\ TypeOK
    /\ \A r \in Requests : RequestInv(r)
    /\ MongoInv
    /\ OnlyAKillCutsRequests

-----------------------------------------------------------------------------
(* Types.                                                                   *)
LEMMA InitTyped == Init => TypeOK
<1> SUFFICES ASSUME Init PROVE TypeOK
  OBVIOUS
<1>1. backend \in Backends /\ database \in BOOLEAN /\ server \in BOOLEAN
  BY DEF Init
<1>2. tables \in 0 .. Statements /\ outages \in 0 .. MaxOutages
  BY ServiceAssumption DEF Init
<1>3. /\ proc \in [Workers -> Accepting \cup {"draining", "gone"}]
      /\ killed \subseteq Workers /\ leaked \subseteq Requests
      /\ singleton \in [Workers -> Requests \cup {Nothing}]
      /\ handle \in [Handles -> {"none", "open", "ending", "ended"}]
  BY DEF Init, Listening, Accepting
<1>4. /\ at \in [Requests -> Workers \cup {0}]
      /\ using \in [Requests -> Requests \cup {Nothing}]
      /\ pc \in [Requests -> Underway \cup {"idle", "answered", "cut"}]
      /\ ddl \in [Requests -> 0 .. Statements]
      /\ status \in [Requests -> {0, 200, 500, 503}]
  BY ServiceAssumption DEF Init
<1> QED
  BY <1>1, <1>2, <1>3, <1>4 DEF TypeOK

(* What an answer, and a step on the way to it, leave of a request.         *)
LEMMA AnswerTyped ==
    ASSUME TypeOK, NEW r \in Requests, NEW code \in {200, 500, 503}, Answers(r, code)
    PROVE  /\ pc' \in [Requests -> Underway \cup {"idle", "answered", "cut"}]
           /\ using' \in [Requests -> Requests \cup {Nothing}]
           /\ ddl' \in [Requests -> 0 .. Statements]
           /\ status' \in [Requests -> {0, 200, 500, 503}]
BY ServiceAssumption DEF Answers, Goes, TypeOK

LEMMA RequestStepTyped ==
    ASSUME TypeOK, NEW r \in Requests, ProgressInv(r), RequestStep(r)
    PROVE  TypeOK'
<1> USE DEF TypeOK, store, workers, handles, Goes, Handles
<1>1. CASE MongoFinds(r)
  BY <1>1 DEF MongoFinds, ProgressInv, Underway
<1>2. CASE MongoConnects(r)
  BY <1>2 DEF MongoConnects, Underway
<1>3. CASE MongoConnectFails(r)
  BY <1>3, AnswerTyped DEF MongoConnectFails, AfterFailedConnect, ProgressInv
<1>4. CASE MongoWorks(r)
  BY <1>4, AnswerTyped DEF MongoWorks
<1>5. CASE PostgresMakesPool(r)
  BY <1>5 DEF PostgresMakesPool, Underway
<1>6. CASE PostgresAsksPool(r)
  <2>1. CASE Answers(r, 500)
    BY <1>6, <2>1, AnswerTyped DEF PostgresAsksPool
  <2>2. CASE ~Answers(r, 500)
    BY <1>6, <2>2 DEF PostgresAsksPool, ProgressInv, Underway
  <2> QED
    BY <2>1, <2>2
<1>7. CASE PostgresServesQueue(r)
  BY <1>7 DEF PostgresServesQueue, Underway
<1>8. CASE PostgresConnects(r)
  BY <1>8 DEF PostgresConnects, Underway
<1>9. CASE PostgresConnectFails(r)
  <2>1. CASE Answers(r, 500)
    BY <1>9, <2>1, AnswerTyped DEF PostgresConnectFails
  <2>2. CASE ~Answers(r, 500)
    BY <1>9, <2>2 DEF PostgresConnectFails, Underway
  <2> QED
    BY <2>1, <2>2
<1>10. CASE CreateDatabase(r)
  BY <1>10, AnswerTyped DEF CreateDatabase
<1>11. CASE CreateTables(r)
  BY <1>11, ServiceAssumption DEF CreateTables, TablesAfter, ProgressInv, Underway
<1>12. CASE CreateTablesFails(r)
  BY <1>12, AnswerTyped DEF CreateTablesFails
<1>13. CASE PostgresWorks(r)
  BY <1>13, AnswerTyped DEF PostgresWorks
<1> QED
  BY <1>1, <1>2, <1>3, <1>4, <1>5, <1>6, <1>7, <1>8, <1>9, <1>10, <1>11, <1>12, <1>13
     DEF RequestStep

(* What ends with a process.                                                *)
LEMMA CutTyped ==
    ASSUME TypeOK, NEW w \in Workers, Cut(w)
    PROVE  /\ pc' \in [Requests -> Underway \cup {"idle", "answered", "cut"}]
           /\ using' \in [Requests -> Requests \cup {Nothing}]
           /\ ddl' \in [Requests -> 0 .. Statements]
           /\ handle' \in [Handles -> {"none", "open", "ending", "ended"}]
           /\ leaked' \subseteq Requests
           /\ singleton' \in [Workers -> Requests \cup {Nothing}]
BY ServiceAssumption DEF Cut, TypeOK, Handles

LEMMA WorkerStepTyped ==
    ASSUME TypeOK, NEW w \in Workers,
           WorkerStep(w) \/ closeGracefully(w) \/ Kill(w)
    PROVE  TypeOK'
<1> USE DEF TypeOK, store, workers, handles, requests, Becomes, Handles, Accepting
<1>1. CASE closeSharedConnection(w)
  BY <1>1 DEF closeSharedConnection, Exists
<1>2. CASE PoolEnded(w)
  BY <1>2 DEF PoolEnded
<1>3. CASE ServiceCloses(w)
  BY <1>3, CutTyped DEF ServiceCloses
<1>4. CASE closeGracefully(w)
  BY <1>4 DEF closeGracefully
<1>5. CASE Kill(w)
  BY <1>5, CutTyped DEF Kill
<1> QED
  BY <1>1, <1>2, <1>3, <1>4, <1>5 DEF WorkerStep

LEMMA NextTyped ==
    ASSUME TypeOK, \A r \in Requests : ProgressInv(r), [Next]_vars
    PROVE  TypeOK'
<1> USE DEF store, workers, handles, requests
<1>1. ASSUME NEW r \in Requests, RequestStep(r) PROVE TypeOK'
  BY <1>1, RequestStepTyped
<1>2. ASSUME NEW h \in Handles, PoolEnds(h) PROVE TypeOK'
  BY <1>2 DEF PoolEnds, TypeOK
<1>3. ASSUME NEW w \in Workers, WorkerStep(w) \/ closeGracefully(w) \/ Kill(w) PROVE TypeOK'
  BY <1>3, WorkerStepTyped
<1>4. ASSUME NEW r \in Requests, NEW w \in Workers, Accept(r, w) PROVE TypeOK'
  BY <1>4 DEF Accept, Goes, TypeOK, Underway
<1>5. ASSUME NEW r \in Requests, NEW w \in Workers, Refuse(r, w) PROVE TypeOK'
  BY <1>5, AnswerTyped DEF Refuse, TypeOK
<1>6. CASE Outage \/ Recovery \/ OperatorCreatesDatabase
  <2>1. server' \in BOOLEAN /\ database' \in BOOLEAN
    BY <1>6 DEF Outage, Recovery, OperatorCreatesDatabase, TypeOK
  <2>2. outages' \in 0 .. MaxOutages
    BY <1>6, ServiceAssumption DEF Outage, Recovery, OperatorCreatesDatabase, TypeOK
  <2>3. UNCHANGED <<backend, tables, workers, handles, requests>>
    BY <1>6 DEF Outage, Recovery, OperatorCreatesDatabase
  <2> QED
    BY <2>1, <2>2, <2>3 DEF TypeOK
<1>7. CASE UNCHANGED vars
  BY <1>7 DEF vars, TypeOK
<1> QED
  BY <1>1, <1>2, <1>3, <1>4, <1>5, <1>6, <1>7 DEF Next, SystemStep, Quiescent
-----------------------------------------------------------------------------
(* What a step of another request, or of a worker it is not on, leaves.     *)
Bystander(s) ==
    /\ backend' = backend /\ at'[s] = at[s] /\ using'[s] = using[s]
    /\ pc'[s] = pc[s] /\ ddl'[s] = ddl[s]

LEMMA BystanderKeeps ==
    ASSUME NEW s \in Requests, RequestInv(s), Bystander(s)
    PROVE  RequestInv(s)'
BY DEF RequestInv, ProgressInv, UsingInv, Bystander, Workers

(* Who was answered or cut off uses nothing any more.                       *)
LEMMA EndedKeeps ==
    ASSUME NEW s \in Requests, pc'[s] \in {"answered", "cut"}, at'[s] \in Workers, ddl'[s] = 0
    PROVE  RequestInv(s)'
BY DEF RequestInv, ProgressInv, UsingInv, Underway, Workers

LEMMA AnswersEnd ==
    ASSUME TypeOK, NEW r \in Requests, NEW code, Answers(r, code), backend' = backend,
           RequestInv(r), pc[r] # "idle", at' = at, NEW s \in Requests, RequestInv(s)
    PROVE  RequestInv(s)'
<1>1. CASE s = r
  <2>1. pc'[s] = "answered" /\ at'[s] \in Workers /\ ddl'[s] = 0
    BY <1>1 DEF Answers, Goes, TypeOK, RequestInv, ProgressInv
  <2> QED
    BY <2>1, EndedKeeps
<1>2. CASE s # r
  <2>1. Bystander(s)
    BY <1>2 DEF Bystander, Answers, Goes, TypeOK
  <2> QED
    BY <2>1, BystanderKeeps
<1> QED
  BY <1>1, <1>2

LEMMA RequestStepKeeps ==
    ASSUME TypeOK, NEW r \in Requests, RequestStep(r), RequestInv(r),
           NEW s \in Requests, RequestInv(s)
    PROVE  RequestInv(s)'
<1> USE DEF store, workers, handles, Goes
<1>0. r # Nothing
  BY DEF Requests, Nothing
<1>1. CASE MongoFinds(r)
  BY <1>1 DEF MongoFinds, TypeOK, RequestInv, ProgressInv, UsingInv, Underway, Workers
<1>2. CASE MongoConnects(r)
  BY <1>0, <1>2 DEF MongoConnects, TypeOK, RequestInv, ProgressInv, UsingInv, Underway, Workers
<1>3. CASE MongoConnectFails(r)
  BY <1>3, AnswersEnd DEF MongoConnectFails
<1>4. CASE MongoWorks(r)
  BY <1>4, AnswersEnd DEF MongoWorks
<1>5. CASE PostgresMakesPool(r)
  BY <1>0, <1>5 DEF PostgresMakesPool, TypeOK, RequestInv, ProgressInv, UsingInv, Underway, Workers
<1>6. CASE PostgresAsksPool(r)
  <2>1. CASE Answers(r, 500)
    BY <1>6, <2>1, AnswersEnd DEF PostgresAsksPool
  <2>2. CASE ~Answers(r, 500)
    BY <1>6, <2>2
       DEF PostgresAsksPool, TypeOK, RequestInv, ProgressInv, UsingInv, Underway, Workers
  <2> QED
    BY <2>1, <2>2
<1>7. CASE PostgresServesQueue(r)
  BY <1>7 DEF PostgresServesQueue, TypeOK, RequestInv, ProgressInv, UsingInv, Underway, Workers
<1>8. CASE PostgresConnects(r)
  BY <1>0, <1>8, ServiceAssumption
     DEF PostgresConnects, TypeOK, RequestInv, ProgressInv, UsingInv, Underway, Workers
<1>9. CASE PostgresConnectFails(r)
  <2>1. CASE Answers(r, 500)
    BY <1>9, <2>1, AnswersEnd DEF PostgresConnectFails
  <2>2. CASE ~Answers(r, 500)
    BY <1>9, <2>2
       DEF PostgresConnectFails, TypeOK, RequestInv, ProgressInv, UsingInv, Underway, Workers
  <2> QED
    BY <2>1, <2>2
<1>10. CASE CreateDatabase(r)
  BY <1>10, AnswersEnd DEF CreateDatabase
<1>11. CASE CreateTables(r)
  BY <1>0, <1>11, ServiceAssumption
     DEF CreateTables, TypeOK, RequestInv, ProgressInv, UsingInv, Underway, Workers
<1>12. CASE CreateTablesFails(r)
  BY <1>12, AnswersEnd DEF CreateTablesFails
<1>13. CASE PostgresWorks(r)
  BY <1>13, AnswersEnd DEF PostgresWorks
<1> QED
  BY <1>1, <1>2, <1>3, <1>4, <1>5, <1>6, <1>7, <1>8, <1>9, <1>10, <1>11, <1>12, <1>13
     DEF RequestStep

LEMMA CutKeeps ==
    ASSUME TypeOK, NEW w \in Workers, Cut(w), at' = at, backend' = backend,
           NEW s \in Requests, RequestInv(s)
    PROVE  RequestInv(s)'
<1>1. CASE s \in InFlight(w)
  <2>1. pc'[s] = "cut" /\ at'[s] \in Workers /\ ddl'[s] = 0
    BY <1>1 DEF Cut, InFlight
  <2> QED
    BY <2>1, EndedKeeps
<1>2. CASE at[s] = w /\ s \notin InFlight(w)
  <2>1. pc'[s] = pc[s] /\ pc[s] \notin Underway /\ ddl'[s] = 0
    BY <1>2 DEF Cut, InFlight
  <2> QED
    BY <2>1 DEF RequestInv, ProgressInv, UsingInv, Underway, Workers
<1>3. CASE at[s] # w
  <2>1. Bystander(s)
    BY <1>3 DEF Bystander, Cut, InFlight, TypeOK
  <2> QED
    BY <2>1, BystanderKeeps
<1> QED
  BY <1>1, <1>2, <1>3

LEMMA NextKeepsRequest ==
    ASSUME TypeOK, \A r \in Requests : RequestInv(r), [Next]_vars, NEW s \in Requests
    PROVE  RequestInv(s)'
<1> USE DEF store, workers, handles, requests
<1>1. ASSUME NEW r \in Requests, RequestStep(r) PROVE RequestInv(s)'
  BY <1>1, RequestStepKeeps
<1>2. ASSUME NEW r \in Requests, NEW w \in Workers, Accept(r, w) PROVE RequestInv(s)'
  BY <1>2 DEF Accept, Arrives, Goes, TypeOK, RequestInv, ProgressInv, UsingInv, Underway, Workers
<1>3. ASSUME NEW r \in Requests, NEW w \in Workers, Refuse(r, w) PROVE RequestInv(s)'
  <2>1. CASE s = r
    <3>1. pc'[s] = "answered" /\ at'[s] \in Workers /\ ddl'[s] = 0
      BY <1>3, <2>1 DEF Refuse, Answers, Goes, TypeOK
    <3> QED
      BY <3>1, EndedKeeps
  <2>2. CASE s # r
    <3>1. Bystander(s)
      BY <1>3, <2>2 DEF Bystander, Refuse, Answers, Goes, TypeOK
    <3> QED
      BY <3>1, BystanderKeeps
  <2> QED
    BY <2>1, <2>2
<1>4. ASSUME NEW w \in Workers, ServiceCloses(w) \/ Kill(w) PROVE RequestInv(s)'
  BY <1>4, CutKeeps DEF ServiceCloses, Kill
<1>5. ASSUME UNCHANGED <<backend, requests>> PROVE RequestInv(s)'
  BY <1>5, BystanderKeeps DEF Bystander
<1>6. ASSUME NEW h \in Handles, PoolEnds(h) PROVE RequestInv(s)'
  BY <1>5, <1>6 DEF PoolEnds
<1>7. ASSUME NEW w \in Workers, closeSharedConnection(w) \/ PoolEnded(w) \/ closeGracefully(w)
      PROVE  RequestInv(s)'
  BY <1>5, <1>7 DEF closeSharedConnection, PoolEnded, closeGracefully
<1>8. CASE Outage \/ Recovery \/ OperatorCreatesDatabase
  BY <1>5, <1>8 DEF Outage, Recovery, OperatorCreatesDatabase
<1>9. CASE UNCHANGED vars
  BY <1>5, <1>9 DEF vars
<1> QED
  BY <1>1, <1>2, <1>3, <1>4, <1>6, <1>7, <1>8, <1>9 DEF Next, SystemStep, WorkerStep, Quiescent
-----------------------------------------------------------------------------
(* MongoDB: a client belongs to the worker whose request opened it.         *)
LEMMA MongoStepKeeps ==
    ASSUME TypeOK, MongoInv, backend = "mongodb", NEW r \in Requests, RequestStep(r),
           RequestInv(r)
    PROVE  MongoInv'
<1> USE DEF store, workers, handles, Handles
<1>0. backend' = backend /\ at' = at /\ proc' = proc
  BY DEF RequestStep, MongoFinds, MongoConnects, MongoConnectFails, MongoWorks,
         PostgresMakesPool, PostgresAsksPool, PostgresServesQueue, PostgresConnects,
         PostgresConnectFails, CreateDatabase, CreateTables, CreateTablesFails, PostgresWorks
<1>1. CASE MongoFinds(r)
  <2>1. handle' = handle /\ singleton' = singleton
    BY <1>1 DEF MongoFinds
  <2>2. ASSUME NEW s \in Requests, pc'[s] = "working" PROVE OwnClient(using[s], at[s])'
    <3>1. CASE s = r
      <4>1. at[r] \in Workers
        BY <1>1 DEF MongoFinds, RequestInv, ProgressInv
      <4>2. singleton[at[r]] # Nothing /\ using'[r] = singleton[at[r]]
        BY <1>1, <2>2, <3>1 DEF MongoFinds, Goes, TypeOK
      <4> QED
        BY <1>0, <2>1, <3>1, <4>1, <4>2 DEF MongoInv, OwnClient
    <3>2. CASE s # r
      <4>1. using'[s] = using[s] /\ pc[s] = "working"
        BY <1>1, <2>2, <3>2 DEF MongoFinds, Goes, TypeOK
      <4> QED
        BY <1>0, <2>1, <4>1 DEF MongoInv, OwnClient
    <3> QED
      BY <3>1, <3>2
  <2>3. \A w \in Workers' : singleton'[w] # Nothing => OwnClient(singleton[w], w)'
    BY <1>0, <2>1 DEF MongoInv, OwnClient, Workers
  <2>4. \A s \in Requests : pc'[s] \notin {"first", "queued", "tables", "ending"}
    BY <1>1 DEF MongoFinds, Goes, TypeOK, MongoInv
  <2> QED
    BY <1>0, <2>1, <2>2, <2>3, <2>4 DEF MongoInv
<1>2. CASE MongoConnects(r)
  <2>1. at[r] \in Workers
    BY <1>2 DEF MongoConnects, RequestInv, ProgressInv
  <2>2. OwnClient(r, at[r])'
    BY <1>0, <1>2 DEF MongoConnects, OwnClient, TypeOK
  <2>3. \A h \in Handles : \A w : OwnClient(h, w) => OwnClient(h, w)'
    BY <1>0, <1>2 DEF MongoConnects, OwnClient, TypeOK
  <2>4. ASSUME NEW s \in Requests, pc'[s] = "working" PROVE OwnClient(using[s], at[s])'
    <3>1. CASE s = r
      <4>1. using'[s] = r
        BY <1>2, <3>1 DEF MongoConnects, TypeOK
      <4> QED
        BY <1>0, <2>2, <3>1, <4>1 DEF OwnClient
    <3>2. CASE s # r
      <4>1. using'[s] = using[s] /\ pc[s] = "working"
        BY <1>2, <2>4, <3>2 DEF MongoConnects, Goes, TypeOK
      <4> QED
        BY <1>0, <1>2, <4>1 DEF MongoConnects, MongoInv, OwnClient, TypeOK
    <3> QED
      BY <3>1, <3>2
  <2>5. ASSUME NEW w \in Workers, singleton'[w] # Nothing PROVE OwnClient(singleton[w], w)'
    BY <1>0, <1>2, <2>1, <2>5 DEF MongoConnects, MongoInv, OwnClient, TypeOK
  <2>6. ASSUME NEW h \in Handles
        PROVE  /\ handle'[h] # "ending"
               /\ handle'[h] # "none" => at'[h] \in Workers
               /\ handle'[h] = "ended" => proc'[at'[h]] # "listening"
    BY <1>0, <1>2, <2>1 DEF MongoConnects, MongoInv, TypeOK
  <2>7. \A s \in Requests : pc'[s] \notin {"first", "queued", "tables", "ending"}
    BY <1>2 DEF MongoConnects, Goes, TypeOK, MongoInv
  <2> QED
    BY <2>4, <2>5, <2>6, <2>7 DEF MongoInv, Workers
<1>3. CASE MongoConnectFails(r)
  <2>1. handle' = handle /\ singleton' = singleton
    BY <1>3 DEF MongoConnectFails, AfterFailedConnect, TypeOK
  <2>2. \A s \in Requests : /\ pc'[s] \in {pc[s], "answered"}
                            /\ pc'[s] = "working" => using'[s] = using[s]
    BY <1>3 DEF MongoConnectFails, Answers, Goes, TypeOK
  <2> QED
    BY <1>0, <2>1, <2>2 DEF MongoInv, OwnClient, Workers
<1>4. CASE MongoWorks(r)
  <2>1. handle' = handle /\ singleton' = singleton
    BY <1>4 DEF MongoWorks
  <2>2. \A s \in Requests : /\ pc'[s] \in {pc[s], "answered"}
                            /\ pc'[s] = "working" => using'[s] = using[s]
    BY <1>4 DEF MongoWorks, Answers, Goes, TypeOK
  <2> QED
    BY <1>0, <2>1, <2>2 DEF MongoInv, OwnClient, Workers
<1> QED
  BY <1>1, <1>2, <1>3, <1>4
     DEF RequestStep, MongoInv, PostgresMakesPool, PostgresAsksPool, PostgresServesQueue,
         PostgresConnects, PostgresConnectFails, CreateDatabase, CreateTables,
         CreateTablesFails, PostgresWorks

(* The rest of MongoInv, under the steps of workers and of everyone else.   *)
LEMMA ClosingKeeps ==
    ASSUME TypeOK, MongoInv, backend = "mongodb", NEW w \in Workers, closeSharedConnection(w)
    PROVE  MongoInv'
<1> USE DEF store, workers, requests, Handles, Becomes
<1>0. backend' = backend /\ UNCHANGED requests
  BY DEF closeSharedConnection
<1>1. \A v \in Workers : proc[v] # "listening" => proc'[v] # "listening"
  BY DEF closeSharedConnection, TypeOK
<1>2. CASE UNCHANGED handle
  <2>1. \A v \in Workers : singleton'[v] \in {singleton[v], Nothing}
    BY <1>2 DEF closeSharedConnection, TypeOK
  <2>2. \A h \in Handles : handle[h] = "ended" => proc'[at[h]] # "listening"
    BY <1>1 DEF MongoInv, TypeOK, closeSharedConnection
  <2> QED
    BY <1>0, <1>2, <2>1, <2>2 DEF MongoInv, OwnClient, Workers
<1>3. CASE ~UNCHANGED handle
  <2>1. /\ singleton[w] # Nothing /\ proc[w] = "closingStore" /\ UNCHANGED <<proc, singleton>>
        /\ handle' = [handle EXCEPT ![singleton[w]] = "ended"]
    BY <1>3 DEF closeSharedConnection, Exists
  <2>2. at[singleton[w]] = w
    BY <2>1 DEF MongoInv, OwnClient
  <2>3. \A h, v : OwnClient(h, v) /\ h \in Handles => OwnClient(h, v)'
    BY <1>0, <2>1 DEF OwnClient, TypeOK
  <2>4. \A h \in Handles : /\ handle'[h] # "ending"
                           /\ handle'[h] # "none" => at[h] \in Workers
                           /\ handle'[h] = "ended" => proc[at[h]] # "listening"
    BY <2>1, <2>2 DEF MongoInv, TypeOK
  <2>5. \A v \in Workers : singleton'[v] # Nothing => OwnClient(singleton[v], v)'
    BY <1>0, <2>1, <2>3 DEF MongoInv, TypeOK, OwnClient
  <2>6. \A s \in Requests : pc[s] = "working" => OwnClient(using[s], at[s])'
    BY <1>0, <2>1, <2>3 DEF MongoInv, TypeOK, OwnClient
  <2> QED
    BY <1>0, <2>1, <2>4, <2>5, <2>6 DEF MongoInv, Workers
<1> QED
  BY <1>2, <1>3

LEMMA EndingKeeps ==
    ASSUME TypeOK, MongoInv, backend = "mongodb", NEW w \in Workers, Cut(w), Becomes(w, "gone"),
           UNCHANGED <<store, at>>, \A r \in Requests : RequestInv(r)
    PROVE  MongoInv'
<1> USE DEF store, Handles, Becomes
<1>1. \A h, v : at[h] # w /\ h \in Handles /\ OwnClient(h, v) => OwnClient(h, v)'
  BY DEF Cut, OwnClient
<1>2. ASSUME NEW s \in Requests, pc'[s] = "working" PROVE OwnClient(using[s], at[s])'
  <2>1. pc[s] = "working" /\ s \notin InFlight(w)
    BY <1>2 DEF Cut
  <2>2. at[s] # w
    BY <2>1 DEF InFlight, Underway
  <2>3. using'[s] = using[s] /\ OwnClient(using[s], at[s])
    BY <2>1, <2>2 DEF Cut, MongoInv
  <2>4. using[s] \in Handles
    BY <2>1 DEF TypeOK, RequestInv, UsingInv
  <2> QED
    BY <1>1, <2>2, <2>3, <2>4 DEF OwnClient
<1>3. ASSUME NEW v \in Workers, singleton'[v] # Nothing PROVE OwnClient(singleton[v], v)'
  <2>1. v # w /\ singleton'[v] = singleton[v] /\ singleton[v] \in Handles
    BY <1>3 DEF Cut, TypeOK
  <2> QED
    BY <1>1, <1>3, <2>1 DEF MongoInv, OwnClient
<1>4. \A h \in Handles : /\ handle'[h] # "ending"
                         /\ handle'[h] # "none" => at[h] \in Workers
                         /\ handle'[h] = "ended" => proc'[at[h]] # "listening"
  BY DEF Cut, MongoInv, TypeOK
<1>5. \A s \in Requests : pc'[s] \notin {"first", "queued", "tables", "ending"}
  BY DEF Cut, MongoInv
<1> QED
  BY <1>2, <1>3, <1>4, <1>5 DEF MongoInv, Workers

LEMMA NextKeepsMongo ==
    ASSUME TypeOK, MongoInv, \A r \in Requests : RequestInv(r), [Next]_vars
    PROVE  MongoInv'
<1> USE DEF store, workers, handles, requests
<1>1. CASE backend # "mongodb"
  <2>1. backend' = backend
    BY DEF Next, SystemStep, RequestStep, WorkerStep, Quiescent, vars, MongoFinds, MongoConnects,
           MongoConnectFails, MongoWorks, PostgresMakesPool, PostgresAsksPool,
           PostgresServesQueue, PostgresConnects, PostgresConnectFails, CreateDatabase,
           CreateTables, CreateTablesFails, PostgresWorks, PoolEnds, closeSharedConnection,
           PoolEnded, ServiceCloses, Accept, Refuse, closeGracefully, Kill, Outage, Recovery,
           OperatorCreatesDatabase
  <2> QED
    BY <1>1, <2>1 DEF MongoInv
<1> SUFFICES ASSUME backend = "mongodb" PROVE MongoInv'
  BY <1>1
<1>2. ASSUME NEW r \in Requests, RequestStep(r) PROVE MongoInv'
  BY <1>2, MongoStepKeeps
<1>3. ASSUME NEW w \in Workers, closeSharedConnection(w) PROVE MongoInv'
  BY <1>3, ClosingKeeps
<1>4. ASSUME NEW w \in Workers, ServiceCloses(w) \/ Kill(w) PROVE MongoInv'
  BY <1>4, EndingKeeps DEF ServiceCloses, Kill
<1>5. ASSUME NEW h \in Handles, PoolEnds(h) PROVE MongoInv'
  BY <1>5 DEF PoolEnds, MongoInv
<1>6. ASSUME NEW w \in Workers, PoolEnded(w) \/ closeGracefully(w) PROVE MongoInv'
  <2>1. /\ UNCHANGED <<backend, singleton, handle, requests>>
        /\ \A v \in Workers : proc[v] # "listening" => proc'[v] # "listening"
    BY <1>6 DEF PoolEnded, closeGracefully, Becomes, TypeOK
  <2> QED
    BY <2>1 DEF MongoInv, OwnClient, Workers
<1>7. ASSUME NEW r \in Requests, NEW w \in Workers, Accept(r, w) \/ Refuse(r, w) PROVE MongoInv'
  <2>1. UNCHANGED <<backend, singleton, handle, proc>>
    BY <1>7 DEF Accept, Refuse
  <2>2. pc[r] = "idle" /\ at[r] = 0 /\ at' = [at EXCEPT ![r] = w]
    BY <1>7 DEF Accept, Refuse, Arrives, RequestInv, ProgressInv
  <2>3. \A s \in Requests : /\ pc'[s] \in {pc[s], "asking", "answered"}
                            /\ pc'[s] = "working" => s # r /\ using'[s] = using[s]
    BY <1>7 DEF Accept, Refuse, Arrives, Answers, Goes, TypeOK
  <2>4. handle[r] = "none"
    BY <2>2 DEF MongoInv, TypeOK, Workers, Handles
  <2>5. \A h \in Handles : \A v : OwnClient(h, v) => OwnClient(h, v)'
    BY <2>1, <2>2, <2>4 DEF OwnClient, TypeOK, Handles
  <2>6. ASSUME NEW s \in Requests, pc'[s] = "working" PROVE OwnClient(using[s], at[s])'
    <3>1. s # r /\ pc[s] = "working" /\ using'[s] = using[s] /\ at'[s] = at[s]
      BY <2>2, <2>3, <2>6 DEF TypeOK
    <3>2. using[s] \in Handles /\ OwnClient(using[s], at[s])
      BY <3>1 DEF MongoInv, RequestInv, UsingInv, TypeOK, Handles
    <3> QED
      BY <2>5, <3>1, <3>2 DEF OwnClient
  <2>7. ASSUME NEW v \in Workers, singleton'[v] # Nothing PROVE OwnClient(singleton[v], v)'
    <3>1. singleton[v] \in Handles /\ OwnClient(singleton[v], v)
      BY <2>1, <2>7 DEF MongoInv, TypeOK, Handles
    <3> QED
      BY <2>1, <2>5, <3>1 DEF OwnClient
  <2>8. \A h \in Handles : /\ handle'[h] # "ending"
                           /\ handle'[h] # "none" => at'[h] \in Workers
                           /\ handle'[h] = "ended" => proc'[at'[h]] # "listening"
    BY <2>1, <2>2, <2>4 DEF MongoInv, TypeOK, Handles
  <2>9. \A s \in Requests : pc'[s] \notin {"first", "queued", "tables", "ending"}
    BY <2>3 DEF MongoInv
  <2> QED
    BY <2>1, <2>6, <2>7, <2>8, <2>9 DEF MongoInv, Workers
<1>8. CASE Outage \/ Recovery \/ OperatorCreatesDatabase \/ UNCHANGED vars
  BY <1>8 DEF Outage, Recovery, OperatorCreatesDatabase, vars, MongoInv, OwnClient, Workers
<1> QED
  BY <1>2, <1>3, <1>4, <1>5, <1>6, <1>7, <1>8
     DEF Next, SystemStep, WorkerStep, Quiescent
-----------------------------------------------------------------------------
(* Only a kill cuts requests: service.close() has waited for the others.    *)
LEMMA NextKeepsCut ==
    ASSUME TypeOK, OnlyAKillCutsRequests, \A r \in Requests : RequestInv(r), [Next]_vars
    PROVE  OnlyAKillCutsRequests'
<1> USE DEF store, workers, handles, requests
<1> SUFFICES ASSUME NEW s \in Requests, pc'[s] = "cut" PROVE at'[s] \in killed'
  BY DEF OnlyAKillCutsRequests
<1>1. ASSUME pc[s] = "cut", at'[s] = at[s], killed \subseteq killed' PROVE at'[s] \in killed'
  BY <1>1 DEF OnlyAKillCutsRequests
<1>2. ASSUME NEW r \in Requests, RequestStep(r) PROVE at'[s] \in killed'
  <2>1. at' = at /\ killed' = killed
    BY <1>2 DEF RequestStep, MongoFinds, MongoConnects, MongoConnectFails, MongoWorks,
         PostgresMakesPool, PostgresAsksPool, PostgresServesQueue, PostgresConnects,
         PostgresConnectFails, CreateDatabase, CreateTables, CreateTablesFails, PostgresWorks
  <2>2. pc[s] = "cut"
    BY <1>2 DEF TypeOK, Answers, Goes, RequestStep, MongoFinds, MongoConnects, MongoConnectFails,
         MongoWorks, PostgresMakesPool, PostgresAsksPool, PostgresServesQueue, PostgresConnects,
         PostgresConnectFails, CreateDatabase, CreateTables, CreateTablesFails, PostgresWorks
  <2> QED
    BY <1>1, <2>1, <2>2
<1>3. ASSUME NEW w \in Workers, ServiceCloses(w) PROVE at'[s] \in killed'
  <2>1. pc[s] = "cut" /\ at' = at /\ killed' = killed
    BY <1>3 DEF ServiceCloses, Drained, Cut
  <2> QED
    BY <1>1, <2>1
<1>4. ASSUME NEW w \in Workers, Kill(w) PROVE at'[s] \in killed'
  <2>1. at' = at /\ killed' = killed \cup {w}
    BY <1>4 DEF Kill
  <2>2. s \in InFlight(w) \/ pc[s] = "cut"
    BY <1>4 DEF Kill, Cut
  <2> QED
    BY <1>1, <2>1, <2>2 DEF InFlight
<1>5. ASSUME NEW r \in Requests, NEW w \in Workers, Accept(r, w) \/ Refuse(r, w)
      PROVE  at'[s] \in killed'
  <2>1. s # r /\ pc[s] = "cut" /\ at'[s] = at[s] /\ killed' = killed
    BY <1>5 DEF Accept, Refuse, Answers, Goes, TypeOK
  <2> QED
    BY <1>1, <2>1
<1>6. ASSUME NEW w \in Workers, closeSharedConnection(w) \/ PoolEnded(w) \/ closeGracefully(w)
      PROVE  at'[s] \in killed'
  BY <1>1, <1>6 DEF closeSharedConnection, PoolEnded, closeGracefully
<1>7. ASSUME NEW h \in Handles, PoolEnds(h) PROVE at'[s] \in killed'
  BY <1>1, <1>7 DEF PoolEnds
<1>8. CASE Outage \/ Recovery \/ OperatorCreatesDatabase \/ UNCHANGED vars
  BY <1>1, <1>8 DEF Outage, Recovery, OperatorCreatesDatabase, vars
<1> QED
  BY <1>2, <1>3, <1>4, <1>5, <1>6, <1>7, <1>8 DEF Next, SystemStep, WorkerStep, Quiescent

-----------------------------------------------------------------------------
(* Every failure has its cause in the state it happens in.                  *)
LEMMA FailureHasCause ==
    ASSUME IInv, [Next]_vars, NEW s \in Requests, status[s] = 0, status'[s] = 500
    PROVE  Cause(s)
<1> USE DEF store, workers, handles, requests
<1>0. TypeOK /\ MongoInv /\ RequestInv(s)
  BY DEF IInv
<1>1. ASSUME NEW r \in Requests, RequestStep(r) PROVE Cause(s)
  <2>1. r = s
    BY <1>0, <1>1 DEF TypeOK, Answers, RequestStep, MongoFinds, MongoConnects, MongoConnectFails,
         MongoWorks, PostgresMakesPool, PostgresAsksPool, PostgresServesQueue, PostgresConnects,
         PostgresConnectFails, CreateDatabase, CreateTables, CreateTablesFails, PostgresWorks
  <2>2. status' # status
    BY <1>0 DEF TypeOK
  <2>3. CASE MongoConnectFails(s)
    BY <2>3 DEF MongoConnectFails, Cause
  <2>4. CASE MongoWorks(s)
    <3>1. OwnClient(using[s], at[s]) /\ using[s] \in Handles
      BY <1>0, <2>4 DEF MongoWorks, MongoInv, TypeOK, RequestInv, UsingInv, Handles
    <3>2. ~server \/ handle[using[s]] # "open"
      BY <1>0, <2>4 DEF MongoWorks, Answers, TypeOK
    <3>3. handle[using[s]] = "ended" => proc[at[s]] # "listening"
      BY <2>4, <3>1, <1>0 DEF MongoWorks, MongoInv, OwnClient
    <3> QED
      BY <3>1, <3>2, <3>3 DEF OwnClient, Cause
  <2>5. CASE PostgresAsksPool(s)
    BY <2>2, <2>5 DEF PostgresAsksPool, Cause
  <2>6. CASE PostgresConnectFails(s)
    BY <2>2, <2>6 DEF PostgresConnectFails, Cause
  <2>7. CASE CreateDatabase(s)
    <3>1. backend = "postgresql" /\ using[s] = s /\ s # Nothing
      BY <1>0, <2>7, ServiceAssumption
         DEF CreateDatabase, MongoInv, RequestInv, UsingInv, Requests, Nothing, TypeOK
    <3> QED
      BY <2>7, <3>1 DEF CreateDatabase, Cause
  <2>8. CASE CreateTablesFails(s)
    BY <1>0, <2>8, ServiceAssumption
       DEF CreateTablesFails, Cause, MongoInv, RequestInv, ProgressInv, TypeOK
  <2>9. CASE PostgresWorks(s)
    <3>1. ~(server /\ tables = Statements /\ handle[using[s]] = "open")
      BY <1>0, <2>9 DEF PostgresWorks, Answers, TypeOK
    <3>2. tables # Statements => tables < Statements
      BY <1>0, ServiceAssumption DEF TypeOK
    <3>3. using[s] # Nothing
      BY <1>0, <2>9 DEF PostgresWorks, RequestInv, UsingInv
    <3> QED
      BY <2>9, <3>1, <3>2, <3>3 DEF PostgresWorks, Cause
  <2>10. CASE UNCHANGED status
    BY <2>2, <2>10
  <2> QED
    BY <1>1, <2>1, <2>3, <2>4, <2>5, <2>6, <2>7, <2>8, <2>9, <2>10
       DEF RequestStep, MongoFinds, MongoConnects, PostgresMakesPool, PostgresServesQueue,
           PostgresConnects, CreateTables
<1>2. ASSUME NEW r \in Requests, NEW w \in Workers, Refuse(r, w) PROVE Cause(s)
  BY <1>0, <1>2 DEF Refuse, Answers, TypeOK
<1>3. status' # status
  BY <1>0 DEF TypeOK
<1> QED
  BY <1>1, <1>2, <1>3
     DEF Next, SystemStep, WorkerStep, Quiescent, vars, PoolEnds, closeSharedConnection, PoolEnded,
         ServiceCloses, Accept, closeGracefully, Kill, Outage, Recovery, OperatorCreatesDatabase

-----------------------------------------------------------------------------
(* The invariant.                                                           *)
LEMMA Inductive == Spec => []IInv
<1>1. Init => IInv
  <2>1. ASSUME Init PROVE MongoInv /\ OnlyAKillCutsRequests
    BY <2>1 DEF Init, MongoInv, OnlyAKillCutsRequests, Handles
  <2>2. ASSUME Init, NEW r \in Requests PROVE RequestInv(r)
    BY <2>2 DEF Init, RequestInv, ProgressInv, UsingInv
  <2> QED
    BY <2>1, <2>2, InitTyped DEF IInv
<1>2. IInv /\ [Next]_vars => IInv'
  <2> SUFFICES ASSUME IInv, [Next]_vars PROVE IInv'
    OBVIOUS
  <2>1. TypeOK'
    BY NextTyped DEF IInv, RequestInv
  <2>2. \A r \in Requests : RequestInv(r)'
    BY NextKeepsRequest DEF IInv
  <2>3. MongoInv'
    BY NextKeepsMongo DEF IInv
  <2>4. OnlyAKillCutsRequests'
    BY NextKeepsCut DEF IInv
  <2> QED
    BY <2>1, <2>2, <2>3, <2>4 DEF IInv, Requests
<1> QED
  BY <1>1, <1>2, PTL DEF Spec

(* TypeOK: the module variables, the pools and the requests keep their      *)
(* types, for any number of workers, requests and pooled clients.           *)
THEOREM TypeCorrect == Spec => []TypeOK
BY Inductive, PTL DEF IInv

(* OnlyAKillCutsRequests: closeGracefully ends the process only after       *)
(* service.close() has waited for every request the worker has taken.       *)
THEOREM StopsGracefully == Spec => []OnlyAKillCutsRequests
BY Inductive, PTL DEF IInv

(* FailuresHaveCauses: no failed connection of the past makes a request     *)
(* fail; what is wrong is wrong when it fails.                              *)
THEOREM FailuresExplained == Spec => FailuresHaveCauses
<1>1. IInv /\ [Next]_vars =>
          [\A r \in Requests : status[r] = 0 /\ status'[r] = 500 => Cause(r)]_vars
  BY FailureHasCause
<1> QED
  BY <1>1, Inductive, PTL DEF Spec, FailuresHaveCauses
==============================================================================
