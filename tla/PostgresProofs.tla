---------------------------- MODULE PostgresProofs ----------------------------
(* What sessions and calls of PostgresStore keep, for every set of calls,   *)
(* sessions, identities, inputs and seeds: types, the locks of sessions,    *)
(* and, on sessions that serve one call at a time, what a commit does.      *)
EXTENDS PostgresStoreInv, SequenceTheorems, TLAPS

LEMMA AppendAt ==
    ASSUME NEW S, NEW q \in Seq(S), NEW e \in S
    PROVE  /\ Append(q, e) \in Seq(S) /\ Len(Append(q, e)) = Len(q) + 1
           /\ DOMAIN Append(q, e) = 1 .. Len(q) + 1 /\ DOMAIN q = 1 .. Len(q)
           /\ \A n \in 1 .. Len(q) : Append(q, e)[n] = q[n]
           /\ Append(q, e)[Len(q) + 1] = e
OBVIOUS

LEMMA TailAt ==
    ASSUME NEW S, NEW q \in Seq(S), q # <<>>
    PROVE  /\ Tail(q) \in Seq(S) /\ Len(q) \in Nat \ {0} /\ Len(Tail(q)) = Len(q) - 1
           /\ Head(q) = q[1] /\ Head(q) \in S /\ DOMAIN q = 1 .. Len(q)
           /\ DOMAIN Tail(q) = 1 .. Len(q) - 1
           /\ \A n \in 1 .. Len(q) - 1 : Tail(q)[n] = q[n + 1]
OBVIOUS

(* The call at the head of its session's queue sends its next statement, or *)
(* is answered.                                                             *)
LEMMA ThenQueues ==
    ASSUME TypeOK, NEW r \in Request, NEW next \in Statement \cup {"done"},
           pc[r] \in Statement, Sent(r, pc[r]), Then(r, next), session' = session
    PROVE  /\ pc' \in [Request -> Statement \cup {"idle", "done"}]
           /\ queue' \in [Session -> Seq(Request)] /\ \A s \in Session : QueueOK(s)'
<1> DEFINE q == queue[session[r]]
           t == Tail(q)
           a == Append(t, r)
<1>1. pc' \in [Request -> Statement \cup {"idle", "done"}]
  BY DEF TypeOK, Then
<1>2. session[r] \in Session /\ q \in Seq(Request) /\ q # <<>> /\ Head(q) = r /\ QueueOK(session[r])
  BY DEF TypeOK, Sent, Statement
<1>3. /\ t \in Seq(Request) /\ Len(q) \in Nat \ {0} /\ Len(t) = Len(q) - 1
      /\ r = q[1] /\ DOMAIN q = 1 .. Len(q) /\ DOMAIN t = 1 .. Len(q) - 1
      /\ \A n \in 1 .. Len(q) - 1 : t[n] = q[n + 1]
  <2> HIDE DEF q
  <2> QED
    BY <1>2, TailAt
<1>4. /\ a \in Seq(Request) /\ Len(a) = Len(q) /\ DOMAIN a = 1 .. Len(q)
      /\ \A n \in 1 .. Len(q) - 1 : a[n] = q[n + 1]
      /\ a[Len(q)] = r
  <2> HIDE DEF t
  <2> QED
    BY <1>3, AppendAt
<1>5. queue' = [queue EXCEPT ![session[r]] = IF next = "done" THEN t ELSE a]
  BY DEF Then
<1> HIDE DEF q, t, a
<1>6. queue' \in [Session -> Seq(Request)] /\ queue'[session[r]] = IF next = "done" THEN t ELSE a
  BY <1>2, <1>3, <1>4, <1>5 DEF TypeOK
<1>7. \A s \in Session \ {session[r]} : QueueOK(s)'
  <2>1. \A s \in Session \ {session[r]} : queue'[s] = queue[s] /\ Active(s)' = Active(s)
    BY <1>5 DEF TypeOK, Active, Then
  <2> QED
    BY <2>1 DEF TypeOK, QueueOK
<1>8. Active(session[r])' = IF next = "done" THEN Active(session[r]) \ {r} ELSE Active(session[r])
  BY DEF TypeOK, Active, Then, Statement
<1>9. QueueOK(session[r])'
  <2> DEFINE p == queue'[session[r]]
  <2>1. \A c \in Request : c \in Active(session[r]) <=> \E n \in 1 .. Len(q) : q[n] = c
    BY <1>2, <1>3 DEF QueueOK, q
  <2>2. \A m, n \in 1 .. Len(q) : q[m] = q[n] => m = n
    BY <1>2, <1>3 DEF QueueOK, q
  <2>3. Len(q) <= Overlap
    BY <1>2 DEF QueueOK, q
  <2>4. CASE next = "done"
    <3>1. p = t
      BY <2>4, <1>6
    <3>2. \A c \in Request : c \in Active(session[r]) \ {r} <=> \E n \in 1 .. Len(q) - 1 : q[n + 1] = c
      <4> SUFFICES ASSUME NEW c \in Request
                   PROVE  c \in Active(session[r]) \ {r} <=> \E n \in 1 .. Len(q) - 1 : q[n + 1] = c
        OBVIOUS
      <4>1. ASSUME c \in Active(session[r]) \ {r} PROVE \E n \in 1 .. Len(q) - 1 : q[n + 1] = c
        <5>1. PICK n \in 1 .. Len(q) : q[n] = c
          BY <4>1, <2>1
        <5>2. n # 1 /\ n - 1 \in 1 .. Len(q) - 1 /\ q[(n - 1) + 1] = c
          BY <5>1, <4>1, <1>3
        <5> QED
          BY <5>2
      <4>2. ASSUME NEW n \in 1 .. Len(q) - 1, q[n + 1] = c PROVE c \in Active(session[r]) \ {r}
        <5>1. n + 1 \in 1 .. Len(q) /\ 1 \in 1 .. Len(q) /\ n + 1 # 1
          BY <1>3
        <5>2. q[n + 1] # q[1]
          BY <5>1, <2>2
        <5> QED
          BY <4>2, <5>1, <5>2, <2>1, <1>3
      <4> QED
        BY <4>1, <4>2
    <3>3. \A c \in Request : c \in Active(session[r])' <=> \E n \in DOMAIN p : p[n] = c
      <4>1. \A c \in Request : c \in Active(session[r])' <=> \E n \in 1 .. Len(q) - 1 : t[n] = c
        BY <3>2, <1>3, <1>8, <2>4
      <4> QED
        BY <4>1, <3>1, <1>3
    <3>4. \A m, n \in DOMAIN p : p[m] = p[n] => m = n
      <4> SUFFICES ASSUME NEW m \in DOMAIN p, NEW n \in DOMAIN p, p[m] = p[n] PROVE m = n
        OBVIOUS
      <4>1. m \in 1 .. Len(q) - 1 /\ n \in 1 .. Len(q) - 1 /\ q[m + 1] = q[n + 1]
        BY <3>1, <1>3
      <4>2. m + 1 \in 1 .. Len(q) /\ n + 1 \in 1 .. Len(q)
        BY <4>1, <1>3
      <4> QED
        BY <4>1, <4>2, <2>2
    <3>5. Len(p) <= Overlap
      BY <3>1, <1>3, <2>3, OverlapAssumption
    <3> HIDE DEF p
    <3> QED
      BY <3>3, <3>4, <3>5, Zenon DEF QueueOK, p
  <2>5. CASE next # "done"
    <3>1. p = a
      BY <2>5, <1>6
    <3>2. \A c \in Request : c \in Active(session[r]) <=> \E n \in 1 .. Len(q) : a[n] = c
      <4> SUFFICES ASSUME NEW c \in Request
                   PROVE  c \in Active(session[r]) <=> \E n \in 1 .. Len(q) : a[n] = c
        OBVIOUS
      <4>1. ASSUME c \in Active(session[r]) PROVE \E n \in 1 .. Len(q) : a[n] = c
        <5>1. PICK n \in 1 .. Len(q) : q[n] = c
          BY <4>1, <2>1
        <5>2. CASE n = 1
          <6>1. Len(q) \in 1 .. Len(q) /\ a[Len(q)] = c
            BY <5>1, <5>2, <1>3, <1>4
          <6> QED
            BY <6>1
        <5>3. CASE n # 1
          <6>1. n - 1 \in 1 .. Len(q) /\ a[n - 1] = q[(n - 1) + 1] /\ (n - 1) + 1 = n
            BY <5>1, <5>3, <1>3, <1>4
          <6> QED
            BY <6>1, <5>1
        <5> QED
          BY <5>2, <5>3
      <4>2. ASSUME NEW n \in 1 .. Len(q), a[n] = c PROVE c \in Active(session[r])
        <5>1. CASE n = Len(q)
          <6>1. c = q[1] /\ 1 \in 1 .. Len(q)
            BY <5>1, <4>2, <1>3, <1>4
          <6> QED
            BY <6>1, <2>1
        <5>2. CASE n # Len(q)
          <6>1. n + 1 \in 1 .. Len(q) /\ q[n + 1] = c
            BY <5>2, <4>2, <1>3, <1>4
          <6> QED
            BY <6>1, <2>1
        <5> QED
          BY <5>1, <5>2
      <4> QED
        BY <4>1, <4>2
    <3>3. \A c \in Request : c \in Active(session[r])' <=> \E n \in DOMAIN p : p[n] = c
      BY <3>1, <3>2, <1>4, <1>8, <2>5
    <3>4. \A m, n \in DOMAIN p : p[m] = p[n] => m = n
      <4> DEFINE from(n) == IF n = Len(q) THEN 1 ELSE n + 1
      <4>1. \A n \in 1 .. Len(q) : from(n) \in 1 .. Len(q) /\ a[n] = q[from(n)]
        BY <1>3, <1>4
      <4>2. \A m, n \in 1 .. Len(q) : from(m) = from(n) => m = n
        BY <1>3
      <4> HIDE DEF from
      <4> QED
        BY <4>1, <4>2, <3>1, <1>4, <2>2
    <3>5. Len(p) <= Overlap
      BY <3>1, <1>4, <2>3
    <3> HIDE DEF p
    <3> QED
      BY <3>3, <3>4, <3>5, Zenon DEF QueueOK, p
  <2> QED
    BY <2>4, <2>5
<1> QED
  BY <1>1, <1>6, <1>7, <1>9

-----------------------------------------------------------------------------
(* Types, in four parts.                                                    *)
TablesTyped == docs \in Store /\ rows \subseteq Row /\ issued \subseteq Uuid

TxnsTyped ==
    /\ txn \in [Session -> {"none", "open", "failed"}]
    /\ pending = [s \in Session |-> pending[s]]
    /\ \A s \in Session : /\ DOMAIN pending[s] \subseteq Id
                          /\ pending[s] \in [DOMAIN pending[s] -> Doc \cup {NoDoc}]
    /\ gone \in [Session -> SUBSET Row] /\ fresh \in [Session -> SUBSET Row]
    /\ shared \in [Session -> SUBSET Row] /\ locked \in [Session -> SUBSET Row]

QueuesTyped ==
    /\ pc \in [Request -> Statement \cup {"idle", "done"}]
    /\ queue \in [Session -> Seq(Request)] /\ \A s \in Session : QueueOK(s)

CallsTyped ==
    /\ req \in [Request -> Input \cup {NoCall}]
    /\ session \in [Request -> Session \cup {NoSession}]
    /\ \A r \in Request : pc[r] # "idle" => session[r] \in Session /\ req[r] \in Input
    /\ uuid \in [Request -> Uuid]
    /\ old \in [Request -> {{}} \cup {{i} : i \in Id}]
    /\ list \in [Request -> SUBSET Alias]
    /\ doomed \in [Request -> SUBSET Row]
    /\ result \in [Request -> Response]
    /\ missed \in BOOLEAN

LEMMA TypeParts == TypeOK <=> TablesTyped /\ TxnsTyped /\ QueuesTyped /\ CallsTyped
BY DEF TypeOK, TablesTyped, TxnsTyped, QueuesTyped, CallsTyped

LEMMA TypePartsNext == TypeOK' <=> TablesTyped' /\ TxnsTyped' /\ QueuesTyped' /\ CallsTyped'
BY DEF TypeOK, TablesTyped, TxnsTyped, QueuesTyped, CallsTyped

LEMMA StoreUuids ==
    ASSUME NEW store \in Store
    PROVE  /\ \A u : u \in UuidsIn(store) <=> \E i \in Id : store[i] # NoDoc /\ store[i].uuid = u
           /\ UuidsIn(store) \subseteq Uuid
BY DEF Store, Doc, UuidsIn

LEMMA OverlayTyped ==
    ASSUME NEW e \in Store, NEW d, DOMAIN d \subseteq Id, d \in [DOMAIN d -> Doc \cup {NoDoc}]
    PROVE  /\ Overlay(d, e) \in Store
           /\ \A i \in DOMAIN d : Overlay(d, e)[i] = d[i]
           /\ \A i \in Id \ DOMAIN d : Overlay(d, e)[i] = e[i]
BY DEF Overlay, Store

LEMMA ViewTyped ==
    ASSUME TypeOK, NEW s \in Session
    PROVE  /\ View(s) \in Store /\ Rows(s) \subseteq Row
           /\ \A i \in DOMAIN pending[s] : View(s)[i] = pending[s][i]
           /\ \A i \in Id \ DOMAIN pending[s] : View(s)[i] = docs[i]
<1>1. /\ docs \in Store /\ DOMAIN pending[s] \subseteq Id
      /\ pending[s] \in [DOMAIN pending[s] -> Doc \cup {NoDoc}]
  BY DEF TypeOK
<1>2. Rows(s) \subseteq Row
  BY DEF TypeOK, Rows
<1> QED
  BY <1>1, <1>2, OverlayTyped DEF View

LEMMA EndTyped ==
    ASSUME TypeOK, NEW s \in Session, NEW status \in {"none", "failed"}, EndTransaction(s, status)
    PROVE  TxnsTyped'
BY DEF TypeOK, EndTransaction, TxnsTyped, Nothing

LEMMA PublishTyped ==
    ASSUME TypeOK, NEW s \in Session, Publish(s)
    PROVE  TablesTyped'
<1>1. docs' \in Store /\ rows' \subseteq Row
  BY ViewTyped DEF Publish
<1>2. issued' \subseteq Uuid
  BY <1>1, StoreUuids DEF Publish, TypeOK
<1> QED
  BY <1>1, <1>2 DEF TablesTyped

LEMMA WriteTyped ==
    ASSUME TypeOK, NEW s \in Session, NEW d, NEW deleted \in SUBSET Row, NEW inserted \in SUBSET Row,
           DOMAIN d \subseteq Id, d \in [DOMAIN d -> Doc \cup {NoDoc}],
           Write(s, d, deleted, inserted)
    PROVE  TablesTyped' /\ TxnsTyped'
<1>1. CASE txn[s] = "open"
  <2> DEFINE new == [i \in DOMAIN pending[s] \cup DOMAIN d |->
                       IF i \in DOMAIN d THEN d[i] ELSE pending[s][i]]
  <2>1. pending' = [pending EXCEPT ![s] = new]
    BY <1>1 DEF Write
  <2>2. DOMAIN new \subseteq Id /\ new \in [DOMAIN new -> Doc \cup {NoDoc}]
    BY DEF TypeOK
  <2> HIDE DEF new
  <2>3. /\ pending' = [t \in Session |-> pending'[t]]
        /\ \A t \in Session : /\ DOMAIN pending'[t] \subseteq Id
                              /\ pending'[t] \in [DOMAIN pending'[t] -> Doc \cup {NoDoc}]
    BY <2>1, <2>2 DEF TypeOK
  <2>4. /\ txn' \in [Session -> {"none", "open", "failed"}]
        /\ shared' \in [Session -> SUBSET Row] /\ locked' \in [Session -> SUBSET Row]
    BY <1>1 DEF Write, TypeOK
  <2>6. gone' \in [Session -> SUBSET Row]
    <3> DEFINE more == gone[s] \cup (deleted \ fresh[s])
    <3>1. more \in SUBSET Row /\ gone \in [Session -> SUBSET Row]
      BY DEF TypeOK
    <3>2. gone' = [gone EXCEPT ![s] = more]
      BY <1>1 DEF Write
    <3> HIDE DEF more
    <3> QED
      BY <3>1, <3>2
  <2>7. fresh' \in [Session -> SUBSET Row]
    <3> DEFINE left == (fresh[s] \ deleted) \cup inserted
    <3>1. left \in SUBSET Row /\ fresh \in [Session -> SUBSET Row]
      BY DEF TypeOK
    <3>2. fresh' = [fresh EXCEPT ![s] = left]
      BY <1>1 DEF Write
    <3> HIDE DEF left
    <3> QED
      BY <3>1, <3>2
  <2>5. TablesTyped'
    BY <1>1 DEF Write, TypeOK, tables, TablesTyped
  <2> QED
    BY <2>3, <2>4, <2>5, <2>6, <2>7 DEF TxnsTyped
<1>2. CASE txn[s] # "open"
  <2>1. docs' \in Store /\ rows' \subseteq Row
    <3>1. docs' = Overlay(d, docs) /\ rows' = (rows \ deleted) \cup inserted
      BY <1>2 DEF Write
    <3>2. docs \in Store /\ rows \subseteq Row
      BY DEF TypeOK
    <3> QED
      BY <3>1, <3>2, OverlayTyped
  <2>2. issued' \subseteq Uuid
    BY <1>2, <2>1, StoreUuids DEF Write, TypeOK
  <2>3. TxnsTyped'
    BY <1>2 DEF Write, TypeOK, txnVars, TxnsTyped
  <2> QED
    BY <2>1, <2>2, <2>3 DEF TablesTyped
<1> QED
  BY <1>1, <1>2

-----------------------------------------------------------------------------
(* Types, step by step.                                                     *)
LEMMA SentTyped ==
    ASSUME TypeOK, NEW r \in Request, NEW statement \in Statement, Sent(r, statement)
    PROVE  /\ pc[r] \in Statement /\ Sent(r, pc[r]) /\ session[r] \in Session
           /\ req[r] \in Input /\ req[r] \in Call /\ uuid[r] \in Uuid
BY InputAssumption DEF TypeOK, Sent, Statement

(* A call that goes on has a type as long as what it sets has one.          *)
LEMMA StepTyped ==
    ASSUME TypeOK, NEW r \in Request, NEW next \in Statement \cup {"done"},
           pc[r] \in Statement, Sent(r, pc[r]), Then(r, next), UNCHANGED callVars,
           TablesTyped', TxnsTyped', uuid' \in [Request -> Uuid],
           old' \in [Request -> {{}} \cup {{i} : i \in Id}],
           list' \in [Request -> SUBSET Alias], doomed' \in [Request -> SUBSET Row],
           result' \in [Request -> Response], missed' \in BOOLEAN
    PROVE  TypeOK'
<1>1. QueuesTyped'
  BY ThenQueues DEF callVars, QueuesTyped
<1>2. CallsTyped'
  BY DEF TypeOK, Then, callVars, CallsTyped, Statement
<1> QED
  BY <1>1, <1>2, TypePartsNext

LEMMA UnchangedTyped ==
    ASSUME TypeOK
    PROVE  /\ UNCHANGED tables => TablesTyped'
           /\ UNCHANGED txnVars => TxnsTyped'
<1>1. UNCHANGED tables => TablesTyped'
  BY DEF TypeOK, tables, TablesTyped
<1>2. UNCHANGED txnVars => TxnsTyped'
  BY DEF TypeOK, txnVars, TxnsTyped
<1> QED
  BY <1>1, <1>2

LEMMA InputTyped ==
    ASSUME NEW q \in Input \cup {NoCall}, q.op # "none"
    PROVE  /\ q \in Call /\ q \in Input /\ q.id \in Id /\ q.refs \in SUBSET Alias
           /\ q.validate \in BOOLEAN /\ q.ts \in Nat /\ IsFiniteSet(q.refs)
BY InputAssumption DEF Call, NoCall

LEMMA FailTyped ==
    ASSUME TypeOK, NEW r \in Request, pc[r] \in Statement, Sent(r, pc[r]), Fail(r)
    PROVE  TypeOK'
<1>1. TxnsTyped'
  BY EndTyped, UnchangedTyped, SentTyped DEF Fail
<1>2. TablesTyped'
  BY UnchangedTyped DEF Fail
<1>3. /\ uuid' \in [Request -> Uuid] /\ old' \in [Request -> {{}} \cup {{i} : i \in Id}]
      /\ list' \in [Request -> SUBSET Alias] /\ doomed' \in [Request -> SUBSET Row]
      /\ result' \in [Request -> Response] /\ missed' \in BOOLEAN
  BY DEF Fail, TypeOK, Response
<1>4. Then(r, "rollback") /\ UNCHANGED callVars
  BY DEF Fail
<1> QED
  BY <1>1, <1>2, <1>3, <1>4, StepTyped DEF Statement

LEMMA RefuseTyped ==
    ASSUME TypeOK, NEW r \in Request, pc[r] \in Statement, Sent(r, pc[r]),
           NEW next \in Statement \cup {"done"}, NEW response \in Response,
           Refuse(r, next, response), TxnsTyped'
    PROVE  TypeOK'
<1>1. TablesTyped'
  BY UnchangedTyped DEF Refuse
<1>2. /\ uuid' \in [Request -> Uuid] /\ old' \in [Request -> {{}} \cup {{i} : i \in Id}]
      /\ list' \in [Request -> SUBSET Alias] /\ doomed' \in [Request -> SUBSET Row]
      /\ result' \in [Request -> Response] /\ missed' \in BOOLEAN
  BY DEF Refuse, TypeOK, planVars
<1>3. Then(r, next) /\ UNCHANGED callVars
  BY DEF Refuse
<1> QED
  BY <1>1, <1>2, <1>3, StepTyped

LEMMA ReturnTyped ==
    ASSUME TypeOK, NEW r \in Request, pc[r] \in Statement, Sent(r, pc[r]),
           NEW response \in Response, Return(r, response)
    PROVE  TypeOK'
<1>1. TxnsTyped' /\ Refuse(r, "done", response)
  BY UnchangedTyped DEF Return, Refuse
<1> QED
  BY <1>1, RefuseTyped

LEMMA ReceiveType ==
    ASSUME TypeOK, NEW r \in Request, Receive(r)
    PROVE  TypeOK'
<1>1. PICK q \in Input, u \in UuidsIn(docs) \cup {NoUuid}, s \in Session :
         /\ Len(queue[s]) < Overlap
         /\ req' = [req EXCEPT ![r] = q]
         /\ uuid' = [uuid EXCEPT ![r] = u]
         /\ session' = [session EXCEPT ![r] = s]
         /\ queue' = [queue EXCEPT ![s] = Append(@, r)]
  BY DEF Receive
<1>2. TablesTyped' /\ TxnsTyped'
  BY UnchangedTyped DEF Receive
<1>3. u \in Uuid
  BY StoreUuids DEF TypeOK, Uuid
<1>4. CallsTyped'
  BY <1>1, <1>3 DEF TypeOK, Receive, CallsTyped
<1>5. pc' \in [Request -> Statement \cup {"idle", "done"}]
  BY DEF TypeOK, Receive, Statement
<1> DEFINE old_queue == queue[s]
           new_queue == Append(old_queue, r)
<1>6. /\ old_queue \in Seq(Request) /\ new_queue \in Seq(Request)
      /\ Len(new_queue) = Len(old_queue) + 1 /\ DOMAIN old_queue = 1 .. Len(old_queue)
      /\ DOMAIN new_queue = 1 .. Len(old_queue) + 1
      /\ \A n \in 1 .. Len(old_queue) : new_queue[n] = old_queue[n]
      /\ new_queue[Len(old_queue) + 1] = r /\ Len(old_queue) \in Nat
  <2>1. old_queue \in Seq(Request)
    BY DEF TypeOK
  <2> HIDE DEF old_queue
  <2> QED
    BY <2>1, AppendAt
<1>7. queue' = [queue EXCEPT ![s] = new_queue] /\ QueueOK(s) /\ Len(old_queue) < Overlap
  BY <1>1 DEF TypeOK
<1> HIDE DEF new_queue
<1>8. queue' \in [Session -> Seq(Request)] /\ queue'[s] = new_queue
  BY <1>6, <1>7 DEF TypeOK
<1>9. \A t \in Session \ {s} : QueueOK(t)'
  <2>1. \A t \in Session \ {s} : queue'[t] = queue[t] /\ Active(t)' = Active(t)
    BY <1>1, <1>7 DEF TypeOK, Active, Receive
  <2> QED
    BY <2>1 DEF TypeOK, QueueOK
<1>10. Active(s)' = Active(s) \cup {r} /\ r \notin Active(s)
  BY <1>1 DEF TypeOK, Active, Receive
<1>11. QueueOK(s)'
  <2>1. \A c \in Request : c \in Active(s) <=> \E n \in 1 .. Len(old_queue) : old_queue[n] = c
    BY <1>6, <1>7 DEF QueueOK
  <2>2. \A c \in Request : c \in Active(s)' <=> \E n \in 1 .. Len(old_queue) + 1 : new_queue[n] = c
    <3> SUFFICES ASSUME NEW c \in Request
                 PROVE  c \in Active(s)' <=> \E n \in 1 .. Len(old_queue) + 1 : new_queue[n] = c
      OBVIOUS
    <3>1. c \in Active(s)' => \E n \in 1 .. Len(old_queue) + 1 : new_queue[n] = c
      <4>1. Len(old_queue) + 1 \in 1 .. Len(old_queue) + 1
        BY <1>6
      <4>2. \A n \in 1 .. Len(old_queue) : n \in 1 .. Len(old_queue) + 1
        BY <1>6
      <4> HIDE DEF old_queue
      <4> QED
        BY <4>1, <4>2, <2>1, <1>6, <1>10
    <3>2. ASSUME NEW n \in 1 .. Len(old_queue) + 1, new_queue[n] = c PROVE c \in Active(s)'
      <4>1. n \in 1 .. Len(old_queue) \/ n = Len(old_queue) + 1
        BY <1>6
      <4> HIDE DEF old_queue
      <4> QED
        BY <4>1, <3>2, <2>1, <1>6, <1>10
    <3> QED
      BY <3>1, <3>2
  <2>3. \A m, n \in 1 .. Len(old_queue) + 1 : new_queue[m] = new_queue[n] => m = n
    <3>1. \A m, n \in 1 .. Len(old_queue) : old_queue[m] = old_queue[n] => m = n
      BY <1>6, <1>7 DEF QueueOK
    <3>2. \A n \in 1 .. Len(old_queue) : old_queue[n] # r
      BY <2>1, <1>10
    <3>3. \A n \in 1 .. Len(old_queue) + 1 : n \in 1 .. Len(old_queue) \/ n = Len(old_queue) + 1
      BY <1>6
    <3> HIDE DEF old_queue
    <3> QED
      BY <3>1, <3>2, <3>3, <1>6
  <2>4. Len(new_queue) <= Overlap
    BY <1>6, <1>7, OverlapAssumption
  <2> QED
    BY <2>2, <2>3, <2>4, <1>6, <1>8 DEF QueueOK
<1> QED
  BY <1>2, <1>4, <1>5, <1>8, <1>9, <1>11, TypePartsNext DEF QueuesTyped

LEMMA BeginType ==
    ASSUME TypeOK, NEW r \in Request, Begin(r)
    PROVE  TypeOK'
<1>1. TablesTyped' /\ TxnsTyped'
  BY UnchangedTyped DEF Begin, TypeOK, TxnsTyped
<1>2. /\ uuid' \in [Request -> Uuid] /\ old' \in [Request -> {{}} \cup {{i} : i \in Id}]
      /\ list' \in [Request -> SUBSET Alias] /\ doomed' \in [Request -> SUBSET Row]
      /\ result' \in [Request -> Response] /\ missed' \in BOOLEAN
  BY DEF Begin, TypeOK, planVars
<1>3. Sent(r, "begin") /\ Then(r, "find") /\ UNCHANGED callVars
  BY DEF Begin
<1> QED
  BY <1>1, <1>2, <1>3, SentTyped, StepTyped DEF Statement

LEMMA NextStatement ==
    ASSUME NEW r \in Request
    PROVE  BeforeWrite(r) \in Statement
BY DEF BeforeWrite, Statement

LEMMA FindForUpsertType ==
    ASSUME TypeOK, NEW r \in Request, FindForUpsert(r)
    PROVE  TypeOK'
<1> DEFINE q == req[r]  now == View(session[r])[q.id]
<1>1. Sent(r, "find") /\ q.op = "upsert"
  BY DEF FindForUpsert, Reads
<1>2. /\ pc[r] \in Statement /\ Sent(r, pc[r]) /\ session[r] \in Session
      /\ q.id \in Id /\ now \in Doc \cup {NoDoc}
  BY <1>1, SentTyped, InputTyped, ViewTyped DEF Statement, Store
<1>3. CASE Return(r, "UPSERT_FAILURE_WRITE_CONFLICT")
  BY <1>2, <1>3, ReturnTyped DEF Response
<1>4. CASE ~Return(r, "UPSERT_FAILURE_WRITE_CONFLICT")
  <2>1. /\ uuid' = [uuid EXCEPT ![r] = IF now = NoDoc THEN r ELSE now.uuid]
        /\ old' = [old EXCEPT ![r] = {q.id}]
        /\ result' = [result EXCEPT ![r] =
                         IF now = NoDoc THEN "INSERT_SUCCESS" ELSE "UPDATE_SUCCESS"]
        /\ Then(r, IF now = NoDoc /\ Super[q.id] # {} THEN "super" ELSE BeforeWrite(r))
        /\ UNCHANGED <<tables, txnVars, callVars, list, doomed, missed>>
    BY <1>4 DEF FindForUpsert
  <2>2. /\ uuid' \in [Request -> Uuid] /\ old' \in [Request -> {{}} \cup {{i} : i \in Id}]
        /\ list' \in [Request -> SUBSET Alias] /\ doomed' \in [Request -> SUBSET Row]
        /\ result' \in [Request -> Response] /\ missed' \in BOOLEAN
    BY <2>1, <1>2 DEF TypeOK, Uuid, Doc, Response, Success
  <2>3. TablesTyped' /\ TxnsTyped'
    BY <2>1, UnchangedTyped
  <2> HIDE DEF now, q
  <2> QED
    BY <2>1, <2>2, <2>3, <1>2, StepTyped, NextStatement DEF Statement
<1> QED
  BY <1>3, <1>4

LEMMA FindForUpdateType ==
    ASSUME TypeOK, NEW r \in Request, FindForUpdate(r)
    PROVE  TypeOK'
<1>1. Sent(r, "find")
  BY DEF FindForUpdate, Reads
<1>2. pc[r] \in Statement /\ Sent(r, pc[r])
  BY <1>1, SentTyped DEF Statement
<1>3. CASE \E response \in Response : Return(r, response)
  BY <1>2, <1>3, ReturnTyped
<1>4. CASE ~\E response \in Response : Return(r, response)
  <2>1. PICK i \in Id :
           /\ old' = [old EXCEPT ![r] = {i}]
           /\ result' = [result EXCEPT ![r] = "UPDATE_SUCCESS"]
           /\ Then(r, BeforeWrite(r))
           /\ UNCHANGED <<tables, txnVars, callVars, uuid, list, doomed, missed>>
    BY <1>4 DEF FindForUpdate, At, Response
  <2>2. /\ uuid' \in [Request -> Uuid] /\ old' \in [Request -> {{}} \cup {{j} : j \in Id}]
        /\ list' \in [Request -> SUBSET Alias] /\ doomed' \in [Request -> SUBSET Row]
        /\ result' \in [Request -> Response] /\ missed' \in BOOLEAN
    BY <2>1 DEF TypeOK, Response, Success
  <2> QED
    BY <2>1, <2>2, <1>2, UnchangedTyped, StepTyped, NextStatement
<1> QED
  BY <1>3, <1>4

LEMMA FindForDeleteType ==
    ASSUME TypeOK, NEW r \in Request, FindForDelete(r)
    PROVE  TypeOK'
<1> DEFINE q == req[r]  s == session[r]
           found == {w \in Rows(s) : w.table = "aliases" /\ w.uuid = uuid[r]}
<1>1. Sent(r, "find") /\ q.op = "delete"
  BY DEF FindForDelete, Reads
<1>2. /\ pc[r] \in Statement /\ Sent(r, pc[r]) /\ s \in Session /\ q \in Input
      /\ found \subseteq Row /\ \A w \in found : w.alias \in Alias /\ w.mid \in Id
  BY <1>1, SentTyped, InputTyped, ViewTyped DEF Statement, Row
<1>3. CASE Fail(r)
  BY <1>2, <1>3, FailTyped
<1>4. CASE Refuse(r, "rollback", "DELETE_FAILURE_NOT_EXISTS") /\ UNCHANGED txnVars
  BY <1>2, <1>4, RefuseTyped, UnchangedTyped DEF Response, Statement
<1>5. CASE ~Fail(r) /\ ~(Refuse(r, "rollback", "DELETE_FAILURE_NOT_EXISTS") /\ UNCHANGED txnVars)
  <2>1. PICK i \in Id :
           /\ shared' = [shared EXCEPT ![s] = IF txn[s] = "open" THEN @ \cup found ELSE @]
           /\ old' = [old EXCEPT ![r] = IF found = {} THEN {} ELSE {i}]
           /\ list' = [list EXCEPT ![r] = IF q.validate THEN {w.alias : w \in found} ELSE {}]
           /\ Then(r, IF q.validate THEN "referencing" ELSE "write")
           /\ UNCHANGED <<tables, txn, pending, gone, fresh, locked, callVars, uuid,
                          doomed, result, missed>>
    BY <1>5 DEF FindForDelete
  <2>2. {w.alias : w \in found} \subseteq Alias
    BY <1>2
  <2> HIDE DEF found, q
  <2>3. TablesTyped' /\ TxnsTyped'
    BY <2>1, <1>2, UnchangedTyped DEF TypeOK, TxnsTyped
  <2>4. /\ uuid' \in [Request -> Uuid] /\ old' \in [Request -> {{}} \cup {{j} : j \in Id}]
        /\ list' \in [Request -> SUBSET Alias] /\ doomed' \in [Request -> SUBSET Row]
        /\ result' \in [Request -> Response] /\ missed' \in BOOLEAN
    BY <2>1, <2>2 DEF TypeOK
  <2> QED
    BY <2>1, <2>3, <2>4, <1>2, StepTyped DEF Statement
<1> QED
  BY <1>3, <1>4, <1>5

LEMMA CheckReferencingType ==
    ASSUME TypeOK, NEW r \in Request, CheckReferencing(r)
    PROVE  TypeOK'
<1> DEFINE parents == {w.mid : w \in {v \in Rows(session[r]) :
                                         v.table = "references" /\ v.alias \in list[r]}} \ old[r]
<1>1. Sent(r, "referencing")
  BY DEF CheckReferencing, Reads
<1>2. pc[r] \in Statement /\ Sent(r, pc[r]) /\ session[r] \in Session
  BY <1>1, SentTyped DEF Statement
<1>3. parents \subseteq Alias
  BY <1>2, ViewTyped DEF Row, Alias
<1>4. /\ list' = [list EXCEPT ![r] = parents]
      /\ Then(r, IF parents # {} THEN "report" ELSE "write")
      /\ UNCHANGED <<tables, txnVars, callVars, uuid, old, doomed, result, missed>>
  BY DEF CheckReferencing
<1> HIDE DEF parents
<1>5. /\ uuid' \in [Request -> Uuid] /\ old' \in [Request -> {{}} \cup {{j} : j \in Id}]
      /\ list' \in [Request -> SUBSET Alias] /\ doomed' \in [Request -> SUBSET Row]
      /\ result' \in [Request -> Response] /\ missed' \in BOOLEAN
  BY <1>3, <1>4 DEF TypeOK
<1> QED
  BY <1>2, <1>4, <1>5, UnchangedTyped, StepTyped DEF Statement

LEMMA CheckSuperclassType ==
    ASSUME TypeOK, NEW r \in Request, CheckSuperclass(r)
    PROVE  TypeOK'
<1>1. Sent(r, "super") /\ UNCHANGED txnVars
  BY DEF CheckSuperclass, Reads
<1>2. pc[r] \in Statement /\ Sent(r, pc[r]) /\ result[r] \in Response
  BY <1>1, SentTyped DEF Statement, TypeOK
<1>3. \E next \in Statement, response \in Response : Refuse(r, next, response)
  BY <1>2, NextStatement DEF CheckSuperclass, Statement, Response
<1> QED
  BY <1>1, <1>2, <1>3, RefuseTyped, UnchangedTyped

LEMMA ValidateReferencesType ==
    ASSUME TypeOK, NEW r \in Request, ValidateReferences(r)
    PROVE  TypeOK'
<1> DEFINE s == session[r]
           found == {w \in Rows(s) : w.table = "aliases" /\ w.alias \in req[r].refs}
<1>1. Sent(r, "validate")
  BY DEF ValidateReferences, Reads
<1>2. pc[r] \in Statement /\ Sent(r, pc[r]) /\ result[r] \in Response /\ s \in Session
  BY <1>1, SentTyped DEF Statement, TypeOK
<1>3. CASE Fail(r)
  BY <1>2, <1>3, FailTyped
<1>4. CASE ~Fail(r)
  <2>1. LockReferenced(s, found)
        /\ \E next \in Statement, response \in Response : Refuse(r, next, response)
    BY <1>2, <1>4 DEF ValidateReferences, Statement, Response
  <2>2. found \subseteq Row
    BY <1>2, ViewTyped
  <2> HIDE DEF found
  <2>3. TxnsTyped'
    BY <2>1, <2>2, <1>2 DEF LockReferenced, TypeOK, TxnsTyped
  <2> QED
    BY <2>1, <2>3, <1>2, RefuseTyped
<1> QED
  BY <1>3, <1>4

LEMMA ReportType ==
    ASSUME TypeOK, NEW r \in Request, Report(r)
    PROVE  TypeOK'
<1>1. Sent(r, "report") /\ Then(r, "rollback") /\ UNCHANGED <<tables, txnVars, callVars>>
  BY DEF Report, Reads, AfterReport
<1>2. pc[r] \in Statement /\ Sent(r, pc[r])
  BY <1>1, SentTyped DEF Statement
<1>3. /\ uuid' \in [Request -> Uuid] /\ old' \in [Request -> {{}} \cup {{j} : j \in Id}]
      /\ list' \in [Request -> SUBSET Alias] /\ doomed' \in [Request -> SUBSET Row]
      /\ result' \in [Request -> Response] /\ missed' \in BOOLEAN
  BY DEF Report, TypeOK, Response
<1> QED
  BY <1>1, <1>2, <1>3, UnchangedTyped, StepTyped DEF Statement

LEMMA NewVersionTyped ==
    ASSUME TypeOK, NEW r \in Request, req[r] \in Input, NEW createdAt \in Nat
    PROVE  NewVersion(r, createdAt) \in Doc
BY InputAssumption DEF TypeOK, NewVersion, Doc, Call

LEMMA InsertDocumentType ==
    ASSUME TypeOK, NEW r \in Request, InsertDocument(r)
    PROVE  TypeOK'
<1> DEFINE i == req[r].id  d == [j \in {i} |-> NewVersion(r, req[r].ts)]
<1>1. Sent(r, "write")
  BY DEF InsertDocument, Writes
<1>2. pc[r] \in Statement /\ Sent(r, pc[r]) /\ session[r] \in Session
  BY <1>1, SentTyped DEF Statement
<1>3. CASE Fail(r)
  BY <1>2, <1>3, FailTyped
<1>4. CASE ~Fail(r)
  <2>1. /\ Write(session[r], d, {}, {}) /\ Then(r, "unalias")
        /\ UNCHANGED <<callVars, planVars, result, missed>>
    BY <1>4 DEF InsertDocument
  <2>2. DOMAIN d \subseteq Id /\ d \in [DOMAIN d -> Doc \cup {NoDoc}]
    BY <1>1, SentTyped, NewVersionTyped DEF Call, Statement
  <2> HIDE DEF d
  <2>3. TablesTyped' /\ TxnsTyped'
    BY <2>1, <2>2, <1>2, WriteTyped
  <2>4. /\ uuid' \in [Request -> Uuid] /\ old' \in [Request -> {{}} \cup {{j} : j \in Id}]
        /\ list' \in [Request -> SUBSET Alias] /\ doomed' \in [Request -> SUBSET Row]
        /\ result' \in [Request -> Response] /\ missed' \in BOOLEAN
    BY <2>1 DEF TypeOK, planVars
  <2> QED
    BY <2>1, <2>3, <2>4, <1>2, StepTyped DEF Statement
<1> QED
  BY <1>3, <1>4

LEMMA UpdateDocumentType ==
    ASSUME TypeOK, NEW r \in Request, UpdateDocument(r)
    PROVE  TypeOK'
<1> DEFINE i == req[r].id
           view == View(session[r])
           moved(j) == [k \in {i, j} |->
                           IF k = i THEN NewVersion(r, view[j].createdAt) ELSE NoDoc]
<1>1. Sent(r, "write")
  BY DEF UpdateDocument, Writes
<1>2. /\ pc[r] \in Statement /\ Sent(r, pc[r]) /\ session[r] \in Session
      /\ view \in Store /\ i \in Id
  BY <1>1, SentTyped, ViewTyped, InputAssumption DEF Statement, Call
<1>3. CASE Fail(r)
  BY <1>2, <1>3, FailTyped
<1>4. CASE UNCHANGED <<tables, txnVars>>
  <2>1. CASE ~Fail(r)
    <3>1. Then(r, "unalias") /\ UNCHANGED callVars
      BY <2>1 DEF UpdateDocument
    <3>2. /\ uuid' \in [Request -> Uuid] /\ old' \in [Request -> {{}} \cup {{j} : j \in Id}]
          /\ list' \in [Request -> SUBSET Alias] /\ doomed' \in [Request -> SUBSET Row]
          /\ result' \in [Request -> Response] /\ missed' \in BOOLEAN
      BY <2>1 DEF UpdateDocument, UpdatedNothing, TypeOK, planVars, Response
    <3> QED
      BY <3>1, <3>2, <1>2, <1>4, UnchangedTyped, StepTyped DEF Statement
  <2> QED
    BY <2>1, <1>3
<1>5. CASE ~Fail(r) /\ ~UNCHANGED <<tables, txnVars>>
  <2>1. PICK j \in At(view, uuid[r]) :
           /\ Write(session[r], moved(j), {}, {}) /\ Then(r, "unalias")
           /\ UNCHANGED <<callVars, planVars, result, missed>>
    BY <1>5 DEF UpdateDocument
  <2>2. j \in Id /\ view[j] \in Doc
    BY <1>2 DEF At, Store
  <2>3. NewVersion(r, view[j].createdAt) \in Doc
    BY <1>1, <2>2, SentTyped, NewVersionTyped DEF Doc, Statement
  <2>4. DOMAIN moved(j) \subseteq Id /\ moved(j) \in [DOMAIN moved(j) -> Doc \cup {NoDoc}]
    BY <1>2, <2>2, <2>3
  <2> DEFINE d == moved(j)
  <2> HIDE DEF moved
  <2>5. TablesTyped' /\ TxnsTyped'
    BY <2>1, <2>4, <1>2, WriteTyped
  <2>6. /\ uuid' \in [Request -> Uuid] /\ old' \in [Request -> {{}} \cup {{k} : k \in Id}]
        /\ list' \in [Request -> SUBSET Alias] /\ doomed' \in [Request -> SUBSET Row]
        /\ result' \in [Request -> Response] /\ missed' \in BOOLEAN
    BY <2>1 DEF TypeOK, planVars
  <2> QED
    BY <2>1, <2>5, <2>6, <1>2, StepTyped DEF Statement
<1> QED
  BY <1>3, <1>4, <1>5

LEMMA DeleteDocumentType ==
    ASSUME TypeOK, NEW r \in Request, DeleteDocument(r)
    PROVE  TypeOK'
<1> DEFINE at == At(View(session[r]), uuid[r])  d == [i \in at |-> NoDoc]
<1>1. Sent(r, "write")
  BY DEF DeleteDocument, Writes
<1>2. pc[r] \in Statement /\ Sent(r, pc[r]) /\ session[r] \in Session
  BY <1>1, SentTyped DEF Statement
<1>3. /\ Write(session[r], d, {}, {}) /\ Then(r, "unref")
      /\ UNCHANGED <<callVars, planVars, missed>>
  BY DEF DeleteDocument
<1>4. DOMAIN d \subseteq Id /\ d \in [DOMAIN d -> Doc \cup {NoDoc}]
  BY DEF At
<1> HIDE DEF d
<1>5. TablesTyped' /\ TxnsTyped'
  BY <1>2, <1>3, <1>4, WriteTyped
<1>6. /\ uuid' \in [Request -> Uuid] /\ old' \in [Request -> {{}} \cup {{j} : j \in Id}]
      /\ list' \in [Request -> SUBSET Alias] /\ doomed' \in [Request -> SUBSET Row]
      /\ result' \in [Request -> Response] /\ missed' \in BOOLEAN
  BY DEF DeleteDocument, TypeOK, planVars, Response, Success
<1> QED
  BY <1>2, <1>3, <1>5, <1>6, StepTyped DEF Statement

LEMMA DeletedRowsTyped ==
    ASSUME TypeOK, NEW r \in Request, session[r] \in Session
    PROVE  DeletedRows(r) \in SUBSET Row /\ DeletedRows(r) \subseteq Rows(session[r])
BY ViewTyped DEF TypeOK, DeletedRows

LEMMA NothingTyped == DOMAIN Nothing \subseteq Id /\ Nothing \in [DOMAIN Nothing -> Doc \cup {NoDoc}]
BY DEF Nothing

LEMMA RowsTyped ==
    ASSUME NEW by \in Request \cup Id, NEW u \in Uuid, NEW i \in Id, NEW a \in Alias
    PROVE  {AliasRow(by, u, i, a)} \in SUBSET Row /\ {ReferenceRow(by, i, a)} \in SUBSET Row
BY DEF AliasRow, ReferenceRow, Row, Uuid

LEMMA AliasesTyped ==
    ASSUME NEW i \in Id
    PROVE  Aliases(i) \subseteq Alias /\ i \in Aliases(i)
BY SuperAssumption DEF Aliases, Alias

LEMMA DeleteAliasesType ==
    ASSUME TypeOK, NEW r \in Request, DeleteAliases(r)
    PROVE  TypeOK'
<1>1. Sent(r, "unalias")
  BY DEF DeleteAliases, Writes
<1>2. pc[r] \in Statement /\ Sent(r, pc[r]) /\ session[r] \in Session /\ req[r].id \in Id
  BY <1>1, SentTyped, InputAssumption DEF Statement, Call
<1>3. TablesTyped' /\ TxnsTyped'
  BY <1>2, DeletedRowsTyped, NothingTyped, WriteTyped DEF DeleteAliases, ObsoleteAliases
<1>4. /\ uuid' \in [Request -> Uuid] /\ old' \in [Request -> {{}} \cup {{j} : j \in Id}]
      /\ list' \in [Request -> SUBSET Alias] /\ doomed' \in [Request -> SUBSET Row]
      /\ result' \in [Request -> Response] /\ missed' \in BOOLEAN
  BY <1>2, AliasesTyped DEF DeleteAliases, TypeOK
<1>5. UNCHANGED callVars /\ \E next \in Statement : Then(r, next)
  BY DEF DeleteAliases, Statement, Finish
<1> QED
  BY <1>2, <1>3, <1>4, <1>5, StepTyped

LEMMA InsertAliasType ==
    ASSUME TypeOK, NEW r \in Request, InsertAlias(r)
    PROVE  TypeOK'
<1>1. Sent(r, "alias")
  BY DEF InsertAlias, Writes
<1>2. /\ pc[r] \in Statement /\ Sent(r, pc[r]) /\ session[r] \in Session /\ req[r].id \in Id
      /\ uuid[r] \in Uuid /\ list[r] \subseteq Alias
  BY <1>1, SentTyped, InputAssumption DEF Statement, Call, TypeOK
<1>3. PICK a \in list[r] :
         /\ Write(session[r], Nothing, {}, {AliasRow(r, uuid[r], req[r].id, a)})
         /\ list' = [list EXCEPT ![r] = @ \ {a}]
         /\ Then(r, IF list[r] = {a} THEN "unref" ELSE "alias")
  BY DEF InsertAlias
<1>4. TablesTyped' /\ TxnsTyped'
  BY <1>2, <1>3, RowsTyped, NothingTyped, WriteTyped
<1>5. /\ uuid' \in [Request -> Uuid] /\ old' \in [Request -> {{}} \cup {{j} : j \in Id}]
      /\ list' \in [Request -> SUBSET Alias] /\ doomed' \in [Request -> SUBSET Row]
      /\ result' \in [Request -> Response] /\ missed' \in BOOLEAN
  BY <1>3 DEF InsertAlias, TypeOK
<1>6. UNCHANGED callVars /\ \E next \in Statement : Then(r, next)
  BY <1>3 DEF InsertAlias, Statement
<1> QED
  BY <1>2, <1>4, <1>5, <1>6, StepTyped

LEMMA DeleteReferencesType ==
    ASSUME TypeOK, NEW r \in Request, DeleteReferences(r)
    PROVE  TypeOK'
<1>1. Sent(r, "unref")
  BY DEF DeleteReferences, Writes
<1>2. pc[r] \in Statement /\ Sent(r, pc[r]) /\ session[r] \in Session /\ req[r].refs \subseteq Alias
  BY <1>1, SentTyped, InputAssumption DEF Statement, Call
<1>3. TablesTyped' /\ TxnsTyped'
  BY <1>2, DeletedRowsTyped, NothingTyped, WriteTyped DEF DeleteReferences
<1>4. /\ uuid' \in [Request -> Uuid] /\ old' \in [Request -> {{}} \cup {{j} : j \in Id}]
      /\ list' \in [Request -> SUBSET Alias] /\ doomed' \in [Request -> SUBSET Row]
      /\ result' \in [Request -> Response] /\ missed' \in BOOLEAN
  BY <1>2 DEF DeleteReferences, TypeOK
<1>5. UNCHANGED callVars /\ \E next \in Statement : Then(r, next)
  BY DEF DeleteReferences, Statement, Finish
<1> QED
  BY <1>2, <1>3, <1>4, <1>5, StepTyped

LEMMA InsertReferenceType ==
    ASSUME TypeOK, NEW r \in Request, InsertReference(r)
    PROVE  TypeOK'
<1>1. Sent(r, "ref")
  BY DEF InsertReference, Writes
<1>2. /\ pc[r] \in Statement /\ Sent(r, pc[r]) /\ session[r] \in Session /\ req[r].id \in Id
      /\ list[r] \subseteq Alias /\ NoUuid \in Uuid
  BY <1>1, SentTyped, InputAssumption DEF Statement, Call, TypeOK, Uuid
<1>3. PICK a \in list[r] :
         /\ Write(session[r], Nothing, {}, {ReferenceRow(r, req[r].id, a)})
         /\ list' = [list EXCEPT ![r] = @ \ {a}]
         /\ Then(r, IF list[r] = {a} THEN Finish ELSE "ref")
  BY DEF InsertReference
<1>4. TablesTyped' /\ TxnsTyped'
  BY <1>2, <1>3, RowsTyped, NothingTyped, WriteTyped
<1>5. /\ uuid' \in [Request -> Uuid] /\ old' \in [Request -> {{}} \cup {{j} : j \in Id}]
      /\ list' \in [Request -> SUBSET Alias] /\ doomed' \in [Request -> SUBSET Row]
      /\ result' \in [Request -> Response] /\ missed' \in BOOLEAN
  BY <1>3 DEF InsertReference, TypeOK
<1>6. UNCHANGED callVars /\ \E next \in Statement : Then(r, next)
  BY <1>3 DEF InsertReference, Statement, Finish
<1> QED
  BY <1>2, <1>4, <1>5, <1>6, StepTyped

LEMMA EndType ==
    ASSUME TypeOK, NEW r \in Request, Commit(r) \/ Rollback(r)
    PROVE  TypeOK'
<1>1. /\ pc[r] \in {"commit", "rollback"} /\ Sent(r, pc[r])
      /\ EndTransaction(session[r], "none") /\ Then(r, "done")
      /\ UNCHANGED <<callVars, planVars, result, missed>>
      /\ Publish(session[r]) \/ UNCHANGED tables
  BY DEF Commit, Rollback, Sent
<1>2. pc[r] \in Statement /\ Sent(r, pc[r]) /\ session[r] \in Session
  BY <1>1, SentTyped DEF Statement
<1>3. TablesTyped' /\ TxnsTyped'
  BY <1>1, <1>2, EndTyped, PublishTyped, UnchangedTyped
<1>4. /\ uuid' \in [Request -> Uuid] /\ old' \in [Request -> {{}} \cup {{j} : j \in Id}]
      /\ list' \in [Request -> SUBSET Alias] /\ doomed' \in [Request -> SUBSET Row]
      /\ result' \in [Request -> Response] /\ missed' \in BOOLEAN
  BY <1>1 DEF TypeOK, planVars
<1> QED
  BY <1>1, <1>2, <1>3, <1>4, StepTyped

LEMMA WaitType ==
    ASSUME TypeOK, NEW r \in Request, Wait(r)
    PROVE  TypeOK'
<1>1. session[r] \in Session
  BY SentTyped DEF Wait, Statement
<1>2. TablesTyped' /\ TxnsTyped'
  BY UnchangedTyped DEF Wait
<1>3. CallsTyped'
  BY <1>1, DeletedRowsTyped DEF Wait, TypeOK, CallsTyped, callVars
<1>4. QueuesTyped'
  BY DEF Wait, TypeOK, QueuesTyped, QueueOK, Active, callVars
<1> QED
  BY <1>2, <1>3, <1>4, TypePartsNext

LEMMA CrashType ==
    ASSUME TypeOK, NEW s \in Session, Crash(s)
    PROVE  TypeOK'
<1>1. TablesTyped' /\ TxnsTyped'
  BY EndTyped, PublishTyped, UnchangedTyped DEF Crash
<1>2. pc' \in [Request -> Statement \cup {"idle", "done"}]
  BY DEF Crash, TypeOK
<1>3. CallsTyped'
  BY DEF Crash, TypeOK, CallsTyped, callVars, Response
<1>4. queue' \in [Session -> Seq(Request)] /\ queue'[s] = <<>>
  BY DEF Crash, TypeOK
<1>5. \A t \in Session \ {s} : QueueOK(t)'
  <2>1. \A t \in Session \ {s} : queue'[t] = queue[t] /\ Active(t)' = Active(t)
    BY DEF TypeOK, Active, Crash, callVars
  <2> QED
    BY <2>1 DEF TypeOK, QueueOK
<1>6. QueueOK(s)'
  <2>1. Active(s)' = {}
    BY DEF Crash, Active, callVars
  <2> QED
    BY <2>1, <1>4, OverlapAssumption DEF QueueOK
<1> QED
  BY <1>1, <1>2, <1>3, <1>4, <1>5, <1>6, TypePartsNext DEF QueuesTyped

LEMMA InitType == Init => TypeOK
<1> SUFFICES ASSUME Init PROVE TypeOK
  OBVIOUS
<1>1. docs \in Store /\ docs \in Seed /\ \A i \in Id : docs[i] # NoDoc => docs[i] \in Doc
  BY SeedAssumption DEF Init, Store
<1>2. rows \subseteq Row
  <2> SUFFICES ASSUME NEW w \in RowsOf(docs) PROVE w \in Row
    BY DEF Init
  <2>1. PICK i \in Id :
           /\ docs[i] # NoDoc
           /\ w \in {AliasRow(i, docs[i].uuid, i, a) : a \in Aliases(i)}
                      \cup {ReferenceRow(i, i, a) : a \in docs[i].refs}
    BY DEF RowsOf
  <2>2. docs[i].uuid \in Uuid /\ docs[i].refs \subseteq Alias
    BY <1>1, <2>1 DEF Doc
  <2>3. \/ \E a \in Aliases(i) : w = AliasRow(i, docs[i].uuid, i, a)
        \/ \E a \in docs[i].refs : w = ReferenceRow(i, i, a)
    BY <2>1
  <2> QED
    BY <2>2, <2>3, AliasesTyped, RowsTyped
<1>3. TablesTyped
  BY <1>1, <1>2, StoreUuids DEF Init, TablesTyped
<1>4. TxnsTyped
  BY DEF Init, TxnsTyped, Nothing
<1>5. queue \in [Session -> Seq(Request)]
  BY DEF Init
<1>6. \A s \in Session : QueueOK(s)
  BY OverlapAssumption DEF Init, QueueOK, Active
<1>7. CallsTyped
  BY DEF Init, CallsTyped, Response, Uuid
<1> QED
  BY <1>3, <1>4, <1>5, <1>6, <1>7, TypeParts DEF Init, QueuesTyped

LEMMA CallStepType ==
    ASSUME TypeOK, NEW r \in Request, Step(r)
    PROVE  TypeOK'
<1>1. CASE Rejected(r) \/ Deadlock(r)
  <2>1. pc[r] \in Statement /\ Sent(r, pc[r]) /\ Fail(r)
    BY <1>1 DEF Rejected, Deadlock, TypeOK, Statement
  <2> QED
    BY <2>1, FailTyped
<1>2. CASE ~(Rejected(r) \/ Deadlock(r))
  <2>1. pc[r] # "idle" /\ req[r] \in Input
    BY <1>2 DEF Step, Begin, FindForUpsert, FindForUpdate, FindForDelete, CheckReferencing,
       CheckSuperclass, ValidateReferences, Report, InsertDocument, UpdateDocument,
       DeleteDocument, DeleteAliases, InsertAlias, DeleteReferences, InsertReference, Wait,
       Commit, Rollback, Reads, Writes, Sent, TypeOK
  <2> QED
    BY <1>2, <2>1, BeginType, FindForUpsertType, FindForUpdateType, FindForDeleteType,
       CheckReferencingType, CheckSuperclassType, ValidateReferencesType, ReportType,
       InsertDocumentType, UpdateDocumentType, DeleteDocumentType, DeleteAliasesType,
       InsertAliasType, DeleteReferencesType, InsertReferenceType, WaitType, EndType
    DEF Step
<1> QED
  BY <1>1, <1>2

LEMMA NextType == TypeOK /\ [Next]_vars => TypeOK'
<1> SUFFICES ASSUME TypeOK, [Next]_vars PROVE TypeOK'
  OBVIOUS
<1>1. CASE UNCHANGED vars
  BY <1>1 DEF vars, tables, txnVars, callVars, planVars, TypeOK, QueueOK, Active
<1> QED
  BY <1>1, ReceiveType, CallStepType, CrashType DEF Next, Quiescent

(* Every variable keeps its type, whatever calls run on whatever sessions,  *)
(* and a statement of each call under way is in the queue of its session.   *)
THEOREM TypeCorrect == Spec => []TypeOK
BY InitType, NextType, PTL DEF Spec

-----------------------------------------------------------------------------
(* What a step does to the transaction of its session.                      *)
Own(r) ==
    /\ session' = session /\ req' = req
    /\ \A q \in Request \ {r} :
          /\ pc'[q] = pc[q] /\ uuid'[q] = uuid[q] /\ old'[q] = old[q]
          /\ list'[q] = list[q] /\ doomed'[q] = doomed[q] /\ result'[q] = result[q]
    /\ \A t \in Session \ {session[r]} :
          /\ txn'[t] = txn[t] /\ pending'[t] = pending[t] /\ gone'[t] = gone[t]
          /\ fresh'[t] = fresh[t] /\ shared'[t] = shared[t] /\ locked'[t] = locked[t]

Opens(r) ==
    /\ pc[r] = "begin" /\ pc'[r] = "find"
    /\ txn'[session[r]] = "open"
    /\ UNCHANGED <<tables, pending, gone, fresh, shared, locked>>

Answers(r) == pc[r] = "find" /\ pc'[r] = "done" /\ UNCHANGED <<tables, txnVars>>

Ends(r) ==
    /\ pc[r] \in {"commit", "rollback"} /\ pc'[r] = "done"
    /\ EndTransaction(session[r], "none")

Breaks(r) ==
    /\ pc[r] \notin {"idle", "commit", "rollback", "done"} /\ pc'[r] = "rollback"
    /\ EndTransaction(session[r], "failed")
    /\ UNCHANGED tables

GoesOn(r) == pc[r] \notin {"idle", "done"} /\ pc'[r] \notin Finding \cup {"idle", "done"}

Locks(r) ==
    LET s == session[r]
    IN  /\ pc[r] \in {"find", "validate"}
        /\ \E found \in SUBSET Rows(s) :
              /\ found \cap HeldAgainstShare(s) = {}
              /\ \/ /\ shared' = [shared EXCEPT ![s] = @ \cup found]
                    /\ UNCHANGED locked
                 \/ /\ found \cap HeldAgainstUpdate(s) = {}
                    /\ locked' = [locked EXCEPT ![s] = @ \cup found]
                    /\ UNCHANGED shared
              /\ txn[s] = "open"
              /\ UNCHANGED <<tables, txn, pending, gone, fresh>>

Changes(r) ==
    /\ pc[r] \in {"write", "unalias", "alias", "unref", "ref"}
    /\ \E d, inserted : \E deleted \in SUBSET DeletedRows(r) :
          /\ DOMAIN d \subseteq WrittenDocs(r)
          /\ Blockers(r) = {}
          /\ Write(session[r], d, deleted, inserted)

Effect(r) ==
    \/ Opens(r) \/ Answers(r) \/ Ends(r) \/ Breaks(r)
    \/ GoesOn(r) /\ (UNCHANGED <<tables, txnVars>> \/ Locks(r) \/ Changes(r))

LEMMA ThenMoves ==
    ASSUME TypeOK, NEW r \in Request, NEW next, Then(r, next)
    PROVE  pc'[r] = next /\ \A q \in Request \ {r} : pc'[q] = pc[q]
BY DEF TypeOK, Then

LEMMA EndOwn ==
    ASSUME TypeOK, NEW s \in Session, NEW status, EndTransaction(s, status)
    PROVE  \A t \in Session \ {s} :
              /\ txn'[t] = txn[t] /\ pending'[t] = pending[t] /\ gone'[t] = gone[t]
              /\ fresh'[t] = fresh[t] /\ shared'[t] = shared[t] /\ locked'[t] = locked[t]
BY DEF TypeOK, EndTransaction

LEMMA WriteOwn ==
    ASSUME TypeOK, NEW s \in Session, NEW d, NEW deleted, NEW inserted,
           Write(s, d, deleted, inserted)
    PROVE  \A t \in Session \ {s} :
              /\ txn'[t] = txn[t] /\ pending'[t] = pending[t] /\ gone'[t] = gone[t]
              /\ fresh'[t] = fresh[t] /\ shared'[t] = shared[t] /\ locked'[t] = locked[t]
BY DEF TypeOK, Write, txnVars

LEMMA FailEffect ==
    ASSUME TypeOK, NEW r \in Request, session[r] \in Session, Fail(r),
           pc[r] \notin {"idle", "commit", "rollback", "done"}
    PROVE  Own(r) /\ Effect(r) /\ result'[r] = "UNKNOWN_FAILURE" /\ UNCHANGED missed
<1>1. pc'[r] = "rollback" /\ \A q \in Request \ {r} : pc'[q] = pc[q]
  BY ThenMoves DEF Fail
<1>2. Own(r)
  BY <1>1, EndOwn DEF Fail, TypeOK, Own, callVars, txnVars
<1>3. Effect(r)
  BY <1>1 DEF Fail, Effect, Breaks, GoesOn, Finding
<1> QED
  BY <1>2, <1>3 DEF Fail, TypeOK

LEMMA RefuseEffect ==
    ASSUME TypeOK, NEW r \in Request, NEW next, NEW response, Refuse(r, next, response),
           UNCHANGED txnVars, pc[r] \notin {"idle", "done"},
           next \in Statement \ Finding
    PROVE  Own(r) /\ Effect(r)
<1>1. pc'[r] = next /\ \A q \in Request \ {r} : pc'[q] = pc[q]
  BY ThenMoves DEF Refuse
<1>2. Own(r)
  BY <1>1 DEF Refuse, TypeOK, Own, callVars, planVars, txnVars
<1>3. Effect(r)
  BY <1>1 DEF Refuse, Effect, GoesOn, Statement
<1> QED
  BY <1>2, <1>3

LEMMA ReturnEffect ==
    ASSUME TypeOK, NEW r \in Request, NEW response, Return(r, response), pc[r] = "find"
    PROVE  Own(r) /\ Effect(r)
<1>1. pc'[r] = "done" /\ \A q \in Request \ {r} : pc'[q] = pc[q]
  BY ThenMoves DEF Return
<1>2. Own(r)
  BY <1>1 DEF Return, TypeOK, Own, callVars, planVars, txnVars
<1>3. Effect(r)
  BY <1>1 DEF Return, Effect, Answers
<1> QED
  BY <1>2, <1>3

LEMMA ReadEffect ==
    ASSUME TypeOK, NEW r \in Request,
           \/ Begin(r) \/ FindForUpsert(r) \/ FindForUpdate(r) \/ CheckReferencing(r)
           \/ CheckSuperclass(r) \/ Report(r) \/ Wait(r)
    PROVE  Own(r) /\ Effect(r)
<1>0. BeforeWrite(r) \in {"validate", "write"}
  BY DEF BeforeWrite
<1>1. CASE Begin(r)
  <2>1. pc'[r] = "find" /\ \A q \in Request \ {r} : pc'[q] = pc[q]
    BY <1>1, ThenMoves DEF Begin
  <2>2. Own(r)
    BY <1>1, <2>1 DEF Begin, TypeOK, Own, callVars, planVars
  <2>3. session[r] \in Session /\ pc[r] = "begin" /\ txn'[session[r]] = "open"
    BY <1>1, SentTyped DEF Begin, TypeOK, Sent, Statement
  <2> QED
    BY <1>1, <2>1, <2>2, <2>3 DEF Begin, Effect, Opens
<1>2. CASE FindForUpsert(r)
  <2>1. pc[r] = "find"
    BY <1>2 DEF FindForUpsert, Reads, Sent
  <2>2. CASE \E response : Return(r, response)
    BY <2>1, <2>2, ReturnEffect
  <2>3. CASE ~\E response : Return(r, response)
    <3>1. PICK next \in {"super", BeforeWrite(r)} :
             Then(r, next) /\ UNCHANGED <<tables, txnVars, callVars, list, doomed, missed>>
      BY <1>2, <2>3 DEF FindForUpsert
    <3>2. pc'[r] = next /\ \A q \in Request \ {r} : pc'[q] = pc[q]
      BY <3>1, ThenMoves
    <3>3. \A q \in Request \ {r} : uuid'[q] = uuid[q] /\ old'[q] = old[q] /\ result'[q] = result[q]
      BY <1>2, <2>3 DEF FindForUpsert, TypeOK
    <3>4. Own(r)
      BY <3>1, <3>2, <3>3 DEF Own, callVars, txnVars
    <3>5. GoesOn(r)
      BY <2>1, <3>1, <3>2, <1>0 DEF GoesOn, Finding
    <3> QED
      BY <3>1, <3>4, <3>5 DEF Effect
  <2> QED
    BY <2>2, <2>3
<1>3. CASE FindForUpdate(r)
  <2>1. pc[r] = "find"
    BY <1>3 DEF FindForUpdate, Reads, Sent
  <2>2. CASE \E response : Return(r, response)
    BY <2>1, <2>2, ReturnEffect
  <2>3. CASE ~\E response : Return(r, response)
    <3>1. Then(r, BeforeWrite(r)) /\ UNCHANGED <<tables, txnVars, callVars, uuid, list, doomed>>
      BY <1>3, <2>3 DEF FindForUpdate
    <3>2. pc'[r] = BeforeWrite(r) /\ \A q \in Request \ {r} : pc'[q] = pc[q]
      BY <3>1, ThenMoves
    <3>3. \A q \in Request \ {r} : old'[q] = old[q] /\ result'[q] = result[q]
      BY <1>3, <2>3 DEF FindForUpdate, TypeOK
    <3>4. Own(r)
      BY <3>1, <3>2, <3>3 DEF Own, callVars, txnVars
    <3>5. GoesOn(r)
      BY <2>1, <3>2, <1>0 DEF GoesOn, Finding
    <3> QED
      BY <3>1, <3>4, <3>5 DEF Effect
  <2> QED
    BY <2>2, <2>3
<1>4. CASE CheckReferencing(r)
  <2>1. pc[r] = "referencing" /\ UNCHANGED <<tables, txnVars, callVars, uuid, old, doomed, result>>
        /\ \A q \in Request \ {r} : list'[q] = list[q]
    BY <1>4 DEF CheckReferencing, Reads, Sent, TypeOK
  <2>2. pc'[r] \in {"report", "write"} /\ \A q \in Request \ {r} : pc'[q] = pc[q]
    BY <1>4, ThenMoves DEF CheckReferencing
  <2> QED
    BY <2>1, <2>2 DEF Effect, GoesOn, Finding, Own, callVars, txnVars
<1>5. CASE CheckSuperclass(r)
  BY <1>5, <1>0, RefuseEffect DEF CheckSuperclass, Reads, Sent, Statement, Finding
<1>6. CASE Report(r)
  <2>1. pc[r] = "report" /\ UNCHANGED <<tables, txnVars, callVars, uuid, old, doomed>>
        /\ \A q \in Request \ {r} : list'[q] = list[q] /\ result'[q] = result[q]
    BY <1>6 DEF Report, Reads, Sent, TypeOK
  <2>2. pc'[r] = "rollback" /\ \A q \in Request \ {r} : pc'[q] = pc[q]
    BY <1>6, ThenMoves DEF Report, AfterReport
  <2> QED
    BY <2>1, <2>2 DEF Effect, GoesOn, Finding, Own, callVars, txnVars
<1>7. CASE Wait(r)
  BY <1>7 DEF Wait, TypeOK, Effect, GoesOn, Finding, Own, callVars, txnVars
<1> QED
  BY <1>1, <1>2, <1>3, <1>4, <1>5, <1>6, <1>7

LEMMA LockEffect ==
    ASSUME TypeOK, NEW r \in Request, FindForDelete(r) \/ ValidateReferences(r)
    PROVE  Own(r) /\ Effect(r)
<1> DEFINE s == session[r]
<1>1. /\ pc[r] \in Statement \ {"begin", "commit", "rollback"}
      /\ s \in Session /\ txn[s] \in {"none", "open"}
  <2>1. Sent(r, "find") \/ Sent(r, "validate")
    BY DEF FindForDelete, ValidateReferences, Reads
  <2>2. txn[s] # "failed"
    BY DEF FindForDelete, ValidateReferences, Reads
  <2> QED
    BY <2>1, <2>2, SentTyped DEF TypeOK, Statement, Sent
<1>2. CASE Fail(r)
  BY <1>1, <1>2, FailEffect DEF Statement
<1>3. CASE FindForDelete(r) /\ ~Fail(r)
  <2> DEFINE found == {w \in Rows(s) : w.table = "aliases" /\ w.uuid = uuid[r]}
  <2>1. CASE Refuse(r, "rollback", "DELETE_FAILURE_NOT_EXISTS") /\ UNCHANGED txnVars
    BY <2>1, <1>1, RefuseEffect DEF Statement, Finding
  <2>2. CASE ~(Refuse(r, "rollback", "DELETE_FAILURE_NOT_EXISTS") /\ UNCHANGED txnVars)
    <3>1. /\ found \cap HeldAgainstShare(s) = {}
          /\ shared' = [shared EXCEPT ![s] = IF txn[s] = "open" THEN @ \cup found ELSE @]
          /\ Then(r, IF req[r].validate THEN "referencing" ELSE "write")
          /\ UNCHANGED <<tables, txn, pending, gone, fresh, locked, callVars, uuid,
                         doomed, result, missed>>
          /\ \A q \in Request \ {r} : old'[q] = old[q] /\ list'[q] = list[q]
      BY <1>3, <2>2 DEF FindForDelete, TypeOK
    <3>2. found \in SUBSET Rows(s)
      OBVIOUS
    <3> HIDE DEF found
    <3>3. /\ pc'[r] \in {"referencing", "write"} /\ \A q \in Request \ {r} : pc'[q] = pc[q]
          /\ GoesOn(r)
      BY <3>1, <1>1, ThenMoves DEF GoesOn, Finding, Statement
    <3>4. \A t \in Session \ {s} : shared'[t] = shared[t]
      BY <3>1 DEF TypeOK
    <3>5. Own(r)
      BY <3>1, <3>3, <3>4 DEF Own, callVars
    <3>6. UNCHANGED <<tables, txnVars>> \/ Locks(r)
      <4>1. CASE txn[s] = "open"
        <5>1. Locks(r)
          BY <1>3, <4>1, <3>1, <3>2 DEF Locks, FindForDelete, Reads, Sent
        <5> QED
          BY <5>1
      <4>2. CASE txn[s] # "open"
        <5>1. shared' = shared
          BY <4>2, <3>1, <1>1 DEF TypeOK
        <5> QED
          BY <5>1, <3>1 DEF txnVars
      <4> QED
        BY <4>1, <4>2
    <3> QED
      BY <3>3, <3>5, <3>6 DEF Effect
  <2> QED
    BY <2>1, <2>2
<1>4. CASE ValidateReferences(r) /\ ~Fail(r)
  <2> DEFINE found == {w \in Rows(s) : w.table = "aliases" /\ w.alias \in req[r].refs}
  <2>1. /\ found \cap HeldAgainstUpdate(s) = {}
        /\ LockReferenced(s, found)
        /\ \E next \in {"write", "report"} : \E response : Refuse(r, next, response)
    BY <1>4 DEF ValidateReferences
  <2>2. found \in SUBSET Rows(s)
    OBVIOUS
  <2> HIDE DEF found
  <2>3. /\ pc'[r] \in {"report", "write"} /\ \A q \in Request \ {r} : pc'[q] = pc[q]
        /\ GoesOn(r)
    BY <2>1, <1>1, ThenMoves DEF GoesOn, Finding, Statement, Refuse
  <2>4. \A t \in Session \ {s} : locked'[t] = locked[t]
    BY <2>1 DEF TypeOK, LockReferenced
  <2>5. UNCHANGED <<tables, txn, pending, gone, fresh, shared, callVars, planVars>>
        /\ \A q \in Request \ {r} : result'[q] = result[q]
    BY <2>1 DEF Refuse, LockReferenced, TypeOK
  <2>6. Own(r)
    BY <2>3, <2>4, <2>5 DEF Own, callVars, planVars
  <2>7. UNCHANGED <<tables, txnVars>> \/ Locks(r)
    <3>1. CASE txn[s] = "open"
      <4>1. found \cap HeldAgainstShare(s) = {}
        BY <2>1 DEF HeldAgainstUpdate
      <4>3. pc[r] = "validate"
        BY <1>4 DEF ValidateReferences, Reads, Sent
      <4>2. Locks(r)
        BY <3>1, <4>1, <4>3, <2>1, <2>2, <2>5 DEF Locks, LockReferenced
      <4> QED
        BY <4>2
    <3>2. CASE txn[s] # "open"
      <4>1. locked' = locked
        BY <3>2, <2>1, <1>1 DEF TypeOK, LockReferenced
      <4> QED
        BY <4>1, <2>5 DEF txnVars
    <3> QED
      BY <3>1, <3>2
  <2> QED
    BY <2>3, <2>6, <2>7 DEF Effect
<1> QED
  BY <1>2, <1>3, <1>4

LEMMA ChangesEffect ==
    ASSUME TypeOK, NEW r \in Request, pc[r] \in {"write", "unalias", "alias", "unref", "ref"},
           session[r] \in Session, NEW next \in {"unalias", "alias", "unref", "ref", "commit"},
           Then(r, next), UNCHANGED callVars, Changes(r),
           \A q \in Request \ {r} : /\ uuid'[q] = uuid[q] /\ old'[q] = old[q] /\ list'[q] = list[q]
                                    /\ doomed'[q] = doomed[q] /\ result'[q] = result[q]
    PROVE  Own(r) /\ Effect(r)
<1>1. pc'[r] = next /\ \A q \in Request \ {r} : pc'[q] = pc[q]
  BY ThenMoves
<1>2. Own(r)
  BY <1>1, WriteOwn DEF Own, callVars, Changes
<1>3. GoesOn(r)
  BY <1>1 DEF GoesOn, Finding
<1> QED
  BY <1>2, <1>3 DEF Effect

LEMMA DocumentEffect ==
    ASSUME TypeOK, NEW r \in Request,
           InsertDocument(r) \/ UpdateDocument(r) \/ DeleteDocument(r)
    PROVE  Own(r) /\ Effect(r)
<1>1. pc[r] = "write" /\ session[r] \in Session /\ Blockers(r) = {} /\ req[r] \in Call
  BY SentTyped DEF InsertDocument, UpdateDocument, DeleteDocument, Writes, Sent, Statement
<1>2. CASE Fail(r)
  BY <1>1, <1>2, FailEffect
<1>3. CASE InsertDocument(r) /\ ~Fail(r)
  <2> DEFINE d == [j \in {req[r].id} |-> NewVersion(r, req[r].ts)]
  <2>1. /\ Write(session[r], d, {}, {}) /\ Then(r, "unalias") /\ result[r] = "INSERT_SUCCESS"
        /\ UNCHANGED <<callVars, planVars, result, missed>>
    BY <1>3 DEF InsertDocument
  <2>2. DOMAIN d \subseteq WrittenDocs(r)
    BY <1>1, <1>3, <2>1 DEF WrittenDocs, InsertDocument, Call
  <2> HIDE DEF d
  <2>3. Changes(r)
    BY <1>1, <2>1, <2>2 DEF Changes
  <2> QED
    BY <1>1, <2>1, <2>3, ChangesEffect DEF planVars
<1>4. CASE UpdateDocument(r) /\ ~Fail(r)
  <2>1. Then(r, "unalias") /\ UNCHANGED <<callVars, planVars>>
        /\ \A q \in Request \ {r} : result'[q] = result[q]
    BY <1>4 DEF UpdateDocument, TypeOK
  <2>2. CASE UNCHANGED <<tables, txnVars>>
    <3>1. pc'[r] = "unalias" /\ \A q \in Request \ {r} : pc'[q] = pc[q]
      BY <2>1, ThenMoves
    <3> QED
      BY <1>1, <2>1, <2>2, <3>1 DEF Own, Effect, GoesOn, Finding, callVars, planVars, txnVars
  <2>3. CASE ~UNCHANGED <<tables, txnVars>>
    <3> DEFINE view == View(session[r])
               moved(j) == [k \in {req[r].id, j} |->
                               IF k = req[r].id THEN NewVersion(r, view[j].createdAt) ELSE NoDoc]
    <3>1. PICK j \in At(view, uuid[r]) : Write(session[r], moved(j), {}, {})
      BY <1>4, <2>3 DEF UpdateDocument
    <3>2. req[r].op # "delete" /\ req[r].id \in Id /\ j \in Id
      BY <1>4, <3>1, <1>1 DEF UpdateDocument, Call, At
    <3>3. DOMAIN moved(j) \subseteq WrittenDocs(r)
      BY <1>1, <3>1, <3>2 DEF WrittenDocs
    <3> HIDE DEF moved
    <3>4. Changes(r)
      BY <1>1, <3>1, <3>3 DEF Changes
    <3> QED
      BY <1>1, <2>1, <3>4, ChangesEffect DEF planVars
  <2> QED
    BY <2>2, <2>3
<1>5. CASE DeleteDocument(r)
  <2> DEFINE at == At(View(session[r]), uuid[r])  d == [i \in at |-> NoDoc]
  <2>1. /\ Write(session[r], d, {}, {}) /\ Then(r, "unref") /\ req[r].op = "delete"
        /\ UNCHANGED <<callVars, planVars, missed>>
        /\ \A q \in Request \ {r} : result'[q] = result[q]
    BY <1>5 DEF DeleteDocument, TypeOK
  <2>2. DOMAIN d \subseteq WrittenDocs(r)
    BY <1>1, <2>1 DEF WrittenDocs, At
  <2> HIDE DEF d
  <2>3. Changes(r)
    BY <1>1, <2>1, <2>2 DEF Changes
  <2> QED
    BY <1>1, <2>1, <2>3, ChangesEffect DEF planVars
<1> QED
  BY <1>2, <1>3, <1>4, <1>5

LEMMA RowEffect ==
    ASSUME TypeOK, NEW r \in Request,
           DeleteAliases(r) \/ InsertAlias(r) \/ DeleteReferences(r) \/ InsertReference(r)
    PROVE  Own(r) /\ Effect(r)
<1>1. /\ pc[r] \in {"unalias", "alias", "unref", "ref"} /\ session[r] \in Session
      /\ Blockers(r) = {}
  BY SentTyped DEF DeleteAliases, InsertAlias, DeleteReferences, InsertReference, Writes,
     Sent, Statement
<1>2. DOMAIN Nothing \subseteq WrittenDocs(r)
  BY DEF Nothing
<1>3. UNCHANGED callVars /\ \E next \in {"unalias", "alias", "unref", "ref", "commit"} : Then(r, next)
  BY DEF DeleteAliases, InsertAlias, DeleteReferences, InsertReference, Finish
<1>4. \E inserted : \E deleted \in SUBSET DeletedRows(r) :
         Write(session[r], Nothing, deleted, inserted)
  BY DEF DeleteAliases, InsertAlias, DeleteReferences, InsertReference, ObsoleteAliases
<1>5. Changes(r)
  BY <1>1, <1>2, <1>4 DEF Changes
<1>6. \A q \in Request \ {r} : /\ uuid'[q] = uuid[q] /\ old'[q] = old[q] /\ list'[q] = list[q]
                               /\ doomed'[q] = doomed[q] /\ result'[q] = result[q]
  BY DEF DeleteAliases, InsertAlias, DeleteReferences, InsertReference, TypeOK
<1> QED
  BY <1>1, <1>3, <1>5, <1>6, ChangesEffect

LEMMA EndEffect ==
    ASSUME TypeOK, NEW r \in Request, Commit(r) \/ Rollback(r)
    PROVE  Own(r) /\ Effect(r)
<1>1. /\ pc[r] \in {"commit", "rollback"} /\ EndTransaction(session[r], "none")
      /\ Then(r, "done") /\ UNCHANGED <<callVars, planVars, result, missed>>
  BY DEF Commit, Rollback, Sent
<1>2. pc'[r] = "done" /\ \A q \in Request \ {r} : pc'[q] = pc[q]
  BY <1>1, ThenMoves
<1>3. session[r] \in Session
  BY <1>1 DEF TypeOK
<1> QED
  BY <1>1, <1>2, <1>3, EndOwn DEF Own, Effect, Ends, callVars, planVars

LEMMA StepEffect ==
    ASSUME TypeOK, NEW r \in Request, Step(r)
    PROVE  Own(r) /\ Effect(r)
<1>1. CASE Rejected(r) \/ Deadlock(r)
  <2>1. pc[r] \notin {"idle", "commit", "rollback", "done"} /\ Fail(r)
    BY <1>1 DEF Rejected, Deadlock
  <2>2. session[r] \in Session
    BY <2>1 DEF TypeOK
  <2> QED
    BY <2>1, <2>2, FailEffect
<1> QED
  BY <1>1, ReadEffect, LockEffect, DocumentEffect, RowEffect, EndEffect DEF Step

-----------------------------------------------------------------------------
(* What sessions hold.                                                      *)
LEMMA WriteHolds ==
    ASSUME TypeOK, NEW s \in Session, NEW d, NEW deleted, NEW inserted,
           Write(s, d, deleted, inserted)
    PROVE  /\ txn' = txn /\ shared' = shared /\ locked' = locked
           /\ txn[s] # "open" => UNCHANGED txnVars
           /\ txn[s] = "open" => /\ UNCHANGED tables
                                 /\ DOMAIN pending'[s] = DOMAIN pending[s] \cup DOMAIN d
                                 /\ \A i \in DOMAIN d : pending'[s][i] = d[i]
                                 /\ \A i \in DOMAIN pending[s] \ DOMAIN d :
                                       pending'[s][i] = pending[s][i]
                                 /\ gone'[s] = gone[s] \cup (deleted \ fresh[s])
                                 /\ fresh'[s] = (fresh[s] \ deleted) \cup inserted
<1>1. CASE txn[s] = "open"
  <2> DEFINE new == [i \in DOMAIN pending[s] \cup DOMAIN d |->
                       IF i \in DOMAIN d THEN d[i] ELSE pending[s][i]]
  <2>1. pending' = [pending EXCEPT ![s] = new] /\ UNCHANGED <<tables, txn, shared, locked>>
    BY <1>1 DEF Write
  <2>2. /\ gone' = [gone EXCEPT ![s] = @ \cup (deleted \ fresh[s])]
        /\ fresh' = [fresh EXCEPT ![s] = (@ \ deleted) \cup inserted]
    BY <1>1 DEF Write
  <2>3. /\ DOMAIN new = DOMAIN pending[s] \cup DOMAIN d
        /\ \A i \in DOMAIN d : new[i] = d[i]
        /\ \A i \in DOMAIN pending[s] \ DOMAIN d : new[i] = pending[s][i]
    OBVIOUS
  <2> HIDE DEF new
  <2>4. pending'[s] = new
    BY <2>1 DEF TypeOK
  <2>5. /\ gone'[s] = gone[s] \cup (deleted \ fresh[s])
        /\ fresh'[s] = (fresh[s] \ deleted) \cup inserted
    BY <2>2 DEF TypeOK
  <2> QED
    BY <1>1, <2>1, <2>3, <2>4, <2>5
<1>2. CASE txn[s] # "open"
  BY <1>2 DEF Write, txnVars
<1> QED
  BY <1>1, <1>2

LEMMA EndHolds ==
    ASSUME TypeOK, NEW s \in Session, NEW status, EndTransaction(s, status)
    PROVE  txn'[s] = status /\ HoldsNothing(s)'
BY DEF TypeOK, EndTransaction, HoldsNothing, Nothing

LEMMA OthersKeepSessionInv ==
    ASSUME TypeOK, SessionInv, NEW r \in Request, session[r] \in Session, Own(r),
           pc[r] # "idle"
    PROVE  \A t \in Session \ {session[r]} :
              /\ (\A q \in Active(t)' : pc'[q] \in Finding) => txn'[t] # "failed" /\ HoldsNothing(t)'
              /\ txn'[t] # "open" => HoldsNothing(t)'
<1> SUFFICES ASSUME NEW t \in Session \ {session[r]}
             PROVE  /\ (\A q \in Active(t)' : pc'[q] \in Finding)
                           => txn'[t] # "failed" /\ HoldsNothing(t)'
                    /\ txn'[t] # "open" => HoldsNothing(t)'
  OBVIOUS
<1>1. Active(t)' = Active(t) /\ \A q \in Active(t) : pc'[q] = pc[q]
  BY DEF Own, Active
<1>2. HoldsNothing(t)' = HoldsNothing(t) /\ txn'[t] = txn[t]
  BY DEF Own, HoldsNothing
<1> QED
  BY <1>1, <1>2 DEF SessionInv

LEMMA StepSessionInv ==
    ASSUME TypeOK, SessionInv, NEW r \in Request, Step(r)
    PROVE  SessionInv'
<1>1. Own(r) /\ Effect(r)
  BY StepEffect
<1>0. pc[r] \notin {"idle", "done"} /\ session[r] \in Session
  BY <1>1 DEF Effect, Opens, Answers, Ends, Breaks, GoesOn, TypeOK
<1>2. PICK s \in Session : s = session[r]
  BY <1>0
<1>3. SUFFICES /\ (\A q \in Active(s)' : pc'[q] \in Finding) => txn'[s] # "failed" /\ HoldsNothing(s)'
               /\ txn'[s] # "open" => HoldsNothing(s)'
  BY <1>0, <1>1, <1>2, OthersKeepSessionInv DEF SessionInv
<1>4. r \in Active(s) /\ session' = session /\ \A q \in Request \ {r} : pc'[q] = pc[q]
  BY <1>0, <1>1, <1>2 DEF Active, Own
<1>5. CASE Opens(r) \/ Answers(r)
  <2>1. pc[r] \in Finding
    BY <1>5 DEF Opens, Answers, Finding
  <2>2. (\A q \in Active(s)' : pc'[q] \in Finding) => \A q \in Active(s) : pc[q] \in Finding
    BY <1>4, <2>1 DEF Active
  <2>3. HoldsNothing(s)' = HoldsNothing(s) /\ (txn'[s] = txn[s] \/ txn'[s] = "open")
    BY <1>2, <1>5 DEF Opens, Answers, HoldsNothing, txnVars
  <2> QED
    BY <1>2, <2>2, <2>3 DEF SessionInv
<1>6. CASE Ends(r)
  BY <1>2, <1>6, EndHolds DEF Ends
<1>7. CASE Breaks(r)
  <2>1. r \in Active(s)' /\ pc'[r] \notin Finding
    BY <1>4, <1>7 DEF Breaks, Active, Finding
  <2> QED
    BY <1>2, <1>7, <2>1, EndHolds DEF Breaks
<1>8. CASE GoesOn(r) /\ (UNCHANGED <<tables, txnVars>> \/ Locks(r) \/ Changes(r))
  <2>1. r \in Active(s)' /\ pc'[r] \notin Finding
    BY <1>4, <1>8 DEF GoesOn, Active
  <2>2. txn'[s] # "open" => HoldsNothing(s)'
    <3>1. CASE UNCHANGED txnVars
      BY <1>2, <3>1 DEF SessionInv, HoldsNothing, txnVars
    <3>2. CASE Locks(r)
      BY <1>2, <3>2 DEF Locks
    <3>3. CASE Changes(r) /\ ~UNCHANGED txnVars
      BY <1>2, <3>3, WriteHolds DEF Changes
    <3> QED
      BY <1>8, <3>1, <3>2, <3>3
  <2> QED
    BY <2>1, <2>2
<1> QED
  BY <1>1, <1>5, <1>6, <1>7, <1>8 DEF Effect

LEMMA StepLocksExclude ==
    ASSUME TypeOK, LocksExclude, NEW r \in Request, Step(r)
    PROVE  LocksExclude'
<1>1. Own(r) /\ Effect(r)
  BY StepEffect
<1>2. PICK s \in Session : s = session[r]
  BY <1>1 DEF Effect, Opens, Answers, Ends, Breaks, GoesOn, TypeOK
<1>3. \A t \in Session \ {s} : /\ pending'[t] = pending[t] /\ gone'[t] = gone[t]
                               /\ shared'[t] = shared[t] /\ locked'[t] = locked[t]
  BY <1>1, <1>2 DEF Own
<1>4. SUFFICES \A t \in Session \ {s} :
                  /\ DOMAIN pending'[s] \cap DOMAIN pending[t] = {}
                  /\ gone'[s] \cap (gone[t] \cup shared[t] \cup locked[t]) = {}
                  /\ gone[t] \cap (shared'[s] \cup locked'[s]) = {}
                  /\ locked'[s] \cap (shared[t] \cup locked[t]) = {}
                  /\ locked[t] \cap shared'[s] = {}
  BY <1>2, <1>3 DEF LocksExclude
<1>5. SUFFICES ASSUME NEW t \in Session \ {s}
               PROVE  /\ DOMAIN pending'[s] \cap DOMAIN pending[t] = {}
                      /\ gone'[s] \cap (gone[t] \cup shared[t] \cup locked[t]) = {}
                      /\ gone[t] \cap (shared'[s] \cup locked'[s]) = {}
                      /\ locked'[s] \cap (shared[t] \cup locked[t]) = {}
                      /\ locked[t] \cap shared'[s] = {}
  OBVIOUS
<1>6. /\ DOMAIN pending[s] \cap DOMAIN pending[t] = {}
      /\ gone[s] \cap (gone[t] \cup shared[t] \cup locked[t]) = {}
      /\ gone[t] \cap (shared[s] \cup locked[s]) = {}
      /\ locked[s] \cap (shared[t] \cup locked[t]) = {}
      /\ locked[t] \cap shared[s] = {}
  BY <1>2 DEF LocksExclude
<1>7. CASE UNCHANGED <<pending, gone, shared, locked>>
  BY <1>6, <1>7
<1>8. CASE Ends(r) \/ Breaks(r)
  <2>1. HoldsNothing(s)'
    BY <1>2, <1>8, EndHolds DEF Ends, Breaks
  <2> QED
    BY <2>1 DEF HoldsNothing
<1>9. CASE Locks(r)
  <2>1. PICK found \in SUBSET Rows(s) :
           /\ found \cap HeldAgainstShare(s) = {}
           /\ \/ /\ shared' = [shared EXCEPT ![s] = @ \cup found]
                 /\ UNCHANGED locked
              \/ /\ found \cap HeldAgainstUpdate(s) = {}
                 /\ locked' = [locked EXCEPT ![s] = @ \cup found]
                 /\ UNCHANGED shared
           /\ UNCHANGED <<pending, gone>>
    BY <1>2, <1>9 DEF Locks
  <2>2. gone[t] \cup locked[t] \subseteq HeldAgainstShare(s)
    BY DEF HeldAgainstShare
  <2>3. shared[t] \subseteq HeldAgainstUpdate(s)
    BY DEF HeldAgainstUpdate
  <2>4. \/ shared'[s] = shared[s] \cup found /\ locked'[s] = locked[s]
        \/ /\ locked'[s] = locked[s] \cup found /\ shared'[s] = shared[s]
           /\ found \cap HeldAgainstUpdate(s) = {}
    BY <1>2, <2>1 DEF TypeOK
  <2> QED
    BY <1>6, <2>1, <2>2, <2>3, <2>4
<1>10. CASE Changes(r)
  <2>0. PICK d, inserted : \E deleted \in SUBSET DeletedRows(r) :
           /\ DOMAIN d \subseteq WrittenDocs(r)
           /\ Blockers(r) = {}
           /\ Write(s, d, deleted, inserted)
    BY <1>2, <1>10 DEF Changes
  <2>1. PICK deleted \in SUBSET DeletedRows(r) :
           /\ DOMAIN d \subseteq WrittenDocs(r)
           /\ Blockers(r) = {}
           /\ Write(s, d, deleted, inserted)
    BY <2>0
  <2>2. /\ WrittenDocs(r) \cap DOMAIN pending[t] = {}
        /\ DeletedRows(r) \cap (gone[t] \cup shared[t] \cup locked[t]) = {}
    BY <1>2, <2>1 DEF Blockers, Others
  <2>3. CASE txn[s] = "open"
    BY <1>2, <1>6, <2>1, <2>2, <2>3, WriteHolds
  <2>4. CASE txn[s] # "open"
    BY <1>2, <1>7, <2>1, <2>4, WriteHolds DEF txnVars
  <2> QED
    BY <2>3, <2>4
<1> QED
  BY <1>1, <1>7, <1>8, <1>9, <1>10 DEF Effect, Opens, Answers, txnVars

LEMMA ReceiveSessions ==
    ASSUME TypeOK, SessionInv, LocksExclude, NEW r \in Request, Receive(r)
    PROVE  SessionInv' /\ LocksExclude'
<1>1. UNCHANGED txnVars /\ pc[r] = "idle" /\ pc'[r] = "begin"
      /\ \A q \in Request \ {r} : pc'[q] = pc[q] /\ session'[q] = session[q]
  BY DEF Receive, TypeOK
<1>2. LocksExclude'
  BY <1>1 DEF LocksExclude, txnVars
<1>3. ASSUME NEW s \in Session
      PROVE  /\ (\A q \in Active(s)' : pc'[q] \in Finding) => txn'[s] # "failed" /\ HoldsNothing(s)'
             /\ txn'[s] # "open" => HoldsNothing(s)'
  <2>1. \A q \in Active(s) : q \in Active(s)' /\ pc'[q] = pc[q]
    BY <1>1 DEF Active
  <2>2. HoldsNothing(s)' = HoldsNothing(s) /\ txn'[s] = txn[s]
    BY <1>1 DEF HoldsNothing, txnVars
  <2> QED
    BY <2>1, <2>2 DEF SessionInv
<1> QED
  BY <1>2, <1>3 DEF SessionInv

LEMMA CrashSessions ==
    ASSUME TypeOK, SessionInv, LocksExclude, NEW s \in Session, Crash(s)
    PROVE  SessionInv' /\ LocksExclude'
<1>1. /\ \A t \in Session \ {s} :
            /\ txn'[t] = txn[t] /\ pending'[t] = pending[t] /\ gone'[t] = gone[t]
            /\ fresh'[t] = fresh[t] /\ shared'[t] = shared[t] /\ locked'[t] = locked[t]
      /\ txn'[s] = "none" /\ HoldsNothing(s)'
  BY EndOwn, EndHolds DEF Crash
<1>2. LocksExclude'
  <2> SUFFICES ASSUME NEW t \in Session, NEW u \in Session, t # u
               PROVE  /\ DOMAIN pending'[t] \cap DOMAIN pending'[u] = {}
                      /\ gone'[t] \cap (gone'[u] \cup shared'[u] \cup locked'[u]) = {}
                      /\ locked'[t] \cap (shared'[u] \cup locked'[u]) = {}
    BY DEF LocksExclude
  <2>1. CASE t = s \/ u = s
    BY <2>1, <1>1 DEF HoldsNothing
  <2>2. CASE t # s /\ u # s
    BY <2>2, <1>1 DEF LocksExclude
  <2> QED
    BY <2>1, <2>2
<1>3. ASSUME NEW t \in Session
      PROVE  /\ (\A q \in Active(t)' : pc'[q] \in Finding) => txn'[t] # "failed" /\ HoldsNothing(t)'
             /\ txn'[t] # "open" => HoldsNothing(t)'
  <2>1. CASE t = s
    BY <2>1, <1>1
  <2>2. CASE t # s
    <3>1. Active(t)' = Active(t) /\ \A q \in Active(t) : pc'[q] = pc[q]
      BY <2>2 DEF Crash, Active, callVars
    <3>2. HoldsNothing(t)' = HoldsNothing(t) /\ txn'[t] = txn[t]
      BY <1>1, <2>2 DEF HoldsNothing
    <3> QED
      BY <3>1, <3>2 DEF SessionInv
  <2> QED
    BY <2>1, <2>2
<1> QED
  BY <1>2, <1>3 DEF SessionInv

LEMMA InitSessions == Init => SessionInv /\ LocksExclude
BY DEF Init, SessionInv, LocksExclude, HoldsNothing, Nothing

LEMMA NextSessions == TypeOK /\ SessionInv /\ LocksExclude /\ [Next]_vars => SessionInv' /\ LocksExclude'
<1> SUFFICES ASSUME TypeOK, SessionInv, LocksExclude, [Next]_vars PROVE SessionInv' /\ LocksExclude'
  OBVIOUS
<1>1. CASE UNCHANGED vars
  BY <1>1 DEF vars, tables, txnVars, callVars, SessionInv, LocksExclude, HoldsNothing, Active
<1> QED
  BY <1>1, ReceiveSessions, CrashSessions, StepSessionInv, StepLocksExclude DEF Next, Quiescent

(* No document and no row is written by two transactions at a time, nor is  *)
(* a row deleted or locked FOR NO KEY UPDATE that another session has       *)
(* locked, however many calls share a session.                              *)
THEOREM SessionsExclude == Spec => [](SessionInv /\ LocksExclude)
BY InitSessions, NextSessions, TypeCorrect, PTL DEF Spec

(* A session without calls holds no lock and no uncommitted write, whatever *)
(* responses were returned without ROLLBACK on it.                          *)
THEOREM LeftOpenSafe == Spec => []LeftOpenHoldsNothing
<1>1. SessionInv => LeftOpenHoldsNothing
  BY DEF SessionInv, LeftOpenHoldsNothing, HoldsNothing
<1> QED
  BY <1>1, SessionsExclude, PTL

------------------------------------------------------------------------------
(* What a call has written at each of its statements, and what its commit   *)
(* does, on sessions that serve one call at a time: PostgresStore is a      *)
(* DocumentStore, and what is answered is what is committed.                *)

LEMMA OneCall ==
    ASSUME TypeOK, OneCallPerSession, NEW s \in Session, NEW r \in Active(s), NEW q \in Active(s)
    PROVE  r = q
<1>1. /\ r \in Request /\ q \in Request /\ QueueOK(s) /\ queue[s] \in Seq(Request)
      /\ Len(queue[s]) <= 1
  BY DEF TypeOK, Active, OneCallPerSession, QueueOK
<1>2. DOMAIN queue[s] \subseteq {1}
  <2> DEFINE l == queue[s]
  <2>1. l \in Seq(Request) /\ Len(l) <= 1
    BY <1>1
  <2> HIDE DEF l
  <2>2. Len(l) \in Nat /\ DOMAIN l = 1 .. Len(l)
    BY <2>1
  <2>3. DOMAIN l \subseteq {1}
    BY <2>1, <2>2
  <2> QED
    BY <2>3 DEF l
<1> QED
  BY <1>1, <1>2 DEF QueueOK

(* Before a call has written, it sees what is committed.                    *)
LEMMA SeesCommitted ==
    ASSUME TypeOK, NEW s \in Session, DOMAIN pending[s] = {}, gone[s] = {}, fresh[s] = {}
    PROVE  View(s) = docs /\ Rows(s) = rows
<1>1. \A i \in Id : View(s)[i] = docs[i]
  BY ViewTyped
<1>2. View(s) = docs
  <2>1. docs \in [Id -> Doc \cup {NoDoc}]
    BY DEF TypeOK, Store
  <2>2. View(s) \in [Id -> Doc \cup {NoDoc}]
    BY ViewTyped DEF Store
  <2> DEFINE v == View(s)
  <2> HIDE DEF v
  <2>3. v \in [Id -> Doc \cup {NoDoc}] /\ \A i \in Id : v[i] = docs[i]
    BY <1>1, <2>2 DEF v
  <2>4. v = docs
    BY <2>1, <2>3
  <2> QED
    BY <2>4 DEF v
<1> QED
  BY <1>2 DEF Rows

LEMMA FindingHoldsNothing ==
    ASSUME TypeOK, SessionInv, OneCallPerSession, NEW r \in Request, pc[r] \in Finding
    PROVE  txn[session[r]] # "failed" /\ HoldsNothing(session[r])
<1>1. session[r] \in Session /\ r \in Active(session[r])
  BY DEF TypeOK, Active, Finding
<1>2. \A q \in Active(session[r]) : pc[q] \in Finding
  BY <1>1, OneCall
<1> QED
  BY <1>1, <1>2 DEF SessionInv

CallInv(r) == TransactionOf(r) /\ PlanOf(r) /\ EffectOf(r)

(* A step of r that commits nothing.                                        *)
Private(r) ==
    /\ Own(r) /\ pc[r] \notin {"idle", "done"}
    /\ UNCHANGED tables /\ (missed => missed')

LEMMA SessionOfOther ==
    ASSUME TypeOK, OneCallPerSession, NEW r \in Request, pc[r] \notin {"idle", "done"},
           NEW q \in Request \ {r}, pc[q] \notin {"idle", "done"}
    PROVE  session[q] \in Session \ {session[r]}
<1>1. session[r] \in Session /\ session[q] \in Session
  BY DEF TypeOK
<1>2. r \in Active(session[r]) /\ q \in Active(session[q])
  BY <1>1 DEF Active
<1> QED
  BY <1>1, <1>2, OneCall

LEMMA BystanderInv ==
    ASSUME TypeOK, OneCallPerSession, NEW r \in Request, Own(r), pc[r] \notin {"idle", "done"},
           NEW q \in Request \ {r}, CallInv(q), UNCHANGED <<docs, issued>>, missed => missed'
    PROVE  CallInv(q)'
<1>1. /\ pc'[q] = pc[q] /\ uuid'[q] = uuid[q] /\ old'[q] = old[q] /\ list'[q] = list[q]
      /\ doomed'[q] = doomed[q] /\ result'[q] = result[q]
      /\ req'[q] = req[q] /\ session'[q] = session[q]
  BY DEF Own
<1>2. PlanOf(q)'
  BY <1>1 DEF CallInv, PlanOf
<1>3. CASE pc[q] \in {"idle", "done"}
  BY <1>1, <1>2, <1>3 DEF CallInv, TransactionOf, EffectOf, Checking, Written
<1>4. CASE pc[q] \notin {"idle", "done"}
  <2>1. /\ txn'[session[q]] = txn[session[q]] /\ pending'[session[q]] = pending[session[q]]
        /\ gone'[session[q]] = gone[session[q]] /\ fresh'[session[q]] = fresh[session[q]]
    BY <1>4, SessionOfOther DEF Own
  <2>2. TransactionOf(q)'
    BY <1>1, <2>1 DEF CallInv, TransactionOf
  <2>3. EffectOf(q)'
    BY <1>1, <2>1 DEF CallInv, EffectOf, Inserts, Updates, Deletes, FindsNothing, NewVersion, UuidsIn
  <2> QED
    BY <1>2, <2>2, <2>3 DEF CallInv
<1> QED
  BY <1>3, <1>4

LEMMA PrivateInv ==
    ASSUME TypeOK, IdentityInv, OneCallPerSession, NEW r \in Request, Private(r), CallInv(r)'
    PROVE  IdentityInv'
<1>1. \A q \in Request : CallInv(q)'
  <2>1. \A q \in Request \ {r} : CallInv(q)'
    BY BystanderInv DEF IdentityInv, CallInv, Private, tables
  <2> QED
    BY <2>1
<1>2. \A q \in Request : q \in issued' => pc'[q] = "done"
  BY DEF IdentityInv, Private, Own, tables
<1>3. Abstract!UuidUnique'
  BY DEF IdentityInv, Private, tables, Abstract!UuidUnique, Abstract!Present
<1>4. UuidsIn(docs)' \subseteq issued' /\ NoUuid \notin issued'
  BY DEF IdentityInv, Private, tables, UuidsIn
<1> QED
  BY <1>1, <1>2, <1>3, <1>4 DEF IdentityInv, CallInv

-----------------------------------------------------------------------------
(* The steps that commit nothing.                                           *)
LEMMA StepPrivate ==
    ASSUME TypeOK, SessionInv, IdentityInv, OneCallPerSession, NEW r \in Request, Step(r), ~Commit(r)
    PROVE  Private(r)
<1>1. Own(r) /\ Effect(r)
  BY StepEffect
<1>2. pc[r] \notin {"idle", "done"}
  BY <1>1 DEF Effect, Opens, Answers, Ends, Breaks, GoesOn
<1>3. UNCHANGED tables
  <2>1. CASE Ends(r)
    <3>1. pc[r] \in {"commit", "rollback"}
      BY <2>1 DEF Ends
    <3>2. Rollback(r)
      BY <3>1 DEF Step, Begin, Rejected, FindForUpsert, FindForUpdate, FindForDelete,
         CheckReferencing, CheckSuperclass, ValidateReferences, Report, InsertDocument,
         UpdateDocument, DeleteDocument, DeleteAliases, InsertAlias, DeleteReferences,
         InsertReference, Wait, Deadlock, Sent, Reads, Writes
    <3> QED
      BY <3>2 DEF Rollback
  <2>2. CASE GoesOn(r) /\ Changes(r)
    <3>1. pc[r] \in Checking \cup Written /\ session[r] \in Session
      BY <2>2 DEF Changes, Checking, Written, TypeOK
    <3>2. txn[session[r]] = "open"
      BY <3>1 DEF IdentityInv, TransactionOf
    <3> QED
      BY <2>2, <3>1, <3>2, WriteHolds DEF Changes
  <2> QED
    BY <1>1, <2>1, <2>2 DEF Effect, Opens, Answers, Breaks, Locks
<1>4. missed => missed'
  BY DEF Step, Begin, Rejected, FindForUpsert, FindForUpdate, FindForDelete,
     CheckReferencing, CheckSuperclass, ValidateReferences, Report, InsertDocument,
     UpdateDocument, DeleteDocument, DeleteAliases, InsertAlias, DeleteReferences,
     InsertReference, Wait, Deadlock, Rollback, Return, Refuse, Fail
<1> QED
  BY <1>1, <1>2, <1>3, <1>4 DEF Private

(* An answer, or a ROLLBACK, is no promise of success.                      *)
LEMMA FailInv ==
    ASSUME TypeOK, IdentityInv, NEW r \in Request, pc[r] \notin {"idle", "done"}, Own(r),
           UNCHANGED <<uuid, issued>>, pc'[r] \in {"rollback", "done"}, result'[r] \notin Success
    PROVE  CallInv(r)'
<1>1. TransactionOf(r)' /\ EffectOf(r)'
  BY DEF TransactionOf, EffectOf, Checking, Written
<1>2. req'[r] = req[r] /\ uuid'[r] = uuid[r]
  BY DEF Own
<1>3. PlanOf(r)'
  BY <1>2 DEF IdentityInv, PlanOf, Success, Finding, Checking
<1> QED
  BY <1>1, <1>3 DEF CallInv

LEMMA RefusedInv ==
    ASSUME TypeOK, SessionInv, IdentityInv, OneCallPerSession, NEW r \in Request, Private(r),
           \/ Fail(r)
           \/ \E response : Return(r, response) /\ response \notin Success
           \/ \E response : Refuse(r, "rollback", response) /\ response \notin Success
    PROVE  CallInv(r)'
<1>1. pc'[r] \in {"rollback", "done"} /\ UNCHANGED uuid
  BY ThenMoves DEF Fail, Return, Refuse, planVars
<1>2. result'[r] \notin Success
  BY DEF Fail, Return, Refuse, Success, TypeOK
<1> QED
  BY <1>1, <1>2, FailInv DEF Private, tables

LEMMA BeginCall ==
    ASSUME TypeOK, SessionInv, IdentityInv, OneCallPerSession, NEW r \in Request, Private(r), Begin(r)
    PROVE  CallInv(r)'
<1>1. pc[r] = "begin" /\ pc'[r] = "find"
  BY ThenMoves DEF Begin, Sent
<1>2. session[r] \in Session
  BY <1>1 DEF TypeOK
<1>3. txn'[session[r]] = "open" /\ UNCHANGED <<callVars, planVars, result, issued>>
  BY <1>2 DEF Begin, TypeOK, tables
<1>4. TransactionOf(r)' /\ EffectOf(r)'
  BY <1>1, <1>3 DEF TransactionOf, EffectOf, Checking, Written, callVars
<1>5. PlanOf(r)'
  BY <1>1, <1>3 DEF IdentityInv, PlanOf, Finding, Checking, callVars, planVars
<1> QED
  BY <1>4, <1>5 DEF CallInv

(* The first statement finds what is committed.                             *)
LEMMA FindSees ==
    ASSUME TypeOK, SessionInv, IdentityInv, OneCallPerSession, NEW r \in Request, pc[r] = "find"
    PROVE  /\ session[r] \in Session /\ HoldsNothing(session[r]) /\ txn[session[r]] = "open"
           /\ View(session[r]) = docs /\ Rows(session[r]) = rows
           /\ req[r] \in Call
<1>1. session[r] \in Session /\ req[r] \in Call
  BY InputAssumption DEF TypeOK
<1>2. HoldsNothing(session[r]) /\ txn[session[r]] = "open"
  BY FindingHoldsNothing DEF Finding, IdentityInv, TransactionOf
<1> QED
  BY <1>1, <1>2, SeesCommitted DEF HoldsNothing

(* So do the statements that check.                                         *)
LEMMA CheckSees ==
    ASSUME TypeOK, IdentityInv, NEW r \in Request, pc[r] \in Checking
    PROVE  /\ session[r] \in Session /\ txn[session[r]] = "open"
           /\ DOMAIN pending[session[r]] = {} /\ gone[session[r]] = {} /\ fresh[session[r]] = {}
           /\ View(session[r]) = docs /\ Rows(session[r]) = rows
           /\ req[r] \in Call
<1>1. session[r] \in Session /\ req[r] \in Call
  BY InputAssumption DEF TypeOK, Checking
<1>2. /\ txn[session[r]] = "open"
      /\ DOMAIN pending[session[r]] = {} /\ gone[session[r]] = {} /\ fresh[session[r]] = {}
  BY DEF IdentityInv, TransactionOf
<1> QED
  BY <1>1, <1>2, SeesCommitted

(* A check that is passed: nothing is written.                              *)
LEMMA CheckedTransaction ==
    ASSUME NEW r \in Request, session[r] \in Session, session' = session, txn[session[r]] = "open",
           DOMAIN pending[session[r]] = {}, gone[session[r]] = {}, fresh[session[r]] = {},
           UNCHANGED <<txn, pending, gone, fresh>>, pc'[r] \in Checking \cup {"rollback"}
    PROVE  TransactionOf(r)' /\ EffectOf(r)'
BY DEF TransactionOf, EffectOf, Checking, Written

LEMMA FindForUpsertCall ==
    ASSUME TypeOK, SessionInv, IdentityInv, OneCallPerSession, NEW r \in Request, Private(r),
           FindForUpsert(r)
    PROVE  CallInv(r)'
<1> DEFINE i == req[r].id
<1>1. pc[r] = "find" /\ req[r].op = "upsert"
  BY DEF FindForUpsert, Reads, Sent
<1>2. /\ session[r] \in Session /\ txn[session[r]] = "open" /\ View(session[r]) = docs
      /\ DOMAIN pending[session[r]] = {} /\ gone[session[r]] = {} /\ fresh[session[r]] = {}
      /\ i \in Id
  BY <1>1, FindSees DEF HoldsNothing, Call
<1>3. CASE Return(r, "UPSERT_FAILURE_WRITE_CONFLICT")
  BY <1>3, RefusedInv DEF Success
<1>4. CASE ~Return(r, "UPSERT_FAILURE_WRITE_CONFLICT")
  <2>1. /\ uuid'[r] = IF docs[i] = NoDoc THEN r ELSE docs[i].uuid
        /\ result'[r] = IF docs[i] = NoDoc THEN "INSERT_SUCCESS" ELSE "UPDATE_SUCCESS"
        /\ UNCHANGED <<tables, txnVars, callVars>>
    BY <1>2, <1>4 DEF FindForUpsert, TypeOK
  <2>2. /\ pc'[r] = IF docs[i] = NoDoc /\ Super[i] # {} THEN "super" ELSE BeforeWrite(r)
        /\ BeforeWrite(r) \in {"validate", "write"}
    BY <1>2, <1>4, ThenMoves DEF FindForUpsert, BeforeWrite
  <2>3. docs[i] # NoDoc => docs[i].uuid \in issued
    BY <1>2, StoreUuids DEF IdentityInv, TypeOK
  <2>4. TransactionOf(r)' /\ EffectOf(r)'
    BY <1>2, <2>1, <2>2, CheckedTransaction DEF Checking, txnVars, callVars
  <2>5. PlanOf(r)'
    <3>1. CASE docs[i] = NoDoc
      BY <1>1, <2>1, <2>2, <3>1 DEF PlanOf, Finding, Checking, callVars
    <3>2. CASE docs[i] # NoDoc
      BY <1>1, <2>1, <2>2, <2>3, <3>2 DEF PlanOf, Finding, Checking, callVars, tables
    <3> QED
      BY <3>1, <3>2
  <2> QED
    BY <2>4, <2>5 DEF CallInv
<1> QED
  BY <1>3, <1>4

LEMMA FindForUpdateCall ==
    ASSUME TypeOK, SessionInv, IdentityInv, OneCallPerSession, NEW r \in Request, Private(r),
           FindForUpdate(r)
    PROVE  CallInv(r)'
<1>1. pc[r] = "find" /\ req[r].op = "update"
  BY DEF FindForUpdate, Reads, Sent
<1>2. /\ session[r] \in Session /\ txn[session[r]] = "open" /\ View(session[r]) = docs
      /\ DOMAIN pending[session[r]] = {} /\ gone[session[r]] = {} /\ fresh[session[r]] = {}
  BY <1>1, FindSees DEF HoldsNothing
<1>3. CASE \E response : Return(r, response) /\ response \notin Success
  BY <1>3, RefusedInv
<1>4. CASE ~\E response : Return(r, response) /\ response \notin Success
  <2>1. PICK i \in At(docs, uuid[r]) :
           /\ result' = [result EXCEPT ![r] = "UPDATE_SUCCESS"]
           /\ Then(r, BeforeWrite(r))
           /\ UNCHANGED <<tables, txnVars, callVars, uuid>>
    BY <1>2, <1>4 DEF FindForUpdate, Success
  <2>2. pc'[r] \in {"validate", "write"} /\ result'[r] = "UPDATE_SUCCESS"
    BY <2>1, ThenMoves DEF BeforeWrite, TypeOK
  <2>3. uuid[r] \in issued
    BY <2>1, StoreUuids DEF IdentityInv, TypeOK, At
  <2>4. TransactionOf(r)' /\ EffectOf(r)'
    BY <1>2, <2>1, <2>2, CheckedTransaction DEF Checking, txnVars, callVars
  <2>5. PlanOf(r)'
    BY <1>1, <2>1, <2>2, <2>3 DEF PlanOf, Finding, Checking, callVars, tables
  <2> QED
    BY <2>4, <2>5 DEF CallInv
<1> QED
  BY <1>3, <1>4

LEMMA FindForDeleteCall ==
    ASSUME TypeOK, SessionInv, IdentityInv, OneCallPerSession, NEW r \in Request, Private(r),
           FindForDelete(r)
    PROVE  CallInv(r)'
<1>1. pc[r] = "find" /\ req[r].op = "delete"
  BY DEF FindForDelete, Reads, Sent
<1>2. /\ session[r] \in Session /\ txn[session[r]] = "open"
      /\ DOMAIN pending[session[r]] = {} /\ gone[session[r]] = {} /\ fresh[session[r]] = {}
  BY <1>1, FindSees DEF HoldsNothing
<1>3. CASE Fail(r) \/ Refuse(r, "rollback", "DELETE_FAILURE_NOT_EXISTS")
  BY <1>3, RefusedInv DEF Success
<1>4. CASE ~(Fail(r) \/ Refuse(r, "rollback", "DELETE_FAILURE_NOT_EXISTS"))
  <2>1. /\ Then(r, IF req[r].validate THEN "referencing" ELSE "write")
        /\ UNCHANGED <<tables, txn, pending, gone, fresh, callVars, uuid, result>>
    BY <1>4 DEF FindForDelete
  <2>2. pc'[r] \in {"referencing", "write"}
    BY <2>1, ThenMoves
  <2>3. TransactionOf(r)' /\ EffectOf(r)'
    BY <1>2, <2>1, <2>2, CheckedTransaction DEF Checking, callVars
  <2>4. PlanOf(r)'
    BY <1>1, <2>1, <2>2 DEF IdentityInv, PlanOf, Finding, Checking, callVars, tables
  <2> QED
    BY <2>3, <2>4 DEF CallInv
<1> QED
  BY <1>3, <1>4

LEMMA CheckReferencingCall ==
    ASSUME TypeOK, SessionInv, IdentityInv, OneCallPerSession, NEW r \in Request, Private(r),
           CheckReferencing(r)
    PROVE  CallInv(r)'
<1>1. pc[r] = "referencing" /\ UNCHANGED <<tables, txnVars, callVars, uuid, result>>
  BY DEF CheckReferencing, Reads, Sent
<1>2. pc'[r] \in {"report", "write"}
  BY ThenMoves DEF CheckReferencing
<1>3. TransactionOf(r)' /\ EffectOf(r)'
  BY <1>1, <1>2, CheckSees, CheckedTransaction DEF Checking, callVars, txnVars
<1>4. PlanOf(r)'
  BY <1>1, <1>2 DEF IdentityInv, PlanOf, Finding, Checking, Success, callVars, tables
<1> QED
  BY <1>3, <1>4 DEF CallInv

LEMMA CheckSuperclassCall ==
    ASSUME TypeOK, SessionInv, IdentityInv, OneCallPerSession, NEW r \in Request, Private(r),
           CheckSuperclass(r)
    PROVE  CallInv(r)'
<1>1. /\ pc[r] = "super" /\ UNCHANGED <<tables, txnVars, callVars, uuid>>
      /\ BeforeWrite(r) \in {"validate", "write"}
  BY DEF CheckSuperclass, Reads, Sent, Refuse, planVars, BeforeWrite
<1>2. \/ pc'[r] = "report" /\ result'[r] = "INSERT_FAILURE_CONFLICT"
      \/ pc'[r] = BeforeWrite(r) /\ result'[r] = result[r]
  BY ThenMoves DEF CheckSuperclass, Refuse, TypeOK
<1>3. TransactionOf(r)' /\ EffectOf(r)'
  BY <1>1, <1>2, CheckSees, CheckedTransaction DEF Checking, callVars, txnVars
<1>4. PlanOf(r)'
  BY <1>1, <1>2 DEF IdentityInv, PlanOf, Finding, Checking, Success, callVars, tables
<1> QED
  BY <1>3, <1>4 DEF CallInv

LEMMA ValidateReferencesCall ==
    ASSUME TypeOK, SessionInv, IdentityInv, OneCallPerSession, NEW r \in Request, Private(r),
           ValidateReferences(r)
    PROVE  CallInv(r)'
<1>1. pc[r] = "validate"
  BY DEF ValidateReferences, Reads, Sent
<1>2. CASE Fail(r)
  BY <1>2, RefusedInv
<1>3. CASE ~Fail(r)
  <2>1. UNCHANGED <<tables, txn, pending, gone, fresh, callVars, uuid>>
    BY <1>3 DEF ValidateReferences, LockReferenced, Refuse, planVars
  <2>2. \/ /\ pc'[r] = "report"
           /\ result'[r] \in {"INSERT_FAILURE_REFERENCE", "UPDATE_FAILURE_REFERENCE"}
        \/ pc'[r] = "write" /\ result'[r] = result[r]
    BY <1>3, ThenMoves DEF ValidateReferences, Refuse, TypeOK
  <2>3. TransactionOf(r)' /\ EffectOf(r)'
    BY <1>1, <2>1, <2>2, CheckSees, CheckedTransaction DEF Checking, callVars
  <2>4. PlanOf(r)'
    BY <1>1, <2>1, <2>2 DEF IdentityInv, PlanOf, Finding, Checking, Success, callVars, tables
  <2> QED
    BY <2>3, <2>4 DEF CallInv
<1> QED
  BY <1>2, <1>3

LEMMA ReportCall ==
    ASSUME TypeOK, SessionInv, IdentityInv, OneCallPerSession, NEW r \in Request, Private(r), Report(r)
    PROVE  CallInv(r)'
<1>1. pc[r] = "report" /\ UNCHANGED <<tables, uuid>>
  BY DEF Report, Reads, Sent
<1>2. pc'[r] = "rollback"
  BY ThenMoves DEF Report, AfterReport
<1>3. result'[r] \notin Success
  BY <1>1 DEF Report, IdentityInv, PlanOf, Success, TypeOK
<1> QED
  BY <1>1, <1>2, <1>3, FailInv DEF Private, tables

-----------------------------------------------------------------------------
(* The steps that write.                                                    *)
LEMMA AtUuids ==
    ASSUME TypeOK, NEW u
    PROVE  At(docs, u) = {} <=> u \notin UuidsIn(docs)
<1>1. docs \in Store
  BY DEF TypeOK
<1>2. u \in UuidsIn(docs) <=> \E i \in Id : docs[i] # NoDoc /\ docs[i].uuid = u
  BY <1>1, StoreUuids
<1>3. \A i : i \in At(docs, u) <=> i \in Id /\ docs[i] # NoDoc /\ docs[i].uuid = u
  BY DEF At
<1> QED
  BY <1>2, <1>3

LEMMA WriteSees ==
    ASSUME TypeOK, IdentityInv, NEW r \in Request, pc[r] = "write"
    PROVE  /\ session[r] \in Session /\ txn[session[r]] = "open"
           /\ DOMAIN pending[session[r]] = {} /\ View(session[r]) = docs
           /\ req[r] \in Call /\ req[r].id \in Id
BY CheckSees DEF Checking, Call

LEMMA WrittenPlan ==
    ASSUME TypeOK, IdentityInv, NEW r \in Request, Private(r), UNCHANGED uuid,
           pc[r] \in {"write"} \cup Written, pc'[r] \in Written,
           pc'[r] \in {"alias", "ref"} => req[r].op # "delete",
           result'[r] = result[r] \/ result'[r] \notin {"INSERT_SUCCESS", "UPDATE_SUCCESS"}
    PROVE  PlanOf(r)'
<1>1. req'[r] = req[r] /\ uuid'[r] = uuid[r] /\ issued' = issued
  BY DEF Private, Own, tables
<1> QED
  BY <1>1 DEF IdentityInv, PlanOf, Finding, Checking, Written

LEMMA InsertDocumentCall ==
    ASSUME TypeOK, SessionInv, IdentityInv, OneCallPerSession, NEW r \in Request, Private(r),
           InsertDocument(r)
    PROVE  CallInv(r)'
<1> DEFINE i == req[r].id  new == NewVersion(r, req[r].ts)  d == [j \in {i} |-> new]
<1>1. pc[r] = "write" /\ result[r] = "INSERT_SUCCESS"
  BY DEF InsertDocument, Writes, Sent
<1>2. /\ session[r] \in Session /\ txn[session[r]] = "open" /\ View(session[r]) = docs
      /\ DOMAIN pending[session[r]] = {}
  BY <1>1, WriteSees
<1>3. CASE Fail(r)
  BY <1>3, RefusedInv
<1>4. CASE ~Fail(r)
  <2>1. /\ docs[i] = NoDoc /\ Write(session[r], d, {}, {}) /\ Then(r, "unalias")
        /\ UNCHANGED <<callVars, planVars, result>>
    BY <1>2, <1>4 DEF InsertDocument
  <2>2. pc'[r] = "unalias" /\ req'[r] = req[r] /\ uuid'[r] = uuid[r] /\ session'[r] = session[r]
    BY <2>1, ThenMoves DEF callVars, planVars
  <2>3. DOMAIN d = {i} /\ d[i] = new
    OBVIOUS
  <2> HIDE DEF d
  <2>4. /\ DOMAIN pending'[session[r]] = {i} /\ pending'[session[r]][i] = new
        /\ txn'[session[r]] = "open"
    BY <1>2, <2>1, <2>3, WriteHolds
  <2>5. docs'[i] = NoDoc
    BY <1>2, <2>1, WriteHolds DEF tables
  <2>6. Inserts(r)'
    BY <1>1, <2>1, <2>2, <2>4, <2>5 DEF Inserts, NewVersion
  <2>7. TransactionOf(r)'
    BY <2>2, <2>4 DEF TransactionOf, Checking
  <2>8. PlanOf(r)'
    BY <1>1, <2>1, <2>2, WrittenPlan DEF Written, planVars
  <2> QED
    BY <2>6, <2>7, <2>8 DEF CallInv, EffectOf
<1> QED
  BY <1>3, <1>4

LEMMA UpdateDocumentCall ==
    ASSUME TypeOK, SessionInv, IdentityInv, OneCallPerSession, NEW r \in Request, Private(r),
           UpdateDocument(r)
    PROVE  CallInv(r)'
<1> DEFINE i == req[r].id
           moved(j) == [k \in {i, j} |-> IF k = i THEN NewVersion(r, docs[j].createdAt) ELSE NoDoc]
<1>1. pc[r] = "write" /\ result[r] = "UPDATE_SUCCESS" /\ req[r].op # "delete"
  BY DEF UpdateDocument, Writes, Sent
<1>2. /\ session[r] \in Session /\ txn[session[r]] = "open" /\ View(session[r]) = docs
      /\ DOMAIN pending[session[r]] = {} /\ req[r] \in Call /\ i \in Id
  BY <1>1, WriteSees
<1>3. CASE Fail(r)
  BY <1>3, RefusedInv
<1>4. CASE /\ At(docs, uuid[r]) = {} /\ missed' = TRUE
           /\ result' = [result EXCEPT ![r] = UpdatedNothing(r)]
           /\ Then(r, "unalias")
           /\ UNCHANGED <<tables, txnVars, callVars, planVars>>
  <2>1. /\ pc'[r] = "unalias" /\ req'[r] = req[r] /\ uuid'[r] = uuid[r] /\ session'[r] = session[r]
        /\ result'[r] = UpdatedNothing(r)
    BY <1>4, ThenMoves DEF callVars, planVars, TypeOK
  <2>2. uuid[r] \notin UuidsIn(docs)
    BY <1>4, AtUuids
  <2>3. req[r].op = "update" \/ req[r].op = "upsert"
    BY <1>1, <1>2 DEF Call
  <2>4. FindsNothing(r)'
    BY <1>1, <1>2, <1>4, <2>1, <2>2, <2>3
    DEF FindsNothing, UpdatedNothing, tables, txnVars, UuidsIn
  <2>5. TransactionOf(r)'
    BY <1>2, <1>4, <2>1 DEF TransactionOf, Checking, txnVars
  <2>6. PlanOf(r)'
    BY <1>1, <1>4, <2>1, WrittenPlan DEF Written, planVars, UpdatedNothing
  <2> QED
    BY <2>4, <2>5, <2>6 DEF CallInv, EffectOf
<1>5. CASE \E j \in At(docs, uuid[r]) :
              /\ j = i \/ docs[i] = NoDoc
              /\ Write(session[r], moved(j), {}, {})
              /\ Then(r, "unalias")
              /\ UNCHANGED <<callVars, planVars, result, missed>>
  <2>1. PICK j \in At(docs, uuid[r]) :
              /\ j = i \/ docs[i] = NoDoc
              /\ Write(session[r], moved(j), {}, {})
              /\ Then(r, "unalias")
              /\ UNCHANGED <<callVars, planVars, result, missed>>
    BY <1>5
  <2> DEFINE d == moved(j)  new == NewVersion(r, docs[j].createdAt)
  <2>2. pc'[r] = "unalias" /\ req'[r] = req[r] /\ uuid'[r] = uuid[r] /\ session'[r] = session[r]
    BY <2>1, ThenMoves DEF callVars, planVars
  <2>3. DOMAIN d = {i, j} /\ d[i] = new /\ (j # i => d[j] = NoDoc)
    OBVIOUS
  <2>4. Write(session[r], d, {}, {})
    BY <2>1
  <2> HIDE DEF d, moved
  <2>5. /\ DOMAIN pending'[session[r]] = {i, j} /\ pending'[session[r]][i] = new
        /\ j # i => pending'[session[r]][j] = NoDoc
        /\ txn'[session[r]] = "open" /\ docs' = docs
    BY <1>2, <2>3, <2>4, WriteHolds DEF tables
  <2>6. j \in Id /\ docs[j] # NoDoc /\ docs[j].uuid = uuid[r]
    BY <2>1 DEF At
  <2>7. Updates(r)'
    BY <1>1, <2>1, <2>2, <2>5, <2>6 DEF Updates, NewVersion
  <2>8. TransactionOf(r)'
    BY <2>2, <2>5 DEF TransactionOf, Checking
  <2>9. PlanOf(r)'
    BY <1>1, <2>1, <2>2, WrittenPlan DEF Written, planVars
  <2> QED
    BY <2>7, <2>8, <2>9 DEF CallInv, EffectOf
<1> QED
  BY <1>2, <1>3, <1>4, <1>5 DEF UpdateDocument

LEMMA DeleteDocumentCall ==
    ASSUME TypeOK, SessionInv, IdentityInv, OneCallPerSession, NEW r \in Request, Private(r),
           DeleteDocument(r)
    PROVE  CallInv(r)'
<1> DEFINE at == At(docs, uuid[r])  d == [i \in at |-> NoDoc]
<1>1. pc[r] = "write" /\ req[r].op = "delete"
  BY DEF DeleteDocument, Writes, Sent
<1>2. /\ session[r] \in Session /\ txn[session[r]] = "open" /\ View(session[r]) = docs
      /\ DOMAIN pending[session[r]] = {}
  BY <1>1, WriteSees
<1>3. /\ Write(session[r], d, {}, {}) /\ Then(r, "unref")
      /\ result'[r] = IF at = {} THEN "DELETE_FAILURE_NOT_EXISTS" ELSE "DELETE_SUCCESS"
      /\ UNCHANGED <<callVars, planVars, missed>>
  BY <1>2 DEF DeleteDocument, TypeOK
<1>4. pc'[r] = "unref" /\ req'[r] = req[r] /\ uuid'[r] = uuid[r] /\ session'[r] = session[r]
  BY <1>3, ThenMoves DEF callVars, planVars
<1>5. DOMAIN d = at /\ \A i \in at : d[i] = NoDoc
  OBVIOUS
<1> HIDE DEF d
<1>6. /\ DOMAIN pending'[session[r]] = at /\ \A i \in at : pending'[session[r]][i] = NoDoc
      /\ txn'[session[r]] = "open" /\ docs' = docs
  <2> HIDE DEF at
  <2>1. docs' = docs /\ txn' = txn
    BY <1>2, <1>3, WriteHolds DEF tables
  <2>2. DOMAIN pending'[session[r]] = DOMAIN pending[session[r]] \cup DOMAIN d
    BY <1>2, <1>3, WriteHolds
  <2>3. \A i \in DOMAIN d : pending'[session[r]][i] = d[i]
    BY <1>2, <1>3, WriteHolds
  <2> QED
    BY <1>2, <1>5, <2>1, <2>2, <2>3
<1>7. Deletes(r)' \/ FindsNothing(r)'
  <2>1. CASE at = {}
    <3>1. uuid[r] \notin UuidsIn(docs)
      BY <2>1, AtUuids
    <3> QED
      BY <1>1, <1>3, <1>4, <1>6, <2>1, <3>1 DEF FindsNothing, UuidsIn
  <2>2. CASE at # {}
    <3>1. PICK j \in Id : docs[j] # NoDoc /\ docs[j].uuid = uuid[r]
      BY <2>2 DEF At
    <3>2. at = {j}
      BY <3>1 DEF At, IdentityInv, Abstract!UuidUnique, Abstract!Present
    <3> HIDE DEF at
    <3> QED
      BY <1>1, <1>3, <1>4, <1>6, <2>2, <3>1, <3>2 DEF Deletes
  <2> QED
    BY <2>1, <2>2
<1>8. TransactionOf(r)'
  BY <1>4, <1>6 DEF TransactionOf, Checking
<1>9. PlanOf(r)'
  BY <1>1, <1>3, <1>4, WrittenPlan DEF Written, planVars
<1> QED
  BY <1>4, <1>7, <1>8, <1>9 DEF CallInv, EffectOf

(* The statements on aliases and references leave the document as it is.    *)
LEMMA RowsCall ==
    ASSUME TypeOK, SessionInv, IdentityInv, OneCallPerSession, NEW r \in Request, Private(r),
           DeleteAliases(r) \/ InsertAlias(r) \/ DeleteReferences(r) \/ InsertReference(r)
    PROVE  CallInv(r)'
<1>1. /\ pc[r] \in Written /\ session[r] \in Session
      /\ UNCHANGED <<callVars, uuid, result, missed>>
  BY SentTyped DEF DeleteAliases, InsertAlias, DeleteReferences, InsertReference, Writes, Sent,
     Written, Statement
<1>2. txn[session[r]] = "open"
  BY <1>1 DEF IdentityInv, TransactionOf
<1>3. /\ pc'[r] \in Written
      /\ pc'[r] \in {"alias", "ref"} => req[r].op # "delete"
  <2>1. \A next : Then(r, next) => pc'[r] = next
    BY ThenMoves
  <2>2. CASE DeleteAliases(r)
    BY <2>1, <2>2 DEF DeleteAliases, Finish, Written
  <2>3. CASE InsertAlias(r)
    BY <2>1, <2>3 DEF InsertAlias, Written, Writes, Sent, IdentityInv, PlanOf
  <2>4. CASE DeleteReferences(r)
    BY <2>1, <2>4 DEF DeleteReferences, Finish, Written
  <2>5. CASE InsertReference(r)
    BY <2>1, <2>5 DEF InsertReference, Finish, Written, Writes, Sent, IdentityInv, PlanOf
  <2> QED
    BY <2>2, <2>3, <2>4, <2>5
<1>4. \E deleted, inserted : Write(session[r], Nothing, deleted, inserted)
  BY DEF DeleteAliases, InsertAlias, DeleteReferences, InsertReference
<1>5. /\ DOMAIN pending'[session[r]] = DOMAIN pending[session[r]]
      /\ \A i \in DOMAIN pending[session[r]] : pending'[session[r]][i] = pending[session[r]][i]
      /\ txn'[session[r]] = "open" /\ docs' = docs
  <2>1. DOMAIN Nothing = {}
    BY DEF Nothing
  <2>2. PICK deleted, inserted : Write(session[r], Nothing, deleted, inserted)
    BY <1>4
  <2>3. docs' = docs /\ txn' = txn
    BY <1>1, <1>2, <2>2, WriteHolds DEF tables
  <2>4. DOMAIN pending'[session[r]] = DOMAIN pending[session[r]] \cup DOMAIN Nothing
    BY <1>1, <1>2, <2>2, WriteHolds
  <2>5. \A i \in DOMAIN pending[session[r]] \ DOMAIN Nothing :
           pending'[session[r]][i] = pending[session[r]][i]
    BY <1>1, <1>2, <2>2, WriteHolds
  <2> QED
    BY <1>2, <2>1, <2>3, <2>4, <2>5
<1>6. TransactionOf(r)'
  BY <1>1, <1>3, <1>5 DEF TransactionOf, Checking, Written, callVars
<1>7. PlanOf(r)'
  BY <1>1, <1>3, WrittenPlan
<1>8. EffectOf(r)
  BY DEF IdentityInv
<1>9. EffectOf(r)'
  <2>1. Inserts(r) => Inserts(r)'
    BY <1>1, <1>5 DEF Inserts, NewVersion, callVars
  <2>2. Updates(r) => Updates(r)'
    BY <1>1, <1>5 DEF Updates, NewVersion, callVars
  <2>3. Deletes(r) => Deletes(r)'
    BY <1>1, <1>5 DEF Deletes, callVars
  <2>4. FindsNothing(r) => FindsNothing(r)'
    BY <1>1, <1>5 DEF FindsNothing, UuidsIn, callVars
  <2> QED
    BY <1>1, <1>8, <2>1, <2>2, <2>3, <2>4 DEF EffectOf
<1> QED
  BY <1>6, <1>7, <1>9 DEF CallInv

LEMMA WaitCall ==
    ASSUME TypeOK, SessionInv, IdentityInv, OneCallPerSession, NEW r \in Request, Private(r), Wait(r)
    PROVE  CallInv(r)'
<1>1. /\ UNCHANGED <<tables, txnVars, pc, callVars, uuid, old, list, result, missed>>
      /\ pc[r] \in Written
  BY DEF Wait, Written
<1>2. TransactionOf(r)'
  BY <1>1 DEF IdentityInv, TransactionOf, txnVars, callVars
<1>3. EffectOf(r)'
  BY <1>1 DEF IdentityInv, EffectOf, Inserts, Updates, Deletes, FindsNothing, NewVersion, UuidsIn,
     txnVars, callVars, tables
<1>4. PlanOf(r)'
  BY <1>1 DEF IdentityInv, PlanOf, callVars, tables, Finding, Written
<1> QED
  BY <1>2, <1>3, <1>4 DEF CallInv

LEMMA RollbackCall ==
    ASSUME TypeOK, SessionInv, IdentityInv, OneCallPerSession, NEW r \in Request, Private(r), Rollback(r)
    PROVE  CallInv(r)'
<1>1. pc[r] = "rollback" /\ UNCHANGED <<tables, planVars, result>>
  BY DEF Rollback, Sent
<1>2. pc'[r] = "done" /\ result'[r] \notin Success
  BY <1>1, ThenMoves DEF Rollback, IdentityInv, PlanOf
<1> QED
  BY <1>1, <1>2, FailInv DEF Private, tables, planVars

LEMMA PrivateStepIdentity ==
    ASSUME TypeOK, SessionInv, IdentityInv, OneCallPerSession, NEW r \in Request, Step(r), ~Commit(r)
    PROVE  IdentityInv'
<1>1. Private(r)
  BY StepPrivate
<1>2. CallInv(r)'
  <2>1. CASE Rejected(r) \/ Deadlock(r)
    BY <1>1, <2>1, RefusedInv DEF Rejected, Deadlock
  <2> QED
    BY <1>1, <2>1, BeginCall, FindForUpsertCall, FindForUpdateCall, FindForDeleteCall,
       CheckReferencingCall, CheckSuperclassCall, ValidateReferencesCall, ReportCall,
       InsertDocumentCall, UpdateDocumentCall, DeleteDocumentCall, RowsCall, WaitCall, RollbackCall
    DEF Step
<1> QED
  BY <1>1, <1>2, PrivateInv

-----------------------------------------------------------------------------
(* COMMIT.                                                                  *)
LEMMA PublishSees ==
    ASSUME TypeOK, NEW s \in Session, Publish(s)
    PROVE  /\ docs' \in Store /\ issued' = issued \cup UuidsIn(docs')
           /\ \A i \in DOMAIN pending[s] : docs'[i] = pending[s][i]
           /\ \A i \in Id \ DOMAIN pending[s] : docs'[i] = docs[i]
           /\ \A u : u \in UuidsIn(docs') <=> \E i \in Id : docs'[i] # NoDoc /\ docs'[i].uuid = u
           /\ \A u : u \in UuidsIn(docs) <=> \E i \in Id : docs[i] # NoDoc /\ docs[i].uuid = u
<1>1. docs' \in Store /\ docs \in Store /\ docs' = View(s) /\ issued' = issued \cup UuidsIn(docs')
  BY ViewTyped DEF Publish, TypeOK
<1>2. /\ \A u : u \in UuidsIn(docs') <=> \E i \in Id : docs'[i] # NoDoc /\ docs'[i].uuid = u
      /\ \A u : u \in UuidsIn(docs) <=> \E i \in Id : docs[i] # NoDoc /\ docs[i].uuid = u
  BY <1>1, StoreUuids
<1> QED
  BY <1>1, <1>2, ViewTyped

(* The uuid of a call not yet over is new.                                  *)
LEMMA OwnUuidIsNew ==
    ASSUME IdentityInv, NEW r \in Request, pc[r] = "commit"
    PROVE  r \notin issued /\ r # NoUuid
BY NamesAssumption DEF IdentityInv

LEMMA CommitInserts ==
    ASSUME TypeOK, IdentityInv, NEW r \in Request, pc[r] = "commit", Inserts(r), Publish(session[r])
    PROVE  /\ Abstract!UuidUnique' /\ Abstract!Create(req[r].id)
           /\ UuidsIn(docs') \subseteq UuidsIn(docs) \cup {r}
           /\ docs'[req[r].id] = NewVersion(r, req[r].ts) /\ docs'[req[r].id] # NoDoc
<1> DEFINE i == req[r].id  s == session[r]
<1>1. s \in Session /\ i \in Id /\ req[r] \in Call /\ req[r] \in Input /\ uuid[r] = r
  BY InputAssumption DEF TypeOK, Call, Inserts, IdentityInv, PlanOf
<1>2. /\ issued' = issued \cup UuidsIn(docs')
      /\ docs'[i] = NewVersion(r, req[r].ts) /\ docs[i] = NoDoc
      /\ \A k \in Id \ {i} : docs'[k] = docs[k]
  BY <1>1, PublishSees DEF Inserts
<1>3. /\ \A u : u \in UuidsIn(docs') <=> \E k \in Id : docs'[k] # NoDoc /\ docs'[k].uuid = u
      /\ \A u : u \in UuidsIn(docs) <=> \E k \in Id : docs[k] # NoDoc /\ docs[k].uuid = u
  BY <1>1, PublishSees
<1>4. NewVersion(r, req[r].ts) \in Doc /\ NewVersion(r, req[r].ts) # NoDoc
  BY <1>1, NewVersionTyped, NoDocAssumption DEF Call
<1>5. /\ docs'[i].uuid = r /\ docs'[i].createdAt = docs'[i].lastModifiedAt
  BY <1>1, <1>2 DEF NewVersion
<1>6. r \notin issued
  BY OwnUuidIsNew
<1> HIDE DEF i
<1>7. UuidsIn(docs') \subseteq UuidsIn(docs) \cup {r} /\ r \in UuidsIn(docs')
  BY <1>1, <1>2, <1>3, <1>4, <1>5
<1>8. issued' = issued \cup {r}
  BY <1>2, <1>7 DEF IdentityInv
<1>9. Abstract!Create(i)
  BY <1>1, <1>2, <1>4, <1>5, <1>6, <1>8 DEF Abstract!Create, Abstract!Present, Abstract!OnlyChanged
<1>10. Abstract!UuidUnique'
  <2>1. \A k \in Id : docs[k] # NoDoc => docs[k].uuid # r
    BY <1>3, <1>6 DEF IdentityInv
  <2> QED
    BY <1>2, <1>5, <2>1 DEF IdentityInv, Abstract!UuidUnique, Abstract!Present
<1> QED
  BY <1>2, <1>4, <1>7, <1>9, <1>10 DEF i

LEMMA CommitUpdates ==
    ASSUME TypeOK, IdentityInv, NEW r \in Request, pc[r] = "commit", Updates(r), Publish(session[r])
    PROVE  /\ Abstract!UuidUnique' /\ \E j \in Id : Abstract!Replace(j) \/ Abstract!Rename(j, req[r].id)
           /\ UuidsIn(docs') \subseteq UuidsIn(docs) /\ uuid[r] \in UuidsIn(docs)
           /\ docs'[req[r].id] # NoDoc /\ docs'[req[r].id].uuid = uuid[r]
           /\ docs'[req[r].id].lastModifiedAt = req[r].ts
<1> DEFINE i == req[r].id  s == session[r]
<1>1. s \in Session /\ i \in Id /\ req[r] \in Call /\ req[r] \in Input
  BY InputAssumption DEF TypeOK, Call
<1>0. PICK j \in Id : /\ DOMAIN pending[s] = {i, j}
                      /\ docs[j] # NoDoc /\ docs[j].uuid = uuid[r]
                      /\ pending[s][i] = NewVersion(r, docs[j].createdAt)
                      /\ j # i => pending[s][j] = NoDoc /\ docs[i] = NoDoc
  BY DEF Updates
<1>2. /\ issued' = issued \cup UuidsIn(docs')
      /\ docs'[i] = NewVersion(r, docs[j].createdAt) /\ (j # i => docs'[j] = NoDoc)
      /\ \A k \in Id \ {i, j} : docs'[k] = docs[k]
  BY <1>1, <1>0, PublishSees
<1>3. /\ \A u : u \in UuidsIn(docs') <=> \E k \in Id : docs'[k] # NoDoc /\ docs'[k].uuid = u
      /\ \A u : u \in UuidsIn(docs) <=> \E k \in Id : docs[k] # NoDoc /\ docs[k].uuid = u
  BY <1>1, PublishSees
<1>4. NewVersion(r, docs[j].createdAt) \in Doc /\ NewVersion(r, docs[j].createdAt) # NoDoc
  <2>1. docs[j] \in Doc /\ docs[j].createdAt \in Nat
    BY <1>0 DEF TypeOK, Store, Doc
  <2> QED
    BY <1>1, <2>1, NewVersionTyped, NoDocAssumption DEF Call
<1>5. /\ docs'[i].uuid = uuid[r] /\ docs'[i].createdAt = docs[j].createdAt
      /\ docs'[i].lastModifiedAt = req[r].ts
  BY <1>1, <1>2 DEF NewVersion
<1> HIDE DEF i
<1>6. uuid[r] \in UuidsIn(docs) /\ UuidsIn(docs') \subseteq UuidsIn(docs)
  BY <1>0, <1>1, <1>2, <1>3, <1>5
<1>7. issued' = issued
  BY <1>2, <1>6 DEF IdentityInv
<1>8. Abstract!Supersedes(j, i)
  BY <1>0, <1>2, <1>4, <1>5 DEF Abstract!Supersedes
<1>9. CASE j = i
  <2>1. Abstract!Replace(j)
    BY <1>0, <1>1, <1>2, <1>7, <1>8, <1>9 DEF Abstract!Replace, Abstract!Present, Abstract!OnlyChanged
  <2>2. Abstract!UuidUnique'
    BY <1>0, <1>1, <1>2, <1>5, <1>9 DEF IdentityInv, Abstract!UuidUnique, Abstract!Present
  <2> QED
    BY <1>2, <1>4, <1>5, <1>6, <2>1, <2>2 DEF i
<1>10. CASE j # i
  <2>1. Abstract!Rename(j, i)
    BY <1>0, <1>1, <1>2, <1>7, <1>8, <1>10 DEF Abstract!Rename, Abstract!Present, Abstract!OnlyChanged
  <2>2. Abstract!UuidUnique'
    BY <1>0, <1>1, <1>2, <1>5, <1>10 DEF IdentityInv, Abstract!UuidUnique, Abstract!Present
  <2> QED
    BY <1>2, <1>4, <1>5, <1>6, <2>1, <2>2 DEF i
<1> QED
  BY <1>9, <1>10

LEMMA CommitDeletes ==
    ASSUME TypeOK, IdentityInv, NEW r \in Request, pc[r] = "commit", Deletes(r), Publish(session[r])
    PROVE  /\ Abstract!UuidUnique' /\ \E j \in Id : Abstract!Remove(j)
           /\ UuidsIn(docs') = UuidsIn(docs) \ {uuid[r]} /\ uuid[r] \in UuidsIn(docs)
<1> DEFINE s == session[r]
<1>1. s \in Session
  BY DEF TypeOK
<1>0. PICK j \in Id : /\ DOMAIN pending[s] = {j} /\ pending[s][j] = NoDoc
                      /\ docs[j] # NoDoc /\ docs[j].uuid = uuid[r]
  BY DEF Deletes
<1>2. /\ issued' = issued \cup UuidsIn(docs')
      /\ docs'[j] = NoDoc /\ \A k \in Id \ {j} : docs'[k] = docs[k]
  BY <1>1, <1>0, PublishSees
<1>3. /\ \A u : u \in UuidsIn(docs') <=> \E k \in Id : docs'[k] # NoDoc /\ docs'[k].uuid = u
      /\ \A u : u \in UuidsIn(docs) <=> \E k \in Id : docs[k] # NoDoc /\ docs[k].uuid = u
  BY <1>1, PublishSees
<1>4. \A k \in Id \ {j} : docs[k] # NoDoc => docs[k].uuid # uuid[r]
  BY <1>0 DEF IdentityInv, Abstract!UuidUnique, Abstract!Present
<1>5. /\ uuid[r] \in UuidsIn(docs)
      /\ \A u : u \in UuidsIn(docs') <=> u \in UuidsIn(docs) /\ u # uuid[r]
  BY <1>0, <1>2, <1>3, <1>4
<1>6. issued' = issued
  BY <1>2, <1>5 DEF IdentityInv
<1>7. Abstract!Remove(j)
  BY <1>0, <1>2, <1>6 DEF Abstract!Remove, Abstract!Present, Abstract!OnlyChanged
<1>8. Abstract!UuidUnique'
  BY <1>2 DEF IdentityInv, Abstract!UuidUnique, Abstract!Present
<1> QED
  BY <1>5, <1>7, <1>8

LEMMA CommitNothing ==
    ASSUME TypeOK, IdentityInv, NEW r \in Request, pc[r] = "commit", FindsNothing(r),
           Publish(session[r])
    PROVE  UNCHANGED <<docs, issued>>
<1>1. session[r] \in Session /\ DOMAIN pending[session[r]] = {}
  BY DEF TypeOK, FindsNothing
<1> DEFINE d == docs'
<1>2. d \in Store /\ docs \in Store /\ \A i \in Id : d[i] = docs[i]
  BY <1>1, PublishSees DEF TypeOK
<1> HIDE DEF d
<1>3. d = docs
  BY <1>2 DEF Store
<1> QED
  BY <1>1, <1>3, PublishSees DEF d, IdentityInv

(* A commit is a step of the abstract store, or no step.                    *)
LEMMA CommitSteps ==
    ASSUME TypeOK, IdentityInv, NEW r \in Request, pc[r] = "commit", Publish(session[r])
    PROVE  /\ Abstract!UuidUnique' /\ UuidsIn(docs') \subseteq UuidsIn(docs) \cup {r}
           /\ [Abstract!Next]_<<docs, issued>>
           /\ issued' = issued \cup UuidsIn(docs')
<1>1. req[r].id \in Id /\ session[r] \in Session
  BY InputAssumption DEF TypeOK, Call
<1>2. Inserts(r) \/ Updates(r) \/ Deletes(r) \/ FindsNothing(r)
  BY DEF IdentityInv, EffectOf, Written
<1>3. CASE Inserts(r)
  BY <1>1, <1>3, CommitInserts, PublishSees DEF Abstract!Next
<1>4. CASE Updates(r)
  BY <1>1, <1>4, CommitUpdates, PublishSees DEF Abstract!Next
<1>5. CASE Deletes(r)
  BY <1>1, <1>5, CommitDeletes, PublishSees DEF Abstract!Next
<1>6. CASE FindsNothing(r)
  <2>1. UNCHANGED <<docs, issued>> /\ issued' = issued \cup UuidsIn(docs')
    BY <1>1, <1>6, CommitNothing, PublishSees
  <2> QED
    BY <2>1 DEF IdentityInv, Abstract!UuidUnique, Abstract!Present
<1> QED
  BY <1>2, <1>3, <1>4, <1>5, <1>6

(* It is no surprise to a call that waits: what another call has found or   *)
(* written is not what is committed.                                        *)
LEMMA CommitKeepsOthers ==
    ASSUME TypeOK, LocksExclude, IdentityInv, OneCallPerSession, NEW r \in Request, pc[r] = "commit",
           Publish(session[r]), Own(r), missed' = missed, NEW q \in Request \ {r}
    PROVE  CallInv(q)'
<1>1. /\ pc'[q] = pc[q] /\ uuid'[q] = uuid[q] /\ old'[q] = old[q] /\ list'[q] = list[q]
      /\ doomed'[q] = doomed[q] /\ result'[q] = result[q]
      /\ req'[q] = req[q] /\ session'[q] = session[q]
  BY DEF Own
<1>2. session[r] \in Session
  BY DEF TypeOK
<1>3. issued \subseteq issued'
  BY <1>2, PublishSees
<1>4. PlanOf(q)'
  BY <1>1, <1>3 DEF IdentityInv, PlanOf
<1>5. CASE pc[q] \in {"idle", "done"}
  BY <1>1, <1>4, <1>5 DEF CallInv, TransactionOf, EffectOf, Checking, Written
<1>6. CASE pc[q] \notin {"idle", "done"}
  <2>1. session[q] \in Session \ {session[r]}
    BY <1>6, SessionOfOther
  <2>2. /\ txn'[session[q]] = txn[session[q]] /\ pending'[session[q]] = pending[session[q]]
        /\ gone'[session[q]] = gone[session[q]] /\ fresh'[session[q]] = fresh[session[q]]
    BY <2>1 DEF Own
  <2>3. TransactionOf(q)'
    BY <1>1, <2>2 DEF IdentityInv, TransactionOf
  <2>4. \A i \in DOMAIN pending[session[q]] : i \in Id /\ docs'[i] = docs[i]
    <3>1. DOMAIN pending[session[q]] \subseteq Id
      BY <2>1 DEF TypeOK
    <3>2. DOMAIN pending[session[q]] \cap DOMAIN pending[session[r]] = {}
      BY <1>2, <2>1 DEF LocksExclude
    <3>3. \A i \in Id \ DOMAIN pending[session[r]] : docs'[i] = docs[i]
      BY <1>2, PublishSees
    <3> QED
      BY <3>1, <3>2, <3>3
  <2>5. EffectOf(q)'
    <3>1. Inserts(q) => Inserts(q)'
      BY <1>1, <2>2, <2>4 DEF Inserts, NewVersion
    <3>2. Updates(q) => Updates(q)'
      BY <1>1, <2>2, <2>4 DEF Updates, NewVersion
    <3>3. Deletes(q) => Deletes(q)'
      BY <1>1, <2>2, <2>4 DEF Deletes
    <3>4. pc[q] \in Written /\ FindsNothing(q) => FindsNothing(q)'
      <4> SUFFICES ASSUME FindsNothing(q), pc[q] \in Written PROVE FindsNothing(q)'
        OBVIOUS
      <4>1. uuid[q] # r
        BY OwnUuidIsNew DEF FindsNothing, IdentityInv, PlanOf
      <4>2. uuid[q] \notin UuidsIn(docs')
        BY <4>1, CommitSteps DEF FindsNothing
      <4> QED
        BY <1>1, <2>2, <4>2 DEF FindsNothing, UuidsIn
    <3> QED
      BY <1>1, <3>1, <3>2, <3>3, <3>4 DEF IdentityInv, EffectOf
  <2> QED
    BY <1>4, <2>3, <2>5 DEF CallInv
<1> QED
  BY <1>5, <1>6

(* A call ends: with its COMMIT, or without.                                *)
LEMMA EndIdentity ==
    ASSUME TypeOK, LocksExclude, IdentityInv, OneCallPerSession, NEW r \in Request,
           Own(r), pc[r] \notin {"idle", "done"}, pc'[r] = "done",
           uuid'[r] = uuid[r], result'[r] \in {result[r], "NONE"}, missed' = missed,
           UNCHANGED tables \/ (pc[r] = "commit" /\ Publish(session[r]))
    PROVE  IdentityInv'
<1>1. issued \subseteq issued'
  BY PublishSees DEF TypeOK, tables
<1>2. CallInv(r)'
  <2>1. TransactionOf(r)' /\ EffectOf(r)'
    BY DEF TransactionOf, EffectOf, Checking, Written
  <2>2. PlanOf(r)'
    BY <1>1 DEF IdentityInv, PlanOf, Own, Finding, Checking
  <2> QED
    BY <2>1, <2>2 DEF CallInv
<1>3. CASE UNCHANGED tables
  BY <1>2, <1>3, PrivateInv DEF Private
<1>4. CASE pc[r] = "commit" /\ Publish(session[r])
  <2>1. Abstract!UuidUnique' /\ UuidsIn(docs') \subseteq UuidsIn(docs) \cup {r}
        /\ issued' = issued \cup UuidsIn(docs')
    BY <1>4, CommitSteps
  <2>2. UuidsIn(docs)' \subseteq issued'
    BY <2>1 DEF UuidsIn
  <2>3. issued' \subseteq issued \cup {r} /\ NoUuid \notin issued'
    BY <1>4, <2>1, OwnUuidIsNew DEF IdentityInv
  <2>4. \A q \in Request : CallInv(q)'
    BY <1>2, <1>4, CommitKeepsOthers
  <2>5. \A q \in Request : q \in issued' => pc'[q] = "done"
    BY <2>3 DEF IdentityInv, Own
  <2> QED
    BY <2>1, <2>2, <2>3, <2>4, <2>5 DEF IdentityInv, CallInv
<1> QED
  BY <1>3, <1>4

LEMMA CommitIdentity ==
    ASSUME TypeOK, SessionInv, LocksExclude, IdentityInv, OneCallPerSession, NEW r \in Request,
           Commit(r)
    PROVE  IdentityInv'
<1>1. Own(r) /\ pc[r] = "commit"
  BY StepEffect DEF Step, Commit, Sent
<1>2. pc'[r] = "done" /\ UNCHANGED <<planVars, result, missed>>
  BY ThenMoves DEF Commit
<1>3. UNCHANGED tables \/ Publish(session[r])
  BY DEF Commit
<1>4. uuid'[r] = uuid[r] /\ result'[r] = result[r] /\ missed' = missed /\ pc[r] \notin {"idle", "done"}
  BY <1>1, <1>2 DEF planVars
<1>5. UNCHANGED tables \/ (pc[r] = "commit" /\ Publish(session[r]))
  BY <1>1, <1>3
<1> QED
  BY <1>1, <1>2, <1>4, <1>5, EndIdentity

(* The call a worker process that ends had under way.                       *)
LEMMA CrashedCall ==
    ASSUME TypeOK, OneCallPerSession, NEW s \in Session, Crash(s)
    PROVE  \E r \in Request :
              /\ session[r] = s /\ pc[r] \notin {"idle", "done"} /\ Own(r)
              /\ pc'[r] = "done" /\ doomed'[r] = {} /\ result'[r] = "NONE"
              /\ UNCHANGED <<callVars, uuid, old, list, missed>>
              /\ UNCHANGED tables \/ (pc[r] = "commit" /\ Publish(session[r]))
<1> DEFINE r == Head(queue[s])
<1>1. queue[s] # <<>> /\ queue[s] \in Seq(Request) /\ QueueOK(s)
  BY DEF Crash, TypeOK
<1>2. r \in Active(s)
  <2> DEFINE q == queue[s]
  <2>1. q # <<>> /\ q \in Seq(Request)
    BY <1>1
  <2>2. q[1] = Head(q) /\ 1 \in DOMAIN q /\ Head(q) \in Request
    <3> HIDE DEF q
    <3> QED
      BY <2>1, TailAt
  <2> QED
    BY <1>1, <2>2 DEF QueueOK
<1>3. UNCHANGED tables \/ (pc[r] = "commit" /\ Publish(s))
  BY DEF Crash
<1> HIDE DEF r
<1>4. r \in Request /\ session[r] = s /\ pc[r] \notin {"idle", "done"}
  BY <1>2 DEF Active
<1>5. \A q \in Request : session[q] = s /\ pc[q] \notin {"idle", "done"} <=> q = r
  BY <1>2, <1>4, OneCall DEF Active
<1>6. /\ \A q \in Request : pc'[q] = IF q = r THEN "done" ELSE pc[q]
      /\ \A q \in Request : result'[q] = IF q = r THEN "NONE" ELSE result[q]
      /\ \A q \in Request : doomed'[q] = IF q = r THEN {} ELSE doomed[q]
      /\ UNCHANGED <<callVars, uuid, old, list, missed>>
  BY <1>5 DEF Crash
<1>7. UNCHANGED tables \/ (pc[r] = "commit" /\ Publish(session[r]))
  BY <1>3, <1>4 DEF Publish, View, Rows
<1>8. Own(r)
  BY <1>4, <1>6, EndOwn DEF Own, callVars, Crash
<1> QED
  BY <1>4, <1>6, <1>7, <1>8

LEMMA CrashIdentity ==
    ASSUME TypeOK, LocksExclude, IdentityInv, OneCallPerSession, NEW s \in Session, Crash(s)
    PROVE  IdentityInv'
<1>1. PICK r \in Request :
         /\ pc[r] \notin {"idle", "done"} /\ Own(r) /\ pc'[r] = "done" /\ result'[r] = "NONE"
         /\ UNCHANGED <<uuid, missed>>
         /\ UNCHANGED tables \/ (pc[r] = "commit" /\ Publish(session[r]))
  BY CrashedCall
<1> QED
  BY <1>1, EndIdentity

LEMMA ReceiveIdentity ==
    ASSUME TypeOK, IdentityInv, OneCallPerSession, NEW r \in Request, Receive(r)
    PROVE  IdentityInv'
<1>1. /\ UNCHANGED <<tables, txnVars, old, list, doomed, result, missed>>
      /\ pc[r] = "idle" /\ pc'[r] = "begin" /\ result'[r] = "NONE" /\ old'[r] = {}
      /\ list'[r] = {} /\ doomed'[r] = {}
      /\ uuid'[r] \in UuidsIn(docs) \cup {NoUuid}
      /\ \A q \in Request \ {r} : /\ pc'[q] = pc[q] /\ session'[q] = session[q]
                                  /\ req'[q] = req[q] /\ uuid'[q] = uuid[q]
  BY DEF Receive, TypeOK, IdentityInv, PlanOf
<1>2. ASSUME NEW q \in Request \ {r} PROVE CallInv(q)'
  <2>1. TransactionOf(q)'
    BY <1>1, <1>2 DEF IdentityInv, TransactionOf, txnVars
  <2>2. PlanOf(q)'
    BY <1>1, <1>2 DEF IdentityInv, PlanOf, tables
  <2>0. /\ pc'[q] = pc[q] /\ session'[q] = session[q] /\ req'[q] = req[q] /\ uuid'[q] = uuid[q]
        /\ result'[q] = result[q] /\ docs' = docs /\ pending' = pending /\ missed' = missed
    BY <1>1 DEF tables, txnVars
  <2>3. EffectOf(q)'
    <3>1. EffectOf(q)
      BY DEF IdentityInv
    <3> QED
      BY <2>0, <3>1 DEF EffectOf, Inserts, Updates, Deletes, FindsNothing, NewVersion, UuidsIn
  <2> QED
    BY <2>1, <2>2, <2>3 DEF CallInv
<1>3. TransactionOf(r)' /\ EffectOf(r)'
  BY <1>1 DEF TransactionOf, EffectOf, Checking, Written
<1>4. PlanOf(r)'
  BY <1>1 DEF IdentityInv, PlanOf, tables, Finding, Checking
<1>5. \A q \in Request : q \in issued' => pc'[q] = "done"
  BY <1>1 DEF IdentityInv, tables
<1>6. Abstract!UuidUnique' /\ UuidsIn(docs)' \subseteq issued' /\ NoUuid \notin issued'
  BY <1>1 DEF IdentityInv, tables, Abstract!UuidUnique, Abstract!Present, UuidsIn
<1> QED
  BY <1>2, <1>3, <1>4, <1>5, <1>6 DEF IdentityInv, CallInv

LEMMA InitIdentity == Init => IdentityInv
<1> SUFFICES ASSUME Init PROVE IdentityInv
  OBVIOUS
<1>1. docs \in Store /\ issued = UuidsIn(docs) /\ \A i \in Id : docs[i] # NoDoc => docs[i].uuid = i
  BY SeedAssumption DEF Init
<1>2. Abstract!UuidUnique
  BY <1>1 DEF Abstract!UuidUnique, Abstract!Present
<1>3. issued \subseteq Id
  BY <1>1, StoreUuids
<1>4. NoUuid \notin issued /\ \A r \in Request : r \notin issued
  BY <1>3, NamesAssumption
<1>5. \A r \in Request : TransactionOf(r) /\ EffectOf(r)
  BY DEF Init, TransactionOf, EffectOf, Checking, Written
<1>6. \A r \in Request : PlanOf(r)
  BY DEF Init, PlanOf, NoCall, Finding, Checking
<1> QED
  BY <1>1, <1>2, <1>4, <1>5, <1>6 DEF IdentityInv

LEMMA NextIdentity ==
    ASSUME TypeOK, SessionInv, LocksExclude, IdentityInv, OneCallPerSession, [Next]_vars
    PROVE  IdentityInv'
<1>1. CASE UNCHANGED vars
  BY <1>1 DEF vars, tables, txnVars, callVars, planVars, IdentityInv, TransactionOf, PlanOf, EffectOf,
     Inserts, Updates, Deletes, FindsNothing, NewVersion, UuidsIn, Abstract!UuidUnique,
     Abstract!Present
<1>2. ASSUME NEW r \in Request, Step(r) PROVE IdentityInv'
  BY <1>2, PrivateStepIdentity, CommitIdentity
<1> QED
  BY <1>1, <1>2, ReceiveIdentity, CrashIdentity DEF Next, Quiescent

(* Each call, at each of its statements, has written just what the answer   *)
(* it is about to give promises; a documentUuid names at most one document, *)
(* whatever POSTs, PUTs and DELETEs run at the same time.                   *)
THEOREM CommitsKept == OneCallPerSession /\ Spec => []IdentityInv
<1>1. OneCallPerSession /\ Init => IdentityInv
  BY InitIdentity
<1>2. /\ OneCallPerSession /\ TypeOK /\ SessionInv /\ LocksExclude /\ IdentityInv /\ [Next]_vars
      => IdentityInv'
  BY NextIdentity
<1>3. OneCallPerSession => []OneCallPerSession
  <2>1. OneCallPerSession => OneCallPerSession'
    BY DEF OneCallPerSession
  <2> QED
    BY <2>1, PTL
<1> QED
  BY <1>1, <1>2, <1>3, TypeCorrect, SessionsExclude, PTL DEF Spec

-----------------------------------------------------------------------------
(* What is committed, and what is answered.                                 *)

(* A step commits nothing, or the transaction of one call.                  *)
LEMMA StepCommitsOne ==
    ASSUME TypeOK, SessionInv, LocksExclude, IdentityInv, OneCallPerSession, [Next]_vars
    PROVE  \/ UNCHANGED <<docs, issued>>
           \/ \E r \in Request : pc[r] = "commit" /\ Publish(session[r])
<1>1. CASE UNCHANGED vars
  BY <1>1 DEF vars, tables
<1>2. ASSUME NEW r \in Request, Receive(r) PROVE UNCHANGED <<docs, issued>>
  BY <1>2 DEF Receive, tables
<1>3. ASSUME NEW r \in Request, Step(r)
      PROVE  UNCHANGED <<docs, issued>> \/ (pc[r] = "commit" /\ Publish(session[r]))
  <2>1. CASE Commit(r)
    BY <2>1 DEF Commit, Sent, tables
  <2>2. CASE ~Commit(r)
    BY <1>3, <2>2, StepPrivate DEF Private, tables
  <2> QED
    BY <2>1, <2>2
<1>4. ASSUME NEW s \in Session, Crash(s)
      PROVE  \/ UNCHANGED <<docs, issued>>
             \/ \E r \in Request : pc[r] = "commit" /\ Publish(session[r])
  BY <1>4, CrashedCall DEF tables
<1> QED
  BY <1>1, <1>2, <1>3, <1>4 DEF Next, Quiescent

(* Each commit creates, replaces, moves or removes one document; a          *)
(* documentUuid and its createdAt last for life, and a deleted documentUuid *)
(* never comes back.                                                        *)
THEOREM ImplementsStore == OneCallPerSession /\ Spec => ImplementsDocumentStore
<1>1. Init => Abstract!Init
  BY DEF Init, Abstract!Init, Abstract!StoredUuids, Abstract!Present, UuidsIn
<1>2. OneCallPerSession /\ TypeOK /\ SessionInv /\ LocksExclude /\ IdentityInv /\ [Next]_vars
      => [Abstract!Next]_<<docs, issued>>
  BY StepCommitsOne, CommitSteps
<1>3. OneCallPerSession => []OneCallPerSession
  <2>1. OneCallPerSession => OneCallPerSession'
    BY DEF OneCallPerSession
  <2> QED
    BY <2>1, PTL
<1> QED
  BY <1>1, <1>2, <1>3, TypeCorrect, SessionsExclude, CommitsKept, PTL
  DEF Spec, ImplementsDocumentStore, Abstract!Spec

AnswerOf(r) ==
    LET i == req[r].id
        stored == docs'[i] # NoDoc /\ docs'[i].uuid = uuid[r]
                     /\ docs'[i].lastModifiedAt = req[r].ts
        existed == uuid[r] \in UuidsIn(docs)
    IN  CASE result'[r] = "INSERT_SUCCESS" -> docs[i] = NoDoc /\ stored
          [] result'[r] = "UPDATE_SUCCESS" ->
                IF existed THEN stored ELSE req[r].op = "upsert" /\ docs' = docs
          [] result'[r] = "DELETE_SUCCESS" ->
                existed /\ UuidsIn(docs') = UuidsIn(docs) \ {uuid[r]}
          [] OTHER -> docs' = docs

LEMMA CommitAnswer ==
    ASSUME TypeOK, SessionInv, IdentityInv, OneCallPerSession, NEW r \in Request, Commit(r)
    PROVE  AnswerOf(r)
<1>1. pc[r] = "commit" /\ result'[r] = result[r] /\ session[r] \in Session
  BY DEF Commit, Sent, TypeOK
<1>2. txn[session[r]] = "open"
  BY <1>1 DEF IdentityInv, TransactionOf, Written
<1>3. Publish(session[r])
  BY <1>2 DEF Commit
<1>4. Inserts(r) \/ Updates(r) \/ Deletes(r) \/ FindsNothing(r)
  BY <1>1 DEF IdentityInv, EffectOf, Written
<1>5. CASE Inserts(r)
  <2>1. result[r] = "INSERT_SUCCESS" /\ docs[req[r].id] = NoDoc
    BY <1>5 DEF Inserts
  <2>3. docs'[req[r].id] = NewVersion(r, req[r].ts) /\ docs'[req[r].id] # NoDoc
    BY <1>1, <1>3, <1>5, CommitInserts
  <2>2. /\ docs'[req[r].id] # NoDoc /\ docs'[req[r].id].uuid = uuid[r]
        /\ docs'[req[r].id].lastModifiedAt = req[r].ts
    BY <2>3 DEF NewVersion
  <2> QED
    BY <1>1, <2>1, <2>2 DEF AnswerOf
<1>6. CASE Updates(r)
  <2>1. result[r] = "UPDATE_SUCCESS"
    BY <1>6 DEF Updates
  <2>2. /\ docs'[req[r].id] # NoDoc /\ docs'[req[r].id].uuid = uuid[r]
        /\ docs'[req[r].id].lastModifiedAt = req[r].ts /\ uuid[r] \in UuidsIn(docs)
    BY <1>1, <1>3, <1>6, CommitUpdates
  <2> QED
    BY <1>1, <2>1, <2>2 DEF AnswerOf
<1>7. CASE Deletes(r)
  <2>1. result[r] = "DELETE_SUCCESS"
    BY <1>7 DEF Deletes
  <2>2. UuidsIn(docs') = UuidsIn(docs) \ {uuid[r]} /\ uuid[r] \in UuidsIn(docs)
    BY <1>1, <1>3, <1>7, CommitDeletes
  <2> QED
    BY <1>1, <2>1, <2>2 DEF AnswerOf
<1>8. CASE FindsNothing(r)
  <2>1. docs' = docs
    BY <1>1, <1>3, <1>8, CommitNothing
  <2>2. CASE result[r] = "UPDATE_SUCCESS"
    BY <1>1, <1>8, <2>1, <2>2 DEF AnswerOf, FindsNothing
  <2>3. CASE result[r] # "UPDATE_SUCCESS"
    BY <1>1, <1>8, <2>1, <2>3 DEF AnswerOf, FindsNothing
  <2> QED
    BY <2>2, <2>3
<1> QED
  BY <1>4, <1>5, <1>6, <1>7, <1>8

LEMMA StepAnswer ==
    ASSUME TypeOK, SessionInv, IdentityInv, OneCallPerSession, NEW r \in Request, Step(r),
           pc[r] \notin {"idle", "done"}, pc'[r] = "done"
    PROVE  AnswerOf(r)
<1>1. CASE Commit(r)
  BY <1>1, CommitAnswer
<1>2. CASE ~Commit(r)
  <2>1. docs' = docs
    BY <1>2, StepPrivate DEF Private, tables
  <2>2. PlanOf(r)'
    BY <1>2, PrivateStepIdentity DEF IdentityInv
  <2>3. result'[r] \notin Success
    <3>1. Own(r) /\ Effect(r)
      BY StepEffect
    <3>2. CASE pc[r] = "find"
      <4>1. FindForUpsert(r) \/ FindForUpdate(r) \/ FindForDelete(r) \/ Rejected(r)
        BY <3>2, <1>2 DEF Step, Begin, CheckReferencing, CheckSuperclass, ValidateReferences, Report,
           InsertDocument, UpdateDocument, DeleteDocument, DeleteAliases, InsertAlias,
           DeleteReferences, InsertReference, Wait, Deadlock, Rollback, Sent, Reads, Writes
      <4>2. \A next : Then(r, next) => pc'[r] = next
        BY ThenMoves
      <4>3. CASE \E response : Return(r, response) /\ response \notin Success
        BY <4>3 DEF Return, TypeOK
      <4>4. CASE Rejected(r) \/ FindForDelete(r)
        BY <4>2, <4>4 DEF Rejected, Fail, FindForDelete, Refuse
      <4>5. CASE FindForUpsert(r) \/ FindForUpdate(r)
        BY <4>2, <4>3, <4>5 DEF FindForUpsert, FindForUpdate, BeforeWrite, Success
      <4> QED
        BY <4>1, <4>4, <4>5
    <3>3. CASE Ends(r)
      <4>1. Rollback(r)
        BY <3>3, <1>2 DEF Ends, Step, Begin, Rejected, FindForUpsert, FindForUpdate, FindForDelete,
         CheckReferencing, CheckSuperclass, ValidateReferences, Report, InsertDocument,
         UpdateDocument, DeleteDocument, DeleteAliases, InsertAlias, DeleteReferences,
         InsertReference, Wait, Deadlock, Sent, Reads, Writes
      <4> QED
        BY <4>1 DEF Rollback, Sent, IdentityInv, PlanOf
    <3> QED
      BY <3>1, <3>2, <3>3 DEF Effect, Opens, Answers, Breaks, GoesOn
  <2> QED
    BY <2>1, <2>3 DEF AnswerOf, Success
<1> QED
  BY <1>1, <1>2

(* What is committed is what the response says: nothing else is when a call *)
(* is refused, fails, or is told that its document does not exist.          *)
THEOREM AnswersAreTrue == Spec => AnswerTellsWhatHappened
<1> DEFINE Answered(r) == pc[r] \notin {"idle", "done"} /\ pc'[r] = "done" /\ result'[r] # "NONE"
<1>1. ASSUME TypeOK, SessionInv, LocksExclude, IdentityInv, OneCallPerSession, [Next]_vars,
             NEW r \in Request, Answered(r)
      PROVE  AnswerOf(r)
  <2>1. CASE UNCHANGED vars
    BY <1>1, <2>1 DEF vars
  <2>2. ASSUME NEW q \in Request, Receive(q) PROVE AnswerOf(r)
    BY <1>1, <2>2 DEF Receive, TypeOK
  <2>3. ASSUME NEW q \in Request, Step(q) PROVE AnswerOf(r)
    <3>1. q = r
      BY <1>1, <2>3, StepEffect DEF Own
    <3> QED
      BY <1>1, <2>3, <3>1, StepAnswer
  <2>4. ASSUME NEW s \in Session, Crash(s) PROVE AnswerOf(r)
    BY <1>1, <2>4 DEF Crash
  <2> QED
    BY <1>1, <2>1, <2>2, <2>3, <2>4 DEF Next, Quiescent
<1>2. TypeOK /\ SessionInv /\ LocksExclude /\ (OneCallPerSession => IdentityInv) /\ [Next]_vars
      => [OneCallPerSession => \A r \in Request : Answered(r) => AnswerOf(r)]_vars
  BY <1>1
<1>3. Spec => [](OneCallPerSession => IdentityInv)
  <2>1. ~OneCallPerSession => [](~OneCallPerSession)
    <3>1. ~OneCallPerSession => ~OneCallPerSession'
      BY DEF OneCallPerSession
    <3> QED
      BY <3>1, PTL
  <2> QED
    BY <2>1, CommitsKept, PTL
<1> QED
  BY <1>2, <1>3, TypeCorrect, SessionsExclude, PTL DEF Spec, AnswerTellsWhatHappened, AnswerOf
=============================================================================
