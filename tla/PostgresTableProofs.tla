-------------------------- MODULE PostgresTableProofs --------------------------
(* The tables of PostgresStore agree, and validated references resolve, on  *)
(* sessions that serve one call at a time, as long as no document changes   *)
(* its identity and no UPDATE finds its document deleted.                   *)
EXTENDS PostgresProofs, FiniteSetTheorems

TableCall(r) == FoundOf(r) /\ RowsWrittenBy(r) /\ WaitsFor(r)

LEMMA OldRowsTyped ==
    ASSUME TypeOK, NEW r \in Request, NEW table \in {"aliases", "references"}
    PROVE  /\ OldRows(r, table) \subseteq rows /\ OldRows(r, table) \subseteq Row
           /\ \A w \in OldRows(r, table) : w.table = table /\ w.mid \in old[r]
BY DEF TypeOK, OldRows

LEMMA NewRowsTyped ==
    ASSUME NEW r, NEW u, NEW i, NEW a
    PROVE  /\ AliasRow(r, u, i, a).table = "aliases" /\ AliasRow(r, u, i, a).by = r
           /\ AliasRow(r, u, i, a).uuid = u /\ AliasRow(r, u, i, a).mid = i
           /\ AliasRow(r, u, i, a).alias = a
           /\ ReferenceRow(r, i, a).table = "references" /\ ReferenceRow(r, i, a).by = r
           /\ ReferenceRow(r, i, a).uuid = NoUuid /\ ReferenceRow(r, i, a).mid = i
           /\ ReferenceRow(r, i, a).alias = a
BY DEF AliasRow, ReferenceRow

LEMMA NewRowsOf ==
    ASSUME NEW r, NEW as
    PROVE  /\ \A w \in NewAliases(r, as) : /\ w.table = "aliases" /\ w.by = r /\ w.uuid = uuid[r]
                                           /\ w.mid = req[r].id /\ w.alias \in as
           /\ \A w \in NewReferences(r, as) : /\ w.table = "references" /\ w.by = r
                                              /\ w.uuid = NoUuid
                                              /\ w.mid = req[r].id /\ w.alias \in as
           /\ \A a \in as : /\ \E w \in NewAliases(r, as) : w.alias = a
                            /\ \E w \in NewReferences(r, as) : w.alias = a
           /\ \A v, w \in NewAliases(r, as) : v.alias = w.alias => v = w
           /\ \A v, w \in NewReferences(r, as) : v.alias = w.alias => v = w
<1> DEFINE row(a) == AliasRow(r, uuid[r], req[r].id, a)
           ref(a) == ReferenceRow(r, req[r].id, a)
<1>1. /\ \A a \in as : row(a) \in NewAliases(r, as) /\ ref(a) \in NewReferences(r, as)
      /\ \A w \in NewAliases(r, as) : \E a \in as : w = row(a)
      /\ \A w \in NewReferences(r, as) : \E a \in as : w = ref(a)
  BY DEF NewAliases, NewReferences
<1>2. \A a : /\ row(a).table = "aliases" /\ row(a).by = r /\ row(a).uuid = uuid[r]
             /\ row(a).mid = req[r].id /\ row(a).alias = a
             /\ ref(a).table = "references" /\ ref(a).by = r /\ ref(a).uuid = NoUuid
             /\ ref(a).mid = req[r].id /\ ref(a).alias = a
  BY NewRowsTyped
<1> HIDE DEF row, ref
<1>3. \A w \in NewAliases(r, as) : /\ w.table = "aliases" /\ w.by = r /\ w.uuid = uuid[r]
                                   /\ w.mid = req[r].id /\ w.alias \in as /\ w = row(w.alias)
  <2> TAKE w \in NewAliases(r, as)
  <2>1. PICK a \in as : w = row(a)
    BY <1>1
  <2> QED
    BY <1>2, <2>1
<1>4. \A w \in NewReferences(r, as) : /\ w.table = "references" /\ w.by = r /\ w.uuid = NoUuid
                                      /\ w.mid = req[r].id /\ w.alias \in as /\ w = ref(w.alias)
  <2> TAKE w \in NewReferences(r, as)
  <2>1. PICK a \in as : w = ref(a)
    BY <1>1
  <2> QED
    BY <1>2, <2>1
<1>5. \A a \in as : /\ \E w \in NewAliases(r, as) : w.alias = a
                    /\ \E w \in NewReferences(r, as) : w.alias = a
  BY <1>1, <1>2
<1>6. /\ \A v, w \in NewAliases(r, as) : v.alias = w.alias => v = w
      /\ \A v, w \in NewReferences(r, as) : v.alias = w.alias => v = w
  BY <1>3, <1>4, Zenon
<1> QED
  BY <1>3, <1>4, <1>5, <1>6

(* The rows of a document that is there name it.                            *)
LEMMA AliasRowsOf ==
    ASSUME TypeOK, TableInv, NEW w \in rows, w.table = "aliases"
    PROVE  /\ w.mid \in Id /\ docs[w.mid] # NoDoc /\ docs[w.mid].uuid = w.uuid
           /\ w.alias \in Aliases(w.mid)
BY DEF TypeOK, Row, TableInv, RowsMatch

LEMMA AliasRowOf ==
    ASSUME TypeOK, TableInv, NEW i \in Id, docs[i] # NoDoc, NEW a \in Aliases(i)
    PROVE  \E w \in rows : /\ w.table = "aliases" /\ w.mid = i /\ w.alias = a
                           /\ w.uuid = docs[i].uuid
BY DEF TableInv, RowsMatch, RowsIn

(* A step that commits nothing leaves the other calls as they were.         *)
LEMMA BystanderTables ==
    ASSUME TypeOK, OneCallPerSession, NEW r \in Request, Own(r), pc[r] \notin {"idle", "done"},
           NEW q \in Request \ {r}, TableCall(q), UNCHANGED <<docs, rows>>
    PROVE  TableCall(q)'
<1>1. /\ pc'[q] = pc[q] /\ uuid'[q] = uuid[q] /\ old'[q] = old[q] /\ list'[q] = list[q]
      /\ doomed'[q] = doomed[q] /\ result'[q] = result[q]
      /\ req'[q] = req[q] /\ session'[q] = session[q]
  BY DEF Own
<1>2. WaitsFor(q)'
  BY <1>1 DEF TableCall, WaitsFor, OldRows
<1>3. CASE pc[q] \in {"idle", "done"}
  BY <1>1, <1>2, <1>3 DEF TableCall, FoundOf, RowsWrittenBy, Checking, Written
<1>4. CASE pc[q] \notin {"idle", "done"}
  <2>1. /\ pending'[session[q]] = pending[session[q]] /\ shared'[session[q]] = shared[session[q]]
        /\ gone'[session[q]] = gone[session[q]] /\ fresh'[session[q]] = fresh[session[q]]
    BY <1>4, SessionOfOther DEF Own
  <2>2. FoundOf(q)'
    BY <1>1, <2>1 DEF TableCall, FoundOf
  <2>3. RowsWrittenBy(q)'
    BY <1>1, <2>1 DEF TableCall, RowsWrittenBy, OldRows, NewAliases, NewReferences
  <2> QED
    BY <1>2, <2>2, <2>3 DEF TableCall
<1> QED
  BY <1>3, <1>4

(* What the sessions hold of the rows that are committed.                   *)
HeldRows == \A s \in Session : shared[s] \cup locked[s] \subseteq rows

LEMMA PrivateTables ==
    ASSUME TypeOK, TableInv, OneCallPerSession, NEW r \in Request, Private(r), TableCall(r)',
           HeldRows'
    PROVE  TableInv'
<1>1. \A q \in Request : TableCall(q)'
  <2>1. \A q \in Request \ {r} : TableCall(q)'
    BY BystanderTables DEF TableInv, TableCall, Private, tables
  <2> QED
    BY <2>1
<1>2. \A w \in rows' : w.by \in Request => pc'[w.by] = "done"
  BY DEF TableInv, Private, Own, tables
<1>3. \A i \in Id : RowsMatch(rows', docs'[i], i)
  BY DEF TableInv, Private, tables, RowsMatch, RowsIn, SameContents
<1> QED
  BY <1>1, <1>2, <1>3 DEF TableInv, TableCall, HeldRows

LEMMA PrivateHolds ==
    ASSUME TypeOK, SessionInv, TableInv, IdentityInv, OneCallPerSession, NEW r \in Request, Private(r),
           Effect(r)
    PROVE  HeldRows'
<1>1. PICK s \in Session : s = session[r]
  BY DEF Private, TypeOK
<1>2. SUFFICES shared'[s] \cup locked'[s] \subseteq rows
  BY <1>1 DEF HeldRows, Private, Own, TableInv, tables
<1>3. CASE UNCHANGED <<shared, locked>>
  BY <1>3 DEF TableInv
<1>4. CASE Ends(r) \/ Breaks(r)
  BY <1>1, <1>4, EndHolds DEF Ends, Breaks, HoldsNothing
<1>5. CASE Changes(r)
  BY <1>1, <1>3, <1>5, WriteHolds DEF Changes
<1>6. CASE Locks(r)
  <2>1. PICK found \in SUBSET Rows(s) :
           \/ shared' = [shared EXCEPT ![s] = @ \cup found] /\ UNCHANGED locked
           \/ locked' = [locked EXCEPT ![s] = @ \cup found] /\ UNCHANGED shared
    BY <1>1, <1>6 DEF Locks
  <2> QED
    <3>1. Rows(s) = rows
      <4>1. pc[r] = "find" \/ pc[r] \in Checking
        BY <1>6 DEF Locks, Checking
      <4> QED
        BY <1>1, <4>1, FindSees, CheckSees
    <3>2. found \subseteq rows
      BY <3>1
    <3> QED
      BY <1>1, <2>1, <3>2 DEF TypeOK, TableInv
<1> QED
  BY <1>3, <1>4, <1>5, <1>6 DEF Effect, Opens, Answers, txnVars

-----------------------------------------------------------------------------
(* The statements that find and check.                                      *)
LEMMA OutOfTables ==
    ASSUME NEW r \in Request, pc'[r] \notin Checking \cup Written, doomed'[r] = {}
    PROVE  TableCall(r)'
BY DEF TableCall, FoundOf, RowsWrittenBy, WaitsFor, Checking, Written

LEMMA NoDoomed ==
    ASSUME TableInv, NEW r \in Request, pc[r] \notin {"unalias", "unref"}
    PROVE  doomed[r] = {}
BY DEF TableInv, WaitsFor

LEMMA UuidOfDoc ==
    ASSUME TypeOK, IdentityInv, NEW i \in Id, docs[i] # NoDoc
    PROVE  /\ docs[i].uuid \in issued
           /\ \A j \in Id : docs[j] # NoDoc /\ docs[j].uuid = docs[i].uuid => j = i
           /\ \A r \in Request : pc[r] # "done" => docs[i].uuid # r
<1>1. docs[i].uuid \in UuidsIn(docs)
  BY StoreUuids DEF TypeOK
<1> QED
  BY <1>1 DEF IdentityInv, Abstract!UuidUnique, Abstract!Present

LEMMA CheckedTables ==
    ASSUME TypeOK, IdentityInv, TableInv, NEW r \in Request, Private(r),
           pc[r] \in {"super", "validate", "referencing"}, pc'[r] \in Checking,
           uuid'[r] = uuid[r], old'[r] = old[r], doomed'[r] = doomed[r],
           UNCHANGED shared,
           result'[r] = result[r] \/ pc'[r] = "report"
    PROVE  TableCall(r)'
<1>1. /\ docs' = docs /\ rows' = rows /\ req'[r] = req[r] /\ session'[r] = session[r]
      /\ doomed'[r] = {}
  BY NoDoomed DEF Private, Own, tables
<1>2. WaitsFor(r)' /\ RowsWrittenBy(r)'
  BY <1>1 DEF WaitsFor, RowsWrittenBy, Checking
<1>3. result[r] = "INSERT_SUCCESS" => \A j \in Id : docs[j] # NoDoc => docs[j].uuid # uuid[r]
  BY UuidOfDoc DEF IdentityInv, PlanOf
<1>4. FoundOf(r)'
  BY <1>1, <1>3 DEF TableInv, FoundOf, Checking, Written
<1> QED
  BY <1>2, <1>4 DEF TableCall

LEMMA FailTables ==
    ASSUME TypeOK, TableInv, NEW r \in Request, pc[r] \notin {"unalias", "unref"},
           \/ Fail(r)
           \/ \E response : Return(r, response)
           \/ \E response : Refuse(r, "rollback", response)
    PROVE  TableCall(r)'
<1>1. pc'[r] \in {"rollback", "done"}
  BY ThenMoves DEF Fail, Return, Refuse
<1>2. doomed'[r] = {}
  BY NoDoomed DEF Fail, Return, Refuse, planVars, TypeOK
<1> QED
  BY <1>1, <1>2, OutOfTables DEF Checking, Written

LEMMA FindForUpsertTables ==
    ASSUME TypeOK, SessionInv, IdentityInv, TableInv, OneCallPerSession, NEW r \in Request,
           Private(r), FindForUpsert(r)
    PROVE  TableCall(r)'
<1> DEFINE i == req[r].id
<1>1. pc[r] = "find" /\ req[r].op = "upsert" /\ doomed[r] = {}
  BY NoDoomed DEF FindForUpsert, Reads, Sent
<1>2. session[r] \in Session /\ View(session[r]) = docs /\ i \in Id
  BY <1>1, FindSees DEF Call
<1>3. CASE Return(r, "UPSERT_FAILURE_WRITE_CONFLICT")
  BY <1>1, <1>3, FailTables
<1>4. CASE ~Return(r, "UPSERT_FAILURE_WRITE_CONFLICT")
  <2>1. /\ uuid'[r] = IF docs[i] = NoDoc THEN r ELSE docs[i].uuid
        /\ result'[r] = IF docs[i] = NoDoc THEN "INSERT_SUCCESS" ELSE "UPDATE_SUCCESS"
        /\ old'[r] = {i}
        /\ UNCHANGED <<tables, txnVars, callVars, doomed>>
    BY <1>2, <1>4 DEF FindForUpsert, TypeOK
  <2>2. pc'[r] \in {"super", "validate", "write"}
    BY <1>2, <1>4, ThenMoves DEF FindForUpsert, BeforeWrite
  <2>3. docs[i] # NoDoc => \A j \in Id : docs[j] # NoDoc /\ docs[j].uuid = docs[i].uuid => j = i
    BY <1>2, UuidOfDoc
  <2>4. FoundOf(r)'
    BY <1>1, <2>1, <2>2, <2>3 DEF FoundOf, Checking, Written, callVars, tables
  <2>5. RowsWrittenBy(r)' /\ WaitsFor(r)'
    BY <1>1, <2>1, <2>2 DEF RowsWrittenBy, WaitsFor
  <2> QED
    BY <2>4, <2>5 DEF TableCall
<1> QED
  BY <1>3, <1>4

LEMMA FindForUpdateTables ==
    ASSUME TypeOK, SessionInv, IdentityInv, TableInv, OneCallPerSession, IdentitiesFixed,
           NEW r \in Request, Private(r), FindForUpdate(r)
    PROVE  TableCall(r)'
<1>1. pc[r] = "find" /\ req[r].op = "update" /\ doomed[r] = {}
  BY NoDoomed DEF FindForUpdate, Reads, Sent
<1>2. session[r] \in Session /\ View(session[r]) = docs
  BY <1>1, FindSees
<1>3. CASE \E response : Return(r, response)
  BY <1>1, <1>3, FailTables
<1>4. CASE ~\E response : Return(r, response)
  <2>1. PICK i \in At(docs, uuid[r]) :
           /\ req[r].allow \/ i = req[r].id
           /\ old' = [old EXCEPT ![r] = {i}]
           /\ Then(r, BeforeWrite(r))
           /\ UNCHANGED <<tables, txnVars, callVars, uuid, doomed>>
    BY <1>2, <1>4 DEF FindForUpdate
  <2>2. i = req[r].id /\ i \in Id /\ docs[i] # NoDoc /\ docs[i].uuid = uuid[r] /\ old'[r] = {i}
    BY <2>1 DEF IdentitiesFixed, At, TypeOK
  <2>3. pc'[r] \in {"validate", "write"}
    BY <2>1, ThenMoves DEF BeforeWrite
  <2>4. \A j \in Id : docs[j] # NoDoc /\ docs[j].uuid = uuid[r] => j = i
    BY <2>2, UuidOfDoc
  <2>5. FoundOf(r)'
    BY <1>1, <2>1, <2>2, <2>3, <2>4 DEF FoundOf, Checking, Written, callVars, tables
  <2>6. RowsWrittenBy(r)' /\ WaitsFor(r)'
    BY <1>1, <2>1, <2>3 DEF RowsWrittenBy, WaitsFor
  <2> QED
    BY <2>5, <2>6 DEF TableCall
<1> QED
  BY <1>3, <1>4

(* What a DELETE finds, when it goes on.                                    *)
LEMMA DeleteFinds ==
    ASSUME TypeOK, SessionInv, IdentityInv, TableInv, OneCallPerSession, NEW r \in Request,
           Private(r), FindForDelete(r), pc'[r] # "rollback"
    PROVE  LET found == {w \in rows : w.table = "aliases" /\ w.uuid = uuid[r]}
           IN  /\ pc[r] = "find" /\ req[r].op = "delete"
               /\ pc'[r] = IF req[r].validate THEN "referencing" ELSE "write"
               /\ shared'[session[r]] = shared[session[r]] \cup found
               /\ IF found = {} THEN old'[r] = {} /\ ~req[r].validate
                  ELSE \E i \in Id : /\ old'[r] = {i}
                                     /\ docs[i] # NoDoc /\ docs[i].uuid = uuid[r]
               /\ \A i \in Id : docs[i] # NoDoc /\ docs[i].uuid = uuid[r] => old'[r] = {i}
               /\ req[r].validate => list'[r] = {w.alias : w \in found}
               /\ UNCHANGED <<tables, callVars, uuid, doomed, result>>
<1> DEFINE found == {w \in rows : w.table = "aliases" /\ w.uuid = uuid[r]}
<1>1. pc[r] = "find" /\ req[r].op = "delete"
  BY DEF FindForDelete, Reads, Sent
<1>2. session[r] \in Session /\ txn[session[r]] = "open" /\ Rows(session[r]) = rows
  BY <1>1, FindSees
<1>3. ~(Fail(r) \/ Refuse(r, "rollback", "DELETE_FAILURE_NOT_EXISTS"))
  BY ThenMoves DEF Fail, Refuse
<1>4. /\ req[r].validate => found # {}
      /\ shared' = [shared EXCEPT ![session[r]] = @ \cup found]
      /\ list' = [list EXCEPT ![r] = IF req[r].validate THEN {w.alias : w \in found} ELSE {}]
      /\ Then(r, IF req[r].validate THEN "referencing" ELSE "write")
      /\ UNCHANGED <<tables, callVars, uuid, doomed, result>>
      /\ \E i \in Id : /\ found # {} => i \in {w.mid : w \in found}
                       /\ old' = [old EXCEPT ![r] = IF found = {} THEN {} ELSE {i}]
  BY <1>2, <1>3 DEF FindForDelete
<1>5. PICK i \in Id : /\ found # {} => i \in {w.mid : w \in found}
                      /\ old' = [old EXCEPT ![r] = IF found = {} THEN {} ELSE {i}]
  BY <1>4
<1>6. old'[r] = IF found = {} THEN {} ELSE {i}
  BY <1>5 DEF TypeOK
<1>7. found # {} => docs[i] # NoDoc /\ docs[i].uuid = uuid[r]
  BY <1>5, AliasRowsOf
<1>8. ASSUME NEW j \in Id, docs[j] # NoDoc, docs[j].uuid = uuid[r]
      PROVE  found # {} /\ i = j
  <2>1. j \in Aliases(j)
    BY DEF Aliases
  <2>2. found # {}
    BY <1>8, <2>1, AliasRowOf
  <2> QED
    BY <1>7, <1>8, <2>2, UuidOfDoc
<1>9. pc'[r] = IF req[r].validate THEN "referencing" ELSE "write"
  BY <1>4, ThenMoves
<1>10. /\ shared'[session[r]] = shared[session[r]] \cup found
       /\ req[r].validate => list'[r] = {w.alias : w \in found}
  BY <1>2, <1>4 DEF TypeOK
<1> HIDE DEF found
<1>11. /\ IF found = {} THEN old'[r] = {} /\ ~req[r].validate
          ELSE \E k \in Id : old'[r] = {k} /\ docs[k] # NoDoc /\ docs[k].uuid = uuid[r]
       /\ \A k \in Id : docs[k] # NoDoc /\ docs[k].uuid = uuid[r] => old'[r] = {k}
  BY <1>4, <1>6, <1>7, <1>8
<1> QED
  BY <1>1, <1>4, <1>9, <1>10, <1>11 DEF found

LEMMA FindForDeleteTables ==
    ASSUME TypeOK, SessionInv, IdentityInv, TableInv, OneCallPerSession, NEW r \in Request,
           Private(r), FindForDelete(r)
    PROVE  TableCall(r)'
<1>1. CASE pc'[r] = "rollback"
  <2>1. pc[r] = "find"
    BY DEF FindForDelete, Reads, Sent
  <2>2. doomed'[r] = {}
    BY <2>1, NoDoomed DEF FindForDelete, Fail, Refuse, planVars, TypeOK
  <2> QED
    BY <1>1, <2>2, OutOfTables DEF Checking, Written
<1>2. CASE pc'[r] # "rollback"
  <2> DEFINE found == {w \in rows : w.table = "aliases" /\ w.uuid = uuid[r]}
  <2>1. /\ pc[r] = "find" /\ req[r].op = "delete" /\ pc'[r] \in {"referencing", "write"}
        /\ found \subseteq shared'[session[r]]
        /\ \A i \in old'[r] : docs[i] # NoDoc /\ docs[i].uuid = uuid[r]
        /\ \A i \in Id : docs[i] # NoDoc /\ docs[i].uuid = uuid[r] => i \in old'[r]
        /\ UNCHANGED <<tables, callVars, uuid, doomed, result>>
    BY <1>2, DeleteFinds
  <2>2. doomed'[r] = {}
    BY <2>1, NoDoomed
  <2>3. FoundOf(r)'
    BY <2>1 DEF FoundOf, Checking, Written, callVars, tables
  <2>4. RowsWrittenBy(r)' /\ WaitsFor(r)'
    BY <2>1, <2>2 DEF RowsWrittenBy, WaitsFor, callVars
  <2> QED
    BY <2>3, <2>4 DEF TableCall
<1> QED
  BY <1>1, <1>2

LEMMA ReadTables ==
    ASSUME TypeOK, SessionInv, IdentityInv, TableInv, OneCallPerSession, NEW r \in Request,
           Private(r), CheckReferencing(r) \/ CheckSuperclass(r) \/ ValidateReferences(r) \/ Report(r)
    PROVE  TableCall(r)'
<1>1. CASE CheckReferencing(r)
  <2>1. pc[r] = "referencing" /\ UNCHANGED <<txnVars, uuid, old, doomed, result>>
    BY <1>1 DEF CheckReferencing, Reads, Sent
  <2>2. pc'[r] \in {"report", "write"}
    BY <1>1, ThenMoves DEF CheckReferencing
  <2> QED
    BY <2>1, <2>2, CheckedTables DEF Checking, txnVars
<1>2. CASE CheckSuperclass(r)
  <2>1. pc[r] = "super" /\ UNCHANGED <<txnVars, uuid, old, doomed>>
        /\ BeforeWrite(r) \in {"validate", "write"}
    BY <1>2 DEF CheckSuperclass, Reads, Sent, Refuse, planVars, BeforeWrite
  <2>2. \/ pc'[r] = "report"
        \/ pc'[r] = BeforeWrite(r) /\ result'[r] = result[r]
    BY <1>2, ThenMoves DEF CheckSuperclass, Refuse, TypeOK
  <2> QED
    BY <2>1, <2>2, CheckedTables DEF Checking, txnVars
<1>3. CASE ValidateReferences(r)
  <2>1. pc[r] = "validate"
    BY <1>3 DEF ValidateReferences, Reads, Sent
  <2>2. CASE Fail(r)
    BY <2>1, <2>2, FailTables
  <2>3. CASE ~Fail(r)
    <3>1. UNCHANGED <<shared, uuid, old, doomed>>
      BY <1>3, <2>3 DEF ValidateReferences, LockReferenced, Refuse, planVars
    <3>2. pc'[r] = "report" \/ (pc'[r] = "write" /\ result'[r] = result[r])
      BY <1>3, <2>3, ThenMoves DEF ValidateReferences, Refuse, TypeOK
    <3> QED
      BY <2>1, <3>1, <3>2, CheckedTables DEF Checking
  <2> QED
    BY <2>2, <2>3
<1>4. CASE Report(r)
  <2>1. pc[r] = "report" /\ pc'[r] = "rollback" /\ UNCHANGED doomed
    BY <1>4, ThenMoves DEF Report, Reads, Sent, AfterReport
  <2> QED
    BY <2>1, NoDoomed, OutOfTables DEF Checking, Written
<1> QED
  BY <1>1, <1>2, <1>3, <1>4

-----------------------------------------------------------------------------
(* The statements that write.                                               *)
LEMMA InsertDocumentTables ==
    ASSUME TypeOK, IdentityInv, TableInv, NEW r \in Request, Private(r), InsertDocument(r)
    PROVE  TableCall(r)'
<1> DEFINE i == req[r].id  d == [j \in {i} |-> NewVersion(r, req[r].ts)]
<1>1. /\ pc[r] = "write" /\ result[r] = "INSERT_SUCCESS" /\ req[r].op # "delete"
  BY DEF InsertDocument, Writes, Sent
<1>2. /\ session[r] \in Session /\ txn[session[r]] = "open" /\ View(session[r]) = docs
      /\ DOMAIN pending[session[r]] = {} /\ gone[session[r]] = {} /\ fresh[session[r]] = {}
  BY <1>1, CheckSees DEF Checking
<1>3. CASE Fail(r)
  BY <1>1, <1>3, FailTables
<1>4. CASE ~Fail(r)
  <2>1. /\ Write(session[r], d, {}, {}) /\ Then(r, "unalias")
        /\ UNCHANGED <<callVars, planVars, result>>
    BY <1>2, <1>4 DEF InsertDocument
  <2>2. pc'[r] = "unalias" /\ doomed'[r] = {}
    BY <1>1, <2>1, ThenMoves, NoDoomed DEF planVars
  <2>3. DOMAIN d = {i}
    OBVIOUS
  <2> HIDE DEF d
  <2>4. DOMAIN pending'[session[r]] = DOMAIN pending[session[r]] \cup DOMAIN d
    BY <1>2, <2>1, WriteHolds
  <2>5. gone'[session[r]] = {} /\ fresh'[session[r]] = {}
    BY <1>2, <2>1, WriteHolds
  <2>6. old[r] = {i}
    BY <1>1 DEF TableInv, FoundOf, Checking
  <2>7. FoundOf(r)'
    BY <1>1, <1>2, <2>1, <2>2, <2>3, <2>4, <2>6 DEF FoundOf, Checking, Written, callVars, planVars
  <2>8. RowsWrittenBy(r)' /\ WaitsFor(r)'
    BY <1>1, <2>1, <2>2, <2>5 DEF RowsWrittenBy, WaitsFor, callVars
  <2> QED
    BY <2>7, <2>8 DEF TableCall
<1> QED
  BY <1>3, <1>4

LEMMA UpdateDocumentTables ==
    ASSUME TypeOK, IdentityInv, TableInv, ~missed', NEW r \in Request, Private(r), UpdateDocument(r)
    PROVE  TableCall(r)'
<1> DEFINE i == req[r].id
           moved(j) == [k \in {i, j} |-> IF k = i THEN NewVersion(r, docs[j].createdAt) ELSE NoDoc]
<1>1. /\ pc[r] = "write" /\ result[r] = "UPDATE_SUCCESS" /\ req[r].op # "delete"
  BY DEF UpdateDocument, Writes, Sent
<1>2. /\ session[r] \in Session /\ txn[session[r]] = "open" /\ View(session[r]) = docs
      /\ DOMAIN pending[session[r]] = {} /\ gone[session[r]] = {} /\ fresh[session[r]] = {}
  BY <1>1, CheckSees DEF Checking
<1>3. CASE Fail(r)
  BY <1>1, <1>3, FailTables
<1>4. CASE ~Fail(r)
  <2>0. PICK j \in At(docs, uuid[r]) : /\ Write(session[r], moved(j), {}, {}) /\ Then(r, "unalias")
                                       /\ UNCHANGED <<callVars, planVars, result>>
    BY <1>2, <1>4 DEF UpdateDocument
  <2> DEFINE d == moved(j)
  <2>1. DOMAIN d = {i, j} /\ Write(session[r], d, {}, {})
    BY <2>0
  <2> HIDE DEF d, moved
  <2>2. pc'[r] = "unalias" /\ doomed'[r] = {}
    BY <1>1, <2>0, ThenMoves, NoDoomed DEF planVars
  <2>3. DOMAIN pending'[session[r]] = DOMAIN pending[session[r]] \cup DOMAIN d
    BY <1>2, <2>1, WriteHolds
  <2>4. gone'[session[r]] = {} /\ fresh'[session[r]] = {} /\ UNCHANGED tables
    BY <1>2, <2>1, WriteHolds
  <2>5. old[r] = {i} /\ \A k \in Id : docs[k] # NoDoc /\ docs[k].uuid = uuid[r] => k \in old[r]
    BY <1>1 DEF TableInv, FoundOf, Checking
  <2>6. j = i
    BY <2>0, <2>5 DEF At
  <2>7. FoundOf(r)'
    BY <1>1, <1>2, <2>0, <2>1, <2>2, <2>3, <2>4, <2>5, <2>6
    DEF FoundOf, Checking, Written, callVars, planVars, tables
  <2>8. RowsWrittenBy(r)' /\ WaitsFor(r)'
    BY <1>1, <2>0, <2>2, <2>4 DEF RowsWrittenBy, WaitsFor, callVars
  <2> QED
    BY <2>7, <2>8 DEF TableCall
<1> QED
  BY <1>3, <1>4

LEMMA DeleteDocumentTables ==
    ASSUME TypeOK, IdentityInv, TableInv, NEW r \in Request, Private(r), DeleteDocument(r)
    PROVE  TableCall(r)'
<1> DEFINE at == At(docs, uuid[r])  d == [i \in at |-> NoDoc]
<1>1. pc[r] = "write" /\ req[r].op = "delete"
  BY DEF DeleteDocument, Writes, Sent
<1>2. /\ session[r] \in Session /\ txn[session[r]] = "open" /\ View(session[r]) = docs
      /\ DOMAIN pending[session[r]] = {} /\ gone[session[r]] = {} /\ fresh[session[r]] = {}
  BY <1>1, CheckSees DEF Checking
<1>3. /\ Write(session[r], d, {}, {}) /\ Then(r, "unref")
      /\ UNCHANGED <<callVars, planVars>>
  BY <1>2 DEF DeleteDocument
<1>4. pc'[r] = "unref" /\ doomed'[r] = {}
  BY <1>1, <1>3, ThenMoves, NoDoomed DEF planVars
<1>5. DOMAIN d = at
  OBVIOUS
<1>6. at = old[r]
  <2>0. result[r] # "INSERT_SUCCESS"
    BY <1>1 DEF IdentityInv, PlanOf
  <2>3. old[r] \subseteq Id
    <3>1. \A is \in {{}} \cup {{i} : i \in Id} : is \subseteq Id
      OBVIOUS
    <3> QED
      BY <3>1 DEF TypeOK
  <2>1. /\ result[r] # "INSERT_SUCCESS" /\ old[r] \subseteq Id
        /\ FoundOf(r)
    BY <2>0, <2>3 DEF TableInv
  <2>2. \A j \in Id : docs[j] # NoDoc /\ docs[j].uuid = uuid[r] <=> j \in old[r]
    BY <1>1, <2>1 DEF FoundOf, Checking
  <2> QED
    BY <2>1, <2>2 DEF At
<1> HIDE DEF d, at
<1>7. DOMAIN pending'[session[r]] = DOMAIN pending[session[r]] \cup DOMAIN d
  BY <1>2, <1>3, WriteHolds
<1>8. gone'[session[r]] = {} /\ fresh'[session[r]] = {} /\ UNCHANGED <<tables, shared>>
  BY <1>2, <1>3, WriteHolds
<1>9. FoundOf(r)'
  <2>1. result[r] # "INSERT_SUCCESS"
    BY <1>1 DEF IdentityInv, PlanOf
  <2> QED
    BY <1>1, <1>2, <1>3, <1>4, <1>5, <1>6, <1>7, <1>8, <2>1
    DEF TableInv, FoundOf, Checking, Written, callVars, planVars, tables
<1>10. RowsWrittenBy(r)' /\ WaitsFor(r)'
  BY <1>1, <1>3, <1>4, <1>8 DEF RowsWrittenBy, WaitsFor, callVars
<1> QED
  BY <1>9, <1>10 DEF TableCall

(* The rows a DELETE statement of the call deletes are those of the earlier *)
(* version, whether it had to wait or not.                                  *)
LEMMA DeletesOldRows ==
    ASSUME TypeOK, IdentityInv, TableInv, NEW r \in Request, pc[r] \in {"unalias", "unref"}
    PROVE  LET table == IF pc[r] = "unalias" THEN "aliases" ELSE "references"
           IN  /\ DeletedRows(r) = OldRows(r, table)
               /\ DeletedRows(r) \cap fresh[session[r]] = {}
<1> DEFINE table == IF pc[r] = "unalias" THEN "aliases" ELSE "references"
           s == session[r]
           oldRows == OldRows(r, table)
<1>1. RowsWrittenBy(r) /\ WaitsFor(r)
  BY DEF TableInv
<1>2. /\ gone[s] = {} \/ \E other \in {"aliases", "references"} \ {table} : gone[s] = OldRows(r, other)
      /\ fresh[s] = {} \/ (table = "references" /\ \E as : fresh[s] = NewAliases(r, as))
  BY <1>1 DEF RowsWrittenBy
<1>3. \A w \in gone[s] \cup fresh[s] : w.table # table
  BY <1>2, NewRowsOf DEF OldRows
<1>4. oldRows = {w \in Rows(s) : w.table = table /\ w.mid \in old[r]}
  <2>1. \A w : w \in Rows(s) <=> (w \in rows /\ w \notin gone[s]) \/ w \in fresh[s]
    BY DEF Rows
  <2>2. \A w : w \in oldRows <=> w \in rows /\ w.table = table /\ w.mid \in old[r]
    BY DEF OldRows
  <2> HIDE DEF table, oldRows, s
  <2> QED
    BY <1>3, <2>1, <2>2
<1>5. doomed[r] # {} => doomed[r] = oldRows
  BY <1>1 DEF WaitsFor
<1>6. DeletedRows(r) = oldRows
  <2>1. DeletedRows(r) = IF doomed[r] = {} THEN {w \in Rows(s) : w.table = table /\ w.mid \in old[r]}
                         ELSE doomed[r] \cap Rows(s)
    BY DEF DeletedRows
  <2> HIDE DEF table, oldRows, s
  <2> QED
    BY <1>4, <1>5, <2>1
<1>7. oldRows \cap fresh[s] = {}
  BY <1>3 DEF OldRows
<1> QED
  BY <1>6, <1>7

(* The statements on aliases and references change neither the documents    *)
(* nor what was found.                                                      *)
LEMMA RowsFound ==
    ASSUME TypeOK, IdentityInv, TableInv, NEW r \in Request, Private(r),
           pc[r] \in {"unalias", "alias", "unref", "ref"}, pc'[r] \in Written,
           NEW deleted, NEW inserted, Write(session[r], Nothing, deleted, inserted),
           UNCHANGED <<uuid, old, result>>
    PROVE  /\ FoundOf(r)' /\ UNCHANGED <<docs, rows, session, req>>
           /\ session[r] \in Session
           /\ gone'[session[r]] = gone[session[r]] \cup (deleted \ fresh[session[r]])
           /\ fresh'[session[r]] = (fresh[session[r]] \ deleted) \cup inserted
           /\ OldRows(r, "aliases")' = OldRows(r, "aliases")
           /\ OldRows(r, "references")' = OldRows(r, "references")
<1>1. session[r] \in Session /\ txn[session[r]] = "open"
  BY DEF TypeOK, Written, IdentityInv, TransactionOf
<1>2. UNCHANGED <<docs, rows, session, req>>
  BY DEF Private, Own, tables
<1>3. DOMAIN Nothing = {}
  BY DEF Nothing
<1>4. DOMAIN pending'[session[r]] = DOMAIN pending[session[r]] \cup DOMAIN Nothing
  BY <1>1, WriteHolds
<1>5. shared' = shared
  BY <1>1, WriteHolds
<1>6. /\ gone'[session[r]] = gone[session[r]] \cup (deleted \ fresh[session[r]])
      /\ fresh'[session[r]] = (fresh[session[r]] \ deleted) \cup inserted
  BY <1>1, WriteHolds
<1>7. FoundOf(r)'
  BY <1>2, <1>3, <1>4, <1>5 DEF TableInv, FoundOf, Checking, Written
<1>8. /\ OldRows(r, "aliases")' = OldRows(r, "aliases")
      /\ OldRows(r, "references")' = OldRows(r, "references")
  BY <1>2 DEF OldRows
<1> QED
  BY <1>1, <1>2, <1>6, <1>7, <1>8

LEMMA NewRowsKept ==
    ASSUME NEW r \in Request, UNCHANGED <<req, uuid>>
    PROVE  /\ NewAliases(r, Aliases(req[r].id))' = NewAliases(r, Aliases(req[r].id))
           /\ NewReferences(r, req[r].refs)' = NewReferences(r, req[r].refs)
           /\ NewAliases(r, Aliases(req[r].id) \ list[r])'
                = NewAliases(r, Aliases(req[r].id) \ list'[r])
           /\ NewReferences(r, req[r].refs \ list[r])' = NewReferences(r, req[r].refs \ list'[r])
BY DEF NewAliases, NewReferences, AliasRow, ReferenceRow, Aliases

LEMMA DeleteAliasesTables ==
    ASSUME TypeOK, IdentityInv, TableInv, NEW r \in Request, Private(r), DeleteAliases(r)
    PROVE  TableCall(r)'
<1> DEFINE s == session[r]  aliases == Aliases(req[r].id)
<1>1. /\ pc[r] = "unalias" /\ Write(session[r], Nothing, DeletedRows(r), {})
      /\ UNCHANGED <<uuid, old, result>> /\ doomed'[r] = {}
      /\ req[r].op # "delete" => list'[r] = aliases
  BY DEF DeleteAliases, Writes, Sent, ObsoleteAliases, TypeOK
<1>2. pc'[r] = IF req[r].op = "delete" THEN "commit" ELSE "alias"
  BY ThenMoves DEF DeleteAliases, Finish
<1>3. DeletedRows(r) = OldRows(r, "aliases") /\ DeletedRows(r) \cap fresh[s] = {}
  BY <1>1, DeletesOldRows
<1>4. /\ FoundOf(r)' /\ UNCHANGED <<session, req>>
      /\ gone'[s] = gone[s] \cup OldRows(r, "aliases")
      /\ fresh'[s] = fresh[s]
      /\ OldRows(r, "aliases")' = OldRows(r, "aliases")
      /\ OldRows(r, "references")' = OldRows(r, "references")
  <2>1. pc'[r] \in Written
    BY <1>2 DEF Written
  <2> HIDE DEF s
  <2>2. /\ FoundOf(r)' /\ UNCHANGED <<session, req>>
        /\ gone'[session[r]] = gone[session[r]] \cup (DeletedRows(r) \ fresh[session[r]])
        /\ fresh'[session[r]] = (fresh[session[r]] \ DeletedRows(r)) \cup {}
        /\ OldRows(r, "aliases")' = OldRows(r, "aliases")
        /\ OldRows(r, "references")' = OldRows(r, "references")
    BY <1>1, <2>1, RowsFound
  <2> QED
    BY <1>3, <2>2 DEF s
<1>5. RowsWrittenBy(r)
  BY DEF TableInv
<1>6. RowsWrittenBy(r)'
  <2>1. CASE req[r].op = "delete"
    <3>1. gone[s] = OldRows(r, "references") /\ fresh[s] = {}
      BY <1>1, <1>5, <2>1 DEF RowsWrittenBy
    <3>2. /\ gone'[s] = OldRows(r, "aliases")' \cup OldRows(r, "references")'
          /\ fresh'[s] = {}
      BY <1>4, <3>1
    <3> QED
      BY <1>2, <1>4, <2>1, <3>2 DEF RowsWrittenBy
  <2>2. CASE req[r].op # "delete"
    <3>1. gone[s] = {} /\ fresh[s] = {}
      BY <1>1, <1>5, <2>2 DEF RowsWrittenBy
    <3>2. /\ gone'[s] = OldRows(r, "aliases")' /\ fresh'[s] = {}
      BY <1>4, <3>1
    <3>3. NewAliases(r, Aliases(req[r].id) \ list[r])' = {}
      <4>1. NewAliases(r, Aliases(req[r].id) \ list'[r]) = {}
        BY <1>1, <2>2 DEF NewAliases
      <4> QED
        BY <1>1, <1>4, <4>1, NewRowsKept
    <3>4. list'[r] \subseteq Aliases(req[r].id)'
      BY <1>1, <1>4, <2>2 DEF Aliases
    <3> QED
      BY <1>2, <1>4, <2>2, <3>2, <3>3, <3>4 DEF RowsWrittenBy
  <2> QED
    BY <2>1, <2>2
<1>7. WaitsFor(r)'
  BY <1>1 DEF WaitsFor
<1> QED
  BY <1>4, <1>6, <1>7 DEF TableCall

LEMMA InsertAliasTables ==
    ASSUME TypeOK, IdentityInv, TableInv, NEW r \in Request, Private(r), InsertAlias(r)
    PROVE  TableCall(r)'
<1> DEFINE s == session[r]  aliases == Aliases(req[r].id)
<1>1. PICK a \in list[r] : /\ Write(session[r], Nothing, {}, {AliasRow(r, uuid[r], req[r].id, a)})
                           /\ list' = [list EXCEPT ![r] = @ \ {a}]
                           /\ Then(r, IF list[r] = {a} THEN "unref" ELSE "alias")
  BY DEF InsertAlias
<1>2. pc[r] = "alias" /\ UNCHANGED <<uuid, old, doomed, result>> /\ req[r].op # "delete"
  BY DEF InsertAlias, Writes, Sent, IdentityInv, PlanOf
<1>3. pc'[r] = (IF list[r] = {a} THEN "unref" ELSE "alias") /\ list'[r] = list[r] \ {a}
  BY <1>1, ThenMoves DEF TypeOK
<1>4. /\ FoundOf(r)' /\ UNCHANGED <<session, req>>
      /\ gone'[s] = gone[s]
      /\ fresh'[s] = fresh[s] \cup {AliasRow(r, uuid[r], req[r].id, a)}
      /\ OldRows(r, "aliases")' = OldRows(r, "aliases")
  <2>1. pc'[r] \in Written
    BY <1>3 DEF Written
  <2>4. PICK row : row = AliasRow(r, uuid[r], req[r].id, a)
    OBVIOUS
  <2>5. PICK inserted : inserted = {row}
    OBVIOUS
  <2>3. Write(session[r], Nothing, {}, inserted)
    BY <1>1, <2>4, <2>5
  <2> HIDE DEF s
  <2>2. /\ FoundOf(r)' /\ UNCHANGED <<session, req>>
        /\ gone'[session[r]] = gone[session[r]] \cup ({} \ fresh[session[r]])
        /\ fresh'[session[r]] = (fresh[session[r]] \ {}) \cup inserted
        /\ OldRows(r, "aliases")' = OldRows(r, "aliases")
    BY <1>2, <2>1, <2>3, RowsFound
  <2> QED
    BY <2>2, <2>4, <2>5 DEF s
<1>5. /\ list[r] \subseteq aliases /\ gone[s] = OldRows(r, "aliases")
      /\ fresh[s] = NewAliases(r, aliases \ list[r])
  BY <1>2 DEF TableInv, RowsWrittenBy
<1>6. /\ fresh'[s] = NewAliases(r, aliases \ (list[r] \ {a}))
      /\ list[r] = {a} => fresh'[s] = NewAliases(r, aliases)
  <2>1. list[r] = {a} => aliases \ (list[r] \ {a}) = aliases
    OBVIOUS
  <2>3. PICK as : as = list[r]
    OBVIOUS
  <2>5. PICK all : all = aliases
    OBVIOUS
  <2> HIDE DEF aliases, s
  <2>4. a \in as /\ as \subseteq all
    BY <1>5, <2>3, <2>5
  <2>2. NewAliases(r, all \ (as \ {a}))
          = NewAliases(r, all \ as) \cup {AliasRow(r, uuid[r], req[r].id, a)}
    <3>1. all \ (as \ {a}) = (all \ as) \cup {a}
      BY <2>4
    <3> QED
      BY <3>1 DEF NewAliases
  <2> QED
    BY <1>4, <1>5, <2>1, <2>2, <2>3, <2>5
<1>7. RowsWrittenBy(r)'
  <2>1. list'[r] \subseteq Aliases(req[r].id)'
    BY <1>3, <1>4, <1>5 DEF Aliases
  <2>2. gone'[s] = OldRows(r, "aliases")'
    BY <1>4, <1>5
  <2>3. CASE list[r] = {a}
    <3>1. fresh'[s] = NewAliases(r, Aliases(req[r].id))'
      BY <1>2, <1>4, <1>6, <2>3, NewRowsKept
    <3> QED
      BY <1>2, <1>3, <1>4, <2>2, <2>3, <3>1 DEF RowsWrittenBy
  <2>4. CASE list[r] # {a}
    <3>1. fresh'[s] = NewAliases(r, Aliases(req[r].id) \ list[r])'
      BY <1>2, <1>3, <1>4, <1>6, NewRowsKept
    <3> QED
      BY <1>2, <1>3, <1>4, <2>1, <2>2, <2>4, <3>1 DEF RowsWrittenBy
  <2> QED
    BY <2>3, <2>4
<1>8. WaitsFor(r)'
  BY <1>2, NoDoomed DEF WaitsFor
<1> QED
  BY <1>4, <1>7, <1>8 DEF TableCall

LEMMA DeleteReferencesTables ==
    ASSUME TypeOK, IdentityInv, TableInv, NEW r \in Request, Private(r), DeleteReferences(r)
    PROVE  TableCall(r)'
<1> DEFINE s == session[r]
<1>1. /\ pc[r] = "unref" /\ Write(session[r], Nothing, DeletedRows(r), {})
      /\ UNCHANGED <<uuid, old, result>> /\ doomed'[r] = {} /\ list'[r] = req[r].refs
  BY DEF DeleteReferences, Writes, Sent, TypeOK
<1>2. pc'[r] = IF req[r].op = "delete" THEN "unalias"
               ELSE IF req[r].refs = {} THEN "commit" ELSE "ref"
  BY ThenMoves DEF DeleteReferences, Finish
<1>3. DeletedRows(r) = OldRows(r, "references") /\ DeletedRows(r) \cap fresh[s] = {}
  BY <1>1, DeletesOldRows
<1>4. /\ FoundOf(r)' /\ UNCHANGED <<session, req>>
      /\ gone'[s] = gone[s] \cup OldRows(r, "references")
      /\ fresh'[s] = fresh[s]
      /\ OldRows(r, "aliases")' = OldRows(r, "aliases")
      /\ OldRows(r, "references")' = OldRows(r, "references")
  <2>1. pc'[r] \in Written
    BY <1>2 DEF Written
  <2> HIDE DEF s
  <2>2. /\ FoundOf(r)' /\ UNCHANGED <<session, req>>
        /\ gone'[session[r]] = gone[session[r]] \cup (DeletedRows(r) \ fresh[session[r]])
        /\ fresh'[session[r]] = (fresh[session[r]] \ DeletedRows(r)) \cup {}
        /\ OldRows(r, "aliases")' = OldRows(r, "aliases")
        /\ OldRows(r, "references")' = OldRows(r, "references")
    BY <1>1, <2>1, RowsFound
  <2> QED
    BY <1>3, <2>2 DEF s
<1>5. RowsWrittenBy(r)
  BY DEF TableInv
<1>6. RowsWrittenBy(r)'
  <2>1. CASE req[r].op = "delete"
    <3>1. gone[s] = {} /\ fresh[s] = {}
      BY <1>1, <1>5, <2>1 DEF RowsWrittenBy
    <3>2. gone'[s] = OldRows(r, "references")' /\ fresh'[s] = {}
      BY <1>4, <3>1
    <3> QED
      BY <1>2, <1>4, <2>1, <3>2 DEF RowsWrittenBy
  <2>2. CASE req[r].op # "delete"
    <3>1. /\ gone[s] = OldRows(r, "aliases")
          /\ fresh[s] = NewAliases(r, Aliases(req[r].id))
      BY <1>1, <1>5, <2>2 DEF RowsWrittenBy
    <3>2. /\ gone'[s] = OldRows(r, "aliases")' \cup OldRows(r, "references")'
          /\ fresh'[s] = NewAliases(r, Aliases(req[r].id))'
      BY <1>1, <1>4, <3>1, NewRowsKept
    <3>3. NewReferences(r, req[r].refs \ list[r])' = {} /\ list'[r] \subseteq req'[r].refs
      <4>1. NewReferences(r, req[r].refs \ list'[r]) = {}
        BY <1>1 DEF NewReferences
      <4> QED
        BY <1>1, <1>4, <4>1, NewRowsKept
    <3>4. CASE req[r].refs # {}
      BY <1>2, <1>4, <2>2, <3>2, <3>3, <3>4 DEF RowsWrittenBy
    <3>5. CASE req[r].refs = {}
      <4>1. NewReferences(r, req[r].refs)' = {}
        <5>1. NewReferences(r, req[r].refs) = {}
          BY <3>5 DEF NewReferences
        <5> QED
          BY <1>1, <1>4, <5>1, NewRowsKept
      <4> QED
        BY <1>2, <1>4, <2>2, <3>2, <3>5, <4>1 DEF RowsWrittenBy
    <3> QED
      BY <3>4, <3>5
  <2> QED
    BY <2>1, <2>2
<1>7. WaitsFor(r)'
  BY <1>1 DEF WaitsFor
<1> QED
  BY <1>4, <1>6, <1>7 DEF TableCall

LEMMA InsertReferenceTables ==
    ASSUME TypeOK, IdentityInv, TableInv, NEW r \in Request, Private(r), InsertReference(r)
    PROVE  TableCall(r)'
<1> DEFINE s == session[r]  refs == req[r].refs  aliasRows == NewAliases(r, Aliases(req[r].id))
<1>1. PICK a \in list[r] : /\ Write(session[r], Nothing, {}, {ReferenceRow(r, req[r].id, a)})
                           /\ list' = [list EXCEPT ![r] = @ \ {a}]
                           /\ Then(r, IF list[r] = {a} THEN "commit" ELSE "ref")
  BY DEF InsertReference, Finish
<1>2. pc[r] = "ref" /\ UNCHANGED <<uuid, old, doomed, result>> /\ req[r].op # "delete"
  BY DEF InsertReference, Writes, Sent, IdentityInv, PlanOf
<1>3. pc'[r] = (IF list[r] = {a} THEN "commit" ELSE "ref") /\ list'[r] = list[r] \ {a}
  BY <1>1, ThenMoves DEF TypeOK
<1>4. /\ FoundOf(r)' /\ UNCHANGED <<session, req>>
      /\ gone'[s] = gone[s]
      /\ fresh'[s] = fresh[s] \cup {ReferenceRow(r, req[r].id, a)}
      /\ OldRows(r, "aliases")' = OldRows(r, "aliases")
      /\ OldRows(r, "references")' = OldRows(r, "references")
  <2>1. pc'[r] \in Written
    BY <1>3 DEF Written
  <2>4. PICK row : row = ReferenceRow(r, req[r].id, a)
    OBVIOUS
  <2>5. PICK inserted : inserted = {row}
    OBVIOUS
  <2>3. Write(session[r], Nothing, {}, inserted)
    BY <1>1, <2>4, <2>5
  <2> HIDE DEF s
  <2>2. /\ FoundOf(r)' /\ UNCHANGED <<session, req>>
        /\ gone'[session[r]] = gone[session[r]] \cup ({} \ fresh[session[r]])
        /\ fresh'[session[r]] = (fresh[session[r]] \ {}) \cup inserted
        /\ OldRows(r, "aliases")' = OldRows(r, "aliases")
        /\ OldRows(r, "references")' = OldRows(r, "references")
    BY <1>2, <2>1, <2>3, RowsFound
  <2> QED
    BY <2>2, <2>4, <2>5 DEF s
<1>5. /\ list[r] \subseteq refs /\ gone[s] = OldRows(r, "aliases") \cup OldRows(r, "references")
      /\ fresh[s] = aliasRows \cup NewReferences(r, refs \ list[r])
  BY <1>2 DEF TableInv, RowsWrittenBy
<1>6. /\ fresh'[s] = aliasRows \cup NewReferences(r, refs \ (list[r] \ {a}))
      /\ list[r] = {a} => fresh'[s] = aliasRows \cup NewReferences(r, refs)
  <2>1. list[r] = {a} => refs \ (list[r] \ {a}) = refs
    OBVIOUS
  <2>3. PICK as : as = list[r]
    OBVIOUS
  <2>5. PICK all : all = refs
    OBVIOUS
  <2> HIDE DEF refs, s, aliasRows
  <2>4. a \in as /\ as \subseteq all
    BY <1>5, <2>3, <2>5
  <2>2. NewReferences(r, all \ (as \ {a}))
          = NewReferences(r, all \ as) \cup {ReferenceRow(r, req[r].id, a)}
    <3>1. all \ (as \ {a}) = (all \ as) \cup {a}
      BY <2>4
    <3> QED
      BY <3>1 DEF NewReferences
  <2> QED
    BY <1>4, <1>5, <2>1, <2>2, <2>3, <2>5
<1>7. RowsWrittenBy(r)'
  <2>1. list'[r] \subseteq req'[r].refs
    BY <1>3, <1>4, <1>5
  <2>2. /\ gone'[s] = OldRows(r, "aliases")' \cup OldRows(r, "references")'
        /\ aliasRows = NewAliases(r, Aliases(req[r].id))'
    BY <1>2, <1>4, <1>5, NewRowsKept
  <2>3. CASE list[r] = {a}
    <3>1. fresh'[s] = aliasRows \cup NewReferences(r, req[r].refs)'
      BY <1>2, <1>4, <1>6, <2>3, NewRowsKept
    <3> HIDE DEF aliasRows
    <3> QED
      BY <1>2, <1>3, <1>4, <2>2, <2>3, <3>1 DEF RowsWrittenBy
  <2>4. CASE list[r] # {a}
    <3>1. fresh'[s] = aliasRows \cup NewReferences(r, req[r].refs \ list[r])'
      BY <1>2, <1>3, <1>4, <1>6, NewRowsKept
    <3> HIDE DEF aliasRows
    <3> QED
      BY <1>2, <1>3, <1>4, <2>1, <2>2, <2>4, <3>1 DEF RowsWrittenBy
  <2> QED
    BY <2>3, <2>4
<1>8. WaitsFor(r)'
  BY <1>2, NoDoomed DEF WaitsFor
<1> QED
  BY <1>4, <1>7, <1>8 DEF TableCall

LEMMA RowsFailTables ==
    ASSUME TypeOK, NEW r \in Request, Fail(r)
    PROVE  TableCall(r)'
<1>1. pc'[r] = "rollback" /\ doomed'[r] = {}
  BY ThenMoves DEF Fail, TypeOK
<1> QED
  BY <1>1, OutOfTables DEF Checking, Written

LEMMA WaitTables ==
    ASSUME TypeOK, IdentityInv, TableInv, NEW r \in Request, Private(r), Wait(r)
    PROVE  TableCall(r)'
<1>1. /\ UNCHANGED <<tables, txnVars, pc, callVars, uuid, old, list, result>>
      /\ pc[r] \in {"unalias", "unref"} /\ doomed'[r] = DeletedRows(r)
  BY DEF Wait, TypeOK
<1>2. /\ OldRows(r, "aliases")' = OldRows(r, "aliases")
      /\ OldRows(r, "references")' = OldRows(r, "references")
  BY <1>1 DEF OldRows, tables
<1>3. FoundOf(r)'
  BY <1>1 DEF TableInv, FoundOf, tables, txnVars, callVars
<1>4. RowsWrittenBy(r)'
  <2>1. NewAliases(r, Aliases(req[r].id))' = NewAliases(r, Aliases(req[r].id))
    BY <1>1, NewRowsKept DEF callVars
  <2> QED
    BY <1>1, <1>2, <2>1 DEF TableInv, RowsWrittenBy, tables, txnVars, callVars
<1>5. WaitsFor(r)'
  BY <1>1, <1>2, DeletesOldRows DEF WaitsFor
<1> QED
  BY <1>3, <1>4, <1>5 DEF TableCall

LEMMA PrivateStepTables ==
    ASSUME TypeOK, SessionInv, IdentityInv, TableInv, OneCallPerSession, IdentitiesFixed, ~missed',
           NEW r \in Request, Step(r), ~Commit(r)
    PROVE  TableInv'
<1>1. Private(r) /\ Effect(r)
  BY StepPrivate, StepEffect
<1>2. TableCall(r)'
  <2>1. CASE Rejected(r) \/ Deadlock(r)
    BY <2>1, RowsFailTables DEF Rejected, Deadlock
  <2>2. CASE Begin(r) \/ Rollback(r)
    <3>1. pc[r] \in {"begin", "rollback"} /\ UNCHANGED doomed
      BY <2>2 DEF Begin, Rollback, Sent, planVars
    <3>2. pc'[r] \in {"find", "done"}
      BY <2>2, ThenMoves DEF Begin, Rollback
    <3> QED
      BY <3>1, <3>2, NoDoomed, OutOfTables DEF Checking, Written
  <2> QED
    BY <1>1, <2>1, <2>2, FindForUpsertTables, FindForUpdateTables, FindForDeleteTables, ReadTables,
       InsertDocumentTables, UpdateDocumentTables, DeleteDocumentTables, DeleteAliasesTables,
       InsertAliasTables, DeleteReferencesTables, InsertReferenceTables, WaitTables
    DEF Step
<1> QED
  BY <1>1, <1>2, PrivateHolds, PrivateTables

-----------------------------------------------------------------------------
(* COMMIT.                                                                  *)

(* The documents and rows a commit publishes.                               *)
LEMMA PublishedRows ==
    ASSUME TypeOK, IdentityInv, TableInv, ~missed, NEW r \in Request, pc[r] = "commit",
           Publish(session[r])
    PROVE  /\ DOMAIN pending[session[r]] = old[r] /\ old[r] \subseteq Id
           /\ \A w : w \in rows' <=> (w \in rows /\ w.mid \notin old[r]) \/ w \in fresh[session[r]]
           /\ gone[session[r]] = OldRows(r, "aliases") \cup OldRows(r, "references")
           /\ \A i \in Id \ old[r] : docs'[i] = docs[i]
           /\ \A i \in old[r] : docs[i] # NoDoc => docs[i].uuid = uuid[r]
           /\ req[r].op = "delete" => fresh[session[r]] = {} /\ \A i \in old[r] : docs'[i] = NoDoc
           /\ req[r].op # "delete" =>
                 /\ fresh[session[r]] = NewAliases(r, Aliases(req[r].id))
                                           \cup NewReferences(r, req[r].refs)
                 /\ old[r] = {req[r].id} /\ docs'[req[r].id] # NoDoc
                 /\ docs'[req[r].id].uuid = uuid[r] /\ docs'[req[r].id].refs = req[r].refs
                 /\ docs'[req[r].id].validated = req[r].validate
<1> DEFINE s == session[r]  i == req[r].id
<1>1. s \in Session /\ req[r] \in Call /\ req[r] \in Input /\ i \in Id
  BY InputAssumption DEF TypeOK, Call
<1>2. FoundOf(r) /\ RowsWrittenBy(r)
  BY DEF TableInv
<1>3. DOMAIN pending[s] = old[r]
  BY <1>2 DEF FoundOf, Written
<1>4. old[r] \subseteq Id
  BY <1>1, <1>3 DEF TypeOK
<1>5. gone[s] = OldRows(r, "aliases") \cup OldRows(r, "references")
  BY <1>2 DEF RowsWrittenBy
<1>6. \A w : w \in rows' <=> (w \in rows /\ w.mid \notin old[r]) \/ w \in fresh[s]
  <2>1. rows' = (rows \ gone[s]) \cup fresh[s]
    BY DEF Publish, Rows
  <2>2. \A w \in rows : w \in gone[s] <=> w.mid \in old[r]
    BY <1>5 DEF OldRows, TypeOK, Row
  <2> HIDE DEF s
  <2> QED
    BY <2>1, <2>2
<1>7. /\ \A k \in old[r] : docs'[k] = pending[s][k]
      /\ \A k \in Id \ old[r] : docs'[k] = docs[k]
  BY <1>1, <1>3, PublishSees
<1>8. Inserts(r) \/ Updates(r) \/ Deletes(r) \/ FindsNothing(r)
  BY DEF IdentityInv, EffectOf, Written
<1>9. CASE req[r].op = "delete"
  <2>1. fresh[s] = {}
    BY <1>2, <1>9 DEF RowsWrittenBy
  <2>2. \A k \in old[r] : docs'[k] = NoDoc /\ docs[k].uuid = uuid[r]
    <3>1. result[r] \notin {"INSERT_SUCCESS", "UPDATE_SUCCESS"}
      BY <1>9 DEF IdentityInv, PlanOf
    <3>2. CASE Deletes(r)
      BY <1>3, <1>7, <3>2 DEF Deletes
    <3>3. CASE FindsNothing(r)
      BY <1>3, <3>3 DEF FindsNothing
    <3> QED
      BY <1>8, <3>1, <3>2, <3>3 DEF Inserts, Updates
  <2> QED
    BY <1>3, <1>4, <1>5, <1>6, <1>7, <1>9, <2>1, <2>2
<1>10. CASE req[r].op # "delete"
  <2>1. /\ fresh[s] = NewAliases(r, Aliases(i)) \cup NewReferences(r, req[r].refs)
        /\ old[r] = {i}
    BY <1>2, <1>10 DEF RowsWrittenBy, FoundOf, Written
  <2>2. /\ \E createdAt \in Nat : docs'[i] = NewVersion(r, createdAt)
        /\ docs[i] # NoDoc => docs[i].uuid = uuid[r]
    <3>1. CASE Inserts(r)
      <4>1. req[r].ts \in Nat
        BY <1>1 DEF Call
      <4> QED
        BY <1>7, <2>1, <3>1, <4>1 DEF Inserts
    <3>2. CASE Updates(r)
      <4>1. PICK j \in Id : /\ DOMAIN pending[s] = {i, j}
                            /\ docs[j] # NoDoc /\ docs[j].uuid = uuid[r]
                            /\ pending[s][i] = NewVersion(r, docs[j].createdAt)
        BY <3>2 DEF Updates
      <4>2. j = i
        BY <1>3, <2>1, <4>1
      <4>3. docs[j].createdAt \in Nat
        BY <4>1 DEF TypeOK, Store, Doc
      <4> QED
        BY <1>7, <2>1, <4>1, <4>2, <4>3
    <3> QED
      BY <1>8, <1>10, <3>1, <3>2 DEF Deletes, FindsNothing
  <2>3. PICK createdAt \in Nat : docs'[i] = NewVersion(r, createdAt)
    BY <2>2
  <2>4. docs'[i] # NoDoc
    BY <1>1, <2>3, NewVersionTyped, NoDocAssumption
  <2>5. /\ docs'[i].uuid = uuid[r] /\ docs'[i].refs = req[r].refs
        /\ docs'[i].validated = req[r].validate
    BY <2>3 DEF NewVersion
  <2> QED
    BY <1>3, <1>4, <1>5, <1>6, <1>7, <1>10, <2>1, <2>2, <2>4, <2>5
<1> QED
  BY <1>9, <1>10

LEMMA PublishedMatch ==
    ASSUME TypeOK, IdentityInv, TableInv, ~missed, NEW r \in Request, pc[r] = "commit",
           Publish(session[r]), NEW i \in Id
    PROVE  RowsMatch(rows', docs'[i], i)
<1> DEFINE new == fresh[session[r]]
<1>1. RowsMatch(rows, docs[i], i)
  BY DEF TableInv
<1>2. \A w : w \in rows' <=> (w \in rows /\ w.mid \notin old[r]) \/ w \in new
  BY PublishedRows
<1>3. CASE i \notin old[r]
  <2>1. docs'[i] = docs[i]
    BY <1>3, PublishedRows
  <2>2. \A w \in new : w.mid # i
    <3>1. CASE req[r].op = "delete"
      BY <3>1, PublishedRows
    <3>2. CASE req[r].op # "delete"
      <4>1. new = NewAliases(r, Aliases(req[r].id)) \cup NewReferences(r, req[r].refs)
            /\ old[r] = {req[r].id}
        BY <3>2, PublishedRows
      <4> QED
        BY <1>3, <4>1, NewRowsOf
    <3> QED
      BY <3>1, <3>2
  <2> HIDE DEF new
  <2>3. \A w : w.mid = i => (w \in rows' <=> w \in rows)
    BY <1>2, <1>3, <2>2
  <2>4. \A w \in rows' : w.mid = i =>
           /\ docs'[i] # NoDoc
           /\ w.table = "aliases" => w.uuid = docs'[i].uuid /\ w.alias \in Aliases(i)
           /\ w.table = "references" => w.uuid = NoUuid /\ w.alias \in docs'[i].refs
    BY <1>1, <2>1, <2>3 DEF RowsMatch
  <2>5. /\ RowsIn(rows', "aliases", i) = RowsIn(rows, "aliases", i)
        /\ RowsIn(rows', "references", i) = RowsIn(rows, "references", i)
    BY <2>3 DEF RowsIn
  <2>6. docs'[i] # NoDoc =>
           /\ \A a \in Aliases(i) : \E w \in RowsIn(rows', "aliases", i) : w.alias = a
           /\ \A a \in docs'[i].refs : \E w \in RowsIn(rows', "references", i) : w.alias = a
    BY <1>1, <2>1, <2>5 DEF RowsMatch
  <2>7. \A v, w \in rows' : v.mid = i /\ SameContents(v, w) => v = w
    BY <1>1, <2>3 DEF RowsMatch, SameContents
  <2> QED
    BY <2>4, <2>6, <2>7 DEF RowsMatch
<1>4. CASE i \in old[r] /\ req[r].op = "delete"
  <2>1. new = {} /\ docs'[i] = NoDoc
    BY <1>4, PublishedRows
  <2> HIDE DEF new
  <2>2. \A w \in rows' : w.mid # i
    BY <1>2, <1>4, <2>1
  <2> QED
    BY <2>1, <2>2 DEF RowsMatch
<1>5. CASE i \in old[r] /\ req[r].op # "delete"
  <2> DEFINE as == NewAliases(r, Aliases(i))  refs == NewReferences(r, req[r].refs)
  <2>1. /\ new = as \cup refs /\ i = req[r].id /\ docs'[i] # NoDoc
        /\ docs'[i].uuid = uuid[r] /\ docs'[i].refs = req[r].refs
    BY <1>5, PublishedRows
  <2>2. /\ \A w \in as : w.table = "aliases" /\ w.uuid = uuid[r] /\ w.mid = i /\ w.alias \in Aliases(i)
        /\ \A w \in refs : /\ w.table = "references" /\ w.uuid = NoUuid /\ w.mid = i
                           /\ w.alias \in req[r].refs
        /\ \A a \in Aliases(i) : \E w \in as : w.alias = a
        /\ \A a \in req[r].refs : \E w \in refs : w.alias = a
        /\ \A v, w \in as : v.alias = w.alias => v = w
        /\ \A v, w \in refs : v.alias = w.alias => v = w
    BY <2>1, NewRowsOf
  <2> HIDE DEF as, refs, new
  <2>3. \A w \in rows' : w.mid = i => w \in as \cup refs
    BY <1>2, <1>5, <2>1
  <2>4. as \cup refs \subseteq rows'
    BY <1>2, <2>1
  <2>5. \A w \in rows' : w.mid = i =>
           /\ docs'[i] # NoDoc
           /\ w.table = "aliases" => w.uuid = docs'[i].uuid /\ w.alias \in Aliases(i)
           /\ w.table = "references" => w.uuid = NoUuid /\ w.alias \in docs'[i].refs
    BY <2>1, <2>2, <2>3
  <2>6. /\ \A a \in Aliases(i) : \E w \in RowsIn(rows', "aliases", i) : w.alias = a
        /\ \A a \in docs'[i].refs : \E w \in RowsIn(rows', "references", i) : w.alias = a
    BY <2>1, <2>2, <2>4 DEF RowsIn
  <2>7. \A v, w \in rows' : v.mid = i /\ SameContents(v, w) => v = w
    BY <2>2, <2>3 DEF SameContents
  <2> QED
    BY <2>5, <2>6, <2>7 DEF RowsMatch
<1> QED
  BY <1>3, <1>4, <1>5

(* A document that another call's commit changes is not one that a DELETE   *)
(* has found: its alias rows are locked.                                    *)
LEMMA DeleteNotOvertaken ==
    ASSUME TypeOK, LocksExclude, IdentityInv, TableInv, OneCallPerSession, ~missed,
           NEW r \in Request, pc[r] = "commit", Publish(session[r]),
           NEW q \in Request \ {r}, pc[q] \in Checking \cup Written, req[q].op = "delete"
    PROVE  /\ \A i \in old[r] : docs[i] # NoDoc => docs[i].uuid # uuid[q]
           /\ req[r].op # "delete" => uuid[r] # uuid[q]
<1>1. session[r] \in Session /\ session[q] \in Session \ {session[r]}
  BY SessionOfOther DEF TypeOK, Checking, Written
<1>2. gone[session[r]] = OldRows(r, "aliases") \cup OldRows(r, "references") /\ old[r] \subseteq Id
  BY PublishedRows
<1>3. ASSUME NEW i \in old[r], docs[i] # NoDoc, docs[i].uuid = uuid[q] PROVE FALSE
  <2>1. PICK w \in rows : w.table = "aliases" /\ w.mid = i /\ w.uuid = uuid[q]
    BY <1>2, <1>3, AliasRowOf DEF Aliases
  <2>2. w \in shared[session[q]]
    BY <2>1 DEF TableInv, FoundOf
  <2>3. w \in gone[session[r]]
    BY <1>2, <1>3, <2>1 DEF OldRows
  <2> QED
    BY <1>1, <2>2, <2>3 DEF LocksExclude
<1>4. ASSUME req[r].op # "delete", uuid[r] = uuid[q] PROVE FALSE
  <2>1. Inserts(r) \/ Updates(r) \/ Deletes(r) \/ FindsNothing(r)
    BY DEF IdentityInv, EffectOf, Written
  <2>2. CASE Inserts(r)
    <3>1. uuid[q] = r
      BY <1>4, <2>2 DEF Inserts, IdentityInv, PlanOf
    <3>2. uuid[q] \in issued \cup {NoUuid}
      BY DEF IdentityInv, PlanOf
    <3> QED
      BY <3>1, <3>2, OwnUuidIsNew
  <2>3. CASE Updates(r)
    <3>1. PICK j \in Id : j \in DOMAIN pending[session[r]] /\ docs[j] # NoDoc /\ docs[j].uuid = uuid[r]
      BY <2>3 DEF Updates
    <3>2. j \in old[r]
      BY <3>1, PublishedRows
    <3> QED
      BY <1>3, <1>4, <3>1, <3>2
  <2> QED
    BY <1>4, <2>1, <2>2, <2>3 DEF Deletes, FindsNothing
<1> QED
  BY <1>3, <1>4

LEMMA CommitKeepsTables ==
    ASSUME TypeOK, LocksExclude, IdentityInv, TableInv, OneCallPerSession, ~missed,
           NEW r \in Request, pc[r] = "commit", Publish(session[r]), Own(r),
           NEW q \in Request \ {r}
    PROVE  TableCall(q)'
<1>1. /\ pc'[q] = pc[q] /\ uuid'[q] = uuid[q] /\ old'[q] = old[q] /\ list'[q] = list[q]
      /\ doomed'[q] = doomed[q] /\ result'[q] = result[q]
      /\ req'[q] = req[q] /\ session'[q] = session[q]
  BY DEF Own
<1>2. FoundOf(q) /\ RowsWrittenBy(q) /\ WaitsFor(q)
  BY DEF TableInv
<1>3. CASE pc[q] \notin Checking \cup Written
  <2>1. doomed'[q] = {}
    BY <1>1, <1>2, <1>3 DEF WaitsFor, Written
  <2> QED
    BY <1>1, <1>3, <2>1, OutOfTables
<1>4. CASE pc[q] \in Checking \cup Written
  <2>1. session[q] \in Session \ {session[r]} /\ session[r] \in Session
    BY <1>4, SessionOfOther DEF Checking, Written, TypeOK
  <2>2. /\ pending'[session[q]] = pending[session[q]] /\ shared'[session[q]] = shared[session[q]]
        /\ gone'[session[q]] = gone[session[q]] /\ fresh'[session[q]] = fresh[session[q]]
    BY <2>1 DEF Own
  <2>3. pc[q] \in Written => old[q] \cap old[r] = {}
    <3>1. pc[q] \in Written => DOMAIN pending[session[q]] = old[q]
      BY <1>2 DEF FoundOf
    <3>2. DOMAIN pending[session[r]] = old[r]
      BY PublishedRows
    <3> QED
      BY <2>1, <3>1, <3>2 DEF LocksExclude
  <2>4. pc[q] \in Written => /\ OldRows(q, "aliases")' = OldRows(q, "aliases")
                             /\ OldRows(q, "references")' = OldRows(q, "references")
    <3>1. SUFFICES ASSUME pc[q] \in Written
                   PROVE  \A w : w.mid \in old[q] => (w \in rows' <=> w \in rows)
      BY <1>1, <3>1 DEF OldRows
    <3>2. \A w \in fresh[session[r]] : w.mid \in old[r]
      <4>1. CASE req[r].op = "delete"
        BY <4>1, PublishedRows
      <4>2. CASE req[r].op # "delete"
        <5>1. fresh[session[r]] = NewAliases(r, Aliases(req[r].id)) \cup NewReferences(r, req[r].refs)
              /\ old[r] = {req[r].id}
          BY <4>2, PublishedRows
        <5> QED
          BY <5>1, NewRowsOf
      <4> QED
        BY <4>1, <4>2
    <3>3. \A w : w \in rows' <=> (w \in rows /\ w.mid \notin old[r]) \/ w \in fresh[session[r]]
      BY PublishedRows
    <3> QED
      BY <2>3, <3>1, <3>2, <3>3
  <2>5. RowsWrittenBy(q)'
    <3>1. /\ NewAliases(q, Aliases(req[q].id))' = NewAliases(q, Aliases(req[q].id))
          /\ NewReferences(q, req[q].refs)' = NewReferences(q, req[q].refs)
          /\ NewAliases(q, Aliases(req[q].id) \ list[q])' = NewAliases(q, Aliases(req[q].id) \ list[q])
          /\ NewReferences(q, req[q].refs \ list[q])' = NewReferences(q, req[q].refs \ list[q])
      BY <1>1 DEF NewAliases, NewReferences, AliasRow, ReferenceRow, Aliases
    <3>2. CASE pc[q] \in Written
      BY <1>1, <1>2, <2>2, <2>4, <3>1, <3>2 DEF RowsWrittenBy, Aliases
    <3>3. CASE pc[q] \notin Written
      BY <1>1, <3>3 DEF RowsWrittenBy, Written
    <3> QED
      BY <3>2, <3>3
  <2>6. WaitsFor(q)'
    BY <1>1, <1>2, <2>4 DEF WaitsFor, Written
  <2>7. FoundOf(q)'
    <3>1. ASSUME result[q] # "INSERT_SUCCESS", NEW j \in Id, docs'[j] # NoDoc, docs'[j].uuid = uuid[q]
          PROVE  j \in old[q]
      <4>1. CASE j \notin old[r]
        BY <1>2, <1>4, <3>1, <4>1, PublishedRows DEF FoundOf
      <4>2. CASE j \in old[r]
        <5>1. req[r].op # "delete" /\ j = req[r].id /\ uuid[r] = uuid[q]
          BY <3>1, <4>2, PublishedRows
        <5>2. CASE docs[j] # NoDoc
          <6>1. docs[j].uuid = uuid[q]
            BY <4>2, <5>1, <5>2, PublishedRows
          <6> QED
            BY <1>2, <1>4, <3>1, <5>2, <6>1 DEF FoundOf
        <5>3. CASE docs[j] = NoDoc
          <6>1. Inserts(r)
            <7>1. Inserts(r) \/ Updates(r) \/ Deletes(r) \/ FindsNothing(r)
              BY DEF IdentityInv, EffectOf, Written
            <7>2. ~Updates(r)
              BY <4>2, <5>1, <5>3, PublishedRows DEF Updates
            <7> QED
              BY <5>1, <7>1, <7>2 DEF Deletes, FindsNothing
          <6>2. uuid[q] = r
            BY <5>1, <6>1 DEF Inserts, IdentityInv, PlanOf
          <6>3. uuid[q] \in issued \cup {NoUuid, q}
            BY DEF IdentityInv, PlanOf
          <6> QED
            BY <6>2, <6>3, OwnUuidIsNew
        <5> QED
          BY <5>2, <5>3
      <4> QED
        BY <4>1, <4>2
    <3>2. ASSUME req[q].op = "delete", NEW w \in rows', w.table = "aliases", w.uuid = uuid[q]
          PROVE  w \in shared[session[q]]
      <4>1. CASE w \in rows
        BY <1>2, <1>4, <3>2, <4>1 DEF FoundOf
      <4>2. CASE w \in fresh[session[r]]
        <5>1. req[r].op # "delete"
          BY <4>2, PublishedRows
        <5>2. w \in NewAliases(r, Aliases(req[r].id)) \cup NewReferences(r, req[r].refs)
          BY <4>2, <5>1, PublishedRows
        <5>3. w.uuid = uuid[r]
          BY <3>2, <5>2, NewRowsOf
        <5> QED
          BY <1>4, <3>2, <5>1, <5>3, DeleteNotOvertaken
      <4> QED
        BY <3>2, <4>1, <4>2, PublishedRows
    <3>3. ASSUME pc[q] \in Checking, req[q].op = "delete", NEW i \in old[q]
          PROVE  docs'[i] # NoDoc /\ docs'[i].uuid = uuid[q]
      <4>1. docs[i] # NoDoc /\ docs[i].uuid = uuid[q] /\ i \in Id
        <5>1. \A is \in {{}} \cup {{k} : k \in Id} : is \subseteq Id
          OBVIOUS
        <5>2. i \in Id
          BY <5>1 DEF TypeOK
        <5> QED
          BY <1>2, <3>3, <5>2 DEF FoundOf
      <4>2. i \notin old[r]
        BY <3>3, <4>1, DeleteNotOvertaken
      <4> QED
        BY <4>1, <4>2, PublishedRows
    <3>4. /\ req[q].op # "delete" => old[q] = {req[q].id}
          /\ pc[q] \in Written => DOMAIN pending[session[q]] = old[q]
      BY <1>2, <1>4 DEF FoundOf
    <3> QED
      BY <1>1, <1>4, <2>2, <3>1, <3>2, <3>3, <3>4 DEF FoundOf
  <2> QED
    BY <2>5, <2>6, <2>7 DEF TableCall
<1> QED
  BY <1>3, <1>4

(* A call ends: with its COMMIT, or without.                                *)
LEMMA EndTables ==
    ASSUME TypeOK, LocksExclude, IdentityInv, TableInv, OneCallPerSession, ~missed,
           NEW r \in Request, Own(r), pc[r] \notin {"idle", "done"}, pc'[r] = "done",
           doomed'[r] = {}, shared'[session[r]] = {}, locked'[session[r]] = {},
           UNCHANGED tables \/ (pc[r] = "commit" /\ Publish(session[r]))
    PROVE  TableInv'
<1>1. TableCall(r)'
  BY OutOfTables DEF Checking, Written
<1>2. session[r] \in Session
  BY DEF TypeOK
<1>3. CASE UNCHANGED tables
  <2>1. \A q \in Request \ {r} : TableCall(q)'
    BY <1>3, BystanderTables DEF TableInv, TableCall, tables
  <2>2. \A w \in rows' : w.by \in Request => pc'[w.by] = "done"
    BY <1>3 DEF TableInv, Own, tables
  <2>3. \A i \in Id : RowsMatch(rows', docs'[i], i)
    BY <1>3 DEF TableInv, tables, RowsMatch, RowsIn, SameContents
  <2>4. HeldRows'
    BY <1>2, <1>3 DEF TableInv, HeldRows, Own, tables
  <2> QED
    BY <1>1, <2>1, <2>2, <2>3, <2>4 DEF TableInv, TableCall, HeldRows
<1>4. CASE pc[r] = "commit" /\ Publish(session[r])
  <2>1. \A q \in Request \ {r} : TableCall(q)'
    BY <1>4, CommitKeepsTables
  <2>2. \A w \in fresh[session[r]] : w.by = r
    <3>1. CASE req[r].op = "delete"
      BY <1>4, <3>1, PublishedRows
    <3>2. CASE req[r].op # "delete"
      <4>1. fresh[session[r]] = NewAliases(r, Aliases(req[r].id)) \cup NewReferences(r, req[r].refs)
        BY <1>4, <3>2, PublishedRows
      <4> QED
        BY <4>1, NewRowsOf
    <3> QED
      BY <3>1, <3>2
  <2>3. \A w \in rows' : w.by \in Request => pc'[w.by] = "done"
    BY <1>4, <2>2, PublishedRows DEF TableInv, Own
  <2>4. \A i \in Id : RowsMatch(rows', docs'[i], i)
    BY <1>4, PublishedMatch
  <2>5. ASSUME NEW s \in Session PROVE (shared[s] \cup locked[s])' \subseteq rows'
    <3>1. CASE s = session[r]
      BY <3>1
    <3>2. CASE s # session[r]
      <4>1. shared'[s] = shared[s] /\ locked'[s] = locked[s]
        BY <3>2 DEF Own
      <4>2. gone[session[r]] \cap (shared[s] \cup locked[s]) = {}
        BY <1>2, <3>2 DEF LocksExclude
      <4>3. rows \ gone[session[r]] \subseteq rows'
        BY <1>4 DEF Publish, Rows
      <4>4. shared[s] \cup locked[s] \subseteq rows
        BY DEF TableInv
      <4> QED
        BY <4>1, <4>2, <4>3, <4>4
    <3> QED
      BY <3>1, <3>2
  <2> QED
    BY <1>1, <2>1, <2>3, <2>4, <2>5 DEF TableInv, TableCall
<1> QED
  BY <1>3, <1>4

LEMMA CommitTables ==
    ASSUME TypeOK, LocksExclude, IdentityInv, TableInv, OneCallPerSession, ~missed,
           NEW r \in Request, Commit(r)
    PROVE  TableInv'
<1>1. Own(r) /\ pc[r] = "commit" /\ session[r] \in Session
  BY StepEffect DEF Step, Commit, Sent, TypeOK
<1>2. pc'[r] = "done" /\ UNCHANGED doomed
  BY ThenMoves DEF Commit, planVars
<1>3. UNCHANGED tables \/ Publish(session[r])
  BY DEF Commit
<1>4. shared'[session[r]] = {} /\ locked'[session[r]] = {}
  BY <1>1, EndHolds DEF Commit, HoldsNothing
<1>5. doomed'[r] = {}
  BY <1>1, <1>2, NoDoomed
<1> QED
  BY <1>1, <1>2, <1>3, <1>4, <1>5, EndTables

LEMMA CrashTables ==
    ASSUME TypeOK, LocksExclude, IdentityInv, TableInv, OneCallPerSession, ~missed,
           NEW s \in Session, Crash(s)
    PROVE  TableInv'
<1>1. PICK r \in Request :
         /\ session[r] = s /\ pc[r] \notin {"idle", "done"} /\ Own(r)
         /\ pc'[r] = "done" /\ doomed'[r] = {}
         /\ UNCHANGED tables \/ (pc[r] = "commit" /\ Publish(session[r]))
  BY CrashedCall
<1>2. shared'[session[r]] = {} /\ locked'[session[r]] = {}
  BY <1>1, EndHolds DEF Crash, HoldsNothing
<1> QED
  BY <1>1, <1>2, EndTables

-----------------------------------------------------------------------------
(* A call arrives.                                                          *)
LEMMA ReceiveTables ==
    ASSUME TypeOK, TableInv, IdentityInv, NEW r \in Request, Receive(r)
    PROVE  TableInv'
<1>1. /\ UNCHANGED <<tables, txnVars, old, list, doomed, result, missed>>
      /\ pc[r] = "idle" /\ pc'[r] = "begin" /\ doomed'[r] = {}
      /\ \A q \in Request \ {r} : /\ pc'[q] = pc[q] /\ session'[q] = session[q]
                                  /\ req'[q] = req[q] /\ uuid'[q] = uuid[q]
  BY DEF Receive, TypeOK, IdentityInv, PlanOf
<1>2. TableCall(r)'
  BY <1>1, OutOfTables DEF Checking, Written
<1>3. ASSUME NEW q \in Request \ {r} PROVE TableCall(q)'
  <2>1. /\ pc'[q] = pc[q] /\ uuid'[q] = uuid[q] /\ old'[q] = old[q] /\ list'[q] = list[q]
        /\ doomed'[q] = doomed[q] /\ result'[q] = result[q]
        /\ req'[q] = req[q] /\ session'[q] = session[q]
        /\ docs' = docs /\ rows' = rows /\ pending' = pending /\ gone' = gone /\ fresh' = fresh
        /\ shared' = shared
    BY <1>1 DEF tables, txnVars
  <2>2. FoundOf(q)' /\ WaitsFor(q)'
    BY <2>1 DEF TableInv, FoundOf, WaitsFor, OldRows
  <2>3. RowsWrittenBy(q)'
    <3>1. RowsWrittenBy(q)
      BY DEF TableInv
    <3> QED
      BY <2>1, <3>1 DEF RowsWrittenBy, OldRows, NewAliases, NewReferences
  <2> QED
    BY <2>2, <2>3 DEF TableCall
<1>4. \A w \in rows' : w.by \in Request => pc'[w.by] = "done"
  BY <1>1 DEF TableInv, tables
<1>5. \A i \in Id : RowsMatch(rows', docs'[i], i)
  BY <1>1 DEF TableInv, tables, RowsMatch, RowsIn, SameContents
<1>6. \A s \in Session : shared'[s] \cup locked'[s] \subseteq rows'
  BY <1>1 DEF TableInv, tables, txnVars
<1> QED
  BY <1>2, <1>3, <1>4, <1>5, <1>6 DEF TableInv, TableCall

-----------------------------------------------------------------------------
(* The tables at the start.                                                 *)
LEMMA RowsOfMembers ==
    ASSUME NEW store
    PROVE  /\ \A i \in Id : store[i] # NoDoc =>
                 /\ \A a \in Aliases(i) : AliasRow(i, store[i].uuid, i, a) \in RowsOf(store)
                 /\ \A a \in store[i].refs : ReferenceRow(i, i, a) \in RowsOf(store)
           /\ \A w \in RowsOf(store) : \E i \in Id :
                 /\ store[i] # NoDoc
                 /\ \/ \E a \in Aliases(i) : w = AliasRow(i, store[i].uuid, i, a)
                    \/ \E a \in store[i].refs : w = ReferenceRow(i, i, a)
BY DEF RowsOf

LEMMA RowsOfMatch ==
    ASSUME NEW store, NEW i \in Id
    PROVE  RowsMatch(RowsOf(store), store[i], i) /\ \A w \in RowsOf(store) : w.by \in Id
<1> DEFINE all == RowsOf(store)
           alias(k, a) == AliasRow(k, store[k].uuid, k, a)
           ref(k, a) == ReferenceRow(k, k, a)
<1>1. /\ \A k \in Id : store[k] # NoDoc =>
            /\ \A a \in Aliases(k) : alias(k, a) \in all
            /\ \A a \in store[k].refs : ref(k, a) \in all
      /\ \A w \in all : \E k \in Id :
            /\ store[k] # NoDoc
            /\ (\E a \in Aliases(k) : w = alias(k, a)) \/ (\E a \in store[k].refs : w = ref(k, a))
  BY RowsOfMembers
<1>2. \A k, a : /\ alias(k, a).table = "aliases" /\ alias(k, a).by = k /\ alias(k, a).uuid = store[k].uuid
                /\ alias(k, a).mid = k /\ alias(k, a).alias = a
                /\ ref(k, a).table = "references" /\ ref(k, a).by = k /\ ref(k, a).uuid = NoUuid
                /\ ref(k, a).mid = k /\ ref(k, a).alias = a
  BY NewRowsTyped
<1> HIDE DEF all, alias, ref
<1>3. ASSUME NEW w \in all
      PROVE  /\ w.mid \in Id /\ store[w.mid] # NoDoc /\ w.by = w.mid
             /\ \/ /\ w.table = "aliases" /\ w.uuid = store[w.mid].uuid /\ w.alias \in Aliases(w.mid)
                   /\ w = alias(w.mid, w.alias)
                \/ /\ w.table = "references" /\ w.uuid = NoUuid /\ w.alias \in store[w.mid].refs
                   /\ w = ref(w.mid, w.alias)
  <2>1. PICK k \in Id :
           /\ store[k] # NoDoc
           /\ (\E a \in Aliases(k) : w = alias(k, a)) \/ (\E a \in store[k].refs : w = ref(k, a))
    BY <1>1
  <2>2. CASE \E a \in Aliases(k) : w = alias(k, a)
    BY <1>2, <2>1, <2>2
  <2>3. CASE \E a \in store[k].refs : w = ref(k, a)
    BY <1>2, <2>1, <2>3
  <2> QED
    BY <2>1, <2>2, <2>3
<1>4. \A w \in all : w.mid = i =>
         /\ store[i] # NoDoc
         /\ w.table = "aliases" => w.uuid = store[i].uuid /\ w.alias \in Aliases(i)
         /\ w.table = "references" => w.uuid = NoUuid /\ w.alias \in store[i].refs
  BY <1>3
<1>5. store[i] # NoDoc =>
         /\ \A a \in Aliases(i) : \E w \in RowsIn(all, "aliases", i) : w.alias = a
         /\ \A a \in store[i].refs : \E w \in RowsIn(all, "references", i) : w.alias = a
  <2>1. ASSUME store[i] # NoDoc, NEW a \in Aliases(i)
        PROVE  \E w \in RowsIn(all, "aliases", i) : w.alias = a
    <3>1. alias(i, a) \in RowsIn(all, "aliases", i)
      BY <1>1, <1>2, <2>1 DEF RowsIn
    <3> QED
      BY <1>2, <3>1
  <2>2. ASSUME store[i] # NoDoc, NEW a \in store[i].refs
        PROVE  \E w \in RowsIn(all, "references", i) : w.alias = a
    <3>1. ref(i, a) \in RowsIn(all, "references", i)
      BY <1>1, <1>2, <2>2 DEF RowsIn
    <3> QED
      BY <1>2, <3>1
  <2> QED
    BY <2>1, <2>2
<1>6. \A v, w \in all : v.mid = i /\ SameContents(v, w) => v = w
  BY <1>3 DEF SameContents
<1>7. \A w \in all : w.by \in Id
  BY <1>3
<1>8. RowsMatch(all, store[i], i)
  BY <1>4, <1>5, <1>6 DEF RowsMatch
<1> QED
  BY <1>7, <1>8 DEF all

LEMMA InitTables == Init => TableInv /\ IdleInv
<1> SUFFICES ASSUME Init PROVE TableInv /\ IdleInv
  OBVIOUS
<1>1. \A i \in Id : RowsMatch(rows, docs[i], i)
  BY RowsOfMatch DEF Init
<1>2. \A w \in rows : w.by \notin Request
  <2>1. SUFFICES ASSUME NEW w \in rows PROVE w.by \in Id
    BY NamesAssumption
  <2>2. PICK i \in Id : TRUE
    BY RowsOfMembers DEF Init
  <2> QED
    BY <2>2, RowsOfMatch DEF Init
<1>3. \A s \in Session : shared[s] \cup locked[s] \subseteq rows
  BY DEF Init
<1>4. \A r \in Request : FoundOf(r) /\ RowsWrittenBy(r) /\ WaitsFor(r)
  BY DEF Init, FoundOf, RowsWrittenBy, WaitsFor, Checking, Written
<1>5. IdleInv
  BY DEF Init, IdleInv
<1> QED
  BY <1>1, <1>2, <1>3, <1>4, <1>5 DEF TableInv

-----------------------------------------------------------------------------
(* The part of the invariant about the tables, under its conditions.        *)
Undisturbed == IdentitiesFixed /\ ~missed
TablesInv == IdleInv /\ (Undisturbed => TableInv)

(* A call keeps what it was asked, and a lost update stays lost.            *)
LEMMA StepIdle ==
    ASSUME TypeOK, IdleInv, OneCallPerSession, [Next]_vars
    PROVE  IdleInv' /\ (Undisturbed' => Undisturbed)
<1>1. CASE UNCHANGED vars
  BY <1>1 DEF vars, tables, txnVars, callVars, planVars, IdleInv, Undisturbed, IdentitiesFixed
<1>2. ASSUME NEW r \in Request, Receive(r) PROVE IdleInv' /\ (Undisturbed' => Undisturbed)
  <2>1. /\ pc[r] = "idle" /\ pc'[r] = "begin" /\ missed' = missed
        /\ \A q \in Request \ {r} : pc'[q] = pc[q] /\ req'[q] = req[q]
    BY <1>2 DEF Receive, TypeOK
  <2>2. ~req[r].allow
    BY <2>1 DEF IdleInv, NoCall
  <2> QED
    BY <2>1, <2>2 DEF IdleInv, Undisturbed, IdentitiesFixed
<1>3. ASSUME NEW r \in Request, Step(r) PROVE IdleInv' /\ (Undisturbed' => Undisturbed)
  <2>1. Own(r) /\ pc'[r] # "idle"
    BY <1>3, StepEffect DEF Effect, Opens, Answers, Ends, Breaks, GoesOn
  <2>2. missed => missed'
    BY <1>3 DEF Step, Begin, Rejected, Fail, FindForUpsert, FindForUpdate, FindForDelete, Return,
       Refuse, CheckReferencing, CheckSuperclass, ValidateReferences, Report, InsertDocument,
       UpdateDocument, DeleteDocument, DeleteAliases, InsertAlias, DeleteReferences,
       InsertReference, Wait, Deadlock, Commit, Rollback
  <2> QED
    BY <2>1, <2>2 DEF Own, IdleInv, Undisturbed, IdentitiesFixed
<1>4. ASSUME NEW s \in Session, Crash(s) PROVE IdleInv' /\ (Undisturbed' => Undisturbed)
  <2>1. PICK r \in Request : Own(r) /\ pc'[r] = "done" /\ missed' = missed
    BY <1>4, CrashedCall
  <2> QED
    BY <2>1 DEF Own, IdleInv, Undisturbed, IdentitiesFixed
<1> QED
  BY <1>1, <1>2, <1>3, <1>4 DEF Next, Quiescent

LEMMA NextTables ==
    ASSUME TypeOK, SessionInv, LocksExclude, IdentityInv, TablesInv, OneCallPerSession, [Next]_vars
    PROVE  TablesInv'
<1>1. IdleInv' /\ (Undisturbed' => Undisturbed)
  BY StepIdle DEF TablesInv
<1>2. SUFFICES ASSUME Undisturbed' PROVE TableInv'
  BY <1>1 DEF TablesInv
<1>3. TableInv /\ IdentitiesFixed /\ ~missed /\ ~missed'
  BY <1>1, <1>2 DEF TablesInv, Undisturbed
<1>4. CASE UNCHANGED vars
  <2>1. /\ docs' = docs /\ rows' = rows /\ pc' = pc /\ uuid' = uuid /\ old' = old /\ list' = list
        /\ doomed' = doomed /\ result' = result /\ req' = req /\ session' = session
        /\ pending' = pending /\ gone' = gone /\ fresh' = fresh /\ shared' = shared
        /\ locked' = locked
    BY <1>4 DEF vars, tables, txnVars, callVars, planVars
  <2>2. \A q \in Request : FoundOf(q)' /\ WaitsFor(q)'
    BY <1>3, <2>1 DEF TableInv, FoundOf, WaitsFor, OldRows
  <2>3. ASSUME NEW q \in Request PROVE RowsWrittenBy(q)'
    <3>1. RowsWrittenBy(q)
      BY <1>3 DEF TableInv
    <3> QED
      BY <2>1, <3>1 DEF RowsWrittenBy, OldRows, NewAliases, NewReferences
  <2>4. \A i \in Id : RowsMatch(rows', docs'[i], i)
    BY <1>3, <2>1 DEF TableInv, RowsMatch, RowsIn, SameContents
  <2> QED
    BY <1>3, <2>1, <2>2, <2>3, <2>4 DEF TableInv
<1>5. ASSUME NEW r \in Request, Receive(r) PROVE TableInv'
  BY <1>3, <1>5, ReceiveTables
<1>6. ASSUME NEW r \in Request, Step(r) PROVE TableInv'
  BY <1>3, <1>6, PrivateStepTables, CommitTables
<1>7. ASSUME NEW s \in Session, Crash(s) PROVE TableInv'
  BY <1>3, <1>7, CrashTables
<1> QED
  BY <1>4, <1>5, <1>6, <1>7 DEF Next, Quiescent

LEMMA TablesTold == TypeOK /\ (OneCallPerSession => TablesInv) => TablesAgree
<1> SUFFICES ASSUME TypeOK, TableInv
             PROVE  /\ \A v \in RowsOf(docs) : \E w \in rows : SameContents(v, w)
                    /\ \A w \in rows : \E v \in RowsOf(docs) : SameContents(v, w)
                    /\ \A v, w \in rows : SameContents(v, w) => v = w
  BY DEF TablesAgree, TablesInv, Undisturbed
<1>1. \A i \in Id : RowsMatch(rows, docs[i], i)
  BY DEF TableInv
<1>2. \A w \in rows : w.mid \in Id /\ w.table \in {"aliases", "references"}
  BY DEF TypeOK, Row
<1>3. ASSUME NEW v \in RowsOf(docs) PROVE \E w \in rows : SameContents(v, w)
  <2>1. PICK i \in Id :
           /\ docs[i] # NoDoc
           /\ \/ \E a \in Aliases(i) : v = AliasRow(i, docs[i].uuid, i, a)
              \/ \E a \in docs[i].refs : v = ReferenceRow(i, i, a)
    BY RowsOfMembers
  <2>2. ASSUME NEW a \in Aliases(i), v = AliasRow(i, docs[i].uuid, i, a)
        PROVE  \E w \in rows : SameContents(v, w)
    <3>1. PICK w \in rows : w.table = "aliases" /\ w.mid = i /\ w.alias = a
      BY <1>1, <2>1 DEF RowsMatch, RowsIn
    <3>2. w.uuid = docs[i].uuid
      BY <1>1, <3>1 DEF RowsMatch
    <3> QED
      BY <2>2, <3>1, <3>2, NewRowsTyped DEF SameContents
  <2>3. ASSUME NEW a \in docs[i].refs, v = ReferenceRow(i, i, a)
        PROVE  \E w \in rows : SameContents(v, w)
    <3>1. PICK w \in rows : w.table = "references" /\ w.mid = i /\ w.alias = a
      BY <1>1, <2>1 DEF RowsMatch, RowsIn
    <3>2. w.uuid = NoUuid
      BY <1>1, <3>1 DEF RowsMatch
    <3> QED
      BY <2>3, <3>1, <3>2, NewRowsTyped DEF SameContents
  <2> QED
    BY <2>1, <2>2, <2>3
<1>4. ASSUME NEW w \in rows PROVE \E v \in RowsOf(docs) : SameContents(v, w)
  <2>1. PICK i \in Id : i = w.mid
    BY <1>2
  <2>2. /\ docs[i] # NoDoc
        /\ w.table = "aliases" => w.uuid = docs[i].uuid /\ w.alias \in Aliases(i)
        /\ w.table = "references" => w.uuid = NoUuid /\ w.alias \in docs[i].refs
    BY <1>1, <2>1 DEF RowsMatch
  <2>3. CASE w.table = "aliases"
    <3>1. PICK v \in RowsOf(docs) : v = AliasRow(i, docs[i].uuid, i, w.alias)
      BY <2>2, <2>3, RowsOfMembers
    <3> QED
      BY <2>1, <2>2, <2>3, <3>1, NewRowsTyped DEF SameContents
  <2>4. CASE w.table = "references"
    <3>1. PICK v \in RowsOf(docs) : v = ReferenceRow(i, i, w.alias)
      BY <2>2, <2>4, RowsOfMembers
    <3> QED
      BY <2>1, <2>2, <2>4, <3>1, NewRowsTyped DEF SameContents
  <2> QED
    BY <1>2, <2>3, <2>4
<1>5. \A v, w \in rows : SameContents(v, w) => v = w
  BY <1>1, <1>2 DEF RowsMatch
<1> QED
  BY <1>3, <1>4, <1>5

-----------------------------------------------------------------------------
(* References, when every superclass identity belongs to one document.      *)
RefCall(r) == ReferencesHeld(r) /\ Unreferenced(r)

LEMMA AliasNamesOne ==
    ASSUME SuperDisjoint, NEW i \in Id, NEW j \in Id, NEW a \in Aliases(i), a \in Aliases(j)
    PROVE  i = j
BY SuperAssumption, NamesAssumption DEF Aliases, SuperDisjoint

(* One committed row tells what an alias names.                             *)
LEMMA AliasRowsNameOne ==
    ASSUME TypeOK, TableInv, SuperDisjoint, NEW v \in rows, NEW w \in rows,
           v.table = "aliases", w.table = "aliases", v.alias = w.alias
    PROVE  v = w
<1>1. /\ v.mid \in Id /\ docs[v.mid].uuid = v.uuid /\ v.alias \in Aliases(v.mid)
      /\ w.mid \in Id /\ docs[w.mid].uuid = w.uuid /\ w.alias \in Aliases(w.mid)
  BY AliasRowsOf
<1>2. v.mid = w.mid
  BY <1>1, AliasNamesOne
<1>3. SameContents(v, w)
  BY <1>1, <1>2 DEF SameContents
<1> QED
  BY <1>1, <1>3 DEF TableInv, RowsMatch

(* Equal counts mean that every reference was found, which is what          *)
(* validateReferenceExistence takes them to mean.                           *)
LEMMA CountsSuffice ==
    ASSUME TypeOK, TableInv, SuperDisjoint, NEW refs, IsFiniteSet(refs), NEW found \in SUBSET rows,
           \A w \in found : w.table = "aliases" /\ w.alias \in refs,
           Cardinality(refs) = Cardinality(found)
    PROVE  refs \subseteq {w.alias : w \in found}
<1> DEFINE f == [w \in found |-> w.alias]
<1>1. f \in Injection(found, refs)
  <2>1. f \in [found -> refs]
    OBVIOUS
  <2>2. \A v, w \in found : f[v] = f[w] => v = w
    BY AliasRowsNameOne
  <2> HIDE DEF f
  <2> QED
    BY <2>1, <2>2 DEF Injection, IsInjective
<1>2. f \in Surjection(found, refs)
  <2> HIDE DEF f
  <2> QED
    BY <1>1, FS_Injection
<1>3. \A a \in refs : \E w \in found : f[w] = a
  <2> HIDE DEF f
  <2> QED
    BY <1>2 DEF Surjection
<1> QED
  BY <1>3

LEMMA BystanderReferences ==
    ASSUME TypeOK, OneCallPerSession, NEW r \in Request, Own(r), pc[r] \notin {"idle", "done"},
           NEW q \in Request \ {r}, RefCall(q), UNCHANGED docs
    PROVE  RefCall(q)'
<1>1. /\ pc'[q] = pc[q] /\ old'[q] = old[q] /\ list'[q] = list[q]
      /\ req'[q] = req[q] /\ session'[q] = session[q]
  BY DEF Own
<1>2. CASE pc[q] \in {"idle", "done"}
  BY <1>1, <1>2 DEF RefCall, ReferencesHeld, Unreferenced, Written
<1>3. CASE pc[q] \notin {"idle", "done"}
  <2>1. locked'[session[q]] = locked[session[q]]
    BY <1>3, SessionOfOther DEF Own
  <2> QED
    BY <1>1, <2>1 DEF RefCall, ReferencesHeld, Unreferenced, Aliases
<1> QED
  BY <1>2, <1>3

LEMMA PrivateReferences ==
    ASSUME TypeOK, ReferenceInv, OneCallPerSession, NEW r \in Request, Private(r), RefCall(r)'
    PROVE  ReferenceInv'
<1>1. \A q \in Request : RefCall(q)'
  <2>1. \A q \in Request \ {r} : RefCall(q)'
    BY BystanderReferences DEF ReferenceInv, RefCall, Private, tables
  <2> QED
    BY <2>1
<1>2. \A j \in Id : docs'[j] # NoDoc /\ docs'[j].validated => Resolves(docs', docs'[j].refs)
  BY DEF ReferenceInv, Private, tables, Resolves
<1> QED
  BY <1>1, <1>2 DEF ReferenceInv, RefCall

(* A call that writes no more than what it has locked and checked for.      *)
LEMMA WritingReferences ==
    ASSUME TypeOK, IdentityInv, ReferenceInv, NEW r \in Request, Private(r), Effect(r), Step(r),
           pc[r] \in {"write"} \cup Written, pc'[r] \in Written
    PROVE  RefCall(r)'
<1>1. session[r] \in Session
  BY DEF TypeOK, Written
<1>2. locked' = locked
  <2>1. CASE Changes(r)
    BY <1>1, <2>1, WriteHolds DEF Changes
  <2> QED
    BY <2>1 DEF Effect, Opens, Answers, Ends, Breaks, Locks, txnVars, Written
<1>3. old' = old
  BY DEF Step, Begin, Rejected, Fail, FindForUpsert, FindForUpdate, FindForDelete, Return,
     Refuse, CheckReferencing, CheckSuperclass, ValidateReferences, Report, InsertDocument,
     UpdateDocument, DeleteDocument, DeleteAliases, InsertAlias, DeleteReferences,
     InsertReference, Wait, Deadlock, Commit, Rollback, Reads, Sent, Written, planVars
<1>4. docs' = docs /\ req' = req /\ session' = session
  BY DEF Private, Own, tables
<1> QED
  BY <1>2, <1>3, <1>4 DEF ReferenceInv, RefCall, ReferencesHeld, Unreferenced, Aliases, Written

LEMMA NoReferences ==
    ASSUME NEW r \in Request,
           \/ pc'[r] \notin {"referencing", "write"} \cup Written
           \/ pc'[r] = "write" /\ req'[r].op # "delete" /\ (req'[r].validate => req'[r].refs = {})
    PROVE  RefCall(r)'
BY DEF RefCall, ReferencesHeld, Unreferenced, Written

LEMMA ValidateReferencesHolds ==
    ASSUME TypeOK, IdentityInv, TableInv, SuperDisjoint, NEW r \in Request,
           ValidateReferences(r), session' = session, req' = req
    PROVE  RefCall(r)'
<1> DEFINE s == session[r]
           refs == req[r].refs
           found == {w \in rows : w.table = "aliases" /\ w.alias \in refs}
<1>1. pc[r] = "validate"
  BY DEF ValidateReferences, Reads, Sent
<1>2. s \in Session /\ Rows(s) = rows /\ txn[s] = "open" /\ req[r] \in Input
  BY <1>1, CheckSees DEF Checking, TypeOK
<1>3. CASE pc'[r] # "write"
  <2>1. pc'[r] \in {"rollback", "report"}
    BY <1>3, ThenMoves DEF ValidateReferences, Fail, Refuse
  <2> QED
    BY <2>1, NoReferences DEF Written
<1>4. CASE pc'[r] = "write"
  <2>1. /\ LockReferenced(s, found)
        /\ Cardinality(refs) = Cardinality(found) \/ refs \subseteq {w.alias : w \in found}
    BY <1>2, <1>4, ThenMoves DEF ValidateReferences, Fail, Refuse
  <2>2. refs \subseteq {w.alias : w \in found}
    <3>1. IsFiniteSet(refs)
      BY <1>2, InputAssumption
    <3>2. found \in SUBSET rows /\ \A w \in found : w.table = "aliases" /\ w.alias \in refs
      OBVIOUS
    <3> HIDE DEF found, refs
    <3> QED
      BY <2>1, <3>1, <3>2, CountsSuffice
  <2>3. found \subseteq locked'[s]
    BY <1>2, <2>1 DEF LockReferenced, TypeOK
  <2>4. \A a \in refs : \E w \in locked'[s] : w.table = "aliases" /\ w.alias = a
    BY <2>2, <2>3
  <2>5. req[r].op # "delete"
    BY <1>1 DEF IdentityInv, PlanOf
  <2> QED
    BY <1>4, <2>4, <2>5 DEF RefCall, ReferencesHeld, Unreferenced, Written
<1> QED
  BY <1>3, <1>4

(* findReferencingMeadowlarkIds finds every document that refers to one     *)
(* about to be deleted.                                                     *)
LEMMA CheckReferencingHolds ==
    ASSUME TypeOK, IdentityInv, TableInv, ReferenceInv, NEW r \in Request,
           CheckReferencing(r), docs' = docs, session' = session, req' = req
    PROVE  RefCall(r)'
<1>1. pc[r] = "referencing" /\ old' = old
  BY DEF CheckReferencing, Reads, Sent
<1>2. Rows(session[r]) = rows /\ req[r].op = "delete"
  BY <1>1, CheckSees DEF Checking, IdentityInv, PlanOf
<1>3. CASE pc'[r] # "write"
  <2>1. pc'[r] = "report"
    BY <1>3, ThenMoves DEF CheckReferencing
  <2> QED
    BY <2>1, NoReferences DEF Written
<1>4. CASE pc'[r] = "write"
  <2> DEFINE parents == {w.mid : w \in {v \in rows : v.table = "references" /\ v.alias \in list[r]}}
  <2>1. parents \ old[r] = {}
    BY <1>2, <1>4, ThenMoves DEF CheckReferencing
  <2>2. ASSUME NEW i \in old[r], NEW j \in Id \ old[r], docs[j] # NoDoc, NEW a \in docs[j].refs,
               a \in Aliases(i)
        PROVE  FALSE
    <3>1. a \in list[r]
      BY <1>1, <2>2 DEF ReferenceInv, Unreferenced
    <3>2. PICK w \in rows : w.table = "references" /\ w.mid = j /\ w.alias = a
      BY <2>2 DEF TableInv, RowsMatch, RowsIn
    <3>3. w.mid \in parents
      BY <3>1, <3>2
    <3> QED
      BY <2>1, <2>2, <3>2, <3>3
  <2>3. \A i \in old[r], j \in Id \ old[r] : docs[j] # NoDoc => docs[j].refs \cap Aliases(i) = {}
    BY <2>2
  <2> QED
    BY <1>1, <1>2, <1>4, <2>3 DEF RefCall, ReferencesHeld, Unreferenced, Aliases
<1> QED
  BY <1>3, <1>4

LEMMA FindForDeleteHolds ==
    ASSUME TypeOK, SessionInv, IdentityInv, TableInv, OneCallPerSession, ValidatedDeletes,
           NEW r \in Request, Private(r), FindForDelete(r)
    PROVE  RefCall(r)'
<1>1. CASE pc'[r] = "rollback"
  BY <1>1, NoReferences DEF Written
<1>2. CASE pc'[r] # "rollback"
  <2> DEFINE found == {w \in rows : w.table = "aliases" /\ w.uuid = uuid[r]}
  <2>1. /\ req[r].validate => pc'[r] = "referencing" /\ list'[r] = {w.alias : w \in found}
        /\ req[r].op = "delete"
        /\ \/ old'[r] = {}
           \/ \E i \in Id : old'[r] = {i} /\ docs[i] # NoDoc /\ docs[i].uuid = uuid[r]
    BY <1>2, DeleteFinds, Zenon
  <2>2. pc'[r] = "referencing" /\ list'[r] = {w.alias : w \in found}
    BY <2>1 DEF ValidatedDeletes
  <2>3. ASSUME NEW i \in old'[r] PROVE Aliases(i) \subseteq list'[r]
    <3>1. i \in Id /\ docs[i] # NoDoc /\ docs[i].uuid = uuid[r]
      BY <2>1, <2>3
    <3>2. SUFFICES ASSUME NEW a \in Aliases(i) PROVE \E w \in found : w.alias = a
      BY <2>2
    <3> QED
      BY <3>1, AliasRowOf
  <2>4. \A i \in old'[r] : Aliases(i)' \subseteq list'[r]
    BY <2>3 DEF Aliases
  <2> QED
    BY <2>2, <2>4 DEF RefCall, ReferencesHeld, Unreferenced, Written
<1> QED
  BY <1>1, <1>2

LEMMA PrivateStepReferences ==
    ASSUME TypeOK, SessionInv, IdentityInv, TableInv, ReferenceInv, OneCallPerSession,
           ValidatedDeletes, SuperDisjoint, NEW r \in Request, Step(r), ~Commit(r)
    PROVE  ReferenceInv'
<1>1. Private(r) /\ Effect(r) /\ docs' = docs /\ session' = session /\ req' = req
  BY StepPrivate, StepEffect DEF Private, Own, tables
<1>2. RefCall(r)'
  <2>1. CASE FindForDelete(r) \/ CheckReferencing(r) \/ ValidateReferences(r)
    BY <1>1, <2>1, FindForDeleteHolds, CheckReferencingHolds, ValidateReferencesHolds
  <2>2. CASE FindForUpsert(r) \/ FindForUpdate(r) \/ CheckSuperclass(r)
    <3>1. req[r].op # "delete"
      BY <2>2 DEF FindForUpsert, FindForUpdate, CheckSuperclass, Reads, Sent, IdentityInv, PlanOf
    <3>2. pc'[r] \in {"super", "done", "report"} \/ pc'[r] = BeforeWrite(r)
      BY <2>2, ThenMoves DEF FindForUpsert, FindForUpdate, CheckSuperclass, Return, Refuse
    <3> QED
      BY <1>1, <3>1, <3>2, NoReferences DEF BeforeWrite, Written
  <2>3. CASE Begin(r) \/ Rejected(r) \/ Report(r) \/ Deadlock(r) \/ Rollback(r)
    <3>1. pc'[r] \in {"find", "rollback", "done"}
      BY <2>3, ThenMoves DEF Begin, Rejected, Report, AfterReport, Deadlock, Rollback, Fail
    <3> QED
      BY <3>1, NoReferences DEF Written
  <2>4. CASE \/ InsertDocument(r) \/ UpdateDocument(r) \/ DeleteDocument(r) \/ DeleteAliases(r)
             \/ InsertAlias(r) \/ DeleteReferences(r) \/ InsertReference(r) \/ Wait(r)
    <3>1. pc[r] \in {"write"} \cup Written
      BY <2>4 DEF InsertDocument, UpdateDocument, DeleteDocument, DeleteAliases,
         InsertAlias, DeleteReferences, InsertReference, Wait, Writes, Sent, Written
    <3>2. pc'[r] \in Written \cup {"rollback"}
      BY <2>4, <3>1, ThenMoves DEF InsertDocument, UpdateDocument, DeleteDocument, DeleteAliases,
         InsertAlias, DeleteReferences, InsertReference, Wait, Fail, Finish, Written
    <3> QED
      BY <1>1, <3>1, <3>2, WritingReferences, NoReferences DEF Written
  <2> QED
    BY <2>1, <2>2, <2>3, <2>4 DEF Step
<1> QED
  BY <1>1, <1>2, PrivateReferences

(* A document of a DELETE past its check is the one whose aliases it has    *)
(* locked.                                                                  *)
LEMMA DeletedDocument ==
    ASSUME TypeOK, IdentityInv, TableInv, NEW q \in Request, req[q].op = "delete",
           pc[q] \in {"write"} \cup Written, NEW i \in old[q]
    PROVE  i \in Id /\ docs[i] # NoDoc /\ docs[i].uuid = uuid[q]
<1>1. \A is \in {{}} \cup {{k} : k \in Id} : is \subseteq Id
  OBVIOUS
<1>2. i \in Id
  BY <1>1 DEF TypeOK
<1>3. CASE pc[q] = "write"
  BY <1>2, <1>3 DEF TableInv, FoundOf, Checking
<1>4. CASE pc[q] \in Written
  <2>1. DOMAIN pending[session[q]] = old[q]
    BY <1>4 DEF TableInv, FoundOf
  <2>2. Inserts(q) \/ Updates(q) \/ Deletes(q) \/ FindsNothing(q)
    BY <1>4 DEF IdentityInv, EffectOf
  <2>3. result[q] \notin {"INSERT_SUCCESS", "UPDATE_SUCCESS"}
    BY DEF IdentityInv, PlanOf
  <2> QED
    BY <1>2, <2>1, <2>2, <2>3 DEF Inserts, Updates, Deletes, FindsNothing
<1> QED
  BY <1>3, <1>4

LEMMA CommitKeepsReferences ==
    ASSUME TypeOK, LocksExclude, IdentityInv, TableInv, ReferenceInv, OneCallPerSession,
           ~missed, SuperDisjoint, NEW r \in Request, pc[r] = "commit", Publish(session[r])
    PROVE  \A j \in Id : docs'[j] # NoDoc /\ docs'[j].validated => Resolves(docs', docs'[j].refs)
<1>1. ASSUME NEW i \in Id, docs[i] # NoDoc, req[r].op # "delete" \/ i \notin old[r]
      PROVE  docs'[i] # NoDoc
  BY <1>1, PublishedRows
<1> SUFFICES ASSUME NEW j \in Id, docs'[j] # NoDoc, docs'[j].validated, NEW a \in docs'[j].refs
             PROVE  \E i \in Id : docs'[i] # NoDoc /\ a \in Aliases(i)
  BY DEF Resolves
<1>2. CASE j \notin old[r]
  <2>1. docs'[j] = docs[j]
    BY <1>2, PublishedRows
  <2>2. PICK i \in Id : docs[i] # NoDoc /\ a \in Aliases(i)
    BY <2>1 DEF ReferenceInv, Resolves
  <2>3. req[r].op # "delete" \/ i \notin old[r]
    BY <1>2, <2>1, <2>2 DEF ReferenceInv, Unreferenced, Written
  <2> QED
    BY <1>1, <2>2, <2>3
<1>3. CASE j \in old[r]
  <2>1. req[r].op # "delete" /\ docs'[j].refs = req[r].refs /\ docs'[j].validated = req[r].validate
    <3>1. req[r].op # "delete"
      BY <1>3, PublishedRows
    <3>2. j = req[r].id
      BY <1>3, <3>1, PublishedRows
    <3> QED
      BY <3>1, <3>2, PublishedRows
  <2>2. PICK w \in locked[session[r]] : w.table = "aliases" /\ w.alias = a
    BY <2>1 DEF ReferenceInv, ReferencesHeld, Written
  <2>3. session[r] \in Session
    BY DEF TypeOK
  <2>4. w \in rows
    BY <2>2, <2>3 DEF TableInv
  <2> QED
    BY <1>1, <2>1, <2>2, <2>4, AliasRowsOf
<1> QED
  BY <1>2, <1>3

(* A document that another call commits does not refer to what a DELETE     *)
(* has checked: its aliases are locked by one of the two.                   *)
LEMMA CommitKeepsUnreferenced ==
    ASSUME TypeOK, LocksExclude, IdentityInv, TableInv, ReferenceInv, OneCallPerSession,
           ~missed, SuperDisjoint, NEW r \in Request, pc[r] = "commit", Publish(session[r]),
           Own(r), NEW q \in Request \ {r}
    PROVE  RefCall(q)'
<1>1. /\ pc'[q] = pc[q] /\ old'[q] = old[q] /\ list'[q] = list[q]
      /\ req'[q] = req[q] /\ session'[q] = session[q]
  BY DEF Own
<1>2. CASE pc[q] \notin {"referencing", "write"} \cup Written
  BY <1>1, <1>2, NoReferences
<1>3. CASE pc[q] \in {"referencing", "write"} \cup Written
  <2>1. session[r] \in Session /\ session[q] \in Session \ {session[r]}
    BY <1>3, SessionOfOther DEF TypeOK, Written
  <2>2. locked'[session[q]] = locked[session[q]]
    BY <2>1 DEF Own
  <2>3. ReferencesHeld(q)'
    BY <1>1, <2>2 DEF ReferenceInv, ReferencesHeld
  <2>4. ASSUME pc[q] \in {"write"} \cup Written, req[q].op = "delete", NEW i \in old[q],
               NEW j \in Id \ old[q], docs'[j] # NoDoc, docs'[j].validated,
               NEW a \in docs'[j].refs, a \in Aliases(i)
        PROVE  FALSE
    <3>1. CASE j \notin old[r]
      <4>1. docs'[j] = docs[j]
        BY <3>1, PublishedRows
      <4> QED
        BY <2>4, <4>1 DEF ReferenceInv, Unreferenced
    <3>2. CASE j \in old[r]
      <4>1. /\ req[r].op # "delete" /\ docs'[j].refs = req[r].refs
            /\ docs'[j].validated = req[r].validate
        <5>1. req[r].op # "delete"
          BY <2>4, <3>2, PublishedRows
        <5>2. j = req[r].id
          BY <3>2, <5>1, PublishedRows
        <5> QED
          BY <5>1, <5>2, PublishedRows
      <4>2. PICK w \in locked[session[r]] : w.table = "aliases" /\ w.alias = a
        BY <2>4, <4>1 DEF ReferenceInv, ReferencesHeld, Written
      <4>3. w \in rows
        BY <2>1, <4>2 DEF TableInv
      <4>4. w.mid \in Id /\ docs[w.mid].uuid = w.uuid /\ a \in Aliases(w.mid)
        BY <4>2, <4>3, AliasRowsOf
      <4>5. i \in Id /\ docs[i].uuid = uuid[q]
        BY <2>4, DeletedDocument
      <4>6. w.uuid = uuid[q]
        BY <2>4, <4>4, <4>5, AliasNamesOne
      <4>7. w \in shared[session[q]]
        BY <2>4, <4>2, <4>3, <4>6 DEF TableInv, FoundOf, Checking
      <4> QED
        BY <2>1, <4>2, <4>7 DEF LocksExclude
    <3> QED
      BY <3>1, <3>2
  <2>5. pc[q] = "referencing" => \A i \in old[q] : Aliases(i) \subseteq list[q]
    BY DEF ReferenceInv, Unreferenced
  <2>6. Unreferenced(q)'
    BY <1>1, <2>4, <2>5 DEF Unreferenced, Aliases
  <2> QED
    BY <2>3, <2>6 DEF RefCall
<1> QED
  BY <1>2, <1>3

LEMMA EndReferences ==
    ASSUME TypeOK, LocksExclude, IdentityInv, TableInv, ReferenceInv, OneCallPerSession,
           ~missed, SuperDisjoint, NEW r \in Request, Own(r), pc[r] \notin {"idle", "done"},
           pc'[r] = "done", UNCHANGED tables \/ (pc[r] = "commit" /\ Publish(session[r]))
    PROVE  ReferenceInv'
<1>1. RefCall(r)'
  BY NoReferences DEF Written
<1>2. CASE UNCHANGED tables
  <2>1. \A q \in Request \ {r} : RefCall(q)'
    BY <1>2, BystanderReferences DEF ReferenceInv, RefCall, tables
  <2>2. \A j \in Id : docs'[j] # NoDoc /\ docs'[j].validated => Resolves(docs', docs'[j].refs)
    BY <1>2 DEF ReferenceInv, tables, Resolves
  <2> QED
    BY <1>1, <2>1, <2>2 DEF ReferenceInv, RefCall
<1>3. CASE pc[r] = "commit" /\ Publish(session[r])
  <2>1. \A q \in Request \ {r} : RefCall(q)'
    BY <1>3, CommitKeepsUnreferenced
  <2>2. \A j \in Id : docs'[j] # NoDoc /\ docs'[j].validated => Resolves(docs', docs'[j].refs)
    BY <1>3, CommitKeepsReferences
  <2> QED
    BY <1>1, <2>1, <2>2 DEF ReferenceInv, RefCall
<1> QED
  BY <1>2, <1>3

LEMMA CommitEnds ==
    ASSUME TypeOK, NEW r \in Request, Commit(r)
    PROVE  /\ Own(r) /\ pc[r] = "commit" /\ pc'[r] = "done"
           /\ UNCHANGED tables \/ Publish(session[r])
<1>1. Own(r)
  BY StepEffect DEF Step
<1>2. pc[r] = "commit" /\ pc'[r] = "done"
  BY ThenMoves DEF Commit, Sent
<1>3. UNCHANGED tables \/ Publish(session[r])
  BY DEF Commit
<1> QED
  BY <1>1, <1>2, <1>3

LEMMA ReceiveReferences ==
    ASSUME TypeOK, ReferenceInv, NEW r \in Request, Receive(r)
    PROVE  ReferenceInv'
<1>1. /\ docs' = docs /\ locked' = locked /\ old' = old /\ list' = list /\ pc'[r] = "begin"
      /\ \A q \in Request \ {r} : pc'[q] = pc[q] /\ session'[q] = session[q] /\ req'[q] = req[q]
  BY DEF Receive, TypeOK, tables, txnVars
<1>2. RefCall(r)'
  BY <1>1, NoReferences DEF Written
<1>3. \A q \in Request \ {r} : RefCall(q)'
  BY <1>1 DEF ReferenceInv, RefCall, ReferencesHeld, Unreferenced, Aliases
<1>4. \A j \in Id : docs'[j] # NoDoc /\ docs'[j].validated => Resolves(docs', docs'[j].refs)
  BY <1>1 DEF ReferenceInv
<1> QED
  BY <1>2, <1>3, <1>4 DEF ReferenceInv, RefCall

LEMMA InitReferences == Init => ReferenceInv
<1> SUFFICES ASSUME Init PROVE ReferenceInv
  OBVIOUS
<1>1. \A j \in Id : docs[j] # NoDoc /\ docs[j].validated => Resolves(docs, docs[j].refs)
  BY SeedAssumption DEF Init
<1>2. \A r \in Request : ReferencesHeld(r) /\ Unreferenced(r)
  BY DEF Init, ReferencesHeld, Unreferenced, Written
<1> QED
  BY <1>1, <1>2 DEF ReferenceInv

(* The part of the invariant about references, under its conditions.        *)
Checked == Undisturbed /\ ValidatedDeletes /\ SuperDisjoint
ReferencesInv == Checked => ReferenceInv

LEMMA StepChecked ==
    ASSUME TypeOK, IdleInv, OneCallPerSession, [Next]_vars, Checked'
    PROVE  Checked
<1>1. Undisturbed
  BY StepIdle DEF Checked
<1>2. SuperDisjoint
  BY DEF Checked, SuperDisjoint
<1>3. ASSUME NEW r \in Request, req[r].op = "delete" PROVE req'[r] = req[r]
  <2>1. CASE UNCHANGED vars
    BY <2>1 DEF vars, callVars
  <2>2. ASSUME NEW q \in Request, Receive(q) PROVE req'[r] = req[r]
    <3>1. q # r
      BY <1>3, <2>2 DEF Receive, IdleInv, NoCall
    <3> QED
      BY <2>2, <3>1 DEF Receive, TypeOK
  <2>3. ASSUME NEW q \in Request, Step(q) PROVE req'[r] = req[r]
    BY <2>3, StepEffect DEF Own
  <2>4. ASSUME NEW s \in Session, Crash(s) PROVE req'[r] = req[r]
    BY <2>4 DEF Crash, callVars
  <2> QED
    BY <2>1, <2>2, <2>3, <2>4 DEF Next, Quiescent
<1>4. ValidatedDeletes
  BY <1>3 DEF Checked, ValidatedDeletes
<1> QED
  BY <1>1, <1>2, <1>4 DEF Checked

LEMMA NextReferences ==
    ASSUME TypeOK, SessionInv, LocksExclude, IdentityInv, TablesInv, ReferencesInv,
           OneCallPerSession, [Next]_vars
    PROVE  ReferencesInv'
<1>1. SUFFICES ASSUME Checked' PROVE ReferenceInv'
  BY DEF ReferencesInv
<1>2. Checked
  BY <1>1, StepChecked DEF TablesInv
<1>3. TableInv /\ ReferenceInv /\ ~missed /\ ValidatedDeletes /\ SuperDisjoint
  BY <1>2 DEF TablesInv, ReferencesInv, Checked, Undisturbed
<1>4. CASE UNCHANGED vars
  BY <1>3, <1>4 DEF vars, tables, txnVars, callVars, planVars, ReferenceInv, ReferencesHeld,
     Unreferenced, Aliases, Resolves
<1>5. ASSUME NEW r \in Request, Receive(r) PROVE ReferenceInv'
  BY <1>3, <1>5, ReceiveReferences
<1>6. ASSUME NEW r \in Request, Step(r) PROVE ReferenceInv'
  <2>1. CASE Commit(r)
    BY <1>3, <2>1, CommitEnds, EndReferences
  <2>2. CASE ~Commit(r)
    BY <1>3, <1>6, <2>2, PrivateStepReferences
  <2> QED
    BY <2>1, <2>2
<1>7. ASSUME NEW s \in Session, Crash(s) PROVE ReferenceInv'
  <2>1. PICK r \in Request :
           /\ pc[r] \notin {"idle", "done"} /\ Own(r) /\ pc'[r] = "done"
           /\ UNCHANGED tables \/ (pc[r] = "commit" /\ Publish(session[r]))
    BY <1>7, CrashedCall
  <2> QED
    BY <1>3, <2>1, EndReferences
<1> QED
  BY <1>4, <1>5, <1>6, <1>7 DEF Next, Quiescent

(* All of it together: what sessions hold, what calls have written, the     *)
(* tables and the references, from statement to statement.                  *)
THEOREM Inductive == Spec => []InductiveInv
<1>1. CASE OneCallPerSession
  <2>1. TypeOK /\ SessionInv /\ LocksExclude /\ IdentityInv /\ TablesInv /\ ReferencesInv /\ [Next]_vars
        => TablesInv' /\ ReferencesInv'
    BY <1>1, NextTables, NextReferences
  <2>2. Init => TablesInv /\ ReferencesInv
    BY InitTables, InitReferences DEF TablesInv, ReferencesInv
  <2>3. Spec => []IdentityInv
    BY <1>1, CommitsKept
  <2>4. TypeOK /\ SessionInv /\ LocksExclude /\ IdentityInv /\ TablesInv /\ ReferencesInv => InductiveInv
    BY DEF InductiveInv, TablesInv, ReferencesInv, Checked, Undisturbed
  <2> QED
    BY <2>1, <2>2, <2>3, <2>4, TypeCorrect, SessionsExclude, PTL DEF Spec
<1>2. CASE ~OneCallPerSession
  <2>1. TypeOK /\ SessionInv /\ LocksExclude => InductiveInv
    BY <1>2 DEF InductiveInv
  <2> QED
    BY <2>1, TypeCorrect, SessionsExclude, PTL
<1> QED
  BY <1>1, <1>2

(* A validated document refers to documents that exist, whatever POSTs,     *)
(* PUTs and DELETEs of it and of what it refers to run at the same time:    *)
(* validateReferenceExistence and a DELETE lock the same alias rows.        *)
THEOREM ReferencesResolve == Spec => []ValidatedReferencesResolve
<1>1. InductiveInv => ValidatedReferencesResolve
  BY DEF InductiveInv, ReferenceInv, ValidatedReferencesResolve
<1> QED
  BY <1>1, Inductive, PTL

(* The tables documents, aliases and references agree in every state: each  *)
(* commit of BackendFacade's calls replaces exactly the rows of the         *)
(* document it writes, whatever other calls, waits, deadlocks and crashes   *)
(* come between its statements.                                             *)
THEOREM TablesStayTogether == Spec => []TablesAgree
<1>1. InductiveInv => TypeOK /\ (OneCallPerSession => TablesInv)
  BY DEF InductiveInv, TablesInv, Undisturbed
<1> QED
  BY <1>1, TablesTold, Inductive, PTL
================================================================================
