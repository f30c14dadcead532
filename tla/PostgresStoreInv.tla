--------------------------- MODULE PostgresStoreInv ---------------------------
(* The inductive invariant behind the safety properties of PostgresStore:   *)
(* what sessions hold against each other, what a call has written at each   *)
(* of its statements, and why a validated reference stays resolved.  The    *)
(* first part holds for any number of calls on a session, the others for    *)
(* one call at a time.                                                      *)
EXTENDS PostgresStore

Finding == {"begin", "find"}
Checking == {"super", "validate", "referencing", "report", "write"}
Written == {"unalias", "alias", "unref", "ref", "commit"}

HoldsNothing(s) ==
    /\ DOMAIN pending[s] = {} /\ gone[s] = {} /\ fresh[s] = {}
    /\ shared[s] = {} /\ locked[s] = {}

(* A transaction that holds anything, or has failed, has a call that will   *)
(* end it.                                                                  *)
SessionInv ==
    \A s \in Session :
       /\ (\A r \in Active(s) : pc[r] \in Finding) => txn[s] # "failed" /\ HoldsNothing(s)
       /\ txn[s] # "open" => HoldsNothing(s)

(* No document or row is written by two transactions, nor is a row that one *)
(* of them has locked.                                                      *)
LocksExclude ==
    \A s, t \in Session : s # t =>
       /\ DOMAIN pending[s] \cap DOMAIN pending[t] = {}
       /\ gone[s] \cap (gone[t] \cup shared[t] \cup locked[t]) = {}
       /\ locked[s] \cap (shared[t] \cup locked[t]) = {}

-----------------------------------------------------------------------------
(* The calls of sessions that serve one call at a time.                     *)

(* The transaction is open from BEGIN to its end, and has written nothing   *)
(* until the checks are over.                                               *)
TransactionOf(r) ==
    LET s == session[r]
    IN  /\ pc[r] \in Checking \cup Written \cup {"find"} => txn[s] = "open"
        /\ pc[r] \in Checking => DOMAIN pending[s] = {} /\ gone[s] = {} /\ fresh[s] = {}

(* What the statements sent so far have decided.                            *)
PlanOf(r) ==
    /\ pc[r] = "idle" => uuid[r] = NoUuid
    /\ pc[r] \in Finding \cup {"idle"} =>
          result[r] = "NONE" /\ old[r] = {} /\ list[r] = {} /\ doomed[r] = {}
    /\ pc[r] \in {"super", "validate", "alias", "ref"} => req[r].op # "delete"
    /\ pc[r] = "referencing" => req[r].op = "delete"
    /\ pc[r] \in Checking /\ req[r].op = "delete" => result[r] = "NONE"
    /\ pc[r] \in {"super", "validate", "write"} /\ req[r].op # "delete" =>
          result[r] \in {"INSERT_SUCCESS", "UPDATE_SUCCESS"}
    /\ pc[r] = "super" => result[r] = "INSERT_SUCCESS"
    /\ pc[r] \in {"report", "rollback"} => result[r] \notin Success
    /\ result[r] = "INSERT_SUCCESS" => req[r].op = "upsert" /\ uuid[r] = r
    /\ result[r] = "UPDATE_SUCCESS" => req[r].op # "delete" /\ uuid[r] \in issued
    /\ pc[r] \in Finding \/ req[r].op # "upsert" => uuid[r] \in issued \cup {NoUuid}
    /\ uuid[r] \in issued \cup {NoUuid, r}

(* What the commit of a transaction will do, by the answer it will give.    *)
Inserts(r) ==
    LET i == req[r].id  p == pending[session[r]]
    IN  /\ result[r] = "INSERT_SUCCESS"
        /\ DOMAIN p = {i} /\ docs[i] = NoDoc
        /\ p[i] = NewVersion(r, req[r].ts)

Updates(r) ==
    LET i == req[r].id  p == pending[session[r]]
    IN  /\ result[r] = "UPDATE_SUCCESS"
        /\ \E j \in Id :
              /\ DOMAIN p = {i, j}
              /\ docs[j] # NoDoc /\ docs[j].uuid = uuid[r]
              /\ p[i] = NewVersion(r, docs[j].createdAt)
              /\ j # i => p[j] = NoDoc /\ docs[i] = NoDoc

Deletes(r) ==
    LET p == pending[session[r]]
    IN  /\ result[r] = "DELETE_SUCCESS" /\ req[r].op = "delete"
        /\ \E j \in Id : /\ DOMAIN p = {j} /\ p[j] = NoDoc
                         /\ docs[j] # NoDoc /\ docs[j].uuid = uuid[r]

FindsNothing(r) ==
    /\ DOMAIN pending[session[r]] = {} /\ uuid[r] \notin UuidsIn(docs)
    /\ \/ result[r] = "UPDATE_SUCCESS" /\ req[r].op = "upsert" /\ missed
       \/ result[r] = "UPDATE_FAILURE_NOT_EXISTS" /\ req[r].op = "update" /\ missed
       \/ result[r] = "DELETE_FAILURE_NOT_EXISTS" /\ req[r].op = "delete"

EffectOf(r) ==
    pc[r] \in Written => Inserts(r) \/ Updates(r) \/ Deletes(r) \/ FindsNothing(r)

IdentityInv ==
    /\ Abstract!UuidUnique
    /\ UuidsIn(docs) \subseteq issued /\ NoUuid \notin issued
    /\ \A r \in Request : /\ r \in issued => pc[r] = "done"
                          /\ TransactionOf(r) /\ PlanOf(r) /\ EffectOf(r)

-----------------------------------------------------------------------------
(* The tables, as long as no document changes its identity and no UPDATE    *)
(* finds its document deleted.                                              *)
RowsIn(rs, table, i) == {w \in rs : w.table = table /\ w.mid = i}

(* The rows rs of a MeadowlarkId are those of the document, each one once.  *)
RowsMatch(rs, document, i) ==
    /\ \A w \in rs : w.mid = i =>
          /\ document # NoDoc
          /\ w.table = "aliases" => w.uuid = document.uuid /\ w.alias \in Aliases(i)
          /\ w.table = "references" => w.uuid = NoUuid /\ w.alias \in document.refs
    /\ document # NoDoc =>
          /\ \A a \in Aliases(i) : \E w \in RowsIn(rs, "aliases", i) : w.alias = a
          /\ \A a \in document.refs : \E w \in RowsIn(rs, "references", i) : w.alias = a
    /\ \A v, w \in rs : v.mid = i /\ SameContents(v, w) => v = w

(* The MeadowlarkId found is that of the document the call will write, and  *)
(* a DELETE has locked its aliases.                                         *)
FoundOf(r) ==
    /\ pc[r] \in Checking \cup Written /\ req[r].op # "delete" => old[r] = {req[r].id}
    /\ pc[r] \in Checking \cup Written /\ result[r] # "INSERT_SUCCESS" =>
          \A j \in Id : docs[j] # NoDoc /\ docs[j].uuid = uuid[r] => j \in old[r]
    /\ pc[r] \in Checking \cup Written /\ req[r].op = "delete" =>
          \A w \in rows : w.table = "aliases" /\ w.uuid = uuid[r] => w \in shared[session[r]]
    /\ pc[r] \in Checking /\ req[r].op = "delete" =>
          \A i \in old[r] : docs[i] # NoDoc /\ docs[i].uuid = uuid[r]
    /\ pc[r] \in Written => DOMAIN pending[session[r]] = old[r]

OldRows(r, table) == {w \in rows : w.table = table /\ w.mid \in old[r]}
NewAliases(r, as) == {AliasRow(r, uuid[r], req[r].id, a) : a \in as}
NewReferences(r, as) == {ReferenceRow(r, req[r].id, a) : a \in as}

(* The rows a call has deleted and inserted before each of its statements.  *)
RowsWrittenBy(r) ==
    LET s == session[r]
        aliases == Aliases(req[r].id)
        delete == req[r].op = "delete"
        Wrote(deleted, inserted) == gone[s] = deleted /\ fresh[s] = inserted
        nothing == Wrote({}, {})
        both == OldRows(r, "aliases") \cup OldRows(r, "references")
    IN  /\ pc[r] = "unalias" =>
              IF delete THEN Wrote(OldRows(r, "references"), {}) ELSE nothing
        /\ pc[r] = "alias" =>
              /\ list[r] \subseteq aliases
              /\ Wrote(OldRows(r, "aliases"), NewAliases(r, aliases \ list[r]))
        /\ pc[r] = "unref" =>
              IF delete THEN nothing ELSE Wrote(OldRows(r, "aliases"), NewAliases(r, aliases))
        /\ pc[r] = "ref" =>
              /\ list[r] \subseteq req[r].refs
              /\ Wrote(both, NewAliases(r, aliases) \cup NewReferences(r, req[r].refs \ list[r]))
        /\ pc[r] = "commit" =>
              Wrote(both, IF delete THEN {}
                          ELSE NewAliases(r, aliases) \cup NewReferences(r, req[r].refs))

WaitsFor(r) ==
    /\ doomed[r] # {} => pc[r] \in {"unalias", "unref"}
    /\ doomed[r] # {} /\ pc[r] = "unalias" => doomed[r] = OldRows(r, "aliases")
    /\ doomed[r] # {} /\ pc[r] = "unref" => doomed[r] = OldRows(r, "references")

(* A call that has not arrived asks for nothing.                            *)
IdleInv == \A r \in Request : pc[r] = "idle" => req[r] = NoCall

TableInv ==
    /\ \A i \in Id : RowsMatch(rows, docs[i], i)
    /\ \A w \in rows : w.by \in Request => pc[w.by] = "done"
    /\ \A s \in Session : shared[s] \cup locked[s] \subseteq rows
    /\ \A r \in Request : FoundOf(r) /\ RowsWrittenBy(r) /\ WaitsFor(r)

-----------------------------------------------------------------------------
(* References, with superclass identities that only one document can have,  *)
(* and DELETEs that check.                                                  *)

(* A call past its validation holds an alias for each of its references.    *)
ReferencesHeld(r) ==
    pc[r] \in {"write"} \cup Written /\ req[r].op # "delete" /\ req[r].validate =>
       \A a \in req[r].refs : \E w \in locked[session[r]] : w.table = "aliases" /\ w.alias = a

(* A DELETE past its check deletes nothing that a validated document refers *)
(* to.                                                                      *)
Unreferenced(r) ==
    /\ pc[r] = "referencing" =>
          \A i \in old[r] : Aliases(i) \subseteq list[r]
    /\ pc[r] \in {"write"} \cup Written /\ req[r].op = "delete" =>
          \A i \in old[r], j \in Id \ old[r] :
             docs[j] # NoDoc /\ docs[j].validated => docs[j].refs \cap Aliases(i) = {}

ReferenceInv ==
    /\ \A j \in Id : docs[j] # NoDoc /\ docs[j].validated => Resolves(docs, docs[j].refs)
    /\ \A r \in Request : ReferencesHeld(r) /\ Unreferenced(r)

-----------------------------------------------------------------------------
InductiveInv ==
    /\ TypeOK /\ SessionInv /\ LocksExclude
    /\ OneCallPerSession =>
          /\ IdentityInv /\ IdleInv
          /\ IdentitiesFixed /\ ~missed =>
                /\ TableInv
                /\ ValidatedDeletes /\ SuperDisjoint => ReferenceInv
=============================================================================
