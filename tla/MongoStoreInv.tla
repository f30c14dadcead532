---------------------------- MODULE MongoStoreInv ----------------------------
(* The inductive invariant behind the safety properties of MongoStore: why  *)
(* the rows of the concurrency collection work as locks, and why a document *)
(* that was locked as a reference is still there when the reference to it   *)
(* is committed, and afterwards.                                            *)
EXTENDS MongoStore

Locked == {"write", "relookup", "relock", "rewrite", "commit"}
Reinserting == {"relookup", "relock", "rewrite"}

(* No row, and no document, is written by two open transactions, nor by one *)
(* and by another that was committed after its snapshot.                    *)
LocksExclude ==
    /\ \A r, s \in Request : r # s => /\ locks[r] \cap locks[s] = {}
                                      /\ wrote[r] \cap wrote[s] = {}
    /\ \A r \in Request : /\ locks[r] \cap overtakenLocks[r] = {}
                          /\ wrote[r] \cap overtakenDocs[r] = {}

(* What a transaction holds at each point of its call.                      *)
HeldAt(r) ==
    /\ ~Opened(r) => overtakenDocs[r] = {} /\ overtakenLocks[r] = {}
    /\ pc[r] \notin Locked => locks[r] = {} /\ wrote[r] = {}
    /\ pc[r] = "write" => wrote[r] = {}
    /\ pc[r] \in {"idle", "begin", "done"} => draft[r] = NoDraft

(* Away from what it wrote and what overtook it, a transaction sees what is *)
(* committed; a version that overtook it came with its lock row.            *)
SnapshotCurrent(r) ==
    Opened(r) =>
       /\ \A i \in Id \ (wrote[r] \cup overtakenDocs[r]) : view[r][i] = docs[i]
       /\ \A i \in overtakenDocs[r] : docs[i] # NoDoc => docs[i].uuid \in overtakenLocks[r]

(* The documentUuid a call pushes on the list of rows is that of the        *)
(* document it will overwrite, and its locks cover what it writes.          *)
PlanOf(r) ==
    /\ pc[r] \in {"lookup", "lock", "write"} =>
          /\ req[r].op = "upsert" => /\ own[r] = draft[r].uuid
                                     /\ view[r][req[r].id] # NoDoc
                                           => own[r] = view[r][req[r].id].uuid
          /\ req[r].op = "update" => own[r] = target[r] /\ draft[r].uuid = target[r]
          /\ req[r].op = "delete" => own[r] = target[r] /\ draft[r] = NoDraft
    /\ pc[r] \in {"write", "rewrite"} => own[r] \in locks[r]
    /\ pc[r] \in Reinserting =>
          /\ req[r].op = "update"
          /\ draft[r].uuid = target[r] /\ target[r] \in locks[r]
          /\ view[r][req[r].id] # NoDoc => own[r] = view[r][req[r].id].uuid
    /\ pc[r] = "lookup" => /\ req[r].op # "delete"
                           /\ draft[r].validated = req[r].validate
    /\ draft[r].guarded => req[r].validate /\ req[r].op # "delete"

WritesLocked(r) ==
    \A i \in wrote[r] :
       /\ docs[i] # NoDoc => docs[i].uuid \in locks[r]
       /\ view[r][i] # NoDoc => /\ view[r][i].uuid \in locks[r]
                                /\ view[r][i].refs = draft[r].refs
                                /\ view[r][i].guarded = draft[r].guarded
       /\ view[r][i] = NoDoc => /\ req[r].op # "upsert"
                                /\ docs[i] # NoDoc => docs[i].uuid = target[r]

TransactionInv(r) == HeldAt(r) /\ SnapshotCurrent(r) /\ PlanOf(r) /\ WritesLocked(r)

LockInv == LocksExclude /\ \A r \in Request : TransactionInv(r)

-----------------------------------------------------------------------------
(* The transaction of s will delete the document stored under i, or may: it *)
(* is open, no later version overtook it, and it sees no reference to i.    *)
Removing(s, i) ==
    \/ /\ Opened(s) /\ pc[s] \in {"lookup", "lock", "write"}
       /\ req[s].op \in {"update", "delete"}
       /\ target[s] = docs[i].uuid
       /\ target[s] \notin overtakenLocks[s]
       /\ ~Referenced(view[s], i)
    \/ i \in wrote[s] /\ view[s][i] = NoDoc

(* A document under the alias a that no open transaction can delete.        *)
Kept(a, i) ==
    /\ docs[i] # NoDoc /\ a \in Aliases(i)
    /\ \A s \in Request : ~Removing(s, i)

CommittedReferencesKept ==
    \A j \in Id : docs[j] # NoDoc /\ docs[j].guarded =>
       \A a \in docs[j].refs : \E i \in Id : Kept(a, i)

(* Between the lookup and the lock a document found may go, but not unseen; *)
(* once locked it stays.                                                    *)
FoundOrOvertaken(r, a) ==
    \/ found[r] \cap overtakenLocks[r] # {}
    \/ \E i \in Id : docs[i] # NoDoc /\ a \in Aliases(i) /\ docs[i].uuid \in found[r]

HeldReference(r, a) ==
    \E i \in Id : /\ docs[i] # NoDoc /\ a \in Aliases(i)
                  /\ docs[i].uuid \in locks[r]
                  /\ req[r].op = "update" => docs[i].uuid # target[r]

PlannedReferencesHeld(r) ==
    draft[r].guarded => \A a \in draft[r].refs :
       /\ pc[r] = "lock" => FoundOrOvertaken(r, a)
       /\ pc[r] \in Locked => HeldReference(r, a)

(* A DELETE past its check sees no reference to the document it names.      *)
DeleteChecked(r) ==
    req[r].op = "delete" /\ req[r].validate /\ pc[r] \in {"lock", "write"} =>
       \A i \in Id : view[r][i] # NoDoc /\ view[r][i].uuid = target[r]
                        => ~Referenced(view[r], i)

ReferenceInv ==
    /\ CommittedReferencesKept
    /\ \A r \in Request : PlannedReferencesHeld(r) /\ DeleteChecked(r)

-----------------------------------------------------------------------------
(* d is a later version of the document e.                                  *)
NewerVersion(d, e) ==
    /\ d.uuid = e.uuid /\ d.createdAt = e.createdAt
    /\ d.lastModifiedAt > e.lastModifiedAt

(* A documentUuid that an attempt generates is given to nobody until that   *)
(* attempt is committed, and a call does not outlive its last attempt.      *)
Generated(r) ==
    /\ \A n \in 0 .. MaxAttempt : <<r, n>> \in issued =>
          n <= attempt[r] /\ (n = attempt[r] => pc[r] = "done")
    /\ target[r] \in issued \cup {NoUuid}
    /\ pc[r] = "idle" => applied[r] = 0 /\ attempt[r] = 0

(* The draft of a POST is a new document, or a new version of the one that  *)
(* the transaction sees; that of a PUT is the new version of some document. *)
DraftOf(r) ==
    /\ pc[r] \in {"lookup", "lock", "write"} /\ req[r].op # "delete" =>
          draft[r].lastModifiedAt = req[r].ts
    /\ pc[r] \in {"lookup", "lock", "write"} /\ req[r].op = "upsert" =>
          LET existing == view[r][req[r].id]
          IN  /\ existing = NoDoc => /\ draft[r].uuid = <<r, attempt[r]>>
                                     /\ draft[r].createdAt = req[r].ts
              /\ existing # NoDoc => NewerVersion(draft[r], existing)

(* A PUT that changes the identity has deleted the version it replaces.     *)
ReinsertOf(r) ==
    pc[r] \in Reinserting =>
       /\ draft[r].lastModifiedAt = req[r].ts
       /\ view[r][req[r].id] # NoDoc => view[r][req[r].id].lastModifiedAt < req[r].ts
       /\ \E old \in Id \ {req[r].id} :
             /\ wrote[r] = {old} /\ docs[old] # NoDoc /\ view[r][old] = NoDoc
             /\ NewerVersion(draft[r], docs[old])

(* What the commit of a transaction will do, by the answer it will give.    *)
Inserts(r) ==
    LET i == req[r].id
    IN  /\ result[r] = "INSERT_SUCCESS" /\ req[r].op = "upsert"
        /\ wrote[r] = {i} /\ docs[i] = NoDoc
        /\ view[r][i] = draft[r] /\ draft[r] # NoDoc
        /\ draft[r].uuid = <<r, attempt[r]>>
        /\ draft[r].createdAt = draft[r].lastModifiedAt

Overwrites(r) ==
    LET i == req[r].id
    IN  /\ result[r] = "UPDATE_SUCCESS" /\ req[r].op = "upsert"
        /\ wrote[r] = {i} /\ docs[i] # NoDoc
        /\ view[r][i] = draft[r] /\ draft[r] # NoDoc
        /\ NewerVersion(draft[r], docs[i])

Updates(r) ==
    LET i == req[r].id
    IN  /\ result[r] = "UPDATE_SUCCESS" /\ req[r].op = "update"
        /\ view[r][i] # NoDoc /\ view[r][i].uuid = target[r]
        /\ view[r][i].lastModifiedAt = req[r].ts
        /\ \E old \in Id :
              /\ wrote[r] = {old, i} /\ docs[old] # NoDoc
              /\ NewerVersion(view[r][i], docs[old])
              /\ old # i => /\ view[r][old] = NoDoc
                            /\ docs[i] # NoDoc => docs[i].lastModifiedAt < req[r].ts

Deletes(r) ==
    /\ result[r] = "DELETE_SUCCESS" /\ req[r].op = "delete"
    /\ \E i \in Id : /\ wrote[r] = {i} /\ view[r][i] = NoDoc
                     /\ docs[i] # NoDoc /\ docs[i].uuid = target[r]

EffectOf(r) ==
    pc[r] = "commit" => Inserts(r) \/ Overwrites(r) \/ Updates(r) \/ Deletes(r)

(* No version of the document a PUT or DELETE names is one it could change. *)
NothingLeftToDo(r, store) ==
    \A i \in Id : store[i] # NoDoc /\ store[i].uuid = target[r] =>
       req[r].op = "update" /\ store[i].lastModifiedAt >= req[r].ts

(* A PUT or DELETE that was applied, and is tried again because the answer  *)
(* to its commit was lost, will be refused.                                 *)
AppliedOf(r) ==
    req[r].op # "upsert" /\ applied[r] # 0 =>
       /\ applied[r] = 1
       /\ pc[r] \notin Reinserting \cup {"commit"}
       /\ NothingLeftToDo(r, docs)
       /\ Opened(r) => NothingLeftToDo(r, view[r])

CallInv(r) == Generated(r) /\ DraftOf(r) /\ ReinsertOf(r) /\ EffectOf(r) /\ AppliedOf(r)

IdentityInv ==
    /\ UuidUnique
    /\ UuidsIn(docs) \subseteq issued
    /\ \A r \in Request : CallInv(r)

-----------------------------------------------------------------------------
(* The invariant that makes the locks of the concurrency collection enough, *)
(* and the documentUuid a name for life.                                    *)
InductiveInv == TypeOK /\ LockInv /\ IdentityInv /\ (ValidatedDeletes => ReferenceInv)
=============================================================================
