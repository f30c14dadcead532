---------------------------- MODULE DocumentStore ----------------------------
(***************************************************************************)
(* What a backend promises of its collection of documents, one atomic step *)
(* at a time and without saying how calls are made atomic.  A document has *)
(* a documentUuid for life; its createdAt is the timestamp of the request  *)
(* that created it.  Two promises depend on the backend: that versions are *)
(* ordered by lastModifiedAt ("can be used to total order inserts/updates",*)
(* TimestampRequestMiddleware.ts), and that a document cannot take over    *)
(* the identity of another.  Nothing is said of references.                *)
(***************************************************************************)
EXTENDS Integers

CONSTANTS
    Id, NoDoc,
    Ordered,     \* every version of a document is newer than the one before
    Exclusive    \* a document takes no identity that another one has

VARIABLES
    store,   \* the document stored under each MeadowlarkId, or NoDoc
    issued   \* the documentUuids that were ever given to a document

Present(i) == store[i] # NoDoc

StoredUuids == {store[i].uuid : i \in {j \in Id : Present(j)}}

OnlyChanged(is) == \A i \in Id \ is : store'[i] = store[i]

Init == issued = StoredUuids

(* A document is created under a documentUuid no document ever had.         *)
Create(i) ==
    /\ ~Present(i) /\ store'[i] # NoDoc
    /\ store'[i].uuid \notin issued
    /\ store'[i].createdAt = store'[i].lastModifiedAt
    /\ issued' = issued \cup {store'[i].uuid}
    /\ OnlyChanged({i})

(* j becomes the newer version of the document stored under i.              *)
Supersedes(i, j) ==
    /\ store'[j] # NoDoc
    /\ store'[j].uuid = store[i].uuid
    /\ store'[j].createdAt = store[i].createdAt
    /\ Ordered => store'[j].lastModifiedAt > store[i].lastModifiedAt

Replace(i) ==
    /\ Present(i)
    /\ Supersedes(i, i)
    /\ OnlyChanged({i})
    /\ UNCHANGED issued

(* The document takes another identity.  If a document had that identity it *)
(* is superseded too: the identity, not that document's uuid, survives.     *)
Rename(i, j) ==
    /\ i # j /\ Present(i) /\ store'[i] = NoDoc
    /\ Supersedes(i, j)
    /\ Exclusive => ~Present(j)
    /\ Present(j) /\ Ordered => store'[j].lastModifiedAt > store[j].lastModifiedAt
    /\ OnlyChanged({i, j})
    /\ UNCHANGED issued

Remove(i) ==
    /\ Present(i) /\ store'[i] = NoDoc
    /\ OnlyChanged({i})
    /\ UNCHANGED issued

Next ==
    \/ \E i \in Id : Create(i) \/ Replace(i) \/ Remove(i)
    \/ \E i, j \in Id : Rename(i, j)

Spec == Init /\ [][Next]_<<store, issued>>

(* A documentUuid names at most one document.                               *)
UuidUnique == \A i, j \in Id : Present(i) /\ Present(j) /\ store[i].uuid = store[j].uuid => i = j
=============================================================================
