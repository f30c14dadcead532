------------------------- MODULE MCRequestPipeline -------------------------
(* Instances of RequestPipeline for TLC: two Sessions, one of which may     *)
(* take the identity of the other, and two descriptors.                     *)
EXTENDS RequestPipeline, TLC

CONSTANTS session, session2, term, sex, Session, School, Descriptor,
          vendor, host

ResourceOfId == [i \in Id |-> CASE i \in {session, session2} -> Session
                                [] OTHER -> Descriptor]
MCResourceOf == ResourceOfId

Ask(op, resource, i, client, ownership, failing) ==
    [op |-> op, resource |-> resource, id |-> i, client |-> client, ownership |-> ownership, bad |-> failing]

Changes ==
    {Ask("upsert", Session, session, vendor, TRUE, {}),
     Ask("update", Session, session, vendor, TRUE, {"id"}),
     Ask("deleteById", School, session, host, FALSE, {}),
     Ask("update", Session, session, host, FALSE, {}),
     Ask("update", Session, session2, host, FALSE, {}),
     Ask("update", Descriptor, term, vendor, TRUE, {}),
     Ask("loadDescriptors", Descriptor, term, host, FALSE, {})}

Others ==
    {Ask("upsert", Session, session, vendor, TRUE, {}),
     Ask("deleteById", Session, session, vendor, TRUE, {}),
     Ask("getById", Session, session, vendor, TRUE, {}),
     Ask("query", Session, session, vendor, TRUE, {}),
     Ask("query", Descriptor, term, vendor, TRUE, {}),
     Ask("upsert", Session, session, vendor, TRUE, {"equality", "document"}),
     Ask("query", Session, session, host, FALSE, {"path"})}

(* A change, and another change or a read beside it or after it.            *)
ChangesAndOthers == <<Changes, Others>>
MCInputs == ChangesAndOthers

Stored(u, owner) == [uuid |-> u, createdBy |-> owner, writer |-> owner, lastModifiedAt |-> 1, by |-> Seed]
Holding(documents) == [i \in Id |-> IF i \in DOMAIN documents THEN documents[i] ELSE NoDoc]

(* The store's plugin fails, the query handler's, or none.                  *)
MCLoadedParts == {0, 1, 3}

MCLoaded == <<term, sex>>

MCInitialStores ==
    {Holding([i \in {} |-> NoDoc]),
     Holding(session :> Stored(1, vendor) @@ term :> Stored(2, Loader))}
=============================================================================
