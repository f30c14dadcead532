---------------------------- MODULE MCMongoStore ----------------------------
(* Instances of MongoStore for TLC.  A School and a LocalEducationAgency    *)
(* share an EducationOrganization identity; a Session may change between    *)
(* two identities; a CourseOffering refers to the Session and to the School *)
(* under its superclass identity.                                           *)
EXTENDS MongoStoreInv, TLC

CONSTANTS school, lea, session, session2, offering, edOrg

MCSuper == [i \in Id |-> IF i \in {school, lea} THEN {edOrg} ELSE {}]

Post(i, refs, ts) == [op |-> "upsert", id |-> i, refs |-> refs, validate |-> TRUE,
                      allow |-> FALSE, ts |-> ts]
Put(i, refs, allow, ts) == [op |-> "update", id |-> i, refs |-> refs, validate |-> TRUE,
                            allow |-> allow, ts |-> ts]
Delete == [op |-> "delete", id |-> session, refs |-> {}, validate |-> TRUE,
           allow |-> FALSE, ts |-> 0]
Unvalidated(q) == [q EXCEPT !.validate = FALSE]

Stored(i, refs) == [uuid |-> <<i, 0>>, refs |-> refs, validated |-> TRUE,
                    createdAt |-> 1, lastModifiedAt |-> 1, guarded |-> TRUE]
Holding(S) == [i \in Id |-> IF i \in S THEN Stored(i, {}) ELSE NoDoc]

SchoolAndSession == {Holding({school, session})}
OneOrTwoSessions == {Holding({session}), Holding({session, session2})}

(* A CourseOffering that comes to refer to the Session and the School while *)
(* the Session is rewritten, renamed and deleted.                           *)
ReferenceInput ==
    {Post(offering, {session, edOrg}, 2), Put(offering, {session}, FALSE, 3),
     Post(session, {}, 2), Put(session2, {}, TRUE, 3), Delete}

(* Writers of one Session, stale ones among them, that rename it to and fro,*)
(* make it refer to itself, skip validation, or delete it.                  *)
SessionInput ==
    {Post(session, {}, 2), Unvalidated(Post(session2, {school}, 3)),
     Put(session, {}, FALSE, 1), Put(session2, {}, TRUE, 2),
     Unvalidated(Put(session, {session}, TRUE, 3)), Unvalidated(Delete)}

Symmetry == Permutations(Request)
=============================================================================
