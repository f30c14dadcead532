-------------------------- MODULE MCPostgresStore --------------------------
(* Instances of PostgresStore for TLC: a Session, the identity it may       *)
(* change to, a School that is an EducationOrganization too, and a Course-  *)
(* Offering that refers to one of them.                                     *)
EXTENDS PostgresStoreInv, TLC

CONSTANTS school, session1, session2, offering, edOrg

MCSuper == [i \in Id |-> IF i = school THEN {edOrg} ELSE {}]

Post(i, refs, ts) == [op |-> "upsert", id |-> i, refs |-> refs, validate |-> TRUE,
                      allow |-> FALSE, ts |-> ts]
Put(i, refs, allow, ts) == [op |-> "update", id |-> i, refs |-> refs, validate |-> TRUE,
                            allow |-> allow, ts |-> ts]
Delete == [op |-> "delete", id |-> offering, refs |-> {}, validate |-> TRUE,
           allow |-> FALSE, ts |-> 0]
Unvalidated(q) == [q EXCEPT !.validate = FALSE]

Stored(i, refs) == [uuid |-> i, refs |-> refs, validated |-> TRUE,
                    createdAt |-> 1, lastModifiedAt |-> 1]
Holding(S) == [i \in Id |-> IF i \in S THEN Stored(i, {}) ELSE NoDoc]

OneSession == {Holding({session1})}
OneSchool == {Holding({school})}

OneSchoolAndSession == OneSession \cup OneSchool

(* Writers of one Session, stale, renaming, self-referring and unvalidated  *)
(* ones, and a CourseOffering that comes to refer to a School under its     *)
(* superclass identity while either is rewritten and deleted.               *)
StoreInput ==
    {Put(session1, {session1, session2}, FALSE, 3), Put(session2, {session1}, TRUE, 2),
     Unvalidated(Put(session1, {session2}, TRUE, 3)), Unvalidated(Delete), Delete,
     Post(school, {edOrg}, 2), Post(offering, {edOrg}, 2)}

WaitInput == {Post(session1, {}, 2), Delete}

Symmetry == Permutations(Request) \cup Permutations(Session)
=============================================================================
