SPECIFICATION Spec
CONSTANTS
    Request = {r1, r2, r3}
    Session = {s1, s2, s3}
    Overlap = 1
    Id = {school, session1, session2, offering}
    SuperId = {edOrg}
    Super <- MCSuper
    Input <- StoreInput
    Seed <- OneSchoolAndSession
    NoDoc = NoDoc
    NoUuid = NoUuid
    school = school
    session1 = session1
    session2 = session2
    offering = offering
    edOrg = edOrg
SYMMETRY Symmetry
INVARIANTS TypeOK ValidatedReferencesResolve TablesAgree LeftOpenHoldsNothing
PROPERTIES AnswerTellsWhatHappened ImplementsDocumentStore
