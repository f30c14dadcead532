SPECIFICATION Spec
CONSTANTS
    Request = {r1, r2, r3}
    Id = {school, lea, session, session2, offering}
    SuperId = {edOrg}
    Super <- MCSuper
    Input <- ReferenceInput
    Seed <- SchoolAndSession
    MaxAttempt = 1
    NoDoc = NoDoc
    NoUuid = NoUuid
    school = school
    lea = lea
    session = session
    session2 = session2
    offering = offering
    edOrg = edOrg
SYMMETRY Symmetry
INVARIANTS TypeOK InductiveInv GuardedReferencesResolve UuidUnique
