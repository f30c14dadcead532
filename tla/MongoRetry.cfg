SPECIFICATION FairSpec
CONSTANTS
    Request = {r1, r2}
    Id = {school, lea, session, session2, offering}
    SuperId = {edOrg}
    Super <- MCSuper
    Input <- SessionInput
    Seed <- OneOrTwoSessions
    MaxAttempt = 2
    NoDoc = NoDoc
    NoUuid = NoUuid
    school = school
    lea = lea
    session = session
    session2 = session2
    offering = offering
    edOrg = edOrg
INVARIANTS AppliedAtMostOnce
PROPERTIES AnswerTellsWhatHappened ImplementsDocumentStore EveryCallAnswered
