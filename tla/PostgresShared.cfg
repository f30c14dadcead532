SPECIFICATION FairSpec
CONSTANTS
    Request = {r1, r2, r3}
    Session = {s1, s2}
    Overlap = 2
    Id = {session1, offering}
    SuperId = {edOrg}
    Super <- MCSuper
    Input <- WaitInput
    Seed <- OneSession
    NoDoc = NoDoc
    NoUuid = NoUuid
    school = school
    session1 = session1
    session2 = session2
    offering = offering
    edOrg = edOrg
PROPERTIES EveryCallAnswered
