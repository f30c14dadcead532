SPECIFICATION FairSpec
CONSTANTS
    Requests = {r1, r2}
    Clients = {c1, c2, c3}
    c1 = c1
    c2 = c2
    c3 = c3
    Inputs <- MCInputs
    InitialClients <- MCInitialClients
    Foreign <- MCForeign
    TokenLife = 1
    MaxTime = 1
    HardcodedEnabled = TRUE
    NoClient = NoClient
INVARIANTS TypeOK TokenAnswersAreCurrent IntrospectionIsCurrent BootstrapOnce
PROPERTIES OnlyAdministratorsWrite EveryRequestAnswered
