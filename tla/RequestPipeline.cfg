SPECIFICATION FairSpec
CONSTANTS
    Requests = {1, 2}
    Inputs <- MCInputs
    Id = {session, session2, term, sex}
    NoDoc = NoDoc
    Resource = {Session, School, Descriptor}
    ResourceOf <- MCResourceOf
    Descriptors = {Descriptor}
    Renamable = {Session}
    LoadedDescriptors <- MCLoaded
    Backends = {"MongoDB", "PostgreSQL"}
    InitialStores <- MCInitialStores
    Clients = {vendor, host}
    Loader = Loader
    Seed = Seed
    Nothing = Nothing
    NoUuid = NoUuid
    LoadedParts <- MCLoadedParts
    Refusals = {401}
    MaxUuid = 4
    MaxCrashes = 1
    session = session
    session2 = session2
    term = term
    sex = sex
    Session = Session
    School = School
    Descriptor = Descriptor
    vendor = vendor
    host = host
INVARIANTS    OwnersAct
    
PROPERTIES EveryRequestAnswered ImplementsDocumentIndex
