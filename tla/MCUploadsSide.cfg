SPECIFICATION Spec
CONSTANTS
    Batches = {"b1"}
    File <- SideFile
    Refs <- MCRefs
    NoRef = NoRef
    Collate <- MCCollate
    Actors = {"ann", "bob"}
    Outside = {"r3"}
    Pods = {p1, p2}
    NoJob = NoJob
    Undefined = Undefined
    Clients = {"u1", "c1", "c2"}
    Ops <- SideOps
    ActorOf <- SideActorOf
    ConfirmWhen <- Offered
    Mishaps <- SideMishaps
INVARIANTS
    ImportedMeansPosted
PROPERTIES
    ImplementsLedger
