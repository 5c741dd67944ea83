SPECIFICATION FairSpec
CONSTANTS
    Batches = {"b1"}
    File <- RecoveryFile
    Refs <- MCRefs
    NoRef = NoRef
    Collate <- MCCollate
    Actors = {"ann", "bob"}
    Outside = {}
    Pods = {p1, p2}
    NoJob = NoJob
    Undefined = Undefined
    Clients = {"u1", "c1"}
    Ops <- SideOps
    ActorOf <- SideActorOf
    ConfirmWhen <- Offered
    Mishaps <- RecoveryMishaps
PROPERTIES
    ConfirmedGetsPosted
    NothingStuck
