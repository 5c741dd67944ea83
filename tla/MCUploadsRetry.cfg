SPECIFICATION Spec
CONSTANTS
    Batches = {"b1"}
    File <- RetryFile
    Refs <- MCRefs
    NoRef = NoRef
    Collate <- MCCollate
    Actors = {"ann", "bob"}
    Outside = {}
    Pods = {p1}
    NoJob = NoJob
    Undefined = Undefined
    Clients = {"u1", "c1", "c2"}
    Ops <- SideOps
    ActorOf <- RaceActorOf
    ConfirmWhen <- Retried
    Mishaps <- SideMishaps
INVARIANTS
    LinesPostedOnce
