SPECIFICATION Spec
CONSTANTS
    Batches = {"b1"}
    File <- RaceFile
    Refs <- MCRefs
    NoRef = NoRef
    Collate <- MCCollate
    Actors = {"ann", "bob"}
    Outside = {"r3"}
    Pods = {p1}
    NoJob = NoJob
    Undefined = Undefined
    Clients = {"u1", "c1", "c2"}
    Ops <- RaceOps
    ActorOf <- RaceActorOf
    ConfirmWhen <- AnyStatus
    Mishaps <- RaceMishaps
INVARIANTS
    TypeOK
    NoOrphans
    PostedWasConfirmed
    ValidatedIsComplete
