SPECIFICATION Spec
CONSTANTS
    Menu = {"reports", "investments", "wealth-managers", "uploads", "users", "settings"}
    MaxClicks = 3
    MaxErrors = 1
    None = None
    Users = {"admin", "clerk"}
    Permits <- MCPermits
    ActorTypes <- MCActorTypes
    Starts <- MCStarts
INVARIANTS TypeOK ShownIsAsked ReadAfterWrite QuietIdentity
PROPERTY Settles
CHECK_DEADLOCK FALSE
