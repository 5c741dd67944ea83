SPECIFICATION Spec
CONSTANTS
    Users = {"u1", "u2"}
    Roles = {"super", "r1", "r2", "r3"}
    SuperRole = "super"
    SystemRoles = {"super"}
    Lists = {"tenor_bands", "source_channels"}
    Keys <- MCKeys
    Unacceptable = {"bad"}
    Clients <- MCClients
    Scenarios <- MCScenarios
    FirstUsers <- MCFirstUsers
    FirstRows <- MCFirstRows
    FirstTokens <- MCFirstTokens
    MaxCrashes = 1
INVARIANTS TypeOK OneLiveLink QuietWriteStays RowsAsked QuietReplaceIsExact
PROPERTY DeletedIsFinal
CHECK_DEADLOCK FALSE
