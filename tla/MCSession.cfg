SPECIFICATION MCSpec
CONSTANTS
    MaxSessions = 2
    MaxReconnects = 2
    MaxRestarts = 1
    MaxRetries = 2
INVARIANTS
    TypeOK
    OneConnectionInTab
    OnlyRacesLeak
PROPERTIES
    EvictedClientLearns
    GhostsLeave
    StreamSettles
CHECK_DEADLOCK FALSE
