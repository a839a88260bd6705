SPECIFICATION MCSpec
CONSTANTS
    a = a
    b = b
    Conns <- MCConns
    Threads <- Readers
    MayStall <- MCConns
    MaxJoins <- MCJoins
    MaxMutexes = 3
PROPERTY SilentClientDropped
CHECK_DEADLOCK FALSE
