SPECIFICATION MCSpec
CONSTANTS
    a = a
    b = b
    Conns <- MCConns
    Threads <- MCThreads
    MayStall <- OnlyA
    MaxJoins <- MCJoins
    MaxMutexes = 3
INVARIANT TypeOK
INVARIANT OverlapOnlyAtTheEnd
INVARIANT BroadcastToMembers
PROPERTY HandlersReturn
CHECK_DEADLOCK FALSE
