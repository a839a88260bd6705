SPECIFICATION MCSpec
CONSTANTS
    MaxSessions = 1
    MaxReconnects = 1
    MaxRestarts = 1
    MaxRetries = 1
PROPERTIES
    ReconnectKeepsPeer
CHECK_DEADLOCK FALSE
