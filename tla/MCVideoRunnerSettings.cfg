SPECIFICATION Spec
CONSTANTS
    Values <- MCValues
    MaxFailures = 3
CHECK_DEADLOCK FALSE
INVARIANT SettingsInForce
