SPECIFICATION Spec
CONSTANTS
    u1 = u1
    u2 = u2
    handler = handler
    main = main
    None = None
    URLs <- MCURLs
    Closers <- MCClosers
    MaxBackoff = 6
CHECK_DEADLOCK FALSE
INVARIANT URLIsCurrent
