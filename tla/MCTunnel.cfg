SPECIFICATION FairSpec
CONSTANTS
    u1 = u1
    u2 = u2
    handler = handler
    main = main
    None = None
    URLs <- MCURLs
    Closers <- MCClosers
    MaxBackoff = 6
INVARIANT TypeOK
INVARIANT NoLostURL
INVARIANT CleanExitForgets
 
PROPERTY KeepsLaunching
CHECK_DEADLOCK FALSE
