SPECIFICATION MCSpec
CONSTANTS
    c1 = c1
    c2 = c2
    keyboard = keyboard
    ch1 = ch1
    ch2 = ch2
    Conns <- MCConns
    Devices <- MCDevices
    Channels <- MCChannels
    Requests = {}
    MaxPeers = 2
    Rejoin = FALSE
    LastPlayer = 2
    NumPads = 2
    QualityMin = 1
    QualityMax = 1
    DefaultQuality = 1
    Flags = {1}
    Gamepads = {0}
    InputAvailable = TRUE
    Unmakeable = {1}
    MaxSent = 1
    MaxReplies = 2
INVARIANTS
    InputTypeOK
    TabsOwnTheirPads
    OnlyDoubleClaimsStrand
    OnlyCrossedNewsMisleads
    InjectionsDeclared
    KeysReachTheHost
PROPERTY LostRightsEnd
SYMMETRY Symmetry
CHECK_DEADLOCK FALSE
