SPECIFICATION MCSpec
CONSTANTS
    c1 = c1
    c2 = c2
    keyboard = keyboard
    Conns <- MCConns
    Devices <- MCDevices
    Requests <- MCRequests
    MaxPeers = 3
    Rejoin = TRUE
    LastPlayer = 2
    NumPads = 2
    QualityMin = 1
    QualityMax = 2
    DefaultQuality = 1
    Flags <- MCFlags
INVARIANT TypeOK
INVARIANT HostInv
INVARIANT SlotsUnique
INVARIANT PadAgreement
INVARIANT PadOwnersPlay
INVARIANT SettingsApply
PROPERTY PadsStayWithOwner
PROPERTY OnlyHostsDecide
PROPERTY ImplementsLease
SYMMETRY ConnSymmetry
VIEW LiveFields
CHECK_DEADLOCK FALSE
