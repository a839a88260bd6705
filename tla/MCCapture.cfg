SPECIFICATION MCSpec
CONSTANTS
    Values <- MCValues
    MaxFailures = 3
    MaxPending = 3
INVARIANTS
    CaptureTypeOK
    NoOverlap
    OnlyLaunchesMiss
    KeyframesStandAlone
    OnlyRacesLeaveAudio
    OnlyRacesLeaveVideo
PROPERTIES
    StopEndsCapture
    KeepsCapturing
    AudioGoesOn
CHECK_DEADLOCK FALSE
