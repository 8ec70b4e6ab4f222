SPECIFICATION Spec
CONSTANTS
    v1 = v1
    v2 = v2
    Vehicles <- MCVehicles
    NoTrack = notrack
    None = none
    Readings <- MCReadings
    Regression = 0
    Jump = 1
    ProbeFrames = 2
    Healthy = 1
    LastExponent = 0
    BusyGap = 1
    IdleGap = 2
    Hold = 1
    MaxGap = 3
    IdleTimeout = 1
    MaxDuration = 1
    MaxNow = 2
    MaxMedia = 4
INVARIANTS
    NeverBlind
    SeenInThePast
    ReadsForever
