SPECIFICATION Spec
CONSTANTS
    c1 = c1
    c2 = c2
    r1 = r1
    r2 = r2
    Cameras <- MCCameras
    Requests <- MCRequests
    Boosts <- MCBoosts
    MaxCameras = 1
    None = none
INVARIANTS
    CapKept
    OutcomeIsTrue
PROPERTY
    ReaderReturns
