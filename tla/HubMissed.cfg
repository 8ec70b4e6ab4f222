SPECIFICATION Spec
CONSTANTS
    a1 = a1
    a2 = a2
    a3 = a3
    s1 = s1
    s2 = s2
    Alerts <- MCAlerts
    Sockets <- MCSockets
    Limit = 2
    None = none
INVARIANTS
    PumpOutlivesBlips
    NothingMissed
    NothingCut
PROPERTY
    NothingPassed
