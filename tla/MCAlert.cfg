SPECIFICATION Spec
CONSTANTS
    t1 = t1
    t2 = t2
    e1 = e1
    e2 = e2
    near = near
    far = far
    p1 = p1
    p2 = p2
    q = q
    look = look
    Threads <- MCThreads
    Reads <- MCReads
    Entries <- MCEntries
    Entry <- MCEntry
    ByPlate <- MCByPlate
    Site <- MCSite
    PlateWindow = 1
    LookWindow = 2
    Corroborates = 1
    MaxTime = 1
    MaxFaults = 1
    Derived <- MCDerived
    Raws <- MCRaws
    Plates <- MCPlates
    Tracks <- MCTracks
    Never = never
    NoRow = none
SYMMETRY Symmetry
CHECK_DEADLOCK FALSE
INVARIANTS
    AlertsPointAtSightings
    LooksRestOnPlates
    SuppressedByAnAlert
    WantedReadsAnswered
