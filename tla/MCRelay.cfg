SPECIFICATION FairSpec
CONSTANTS
    c1 = c1
    r1 = r1
    r2 = r2
    Cameras <- MCCameras
    Playable = {}
    Procs <- MCProcs
    Requests <- MCRequests
    Reaper = reaper
    Main = main
    IdleTimeout = 0
    MaxPass = 0
    NoProc = noproc
    NoPath = nopath
INVARIANTS
    PullsAccounted
    StoppedByOne
    NothingServedAfterExit
PROPERTY
    PullsEnd
