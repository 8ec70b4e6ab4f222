SPECIFICATION Spec
CONSTANTS
    c1 = c1
    c2 = c2
    r1 = r1
    r2 = r2
    Cameras <- MCCameras
    Main = main
    Reads <- MCReads
    CameraOf <- MCCameraOf
    BatchSize = 2
    NoRead = none
INVARIANT LossStaysReported
