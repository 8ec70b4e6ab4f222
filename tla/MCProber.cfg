SPECIFICATION Spec
CONSTANTS
    c1 = c1
    c2 = c2
    o1 = o1
    o2 = o2
    Cameras <- TwoCameras
    Operators <- MCOperators
    Confirmations = 2
    None = none
    MaxSteps = 5
PROPERTIES
    ChangesAreSampled
    StatusSettles
