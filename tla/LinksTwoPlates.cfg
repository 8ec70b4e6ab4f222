SPECIFICATION Spec
CONSTANTS
    p = p
    q = q
    w1 = w1
    w2 = w2
    Sightings <- MCSightings
    Plates <- MCPlates
    Looks <- MCLooks
    Scenes <- MCScenes
    MaxDistance = 1
    Margin = 1
    Window = 3
    Fetch = 2
    Linkers <- MCLinkers
    Place <- MCPlace
    Unplaced = unplaced
    RevisitWindow = 1
    Limit = 1
    Roads <- MCRoads
    Trails <- MCTrails
    Kept = kept
    None = none
SYMMETRY Linkable
INVARIANTS
    OnePlatePerVehicle
    PlateDecides
