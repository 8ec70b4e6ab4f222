SPECIFICATION Spec
CONSTANTS
    c1 = c1
    c2 = c2
    doctr = doctr
    Cameras <- MCCameras
    BudgetSize = 1
    DefaultOcr = tesseract
    Boosts <- MCBoosts
    Hub = hub
    NoReader = none
SYMMETRY Symmetry
INVARIANTS
    BudgetExact
    HeavyIsPaidFor
    BoostFollowsOperator
PROPERTY
    HubNeverReplacesLearned
