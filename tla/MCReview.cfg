SPECIFICATION Spec
CONSTANTS
    l1 = l1
    l2 = l2
    a1 = a1
    a2 = a2
    Crops <- MCCrops
    Withheld <- MCWithheld
    Labellers <- MCLabellers
    Sheets = sheets
    Answers <- MCAnswers
    Known <- MCKnown
    RecheckEvery = 2
    MaxCrashes = 1
    MaxExtra = 1
    Skip = skip
    Disputed = disputed
    None = none
INVARIANTS
    LabelsKept
PROPERTIES
    DisputesStand
    QueueDrains
