SPECIFICATION Spec
CONSTANTS
    Pages = {"p", "l"}
    StdPages = {"l"}
    MaxEdits = 2
    MaxTroubles = 1
    MaxOverlaps = 1
INVARIANTS
    SnapshotIsHonest
PROPERTIES
    EditsSurvive
    DeletesWereAsked
    DeletionsStick
    Converges
CHECK_DEADLOCK FALSE
