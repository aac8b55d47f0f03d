SPECIFICATION Spec
CONSTANTS
    Pages = {"p"}
    StdPages = {}
    MaxEdits = 2
    MaxTroubles = 0
    MaxOverlaps = 0
PROPERTY ConflictKeepsBoth
CHECK_DEADLOCK FALSE
