SPECIFICATION Spec
CONSTANTS
    Pages = {"p", "l"}
    StdPages = {"l"}
    MaxEdits = 0
    MaxTroubles = 1
    MaxOverlaps = 1
PROPERTY AllDeletesWereAsked
CHECK_DEADLOCK FALSE
