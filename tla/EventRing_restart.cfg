\* A client whose number is from before a restart.
SPECIFICATION RingSpec
CONSTANTS
    Size = 3
    MaxSequence = 8
    MaxIncarnation = 2
INVARIANTS
    GapsAreExplicit
CHECK_DEADLOCK FALSE
