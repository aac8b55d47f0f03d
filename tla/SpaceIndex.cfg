SPECIFICATION Spec
CONSTANTS
    Files = {"p"}
    BatchSize = 2
    MaxRetries = 1
    MaxEdits = 1
    MaxTroubles = 1
INVARIANTS
    SeenIsQueued
PROPERTIES
    CompleteMeansIndexed
    IndexedInTheEnd
    NoGhosts
CHECK_DEADLOCK FALSE
