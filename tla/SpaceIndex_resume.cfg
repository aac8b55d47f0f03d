SPECIFICATION Spec
CONSTANTS
    Files = {"p"}
    BatchSize = 2
    MaxRetries = 1
    MaxEdits = 0
    MaxTroubles = 1
PROPERTIES
    InterruptedReindexResumes
CHECK_DEADLOCK FALSE
