\* A buffer of three events, eight events in each of two incarnations.
SPECIFICATION RingSpec
CONSTANTS
    Size = 3
    MaxSequence = 8
    MaxIncarnation = 2
INVARIANTS
    PollingIsHonest
CHECK_DEADLOCK FALSE
