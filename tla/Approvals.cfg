\* Two questions for one slot, two contents, two commands.
SPECIFICATION FairAskSpec
CONSTANTS
    Requests = {r1, r2}
    Contents = {k1, k2}
    Commands = {c1, c2}
    NoCommand = NoCommand
    NoContent = NoContent
    MaxPending = 1
INVARIANTS
    DecisionsAreSound
PROPERTIES
    RequestsEnd
CHECK_DEADLOCK FALSE
