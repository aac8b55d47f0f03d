\* A question read in one turn and registered in the next.
SPECIFICATION AskSpec
CONSTANTS
    Requests = {r1}
    Contents = {k1}
    Commands = {c1, c2}
    NoCommand = NoCommand
    NoContent = NoContent
    MaxPending = 1
INVARIANT
    OriginIsCause
CHECK_DEADLOCK FALSE
