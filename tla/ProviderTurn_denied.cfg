\* A start that is answered with an error although its turn began.
SPECIFICATION TurnSpec
CONSTANTS
    Prompts = {p1}
    Turns = {t1}
    NoPrompt = NoPrompt
    NoTurn = NoTurn
    Capacity = 2
INVARIANTS
    FailedPromptsRunNothing
CHECK_DEADLOCK FALSE
