\* An agent that may stop reading, and time limits.
SPECIFICATION LimitSpec
CONSTANTS
    Prompts = {p1, p2}
    Turns = {t1, t2}
    NoPrompt = NoPrompt
    NoTurn = NoTurn
    Capacity = 3
PROPERTIES
    CallsAreBounded
CHECK_DEADLOCK FALSE
