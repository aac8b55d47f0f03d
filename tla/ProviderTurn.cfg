\* Two prompts, three turns: those of the prompts and those of the agent itself.
SPECIFICATION ReadingSpec
CONSTANTS
    Prompts = {p1, p2}
    Turns = {t1, t2, t3}
    NoPrompt = NoPrompt
    NoTurn = NoTurn
    Capacity = 2
INVARIANTS
    TurnsAreFollowed
    NoticeIsKept
PROPERTIES
    PromptsEnd
CHECK_DEADLOCK FALSE
