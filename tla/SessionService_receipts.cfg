\* A failed write of commands.json at dispatch leaves a receipt running.
SPECIFICATION Spec
CONSTANTS
    Sessions = {s1}
    Conversations = {k1}
    Commands = {c1, c2}
    NoSession = NoSession
    NoConversation = NoConversation
    NoCommand = NoCommand
    MaxRevision = 2
INVARIANT
    RunningReceiptHasTurn
