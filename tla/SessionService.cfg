\* Two sessions, two conversations, two commands; every failure and crash.
SPECIFICATION FairSpec
CONSTANTS
    Sessions = {s1, s2}
    Conversations = {k1, k2}
    Commands = {c1, c2}
    NoSession = NoSession
    NoConversation = NoConversation
    NoCommand = NoCommand
    MaxRevision = 2
INVARIANTS
    DeliveredOnce
    TurnsAreExclusive
    OutcomeSurvivesCrash
PROPERTIES
    NothingForgotten
    ImplementsDelivery
    RunningSettles
    SessionBecomesFree
