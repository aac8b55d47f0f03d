\* Two actions of every kind in two sessions, and a process before.
SPECIFICATION Spec
CONSTANTS
    Actions = {a1, a2}
    Sessions = {s1, s2}
    First = s1
    Models = {m1}
    Requests = {r1}
    Commands = {c1}
    Nobody = Nobody
    Nothing = Nothing
    MaxReceipts = 2
    MaxRevision = 2
    MaxIncarnation = 2
SYMMETRY Symmetry
INVARIANTS
    ActsAsPrepared
    ReceiptIsHonest
    AcceptedIsInHand
CHECK_DEADLOCK FALSE
