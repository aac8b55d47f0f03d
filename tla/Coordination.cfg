\* One task, with a worker that exists or is created for it.
SPECIFICATION FairSpec
CONSTANTS
    o = o
    w = w
    s1 = s1
    s2 = s2
    Tasks = {t1}
    Commands = {c1, c2}
    Conversations = {o, w}
    Sessions = {s1, s2, s3}
    Prepared <- Beginnings
    Nobody = Nobody
    Nothing = Nothing
    MaxRevision = 2
INVARIANTS
    TasksKeepAccount
    StopsItsTurn
PROPERTIES
    StartingSettles
CHECK_DEADLOCK FALSE
