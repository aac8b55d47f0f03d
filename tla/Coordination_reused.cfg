\* A prompt of a task is refused because a user's turn has its identity, or a user
\* gives a turn the identity of a prompt that was refused; the task is then stopped.
SPECIFICATION Spec
CONSTANTS
    o = o
    w = w
    s1 = s1
    s2 = s2
    Tasks = {t1}
    Commands = {c1, c2}
    Conversations = {o, w}
    Sessions = {s1, s2, s3}
    Prepared <- Beginnings
    Nobody = Nobody
    Nothing = Nothing
    MaxRevision = 2
INVARIANT
    StopsOwnTurn
CHECK_DEADLOCK FALSE
