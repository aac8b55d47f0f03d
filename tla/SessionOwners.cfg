\* Three attempts at three sessions, two slots; clients may name a created
\* session from the moment the provider has made it.
SPECIFICATION FairSpec
CONSTANTS
    Sessions = {s1, s2, s3}
    Initial = {s1, s2}
    Owners = {o1, o2, o3}
    NoOwner = NoOwner
    NoSession = NoSession
    Limit = 2
INVARIANTS
    ClientsAreSound
PROPERTIES
    EverythingEnds
CHECK_DEADLOCK FALSE
