\* A created session that the provider's catalogue already lists is selected
\* while createSession has not exposed its owner yet.
SPECIFICATION Spec
CONSTANTS
    Sessions = {s1}
    Initial = {}
    Owners = {o1, o2}
    NoOwner = NoOwner
    NoSession = NoSession
    Limit = 3
INVARIANT
    OneWriterPerSession
CHECK_DEADLOCK FALSE
