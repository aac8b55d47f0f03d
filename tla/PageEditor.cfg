SPECIFICATION EditorSpec
CONSTANTS
    Pages = {"a", "b"}
    Home = "a"
    MaxEvents = 4
INVARIANTS
    WhereItSays
    NoStrangers
PROPERTIES
    TypedIsKept
    NavigationEnds
CHECK_DEADLOCK FALSE
