SPECIFICATION EditorSpec
CONSTANTS
    Pages = {"a", "b"}
    Home = "a"
    MaxEvents = 2
PROPERTIES
    TypedIsSaved
CHECK_DEADLOCK FALSE
