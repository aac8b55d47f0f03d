SPECIFICATION ViewSpec
CONSTANTS
    SlugWords = 1
    Texts <- MCPages
    GroupIds = {"k"}
    Names <- MCNames
    Blocks <- MCBlocks
    TypedLines <- MCTypedLines
    MaxChanges = 2
INVARIANTS
    GroupingIsReversible
    StaleCardsAreSafe
PROPERTIES
    AtomsKeepTheirBlocks
    GroupsChangeOnlyAsAsked
    LandsWhereDropped
    OnlyReviewFreshens
CHECK_DEADLOCK FALSE
