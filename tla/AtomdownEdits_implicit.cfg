SPECIFICATION ViewSpec
CONSTANTS
    SlugWords = 1
    Texts <- MCLoosePages
    GroupIds = {"k"}
    Names <- MCNames
    Blocks <- MCBlocks
    TypedLines <- MCTypedLines
    MaxChanges = 2
INVARIANTS
    CardsResolve
CHECK_DEADLOCK FALSE
