SPECIFICATION ViewSpec
CONSTANTS
    SlugWords = 1
    Texts <- MCFaultedPages
    GroupIds = {"k"}
    Names <- MCNames
    Blocks <- MCBlocks
    TypedLines <- MCTypedLines
    MaxChanges = 2
INVARIANTS
    CardsDragTheirOwn
CHECK_DEADLOCK FALSE
