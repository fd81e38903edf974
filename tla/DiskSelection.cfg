SPECIFICATION Spec
CONSTANTS
    Names <- MCNames
    Kind <- MCKind
    Substrings <- MCSubstrings
    Sizes <- MCSizes
    SortsAfter <- MCSortsAfter
INVARIANTS
    PicksDisks
    PicksSmallest
    PoweroffExplained
