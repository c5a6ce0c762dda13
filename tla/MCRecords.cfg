CONSTANTS
    Calls = {c1, c2, c3}
    Ids = {id42, new}
    Stored = {id42}
    Old = Old
    Blank = Blank
    None = None
SPECIFICATION Spec
INVARIANTS
    TypeOK
    AnswersAreUpToDate
    ListIsWholeOrFails
PROPERTIES
    StoreSpec
CHECK_DEADLOCK FALSE
SYMMETRY CallSymmetry
