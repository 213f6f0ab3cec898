CONSTANTS
    p1 = p1
    p2 = p2
    p3 = p3
    p4 = p4
    p5 = p5
    Ann = Ann
    Bob = Bob
    Mill = Mill
    Ford = Ford
    HouseholdID = {}
    PersonID = {p1, p2, p3, p4, p5}
    None = None
    Name = {Ann, Bob}
    Line = {Mill, Ford}
    PhoneDigits = 2
    Households <- MCHouseholds
    Typings <- MCTypings
    Facts <- MCFacts
    Changes <- MCChanges
    Arrivals <- MCArrivals
    MaxEdits = 3
    MaxSaves = 2
SYMMETRY Symmetry
SPECIFICATION Spec
INVARIANTS
    TypeOK
    NamesDistinct
    MistakesRemarked
PROPERTIES
    UntouchedSaveKeeps
    SavedAsTyped
    OthersKept
    RefusalExplained
