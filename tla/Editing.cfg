CONSTANTS
    h1 = h1
    h2 = h2
    h3 = h3
    p1 = p1
    p2 = p2
    p3 = p3
    p4 = p4
    p5 = p5
    HouseholdID = {h1, h2, h3}
    PersonID = {p1, p2, p3, p4, p5}
    None = None
    Documents <- MCDocuments
    Submissions <- MCSubmissions
SPECIFICATION Spec
INVARIANTS
    TypeOK
    SavesBuild
PROPERTIES
    NobodyVanishes
    OnlyPromotionMoves
CHECK_DEADLOCK FALSE
