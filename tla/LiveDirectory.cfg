CONSTANTS
    h1 = h1
    h2 = h2
    h3 = h3
    p1 = p1
    p2 = p2
    p3 = p3
    HouseholdID = {h1, h2, h3}
    PersonID = {p1, p2, p3}
    None = None
    Title = {"", "Clark"}
    Untitled = ""
    Retention = 2
    Documents <- MCDocuments
    Submissions <- MCSubmissions
    WritesMayFail = FALSE
    ClockMayStepBack = FALSE
    MaxTime = 3
    MaxSaves = 4
SPECIFICATION Spec
PROPERTIES
    ImplementsDirectory
