CONSTANTS
    h0 = h0
    h1 = h1
    h2 = h2
    h3 = h3
    alive = alive
    dead = dead
    someone = someone
    HouseholdID = {h0, h1, h2, h3}
    PersonID = {alive, dead, someone}
    None = None
    FullAvailable = TRUE
    Days <- MCDays
    Directories <- OfPeople
SPECIFICATION Spec
INVARIANTS
    UnknownYearFailsClosed
