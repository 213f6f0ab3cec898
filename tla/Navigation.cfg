CONSTANTS
    h1 = h1
    h2 = h2
    h3 = h3
    h4 = h4
    HouseholdID = {h1, h2, h3, h4}
    None = None
    Parent <- MCParent
    Bookmarks <- MCBookmarks
SPECIFICATION Spec
INVARIANTS
    TypeOK
    SelectionShown
    ViewKept
    NothingOpensByItself
PROPERTIES
    ToggleFlipsOne
    AnswerFits
