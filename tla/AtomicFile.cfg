CONSTANTS
    Content = {d1, d2, d3}
    Torn = Torn
    None = None
SPECIFICATION Spec
INVARIANTS
    TypeOK
    NeverTorn
    FailedSaveChangesNothing
