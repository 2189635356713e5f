CONSTANTS
    Procs = {p1, p2}
    Forms <- TestForms
    Assignments = {"a1", "a2"}
    Destination <- TestDestination
    Adapters = {"email"}
    Events = {"e"}
    RateLimit = 1
    MaxOps = 3
    None = None
SYMMETRY Symmetry
SPECIFICATION Spec
INVARIANTS
    RetriesHaveOneEffect
    DuplicatesOnlyByOverlap
    StoredWhole
CHECK_DEADLOCK FALSE
