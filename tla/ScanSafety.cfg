CONSTANTS
    Scans = {s1, s2}
    Workers = {w1, w2}
    Handlers = {h1}
    Requests = {q1}
    Opportunities = {o1}
    Testing = {s1, s2}
    Live = {s1, s2}
    Malformed = {}
    MaxAttempts = 2
    StageCount = 2
    Events = {"stall", "crash", "cancel", "retry"}
    OppOf <- OneOpportunity
    NoScan = NoScan
SPECIFICATION Spec
SYMMETRY Symmetry
INVARIANTS
    LeaseExclusive
    AttemptsBounded
PROPERTIES
    OldWorkerCannotAdvance
    CancelledNeverRunsAgain
CHECK_DEADLOCK FALSE
