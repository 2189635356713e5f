CONSTANTS
    Leads = {l1}
    Channels = {email, phone}
    Workers = {w1, w2}
    Assignments = {a1, a2}
    Destinations <- OneHasAll
    MaxAttempts = 2
    MaxClaims = 4
    MaxCrashes = 1
    Events = {"stall", "erase", "operate", "transient", "reject"}
    None = None
SPECIFICATION Spec
CONSTRAINT Focus
SYMMETRY Symmetry
INVARIANTS
    OneSender
    AttemptsCounted
    LeadReflectsDeliveries
PROPERTIES
    UnknownNeverResent
    ErasedNeverRetried
CHECK_DEADLOCK FALSE
