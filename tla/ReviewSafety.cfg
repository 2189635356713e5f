CONSTANTS
    Opps = {o1}
    Cost <- UnitCost
    Batches = {b1}
    Requests = {r1, r2}
    Targets = {t1}
    ReviewTargets = {"full_scan_approved", "approved_for_property"}
    Budgets = {1, 2}
    MaxVersion = 5
    MaxScans = 2
    MaxOverrides = 2
    MaxEvents = 3
    Events = {"partial", "sync", "direct"}
    None = None
SPECIFICATION Spec
CONSTRAINT Focus
SYMMETRY Symmetry
INVARIANTS
    AuditLinear
    ApprovedIsComplete
    BatchWithinBound
    OneActiveScan
CHECK_DEADLOCK FALSE
