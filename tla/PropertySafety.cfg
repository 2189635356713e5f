CONSTANTS
    Domains = {d1}
    Environments = {"production"}
    Events = {"abort", "reregister", "unapprove", "reactivate"}
    MaxConfigs = 1
    Broken = {}
    WithAsset = {1}
    Assignments = {a1, a2}
    Processes = {p1}
    Threads = {t1, t2}
    MaxVersions = 3
    MaxDeployments = 3
    ReviewTargets = {"full_review"}
    None = None
SPECIFICATION Spec
CONSTRAINT Focus
SYMMETRY Symmetry
INVARIANTS
    ReleasedWasReviewed
    OneReleaseLine
    HistoryComplete
    ShowsActiveProvider
CHECK_DEADLOCK FALSE
