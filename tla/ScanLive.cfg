CONSTANTS
    Scans = {s1, s2}
    Workers = {w1, w2}
    Handlers = {}
    Requests = {}
    Opportunities = {o1}
    Testing = {s1}
    Live = {s1}
    Malformed = {s2}
    MaxAttempts = 2
    StageCount = 1
    Events = {"stall", "crash", "error", "dberror", "blocked", "review"}
    OppOf <- OneOpportunity
    NoScan = NoScan
SPECIFICATION FairSpec
PROPERTIES
    EveryScanSettles
CHECK_DEADLOCK FALSE
