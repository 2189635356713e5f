CONSTANTS
    Scans = {s1}
    Workers = {w1, w2}
    Handlers = {}
    Requests = {}
    Opportunities = {o1}
    Testing = {s1}
    Live = {s1}
    Malformed = {}
    MaxAttempts = 2
    StageCount = 2
    Events = {}
    OppOf <- OneOpportunity
    NoScan = NoScan
SPECIFICATION FairSpec
PROPERTIES
    QueuedScanCompletes
CHECK_DEADLOCK FALSE
