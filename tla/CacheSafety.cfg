CONSTANTS
    Procs = {p1, p2}
    Keys = {k1, k2}
    Contents = {c1}
    MaxRows = 3
    None = None
SPECIFICATION CacheSpec
INVARIANTS
    ServedIsAnswer
    RowsReadable
    BundleAgrees
PROPERTIES
    RequestsEnd
CHECK_DEADLOCK FALSE
