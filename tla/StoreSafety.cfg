CONSTANTS
    Procs = {p1, p2}
    HostOf <- OneHost
    Versions = {"v1", "v2"}
    Contents = {c1, c2}
    Absent = Absent
SPECIFICATION StoreSpec
SYMMETRY Symmetry
INVARIANTS
    LockExcludes
    ReportedStaysRegistered
    RegistryConsistent
PROPERTIES
    ImplementsCatalog
CHECK_DEADLOCK FALSE
