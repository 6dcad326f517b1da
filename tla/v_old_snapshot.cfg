SPECIFICATION Spec
CONSTANTS
    Server = {s1, s2}
    Client = {c1, c2}
    c1 = c1
    c2 = c2
    None = None
    Workloads <- SnapshotWorkloads
CHECK_DEADLOCK FALSE
SYMMETRY Symmetry
VIEW View
INVARIANT
    DeliversFromLog
