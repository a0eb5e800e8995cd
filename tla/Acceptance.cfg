SPECIFICATION Spec
CONSTANTS
    p1 = p1
    p2 = p2
    p3 = p3
    a1 = a1
    Runs = {p1, p2, p3}
    Audits = {a1}
    Requests <- MCRequests
    OrderedDirs = TRUE
    PowerLosses = 1
INVARIANTS LaunchOnce ClaimStands 
SYMMETRY Symmetry
CHECK_DEADLOCK FALSE
