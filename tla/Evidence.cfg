CONSTANTS
    r1 = r1
    r2 = r2
    r3 = r3
    Requests = {r1, r2, r3}
    Networks <- MCNetworks
    Cap = 1
    None = None
    Paths <- Tree
    Above <- TreeAbove
    Regular = {"r1", "r2"}
    Symlink = {"s1"}
    Workspaces <- MCWorkspaces
    Sessions <- MCSessions
SPECIFICATION EvidenceSpec
INVARIANTS AnswerIsRecorded  
PROPERTY EgressEnds
