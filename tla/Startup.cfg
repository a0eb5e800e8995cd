CONSTANTS
    RawHosts <- Spellings
    canonical <- Canonical
    Hostnames <- Names
    Empty = ""
    ExtensionNames = {"x", "y"}
    Raws <- AllRaws
    Files = 3
    Workspaces <- Requested
    Budgets <- Asked
    MaxEdits = 1
    Runs = {"p1", "p2", "p3"}
    OldPaths <- Old
    LateListen = FALSE
SPECIFICATION StartupSpec
INVARIANTS  OneServer
