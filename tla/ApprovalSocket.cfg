SPECIFICATION SocketSpec
CONSTANTS
    h1 = h1
    h2 = h2
    Hooks = {h1, h2}
    Calls = {"c"}
    Args = {"a", "b"}
    Capacity = 2
    Workers = 2
    Pollers = {"p1", "p2", "p3"}
    Guarded = TRUE
    MaxHooks = 3
    BrokerFails = TRUE
INVARIANTS DecisionsHold SnapshotIsComplete
SYMMETRY Symmetry
CHECK_DEADLOCK FALSE
