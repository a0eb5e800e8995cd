SPECIFICATION FairReaderSpec
CONSTANTS
    c1 = c1
    c2 = c2
    Calls = {c1, c2}
    QueueCap = 1
    BatchLen = 3
    MaxCrashes = 1
    None = None
    Settings <- MCSettings
    PageLimit = 2
    MaxInt = 4
INVARIANTS SeqContiguous TailIsTrue ForkReplays
PROPERTIES ImplementsEventLog CallsReturn
CHECK_DEADLOCK FALSE
