SPECIFICATION OutputFairSpec
CONSTANTS
    Codes <- MCCodes
    Settings <- MCSettings
    Letters = {"a", "b"}
    MaxText = 5
    Secrets <- MCSecrets
    MaxTail = 3
    PipeSize = 1
INVARIANTS ExitIsReal OutputIsRedacted LeavingIsFine
PROPERTIES ExitIsTold ShutdownReturns StreamEnds
