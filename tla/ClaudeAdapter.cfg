SPECIFICATION FairSpec
CONSTANTS
    h1 = h1
    Hooks = {h1}
    MaxLines = 1
    MaxMessages = 1
    MaxTokens = 4
    Sessions <- MCSessions
INVARIANTS StopIsReported BypassIsReported EventsAreTrue DoneIsTrue
 
CHECK_DEADLOCK FALSE
