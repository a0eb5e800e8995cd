SPECIFICATION FairSpec
CONSTANTS
    a = a
    b = b
    Ids = {a, b}
    Reqs <- TwoReqs
    Texts = {x, y}
    PipeCap = 1
    Sessions <- MCSessions
INVARIANTS AnswersAreDue ResultIsTrue MessagesInLogOrder
 
CHECK_DEADLOCK FALSE
