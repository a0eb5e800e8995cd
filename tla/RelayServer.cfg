SPECIFICATION ServerSpec
CONSTANTS
    q1 = q1
    c1 = c1
    c2 = c2
    c3 = c3
    Requests = {q1}
    Calls = {c1, c2, c3}
    Responses = {"x", "y"}
    StopIds = {"s"}
    Reasons = {"user", "deadline", "parent_done"}
  
PROPERTIES StopOnce
SYMMETRY Symmetry
CHECK_DEADLOCK FALSE
