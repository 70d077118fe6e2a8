SPECIFICATION Spec
CONSTANTS
    Sessions = {s1, s2}
    SelfIds = {q1, q2}
    NoBot = NoBot
    NoId = NoId
    MaxTasks = 1
    LoginMayLag = TRUE
INVARIANT
    EndedIsUnregistered
CHECK_DEADLOCK FALSE
