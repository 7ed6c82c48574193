SPECIFICATION FairSpec
CONSTANTS
    c1 = c1
    c2 = c2
    s1 = s1
    w1 = w1
    q1 = q1
    q2 = q2
    Callers = {c1, c2}
    Stoppers = {s1}
    Waiters = {w1}
    Requests = {q1, q2}
    NoRequest = NoRequest
    QueueCap = 2
    DrainBudget = 1
CHECK_DEADLOCK FALSE
INVARIANTS
    Outcomes
    StopFindsNone
PROPERTIES
    RequestSettles
    StopEnds
