SPECIFICATION Spec
CONSTANTS
    Requests = {r1, r2}
    User = {u1, u2}
    Query = {q1}
    Action = {"a", "b"}
    MaxIterations = 3
    CacheOn = TRUE
    Planner = TRUE
    NoAnswer = NoAnswer
    MaxClears = 1
SYMMETRY Symmetry
INVARIANTS TypeOK ActedOnce RecordedOnce CacheOwn
CHECK_DEADLOCK FALSE
