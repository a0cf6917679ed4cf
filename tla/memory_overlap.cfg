\* Two summaries of one session overlap, as the default background mode lets
\* them.
SPECIFICATION Spec
CONSTANTS
    Callers = {c1}
    Bg = {b1, b2}
    L2Size = 1
    L3MaxSize = 0
    Every = 0
    Background = TRUE
    HasSummarizer = TRUE
    Calls = {"get", "add"}
    Faults = {}
    MaxTurns = 3
    MaxCrashes = 0
    Nobody = Nobody
    NoSnapshot = NoSnapshot
INVARIANTS NothingForgotten
