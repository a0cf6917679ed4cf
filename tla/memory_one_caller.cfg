\* One request at a time, foreground summaries, every call, every fault and a
\* restart: the setting in which the memory keeps its promises.
SPECIFICATION Spec
CONSTANTS
    Callers = {c1}
    Bg = {b1}
    L2Size = 1
    L3MaxSize = 1
    Every = 3
    Background = FALSE
    HasSummarizer = TRUE
    Calls = {"get", "add", "flush", "summarize", "topic", "clear"}
    Faults = {"summarizer", "save", "load", "cancel"}
    MaxTurns = 4
    MaxCrashes = 1
    Nobody = Nobody
    NoSnapshot = NoSnapshot
INVARIANTS AckedKept ClearedStays SavedOnReturn
