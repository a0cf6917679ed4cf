\* Two requests on one session, background summaries, topic changes and clears:
\* what every interleaving keeps, and that every call comes back.
SPECIFICATION FairSpec
CONSTANTS
    Callers = {c1, c2}
    Bg = {b1}
    L2Size = 1
    L3MaxSize = 1
    Every = 1
    Background = TRUE
    HasSummarizer = TRUE
    Calls = {"get", "add", "topic", "clear"}
    Faults = {"summarizer", "load"}
    MaxTurns = 2
    MaxCrashes = 0
    Nobody = Nobody
    NoSnapshot = NoSnapshot
INVARIANTS TypeOK Chronological WindowBounded
PROPERTIES CallsReturn
