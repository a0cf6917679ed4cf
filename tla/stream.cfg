\* Two tasks send and finish; the client has a deadline or not.
SPECIFICATION FairSpec
CONSTANTS
    Senders = {s1, s2}
    BufferSize = 2
    End = End
    MaxEvents = 3
    MaxFinish = 2
INVARIANTS TypeOK NoGap OneTimeoutEach EndComplete
PROPERTIES NobodyWaits
CHECK_DEADLOCK FALSE
