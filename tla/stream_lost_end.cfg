\* One task and a client that is only slow.
SPECIFICATION FairSpec
CONSTANTS
    Senders = {s1}
    BufferSize = 2
    End = End
    MaxEvents = 3
    MaxFinish = 1
PROPERTY StreamEnds
CHECK_DEADLOCK FALSE
