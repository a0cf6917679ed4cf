\* One caller, a client that is closed and started again, over either transport.
SPECIFICATION FairSpec
CONSTANTS
    Callers = {c1}
    Owner = Owner
    MaxRequests = 3
    MaxStarts = 2
    MaxNoise = 1
INVARIANTS TypeOK FuturesSound
PROPERTIES SetOnce RequestsReturn ImplementsRemoteCalls
CHECK_DEADLOCK FALSE
