SPECIFICATION Spec
CONSTANTS
    Threads = {t1, t2}
    Parts = {"cache", "knowledge", "servers", "subagents", "stream"}
    Users = {u1}
    Queries = {k1, k2, k3}
    Ids = {m1, m2}
    Texts = {n1, n2}
    Near <- SharedWords
    MaxEntries = 1
    Ttls = {0}
    CleanupPeriod = 2
    MaxTime = 1
    MaxBack = 1
    Clients = {k1, k2, k3}
    Servers = {m1, m2}
    Remotes = {r1}
    MaxDescriptors = 2
    Roles = {m1, m2}
    MaxRequests = 2
    QueueSize = 2
    MaxCalls <- Calls
SYMMETRY Symmetry
INVARIANTS TypeOK SearchSound ServersKept DispatchContained FlaskDelivered
PROPERTIES CacheSound
CHECK_DEADLOCK FALSE
