CONSTANTS
    c1 = c1  c2 = c2
    f1 = f1  f2 = f2
    w1 = w1  w2 = w2
    Conns <- OneConn
    Fds <- OneFd
    Workers <- OneWorker
    Listener = Listener
    Reaper = Reaper
    Tasks = {1, 2}
    ServerFd = ServerFd
    None = None
    Absent = Absent
    Null = Null
    MaxSends = 2
    IdleReaping = FALSE
    HandlerCalls = {"DeferredShutdown"}
    Failures = {}
    UndefinedBehaviour = {}
SPECIFICATION Spec
INVARIANT ReadAfterCloseIsZero
CHECK_DEADLOCK FALSE
