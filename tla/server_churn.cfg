CONSTANTS
    c1 = c1  c2 = c2
    f1 = f1  f2 = f2
    w1 = w1  w2 = w2
    Conns <- TwoConns
    Fds <- OneFd
    Workers <- TwoWorkers
    Listener = Listener
    Reaper = Reaper
    Tasks = {1, 2}
    ServerFd = ServerFd
    None = None
    Absent = Absent
    Null = Null
    MaxSends = 1
    IdleReaping = TRUE
    HandlerCalls = {"DeferredShutdown", "Shutdown"}
    Failures = {"accept", "epoll_ctl", "epoll_wait", "socket"}
    UndefinedBehaviour = {"missedEntry", "mapRace", "erasedIterator"}
SPECIFICATION Spec
SYMMETRY Symmetry
INVARIANTS TypeOK HoldsMatchHandlers NoSelfDeadlock CloseIsExclusive IInv EntriesMatchSockets
PROPERTY ImplementsLifecycle
CHECK_DEADLOCK FALSE
