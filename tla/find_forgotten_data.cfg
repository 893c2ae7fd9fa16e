CONSTANTS
    c1 = c1  c2 = c2
    f1 = f1  f2 = f2
    w1 = w1  w2 = w2
    Conns <- TwoConns
    Fds <- TwoFds
    Workers <- TwoWorkers
    Listener = Listener
    Reaper = Reaper
    Tasks = {1, 2, 3, 4}
    ServerFd = ServerFd
    None = None
    Absent = Absent
    Null = Null
    MaxSends = 1
    IdleReaping = FALSE
    HandlerCalls = {}
    Failures = {}
    UndefinedBehaviour = {}
SPECIFICATION Spec
INVARIANT NoDataForgotten
CHECK_DEADLOCK FALSE
