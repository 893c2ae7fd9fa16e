CONSTANTS
    c1 = c1  c2 = c2
    f1 = f1  f2 = f2
    w1 = w1  w2 = w2
    Conns <- OneConn
    Fds <- OneFd
    Workers <- OneWorker
    Listener = Listener
    Reaper = Reaper
    Tasks = {1, 2, 3, 4}
    ServerFd = ServerFd
    None = None
    Absent = Absent
    Null = Null
    MaxSends = 1
    IdleReaping = TRUE
    HandlerCalls = {}
    Failures = {}
    UndefinedBehaviour = {}
SPECIFICATION FairSpec
PROPERTY IdleConnectionIsTerminated
CHECK_DEADLOCK FALSE
