CONSTANTS
    w1 = w1  w2 = w2
    Workers <- TwoWorkers
    Setups <- EveryKind
    Listener = Listener
    Reaper = Reaper
    Tasks = {1, 2, 3, 4}
    None = None
    MaxPackets = 1
    MaxDefers = 1
SPECIFICATION FairSpec
INVARIANTS TypeOK DecoratorNotDangling
PROPERTIES LayersFollowLifecycle ShutdownDisconnects
CHECK_DEADLOCK FALSE
