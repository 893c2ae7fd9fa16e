CONSTANTS
    w1 = w1  w2 = w2
    Workers <- OneWorker
    Setups <- PlainSSL
    Listener = Listener
    Reaper = Reaper
    Tasks = {1, 2, 3, 4}
    None = None
    MaxPackets = 1
    MaxDefers = 0
SPECIFICATION FairSpec
PROPERTY SSLShutdownReturns
CHECK_DEADLOCK FALSE
