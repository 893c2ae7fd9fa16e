CONSTANTS
    a = a  r1 = r1  r2 = r2
    CR = CR  LF = LF
    NoRange = NoRange
    ByteBefore = nul
    Byte <- Bytes
    MaxSent = 3
    ReadLimit = 2
    Ranges = {0, 2}
    MaxBuffer = 2
    Sizes = {0, 1, 2}
    Tops = {"ack", "line", "range"}
    Readers <- OneReader
SPECIFICATION FairSpec
INVARIANTS TypeOK NothingLost RangeIsExact
PROPERTIES ImplementsByteStream EOFIsFinal SentArrives ShutdownCompletes
CHECK_DEADLOCK FALSE
