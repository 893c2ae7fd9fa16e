CONSTANTS
    a = a  r1 = r1  r2 = r2
    CR = CR  LF = LF
    NoRange = NoRange
    ByteBefore = nul
    Byte <- Bytes
    MaxSent = 1
    ReadLimit = 2
    Ranges = {2}
    MaxBuffer = 2
    Sizes = {0}
    Tops = {"range"}
    Readers <- OneReader
SPECIFICATION FairSpec
PROPERTY ShutdownEndsWithoutPeer
CHECK_DEADLOCK FALSE
