CONSTANTS
    b1 = b1
    b2 = b2
    Buffers = {b1, b2}
    PackBuffers = {b1}
    Byte <- MCByte
    Strings <- MCStrings
    Lengths <- MCLengths
    PlainStrings <- MCPlainStrings
    PlainLengths <- MCPlainLengths
    Fields <- MCFields
    Headers <- MCHeaders
    BlockSize = 3
    MaxBlocks = 2
    MaxVarstr = 1
    MaxFields = 2
    Junk = Junk
    None = None
SPECIFICATION PacketSpec
INVARIANTS
    TypeOK
    TotalIsExact
    ReaderAgrees
PROPERTIES
    KeepsBytes
CHECK_DEADLOCK FALSE
