SPECIFICATION FairSpec
CONSTANTS
    ByteLimit = 8
    MaxPayload = 2
    Checksum <- Polynomial
    Payloads <- SomePayloads
    Chunk = 2
    MaxFrames = 3
    MaxCuts = 1
    MaxReopens = 1
INVARIANTS
    TypeOK
    DecodesWhatStands
    LateByOneFrame
PROPERTY NeverSpins
CHECK_DEADLOCK FALSE
