SPECIFICATION SensorFairSpec
CONSTANTS
    WordsPerPage = 2
    ReservationBlock = 2
    Modulus = 16
    Lifetime = 14
    AndWords <- MCAnd
    TornWrite <- PartialWrite
    TornErase <- SettledErase
    KeyWords = 1
    Absent = Absent
    MintedKey <- Key
    Addr0 <- FicrLow
    Addr1 <- FicrHigh
    DividerRatio = 2
    Samples <- SomeSamples
    Links <- SomeLinks
INVARIANTS
    SensorTypeOK
    
    ReadbackMatches
    ReadingTells
PROPERTIES
    
    NeverWedged
    BurstsInOrder
    NewestAired
