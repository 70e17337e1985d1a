SPECIFICATION FairSpec
CONSTANTS
    WordsPerPage = 2
    ReservationBlock = 2
    Modulus = 16
    Lifetime = 14
    AndWords <- MCAnd
    TornWrite <- SettledWrite
    TornErase <- PartialErase
INVARIANTS
    ReadbackMatches
