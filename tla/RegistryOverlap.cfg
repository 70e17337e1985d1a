SPECIFICATION Spec
CONSTANTS
    k1 = k1
    k2 = k2
    k3 = k3
    NoKey = NoKey
    kekA = kekA
    kekB = kekB
    kekC = kekC
    NoWrap = NoWrap
    KekFiles <- SomeKekFiles
    Keys <- ThreeKeys
    Skews <- OneClock
    MaxHandlers = 2
    MaxTime = 2
    MaxAir = 1
    Drops = FALSE
INVARIANTS
    StatusOkMeansDecryptable
