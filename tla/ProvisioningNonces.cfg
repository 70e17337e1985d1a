SPECIFICATION Spec
CONSTANTS
    Keys <- ThreeKeys
    NoKey = NoKey
    Images <- OneImage
    NoImage = NoImage
    k1 = k1
    k2 = k2
    k3 = k3
    a = a
    b = b
    fe = fe
    Regions <- OneLayout
    Region <- SameRegion
    MaxSeq = 2
    MaxFaults = 2
    LateCommit = TRUE
    CommitErrors = TRUE
INVARIANTS
    TypeOK
    NoOldKeyOverFreshCounter
PROPERTIES
    NoncesOncePerKey
SYMMETRY KeySymmetry
