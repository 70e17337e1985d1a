SPECIFICATION FairSpec
CONSTANTS
    Keys <- ThreeKeys
    NoKey = NoKey
    Images <- OneImage
    NoImage = NoImage
    k1 = k1
    k2 = k2
    k3 = k3
    a = a
    b = b
    fe = fe
    Regions <- OneLayout
    Region <- SameRegion
    MaxSeq = 1
    MaxFaults = 1
    LateCommit = FALSE
    CommitErrors = FALSE
INVARIANTS
    SuccessMeansKeyed
    VerdictTrue

    
