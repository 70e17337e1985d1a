SPECIFICATION ToolSpec
CONSTANTS
    dev = dev
    prod = prod
    u1 = u1
    u2 = u2
    u3 = u3
    s1 = s1
    s2 = s2
    b1 = b1
    b2 = b2
    b3 = b3
    None = None
    Names <- TwoNames
    DefaultProfile = dev
    Urls <- ThreeUrls
    Transport <- Transports
    Processes <- TwoShells
    MaxRuns = 3
    FwNames <- TwoFwNames
    Builds <- ThreeBuilds
    Elf <- Elves
SYMMETRY Interchangeable
INVARIANTS
    DefaultConfigured
    TokenGoesHome
    ImagesMatchRows
    FlashedAsDescribed
PROPERTY OthersKept
CHECK_DEADLOCK FALSE
