SPECIFICATION FairSpec
CONSTANTS
    s1 = s1
    s2 = s2
    s3 = s3
    Sensors <- ThreeSensors
    Slots = 2
    Capacity = 2
    MaxSeq = 1
    MaxTick = 8
    MaxDisconnects = 1
INVARIANTS
    TypeOK
    NewestInOrder
    OneLossPerDisconnect
PROPERTIES
    RepeatedOnlyWhenCrowded
    OnlyRepeatsSwallowed
    Drains
