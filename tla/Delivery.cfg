SPECIFICATION FairSpec
CONSTANTS
    g1 = g1
    g2 = g2
    d1 = d1
    d2 = d2
    Gateways <- TwoGateways
    Strangers <- TwoStrangers
    Unknown <- NotRegistered
    Sender <- Senders
    Unreadable <- DoNotOpen
    MaxTracked = 1
    GatewayQueue = 1
    ClientQueue = 1
    SessionLimit = 1
    ApiQueue = 1
    Receipts <- TwoAndTwo
    MaxFaults = 2
INVARIANTS
    TypeOK
    OneRowPerReceipt
    StrangersAccounted
    
PROPERTIES
    HeldUntilPolled
    
CHECK_DEADLOCK FALSE
