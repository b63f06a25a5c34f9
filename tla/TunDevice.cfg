CONSTANTS
    Readers = {r1}
    Setters = {s1}
    Requests = {1, 2, 3}
    MinMTU = 1
    MaxMTU = 2
    ConfigMTU = 1
    MaxPacket = 0
    Pollables = {TRUE, FALSE}
    MaxQueue = 1
    MaxSent = 1
    MaxWrites = 1
    MaxCancels = 2
    MaxFaults = 1

SPECIFICATION FairSpec

INVARIANTS
    TypeOK
    NoDescriptorLeak
    NoPacketLost
    MTUAgrees

PROPERTIES
    CancelUnblocks
    CloseUnblocks

\* a failed Open is the end of the device
CHECK_DEADLOCK FALSE
