CONSTANTS
    Readers = {r1}
    Setters = {}
    Requests = {0, 1, 2, 3, 4}
    MinMTU = 1
    MaxMTU = 3
    ConfigMTU = 2
    MaxPacket = 0
    Pollables = {FALSE}
    MaxQueue = 1
    MaxSent = 1
    MaxWrites = 0
    MaxCancels = 1
    MaxFaults = 0

SPECIFICATION FairSpec

PROPERTY ParkedReadEnds
CHECK_DEADLOCK FALSE
