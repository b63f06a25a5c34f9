SPECIFICATION FilesSpec
CONSTANTS
    w1 = w1
    w2 = w2
    w3 = w3
    r1 = r1
    p1 = p1
    p2 = p2
    p3 = p3
    Operator = Operator
    NoFile = NoFile
    Writes <- MCWrites
    Valid <- MCValid
    Readers <- MCReaders
    Procs <- MCProcs
    DirSyncs = TRUE
    MaxFaults = 3
    KeyChars = 2
    MaxKeyFaults = 2
    Files <- MCConfigFiles
    Spare <- MCSpare
    UintBits = 16
    Bases = {0, 31765, 31766, 65535}
SYMMETRY Symmetry
CHECK_DEADLOCK FALSE
INVARIANTS NeverTorn AckedIsDurable NoTempLeak KeysKept WholeKeys UplinksApart PeersApart TwoReportsAreEnough
