SPECIFICATION PacketsSpec
CONSTANTS
    T <- MCT
    Cap = 3
    Zero = Zero
    e1 = e1
    e2 = e2
    Sizes = {1, 2, 4, 5}
    MaxPackets = 3
    MaxBytes = 4
    IntMax = 8
    MaxClock = 3
    Goroutines = {g1, g2, g3}
    Buffers = {b1, b2, b3}
    Classes <- MCClasses
    Lengths = {0, 1, 2, 3}
    None = None
    Handles = {h1, h2}
    Setters = {s1, s2}
    Durations = {0, 1}
    MaxTime = 2
    MaxIDs = 3
    MaxArms = 2
    Nil = Nil
    StepNs = 4
    CapacityBps = 8
    BufferSizes = {4, 16, 32}
    MaxBuffer = 32
    BaseRTTns = 16
    MTUBytes = 8
    MSS = 8
    MinBps = 1
    MaxBps = 12
    QueueTargetNs = 6
    FeedbackStaleNs = 30
    InitRates = {1, 2, 5, 9, 12}
INVARIANTS NoStaleReference BytesExact OneOwner NoLeak BufferIntact NeverOverdue ArmingAccounted StaleMeansMinimum LossAnswered
PROPERTIES FifoOrder NoExpiredLeft BackOnlyIfOvertaken CutsApart SimQueueDrains
