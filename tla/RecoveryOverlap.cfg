SPECIFICATION Spec
CONSTANTS
    Procs = {p1, p2}
    NoFile = NoFile
    Journals <- MCJournals
    OperatorRoutes <- MCOperatorRoutes
    OperatorRules <- MCOperatorRules
    StrayRoutes <- MCStrayRoutes
    Sysctls = {"fwd"}
    Values = {"0", "1", "2"}
    ResolverSupported = TRUE
    MaxFaults = 1
    MaxOps = 1
    Variant = "overlap"
INVARIANT TypeOK
PROPERTIES FailClosedTeardown KillSwitchLast ExitOkIsComplete
    OperatorSysctlsKept OperatorRoutingKept RerunIsNoOp
