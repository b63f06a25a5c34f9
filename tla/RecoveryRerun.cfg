SPECIFICATION FairSpec
CONSTANTS
    Procs = {p1}
    NoFile = NoFile
    Journals <- MCJournals
    OperatorRoutes <- MCOperatorRoutes
    OperatorRules <- MCOperatorRules
    StrayRoutes <- MCStrayRoutes
    Sysctls = {"fwd"}
    Values = {"0", "1", "2"}
    ResolverSupported = TRUE
    MaxFaults = 2
    MaxOps = 1
    Variant = "full"
PROPERTIES CleanupSucceeds ExitOkIsComplete
