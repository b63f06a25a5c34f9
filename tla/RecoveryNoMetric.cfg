SPECIFICATION Spec
CONSTANTS
    Procs = {p1}
    NoFile = NoFile
    Journals <- MCJournals
    OperatorRoutes <- MCOperatorRoutes
    OperatorRules <- MCOperatorRules
    StrayRoutes <- MCStrayRoutes
    Sysctls = {"fwd"}
    Values = {"0", "1", "2"}
    ResolverSupported = FALSE
    MaxFaults = 0
    MaxOps = 0
    Variant = "nometric"
PROPERTIES OperatorRoutingKept
