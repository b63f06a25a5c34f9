SPECIFICATION Spec
CONSTANTS
    Procs = {p1}
    NoFile = NoFile
    Journals <- MCJournals
    OperatorRoutes <- MCOperatorRoutes
    OperatorRules <- MCOperatorRules
    StrayRoutes <- MCStrayRoutes
    Sysctls = {"fwd"}
    Values = {"0", "1", "2"}
    ResolverSupported = FALSE
    MaxFaults = 1
    MaxOps = 1
    Variant = "resolver"
PROPERTIES ResolverRestoredFirst
