\* Two invocations for two databases, with edits of the checkout and every fault.
SPECIFICATION Spec
CONSTANTS
    Nobody = Nobody
    Runs = {r1, r2}
    Paths <- MCPaths
    Lower <- MCLower
    Ordinal <- MCOrdinal
    Rank <- MCRank
    Hidden = {".old"}
    BadNames = {"a/b"}
    MaxVersion = 2
    NameSuffix <- MCSuffix
    SqlRoot = "sql"
    Commands = {"validate", "migrate"}
    Trees <- MCTrees
    Deployed <- MCDeployed
    Existing <- MCExisting
    Unmanaged <- MCUnmanaged
    Environments <- MCEnvironments
    Addable <- MCAddable
    GenName <- MCGenName
    Parent <- MCParent
    Faults = {"conn", "stmt", "report", "signal", "kill"}
    MaxEvents = 1
INVARIANTS TypeOK NoLeak ExitZeroMeansAll PlanRowsAligned ReportPairs GateExplained ChangedIsHot
PROPERTIES DeployedWhole DraftsNeverRun ScaffoldKeepsScannable AdoptedOnPurpose
SYMMETRY RunSymmetry
CHECK_DEADLOCK FALSE
