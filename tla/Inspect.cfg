\* One process runs many commands, every git mode, DDL from outside, a trigger that is switched.
SPECIFICATION Spec
CONSTANTS
    Object = {"t1"}
    Module = {}
    Layouts = {{"t1"}}
    MaxVersion = 2
    Planners = {"p1"}
    Migrators = {"p1"}
    NoProc = "nobody"
    Modes = {"delta", "listed", "full", "clean"}
    CatalogCache = TRUE
    SpotCheck = 1
    Reuse = TRUE
    OutOfBand = TRUE
    MaxDdl = 4
INVARIANTS LockedPlanIsLive NoMaskedDrift NothingLeft
