\* A planner without the lock beside a migrate; only rmig runs DDL, the trigger is switched.
SPECIFICATION Spec
CONSTANTS
    Object = {"t1", "o2"}
    Module = {"o2"}
    Layouts = {{"t1"}, {"t1", "o2"}}
    MaxVersion = 1
    Planners = {"p1"}
    Migrators = {"p2"}
    NoProc = "nobody"
    Modes = {"delta", "listed"}
    CatalogCache = TRUE
    SpotCheck = 1
    Reuse = FALSE
    OutOfBand = FALSE
    MaxDdl = 3
INVARIANTS TypeOK CacheHonest NothingLeft
