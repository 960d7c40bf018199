\* Two clients at once; sessions and the daemon fail, scripts contain USE.
SPECIFICATION FairSpec
CONSTANTS
    None = None
    Client = {a, b}
    Foreign = {}
    Sess = {s1}
    Dbs = {"x", "y"}
    Home = "y"
    Db <- MCDb
    Slots = 2
    Switches = TRUE
    Faults = {"conn", "daemon"}
    MaxUnits = 1
INVARIANTS OneSession
PROPERTIES HandlerEnds
