\* Two clients and one the daemon refuses; statements, clients and the daemon fail, sessions hang.
SPECIFICATION Spec
CONSTANTS
    None = None
    Client = {a, b, f}
    Foreign = {f}
    Sess = {s1, s2}
    Dbs = {"x"}
    Home = "x"
    Db <- MCDb
    Slots = 2
    Switches = FALSE
    Faults = {"stmt", "hang", "crash", "daemon"}
    MaxUnits = 1
INVARIANTS TypeOK DaemonInv CleanHandover OneSession
SYMMETRY ClientSymmetry
