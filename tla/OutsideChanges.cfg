\* Every command by one process, with every fault and DDL from outside rmig.
SPECIFICATION Spec
CONSTANTS
    None = None
    Proc = {p1}
    Obj = {"t"}
    Trans = {"x1", "x2"}
    Altering = {"x1"}
    Kind <- MCKind
    Parent <- MCParent
    Deps <- MCDeps
    TableOf <- MCTableOf
    Order <- MCOrder
    Commands = {"migrate", "baseline", "repair"}
    AllowAdopt = TRUE
    Faults = {"stmt", "conn", "crash"}
    Escapes = {}
    Generates = TRUE
    OutOfBand = TRUE
    MaxVer = 2
    MaxRev = 1
INVARIANTS ExactlyOnce
PROPERTIES LedgerSpec
