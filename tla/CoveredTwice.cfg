\* A table changes again after its transitions are applied.
SPECIFICATION Spec
CONSTANTS
    None = None
    Proc = {p1}
    Obj = {"t"}
    Trans = {"x1"}
    Altering = {"x1"}
    Kind <- MCKind
    Parent <- MCParent
    Deps <- MCDeps
    TableOf <- MCTableOf
    Order <- MCOrder
    Commands = {"migrate"}
    AllowAdopt = TRUE
    Faults = {}
    Escapes = {}
    Generates = FALSE
    OutOfBand = FALSE
    MaxVer = 2
    MaxRev = 1
INVARIANTS SuccessMeansConverged
