\* The second of two transitions fails; the first one changed the shape of the table.
SPECIFICATION Spec
CONSTANTS
    None = None
    Proc = {p1}
    Obj = {"t"}
    Trans = {"x1", "x2"}
    Altering = {"x1"}
    Kind <- MCKind
    Parent <- MCParent
    Deps <- MCDeps
    TableOf <- MCTableOf
    Order <- MCOrder
    Commands = {"migrate"}
    AllowAdopt = TRUE
    Faults = {"stmt"}
    Escapes = {}
    Generates = FALSE
    OutOfBand = FALSE
    MaxVer = 2
    MaxRev = 1
INVARIANTS RerunNotBlocked
