\* Two processes, modules that name each other, lost connections and scripts that commit
\* the executor's transaction.
SPECIFICATION FairSpec
CONSTANTS
    None = None
    Proc = {p1, p2}
    Obj = {"a", "b", "d", "e"}
    Trans = {}
    Altering = {}
    Kind <- MCKind
    Parent <- MCParent
    Deps <- MCDeps
    TableOf <- MCTableOf
    Order <- MCOrder
    Commands = {"migrate", "baseline", "repair"}
    AllowAdopt = TRUE
    Faults = {"conn"}
    Escapes = {"commit"}
    Generates = FALSE
    OutOfBand = FALSE
    MaxVer = 1
    MaxRev = 1
INVARIANTS GivesUpAtFixpoint SuccessMeansRecorded
  
