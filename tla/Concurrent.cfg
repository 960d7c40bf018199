\* Two migrators, one table with two transitions that both change its shape, lost
\* connections, and scripts that roll back the executor's transaction.
SPECIFICATION Spec
CONSTANTS
    None = None
    Proc = {p1, p2}
    Obj = {"t"}
    Trans = {"x1", "x2"}
    Altering = {"x1", "x2"}
    Kind <- MCKind
    Parent <- MCParent
    Deps <- MCDeps
    TableOf <- MCTableOf
    Order <- MCOrder
    Commands = {"migrate"}
    AllowAdopt = TRUE
    Faults = {"conn"}
    Escapes = {"rollback"}
    Generates = FALSE
    OutOfBand = FALSE
    MaxVer = 2
    MaxRev = 1
INVARIANTS TypeOK IndInv WritesUnderLock ExactlyOnce PlanIsFresh SuccessMeansRecorded NeverRecordsUnapplied DriftIsPartialBatch
SYMMETRY ProcSymmetry
