---------------------------- MODULE DeployLedger ----------------------------
(***************************************************************************)
(* What rmig promises of the database it deploys to, without processes,    *)
(* locks, sessions or statements: the schema and its history advance in    *)
(* indivisible units of work.  A transition is applied to an existing      *)
(* table and recorded in the same step, and only if it was never recorded; *)
(* an object is created or replaced together with its history row; and a   *)
(* row written without running a script fingerprints an object that is     *)
(* there.  Everything else is DDL from outside rmig.                       *)
(***************************************************************************)
EXTENDS PlanScenario

CONSTANTS Obj, Trans, None, Kind, Parent, Deps, TableOf, Altering, MaxVer, MaxRev

VARIABLES live, eff, rowCs, rowFp, migRow

ledger == <<live, eff, rowCs, rowFp, migRow>>

TransOf(o) == {x \in Trans : TableOf[x] = o}
Shape(l, e, o) == [ver |-> l[o], alters |-> {x \in TransOf(o) \cap Altering : e[x] > 0}]

\* The rows of S become checksums of repository versions and fingerprints of the
\* objects as this step leaves them; the other rows stay.
RowsAdvance(S) ==
    /\ rowCs' \in [Obj -> 0 .. MaxVer]
    /\ \A o \in Obj : IF o \in S THEN rowCs'[o] # 0 ELSE rowCs'[o] = rowCs[o]
    /\ rowFp' = [o \in Obj |-> IF o \in S THEN Shape(live', eff', o) ELSE rowFp[o]]

MigrationsAdvance(X) ==
    /\ migRow' \in [Trans -> 0 .. MaxRev + 1]
    /\ \A x \in Trans : IF x \in X THEN migRow'[x] # 0 ELSE migRow'[x] = migRow[x]

\* A transition runs, at most once in the life of its table, and is recorded;
\* the last one of a batch also advances the baseline of the table.
ApplyTransition(x) ==
    /\ live[TableOf[x]] # 0 /\ migRow[x] = 0 /\ eff[x] = 0
    /\ eff' = [eff EXCEPT ![x] = 1] /\ UNCHANGED live
    /\ MigrationsAdvance({x})
    /\ RowsAdvance({}) \/ RowsAdvance({TableOf[x]})

\* A missing object is created, or a module replaced, with its dependencies in
\* place; a created table embodies the transitions recorded with it.
ApplyObject(o, v) ==
    /\ \A d \in Deps[o] : live[d] # 0
    /\ live[o] = 0 \/ Kind[o] \in ModuleKinds
    /\ live' = [live EXCEPT ![o] = v]
    /\ \E X \in SUBSET TransOf(o) :
          /\ eff' = [x \in Trans |-> IF TableOf[x] # o THEN eff[x]
                                     ELSE IF x \in X THEN 1 ELSE 0]
          /\ MigrationsAdvance(X)
    /\ RowsAdvance({o}) /\ rowCs'[o] = v

\* Existing objects are adopted or repaired in the history.
RecordRows(S) ==
    /\ \A o \in S : live[o] # 0
    /\ RowsAdvance(S) /\ UNCHANGED <<live, eff, migRow>>

\* Objects are altered, created or dropped by hand.
OutsideDDL(o, v) ==
    LET gone == IF v = 0 THEN {o} \cup {c \in Obj : Parent[c] = o} ELSE {}
    IN  /\ live' = [c \in Obj |-> IF c \in gone THEN 0 ELSE IF c = o THEN v ELSE live[c]]
        /\ eff' = [x \in Trans |-> IF TableOf[x] \in gone THEN 0 ELSE eff[x]]
        /\ UNCHANGED <<rowCs, rowFp, migRow>>

Init ==
    /\ live \in [Obj -> {0, 1}] /\ eff = [x \in Trans |-> 0]
    /\ rowCs = [o \in Obj |-> 0] /\ migRow = [x \in Trans |-> 0]
    /\ rowFp = [o \in Obj |-> [ver |-> 0, alters |-> {}]]

Next ==
    \/ \E x \in Trans : ApplyTransition(x)
    \/ \E o \in Obj : \E v \in 1 .. MaxVer : ApplyObject(o, v)
    \/ \E S \in SUBSET Obj : RecordRows(S)
    \/ \E o \in Obj : \E v \in {0, MaxVer + 1} : OutsideDDL(o, v)

Spec == Init /\ [][Next]_ledger

=============================================================================
