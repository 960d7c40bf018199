----------------------------- MODULE MCMigrator -----------------------------
(***************************************************************************)
(* Instances of Migrator for TLC.  Objects and transitions are named here  *)
(* once; a .cfg picks the sets Obj and Trans among them.                   *)
(***************************************************************************)
EXTENDS MigratorInv, TLC

\* A table, a view on it, a trigger of it, and modules that name each other.
KindOf == [t |-> "tables", v |-> "views", g |-> "triggers",
           a |-> "functions", b |-> "functions", c |-> "procedures",
           d |-> "functions", e |-> "procedures"]
\* a names b which names c, against the order of their paths; d and e name each
\* other, so neither can be created first.
DepsOf == [t |-> {}, v |-> {"t"}, g |-> {"t"},
           a |-> {"b"}, b |-> {"c"}, c |-> {},
           d |-> {"e"}, e |-> {"d"}]
TransTable == [x1 |-> "t", x2 |-> "t"]
PathOrder  == [t |-> 1, v |-> 2, g |-> 3, a |-> 4, b |-> 5, c |-> 6, d |-> 7, e |-> 8,
               x1 |-> 1, x2 |-> 2]

MCKind    == [o \in Obj |-> KindOf[o]]
MCParent  == [o \in Obj |-> IF o = "g" THEN "t" ELSE None]
MCDeps    == [o \in Obj |-> DepsOf[o] \cap Obj]
MCTableOf == [x \in Trans |-> TransTable[x]]
MCOrder   == [n \in Obj \cup Trans |-> PathOrder[n]]

ProcSymmetry == Permutations(Proc)

=============================================================================
