--------------------------- MODULE MigratorProofs ---------------------------
(***************************************************************************)
(* Proofs about Migrator for every value of its constants: type            *)
(* correctness, and, from the inductive invariant of MigratorInv, that only*)
(* the lock holder can write and that no transition is applied twice.      *)
(***************************************************************************)
EXTENDS MigratorInv, TLAPS

\* The arms of resolve_changed_scenario cover every kind and every parent state.
LEMMA ResolveChangedScenario ==
    ASSUME NEW in, in.kind \in Kinds, in.parent \in ParentStates,
           in.hasTransitions \in BOOLEAN
    PROVE  \/ ResolveChanged(in) \in BlockedScenarios \cup {"TableReprocess"}
           \/ /\ ResolveChanged(in) \in {"ModuleUpdate", "TriggerUpdateModule"}
              /\ in.kind \in ModuleKinds
  <1>1. CASE in.kind = "tables"
    BY <1>1 DEF ResolveChanged, BlockedScenarios
  <1>2. CASE in.kind = "triggers"
    <2>1. ResolveChanged(in) = ChangedTrigger(in.parent)
      BY <1>2 DEF ResolveChanged
    <2>2. in.kind \in ModuleKinds
      BY <1>2 DEF ModuleKinds
    <2>3. ChangedDefault("triggers") = "ModuleUpdate"
      BY DEF ChangedDefault, ModuleKinds
    <2>4. ChangedTrigger(in.parent) \in {"ModuleUpdate", "TriggerUpdateModule",
              "TriggerBlockedParentMissing", "TriggerBlockedParentChanging"}
      BY <2>3 DEF ChangedTrigger, ParentStates
    <2>5. QED
      BY <2>1, <2>2, <2>4 DEF BlockedScenarios
  <1>3. CASE in.kind \in Kinds \ {"tables", "triggers"}
    <2>1. ResolveChanged(in) = ChangedDefault(in.kind)
      BY <1>3 DEF ResolveChanged
    <2>2. QED
      BY <2>1 DEF ChangedDefault, BlockedScenarios
  <1>4. QED
    BY <1>1, <1>2, <1>3

\* resolve_plan_scenario always names a scenario, and updates only modules.
LEMMA ResolveScenario ==
    ASSUME NEW in, in.kind \in Kinds, in.parent \in ParentStates,
           in.hasTransitions \in BOOLEAN
    PROVE  \/ ResolvePlanScenario(in) \in
                 BlockedScenarios \cup {"TableReprocess", "Create", "Adopt", "SkipUnchanged"}
           \/ /\ ResolvePlanScenario(in) \in {"ModuleUpdate", "TriggerUpdateModule"}
              /\ in.kind \in ModuleKinds
  <1>1. "LiveStructuralDriftBlocked" \in BlockedScenarios
    BY DEF BlockedScenarios
  <1>2. QED
    BY <1>1, ResolveChangedScenario DEF ResolvePlanScenario

\* A scenario is resolved for every object; only an absent object is created and
\* only a module is ever updated.
LEMMA DecideScenario ==
    ASSUME NEW p \in Proc, NEW o \in Obj
    PROVE  /\ DecideObject(p, o) \in Scenarios
           /\ ActionOf(DecideObject(p, o)) \in {"CreateObject", "UpdateExistingModule"}
                => DecideObject(p, o) = "Create" \/ Kind[o] \in ModuleKinds
  <1> DEFINE in == [exists |-> live[o] # 0, prior |-> rowCs[o], drift |-> Drift(o),
                    kind |-> Kind[o], checksum |-> wsFile[p][o],
                    hasTransitions |-> \E x \in TransOf(o) : wsRev[p][x] # 0,
                    parent |-> ParentState(o)]
  <1>1. ParentState(o) \in ParentStates
    BY DEF ParentState, ParentStates
  <1>2. in.kind = Kind[o] /\ in.kind \in Kinds /\ in.parent \in ParentStates
    BY <1>1, ObjAssumption
  <1>3. in.hasTransitions \in BOOLEAN
    OBVIOUS
  <1>4. DecideObject(p, o) = ResolvePlanScenario(in)
    BY DEF DecideObject
  <1> HIDE DEF in
  <1>5. \/ DecideObject(p, o) \in
             BlockedScenarios \cup {"TableReprocess", "Create", "Adopt", "SkipUnchanged"}
        \/ /\ DecideObject(p, o) \in {"ModuleUpdate", "TriggerUpdateModule"}
           /\ Kind[o] \in ModuleKinds
    BY <1>2, <1>3, <1>4, ResolveScenario
  <1>6. QED
    BY <1>5 DEF BlockedScenarios, Scenarios, ActionOf

-----------------------------------------------------------------------------
(* Type correctness. *)

LEMMA TypeInit == Init => TypeOK
  <1> SUFFICES ASSUME Init PROVE TypeOK
    OBVIOUS
  <1>1. NoShape \in Shapes /\ 0 \in Vers /\ 1 \in Vers /\ 0 \in Revs /\ 1 \in 1 .. MaxVer
    BY BoundAssumption DEF NoShape, Shapes, Vers, Foreign, Revs, GenRev
  <1>2. "SkipUnchanged" \in Scenarios /\ "idle" \in Pcs /\ "none" \in TxStates /\ 0 \in ExitCodes
    BY DEF Scenarios, Pcs, TxStates, ExitCodes
  <1>3. file \in [Obj -> 1 .. MaxVer] /\ tfile \in [Trans -> Revs] /\ schema \in BOOLEAN
    BY <1>1 DEF Init
  <1>4. live \in [Obj -> Vers]
    BY <1>1 DEF Init
  <1>5. eff \in [Trans -> 0 .. 2] /\ rowCs \in [Obj -> 0 .. MaxVer]
    BY BoundAssumption DEF Init
  <1>6. rowFp \in [Obj -> Shapes] /\ migRow \in [Trans -> Revs]
    BY <1>1 DEF Init
  <1>7. /\ wsFile \in [Proc -> [Obj -> 0 .. MaxVer]] /\ wsRev \in [Proc -> [Trans -> Revs]]
        /\ scen \in [Proc -> [Obj -> Scenarios]]
    BY <1>1, <1>2, BoundAssumption DEF Init, NoScenario
  <1>8. /\ pend \in [Proc -> SUBSET Trans] /\ todo \in [Proc -> SUBSET (Obj \cup Trans)]
        /\ retry \in [Proc -> SUBSET (Obj \cup Trans)]
    BY DEF Init
  <1>9. QED
    BY <1>2, <1>3, <1>4, <1>5, <1>6, <1>7, <1>8 DEF Init, TypeOK

\* Effects on the database keep the types of its variables.
LEMMA ObjectRowsType ==
    ASSUME TypeOK, NEW p \in Proc, NEW S, ObjectRows(p, S), live' \in [Obj -> Vers]
    PROVE  rowCs' \in [Obj -> 0 .. MaxVer] /\ rowFp' \in [Obj -> Shapes]
  BY DEF TypeOK, ObjectRows, Shapes, Shape, TransOf

LEMMA BodyEffectType ==
    ASSUME TypeOK, NEW p \in Proc, BodyEffect(p)
    PROVE  live' \in [Obj -> Vers] /\ eff' \in [Trans -> 0 .. 2]
  <1>1. 0 .. MaxVer \subseteq Vers
    BY BoundAssumption DEF Vers, Foreign
  <1>2. \A n \in 0 .. 2 : More(n) \in 0 .. 2
    BY DEF More
  <1> DEFINE j == job[p]
             w == wsFile[p]
             r == wsRev[p]
  <1>t. /\ live \in [Obj -> Vers] /\ eff \in [Trans -> 0 .. 2]
        /\ w \in [Obj -> 0 .. MaxVer]
    BY DEF TypeOK
  <1>3. CASE j \in Trans
    <2>1. live' = live /\ eff' = [eff EXCEPT ![j] = More(eff[j])]
      BY <1>3 DEF BodyEffect
    <2>2. QED
      BY <1>2, <1>3, <1>t, <2>1
  <1>4. CASE j \notin Trans
    <2>1. /\ live' = [live EXCEPT ![j] = w[j]]
          /\ eff' = [x \in Trans |-> IF TableOf[x] # j THEN eff[x]
                                     ELSE IF r[x] # 0 THEN 1 ELSE 0]
      BY <1>4 DEF BodyEffect
    <2>2. \A o \in Obj : w[o] \in Vers
      BY <1>1, <1>t
    <2> HIDE DEF j, w, r
    <2>3. live' \in [Obj -> Vers]
      BY <1>t, <2>1, <2>2
    <2>4. \A x \in Trans : eff'[x] \in 0 .. 2
      BY <1>t, <2>1
    <2>5. QED
      BY <2>1, <2>3, <2>4
  <1>5. QED
    BY <1>3, <1>4

LEMMA HistoryRowsType ==
    ASSUME TypeOK, NEW p \in Proc, HistoryRows(p), live' \in [Obj -> Vers]
    PROVE  /\ rowCs' \in [Obj -> 0 .. MaxVer] /\ rowFp' \in [Obj -> Shapes]
           /\ migRow' \in [Trans -> Revs]
  <1>1. migRow' \in [Trans -> Revs]
    BY DEF TypeOK, HistoryRows
  <1>2. QED
    BY <1>1, ObjectRowsType DEF HistoryRows

\* What a transaction is opened for is in the list of its loop: with this fact
\* the types are inductive.
JobListed == \A p \in Proc : pc[p] \in TxPcs \cup {"rollback"} => job[p] \in todo[p]

LEMMA TypeEnvironment == TypeOK /\ Environment => TypeOK'
  <1> SUFFICES ASSUME TypeOK, Environment PROVE TypeOK'
    OBVIOUS
  <1>1. ASSUME NEW o \in Obj, NEW v \in 1 .. MaxVer, EditObject(o, v) PROVE TypeOK'
    BY <1>1 DEF TypeOK, EditObject, db, server, client, plan, loop
  <1>2. ASSUME NEW x \in Trans, NEW r \in 1 .. MaxRev, EditTransition(x, r) PROVE TypeOK'
    <2>1. r \in Revs
      BY BoundAssumption DEF Revs, GenRev
    <2>2. QED
      BY <1>2, <2>1 DEF TypeOK, EditTransition, db, server, client, plan, loop
  <1>3. ASSUME NEW o \in Obj, NEW v \in {0, Foreign}, OutOfBandDDL(o, v) PROVE TypeOK'
    <2>1. v \in Vers /\ 0 \in Vers
      BY BoundAssumption DEF Vers, Foreign
    <2>2. live' \in [Obj -> Vers] /\ eff' \in [Trans -> 0 .. 2]
      BY <1>3, <2>1 DEF TypeOK, OutOfBandDDL
    <2>3. QED
      BY <1>3, <2>2 DEF TypeOK, OutOfBandDDL, repo, server, client, plan, loop
  <1>4. QED
    BY <1>1, <1>2, <1>3 DEF Environment

\* The names of the control points, once.
LEMMA PcNames ==
    /\ {"plan", "gate", "filter", "schemas", "record", "rollback", "release"} \subseteq Pcs
    /\ {"begin", "body", "assert", "flush", "commit"} \subseteq Pcs
    /\ {"transitions", "objects", "modules"} \subseteq Pcs
    /\ {"idle", "acquire", "exited", "dead"} \subseteq Pcs
  BY DEF Pcs, LockedPcs, TxPcs, LoopPcs

LEMMA TypeStep == ASSUME TypeOK, JobListed, NEW p \in Proc, Step(p) PROVE TypeOK'
  <1> USE PcNames DEF repo, server, plan, loop, Goto, Stop, ExitCodes
  <1>t. {"none", "open", "body", "full"} = TxStates
    BY DEF TxStates
  <1>1. CASE Acquire(p)
    BY <1>1 DEF TypeOK, Acquire, db
  <1>2. CASE AcquireFails(p)
    BY <1>2 DEF TypeOK, AcquireFails, db, Late
  <1>3. CASE Plan(p)
    BY <1>3, DecideScenario DEF TypeOK, Plan, db
  <1>4. CASE GateBlocked(p)
    <2>1. tfile' \in [Trans -> Revs]
      BY <1>4, BoundAssumption DEF TypeOK, GateBlocked, Scaffold, Revs, GenRev
    <2>2. QED
      BY <1>4, <2>1 DEF TypeOK, GateBlocked, db
  <1>5. CASE GateRefused(p)
    BY <1>5 DEF TypeOK, GateRefused, db
  <1>6. CASE GatePassed(p)
    <2>1. pc \in [Proc -> Pcs]
      BY DEF TypeOK
    <2>2. pc' = [pc EXCEPT ![p] = "filter"] \/ pc' = [pc EXCEPT ![p] = "record"]
      BY <1>6 DEF GatePassed
    <2>3. pc' \in [Proc -> Pcs]
      BY <2>1, <2>2
    <2>4. QED
      BY <1>6, <2>3 DEF TypeOK, GatePassed, db
  <1>7. CASE Filter(p)
    <2>1. pc' \in [Proc -> Pcs]
      BY <1>7 DEF TypeOK, Filter
    <2>2. exit' \in [Proc -> ExitCodes]
      BY <1>7 DEF TypeOK, Filter
    <2>3. pend' = pend \/ pend' = [pend EXCEPT ![p] = Unapplied(p)]
      BY <1>7 DEF Filter
    <2>4. pend \in [Proc -> SUBSET Trans] /\ Unapplied(p) \in SUBSET Trans
      BY DEF TypeOK, Unapplied, PlannedTrans
    <2>5. pend' \in [Proc -> SUBSET Trans]
      BY <2>3, <2>4
    <2>6. QED
      BY <1>7, <2>1, <2>2, <2>5 DEF TypeOK, Filter, db
  <1>8. CASE Schemas(p)
    BY <1>8 DEF TypeOK, Schemas
  <1>9. CASE StatementFails(p)
    <2>1. pc' \in [Proc -> Pcs]
      BY <1>9 DEF TypeOK, StatementFails
    <2>2. exit' \in [Proc -> ExitCodes]
      BY <1>9 DEF TypeOK, StatementFails
    <2>3. conn' \in [Proc -> BOOLEAN]
      BY <1>9 DEF TypeOK, StatementFails, Lose, Refuse
    <2>4. tx' = tx \/ tx' = [tx EXCEPT ![p] = "none"]
      BY <1>9 DEF StatementFails, Lose, Refuse
    <2>5. tx' \in [Proc -> TxStates]
      BY <1>t, <2>4 DEF TypeOK
    <2>6. inflight' = inflight \/ \E z \in Outstanding(p) : inflight' = [inflight EXCEPT ![p] = z]
      BY <1>9 DEF StatementFails, Lose, Refuse
    <2>7. Outstanding(p) \subseteq Late \cup {"none"}
      BY DEF Outstanding
    <2>8. inflight' \in [Proc -> Late \cup {"none"}]
      BY <2>6, <2>7 DEF TypeOK
    <2>9. QED
      BY <1>9, <2>1, <2>2, <2>3, <2>5, <2>8 DEF TypeOK, StatementFails, db
  <1>10. CASE NextScript(p)
    <2>1. PICK a \in todo[p] :
            /\ \/ Goto(p, "begin") /\ UNCHANGED exit
               \/ Stop(p, 5)
               \/ UNCHANGED <<pc, exit>>
            /\ job' = job \/ job' = [job EXCEPT ![p] = a]
            /\ todo' = todo \/ todo' = [todo EXCEPT ![p] = @ \ {a}]
            /\ retry' = retry \/ retry' = [retry EXCEPT ![p] = @ \cup {a}]
      BY <1>10 DEF NextScript
    <2>2. /\ todo \in [Proc -> SUBSET (Obj \cup Trans)]
          /\ retry \in [Proc -> SUBSET (Obj \cup Trans)] /\ a \in Obj \cup Trans
      BY DEF TypeOK
    <2>3. pc' \in [Proc -> Pcs]
      <3>1. pc' = pc \/ pc' = [pc EXCEPT ![p] = "begin"] \/ pc' = [pc EXCEPT ![p] = "release"]
        BY <2>1
      <3>2. QED
        BY <3>1 DEF TypeOK
    <2>4. exit' \in [Proc -> ExitCodes]
      <3>1. exit' = exit \/ exit' = [exit EXCEPT ![p] = 5]
        BY <2>1
      <3>2. QED
        BY <3>1 DEF TypeOK
    <2>5. job' \in [Proc -> Obj \cup Trans \cup {None}]
      BY <2>1, <2>2 DEF TypeOK
    <2>6. todo' \in [Proc -> SUBSET (Obj \cup Trans)]
      <3>1. todo' = todo \/ todo' = [todo EXCEPT ![p] = todo[p] \ {a}]
        BY <2>1
      <3>2. QED
        BY <2>2, <3>1
    <2>7. retry' \in [Proc -> SUBSET (Obj \cup Trans)]
      <3>1. retry' = retry \/ retry' = [retry EXCEPT ![p] = retry[p] \cup {a}]
        BY <2>1
      <3>2. QED
        BY <2>2, <3>1
    <2>8. QED
      BY <1>10, <2>3, <2>4, <2>5, <2>6, <2>7 DEF TypeOK, NextScript, db
  <1>11. CASE TransitionsDone(p)
    BY <1>11 DEF TypeOK, TransitionsDone, db
  <1>12. CASE Record(p)
    <2>1. live' \in [Obj -> Vers]
      BY <1>12 DEF TypeOK, Record, RecordEffect
    <2>2. rowCs' \in [Obj -> 0 .. MaxVer] /\ rowFp' \in [Obj -> Shapes]
      BY <1>12, <2>1, ObjectRowsType DEF Record, RecordEffect
    <2>3. \/ Goto(p, "objects") /\ todo' = [todo EXCEPT ![p] = TxBatch(p)]
          \/ Goto(p, "release") /\ todo' = todo
      BY <1>12 DEF Record
    <2>4. pc' \in [Proc -> Pcs]
      BY <2>3 DEF TypeOK
    <2>5. TxBatch(p) \in SUBSET (Obj \cup Trans)
      BY DEF TxBatch, WithAction
    <2>6. todo' \in [Proc -> SUBSET (Obj \cup Trans)]
      BY <2>3, <2>5 DEF TypeOK
    <2>7. QED
      BY <1>12, <2>2, <2>4, <2>6 DEF TypeOK, Record, RecordEffect
  <1>13. CASE ObjectsDone(p)
    BY <1>13 DEF TypeOK, ObjectsDone, db, ModuleBatch, WithAction
  <1>14. CASE RoundDone(p)
    <2>1. pc' \in [Proc -> Pcs]
      BY <1>14, <1>t DEF TypeOK, RoundDone
    <2>2. exit' \in [Proc -> ExitCodes]
      BY <1>14, <1>t DEF TypeOK, RoundDone
    <2>3. todo' \in [Proc -> SUBSET (Obj \cup Trans)]
      BY <1>14, <1>t DEF TypeOK, RoundDone
    <2>4. retry' \in [Proc -> SUBSET (Obj \cup Trans)]
      BY <1>14, <1>t DEF TypeOK, RoundDone
    <2>5. progress' \in [Proc -> BOOLEAN]
      BY <1>14, <1>t DEF TypeOK, RoundDone
    <2>6. QED
      BY <1>14, <2>1, <2>2, <2>3, <2>4, <2>5 DEF TypeOK, RoundDone, db
  <1>15. CASE Begin(p)
    BY <1>15, <1>t DEF TypeOK, Begin, db
  <1>16. CASE Body(p)
    <2>1. live' \in [Obj -> Vers] /\ eff' \in [Trans -> 0 .. 2]
      BY <1>16, BodyEffectType DEF TypeOK, Body, db
    <2>2. QED
      BY <1>16, <1>t, <2>1 DEF TypeOK, Body, db
  <1>17. CASE AssertOpen(p)
    BY <1>17 DEF TypeOK, AssertOpen, db
  <1>18. CASE Flush(p)
    <2>1. live' \in [Obj -> Vers]
      BY <1>18 DEF TypeOK, Flush, db
    <2>2. /\ rowCs' \in [Obj -> 0 .. MaxVer] /\ rowFp' \in [Obj -> Shapes]
          /\ migRow' \in [Trans -> Revs]
      BY <1>18, <2>1, HistoryRowsType DEF TypeOK, Flush, db
    <2>3. QED
      BY <1>18, <1>t, <2>2 DEF TypeOK, Flush, db
  <1>19. CASE Commit(p)
    <2>1. live' \in [Obj -> Vers] /\ eff' \in [Trans -> 0 .. 2]
      BY <1>19, BodyEffectType DEF Commit, CommitUnit
    <2>2. /\ rowCs' \in [Obj -> 0 .. MaxVer] /\ rowFp' \in [Obj -> Shapes]
          /\ migRow' \in [Trans -> Revs]
      BY <1>19, <2>1, HistoryRowsType DEF Commit, CommitUnit
    <2>3. Back(p) \in Pcs
      BY DEF Back
    <2>4. QED
      BY <1>19, <1>t, <2>1, <2>2, <2>3 DEF TypeOK, Commit, CommitUnit
  <1>20. CASE TxFails(p)
    <2>1. pc' \in [Proc -> Pcs]
      BY <1>20 DEF TypeOK, TxFails
    <2>2. exit' \in [Proc -> ExitCodes]
      BY <1>20 DEF TypeOK, TxFails
    <2>3. conn' \in [Proc -> BOOLEAN]
      BY <1>20 DEF TypeOK, TxFails, Lose, Refuse
    <2>4. tx' = tx \/ tx' = [tx EXCEPT ![p] = "none"]
      BY <1>20 DEF TxFails, Lose, Refuse
    <2>5. tx' \in [Proc -> TxStates]
      BY <1>t, <2>4 DEF TypeOK
    <2>6. inflight' = inflight \/ \E z \in Outstanding(p) : inflight' = [inflight EXCEPT ![p] = z]
      BY <1>20 DEF TxFails, Lose, Refuse
    <2>7. Outstanding(p) \subseteq Late \cup {"none"}
      BY DEF Outstanding
    <2>8. inflight' \in [Proc -> Late \cup {"none"}]
      BY <2>6, <2>7 DEF TypeOK
    <2>9. QED
      BY <1>20, <2>1, <2>2, <2>3, <2>5, <2>8 DEF TypeOK, TxFails, db
  <1>21. CASE Rollback(p)
    <2> DEFINE j == job[p]
    <2>1. /\ todo \in [Proc -> SUBSET (Obj \cup Trans)]
          /\ retry \in [Proc -> SUBSET (Obj \cup Trans)]
      BY DEF TypeOK
    <2>2. j \in todo[p]
      BY <1>21 DEF Rollback, At, JobListed
    <2>3. pc' \in [Proc -> Pcs]
      <3>1. pc' = [pc EXCEPT ![p] = "release"] \/ pc' = [pc EXCEPT ![p] = "modules"]
        BY <1>21 DEF Rollback
      <3>2. QED
        BY <3>1 DEF TypeOK
    <2>4. exit' \in [Proc -> ExitCodes]
      <3>1. exit' = exit \/ exit' = [exit EXCEPT ![p] = 5]
        BY <1>21 DEF Rollback
      <3>2. QED
        BY <3>1 DEF TypeOK
    <2>5. todo' = todo \/ todo' = [todo EXCEPT ![p] = todo[p] \ {j}]
      BY <1>21 DEF Rollback
    <2>6. retry' = retry \/ retry' = [retry EXCEPT ![p] = retry[p] \cup {j}]
      BY <1>21 DEF Rollback
    <2>7. tx' \in [Proc -> TxStates] /\ job' \in [Proc -> Obj \cup Trans \cup {None}]
      BY <1>21, <1>t DEF TypeOK, Rollback
    <2> HIDE DEF j
    <2>8. todo' \in [Proc -> SUBSET (Obj \cup Trans)]
      BY <2>1, <2>5
    <2>9. retry' \in [Proc -> SUBSET (Obj \cup Trans)]
      BY <2>1, <2>2, <2>6
    <2>10. QED
      BY <1>21, <2>3, <2>4, <2>7, <2>8, <2>9 DEF TypeOK, Rollback, db
  <1>22. CASE RollbackFails(p)
    <2>1. pc' \in [Proc -> Pcs]
      BY <1>22 DEF TypeOK, RollbackFails
    <2>2. exit' \in [Proc -> ExitCodes]
      BY <1>22 DEF TypeOK, RollbackFails
    <2>3. conn' \in [Proc -> BOOLEAN]
      BY <1>22 DEF TypeOK, RollbackFails, Lose, Refuse
    <2>4. tx' = tx \/ tx' = [tx EXCEPT ![p] = "none"]
      BY <1>22 DEF RollbackFails, Lose, Refuse
    <2>5. tx' \in [Proc -> TxStates]
      BY <1>t, <2>4 DEF TypeOK
    <2>6. inflight' = inflight \/ \E z \in Outstanding(p) : inflight' = [inflight EXCEPT ![p] = z]
      BY <1>22 DEF RollbackFails, Lose, Refuse
    <2>7. Outstanding(p) \subseteq Late \cup {"none"}
      BY DEF Outstanding
    <2>8. inflight' \in [Proc -> Late \cup {"none"}]
      BY <2>6, <2>7 DEF TypeOK
    <2>9. QED
      BY <1>22, <2>1, <2>2, <2>3, <2>5, <2>8 DEF TypeOK, RollbackFails, db
  <1>23. CASE Release(p)
    BY <1>23 DEF TypeOK, Release, db
  <1>24. CASE ReleaseFails(p)
    <2>1. pc' \in [Proc -> Pcs]
      BY <1>24 DEF TypeOK, ReleaseFails
    <2>2. exit' \in [Proc -> ExitCodes]
      BY <1>24 DEF TypeOK, ReleaseFails
    <2>3. conn' \in [Proc -> BOOLEAN]
      BY <1>24 DEF TypeOK, ReleaseFails, Lose, Refuse
    <2>4. tx' = tx \/ tx' = [tx EXCEPT ![p] = "none"]
      BY <1>24 DEF ReleaseFails, Lose, Refuse
    <2>5. tx' \in [Proc -> TxStates]
      BY <1>t, <2>4 DEF TypeOK
    <2>6. inflight' = inflight \/ \E z \in Outstanding(p) : inflight' = [inflight EXCEPT ![p] = z]
      BY <1>24 DEF ReleaseFails, Lose, Refuse
    <2>7. Outstanding(p) \subseteq Late \cup {"none"}
      BY DEF Outstanding
    <2>8. inflight' \in [Proc -> Late \cup {"none"}]
      BY <2>6, <2>7 DEF TypeOK
    <2>9. QED
      BY <1>24, <2>1, <2>2, <2>3, <2>5, <2>8 DEF TypeOK, ReleaseFails, db
  <1>25. QED
    BY <1>1, <1>2, <1>3, <1>4, <1>5, <1>6, <1>7, <1>8, <1>9, <1>10, <1>11, <1>12, <1>13,
       <1>14, <1>15, <1>16, <1>17, <1>18, <1>19, <1>20, <1>21, <1>22, <1>23, <1>24
    DEF Step

LEMMA TypeServer ==
    ASSUME TypeOK, NEW p \in Proc, Crash(p) \/ OrphanExec(p) \/ OrphanClose(p) \/ Reap(p)
    PROVE  TypeOK'
  <1> USE PcNames DEF repo, plan, loop, Goto, ExitCodes
  <1>t. {"none", "open", "body", "full"} = TxStates
    BY DEF TxStates
  <1>1. CASE Crash(p)
    <2>1. inflight' = inflight \/ \E z \in Outstanding(p) : inflight' = [inflight EXCEPT ![p] = z]
      BY <1>1 DEF Crash
    <2>2. Outstanding(p) \subseteq Late \cup {"none"}
      BY DEF Outstanding
    <2>3. inflight' \in [Proc -> Late \cup {"none"}]
      BY <2>1, <2>2 DEF TypeOK
    <2>4. QED
      BY <1>1, <2>3 DEF TypeOK, Crash, db
  <1>2. CASE OrphanExec(p)
    <2>1. /\ live' \in [Obj -> Vers] /\ eff' \in [Trans -> 0 .. 2]
      BY <1>2, BodyEffectType DEF TypeOK, OrphanExec, CommitUnit, RecordEffect, db
    <2>2. rowCs' \in [Obj -> 0 .. MaxVer] /\ rowFp' \in [Obj -> Shapes] /\ migRow' \in [Trans -> Revs]
      <3>1. CASE UNCHANGED <<rowCs, rowFp, migRow>>
        BY <3>1 DEF TypeOK
      <3>2. CASE RecordEffect(p)
        BY <3>2, <2>1, ObjectRowsType DEF TypeOK, RecordEffect
      <3>3. CASE CommitUnit(p)
        BY <3>3, <2>1, HistoryRowsType DEF CommitUnit
      <3>4. QED
        BY <1>2, <3>1, <3>2, <3>3 DEF OrphanExec, db
    <2>3. schema' \in BOOLEAN /\ lock' \in Proc \cup {None}
      BY <1>2 DEF TypeOK, OrphanExec, CommitUnit, RecordEffect, db
    <2>4. tx' \in [Proc -> TxStates]
      <3>1. tx' = tx \/ tx' = [tx EXCEPT ![p] = "none"]
        BY <1>2 DEF OrphanExec
      <3>2. QED
        BY <3>1, <1>t DEF TypeOK
    <2>5. inflight' \in [Proc -> Late \cup {"none"}]
      BY <1>2 DEF TypeOK, OrphanExec
    <2>6. UNCHANGED <<repo, sess, client>>
      BY <1>2 DEF OrphanExec
    <2>7. QED
      BY <2>1, <2>2, <2>3, <2>4, <2>5, <2>6 DEF TypeOK, client
  <1>3. CASE OrphanClose(p)
    BY <1>3, <1>t DEF TypeOK, OrphanClose, db, client
  <1>4. CASE Reap(p)
    <2>1. 0 \in 0 .. MaxVer /\ 0 \in Revs /\ NoScenario \in [Obj -> Scenarios]
      BY BoundAssumption DEF Revs, GenRev, NoScenario, Scenarios
    <2>2. QED
      BY <1>4, <2>1 DEF TypeOK, Reap, db, server
  <1>5. QED
    BY <1>1, <1>2, <1>3, <1>4

LEMMA TypeStart ==
    ASSUME TypeOK, NEW p \in Proc, NEW c \in Commands, Start(p, c)
    PROVE  TypeOK'
  <1>1. \A o \in Obj : file[o] \in 0 .. MaxVer
    BY BoundAssumption DEF TypeOK
  <1>2. file \in [Obj -> 0 .. MaxVer]
    BY <1>1 DEF TypeOK
  <1>3. c \in {"none", "migrate", "baseline", "repair"}
    BY ModeAssumption
  <1>4. QED
    BY <1>2, <1>3, PcNames DEF TypeOK, Start, Goto, repo, db, loop

LEMMA JobListedNext == ASSUME TypeOK, JobListed, Next PROVE JobListed'
  <1>0. /\ pc \in [Proc -> Pcs] /\ todo \in [Proc -> SUBSET (Obj \cup Trans)]
        /\ job \in [Proc -> Obj \cup Trans \cup {None}]
    BY DEF TypeOK
  <1> USE <1>0 DEF JobListed, At, Goto, Stop, TxPcs, LoopPcs, plan, loop
  <1>1. CASE Environment
    BY <1>1 DEF Environment, EditObject, EditTransition, OutOfBandDDL, client
  <1>2. ASSUME NEW p \in Proc, NEW c \in Commands, Start(p, c) PROVE JobListed'
    BY <1>2 DEF Start
  <1>3. ASSUME NEW p \in Proc, Step(p) PROVE JobListed'
    <2>1. CASE Acquire(p) \/ AcquireFails(p)
      BY <2>1 DEF Acquire, AcquireFails
    <2>2. CASE Plan(p) \/ GateBlocked(p) \/ GateRefused(p) \/ GatePassed(p)
      BY <2>2 DEF Plan, GateBlocked, GateRefused, GatePassed
    <2>3. CASE Filter(p) \/ Schemas(p)
      BY <2>3 DEF Filter, Schemas
    <2>4. CASE StatementFails(p)
      BY <2>4 DEF StatementFails
    <2>5. CASE NextScript(p)
      BY <2>5 DEF NextScript
    <2>6. CASE TransitionsDone(p) \/ Record(p) \/ ObjectsDone(p)
      BY <2>6 DEF TransitionsDone, Record, ObjectsDone
    <2>7. CASE RoundDone(p)
      BY <2>7 DEF RoundDone
    <2>8. CASE Begin(p) \/ Body(p) \/ AssertOpen(p) \/ Flush(p)
      BY <2>8 DEF Begin, Body, AssertOpen, Flush
    <2>9. CASE Commit(p)
      BY <2>9 DEF Commit, Back
    <2>10. CASE TxFails(p)
      BY <2>10 DEF TxFails
    <2>11. CASE Rollback(p)
      BY <2>11 DEF Rollback
    <2>12. CASE RollbackFails(p) \/ Release(p) \/ ReleaseFails(p)
      BY <2>12 DEF RollbackFails, Release, ReleaseFails
    <2>13. QED
      BY <1>3, <2>1, <2>2, <2>3, <2>4, <2>5, <2>6, <2>7, <2>8, <2>9, <2>10, <2>11, <2>12
      DEF Step
  <1>4. ASSUME NEW p \in Proc, Crash(p) \/ OrphanExec(p) \/ OrphanClose(p) \/ Reap(p)
        PROVE  JobListed'
    BY <1>4 DEF Crash, OrphanExec, OrphanClose, Reap, client
  <1>5. QED
    BY <1>1, <1>2, <1>3, <1>4 DEF Next

\* Every reachable state of the program has the types of TypeOK, whatever the
\* repository, the number of processes and the faults.
THEOREM TypeCorrect == Spec => []TypeOK
  <1>1. Init => TypeOK /\ JobListed
    BY TypeInit DEF Init, JobListed, TxPcs
  <1>2. TypeOK /\ JobListed /\ [Next]_vars => TypeOK' /\ JobListed'
    <2> SUFFICES ASSUME TypeOK, JobListed, [Next]_vars PROVE TypeOK' /\ JobListed'
      OBVIOUS
    <2>1. CASE Next
      BY <2>1, JobListedNext, TypeEnvironment, TypeStart, TypeStep, TypeServer DEF Next
    <2>2. CASE UNCHANGED vars
      BY <2>2 DEF TypeOK, JobListed, vars, repo, db, server, client, plan, loop
    <2>3. QED
      BY <2>1, <2>2
  <1>3. QED
    BY <1>1, <1>2, PTL DEF Spec

-----------------------------------------------------------------------------
(* Only the lock holder can write. *)

LockInv == SessionInv /\ WritesUnderLock

LEMMA LockInvInit == Init => LockInv
  BY ProcAssumption
  DEF Init, LockInv, SessionInv, WritesUnderLock, CanWrite, Late, LockedPcs, TxPcs, LoopPcs

LEMMA LockInvNext == ASSUME TypeOK, LockInv, Next PROVE LockInv'
  <1>0. /\ pc \in [Proc -> Pcs] /\ conn \in [Proc -> BOOLEAN] /\ sess \in [Proc -> BOOLEAN]
        /\ tx \in [Proc -> TxStates] /\ inflight \in [Proc -> Late \cup {"none"}]
        /\ lock \in Proc \cup {None}
    BY DEF TypeOK
  <1> USE <1>0, ProcAssumption
      DEF LockInv, SessionInv, WritesUnderLock, CanWrite, At, Goto, Stop, Late,
          LockedPcs, TxPcs, LoopPcs, plan, loop, server
  <1>1. CASE Environment
    BY <1>1 DEF Environment, EditObject, EditTransition, OutOfBandDDL, client
  <1>2. ASSUME NEW p \in Proc, NEW c \in Commands, Start(p, c) PROVE LockInv'
    BY <1>2 DEF Start
  <1>3. ASSUME NEW p \in Proc, Step(p) PROVE LockInv'
    <2>1. CASE Acquire(p)
      BY <2>1 DEF Acquire
    <2>2. CASE AcquireFails(p)
      BY <2>2 DEF AcquireFails
    <2>3. CASE Plan(p) \/ GateBlocked(p) \/ GateRefused(p) \/ GatePassed(p)
      BY <2>3 DEF Plan, GateBlocked, GateRefused, GatePassed
    <2>4. CASE Filter(p) \/ Schemas(p)
      BY <2>4 DEF Filter, Schemas
    <2>5. CASE StatementFails(p)
      BY <2>5 DEF StatementFails, Lose, Refuse, Outstanding
    <2>6. CASE NextScript(p)
      BY <2>6 DEF NextScript
    <2>7. CASE TransitionsDone(p) \/ Record(p) \/ ObjectsDone(p)
      BY <2>7 DEF TransitionsDone, Record, ObjectsDone
    <2>8. CASE RoundDone(p)
      BY <2>8 DEF RoundDone
    <2>9. CASE Begin(p) \/ Body(p) \/ AssertOpen(p) \/ Flush(p)
      BY <2>9 DEF Begin, Body, AssertOpen, Flush
    <2>10. CASE Commit(p)
      BY <2>10 DEF Commit, Back
    <2>11. CASE TxFails(p)
      BY <2>11 DEF TxFails, Lose, Refuse, Outstanding
    <2>12. CASE Rollback(p)
      BY <2>12 DEF Rollback
    <2>13. CASE RollbackFails(p) \/ ReleaseFails(p)
      BY <2>13 DEF RollbackFails, ReleaseFails, Lose, Outstanding
    <2>14. CASE Release(p)
      BY <2>14 DEF Release
    <2>15. QED
      BY <1>3, <2>1, <2>2, <2>3, <2>4, <2>5, <2>6, <2>7, <2>8, <2>9, <2>10, <2>11, <2>12,
         <2>13, <2>14 DEF Step
  <1>4. ASSUME NEW p \in Proc, Crash(p) \/ OrphanExec(p) \/ OrphanClose(p) \/ Reap(p)
        PROVE  LockInv'
    <2>1. CASE Crash(p)
      BY <2>1 DEF Crash, Outstanding
    <2>2. CASE OrphanExec(p)
      BY <2>2 DEF OrphanExec, client
    <2>3. CASE OrphanClose(p)
      BY <2>3 DEF OrphanClose, client
    <2>4. CASE Reap(p)
      BY <2>4 DEF Reap
    <2>5. QED
      BY <1>4, <2>1, <2>2, <2>3, <2>4
  <1>5. QED
    BY <1>1, <1>2, <1>3, <1>4 DEF Next

LEMMA LockInvStutter == LockInv /\ UNCHANGED vars => LockInv'
  BY DEF LockInv, SessionInv, WritesUnderLock, CanWrite, vars, server, client, plan, loop

\* Whatever fails, crashes or is executed late, only the session that holds the
\* advisory lock can change the database or its history.
THEOREM LockSafety == Spec => []WritesUnderLock
  <1>1. Spec => [](TypeOK /\ LockInv)
    <2>1. Init => LockInv
      BY LockInvInit
    <2>2. TypeOK /\ LockInv /\ [Next]_vars => LockInv'
      BY LockInvNext, LockInvStutter
    <2>3. QED
      BY <2>1, <2>2, TypeCorrect, PTL DEF Spec
  <1>2. QED
    BY <1>1, PTL DEF LockInv

-----------------------------------------------------------------------------
(* No transition is applied twice. *)

LEMMA WorkInvInit == Init => WorkInv
  BY DEF Init, WorkInv, InTx, NoScenario, ActionOf, TxPcs

\* A step that leaves the plan and the lists alone keeps WorkInv if it enters
\* neither a transaction nor an earlier phase.
LEMMA WorkKept ==
    ASSUME WorkInv, UNCHANGED <<wsRev, scen, pend, todo, retry, job>>,
           \A p \in Proc : /\ InTx(p)' => InTx(p)
                           /\ pc'[p] \in Early \cup {"schemas"} => pc[p] \in Early \cup {"schemas"}
                           /\ pc'[p] \in Early => pc[p] \in Early
                           /\ pc'[p] = "modules" => pc[p] = "modules"
    PROVE  WorkInv'
  BY DEF WorkInv

LEMMA WorkInvNext == ASSUME TypeOK, LockInv, WorkInv, Next PROVE WorkInv'
  <1>0. pc \in [Proc -> Pcs] /\ tx \in [Proc -> TxStates]
    BY DEF TypeOK
  <1>1. CASE Environment
    BY <1>1, WorkKept
    DEF Environment, EditObject, EditTransition, OutOfBandDDL, client, plan, loop, server, InTx
  <1>2. ASSUME NEW p \in Proc, NEW c \in Commands, Start(p, c) PROVE WorkInv'
    <2>1. /\ wsRev' = [wsRev EXCEPT ![p] = tfile] /\ pc' = [pc EXCEPT ![p] = "acquire"]
          /\ pc[p] = "idle" /\ UNCHANGED <<tx, scen, pend, todo, retry, job>>
      BY <1>2 DEF Start, Goto, loop
    <2>2. wsRev \in [Proc -> [Trans -> Revs]]
      BY DEF TypeOK
    <2>3. QED
      BY <1>0, <2>1, <2>2 DEF WorkInv, InTx, Early, TxPcs
  <1>3. ASSUME NEW p \in Proc, Step(p) PROVE WorkInv'
    <2>k. ASSUME UNCHANGED <<wsRev, scen, pend, todo, retry, job>>, NEW l,
                 pc' = [pc EXCEPT ![p] = l],
                 tx' = tx \/ (\E z : tx' = [tx EXCEPT ![p] = z] /\ z = "none")
                   \/ (pc[p] \in TxPcs /\ \E z : tx' = [tx EXCEPT ![p] = z]),
                 l \in TxPcs \cup {"rollback"} => pc[p] \in TxPcs \cup {"rollback"},
                 l \in Early => pc[p] \in Early,
                 l = "schemas" => pc[p] = "schemas", l = "modules" => pc[p] = "modules"
          PROVE  WorkInv'
      <3>1. \A r \in Proc : InTx(r)' => InTx(r)
        BY <1>0, <2>k DEF InTx
      <3>2. \A r \in Proc : /\ pc'[r] \in Early \cup {"schemas"} => pc[r] \in Early \cup {"schemas"}
                            /\ pc'[r] \in Early => pc[r] \in Early
                            /\ pc'[r] = "modules" => pc[r] = "modules"
        BY <1>0, <2>k DEF Early
      <3>3. QED
        BY <2>k, <3>1, <3>2, WorkKept
    <2> USE DEF Goto, Stop, At, plan, loop, server
    <2>1. CASE Acquire(p) \/ AcquireFails(p)
      BY <2>1, <2>k DEF Acquire, AcquireFails, TxPcs, Early
    <2>2. CASE Plan(p)
      <3>1. scen \in [Proc -> [Obj -> Scenarios]]
        BY DEF TypeOK
      <3>2. /\ scen' = [scen EXCEPT ![p] = [o \in Obj |-> DecideObject(p, o)]]
            /\ pc' = [pc EXCEPT ![p] = "gate"] /\ pc[p] = "plan"
            /\ UNCHANGED <<tx, wsRev, pend, todo, retry, job>>
        BY <2>2 DEF Plan
      <3>3. QED
        BY <1>0, <3>1, <3>2, DecideScenario DEF WorkInv, InTx, Early, TxPcs
    <2>3. CASE GateBlocked(p) \/ GateRefused(p) \/ GatePassed(p)
      BY <2>3, <2>k DEF GateBlocked, GateRefused, GatePassed, TxPcs, Early
    <2>4. CASE Filter(p)
      <3>1. CASE Stop(p, 8) /\ UNCHANGED pend
        BY <2>4, <2>k, <3>1 DEF Filter, TxPcs, Early
      <3>2. CASE /\ pc' = [pc EXCEPT ![p] = "schemas"] /\ pc[p] = "filter"
                 /\ pend' = [pend EXCEPT ![p] = Unapplied(p)]
                 /\ UNCHANGED <<tx, wsRev, scen, todo, retry, job>>
        <4>1. pend \in [Proc -> SUBSET Trans] /\ \A x \in Unapplied(p) : wsRev[p][x] # 0
          BY DEF TypeOK, Unapplied, PlannedTrans
        <4>2. QED
          BY <1>0, <3>2, <4>1 DEF WorkInv, InTx, Early, TxPcs
      <3>3. QED
        BY <2>4, <3>1, <3>2 DEF Filter
    <2>5. CASE Schemas(p)
      <3>1. /\ pc' = [pc EXCEPT ![p] = "transitions"] /\ pc[p] = "schemas"
            /\ todo' = [todo EXCEPT ![p] = pend[p]]
            /\ UNCHANGED <<tx, wsRev, scen, pend, retry, job>>
        BY <2>5 DEF Schemas
      <3>2. /\ todo \in [Proc -> SUBSET (Obj \cup Trans)] /\ pend \in [Proc -> SUBSET Trans]
        BY DEF TypeOK
      <3>3. tx[p] = "none"
        BY <2>5 DEF Schemas, LockInv, SessionInv, TxPcs
      <3>4. QED
        BY <1>0, <3>1, <3>2, <3>3, ObjAssumption DEF WorkInv, InTx, Early, TxPcs
    <2>6. CASE StatementFails(p)
      BY <2>6, <2>k DEF StatementFails, Lose, Refuse, TxPcs, Early
    <2>7. CASE NextScript(p)
      <3>1. PICK a \in todo[p] :
              /\ pc[p] \in LoopPcs /\ UNCHANGED <<tx, wsRev, scen, pend>>
              /\ \/ /\ pc' = [pc EXCEPT ![p] = "begin"] /\ job' = [job EXCEPT ![p] = a]
                    /\ UNCHANGED <<todo, retry>>
                 \/ pc' = [pc EXCEPT ![p] = "release"] /\ UNCHANGED <<todo, retry, job>>
                 \/ /\ todo' = [todo EXCEPT ![p] = todo[p] \ {a}]
                    /\ retry' = [retry EXCEPT ![p] = retry[p] \cup {a}]
                    /\ pc[p] = "modules" /\ UNCHANGED <<pc, job>>
        BY <2>7 DEF NextScript
      <3>2. tx[p] = "none"
        BY <2>7 DEF NextScript, LockInv, SessionInv, LoopPcs, TxPcs
      <3>3. CASE pc' = [pc EXCEPT ![p] = "begin"] /\ job' = [job EXCEPT ![p] = a]
                   /\ UNCHANGED <<todo, retry>>
        <4>1. job \in [Proc -> Obj \cup Trans \cup {None}]
          BY DEF TypeOK
        <4>2. QED
          BY <1>0, <3>1, <3>3, <4>1 DEF WorkInv, InTx, Early
      <3>4. CASE pc' = [pc EXCEPT ![p] = "release"] /\ UNCHANGED <<todo, retry, job>>
        BY <2>k, <3>1, <3>4 DEF TxPcs, Early
      <3>5. CASE /\ todo' = [todo EXCEPT ![p] = todo[p] \ {a}]
                 /\ retry' = [retry EXCEPT ![p] = retry[p] \cup {a}]
                 /\ pc[p] = "modules" /\ UNCHANGED <<pc, job>>
        <4>1. /\ todo \in [Proc -> SUBSET (Obj \cup Trans)]
              /\ retry \in [Proc -> SUBSET (Obj \cup Trans)]
          BY DEF TypeOK
        <4>2. ~InTx(p) /\ pc[p] \notin Early \cup {"schemas"}
          BY <3>1, <3>2 DEF InTx, Early, LoopPcs, TxPcs
        <4>3. /\ \A r \in Proc \ {p} : todo'[r] = todo[r] /\ retry'[r] = retry[r]
              /\ todo'[p] = todo[p] \ {a} /\ retry'[p] = retry[p] \cup {a}
              /\ \A r \in Proc : InTx(r)' = InTx(r)
          BY <3>1, <3>5, <4>1 DEF InTx
        <4>4. QED
          BY <3>1, <3>5, <4>2, <4>3 DEF WorkInv
      <3>6. QED
        BY <3>1, <3>3, <3>4, <3>5
    <2>8. CASE TransitionsDone(p)
      BY <2>8, <2>k DEF TransitionsDone, TxPcs, Early
    <2>9. CASE Record(p) \/ ObjectsDone(p)
      <3>1. /\ pc[p] \in {"record", "objects"} /\ UNCHANGED <<tx, wsRev, scen, pend, retry, job>>
            /\ \E l \in {"objects", "modules", "release"} : pc' = [pc EXCEPT ![p] = l]
            /\ \/ todo' = todo /\ pc' = [pc EXCEPT ![p] = "release"]
               \/ todo' = [todo EXCEPT ![p] = TxBatch(p)]
               \/ todo' = [todo EXCEPT ![p] = ModuleBatch(p)]
        BY <2>9 DEF Record, ObjectsDone
      <3>2. tx[p] = "none"
        BY <2>9 DEF Record, ObjectsDone, LockInv, SessionInv, TxPcs
      <3>3. /\ todo \in [Proc -> SUBSET (Obj \cup Trans)]
            /\ TxBatch(p) \subseteq Obj /\ ModuleBatch(p) \subseteq Obj
            /\ \A o \in TxBatch(p) \cup ModuleBatch(p) :
                  ActionOf(scen[p][o]) \in {"CreateObject", "UpdateExistingModule"}
        BY DEF TypeOK, TxBatch, ModuleBatch, WithAction
      <3>4. /\ \A r \in Proc \ {p} : todo'[r] = todo[r] /\ pc'[r] = pc[r]
            /\ todo'[p] \in {TxBatch(p), ModuleBatch(p)} \/ (todo'[p] = todo[p] /\ pc'[p] = "release")
            /\ pc'[p] \in {"objects", "modules", "release"}
        BY <1>0, <3>1, <3>3
      <3>5. \A r \in Proc \ {p} : InTx(r)' = InTx(r)
        BY <3>1, <3>4 DEF InTx
      <3>6. ~InTx(p)' /\ pc'[p] \notin Early \cup {"schemas"}
        BY <3>1, <3>2, <3>4 DEF InTx, Early, TxPcs
      <3>7. QED
        BY <3>1, <3>3, <3>4, <3>5, <3>6, ObjAssumption DEF WorkInv
    <2>10. CASE RoundDone(p)
      <3>1. CASE UNCHANGED <<todo, retry>>
        <4>1. PICK l \in {"modules", "release"} : pc' = [pc EXCEPT ![p] = l]
          BY <2>10, <3>1, <1>0 DEF RoundDone
        <4>2. pc[p] = "modules"
          BY <2>10 DEF RoundDone
        <4>3. QED
          BY <2>10, <2>k, <3>1, <4>1, <4>2 DEF RoundDone, TxPcs, Early
      <3>2. CASE /\ todo' = [todo EXCEPT ![p] = retry[p]] /\ retry' = [retry EXCEPT ![p] = {}]
                 /\ UNCHANGED pc
        <4>1. /\ todo \in [Proc -> SUBSET (Obj \cup Trans)]
              /\ retry \in [Proc -> SUBSET (Obj \cup Trans)]
          BY DEF TypeOK
        <4>2. UNCHANGED <<tx, wsRev, scen, pend, job>> /\ pc[p] = "modules" /\ tx[p] = "none"
          BY <2>10 DEF RoundDone, LockInv, SessionInv, TxPcs
        <4>3. /\ \A r \in Proc \ {p} : todo'[r] = todo[r] /\ retry'[r] = retry[r]
              /\ todo'[p] = retry[p] /\ retry'[p] = {}
              /\ \A r \in Proc : InTx(r)' = InTx(r)
          BY <3>2, <4>1, <4>2 DEF InTx
        <4>4. ~InTx(p) /\ pc[p] \notin Early \cup {"schemas"}
          BY <4>2 DEF InTx, Early, TxPcs
        <4>5. \A r \in Proc : retry[r] \subseteq Obj
          BY DEF WorkInv
        <4>6. \A x \in Trans : x \notin retry[p]
          BY <4>5, ObjAssumption
        <4>7. QED
          BY <3>2, <4>2, <4>3, <4>4, <4>5, <4>6 DEF WorkInv
      <3>3. QED
        BY <2>10, <3>1, <3>2 DEF RoundDone
    <2>11. CASE Begin(p) \/ Body(p) \/ AssertOpen(p) \/ Flush(p)
      BY <2>11, <2>k DEF Begin, Body, AssertOpen, Flush, TxPcs, Early
    <2>12. CASE Commit(p) \/ Rollback(p)
      <3>1. PICK l \in LoopPcs \cup {"release"} : pc' = [pc EXCEPT ![p] = l]
        BY <2>12 DEF Commit, Rollback, Back, LoopPcs
      <3>2. /\ UNCHANGED <<wsRev, scen, pend>> /\ tx' = [tx EXCEPT ![p] = "none"]
            /\ job' = [job EXCEPT ![p] = None]
            /\ todo' = todo \/ todo' = [todo EXCEPT ![p] = todo[p] \ {job[p]}]
            /\ \/ retry' = retry
               \/ retry' = [retry EXCEPT ![p] = retry[p] \cup {job[p]}] /\ job[p] \notin Trans
            /\ l = "modules" => job[p] \notin Trans
            /\ pc[p] \in {"commit", "rollback"}
        BY <1>0, <2>12, <3>1 DEF Commit, Rollback, Back
      <3>3. job[p] \in todo[p]
        BY <3>2 DEF WorkInv, InTx, TxPcs
      <3>4. /\ todo \in [Proc -> SUBSET (Obj \cup Trans)]
            /\ retry \in [Proc -> SUBSET (Obj \cup Trans)]
            /\ job \in [Proc -> Obj \cup Trans \cup {None}]
        BY DEF TypeOK
      <3>5. /\ \A r \in Proc \ {p} : /\ todo'[r] = todo[r] /\ retry'[r] = retry[r]
                                     /\ pc'[r] = pc[r] /\ tx'[r] = tx[r] /\ job'[r] = job[r]
            /\ tx'[p] = "none" /\ pc'[p] \in LoopPcs \cup {"release"}
            /\ pc'[p] = "modules" => job[p] \notin Trans
        BY <1>0, <3>1, <3>2, <3>4
      <3>6. /\ todo'[p] \subseteq todo[p]
            /\ retry'[p] = retry[p] \/ (job[p] \notin Trans /\ retry'[p] = retry[p] \cup {job[p]})
        BY <3>2, <3>4
      <3>o. job[p] \notin Trans => job[p] \in Obj /\ todo[p] \subseteq Obj
        BY <3>3, <3>4 DEF WorkInv
      <3>7. \A r \in Proc \ {p} : InTx(r)' = InTx(r)
        BY <3>5 DEF InTx
      <3>8. ~InTx(p)' /\ pc'[p] \notin Early \cup {"schemas"}
        BY <3>5 DEF InTx, Early, LoopPcs, TxPcs
      <3>9. QED
        BY <3>2, <3>3, <3>5, <3>6, <3>7, <3>8, <3>o DEF WorkInv
    <2>13. CASE TxFails(p)
      BY <2>13, <2>k DEF TxFails, Lose, Refuse, TxPcs, Early
    <2>14. CASE RollbackFails(p) \/ Release(p) \/ ReleaseFails(p)
      BY <2>14, <2>k DEF RollbackFails, Release, ReleaseFails, Lose, TxPcs, Early
    <2>15. QED
      BY <1>3, <2>1, <2>2, <2>3, <2>4, <2>5, <2>6, <2>7, <2>8, <2>9, <2>10, <2>11, <2>12,
         <2>13, <2>14 DEF Step
  <1>4. ASSUME NEW p \in Proc, Crash(p) \/ OrphanExec(p) \/ OrphanClose(p)
        PROVE  WorkInv'
    <2>1. UNCHANGED <<wsRev, scen, pend, todo, retry, job>>
      BY <1>4 DEF Crash, OrphanExec, OrphanClose, client, plan, loop
    <2>2. tx' = tx \/ tx' = [tx EXCEPT ![p] = "none"]
      BY <1>4 DEF Crash, OrphanExec, OrphanClose
    <2>3. pc' = pc \/ pc' = [pc EXCEPT ![p] = "dead"]
      BY <1>4 DEF Crash, OrphanExec, OrphanClose, client, Goto
    <2>4. \A r \in Proc : (tx'[r] = tx[r] \/ tx'[r] = "none") /\ (pc'[r] = pc[r] \/ pc'[r] = "dead")
      BY <1>0, <2>2, <2>3
    <2>5. QED
      BY <2>1, <2>4, WorkKept DEF InTx, Early, TxPcs
  <1>5. ASSUME NEW p \in Proc, Reap(p) PROVE WorkInv'
    <2>1. /\ wsRev' = [wsRev EXCEPT ![p] = [x \in Trans |-> 0]]
          /\ scen' = [scen EXCEPT ![p] = NoScenario] /\ pend' = [pend EXCEPT ![p] = {}]
          /\ todo' = [todo EXCEPT ![p] = {}] /\ retry' = [retry EXCEPT ![p] = {}]
          /\ job' = [job EXCEPT ![p] = None] /\ pc' = [pc EXCEPT ![p] = "idle"]
          /\ tx' = tx /\ tx[p] = "none"
      BY <1>5 DEF Reap, Goto, server, LockInv, SessionInv
    <2>2. /\ wsRev \in [Proc -> [Trans -> Revs]] /\ scen \in [Proc -> [Obj -> Scenarios]]
          /\ pend \in [Proc -> SUBSET Trans] /\ todo \in [Proc -> SUBSET (Obj \cup Trans)]
          /\ retry \in [Proc -> SUBSET (Obj \cup Trans)]
          /\ job \in [Proc -> Obj \cup Trans \cup {None}]
      BY DEF TypeOK
    <2>3. \A r \in Proc \ {p} :
             /\ wsRev'[r] = wsRev[r] /\ scen'[r] = scen[r] /\ pend'[r] = pend[r]
             /\ todo'[r] = todo[r] /\ retry'[r] = retry[r] /\ job'[r] = job[r] /\ pc'[r] = pc[r]
      BY <1>0, <2>1, <2>2
    <2>4. /\ pend'[p] = {} /\ todo'[p] = {} /\ retry'[p] = {} /\ pc'[p] = "idle"
          /\ \A o \in Obj : ActionOf(scen'[p][o]) = "SkipUnchanged"
      BY <1>0, <2>1, <2>2 DEF NoScenario, ActionOf
    <2>5. /\ \A r \in Proc \ {p} : InTx(r)' = InTx(r)
          /\ ~InTx(p)'
      BY <2>1, <2>3, <2>4 DEF InTx, TxPcs
    <2>6. QED
      BY <2>3, <2>4, <2>5 DEF WorkInv
  <1>6. QED
    BY <1>1, <1>2, <1>3, <1>4, <1>5 DEF Next

LEMMA WorkInvStutter == WorkInv /\ UNCHANGED vars => WorkInv'
  BY DEF WorkInv, InTx, vars, server, client, plan, loop

\* The commit of a unit by a session that may write applies a transition at most
\* once, and records what it applies.
LEMMA CommitExact ==
    ASSUME TypeOK, WorkInv, PendingInv, ExactlyOnce,
           NEW p \in Proc, CanWrite(p), InTx(p), CommitUnit(p)
    PROVE  /\ ExactlyOnce'
           /\ \A x \in todo[p] \ {job[p]} : x \in Trans => migRow'[x] = migRow[x]
  <1>0. /\ eff \in [Trans -> 0 .. 2] /\ migRow \in [Trans -> Revs]
        /\ wsRev \in [Proc -> [Trans -> Revs]]
        /\ todo \in [Proc -> SUBSET (Obj \cup Trans)]
    BY DEF TypeOK
  <1>1. job[p] \in todo[p]
    BY DEF WorkInv
  <1>2. migRow' = [x \in Trans |-> IF x \in MigrationRows(p) THEN wsRev[p][x] ELSE migRow[x]]
    BY DEF CommitUnit, HistoryRows
  <1>3. CASE job[p] \in Trans
    <2>1. eff' = [eff EXCEPT ![job[p]] = More(eff[job[p]])] /\ MigrationRows(p) = {job[p]}
      BY <1>3 DEF CommitUnit, BodyEffect, MigrationRows
    <2>2. migRow[job[p]] = 0 /\ wsRev[p][job[p]] # 0
      BY <1>1, <1>3 DEF PendingInv, WorkInv
    <2>3. eff[job[p]] = 0
      BY <1>0, <1>3, <2>2 DEF ExactlyOnce
    <2>4. eff'[job[p]] = 1 /\ migRow'[job[p]] # 0
      BY <1>0, <1>2, <1>3, <2>1, <2>2, <2>3 DEF More
    <2>5. \A x \in Trans \ {job[p]} : eff'[x] = eff[x] /\ migRow'[x] = migRow[x]
      BY <1>0, <1>2, <2>1
    <2>6. QED
      BY <1>0, <2>4, <2>5 DEF ExactlyOnce
  <1>4. CASE job[p] \notin Trans
    <2>1. job[p] \in Obj /\ todo[p] \subseteq Obj
      BY <1>0, <1>1, <1>4 DEF WorkInv
    <2>2. eff' = [x \in Trans |-> IF TableOf[x] # job[p] THEN eff[x]
                                  ELSE IF wsRev[p][x] # 0 THEN 1 ELSE 0]
      BY <1>4 DEF CommitUnit, BodyEffect
    <2>3. scen[p][job[p]] = "Create" \/ Kind[job[p]] \in ModuleKinds
      BY <1>1, <2>1 DEF WorkInv
    <2>4. \A x \in Trans : TableOf[x] = job[p] => scen[p][job[p]] = "Create"
      BY <2>3, TransAssumption DEF ModuleKinds
    <2>5. ASSUME NEW x \in Trans PROVE eff'[x] <= 1 /\ (eff'[x] > 0 => migRow'[x] # 0)
      <3>1. CASE TableOf[x] = job[p]
        <4>1. wsRev[p][x] # 0 => x \in MigrationRows(p)
          BY <1>4, <2>4, <3>1 DEF MigrationRows, TransOf
        <4>2. wsRev[p][x] # 0 => migRow'[x] # 0
          BY <1>2, <4>1
        <4>3. eff'[x] = IF wsRev[p][x] # 0 THEN 1 ELSE 0
          BY <2>2, <3>1
        <4>4. QED
          BY <4>2, <4>3
      <3>2. CASE TableOf[x] # job[p]
        <4>1. x \notin MigrationRows(p)
          BY <1>4, <3>2 DEF MigrationRows, TransOf
        <4>2. eff'[x] = eff[x] /\ migRow'[x] = migRow[x]
          BY <1>2, <2>2, <3>2, <4>1
        <4>3. QED
          BY <4>2 DEF ExactlyOnce
      <3>3. QED
        BY <3>1, <3>2
    <2>6. QED
      BY <2>1, <2>5, ObjAssumption DEF ExactlyOnce
  <1>5. QED
    BY <1>3, <1>4

\* A step that applies and records no transition, lets no other session write
\* and adds no transition to a list.
LEMMA PendingKept ==
    ASSUME PendingInv, UNCHANGED <<migRow, pend>>,
           \A r \in Proc : /\ CanWrite(r)' => CanWrite(r)
                           /\ \A x \in Trans : x \in todo'[r] => x \in todo[r]
                           /\ At(r, "schemas")' => At(r, "schemas")
    PROVE  PendingInv'
  BY DEF PendingInv

LEMMA ExactlyOnceKept == ExactlyOnce /\ UNCHANGED <<eff, migRow>> => ExactlyOnce'
  BY DEF ExactlyOnce

\* Only the commit of a unit, by its client or by the server for a client that
\* is gone, applies or records a transition.
LEMMA StepKeepsEffects ==
    ASSUME "commit" \notin Escapes, HoldInv, NEW p \in Proc, Step(p), ~Commit(p)
    PROVE  UNCHANGED <<eff, migRow>>
  <1> USE DEF db
  <1>1. CASE Acquire(p) \/ AcquireFails(p) \/ Plan(p) \/ GateBlocked(p) \/ GateRefused(p)
               \/ GatePassed(p) \/ Filter(p) \/ Schemas(p) \/ StatementFails(p)
    BY <1>1 DEF Acquire, AcquireFails, Plan, GateBlocked, GateRefused, GatePassed, Filter,
                Schemas, StatementFails
  <1>2. CASE NextScript(p) \/ TransitionsDone(p) \/ Record(p) \/ ObjectsDone(p) \/ RoundDone(p)
    BY <1>2 DEF NextScript, TransitionsDone, Record, RecordEffect, ObjectsDone, RoundDone
  <1>3. CASE Begin(p) \/ Body(p) \/ AssertOpen(p)
    BY <1>3 DEF Begin, Body, AssertOpen
  <1>4. CASE Flush(p)
    BY <1>4 DEF Flush, HoldInv, At
  <1>5. CASE TxFails(p) \/ Rollback(p) \/ RollbackFails(p) \/ Release(p) \/ ReleaseFails(p)
    BY <1>5 DEF TxFails, Rollback, RollbackFails, Release, ReleaseFails
  <1>6. QED
    BY <1>1, <1>2, <1>3, <1>4, <1>5 DEF Step

\* A session gets to write by acquiring the lock, and in no other step.
LEMMA StepWrites ==
    ASSUME TypeOK, LockInv, NEW p \in Proc, Step(p), ~Acquire(p)
    PROVE  \A r \in Proc : CanWrite(r)' => CanWrite(r)
  <1>0. /\ pc \in [Proc -> Pcs] /\ conn \in [Proc -> BOOLEAN]
        /\ tx \in [Proc -> TxStates] /\ inflight \in [Proc -> Late \cup {"none"}]
    BY DEF TypeOK
  <1> USE <1>0 DEF CanWrite, At, Goto, Stop, Late, LockedPcs, TxPcs, LoopPcs, plan, loop, server
  <1>1. CASE AcquireFails(p)
    BY <1>1 DEF AcquireFails
  <1>2. CASE Plan(p) \/ GateBlocked(p) \/ GateRefused(p) \/ GatePassed(p) \/ Filter(p)
               \/ Schemas(p)
    BY <1>2 DEF Plan, GateBlocked, GateRefused, GatePassed, Filter, Schemas
  <1>3. CASE StatementFails(p) \/ TxFails(p) \/ RollbackFails(p) \/ ReleaseFails(p)
    BY <1>3 DEF StatementFails, TxFails, RollbackFails, ReleaseFails, Lose, Refuse, Outstanding
  <1>4. CASE NextScript(p) \/ TransitionsDone(p) \/ Record(p) \/ ObjectsDone(p) \/ RoundDone(p)
    BY <1>4 DEF NextScript, TransitionsDone, Record, ObjectsDone, RoundDone
  <1>5. CASE Begin(p) \/ Body(p) \/ AssertOpen(p) \/ Flush(p)
    BY <1>5 DEF Begin, Body, AssertOpen, Flush
  <1>6. CASE Commit(p) \/ Rollback(p) \/ Release(p)
    BY <1>6 DEF Commit, Rollback, Release, Back
  <1>7. QED
    BY <1>1, <1>2, <1>3, <1>4, <1>5, <1>6 DEF Step

LEMMA OnceInit == Init => PendingInv /\ ExactlyOnce
  BY DEF Init, PendingInv, ExactlyOnce, At

\* A commit, by the client or for it, keeps both parts.
LEMMA OnceCommit ==
    ASSUME TypeOK, LockInv, WorkInv, PendingInv, ExactlyOnce,
           NEW p \in Proc, CanWrite(p), InTx(p), CommitUnit(p), UNCHANGED pend,
           \A r \in Proc : CanWrite(r)' => CanWrite(r),
           \A r \in Proc \ {p} : todo'[r] = todo[r] /\ pc'[r] = pc[r] /\ conn'[r] = conn[r],
           CanWrite(p)' => todo'[p] \subseteq todo[p] \ {job[p]},
           ~At(p, "schemas")'
    PROVE  PendingInv' /\ ExactlyOnce'
  <1>1. ExactlyOnce' /\ \A x \in todo[p] \ {job[p]} : x \in Trans => migRow'[x] = migRow[x]
    BY CommitExact
  <1>2. \A r \in Proc \ {p} : ~CanWrite(r)
    BY DEF LockInv, WritesUnderLock
  <1>3. \A r \in Proc \ {p} : ~At(r, "schemas")'
    BY <1>2 DEF At, CanWrite, LockedPcs
  <1>4. CanWrite(p)' => \A x \in Trans : x \in todo'[p] => migRow'[x] = 0
    BY <1>1 DEF PendingInv
  <1>5. QED
    BY <1>1, <1>2, <1>3, <1>4 DEF PendingInv

LEMMA OnceNext ==
    ASSUME "commit" \notin Escapes, TypeOK, LockInv, WorkInv, HoldInv, PendingInv, ExactlyOnce,
           Next
    PROVE  PendingInv' /\ ExactlyOnce'
  <1>0. /\ pc \in [Proc -> Pcs] /\ conn \in [Proc -> BOOLEAN]
        /\ tx \in [Proc -> TxStates] /\ inflight \in [Proc -> Late \cup {"none"}]
        /\ todo \in [Proc -> SUBSET (Obj \cup Trans)] /\ pend \in [Proc -> SUBSET Trans]
        /\ eff \in [Trans -> 0 .. 2]
    BY DEF TypeOK
  <1>1. CASE Environment
    <2>1. UNCHANGED <<migRow, server, client>> /\ \A x \in Trans : eff'[x] = eff[x] \/ eff'[x] = 0
      BY <1>1 DEF Environment, EditObject, EditTransition, OutOfBandDDL, db
    <2>2. QED
      BY <1>0, <2>1 DEF PendingInv, ExactlyOnce, CanWrite, At, server, client, plan, loop
  <1>2. ASSUME NEW p \in Proc, NEW c \in Commands, Start(p, c) PROVE PendingInv' /\ ExactlyOnce'
    <2>1. UNCHANGED <<migRow, eff, pend, todo, tx, inflight>>
      BY <1>2 DEF Start, db, loop
    <2>2. pc' = [pc EXCEPT ![p] = "acquire"]
      BY <1>2 DEF Start, Goto
    <2>3. \A r \in Proc \ {p} : conn'[r] = conn[r]
      BY <1>0, <1>2 DEF Start
    <2>4. \A r \in Proc : CanWrite(r)' => CanWrite(r)
      BY <1>0, <2>1, <2>2, <2>3 DEF CanWrite, LockedPcs, TxPcs, LoopPcs
    <2>5. \A r \in Proc : At(r, "schemas")' => At(r, "schemas")
      BY <1>0, <2>2, <2>3 DEF At
    <2>6. QED
      BY <2>1, <2>4, <2>5, PendingKept, ExactlyOnceKept
  <1>3. ASSUME NEW p \in Proc, Step(p) PROVE PendingInv' /\ ExactlyOnce'
    <2>1. CASE Commit(p)
      <3>1. /\ CommitUnit(p) /\ UNCHANGED <<pend, conn>> /\ CanWrite(p) /\ InTx(p)
            /\ todo' = [todo EXCEPT ![p] = todo[p] \ {job[p]}]
            /\ \E l \in LoopPcs : pc' = [pc EXCEPT ![p] = l]
        BY <2>1 DEF Commit, At, Goto, Back, plan, CanWrite, InTx, LoopPcs
      <3>2. \A r \in Proc : CanWrite(r)' => CanWrite(r)
        BY <1>3, <2>1, StepWrites DEF Commit, Acquire, At
      <3>3. /\ \A r \in Proc \ {p} : todo'[r] = todo[r] /\ pc'[r] = pc[r] /\ conn'[r] = conn[r]
            /\ todo'[p] = todo[p] \ {job[p]} /\ ~At(p, "schemas")'
        BY <1>0, <3>1 DEF At, LoopPcs
      <3>4. QED
        BY <3>1, <3>2, <3>3, OnceCommit
    <2> SUFFICES ASSUME ~Commit(p) PROVE PendingInv'
      BY <1>3, <2>1, StepKeepsEffects, ExactlyOnceKept
    <2>2. UNCHANGED migRow
      BY <1>3, StepKeepsEffects
    <2>3. CASE Acquire(p)
      <3>1. /\ UNCHANGED <<pend, todo, tx, inflight, conn>> /\ pc' = [pc EXCEPT ![p] = "plan"]
            /\ todo[p] = {}
        BY <2>3 DEF Acquire, At, Goto, plan, loop, WorkInv, Early
      <3>2. \A r \in Proc \ {p} : CanWrite(r)' => CanWrite(r)
        BY <1>0, <3>1 DEF CanWrite
      <3>3. \A r \in Proc : At(r, "schemas")' => At(r, "schemas")
        BY <1>0, <3>1 DEF At
      <3>4. QED
        BY <2>2, <3>1, <3>2, <3>3 DEF PendingInv
    <2>4. CASE Filter(p)
      <3>1. /\ UNCHANGED todo /\ At(p, "filter") /\ todo[p] = {}
            /\ pend' = pend \/ pend' = [pend EXCEPT ![p] = Unapplied(p)]
            /\ \E l \in {"schemas", "release"} : pc' = [pc EXCEPT ![p] = l] /\ UNCHANGED conn
            /\ pend' = pend => pc' = [pc EXCEPT ![p] = "release"] \/ pend[p] = Unapplied(p)
        BY <1>0, <2>4 DEF Filter, At, Goto, Stop, loop, WorkInv, Early
      <3>2. \A r \in Proc : CanWrite(r)' => CanWrite(r)
        BY <1>3, <2>4, StepWrites DEF Filter, Acquire, At
      <3>3. \A x \in Unapplied(p) : migRow[x] = 0
        BY DEF Unapplied
      <3>4. \A r \in Proc \ {p} : pend'[r] = pend[r] /\ (At(r, "schemas")' => At(r, "schemas"))
        BY <1>0, <3>1 DEF At
      <3>5. At(p, "schemas")' => pend'[p] = Unapplied(p)
        BY <1>0, <3>1 DEF At
      <3>6. QED
        BY <2>2, <3>1, <3>2, <3>3, <3>4, <3>5 DEF PendingInv
    <2>5. CASE Schemas(p)
      <3>1. /\ At(p, "schemas") /\ UNCHANGED <<pend, conn>>
            /\ todo' = [todo EXCEPT ![p] = pend[p]] /\ pc' = [pc EXCEPT ![p] = "transitions"]
        BY <2>5 DEF Schemas, Goto, plan
      <3>2. \A r \in Proc : CanWrite(r)' => CanWrite(r)
        BY <1>3, <2>5, StepWrites DEF Schemas, Acquire, At
      <3>3. /\ \A r \in Proc \ {p} : todo'[r] = todo[r]
            /\ todo'[p] = pend[p]
            /\ \A r \in Proc : At(r, "schemas")' => At(r, "schemas")
        BY <1>0, <3>1 DEF At
      <3>4. QED
        BY <2>2, <3>1, <3>2, <3>3 DEF PendingInv
    <2>6. CASE ~Acquire(p) /\ ~Filter(p) /\ ~Schemas(p)
      <3>1. UNCHANGED pend
        BY <1>3, <2>6
        DEF Step, AcquireFails, Plan, GateBlocked, GateRefused, GatePassed, StatementFails,
            NextScript, TransitionsDone, Record, ObjectsDone, RoundDone, Begin, Body, AssertOpen,
            Flush, TxFails, Rollback, RollbackFails, Release, ReleaseFails, plan
      <3>2. \A r \in Proc : CanWrite(r)' => CanWrite(r)
        BY <1>3, <2>6, StepWrites
      <3>3. \A r \in Proc : At(r, "schemas")' => At(r, "schemas")
        <4>1. \E l \in Pcs \ {"schemas"} : pc' = pc \/ pc' = [pc EXCEPT ![p] = l]
          BY <1>3, <2>6
          DEF Step, AcquireFails, Plan, GateBlocked, GateRefused, GatePassed, StatementFails,
              NextScript, TransitionsDone, Record, ObjectsDone, RoundDone, Begin, Body,
              AssertOpen, Flush, TxFails, Rollback, RollbackFails, Release, ReleaseFails, Back,
              Goto, Stop, Pcs, LockedPcs, TxPcs, LoopPcs
        <4>2. conn' = conn \/ conn' = [conn EXCEPT ![p] = FALSE]
          BY <1>3, <2>6
          DEF Step, AcquireFails, Plan, GateBlocked, GateRefused, GatePassed, StatementFails,
              NextScript, TransitionsDone, Record, ObjectsDone, RoundDone, Begin, Body,
              AssertOpen, Flush, TxFails, Rollback, RollbackFails, Release, ReleaseFails,
              Lose, Refuse
        <4>3. QED
          BY <1>0, <4>1, <4>2 DEF At
      <3>4. \/ todo' = todo
            \/ \E S : todo' = [todo EXCEPT ![p] = S] /\ \A x \in Trans : x \in S => x \in todo[p]
        <4>1. CASE Record(p) \/ ObjectsDone(p)
          <5>1. \/ todo' = todo \/ todo' = [todo EXCEPT ![p] = TxBatch(p)]
                \/ todo' = [todo EXCEPT ![p] = ModuleBatch(p)]
            BY <4>1 DEF Record, ObjectsDone
          <5>2. TxBatch(p) \subseteq Obj /\ ModuleBatch(p) \subseteq Obj
            BY DEF TxBatch, ModuleBatch, WithAction
          <5>3. QED
            BY <5>1, <5>2, ObjAssumption
        <4>2. CASE RoundDone(p)
          <5>1. todo' = todo \/ todo' = [todo EXCEPT ![p] = retry[p]]
            BY <4>2 DEF RoundDone
          <5>2. retry[p] \subseteq Obj
            BY DEF WorkInv
          <5>3. QED
            BY <5>1, <5>2, ObjAssumption
        <4>3. CASE NextScript(p) \/ Rollback(p)
          <5>1. todo' = todo \/ \E a : todo' = [todo EXCEPT ![p] = todo[p] \ {a}]
            BY <4>3 DEF NextScript, Rollback
          <5>2. QED
            BY <5>1
        <4>4. CASE UNCHANGED todo
          BY <4>4
        <4>5. QED
          BY <1>3, <2>6, <4>1, <4>2, <4>3, <4>4
          DEF Step, AcquireFails, Plan, GateBlocked, GateRefused, GatePassed, StatementFails,
              TransitionsDone, Begin, Body, AssertOpen, Flush, TxFails, RollbackFails, Release,
              ReleaseFails, loop
      <3>5. \A r \in Proc : \A x \in Trans : x \in todo'[r] => x \in todo[r]
        BY <1>0, <3>4
      <3>6. QED
        BY <2>2, <3>1, <3>2, <3>3, <3>5, PendingKept
    <2>7. QED
      BY <2>3, <2>4, <2>5, <2>6
  <1>4. ASSUME NEW p \in Proc, Crash(p) \/ OrphanExec(p) \/ OrphanClose(p) \/ Reap(p)
        PROVE  PendingInv' /\ ExactlyOnce'
    <2>1. \A r \in Proc : CanWrite(r)' => CanWrite(r)
      BY <1>0, <1>4
      DEF Crash, OrphanExec, OrphanClose, Reap, CanWrite, Outstanding, Goto, Late, LockedPcs,
          TxPcs, LoopPcs, server, client
    <2>2. \A r \in Proc : At(r, "schemas")' => At(r, "schemas")
      BY <1>0, <1>4 DEF Crash, OrphanExec, OrphanClose, Reap, At, Goto, client
    <2>3. CASE /\ OrphanExec(p) /\ inflight[p] = "commit" /\ tx[p] = "full" /\ CommitUnit(p)
               /\ tx' = [tx EXCEPT ![p] = "none"]
      <3>1. CanWrite(p) /\ InTx(p) /\ UNCHANGED <<pend, todo, pc, conn>>
        BY <2>3 DEF CanWrite, InTx, OrphanExec, client, plan, loop
      <3>2. ~conn[p] /\ tx'[p] = "none" /\ inflight'[p] = "none"
        BY <1>0, <2>3 DEF OrphanExec
      <3>3. ~CanWrite(p)' /\ ~At(p, "schemas")'
        BY <3>1, <3>2 DEF CanWrite, At, Late
      <3>4. QED
        BY <2>1, <2>3, <3>1, <3>3, OnceCommit
    <2>4. CASE Reap(p)
      <3>1. /\ UNCHANGED <<eff, migRow>> /\ todo' = [todo EXCEPT ![p] = {}]
            /\ pend' = [pend EXCEPT ![p] = {}]
        BY <2>4 DEF Reap, db
      <3>2. \A r \in Proc : todo'[r] \subseteq todo[r] /\ pend'[r] \subseteq pend[r]
        BY <1>0, <3>1
      <3>3. QED
        BY <2>1, <2>2, <3>1, <3>2, ExactlyOnceKept DEF PendingInv
    <2>5. CASE UNCHANGED <<eff, migRow, pend, todo>>
      BY <2>1, <2>2, <2>5, PendingKept, ExactlyOnceKept
    <2>6. QED
      BY <1>4, <2>3, <2>4, <2>5
      DEF Crash, OrphanExec, OrphanClose, RecordEffect, db, client, plan, loop
  <1>5. QED
    BY <1>1, <1>2, <1>3, <1>4 DEF Next

LEMMA OnceStutter == PendingInv /\ ExactlyOnce /\ UNCHANGED vars => PendingInv' /\ ExactlyOnce'
  BY DEF PendingInv, ExactlyOnce, CanWrite, At, vars, db, server, client, plan, loop

=============================================================================
