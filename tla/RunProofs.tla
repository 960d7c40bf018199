----------------------------- MODULE RunProofs ------------------------------
(***************************************************************************)
(* What a run may rely on and what its success means: the plan stays fresh *)
(* under the lock, a rerun is not blocked, exit code 0 means recorded, and *)
(* the module rounds give up only at a fixpoint.                           *)
(***************************************************************************)
EXTENDS LedgerProofs

-----------------------------------------------------------------------------
(* The lists of the loops. *)

ListsAt(p) ==
    /\ pc[p] # "idle" => cmd[p] \in Commands
    /\ Phase(p) \in {"filter", "schemas"} \cup LoopPcs => cmd[p] = "migrate" /\ ~PlanBlocked(p)
    /\ pc[p] = "record" /\ cmd[p] = "migrate" => ~PlanBlocked(p) /\ schema
    /\ Phase(p) \in LoopPcs => schema
    /\ Phase(p) = "transitions" => todo[p] \subseteq pend[p]
    /\ Phase(p) = "objects" => todo[p] \subseteq TxBatch(p)
    /\ Phase(p) = "modules" => todo[p] \cup retry[p] \subseteq ModuleBatch(p)
    /\ Phase(p) = "modules" => todo[p] \cap retry[p] = {}
    /\ Phase(p) \notin {"modules", "release", "exited", "dead"} => retry[p] = {}
    /\ InTx(p) => IsNext(job[p], todo[p])

LEMMA ListInvAt == ListInv <=> \A p \in Proc : ListsAt(p)
  BY DEF ListInv, ListsAt

LEMMA SamePlan ==
    ASSUME NEW p \in Proc, scen'[p] = scen[p]
    PROVE  /\ PlanBlocked(p)' <=> PlanBlocked(p)
           /\ TxBatch(p)' = TxBatch(p) /\ ModuleBatch(p)' = ModuleBatch(p)
           /\ \A A : WithAction(p, A)' = WithAction(p, A)
  BY DEF PlanBlocked, TxBatch, ModuleBatch, WithAction

\* A unit in apply_in_tx belongs to the loop it came from.
LEMMA SameBack ==
    ASSUME NEW p \in Proc, job'[p] = job[p]
    PROVE  Back(p)' = Back(p)
  BY DEF Back

LEMMA BackIsLoop == \A p : Back(p) \in LoopPcs
  BY DEF Back, LoopPcs

\* The kinds of a list tell its loop.
LEMMA LoopOfJob ==
    ASSUME TypeOK, ListInv, NEW p \in Proc, pc[p] \in LoopPcs, NEW a \in todo[p]
    PROVE  /\ a \in Trans => pc[p] = "transitions"
           /\ a \notin Trans => /\ Kind[a] \in TransactionalKinds => pc[p] = "objects"
                                /\ Kind[a] \notin TransactionalKinds => pc[p] = "modules"
  <1>1. Phase(p) = pc[p]
    BY DEF Phase, LoopPcs, TxPcs
  <1>2. /\ pc[p] = "transitions" => todo[p] \subseteq Trans
        /\ pc[p] = "objects" => todo[p] \subseteq TxBatch(p)
        /\ pc[p] = "modules" => todo[p] \subseteq ModuleBatch(p)
    BY <1>1 DEF ListInv, TypeOK
  <1>3. TxBatch(p) \cap Trans = {} /\ ModuleBatch(p) \cap Trans = {}
    BY ObjAssumption DEF TxBatch, ModuleBatch, WithAction
  <1>4. \A o \in TxBatch(p) : Kind[o] \in TransactionalKinds
    BY DEF TxBatch
  <1>5. \A o \in ModuleBatch(p) : Kind[o] \notin TransactionalKinds
    BY DEF ModuleBatch, TransactionalKinds, ModuleKinds
  <1>6. QED
    BY <1>2, <1>3, <1>4, <1>5 DEF LoopPcs

LEMMA ListInvInit == Init => ListInv
  <1> SUFFICES ASSUME Init, NEW p \in Proc PROVE ListsAt(p)
    BY ListInvAt
  <1>1. pc[p] = "idle" /\ tx[p] = "none" /\ retry[p] = {}
    BY DEF Init
  <1>2. Phase(p) = "idle" /\ ~InTx(p)
    BY <1>1 DEF Phase, InTx, TxPcs
  <1>3. QED
    BY <1>1, <1>2 DEF ListsAt, LoopPcs

\* A run that leaves its loops keeps nothing but its command.
LEMMA ListsLeave ==
    ASSUME NEW p \in Proc, ListsAt(p), pc'[p] \in {"release", "exited", "dead"},
           pc[p] # "idle", cmd'[p] = cmd[p],
           InTx(p)' => InTx(p) /\ job'[p] = job[p] /\ todo'[p] = todo[p]
    PROVE  ListsAt(p)'
  <1>1. Phase(p)' = pc'[p]
    BY DEF Phase, TxPcs
  <1>2. InTx(p)' => IsNext(job[p], todo[p])'
    BY DEF ListsAt, IsNext
  <1>3. QED
    BY <1>1, <1>2 DEF ListsAt, LoopPcs

\* A step within apply_in_tx, or of the server for a client that is gone.
LEMMA ListsStay ==
    ASSUME NEW p \in Proc, ListsAt(p), Phase(p)' = Phase(p), pc'[p] = "idle" <=> pc[p] = "idle",
           pc'[p] = "record" <=> pc[p] = "record", schema => schema',
           cmd'[p] = cmd[p], scen'[p] = scen[p], pend'[p] = pend[p], todo'[p] = todo[p],
           retry'[p] = retry[p], job'[p] = job[p], InTx(p)' => InTx(p)
    PROVE  ListsAt(p)'
  <1>1. InTx(p)' => IsNext(job[p], todo[p])'
    BY DEF ListsAt, IsNext
  <1>2. QED
    BY <1>1, SamePlan DEF ListsAt

-----------------------------------------------------------------------------
(* The moves of a connected run, on its own part of the state.  Each one    *)
(* stands for the actions that differ only in what the properties ignore.   *)

KeepsScan(p)  == cmd'[p] = cmd[p] /\ wsFile'[p] = wsFile[p] /\ wsRev'[p] = wsRev[p]
KeepsPlan(p)  == KeepsScan(p) /\ scen'[p] = scen[p] /\ pend'[p] = pend[p]
KeepsLists(p) == todo'[p] = todo[p] /\ retry'[p] = retry[p] /\ progress'[p] = progress[p]
Idles(p)      == KeepsLists(p) /\ tx'[p] = "none" /\ exit'[p] = exit[p]
KeepsData     == UNCHANGED ledgerVars

\* A refusal or an error outside apply_in_tx, or a failed unit that ends the run.
Fails(p) ==
    /\ pc'[p] = "release" /\ exit'[p] # 0 /\ KeepsPlan(p) /\ KeepsLists(p) /\ KeepsData
    /\ pc[p] \in LockedPcs \ {"release"} /\ tx'[p] = "none"
    /\ Phase(p) = "modules" => /\ pc[p] = "modules" /\ todo[p] = {} /\ ~progress[p]
                               /\ exit'[p] = 5

StartsRun(p) == pc'[p] \in {"acquire", "plan"}
Plans(p) ==
    /\ pc[p] = "plan" /\ pc'[p] = "gate" /\ KeepsScan(p) /\ Idles(p) /\ KeepsData
    /\ scen'[p] = [o \in Obj |-> DecideObject(p, o)] /\ pend'[p] = pend[p]
PassesGate(p) ==
    /\ pc[p] = "gate" /\ KeepsPlan(p) /\ Idles(p) /\ KeepsData
    /\ \/ pc'[p] = "filter" /\ cmd[p] = "migrate" /\ ~PlanBlocked(p)
       \/ pc'[p] = "record" /\ cmd[p] # "migrate"
Filters(p) ==
    /\ pc[p] = "filter" /\ pc'[p] = "schemas" /\ KeepsScan(p) /\ Idles(p) /\ KeepsData
    /\ scen'[p] = scen[p] /\ pend'[p] = Unapplied(p)
RunsSchemas(p) ==
    /\ pc[p] = "schemas" /\ pc'[p] = "transitions" /\ schema' /\ KeepsPlan(p) /\ KeepsData
    /\ todo'[p] = pend[p] /\ retry'[p] = retry[p] /\ progress'[p] = progress[p]
    /\ tx'[p] = "none"
Takes(p) ==
    /\ pc[p] \in LoopPcs /\ pc'[p] = "begin" /\ KeepsPlan(p) /\ KeepsLists(p) /\ KeepsData
    /\ IsNext(job'[p], todo[p])
PutsOff(p) ==
    /\ \/ pc[p] = "modules" /\ \E a \in todo[p] : /\ ~Verified(p, a)
                                                  /\ todo'[p] = todo[p] \ {a}
                                                  /\ retry'[p] = retry[p] \cup {a}
       \/ /\ pc[p] = "rollback" /\ Back(p) = "modules"
          /\ todo'[p] = todo[p] \ {job[p]} /\ retry'[p] = retry[p] \cup {job[p]}
    /\ pc'[p] = "modules" /\ KeepsPlan(p) /\ progress'[p] = progress[p] /\ KeepsData
    /\ tx'[p] = "none"
EndsTransitions(p) ==
    /\ pc[p] = "transitions" /\ todo[p] = {} /\ pc'[p] = "record"
    /\ KeepsPlan(p) /\ Idles(p) /\ KeepsData
RecordsAdopted(p) ==
    /\ pc[p] = "record" /\ cmd[p] = "migrate" /\ pc'[p] = "objects" /\ KeepsPlan(p)
    /\ RecordsRows(p) /\ todo'[p] = TxBatch(p) /\ retry'[p] = retry[p]
    /\ progress'[p] = progress[p] /\ tx'[p] = "none"
RecordsMetadata(p) ==
    /\ pc[p] = "record" /\ cmd[p] # "migrate" /\ pc'[p] = "release" /\ KeepsPlan(p)
    /\ RecordsRows(p) /\ Idles(p)
EndsObjects(p) ==
    /\ pc[p] = "objects" /\ todo[p] = {} /\ pc'[p] = "modules" /\ KeepsPlan(p) /\ KeepsData
    /\ todo'[p] = ModuleBatch(p) /\ retry'[p] = retry[p] /\ progress'[p] = progress[p]
    /\ tx'[p] = "none"
EndsModules(p) ==
    /\ pc[p] = "modules" /\ todo[p] = {} /\ retry[p] = {} /\ pc'[p] = "release"
    /\ KeepsPlan(p) /\ Idles(p) /\ KeepsData
NextRound(p) ==
    /\ pc[p] = "modules" /\ todo[p] = {} /\ pc'[p] = "modules" /\ KeepsPlan(p) /\ KeepsData
    /\ todo'[p] = retry[p] /\ retry'[p] = {} /\ tx'[p] = "none"
\* A statement of apply_in_tx, successful or refused.
InUnit(p) ==
    /\ pc[p] \in TxPcs /\ pc'[p] \in TxPcs \cup {"rollback"} /\ KeepsPlan(p) /\ KeepsLists(p)
    /\ job'[p] = job[p] /\ (KeepsData \/ CommitsBody(p))
    /\ pc'[p] = "rollback" => \/ "stmt" \in Faults
                              \/ pc[p] = "body" /\ ~CanRun(p) /\ KeepsData /\ UNCHANGED schema
                              \/ pc[p] \in {"assert", "commit"} /\ tx[p] = "none"
FinishesUnit(p) ==
    /\ pc[p] = "commit" /\ pc'[p] = Back(p) /\ KeepsPlan(p) /\ CommitsUnit(p)
    /\ todo'[p] = todo[p] \ {job[p]} /\ retry'[p] = retry[p] /\ tx'[p] = "none"
    /\ progress'[p] = (progress[p] \/ Back(p) = "modules")

Moves(p) ==
    \/ StartsRun(p) \/ Fails(p) \/ Plans(p) \/ PassesGate(p) \/ Filters(p) \/ RunsSchemas(p)
    \/ Takes(p) \/ PutsOff(p) \/ EndsTransitions(p) \/ RecordsAdopted(p) \/ RecordsMetadata(p)
    \/ EndsObjects(p) \/ EndsModules(p) \/ NextRound(p) \/ InUnit(p) \/ FinishesUnit(p)

LEMMA ConnectedMoves ==
    ASSUME BaseInv, NEW p \in Proc, ProcStep(p), conn'[p]
    PROVE  Moves(p) /\ (conn[p] \/ StartsRun(p))
  <1>0. /\ pc \in [Proc -> Pcs] /\ cmd \in [Proc -> {"none", "migrate", "baseline", "repair"}]
        /\ conn \in [Proc -> BOOLEAN] /\ wsFile \in [Proc -> [Obj -> 0 .. MaxVer]]
        /\ wsRev \in [Proc -> [Trans -> Revs]] /\ scen \in [Proc -> [Obj -> Scenarios]]
        /\ pend \in [Proc -> SUBSET Trans] /\ todo \in [Proc -> SUBSET (Obj \cup Trans)]
        /\ retry \in [Proc -> SUBSET (Obj \cup Trans)] /\ progress \in [Proc -> BOOLEAN]
        /\ job \in [Proc -> Obj \cup Trans \cup {None}] /\ exit \in [Proc -> ExitCodes]
        /\ tx \in [Proc -> TxStates]
    BY DEF BaseInv, TypeOK
  <1>s. conn[p] /\ pc[p] \notin TxPcs \cup {"rollback"} => tx[p] = "none"
    BY DEF BaseInv, LockInv, SessionInv
  <1> USE <1>0 DEF Moves, KeepsScan, KeepsPlan, KeepsLists, Idles, KeepsData, ledgerVars,
          At, Goto, Stop, plan, loop, server, db
  <1>1. CASE \E c \in Commands : Start(p, c)
    BY <1>1 DEF Start, StartsRun
  <1>2. CASE Step(p)
    <2>1. CASE Acquire(p) \/ AcquireFails(p)
      BY <2>1 DEF Acquire, AcquireFails, StartsRun
    <2>2. CASE Plan(p)
      <3>1. Plans(p) /\ conn[p]
        BY <1>s, <2>2 DEF Plan, Plans, TxPcs
      <3>2. QED
        BY <3>1
    <2>3. CASE GateBlocked(p) \/ GateRefused(p)
      <3>1. Fails(p) /\ conn[p]
        BY <1>s, <2>3 DEF GateBlocked, GateRefused, Fails, Phase, TxPcs, LockedPcs
      <3>2. QED
        BY <3>1
    <2>4. CASE GatePassed(p)
      <3>1. PassesGate(p) /\ conn[p]
        BY <1>s, <2>4 DEF GatePassed, PassesGate, TxPcs
      <3>2. QED
        BY <3>1
    <2>5. CASE Filter(p)
      <3>1. (Filters(p) \/ Fails(p)) /\ conn[p]
        BY <1>s, <2>5 DEF Filter, Filters, Fails, Phase, TxPcs, LockedPcs
      <3>2. QED
        BY <3>1
    <2>6. CASE Schemas(p)
      <3>1. RunsSchemas(p) /\ conn[p]
        BY <1>s, <2>6 DEF Schemas, RunsSchemas, TxPcs
      <3>2. QED
        BY <3>1
    <2>7. CASE StatementFails(p)
      <3>1. Fails(p) /\ conn[p]
        BY <2>7 DEF StatementFails, Lose, Refuse, Fails, Phase, TxPcs, LockedPcs
      <3>2. QED
        BY <3>1
    <2>8. CASE NextScript(p)
      <3>1. PICK a \in todo[p] :
              /\ pc[p] \in LoopPcs /\ conn[p] /\ IsNext(a, todo[p])
              /\ \/ /\ Verified(p, a) /\ Goto(p, "begin")
                    /\ job' = [job EXCEPT ![p] = a] /\ UNCHANGED <<todo, retry, exit>>
                 \/ /\ ~Verified(p, a) /\ pc[p] # "modules" /\ Stop(p, 5)
                    /\ UNCHANGED <<job, todo, retry>>
                 \/ /\ ~Verified(p, a) /\ pc[p] = "modules"
                    /\ todo' = [todo EXCEPT ![p] = @ \ {a}]
                    /\ retry' = [retry EXCEPT ![p] = @ \cup {a}]
                    /\ UNCHANGED <<pc, job, exit>>
              /\ UNCHANGED <<db, server, cmd, conn, plan, progress>>
        BY <2>8 DEF NextScript
      <3>2. tx'[p] = "none" /\ Phase(p) = pc[p]
        BY <1>s, <3>1 DEF TxPcs, LoopPcs, Phase
      <3>3. CASE Verified(p, a)
        <4>1. Takes(p)
          BY <3>1, <3>3 DEF Takes
        <4>2. QED
          BY <3>1, <4>1
      <3>4. CASE ~Verified(p, a) /\ pc[p] # "modules"
        <4>1. Fails(p)
          BY <3>1, <3>2, <3>4 DEF Fails, LockedPcs, LoopPcs
        <4>2. QED
          BY <3>1, <4>1
      <3>5. CASE ~Verified(p, a) /\ pc[p] = "modules"
        <4>1. PutsOff(p)
          BY <3>1, <3>2, <3>5 DEF PutsOff
        <4>2. QED
          BY <3>1, <4>1
      <3>6. QED
        BY <3>3, <3>4, <3>5
    <2>9. CASE TransitionsDone(p)
      <3>1. EndsTransitions(p) /\ conn[p]
        BY <1>s, <2>9 DEF TransitionsDone, EndsTransitions, TxPcs
      <3>2. QED
        BY <3>1
    <2>10. CASE Record(p)
      <3>1. (RecordsAdopted(p) \/ RecordsMetadata(p)) /\ conn[p]
        BY <1>s, <2>10 DEF Record, RecordsRows, RecordsAdopted, RecordsMetadata, TxPcs
      <3>2. QED
        BY <3>1
    <2>11. CASE ObjectsDone(p)
      <3>1. EndsObjects(p) /\ conn[p]
        BY <1>s, <2>11 DEF ObjectsDone, EndsObjects, TxPcs
      <3>2. QED
        BY <3>1
    <2>12. CASE RoundDone(p)
      <3>1. (EndsModules(p) \/ NextRound(p) \/ Fails(p)) /\ conn[p]
        BY <1>s, <2>12 DEF RoundDone, EndsModules, NextRound, Fails, Phase, TxPcs, LoopPcs, LockedPcs
      <3>2. QED
        BY <3>1
    <2>13. CASE Begin(p) \/ AssertOpen(p)
      <3>1. InUnit(p) /\ conn[p]
        BY <2>13 DEF Begin, AssertOpen, InUnit, TxPcs
      <3>2. QED
        BY <3>1
    <2>14. CASE Body(p)
      <3>1. KeepsData \/ CommitsBody(p)
        BY <2>14 DEF Body, CommitsBody, InTx, TxPcs
      <3>2. InUnit(p) /\ conn[p]
        BY <2>14, <3>1 DEF Body, InUnit, TxPcs
      <3>3. QED
        BY <3>2
    <2>15. CASE Flush(p)
      <3>1. tx[p] = "body"
        BY <2>15 DEF Flush, BaseInv, HoldInv
      <3>2. InUnit(p) /\ conn[p]
        BY <2>15, <3>1 DEF Flush, InUnit, TxPcs
      <3>3. QED
        BY <3>2
    <2>16. CASE Commit(p)
      <3>1. FinishesUnit(p) /\ conn[p]
        BY <2>16 DEF Commit, CommitsUnit, FinishesUnit
      <3>2. QED
        BY <3>1
    <2>17. CASE TxFails(p)
      <3>1. InUnit(p) /\ conn[p]
        BY <2>17 DEF TxFails, Lose, Refuse, InUnit
      <3>2. QED
        BY <3>1
    <2>18. CASE Rollback(p)
      <3>1. (PutsOff(p) \/ Fails(p)) /\ conn[p]
        BY <2>18 DEF Rollback, PutsOff, Fails, Phase, LockedPcs
      <3>2. QED
        BY <3>1
    <2>19. CASE RollbackFails(p) \/ Release(p) \/ ReleaseFails(p)
      BY <2>19 DEF RollbackFails, Release, ReleaseFails, Lose
    <2>20. QED
      BY <1>2, <2>1, <2>2, <2>3, <2>4, <2>5, <2>6, <2>7, <2>8, <2>9, <2>10, <2>11, <2>12, <2>13,
         <2>14, <2>15, <2>16, <2>17, <2>18, <2>19 DEF Step
  <1>3. CASE Crash(p)
    BY <1>3 DEF Crash
  <1>4. CASE OrphanExec(p) \/ OrphanClose(p)
    BY <1>4 DEF OrphanExec, OrphanClose, client
  <1>5. CASE Reap(p)
    <2>1. ~conn[p]
      BY <1>5 DEF Reap, BaseInv, LockInv, SessionInv
    <2>2. QED
      BY <1>5, <2>1 DEF Reap
  <1>6. QED
    BY <1>1, <1>2, <1>3, <1>4, <1>5 DEF ProcStep

\* A run whose connection is lost, or that has none, and a run that starts.
LEMMA ListsOffline ==
    ASSUME BaseInv, ListInv, NEW p \in Proc, ProcStep(p), ~conn'[p] \/ StartsRun(p)
    PROVE  ListsAt(p)'
  <1>0. /\ pc \in [Proc -> Pcs] /\ cmd \in [Proc -> {"none", "migrate", "baseline", "repair"}]
        /\ conn \in [Proc -> BOOLEAN] /\ todo \in [Proc -> SUBSET (Obj \cup Trans)]
        /\ retry \in [Proc -> SUBSET (Obj \cup Trans)] /\ tx \in [Proc -> TxStates]
        /\ job \in [Proc -> Obj \cup Trans \cup {None}]
    BY DEF BaseInv, TypeOK
  <1>l. ListsAt(p)
    BY ListInvAt
  <1>s. /\ conn[p] /\ pc[p] \notin TxPcs \cup {"rollback"} => tx[p] = "none"
        /\ pc[p] = "idle" => ~sess[p]
        /\ ~sess[p] => tx[p] = "none"
    BY DEF BaseInv, LockInv, SessionInv
  <1>m. schema => schema'
    BY UnitsOfWork DEF BaseInv
  <1> USE <1>0 DEF At, Goto, Stop, plan, loop, server, client
  <1>1. CASE \E c \in Commands : Start(p, c)
    <2>1. /\ pc'[p] = "acquire" /\ cmd'[p] \in Commands /\ retry'[p] = retry[p] /\ tx'[p] = "none"
          /\ pc[p] = "idle"
      BY <1>1, <1>s DEF Start
    <2>2. Phase(p) = "idle" /\ Phase(p)' = "acquire" /\ ~InTx(p)'
      BY <2>1 DEF Phase, InTx, TxPcs
    <2>3. QED
      BY <1>l, <2>1, <2>2 DEF ListsAt, LoopPcs
  <1>2. CASE Acquire(p)
    <2>1. /\ pc[p] = "acquire" /\ pc'[p] = "plan" /\ cmd'[p] = cmd[p] /\ retry'[p] = retry[p]
          /\ tx'[p] = "none"
      BY <1>2, <1>s DEF Acquire, TxPcs
    <2>2. Phase(p) = "acquire" /\ Phase(p)' = "plan" /\ ~InTx(p)'
      BY <2>1 DEF Phase, InTx, TxPcs
    <2>3. QED
      BY <1>l, <2>1, <2>2 DEF ListsAt, LoopPcs
  <1>3. CASE /\ AcquireFails(p) \/ StatementFails(p) \/ RollbackFails(p) \/ Release(p)
                \/ ReleaseFails(p) \/ Crash(p)
             /\ ~conn'[p]
    <2>1. /\ pc[p] # "idle" /\ pc'[p] \in {"release", "exited", "dead"} /\ cmd'[p] = cmd[p]
          /\ job'[p] = job[p] /\ todo'[p] = todo[p] /\ (tx'[p] = tx[p] \/ tx'[p] = "none")
      BY <1>3 DEF AcquireFails, StatementFails, RollbackFails, Release, ReleaseFails, Crash,
                  Lose, Refuse
    <2>2. InTx(p)' => InTx(p)
      BY <2>1 DEF InTx, TxPcs
    <2>3. QED
      BY <1>l, <2>1, <2>2, ListsLeave
  <1>4. CASE TxFails(p)
    <2>1. /\ pc[p] \in TxPcs /\ pc'[p] = "rollback" /\ cmd'[p] = cmd[p] /\ scen'[p] = scen[p]
          /\ pend'[p] = pend[p] /\ todo'[p] = todo[p] /\ retry'[p] = retry[p] /\ job'[p] = job[p]
      BY <1>4 DEF TxFails
    <2>2. InTx(p) /\ Phase(p)' = Phase(p)
      BY <2>1, SameBack DEF InTx, Phase
    <2>3. pc[p] \notin {"idle", "record"}
      BY <2>1 DEF TxPcs
    <2>4. QED
      BY <1>l, <1>m, <2>1, <2>2, <2>3, ListsStay
  <1>5. CASE OrphanExec(p) \/ OrphanClose(p)
    <2>1. /\ UNCHANGED client /\ (tx'[p] = tx[p] \/ tx'[p] = "none")
      BY <1>5 DEF OrphanExec, OrphanClose
    <2>2. (InTx(p)' => InTx(p)) /\ Phase(p)' = Phase(p)
      BY <2>1, SameBack DEF InTx, Phase
    <2>3. QED
      BY <1>l, <1>m, <2>1, <2>2, ListsStay
  <1>6. CASE Reap(p)
    <2>1. pc'[p] = "idle" /\ retry'[p] = {} /\ tx'[p] = "none"
      BY <1>6, <1>s DEF Reap
    <2>2. Phase(p)' = "idle" /\ ~InTx(p)'
      BY <2>1 DEF Phase, InTx, TxPcs
    <2>3. QED
      BY <2>1, <2>2 DEF ListsAt, LoopPcs
  <1>7. ~conn[p] => ~Step(p) \/ RollbackFails(p) \/ ReleaseFails(p)
    BY DEF Step, Acquire, AcquireFails, Plan, GateBlocked, GateRefused, GatePassed, Filter,
           Schemas, StatementFails, NextScript, TransitionsDone, Record, ObjectsDone, RoundDone,
           Begin, Body, AssertOpen, Flush, Commit, TxFails, Rollback, Release
  <1>8. CASE /\ Step(p) /\ conn[p]
             /\ ~(Acquire(p) \/ AcquireFails(p) \/ StatementFails(p) \/ RollbackFails(p)
                  \/ Release(p) \/ ReleaseFails(p) \/ TxFails(p))
    <2>1. conn' = conn
      BY <1>8 DEF Step, Plan, GateBlocked, GateRefused, GatePassed, Filter,
           Schemas, NextScript, TransitionsDone, Record, ObjectsDone, RoundDone,
           Begin, Body, AssertOpen, Flush, Commit, Rollback
    <2>2. ~StartsRun(p)
      BY <1>8 DEF StartsRun, Step, Plan, GateBlocked, GateRefused, GatePassed, Filter,
           Schemas, NextScript, TransitionsDone, Record, ObjectsDone, RoundDone,
           Begin, Body, AssertOpen, Flush, Commit, Rollback, Back, LoopPcs
    <2>3. QED
      BY <1>8, <2>1, <2>2
  <1>9. CASE /\ StatementFails(p) \/ RollbackFails(p) \/ Release(p) \/ ReleaseFails(p)
                \/ AcquireFails(p) \/ Crash(p)
             /\ StartsRun(p)
    BY <1>9 DEF StatementFails, RollbackFails, Release, ReleaseFails, AcquireFails, Crash, StartsRun
  <1>10. QED
    BY <1>1, <1>2, <1>3, <1>4, <1>5, <1>6, <1>7, <1>8, <1>9 DEF ProcStep

LEMMA ListsOnline ==
    ASSUME BaseInv, ListInv, NEW p \in Proc, ProcStep(p), conn[p], Moves(p), ~StartsRun(p)
    PROVE  ListsAt(p)'
  <1>0. /\ pend[p] \in SUBSET Trans /\ todo[p] \in SUBSET (Obj \cup Trans)
        /\ retry[p] \in SUBSET (Obj \cup Trans)
    BY DEF BaseInv, TypeOK
  <1>l. ListsAt(p)
    BY ListInvAt
  <1>m. schema => schema'
    BY UnitsOfWork DEF BaseInv
  <1> USE DEF KeepsScan, KeepsPlan, KeepsLists, Idles
  \* Outside apply_in_tx the phase is the control point, and nothing is in a
  \* transaction.
  <1>o. \A l : pc[p] = l /\ l \notin TxPcs \cup {"rollback"} => Phase(p) = l
    BY DEF Phase
  <1>n. tx'[p] = "none" /\ pc'[p] \notin TxPcs \cup {"rollback"} => ~InTx(p)' /\ Phase(p)' = pc'[p]
    BY DEF InTx, Phase
  <1>c. pc[p] # "idle" => cmd[p] \in Commands
    BY <1>l DEF ListsAt
  <1>i. pc[p] # "idle"
    BY DEF BaseInv, LockInv, SessionInv
  <1>1. CASE Fails(p)
    <2>1. pc'[p] = "release" /\ tx'[p] = "none" /\ cmd'[p] = cmd[p]
      BY <1>1 DEF Fails
    <2>2. ~InTx(p)'
      BY <1>n, <2>1 DEF TxPcs
    <2>3. QED
      BY <1>l, <1>i, <2>1, <2>2, ListsLeave
  <1>2. CASE Plans(p) \/ PassesGate(p)
    <2>1. /\ pc[p] \in {"plan", "gate"} /\ tx'[p] = "none" /\ retry'[p] = retry[p]
          /\ cmd'[p] = cmd[p]
          /\ \/ pc'[p] = "gate"
             \/ pc'[p] = "filter" /\ cmd[p] = "migrate" /\ ~PlanBlocked(p) /\ scen'[p] = scen[p]
             \/ pc'[p] = "record" /\ cmd[p] # "migrate"
      BY <1>2 DEF Plans, PassesGate
    <2>2. ~InTx(p)' /\ Phase(p)' = pc'[p] /\ retry[p] = {}
      BY <1>l, <1>o, <1>n, <2>1 DEF ListsAt, TxPcs
    <2>3. QED
      BY <1>c, <1>i, <2>1, <2>2, SamePlan DEF ListsAt, LoopPcs
  <1>3. CASE Filters(p)
    <2>1. /\ pc[p] = "filter" /\ pc'[p] = "schemas" /\ tx'[p] = "none" /\ retry'[p] = retry[p]
          /\ cmd'[p] = cmd[p] /\ scen'[p] = scen[p]
      BY <1>3 DEF Filters
    <2>2. ~InTx(p)' /\ Phase(p)' = pc'[p] /\ Phase(p) = "filter"
      BY <1>o, <1>n, <2>1 DEF TxPcs
    <2>3. QED
      BY <1>l, <1>i, <2>1, <2>2, SamePlan DEF ListsAt, LoopPcs
  <1>4. CASE RunsSchemas(p)
    <2>1. /\ pc[p] = "schemas" /\ pc'[p] = "transitions" /\ tx'[p] = "none" /\ retry'[p] = retry[p]
          /\ cmd'[p] = cmd[p] /\ scen'[p] = scen[p] /\ pend'[p] = pend[p] /\ todo'[p] = pend[p]
          /\ schema'
      BY <1>4 DEF RunsSchemas
    <2>2. ~InTx(p)' /\ Phase(p)' = pc'[p] /\ Phase(p) = "schemas"
      BY <1>o, <1>n, <2>1 DEF TxPcs
    <2>3. QED
      BY <1>l, <1>i, <2>1, <2>2, SamePlan DEF ListsAt, LoopPcs
  <1>5. CASE Takes(p)
    <2>1. /\ pc[p] \in LoopPcs /\ pc'[p] = "begin" /\ KeepsPlan(p) /\ KeepsLists(p)
          /\ job'[p] \in todo[p] /\ IsNext(job'[p], todo[p])
      BY <1>5 DEF Takes, IsNext
    <2>2. Phase(p) = pc[p] /\ Phase(p)' = Back(p)'
      BY <1>o, <2>1 DEF Phase, TxPcs, LoopPcs
    <2>3. Back(p)' = pc[p]
      BY <2>1, LoopOfJob DEF Back, BaseInv
    <2>4. IsNext(job[p], todo[p])'
      BY <2>1 DEF IsNext
    <2>5. QED
      BY <1>l, <1>m, <1>i, <2>1, <2>2, <2>3, <2>4, SamePlan DEF ListsAt, LoopPcs
  <1>6. CASE PutsOff(p)
    <2>1. /\ pc'[p] = "modules" /\ KeepsPlan(p) /\ tx'[p] = "none"
          /\ todo'[p] \cup retry'[p] \subseteq todo[p] \cup retry[p]
          /\ todo[p] \cap retry[p] = {} => todo'[p] \cap retry'[p] = {}
      <3>1. pc[p] = "rollback" => job[p] \in todo[p]
        BY DEF BaseInv, WorkInv, InTx
      <3>2. QED
        BY <1>6, <3>1 DEF PutsOff
    <2>2. Phase(p) = "modules"
      BY <1>6 DEF PutsOff, Phase, TxPcs
    <2>3. ~InTx(p)' /\ Phase(p)' = "modules"
      BY <1>n, <2>1 DEF TxPcs
    <2>4. QED
      BY <1>l, <1>m, <1>i, <2>1, <2>2, <2>3, SamePlan DEF ListsAt, LoopPcs
  <1>7. CASE EndsTransitions(p)
    <2>1. pc[p] = "transitions" /\ pc'[p] = "record" /\ KeepsPlan(p) /\ Idles(p)
      BY <1>7 DEF EndsTransitions
    <2>2. Phase(p) = "transitions" /\ ~InTx(p)' /\ Phase(p)' = "record"
      BY <1>o, <1>n, <2>1 DEF TxPcs
    <2>3. QED
      BY <1>l, <1>m, <1>i, <2>1, <2>2, SamePlan DEF ListsAt, LoopPcs
  <1>8. CASE RecordsAdopted(p)
    <2>1. /\ pc[p] = "record" /\ cmd[p] = "migrate" /\ pc'[p] = "objects" /\ KeepsPlan(p)
          /\ todo'[p] = TxBatch(p) /\ retry'[p] = retry[p] /\ tx'[p] = "none"
      BY <1>8 DEF RecordsAdopted
    <2>2. Phase(p) = "record" /\ ~InTx(p)' /\ Phase(p)' = "objects"
      BY <1>o, <1>n, <2>1 DEF TxPcs
    <2>3. QED
      BY <1>l, <1>m, <1>i, <2>1, <2>2, SamePlan DEF ListsAt, LoopPcs
  <1>9. CASE RecordsMetadata(p) \/ EndsModules(p)
    <2>1. pc'[p] = "release" /\ tx'[p] = "none" /\ cmd'[p] = cmd[p]
      BY <1>9 DEF RecordsMetadata, EndsModules
    <2>2. ~InTx(p)'
      BY <1>n, <2>1 DEF TxPcs
    <2>3. QED
      BY <1>l, <1>i, <2>1, <2>2, ListsLeave
  <1>10. CASE EndsObjects(p) \/ NextRound(p)
    <2>1. /\ pc[p] \in {"objects", "modules"} /\ pc'[p] = "modules" /\ KeepsPlan(p) /\ tx'[p] = "none"
          /\ \/ pc[p] = "objects" /\ todo'[p] = ModuleBatch(p) /\ retry'[p] = retry[p]
             \/ pc[p] = "modules" /\ todo'[p] = retry[p] /\ retry'[p] = {}
      BY <1>10 DEF EndsObjects, NextRound
    <2>2. Phase(p) = pc[p] /\ ~InTx(p)' /\ Phase(p)' = "modules"
      BY <1>o, <1>n, <2>1 DEF TxPcs
    <2>3. QED
      BY <1>l, <1>m, <1>i, <2>1, <2>2, SamePlan DEF ListsAt, LoopPcs
  <1>11. CASE InUnit(p)
    <2>1. /\ pc[p] \in TxPcs /\ pc'[p] \in TxPcs \cup {"rollback"} /\ KeepsPlan(p) /\ KeepsLists(p)
          /\ job'[p] = job[p]
      BY <1>11 DEF InUnit
    <2>2. InTx(p) /\ Phase(p)' = Phase(p)
      BY <2>1, SameBack DEF InTx, Phase
    <2>3. pc[p] \notin {"idle", "record"} /\ pc'[p] \notin {"idle", "record"}
      BY <2>1 DEF TxPcs
    <2>4. QED
      BY <1>l, <1>m, <2>1, <2>2, <2>3, ListsStay
  <1>12. CASE FinishesUnit(p)
    <2>1. /\ pc[p] = "commit" /\ pc'[p] = Back(p) /\ KeepsPlan(p)
          /\ todo'[p] \subseteq todo[p] /\ retry'[p] = retry[p] /\ tx'[p] = "none"
      BY <1>12 DEF FinishesUnit
    <2>2. Phase(p) = Back(p) /\ ~InTx(p)' /\ Phase(p)' = Back(p)
      BY <1>n, <2>1, BackIsLoop DEF Phase, TxPcs, LoopPcs
    <2>3. QED
      BY <1>l, <1>m, <1>i, <2>1, <2>2, SamePlan, BackIsLoop DEF ListsAt, LoopPcs
  <1>13. QED
    BY <1>1, <1>2, <1>3, <1>4, <1>5, <1>6, <1>7, <1>8, <1>9, <1>10, <1>11, <1>12 DEF Moves

\* The frame of another process, for every invariant of this module.
LEMMA OthersListed ==
    ASSUME NEW r \in Proc, SameRun(r), SameSession(r)
    PROVE  /\ Phase(r)' = Phase(r) /\ (InTx(r)' <=> InTx(r)) /\ Back(r)' = Back(r)
           /\ PlanBlocked(r)' = PlanBlocked(r) /\ TxBatch(r)' = TxBatch(r)
           /\ ModuleBatch(r)' = ModuleBatch(r) /\ RecordRows(r)' = RecordRows(r)
           /\ Ahead(r)' = Ahead(r)
  <1>1. Phase(r)' = Phase(r) /\ (InTx(r)' <=> InTx(r)) /\ Back(r)' = Back(r)
    BY SameBack DEF SameRun, SameSession, Phase, InTx
  <1>2. \A A : WithAction(r, A)' = WithAction(r, A)
    BY SamePlan DEF SameRun
  <1>3. /\ PlanBlocked(r)' = PlanBlocked(r) /\ TxBatch(r)' = TxBatch(r)
        /\ ModuleBatch(r)' = ModuleBatch(r)
    BY DEF SameRun, PlanBlocked, TxBatch, ModuleBatch, WithAction
  <1>4. RecordRows(r)' = RecordRows(r)
    BY DEF SameRun, RecordRows, WithAction
  <1>5. Ahead(r)' = Ahead(r)
    BY <1>1, <1>2, <1>3 DEF SameRun, Ahead
  <1>6. QED
    BY <1>1, <1>3, <1>4, <1>5

LEMMA ListInvNext == ASSUME BaseInv, ListInv, Next PROVE ListInv'
  <1>1. ASSUME NEW p \in Proc, ProcStep(p), NEW r \in Proc PROVE ListsAt(r)'
    <2>1. CASE r = p
      BY <1>1, <2>1, ListsOffline, ListsOnline, ConnectedMoves
    <2>2. CASE r # p
      <3>1. SameRun(r) /\ SameSession(r) /\ (schema => schema')
        BY <1>1, <2>2, OthersKept, UnitsOfWork DEF BaseInv
      <3>2. QED
        BY <3>1, OthersListed, ListsStay, ListInvAt DEF SameRun
    <2>3. QED
      BY <2>1, <2>2
  <1>2. ASSUME Environment, NEW r \in Proc PROVE ListsAt(r)'
    <2>1. SameRun(r) /\ SameSession(r) /\ UNCHANGED schema
      BY <1>2 DEF Environment, EditObject, EditTransition, OutOfBandDDL, SameRun, SameSession,
                  db, server, client, plan, loop
    <2>2. QED
      BY <2>1, OthersListed, ListsStay, ListInvAt DEF SameRun
  <1>3. QED
    BY <1>1, <1>2, NextCases DEF ListInv, ListsAt

LEMMA ListInvStutter == ListInv /\ UNCHANGED vars => ListInv'
  <1> SUFFICES ASSUME ListInv, UNCHANGED vars, NEW r \in Proc PROVE ListsAt(r)'
    BY DEF ListInv, ListsAt
  <1>1. SameRun(r) /\ SameSession(r) /\ UNCHANGED schema
    BY DEF SameRun, SameSession, vars, db, server, client, plan, loop
  <1>2. QED
    BY <1>1, OthersListed, ListsStay, ListInvAt DEF SameRun

-----------------------------------------------------------------------------
(* What a run that stopped leaves behind. *)

\* What the planner sees of an object that no unit touches.
LEMMA SameShapeOf ==
    ASSUME NEW o \in Obj, live'[o] = live[o],
           \A x \in TransOf(o) \cap Altering : eff'[x] = eff[x]
    PROVE  Shape(live', eff', o) = Shape(live, eff, o)
  BY DEF Shape

\* A recorded object has the version of its fingerprint, and at least its transitions.
ShapedAt(o) ==
    rowCs[o] # 0 => rowFp[o].ver = live[o] /\ rowFp[o].alters \subseteq Shape(live, eff, o).alters

\* The history rows of a commit fingerprint what the commit leaves behind; the commit
\* of a transition that is not the last one only adds to the shape of its table.
LEMMA CommitShapes ==
    ASSUME BaseInv, NEW p \in Proc, CommitsUnit(p), NEW o \in Obj, ShapedAt(o)
    PROVE  ShapedAt(o)'
  <1>0. /\ eff \in [Trans -> 0 .. 2] /\ live \in [Obj -> Vers] /\ TableOf \in [Trans -> Obj]
        /\ job[p] \in Obj \cup Trans /\ BodyEffect(p) /\ HistoryRows(p)
    BY UnitRuns, TransAssumption DEF BaseInv, TypeOK, CommitsUnit, CommitUnit
  <1>1. rowFp'[o] = Shape(live', eff', o) => ShapedAt(o)'
    BY DEF ShapedAt, Shape
  <1>2. CASE job[p] \in Trans
    <2>1. live' = live /\ eff' = [eff EXCEPT ![job[p]] = More(eff[job[p]])] /\ job[p] \notin Obj
      BY <1>0, <1>2, ObjAssumption DEF BodyEffect
    <2>2. CASE IsLast(p, job[p]) /\ o = TableOf[job[p]]
      <3>1. rowFp'[o] = Shape(live', eff', o)
        BY <1>0, <2>1, <2>2 DEF HistoryRows, ObjectRows
      <3>2. QED
        BY <1>1, <3>1
    <2>3. CASE ~(IsLast(p, job[p]) /\ o = TableOf[job[p]])
      <3>1. rowFp'[o] = rowFp[o] /\ rowCs'[o] = rowCs[o]
        BY <1>0, <2>1, <2>3 DEF HistoryRows, ObjectRows
      <3>2. \A x \in Trans : eff[x] > 0 => eff'[x] > 0
        BY <1>0, <1>2, <2>1 DEF More
      <3>3. Shape(live, eff, o).alters \subseteq Shape(live', eff', o).alters
        BY <3>2 DEF Shape, TransOf
      <3>4. QED
        BY <2>1, <3>1, <3>3 DEF ShapedAt
    <2>4. QED
      BY <2>2, <2>3
  <1>3. CASE job[p] \in Obj
    <2>1. /\ job[p] \notin Trans /\ live' = [live EXCEPT ![job[p]] = wsFile[p][job[p]]]
          /\ \A x \in Trans : TableOf[x] # job[p] => eff'[x] = eff[x]
      BY <1>0, <1>3, ObjAssumption DEF BodyEffect
    <2>2. CASE o = job[p]
      <3>1. rowFp'[o] = Shape(live', eff', o)
        BY <1>0, <2>2 DEF HistoryRows, ObjectRows
      <3>2. QED
        BY <1>1, <3>1
    <2>3. CASE o # job[p]
      <3>1. rowFp'[o] = rowFp[o] /\ rowCs'[o] = rowCs[o] /\ live'[o] = live[o]
        BY <1>0, <1>3, <2>1, <2>3 DEF HistoryRows, ObjectRows
      <3>2. Shape(live', eff', o) = Shape(live, eff, o)
        BY <1>0, <2>1, <2>3, SameShapeOf DEF TransOf
      <3>3. QED
        BY <3>1, <3>2 DEF ShapedAt
    <2>4. QED
      BY <2>2, <2>3
  <1>4. QED
    BY <1>0, <1>2, <1>3

LEMMA ShapeInit == Init => ShapeInv
  BY DEF Init, ShapeInv

LEMMA ShapeNext ==
    ASSUME ~OutOfBand, "commit" \notin Escapes, BaseInv, ShapeInv, Next
    PROVE  ShapeInv'
  <1> SUFFICES ASSUME NEW o \in Obj PROVE ShapedAt(o)'
    BY DEF ShapeInv, ShapedAt
  <1>0. ShapedAt(o)
    BY DEF ShapeInv, ShapedAt
  <1>1. CASE UNCHANGED <<live, eff, rowCs, rowFp>>
    BY <1>0, <1>1 DEF ShapedAt, Shape
  <1>2. CASE Environment
    <2>1. UNCHANGED db
      BY <1>2 DEF Environment, EditObject, EditTransition, OutOfBandDDL
    <2>2. QED
      BY <1>1, <2>1 DEF db
  <1>3. ASSUME NEW p \in Proc, ProcStep(p) PROVE ShapedAt(o)'
    <2>1. CASE UNCHANGED ledgerVars
      BY <1>1, <2>1 DEF ledgerVars
    <2>2. CASE CommitsUnit(p)
      BY <1>0, <2>2, CommitShapes
    <2>3. CASE RecordsRows(p)
      <3>1. UNCHANGED <<live, eff>> /\ ObjectRows(p, RecordRows(p))
        BY <2>3 DEF RecordsRows, RecordEffect
      <3>2. CASE o \in RecordRows(p)
        <4>1. rowFp'[o] = Shape(live', eff', o)
          BY <3>1, <3>2 DEF ObjectRows
        <4>2. QED
          BY <4>1 DEF ShapedAt, Shape
      <3>3. CASE o \notin RecordRows(p)
        <4>1. rowFp'[o] = rowFp[o] /\ rowCs'[o] = rowCs[o]
          BY <3>1, <3>3 DEF ObjectRows
        <4>2. QED
          BY <1>0, <3>1, <4>1 DEF ShapedAt, Shape
      <3>4. QED
        BY <3>2, <3>3
    <2>4. QED
      BY <1>3, <2>1, <2>2, <2>3, UnitsOfWork DEF BaseInv, CommitsBody
  <1>4. QED
    BY <1>2, <1>3, NextCases

LEMMA ShapeStutter == ShapeInv /\ UNCHANGED vars => ShapeInv'
  BY DEF ShapeInv, Shape, vars, db

\* What a connected run knows, for all scripts.
LEMMA ListSafe == Spec => [](BaseInv /\ ListInv)
  <1>1. Init => ListInv
    BY ListInvInit
  <1>2. BaseInv /\ ListInv /\ [Next]_vars => ListInv'
    BY ListInvNext, ListInvStutter
  <1>3. QED
    BY <1>1, <1>2, BaseSafe, PTL DEF Spec

\* With no DDL from outside and no script that commits the executor's transaction,
\* what separates a live object from its recorded fingerprint, after any number of
\* failed, lost or crashed runs, is a batch of transitions that stopped half way:
\* nothing else can block a rerun as live drift (apply_transitions).
THEOREM DriftNeedsPartialBatch ==
    ~OutOfBand /\ "commit" \notin Escapes => (Spec => []DriftIsPartialBatch)
  <1> SUFFICES ASSUME ~OutOfBand, "commit" \notin Escapes
               PROVE  Spec => []DriftIsPartialBatch
    OBVIOUS
  <1>1. Init => ShapeInv
    BY ShapeInit
  <1>2. (BaseInv /\ ListInv) /\ ShapeInv /\ [Next]_vars => ShapeInv'
    BY ShapeNext, ShapeStutter
  <1>3. ShapeInv /\ ExactlyOnce => DriftIsPartialBatch
    <2> SUFFICES ASSUME ShapeInv, ExactlyOnce, NEW o \in Obj, Drift(o)
                 PROVE  LET now == Shape(live, eff, o)
                        IN  /\ rowFp[o].ver = now.ver /\ rowFp[o].alters \subseteq now.alters
                            /\ \A x \in now.alters \ rowFp[o].alters : migRow[x] # 0
      BY DEF DriftIsPartialBatch
    <2>1. rowCs[o] # 0
      BY DEF Drift
    <2>2. Shape(live, eff, o).ver = live[o]
      BY DEF Shape
    <2>3. \A x \in Shape(live, eff, o).alters : migRow[x] # 0
      BY DEF Shape, TransOf, ExactlyOnce
    <2>4. QED
      BY <2>1, <2>2, <2>3 DEF ShapeInv
  <1>4. Spec => []ExactlyOnce
    BY ExactlyOnceSafe
  <1>5. QED
    BY <1>1, <1>2, <1>3, <1>4, ListSafe, PTL DEF Spec

-----------------------------------------------------------------------------
(* What success means. *)

\* Objects whose script is still ahead, phase by phase.
LEMMA AheadOf ==
    ASSUME NEW p \in Proc
    PROVE  /\ Phase(p) \in {"gate", "filter", "schemas", "transitions", "record"} =>
                Ahead(p) = WithAction(p, {"CreateObject", "UpdateExistingModule"})
           /\ Phase(p) = "objects" => Ahead(p) = todo[p] \cup ModuleBatch(p)
           /\ Phase(p) = "modules" => Ahead(p) = todo[p] \cup retry[p]
           /\ Phase(p) \notin {"gate", "filter", "schemas", "transitions", "record", "objects",
                               "modules"} => Ahead(p) = {}
  BY DEF Ahead

LEMMA AheadOfNext ==
    ASSUME NEW p \in Proc
    PROVE  /\ Phase(p)' \in {"gate", "filter", "schemas", "transitions", "record"} =>
                Ahead(p)' = WithAction(p, {"CreateObject", "UpdateExistingModule"})'
           /\ Phase(p)' = "objects" => Ahead(p)' = todo'[p] \cup ModuleBatch(p)'
           /\ Phase(p)' = "modules" => Ahead(p)' = todo'[p] \cup retry'[p]
           /\ Phase(p)' \notin {"gate", "filter", "schemas", "transitions", "record", "objects",
                                "modules"} => Ahead(p)' = {}
  BY DEF Ahead

\* The phase of a run before and after each of its moves.
LEMMA MovePhase ==
    ASSUME BaseInv, ListInv, NEW p \in Proc
    PROVE  /\ StartsRun(p) => Phase(p)' \in {"acquire", "plan"} /\ pc'[p] # "release"
           /\ Fails(p) \/ RecordsMetadata(p) \/ EndsModules(p) => Phase(p)' = "release"
           /\ Plans(p) => Phase(p) = "plan" /\ Phase(p)' = "gate"
           /\ PassesGate(p) => Phase(p) = "gate" /\ Phase(p)' = pc'[p]
           /\ Filters(p) => Phase(p) = "filter" /\ Phase(p)' = "schemas"
           /\ RunsSchemas(p) => Phase(p) = "schemas" /\ Phase(p)' = "transitions"
           /\ Takes(p) => /\ Phase(p) = pc[p] /\ Phase(p)' = pc[p] /\ Phase(p) \in LoopPcs
                          /\ pc'[p] # "release"
           /\ PutsOff(p) => Phase(p) = "modules" /\ Phase(p)' = "modules"
           /\ EndsTransitions(p) => Phase(p) = "transitions" /\ Phase(p)' = "record"
           /\ RecordsAdopted(p) => Phase(p) = "record" /\ Phase(p)' = "objects"
           /\ RecordsMetadata(p) => Phase(p) = "record"
           /\ EndsObjects(p) => Phase(p) = "objects" /\ Phase(p)' = "modules"
           /\ EndsModules(p) => Phase(p) = "modules"
           /\ NextRound(p) => Phase(p) = "modules" /\ Phase(p)' = "modules"
           /\ InUnit(p) => /\ Phase(p) = Back(p) /\ Phase(p)' = Back(p) /\ Phase(p) \in LoopPcs
                           /\ pc'[p] # "release"
           /\ FinishesUnit(p) => /\ Phase(p) = Back(p) /\ Phase(p)' = Back(p)
                                 /\ Phase(p) \in LoopPcs /\ pc'[p] # "release"
  <1>1. Takes(p) => /\ Phase(p) = pc[p] /\ Phase(p)' = pc[p] /\ Phase(p) \in LoopPcs
                    /\ pc'[p] # "release"
    <2> SUFFICES ASSUME Takes(p)
                 PROVE  Phase(p) = pc[p] /\ Phase(p)' = pc[p] /\ Phase(p) \in LoopPcs
                        /\ pc'[p] # "release"
      OBVIOUS
    <2>1. pc[p] \in LoopPcs /\ pc'[p] = "begin" /\ job'[p] \in todo[p]
      BY DEF Takes, IsNext
    <2>2. Phase(p) = pc[p] /\ Phase(p)' = Back(p)'
      BY <2>1 DEF Phase, TxPcs, LoopPcs
    <2>3. Back(p)' = pc[p]
      BY <2>1, LoopOfJob DEF Back, BaseInv
    <2>4. QED
      BY <2>1, <2>2, <2>3
  <1>2. InUnit(p) => /\ Phase(p) = Back(p) /\ Phase(p)' = Back(p) /\ Phase(p) \in LoopPcs
                     /\ pc'[p] # "release"
    BY SameBack, BackIsLoop DEF InUnit, Phase, TxPcs
  <1>3. FinishesUnit(p) => /\ Phase(p) = Back(p) /\ Phase(p)' = Back(p)
                           /\ Phase(p) \in LoopPcs /\ pc'[p] # "release"
    BY BackIsLoop DEF FinishesUnit, Phase, TxPcs, LoopPcs
  <1>4. PutsOff(p) => Phase(p) = "modules" /\ Phase(p)' = "modules"
    BY DEF PutsOff, Phase, TxPcs
  <1>5. /\ StartsRun(p) => Phase(p)' \in {"acquire", "plan"} /\ pc'[p] # "release"
        /\ Fails(p) \/ RecordsMetadata(p) \/ EndsModules(p) => Phase(p)' = "release"
        /\ Plans(p) => Phase(p) = "plan" /\ Phase(p)' = "gate"
        /\ PassesGate(p) => Phase(p) = "gate" /\ Phase(p)' = pc'[p]
        /\ Filters(p) => Phase(p) = "filter" /\ Phase(p)' = "schemas"
        /\ RunsSchemas(p) => Phase(p) = "schemas" /\ Phase(p)' = "transitions"
    BY DEF StartsRun, Fails, RecordsMetadata, EndsModules, Plans, PassesGate, Filters, RunsSchemas,
           Phase, TxPcs
  <1>6. /\ EndsTransitions(p) => Phase(p) = "transitions" /\ Phase(p)' = "record"
        /\ RecordsAdopted(p) => Phase(p) = "record" /\ Phase(p)' = "objects"
        /\ RecordsMetadata(p) => Phase(p) = "record"
        /\ EndsObjects(p) => Phase(p) = "objects" /\ Phase(p)' = "modules"
        /\ EndsModules(p) => Phase(p) = "modules"
        /\ NextRound(p) => Phase(p) = "modules" /\ Phase(p)' = "modules"
    BY DEF EndsTransitions, RecordsAdopted, RecordsMetadata, EndsObjects, EndsModules, NextRound,
           Phase, TxPcs
  <1>7. QED
    BY <1>1, <1>2, <1>3, <1>4, <1>5, <1>6

\* A scenario that does not block the plan is a script to run, an adoption, a
\* reprocessed table, or nothing to do.
LEMMA UnblockedScenario ==
    ASSUME NEW s \in Scenarios \ BlockedScenarios
    PROVE  \/ s \in {"SkipUnchanged", "Adopt", "TableReprocess"}
           \/ ActionOf(s) \in {"CreateObject", "UpdateExistingModule"}
  BY DEF Scenarios, BlockedScenarios, ActionOf

\* Nothing is skipped but what is recorded at the scanned checksum; nothing is
\* taken for recorded but what has a row; nothing is created but what is absent.
LEMMA DecideMeans ==
    ASSUME NEW p \in Proc, NEW o \in Obj
    PROVE  /\ DecideObject(p, o) = "SkipUnchanged" => rowCs[o] = wsFile[p][o]
           /\ DecideObject(p, o) = "Create" <=> live[o] = 0
           /\ DecideObject(p, o) \notin {"Create", "Adopt"} => rowCs[o] # 0
  <1> DEFINE in == [exists |-> live[o] # 0, prior |-> rowCs[o], drift |-> Drift(o),
                    kind |-> Kind[o], checksum |-> wsFile[p][o],
                    hasTransitions |-> \E x \in TransOf(o) : wsRev[p][x] # 0,
                    parent |-> ParentState(o)]
  <1>1. in.kind \in Kinds /\ in.parent \in ParentStates /\ in.hasTransitions \in BOOLEAN
    BY ObjAssumption DEF ParentState, ParentStates
  <1>2. ResolveChanged(in) \notin {"SkipUnchanged", "Create", "Adopt"}
    BY <1>1, ResolveChangedScenario DEF BlockedScenarios
  <1>3. DecideObject(p, o) = ResolvePlanScenario(in)
    BY DEF DecideObject
  <1>4. /\ in.exists = (live[o] # 0) /\ in.prior = rowCs[o] /\ in.checksum = wsFile[p][o]
    OBVIOUS
  <1> HIDE DEF in
  <1>5. QED
    BY <1>2, <1>3, <1>4 DEF ResolvePlanScenario

\* A run writes no checksum but the scanned one.
LEMMA RowsScanned ==
    ASSUME BaseInv, NEW p \in Proc, KeepsData \/ CommitsUnit(p) \/ RecordsRows(p) \/ CommitsBody(p)
    PROVE  \A o \in Obj : rowCs'[o] = rowCs[o] \/ rowCs'[o] = wsFile[p][o]
  BY DEF KeepsData, ledgerVars, CommitsUnit, CommitUnit, HistoryRows, RecordsRows, RecordEffect,
         ObjectRows, CommitsBody

DueAt(p) ==
    conn[p] /\ cmd[p] = "migrate"
            /\ (Phase(p) \in Applying \/ (pc[p] = "release" /\ exit[p] = 0)) =>
        \A o \in Obj : rowCs[o] = wsFile[p][o] \/ NothingToApply(p, o) \/ Due(p, o)

LEMMA DueMoves ==
    ASSUME BaseInv, ListInv, NEW p \in Proc, DueAt(p), conn[p], Moves(p)
    PROVE  DueAt(p)'
  <1> SUFFICES ASSUME conn'[p], cmd'[p] = "migrate",
                      Phase(p)' \in Applying \/ (pc'[p] = "release" /\ exit'[p] = 0),
                      NEW o \in Obj, rowCs'[o] # wsFile'[p][o], ~NothingToApply(p, o)'
               PROVE  Due(p, o)'
    BY DEF DueAt
  <1>0. scen[p] \in [Obj -> Scenarios] /\ pend[p] \in SUBSET Trans
        /\ todo[p] \in SUBSET (Obj \cup Trans)
    BY DEF BaseInv, TypeOK
  <1>l. ListsAt(p)
    BY ListInvAt
  <1> USE DEF KeepsScan, KeepsPlan, KeepsLists, Idles
  <1>w. \A A : WithAction(p, A)' = {c \in Obj : ActionOf(scen'[p][c]) \in A}
    BY DEF WithAction
  <1>1. CASE StartsRun(p) \/ Fails(p)
    BY <1>1, MovePhase DEF Fails, Applying, LoopPcs
  <1>2. CASE Plans(p)
    <2>1. scen'[p][o] = DecideObject(p, o) /\ Phase(p)' = "gate" /\ wsFile'[p] = wsFile[p]
          /\ rowCs' = rowCs
      BY <1>2, MovePhase DEF Plans, KeepsData, ledgerVars
    <2>2. scen'[p][o] # "SkipUnchanged"
      BY <2>1, DecideMeans
    <2>3. QED
      BY <2>1, <2>2 DEF Due
  \* The other moves keep the scan and what is recorded of it.
  <1>k. ASSUME ~StartsRun(p), ~Fails(p), ~Plans(p), ~RecordsMetadata(p)
        PROVE  /\ wsFile'[p] = wsFile[p] /\ scen'[p] = scen[p] /\ rowCs[o] # wsFile[p][o]
               /\ cmd[p] = "migrate" /\ Phase(p) \in Applying
    <2>1. KeepsScan(p) /\ scen'[p] = scen[p]
      BY <1>k DEF Moves, PassesGate, Filters, RunsSchemas, Takes, PutsOff, EndsTransitions,
                  RecordsAdopted, EndsObjects, EndsModules, NextRound, InUnit, FinishesUnit
    <2>2. KeepsData \/ CommitsUnit(p) \/ RecordsRows(p) \/ CommitsBody(p)
      BY <1>k DEF Moves, PassesGate, Filters, RunsSchemas, Takes, PutsOff, EndsTransitions,
                  RecordsAdopted, EndsObjects, EndsModules, NextRound, InUnit, FinishesUnit
    <2>3. Phase(p) \in Applying
      BY <1>k, MovePhase DEF Moves, Applying, LoopPcs
    <2>4. QED
      BY <2>1, <2>2, <2>3, RowsScanned
  <1>d. ASSUME ~StartsRun(p), ~Fails(p), ~Plans(p), ~RecordsMetadata(p)
        PROVE  NothingToApply(p, o) \/ Due(p, o)
    BY <1>d, <1>k DEF DueAt
  <1>3. CASE PassesGate(p)
    <2>1. /\ Phase(p) = "gate" /\ Phase(p)' = pc'[p] /\ cmd'[p] = cmd[p] /\ scen'[p] = scen[p]
          /\ ~StartsRun(p) /\ ~Fails(p) /\ ~Plans(p) /\ ~RecordsMetadata(p)
      BY <1>3, MovePhase DEF PassesGate, StartsRun, Fails, Plans, RecordsMetadata
    <2>2. pc'[p] = "filter" /\ ~PlanBlocked(p)
      BY <1>3, <2>1 DEF PassesGate
    <2>3. scen[p][o] \in Scenarios \ BlockedScenarios
      BY <1>0, <2>2 DEF PlanBlocked
    <2>4. scen[p][o] # "SkipUnchanged"
      <3>1. CASE o \in Ahead(p)
        <4>1. ActionOf(scen[p][o]) \in {"CreateObject", "UpdateExistingModule"}
          BY <2>1, <3>1, AheadOf DEF WithAction
        <4>2. QED
          BY <4>1 DEF ActionOf
      <3>2. CASE o \notin Ahead(p)
        BY <1>d, <2>1, <3>2 DEF Due, NothingToApply
      <3>3. QED
        BY <3>1, <3>2
    <2>5. o \in Ahead(p)' \/ scen'[p][o] \in {"Adopt", "TableReprocess"}
      BY <1>w, <2>1, <2>2, <2>3, <2>4, UnblockedScenario, AheadOfNext
    <2>6. QED
      BY <2>1, <2>2, <2>5 DEF Due
  <1>4. CASE Filters(p)
    <2>1. /\ Phase(p) = "filter" /\ Phase(p)' = "schemas" /\ scen'[p] = scen[p]
          /\ ~StartsRun(p) /\ ~Fails(p) /\ ~Plans(p) /\ ~RecordsMetadata(p)
      BY <1>4, MovePhase DEF Filters, StartsRun, Fails, Plans, RecordsMetadata
    <2>2. Ahead(p)' = Ahead(p)
      BY <2>1, AheadOf, AheadOfNext, SamePlan
    <2>3. scen[p][o] = "TableReprocess" => pend'[p] \cap TransOf(o) # {}
      BY <2>1 DEF NothingToApply
    <2>4. QED
      BY <1>d, <2>1, <2>2, <2>3 DEF Due, NothingToApply
  <1>5. CASE RunsSchemas(p)
    <2>1. /\ Phase(p) = "schemas" /\ Phase(p)' = "transitions" /\ scen'[p] = scen[p]
          /\ todo'[p] = pend[p] /\ pend'[p] = pend[p]
          /\ ~StartsRun(p) /\ ~Fails(p) /\ ~Plans(p) /\ ~RecordsMetadata(p)
      BY <1>5, MovePhase DEF RunsSchemas, StartsRun, Fails, Plans, RecordsMetadata
    <2>2. Ahead(p)' = Ahead(p)
      BY <2>1, AheadOf, AheadOfNext, SamePlan
    <2>3. QED
      BY <1>d, <2>1, <2>2 DEF Due, NothingToApply
  <1>6. CASE Takes(p) \/ InUnit(p)
    <2>1. /\ Phase(p)' = Phase(p) /\ Phase(p) \in LoopPcs /\ KeepsPlan(p) /\ KeepsLists(p)
          /\ ~StartsRun(p) /\ ~Fails(p) /\ ~Plans(p) /\ ~RecordsMetadata(p)
      BY <1>6, MovePhase DEF Takes, InUnit, StartsRun, Fails, Plans, RecordsMetadata, TxPcs
    <2>2. Ahead(p)' = Ahead(p)
      BY <2>1, AheadOf, AheadOfNext, SamePlan DEF LoopPcs
    <2>3. QED
      BY <1>d, <2>1, <2>2 DEF Due, NothingToApply, LoopPcs
  <1>7. CASE PutsOff(p) \/ NextRound(p)
    <2>1. /\ Phase(p) = "modules" /\ Phase(p)' = "modules" /\ KeepsPlan(p)
          /\ todo[p] \cup retry[p] \subseteq todo'[p] \cup retry'[p]
          /\ ~StartsRun(p) /\ ~Fails(p) /\ ~Plans(p) /\ ~RecordsMetadata(p)
      BY <1>7, MovePhase DEF PutsOff, NextRound, StartsRun, Fails, Plans, RecordsMetadata
    <2>2. Ahead(p) \subseteq Ahead(p)'
      BY <2>1, AheadOf, AheadOfNext
    <2>3. QED
      BY <1>d, <2>1, <2>2 DEF Due, NothingToApply
  <1>8. CASE EndsTransitions(p)
    <2>1. /\ Phase(p) = "transitions" /\ Phase(p)' = "record" /\ KeepsPlan(p) /\ todo[p] = {}
          /\ ~StartsRun(p) /\ ~Fails(p) /\ ~Plans(p) /\ ~RecordsMetadata(p)
      BY <1>8, MovePhase DEF EndsTransitions, StartsRun, Fails, Plans, RecordsMetadata
    <2>2. Ahead(p)' = Ahead(p)
      BY <2>1, AheadOf, AheadOfNext, SamePlan
    <2>3. QED
      BY <1>d, <2>1, <2>2 DEF Due, NothingToApply
  <1>9. CASE RecordsAdopted(p)
    <2>1. /\ Phase(p) = "record" /\ Phase(p)' = "objects" /\ KeepsPlan(p) /\ todo'[p] = TxBatch(p)
          /\ ~StartsRun(p) /\ ~Fails(p) /\ ~Plans(p) /\ ~RecordsMetadata(p)
      BY <1>9, MovePhase DEF RecordsAdopted, StartsRun, Fails, Plans, RecordsMetadata
    <2>2. scen[p][o] # "Adopt"
      <3>1. cmd[p] = "migrate" /\ ObjectRows(p, RecordRows(p))
        BY <1>9 DEF RecordsAdopted, RecordsRows, RecordEffect
      <3>2. scen[p][o] = "Adopt" => o \in RecordRows(p)
        BY <3>1 DEF RecordRows, WithAction, ActionOf
      <3>3. QED
        BY <2>1, <3>1, <3>2 DEF ObjectRows
    <2>3. o \in Ahead(p)
      BY <1>d, <2>1, <2>2 DEF Due, NothingToApply
    <2>4. o \in TxBatch(p) \cup ModuleBatch(p)
      BY <2>1, <2>3, AheadOf, ObjAssumption DEF WithAction, TxBatch, ModuleBatch, Kinds
    <2>5. o \in Ahead(p)'
      BY <2>1, <2>4, AheadOfNext, SamePlan
    <2>6. QED
      BY <2>5 DEF Due
  <1>10. CASE RecordsMetadata(p)
    BY <1>10 DEF RecordsMetadata
  <1>11. CASE EndsObjects(p)
    <2>1. /\ Phase(p) = "objects" /\ Phase(p)' = "modules" /\ KeepsPlan(p) /\ todo[p] = {}
          /\ todo'[p] = ModuleBatch(p)
          /\ ~StartsRun(p) /\ ~Fails(p) /\ ~Plans(p) /\ ~RecordsMetadata(p)
      BY <1>11, MovePhase DEF EndsObjects, StartsRun, Fails, Plans, RecordsMetadata
    <2>2. Ahead(p) \subseteq Ahead(p)'
      BY <2>1, AheadOf, AheadOfNext
    <2>3. QED
      BY <1>d, <2>1, <2>2 DEF Due, NothingToApply
  <1>12. CASE EndsModules(p)
    <2>1. /\ Phase(p) = "modules" /\ KeepsPlan(p) /\ todo[p] = {} /\ retry[p] = {} /\ KeepsData
          /\ ~StartsRun(p) /\ ~Plans(p) /\ ~RecordsMetadata(p) /\ pc'[p] = "release"
      BY <1>12, MovePhase DEF EndsModules, StartsRun, Plans, RecordsMetadata
    <2>2. CASE Fails(p)
      BY <1>1, <2>2
    <2>3. CASE ~Fails(p)
      BY <1>d, <2>1, <2>3, AheadOf DEF Due, NothingToApply
    <2>4. QED
      BY <2>2, <2>3
  <1>13. CASE FinishesUnit(p)
    <2>1. /\ Phase(p) = Back(p) /\ Phase(p)' = Back(p) /\ Phase(p) \in LoopPcs /\ KeepsPlan(p)
          /\ todo'[p] = todo[p] \ {job[p]} /\ retry'[p] = retry[p] /\ CommitsUnit(p)
          /\ ~StartsRun(p) /\ ~Fails(p) /\ ~Plans(p) /\ ~RecordsMetadata(p)
      BY <1>13, MovePhase, BackIsLoop DEF FinishesUnit, StartsRun, Fails, Plans, RecordsMetadata,
                                             LoopPcs
    <2>2. HistoryRows(p) /\ job[p] \in Obj \cup Trans
      BY <2>1, UnitRuns DEF CommitsUnit, CommitUnit
    <2>3. job[p] \in Obj => o # job[p]
      BY <2>1, <2>2 DEF HistoryRows, ObjectRows
    <2>4. job[p] \in Trans => ~(IsLast(p, job[p]) /\ o = TableOf[job[p]])
      BY <2>1, <2>2, ObjAssumption DEF HistoryRows, ObjectRows
    <2>5. o \in Ahead(p) => o \in Ahead(p)'
      <3>1. o # job[p]
        BY <2>3
      <3>2. QED
        BY <2>1, <3>1, AheadOf, AheadOfNext, SamePlan DEF LoopPcs
    <2>6. todo[p] \cap TransOf(o) # {} /\ Phase(p) = "transitions" => todo'[p] \cap TransOf(o) # {}
      <3>1. CASE job[p] \in TransOf(o)
        <4>1. job[p] \in Trans /\ o = TableOf[job[p]]
          BY <3>1 DEF TransOf
        <4>2. PICK y \in todo[p] \cap TransOf(o) : y # job[p]
          <5>1. job[p] \in todo[p]
            BY <2>1, UnitRuns
          <5>2. QED
            BY <2>4, <3>1, <4>1, <5>1 DEF IsLast
        <4>3. QED
          BY <2>1, <4>2
      <3>2. CASE job[p] \notin TransOf(o)
        BY <2>1, <3>2
      <3>3. QED
        BY <3>1, <3>2
    <2>7. QED
      BY <1>d, <2>1, <2>5, <2>6 DEF Due, NothingToApply, LoopPcs
  <1>14. QED
    BY <1>1, <1>2, <1>3, <1>4, <1>5, <1>6, <1>7, <1>8, <1>9, <1>10, <1>11, <1>12, <1>13 DEF Moves

\* Whoever applies, records or is about to release can write, so nobody else does.
LEMMA RunsAlone ==
    ASSUME BaseInv, NEW p \in Proc, NEW r \in Proc \ {p}, ProcStep(p), conn[r],
           Phase(r) \in Applying \/ pc[r] = "release"
    PROVE  UNCHANGED db
  <1>1. pc[r] \in LockedPcs
    BY DEF Phase, Applying, LockedPcs, LoopPcs, TxPcs
  <1>2. QED
    BY <1>1, WriterAlone DEF CanWrite, BaseInv

LEMMA DueKept ==
    ASSUME NEW r \in Proc, SameRun(r), SameSession(r), DueAt(r), rowCs' = rowCs
    PROVE  DueAt(r)'
  <1>1. Phase(r)' = Phase(r) /\ Ahead(r)' = Ahead(r)
    BY OthersListed
  <1>2. \A o : (NothingToApply(r, o)' <=> NothingToApply(r, o)) /\ (Due(r, o)' <=> Due(r, o))
    BY <1>1 DEF NothingToApply, Due, SameRun
  <1>3. QED
    BY <1>1, <1>2 DEF DueAt, SameRun

LEMMA EnvironmentKeeps ==
    ASSUME Environment, NEW r \in Proc
    PROVE  /\ SameRun(r) /\ SameSession(r) /\ UNCHANGED <<schema, rowCs, rowFp, migRow>>
           /\ ~OutOfBand => UNCHANGED db
  BY DEF Environment, EditObject, EditTransition, OutOfBandDDL, SameRun, SameSession,
         db, server, client, plan, loop

LEMMA DueInvInit == Init => DueInv
  BY DEF Init, DueInv

LEMMA DueInvNext == ASSUME BaseInv, ListInv, DueInv, Next PROVE DueInv'
  <1>0. \A r \in Proc : DueAt(r)
    BY DEF DueInv, DueAt
  <1>1. ASSUME NEW p \in Proc, ProcStep(p), NEW r \in Proc PROVE DueAt(r)'
    <2>1. CASE r = p
      <3>1. CASE StartsRun(p)
        BY <2>1, <3>1, MovePhase DEF DueAt, Applying, LoopPcs
      <3>2. CASE ~conn'[p]
        BY <2>1, <3>2 DEF DueAt
      <3>3. QED
        BY <1>0, <1>1, <2>1, <3>1, <3>2, ConnectedMoves, DueMoves
    <2>2. CASE r # p
      <3>1. SameRun(r) /\ SameSession(r)
        BY <1>1, <2>2, OthersKept DEF BaseInv
      <3>2. CASE conn[r] /\ (Phase(r) \in Applying \/ pc[r] = "release")
        BY <1>0, <1>1, <2>2, <3>1, <3>2, RunsAlone, DueKept DEF db
      <3>3. CASE ~(conn[r] /\ (Phase(r) \in Applying \/ pc[r] = "release"))
        BY <3>1, <3>3, OthersListed DEF DueAt, SameRun
      <3>4. QED
        BY <3>2, <3>3
    <2>3. QED
      BY <2>1, <2>2
  <1>2. ASSUME Environment, NEW r \in Proc PROVE DueAt(r)'
    BY <1>0, <1>2, EnvironmentKeeps, DueKept
  <1>3. QED
    BY <1>1, <1>2, NextCases DEF DueInv, DueAt

\* A step that changes nothing changes nothing of a run.
LEMMA StutterKeeps ==
    ASSUME UNCHANGED vars, NEW r \in Proc
    PROVE  SameRun(r) /\ SameSession(r) /\ UNCHANGED db
  BY DEF SameRun, SameSession, vars, db, server, client, plan, loop

LEMMA DueInvStutter == DueInv /\ UNCHANGED vars => DueInv'
  <1> SUFFICES ASSUME DueInv, UNCHANGED vars, NEW r \in Proc PROVE DueAt(r)'
    BY DEF DueInv, DueAt
  <1>1. DueAt(r)
    BY DEF DueInv, DueAt
  <1>2. QED
    BY <1>1, StutterKeeps, DueKept DEF db

MetaAt(p) ==
    conn[p] /\ cmd[p] # "migrate" =>
        \A o \in Obj : live[o] # 0 =>
            /\ pc[p] \in {"gate", "record"} =>
                  /\ scen[p][o] # "Create"
                  /\ scen[p][o] # "Adopt" => rowCs[o] # 0
                  /\ scen[p][o] = "SkipUnchanged" => rowCs[o] = wsFile[p][o]
            /\ pc[p] = "release" /\ exit[p] = 0 =>
                  /\ rowCs[o] # 0
                  /\ cmd[p] = "repair" => rowCs[o] = wsFile[p][o]

LEMMA MetaMoves ==
    ASSUME BaseInv, ListInv, NEW p \in Proc, MetaAt(p), conn[p], Moves(p)
    PROVE  MetaAt(p)'
  <1> SUFFICES ASSUME conn'[p], cmd'[p] # "migrate", NEW o \in Obj, live'[o] # 0
               PROVE  /\ pc'[p] \in {"gate", "record"} =>
                           /\ scen'[p][o] # "Create"
                           /\ scen'[p][o] # "Adopt" => rowCs'[o] # 0
                           /\ scen'[p][o] = "SkipUnchanged" => rowCs'[o] = wsFile'[p][o]
                      /\ pc'[p] = "release" /\ exit'[p] = 0 =>
                           /\ rowCs'[o] # 0
                           /\ cmd'[p] = "repair" => rowCs'[o] = wsFile'[p][o]
    BY DEF MetaAt
  <1>0. scen[p] \in [Obj -> Scenarios] /\ \A c \in Obj : wsFile[p][c] # 0
    BY DEF BaseInv, TypeOK, HoldInv, LockInv, SessionInv
  <1> USE DEF KeepsScan, KeepsPlan, KeepsLists, Idles, KeepsData, ledgerVars
  <1>1. CASE StartsRun(p) \/ Fails(p)
    BY <1>1 DEF StartsRun, Fails
  <1>2. CASE Plans(p)
    BY <1>2, DecideMeans DEF Plans
  <1>3. CASE PassesGate(p)
    BY <1>3 DEF PassesGate, MetaAt
  <1>4. CASE RecordsMetadata(p)
    <2>1. /\ pc[p] = "record" /\ pc'[p] = "release" /\ KeepsPlan(p) /\ cmd[p] # "migrate"
          /\ ObjectRows(p, RecordRows(p)) /\ live' = live
      BY <1>4 DEF RecordsMetadata, RecordsRows, RecordEffect
    <2>2. /\ scen[p][o] # "Create" /\ (scen[p][o] # "Adopt" => rowCs[o] # 0)
          /\ scen[p][o] = "SkipUnchanged" => rowCs[o] = wsFile[p][o]
      BY <2>1 DEF MetaAt
    <2>3. scen[p][o] = "Adopt" => o \in RecordRows(p)
      BY DEF RecordRows, WithAction, ActionOf
    <2>4. cmd[p] = "repair" /\ scen[p][o] # "SkipUnchanged" => o \in RecordRows(p)
      BY <1>0, <2>2 DEF RecordRows, WithAction, ActionOf, Scenarios
    <2>5. rowCs'[o] = IF o \in RecordRows(p) THEN wsFile[p][o] ELSE rowCs[o]
      BY <2>1 DEF ObjectRows
    <2>6. QED
      BY <1>0, <2>1, <2>2, <2>3, <2>4, <2>5
  <1>5. CASE \/ Filters(p) \/ RunsSchemas(p) \/ Takes(p) \/ PutsOff(p) \/ RecordsAdopted(p)
             \/ EndsObjects(p) \/ NextRound(p) \/ InUnit(p) \/ FinishesUnit(p)
    <2>1. pc'[p] \notin {"gate", "record", "release"}
      BY <1>5, BackIsLoop DEF Filters, RunsSchemas, Takes, PutsOff, RecordsAdopted, EndsObjects,
                              NextRound, InUnit, FinishesUnit, LoopPcs, TxPcs
    <2>2. QED
      BY <2>1
  <1>6. CASE EndsTransitions(p) \/ EndsModules(p)
    <2>1. Phase(p) \in LoopPcs /\ cmd'[p] = cmd[p]
      BY <1>6, MovePhase DEF EndsTransitions, EndsModules, LoopPcs
    <2>2. QED
      BY <2>1 DEF ListInv
  <1>7. QED
    BY <1>1, <1>2, <1>3, <1>4, <1>5, <1>6 DEF Moves

LEMMA MetaInvInit == Init => MetaInv
  BY DEF Init, MetaInv

LEMMA MetaInvNext == ASSUME ~OutOfBand, BaseInv, ListInv, MetaInv, Next PROVE MetaInv'
  <1>0. \A r \in Proc : MetaAt(r)
    BY DEF MetaInv, MetaAt
  <1>1. ASSUME NEW p \in Proc, ProcStep(p), NEW r \in Proc PROVE MetaAt(r)'
    <2>1. CASE r = p
      <3>1. CASE StartsRun(p)
        BY <2>1, <3>1 DEF MetaAt, StartsRun
      <3>2. CASE ~conn'[p]
        BY <2>1, <3>2 DEF MetaAt
      <3>3. QED
        BY <1>0, <1>1, <2>1, <3>1, <3>2, ConnectedMoves, MetaMoves
    <2>2. CASE r # p
      <3>1. SameRun(r)
        BY <1>1, <2>2, OthersKept DEF BaseInv
      <3>2. CASE conn[r] /\ pc[r] \in {"gate", "record", "release"}
        <4>1. Phase(r) = pc[r]
          BY <3>2 DEF Phase, TxPcs
        <4>2. UNCHANGED db
          BY <1>1, <2>2, <3>2, <4>1, RunsAlone DEF Applying
        <4>3. QED
          BY <1>0, <3>1, <4>2 DEF MetaAt, SameRun, db
      <3>3. CASE ~(conn[r] /\ pc[r] \in {"gate", "record", "release"})
        BY <3>1, <3>3 DEF MetaAt, SameRun
      <3>4. QED
        BY <3>2, <3>3
    <2>3. QED
      BY <2>1, <2>2
  <1>2. ASSUME Environment, NEW r \in Proc PROVE MetaAt(r)'
    <2>1. SameRun(r) /\ UNCHANGED db
      BY <1>2, EnvironmentKeeps
    <2>2. QED
      BY <1>0, <2>1 DEF MetaAt, SameRun, db
  <1>3. QED
    BY <1>1, <1>2, NextCases DEF MetaInv, MetaAt

LEMMA MetaInvStutter == MetaInv /\ UNCHANGED vars => MetaInv'
  <1> SUFFICES ASSUME MetaInv, UNCHANGED vars, NEW r \in Proc PROVE MetaAt(r)'
    BY DEF MetaInv, MetaAt
  <1>1. SameRun(r) /\ UNCHANGED db
    BY StutterKeeps
  <1>2. QED
    BY <1>1 DEF MetaInv, MetaAt, SameRun, db

LEMMA DueSafe == Spec => []DueInv
  <1>1. Init => DueInv
    BY DueInvInit
  <1>2. (BaseInv /\ ListInv) /\ DueInv /\ [Next]_vars => DueInv'
    BY DueInvNext, DueInvStutter
  <1>3. QED
    BY <1>1, <1>2, ListSafe, PTL DEF Spec

LEMMA MetaSafe == ~OutOfBand => (Spec => []MetaInv)
  <1> SUFFICES ASSUME ~OutOfBand PROVE Spec => []MetaInv
    OBVIOUS
  <1>1. Init => MetaInv
    BY MetaInvInit
  <1>2. (BaseInv /\ ListInv) /\ MetaInv /\ [Next]_vars => MetaInv'
    BY MetaInvNext, MetaInvStutter
  <1>3. QED
    BY <1>1, <1>2, ListSafe, PTL DEF Spec

\* A run about to exit 0 has what its command promises in the history, whatever
\* its scripts do to the transaction and whatever else failed: for a migrate even
\* while objects are changed by hand, for baseline and repair without that (an
\* object created by hand after the plan is nobody's to record).
THEOREM SuccessRecorded ==
    ~OutOfBand \/ Commands \subseteq {"migrate"} => (Spec => []SuccessMeansRecorded)
  <1>1. ASSUME BaseInv, ListInv, DueInv, MetaInv \/ Commands \subseteq {"migrate"}
        PROVE  SuccessMeansRecorded
    <2> SUFFICES ASSUME NEW p \in Proc, At(p, "release"), exit[p] = 0, NEW o \in Obj
                 PROVE  CASE cmd[p] = "migrate"  -> rowCs[o] = wsFile[p][o] \/ NothingToApply(p, o)
                          [] cmd[p] = "repair"   -> live[o] # 0 => rowCs[o] = wsFile[p][o]
                          [] cmd[p] = "baseline" -> live[o] # 0 => rowCs[o] # 0
      BY DEF SuccessMeansRecorded
    <2>1. pc[p] = "release" /\ conn[p] /\ Phase(p) = "release"
      BY DEF At, Phase, TxPcs
    <2>2. cmd[p] \in Commands /\ cmd[p] \in {"migrate", "baseline", "repair"}
      BY <1>1, <2>1, ModeAssumption DEF ListInv
    <2>3. CASE cmd[p] = "migrate"
      <3>1. ~Due(p, o)
        BY <2>1, AheadOf DEF Due
      <3>2. rowCs[o] = wsFile[p][o] \/ NothingToApply(p, o)
        BY <1>1, <2>1, <2>3, <3>1 DEF DueInv
      <3>3. QED
        BY <2>3, <3>2
    <2>4. CASE cmd[p] # "migrate"
      <3>1. live[o] # 0 => rowCs[o] # 0 /\ (cmd[p] = "repair" => rowCs[o] = wsFile[p][o])
        BY <1>1, <2>1, <2>2, <2>4 DEF MetaInv
      <3>2. QED
        BY <2>2, <2>4, <3>1
    <2>5. QED
      BY <2>3, <2>4
  <1>2. CASE ~OutOfBand
    <2>1. (BaseInv /\ ListInv) /\ DueInv /\ MetaInv => SuccessMeansRecorded
      BY <1>1
    <2>2. QED
      BY <1>2, <2>1, ListSafe, DueSafe, MetaSafe, PTL
  <1>3. CASE Commands \subseteq {"migrate"}
    <2>1. (BaseInv /\ ListInv) /\ DueInv => SuccessMeansRecorded
      BY <1>1, <1>3
    <2>2. QED
      BY <2>1, ListSafe, DueSafe, PTL
  <1>4. QED
    BY <1>2, <1>3

-----------------------------------------------------------------------------
(* The plan stays fresh. *)

\* What the planner sees of an object.
ViewOf(p, o) ==
    [exists |-> live[o] # 0, prior |-> rowCs[o], drift |-> Drift(o),
     kind |-> Kind[o], checksum |-> wsFile[p][o],
     hasTransitions |-> \E x \in TransOf(o) : wsRev[p][x] # 0,
     parent |-> ParentState(o)]

\* When the planner has a script run: to create what is absent, and to update a
\* recorded module that drifted or changed, a trigger only below a settled parent.
LEMMA ResolveScript ==
    ASSUME NEW in, in.kind \in Kinds, in.parent \in ParentStates, in.hasTransitions \in BOOLEAN
    PROVE  /\ ActionOf(ResolvePlanScenario(in)) = "CreateObject" <=> ~in.exists
           /\ ActionOf(ResolvePlanScenario(in)) = "UpdateExistingModule" <=>
                /\ in.exists /\ in.prior # 0 /\ in.kind \in ModuleKinds
                /\ \/ in.drift
                   \/ /\ in.prior # in.checksum
                      /\ in.kind = "triggers" => in.parent \in {"unnamed", "recorded"}
  <1>1. /\ ResolveChanged(in) \notin {"Create", "Adopt", "SkipUnchanged"}
        /\ ResolveChanged(in) \in {"ModuleUpdate", "TriggerUpdateModule"} <=>
              in.kind \in ModuleKinds /\ (in.kind = "triggers" => in.parent \in {"unnamed", "recorded"})
        /\ ResolveChanged(in) \in Scenarios
    <2>1. CASE in.kind = "triggers"
      <3>1. ResolveChanged(in) = ChangedTrigger(in.parent)
        BY <2>1 DEF ResolveChanged
      <3>2. QED
        BY <2>1, <3>1 DEF ChangedTrigger, ChangedDefault, ParentStates, ModuleKinds, Scenarios
    <2>2. CASE in.kind # "triggers"
      BY <2>2 DEF ResolveChanged, ChangedDefault, Kinds, ModuleKinds, TransactionalKinds, Scenarios
    <2>3. QED
      BY <2>1, <2>2
  <1>2. \A s \in Scenarios : /\ ActionOf(s) = "CreateObject" <=> s = "Create"
                             /\ ActionOf(s) = "UpdateExistingModule" <=>
                                   s \in {"ModuleUpdate", "TriggerUpdateModule"}
    BY DEF ActionOf, Scenarios
  <1>3. ResolvePlanScenario(in) \in Scenarios
    BY <1>1 DEF ResolvePlanScenario, Scenarios
  <1>4. ResolvePlanScenario(in) = "Create" <=> ~in.exists
    BY <1>1 DEF ResolvePlanScenario
  <1>5. ResolvePlanScenario(in) \in {"ModuleUpdate", "TriggerUpdateModule"} <=>
           /\ in.exists /\ in.prior # 0 /\ in.kind \in ModuleKinds
           /\ \/ in.drift
              \/ /\ in.prior # in.checksum
                 /\ in.kind = "triggers" => in.parent \in {"unnamed", "recorded"}
    BY <1>1 DEF ResolvePlanScenario
  <1>6. QED
    BY <1>2, <1>3, <1>4, <1>5

\* Nothing about an object whose script is still to run changes for the planner,
\* except that its parent may be recorded meanwhile, which changes no decision.
LEMMA ScriptStays ==
    ASSUME BaseInv, NEW p \in Proc, NEW o \in Obj,
           ActionOf(DecideObject(p, o)) \in {"CreateObject", "UpdateExistingModule"},
           wsFile'[p] = wsFile[p], live'[o] = live[o], rowCs'[o] = rowCs[o], rowFp'[o] = rowFp[o],
           \A c \in Obj : (live[c] # 0 => live'[c] # 0) /\ (rowCs[c] # 0 => rowCs'[c] # 0)
    PROVE  ActionOf(DecideObject(p, o))' = ActionOf(DecideObject(p, o))
  <1> DEFINE in == ViewOf(p, o)
             on == ViewOf(p, o)'
  <1>1. DecideObject(p, o) = ResolvePlanScenario(in) /\ DecideObject(p, o)' = ResolvePlanScenario(on)
    BY DEF DecideObject, ViewOf
  <1>2. in.kind \in Kinds /\ in.parent \in ParentStates /\ in.hasTransitions \in BOOLEAN
    BY ObjAssumption DEF ViewOf, ParentState, ParentStates
  <1>3. on.kind \in Kinds /\ on.parent \in ParentStates /\ on.hasTransitions \in BOOLEAN
    BY ObjAssumption DEF ViewOf, ParentState, ParentStates
  <1>4. /\ on.exists = in.exists /\ on.prior = in.prior /\ on.kind = in.kind
        /\ on.checksum = in.checksum /\ in.kind = Kind[o]
    BY DEF ViewOf
  <1>5. in.parent \in {"unnamed", "recorded"} => on.parent \in {"unnamed", "recorded"}
    BY ObjAssumption DEF ViewOf, ParentState
  <1>6. in.kind \in ModuleKinds => on.drift = in.drift
    <2>1. in.kind \in ModuleKinds => TransOf(o) = {}
      BY <1>4, TableKinds
    <2>2. TransOf(o) = {} => Shape(live', eff', o) = Shape(live, eff, o)
      BY SameShapeOf
    <2>3. Shape(live', eff', o) = Shape(live, eff, o) => on.drift = in.drift
      BY DEF ViewOf, Drift
    <2>4. QED
      BY <2>1, <2>2, <2>3
  <1> HIDE DEF in, on
  <1>7. CASE ActionOf(DecideObject(p, o)) = "CreateObject"
    BY <1>1, <1>2, <1>3, <1>4, <1>7, ResolveScript
  <1>8. CASE ActionOf(DecideObject(p, o)) = "UpdateExistingModule"
    BY <1>1, <1>2, <1>3, <1>4, <1>5, <1>6, <1>8, ResolveScript
  <1>9. QED
    BY <1>7, <1>8

\* A unit of work of a run changes the live version and the rows of its own
\* objects only, and what is there or recorded stays so.
LEMMA UnitMonotone ==
    ASSUME BaseInv, NEW p \in Proc, CanWrite(p), CommitsUnit(p) \/ RecordsRows(p)
    PROVE  \A c \in Obj : (live[c] # 0 => live'[c] # 0) /\ (rowCs[c] # 0 => rowCs'[c] # 0)
  <1>1. live \in [Obj -> Vers] /\ \A c \in Obj : wsFile[p][c] # 0
    BY WriterScanned DEF BaseInv, TypeOK
  <1>2. \A c \in Obj : rowCs[c] # 0 => rowCs'[c] # 0
    BY <1>1, RowsScanned
  <1>3. \A c \in Obj : live[c] # 0 => live'[c] # 0
    BY <1>1 DEF CommitsUnit, CommitUnit, BodyEffect, RecordsRows, RecordEffect
  <1>4. QED
    BY <1>2, <1>3

FreshAt(p) ==
    conn[p] => \A o \in Ahead(p) : ActionOf(DecideObject(p, o)) = ActionOf(scen[p][o])

\* What is ahead has a script to run.
LEMMA AheadRuns ==
    ASSUME BaseInv, ListInv, NEW p \in Proc, NEW o \in Ahead(p)
    PROVE  o \in Obj /\ ActionOf(scen[p][o]) \in {"CreateObject", "UpdateExistingModule"}
  <1>1. /\ Phase(p) = "objects" => todo[p] \subseteq TxBatch(p)
        /\ Phase(p) = "modules" => todo[p] \cup retry[p] \subseteq ModuleBatch(p)
    BY DEF ListInv
  <1>2. o \in WithAction(p, {"CreateObject", "UpdateExistingModule"})
    BY <1>1, AheadOf DEF TxBatch, ModuleBatch
  <1>3. QED
    BY <1>2 DEF WithAction

\* What is ahead after a move of an applying run was ahead before it, and is not
\* the unit that the move finished.
LEMMA AheadShrinks ==
    ASSUME BaseInv, ListInv, NEW p \in Proc, Moves(p), ~StartsRun(p), ~Plans(p)
    PROVE  /\ Ahead(p)' \subseteq Ahead(p)
           /\ FinishesUnit(p) => job[p] \notin Ahead(p)'
           /\ Ahead(p)' # {} => wsFile'[p] = wsFile[p] /\ scen'[p] = scen[p]
  <1>l. ListsAt(p)
    BY ListInvAt
  <1>b. TxBatch(p) \cup ModuleBatch(p) \subseteq WithAction(p, {"CreateObject", "UpdateExistingModule"})
    BY DEF TxBatch, ModuleBatch
  <1> USE DEF KeepsScan, KeepsPlan, KeepsLists, Idles
  <1>1. CASE Fails(p) \/ RecordsMetadata(p) \/ EndsModules(p)
    <2>1. Phase(p)' = "release" /\ Ahead(p)' = {} /\ pc'[p] = "release"
      BY <1>1, MovePhase, AheadOfNext DEF Fails, RecordsMetadata, EndsModules
    <2>2. QED
      BY <2>1
  <1>2. CASE PassesGate(p) \/ Filters(p) \/ RunsSchemas(p) \/ EndsTransitions(p)
    <2>1. /\ Phase(p) \in {"gate", "filter", "schemas", "transitions", "record"}
          /\ Phase(p)' \in {"gate", "filter", "schemas", "transitions", "record"}
          /\ scen'[p] = scen[p] /\ wsFile'[p] = wsFile[p] /\ pc'[p] \notin LoopPcs \ {"transitions"}
          /\ pc[p] # "commit"
      BY <1>2, MovePhase DEF PassesGate, Filters, RunsSchemas, EndsTransitions, LoopPcs
    <2>2. Ahead(p)' = Ahead(p)
      BY <2>1, AheadOf, AheadOfNext, SamePlan
    <2>3. QED
      BY <2>1, <2>2 DEF FinishesUnit
  <1>3. CASE Takes(p) \/ InUnit(p)
    <2>1. /\ Phase(p)' = Phase(p) /\ Phase(p) \in LoopPcs /\ KeepsPlan(p) /\ KeepsLists(p)
          /\ ~FinishesUnit(p)
      BY <1>3, MovePhase, BackIsLoop DEF Takes, InUnit, FinishesUnit, TxPcs, LoopPcs
    <2>2. Ahead(p)' = Ahead(p)
      <3>1. /\ ModuleBatch(p)' = ModuleBatch(p)
            /\ \A A : WithAction(p, A)' = WithAction(p, A)
        BY <2>1, SamePlan
      <3>2. Phase(p)' = Phase(p) /\ Phase(p) \in LoopPcs /\ todo'[p] = todo[p] /\ retry'[p] = retry[p]
        BY <2>1
      <3>3. QED
        BY <3>1, <3>2 DEF Ahead, LoopPcs
    <2>3. QED
      BY <2>1, <2>2
  <1>4. CASE PutsOff(p) \/ NextRound(p)
    <2>1. pc[p] = "rollback" => job[p] \in todo[p]
      BY DEF BaseInv, WorkInv, InTx
    <2>2. /\ Phase(p) = "modules" /\ Phase(p)' = "modules" /\ KeepsPlan(p)
          /\ todo'[p] \cup retry'[p] \subseteq todo[p] \cup retry[p] /\ ~FinishesUnit(p)
      BY <1>4, <2>1, MovePhase DEF PutsOff, NextRound, FinishesUnit
    <2>3. QED
      BY <2>2, AheadOf, AheadOfNext
  <1>5. CASE RecordsAdopted(p)
    <2>1. /\ Phase(p) = "record" /\ Phase(p)' = "objects" /\ KeepsPlan(p) /\ todo'[p] = TxBatch(p)
          /\ ~FinishesUnit(p)
      BY <1>5, MovePhase DEF RecordsAdopted, FinishesUnit
    <2>2. QED
      BY <1>b, <2>1, AheadOf, AheadOfNext, SamePlan
  <1>6. CASE EndsObjects(p)
    <2>1. /\ Phase(p) = "objects" /\ Phase(p)' = "modules" /\ KeepsPlan(p)
          /\ todo'[p] = ModuleBatch(p) /\ retry'[p] = retry[p] /\ ~FinishesUnit(p)
      BY <1>6, MovePhase DEF EndsObjects, FinishesUnit
    <2>2. retry[p] = {}
      BY <1>l, <2>1 DEF ListsAt
    <2>3. QED
      BY <2>1, <2>2, AheadOf, AheadOfNext
  <1>7. CASE FinishesUnit(p)
    <2>1. /\ Phase(p)' = Phase(p) /\ Phase(p) \in LoopPcs /\ KeepsPlan(p) /\ Phase(p) = Back(p)
          /\ todo'[p] = todo[p] \ {job[p]} /\ retry'[p] = retry[p] /\ CommitsUnit(p)
      BY <1>7, MovePhase DEF FinishesUnit
    <2>2. Ahead(p)' \subseteq Ahead(p)
      BY <2>1, AheadOf, AheadOfNext, SamePlan DEF LoopPcs
    <2>3. job[p] \in todo[p] /\ job[p] \in Obj \cup Trans
      BY <2>1, UnitRuns
    <2>4. CASE job[p] \in Trans
      <3>1. job[p] \notin Obj
        BY <2>4, ObjAssumption
      <3>2. QED
        BY <2>1, <2>2, <3>1, AheadRuns
    <2>5. CASE job[p] \in Obj
      <3>1. job[p] \notin Trans
        BY <2>5, ObjAssumption
      <3>2. CASE Phase(p) = "objects"
        <4>1. job[p] \in TxBatch(p)
          BY <1>l, <2>3, <3>2 DEF ListsAt
        <4>2. job[p] \notin ModuleBatch(p)
          BY <4>1 DEF TxBatch, ModuleBatch, TransactionalKinds, ModuleKinds
        <4>3. QED
          BY <2>1, <2>2, <3>2, <4>2, AheadOfNext, SamePlan
      <3>3. CASE Phase(p) = "modules"
        <4>1. job[p] \notin retry[p]
          BY <1>l, <2>3, <3>3 DEF ListsAt
        <4>2. QED
          BY <2>1, <2>2, <3>3, <4>1, AheadOfNext
      <3>4. QED
        BY <2>1, <3>1, <3>2, <3>3 DEF Back
    <2>6. QED
      BY <2>1, <2>2, <2>3, <2>4, <2>5
  <1>8. QED
    BY <1>1, <1>2, <1>3, <1>4, <1>5, <1>6, <1>7 DEF Moves

LEMMA FreshMoves ==
    ASSUME "commit" \notin Escapes, BaseInv, ListInv, NEW p \in Proc, FreshAt(p), conn[p], Moves(p)
    PROVE  FreshAt(p)'
  <1> SUFFICES ASSUME conn'[p], NEW o \in Ahead(p)'
               PROVE  ActionOf(DecideObject(p, o))' = ActionOf(scen[p][o])'
    BY DEF FreshAt
  <1> USE DEF KeepsScan, KeepsData, ledgerVars
  <1>1. CASE StartsRun(p)
    BY <1>1, MovePhase, AheadOfNext
  <1>2. CASE Plans(p)
    <2>1. Phase(p)' = "gate" /\ KeepsScan(p) /\ KeepsData
          /\ scen'[p] = [c \in Obj |-> DecideObject(p, c)]
      BY <1>2, MovePhase DEF Plans
    <2>2. o \in Obj
      BY <2>1, AheadOfNext DEF WithAction
    <2>3. DecideObject(p, o)' = DecideObject(p, o)
      BY <2>1 DEF DecideObject, Drift, ParentState
    <2>4. QED
      BY <2>1, <2>2, <2>3
  <1>3. CASE ~StartsRun(p) /\ ~Plans(p)
    <2>1. /\ o \in Ahead(p) /\ (FinishesUnit(p) => o # job[p])
          /\ wsFile'[p] = wsFile[p] /\ scen'[p] = scen[p]
      BY <1>3, AheadShrinks
    <2>2. /\ o \in Obj /\ ActionOf(scen[p][o]) \in {"CreateObject", "UpdateExistingModule"}
          /\ ActionOf(DecideObject(p, o)) = ActionOf(scen[p][o])
      BY <2>1, AheadRuns DEF FreshAt
    <2>3. CASE KeepsData
      BY <2>1, <2>2, <2>3, ScriptStays
    <2>4. CASE FinishesUnit(p)
      <3>1. CommitsUnit(p) /\ CanWrite(p) /\ o # job[p]
        BY <2>1, <2>4 DEF FinishesUnit, CommitsUnit, CanWrite
      <3>2. \A c \in Obj : (live[c] # 0 => live'[c] # 0) /\ (rowCs[c] # 0 => rowCs'[c] # 0)
        BY <3>1, UnitMonotone
      <3>3. live'[o] = live[o]
        BY <2>2, <3>1 DEF CommitsUnit, CommitUnit, BodyEffect, BaseInv, TypeOK
      <3>4. CASE o = TableOf[job[p]] /\ job[p] \in Trans
        <4>1. live[o] # 0 /\ Kind[o] \notin ModuleKinds
          BY <3>1, <3>4, UnitRuns, TableKinds DEF CanRun
        <4>2. ViewOf(p, o).kind \in Kinds /\ ViewOf(p, o).parent \in ParentStates
              /\ ViewOf(p, o).hasTransitions \in BOOLEAN /\ ViewOf(p, o).exists
              /\ ViewOf(p, o).kind \notin ModuleKinds
          BY <2>2, <4>1, ObjAssumption DEF ViewOf, ParentState, ParentStates
        <4>3. DecideObject(p, o) = ResolvePlanScenario(ViewOf(p, o))
          BY DEF DecideObject, ViewOf
        <4>4. QED
          BY <2>2, <4>2, <4>3, ResolveScript
      <3>5. CASE ~(o = TableOf[job[p]] /\ job[p] \in Trans)
        <4>1. rowCs'[o] = rowCs[o] /\ rowFp'[o] = rowFp[o]
          BY <2>2, <3>1, <3>5, UnitRuns, ObjAssumption DEF CommitsUnit, CommitUnit, HistoryRows, ObjectRows
        <4>2. QED
          BY <2>1, <2>2, <3>2, <3>3, <4>1, ScriptStays
      <3>6. QED
        BY <3>4, <3>5
    <2>5. CASE RecordsAdopted(p)
      <3>1. RecordsRows(p) /\ cmd[p] = "migrate" /\ CanWrite(p)
        BY <2>5 DEF RecordsAdopted, CanWrite, LockedPcs
      <3>2. \A c \in Obj : (live[c] # 0 => live'[c] # 0) /\ (rowCs[c] # 0 => rowCs'[c] # 0)
        BY <3>1, UnitMonotone
      <3>3. o \notin RecordRows(p)
        BY <2>2, <3>1 DEF RecordRows, WithAction
      <3>4. live'[o] = live[o] /\ rowCs'[o] = rowCs[o] /\ rowFp'[o] = rowFp[o]
        BY <2>2, <3>1, <3>3 DEF RecordsRows, RecordEffect, ObjectRows
      <3>5. QED
        BY <2>1, <2>2, <3>2, <3>4, ScriptStays
    <2>6. CASE RecordsMetadata(p)
      BY <2>6, MovePhase, AheadOfNext DEF RecordsMetadata
    <2>7. KeepsData \/ FinishesUnit(p) \/ RecordsAdopted(p) \/ RecordsMetadata(p)
      BY <1>3 DEF Moves, Fails, PassesGate, Filters, RunsSchemas, Takes, PutsOff, EndsTransitions,
                  EndsObjects, EndsModules, NextRound, InUnit, CommitsBody
    <2>8. QED
      BY <2>3, <2>4, <2>5, <2>6, <2>7
  <1>4. QED
    BY <1>1, <1>2, <1>3

\* Another process's step, or an edit, leaves a run and the database it sees alone.
LEMMA FreshKept ==
    ASSUME NEW r \in Proc, SameRun(r), SameSession(r), FreshAt(r), UNCHANGED db
    PROVE  FreshAt(r)'
  <1>1. Ahead(r)' = Ahead(r)
    BY OthersListed
  <1>2. \A o : DecideObject(r, o)' = DecideObject(r, o)
    BY DEF DecideObject, Drift, ParentState, SameRun, db
  <1>3. QED
    BY <1>1, <1>2 DEF FreshAt, SameRun

LEMMA FreshInvInit == Init => FreshInv
  BY DEF Init, FreshInv

LEMMA FreshInvNext ==
    ASSUME ~OutOfBand, "commit" \notin Escapes, BaseInv, ListInv, FreshInv, Next
    PROVE  FreshInv'
  <1>0. \A r \in Proc : FreshAt(r)
    BY DEF FreshInv, FreshAt
  <1>1. ASSUME NEW p \in Proc, ProcStep(p), NEW r \in Proc PROVE FreshAt(r)'
    <2>1. CASE r = p
      <3>1. CASE StartsRun(p)
        BY <2>1, <3>1, MovePhase, AheadOfNext DEF FreshAt
      <3>2. CASE ~conn'[p]
        BY <2>1, <3>2 DEF FreshAt
      <3>3. QED
        BY <1>0, <1>1, <2>1, <3>1, <3>2, ConnectedMoves, FreshMoves
    <2>2. CASE r # p
      <3>1. SameRun(r) /\ SameSession(r)
        BY <1>1, <2>2, OthersKept DEF BaseInv
      <3>2. CASE conn[r] /\ Phase(r) \in Applying
        BY <1>0, <1>1, <2>2, <3>1, <3>2, RunsAlone, FreshKept
      <3>3. CASE conn[r] /\ Phase(r) \notin Applying
        <4>1. Ahead(r) = {}
          BY <3>3, AheadOf DEF Applying, LoopPcs
        <4>2. QED
          BY <3>1, <4>1, OthersListed DEF FreshAt
      <3>4. CASE ~conn[r]
        BY <3>1, <3>4 DEF FreshAt, SameRun
      <3>5. QED
        BY <3>2, <3>3, <3>4
    <2>3. QED
      BY <2>1, <2>2
  <1>2. ASSUME Environment, NEW r \in Proc PROVE FreshAt(r)'
    BY <1>0, <1>2, EnvironmentKeeps, FreshKept
  <1>3. QED
    BY <1>1, <1>2, NextCases DEF FreshInv, FreshAt

LEMMA FreshInvStutter == FreshInv /\ UNCHANGED vars => FreshInv'
  <1> SUFFICES ASSUME FreshInv, UNCHANGED vars, NEW r \in Proc PROVE FreshAt(r)'
    BY DEF FreshInv, FreshAt
  <1>1. FreshAt(r)
    BY DEF FreshInv, FreshAt
  <1>2. QED
    BY <1>1, StutterKeeps, FreshKept

LEMMA FreshSafe == ~OutOfBand /\ "commit" \notin Escapes => (Spec => []FreshInv)
  <1> SUFFICES ASSUME ~OutOfBand, "commit" \notin Escapes PROVE Spec => []FreshInv
    OBVIOUS
  <1>1. Init => FreshInv
    BY FreshInvInit
  <1>2. (BaseInv /\ ListInv) /\ FreshInv /\ [Next]_vars => FreshInv'
    BY FreshInvNext, FreshInvStutter
  <1>3. QED
    BY <1>1, <1>2, ListSafe, PTL DEF Spec

LEMMA JobInvNext == ASSUME TypeOK, JobInv, Next PROVE JobInv'
  <1>0. pc \in [Proc -> Pcs] /\ job \in [Proc -> Obj \cup Trans \cup {None}]
    BY DEF TypeOK
  <1>1. CASE Environment
    <2>1. UNCHANGED <<pc, job>>
      BY <1>1 DEF Environment, EditObject, EditTransition, OutOfBandDDL, client, loop
    <2>2. QED
      BY <2>1 DEF JobInv
  <1>2. ASSUME NEW p \in Proc, ProcStep(p) PROVE JobInv'
    <2> DEFINE out == TxPcs \cup {"rollback", "release", "exited", "dead"}
    <2>1. \A r \in Proc \ {p} : pc'[r] = pc[r] /\ job'[r] = job[r]
      BY <1>2, OthersKept DEF SameRun
    <2>2. pc'[p] \in out \/ job'[p] = None \/ (pc[p] \notin out /\ job' = job)
      <3> USE <1>0 DEF At, Goto, Stop, loop, TxPcs
      <3>1. CASE \E c \in Commands : Start(p, c)
        BY <3>1 DEF Start
      <3>2. CASE Step(p)
        <4>1. CASE Acquire(p) \/ AcquireFails(p) \/ Plan(p) \/ GateBlocked(p) \/ GateRefused(p)
                     \/ GatePassed(p) \/ Filter(p) \/ Schemas(p) \/ StatementFails(p)
          BY <4>1 DEF Acquire, AcquireFails, Plan, GateBlocked, GateRefused, GatePassed, Filter,
                      Schemas, StatementFails
        <4>2. CASE NextScript(p)
          BY <4>2 DEF NextScript
        <4>3. CASE TransitionsDone(p) \/ Record(p) \/ ObjectsDone(p) \/ RoundDone(p)
          BY <4>3 DEF TransitionsDone, Record, ObjectsDone, RoundDone
        <4>4. CASE Begin(p) \/ Body(p) \/ AssertOpen(p) \/ Flush(p) \/ Commit(p) \/ TxFails(p)
                     \/ Rollback(p) \/ RollbackFails(p) \/ Release(p) \/ ReleaseFails(p)
          BY <4>4 DEF Begin, Body, AssertOpen, Flush, Commit, TxFails, Rollback, RollbackFails,
                      Release, ReleaseFails
        <4>5. QED
          BY <3>2, <4>1, <4>2, <4>3, <4>4 DEF Step
      <3>3. CASE Crash(p) \/ Reap(p)
        BY <3>3 DEF Crash, Reap
      <3>4. CASE OrphanExec(p) \/ OrphanClose(p)
        BY <3>4 DEF OrphanExec, OrphanClose, client
      <3>5. QED
        BY <1>2, <3>1, <3>2, <3>3, <3>4 DEF ProcStep
    <2>3. QED
      BY <2>1, <2>2 DEF JobInv
  <1>3. QED
    BY <1>1, <1>2, NextCases

LEMMA JobSafe == Spec => []JobInv
  <1>1. Init => JobInv
    BY DEF Init, JobInv
  <1>2. BaseInv /\ JobInv /\ [Next]_vars => JobInv'
    <2>1. JobInv /\ UNCHANGED vars => JobInv'
      BY DEF JobInv, vars, client, loop
    <2>2. QED
      BY <2>1, JobInvNext DEF BaseInv
  <1>3. QED
    BY <1>1, <1>2, BaseSafe, PTL DEF Spec

\* With no DDL from outside and scripts that do not commit the executor's
\* transaction, the plan of an applying run never goes stale, whatever the other
\* migrators do: planning again would decide the same for every script still to
\* run, and no transition still to run has been recorded.
THEOREM PlanStaysFresh == ~OutOfBand /\ "commit" \notin Escapes => (Spec => []PlanIsFresh)
  <1> SUFFICES ASSUME ~OutOfBand, "commit" \notin Escapes PROVE Spec => []PlanIsFresh
    OBVIOUS
  <1>1. ASSUME BaseInv, ListInv, JobInv, FreshInv, PendingInv PROVE PlanIsFresh
    <2> SUFFICES ASSUME NEW p \in Proc, conn[p], pc[p] \in TxPcs \cup LoopPcs
                 PROVE  /\ \A o \in Obj : o \in todo[p] \cup retry[p] \cup {job[p]} =>
                              ActionOf(DecideObject(p, o)) = ActionOf(scen[p][o])
                        /\ \A x \in Trans : x \in todo[p] \cup {job[p]} => migRow[x] = 0
      BY DEF PlanIsFresh
    <2>l. ListsAt(p)
      BY <1>1, ListInvAt
    <2>1. Phase(p) \in LoopPcs /\ CanWrite(p)
      BY BackIsLoop DEF Phase, LoopPcs, TxPcs, CanWrite, LockedPcs
    <2>2. job[p] \in todo[p] \/ job[p] = None
      BY <1>1 DEF BaseInv, WorkInv, InTx, JobInv, LoopPcs, TxPcs
    <2>3. None \notin Obj \cup Trans
      BY ObjAssumption
    <2>4. \A x \in Trans : x \in todo[p] => migRow[x] = 0
      BY <1>1, <2>1 DEF PendingInv
    <2>5. \A o \in Obj : o \in todo[p] \cup retry[p] => o \in Ahead(p)
      <3>1. Phase(p) = "transitions" => todo[p] \subseteq Trans /\ retry[p] = {}
        BY <1>1, <2>l DEF ListsAt, BaseInv, TypeOK
      <3>2. Phase(p) = "objects" => retry[p] = {}
        BY <2>l DEF ListsAt
      <3>3. QED
        BY <2>1, <3>1, <3>2, AheadOf, ObjAssumption DEF LoopPcs
    <2>6. QED
      BY <1>1, <2>2, <2>3, <2>4, <2>5 DEF FreshInv
  <1>2. (BaseInv /\ ListInv) /\ JobInv /\ FreshInv /\ (PendingInv /\ ExactlyOnce) => PlanIsFresh
    BY <1>1
  <1>3. QED
    BY <1>2, ListSafe, JobSafe, FreshSafe, OnceSafe, PTL

-----------------------------------------------------------------------------
(* The module rounds give up only at a fixpoint. *)

GiveUpAt(p) ==
    conn[p] =>
        /\ Phase(p) = "modules" /\ ~progress[p] => \A o \in retry[p] : Stuck(o)
        /\ pc[p] = "rollback" /\ Back(p) = "modules" => Stuck(job[p])
        /\ pc[p] = "release" /\ retry[p] # {} => exit[p] = 5 /\ \A o \in retry[p] : Stuck(o)

\* Script files that are never edited are the ones that were scanned.
LEMMA Unedited ==
    ASSUME MaxVer = 1, BaseInv, NEW p \in Proc, pc[p] # "idle", NEW o \in Obj
    PROVE  Verified(p, o)
  <1>1. wsFile[p][o] \in 0 .. 1 /\ wsFile[p][o] # 0 /\ file[o] \in 1 .. 1
    BY DEF BaseInv, TypeOK, HoldInv
  <1>2. o \notin Trans
    BY ObjAssumption
  <1>3. QED
    BY <1>1, <1>2 DEF Verified

\* Without refused statements and with bodies that leave the transaction alone,
\* a module is rolled back only because something it needs is not there.
LEMMA RolledBackStuck ==
    ASSUME "stmt" \notin Faults, Escapes = {}, BaseInv, ListInv, NEW p \in Proc, conn[p],
           InUnit(p), pc'[p] = "rollback", Back(p) = "modules"
    PROVE  Stuck(job[p])
  <1>1. pc[p] = "body" /\ ~CanRun(p)
    BY DEF InUnit, BaseInv, HoldInv
  <1>2. Phase(p) = "modules"
    BY <1>1 DEF Phase, TxPcs
  <1>3. schema
    BY <1>2 DEF ListInv, LoopPcs
  <1>4. job[p] \notin Trans /\ Kind[job[p]] \notin TransactionalKinds
    BY DEF Back
  <1>5. QED
    BY <1>1, <1>3, <1>4 DEF CanRun, Stuck

LEMMA GiveUpMoves ==
    ASSUME "stmt" \notin Faults, Escapes = {}, MaxVer = 1, BaseInv, ListInv,
           NEW p \in Proc, GiveUpAt(p), conn[p], Moves(p)
    PROVE  GiveUpAt(p)'
  <1>l. ListsAt(p)
    BY ListInvAt
  <1>s. KeepsData => \A o : Stuck(o)' <=> Stuck(o)
    BY DEF KeepsData, ledgerVars, Stuck
  <1> USE DEF KeepsScan, KeepsPlan, KeepsLists, Idles
  \* Before the modules nothing is put off.
  <1>1. ASSUME retry'[p] = {}, pc'[p] # "rollback" PROVE GiveUpAt(p)'
    BY <1>1 DEF GiveUpAt
  <1>2. ASSUME Phase(p)' # "modules", pc'[p] \notin {"rollback", "release"} PROVE GiveUpAt(p)'
    BY <1>2 DEF GiveUpAt
  <1>3. CASE StartsRun(p)
    BY <1>2, <1>3, MovePhase DEF StartsRun
  <1>4. CASE Fails(p)
    <2>1. /\ pc'[p] = "release" /\ Phase(p)' = "release" /\ retry'[p] = retry[p] /\ KeepsData
          /\ Phase(p) = "modules" => ~progress[p] /\ exit'[p] = 5
      BY <1>4, MovePhase DEF Fails
    <2>2. Phase(p) \notin {"release", "exited", "dead"}
      BY <1>4, BackIsLoop DEF Fails, Phase, LoopPcs, LockedPcs, TxPcs
    <2>3. CASE Phase(p) = "modules"
      BY <1>s, <2>1, <2>3 DEF GiveUpAt
    <2>4. CASE Phase(p) # "modules"
      <3>1. retry[p] = {}
        BY <1>l, <2>2, <2>4 DEF ListsAt
      <3>2. QED
        BY <1>1, <2>1, <3>1
    <2>5. QED
      BY <2>3, <2>4
  <1>5. CASE Plans(p) \/ PassesGate(p) \/ Filters(p) \/ RunsSchemas(p) \/ EndsTransitions(p)
             \/ RecordsAdopted(p)
    <2>1. Phase(p)' # "modules" /\ pc'[p] \notin {"rollback", "release"}
      BY <1>5, MovePhase DEF Plans, PassesGate, Filters, RunsSchemas, EndsTransitions, RecordsAdopted
    <2>2. QED
      BY <1>2, <2>1
  <1>6. CASE Takes(p)
    <2>1. Phase(p)' = Phase(p) /\ pc'[p] = "begin" /\ KeepsLists(p) /\ KeepsData
      BY <1>6, MovePhase DEF Takes
    <2>2. QED
      BY <1>s, <2>1 DEF GiveUpAt
  <1>7. CASE PutsOff(p)
    <2>1. Phase(p) = "modules" /\ Phase(p)' = "modules" /\ pc'[p] = "modules" /\ KeepsData
          /\ progress'[p] = progress[p] /\ todo[p] \subseteq Obj /\ pc[p] # "idle"
      BY <1>l, <1>7, MovePhase DEF PutsOff, ListsAt, ModuleBatch, WithAction
    <2>2. retry'[p] = retry[p] \cup {job[p]} /\ Stuck(job[p])
      BY <1>7, <2>1, Unedited DEF PutsOff, GiveUpAt
    <2>3. QED
      BY <1>s, <2>1, <2>2 DEF GiveUpAt
  <1>8. CASE RecordsMetadata(p) \/ EndsObjects(p) \/ EndsModules(p) \/ NextRound(p)
    <2>1. retry'[p] = {} /\ pc'[p] # "rollback"
      BY <1>l, <1>8, MovePhase DEF RecordsMetadata, EndsObjects, EndsModules, NextRound, ListsAt
    <2>2. QED
      BY <1>1, <2>1
  <1>9. CASE InUnit(p)
    <2>1. /\ Phase(p)' = Phase(p) /\ Phase(p) = Back(p) /\ pc'[p] # "release" /\ KeepsLists(p)
          /\ job'[p] = job[p] /\ Back(p)' = Back(p) /\ KeepsData
      BY <1>9, MovePhase, SameBack DEF InUnit, CommitsBody
    <2>2. pc'[p] = "rollback" /\ Back(p) = "modules" => Stuck(job[p])
      BY <1>9, RolledBackStuck
    <2>3. QED
      BY <1>s, <2>1, <2>2 DEF GiveUpAt
  <1>10. CASE FinishesUnit(p)
    <2>1. /\ Phase(p)' = Back(p) /\ pc'[p] = Back(p) /\ Back(p) \in LoopPcs
          /\ progress'[p] = (progress[p] \/ Back(p) = "modules")
      BY <1>10, MovePhase DEF FinishesUnit
    <2>2. pc'[p] \notin {"rollback", "release"}
      BY <2>1 DEF LoopPcs
    <2>3. QED
      BY <2>1, <2>2 DEF GiveUpAt
  <1>11. QED
    BY <1>3, <1>4, <1>5, <1>6, <1>7, <1>8, <1>9, <1>10 DEF Moves

LEMMA GiveUpKept ==
    ASSUME NEW r \in Proc, SameRun(r), SameSession(r), GiveUpAt(r), UNCHANGED db
    PROVE  GiveUpAt(r)'
  <1>1. Phase(r)' = Phase(r) /\ Back(r)' = Back(r)
    BY OthersListed
  <1>2. \A o : Stuck(o)' <=> Stuck(o)
    BY DEF Stuck, db
  <1>3. QED
    BY <1>1, <1>2 DEF GiveUpAt, SameRun

LEMMA GiveUpNext ==
    ASSUME "stmt" \notin Faults, Escapes = {}, ~OutOfBand, MaxVer = 1,
           BaseInv, ListInv, GiveUpInv, Next
    PROVE  GiveUpInv'
  <1>0. \A r \in Proc : GiveUpAt(r)
    BY DEF GiveUpInv, GiveUpAt
  <1>1. ASSUME NEW p \in Proc, ProcStep(p), NEW r \in Proc PROVE GiveUpAt(r)'
    <2>1. CASE r = p
      <3>1. CASE StartsRun(p)
        BY <2>1, <3>1, MovePhase DEF GiveUpAt, StartsRun
      <3>2. CASE ~conn'[p]
        BY <2>1, <3>2 DEF GiveUpAt
      <3>3. QED
        BY <1>0, <1>1, <2>1, <3>1, <3>2, ConnectedMoves, GiveUpMoves
    <2>2. CASE r # p
      <3>1. SameRun(r) /\ SameSession(r)
        BY <1>1, <2>2, OthersKept DEF BaseInv
      <3>2. CASE conn[r] /\ (Phase(r) \in Applying \/ pc[r] = "release")
        BY <1>0, <1>1, <2>2, <3>1, <3>2, RunsAlone, GiveUpKept
      <3>3. CASE ~(conn[r] /\ (Phase(r) \in Applying \/ pc[r] = "release"))
        <4>1. conn[r] => Phase(r) # "modules" /\ pc[r] \notin {"rollback", "release"}
          BY <3>3, BackIsLoop DEF Phase, Applying, LoopPcs
        <4>2. QED
          BY <3>1, <4>1, OthersListed DEF GiveUpAt, SameRun
      <3>4. QED
        BY <3>2, <3>3
    <2>3. QED
      BY <2>1, <2>2
  <1>2. ASSUME Environment, NEW r \in Proc PROVE GiveUpAt(r)'
    BY <1>0, <1>2, EnvironmentKeeps, GiveUpKept
  <1>3. QED
    BY <1>1, <1>2, NextCases DEF GiveUpInv, GiveUpAt

LEMMA GiveUpStutter == GiveUpInv /\ UNCHANGED vars => GiveUpInv'
  <1> SUFFICES ASSUME GiveUpInv, UNCHANGED vars, NEW r \in Proc PROVE GiveUpAt(r)'
    BY DEF GiveUpInv, GiveUpAt
  <1>1. GiveUpAt(r)
    BY DEF GiveUpInv, GiveUpAt
  <1>2. QED
    BY <1>1, StutterKeeps, GiveUpKept

\* When no statement is refused, no body ends the transaction, nobody changes the
\* database by hand and no script is edited, a run that leaves modules behind has
\* only left modules that miss a dependency, lost connections and crashes of any
\* process notwithstanding: another round could not have run one of them.
THEOREM GivesUpOnlyStuck ==
    "stmt" \notin Faults /\ Escapes = {} /\ ~OutOfBand /\ MaxVer = 1
        => (Spec => []GivesUpAtFixpoint)
  <1> SUFFICES ASSUME "stmt" \notin Faults, Escapes = {}, ~OutOfBand, MaxVer = 1
               PROVE  Spec => []GivesUpAtFixpoint
    OBVIOUS
  <1>1. Init => GiveUpInv
    BY DEF Init, GiveUpInv
  <1>2. (BaseInv /\ ListInv) /\ GiveUpInv /\ [Next]_vars => GiveUpInv'
    BY GiveUpNext, GiveUpStutter
  <1>3. (BaseInv /\ ListInv) /\ GiveUpInv /\ NeverRecordsUnapplied => GivesUpAtFixpoint
    <2> SUFFICES ASSUME BaseInv, GiveUpInv, NeverRecordsUnapplied, NEW p \in Proc,
                        At(p, "release"), retry[p] # {}
                 PROVE  /\ exit[p] = 5
                        /\ \A o \in retry[p] : \E d \in Deps[o] : rowCs[d] = 0
      BY DEF GivesUpAtFixpoint
    <2>1. exit[p] = 5 /\ \A o \in retry[p] : \E d \in Deps[o] : live[d] = 0
      BY DEF GiveUpInv, At, Stuck
    <2>2. retry[p] \subseteq Obj
      BY DEF BaseInv, LockInv, WorkInv
    <2>3. QED
      BY <2>1, <2>2, ObjAssumption DEF NeverRecordsUnapplied
  <1>4. QED
    BY <1>1, <1>2, <1>3, ListSafe, NothingRecordedUnapplied, PTL DEF Spec

-----------------------------------------------------------------------------
(* The whole invariant. *)

\* Unless a script commits the executor's transaction itself, the invariant that
\* the runs check holds in every reachable state.
THEOREM InvariantHolds == "commit" \notin Escapes => (Spec => []IndInv)
  <1> SUFFICES ASSUME "commit" \notin Escapes PROVE Spec => []IndInv
    OBVIOUS
  <1>1. Spec => [](~OutOfBand => AppliedInv /\ FreshInv /\ MetaInv /\ ShapeInv)
    <2>1. CASE ~OutOfBand
      <3>1. Spec => []AppliedInv
        <4>1. Init => AppliedInv
          BY AppliedInit
        <4>2. BaseInv /\ AppliedInv /\ [Next]_vars => AppliedInv'
          BY <2>1, AppliedNext, AppliedStutter
        <4>3. QED
          BY <4>1, <4>2, BaseSafe, PTL DEF Spec
      <3>2. Spec => []FreshInv
        BY <2>1, FreshSafe
      <3>3. Spec => []MetaInv
        BY <2>1, MetaSafe
      <3>4. Spec => []ShapeInv
        <4>1. BaseInv /\ ShapeInv /\ [Next]_vars => ShapeInv'
          BY <2>1, ShapeNext, ShapeStutter
        <4>2. QED
          BY <4>1, ShapeInit, BaseSafe, PTL DEF Spec
      <3>5. QED
        BY <3>1, <3>2, <3>3, <3>4, PTL
    <2>2. CASE OutOfBand
      <3>1. TRUE => (~OutOfBand => AppliedInv /\ FreshInv /\ MetaInv /\ ShapeInv)
        BY <2>2
      <3>2. QED
        BY <3>1, PTL
    <2>3. QED
      BY <2>1, <2>2
  <1>2. /\ (BaseInv /\ ListInv) /\ (PendingInv /\ ExactlyOnce) /\ JobInv /\ DueInv
        /\ (~OutOfBand => AppliedInv /\ FreshInv /\ MetaInv /\ ShapeInv)
        => IndInv
    BY DEF BaseInv, LockInv, IndInv
  <1>3. QED
    BY <1>1, <1>2, ListSafe, OnceSafe, JobSafe, DueSafe, PTL

=============================================================================
