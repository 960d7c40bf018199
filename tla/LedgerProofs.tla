---------------------------- MODULE LedgerProofs ----------------------------
(***************************************************************************)
(* Who writes to the database, and what: every change that a process makes *)
(* is one of three units of work, made by the holder of the lock.  From    *)
(* this, Migrator implements DeployLedger, and nothing is recorded that    *)
(* was not applied.                                                        *)
(***************************************************************************)
EXTENDS MigratorProofs

-----------------------------------------------------------------------------
(* What a step of a process leaves alone. *)

\* Everything that happens to a process or its session.
ProcStep(p) == \/ \E c \in Commands : Start(p, c)
               \/ Step(p) \/ Crash(p) \/ OrphanExec(p) \/ OrphanClose(p) \/ Reap(p)

SameRun(r) == /\ pc'[r] = pc[r] /\ cmd'[r] = cmd[r] /\ conn'[r] = conn[r]
              /\ wsFile'[r] = wsFile[r] /\ wsRev'[r] = wsRev[r] /\ scen'[r] = scen[r]
              /\ pend'[r] = pend[r] /\ todo'[r] = todo[r] /\ retry'[r] = retry[r]
              /\ progress'[r] = progress[r] /\ job'[r] = job[r] /\ exit'[r] = exit[r]

SameSession(r) == tx'[r] = tx[r] /\ inflight'[r] = inflight[r] /\ sess'[r] = sess[r]

LEMMA NextCases == Next <=> Environment \/ \E p \in Proc : ProcStep(p)
  BY DEF Next, ProcStep

\* A step of one process changes nothing of another one's run or session.
LEMMA OthersKept ==
    ASSUME TypeOK, NEW p \in Proc, NEW r \in Proc \ {p}, ProcStep(p)
    PROVE  SameRun(r) /\ SameSession(r)
  <1>0. /\ pc \in [Proc -> Pcs] /\ cmd \in [Proc -> {"none", "migrate", "baseline", "repair"}]
        /\ conn \in [Proc -> BOOLEAN] /\ wsFile \in [Proc -> [Obj -> 0 .. MaxVer]]
        /\ wsRev \in [Proc -> [Trans -> Revs]] /\ scen \in [Proc -> [Obj -> Scenarios]]
        /\ pend \in [Proc -> SUBSET Trans] /\ todo \in [Proc -> SUBSET (Obj \cup Trans)]
        /\ retry \in [Proc -> SUBSET (Obj \cup Trans)] /\ progress \in [Proc -> BOOLEAN]
        /\ job \in [Proc -> Obj \cup Trans \cup {None}] /\ exit \in [Proc -> ExitCodes]
        /\ tx \in [Proc -> TxStates] /\ inflight \in [Proc -> Late \cup {"none"}]
        /\ sess \in [Proc -> BOOLEAN]
    BY DEF TypeOK
  <1> USE <1>0 DEF SameRun, SameSession, Goto, Stop, plan, loop, server
  <1>1. CASE \E c \in Commands : Start(p, c)
    BY <1>1 DEF Start
  <1>2. CASE Step(p)
    <2>1. CASE Acquire(p) \/ AcquireFails(p)
      BY <2>1 DEF Acquire, AcquireFails
    <2>2. CASE Plan(p) \/ GateBlocked(p) \/ GateRefused(p) \/ GatePassed(p)
      BY <2>2 DEF Plan, GateBlocked, GateRefused, GatePassed
    <2>3. CASE Filter(p) \/ Schemas(p)
      BY <2>3 DEF Filter, Schemas
    <2>4. CASE StatementFails(p) \/ TxFails(p) \/ RollbackFails(p) \/ ReleaseFails(p)
      BY <2>4 DEF StatementFails, TxFails, RollbackFails, ReleaseFails, Lose, Refuse
    <2>5. CASE NextScript(p)
      BY <2>5 DEF NextScript
    <2>6. CASE TransitionsDone(p) \/ Record(p) \/ ObjectsDone(p) \/ RoundDone(p)
      BY <2>6 DEF TransitionsDone, Record, ObjectsDone, RoundDone
    <2>7. CASE Begin(p) \/ Body(p) \/ AssertOpen(p) \/ Flush(p)
      BY <2>7 DEF Begin, Body, AssertOpen, Flush
    <2>8. CASE Commit(p)
      BY <2>8 DEF Commit
    <2>9. CASE Rollback(p) \/ Release(p)
      BY <2>9 DEF Rollback, Release
    <2>10. QED
      BY <1>2, <2>1, <2>2, <2>3, <2>4, <2>5, <2>6, <2>7, <2>8, <2>9 DEF Step
  <1>3. CASE Crash(p)
    BY <1>3 DEF Crash
  <1>4. CASE OrphanExec(p) \/ OrphanClose(p)
    BY <1>4 DEF OrphanExec, OrphanClose, client
  <1>5. CASE Reap(p)
    BY <1>5 DEF Reap
  <1>6. QED
    BY <1>1, <1>2, <1>3, <1>4, <1>5 DEF ProcStep

\* The units of work.
CommitsUnit(p)  == tx[p] = "full" /\ CommitUnit(p)
RecordsRows(p)  == CanRecord(p) /\ RecordEffect(p)
CommitsBody(p)  == /\ "commit" \in Escapes /\ InTx(p) /\ CanRun(p) /\ BodyEffect(p)
                   /\ UNCHANGED <<rowCs, rowFp, migRow>>
ledgerVars == <<live, eff, rowCs, rowFp, migRow>>

\* A process changes the database in one of the units of work, and only while its
\* session can write; the schema, once created, stays.
LEMMA UnitsOfWork ==
    ASSUME TypeOK, HoldInv, NEW p \in Proc, ProcStep(p)
    PROVE  /\ \/ UNCHANGED ledgerVars
              \/ CanWrite(p) /\ (CommitsUnit(p) \/ RecordsRows(p) \/ CommitsBody(p))
           /\ schema' = schema \/ (schema' /\ CanWrite(p))
  <1> USE DEF ledgerVars, db, At
  <1>1. CASE \E c \in Commands : Start(p, c)
    BY <1>1 DEF Start
  <1>2. CASE Step(p)
    <2>1. CASE Acquire(p) \/ AcquireFails(p) \/ Plan(p) \/ GateBlocked(p) \/ GateRefused(p)
                 \/ GatePassed(p) \/ Filter(p) \/ StatementFails(p)
      BY <2>1 DEF Acquire, AcquireFails, Plan, GateBlocked, GateRefused, GatePassed, Filter,
                  StatementFails
    <2>2. CASE Schemas(p)
      BY <2>2 DEF Schemas, CanWrite, LockedPcs
    <2>3. CASE NextScript(p) \/ TransitionsDone(p) \/ ObjectsDone(p) \/ RoundDone(p)
      BY <2>3 DEF NextScript, TransitionsDone, ObjectsDone, RoundDone
    <2>4. CASE Record(p)
      <3>1. RecordsRows(p) /\ UNCHANGED schema
        BY <2>4 DEF Record, RecordsRows, RecordEffect
      <3>2. CanWrite(p)
        BY <2>4 DEF Record, CanWrite, LockedPcs
      <3>3. QED
        BY <3>1, <3>2
    <2>5. CASE Body(p)
      <3>1. CanWrite(p) /\ CanRun(p)
        BY <2>5 DEF Body, CanWrite, LockedPcs, TxPcs
      <3>2. QED
        BY <2>5, <3>1 DEF Body, CommitsBody, InTx, TxPcs
    <2>6. CASE Flush(p)
      <3>1. tx[p] = "body"
        BY <2>6 DEF Flush, HoldInv
      <3>2. QED
        BY <2>6, <3>1 DEF Flush
    <2>7. CASE Commit(p)
      <3>1. CommitsUnit(p) /\ UNCHANGED schema
        BY <2>7 DEF Commit, CommitsUnit, CommitUnit
      <3>2. CanWrite(p)
        BY <2>7 DEF Commit, CanWrite, LockedPcs, TxPcs
      <3>3. QED
        BY <3>1, <3>2
    <2>8. CASE Begin(p) \/ AssertOpen(p) \/ TxFails(p) \/ Rollback(p) \/ RollbackFails(p)
                 \/ Release(p) \/ ReleaseFails(p)
      BY <2>8 DEF Begin, AssertOpen, TxFails, Rollback, RollbackFails, Release, ReleaseFails
    <2>9. QED
      BY <1>2, <2>1, <2>2, <2>3, <2>4, <2>5, <2>6, <2>7, <2>8 DEF Step
  <1>3. CASE Crash(p) \/ OrphanClose(p) \/ Reap(p)
    BY <1>3 DEF Crash, OrphanClose, Reap
  <1>4. CASE OrphanExec(p)
    <2>1. CASE inflight[p] = "acquire"
      BY <1>4, <2>1 DEF OrphanExec
    <2>2. CASE inflight[p] = "schemas"
      BY <1>4, <2>2 DEF OrphanExec, CanWrite, Late
    <2>3. CASE inflight[p] = "record"
      <3>1. RecordsRows(p) /\ UNCHANGED schema
        BY <1>4, <2>3 DEF OrphanExec, RecordsRows, RecordEffect
      <3>2. QED
        BY <2>3, <3>1 DEF CanWrite, Late
    <2>4. CASE inflight[p] = "body"
      <3>1. InTx(p)
        BY <2>4 DEF HoldInv, InTx
      <3>2. CommitsBody(p) /\ UNCHANGED schema
        BY <1>4, <2>4, <3>1 DEF OrphanExec, CommitsBody
      <3>3. QED
        BY <2>4, <3>2 DEF CanWrite, Late
    <2>5. CASE inflight[p] = "commit"
      <3>1. CommitsUnit(p) /\ UNCHANGED schema
        BY <1>4, <2>5 DEF OrphanExec, CommitsUnit, CommitUnit
      <3>2. QED
        BY <2>5, <3>1 DEF CanWrite, Late
    <2>6. QED
      BY <1>4, <2>1, <2>2, <2>3, <2>4, <2>5 DEF OrphanExec
  <1>5. QED
    BY <1>1, <1>2, <1>3, <1>4 DEF ProcStep

\* Nobody else changes the database while a session can write.
LEMMA WriterAlone ==
    ASSUME TypeOK, LockInv, HoldInv, NEW p \in Proc, NEW r \in Proc \ {p},
           ProcStep(p), CanWrite(r)
    PROVE  UNCHANGED db
  <1>1. ~CanWrite(p)
    BY DEF LockInv, WritesUnderLock
  <1>2. QED
    BY <1>1, UnitsOfWork DEF db, ledgerVars

-----------------------------------------------------------------------------
(* What a transaction holds, and what it needs, for all script bodies. *)

HoldsAt(p) ==
    /\ inflight[p] = "body" => tx[p] = "open"
    /\ conn[p] => /\ pc[p] = "body" => tx[p] = "open"
                  /\ pc[p] = "assert" => tx[p] = "body" \/ (tx[p] = "none" /\ Escapes # {})
                  /\ pc[p] = "flush" => tx[p] = "body"
                  /\ pc[p] = "commit" => tx[p] = "full"
    /\ tx[p] \in {"body", "full"} => CanRun(p)
    /\ pc[p] # "idle" => \A o \in Obj : wsFile[p][o] # 0

LEMMA HoldInvInit == Init => HoldInv
  BY DEF Init, HoldInv

\* A late script body finds the transaction that its client opened for it.
LEMMA LateBody ==
    ASSUME TypeOK, LockInv, HoldInv, NEW p \in Proc, ProcStep(p), inflight'[p] = "body"
    PROVE  tx'[p] = "open"
  <1>0. /\ tx \in [Proc -> TxStates] /\ inflight \in [Proc -> Late \cup {"none"}]
        /\ conn \in [Proc -> BOOLEAN] /\ pc \in [Proc -> Pcs]
    BY DEF TypeOK
  <1>h. /\ inflight[p] = "body" => tx[p] = "open" /\ ~conn[p] /\ sess[p]
        /\ conn[p] /\ pc[p] = "body" => tx[p] = "open"
    BY DEF HoldInv, LockInv, SessionInv
  <1> USE <1>0, <1>h DEF At, Goto, Stop, plan, loop, server
  <1>1. CASE \E c \in Commands : Start(p, c)
    BY <1>1 DEF Start
  <1>2. CASE Step(p)
    <2>1. CASE Acquire(p) \/ Plan(p) \/ GateBlocked(p) \/ GateRefused(p) \/ GatePassed(p)
                 \/ Filter(p) \/ Schemas(p)
      BY <2>1 DEF Acquire, Plan, GateBlocked, GateRefused, GatePassed, Filter, Schemas
    <2>2. CASE AcquireFails(p)
      BY <2>2 DEF AcquireFails
    <2>3. CASE StatementFails(p)
      BY <2>3 DEF StatementFails, Lose, Refuse, Outstanding
    <2>4. CASE TxFails(p) \/ RollbackFails(p) \/ ReleaseFails(p)
      BY <2>4 DEF TxFails, RollbackFails, ReleaseFails, Lose, Refuse, Outstanding
    <2>5. CASE NextScript(p) \/ TransitionsDone(p) \/ Record(p) \/ ObjectsDone(p) \/ RoundDone(p)
      BY <2>5 DEF NextScript, TransitionsDone, Record, ObjectsDone, RoundDone
    <2>6. CASE Begin(p) \/ Body(p) \/ AssertOpen(p) \/ Flush(p) \/ Commit(p) \/ Rollback(p)
                 \/ Release(p)
      BY <2>6 DEF Begin, Body, AssertOpen, Flush, Commit, Rollback, Release
    <2>7. QED
      BY <1>2, <2>1, <2>2, <2>3, <2>4, <2>5, <2>6 DEF Step
  <1>3. CASE Crash(p)
    BY <1>3 DEF Crash, Outstanding
  <1>4. CASE OrphanExec(p) \/ OrphanClose(p)
    BY <1>4 DEF OrphanExec, OrphanClose
  <1>5. CASE Reap(p)
    BY <1>5 DEF Reap
  <1>6. QED
    BY <1>1, <1>2, <1>3, <1>4, <1>5 DEF ProcStep

\* A step of the process itself.
LEMMA HoldOwn ==
    ASSUME TypeOK, LockInv, HoldInv, NEW p \in Proc, ProcStep(p)
    PROVE  HoldsAt(p)'
  <1>0. /\ pc \in [Proc -> Pcs] /\ conn \in [Proc -> BOOLEAN] /\ sess \in [Proc -> BOOLEAN]
        /\ tx \in [Proc -> TxStates] /\ job \in [Proc -> Obj \cup Trans \cup {None}]
        /\ wsFile \in [Proc -> [Obj -> 0 .. MaxVer]] /\ file \in [Obj -> 1 .. MaxVer]
        /\ inflight \in [Proc -> Late \cup {"none"}]
    BY DEF TypeOK
  <1>h. HoldsAt(p)
    BY DEF HoldInv, HoldsAt
  <1>i. inflight'[p] = "body" => tx'[p] = "open"
    BY LateBody
  <1>s. /\ conn[p] /\ pc[p] \notin TxPcs \cup {"rollback"} => tx[p] = "none"
        /\ ~sess[p] => tx[p] = "none"
        /\ pc[p] = "idle" => ~sess[p]
    BY DEF LockInv, SessionInv
  \* The run, its job and what the body needs stay as they are.
  <1>k. ASSUME CanRun(p)' <=> CanRun(p), NEW l, pc' = [pc EXCEPT ![p] = l],
               l \notin {"assert", "flush", "commit", "idle"},
               l = "body" => tx'[p] = "open", pc[p] # "idle", wsFile'[p] = wsFile[p],
               tx'[p] = tx[p] \/ tx'[p] \in {"none", "open"}
        PROVE  HoldsAt(p)'
    BY <1>0, <1>h, <1>k, <1>i DEF HoldsAt
  <1>d. ASSUME job'[p] = job[p], UNCHANGED <<schema, live>> PROVE CanRun(p)' <=> CanRun(p)
    BY <1>d DEF CanRun
  <1> USE DEF db, At, Goto, Stop, plan, loop, server, TxPcs, LoopPcs
  <1>1. CASE \E c \in Commands : Start(p, c)
    <2>1. /\ pc' = [pc EXCEPT ![p] = "acquire"] /\ wsFile' = [wsFile EXCEPT ![p] = file]
          /\ tx' = tx /\ pc[p] = "idle"
      BY <1>1 DEF Start
    <2>2. tx'[p] = "none" /\ \A o \in Obj : wsFile'[p][o] # 0
      BY <1>0, <1>s, <2>1
    <2>3. QED
      BY <1>0, <2>1, <2>2, <1>i DEF HoldsAt
  <1>2. CASE Step(p)
    <2>1. CASE Acquire(p) \/ AcquireFails(p) \/ Plan(p) \/ GateBlocked(p) \/ GateRefused(p)
                 \/ GatePassed(p) \/ Filter(p) \/ TransitionsDone(p) \/ ObjectsDone(p)
      BY <1>0, <1>k, <1>d, <2>1
      DEF Acquire, AcquireFails, Plan, GateBlocked, GateRefused, GatePassed, Filter,
          TransitionsDone, ObjectsDone
    <2>2. CASE RoundDone(p) \/ NextScript(p) \/ Schemas(p) \/ Record(p)
      <3>1. tx'[p] = "none" /\ wsFile'[p] = wsFile[p] /\ pc[p] # "idle"
        BY <1>0, <1>s, <2>2 DEF RoundDone, NextScript, Schemas, Record
      <3>2. pc' = pc \/ \E l : pc' = [pc EXCEPT ![p] = l] /\ l \notin {"body", "assert", "flush", "commit", "idle"}
        BY <2>2 DEF RoundDone, NextScript, Schemas, Record
      <3>3. pc[p] \notin {"body", "assert", "flush", "commit"}
        BY <2>2 DEF RoundDone, NextScript, Schemas, Record
      <3>4. QED
        BY <1>0, <1>h, <3>1, <3>2, <3>3, <1>i DEF HoldsAt
    <2>3. CASE StatementFails(p) \/ TxFails(p) \/ RollbackFails(p) \/ ReleaseFails(p)
      <3>1. tx' = tx \/ tx' = [tx EXCEPT ![p] = "none"]
        BY <2>3 DEF StatementFails, TxFails, RollbackFails, ReleaseFails, Lose, Refuse
      <3>2. UNCHANGED <<schema, live, job, wsFile>> /\ pc[p] # "idle"
        BY <2>3 DEF StatementFails, TxFails, RollbackFails, ReleaseFails
      <3>3. \E l : pc' = [pc EXCEPT ![p] = l] /\ l \notin {"body", "assert", "flush", "commit", "idle"}
        BY <2>3 DEF StatementFails, TxFails, RollbackFails, ReleaseFails
      <3>4. QED
        BY <1>0, <1>k, <1>d, <3>1, <3>2, <3>3
    <2>4. CASE Begin(p)
      BY <1>0, <1>k, <1>d, <2>4 DEF Begin
    <2>5. CASE Body(p)
      <3>1. CASE tx' = [tx EXCEPT ![p] = "body"] /\ UNCHANGED db
        <4>1. CanRun(p)'
          BY <1>d, <2>5, <3>1 DEF Body
        <4>2. QED
          BY <1>0, <1>h, <2>5, <3>1, <4>1, <1>i DEF Body, HoldsAt
      <3>2. CASE tx' = [tx EXCEPT ![p] = "none"]
        BY <1>0, <1>h, <2>5, <3>2, <1>i DEF Body, HoldsAt
      <3>3. QED
        BY <2>5, <3>1, <3>2 DEF Body
    <2>6. CASE AssertOpen(p)
      <3>1. CanRun(p)' <=> CanRun(p)
        BY <1>d, <2>6 DEF AssertOpen
      <3>2. QED
        BY <1>0, <1>h, <2>6, <3>1, <1>i DEF AssertOpen, HoldsAt
    <2>7. CASE Flush(p)
      <3>1. tx[p] = "body"
        BY <1>h, <2>7, <1>i DEF Flush, HoldsAt
      <3>2. CanRun(p)' <=> CanRun(p)
        BY <1>d, <2>7, <3>1 DEF Flush
      <3>3. QED
        BY <1>0, <1>h, <2>7, <3>1, <3>2, <1>i DEF Flush, HoldsAt
    <2>8. CASE Commit(p) \/ Rollback(p)
      <3>1. tx' = [tx EXCEPT ![p] = "none"] /\ wsFile' = wsFile /\ pc[p] # "idle"
        BY <2>8 DEF Commit, Rollback
      <3>2. \E l : pc' = [pc EXCEPT ![p] = l] /\ l \notin {"body", "assert", "flush", "commit", "idle"}
        BY <2>8 DEF Commit, Rollback, Back
      <3>3. QED
        BY <1>0, <1>h, <3>1, <3>2, <1>i DEF HoldsAt
    <2>9. CASE Release(p)
      BY <1>0, <1>k, <1>d, <2>9 DEF Release
    <2>10. QED
      BY <1>2, <2>1, <2>2, <2>3, <2>4, <2>5, <2>6, <2>7, <2>8, <2>9 DEF Step
  <1>3. CASE Crash(p)
    BY <1>0, <1>k, <1>d, <1>3 DEF Crash
  <1>4. CASE OrphanExec(p)
    <2>1. /\ UNCHANGED <<pc, conn, wsFile, job>> /\ ~conn[p]
          /\ \/ tx' = [tx EXCEPT ![p] = "none"]
             \/ tx' = tx /\ live' = live /\ (schema' = schema \/ schema' = TRUE)
      BY <1>4 DEF OrphanExec, client, RecordEffect
    <2>2. tx' = tx => (CanRun(p) => CanRun(p)') \/ tx'[p] = "none"
      BY <1>0, <2>1 DEF CanRun
    <2>3. QED
      BY <1>0, <1>h, <2>1, <2>2, <1>i DEF HoldsAt
  <1>5. CASE OrphanClose(p)
    BY <1>0, <1>h, <1>5, <1>i DEF OrphanClose, client, HoldsAt
  <1>6. CASE Reap(p)
    BY <1>0, <1>s, <1>6, <1>i DEF Reap, HoldsAt
  <1>7. QED
    BY <1>1, <1>2, <1>3, <1>4, <1>5, <1>6 DEF ProcStep

LEMMA HoldInvNext == ASSUME TypeOK, LockInv, WorkInv, HoldInv, Next PROVE HoldInv'
  <1>0. todo \in [Proc -> SUBSET (Obj \cup Trans)]
    BY DEF TypeOK
  <1>1. ASSUME NEW p \in Proc, ProcStep(p) PROVE HoldInv'
    <2>1. ASSUME NEW r \in Proc \ {p} PROVE HoldsAt(r)'
      <3>1. SameRun(r) /\ SameSession(r)
        BY <1>1, <2>1, OthersKept
      <3>2. HoldsAt(r)
        BY DEF HoldInv, HoldsAt
      <3>3. CASE tx[r] = "none"
        BY <3>1, <3>2, <3>3 DEF HoldsAt, SameRun, SameSession
      <3>4. CASE tx[r] # "none"
        <4>1. UNCHANGED db
          BY <1>1, <2>1, <3>4, WriterAlone DEF CanWrite
        <4>2. CanRun(r)' <=> CanRun(r)
          BY <3>1, <4>1 DEF CanRun, SameRun, db
        <4>3. QED
          BY <3>1, <3>2, <4>2 DEF HoldsAt, SameRun, SameSession
      <3>5. QED
        BY <3>3, <3>4
    <2>2. QED
      BY <1>1, <2>1, HoldOwn DEF HoldInv, HoldsAt
  <1>2. CASE Environment
    <2>1. ASSUME NEW r \in Proc PROVE HoldsAt(r)'
      <3>1. UNCHANGED <<pc, conn, tx, inflight, wsFile, job, schema>>
        BY <1>2 DEF Environment, EditObject, EditTransition, OutOfBandDDL, server, client, plan, loop, db
      <3>2. HoldsAt(r)
        BY DEF HoldInv, HoldsAt
      <3>3. tx[r] \in {"body", "full"} => CanRun(r)'
        <4>1. CASE UNCHANGED live
          BY <3>1, <3>2, <4>1 DEF CanRun, HoldsAt
        <4>2. ASSUME NEW o \in Obj, NEW v \in {0, Foreign}, OutOfBandDDL(o, v),
                     tx[r] \in {"body", "full"}
              PROVE  CanRun(r)'
          <5>1. \A c \in Obj \cap Held(r) : live'[c] = live[c]
            BY <4>2 DEF OutOfBandDDL
          <5>2. CanRun(r)
            BY <3>2, <4>2 DEF HoldsAt
          <5>3. CASE job[r] \in Trans
            <6>1. TableOf[job[r]] \in Obj \cap Held(r)
              BY <4>2, <5>3, TransAssumption DEF Held
            <6>2. QED
              BY <3>1, <5>1, <5>2, <5>3, <6>1 DEF CanRun
          <5>4. CASE job[r] \in Obj
            <6>1. {job[r]} \cup Deps[job[r]] \subseteq Obj \cap Held(r) /\ job[r] \notin Trans
              BY <4>2, <5>4, ObjAssumption DEF Held
            <6>2. QED
              BY <3>1, <5>1, <5>2, <6>1 DEF CanRun
          <5>5. job[r] \in Obj \cup Trans
            BY <1>0, <4>2 DEF WorkInv, InTx
          <5>6. QED
            BY <5>3, <5>4, <5>5
        <4>3. QED
          BY <1>2, <4>1, <4>2 DEF Environment, EditObject, EditTransition, db
      <3>4. QED
        BY <3>1, <3>2, <3>3 DEF HoldsAt
    <2>2. QED
      BY <2>1 DEF HoldInv, HoldsAt
  <1>3. QED
    BY <1>1, <1>2, NextCases

LEMMA HoldInvStutter == HoldInv /\ UNCHANGED vars => HoldInv'
  BY DEF HoldInv, CanRun, vars, db, server, client, plan, loop

\* What holds whatever the scripts do.
BaseInv == TypeOK /\ LockInv /\ WorkInv /\ HoldInv

LEMMA BaseSafe == Spec => []BaseInv
  <1>1. Init => LockInv /\ WorkInv /\ HoldInv
    BY LockInvInit, WorkInvInit, HoldInvInit
  <1>2. TypeOK /\ (LockInv /\ WorkInv /\ HoldInv) /\ [Next]_vars => (LockInv /\ WorkInv /\ HoldInv)'
    <2>1. ASSUME TypeOK, LockInv, WorkInv, HoldInv, Next PROVE (LockInv /\ WorkInv /\ HoldInv)'
      BY <2>1, LockInvNext, WorkInvNext, HoldInvNext
    <2>2. ASSUME LockInv, WorkInv, HoldInv, UNCHANGED vars PROVE (LockInv /\ WorkInv /\ HoldInv)'
      BY <2>2, LockInvStutter, WorkInvStutter, HoldInvStutter
    <2>3. QED
      BY <2>1, <2>2
  <1>3. QED
    BY <1>1, <1>2, TypeCorrect, PTL DEF Spec, BaseInv

\* A unit that runs a body runs a scanned script of its loop, which the database
\* accepts: a missing object, a module, or a transition of an existing table.
LEMMA UnitRuns ==
    ASSUME BaseInv, NEW p \in Proc, CommitsUnit(p) \/ CommitsBody(p)
    PROVE  /\ CanRun(p) /\ BodyEffect(p)
           /\ job[p] \in todo[p] /\ job[p] \in Obj \cup Trans
           /\ job[p] \in Obj => scen[p][job[p]] = "Create" \/ Kind[job[p]] \in ModuleKinds
           /\ job[p] \in Trans => wsRev[p][job[p]] # 0
           /\ \A o \in Obj : wsFile[p][o] # 0
  <1>1. CanRun(p) /\ BodyEffect(p)
    BY DEF BaseInv, HoldInv, CommitsUnit, CommitUnit, CommitsBody
  <1>2. InTx(p)
    BY DEF CommitsUnit, CommitsBody, InTx
  <1>3. job[p] \in todo[p] /\ job[p] \in Obj \cup Trans
    BY <1>2 DEF BaseInv, TypeOK, WorkInv
  <1>4. pc[p] # "idle"
    BY <1>2 DEF BaseInv, LockInv, SessionInv, InTx, TxPcs
  <1>5. QED
    BY <1>1, <1>3, <1>4 DEF BaseInv, WorkInv, HoldInv

\* Whoever can write has scanned the repository.
LEMMA WriterScanned ==
    ASSUME BaseInv, NEW p \in Proc, CanWrite(p)
    PROVE  \A o \in Obj : wsFile[p][o] # 0
  BY DEF BaseInv, LockInv, WritesUnderLock, SessionInv, HoldInv

\* A transition belongs to a table, and a table is never replaced by its script.
LEMMA TableKinds ==
    /\ \A x \in Trans : TableOf[x] \in Obj /\ Kind[TableOf[x]] \in TransactionalKinds
    /\ \A o \in Obj : Kind[o] \in ModuleKinds => Kind[o] \notin TransactionalKinds
                                               /\ TransOf(o) = {}
  BY TransAssumption, ObjAssumption DEF TransactionalKinds, ModuleKinds, TransOf

-----------------------------------------------------------------------------
(* No transition is applied twice. *)

LEMMA OnceSafe == "commit" \notin Escapes => (Spec => [](PendingInv /\ ExactlyOnce))
  <1> SUFFICES ASSUME "commit" \notin Escapes PROVE Spec => [](PendingInv /\ ExactlyOnce)
    OBVIOUS
  <1>1. Init => PendingInv /\ ExactlyOnce
    BY OnceInit
  <1>2. BaseInv /\ (PendingInv /\ ExactlyOnce) /\ [Next]_vars => (PendingInv /\ ExactlyOnce)'
    BY OnceNext, OnceStutter DEF BaseInv
  <1>3. QED
    BY <1>1, <1>2, BaseSafe, PTL DEF Spec

\* Unless a script commits the executor's transaction itself, no interleaving,
\* fault, crash or late statement applies a transition twice or without recording it.
THEOREM ExactlyOnceSafe == "commit" \notin Escapes => (Spec => []ExactlyOnce)
  BY OnceSafe, PTL

-----------------------------------------------------------------------------
(* Nothing is recorded that was not applied. *)

LEMMA AppliedInit == Init => AppliedInv
  BY DEF Init, AppliedInv, NeverRecordsUnapplied

\* A body only adds: what is recorded stays applied, and what is there stays.
LEMMA BodyAdds ==
    ASSUME BaseInv, AppliedInv, NEW p \in Proc, CommitsUnit(p) \/ CommitsBody(p)
    PROVE  /\ \A x \in Trans : migRow[x] # 0 => eff'[x] > 0
           /\ \A x \in Trans : eff'[x] > 0 => live'[TableOf[x]] # 0
           /\ \A o \in Obj : live[o] # 0 => live'[o] # 0
           /\ job[p] \in Trans => eff'[job[p]] > 0
           /\ job[p] \in Obj => /\ live'[job[p]] # 0
                                /\ \A x \in TransOf(job[p]) : wsRev[p][x] # 0 => eff'[x] > 0
  <1>0. eff \in [Trans -> 0 .. 2] /\ live \in [Obj -> Vers]
    BY DEF BaseInv, TypeOK
  <1>1. /\ CanRun(p) /\ BodyEffect(p) /\ job[p] \in Obj \cup Trans
        /\ \A o \in Obj : wsFile[p][o] # 0
    BY UnitRuns
  <1>2. CASE job[p] \in Trans
    <2>1. eff' = [eff EXCEPT ![job[p]] = More(eff[job[p]])] /\ live' = live
      BY <1>1, <1>2 DEF BodyEffect
    <2>2. eff'[job[p]] > 0 /\ live[TableOf[job[p]]] # 0
      BY <1>0, <1>1, <1>2, <2>1 DEF More, CanRun
    <2>3. job[p] \notin Obj
      BY <1>2, ObjAssumption
    <2>4. QED
      BY <1>0, <1>2, <2>1, <2>2, <2>3 DEF AppliedInv, NeverRecordsUnapplied
  <1>3. CASE job[p] \in Obj
    <2>1. job[p] \notin Trans
      BY <1>3, ObjAssumption
    <2>2. /\ live' = [live EXCEPT ![job[p]] = wsFile[p][job[p]]]
          /\ eff' = [x \in Trans |-> IF TableOf[x] # job[p] THEN eff[x]
                                     ELSE IF wsRev[p][x] # 0 THEN 1 ELSE 0]
      BY <1>1, <2>1 DEF BodyEffect
    <2>3. \A x \in Trans : TableOf[x] = job[p] => live[job[p]] = 0
      BY <1>1, <2>1, TableKinds DEF CanRun
    <2>4. \A x \in Trans : TableOf[x] = job[p] => eff[x] = 0 /\ migRow[x] = 0
      BY <1>0, <2>3 DEF AppliedInv, NeverRecordsUnapplied
    <2>5. live'[job[p]] # 0 /\ \A o \in Obj : live[o] # 0 => live'[o] # 0
      BY <1>0, <1>1, <1>3, <2>2
    <2>6. \A x \in Trans : migRow[x] # 0 => eff'[x] > 0
      BY <2>2, <2>4 DEF AppliedInv, NeverRecordsUnapplied
    <2>7. \A x \in Trans : eff'[x] > 0 => live'[TableOf[x]] # 0
      BY <2>2, <2>5, TableKinds DEF AppliedInv
    <2>8. \A x \in TransOf(job[p]) : wsRev[p][x] # 0 => eff'[x] > 0
      BY <2>2 DEF TransOf
    <2>9. QED
      BY <2>1, <2>5, <2>6, <2>7, <2>8
  <1>4. QED
    BY <1>1, <1>2, <1>3

LEMMA AppliedNext == ASSUME ~OutOfBand, BaseInv, AppliedInv, Next PROVE AppliedInv'
  <1>1. CASE Environment
    BY <1>1 DEF Environment, EditObject, EditTransition, OutOfBandDDL, db, AppliedInv,
                NeverRecordsUnapplied
  <1>2. ASSUME NEW p \in Proc, ProcStep(p) PROVE AppliedInv'
    <2>1. CASE UNCHANGED ledgerVars
      BY <2>1 DEF ledgerVars, AppliedInv, NeverRecordsUnapplied
    <2>2. CASE CommitsUnit(p)
      <3>1. job[p] \in Obj \cup Trans /\ CanRun(p)
        BY <2>2, UnitRuns
      <3>2. HistoryRows(p)
        BY <2>2 DEF CommitsUnit, CommitUnit
      <3>3. \A x \in Trans : x \in MigrationRows(p) => eff'[x] > 0
        BY <2>2, <3>1, BodyAdds DEF MigrationRows, TransOf
      <3>4. \A x \in Trans : migRow'[x] # 0 => eff'[x] > 0
        BY <2>2, <3>2, <3>3, BodyAdds DEF HistoryRows
      <3>5. \A o \in Obj : rowCs'[o] # 0 => live'[o] # 0
        <4>1. CASE job[p] \in Trans
          BY <2>2, <3>1, <3>2, <4>1, BodyAdds, ObjAssumption
          DEF HistoryRows, ObjectRows, CanRun, AppliedInv, NeverRecordsUnapplied
        <4>2. CASE job[p] \in Obj
          BY <2>2, <3>2, <4>2, BodyAdds
          DEF HistoryRows, ObjectRows, AppliedInv, NeverRecordsUnapplied
        <4>3. QED
          BY <3>1, <4>1, <4>2
      <3>6. QED
        BY <2>2, <3>4, <3>5, BodyAdds DEF AppliedInv, NeverRecordsUnapplied
    <2>3. CASE RecordsRows(p)
      BY <2>3 DEF RecordsRows, CanRecord, RecordEffect, ObjectRows, AppliedInv,
                  NeverRecordsUnapplied
    <2>4. CASE CommitsBody(p)
      <3>1. UNCHANGED <<rowCs, migRow>>
        BY <2>4 DEF CommitsBody
      <3>2. QED
        BY <2>4, <3>1, BodyAdds DEF AppliedInv, NeverRecordsUnapplied
    <2>5. QED
      BY <1>2, <2>1, <2>2, <2>3, <2>4, UnitsOfWork DEF BaseInv
  <1>3. QED
    BY <1>1, <1>2, NextCases

LEMMA AppliedStutter == AppliedInv /\ UNCHANGED vars => AppliedInv'
  BY DEF AppliedInv, NeverRecordsUnapplied, vars, db

\* With no DDL from outside, no history row is left for work that is not in the
\* database, whatever a script does to the executor's transaction and whatever
\* fails, crashes or is executed late.
THEOREM NothingRecordedUnapplied == ~OutOfBand => (Spec => []NeverRecordsUnapplied)
  <1> SUFFICES ASSUME ~OutOfBand PROVE Spec => []NeverRecordsUnapplied
    OBVIOUS
  <1>1. Init => AppliedInv
    BY AppliedInit
  <1>2. BaseInv /\ AppliedInv /\ [Next]_vars => AppliedInv'
    BY AppliedNext, AppliedStutter
  <1>3. AppliedInv => NeverRecordsUnapplied
    BY DEF AppliedInv
  <1>4. QED
    BY <1>1, <1>2, <1>3, BaseSafe, PTL DEF Spec

-----------------------------------------------------------------------------
(* Migrator implements DeployLedger. *)

LEMMA LedgerInit == Init => Ledger!Init
  BY DEF Init, NoShape, Ledger!Init

\* The ledger's vocabulary is that of Migrator.
LEMMA SameShape ==
    /\ \A o : Ledger!TransOf(o) = TransOf(o)
    /\ \A l, e, o : Ledger!Shape(l, e, o) = Shape(l, e, o)
    /\ Ledger!ModuleKinds = ModuleKinds
  BY DEF TransOf, Shape, ModuleKinds, Ledger!TransOf, Ledger!Shape, Ledger!ModuleKinds

\* The rows that a run writes advance the ledger's rows.
LEMMA RowsRefine ==
    ASSUME TypeOK', NEW p \in Proc, NEW S \in SUBSET Obj, ObjectRows(p, S),
           \A o \in Obj : wsFile[p][o] # 0
    PROVE  Ledger!RowsAdvance(S)
  BY SameShape DEF ObjectRows, TypeOK, Ledger!RowsAdvance

LEMMA MigrationsRefine ==
    ASSUME TypeOK', NEW p \in Proc, NEW X \in SUBSET Trans,
           migRow' = [x \in Trans |-> IF x \in X THEN wsRev[p][x] ELSE migRow[x]],
           \A x \in X : wsRev[p][x] # 0
    PROVE  Ledger!MigrationsAdvance(X)
  BY DEF TypeOK, Revs, GenRev, Ledger!MigrationsAdvance

\* The commit of a transition.
LEMMA TransitionRefines ==
    ASSUME BaseInv, TypeOK', PendingInv, ExactlyOnce,
           NEW p \in Proc, CanWrite(p), CommitsUnit(p), job[p] \in Trans
    PROVE  Ledger!ApplyTransition(job[p])
  <1>0. eff \in [Trans -> 0 .. 2] /\ TableOf[job[p]] \in Obj /\ job[p] \notin Obj
    BY TransAssumption, ObjAssumption DEF BaseInv, TypeOK
  <1>1. /\ CanRun(p) /\ BodyEffect(p) /\ job[p] \in todo[p] /\ wsRev[p][job[p]] # 0
        /\ \A o \in Obj : wsFile[p][o] # 0
    BY UnitRuns
  <1>2. migRow[job[p]] = 0 /\ eff[job[p]] = 0 /\ live[TableOf[job[p]]] # 0
    BY <1>0, <1>1 DEF PendingInv, ExactlyOnce, CanRun
  <1>3. eff' = [eff EXCEPT ![job[p]] = 1] /\ UNCHANGED live
    BY <1>1, <1>2 DEF BodyEffect, More
  <1>4. HistoryRows(p) /\ MigrationRows(p) = {job[p]}
    BY DEF CommitsUnit, CommitUnit, MigrationRows
  <1>5. Ledger!MigrationsAdvance({job[p]})
    BY <1>1, <1>4, MigrationsRefine DEF HistoryRows
  <1>6. Ledger!RowsAdvance({}) \/ Ledger!RowsAdvance({TableOf[job[p]]})
    <2>1. ObjectRows(p, {}) \/ ObjectRows(p, {TableOf[job[p]]})
      BY <1>0, <1>4 DEF HistoryRows
    <2>2. QED
      BY <1>0, <1>1, <2>1, RowsRefine
  <1>7. QED
    BY <1>2, <1>3, <1>5, <1>6 DEF Ledger!ApplyTransition

\* The commit of an object.
LEMMA ObjectRefines ==
    ASSUME BaseInv, TypeOK', NEW p \in Proc, CommitsUnit(p), job[p] \in Obj
    PROVE  \E v \in 1 .. MaxVer : Ledger!ApplyObject(job[p], v)
  <1> DEFINE o == job[p]
             v == wsFile[p][o]
             X == {x \in TransOf(o) : wsRev[p][x] # 0}
  <1>0. o \notin Trans /\ live \in [Obj -> Vers] /\ wsFile[p] \in [Obj -> 0 .. MaxVer]
    BY ObjAssumption DEF BaseInv, TypeOK
  <1>1. /\ CanRun(p) /\ BodyEffect(p) /\ \A c \in Obj : wsFile[p][c] # 0
        /\ scen[p][o] = "Create" \/ Kind[o] \in ModuleKinds
    BY UnitRuns
  <1>2. v \in 1 .. MaxVer
    BY <1>0, <1>1
  <1>3. (\A d \in Deps[o] : live[d] # 0) /\ (live[o] = 0 \/ Kind[o] \in ModuleKinds)
    BY <1>0, <1>1, ObjAssumption DEF CanRun, Kinds
  <1>4. /\ live' = [live EXCEPT ![o] = v]
        /\ eff' = [x \in Trans |-> IF TableOf[x] # o THEN eff[x] ELSE IF x \in X THEN 1 ELSE 0]
    BY <1>0, <1>1 DEF BodyEffect, TransOf
  <1>5. HistoryRows(p) /\ MigrationRows(p) = X
    BY <1>0, <1>1, TableKinds DEF CommitsUnit, CommitUnit, MigrationRows
  <1>6. X \in SUBSET Trans /\ \A x \in X : wsRev[p][x] # 0
    BY DEF TransOf
  <1>7. Ledger!MigrationsAdvance(X)
    BY <1>5, <1>6, MigrationsRefine DEF HistoryRows
  <1>8. ObjectRows(p, {o})
    BY <1>5 DEF HistoryRows
  <1>9. Ledger!RowsAdvance({o}) /\ rowCs'[o] = v
    BY <1>1, <1>8, RowsRefine DEF ObjectRows
  <1>10. X \in SUBSET Ledger!TransOf(o)
    BY SameShape
  <1>11. Ledger!ApplyObject(o, v)
    <2> HIDE DEF v, X, o
    <2>1. QED
      BY <1>3, <1>4, <1>7, <1>9, <1>10, SameShape DEF Ledger!ApplyObject
  <1>12. QED
    BY <1>2, <1>11

\* Every step is a unit of the ledger or leaves it alone.
LEMMA LedgerNext ==
    ASSUME "commit" \notin Escapes, BaseInv, TypeOK', PendingInv, ExactlyOnce, [Next]_vars
    PROVE  [Ledger!Next]_(Ledger!ledger)
  <1> USE DEF Ledger!ledger
  <1>1. CASE UNCHANGED vars
    BY <1>1 DEF vars, db
  <1>2. CASE Environment
    <2>1. ASSUME NEW o \in Obj, NEW v \in {0, Foreign}, OutOfBandDDL(o, v)
          PROVE  Ledger!OutsideDDL(o, v)
      BY <2>1 DEF OutOfBandDDL, Ledger!OutsideDDL
    <2>2. CASE UNCHANGED db
      BY <2>2 DEF db
    <2>3. QED
      BY <1>2, <2>1, <2>2 DEF Environment, EditObject, EditTransition, Ledger!Next, Foreign
  <1>3. ASSUME NEW p \in Proc, ProcStep(p) PROVE [Ledger!Next]_(Ledger!ledger)
    <2>1. CASE UNCHANGED ledgerVars
      BY <2>1 DEF ledgerVars
    <2>2. CASE CanWrite(p) /\ CommitsUnit(p)
      BY <2>2, TransitionRefines, ObjectRefines, UnitRuns DEF Ledger!Next
    <2>3. CASE CanWrite(p) /\ RecordsRows(p)
      <3>1. RecordRows(p) \in SUBSET Obj
        BY DEF RecordRows, WithAction
      <3>2. Ledger!RowsAdvance(RecordRows(p))
        BY <2>3, <3>1, WriterScanned, RowsRefine DEF RecordsRows, RecordEffect
      <3>3. Ledger!RecordRows(RecordRows(p))
        BY <2>3, <3>2 DEF RecordsRows, RecordEffect, CanRecord, Ledger!RecordRows
      <3>4. QED
        BY <3>1, <3>3 DEF Ledger!Next
    <2>4. ~CommitsBody(p)
      BY DEF CommitsBody
    <2>5. QED
      BY <1>3, <2>1, <2>2, <2>3, <2>4, UnitsOfWork DEF BaseInv
  <1>4. QED
    BY <1>1, <1>2, <1>3, NextCases

\* Processes, sessions, the lock, transactions and plans are implementation
\* detail: unless a script commits the executor's transaction, the database and its
\* history move exactly as DeployLedger allows, by indivisible units of work.
THEOREM ImplementsLedger == "commit" \notin Escapes => (Spec => LedgerSpec)
  <1> SUFFICES ASSUME "commit" \notin Escapes PROVE Spec => LedgerSpec
    OBVIOUS
  <1>1. Init => Ledger!Init
    BY LedgerInit
  <1>2. BaseInv /\ BaseInv' /\ (PendingInv /\ ExactlyOnce) /\ [Next]_vars => [Ledger!Next]_(Ledger!ledger)
    BY LedgerNext DEF BaseInv
  <1>3. QED
    BY <1>1, <1>2, BaseSafe, OnceSafe, PTL DEF Spec, LedgerSpec, Ledger!Spec

=============================================================================
