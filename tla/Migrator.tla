------------------------------ MODULE Migrator ------------------------------
(***************************************************************************)
(* Mutating rmig commands (migrate, baseline, repair-checksum) run by      *)
(* several processes against one database: scan, advisory lock, plan,      *)
(* gates, filter of applied transitions, apply and release, with the SQL   *)
(* Server sessions behind them.  Script bodies and checksums are version   *)
(* numbers; every statement the client sends is a step of its own.         *)
(***************************************************************************)
EXTENDS PlanScenario, FiniteSets

CONSTANTS
    Proc,        \* rmig processes (each with its own direct session)
    Obj,         \* managed objects of the repository
    Trans,       \* paths of transition scripts
    None,        \* "no process", "no job", "no parent"
    Kind,        \* kind of an object
    Parent,      \* table a trigger script names, or None
    Deps,        \* objects that must exist for an object's script to run
    TableOf,     \* table a transition belongs to
    Order,       \* path order of objects and transitions
    Altering,    \* transitions that change the shape of their table
    Commands,    \* the mutating commands that are run
    AllowAdopt,  \* RMIG_ALLOW_ADOPT
    Faults,      \* which faults happen: "stmt", "conn", "crash"
    Escapes,     \* what a script body may do to the executor's transaction
    Generates,   \* blocked tables may get an auto-generated transition
    OutOfBand,   \* DDL happens outside rmig
    MaxVer,      \* bound: versions of an object script
    MaxRev       \* bound: authored revisions of a transition script

ASSUME ProcAssumption == None \notin Proc
ASSUME ObjAssumption == /\ None \notin Obj \cup Trans
                        /\ Obj \cap Trans = {}
                        /\ Kind \in [Obj -> Kinds]
                        /\ Parent \in [Obj -> Obj \cup {None}]
                        /\ Deps \in [Obj -> SUBSET Obj]
ASSUME TransAssumption == /\ TableOf \in [Trans -> Obj]
                          /\ \A x \in Trans : Kind[TableOf[x]] = "tables"
                          /\ Order \in [Obj \cup Trans -> Nat]
                          /\ Altering \subseteq Trans
ASSUME ModeAssumption == /\ Commands \subseteq {"migrate", "baseline", "repair"}
                         /\ AllowAdopt \in BOOLEAN /\ OutOfBand \in BOOLEAN
                         /\ Generates \in BOOLEAN
                         /\ Faults \subseteq {"stmt", "conn", "crash"}
                         /\ Escapes \subseteq {"rollback", "commit"}
ASSUME BoundAssumption == MaxVer \in Nat \ {0} /\ MaxRev \in Nat \ {0}

VARIABLES
    file,        \* repository: version of each object's script
    tfile,       \* repository: revision of each transition script, 0 = no file
    schema,      \* database: the schema of the objects exists
    live,        \* database: version of each object, 0 = absent
    eff,         \* database: how often a transition's effect is in its table
    rowCs,       \* history: checksum of the latest object row, 0 = no row
    rowFp,       \* history: live_definition_checksum of that row
    migRow,      \* history: checksum of the migration row, 0 = no row
    lock,        \* server: session holding the applock, or None
    sess,        \* server: the process's session is open
    tx,          \* server: what the session's transaction holds
    inflight,    \* server: statement received from a client that is gone
    pc,          \* client: next step
    cmd,         \* client: command being run
    conn,        \* client: TimingConn still has its connection
    wsFile,      \* client: scanned object checksums
    wsRev,       \* client: scanned transition checksums
    scen,        \* client: planned scenario of each object
    pend,        \* client: planned transitions left by the filter
    todo,        \* client: work left in the current loop
    retry,       \* client: modules put off to the next round
    progress,    \* client: a module succeeded in this round
    job,         \* client: object or transition inside apply_in_tx
    exit         \* client: exit code of the run

repo   == <<file, tfile>>
db     == <<schema, live, eff, rowCs, rowFp, migRow>>
server == <<lock, sess, tx, inflight>>
plan   == <<wsFile, wsRev, scen, pend>>
loop   == <<todo, retry, progress, job>>
client == <<pc, cmd, conn, plan, loop, exit>>
vars   == <<repo, db, server, client>>

-----------------------------------------------------------------------------
(* Versions, fingerprints and the planner's view of the database. *)

Foreign == MaxVer + 1         \* a definition no repository version has
GenRev  == MaxRev + 1         \* a transition body written by scaffold::auto
Vers    == 0 .. Foreign
Revs    == 0 .. GenRev

TransOf(o) == {x \in Trans : TableOf[x] = o}

\* The canonical live definition of an object, given the objects' versions l
\* and the transitions' effects e.
Shape(l, e, o) == [ver |-> l[o], alters |-> {x \in TransOf(o) \cap Altering : e[x] > 0}]
NoShape == [ver |-> 0, alters |-> {}]
Shapes  == [ver : Vers, alters : SUBSET Altering]

\* live_definition_drift of load_checksums: the recorded fingerprint differs.
Drift(o) == rowCs[o] # 0 /\ rowFp[o] # Shape(live, eff, o)

\* parent_ref_for_row, catalog_has_row and prior_digest_present of a trigger.
ParentState(o) ==
    IF Parent[o] = None THEN "unnamed"
    ELSE IF live[Parent[o]] = 0 THEN "missing"
    ELSE IF rowCs[Parent[o]] = 0 THEN "unrecorded" ELSE "recorded"

\* decide_object_at: the scenario of object o for what process p scanned.
DecideObject(p, o) ==
    ResolvePlanScenario(
        [exists |-> live[o] # 0, prior |-> rowCs[o], drift |-> Drift(o),
         kind |-> Kind[o], checksum |-> wsFile[p][o],
         hasTransitions |-> \E x \in TransOf(o) : wsRev[p][x] # 0,
         parent |-> ParentState(o)])

PlanBlocked(p) == \E o \in Obj : scen[p][o] \in BlockedScenarios

WithAction(p, acts) == {o \in Obj : ActionOf(scen[p][o]) \in acts}

\* should_apply, split by is_transactional_kind.
TxBatch(p) == {o \in WithAction(p, {"CreateObject", "UpdateExistingModule"}) :
                  Kind[o] \in TransactionalKinds}
ModuleBatch(p) == {o \in WithAction(p, {"CreateObject", "UpdateExistingModule"}) :
                  Kind[o] \in ModuleKinds}

\* Mutant: what is there without a row is forgotten.
RecordRowsNoAdopt(p) ==
    IF cmd[p] = "repair"
    THEN WithAction(p, {"UpdateExistingModule", "ReprocessChanged", "ReprocessChangedBlocked", "Fail"})
    ELSE {}

\* Objects whose history row is written without running a script.
RecordRows(p) ==
    IF cmd[p] = "repair"
    THEN WithAction(p, {"AdoptExisting", "UpdateExistingModule", "ReprocessChanged",
                        "ReprocessChangedBlocked", "Fail"})
    ELSE WithAction(p, {"AdoptExisting"})

\* fill_plan_row: the transitions the plan carries.
PlannedTrans(p) ==
    {x \in Trans : scen[p][TableOf[x]] = "TableReprocess" /\ wsRev[p][x] # 0}

\* applied_unchanged, its tampered list and what it retains.
Tampered(p) == {x \in PlannedTrans(p) : migRow[x] # 0 /\ migRow[x] # wsRev[p][x]}
\* Mutant: the filter keeps what is applied.
UnappliedKeepsAll(p) == PlannedTrans(p)
Unapplied(p) == {x \in PlannedTrans(p) : migRow[x] = 0}

\* sort_tx_batch for objects; plan order then ordinal for transitions.
Before(a, b) ==
    IF a \in Trans
    THEN IF TableOf[a] = TableOf[b] THEN Order[a] < Order[b]
         ELSE Order[TableOf[a]] < Order[TableOf[b]]
    ELSE \/ KindRank[Kind[a]] < KindRank[Kind[b]]
         \/ Kind[a] = Kind[b] /\ Order[a] < Order[b]

IsNext(a, S) == a \in S /\ \A b \in S \ {a} : Before(a, b)

-----------------------------------------------------------------------------
(* Control points of the client. *)

TxPcs   == {"begin", "body", "assert", "flush", "commit"}
LoopPcs == {"transitions", "objects", "modules"}
\* A live client at one of these has been granted the lock.
LockedPcs == {"plan", "gate", "filter", "schemas", "record", "rollback", "release"}
                 \cup TxPcs \cup LoopPcs
Pcs == {"idle", "acquire", "exited", "dead"} \cup LockedPcs

\* Statements whose late execution, after the client is gone, changes anything.
Late == {"acquire", "schemas", "record", "body", "commit"}
TxStates == {"none", "open", "body", "full"}
ExitCodes == {0, 1, 5, 7, 8, 10}

TypeOK ==
    /\ file \in [Obj -> 1 .. MaxVer] /\ tfile \in [Trans -> Revs]
    /\ schema \in BOOLEAN /\ live \in [Obj -> Vers]
    /\ eff \in [Trans -> 0 .. 2]
    /\ rowCs \in [Obj -> 0 .. MaxVer] /\ rowFp \in [Obj -> Shapes]
    /\ migRow \in [Trans -> Revs]
    /\ lock \in Proc \cup {None} /\ sess \in [Proc -> BOOLEAN]
    /\ tx \in [Proc -> TxStates] /\ inflight \in [Proc -> Late \cup {"none"}]
    /\ pc \in [Proc -> Pcs] /\ cmd \in [Proc -> {"none", "migrate", "baseline", "repair"}]
    /\ conn \in [Proc -> BOOLEAN]
    /\ wsFile \in [Proc -> [Obj -> 0 .. MaxVer]] /\ wsRev \in [Proc -> [Trans -> Revs]]
    /\ scen \in [Proc -> [Obj -> Scenarios]] /\ pend \in [Proc -> SUBSET Trans]
    /\ todo \in [Proc -> SUBSET (Obj \cup Trans)] /\ retry \in [Proc -> SUBSET (Obj \cup Trans)]
    /\ progress \in [Proc -> BOOLEAN] /\ job \in [Proc -> Obj \cup Trans \cup {None}]
    /\ exit \in [Proc -> ExitCodes]

NoScenario == [o \in Obj |-> "SkipUnchanged"]

\* A database rmig has never managed: empty, or with objects of its own.
Init ==
    /\ file = [o \in Obj |-> 1] /\ tfile = [x \in Trans |-> 0]
    /\ live \in [Obj -> {0, 1}] /\ schema \in BOOLEAN
    /\ \A o \in Obj : live[o] # 0 => schema /\ \A d \in Deps[o] : live[d] # 0
    /\ eff = [x \in Trans |-> 0]
    /\ rowCs = [o \in Obj |-> 0] /\ rowFp = [o \in Obj |-> NoShape]
    /\ migRow = [x \in Trans |-> 0]
    /\ lock = None /\ sess = [p \in Proc |-> FALSE]
    /\ tx = [p \in Proc |-> "none"] /\ inflight = [p \in Proc |-> "none"]
    /\ pc = [p \in Proc |-> "idle"] /\ cmd = [p \in Proc |-> "none"]
    /\ conn = [p \in Proc |-> FALSE]
    /\ wsFile = [p \in Proc |-> [o \in Obj |-> 0]]
    /\ wsRev = [p \in Proc |-> [x \in Trans |-> 0]]
    /\ scen = [p \in Proc |-> NoScenario] /\ pend = [p \in Proc |-> {}]
    /\ todo = [p \in Proc |-> {}] /\ retry = [p \in Proc |-> {}]
    /\ progress = [p \in Proc |-> FALSE] /\ job = [p \in Proc |-> None]
    /\ exit = [p \in Proc |-> 0]

At(p, l)   == pc[p] = l /\ conn[p]
Goto(p, l) == pc' = [pc EXCEPT ![p] = l]
\* Mutant: exit codes shifted by one.
StopShifted(p, code) == Goto(p, "release") /\ exit' = [exit EXCEPT ![p] = code + 1]
\* An error (or refusal) inside the locked body: release_after_body comes next.
Stop(p, code) == Goto(p, "release") /\ exit' = [exit EXCEPT ![p] = code]

-----------------------------------------------------------------------------
(* Effects of one unit of work on the database. *)

More(n) == IF n = 0 THEN 1 ELSE 2     \* saturating: none, once, repeated

\* A script body runs.  A table's own script embodies its past transitions.
BodyEffect(p) ==
    IF job[p] \in Trans
    THEN /\ eff' = [eff EXCEPT ![job[p]] = More(@)]
         /\ UNCHANGED live
    ELSE /\ live' = [live EXCEPT ![job[p]] = wsFile[p][job[p]]]
         /\ eff' = [x \in Trans |-> IF TableOf[x] # job[p] THEN eff[x]
                                    ELSE IF wsRev[p][x] # 0 THEN 1 ELSE 0]

\* Mutant: the fingerprint is taken before the body ran.
ObjectRowsEarly(p, S) ==
    /\ rowCs' = [o \in Obj |-> IF o \in S THEN wsFile[p][o] ELSE rowCs[o]]
    /\ rowFp' = [o \in Obj |-> IF o \in S THEN Shape(live, eff, o) ELSE rowFp[o]]

\* Object rows for the objects in S, with the fingerprints of the live objects.
ObjectRows(p, S) ==
    /\ rowCs' = [o \in Obj |-> IF o \in S THEN wsFile[p][o] ELSE rowCs[o]]
    /\ rowFp' = [o \in Obj |-> IF o \in S THEN Shape(live', eff', o) ELSE rowFp[o]]

\* is_last of apply_transitions: nothing else is pending for the table.
IsLast(p, x) == todo[p] \cap TransOf(TableOf[x]) = {x}

\* Mutant: a created table does not record its transitions.
MigrationRowsOwn(p) == IF job[p] \in Trans THEN {job[p]} ELSE {}

\* The migration rows a unit writes: the transition's own, or those of every
\* scanned transition of a created table (create_table_transition_records).
MigrationRows(p) ==
    IF job[p] \in Trans THEN {job[p]}
    ELSE IF scen[p][job[p]] = "Create" THEN {x \in TransOf(job[p]) : wsRev[p][x] # 0}
    ELSE {}

\* Mutant: the last transition does not advance the table's baseline.
HistoryRowsNoBaseline(p) ==
    /\ migRow' = [x \in Trans |-> IF x \in MigrationRows(p) THEN wsRev[p][x] ELSE migRow[x]]
    /\ ObjectRows(p, {job[p]} \cap Obj)

HistoryRows(p) ==
    /\ migRow' = [x \in Trans |-> IF x \in MigrationRows(p) THEN wsRev[p][x] ELSE migRow[x]]
    /\ ObjectRows(p, IF job[p] \in Obj THEN {job[p]}
                     ELSE IF IsLast(p, job[p]) THEN {TableOf[job[p]]} ELSE {})

\* COMMIT: the body and its history rows become visible together.
CommitUnit(p) == BodyEffect(p) /\ HistoryRows(p) /\ UNCHANGED schema

\* Mutant: the insert does not insist on a live definition.
CanRecordAlways(p) == p \in Proc

\* flush_history of adopt and repair rows, in a statement of its own; the
\* insert throws when an object has no live definition.
CanRecord(p) == \A o \in RecordRows(p) : live[o] # 0
RecordEffect(p) == /\ UNCHANGED <<schema, live, eff, migRow>>
                   /\ ObjectRows(p, RecordRows(p))

\* The database accepts the body of the current job.
CanRun(p) ==
    IF job[p] \in Trans THEN live[TableOf[job[p]]] # 0
    ELSE /\ schema /\ \A d \in Deps[job[p]] : live[d] # 0
         /\ Kind[job[p]] \in TransactionalKinds => live[job[p]] = 0

-----------------------------------------------------------------------------
(* The repository and the database change outside rmig. *)

EditObject(o, v) ==
    /\ v # file[o] /\ file' = [file EXCEPT ![o] = v]
    /\ UNCHANGED <<tfile, db, server, client>>

EditTransition(x, r) ==
    /\ r # tfile[x] /\ tfile' = [tfile EXCEPT ![x] = r]
    /\ UNCHANGED <<file, db, server, client>>

\* Objects a session's open transaction holds schema locks on.
Held(p) == IF tx[p] \notin {"body", "full"} THEN {}
           ELSE IF job[p] \in Trans THEN {TableOf[job[p]]}
           ELSE {job[p]} \cup Deps[job[p]]

\* Somebody alters, creates or drops o by hand; a dropped table takes its
\* triggers, its indexes and the effects of its transitions with it.
OutOfBandDDL(o, v) ==
    LET gone == IF v = 0 THEN {o} \cup {c \in Obj : Parent[c] = o} ELSE {}
    IN  /\ OutOfBand /\ schema /\ v # live[o]
        /\ \A p \in Proc : Held(p) \cap ({o} \cup gone) = {}
        /\ live' = [c \in Obj |-> IF c \in gone THEN 0 ELSE IF c = o THEN v ELSE live[c]]
        /\ eff' = [x \in Trans |-> IF TableOf[x] \in gone THEN 0 ELSE eff[x]]
        /\ UNCHANGED <<repo, schema, rowCs, rowFp, migRow, server, client>>

-----------------------------------------------------------------------------
(* A run up to the point where it starts to apply. *)

\* run_command: scan the repository, then connect.
Start(p, c) ==
    /\ pc[p] = "idle"
    /\ cmd' = [cmd EXCEPT ![p] = c] /\ Goto(p, "acquire")
    /\ wsFile' = [wsFile EXCEPT ![p] = file] /\ wsRev' = [wsRev EXCEPT ![p] = tfile]
    /\ conn' = [conn EXCEPT ![p] = TRUE] /\ sess' = [sess EXCEPT ![p] = TRUE]
    /\ UNCHANGED <<repo, db, lock, tx, inflight, scen, pend, loop, exit>>

\* Mutant: the return code of sp_getapplock is not looked at.
AcquireUnchecked(p) ==
    /\ At(p, "acquire") /\ lock' = (IF lock = None THEN p ELSE lock) /\ Goto(p, "plan")
    /\ UNCHANGED <<repo, db, sess, tx, inflight, cmd, conn, plan, loop, exit>>

\* lock::acquire, sp_getapplock grants the exclusive session lock.
Acquire(p) ==
    /\ At(p, "acquire") /\ lock = None
    /\ lock' = p /\ Goto(p, "plan")
    /\ UNCHANGED <<repo, db, sess, tx, inflight, cmd, conn, plan, loop, exit>>

\* plan_phase: inspect the live database and diff it with the scan.
Plan(p) ==
    /\ At(p, "plan")
    /\ scen' = [scen EXCEPT ![p] = [o \in Obj |-> DecideObject(p, o)]]
    /\ Goto(p, "gate")
    /\ UNCHANGED <<repo, db, server, cmd, conn, wsFile, wsRev, pend, loop, exit>>

\* scaffold::ensure: a blocked table without a real transition file may get an
\* auto-generated one, which does not carry the scaffold mark.
Scaffold(p) ==
    \E X \in SUBSET {x \in Trans : /\ Generates
                                   /\ scen[p][TableOf[x]] = "TableBlockedNoTransitions"
                                   /\ \A y \in TransOf(TableOf[x]) : tfile[y] = 0} :
        /\ \A x, y \in X : TableOf[x] = TableOf[y] => x = y
        /\ tfile' = [x \in Trans |-> IF x \in X THEN GenRev ELSE tfile[x]]

\* handle_blocked_migrate
GateBlocked(p) ==
    /\ At(p, "gate") /\ cmd[p] = "migrate" /\ PlanBlocked(p)
    /\ Scaffold(p) /\ Stop(p, 10)
    /\ UNCHANGED <<file, db, server, cmd, conn, plan, loop>>

\* ensure_adopt_allowed, and the blocked check of execute_metadata_plan.
Refused(p) ==
    \/ cmd[p] = "migrate" /\ ~PlanBlocked(p) /\ ~AllowAdopt
                          /\ WithAction(p, {"AdoptExisting"}) # {}
    \/ cmd[p] = "baseline" /\ PlanBlocked(p)

GateRefused(p) ==
    /\ At(p, "gate") /\ Refused(p) /\ Stop(p, 10)
    /\ UNCHANGED <<repo, db, server, cmd, conn, plan, loop>>

GatePassed(p) ==
    /\ At(p, "gate") /\ ~Refused(p)
    /\ \/ cmd[p] = "migrate" /\ ~PlanBlocked(p) /\ Goto(p, "filter")
       \/ cmd[p] # "migrate" /\ Goto(p, "record")
    /\ UNCHANGED <<repo, db, server, cmd, conn, plan, loop, exit>>

\* filter_applied
Filter(p) ==
    /\ At(p, "filter")
    /\ \/ Tampered(p) # {} /\ Stop(p, 8) /\ UNCHANGED pend
       \/ Tampered(p) = {} /\ Goto(p, "schemas") /\ UNCHANGED exit
                           /\ pend' = [pend EXCEPT ![p] = Unapplied(p)]
    /\ UNCHANGED <<repo, db, server, cmd, conn, wsFile, wsRev, scen, loop>>

\* ensure_tables and apply_schemas
Schemas(p) ==
    /\ At(p, "schemas") /\ schema' = TRUE
    /\ todo' = [todo EXCEPT ![p] = pend[p]] /\ Goto(p, "transitions")
    /\ UNCHANGED <<repo, live, eff, rowCs, rowFp, migRow, server, cmd, conn, plan,
                   retry, progress, job, exit>>

-----------------------------------------------------------------------------
(* The apply loops: apply_transitions, flush_tx and apply_modules. *)

\* verified_body: the file still has the bytes that were scanned.
Verified(p, a) == IF a \in Trans THEN tfile[a] = wsRev[p][a] ELSE file[a] = wsFile[p][a]

\* The loop takes its next script; a changed file stops the run, except among
\* modules, where it counts as one more failed attempt.
NextScript(p) ==
    \E a \in todo[p] :
        /\ pc[p] \in LoopPcs /\ conn[p] /\ IsNext(a, todo[p])
        /\ \/ /\ Verified(p, a) /\ Goto(p, "begin")
              /\ job' = [job EXCEPT ![p] = a] /\ UNCHANGED <<todo, retry, exit>>
           \/ /\ ~Verified(p, a) /\ pc[p] # "modules" /\ Stop(p, 5)
              /\ UNCHANGED <<job, todo, retry>>
           \/ /\ ~Verified(p, a) /\ pc[p] = "modules"
              /\ todo' = [todo EXCEPT ![p] = @ \ {a}]
              /\ retry' = [retry EXCEPT ![p] = @ \cup {a}]
              /\ UNCHANGED <<pc, job, exit>>
        /\ UNCHANGED <<repo, db, server, cmd, conn, plan, progress>>

TransitionsDone(p) ==
    /\ At(p, "transitions") /\ todo[p] = {} /\ Goto(p, "record")
    /\ UNCHANGED <<repo, db, server, cmd, conn, plan, loop, exit>>

\* commit_history of the adopted objects (apply_objects), or of every adopted
\* and repaired one (execute_metadata_plan).
Record(p) ==
    /\ At(p, "record") /\ CanRecord(p) /\ RecordEffect(p)
    /\ \/ cmd[p] = "migrate" /\ Goto(p, "objects")
                             /\ todo' = [todo EXCEPT ![p] = TxBatch(p)]
       \/ cmd[p] # "migrate" /\ Goto(p, "release") /\ UNCHANGED todo
    /\ UNCHANGED <<repo, server, cmd, conn, plan, retry, progress, job, exit>>

ObjectsDone(p) ==
    /\ At(p, "objects") /\ todo[p] = {} /\ Goto(p, "modules")
    /\ todo' = [todo EXCEPT ![p] = ModuleBatch(p)]
    /\ UNCHANGED <<repo, db, server, cmd, conn, plan, retry, progress, job, exit>>

\* Mutant: one round only, without retries.
RoundDoneOnce(p) ==
    /\ At(p, "modules") /\ todo[p] = {}
    /\ \/ retry[p] = {} /\ Goto(p, "release") /\ UNCHANGED exit
       \/ retry[p] # {} /\ Stop(p, 5)
    /\ UNCHANGED <<repo, db, server, cmd, conn, plan, todo, retry, progress, job>>

\* End of a round of apply_modules: done, another round, or no progress.
RoundDone(p) ==
    /\ At(p, "modules") /\ todo[p] = {}
    /\ \/ retry[p] = {} /\ Goto(p, "release") /\ UNCHANGED <<todo, retry, progress, exit>>
       \/ /\ retry[p] # {} /\ progress[p]
          /\ todo' = [todo EXCEPT ![p] = retry[p]] /\ retry' = [retry EXCEPT ![p] = {}]
          /\ progress' = [progress EXCEPT ![p] = FALSE] /\ UNCHANGED <<pc, exit>>
       \/ retry[p] # {} /\ ~progress[p] /\ Stop(p, 5) /\ UNCHANGED <<todo, retry, progress>>
    /\ UNCHANGED <<repo, db, server, cmd, conn, plan, job>>

-----------------------------------------------------------------------------
(* apply_in_tx, one statement at a time. *)

Begin(p) ==
    /\ At(p, "begin") /\ tx' = [tx EXCEPT ![p] = "open"] /\ Goto(p, "body")
    /\ UNCHANGED <<repo, db, lock, sess, inflight, cmd, conn, plan, loop, exit>>

\* The body runs inside the transaction, or ends it with its own ROLLBACK or
\* COMMIT.
Body(p) ==
    /\ At(p, "body") /\ CanRun(p) /\ Goto(p, "assert")
    /\ \/ tx' = [tx EXCEPT ![p] = "body"] /\ UNCHANGED db
       \/ "rollback" \in Escapes /\ tx' = [tx EXCEPT ![p] = "none"] /\ UNCHANGED db
       \/ "commit" \in Escapes /\ tx' = [tx EXCEPT ![p] = "none"]
             /\ BodyEffect(p) /\ UNCHANGED <<schema, rowCs, rowFp, migRow>>
    /\ UNCHANGED <<repo, lock, sess, inflight, cmd, conn, plan, loop, exit>>

\* Mutant: no assert.
AssertOpenSkipped(p) ==
    /\ At(p, "assert") /\ Goto(p, "flush")
    /\ UNCHANGED <<repo, db, server, cmd, conn, plan, loop, exit>>

\* ASSERT_OPEN_TX: @@TRANCOUNT is still 1.
AssertOpen(p) ==
    /\ At(p, "assert") /\ tx[p] # "none" /\ Goto(p, "flush")
    /\ UNCHANGED <<repo, db, server, cmd, conn, plan, loop, exit>>

\* flush_history inside the transaction (outside it, the insert autocommits).
Flush(p) ==
    /\ At(p, "flush") /\ Goto(p, "commit")
    /\ IF tx[p] # "none" THEN tx' = [tx EXCEPT ![p] = "full"] /\ UNCHANGED db
       ELSE UNCHANGED <<schema, live, eff, tx>> /\ HistoryRows(p)
    /\ UNCHANGED <<repo, lock, sess, inflight, cmd, conn, plan, loop, exit>>

\* The loop a unit of work belongs to.
Back(p) == IF job[p] \in Trans THEN "transitions"
           ELSE IF Kind[job[p]] \in TransactionalKinds THEN "objects" ELSE "modules"

\* Mutant: the unit stays in the list of the loop.
CommitAgain(p) ==
    /\ At(p, "commit") /\ tx[p] = "full"
    /\ CommitUnit(p) /\ tx' = [tx EXCEPT ![p] = "none"] /\ Goto(p, Back(p))
    /\ job' = [job EXCEPT ![p] = None]
    /\ UNCHANGED <<repo, lock, sess, inflight, cmd, conn, plan, todo, retry, progress, exit>>

Commit(p) ==
    /\ At(p, "commit") /\ tx[p] = "full"
    /\ CommitUnit(p) /\ tx' = [tx EXCEPT ![p] = "none"] /\ Goto(p, Back(p))
    /\ todo' = [todo EXCEPT ![p] = @ \ {job[p]}] /\ job' = [job EXCEPT ![p] = None]
    /\ progress' = [progress EXCEPT ![p] = @ \/ Back(p) = "modules"]
    /\ UNCHANGED <<repo, lock, sess, inflight, cmd, conn, plan, retry, exit>>

\* rollback: the failed unit ends the run, except among modules.
Rollback(p) ==
    /\ At(p, "rollback") /\ tx' = [tx EXCEPT ![p] = "none"]
    /\ \/ Back(p) # "modules" /\ Stop(p, 5) /\ UNCHANGED <<todo, retry>>
       \/ /\ Back(p) = "modules" /\ Goto(p, "modules") /\ UNCHANGED exit
          /\ todo' = [todo EXCEPT ![p] = @ \ {job[p]}]
          /\ retry' = [retry EXCEPT ![p] = @ \cup {job[p]}]
    /\ job' = [job EXCEPT ![p] = None]
    /\ UNCHANGED <<repo, db, lock, sess, inflight, cmd, conn, plan, progress>>

\* release_after_body; the process ends and closes its session.
Release(p) ==
    /\ At(p, "release") /\ Goto(p, "exited") /\ lock' = IF lock = p THEN None ELSE lock
    /\ sess' = [sess EXCEPT ![p] = FALSE] /\ conn' = [conn EXCEPT ![p] = FALSE]
    /\ UNCHANGED <<repo, db, tx, inflight, cmd, plan, loop, exit>>

-----------------------------------------------------------------------------
(* Failing statements, lost connections, crashes and orphaned sessions. *)

\* What the server may still execute once the client has given up on the
\* statement it sent at this control point.
Outstanding(p) == IF pc[p] \in Late THEN {"none", pc[p]} ELSE {"none"}

\* TimingConn: the statement times out or the link breaks; the client is dropped.
Lose(p) == /\ "conn" \in Faults /\ conn' = [conn EXCEPT ![p] = FALSE]
           /\ \E s \in Outstanding(p) : inflight' = [inflight EXCEPT ![p] = s]
           /\ UNCHANGED tx

\* The server refuses the statement; XACT_ABORT ends an open transaction.
Refuse(p) == /\ tx' = [tx EXCEPT ![p] = "none"]
             /\ UNCHANGED <<conn, inflight>>

\* acquire fails before the lock is held: -1 is a timeout (exit 7), anything
\* else a SQL error (exit 5).  There is nothing to release.
AcquireFails(p) ==
    /\ At(p, "acquire") /\ Goto(p, "exited") /\ conn' = [conn EXCEPT ![p] = FALSE]
    /\ \/ lock # None /\ exit' = [exit EXCEPT ![p] = 7] /\ UNCHANGED inflight
       \/ "stmt" \in Faults /\ exit' = [exit EXCEPT ![p] = 5] /\ UNCHANGED inflight
       \/ /\ "conn" \in Faults /\ exit' = [exit EXCEPT ![p] = 5]
          /\ inflight' = [inflight EXCEPT ![p] = "acquire"]
    /\ UNCHANGED <<repo, db, lock, sess, tx, cmd, plan, loop>>

\* A statement outside apply_in_tx fails: the error goes through finish (or
\* straight out of the body) to release_after_body.  Writing a scaffold file
\* can fail as well.  The timers of the plan phase (bounded) and of
\* filter_applied are not those of TimingConn: they leave it its client, and the
\* release is sent on it.
StatementFails(p) ==
    /\ \/ pc[p] \in {"plan", "filter", "schemas"}
       \/ pc[p] = "gate" /\ cmd[p] = "migrate" /\ PlanBlocked(p)
       \/ pc[p] = "record" /\ (cmd[p] # "migrate" \/ RecordRows(p) # {})
    /\ conn[p]
    /\ \/ Lose(p) /\ Stop(p, 5)
       \/ "conn" \in Faults /\ pc[p] \in {"plan", "filter"} /\ Refuse(p) /\ Stop(p, 5)
       \/ "stmt" \in Faults /\ Refuse(p) /\ Stop(p, 5)
       \/ "stmt" \in Faults /\ pc[p] = "gate" /\ Refuse(p) /\ Stop(p, 1)
       \/ pc[p] = "record" /\ ~CanRecord(p) /\ Refuse(p) /\ Stop(p, 5)
    /\ UNCHANGED <<repo, db, lock, sess, cmd, plan, loop>>

\* A statement of apply_in_tx fails: rollback comes next.
TxFails(p) ==
    /\ pc[p] \in TxPcs /\ conn[p] /\ Goto(p, "rollback")
    /\ \/ Lose(p)
       \/ "stmt" \in Faults /\ Refuse(p)
       \/ pc[p] = "body" /\ ~CanRun(p) /\ Refuse(p)
       \/ pc[p] \in {"assert", "commit"} /\ tx[p] = "none" /\ Refuse(p)
    /\ UNCHANGED <<repo, db, lock, sess, cmd, plan, loop, exit>>


\* "rollback failed": the connection is gone, the run stops even among modules.
RollbackFails(p) ==
    /\ pc[p] = "rollback" /\ Stop(p, 5)
    /\ \/ ~conn[p] /\ UNCHANGED <<conn, inflight, tx>>
       \/ conn[p] /\ Lose(p)
    /\ UNCHANGED <<repo, db, lock, sess, cmd, plan, loop>>

\* The release fails and is only logged; the process ends.
ReleaseFails(p) ==
    /\ pc[p] = "release" /\ Goto(p, "exited")
    /\ \/ ~conn[p] /\ UNCHANGED <<conn, inflight, tx>>
       \/ conn[p] /\ Lose(p)
    /\ UNCHANGED <<repo, db, lock, sess, cmd, plan, loop, exit>>

\* The process is killed (or interrupted: the run's future is dropped).
Crash(p) ==
    /\ "crash" \in Faults /\ pc[p] \notin {"idle", "exited", "dead"}
    /\ Goto(p, "dead") /\ conn' = [conn EXCEPT ![p] = FALSE]
    /\ IF conn[p] THEN \E s \in Outstanding(p) : inflight' = [inflight EXCEPT ![p] = s]
       ELSE UNCHANGED inflight
    /\ UNCHANGED <<repo, db, lock, sess, tx, cmd, plan, loop, exit>>

\* The server executes what it had received from a client that is gone.
OrphanExec(p) ==
    /\ sess[p] /\ ~conn[p] /\ inflight' = [inflight EXCEPT ![p] = "none"]
    /\ \/ /\ inflight[p] = "acquire" /\ lock = None /\ lock' = p
          /\ UNCHANGED <<db, tx>>
       \/ /\ inflight[p] = "schemas" /\ schema' = TRUE
          /\ UNCHANGED <<live, eff, rowCs, rowFp, migRow, lock, tx>>
       \/ /\ inflight[p] = "record" /\ CanRecord(p) /\ RecordEffect(p)
          /\ UNCHANGED <<lock, tx>>
       \/ /\ inflight[p] = "body" /\ "commit" \in Escapes /\ CanRun(p)
          /\ BodyEffect(p) /\ tx' = [tx EXCEPT ![p] = "none"]
          /\ UNCHANGED <<schema, rowCs, rowFp, migRow, lock>>
       \/ /\ inflight[p] = "commit" /\ tx[p] = "full"
          /\ CommitUnit(p) /\ tx' = [tx EXCEPT ![p] = "none"] /\ UNCHANGED lock
    /\ UNCHANGED <<repo, sess, client>>

\* The server notices the closed connection: the session ends, its transaction
\* is rolled back and its applock is freed.
OrphanClose(p) ==
    /\ sess[p] /\ ~conn[p]
    /\ sess' = [sess EXCEPT ![p] = FALSE] /\ lock' = IF lock = p THEN None ELSE lock
    /\ tx' = [tx EXCEPT ![p] = "none"] /\ inflight' = [inflight EXCEPT ![p] = "none"]
    /\ UNCHANGED <<repo, db, client>>

\* Nothing is left of the run.
Reap(p) ==
    /\ pc[p] \in {"exited", "dead"} /\ ~sess[p] /\ Goto(p, "idle")
    /\ cmd' = [cmd EXCEPT ![p] = "none"]
    /\ wsFile' = [wsFile EXCEPT ![p] = [o \in Obj |-> 0]]
    /\ wsRev' = [wsRev EXCEPT ![p] = [x \in Trans |-> 0]]
    /\ scen' = [scen EXCEPT ![p] = NoScenario] /\ pend' = [pend EXCEPT ![p] = {}]
    /\ todo' = [todo EXCEPT ![p] = {}] /\ retry' = [retry EXCEPT ![p] = {}]
    /\ progress' = [progress EXCEPT ![p] = FALSE] /\ job' = [job EXCEPT ![p] = None]
    /\ exit' = [exit EXCEPT ![p] = 0]
    /\ UNCHANGED <<repo, db, server, conn>>

-----------------------------------------------------------------------------
(* The client's next step, whatever its outcome. *)
Step(p) ==
    \/ Acquire(p) \/ AcquireFails(p) \/ Plan(p)
    \/ GateBlocked(p) \/ GateRefused(p) \/ GatePassed(p)
    \/ Filter(p) \/ Schemas(p) \/ StatementFails(p)
    \/ NextScript(p) \/ TransitionsDone(p) \/ Record(p) \/ ObjectsDone(p) \/ RoundDone(p)
    \/ Begin(p) \/ Body(p) \/ AssertOpen(p) \/ Flush(p) \/ Commit(p) \/ TxFails(p)
    \/ Rollback(p) \/ RollbackFails(p) \/ Release(p) \/ ReleaseFails(p)

Environment ==
    \/ \E o \in Obj : \E v \in 1 .. MaxVer : EditObject(o, v)
    \/ \E x \in Trans : \E r \in 1 .. MaxRev : EditTransition(x, r)
    \/ \E o \in Obj : \E v \in {0, Foreign} : OutOfBandDDL(o, v)

Next ==
    \/ Environment
    \/ \E p \in Proc : \/ \E c \in Commands : Start(p, c)
                       \/ Step(p) \/ Crash(p)
                       \/ OrphanExec(p) \/ OrphanClose(p) \/ Reap(p)

Spec == Init /\ [][Next]_vars

\* ensure_tables, before the schemas of a migrate and before the rows of a baseline
\* or a repair: it asks the client of TimingConn itself, past the command timeout.
Unbounded(p) == conn[p] /\ (pc[p] = "schemas" \/ (pc[p] = "record" /\ cmd[p] # "migrate"))

\* A started run keeps running where the command timeout bounds its statement, and
\* the server eventually closes the session of a client that is gone.  Nothing
\* makes the server answer ensure_tables, or anybody start a run or edit a file.
Fairness == \A p \in Proc : /\ WF_vars(~Unbounded(p) /\ Step(p))
                            /\ WF_vars(OrphanClose(p)) /\ WF_vars(Reap(p))
FairSpec == Spec /\ Fairness

-----------------------------------------------------------------------------
(* Properties. *)

\* The process's session can still change the database: it holds a transaction,
\* the server holds a write of a client that is gone, or the client goes on.
CanWrite(p) ==
    \/ tx[p] # "none"
    \/ inflight[p] \in Late \ {"acquire"}
    \/ conn[p] /\ pc[p] \in LockedPcs

\* "Apply entirely under the lock" (run_locked): whatever can still write, an
\* orphaned session or a late statement included, belongs to the lock holder.
WritesUnderLock == \A p \in Proc : CanWrite(p) => lock = p

\* No replay window (apply_in_tx): the effect of a transition is never twice in
\* its table, and never there without its migration row.
ExactlyOnce == \A x \in Trans : eff[x] <= 1 /\ (eff[x] > 0 => migRow[x] # 0)

\* The assert of apply_in_tx: with no DDL from outside, a script that ends the
\* executor's transaction itself never leaves a row for work that was undone.
NeverRecordsUnapplied ==
    /\ \A x \in Trans : migRow[x] # 0 => eff[x] > 0
    /\ \A o \in Obj : rowCs[o] # 0 => live[o] # 0

\* "A concurrent migrator cannot make the plan stale": planning once more at
\* any point of the apply gives the scripts still to run the same action, and no
\* transition still to run has been recorded meanwhile.
PlanIsFresh ==
    \A p \in Proc : conn[p] /\ pc[p] \in TxPcs \cup LoopPcs =>
        /\ \A o \in Obj : o \in todo[p] \cup retry[p] \cup {job[p]} =>
              ActionOf(DecideObject(p, o)) = ActionOf(scen[p][o])
        /\ \A x \in Trans : x \in todo[p] \cup {job[p]} => migRow[x] = 0

\* A table the plan reprocesses although all its transitions are applied.
NothingToApply(p, o) ==
    scen[p][o] = "TableReprocess" /\ pend[p] \cap TransOf(o) = {}

\* What success means: a migrate about to exit 0 has every scanned script
\* recorded at its scanned checksum (but see SuccessMeansConverged), a repair has
\* it for every object that is there, a baseline leaves no live object unrecorded.
SuccessMeansRecorded ==
    \A p \in Proc : At(p, "release") /\ exit[p] = 0 =>
        \A o \in Obj :
            CASE cmd[p] = "migrate"  -> rowCs[o] = wsFile[p][o] \/ NothingToApply(p, o)
              [] cmd[p] = "repair"   -> live[o] # 0 => rowCs[o] = wsFile[p][o]
              [] cmd[p] = "baseline" -> live[o] # 0 => rowCs[o] # 0

\* The retry rounds of apply_modules give up only when no further round would
\* deploy anything: each module left names one that is not deployed either, or
\* its own body ran and ended the executor's transaction (without edits, and while
\* the server refuses nothing else).
GivesUpAtFixpoint ==
    \A p \in Proc : At(p, "release") /\ retry[p] # {} =>
        /\ exit[p] = 5
        /\ \A o \in retry[p] : live[o] = wsFile[p][o] \/ \E d \in Deps[o] : rowCs[d] = 0

\* docs/migration-flow.md: "re-running after fixing the failing script is safe", so
\* without DDL from outside no run finds a table blocked as live drift.
RerunNotBlocked ==
    \A p \in Proc : \A o \in Obj : scen[p][o] # "LiveStructuralDriftBlocked"

\* What runs that stopped can leave behind: without DDL from outside, an object only
\* ever differs from its recorded fingerprint by transitions that were applied and
\* recorded since, the first ones of a batch that stopped (apply_transitions).
DriftIsPartialBatch ==
    \A o \in Obj : Drift(o) =>
        LET now == Shape(live, eff, o)
        IN  /\ rowFp[o].ver = now.ver /\ rowFp[o].alters \subseteq now.alters
            /\ \A x \in now.alters \ rowFp[o].alters : migRow[x] # 0

\* ADR-0015: a changed table is either covered by a transition or blocked, so a
\* migrate that exits 0 has advanced every object to its scanned checksum.
SuccessMeansConverged ==
    \A p \in Proc : At(p, "release") /\ exit[p] = 0 /\ cmd[p] = "migrate" =>
        \A o \in Obj : rowCs[o] = wsFile[p][o]



\* The database and its history only move by the units of DeployLedger: what a
\* transaction holds, the lock, the sessions and the plans of the processes are
\* hidden, and every step of theirs is a unit or a stutter (apply_in_tx).
Ledger == INSTANCE DeployLedger WITH live <- live, eff <- eff, rowCs <- rowCs,
                                     rowFp <- rowFp, migRow <- migRow
LedgerSpec == Ledger!Spec

=============================================================================
