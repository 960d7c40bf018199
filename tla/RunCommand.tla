----------------------------- MODULE RunCommand -----------------------------
(***************************************************************************)
(* One invocation of rmig from its configuration to its exit code, for     *)
(* every database the repository declares (cli/main.rs, engine/run,        *)
(* config/ensure_db.rs, export/report.rs), with the files it reads and     *)
(* writes: the checkout, the transitions generated for blocked tables, and *)
(* the report directory. The run of one database is reduced to its plan    *)
(* and to what it leaves recorded; module Migrator has its steps. CI       *)
(* approves a plan and gates the next ones (gate/).                        *)
(***************************************************************************)
EXTENDS ChangeGate, RunConfig, Functions, FiniteSetsExt

CONSTANTS Runs,        \* invocations, each takes place at most once
          Nobody,      \* no invocation, no environment
          Commands,    \* subset of {"plan", "validate", "migrate"}
          Trees,       \* checkouts to start from
          Deployed,    \* versions the history may record at first, by database and id
          Existing,    \* sets of databases the server may have at first
          Unmanaged,   \* keys of objects that may be there without history, by database
          Environments,\* process environment, config.toml, whether it was named
          Addable,     \* tables whose change only adds columns
          GenName,     \* file name of a generated transition, by whether it is a draft
          Parent,      \* trigger path to the key of its table
          Faults,      \* subset of {"conn", "stmt", "report", "signal", "kill"}
          MaxEvents    \* bound on faults and edits of the checkout together

ASSUME RunAssumption == Nobody \notin Runs
ASSUME CommandAssumption == Commands \subseteq {"plan", "validate", "migrate"}
ASSUME FaultAssumption == Faults \subseteq {"conn", "stmt", "report", "signal", "kill"}
ASSUME EventAssumption == MaxEvents \in Nat
ASSUME EnvironmentAssumption ==
    \A e \in Environments : /\ {e.env.server, e.env.root, e.file.server, e.file.root} \subseteq Texts
                            /\ {e.env.adopt, e.file.adopt} \subseteq Switches

\* g, where f does not say otherwise.
Over(f, g) == [x \in DOMAIN f \cup DOMAIN g |-> IF x \in DOMAIN f THEN f[x] ELSE g[x]]

\* Exit codes (error.rs).
ExitGeneral == 1
ExitConfig  == 2
ExitConn    == 3
ExitSql     == 5
ExitLock    == 7
ExitInput   == 8
ExitBlocked == 10
ExitSignal  == 130

\* What a history row is about: the key of an object, the path of a transition.
Id(p) == IF IsObject(p) THEN KeyOf(p) ELSE p
Ids == {Id(p) : p \in {q \in Paths : IsObject(q) \/ IsTransition(q)}}

\* Databases as the server knows them.
Catalogs == {Lower[Database(p)] : p \in Paths}

ASSUME ServerAssumption == \A S \in Existing : S \subseteq Catalogs
ASSUME TreeAssumption == \A t \in Trees : Checkout(t)
ASSUME DeployedAssumption ==
    \A f \in Deployed :
        /\ f \in [Catalogs -> [Ids -> 0 .. MaxVersion]]
        /\ \A d \in Catalogs, i \in Ids :
              f[d][i] # 0 => \E p \in Paths : Id(p) = i /\ Lower[Database(p)] = d
ASSUME ParentAssumption == \A p \in Paths \cap DOMAIN Parent : p[3] = "triggers"
ASSUME GenNameAssumption == \A b \in BOOLEAN : GenName[b] \notin BadNames
ASSUME UnmanagedAssumption ==
    \A f \in Unmanaged :
        f \in [Catalogs -> SUBSET {KeyOf(p) : p \in {q \in Paths : IsObject(q)}}]

NoPlan == [some |-> FALSE, rows |-> <<>>, transitions |-> <<>>, blocked |-> FALSE]
NoFile == [by |-> Nobody, plan |-> NoPlan, seen |-> <<>>]

VARIABLES
    tree,      \* the checkout
    events,    \* faults and edits so far
    server,    \* databases that exist
    recorded,  \* version recorded for each id, by database; 0 for none
    unmanaged, \* objects that are there and have no history, by database
    holder,    \* invocation that holds the deployment lock of a database
    planFile,  \* .plan.json: who wrote it, its plan, the checkout it was made from
    report,    \* .report.json: the invocation and its exit code
    approved,  \* the plan file CI approved
    run        \* state of each invocation

dbState == <<server, recorded, unmanaged, holder>>
files   == <<planFile, report, approved>>
repo    == <<tree, events>>
vars    == <<repo, dbState, files, run>>

Running(r) == run[r].pc \notin {"new", "done", "killed"}
InRunCommand(r) == Running(r) /\ run[r].pc \notin {"plan_file", "report_file"}

\* The configuration an invocation runs with.
Cfg(r) == BuildConfig(run[r].env.env, run[r].env.file)

\* command_mutates
Mutates(r) == run[r].cmd = "migrate"

Multi(r) == Len(run[r].dbs) > 1
Current(r) == run[r].dbs[run[r].at]

Idle == [pc |-> "new", cmd |-> "none", env |-> Nobody, alone |-> TRUE, dbs |-> <<>>,
         at |-> 1, job |-> <<>>, seen |-> <<>>, ws |-> <<>>, plan |-> NoPlan, code |-> 0,
         missing |-> FALSE, done |-> {}, exit |-> 0, ok |-> FALSE, reported |-> FALSE]

\* A server that rmig has deployed before, or has never seen.
Init ==
    /\ tree \in Trees /\ events = 0
    /\ recorded \in Deployed
    /\ unmanaged \in Unmanaged
    /\ server \in Existing
    /\ \A d \in Catalogs \ server : unmanaged[d] = {} /\ \A i \in Ids : recorded[d][i] = 0
    /\ \A d \in Catalogs : \A k \in unmanaged[d] : recorded[d][k] = 0
    /\ holder = [d \in Catalogs |-> Nobody]
    /\ planFile = NoFile /\ approved = NoFile
    /\ report = [by |-> Nobody, exit |-> 0]
    /\ run = [r \in Runs |-> Idle]

\* One event from outside; Fault(f) is one of the faults.
Event == events < MaxEvents /\ events' = events + 1
Fault(f) == f \in Faults /\ Event

-----------------------------------------------------------------------------
(* Ends of an invocation. With an error there is no plan to report.        *)

Set(r, s) == run' = [run EXCEPT ![r] = s]
Goto(r, pc) == Set(r, [run[r] EXCEPT !.pc = pc])

\* The process ends; only its exit code and its reports remain.
End(r, pc, exit, reported) ==
    [Idle EXCEPT !.pc = pc, !.alone = run[r].alone, !.exit = exit, !.reported = reported]

\* main.rs after run_command: without a report directory there is nothing to write.
Return(r, code, ok) ==
    [run[r] EXCEPT !.pc = IF Cfg(r).report THEN "plan_file" ELSE "done", !.exit = code,
                   !.ok = ok, !.job = <<>>, !.plan = IF ok THEN @ ELSE NoPlan]

\* Mutant of Worst: the last database decides.
WorstLast(a, b) == IF a = b THEN a ELSE b

\* exit_code.max
Worst(a, b) == Max({a, b})

\* The run of one database failed: alone it ends the command, among several its
\* code is kept and the loop goes on.
DatabaseFails(r, code) ==
    IF Multi(r)
    THEN [run[r] EXCEPT !.pc = "next", !.at = @ + 1, !.job = <<>>, !.code = Worst(@, code)]
    ELSE Return(r, code, FALSE)

-----------------------------------------------------------------------------
(* Configuration and the databases of the repository.                      *)

\* main.rs up to run_command: what it refuses is not reported. With one database
\* directory the database is fixed here.
Configure(r, c, e) ==
    LET cfg == BuildConfig(e.env, e.file)
        bad == \/ LoadFails(e.file, e.named) \/ ~ValidateConfig(e.env, cfg)
               \/ Discovered(tree) = {}
        one == Cardinality(Discovered(tree)) = 1
    IN  /\ run[r].pc = "new"
        /\ run' = [x \in Runs |->
              IF x # r THEN [run[x] EXCEPT !.alone = @ /\ ~Running(x)]
              ELSE [run[r] EXCEPT !.cmd = c, !.env = e,
                       !.alone = \A q \in Runs : ~Running(q),
                       !.pc = IF bad THEN "done" ELSE "discover",
                       !.exit = IF bad THEN ExitConfig ELSE 0,
                       !.dbs = IF ~bad /\ one THEN DiscoverCatalogDatabases(tree) ELSE @]]
        /\ UNCHANGED <<repo, dbState, files>>

\* run_command: without a fixed database the directories are listed again.
Discover(r) ==
    LET dbs == IF run[r].dbs # <<>> THEN run[r].dbs ELSE DiscoverCatalogDatabases(tree)
    IN  /\ run[r].pc = "discover"
        /\ Set(r, IF dbs = <<>> THEN Return(r, ExitConfig, FALSE)
                  ELSE [run[r] EXCEPT !.pc = IF Mutates(r) THEN "ensure" ELSE "scan",
                                      !.dbs = dbs])
        /\ UNCHANGED <<repo, dbState, files>>

\* ensure_catalog_databases_exist: probe each database, create what is missing.
\* Another command may create it in between; the statement asks again.
Ensure(r) ==
    /\ run[r].pc = "ensure"
    /\ LET missing == {i \in DOMAIN run[r].dbs : Lower[run[r].dbs[i]] \notin server}
       IN  IF missing = {} THEN Goto(r, "scan") /\ UNCHANGED server
           ELSE /\ server' = server \cup {Lower[run[r].dbs[Min(missing)]]}
                /\ UNCHANGED run
    /\ UNCHANGED <<repo, recorded, unmanaged, holder, files>>

\* A probe, the connection to master or CREATE DATABASE fails.
EnsureFails(r) ==
    /\ run[r].pc = "ensure" /\ Fault("conn")
    /\ \E code \in {ExitConn, ExitSql} : Set(r, Return(r, code, FALSE))
    /\ UNCHANGED <<tree, dbState, files>>

\* populate: the workspace of all databases.
Scan(r) ==
    /\ run[r].pc = "scan"
    /\ IF ScanFails(tree) THEN Set(r, Return(r, ExitInput, FALSE))
       ELSE \E w \in ScanRoot(tree) :
               Set(r, [run[r] EXCEPT !.pc = "next", !.seen = tree, !.ws = w])
    /\ UNCHANGED <<repo, dbState, files>>

-----------------------------------------------------------------------------
(* The plan of one database.                                               *)

Exists(d, k) == recorded[d][k] # 0 \/ k \in unmanaged[d]

\* parent_ref_for_row, catalog_has_row and prior_digest_present.
ParentState(d, p) ==
    IF p \notin DOMAIN Parent THEN "unnamed"
    ELSE IF ~Exists(d, Parent[p]) THEN "missing"
    ELSE IF recorded[d][Parent[p]] = 0 THEN "unrecorded" ELSE "recorded"

\* decide_object_at for a row and its transitions; drift is left to Migrator.
ScenarioOf(r, d, p, scripts) ==
    ResolvePlanScenario(
        [exists |-> Exists(d, KeyOf(p)), prior |-> recorded[d][KeyOf(p)], drift |-> FALSE,
         kind |-> p[3], checksum |-> run[r].seen[p].ver,
         hasTransitions |-> scripts # {}, parent |-> ParentState(d, p)])

\* Mutant of Decide: every database gets the rows of all.
DecideAll(r) ==
    LET d == Lower[Current(r)]
    IN  [p \in DOMAIN run[r].ws |->
            [scripts |-> run[r].ws[p], scen |-> ScenarioOf(r, d, p, run[r].ws[p]),
             exists |-> Exists(d, KeyOf(p))]]

\* plan_phase on the rows of the current database.
Decide(r) ==
    LET d   == Lower[Current(r)]
        own == ForCatalogDatabase(run[r].seen, run[r].ws, Current(r))
    IN  [p \in DOMAIN own |->
            [scripts |-> own[p], scen |-> ScenarioOf(r, d, p, own[p]),
             exists |-> Exists(d, KeyOf(p))]]

IsBlocked(job) == \E p \in DOMAIN job : job[p].scen \in BlockedScenarios

\* fill_plan_row: the transitions row p carries.
Planned(job, p) == IF job[p].scen = "TableReprocess" THEN job[p].scripts ELSE {}

\* compute_diff: the rows in the order of the workspace, and the transitions of
\* each that are not in gone.
PlanOf(r, job, gone) ==
    LET paths == SetToSeq(DOMAIN job)
        left  == [p \in DOMAIN job |-> Planned(job, p) \ gone]
    IN  [some |-> TRUE, blocked |-> IsBlocked(job),
         rows |-> [i \in DOMAIN paths |->
                     [db |-> Current(r), path |-> paths[i],
                      action |-> ActionOf(job[paths[i]].scen),
                      ver |-> run[r].seen[paths[i]].ver, exists |-> job[paths[i]].exists]],
         transitions |-> [i \in {k \in DOMAIN paths : left[paths[k]] # {}} |-> left[paths[i]]]]

\* Mutant of MergePlan: the transitions keep their row numbers.
MergePlanUnshifted(a, b) ==
    IF ~a.some THEN b
    ELSE [some |-> TRUE, rows |-> a.rows \o b.rows, blocked |-> a.blocked \/ b.blocked,
          transitions |-> Over(b.transitions, a.transitions)]

\* merge_plan, merge_plan_into
MergePlan(a, b) ==
    IF ~a.some THEN b
    ELSE LET n == Len(a.rows)
         IN  [some |-> TRUE, rows |-> a.rows \o b.rows, blocked |-> a.blocked \/ b.blocked,
              transitions |->
                  Over(a.transitions, [i \in {n + j : j \in DOMAIN b.transitions} |->
                                         b.transitions[i - n]])]

\* A database was planned, or planned and applied.
DatabaseDone(r, code, plan) ==
    [run[r] EXCEPT !.pc = "next", !.at = @ + 1, !.code = Worst(@, code), !.job = <<>>,
                   !.plan = MergePlan(@, plan),
                   !.done = @ \cup (IF code = 0 THEN {Current(r)} ELSE {})]

-----------------------------------------------------------------------------
(* The loop over the databases.                                            *)

AtDb(r) == run[r].pc = "next" /\ run[r].at <= Len(run[r].dbs)
Empty(r) == Multi(r) /\ DOMAIN ForCatalogDatabase(run[r].seen, run[r].ws, Current(r)) = {}

\* A directory without objects is passed over. A read-only command remembers a
\* database that is not there; alone, its connection is refused.
SkipDb(r) ==
    /\ AtDb(r)
    /\ \/ Empty(r) /\ Set(r, [run[r] EXCEPT !.at = @ + 1])
       \/ /\ ~Empty(r) /\ Lower[Current(r)] \notin server
          /\ Set(r, IF Multi(r) /\ ~Mutates(r)
                    THEN [run[r] EXCEPT !.at = @ + 1, !.missing = TRUE]
                    ELSE DatabaseFails(r, ExitConn))
    /\ UNCHANGED <<repo, dbState, files>>

Reachable(r) == AtDb(r) /\ Lower[Current(r)] \in server /\ ~Empty(r)

\* target_database_exists or connect fails: the error of the probe ends the command,
\* even among several databases.
ConnectFails(r) ==
    /\ Reachable(r) /\ Fault("conn")
    /\ \/ Multi(r) /\ ~Mutates(r) /\ Set(r, Return(r, ExitConn, FALSE))
       \/ Set(r, DatabaseFails(r, ExitConn))
    /\ UNCHANGED <<tree, dbState, files>>

\* run_command_for_database of plan and validate, without the lock.
Inspect(r) ==
    /\ Reachable(r) /\ ~Mutates(r)
    /\ LET job == Decide(r)
           code == IF run[r].cmd = "validate" /\ IsBlocked(job) THEN ExitBlocked ELSE 0
       IN  Set(r, DatabaseDone(r, code, PlanOf(r, job, {})))
    /\ UNCHANGED <<repo, dbState, files>>

\* lock::acquire, and the plan made under the lock.
Lock(r) ==
    /\ Reachable(r) /\ Mutates(r) /\ holder[Lower[Current(r)]] = Nobody
    /\ holder' = [holder EXCEPT ![Lower[Current(r)]] = r]
    /\ Set(r, [run[r] EXCEPT !.pc = "body", !.job = Decide(r)])
    /\ UNCHANGED <<repo, server, recorded, unmanaged, files>>

\* The wait ends without the lock: sp_getapplock gives up, or the command timeout
\* of the connection cuts it off before. Zero means no command timeout.
LockFails(r) ==
    LET cfg == Cfg(r)
        codes == (IF cfg.command = 0 \/ cfg.lock <= cfg.command THEN {ExitLock} ELSE {})
                 \cup (IF cfg.command # 0 /\ cfg.command <= cfg.lock THEN {ExitSql} ELSE {})
    IN  /\ Reachable(r) /\ Mutates(r) /\ holder[Lower[Current(r)]] \notin {Nobody, r}
        /\ \E code \in codes : Set(r, DatabaseFails(r, code))
        /\ UNCHANGED <<repo, dbState, files>>

\* Every database was visited; a missing one is an error and drops the plan.
Finish(r) ==
    /\ run[r].pc = "next" /\ run[r].at > Len(run[r].dbs)
    /\ Set(r, IF run[r].missing THEN Return(r, ExitConfig, FALSE)
              ELSE Return(r, run[r].code, TRUE))
    /\ UNCHANGED <<repo, dbState, files>>

-----------------------------------------------------------------------------
(* The locked body of a migrate.                                           *)

InBody(r) == run[r].pc = "body"
Job(r) == run[r].job

\* Mutant of Release: the lock stays with the session.
ReleaseKept(r) == InBody(r) /\ UNCHANGED holder

\* release_after_body
Release(r) == holder' = [holder EXCEPT ![Lower[Current(r)]] = Nobody]

\* migration_dir of row p of database d, from its lower-case names.
MigrationDir(d, p) == <<d, Lower[p[2]], "tables", "_migrations", Lower[p[4]]>>

\* A checkout may contain the transition of each of its tables and triggers.
ASSUME GenAssumption ==
    \A p, q \in Paths, b \in BOOLEAN :
        /\ IsObject(p) /\ p[3] \in {"tables", "triggers"}
        /\ {p[1], p[2], p[4]} \cap BadNames = {}
        /\ SameDatabase(Database(p), Database(q)) /\ Database(q) \notin Hidden
        => Append(MigrationDir(Database(q), p), GenName[b]) \in Paths

\* Mutant of HasNonScaffoldSql: only scripts rmig generated are looked at.
HasNonScaffoldSqlGenerated(t, dir) == Append(dir, GenName[FALSE]) \in DOMAIN t

\* has_non_scaffold_sql
HasNonScaffoldSql(t, dir) ==
    \E q \in DOMAIN t : Front(q) = dir /\ ~t[q].draft

\* pick_content: a transition that adds columns, or a draft.
PickDraft(t, p, dir) ==
    \/ p \notin DOMAIN t \/ p \notin Addable
    \/ Append(dir, GenName[FALSE]) \in DOMAIN t

\* scaffold::ensure: one file for each blocked row that has none of its own. It
\* reads the checkout as it is now, not as it was scanned.
Scaffold(r) ==
    LET dir(p) == MigrationDir(Current(r), p)
        rows == {p \in DOMAIN Job(r) :
                    /\ ActionOf(Job(r)[p].scen) = "ReprocessChangedBlocked"
                    /\ ~HasNonScaffoldSql(tree, dir(p))}
        new == {Append(dir(p), GenName[PickDraft(tree, p, dir(p))]) : p \in rows}
    IN  Over(tree, [q \in new |-> [ver |-> 1, draft |-> Last(q) = GenName[TRUE]]])

\* handle_blocked_migrate: exit code 10 with the plan, and the generated files.
MigrateBlocked(r) ==
    /\ InBody(r) /\ IsBlocked(Job(r))
    /\ tree' = Scaffold(r)
    /\ Release(r) /\ Set(r, DatabaseDone(r, ExitBlocked, PlanOf(r, Job(r), {})))
    /\ UNCHANGED <<events, server, recorded, unmanaged, files>>

Adopts(r) == \E p \in DOMAIN Job(r) : Job(r)[p].scen = "Adopt"

\* applied_unchanged: planned transitions with a row, and those whose row differs.
AppliedBefore(r) ==
    {q \in UNION {Planned(Job(r), p) : p \in DOMAIN Job(r)} :
        recorded[Lower[Current(r)]][q] # 0}
Tampered(r) ==
    \E q \in AppliedBefore(r) : recorded[Lower[Current(r)]][q] # run[r].seen[q].ver

\* ensure_adopt_allowed refuses, or filter_applied finds a changed script.
MigrateRefused(r) ==
    /\ InBody(r) /\ ~IsBlocked(Job(r))
    /\ \/ /\ Adopts(r) /\ ~Cfg(r).adopt
          /\ Set(r, DatabaseDone(r, ExitBlocked, PlanOf(r, Job(r), {})))
       \/ /\ Adopts(r) => Cfg(r).adopt
          /\ Tampered(r)
          /\ Set(r, DatabaseFails(r, ExitInput))
    /\ Release(r)
    /\ UNCHANGED <<repo, server, recorded, unmanaged, files>>

\* The scripts a row still has to run or to record; a created table records all.
Scripts(r, p) ==
    IF Job(r)[p].scen = "Create" THEN Job(r)[p].scripts
    ELSE Planned(Job(r), p) \ AppliedBefore(r)

\* What execute_plan has to do: rows to create, re-emit or adopt, and changed
\* tables that still have a transition to run.
Work(r) ==
    {p \in DOMAIN Job(r) :
        \/ ActionOf(Job(r)[p].scen) \in {"CreateObject", "UpdateExistingModule", "AdoptExisting"}
        \/ Planned(Job(r), p) \ AppliedBefore(r) # {}}

\* The rows in S are applied.
Record(r, S) ==
    LET d   == Lower[Current(r)]
        all == S \cup UNION {Scripts(r, p) : p \in S}
        new == [i \in {Id(p) : p \in all} |-> run[r].seen[CHOOSE p \in all : Id(p) = i].ver]
    IN  /\ recorded' = [recorded EXCEPT ![d] = Over(new, @)]
        /\ unmanaged' = [unmanaged EXCEPT ![d] = @ \ DOMAIN new]

Applying(r) ==
    InBody(r) /\ ~IsBlocked(Job(r)) /\ (Adopts(r) => Cfg(r).adopt) /\ ~Tampered(r)

\* execute_plan runs everything.
Migrate(r) ==
    /\ Applying(r)
    /\ Record(r, Work(r)) /\ Release(r)
    /\ Set(r, DatabaseDone(r, 0, PlanOf(r, Job(r), AppliedBefore(r))))
    /\ UNCHANGED <<repo, server, files>>

\* The rows that may be done when the work stops: a trigger needs its table.
Halves(r) ==
    {S \in SUBSET Work(r) : \A p \in S \cap DOMAIN Parent :
        Exists(Lower[Current(r)], Parent[p]) \/ Parent[p] \in {KeyOf(q) : q \in S}}

\* A statement fails: what was committed stays (which scripts, see Migrator).
MigrateFails(r) ==
    /\ Applying(r) /\ Fault("stmt") /\ Work(r) # {}
    /\ \E S \in Halves(r) \ {Work(r)} : Record(r, S)
    /\ Release(r) /\ Set(r, DatabaseFails(r, ExitSql))
    /\ UNCHANGED <<tree, server, files>>

-----------------------------------------------------------------------------
(* Reports, signals and crashes.                                           *)

\* Mutant of WritePlan: a run without a plan leaves the file alone.
WritePlanKeeps(r) ==
    /\ run[r].pc = "plan_file"
    /\ planFile' = IF run[r].plan.some
                   THEN [by |-> r, plan |-> run[r].plan, seen |-> run[r].seen] ELSE planFile
    /\ Goto(r, "report_file")
    /\ UNCHANGED <<repo, dbState, report, approved>>

\* write_reports, first half: without a plan the old one is removed.
WritePlan(r) ==
    /\ run[r].pc = "plan_file"
    /\ planFile' = IF run[r].plan.some
                   THEN [by |-> r, plan |-> run[r].plan, seen |-> run[r].seen] ELSE NoFile
    /\ Goto(r, "report_file")
    /\ UNCHANGED <<repo, dbState, report, approved>>

\* write_reports, second half.
WriteReport(r) ==
    /\ run[r].pc = "report_file"
    /\ report' = [by |-> r, exit |-> run[r].exit]
    /\ Set(r, End(r, "done", run[r].exit, TRUE))
    /\ UNCHANGED <<repo, dbState, planFile, approved>>

\* A file cannot be written: a command that went well then fails, one that failed
\* keeps its code.
ReportFails(r) ==
    /\ run[r].pc \in {"plan_file", "report_file"} /\ Fault("report")
    /\ Set(r, End(r, "done", IF run[r].ok THEN ExitGeneral ELSE run[r].exit, FALSE))
    /\ UNCHANGED <<tree, dbState, files>>

\* The server ends the session of a process that goes away: the lock is free, and
\* what was committed stays.
Abandon(r) ==
    /\ holder' = [d \in Catalogs |-> IF holder[d] = r THEN Nobody ELSE holder[d]]
    /\ IF Applying(r) THEN \E S \in Halves(r) : Record(r, S)
       ELSE UNCHANGED <<recorded, unmanaged>>

\* main.rs: a signal drops the run; the code is 130 and there is no plan.
Signal(r) ==
    /\ Fault("signal") /\ InRunCommand(r)
    /\ Abandon(r) /\ Set(r, Return(r, ExitSignal, FALSE))
    /\ UNCHANGED <<tree, server, files>>

Kill(r) ==
    /\ Fault("kill") /\ Running(r)
    /\ Abandon(r) /\ Set(r, End(r, "killed", run[r].exit, FALSE))
    /\ UNCHANGED <<tree, server, files>>

-----------------------------------------------------------------------------
(* The team: edits of the checkout, approval of a plan.                    *)

Edit(t) ==
    /\ Event /\ tree' = t
    /\ UNCHANGED <<dbState, files, run>>

ChangeFile(p) ==
    /\ p \in DOMAIN tree /\ tree[p].ver < MaxVersion
    /\ Edit([tree EXCEPT ![p] = [ver |-> @.ver + 1, draft |-> FALSE]])
AddFile(p) == p \notin DOMAIN tree /\ Edit(Over(tree, [q \in {p} |-> [ver |-> 1, draft |-> FALSE]]))
RemoveFile(p) == p \in DOMAIN tree /\ Edit(Restrict(tree, DOMAIN tree \ {p}))

\* CI approves a plan between two invocations.
Approve ==
    /\ planFile.by # Nobody /\ approved.by = Nobody
    /\ \A r \in Runs : ~Running(r)
    /\ approved' = planFile
    /\ UNCHANGED <<repo, dbState, planFile, report, run>>

Next ==
    \/ \E r \in Runs :
          \/ \E c \in Commands, e \in Environments : Configure(r, c, e)
          \/ Discover(r) \/ Ensure(r) \/ EnsureFails(r) \/ Scan(r)
          \/ SkipDb(r) \/ ConnectFails(r) \/ Inspect(r) \/ Lock(r) \/ LockFails(r)
          \/ Finish(r) \/ MigrateBlocked(r) \/ MigrateRefused(r) \/ Migrate(r)
          \/ MigrateFails(r) \/ WritePlan(r) \/ WriteReport(r) \/ ReportFails(r)
          \/ Signal(r) \/ Kill(r)
    \/ \E p \in Paths : ChangeFile(p) \/ AddFile(p) \/ RemoveFile(p)
    \/ Approve

Spec == Init /\ [][Next]_vars

=============================================================================
