----------------------------- MODULE PlanInspect -----------------------------
(***************************************************************************)
(* How a plan learns the state of the database: the audit history with its *)
(* drift flags (sql/audit/load_checksums_header.sql, the DDL trigger of    *)
(* bootstrap_drift.sql), the live catalog, and the caches in between: the  *)
(* catalog_cache table, the process-local inspect cache and the            *)
(* history-empty probe (db/plan_common, db/catalog_*.rs, audit/load).      *)
(* Read-only plans run without the lock and may be served by the caches;   *)
(* a locked migrate must see the live database. Applying is reduced to     *)
(* what it writes (module Migrator has its steps). An empty workspace,     *)
(* which alone may use the L1 file, plans nothing and is left out.         *)
(***************************************************************************)
EXTENDS PlanScenario, FiniteSets

CONSTANTS Object,       \* normalized object keys
          Module,       \* the objects of a module kind; the others are tables
          Layouts,      \* sets of objects a checkout may contain
          MaxVersion,   \* number of definitions an object may have
          Planners,     \* processes that run read-only commands
          Migrators,    \* processes that run migrate
          NoProc,       \* nobody
          Modes,        \* answers of resolve_changed_paths, see GitModes
          CatalogCache, \* cfg.catalog_cache
          SpotCheck,    \* RMIG_CATALOG_SPOTCHECK
          Reuse,        \* TRUE: a process runs several commands
          OutOfBand,    \* TRUE: others run DDL on the managed objects
          MaxDdl        \* bound on the DDL statements of a behaviour

\* "full": inspect_full, skip_git or a full_inspect answer; "delta": some
\* changed paths; "clean": none, from git-head or git-merge-base; "listed":
\* none, from an explicit base or a CI diff.
GitModes == {"full", "delta", "clean", "listed"}

Versions == 1 .. MaxVersion

Proc == Planners \cup Migrators

ASSUME ObjectAssumption == IsFiniteSet(Object) /\ Module \subseteq Object
ASSUME LayoutAssumption == Layouts \subseteq SUBSET Object \ {{}}
ASSUME ProcAssumption == NoProc \notin Proc
ASSUME BoundAssumption == MaxVersion \in Nat /\ MaxDdl \in Nat /\ SpotCheck \in Nat
ASSUME ModeAssumption == Modes \subseteq GitModes
ASSUME SwitchAssumption == {CatalogCache, Reuse, OutOfBand} \subseteq BOOLEAN

\* The repository checkouts a command may find: some objects, each with the
\* version (and so the checksum) of its file.
Workspaces == UNION {[L -> Versions] : L \in Layouts}

NoWorkspace == [o \in {} |-> 0]

VARIABLES
    live,     \* definition of each object in the database, 0 when absent
    ddl,      \* azdo_deploy_meta.object_ddl: version per object, 0 without a row
    seq,      \* azdo_deploy_meta.ddl_seq
    watch,    \* the DDL trigger: "absent", "enabled" or "disabled"
    tables,   \* the audit tables exist
    hist,     \* latest applied/adopted history row per object
    cache,    \* catalog_cache rows and the layout of catalog_meta
    holder,   \* holder of the deployment lock
    pc,       \* step of each process
    cmd,      \* its command, git answer and changed objects
    ws,       \* its workspace
    ensured,  \* process-local ENSURED_DBS
    probe,    \* process-local HISTORY_EMPTY: "unknown", "empty" or "nonempty"
    inspect,  \* process-local INSPECT_CACHE: set of [key, cat]
    need,     \* need_catalog: no strict cache hit
    partial,  \* partial_cache of the git-delta body
    prior,    \* checksums loaded from history, 0 for none
    drift,    \* live_definition_drift flags loaded with them
    hot,      \* hot_keys of the inspect scope
    cat,      \* objects in the plan's CatalogState
    todo,     \* objects the plan still has to apply
    wrote,    \* some object was applied
    quiet,    \* ghost: nobody else changed the database since the command began
    settled,  \* ghost: workspace of the last complete migrate, until a change
    unseen    \* ghost: objects whose last change since their row got no version

database == <<live, ddl, seq, watch, tables, hist>>
process == <<ensured, probe, inspect>>
reading == <<cmd, ws, need, partial, prior, drift, hot>>
applying == <<todo, wrote, settled>>
vars == <<database, cache, holder, pc, process, reading, cat, applying, quiet, unseen>>

NoRow == [sum |-> 0, fp |-> 0, ver |-> 0]
NoCache == [rows |-> {}, layout |-> {}]
NoCommand == [name |-> "plan", mode |-> "clean", delta |-> {}]
None == [o \in Object |-> 0]
NoDrift == [o \in Object |-> FALSE]

Layout(p) == DOMAIN ws[p]
Bypass(p) == cmd[p].name = "migrate"
Full(p) == cmd[p].mode = "full"
GitDelta(p) == cmd[p].mode = "delta" /\ ~Bypass(p)

Init ==
    /\ live \in [Object -> 0 .. MaxVersion]
    /\ ddl = None /\ seq = 0 /\ watch = "absent" /\ tables = FALSE
    /\ hist = [o \in Object |-> NoRow] /\ cache = NoCache /\ holder = NoProc
    /\ pc = [p \in Proc |-> "idle"] /\ cmd = [p \in Proc |-> NoCommand]
    /\ ws = [p \in Proc |-> NoWorkspace]
    /\ ensured = [p \in Proc |-> FALSE] /\ probe = [p \in Proc |-> "unknown"]
    /\ inspect = [p \in Proc |-> {}] /\ need = [p \in Proc |-> FALSE]
    /\ partial = [p \in Proc |-> FALSE] /\ prior = [p \in Proc |-> None]
    /\ drift = [p \in Proc |-> NoDrift] /\ hot = [p \in Proc |-> {}]
    /\ cat = [p \in Proc |-> {}] /\ todo = [p \in Proc |-> {}]
    /\ wrote = [p \in Proc |-> FALSE] /\ quiet = [p \in Proc |-> FALSE]
    /\ settled = NoWorkspace /\ unseen = {}

-----------------------------------------------------------------------------
(* What the SQL of the plan phase reads.                                   *)

\* is_suspect: the trigger cannot be trusted, no version was recorded, or the
\* object was touched since.
Suspect(o) == \/ watch # "enabled"
              \/ hist[o].ver = 0
              \/ ddl[o] > hist[o].ver

\* Mutant of Drifted: an object without a live fingerprint is not compared.
DriftedSkipsDropped(o) == /\ hist[o].sum # 0
                          /\ \/ hist[o].fp = 0
                             \/ Suspect(o) /\ live[o] # 0 /\ live[o] # hist[o].fp

\* live_definition_drift, in the order of its CASE. A dropped object has no
\* live fingerprint, which counts as drift.
Drifted(o) == /\ hist[o].sum # 0
              /\ \/ hist[o].fp = 0
                 \/ Suspect(o) /\ (live[o] = 0 \/ live[o] # hist[o].fp)

HistoryEmpty == \A o \in Object : hist[o].sum = 0

Present == {o \in Object : live[o] # 0}

\* catalog_cache_load.sql and the checks of try_load; {} is a miss.
StrictLoad(layout) ==
    IF cache.layout = layout /\ Cardinality(cache.rows) = Cardinality(layout)
      THEN cache.rows ELSE {}

\* catalog_cache_load_relaxed.sql: only the object count must match.
RelaxedLoad(layout) ==
    IF Cardinality(cache.layout) = Cardinality(layout) THEN cache.rows ELSE {}

-----------------------------------------------------------------------------
(* prepare_execute                                                         *)

\* try_cache: no modules, not a mutating command, the tables exist, and an
\* empty change list that does not come from a clean git tree.
TryCache(c, layout) ==
    /\ layout \cap Module = {} /\ c.name # "migrate"
    /\ CatalogCache /\ tables /\ c.mode = "listed"

\* lock::acquire for a mutating command, then prepare_execute: the history
\* probe is dropped for mutating commands, sync_tables_ensured, the git answer (a
\* mutating command only looks at its full_inspect) and the strict cache load.
Prepare(p) ==
    /\ pc[p] = "idle"
    /\ \E mode \in Modes, w \in Workspaces, name \in {"plan", "migrate"} :
       \E delta \in IF mode = "delta" THEN SUBSET DOMAIN w ELSE {{}} :
          LET c == IF name = "plan" \/ mode = "full"
                     THEN [name |-> name, mode |-> mode, delta |-> delta]
                     ELSE [name |-> name, mode |-> "clean", delta |-> {}]
              hit == IF TryCache(c, DOMAIN w) THEN StrictLoad(DOMAIN w) ELSE {}
          IN  /\ p \in IF name = "plan" THEN Planners ELSE Migrators
              /\ IF name = "migrate"
                   THEN holder = NoProc /\ holder' = p
                   ELSE UNCHANGED holder
              /\ cmd' = [cmd EXCEPT ![p] = c]
              /\ ws' = [ws EXCEPT ![p] = w]
              /\ cat' = [cat EXCEPT ![p] = hit]
              /\ need' = [need EXCEPT ![p] = (hit = {})]
              /\ pc' = [pc EXCEPT ![p] = IF name = "migrate" THEN "bootstrap"
                                                             ELSE "checksums"]
              /\ probe' = IF name = "migrate" \/ (ensured[p] /\ ~tables)
                            THEN [probe EXCEPT ![p] = "unknown"]
                            ELSE probe
    /\ ensured' = [ensured EXCEPT ![p] = tables]
    /\ quiet' = [quiet EXCEPT ![p] = TRUE]
    /\ UNCHANGED <<database, cache, inspect, partial, prior, drift, hot, applying,
                   unseen>>

\* ensure_tables: the audit tables, and the DDL trigger when there is none and
\* the principal may create it.
Bootstrap(p) ==
    /\ pc[p] = "bootstrap"
    /\ tables' = TRUE
    /\ \/ watch' = watch
       \/ watch = "absent" /\ watch' = "enabled"
    /\ ensured' = [ensured EXCEPT ![p] = TRUE]
    /\ pc' = [pc EXCEPT ![p] = "checksums"]
    /\ UNCHANGED <<live, ddl, seq, hist, cache, holder, probe, inspect, reading,
                   cat, applying, quiet, unseen>>

-----------------------------------------------------------------------------
(* The body of the plan phase                                              *)

\* load_checksums_plan: a cached or fresh answer that the history is empty
\* stands for "no checksum"; otherwise LOAD_CHECKSUMS. A fresh answer that it
\* is not empty drops the inspect cache.
LoadChecksums(p) ==
    LET fresh == probe[p] = "unknown"
        empty == IF fresh THEN ~tables \/ HistoryEmpty ELSE probe[p] = "empty"
    IN  /\ pc[p] = "checksums"
        /\ prior' = [prior EXCEPT ![p] = [o \in Object |->
                       IF empty \/ o \notin Layout(p) THEN 0 ELSE hist[o].sum]]
        /\ drift' = [drift EXCEPT ![p] = [o \in Object |->
                       ~empty /\ o \in Layout(p) /\ Drifted(o)]]
        /\ probe' = IF fresh
                      THEN [probe EXCEPT ![p] = IF empty THEN "empty" ELSE "nonempty"]
                      ELSE probe
        /\ inspect' = IF fresh /\ ~empty THEN [inspect EXCEPT ![p] = {}] ELSE inspect
        /\ ensured' = IF fresh /\ tables THEN [ensured EXCEPT ![p] = TRUE] ELSE ensured
        /\ pc' = [pc EXCEPT ![p] = IF GitDelta(p) THEN "warmup" ELSE "inspect"]
        /\ UNCHANGED <<database, cache, holder, cmd, ws, need, partial, hot, cat,
                       applying, quiet, unseen>>

\* warmup_git_delta: the relaxed load is kept when it has as many objects as
\* the workspace.
Warmup(p) ==
    LET loaded == IF CatalogCache /\ ensured[p] THEN RelaxedLoad(Layout(p)) ELSE {}
        whole == Cardinality(loaded) = Cardinality(Layout(p))
    IN  /\ pc[p] = "warmup"
        /\ cat' = [cat EXCEPT ![p] = IF whole THEN loaded ELSE {}]
        /\ partial' = [partial EXCEPT ![p] = whole]
        /\ pc' = [pc EXCEPT ![p] = "inspect"]
        /\ UNCHANGED <<database, cache, holder, process, cmd, ws, need, prior,
                       drift, hot, applying, quiet, unseen>>

\* build_inspect_scope before the spot check: everything for a full or a
\* mutating command, else modules, changed objects and objects whose file is
\* not the recorded one.
MustInspect(p) ==
    IF Full(p) \/ Bypass(p) THEN Layout(p)
    ELSE {o \in Layout(p) : o \in Module \/ o \in cmd[p].delta \/ prior[p][o] # ws[p][o]}

\* promote_spot_check_keys: the first SpotCheck stable keys in the order of a
\* hash; which ones they are is left open.
Promoted(stable) ==
    {S \in SUBSET stable :
        Cardinality(S) = IF Cardinality(stable) < SpotCheck
                           THEN Cardinality(stable) ELSE SpotCheck}

\* cache_key of the inspect cache; a full scope is serialised differently.
ScopeKey(p, keys) == <<Full(p) \/ Bypass(p), Layout(p), keys>>

\* Mutant of Cached: a mutating command reads the inspect cache too.
CachedForAll(p, key) == {e \in inspect[p] : e.key = key}

\* try_get_unless_bypassed: the cached catalogs for a key (at most one).
Cached(p, key) ==
    IF Bypass(p) THEN {} ELSE {e \in inspect[p] : e.key = key}

\* What the catalog SQL returns merged into the objects already loaded:
\* load_full_catalog and load_incremental_catalog start from nothing,
\* query_partial_cache adds to the relaxed load, query_delta_paths asks only
\* for the changed objects. Merging never removes an object.
Queried(p, keys) ==
    IF GitDelta(p) /\ ~partial[p] THEN Present \cap cmd[p].delta
    ELSE cat[p] \cup (Present \cap keys)

\* store_inspect_cache: an empty full catalog is not stored; the other queries
\* always bring schema rows.
Stores(p, found) == ~Full(p) \/ found # {}

\* run_standard_body and query_git_delta_catalog from the scope on.
Inspect(p) ==
    /\ pc[p] = "inspect"
    /\ IF ~need[p]
         THEN UNCHANGED <<cat, hot, inspect>>
         ELSE \E S \in Promoted(Layout(p) \ MustInspect(p)) :
                LET keys == MustInspect(p) \cup S
                    key == ScopeKey(p, keys)
                    hits == Cached(p, key)
                    found == IF keys = {} THEN cat[p]
                             ELSE IF hits # {} THEN (CHOOSE e \in hits : TRUE).cat
                             ELSE Queried(p, keys)
                IN  /\ hot' = [hot EXCEPT ![p] = keys]
                    /\ cat' = [cat EXCEPT ![p] = found \cup (Layout(p) \ keys)]
                    /\ inspect' = IF keys = {} \/ hits # {} \/ ~Stores(p, found)
                                    THEN inspect
                                    ELSE [inspect EXCEPT ![p] =
                                            {e \in @ : e.key # key}
                                              \cup {[key |-> key, cat |-> found]}]
    /\ pc' = [pc EXCEPT ![p] = "save"]
    /\ UNCHANGED <<database, cache, holder, ensured, probe, cmd, ws, need, partial,
                   prior, drift, applying, quiet, unseen>>

\* decide_object_at for every object of the workspace.
Scenario(p, o) ==
    ResolvePlanScenario([exists |-> o \in cat[p], prior |-> prior[p][o],
                         drift |-> drift[p][o], checksum |-> ws[p][o],
                         kind |-> IF o \in Module THEN "procedures" ELSE "tables",
                         hasTransitions |-> TRUE, parent |-> "unnamed"])

\* save_batched: one transaction, only when the catalog holds the whole
\* workspace; a missing table is ignored.
SaveBatched(layout, objects) ==
    cache' = IF CatalogCache /\ tables /\ layout \subseteq objects
               THEN [rows |-> layout, layout |-> layout] ELSE cache

\* The end of execute: the catalog is saved unless it came from the cache, and a
\* failing save is only a warning. compute_diff follows.
Save(p) ==
    /\ pc[p] = "save"
    /\ \/ (need[p] \/ GitDelta(p)) /\ SaveBatched(Layout(p), cat[p])
       \/ UNCHANGED cache
    /\ pc' = [pc EXCEPT ![p] = "planned"]
    /\ UNCHANGED <<database, holder, process, reading, cat, applying, quiet, unseen>>

-----------------------------------------------------------------------------
(* After the plan                                                          *)

\* Mutant of Leave: the lock outlives the command.
LeaveLocked(p) ==
    /\ pc' = [pc EXCEPT ![p] = "idle"]
    /\ cmd' = [cmd EXCEPT ![p] = NoCommand] /\ ws' = [ws EXCEPT ![p] = NoWorkspace]
    /\ need' = [need EXCEPT ![p] = FALSE] /\ partial' = [partial EXCEPT ![p] = FALSE]
    /\ prior' = [prior EXCEPT ![p] = None] /\ drift' = [drift EXCEPT ![p] = NoDrift]
    /\ hot' = [hot EXCEPT ![p] = {}] /\ cat' = [cat EXCEPT ![p] = {}]
    /\ todo' = [todo EXCEPT ![p] = {}] /\ wrote' = [wrote EXCEPT ![p] = FALSE]
    /\ quiet' = [quiet EXCEPT ![p] = FALSE]
    /\ UNCHANGED <<database, cache, settled, unseen, holder>>

\* The command is over: its plan is dropped and its lock released.
Leave(p) ==
    /\ pc' = [pc EXCEPT ![p] = "idle"]
    /\ holder' = IF holder = p THEN NoProc ELSE holder
    /\ cmd' = [cmd EXCEPT ![p] = NoCommand] /\ ws' = [ws EXCEPT ![p] = NoWorkspace]
    /\ need' = [need EXCEPT ![p] = FALSE] /\ partial' = [partial EXCEPT ![p] = FALSE]
    /\ prior' = [prior EXCEPT ![p] = None] /\ drift' = [drift EXCEPT ![p] = NoDrift]
    /\ hot' = [hot EXCEPT ![p] = {}] /\ cat' = [cat EXCEPT ![p] = {}]
    /\ todo' = [todo EXCEPT ![p] = {}] /\ wrote' = [wrote EXCEPT ![p] = FALSE]
    /\ quiet' = [quiet EXCEPT ![p] = FALSE]
    /\ UNCHANGED <<database, cache, settled, unseen>>

\* The process ends, and its local caches with it.
Forget(p) ==
    /\ ensured' = [ensured EXCEPT ![p] = FALSE]
    /\ probe' = [probe EXCEPT ![p] = "unknown"]
    /\ inspect' = [inspect EXCEPT ![p] = {}]

\* The command line runs one command per process, a program using the engine
\* may run several.
EndProcess(p) == IF Reuse THEN UNCHANGED process ELSE Forget(p)

\* A read-only command, and a migrate whose plan is blocked, end here.
Blocked(p) == \E o \in Layout(p) : Scenario(p, o) \in BlockedScenarios

Report(p) ==
    /\ pc[p] = "planned" /\ (~Bypass(p) \/ Blocked(p))
    /\ Leave(p) /\ EndProcess(p)

\* filter_applied takes the applied transitions out of the plan: any of the tables to
\* reprocess may be left with nothing to run.
FilterApplied(p) == SUBSET {o \in Layout(p) : Scenario(p, o) = "TableReprocess"}

\* apply_plan; a table without transitions to run is skipped.
BeginApply(p) ==
    /\ pc[p] = "planned" /\ Bypass(p) /\ ~Blocked(p)
    /\ \E covered \in FilterApplied(p) :
          todo' = [todo EXCEPT ![p] =
                     {o \in Layout(p) : Scenario(p, o) # "SkipUnchanged"} \ covered]
    /\ pc' = [pc EXCEPT ![p] = "apply"]
    /\ UNCHANGED <<database, cache, holder, process, reading, cat, wrote, settled,
                   quiet, unseen>>

\* azdo_deploy_meta_ddl_watch: the next version is stamped on the object.
Stamp(o) ==
    IF tables /\ watch = "enabled"
      THEN seq' = seq + 1 /\ ddl' = [ddl EXCEPT ![o] = seq + 1]
      ELSE UNCHANGED <<seq, ddl>>

\* DDL of a script or from outside: sp_rename is not among the trigger's events.
Ddl(o) == Stamp(o) \/ UNCHANGED <<seq, ddl>>

\* The change of o has no row yet: does it have a version?
Unrecorded(o) == unseen' = IF seq' = seq THEN unseen \cup {o} ELSE unseen \ {o}

\* Mutant of Recorded: the fingerprint is taken before the DDL.
RecordedEarly(p, o) == [sum |-> ws[p][o], fp |-> live[o], ver |-> ddl'[o]]

\* The history row insert_history writes: the fingerprint and the DDL version are
\* read in the transaction, after the DDL.
Recorded(p, o) == [sum |-> ws[p][o], fp |-> live'[o], ver |-> ddl'[o]]

\* A transition that is not the last one of its table: the table changes, its row
\* does not (apply_one_transition without is_last).
Transition(p, o) ==
    /\ pc[p] = "apply" /\ o \in todo[p] /\ seq < MaxDdl
    /\ Scenario(p, o) = "TableReprocess" /\ live[o] # 0
    /\ \E d \in Versions : live' = [live EXCEPT ![o] = d]
    /\ Ddl(o) /\ Unrecorded(o)
    /\ wrote' = [wrote EXCEPT ![p] = TRUE]
    /\ settled' = NoWorkspace
    /\ quiet' = [q \in Proc |-> q = p /\ quiet[q]]
    /\ UNCHANGED <<watch, tables, hist, cache, holder, pc, process, reading, cat, todo>>

\* One object of the plan: its DDL (none for an adoption; the last transition for a
\* table to reprocess) and its history row in one transaction.
Apply(p, o) ==
    LET s == Scenario(p, o)
    IN  /\ pc[p] = "apply" /\ o \in todo[p] /\ seq < MaxDdl
        /\ CASE s = "Create"         -> o \in Module \/ live[o] = 0
             [] s = "ModuleUpdate"   -> TRUE
             [] s = "TableReprocess" -> live[o] # 0
             [] s = "Adopt"          -> live[o] # 0
        /\ live' = IF s = "Adopt" THEN live ELSE [live EXCEPT ![o] = ws[p][o]]
        /\ CASE s = "Adopt"                     -> UNCHANGED <<seq, ddl>>
             [] s = "TableReprocess"            -> Ddl(o)
             [] s \in {"Create", "ModuleUpdate"} -> Stamp(o)
        /\ hist' = [hist EXCEPT ![o] = Recorded(p, o)] /\ unseen' = unseen \ {o}
        /\ todo' = [todo EXCEPT ![p] = @ \ {o}]
        /\ wrote' = [wrote EXCEPT ![p] = TRUE]
        /\ settled' = NoWorkspace
        /\ quiet' = [q \in Proc |-> q = p /\ quiet[q]]
        /\ UNCHANGED <<watch, tables, cache, holder, pc, process, reading, cat>>

\* Mutant of AfterFinish: a failed apply saves the snapshot too.
AfterFinishAlways(p) == "snapshot"

\* The condition before save_workspace_snapshot: no object failed.
AfterFinish(p) == IF todo[p] = {} THEN "snapshot" ELSE "release"

\* finish: after any applied object the history probe is set and the catalog
\* cache is emptied, which may fail with a warning. An object still in todo is
\* one whose transaction failed; the command then ends with an error.
Finish(p) ==
    /\ pc[p] = "apply"
    /\ probe' = IF wrote[p] THEN [probe EXCEPT ![p] = "nonempty"] ELSE probe
    /\ \/ wrote[p] /\ CatalogCache /\ cache' = NoCache
       \/ UNCHANGED cache
    /\ pc' = [pc EXCEPT ![p] = AfterFinish(p)]
    /\ settled' = IF todo[p] = {} /\ quiet[p] THEN ws[p] ELSE settled
    /\ UNCHANGED <<database, holder, ensured, inspect, reading, cat, todo, wrote,
                   quiet, unseen>>

\* save_workspace_snapshot: every object of the workspace is recorded as present;
\* its error is dropped.
Snapshot(p) ==
    /\ pc[p] = "snapshot"
    /\ \/ wrote[p] /\ SaveBatched(Layout(p), Layout(p))
       \/ UNCHANGED cache
    /\ pc' = [pc EXCEPT ![p] = "release"]
    /\ UNCHANGED <<database, holder, process, reading, cat, applying, quiet, unseen>>

\* release_after_body
Release(p) ==
    /\ pc[p] = "release"
    /\ Leave(p) /\ EndProcess(p)

\* The process ends between two commands or in the middle of one; the server
\* frees its lock.
Exit(p) ==
    /\ pc[p] # "idle" \/ Reuse
    /\ Leave(p) /\ Forget(p)

\* DDL from outside rmig.
Outside(o) ==
    /\ OutOfBand /\ seq < MaxDdl
    /\ \E d \in (0 .. MaxVersion) \ {live[o]} : live' = [live EXCEPT ![o] = d]
    /\ Ddl(o) /\ Unrecorded(o)
    /\ quiet' = [q \in Proc |-> FALSE]
    /\ settled' = NoWorkspace
    /\ UNCHANGED <<watch, tables, hist, cache, holder, pc, process, reading, cat,
                   todo, wrote>>

\* An administrator drops, disables or enables the trigger.
SwitchWatch ==
    /\ watch # "absent"
    /\ watch' \in {"absent", "enabled", "disabled"} \ {watch}
    /\ UNCHANGED <<live, ddl, seq, tables, hist, cache, holder, pc, process,
                   reading, cat, applying, quiet, unseen>>

Next ==
    \/ \E p \in Proc :
          \/ Prepare(p) \/ Bootstrap(p) \/ LoadChecksums(p) \/ Warmup(p)
          \/ Inspect(p) \/ Save(p) \/ Report(p) \/ BeginApply(p)
          \/ \E o \in Object : Transition(p, o) \/ Apply(p, o)
          \/ Finish(p) \/ Snapshot(p) \/ Release(p) \/ Exit(p)
    \/ \E o \in Object : Outside(o)
    \/ SwitchWatch

Spec == Init /\ [][Next]_vars
=============================================================================
