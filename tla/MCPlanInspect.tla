---------------------------- MODULE MCPlanInspect ----------------------------
(* The properties of plan inspection and its instances for TLC.            *)
EXTENDS PlanInspect

TypeOK ==
    /\ live \in [Object -> 0 .. MaxVersion] /\ ddl \in [Object -> 0 .. MaxDdl]
    /\ seq \in 0 .. MaxDdl /\ watch \in {"absent", "enabled", "disabled"}
    /\ tables \in BOOLEAN
    /\ hist \in [Object -> [sum : 0 .. MaxVersion, fp : 0 .. MaxVersion, ver : 0 .. MaxDdl]]
    /\ cache \in [rows : SUBSET Object, layout : SUBSET Object]
    /\ holder \in Proc \cup {NoProc}
    /\ \A p \in Proc : Bypass(p) <=> holder = p
    /\ pc \in [Proc -> {"idle", "bootstrap", "checksums", "warmup", "inspect", "save",
                        "planned", "apply", "snapshot", "release"}]
    /\ \A p \in Proc : /\ cmd[p].name \in {"plan", "migrate"}
                       /\ ws[p] \in Workspaces \cup {NoWorkspace}
                       /\ cat[p] \subseteq Object /\ hot[p] \subseteq Layout(p)
                       /\ todo[p] \subseteq Layout(p)
    /\ probe \in [Proc -> {"unknown", "empty", "nonempty"}] /\ unseen \subseteq Object

\* The plan of p is complete and nobody else changed the database meanwhile.
Settled(p) == pc[p] = "planned" /\ quiet[p]

\* A migrate plans from the live database: whatever the catalog_cache table, the
\* inspect cache and the history probe hold, its catalog and its checksums are
\* those of the server, and it sees no drift where there is none
\* (plan_snapshot.rs run_plan_db_phase, prepare_execute with bypass).
LockedPlanIsLive ==
    \A p \in Proc : Settled(p) /\ Bypass(p) =>
        \A o \in Layout(p) :
            /\ o \in cat[p] <=> live[o] # 0
            /\ prior[p][o] = hist[o].sum
            /\ drift[p][o] => live[o] # hist[o].fp

\* No plan, cached or not, calls an object unchanged whose live definition is not
\* the one recorded when rmig last applied it (load_checksums_header.sql,
\* resolve_plan_scenario), but for one that changed without a version since:
\* ADR-0005's "drift is never missed" fails for sp_rename, which is no event of the
\* trigger, and for what happened while the trigger was dropped or disabled.
NoMaskedDrift ==
    \A p \in Proc : Settled(p) =>
        \A o \in Layout(p) : Scenario(p, o) = "SkipUnchanged" =>
            hist[o].sum = ws[p][o] /\ (live[o] = hist[o].fp \/ o \in unseen)

\* After a complete migrate, and while nobody changes the database, a migrate of the
\* same workspace finds nothing to do, and so does a plan of a new process unless
\* git reported changed paths (finish, save_workspace_snapshot,
\* load_checksums_plan).  But a table whose transitions were all applied before is
\* planned to be reprocessed each time, and what changed without a version comes up
\* when the trigger is switched.
NothingLeft ==
    \A p \in Proc :
        Settled(p) /\ ws[p] = settled /\ (Bypass(p) \/ (~Reuse /\ ~GitDelta(p))) =>
            \A o \in Layout(p) \ unseen :
                \/ Scenario(p, o) = "SkipUnchanged"
                \/ Scenario(p, o) = "TableReprocess" /\ hist[o].sum # ws[p][o]

\* While only rmig changes the schema, the catalog_cache table names no object the
\* database lacks, although read-only plans save it without the lock, saves and
\* invalidations fail, and a migrate may stop between two objects (save_batched,
\* save_workspace_snapshot, finish).
CacheHonest == cache.rows \subseteq Present

=============================================================================
