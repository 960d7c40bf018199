---------------------------- MODULE MCRunCommand ----------------------------
(***************************************************************************)
(* The properties of an invocation of rmig, and an instance for TLC: two   *)
(* databases with a table of the same name, one of them with a trigger.    *)
(***************************************************************************)
EXTENDS RunCommand, TLC

T(d) == <<d, "dbo", "tables", "T">>
R    == <<"hr", "dbo", "triggers", "R">>
X(d, n) == <<d, "dbo", "tables", "_migrations", "t", n>>
G(n)    == <<"hr", "dbo", "tables", "_migrations", "r", n>>
\* Files the scan refuses or no database gets.
Nested  == <<"hr", "dbo", "old", "tables", "T">>
Illegal == <<"hr", "dbo", "tables", "a/b">>
Dotted  == <<".old", "dbo", "tables", "T">>

Names == {"Sales", "hr", "dbo", "tables", "triggers", "_migrations", "old", "sql", ".old", "a/b",
          "T", "t", "R", "r", "001_auto", "001_draft", "002_own"}

MCPaths   == {T("Sales"), T("hr"), R, Nested, Illegal, Dotted, X("Sales", "001_auto"),
              X("hr", "001_auto"), X("Sales", "001_draft"), X("hr", "001_draft"),
              X("hr", "002_own"), G("001_auto"), G("001_draft")}
MCLower   == [n \in Names |-> CASE n = "Sales" -> "sales" [] n = "T" -> "t"
                                [] n = "R" -> "r" [] OTHER -> n]
MCOrdinal == [n \in Names |-> CASE n \in {"001_auto", "001_draft"} -> 1
                                [] n = "002_own" -> 2 [] OTHER -> 0]
MCRank    == ".old" :> 0 @@ [Sales |-> 1, hr |-> 2]
MCSuffix  == {<<n, n>> : n \in Names}
MCGenName == [b \in BOOLEAN |-> IF b THEN "001_draft" ELSE "001_auto"]
MCParent  == R :> ObjectKey("dbo", "tables", "T")

File(v) == [ver |-> v, draft |-> FALSE]
None    == [i \in Ids |-> 0]

\* Both tables were changed since they were deployed; one has its transition.
MCTrees == {T("Sales") :> File(2) @@ T("hr") :> File(2) @@ R :> File(1)
              @@ X("hr", "002_own") :> File(1)}

\* Nothing is deployed, or the first version of the tables and the trigger, with or
\* without the transition.
First(x) == [d \in Catalogs |->
                [None EXCEPT ![KeyOf(T(d))] = IF d = ".old" THEN 0 ELSE 1,
                             ![KeyOf(R)] = IF d = "hr" THEN 1 ELSE 0,
                             ![X("hr", "002_own")] = IF d = "hr" THEN x ELSE 0]]
MCDeployed == {[d \in Catalogs |-> None], First(0), First(1)}
MCExisting == {{"sales", "hr"}, {"hr"}}
MCUnmanaged == {[d \in Catalogs |-> {}],
                [d \in Catalogs |-> IF d = "sales" THEN {KeyOf(T("Sales"))} ELSE {}]}

MCAddable == {T("Sales")}

Words(adopt) == [server |-> "set", root |-> "set", socket |-> "unset", report |-> "set",
                 secrets |-> "set", token |-> "unset", adopt |-> adopt, port |-> Unset,
                 lock |-> Unset, command |-> Unset]
Toml(adopt) == Words(adopt) @@ [missing |-> FALSE, secret |-> FALSE, malformed |-> FALSE]

\* The file allows adoption, the environment is silent, forbids it or has a typo.
MCEnvironments ==
    {[env |-> Words("no"), file |-> Toml("yes"), named |-> TRUE],
     [env |-> [Words("unset") EXCEPT !.lock = 0], file |-> Toml("yes"), named |-> FALSE],
     [env |-> Words("junk"), file |-> Toml("unset"), named |-> FALSE]}

RunSymmetry == Permutations(Runs)

-----------------------------------------------------------------------------
(* Properties.                                                             *)

\* The state is well formed, and the deployment lock of a database is held by exactly
\* the invocation that is in its locked body (with_deploy_lock).
TypeOK ==
    /\ Checkout(tree)
    /\ events \in 0 .. MaxEvents
    /\ server \subseteq Catalogs /\ unmanaged \in [Catalogs -> SUBSET Ids]
    /\ recorded \in [Catalogs -> [Ids -> 0 .. MaxVersion]]
    /\ holder \in [Catalogs -> Runs \cup {Nobody}]
    /\ \A d \in Catalogs, r \in Runs :
          holder[d] = r <=> run[r].pc = "body" /\ Lower[Current(r)] = d
    /\ planFile.by \in Runs \cup {Nobody} /\ approved.by \in Runs \cup {Nobody}

\* A migrate that went well for a database left none of its files out: every object
\* file below the directory is recorded with the content that was scanned (or is a
\* table whose transitions were all applied by earlier runs), and a table that was
\* created or changed has every authored transition recorded (for_catalog_database,
\* relink_transitions_from, compact_transitions, execute_plan).
DeployedWhole ==
    [][\A r \in Runs : \A d \in run'[r].done \ run[r].done : Mutates(r) =>
          LET t == run[r].seen
              c == Lower[d]
              scripts(k) == {q \in DOMAIN t : /\ IsTransition(q) /\ ~t[q].draft
                                              /\ Database(q) = d /\ TableKey(q) = k}
          IN  \A p \in {q \in DOMAIN t : IsObject(q) /\ Database(q) = d} :
                 LET k == KeyOf(p)
                     advanced == recorded'[c][k] # recorded[c][k] /\ k \notin unmanaged[c]
                 IN  /\ \/ recorded'[c][k] = t[p].ver
                        \/ scripts(k) # {} /\ \A q \in scripts(k) : recorded[c][q] # 0
                     /\ advanced => \A q \in scripts(k) : recorded'[c][q] # 0]_vars

\* The history of a database holds only objects and transitions of its own directory,
\* although one scan serves all databases and their tables share names.
NoLeak ==
    \A d \in Catalogs, i \in Ids : recorded[d][i] # 0 =>
        \E p \in Paths : Id(p) = i /\ Lower[Database(p)] = d

\* Exit code 0 of a command over several databases means that each one the
\* repository declares went well and that the plan has a row for each of its objects;
\* a failed, blocked or missing database cannot hide behind the others (run_command).
ExitZeroMeansAll ==
    \A r \in Runs : run[r].pc = "plan_file" /\ run[r].exit = 0 =>
        \A p \in DOMAIN run[r].seen :
            IsObject(p) /\ (\E i \in DOMAIN run[r].dbs : run[r].dbs[i] = Database(p)) =>
               /\ Database(p) \in run[r].done
               /\ \E i \in DOMAIN run[r].plan.rows : run[r].plan.rows[i].path = p

\* In a merged plan the transitions stay with the row of their own table in their own
\* database (merge_plan_into).
PlanRowsAligned ==
    \A plan \in {planFile.plan} \cup {run[r].plan : r \in Runs} :
        \A i \in DOMAIN plan.transitions :
            /\ i \in DOMAIN plan.rows
            /\ \A q \in plan.transitions[i] :
                  Database(q) = plan.rows[i].db /\ TableKey(q) = KeyOf(plan.rows[i].path)

\* "A failed run must not leave the previous run's plan next to its own failure
\* report": while invocations do not overlap, the two files come from one run unless
\* the writer of the plan never got to its report (write_reports).
ReportPairs ==
    LET q == planFile.by
        r == report.by
    IN  {q, r} \subseteq Runs /\ q # r => ~run[q].reported \/ ~run[q].alone \/ ~run[r].alone

\* No migrate runs or records a script that was still a draft when it was scanned:
\* what rmig generates for a change that does more than add columns waits for a human
\* (SCAFFOLD_MARK, push_transition_staging).
DraftsNeverRun ==
    [][\A d \in Catalogs, q \in {p \in Paths : IsTransition(p)} :
          recorded'[d][q] # recorded[d][q] =>
             holder[d] \in Runs /\ ~run[holder[d]].seen[q].draft]_vars

\* Generating transitions never turns a checkout that scans into one that does not,
\* even when a script appeared since the scan (scaffold::ensure).
ScaffoldKeepsScannable ==
    [][tree' # tree /\ events' = events /\ ~ScanFails(tree) => ~ScanFails(tree')]_vars

\* An object that was there before rmig is taken over only by a run whose environment
\* says so, or whose environment is silent and whose file says so (build_config,
\* ensure_adopt_allowed).
AdoptedOnPurpose ==
    [][\A d \in Catalogs : \A k \in unmanaged[d] \ unmanaged'[d] :
          LET e == run[holder[d]].env
          IN  e.env.adopt = "yes" \/ (e.env.adopt = "unset" /\ e.file.adopt = "yes")]_vars

-----------------------------------------------------------------------------
(* The gate, for the approved plan and the plan that was written last.     *)

Both == /\ approved.by # Nobody /\ planFile.by # Nobody
        /\ \A r \in Runs : ~Running(r)
Differing(f, g) == {p \in DOMAIN f \cup DOMAIN g :
                       ~(p \in DOMAIN f \cap DOMAIN g /\ f[p] = g[p])}
ChangedFiles == Differing(approved.seen, planFile.seen)

\* A clone in which git can compare nothing, and no other source answers.
Blind ==
    [inspectFull |-> FALSE, env |-> Silent, base |-> Silent, git |-> TRUE,
     ci |-> [github |-> Silent, gitlab |-> Silent, azure |-> Silent],
     branches |-> [b \in 1 .. 4 |-> Failed], parent |-> Failed]

\* git diff --name-only
GitLists(S) == Lists({<<SqlRoot>> \o p : p \in S})

\* What CI may know of the change: a list, a base that git can or cannot read, a merge
\* request, a local main branch, nothing because there is no repository or because git
\* can compare nothing, or, on the main branch itself, what the last commit changed.
Sources ==
    LET diff == GitLists(ChangedFiles)
    IN  {[Blind EXCEPT !.env = Lists(ChangedFiles), !.base = diff], [Blind EXCEPT !.base = diff],
         [Blind EXCEPT !.base = Failed], [Blind EXCEPT !.git = FALSE],
         [Blind EXCEPT !.ci.github = Failed, !.ci.gitlab = diff],
         [Blind EXCEPT !.branches[3] = diff, !.parent = Lists({})], Blind}
        \cup {[Blind EXCEPT !.branches[1] = Lists({}), !.parent = GitLists(S)] :
                 S \in SUBSET ChangedFiles}

\* Only the last commit is left to ask: no list, no base, no merge request, and no
\* branch HEAD differs from.
LastResort(src) ==
    /\ ~Lists1(src.env) /\ src.base.answer = "silent" /\ src.git
    /\ TryCiChangedPaths(src.ci).answer # "lists" /\ ~Lists1(MergeBasePaths(src.branches))

Planned1 == CHOOSE w \in ScanRoot(planFile.seen) : TRUE
DeltaOf(src) ==
    ExpandDeltaClosure(Planned1, KeysForChangedPaths(Planned1, ResolveChangedPaths(src).paths),
                       Parent)

\* The files that can change what is planned for a key.
Touches(p, k) ==
    /\ Database(p) = k[1]
    /\ \/ IsObject(p) /\ KeyOf(p) = k[2]
       \/ IsTransition(p) /\ TableKey(p) = k[2]
       \/ p \in DOMAIN Parent /\ Parent[p] = k[2]

\* Wherever the list of changed files comes from, the gate lets a plan pass only if it
\* is not blocked and each object that is planned otherwise than in the approved plan
\* has a changed file of its own (evaluate_gate, keys_for_changed_paths).
GateExplained ==
    Both => \A src \in Sources :
        LET b == Snapshot(approved.plan)
            c == Snapshot(planFile.plan)
        IN  EvaluateGate(b, c, DeltaOf(src), 0, 0) =>
               /\ ~planFile.plan.blocked
               /\ \A k \in DOMAIN b.objects \cup DOMAIN c.objects :
                     Differs(b.objects, c.objects, k) => \E p \in ChangedFiles : Touches(p, k)

\* An inspection that is limited to what git reports looks at every object that has
\* a changed script or transition, unless it falls back to all objects. The exception
\* is the last resort, where the code looks at what the last commit changed and at
\* nothing else, not even when git cannot answer at all (resolve_changed_paths,
\* keys_for_changed_paths, expand_delta_closure); docs/ci-checkout.md:19 has "If git
\* resolution fails, the tool falls back to full catalog inspect" without exception.
ChangedIsHot ==
    Both => \A src \in Sources :
        \/ ResolveChangedPaths(src).full
        \/ \A r \in DOMAIN Planned1 : \A p \in ChangedFiles : p \in {r} \cup Planned1[r] =>
              \/ QualifiedKey(r, KeyOf(r)) \in DeltaOf(src)
              \/ LastResort(src) /\ <<SqlRoot>> \o p \notin src.parent.paths

=============================================================================
