----------------------------- MODULE ChangeGate -----------------------------
(***************************************************************************)
(* The change list of a commit and the production gate built on it (gate/, *)
(* git/): where the list comes from, which objects it stands for, and when *)
(* a plan may differ from the approved one. Pure operators. A source of    *)
(* changed paths is silent (not configured), failed (git or the file did   *)
(* not answer) or it lists paths; a snapshot is a function from <<database,*)
(* key>> to what it records of a planned object.                           *)
(***************************************************************************)
EXTENDS WorkspaceScan

CONSTANTS NameSuffix, \* pairs <<a, b>> of components: b ends with a
          SqlRoot     \* directory of the repository the checkout is read from

Silent    == [answer |-> "silent", paths |-> {}]
Failed    == [answer |-> "failed", paths |-> {}]
Lists(S)  == [answer |-> "lists", paths |-> S]
Lists1(s) == s.answer = "lists" /\ s.paths # {}

\* normalize_git_paths: git names a file from the top of the repository.
Normalize(p) == IF Head(p) = SqlRoot THEN Tail(p) ELSE p

\* The first source that answers.
FirstListing(sources) ==
    LET answered == {i \in DOMAIN sources : sources[i].answer = "lists"}
    IN  IF answered = {} THEN Failed ELSE sources[Min(answered)]

\* try_ci_changed_paths: a pull request of GitHub, a merge request of GitLab, a pull
\* request of Azure.
TryCiChangedPaths(ci) == FirstListing(<<ci.github, ci.gitlab, ci.azure>>)

\* merge_base_paths: against origin/main, origin/master, main, master, in this order.
MergeBasePaths(branches) == FirstListing(branches)

\* Mutant of ResolveChangedPaths: a base that cannot be read is passed over.
ResolveChangedPathsAnyway(src) ==
    LET of(s) == [full |-> FALSE, paths |-> {Normalize(p) : p \in s.paths}]
    IN  IF src.inspectFull \/ ~src.git THEN [full |-> TRUE, paths |-> {}]
        ELSE IF Lists1(src.env) THEN of(src.env)
        ELSE IF src.base.answer = "lists" THEN of(src.base)
        ELSE IF TryCiChangedPaths(src.ci).answer = "lists" THEN of(TryCiChangedPaths(src.ci))
        ELSE IF Lists1(MergeBasePaths(src.branches)) THEN of(MergeBasePaths(src.branches))
        ELSE IF Lists1(src.parent) THEN of(src.parent)
        ELSE of(Lists({}))

\* resolve_changed_paths: the first source that answers. A base that was asked for
\* and cannot be read, or no repository at all, means a full inspection. The
\* merge base and the parent commit are believed only if they list something; in
\* between HEAD is compared with itself, which lists nothing.
ResolveChangedPaths(src) ==
    LET full == [full |-> TRUE, paths |-> {}]
        of(s) == [full |-> FALSE, paths |-> {Normalize(p) : p \in s.paths}]
    IN  IF src.inspectFull THEN full
        ELSE IF Lists1(src.env) THEN of(src.env)
        ELSE IF src.base.answer = "failed" THEN full
        ELSE IF src.base.answer = "lists" THEN of(src.base)
        ELSE IF ~src.git THEN full
        ELSE IF TryCiChangedPaths(src.ci).answer = "lists" THEN of(TryCiChangedPaths(src.ci))
        ELSE IF Lists1(MergeBasePaths(src.branches)) THEN of(MergeBasePaths(src.branches))
        ELSE IF Lists1(src.parent) THEN of(src.parent)
        ELSE of(Lists({}))

\* The characters of path q end with those of p.
EndsWith(q, p) ==
    /\ Len(p) <= Len(q)
    /\ \A i \in 1 .. Len(p) :
          LET c == q[Len(q) - Len(p) + i]
          IN  IF i = 1 THEN <<p[i], c>> \in NameSuffix ELSE p[i] = c

QualifiedKey(p, key) == <<Database(p), key>>

\* objects_by_path with transition_paths_by_script: the key each script of a
\* workspace stands for.
Stands(w) ==
    [p \in DOMAIN w \cup UNION {w[r] : r \in DOMAIN w} |->
        IF p \in DOMAIN w THEN KeyOf(p) ELSE TableKey(p)]

\* keys_for_changed_paths: a path the workspace does not know stands for every
\* script that ends like it, or that it ends like.
KeysForChangedPaths(w, changed) ==
    LET s == Stands(w)
        related(p) == IF p \in DOMAIN s THEN {p}
                      ELSE {q \in DOMAIN s : EndsWith(q, p) \/ EndsWith(p, q)}
    IN  {QualifiedKey(q, s[q]) : q \in UNION {related(p) : p \in changed}}

\* expand_delta_closure: the parent tables, in the workspace, of the triggers in the
\* delta. A parent is a table, so one round reaches the fixpoint of the loop.
ExpandDeltaClosure(w, delta, parent) ==
    LET keys == {QualifiedKey(p, KeyOf(p)) : p \in DOMAIN w}
        triggers == {p \in DOMAIN w \cap DOMAIN parent : QualifiedKey(p, KeyOf(p)) \in delta}
    IN  delta \cup ({QualifiedKey(p, parent[p]) : p \in triggers} \cap keys)

\* PlanSnapshot::from_plan
Snapshot(plan) ==
    LET key(row) == <<row.db, KeyOf(row.path)>>
        rows == ToSet(plan.rows)
    IN  [blocked |-> plan.blocked,
         objects |-> [k \in {key(row) : row \in rows} |-> CHOOSE row \in rows : key(row) = k]]

\* is_risky_action
RiskyActions == {"Fail", "ReprocessChangedBlocked"}

\* diff_entry: an object differs when only one side has it, or in its action, its
\* checksum or its existence; its path does not count.
Differs(b, c, k) ==
    IF k \in DOMAIN b /\ k \in DOMAIN c
    THEN b[k].action # c[k].action \/ b[k].ver # c[k].ver \/ b[k].exists # c[k].exists
    ELSE TRUE

\* Mutant of CompareSnapshots: an empty delta allows every change.
CompareSnapshotsEmptyAllows(b, c, delta) ==
    /\ c.blocked => b.blocked
    /\ \A k \in DOMAIN b.objects \cup DOMAIN c.objects :
          Differs(b.objects, c.objects, k) =>
             delta = {} \/ (k \in delta /\ (k \in DOMAIN c.objects =>
                                              c.objects[k].action \notin RiskyActions))

\* compare_snapshots with strict_unexpected, for snapshots of one version.
CompareSnapshots(b, c, delta) ==
    /\ c.blocked => b.blocked
    /\ \A k \in DOMAIN b.objects \cup DOMAIN c.objects :
          Differs(b.objects, c.objects, k) =>
             /\ k \in delta
             /\ k \in DOMAIN c.objects => c.objects[k].action \notin RiskyActions

\* evaluate_gate; the limit on the planning time is 0 when it is not set.
EvaluateGate(b, c, delta, wall, limit) ==
    /\ ~c.blocked /\ CompareSnapshots(b, c, delta)
    /\ limit = 0 \/ wall < limit

=============================================================================
