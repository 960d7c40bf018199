---------------------------- MODULE WorkspaceScan ----------------------------
(***************************************************************************)
(* From a repository checkout to the workspace of each database, as pure   *)
(* operators: which files are objects, transitions, checks or nothing      *)
(* (scan/), what makes a scan fail, the table a transition belongs to, and *)
(* the part of the workspace that one database gets (domain/workspace).    *)
(* A tree is a function from the paths of the .sql files to their content; *)
(* a path is the sequence of its components, the last without extension.   *)
(* Symbolic links, unreadable files and paths beyond 512 characters are    *)
(* left out; a path identifies the script, its row and its object.         *)
(***************************************************************************)
EXTENDS PlanScenario, Sequences, FiniteSets, SequencesExt

CONSTANTS Paths,     \* the paths a checkout may contain
          Lower,     \* lower-case form of each path component
          Ordinal,   \* file name to its ordinal, 0 unless <3 digits>_<commit>_<slug>
          Rank,      \* position of a database directory in the sorted walk
          Hidden,    \* directories whose name starts with a dot
          BadNames,  \* components validate_path_component refuses
          MaxVersion \* versions a file may have

ASSUME PathAssumption == IsFiniteSet(Paths) /\ Paths \subseteq Seq(DOMAIN Lower) \ {<<>>}
ASSUME LowerAssumption ==
    \A n \in DOMAIN Lower : /\ n \in Kinds => Lower[n] = n
                            /\ n \notin BadNames => Lower[n] \notin BadNames
ASSUME VersionAssumption == MaxVersion \in Nat \ {0}

\* A draft starts with the scaffold marker.
Content == [ver : 1 .. MaxVersion, draft : BOOLEAN]
Checkout(t) == DOMAIN t \subseteq Paths /\ t \in [DOMAIN t -> Content]

Database(p) == p[1]

ASSUME RankAssumption ==
    \A p, q \in Paths : /\ Rank[Database(p)] \in Nat
                        /\ Rank[Database(p)] = Rank[Database(q)] => Database(p) = Database(q)

\* walk.rs: the path contains "/tables/_migrations/".
UnderMigrations(p) ==
    \E i \in 2 .. Len(p) - 2 : p[i] = "tables" /\ p[i + 1] = "_migrations"

\* parse.rs is_check_path
IsCheckPath(p) ==
    \/ Len(p) = 3 /\ p[2] = "checks"
    \/ Len(p) = 4 /\ p[3] = "checks"

ObjectFile(p) == ~UnderMigrations(p) /\ ~IsCheckPath(p)

\* parse_object: only files exactly four levels deep are objects; other folders
\* and shallower files are skipped, deeper ones below a kind folder refused.
IsObject(p) == ObjectFile(p) /\ Len(p) = 4 /\ p[3] \in Kinds
IsNested(p) == ObjectFile(p) /\ Len(p) > 4 /\ p[Len(p) - 1] \in Kinds

\* ObjectKey::new
ObjectKey(schema, kind, name) == <<Lower[schema], Lower[kind], Lower[name]>>
KeyOf(p) == ObjectKey(p[2], p[3], p[4])

\* parse_meta, with parse_filename as Ordinal. Nothing bounds the depth.
IsTransition(p) ==
    LET n == Len(p)
    IN  /\ UnderMigrations(p) /\ n >= 6
        /\ p[n - 3] = "tables" /\ p[n - 2] = "_migrations"
        /\ Ordinal[p[n]] # 0
TableKey(p) == LET n == Len(p) IN ObjectKey(p[n - 4], "tables", p[n - 1])
OrdinalOf(p) == Ordinal[p[Len(p)]]

Objects(t) == {p \in DOMAIN t : IsObject(p)}

\* Mutant of Authored: drafts are staged too.
AuthoredAndDrafts(t) == {p \in DOMAIN t : IsTransition(p)}

\* Transition scripts that are staged: all but drafts.
Authored(t) == {p \in DOMAIN t : IsTransition(p) /\ ~t[p].draft}

\* intern_database: names that differ only in case are one database, called as
\* its first directory in the walk.
SameDatabase(a, b) == Lower[a] = Lower[b]
InternDatabase(t, d) ==
    LET dirs == {Database(p) : p \in {q \in Objects(t) : SameDatabase(Database(q), d)}}
    IN  IF dirs = {} THEN d ELSE CHOOSE a \in dirs : \A b \in dirs : Rank[a] <= Rank[b]

\* push_transition_staging: transitions are staged by directory and table.
Staging(t, d, key) == {p \in Authored(t) : Database(p) = d /\ TableKey(p) = key}

\* push_object
DuplicateObject(t) ==
    \E p, q \in Objects(t) :
        p # q /\ SameDatabase(Database(p), Database(q)) /\ KeyOf(p) = KeyOf(q)

DuplicateOrdinal(t) ==
    \E p \in Authored(t) : \E q \in Staging(t, Database(p), TableKey(p)) :
        p # q /\ OrdinalOf(p) = OrdinalOf(q)

\* validate_path_component, for objects and for transitions.
IllegalName(t) ==
    \E p \in DOMAIN t :
        \/ IsObject(p) /\ {p[1], p[2], p[4]} \cap BadNames # {}
        \/ LET n == Len(p)
           IN  /\ UnderMigrations(p) /\ n >= 6
               /\ p[n - 3] = "tables" /\ p[n - 2] = "_migrations"
               /\ {p[n - 4], p[n - 1], p[n]} \cap BadNames # {}

\* scan_root returns an error, all of them InvalidInput.
ScanFails(t) ==
    \/ \E p \in DOMAIN t : IsNested(p)
    \/ IllegalName(t) \/ DuplicateObject(t) \/ DuplicateOrdinal(t)

\* Mutant of StagedFor: transitions go to whichever table has their key.
StagedForAnyDatabase(t, row) ==
    {S \in {Staging(t, Database(p), KeyOf(row)) : p \in DOMAIN t} : S # {}}

\* The batches compact_transitions may insert for a row. One directory stages one
\* batch; of the batches of case variants the last of a hash map remains.
StagedFor(t, row) ==
    {S \in {Staging(t, Database(p), KeyOf(row)) :
               p \in {q \in DOMAIN t : SameDatabase(Database(q), Database(row))}} : S # {}}

\* finalize_object_layout, compact_transitions: the workspaces a scan may build.
ScanRoot(t) ==
    LET batches(row) == StagedFor(t, row) \cup (IF StagedFor(t, row) = {} THEN {{}} ELSE {})
    IN  {f \in [Objects(t) -> {{}} \cup UNION {StagedFor(t, row) : row \in Objects(t)}] :
            \A row \in Objects(t) : f[row] \in batches(row)}

\* relink_transitions_from: a script that is not below the directory is dropped.
RelinkTransitionsFrom(scripts, d) == {p \in scripts : Database(p) = d}

\* for_catalog_database: the rows of database d, exactly as its directory is written,
\* with their transitions.
ForCatalogDatabase(t, w, d) ==
    [row \in {r \in DOMAIN w : InternDatabase(t, Database(r)) = d} |->
        RelinkTransitionsFrom(w[row], d)]

\* discover_catalog_databases: visible directories with a subdirectory, sorted.
Discovered(t) == {Database(p) : p \in {q \in DOMAIN t : Len(q) >= 3}} \ Hidden
DiscoverCatalogDatabases(t) ==
    CHOOSE s \in [1 .. Cardinality(Discovered(t)) -> Discovered(t)] :
        \A i, j \in DOMAIN s : i < j => Rank[s[i]] < Rank[s[j]]

=============================================================================
