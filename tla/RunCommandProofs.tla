-------------------------- MODULE RunCommandProofs --------------------------
(***************************************************************************)
(* The properties of whole invocations of rmig, for every number of        *)
(* invocations, databases, files, versions, environments and faults.       *)
(***************************************************************************)
EXTENDS MCRunCommand, FiniteSetTheorems, TLAPS

-----------------------------------------------------------------------------
(* Sets of numbers, and the two ways in which the code puts a set in order. *)

\* A set of natural numbers that is not empty has a least member.
LEMMA NatMin ==
    ASSUME NEW S \in SUBSET Nat, S # {}
    PROVE  \E x \in S : \A y \in S : x <= y
<1> DEFINE Less == {ss \in Nat \X Nat : ss[1] < ss[2]}
<1>0. IsWellFoundedOn(Less, Nat)
  BY NatLessThanWellFounded, Zenon DEF OpToRel
<1> HIDE DEF Less
<1>1. PICK x \in S : \A y \in S : ~(<<y, x>> \in Less)
  BY WFMin, <1>0, Zenon
<1>2. ASSUME NEW y \in S PROVE x <= y
  <2>1. x \in Nat /\ y \in Nat
    OBVIOUS
  <2>2. ~(<<y, x>> \in Less)
    BY <1>1
  <2>3. ~(y < x)
    BY <2>1, <2>2 DEF Less
  <2> QED BY <2>1, <2>3
<1> QED BY <1>2

LEMMA MinIn ==
    ASSUME NEW S \in SUBSET Nat, S # {}
    PROVE  Min(S) \in S /\ \A y \in S : Min(S) <= y
<1>1. PICK x \in S : \A y \in S : x <= y
  BY NatMin
<1> QED BY <1>1, Zenon DEF Min

LEMMA WorstOf ==
    ASSUME NEW a \in Nat, NEW b \in Nat
    PROVE  Worst(a, b) \in {a, b} /\ Worst(a, b) >= a /\ Worst(a, b) >= b
<1>1. \E x \in {a, b} : \A y \in {a, b} : x >= y
  OBVIOUS
<1>2. /\ Max({a, b}) \in {a, b}
      /\ \A y \in {a, b} : Max({a, b}) >= y
  BY <1>1, Zenon DEF Max
<1> QED BY <1>2 DEF Worst

\* SetToSeq puts the members of a finite set in some order, each of them once.
LEMMA SetToSeqOrders ==
    ASSUME NEW S, IsFiniteSet(S)
    PROVE  /\ Cardinality(S) \in Nat
           /\ SetToSeq(S) \in [1 .. Cardinality(S) -> S]
           /\ \A x \in S : \E i \in 1 .. Cardinality(S) : SetToSeq(S)[i] = x
           /\ \A i, j \in 1 .. Cardinality(S) : SetToSeq(S)[i] = SetToSeq(S)[j] => i = j
<1> DEFINE n == Cardinality(S)
<1>1. n \in Nat /\ ExistsBijection(1 .. n, S)
  BY FS_CardinalityType
<1>2. PICK f \in Bijection(1 .. n, S) : TRUE
  BY <1>1, Zenon DEF ExistsBijection
<1>3. f \in [1 .. n -> S] /\ IsInjective(f)
  BY <1>2, Zenon DEF Bijection, Injection
<1>4. SetToSeq(S) \in [1 .. n -> S] /\ IsInjective(SetToSeq(S))
  BY <1>3, Zenon DEF SetToSeq
<1>5. SetToSeq(S) \in Injection(1 .. n, S)
  BY <1>4, Zenon DEF Injection
<1>6. Cardinality(1 .. n) = n
  BY <1>1, FS_Interval
<1>7. SetToSeq(S) \in Surjection(1 .. n, S)
  BY <1>5, <1>6, FS_Injection, Zenon
<1>8. \A x \in S : \E i \in 1 .. n : SetToSeq(S)[i] = x
  BY <1>7, Zenon DEF Surjection
<1>9. \A i, j \in 1 .. n : SetToSeq(S)[i] = SetToSeq(S)[j] => i = j
  BY <1>4, Zenon DEF IsInjective
<1> QED BY <1>1, <1>4, <1>8, <1>9

\* A finite set of natural numbers that is not empty has a greatest member.
LEMMA FiniteMax ==
    ASSUME NEW S \in SUBSET Nat, S # {}, IsFiniteSet(S)
    PROVE  \E x \in S : \A y \in S : y <= x
<1> DEFINE Bad == {V \in SUBSET S : V # {} /\ ~\E x \in V : \A y \in V : y <= x}
<1>1. SUFFICES ASSUME Bad # {} PROVE FALSE
  <2>1. Bad = {} => \E x \in S : \A y \in S : y <= x
    OBVIOUS
  <2> QED BY <2>1
<1>2. IsWellFoundedOn(StrictSubsetOrdering(S), SUBSET S)
  BY FS_StrictSubsetOrderingWellFounded, FS_FiniteSubsetsOfFinite, Zenon
<1>3. PICK V \in Bad : \A U \in Bad : ~(<<U, V>> \in StrictSubsetOrdering(S))
  BY <1>1, <1>2, WFMin, Zenon
<1>4. PICK x \in V : TRUE
  OBVIOUS
<1>5. V \ {x} \in SUBSET S /\ V \in SUBSET S /\ V \ {x} # V
  BY <1>4
<1>6. <<V \ {x}, V>> \in StrictSubsetOrdering(S)
  BY <1>5 DEF StrictSubsetOrdering
<1>7. V \ {x} \notin Bad
  BY <1>3, <1>6
<1>8. x \in Nat /\ V \subseteq Nat
  BY <1>5
<1>9. CASE V \ {x} = {}
  BY <1>8, <1>9, <1>3
<1>10. CASE V \ {x} # {}
  <2>1. PICK z \in V \ {x} : \A y \in V \ {x} : y <= z
    BY <1>7, <1>5, <1>10
  <2>2. CASE x <= z
    BY <2>1, <2>2, <1>8, <1>3
  <2>3. CASE ~(x <= z)
    <3>1. \A y \in V : y <= x
      BY <2>1, <2>3, <1>8
    <3> QED BY <3>1, <1>4, <1>3
  <2> QED BY <2>2, <2>3
<1> QED BY <1>9, <1>10

LEMMA FiniteImage ==
    ASSUME NEW S, IsFiniteSet(S), NEW f, DOMAIN f = S
    PROVE  IsFiniteSet({f[x] : x \in S})
<1> DEFINE V == {f[x] : x \in S}
           g == [x \in S |-> f[x]]
<1>1. g \in Surjection(S, V)
  BY DEF Surjection
<1> QED BY <1>1, FS_Surjection, Zenon

\* The directories of databases in a checkout.
Tops == {Database(p) : p \in Paths}

Ordered(s) == \A i, j \in DOMAIN s : i < j => Rank[s[i]] < Rank[s[j]]

LEMMA TopRank ==
    \A a, b \in Tops : Rank[a] \in Nat /\ (Rank[a] = Rank[b] => a = b)
  BY RankAssumption DEF Tops

\* Every finite set of directories can be sorted.
LEMMA SortExists ==
    ASSUME NEW S \in SUBSET Tops, IsFiniteSet(S)
    PROVE  \E s \in [1 .. Cardinality(S) -> S] : Ordered(s)
<1> DEFINE Good(V) == \E s \in [1 .. Cardinality(V) -> V] : Ordered(s)
           Bad == {V \in SUBSET S : ~Good(V)}
<1>1. SUFFICES ASSUME Bad # {} PROVE FALSE
  OBVIOUS
<1>2. IsWellFoundedOn(StrictSubsetOrdering(S), SUBSET S)
  BY FS_StrictSubsetOrderingWellFounded, FS_FiniteSubsetsOfFinite, Zenon
<1>3. PICK V \in Bad : \A U \in Bad : ~(<<U, V>> \in StrictSubsetOrdering(S))
  BY <1>1, <1>2, WFMin, Zenon
<1>4. V \in SUBSET S /\ IsFiniteSet(V) /\ Cardinality(V) \in Nat
  BY <1>3, FS_Subset, FS_CardinalityType
<1>5. V # {}
  <2>1. SUFFICES ASSUME V = {} PROVE FALSE
    OBVIOUS
  <2>2. Cardinality(V) = 0
    BY <2>1, FS_EmptySet
  <2>3. <<>> \in [1 .. 0 -> V] /\ Ordered(<<>>)
    BY DEF Ordered
  <2> QED BY <2>2, <2>3, <1>3
<1>6. PICK x \in V : \A y \in V : Rank[y] <= Rank[x]
  <2> DEFINE Ranks == {Rank[y] : y \in V}
  <2>1. Ranks \in SUBSET Nat /\ Ranks # {}
    BY <1>4, <1>5, TopRank
  <2>2. IsFiniteSet(Ranks)
    <3> DEFINE f == [y \in V |-> Rank[y]]
    <3>1. IsFiniteSet({f[y] : y \in V})
      <4>1. DOMAIN f = V
        OBVIOUS
      <4> HIDE DEF f
      <4> QED BY <1>4, <4>1, FiniteImage
    <3>2. {f[y] : y \in V} = Ranks
      OBVIOUS
    <3> QED BY <3>1, <3>2
  <2>3. PICK m \in Ranks : \A y \in Ranks : y <= m
    BY <2>1, <2>2, FiniteMax
  <2> QED BY <2>3
<1>7. <<V \ {x}, V>> \in StrictSubsetOrdering(S)
  BY <1>4, <1>6 DEF StrictSubsetOrdering
<1>8. PICK s \in [1 .. Cardinality(V \ {x}) -> V \ {x}] : Ordered(s)
  <2>1. V \ {x} \notin Bad
    BY <1>3, <1>7
  <2>2. V \ {x} \in SUBSET S
    BY <1>4
  <2> QED BY <2>1, <2>2
<1> DEFINE n == Cardinality(V)
           s2 == [i \in 1 .. n |-> IF i = n THEN x ELSE s[i]]
<1>9. Cardinality(V \ {x}) = n - 1 /\ n \in Nat \ {0}
  BY <1>4, <1>6, FS_RemoveElement, FS_EmptySet
<1>12. s \in [1 .. n - 1 -> V \ {x}]
  BY <1>8, <1>9
<1> HIDE DEF n
<1>10. s2 \in [1 .. n -> V]
  BY <1>12, <1>9, <1>6
<1>11. Ordered(s2)
  <2>1. SUFFICES ASSUME NEW i \in 1 .. n, NEW j \in 1 .. n, i < j
                 PROVE  Rank[s2[i]] < Rank[s2[j]]
    BY DEF Ordered
  <2>2. s[i] \in V \ {x} /\ s2[i] = s[i]
    BY <2>1, <1>12, <1>9
  <2>3. CASE j = n
    <3>1. s2[j] = x /\ Rank[s[i]] <= Rank[x] /\ s[i] # x
      BY <2>2, <2>3, <1>6
    <3>2. Rank[s[i]] \in Nat /\ Rank[x] \in Nat /\ Rank[s[i]] # Rank[x]
      BY <2>2, <3>1, <1>4, TopRank
    <3> QED BY <2>2, <3>1, <3>2
  <2>4. CASE j # n
    <3>1. s2[j] = s[j] /\ i \in DOMAIN s /\ j \in DOMAIN s
      BY <2>1, <2>4, <1>12, <1>9
    <3> QED BY <3>1, <2>1, <2>2, <1>8 DEF Ordered
  <2> QED BY <2>3, <2>4
<1> QED BY <1>10, <1>11, <1>3 DEF n

\* discover_catalog_databases lists visible directories, each of them once.
LEMMA DiscoverLists ==
    ASSUME NEW t, Checkout(t)
    PROVE  /\ IsFiniteSet(Discovered(t)) /\ Discovered(t) \subseteq Tops \ Hidden
           /\ DiscoverCatalogDatabases(t) \in Seq(Tops \ Hidden)
           /\ \A i, j \in DOMAIN DiscoverCatalogDatabases(t) :
                 DiscoverCatalogDatabases(t)[i] = DiscoverCatalogDatabases(t)[j] => i = j
           /\ Discovered(t) # {} => DiscoverCatalogDatabases(t) # <<>>
<1> DEFINE D == Discovered(t)
           n == Cardinality(D)
           s == DiscoverCatalogDatabases(t)
<1>1. D \subseteq Tops \ Hidden
  BY DEF Discovered, Checkout, Tops
<1>2. IsFiniteSet(D)
  <2>1. IsFiniteSet(Tops)
    <3> DEFINE f == [p \in Paths |-> Database(p)]
    <3>1. IsFiniteSet({f[p] : p \in Paths})
      <4>1. DOMAIN f = Paths
        OBVIOUS
      <4> HIDE DEF f
      <4> QED BY PathAssumption, <4>1, FiniteImage
    <3>2. {f[p] : p \in Paths} = Tops
      BY DEF Tops
    <3> QED BY <3>1, <3>2
  <2> QED BY <1>1, <2>1, FS_Subset
<1>3. n \in Nat
  BY <1>2, FS_CardinalityType
<1>4. s \in [1 .. n -> D] /\ Ordered(s)
  <2>1. \E f \in [1 .. n -> D] : Ordered(f)
    BY <1>1, <1>2, SortExists
  <2> QED BY <2>1, Zenon DEF DiscoverCatalogDatabases, Ordered
<1> HIDE DEF s
<1>5. s \in Seq(Tops \ Hidden)
  BY <1>1, <1>3, <1>4
<1>6. ASSUME NEW i \in DOMAIN s, NEW j \in DOMAIN s, s[i] = s[j]
      PROVE  i = j
  <2>1. i \in 1 .. n /\ j \in 1 .. n /\ s[i] \in Tops
    BY <1>1, <1>4
  <2>2. ~(i < j) /\ ~(j < i)
    BY <2>1, <1>4, <1>6, TopRank DEF Ordered
  <2> QED BY <2>1, <2>2, <1>3
<1>7. D # {} => s # <<>>
  <2>1. SUFFICES ASSUME D # {}, s = <<>> PROVE FALSE
    OBVIOUS
  <2>2. n # 0
    BY <1>2, <2>1, FS_EmptySet
  <2>3. 1 \in DOMAIN s
    BY <2>2, <1>3, <1>4
  <2> QED BY <2>1, <2>3
<1> QED BY <1>1, <1>2, <1>5, <1>6, <1>7 DEF s

\* A database is called as one of its directories.
LEMMA InternName ==
    ASSUME NEW t, Checkout(t), NEW d
    PROVE  SameDatabase(InternDatabase(t, d), d)
<1> DEFINE dirs == {Database(p) : p \in {q \in Objects(t) : SameDatabase(Database(q), d)}}
<1>1. CASE dirs = {}
  BY <1>1 DEF InternDatabase, SameDatabase
<1>2. CASE dirs # {}
  <2>1. dirs \subseteq Tops
    BY DEF Objects, Checkout, Tops
  <2> DEFINE Ranks == {Rank[a] : a \in dirs}
  <2>2. Ranks \in SUBSET Nat /\ Ranks # {}
    BY <1>2, <2>1, TopRank
  <2>5. PICK m \in Ranks : \A b \in Ranks : m <= b
    BY <2>2, NatMin
  <2>3. \E a \in dirs : \A b \in dirs : Rank[a] <= Rank[b]
    BY <2>5
  <2>4. InternDatabase(t, d) \in dirs
    BY <2>3, <1>2, Zenon DEF InternDatabase
  <2> QED BY <2>4 DEF SameDatabase
<1> QED BY <1>1, <1>2

-----------------------------------------------------------------------------
(* What a scan finds. *)

\* An object is no transition, and no path of a transition is the key of an object.
LEMMA ObjectIds ==
    ASSUME NEW p \in Paths
    PROVE  /\ IsObject(p) => Id(p) = KeyOf(p) /\ Id(p) \in Ids
           /\ IsTransition(p) => Id(p) = p /\ p \in Ids /\ ~IsObject(p)
           /\ \A q \in Paths : IsObject(q) /\ IsTransition(p) => KeyOf(q) # p
<1>1. IsObject(p) => Id(p) = KeyOf(p) /\ Id(p) \in Ids
  BY DEF Id, Ids
<1>2. IsTransition(p) => ~IsObject(p)
  BY DEF IsTransition, IsObject, ObjectFile
<1>3. IsTransition(p) => Id(p) = p /\ p \in Ids
  BY <1>2 DEF Id, Ids
<1>4. ASSUME NEW q \in Paths, IsObject(q), IsTransition(p) PROVE KeyOf(q) # p
  <2>1. Len(p) >= 6
    BY <1>4 DEF IsTransition
  <2>2. Len(KeyOf(q)) = 3
    BY DEF KeyOf, ObjectKey
  <2>3. KeyOf(q) = p => Len(p) = 3
    BY <2>2
  <2>4. Len(p) # 3
    BY <2>1
  <2> QED BY <2>3, <2>4
<1> QED BY <1>1, <1>2, <1>3, <1>4

\* The workspace has a row for each object; its scripts are authored transitions of
\* its table, from one directory of its database.
LEMMA ScanRows ==
    ASSUME NEW t, NEW w \in ScanRoot(t)
    PROVE  /\ DOMAIN w = Objects(t)
           /\ \A p \in Objects(t) : \/ w[p] = {} /\ StagedFor(t, p) = {}
                                    \/ w[p] \in StagedFor(t, p)
<1>1. w \in [Objects(t) -> {{}} \cup UNION {StagedFor(t, row) : row \in Objects(t)}]
  BY DEF ScanRoot
<1>2. \A p \in Objects(t) :
         w[p] \in StagedFor(t, p) \cup (IF StagedFor(t, p) = {} THEN {{}} ELSE {})
  BY DEF ScanRoot
<1> QED BY <1>1, <1>2

LEMMA ScanScripts ==
    ASSUME NEW t, NEW w \in ScanRoot(t), NEW p \in DOMAIN w, NEW q \in w[p]
    PROVE  /\ q \in Authored(t) /\ TableKey(q) = KeyOf(p)
           /\ SameDatabase(Database(q), Database(p))
<1>1. p \in Objects(t) /\ w[p] \in StagedFor(t, p)
  BY ScanRows
<1>2. PICK x \in DOMAIN t : /\ SameDatabase(Database(x), Database(p))
                            /\ w[p] = Staging(t, Database(x), KeyOf(p))
  BY <1>1 DEF StagedFor
<1> QED BY <1>2 DEF Staging

LEMMA EmptyScan ==
    /\ Checkout(<<>>) /\ ~ScanFails(<<>>) /\ <<>> \in ScanRoot(<<>>)
<1>1. DOMAIN <<>> = {} /\ <<>> \in [{} -> Content]
  OBVIOUS
<1>2. Checkout(<<>>)
  BY <1>1 DEF Checkout
<1>3. ~ScanFails(<<>>)
  BY DEF ScanFails, IllegalName, DuplicateObject, DuplicateOrdinal, Authored, Objects
<1>4. Objects(<<>>) = {}
  BY DEF Objects
<1>5. <<>> \in ScanRoot(<<>>)
  BY <1>4 DEF ScanRoot
<1> QED BY <1>2, <1>3, <1>5

\* The scenario of a row, and which rows are blocked for want of a transition.
LEMMA ScenarioKind ==
    ASSUME NEW in, in.kind \in Kinds, in.parent \in ParentStates
    PROVE  /\ ResolvePlanScenario(in) \in Scenarios
           /\ ActionOf(ResolvePlanScenario(in)) \in Actions
           /\ ActionOf(ResolvePlanScenario(in)) = "ReprocessChangedBlocked"
                => in.kind \in {"tables", "triggers"}
<1>1. ChangedTrigger(in.parent) \in {"ModuleUpdate", "TriggerBlockedParentMissing",
                                     "TriggerBlockedParentChanging", "TriggerUpdateModule"}
  BY DEF ChangedTrigger, ChangedDefault, ModuleKinds, ParentStates
<1>2. ChangedDefault(in.kind) \in {"ModuleUpdate", "StructuralChangeBlocked"}
  BY DEF ChangedDefault
<1>3. /\ ResolveChanged(in) \in Scenarios
      /\ in.kind \notin {"tables", "triggers"} => ResolveChanged(in) = ChangedDefault(in.kind)
  BY <1>1, <1>2 DEF ResolveChanged, Scenarios
<1>4. ResolvePlanScenario(in) \in Scenarios
  BY <1>3 DEF ResolvePlanScenario, Scenarios
<1>5. \A s \in Scenarios : ActionOf(s) \in Actions
  BY DEF Scenarios, ActionOf, Actions
<1>6. \A s \in Scenarios : ActionOf(s) = "ReprocessChangedBlocked" =>
         s \in {"TableBlockedNoTransitions", "TriggerBlockedParentMissing",
                "TriggerBlockedParentChanging"}
  BY DEF Scenarios, ActionOf
<1>7. ResolvePlanScenario(in) \in {"TableBlockedNoTransitions", "TriggerBlockedParentMissing",
                                   "TriggerBlockedParentChanging"}
        => in.kind \in {"tables", "triggers"}
  BY <1>2, <1>3 DEF ResolvePlanScenario
<1> QED BY <1>4, <1>5, <1>6, <1>7

-----------------------------------------------------------------------------
(* The invariant, in named parts. *)

Stages == {"new", "discover", "ensure", "scan", "next", "body", "plan_file", "report_file",
           "done", "killed"}

Fields == {"pc", "cmd", "env", "alone", "dbs", "at", "job", "seen", "ws", "plan", "code",
           "missing", "done", "exit", "ok", "reported"}

Row == [db : Tops, path : Paths, action : Actions, ver : 1 .. MaxVersion, exists : BOOLEAN]

PlanOK(plan) ==
    /\ plan.rows \in Seq(Row)
    /\ \A i \in DOMAIN plan.transitions :
          /\ i \in 1 .. Len(plan.rows)
          /\ \A q \in plan.transitions[i] :
                Database(q) = plan.rows[i].db /\ TableKey(q) = KeyOf(plan.rows[i].path)

\* The state of one invocation: what it knows of the checkout is a scan that went well.
LocalOK(s) ==
    /\ DOMAIN s = Fields /\ s.pc \in Stages
    /\ Checkout(s.seen) /\ ~ScanFails(s.seen) /\ s.ws \in ScanRoot(s.seen)
    /\ s.dbs \in Seq(Tops \ Hidden) /\ s.at \in Nat \ {0}
    /\ s.code \in Nat /\ PlanOK(s.plan)
    /\ s.pc = "body" => s.cmd = "migrate" /\ s.at <= Len(s.dbs)

RunInv == DOMAIN run = Runs /\ \A r \in Runs : LocalOK(run[r])

ObjectKeys == {KeyOf(p) : p \in {q \in Paths : IsObject(q)}}

DataInv ==
    /\ Checkout(tree) /\ events \in 0 .. MaxEvents /\ server \subseteq Catalogs
    /\ unmanaged \in [Catalogs -> SUBSET ObjectKeys]
    /\ recorded \in [Catalogs -> [Ids -> 0 .. MaxVersion]]
    /\ \A d \in Catalogs : \A k \in unmanaged[d] : recorded[d][k] = 0
    /\ NoLeak

\* The lock of a database belongs to the invocation in its body, and what that one
\* decided is still what it would decide: nobody else changes the database.
LockInv ==
    /\ holder \in [Catalogs -> Runs \cup {Nobody}]
    /\ \A d \in Catalogs, r \in Runs :
          holder[d] = r <=> run[r].pc = "body" /\ Lower[Current(r)] = d
    /\ \A r \in Runs : run[r].pc = "body" => run[r].job = Decide(r)

FileInv ==
    /\ planFile.by \in Runs \cup {Nobody} /\ approved.by \in Runs \cup {Nobody}
    /\ PlanOK(planFile.plan)

\* Two invocations that run at once know it; one whose plan was replaced before its
\* report has met another; a report is the last thing an invocation does.
AloneInv ==
    /\ \A r \in Runs : run[r].pc = "new" => run[r] = Idle
    /\ \A r \in Runs : Running(r) => ~run[r].reported
    /\ \A q, r \in Runs : q # r /\ Running(q) /\ Running(r) => ~run[q].alone /\ ~run[r].alone
    /\ \A r \in Runs : run[r].pc = "report_file" /\ planFile.by \notin {r, Nobody} =>
          ~run[r].alone
    /\ ReportPairs

CommandInv == RunInv /\ DataInv /\ LockInv /\ FileInv /\ AloneInv

-----------------------------------------------------------------------------
(* The plan of one database. *)

LEMMA TopCatalog == \A d \in Tops : Lower[d] \in Catalogs
  BY DEF Tops, Catalogs

LEMMA EmptyPlan == PlanOK(NoPlan) /\ DOMAIN NoPlan.transitions = {}
  BY DEF PlanOK, NoPlan

LEMMA CurrentTop ==
    ASSUME NEW r \in Runs, LocalOK(run[r]), run[r].at <= Len(run[r].dbs)
    PROVE  /\ Current(r) \in Tops \ Hidden /\ Lower[Current(r)] \in Catalogs
           /\ run[r].at \in DOMAIN run[r].dbs
<1>1. run[r].at \in 1 .. Len(run[r].dbs)
  BY DEF LocalOK
<1>2. Current(r) \in Tops \ Hidden /\ run[r].at \in DOMAIN run[r].dbs
  BY <1>1 DEF LocalOK, Current
<1> QED BY <1>2, TopCatalog

LEMMA CheckoutFile ==
    ASSUME NEW t, Checkout(t), NEW p \in DOMAIN t
    PROVE  p \in Paths /\ t[p].ver \in 1 .. MaxVersion /\ t[p].draft \in BOOLEAN
  BY DEF Checkout, Content

\* A row of the plan is an object of the current database, with the staged scripts of
\* its directory.
LEMMA DecideRows ==
    ASSUME NEW r \in Runs, LocalOK(run[r]), NEW p \in DOMAIN Decide(r)
    PROVE  /\ p \in Objects(run[r].seen) /\ p \in DOMAIN run[r].ws
           /\ p \in Paths /\ IsObject(p) /\ p[3] \in Kinds
           /\ run[r].seen[p].ver \in 1 .. MaxVersion
           /\ Lower[Database(p)] = Lower[Current(r)]
           /\ Decide(r)[p].scripts = {q \in run[r].ws[p] : Database(q) = Current(r)}
           /\ Decide(r)[p].scen
                = ScenarioOf(r, Lower[Current(r)], p, Decide(r)[p].scripts)
           /\ Decide(r)[p].exists = Exists(Lower[Current(r)], KeyOf(p))
<1> DEFINE own == ForCatalogDatabase(run[r].seen, run[r].ws, Current(r))
<1>1. /\ p \in DOMAIN own
      /\ Decide(r)[p] = [scripts |-> own[p],
                         scen |-> ScenarioOf(r, Lower[Current(r)], p, own[p]),
                         exists |-> Exists(Lower[Current(r)], KeyOf(p))]
  BY DEF Decide
<1>2. p \in DOMAIN run[r].ws /\ InternDatabase(run[r].seen, Database(p)) = Current(r)
  BY <1>1 DEF ForCatalogDatabase
<1>3. own[p] = {q \in run[r].ws[p] : Database(q) = Current(r)}
  BY <1>1 DEF ForCatalogDatabase, RelinkTransitionsFrom
<1>4. p \in Objects(run[r].seen)
  BY <1>2, ScanRows DEF LocalOK
<1>5. p \in DOMAIN run[r].seen /\ IsObject(p)
  BY <1>4 DEF Objects
<1>6. p \in Paths /\ run[r].seen[p].ver \in 1 .. MaxVersion
  BY <1>5, CheckoutFile DEF LocalOK
<1>7. p[3] \in Kinds
  BY <1>5 DEF IsObject
<1>8. Lower[Database(p)] = Lower[Current(r)]
  <2>1. SameDatabase(InternDatabase(run[r].seen, Database(p)), Database(p))
    BY InternName DEF LocalOK
  <2> QED BY <2>1, <1>2 DEF SameDatabase
<1> QED BY <1>1, <1>2, <1>3, <1>4, <1>5, <1>6, <1>7, <1>8

LEMMA DecideScenario ==
    ASSUME NEW r \in Runs, LocalOK(run[r]), NEW p \in DOMAIN Decide(r)
    PROVE  /\ Decide(r)[p].scen \in Scenarios
           /\ ActionOf(Decide(r)[p].scen) \in Actions
           /\ ActionOf(Decide(r)[p].scen) = "ReprocessChangedBlocked"
                => p[3] \in {"tables", "triggers"}
<1> DEFINE d == Lower[Current(r)]
           in == [exists |-> Exists(d, KeyOf(p)), prior |-> recorded[d][KeyOf(p)],
                  drift |-> FALSE, kind |-> p[3], checksum |-> run[r].seen[p].ver,
                  hasTransitions |-> Decide(r)[p].scripts # {}, parent |-> ParentState(d, p)]
<1>1. Decide(r)[p].scen = ResolvePlanScenario(in)
  BY DecideRows DEF ScenarioOf
<1>2. in.kind = p[3] /\ in.kind \in Kinds /\ in.parent = ParentState(d, p)
  BY DecideRows
<1>3. in.parent \in ParentStates
  BY <1>2 DEF ParentState, ParentStates
<1> HIDE DEF in
<1> QED BY <1>1, <1>2, <1>3, ScenarioKind

\* A script that is planned for a row is authored, of its table and of its directory.
LEMMA DecideScripts ==
    ASSUME NEW r \in Runs, LocalOK(run[r]), NEW p \in DOMAIN Decide(r),
           NEW q \in Decide(r)[p].scripts
    PROVE  /\ q \in Authored(run[r].seen) /\ q \in DOMAIN run[r].seen /\ q \in Paths
           /\ IsTransition(q) /\ ~run[r].seen[q].draft
           /\ run[r].seen[q].ver \in 1 .. MaxVersion
           /\ Database(q) = Current(r) /\ TableKey(q) = KeyOf(p)
<1>1. q \in run[r].ws[p] /\ Database(q) = Current(r) /\ p \in DOMAIN run[r].ws
  BY DecideRows
<1>2. q \in Authored(run[r].seen) /\ TableKey(q) = KeyOf(p)
  BY <1>1, ScanScripts DEF LocalOK
<1>3. q \in DOMAIN run[r].seen /\ IsTransition(q) /\ ~run[r].seen[q].draft
  BY <1>2 DEF Authored
<1> QED BY <1>1, <1>2, <1>3, CheckoutFile DEF LocalOK

LEMMA PlanOfOK ==
    ASSUME NEW r \in Runs, LocalOK(run[r]), run[r].at <= Len(run[r].dbs), NEW gone
    PROVE  /\ PlanOK(PlanOf(r, Decide(r), gone))
           /\ PlanOf(r, Decide(r), gone).some
           /\ \A p \in DOMAIN Decide(r) : \E i \in 1 .. Len(PlanOf(r, Decide(r), gone).rows) :
                 PlanOf(r, Decide(r), gone).rows[i].path = p
<1> DEFINE job == Decide(r)
           n == Cardinality(DOMAIN job)
           paths == SetToSeq(DOMAIN job)
           left(p) == Planned(job, p) \ gone
           row(p) == [db |-> Current(r), path |-> p, action |-> ActionOf(job[p].scen),
                      ver |-> run[r].seen[p].ver, exists |-> job[p].exists]
           plan == PlanOf(r, job, gone)
<1>1. IsFiniteSet(DOMAIN job)
  <2>1. DOMAIN job \subseteq Paths
    BY DecideRows
  <2> HIDE DEF job
  <2> QED BY <2>1, PathAssumption, FS_Subset
<1>2. /\ n \in Nat /\ paths \in [1 .. n -> DOMAIN job]
      /\ \A x \in DOMAIN job : \E i \in 1 .. n : paths[i] = x
  <2> HIDE DEF job
  <2> QED BY <1>1, SetToSeqOrders
<1>3. ASSUME NEW p \in DOMAIN job PROVE row(p) \in Row
  <2>1. job[p].exists \in BOOLEAN
    BY DecideRows DEF Exists
  <2>2. p \in Paths /\ run[r].seen[p].ver \in 1 .. MaxVersion /\ Current(r) \in Tops
    BY DecideRows, CurrentTop
  <2>3. ActionOf(job[p].scen) \in Actions
    BY DecideScenario
  <2> HIDE DEF job
  <2> QED BY <2>1, <2>2, <2>3 DEF Row
<1>4. /\ plan.rows = [i \in DOMAIN paths |-> row(paths[i])]
      /\ plan.some
      /\ \A i \in DOMAIN plan.transitions :
            i \in DOMAIN paths /\ plan.transitions[i] = left(paths[i])
  <2> HIDE DEF job
  <2>1. /\ plan.rows = [i \in DOMAIN paths |-> row(paths[i])]
        /\ plan.some
    BY DEF PlanOf
  <2>2. plan.transitions =
          [i \in {k \in DOMAIN paths : [p \in DOMAIN job |-> left(p)][paths[k]] # {}} |->
              [p \in DOMAIN job |-> left(p)][paths[i]]]
    BY DEF PlanOf
  <2>3. ASSUME NEW i \in DOMAIN plan.transitions
        PROVE  i \in DOMAIN paths /\ plan.transitions[i] = left(paths[i])
    <3> HIDE DEF plan
    <3>1. i \in DOMAIN paths
          /\ plan.transitions[i] = [p \in DOMAIN job |-> left(p)][paths[i]]
      BY <2>2, <2>3
    <3>2. paths[i] \in DOMAIN job
      BY <3>1, <1>2
    <3> QED BY <3>1, <3>2
  <2> QED BY <2>1, <2>3
<1>5. \A p \in DOMAIN job : \A q \in left(p) : Database(q) = Current(r) /\ TableKey(q) = KeyOf(p)
  BY DecideScripts DEF Planned
<1> HIDE DEF job, plan, row, left, paths, n
<1>6. plan.rows \in Seq(Row) /\ Len(plan.rows) = n
  BY <1>2, <1>3, <1>4
<1>7. \A i \in 1 .. n : plan.rows[i].path = paths[i] /\ plan.rows[i].db = Current(r)
  BY <1>2, <1>4 DEF row
<1>8. PlanOK(plan)
  <2>1. ASSUME NEW i \in DOMAIN plan.transitions
        PROVE  /\ i \in 1 .. Len(plan.rows)
               /\ \A q \in plan.transitions[i] :
                     Database(q) = plan.rows[i].db /\ TableKey(q) = KeyOf(plan.rows[i].path)
    BY <1>2, <1>4, <1>5, <1>6, <1>7
  <2> QED BY <1>6, <2>1 DEF PlanOK
<1>9. \A p \in DOMAIN job : \E i \in 1 .. Len(plan.rows) : plan.rows[i].path = p
  BY <1>2, <1>6, <1>7
<1> QED BY <1>4, <1>8, <1>9 DEF plan, job

LEMMA Concatenated ==
    ASSUME NEW S, NEW s \in Seq(S), NEW t \in Seq(S)
    PROVE  /\ s \o t \in Seq(S) /\ Len(s \o t) = Len(s) + Len(t)
           /\ \A i \in 1 .. Len(s) : (s \o t)[i] = s[i]
           /\ \A i \in 1 .. Len(t) : (s \o t)[Len(s) + i] = t[i]
<1>1. s \o t \in Seq(S) /\ Len(s \o t) = Len(s) + Len(t)
  OBVIOUS
<1>2. ASSUME NEW i \in 1 .. Len(s) PROVE (s \o t)[i] = s[i]
  OBVIOUS
<1>3. ASSUME NEW i \in 1 .. Len(t) PROVE (s \o t)[Len(s) + i] = t[i]
  <2>1. Len(s) + i \in 1 .. Len(s) + Len(t) /\ ~(Len(s) + i <= Len(s))
    OBVIOUS
  <2>2. Len(s) + i - Len(s) = i
    OBVIOUS
  <2> QED BY <2>1, <2>2
<1> QED BY <1>1, <1>2, <1>3

\* merge_plan keeps the rows of both plans and the transitions with their rows.
LEMMA MergePlanOK ==
    ASSUME NEW a, PlanOK(a), NEW b, PlanOK(b), b.some
    PROVE  /\ PlanOK(MergePlan(a, b)) /\ MergePlan(a, b).some
           /\ a.some => \A i \in 1 .. Len(a.rows) : /\ i \in 1 .. Len(MergePlan(a, b).rows)
                                                    /\ MergePlan(a, b).rows[i] = a.rows[i]
           /\ \A i \in 1 .. Len(b.rows) : \E j \in 1 .. Len(MergePlan(a, b).rows) :
                 MergePlan(a, b).rows[j] = b.rows[i]
<1>1. CASE ~a.some
  BY <1>1 DEF MergePlan
<1>2. CASE a.some
  <2> DEFINE n == Len(a.rows)
             m == Len(b.rows)
             plan == MergePlan(a, b)
             shifted == [i \in {n + j : j \in DOMAIN b.transitions} |-> b.transitions[i - n]]
  <2>1. a.rows \in Seq(Row) /\ b.rows \in Seq(Row) /\ n \in Nat /\ m \in Nat
    BY DEF PlanOK
  <2>2. /\ plan.some /\ plan.rows = a.rows \o b.rows
        /\ plan.transitions = Over(a.transitions, shifted)
    BY <1>2 DEF MergePlan
  <2> HIDE DEF plan
  <2>3. plan.rows \in Seq(Row) /\ Len(plan.rows) = n + m
    BY <2>1, <2>2, Concatenated
  <2>8. /\ \A i \in 1 .. n : (a.rows \o b.rows)[i] = a.rows[i]
        /\ \A i \in 1 .. m : (a.rows \o b.rows)[n + i] = b.rows[i]
    <3> DEFINE f == a.rows
               g == b.rows
    <3>1. f \in Seq(Row) /\ g \in Seq(Row)
      BY <2>1
    <3> HIDE DEF f, g
    <3>2. /\ \A i \in 1 .. Len(f) : (f \o g)[i] = f[i]
          /\ \A i \in 1 .. Len(g) : (f \o g)[Len(f) + i] = g[i]
      BY <3>1, Concatenated
    <3> QED BY <3>2, Zenon DEF f, g
  <2> HIDE DEF n, m
  <2>4. ASSUME NEW i \in 1 .. n
        PROVE  i \in 1 .. Len(plan.rows) /\ plan.rows[i] = a.rows[i]
    <3>1. plan.rows[i] = a.rows[i]
      BY <2>2, <2>8
    <3>2. i \in 1 .. n + m
      BY <2>1
    <3> QED BY <3>1, <3>2, <2>3
  <2>5. ASSUME NEW i \in 1 .. m
        PROVE  n + i \in 1 .. Len(plan.rows) /\ plan.rows[n + i] = b.rows[i]
    <3>1. plan.rows[n + i] = b.rows[i]
      BY <2>2, <2>8
    <3>2. n + i \in 1 .. n + m
      BY <2>1
    <3> QED BY <3>1, <3>2, <2>3
  <2>6. ASSUME NEW i \in DOMAIN plan.transitions
        PROVE  /\ i \in 1 .. Len(plan.rows)
               /\ \A q \in plan.transitions[i] :
                     Database(q) = plan.rows[i].db /\ TableKey(q) = KeyOf(plan.rows[i].path)
    <3>1. CASE i \in DOMAIN a.transitions
      <4>1. plan.transitions[i] = a.transitions[i]
        BY <2>2, <2>6, <3>1 DEF Over
      <4>2. i \in 1 .. n
        BY <3>1 DEF PlanOK, n
      <4> QED BY <4>1, <4>2, <2>4, <3>1 DEF PlanOK
    <3>2. CASE i \notin DOMAIN a.transitions
      <4>1. i \in DOMAIN shifted /\ plan.transitions[i] = shifted[i]
        BY <2>2, <2>6, <3>2 DEF Over, n
      <4>2. PICK j \in DOMAIN b.transitions : i = n + j
        BY <4>1
      <4>3. j \in 1 .. m
        BY <4>2 DEF PlanOK, m
      <4>4. i - n = j
        BY <4>2, <4>3, <2>1
      <4>5. plan.transitions[i] = b.transitions[j]
        BY <4>1, <4>4
      <4>6. i \in 1 .. Len(plan.rows) /\ plan.rows[i] = b.rows[j]
        BY <4>2, <4>3, <2>5
      <4> QED BY <4>2, <4>5, <4>6 DEF PlanOK
    <3> QED BY <3>1, <3>2
  <2>7. PlanOK(plan)
    BY <2>3, <2>6 DEF PlanOK
  <2> QED BY <2>2, <2>4, <2>5, <2>7 DEF plan, n, m
<1> QED BY <1>1, <1>2

-----------------------------------------------------------------------------
(* The states an invocation can be sent to. *)

LEMMA ReturnFields ==
    ASSUME NEW r \in Runs, DOMAIN run[r] = Fields, NEW c, NEW o \in BOOLEAN
    PROVE  LET s == Return(r, c, o)
           IN  /\ DOMAIN s = Fields /\ s.pc \in {"plan_file", "done"}
               /\ s.exit = c /\ s.ok = o /\ s.plan = IF o THEN run[r].plan ELSE NoPlan
               /\ \A f \in Fields \ {"pc", "exit", "ok", "job", "plan"} : s[f] = run[r][f]
  BY DEF Return, Fields

LEMMA FailsFields ==
    ASSUME NEW r \in Runs, DOMAIN run[r] = Fields, NEW c, Multi(r)
    PROVE  LET s == DatabaseFails(r, c)
           IN  /\ DOMAIN s = Fields /\ s.pc = "next" /\ s.at = run[r].at + 1
               /\ s.code = Worst(run[r].code, c)
               /\ \A f \in Fields \ {"pc", "at", "job", "code"} : s[f] = run[r][f]
  BY DEF DatabaseFails, Fields

LEMMA DoneFields ==
    ASSUME NEW r \in Runs, DOMAIN run[r] = Fields, NEW c, NEW plan
    PROVE  LET s == DatabaseDone(r, c, plan)
           IN  /\ DOMAIN s = Fields /\ s.pc = "next" /\ s.at = run[r].at + 1
               /\ s.code = Worst(run[r].code, c)
               /\ s.plan = MergePlan(run[r].plan, plan)
               /\ s.done = run[r].done \cup (IF c = 0 THEN {Current(r)} ELSE {})
               /\ \A f \in Fields \ {"pc", "at", "job", "code", "plan", "done"} :
                     s[f] = run[r][f]
  BY DEF DatabaseDone, Fields

LEMMA IdleOK == LocalOK(Idle) /\ DOMAIN Idle = Fields
<1>1. DOMAIN Idle = Fields
  BY DEF Idle, Fields
<1>2. /\ Idle.pc = "new" /\ Idle.seen = <<>> /\ Idle.ws = <<>> /\ Idle.dbs = <<>> /\ Idle.at = 1
      /\ Idle.code = 0 /\ Idle.plan = NoPlan
  BY DEF Idle
<1>3. Idle.dbs \in Seq(Tops \ Hidden)
  BY <1>2
<1> QED BY <1>1, <1>2, <1>3, EmptyScan, EmptyPlan DEF LocalOK, Stages

\* What LocalOK asks of the fields, for a state that keeps most of them.
LEMMA LocalKept ==
    ASSUME NEW s, LocalOK(s), NEW t, DOMAIN t = Fields,
           t.pc \in Stages \ {"body"}, t.at \in Nat \ {0}, t.code \in Nat, PlanOK(t.plan),
           t.seen = s.seen, t.ws = s.ws, t.dbs = s.dbs
    PROVE  LocalOK(t)
  BY DEF LocalOK

LEMMA ReturnOK ==
    ASSUME NEW r \in Runs, LocalOK(run[r]), NEW c, NEW o \in BOOLEAN
    PROVE  LocalOK(Return(r, c, o))
<1> DEFINE s == Return(r, c, o)
<1>1. DOMAIN run[r] = Fields /\ run[r].at \in Nat \ {0} /\ run[r].code \in Nat
      /\ PlanOK(run[r].plan)
  BY DEF LocalOK
<1>2. /\ DOMAIN s = Fields /\ s.pc \in {"plan_file", "done"}
      /\ s.plan = IF o THEN run[r].plan ELSE NoPlan
      /\ \A f \in Fields \ {"pc", "exit", "ok", "job", "plan"} : s[f] = run[r][f]
  BY <1>1, ReturnFields
<1>3. /\ s.at = run[r].at /\ s.code = run[r].code /\ s.seen = run[r].seen
      /\ s.ws = run[r].ws /\ s.dbs = run[r].dbs
  BY <1>2 DEF Fields
<1> HIDE DEF s
<1>4. PlanOK(s.plan) /\ s.pc \in Stages \ {"body"}
  BY <1>1, <1>2, EmptyPlan DEF Stages
<1>5. LocalOK(s)
  BY <1>1, <1>2, <1>3, <1>4, LocalKept
<1> QED BY <1>5 DEF s

LEMMA FailsOK ==
    ASSUME NEW r \in Runs, LocalOK(run[r]), NEW c \in Nat
    PROVE  LocalOK(DatabaseFails(r, c))
<1> DEFINE s == DatabaseFails(r, c)
<1>1. DOMAIN run[r] = Fields /\ run[r].at \in Nat \ {0} /\ run[r].code \in Nat
      /\ PlanOK(run[r].plan)
  BY DEF LocalOK
<1>2. CASE Multi(r)
  <2>1. /\ DOMAIN s = Fields /\ s.pc = "next" /\ s.at = run[r].at + 1
        /\ s.code = Worst(run[r].code, c)
        /\ \A f \in Fields \ {"pc", "at", "job", "code"} : s[f] = run[r][f]
    BY <1>1, <1>2, FailsFields
  <2>2. s.plan = run[r].plan /\ s.seen = run[r].seen /\ s.ws = run[r].ws /\ s.dbs = run[r].dbs
    BY <2>1 DEF Fields
  <2> HIDE DEF s
  <2>3. s.at \in Nat \ {0} /\ s.code \in Nat /\ s.pc \in Stages \ {"body"}
    BY <1>1, <2>1, WorstOf DEF Stages
  <2>4. LocalOK(s)
    BY <1>1, <2>1, <2>2, <2>3, LocalKept
  <2> QED BY <2>4 DEF s
<1>3. CASE ~Multi(r)
  BY <1>3, ReturnOK DEF DatabaseFails
<1> QED BY <1>2, <1>3

LEMMA DoneOK ==
    ASSUME NEW r \in Runs, LocalOK(run[r]), NEW c \in Nat, NEW plan, PlanOK(plan), plan.some
    PROVE  LocalOK(DatabaseDone(r, c, plan))
<1> DEFINE s == DatabaseDone(r, c, plan)
<1>1. DOMAIN run[r] = Fields /\ run[r].at \in Nat \ {0} /\ run[r].code \in Nat
      /\ PlanOK(run[r].plan)
  BY DEF LocalOK
<1>2. /\ DOMAIN s = Fields /\ s.pc = "next" /\ s.at = run[r].at + 1
      /\ s.code = Worst(run[r].code, c) /\ s.plan = MergePlan(run[r].plan, plan)
      /\ \A f \in Fields \ {"pc", "at", "job", "code", "plan", "done"} : s[f] = run[r][f]
  BY <1>1, DoneFields
<1>3. s.seen = run[r].seen /\ s.ws = run[r].ws /\ s.dbs = run[r].dbs
  BY <1>2 DEF Fields
<1> HIDE DEF s
<1>4. s.at \in Nat \ {0} /\ s.code \in Nat /\ s.pc \in Stages \ {"body"}
  BY <1>1, <1>2, WorstOf DEF Stages
<1>5. PlanOK(s.plan)
  BY <1>1, <1>2, MergePlanOK
<1>6. LocalOK(s)
  BY <1>1, <1>2, <1>3, <1>4, <1>5, LocalKept
<1> QED BY <1>6 DEF s

-----------------------------------------------------------------------------
(* What a step of one invocation leaves to the others. *)

LEMMA SetRun ==
    ASSUME RunInv, NEW r \in Runs, NEW s, Set(r, s)
    PROVE  /\ DOMAIN run' = Runs /\ run'[r] = s
           /\ \A q \in Runs \ {r} : run'[q] = run[q]
           /\ LocalOK(s) => RunInv'
<1>1. /\ DOMAIN run' = Runs /\ run'[r] = s
      /\ \A q \in Runs \ {r} : run'[q] = run[q]
  BY DEF RunInv, Set
<1>2. LocalOK(s) => \A q \in Runs : LocalOK(run'[q])
  BY <1>1 DEF RunInv
<1> QED BY <1>1, <1>2 DEF RunInv

\* A decision depends on the invocation and on its own database only.
LEMMA DecideKept ==
    ASSUME NEW q \in Runs, run'[q].seen = run[q].seen, run'[q].ws = run[q].ws,
           run'[q].dbs = run[q].dbs, run'[q].at = run[q].at,
           recorded'[Lower[Current(q)]] = recorded[Lower[Current(q)]],
           unmanaged'[Lower[Current(q)]] = unmanaged[Lower[Current(q)]]
    PROVE  Current(q)' = Current(q) /\ Decide(q)' = Decide(q)
<1>1. Current(q)' = Current(q)
  BY DEF Current
<1> DEFINE d == Lower[Current(q)]
           own == ForCatalogDatabase(run[q].seen, run[q].ws, Current(q))
<1>2. \A k : Exists(d, k)' = Exists(d, k)
  BY <1>1 DEF Exists
<1>3. \A p : ParentState(d, p)' = ParentState(d, p)
  BY <1>1, <1>2 DEF ParentState
<1>4. \A p, scripts : ScenarioOf(q, d, p, scripts)' = ScenarioOf(q, d, p, scripts)
  BY <1>1, <1>2, <1>3 DEF ScenarioOf
<1>5. own' = own /\ d' = d
  BY <1>1
<1> QED BY <1>1, <1>2, <1>4, <1>5 DEF Decide

\* A running invocation goes on, or ends without a report.
LEMMA AloneStep ==
    ASSUME RunInv, AloneInv, NEW r \in Runs, Running(r), NEW s, Set(r, s),
           s.alone = run[r].alone, ~s.reported, s.pc \notin {"new", "report_file"},
           UNCHANGED <<planFile, report>>
    PROVE  AloneInv'
<1>1. /\ run'[r] = s
      /\ \A q \in Runs \ {r} : run'[q] = run[q]
  BY SetRun
<1>2. \A q \in Runs : run'[q].alone = run[q].alone
  BY <1>1
<1>3. \A q \in Runs : Running(q)' => Running(q)
  BY <1>1 DEF Running
<1>4. \A q \in Runs : run'[q].reported => run[q].reported
  BY <1>1
<1>5. \A q \in Runs : /\ run'[q].pc = "new" => run[q].pc = "new" /\ run'[q] = run[q]
                      /\ run'[q].pc = "report_file" => run[q].pc = "report_file"
  BY <1>1
<1>6. ReportPairs'
  BY <1>2, <1>4 DEF AloneInv, ReportPairs
<1>7. \A q \in Runs : Running(q)' => ~run'[q].reported
  BY <1>3, <1>4 DEF AloneInv
<1>8. \A p, q \in Runs : p # q /\ Running(p)' /\ Running(q)' => ~run'[p].alone /\ ~run'[q].alone
  BY <1>2, <1>3 DEF AloneInv
<1> QED BY <1>2, <1>5, <1>6, <1>7, <1>8 DEF AloneInv

\* A step of an invocation that holds no lock and leaves the histories alone.
LEMMA LockStep ==
    ASSUME RunInv, LockInv, NEW r \in Runs, run[r].pc # "body", NEW s, Set(r, s), s.pc # "body",
           UNCHANGED <<holder, recorded, unmanaged>>
    PROVE  LockInv'
<1>1. /\ run'[r] = s
      /\ \A q \in Runs \ {r} : run'[q] = run[q]
  BY SetRun
<1>2. \A q \in Runs : run'[q].pc = "body" => q # r /\ run'[q] = run[q]
  BY <1>1
<1>3. \A q \in Runs \ {r} : Current(q)' = Current(q) /\ Decide(q)' = Decide(q)
  BY <1>1, DecideKept
<1>4. ASSUME NEW d \in Catalogs, NEW q \in Runs
      PROVE  holder'[d] = q <=> run'[q].pc = "body" /\ Lower[Current(q)'] = d
  <2>1. CASE q = r
    BY <2>1, <1>1 DEF LockInv
  <2>2. CASE q # r
    BY <2>2, <1>1, <1>3 DEF LockInv
  <2> QED BY <2>1, <2>2
<1>5. \A q \in Runs : run'[q].pc = "body" => run'[q].job = Decide(q)'
  BY <1>2, <1>3 DEF LockInv
<1> QED BY <1>4, <1>5 DEF LockInv

\* An invocation leaves the body of its database, or ends wherever it is, and its locks
\* are free; no other history than that of the database it was in changes.
LEMMA LockLeave ==
    ASSUME RunInv, LockInv, NEW r \in Runs, NEW s, Set(r, s), s.pc # "body",
           holder' = [d \in Catalogs |-> IF holder[d] = r THEN Nobody ELSE holder[d]],
           \A d \in Catalogs : holder[d] # r =>
              recorded'[d] = recorded[d] /\ unmanaged'[d] = unmanaged[d]
    PROVE  LockInv'
<1>1. /\ run'[r] = s
      /\ \A q \in Runs \ {r} : run'[q] = run[q]
  BY SetRun
<1>2. ASSUME NEW q \in Runs \ {r}, run[q].pc = "body"
      PROVE  Current(q)' = Current(q) /\ Decide(q)' = Decide(q)
  <2>1. Lower[Current(q)] \in Catalogs
    BY <1>2, CurrentTop DEF RunInv, LocalOK
  <2>2. holder[Lower[Current(q)]] = q
    BY <2>1, <1>2 DEF LockInv
  <2> QED BY <2>1, <2>2, <1>1, DecideKept
<1>3. holder' \in [Catalogs -> Runs \cup {Nobody}]
  BY DEF LockInv
<1>4. ASSUME NEW d \in Catalogs, NEW q \in Runs
      PROVE  holder'[d] = q <=> run'[q].pc = "body" /\ Lower[Current(q)'] = d
  <2>1. CASE q = r
    BY <2>1, <1>1, RunAssumption DEF LockInv
  <2>2. CASE q # r
    <3>1. run'[q] = run[q] /\ (holder'[d] = q <=> holder[d] = q)
      BY <2>2, <1>1, RunAssumption
    <3>2. CASE run[q].pc = "body"
      BY <3>1, <3>2, <2>2, <1>2 DEF LockInv
    <3>3. CASE run[q].pc # "body"
      BY <3>1, <3>3 DEF LockInv
    <3> QED BY <3>2, <3>3
  <2> QED BY <2>1, <2>2
<1>5. \A q \in Runs : run'[q].pc = "body" => run'[q].job = Decide(q)'
  BY <1>1, <1>2 DEF LockInv
<1> QED BY <1>3, <1>4, <1>5 DEF LockInv

\* release_after_body frees the one lock that the invocation holds.
LEMMA ReleaseFrees ==
    ASSUME RunInv, LockInv, NEW r \in Runs, InBody(r), Release(r)
    PROVE  holder' = [d \in Catalogs |-> IF holder[d] = r THEN Nobody ELSE holder[d]]
<1>1. Lower[Current(r)] \in Catalogs
  BY CurrentTop DEF RunInv, LocalOK, InBody
<1>2. \A d \in Catalogs : holder[d] = r <=> d = Lower[Current(r)]
  BY <1>1 DEF LockInv, InBody
<1> QED BY <1>1, <1>2 DEF Release, LockInv

\* A step that holds no lock, writes no file and records nothing keeps the invariant.
LEMMA OuterStep ==
    ASSUME CommandInv, NEW r \in Runs, Running(r), run[r].pc # "body", NEW s, Set(r, s),
           LocalOK(s), s.alone = run[r].alone, s.reported = run[r].reported,
           s.pc \notin {"new", "report_file", "body"},
           tree' = tree, events' \in 0 .. MaxEvents, server' \subseteq Catalogs,
           UNCHANGED <<holder, recorded, unmanaged, files>>
    PROVE  CommandInv'
<1>1. RunInv'
  BY SetRun DEF CommandInv
<1>2. DataInv'
  BY DEF CommandInv, DataInv, NoLeak
<1>3. LockInv'
  BY LockStep DEF CommandInv
<1>4. FileInv'
  BY DEF CommandInv, FileInv, files
<1>5. AloneInv'
  <2>1. ~s.reported
    BY DEF CommandInv, AloneInv
  <2> QED BY <2>1, AloneStep DEF CommandInv, files
<1> QED BY <1>1, <1>2, <1>3, <1>4, <1>5 DEF CommandInv

-----------------------------------------------------------------------------
(* What a migrate records. *)

LEMMA BodyFacts ==
    ASSUME RunInv, LockInv, NEW r \in Runs, InBody(r)
    PROVE  /\ LocalOK(run[r]) /\ Job(r) = Decide(r) /\ run[r].at <= Len(run[r].dbs)
           /\ Lower[Current(r)] \in Catalogs /\ holder[Lower[Current(r)]] = r
           /\ Current(r) \in Tops \ Hidden /\ run[r].cmd = "migrate"
<1>1. /\ LocalOK(run[r]) /\ run[r].at <= Len(run[r].dbs) /\ run[r].cmd = "migrate"
      /\ Job(r) = Decide(r)
  BY DEF RunInv, LocalOK, LockInv, InBody, Job
<1>2. Lower[Current(r)] \in Catalogs /\ Current(r) \in Tops \ Hidden
  BY <1>1, CurrentTop
<1> QED BY <1>1, <1>2 DEF LockInv, InBody

\* The rows a migrate applies, and what each of them stands for in the history.
LEMMA RecordedFiles ==
    ASSUME RunInv, LockInv, NEW r \in Runs, InBody(r), NEW S \in SUBSET Work(r),
           NEW p \in S \cup UNION {Scripts(r, x) : x \in S}
    PROVE  /\ p \in Paths /\ p \in DOMAIN run[r].seen /\ Id(p) \in Ids
           /\ run[r].seen[p].ver \in 1 .. MaxVersion
           /\ Lower[Database(p)] = Lower[Current(r)]
           /\ \/ p \in S /\ p \in DOMAIN Decide(r) /\ IsObject(p) /\ Id(p) = KeyOf(p)
              \/ IsTransition(p) /\ Id(p) = p /\ ~run[r].seen[p].draft
<1>1. LocalOK(run[r]) /\ Job(r) = Decide(r)
  BY BodyFacts
<1>2. S \subseteq DOMAIN Decide(r)
  BY <1>1 DEF Work
<1>3. CASE p \in S
  <2>1. p \in DOMAIN Decide(r)
    BY <1>2, <1>3
  <2>2. /\ p \in Objects(run[r].seen) /\ p \in Paths /\ IsObject(p)
        /\ run[r].seen[p].ver \in 1 .. MaxVersion
        /\ Lower[Database(p)] = Lower[Current(r)]
    BY <1>1, <2>1, DecideRows
  <2> QED BY <1>3, <2>1, <2>2, ObjectIds DEF Objects
<1>4. CASE p \notin S
  <2>1. PICK x \in S : p \in Scripts(r, x)
    BY <1>4
  <2>2. x \in DOMAIN Decide(r) /\ p \in Decide(r)[x].scripts
    BY <2>1, <1>1, <1>2 DEF Scripts, Planned
  <2>3. /\ p \in DOMAIN run[r].seen /\ p \in Paths /\ IsTransition(p) /\ ~run[r].seen[p].draft
        /\ run[r].seen[p].ver \in 1 .. MaxVersion /\ Database(p) = Current(r)
    BY <1>1, <2>2, DecideScripts
  <2> QED BY <2>3, ObjectIds
<1> QED BY <1>3, <1>4

\* The rows of S become known to the history of the database, with the content that was
\* scanned; nothing else does.
LEMMA RecordEffect ==
    ASSUME RunInv, LockInv, DataInv, NEW r \in Runs, InBody(r), NEW S \in SUBSET Work(r),
           Record(r, S)
    PROVE  LET d   == Lower[Current(r)]
               all == S \cup UNION {Scripts(r, p) : p \in S}
           IN  /\ \A e \in Catalogs \ {d} : recorded'[e] = recorded[e] /\ unmanaged'[e] = unmanaged[e]
               /\ recorded' \in [Catalogs -> [Ids -> 0 .. MaxVersion]]
               /\ unmanaged' \in [Catalogs -> SUBSET ObjectKeys]
               /\ \A i \in Ids :
                     \/ i \notin {Id(p) : p \in all} /\ recorded'[d][i] = recorded[d][i]
                     \/ \E p \in all : Id(p) = i /\ recorded'[d][i] = run[r].seen[p].ver
               /\ unmanaged'[d] = unmanaged[d] \ {Id(p) : p \in all}
<1> DEFINE d == Lower[Current(r)]
           all == S \cup UNION {Scripts(r, p) : p \in S}
           ids == {Id(p) : p \in all}
           new == [i \in ids |-> run[r].seen[CHOOSE p \in all : Id(p) = i].ver]
<1>1. d \in Catalogs
  BY BodyFacts
<1>2. recorded' = [recorded EXCEPT ![d] = Over(new, recorded[d])]
  BY DEF Record
<1>3. unmanaged' = [unmanaged EXCEPT ![d] = unmanaged[d] \ DOMAIN new]
  BY DEF Record
<1>4. DOMAIN new = ids
  OBVIOUS
<1>5. \A p \in all : Id(p) \in Ids /\ run[r].seen[p].ver \in 1 .. MaxVersion
  BY RecordedFiles
<1>6. \A i \in ids : \E p \in all : Id(p) = i /\ new[i] = run[r].seen[p].ver
  <2>1. ASSUME NEW i \in ids PROVE \E p \in all : Id(p) = i /\ new[i] = run[r].seen[p].ver
    <3> DEFINE x == CHOOSE p \in all : Id(p) = i
    <3>1. \E p \in all : Id(p) = i
      OBVIOUS
    <3>2. x \in all /\ Id(x) = i
      BY <3>1, Zenon
    <3>3. new[i] = run[r].seen[x].ver
      OBVIOUS
    <3> HIDE DEF x, new
    <3> QED BY <3>2, <3>3
  <2> QED BY <2>1
<1> HIDE DEF new, d, all
<1>7. ids \subseteq Ids /\ \A i \in ids : new[i] \in 1 .. MaxVersion
  BY <1>5, <1>6
<1>8. recorded \in [Catalogs -> [Ids -> 0 .. MaxVersion]]
      /\ unmanaged \in [Catalogs -> SUBSET ObjectKeys]
  BY DEF DataInv
<1>9. /\ Over(new, recorded[d]) \in [Ids -> 0 .. MaxVersion]
      /\ \A i \in Ids : Over(new, recorded[d])[i] = IF i \in ids THEN new[i] ELSE recorded[d][i]
  <2>1. DOMAIN recorded[d] = Ids /\ \A i \in Ids : recorded[d][i] \in 0 .. MaxVersion
    BY <1>1, <1>8
  <2>2. DOMAIN Over(new, recorded[d]) = Ids
    BY <1>4, <1>7, <2>1 DEF Over
  <2>3. \A i \in Ids : Over(new, recorded[d])[i] = IF i \in ids THEN new[i] ELSE recorded[d][i]
    BY <1>4, <1>7, <2>1 DEF Over
  <2>4. \A i \in Ids : Over(new, recorded[d])[i] \in 0 .. MaxVersion
    BY <2>1, <2>3, <1>7, VersionAssumption
  <2>5. Over(new, recorded[d]) = [i \in Ids |-> Over(new, recorded[d])[i]]
    BY <2>2 DEF Over
  <2> QED BY <2>3, <2>4, <2>5
<1>10. /\ recorded' \in [Catalogs -> [Ids -> 0 .. MaxVersion]]
       /\ recorded'[d] = Over(new, recorded[d])
       /\ \A e \in Catalogs \ {d} : recorded'[e] = recorded[e]
  BY <1>1, <1>2, <1>8, <1>9
<1>11. /\ unmanaged' \in [Catalogs -> SUBSET ObjectKeys]
       /\ unmanaged'[d] = unmanaged[d] \ ids
       /\ \A e \in Catalogs \ {d} : unmanaged'[e] = unmanaged[e]
  BY <1>1, <1>3, <1>4, <1>8
<1>12. \A i \in Ids : \/ i \notin ids /\ recorded'[d][i] = recorded[d][i]
                      \/ \E p \in all : Id(p) = i /\ recorded'[d][i] = run[r].seen[p].ver
  BY <1>6, <1>9, <1>10
<1> QED BY <1>10, <1>11, <1>12 DEF d, all

\* What a migrate records keeps the histories in order: typed, of their own directory
\* and apart from what is not managed.
LEMMA RecordOK ==
    ASSUME RunInv, LockInv, DataInv, NEW r \in Runs, InBody(r), NEW S \in SUBSET Work(r),
           Record(r, S)
    PROVE  /\ \A e \in Catalogs : holder[e] # r =>
                 recorded'[e] = recorded[e] /\ unmanaged'[e] = unmanaged[e]
           /\ unmanaged' \in [Catalogs -> SUBSET ObjectKeys]
           /\ recorded' \in [Catalogs -> [Ids -> 0 .. MaxVersion]]
           /\ \A e \in Catalogs : \A k \in unmanaged'[e] : recorded'[e][k] = 0
           /\ NoLeak'
<1> DEFINE d == Lower[Current(r)]
           all == S \cup UNION {Scripts(r, p) : p \in S}
<1>1. d \in Catalogs /\ holder[d] = r
  BY BodyFacts
<1>2. /\ \A e \in Catalogs \ {d} : recorded'[e] = recorded[e] /\ unmanaged'[e] = unmanaged[e]
      /\ recorded' \in [Catalogs -> [Ids -> 0 .. MaxVersion]]
      /\ unmanaged' \in [Catalogs -> SUBSET ObjectKeys]
      /\ \A i \in Ids : \/ i \notin {Id(p) : p \in all} /\ recorded'[d][i] = recorded[d][i]
                        \/ \E p \in all : Id(p) = i /\ recorded'[d][i] = run[r].seen[p].ver
      /\ unmanaged'[d] = unmanaged[d] \ {Id(p) : p \in all}
  BY RecordEffect
<1>3. \A p \in all : p \in Paths /\ Lower[Database(p)] = d
  BY RecordedFiles
<1> HIDE DEF d, all
<1>4. ASSUME NEW e \in Catalogs, NEW k \in unmanaged'[e] PROVE recorded'[e][k] = 0
  <2>1. CASE e # d
    BY <2>1, <1>2, <1>4 DEF DataInv
  <2>2. CASE e = d
    <3>1. k \in unmanaged[d] /\ k \notin {Id(p) : p \in all} /\ k \in ObjectKeys
      BY <2>2, <1>1, <1>2, <1>4
    <3>2. k \in Ids
      BY <3>1, ObjectIds DEF ObjectKeys
    <3>3. recorded'[d][k] = recorded[d][k]
      BY <3>1, <3>2, <1>2
    <3> QED BY <3>1, <3>3, <2>2, <1>1 DEF DataInv
  <2> QED BY <2>1, <2>2
<1>5. ASSUME NEW e \in Catalogs, NEW i \in Ids, recorded'[e][i] # 0
      PROVE  \E p \in Paths : Id(p) = i /\ Lower[Database(p)] = e
  <2>1. CASE recorded'[e][i] = recorded[e][i]
    BY <2>1, <1>5 DEF DataInv, NoLeak
  <2>2. CASE recorded'[e][i] # recorded[e][i]
    <3>1. e = d
      BY <2>2, <1>2
    <3>2. PICK p \in all : Id(p) = i
      BY <3>1, <2>2, <1>2
    <3> QED BY <3>1, <3>2, <1>3
  <2> QED BY <2>1, <2>2
<1>6. NoLeak'
  BY <1>5 DEF NoLeak
<1> QED BY <1>1, <1>2, <1>4, <1>6

-----------------------------------------------------------------------------
(* The steps of an invocation. *)

\* A state an invocation goes on to, in which it writes no report and holds no lock.
Onward(r, s) ==
    /\ LocalOK(s) /\ s.alone = run[r].alone /\ s.reported = run[r].reported
    /\ s.pc \notin {"new", "report_file", "body"}

LEMMA ReturnOn ==
    ASSUME NEW r \in Runs, LocalOK(run[r]), NEW c, NEW o \in BOOLEAN
    PROVE  Onward(r, Return(r, c, o))
<1> DEFINE s == Return(r, c, o)
<1>1. DOMAIN run[r] = Fields
  BY DEF LocalOK
<1>2. /\ s.pc \in {"plan_file", "done"}
      /\ \A f \in Fields \ {"pc", "exit", "ok", "job", "plan"} : s[f] = run[r][f]
  BY <1>1, ReturnFields
<1>3. s.alone = run[r].alone /\ s.reported = run[r].reported
  BY <1>2 DEF Fields
<1> QED BY <1>2, <1>3, ReturnOK DEF Onward

LEMMA FailsOn ==
    ASSUME NEW r \in Runs, LocalOK(run[r]), NEW c \in Nat
    PROVE  Onward(r, DatabaseFails(r, c))
<1> DEFINE s == DatabaseFails(r, c)
<1>1. DOMAIN run[r] = Fields
  BY DEF LocalOK
<1>2. CASE Multi(r)
  <2>1. /\ s.pc = "next"
        /\ \A f \in Fields \ {"pc", "at", "job", "code"} : s[f] = run[r][f]
    BY <1>1, <1>2, FailsFields
  <2>2. s.alone = run[r].alone /\ s.reported = run[r].reported
    BY <2>1 DEF Fields
  <2> QED BY <2>1, <2>2, FailsOK DEF Onward
<1>3. CASE ~Multi(r)
  BY <1>3, ReturnOn DEF DatabaseFails
<1> QED BY <1>2, <1>3

LEMMA DoneOn ==
    ASSUME NEW r \in Runs, LocalOK(run[r]), run[r].at <= Len(run[r].dbs), NEW c \in Nat, NEW gone
    PROVE  Onward(r, DatabaseDone(r, c, PlanOf(r, Decide(r), gone)))
<1> DEFINE plan == PlanOf(r, Decide(r), gone)
           s == DatabaseDone(r, c, plan)
<1>1. DOMAIN run[r] = Fields
  BY DEF LocalOK
<1>2. PlanOK(plan) /\ plan.some
  BY PlanOfOK
<1> HIDE DEF plan
<1>3. /\ s.pc = "next"
      /\ \A f \in Fields \ {"pc", "at", "job", "code", "plan", "done"} : s[f] = run[r][f]
  BY <1>1, DoneFields
<1>4. s.alone = run[r].alone /\ s.reported = run[r].reported
  BY <1>3 DEF Fields
<1>5. Onward(r, s)
  BY <1>2, <1>3, <1>4, DoneOK DEF Onward
<1> QED BY <1>5 DEF plan

\* A process that is gone.
LEMMA EndOK ==
    ASSUME NEW r \in Runs, NEW pc \in {"done", "killed"}, NEW code, NEW reported \in BOOLEAN
    PROVE  LocalOK(End(r, pc, code, reported))
<1> DEFINE s == End(r, pc, code, reported)
<1>2. LocalOK(Idle) /\ DOMAIN Idle = Fields
  BY IdleOK
<1>3. /\ DOMAIN s = Fields /\ s.pc = pc /\ s.alone = run[r].alone /\ s.exit = code
      /\ s.reported = reported
      /\ \A f \in Fields \ {"pc", "alone", "exit", "reported"} : s[f] = Idle[f]
  BY <1>2 DEF End, Fields
<1>4. /\ s.seen = Idle.seen /\ s.ws = Idle.ws /\ s.dbs = Idle.dbs /\ s.at = Idle.at
      /\ s.code = Idle.code /\ s.plan = Idle.plan /\ s.done = Idle.done
  BY <1>3 DEF Fields
<1>5. Idle.at = 1 /\ Idle.code = 0 /\ Idle.plan = NoPlan /\ Idle.done = {}
  BY DEF Idle
<1>6. s.pc \in Stages \ {"body"}
  BY <1>3 DEF Stages
<1> HIDE DEF s
<1>7. LocalOK(s)
  BY <1>2, <1>3, <1>4, <1>5, <1>6, LocalKept, EmptyPlan
<1> QED BY <1>3, <1>4, <1>5, <1>7 DEF s

\* A step that leaves the locks it had, with or without having recorded something.
LEMMA LeaveStep ==
    ASSUME CommandInv, NEW r \in Runs, Running(r), NEW s, Set(r, s),
           LocalOK(s), s.alone = run[r].alone, ~s.reported,
           s.pc \notin {"new", "report_file", "body"},
           holder' = [d \in Catalogs |-> IF holder[d] = r THEN Nobody ELSE holder[d]],
           \/ UNCHANGED <<recorded, unmanaged>>
           \/ InBody(r) /\ \E S \in SUBSET Work(r) : Record(r, S),
           Checkout(tree'), events' \in 0 .. MaxEvents, server' = server, UNCHANGED files
    PROVE  CommandInv'
<1>1. RunInv'
  BY SetRun DEF CommandInv
<1>2. /\ \A e \in Catalogs : holder[e] # r =>
            recorded'[e] = recorded[e] /\ unmanaged'[e] = unmanaged[e]
      /\ unmanaged' \in [Catalogs -> SUBSET ObjectKeys]
      /\ recorded' \in [Catalogs -> [Ids -> 0 .. MaxVersion]]
      /\ \A e \in Catalogs : \A k \in unmanaged'[e] : recorded'[e][k] = 0
      /\ NoLeak'
  <2>1. CASE UNCHANGED <<recorded, unmanaged>>
    BY <2>1 DEF CommandInv, DataInv, NoLeak
  <2>2. CASE InBody(r) /\ \E S \in SUBSET Work(r) : Record(r, S)
    BY <2>2, RecordOK DEF CommandInv
  <2> QED BY <2>1, <2>2
<1>3. DataInv'
  <2>1. server' \subseteq Catalogs
    BY DEF CommandInv, DataInv
  <2> QED BY <1>2, <2>1 DEF DataInv
<1>4. LockInv'
  BY <1>2, LockLeave DEF CommandInv
<1>5. FileInv'
  BY DEF CommandInv, FileInv, files
<1>6. AloneInv'
  BY AloneStep DEF CommandInv, files
<1> QED BY <1>1, <1>3, <1>4, <1>5, <1>6 DEF CommandInv

\* What the scaffold writes are files a checkout may contain.
LEMMA ScaffoldOK ==
    ASSUME CommandInv, NEW r \in Runs, InBody(r)
    PROVE  Checkout(Scaffold(r))
<1> DEFINE dir(p) == MigrationDir(Current(r), p)
           rows == {p \in DOMAIN Job(r) :
                       /\ ActionOf(Job(r)[p].scen) = "ReprocessChangedBlocked"
                       /\ ~HasNonScaffoldSql(tree, dir(p))}
           new == {Append(dir(p), GenName[PickDraft(tree, p, dir(p))]) : p \in rows}
           gen == [q \in new |-> [ver |-> 1, draft |-> Last(q) = GenName[TRUE]]]
<1>1. Scaffold(r) = Over(tree, gen)
  BY DEF Scaffold
<1>2. /\ LocalOK(run[r]) /\ Job(r) = Decide(r) /\ Current(r) \in Tops \ Hidden
  BY BodyFacts DEF CommandInv
<1>3. ASSUME NEW p \in rows, NEW b \in BOOLEAN PROVE Append(dir(p), GenName[b]) \in Paths
  <2>1. p \in DOMAIN Decide(r) /\ ActionOf(Decide(r)[p].scen) = "ReprocessChangedBlocked"
    BY <1>2, <1>3
  <2>2. p[3] \in {"tables", "triggers"}
    BY <1>2, <2>1, DecideScenario
  <2>3. /\ p \in Objects(run[r].seen) /\ p \in Paths /\ IsObject(p)
        /\ Lower[Database(p)] = Lower[Current(r)]
    BY <1>2, <2>1, DecideRows
  <2>4. {p[1], p[2], p[4]} \cap BadNames = {}
    BY <1>2, <2>3 DEF LocalOK, ScanFails, IllegalName, Objects
  <2>5. PICK q \in Paths : Database(q) = Current(r)
    BY <1>2 DEF Tops
  <2>6. SameDatabase(Database(p), Database(q)) /\ Database(q) \notin Hidden
    BY <1>2, <2>3, <2>5 DEF SameDatabase
  <2> QED BY <2>2, <2>3, <2>4, <2>5, <2>6, GenAssumption
<1>4. new \subseteq Paths
  <2>1. ASSUME NEW p \in rows PROVE PickDraft(tree, p, dir(p)) \in BOOLEAN
    BY DEF PickDraft
  <2> HIDE DEF rows
  <2> QED BY <1>3, <2>1
<1>5. \A q \in new : gen[q] \in Content
  <2> HIDE DEF new
  <2> QED BY VersionAssumption DEF Content
<1>6. DOMAIN gen = new
  OBVIOUS
<1> HIDE DEF gen, new
<1>7. Checkout(tree)
  BY DEF CommandInv, DataInv
<1> QED BY <1>1, <1>4, <1>5, <1>6, <1>7 DEF Over, Checkout

LEMMA EventBound ==
    ASSUME DataInv, Event PROVE events' \in 0 .. MaxEvents
  BY EventAssumption DEF DataInv, Event

LEMMA ConfigureInv ==
    ASSUME CommandInv, NEW r \in Runs, NEW c, NEW e, Configure(r, c, e)
    PROVE  CommandInv'
<1>1. /\ RunInv /\ Checkout(tree)
      /\ \A x \in Runs : DOMAIN run[x] = Fields
  BY DEF CommandInv, DataInv, RunInv, LocalOK
<1>2. /\ DOMAIN run' = Runs
      /\ \A x \in Runs \ {r} :
            run'[x] = [run[x] EXCEPT !.alone = run[x].alone /\ ~Running(x)]
  BY <1>1 DEF Configure
<1>3. \A x \in Runs \ {r} :
         /\ DOMAIN run'[x] = Fields /\ run'[x].alone = (run[x].alone /\ ~Running(x))
         /\ \A f \in Fields \ {"alone"} : run'[x][f] = run[x][f]
  BY <1>1, <1>2 DEF Fields
<1>4. /\ DOMAIN run'[r] = Fields /\ run'[r].pc \in {"done", "discover"}
      /\ run'[r].alone = (\A q \in Runs : ~Running(q))
      /\ run'[r].dbs \in {run[r].dbs, DiscoverCatalogDatabases(tree)}
      /\ \A f \in Fields \ {"cmd", "env", "alone", "pc", "exit", "dbs"} : run'[r][f] = run[r][f]
  BY <1>1 DEF Configure, Fields
<1>5. \A x \in Runs \ {r} : /\ run'[x].pc = run[x].pc /\ run'[x].seen = run[x].seen
                            /\ run'[x].ws = run[x].ws /\ run'[x].dbs = run[x].dbs
                            /\ run'[x].at = run[x].at /\ run'[x].code = run[x].code
                            /\ run'[x].plan = run[x].plan /\ run'[x].cmd = run[x].cmd
                            /\ run'[x].job = run[x].job /\ run'[x].reported = run[x].reported
  BY <1>3 DEF Fields
<1>6. /\ run'[r].seen = run[r].seen /\ run'[r].ws = run[r].ws /\ run'[r].at = run[r].at
      /\ run'[r].code = run[r].code /\ run'[r].plan = run[r].plan
      /\ run'[r].reported = run[r].reported
  BY <1>4 DEF Fields
<1>7. run'[r].dbs \in Seq(Tops \ Hidden)
  BY <1>1, <1>4, DiscoverLists DEF RunInv, LocalOK
<1>8. RunInv'
  <2>1. LocalOK(run'[r])
    BY <1>1, <1>4, <1>6, <1>7 DEF RunInv, LocalOK, Stages
  <2>2. \A x \in Runs \ {r} : LocalOK(run'[x])
    BY <1>1, <1>3, <1>5 DEF RunInv, LocalOK
  <2> QED BY <1>2, <2>1, <2>2 DEF RunInv
<1>9. UNCHANGED <<tree, events, server, recorded, unmanaged, holder, planFile, report, approved>>
  BY DEF Configure, repo, dbState, files
<1>10. DataInv' /\ FileInv'
  BY <1>9 DEF CommandInv, DataInv, NoLeak, FileInv
<1>11. LockInv'
  <2>1. ASSUME NEW q \in Runs \ {r}
        PROVE  Current(q)' = Current(q) /\ Decide(q)' = Decide(q)
    BY <1>5, <1>9, DecideKept
  <2>2. run[r].pc # "body" /\ run'[r].pc # "body"
    BY <1>4 DEF Configure
  <2>3. ASSUME NEW d \in Catalogs, NEW q \in Runs
        PROVE  holder'[d] = q <=> run'[q].pc = "body" /\ Lower[Current(q)'] = d
    <3>1. CASE q = r
      BY <3>1, <2>2, <1>9 DEF CommandInv, LockInv
    <3>2. CASE q # r
      BY <3>2, <2>1, <1>5, <1>9 DEF CommandInv, LockInv
    <3> QED BY <3>1, <3>2
  <2>4. \A q \in Runs : run'[q].pc = "body" => run'[q].job = Decide(q)'
    BY <2>1, <2>2, <1>5 DEF CommandInv, LockInv
  <2> QED BY <2>3, <2>4, <1>9 DEF CommandInv, LockInv
<1>12. AloneInv'
  <2>1. run[r].pc = "new" /\ run[r] = Idle
    BY DEF Configure, CommandInv, AloneInv
  <2>2. run[r].alone /\ ~run[r].reported
    BY <2>1 DEF Idle
  <2>3. \A q \in Runs : ~run[q].alone => ~run'[q].alone
    BY <1>3, <2>2
  <2>4. \A q \in Runs \ {r} : Running(q)' <=> Running(q)
    BY <1>5 DEF Running
  <2>5. \A q \in Runs : run'[q].reported = run[q].reported
    BY <1>5, <1>6
  <2>6. \A q \in Runs : run'[q].pc = "new" => run'[q] = Idle
    <3>1. SUFFICES ASSUME NEW q \in Runs, run'[q].pc = "new" PROVE run'[q] = Idle
      OBVIOUS
    <3>2. q # r
      BY <3>1, <1>4
    <3>3. run[q] = Idle /\ ~Running(q)
      BY <3>1, <3>2, <1>5 DEF CommandInv, AloneInv, Running
    <3>4. Idle.alone /\ DOMAIN Idle = Fields /\ Idle.alone = TRUE
      BY DEF Idle, Fields
    <3>5. run'[q] = [Idle EXCEPT !.alone = TRUE]
      BY <3>2, <3>3, <3>4, <1>2
    <3> QED BY <3>5 DEF Idle
  <2>7. \A q \in Runs : Running(q)' => ~run'[q].reported
    BY <2>2, <2>4, <2>5 DEF CommandInv, AloneInv
  <2>8. \A p, q \in Runs : p # q /\ Running(p)' /\ Running(q)' => ~run'[p].alone /\ ~run'[q].alone
    BY <1>3, <1>4, <2>4
  <2>9. \A q \in Runs : run'[q].pc = "report_file" /\ planFile'.by \notin {q, Nobody} =>
           ~run'[q].alone
    BY <1>4, <1>5, <1>9, <2>3 DEF CommandInv, AloneInv
  <2>10. ReportPairs'
    BY <1>9, <2>3, <2>5 DEF CommandInv, AloneInv, ReportPairs
  <2> QED BY <2>6, <2>7, <2>8, <2>9, <2>10 DEF AloneInv
<1> QED BY <1>8, <1>10, <1>11, <1>12 DEF CommandInv

LEMMA DiscoverInv ==
    ASSUME CommandInv, NEW r \in Runs, Discover(r) PROVE CommandInv'
<1> DEFINE dbs == IF run[r].dbs # <<>> THEN run[r].dbs ELSE DiscoverCatalogDatabases(tree)
           s == IF dbs = <<>> THEN Return(r, ExitConfig, FALSE)
                ELSE [run[r] EXCEPT !.pc = IF Mutates(r) THEN "ensure" ELSE "scan", !.dbs = dbs]
<1>1. Set(r, s) /\ run[r].pc = "discover"
  BY DEF Discover
<1>2. LocalOK(run[r]) /\ Checkout(tree)
  BY DEF CommandInv, RunInv, DataInv
<1>3. dbs \in Seq(Tops \ Hidden)
  BY <1>2, DiscoverLists DEF LocalOK
<1>4. Onward(r, s)
  <2> HIDE DEF dbs
  <2>1. CASE dbs = <<>>
    BY <2>1, <1>2, ReturnOn
  <2>2. CASE dbs # <<>>
    <3>1. /\ DOMAIN s = Fields /\ s.pc \in {"ensure", "scan"} /\ s.dbs = dbs
          /\ s.seen = run[r].seen /\ s.ws = run[r].ws /\ s.at = run[r].at
          /\ s.code = run[r].code /\ s.plan = run[r].plan
          /\ s.alone = run[r].alone /\ s.reported = run[r].reported
      BY <2>2, <1>2 DEF LocalOK, Fields
    <3> HIDE DEF s
    <3>2. LocalOK(s)
      BY <3>1, <1>2, <1>3 DEF LocalOK, Stages
    <3> QED BY <3>1, <3>2 DEF Onward
  <2> QED BY <2>1, <2>2
<1> HIDE DEF s
<1>5. UNCHANGED <<tree, events, server, recorded, unmanaged, holder, files>>
  BY DEF Discover, repo, dbState
<1> QED BY <1>1, <1>4, <1>5, OuterStep DEF Onward, CommandInv, DataInv, Running

LEMMA EnsureInv ==
    ASSUME CommandInv, NEW r \in Runs, Ensure(r) PROVE CommandInv'
<1> DEFINE missing == {i \in DOMAIN run[r].dbs : Lower[run[r].dbs[i]] \notin server}
<1>1. /\ LocalOK(run[r]) /\ run[r].pc = "ensure"
      /\ UNCHANGED <<tree, events, recorded, unmanaged, holder, files>>
  BY DEF Ensure, CommandInv, RunInv, repo
<1>2. CASE missing = {}
  <2> DEFINE s == [run[r] EXCEPT !.pc = "scan"]
  <2>1. Set(r, s) /\ server' = server
    BY <1>2 DEF Ensure, Goto
  <2>2. /\ DOMAIN s = Fields /\ s.pc = "scan" /\ s.dbs = run[r].dbs
        /\ s.seen = run[r].seen /\ s.ws = run[r].ws /\ s.at = run[r].at
        /\ s.code = run[r].code /\ s.plan = run[r].plan
        /\ s.alone = run[r].alone /\ s.reported = run[r].reported
    BY <1>1 DEF LocalOK, Fields
  <2> HIDE DEF s
  <2>3. LocalOK(s)
    BY <2>2, <1>1 DEF LocalOK, Stages
  <2> QED BY <1>1, <2>1, <2>2, <2>3, OuterStep DEF CommandInv, DataInv, Running
<1>3. CASE missing # {}
  <2>1. server' = server \cup {Lower[run[r].dbs[Min(missing)]]} /\ run' = run
    BY <1>3 DEF Ensure
  <2>2. missing \in SUBSET Nat
    BY <1>1 DEF LocalOK
  <2>3. Min(missing) \in DOMAIN run[r].dbs
    BY <1>3, <2>2, MinIn
  <2>4. Lower[run[r].dbs[Min(missing)]] \in Catalogs
    <3> DEFINE i == Min(missing)
    <3>1. run[r].dbs \in Seq(Tops \ Hidden) /\ i \in DOMAIN run[r].dbs
      BY <1>1, <2>3 DEF LocalOK
    <3> HIDE DEF i
    <3>2. run[r].dbs[i] \in Tops
      BY <3>1
    <3> QED BY <3>2, TopCatalog DEF i
  <2>5. DataInv'
    BY <1>1, <2>1, <2>4 DEF CommandInv, DataInv, NoLeak
  <2>6. RunInv'
    BY <2>1 DEF CommandInv, RunInv
  <2>7. LockInv'
    <3>1. \A q \in Runs : Current(q)' = Current(q) /\ Decide(q)' = Decide(q)
      BY <1>1, <2>1, DecideKept
    <3> QED BY <1>1, <2>1, <3>1 DEF CommandInv, LockInv
  <2>8. FileInv' /\ AloneInv'
    BY <1>1, <2>1 DEF CommandInv, FileInv, AloneInv, ReportPairs, Running, files
  <2> QED BY <2>5, <2>6, <2>7, <2>8 DEF CommandInv
<1> QED BY <1>2, <1>3

LEMMA EnsureFailsInv ==
    ASSUME CommandInv, NEW r \in Runs, EnsureFails(r) PROVE CommandInv'
<1>1. /\ LocalOK(run[r]) /\ run[r].pc = "ensure"
      /\ UNCHANGED <<tree, server, recorded, unmanaged, holder, files>>
  BY DEF EnsureFails, CommandInv, RunInv, dbState
<1>2. PICK code \in {ExitConn, ExitSql} : Set(r, Return(r, code, FALSE))
  BY DEF EnsureFails
<1>3. events' \in 0 .. MaxEvents
  BY EventBound DEF EnsureFails, Fault, CommandInv
<1> DEFINE s == Return(r, code, FALSE)
<1>4. Onward(r, s)
  BY <1>1, ReturnOn
<1> HIDE DEF s
<1> QED BY <1>1, <1>2, <1>3, <1>4, OuterStep DEF s, Onward, CommandInv, DataInv, Running

LEMMA ScanInv ==
    ASSUME CommandInv, NEW r \in Runs, Scan(r) PROVE CommandInv'
<1>1. /\ LocalOK(run[r]) /\ run[r].pc = "scan" /\ Checkout(tree)
      /\ UNCHANGED <<tree, events, server, recorded, unmanaged, holder, files>>
  BY DEF Scan, CommandInv, RunInv, DataInv, repo, dbState
<1>2. \E s : Set(r, s) /\ Onward(r, s)
  <2>1. CASE ScanFails(tree)
    BY <2>1, <1>1, ReturnOn DEF Scan
  <2>2. CASE ~ScanFails(tree)
    <3>1. PICK w \in ScanRoot(tree) :
             Set(r, [run[r] EXCEPT !.pc = "next", !.seen = tree, !.ws = w])
      BY <2>2 DEF Scan
    <3> DEFINE s == [run[r] EXCEPT !.pc = "next", !.seen = tree, !.ws = w]
    <3>2. /\ DOMAIN s = Fields /\ s.pc = "next" /\ s.dbs = run[r].dbs
          /\ s.seen = tree /\ s.ws = w /\ s.at = run[r].at
          /\ s.code = run[r].code /\ s.plan = run[r].plan
          /\ s.alone = run[r].alone /\ s.reported = run[r].reported
      BY <1>1 DEF LocalOK, Fields
    <3>3. Set(r, s)
      BY <3>1
    <3> HIDE DEF s
    <3>4. LocalOK(s)
      BY <3>2, <1>1, <2>2 DEF LocalOK, Stages
    <3> QED BY <3>2, <3>3, <3>4 DEF Onward
  <2> QED BY <2>1, <2>2
<1> QED BY <1>1, <1>2, OuterStep DEF Onward, CommandInv, DataInv, Running

LEMMA ExitCodes ==
    {ExitGeneral, ExitConfig, ExitConn, ExitSql, ExitLock, ExitInput, ExitBlocked, ExitSignal}
      \subseteq Nat \ {0}
  BY DEF ExitGeneral, ExitConfig, ExitConn, ExitSql, ExitLock, ExitInput, ExitBlocked, ExitSignal

\* A step of the loop over the databases keeps everything but the invocation.
LEMMA LoopStep ==
    ASSUME CommandInv, NEW r \in Runs, run[r].pc = "next", NEW s, Set(r, s), Onward(r, s),
           events' \in 0 .. MaxEvents,
           UNCHANGED <<tree, server, recorded, unmanaged, holder, files>>
    PROVE  CommandInv'
  BY OuterStep DEF Onward, CommandInv, DataInv, Running

LEMMA SkipDbInv ==
    ASSUME CommandInv, NEW r \in Runs, SkipDb(r) PROVE CommandInv'
<1>1. /\ LocalOK(run[r]) /\ run[r].pc = "next" /\ events' \in 0 .. MaxEvents
      /\ UNCHANGED <<tree, server, recorded, unmanaged, holder, files>>
  BY DEF SkipDb, AtDb, CommandInv, RunInv, DataInv, repo, dbState
<1>2. ASSUME NEW s, DOMAIN s = Fields, s.at = run[r].at + 1,
             \A f \in Fields \ {"at", "missing"} : s[f] = run[r][f]
      PROVE  Onward(r, s)
  <2>1. /\ s.pc = "next" /\ s.dbs = run[r].dbs /\ s.seen = run[r].seen /\ s.ws = run[r].ws
        /\ s.code = run[r].code /\ s.plan = run[r].plan
        /\ s.alone = run[r].alone /\ s.reported = run[r].reported
    BY <1>1, <1>2 DEF Fields
  <2>2. LocalOK(s)
    BY <1>1, <1>2, <2>1 DEF LocalOK, Stages
  <2> QED BY <2>1, <2>2 DEF Onward
<1>3. CASE Set(r, [run[r] EXCEPT !.at = @ + 1])
  <2> DEFINE s == [run[r] EXCEPT !.at = @ + 1]
  <2>1. DOMAIN s = Fields /\ s.at = run[r].at + 1 /\ \A f \in Fields \ {"at"} : s[f] = run[r][f]
    BY <1>1 DEF LocalOK, Fields
  <2> HIDE DEF s
  <2>2. Onward(r, s)
    BY <1>2, <2>1
  <2> QED BY <1>1, <1>3, <2>2, LoopStep DEF s
<1>4. CASE Set(r, [run[r] EXCEPT !.at = @ + 1, !.missing = TRUE])
  <2> DEFINE s == [run[r] EXCEPT !.at = @ + 1, !.missing = TRUE]
  <2>1. /\ DOMAIN s = Fields /\ s.at = run[r].at + 1
        /\ \A f \in Fields \ {"at", "missing"} : s[f] = run[r][f]
    BY <1>1 DEF LocalOK, Fields
  <2> HIDE DEF s
  <2>2. Onward(r, s)
    BY <1>2, <2>1
  <2> QED BY <1>1, <1>4, <2>2, LoopStep DEF s
<1>5. CASE Set(r, DatabaseFails(r, ExitConn))
  BY <1>1, <1>5, FailsOn, LoopStep, ExitCodes
<1> QED BY <1>3, <1>4, <1>5 DEF SkipDb

LEMMA ConnectFailsInv ==
    ASSUME CommandInv, NEW r \in Runs, ConnectFails(r) PROVE CommandInv'
<1>1. /\ LocalOK(run[r]) /\ run[r].pc = "next"
      /\ UNCHANGED <<tree, server, recorded, unmanaged, holder, files>>
  BY DEF ConnectFails, Reachable, AtDb, CommandInv, RunInv, dbState
<1>2. events' \in 0 .. MaxEvents
  BY EventBound DEF ConnectFails, Fault, CommandInv
<1>3. CASE Set(r, Return(r, ExitConn, FALSE))
  BY <1>1, <1>2, <1>3, ReturnOn, LoopStep
<1>4. CASE Set(r, DatabaseFails(r, ExitConn))
  BY <1>1, <1>2, <1>4, FailsOn, LoopStep, ExitCodes
<1> QED BY <1>3, <1>4 DEF ConnectFails

LEMMA InspectInv ==
    ASSUME CommandInv, NEW r \in Runs, Inspect(r) PROVE CommandInv'
<1> DEFINE code == IF run[r].cmd = "validate" /\ IsBlocked(Decide(r)) THEN ExitBlocked ELSE 0
           s == DatabaseDone(r, code, PlanOf(r, Decide(r), {}))
<1>1. /\ LocalOK(run[r]) /\ run[r].pc = "next" /\ events' \in 0 .. MaxEvents
      /\ run[r].at <= Len(run[r].dbs)
      /\ UNCHANGED <<tree, server, recorded, unmanaged, holder, files>>
  BY DEF Inspect, Reachable, AtDb, CommandInv, RunInv, DataInv, repo, dbState
<1>2. Set(r, s)
  BY DEF Inspect
<1>3. code \in Nat
  BY ExitCodes
<1> HIDE DEF code
<1>4. Onward(r, s)
  BY <1>1, <1>3, DoneOn
<1> QED BY <1>1, <1>2, <1>4, LoopStep

LEMMA LockFailsInv ==
    ASSUME CommandInv, NEW r \in Runs, LockFails(r) PROVE CommandInv'
<1>1. /\ LocalOK(run[r]) /\ run[r].pc = "next" /\ events' \in 0 .. MaxEvents
      /\ UNCHANGED <<tree, server, recorded, unmanaged, holder, files>>
  BY DEF LockFails, Reachable, AtDb, CommandInv, RunInv, DataInv, repo, dbState
<1>2. PICK code \in {ExitLock, ExitSql} : Set(r, DatabaseFails(r, code))
  BY DEF LockFails
<1>3. code \in Nat
  BY ExitCodes
<1> QED BY <1>1, <1>2, <1>3, FailsOn, LoopStep

LEMMA FinishInv ==
    ASSUME CommandInv, NEW r \in Runs, Finish(r) PROVE CommandInv'
<1>1. /\ LocalOK(run[r]) /\ run[r].pc = "next" /\ events' \in 0 .. MaxEvents
      /\ UNCHANGED <<tree, server, recorded, unmanaged, holder, files>>
  BY DEF Finish, CommandInv, RunInv, DataInv, repo, dbState
<1>2. \E code, ok : ok \in BOOLEAN /\ Set(r, Return(r, code, ok))
  BY DEF Finish
<1> QED BY <1>1, <1>2, ReturnOn, LoopStep

\* The invocation decides under the lock it just took.
LEMMA LockInvStep ==
    ASSUME CommandInv, NEW r \in Runs, Lock(r) PROVE CommandInv'
<1> DEFINE d == Lower[Current(r)]
           s == [run[r] EXCEPT !.pc = "body", !.job = Decide(r)]
<1>1. /\ LocalOK(run[r]) /\ run[r].pc = "next" /\ run[r].at <= Len(run[r].dbs)
      /\ run[r].cmd = "migrate" /\ holder[d] = Nobody
      /\ holder' = [holder EXCEPT ![d] = r] /\ Set(r, s)
      /\ UNCHANGED <<tree, events, server, recorded, unmanaged, files>>
  BY DEF Lock, Reachable, AtDb, Mutates, CommandInv, RunInv, repo
<1>2. /\ DOMAIN s = Fields /\ s.pc = "body" /\ s.job = Decide(r)
      /\ s.dbs = run[r].dbs /\ s.seen = run[r].seen /\ s.ws = run[r].ws /\ s.at = run[r].at
      /\ s.code = run[r].code /\ s.plan = run[r].plan /\ s.cmd = run[r].cmd
      /\ s.alone = run[r].alone /\ s.reported = run[r].reported
  BY <1>1 DEF LocalOK, Fields
<1> HIDE DEF s
<1>3. LocalOK(s)
  BY <1>1, <1>2 DEF LocalOK, Stages
<1>4. RunInv'
  BY <1>1, <1>3, SetRun DEF CommandInv
<1>5. DataInv' /\ FileInv'
  BY <1>1 DEF CommandInv, DataInv, NoLeak, FileInv, files
<1>6. AloneInv'
  <2>1. Running(r)
    BY <1>1 DEF Running
  <2>2. ~s.reported
    BY <1>2, <2>1 DEF CommandInv, AloneInv
  <2> QED BY <1>1, <1>2, <2>1, <2>2, AloneStep DEF CommandInv, files
<1>7. LockInv'
  <2>1. d \in Catalogs
    BY <1>1, CurrentTop
  <2>2. run'[r] = s /\ \A q \in Runs \ {r} : run'[q] = run[q]
    BY <1>1, SetRun DEF CommandInv
  <2>3. \A q \in Runs : Current(q)' = Current(q) /\ Decide(q)' = Decide(q)
    BY <1>1, <1>2, <2>2, DecideKept
  <2>4. \A e \in Catalogs : holder[e] # r
    BY <1>1 DEF CommandInv, LockInv
  <2>5. holder' \in [Catalogs -> Runs \cup {Nobody}]
    BY <1>1 DEF CommandInv, LockInv
  <2>6. ASSUME NEW e \in Catalogs, NEW q \in Runs
        PROVE  holder'[e] = q <=> run'[q].pc = "body" /\ Lower[Current(q)'] = e
    <3>1. holder'[e] = IF e = d THEN r ELSE holder[e]
      BY <1>1, <2>1 DEF CommandInv, LockInv
    <3>2. CASE q = r
      BY <3>1, <3>2, <2>2, <2>3, <2>4, <1>2
    <3>3. CASE q # r
      <4>1. holder[e] = q <=> run'[q].pc = "body" /\ Lower[Current(q)'] = e
        BY <3>3, <2>2, <2>3 DEF CommandInv, LockInv
      <4> QED BY <3>1, <3>3, <4>1, <1>1, RunAssumption
    <3> QED BY <3>2, <3>3
  <2>7. \A q \in Runs : run'[q].pc = "body" => run'[q].job = Decide(q)'
    BY <1>2, <2>2, <2>3 DEF CommandInv, LockInv
  <2> QED BY <2>5, <2>6, <2>7 DEF LockInv
<1> QED BY <1>4, <1>5, <1>6, <1>7 DEF CommandInv

\* A step out of the body of a database.
LEMMA BodyStep ==
    ASSUME CommandInv, NEW r \in Runs, InBody(r), NEW s, Set(r, s), Onward(r, s), Release(r),
           \/ UNCHANGED <<recorded, unmanaged>>
           \/ \E S \in SUBSET Work(r) : Record(r, S),
           Checkout(tree'), events' \in 0 .. MaxEvents, server' = server, UNCHANGED files
    PROVE  CommandInv'
<1>1. Running(r) /\ ~s.reported
  BY DEF InBody, Running, CommandInv, AloneInv, Onward
<1>2. holder' = [d \in Catalogs |-> IF holder[d] = r THEN Nobody ELSE holder[d]]
  BY ReleaseFrees DEF CommandInv
<1>3. \/ UNCHANGED <<recorded, unmanaged>>
      \/ InBody(r) /\ \E S \in SUBSET Work(r) : Record(r, S)
  OBVIOUS
<1> QED BY <1>1, <1>2, <1>3, LeaveStep DEF Onward

LEMMA MigrateBlockedInv ==
    ASSUME CommandInv, NEW r \in Runs, MigrateBlocked(r) PROVE CommandInv'
<1> DEFINE s == DatabaseDone(r, ExitBlocked, PlanOf(r, Decide(r), {}))
<1>1. InBody(r) /\ tree' = Scaffold(r) /\ Release(r)
      /\ UNCHANGED <<events, server, recorded, unmanaged, files>>
  BY DEF MigrateBlocked
<1>2. LocalOK(run[r]) /\ Job(r) = Decide(r) /\ run[r].at <= Len(run[r].dbs)
  BY <1>1, BodyFacts DEF CommandInv
<1>3. Set(r, s)
  BY <1>2 DEF MigrateBlocked
<1>4. Onward(r, s)
  BY <1>2, DoneOn, ExitCodes
<1> HIDE DEF s
<1> QED BY <1>1, <1>3, <1>4, ScaffoldOK, BodyStep DEF CommandInv, DataInv

LEMMA MigrateRefusedInv ==
    ASSUME CommandInv, NEW r \in Runs, MigrateRefused(r) PROVE CommandInv'
<1>1. InBody(r) /\ Release(r)
      /\ UNCHANGED <<tree, events, server, recorded, unmanaged, files>>
  BY DEF MigrateRefused, repo
<1>2. LocalOK(run[r]) /\ Job(r) = Decide(r) /\ run[r].at <= Len(run[r].dbs)
  BY <1>1, BodyFacts DEF CommandInv
<1>3. \E s : Set(r, s) /\ Onward(r, s)
  <2>1. CASE Set(r, DatabaseDone(r, ExitBlocked, PlanOf(r, Decide(r), {})))
    BY <2>1, <1>2, DoneOn, ExitCodes
  <2>2. CASE Set(r, DatabaseFails(r, ExitInput))
    BY <2>2, <1>2, FailsOn, ExitCodes
  <2> QED BY <1>2, <2>1, <2>2 DEF MigrateRefused
<1> QED BY <1>1, <1>3, BodyStep DEF CommandInv, DataInv

LEMMA MigrateInv ==
    ASSUME CommandInv, NEW r \in Runs, Migrate(r) PROVE CommandInv'
<1> DEFINE s == DatabaseDone(r, 0, PlanOf(r, Decide(r), AppliedBefore(r)))
<1>1. InBody(r) /\ Release(r) /\ Record(r, Work(r)) /\ UNCHANGED <<tree, events, server, files>>
  BY DEF Migrate, Applying, repo
<1>2. LocalOK(run[r]) /\ Job(r) = Decide(r) /\ run[r].at <= Len(run[r].dbs)
  BY <1>1, BodyFacts DEF CommandInv
<1>3. Set(r, s)
  BY <1>2 DEF Migrate
<1>4. Onward(r, s)
  BY <1>2, DoneOn
<1> HIDE DEF s
<1>5. \E S \in SUBSET Work(r) : Record(r, S)
  BY <1>1
<1> QED BY <1>1, <1>3, <1>4, <1>5, BodyStep DEF CommandInv, DataInv

LEMMA MigrateFailsInv ==
    ASSUME CommandInv, NEW r \in Runs, MigrateFails(r) PROVE CommandInv'
<1>1. InBody(r) /\ Release(r) /\ UNCHANGED <<tree, server, files>>
      /\ Set(r, DatabaseFails(r, ExitSql))
  BY DEF MigrateFails, Applying
<1>2. LocalOK(run[r])
  BY <1>1, BodyFacts DEF CommandInv
<1>3. Onward(r, DatabaseFails(r, ExitSql))
  BY <1>2, FailsOn, ExitCodes
<1>4. \E S \in SUBSET Work(r) : Record(r, S)
  BY DEF MigrateFails, Halves
<1>5. events' \in 0 .. MaxEvents
  BY EventBound DEF MigrateFails, Fault, CommandInv
<1> QED BY <1>1, <1>3, <1>4, <1>5, BodyStep DEF CommandInv, DataInv

LEMMA WritePlanInv ==
    ASSUME CommandInv, NEW r \in Runs, WritePlan(r) PROVE CommandInv'
<1> DEFINE s == [run[r] EXCEPT !.pc = "report_file"]
<1>1. /\ LocalOK(run[r]) /\ run[r].pc = "plan_file" /\ Set(r, s)
      /\ UNCHANGED <<tree, events, server, recorded, unmanaged, holder, report, approved>>
  BY DEF WritePlan, Goto, CommandInv, RunInv, repo, dbState
<1>2. /\ DOMAIN s = Fields /\ s.pc = "report_file"
      /\ s.dbs = run[r].dbs /\ s.seen = run[r].seen /\ s.ws = run[r].ws /\ s.at = run[r].at
      /\ s.code = run[r].code /\ s.plan = run[r].plan
      /\ s.alone = run[r].alone /\ s.reported = run[r].reported
  BY <1>1 DEF LocalOK, Fields
<1> HIDE DEF s
<1>3. LocalOK(s)
  BY <1>1, <1>2 DEF LocalOK, Stages
<1>4. RunInv' /\ run'[r] = s /\ \A q \in Runs \ {r} : run'[q] = run[q]
  BY <1>1, <1>3, SetRun DEF CommandInv
<1>5. DataInv'
  BY <1>1 DEF CommandInv, DataInv, NoLeak
<1>6. LockInv'
  BY <1>1, <1>2, LockStep DEF CommandInv
<1>7. planFile'.by \in {r, Nobody} /\ PlanOK(planFile'.plan)
  BY <1>1, EmptyPlan DEF WritePlan, NoFile, LocalOK
<1>8. FileInv'
  BY <1>1, <1>7 DEF CommandInv, FileInv
<1>9. AloneInv'
  <2>1. Running(r) /\ ~run[r].reported
    BY <1>1 DEF Running, CommandInv, AloneInv
  <2>2. \A q \in Runs : /\ run'[q].alone = run[q].alone /\ run'[q].reported = run[q].reported
                        /\ Running(q)' <=> Running(q)
    BY <1>1, <1>2, <1>4 DEF Running
  <2>3. \A q \in Runs : run'[q].pc = "new" => run'[q] = Idle
    BY <1>2, <1>4 DEF CommandInv, AloneInv
  <2>4. ASSUME NEW q \in Runs, run'[q].pc = "report_file", planFile'.by \notin {q, Nobody}
        PROVE  ~run'[q].alone
    <3>1. q # r /\ run[q].pc = "report_file"
      BY <2>4, <1>4, <1>7
    <3>2. Running(q)
      BY <3>1 DEF Running
    <3> QED BY <2>1, <2>2, <3>1, <3>2 DEF CommandInv, AloneInv
  <2>5. ReportPairs'
    BY <1>7, <2>1, <2>2, RunAssumption DEF ReportPairs
  <2> QED BY <2>2, <2>3, <2>4, <2>5 DEF CommandInv, AloneInv
<1> QED BY <1>4, <1>5, <1>6, <1>8, <1>9 DEF CommandInv

LEMMA WriteReportInv ==
    ASSUME CommandInv, NEW r \in Runs, WriteReport(r) PROVE CommandInv'
<1> DEFINE s == End(r, "done", run[r].exit, TRUE)
<1>1. /\ run[r].pc = "report_file" /\ report'.by = r /\ Set(r, s)
      /\ UNCHANGED <<tree, events, server, recorded, unmanaged, holder, planFile, approved>>
  BY DEF WriteReport, repo, dbState
<1>2. LocalOK(s) /\ s.pc = "done" /\ s.alone = run[r].alone
  <2>1. LocalOK(s)
    BY EndOK
  <2> QED BY <2>1 DEF End, Idle
<1> HIDE DEF s
<1>3. RunInv' /\ run'[r] = s /\ \A q \in Runs \ {r} : run'[q] = run[q]
  BY <1>1, <1>2, SetRun DEF CommandInv
<1>4. DataInv' /\ FileInv'
  BY <1>1 DEF CommandInv, DataInv, NoLeak, FileInv
<1>5. LockInv'
  BY <1>1, <1>2, LockStep DEF CommandInv
<1>6. AloneInv'
  <2>1. ~Running(r)' /\ run'[r].pc \notin {"new", "report_file"}
    BY <1>2, <1>3 DEF Running
  <2>2. \A q \in Runs : run'[q].alone = run[q].alone
    BY <1>2, <1>3
  <2>3. \A q \in Runs \ {r} : Running(q)' <=> Running(q)
    BY <1>3 DEF Running
  <2>4. ReportPairs'
    BY <1>1, <2>2, RunAssumption DEF CommandInv, AloneInv, ReportPairs
  <2>5. \A q \in Runs : run'[q].pc = "new" => run'[q] = Idle
    BY <1>3, <2>1 DEF CommandInv, AloneInv
  <2>6. \A q \in Runs : Running(q)' => ~run'[q].reported
    BY <1>3, <2>1, <2>3 DEF CommandInv, AloneInv
  <2>7. \A p, q \in Runs : p # q /\ Running(p)' /\ Running(q)' => ~run'[p].alone /\ ~run'[q].alone
    BY <2>1, <2>2, <2>3 DEF CommandInv, AloneInv
  <2>8. \A q \in Runs : run'[q].pc = "report_file" /\ planFile'.by \notin {q, Nobody} =>
           ~run'[q].alone
    BY <1>1, <1>3, <2>1, <2>2 DEF CommandInv, AloneInv
  <2> QED BY <2>4, <2>5, <2>6, <2>7, <2>8 DEF AloneInv
<1> QED BY <1>3, <1>4, <1>5, <1>6 DEF CommandInv

LEMMA ReportFailsInv ==
    ASSUME CommandInv, NEW r \in Runs, ReportFails(r) PROVE CommandInv'
<1>1. /\ run[r].pc \in {"plan_file", "report_file"}
      /\ UNCHANGED <<tree, server, recorded, unmanaged, holder, files>>
  BY DEF ReportFails, dbState
<1>2. events' \in 0 .. MaxEvents
  BY EventBound DEF ReportFails, Fault, CommandInv
<1> DEFINE s == End(r, "done", IF run[r].ok THEN ExitGeneral ELSE run[r].exit, FALSE)
<1>3. Set(r, s)
  BY DEF ReportFails
<1>4. LocalOK(s) /\ s.pc = "done" /\ s.alone = run[r].alone /\ ~s.reported
  <2>1. LocalOK(s)
    BY EndOK
  <2> QED BY <2>1 DEF End, Idle
<1> HIDE DEF s
<1>5. RunInv'
  BY <1>3, <1>4, SetRun DEF CommandInv
<1>6. DataInv' /\ FileInv'
  BY <1>1, <1>2 DEF CommandInv, DataInv, NoLeak, FileInv, files
<1>7. LockInv'
  BY <1>1, <1>3, <1>4, LockStep DEF CommandInv
<1>8. AloneInv'
  BY <1>1, <1>3, <1>4, AloneStep DEF CommandInv, Running, files
<1> QED BY <1>5, <1>6, <1>7, <1>8 DEF CommandInv

\* What a process that goes away leaves in the databases.
LEMMA AbandonEffect ==
    ASSUME NEW r \in Runs, Abandon(r)
    PROVE  /\ holder' = [d \in Catalogs |-> IF holder[d] = r THEN Nobody ELSE holder[d]]
           /\ \/ UNCHANGED <<recorded, unmanaged>>
              \/ Applying(r) /\ InBody(r) /\ \E S \in SUBSET Work(r) : Record(r, S)
  BY DEF Abandon, Applying, Halves

LEMMA SignalInv ==
    ASSUME CommandInv, NEW r \in Runs, Signal(r) PROVE CommandInv'
<1> DEFINE s == Return(r, ExitSignal, FALSE)
<1>1. /\ LocalOK(run[r]) /\ Running(r) /\ ~run[r].reported /\ Abandon(r) /\ Set(r, s)
      /\ UNCHANGED <<tree, server, files>>
  BY DEF Signal, InRunCommand, CommandInv, RunInv, AloneInv
<1>2. events' \in 0 .. MaxEvents
  BY EventBound DEF Signal, Fault, CommandInv
<1>3. Onward(r, s)
  BY <1>1, ReturnOn
<1> HIDE DEF s
<1>4. /\ holder' = [d \in Catalogs |-> IF holder[d] = r THEN Nobody ELSE holder[d]]
      /\ \/ UNCHANGED <<recorded, unmanaged>>
         \/ InBody(r) /\ \E S \in SUBSET Work(r) : Record(r, S)
  BY <1>1, AbandonEffect
<1>5. Checkout(tree')
  BY <1>1 DEF CommandInv, DataInv
<1> QED BY <1>1, <1>2, <1>3, <1>4, <1>5, LeaveStep DEF Onward

LEMMA KillInv ==
    ASSUME CommandInv, NEW r \in Runs, Kill(r) PROVE CommandInv'
<1> DEFINE s == End(r, "killed", run[r].exit, FALSE)
<1>1. /\ Running(r) /\ Abandon(r) /\ Set(r, s)
      /\ UNCHANGED <<tree, server, files>>
  BY DEF Kill
<1>2. events' \in 0 .. MaxEvents
  BY EventBound DEF Kill, Fault, CommandInv
<1>3. LocalOK(s) /\ s.pc = "killed" /\ s.alone = run[r].alone /\ ~s.reported
  <2>1. LocalOK(s)
    BY EndOK
  <2> QED BY <2>1 DEF End, Idle
<1> HIDE DEF s
<1>4. /\ holder' = [d \in Catalogs |-> IF holder[d] = r THEN Nobody ELSE holder[d]]
      /\ \/ UNCHANGED <<recorded, unmanaged>>
         \/ InBody(r) /\ \E S \in SUBSET Work(r) : Record(r, S)
  BY <1>1, AbandonEffect
<1>5. Checkout(tree')
  BY <1>1 DEF CommandInv, DataInv
<1> QED BY <1>1, <1>2, <1>3, <1>4, <1>5, LeaveStep

-----------------------------------------------------------------------------
(* The team, and the induction. *)

\* A step that only changes the checkout or what is approved.
LEMMA TeamStep ==
    ASSUME CommandInv, Checkout(tree'), events' \in 0 .. MaxEvents,
           approved'.by \in Runs \cup {Nobody},
           UNCHANGED <<server, recorded, unmanaged, holder, planFile, report, run>>
    PROVE  CommandInv'
<1>1. RunInv' /\ DataInv' /\ FileInv'
  BY DEF CommandInv, RunInv, DataInv, NoLeak, FileInv
<1>2. LockInv'
  <2>1. \A q \in Runs : Current(q)' = Current(q) /\ Decide(q)' = Decide(q)
    BY DecideKept
  <2> QED BY <2>1 DEF CommandInv, LockInv
<1>3. AloneInv'
  BY DEF CommandInv, AloneInv, ReportPairs, Running
<1> QED BY <1>1, <1>2, <1>3 DEF CommandInv

LEMMA EditInv ==
    ASSUME CommandInv, NEW t, Checkout(t), Edit(t) PROVE CommandInv'
<1>1. events' \in 0 .. MaxEvents
  BY EventBound DEF Edit, CommandInv
<1> QED BY <1>1, TeamStep DEF Edit, dbState, files, CommandInv, FileInv

LEMMA ChangeFileInv ==
    ASSUME CommandInv, NEW p \in Paths, ChangeFile(p) PROVE CommandInv'
<1> DEFINE t == [tree EXCEPT ![p] = [ver |-> @.ver + 1, draft |-> FALSE]]
<1>1. p \in DOMAIN tree /\ tree[p].ver < MaxVersion /\ Edit(t)
  BY DEF ChangeFile
<1>2. Checkout(tree)
  BY DEF CommandInv, DataInv
<1>3. tree[p].ver \in 1 .. MaxVersion
  BY <1>1, <1>2, CheckoutFile
<1>4. tree[p].ver + 1 \in 1 .. MaxVersion
  BY <1>1, <1>3, VersionAssumption
<1>5. [ver |-> tree[p].ver + 1, draft |-> FALSE] \in Content
  BY <1>4 DEF Content
<1>6. Checkout(t)
  BY <1>1, <1>2, <1>5 DEF Checkout
<1> HIDE DEF t
<1> QED BY <1>1, <1>6, EditInv

LEMMA AddFileInv ==
    ASSUME CommandInv, NEW p \in Paths, AddFile(p) PROVE CommandInv'
<1> DEFINE t == Over(tree, [q \in {p} |-> [ver |-> 1, draft |-> FALSE]])
<1>1. Edit(t)
  BY DEF AddFile
<1>2. Checkout(tree)
  BY DEF CommandInv, DataInv
<1>3. [ver |-> 1, draft |-> FALSE] \in Content
  BY VersionAssumption DEF Content
<1>4. Checkout(t)
  BY <1>2, <1>3 DEF Checkout, Over
<1> HIDE DEF t
<1> QED BY <1>1, <1>4, EditInv

LEMMA RemoveFileInv ==
    ASSUME CommandInv, NEW p \in Paths, RemoveFile(p) PROVE CommandInv'
<1> DEFINE t == Restrict(tree, DOMAIN tree \ {p})
<1>1. Edit(t)
  BY DEF RemoveFile
<1>2. Checkout(tree)
  BY DEF CommandInv, DataInv
<1>3. Checkout(t)
  BY <1>2 DEF Checkout, Restrict
<1> HIDE DEF t
<1> QED BY <1>1, <1>3, EditInv

LEMMA ApproveInv ==
    ASSUME CommandInv, Approve PROVE CommandInv'
  BY TeamStep DEF Approve, repo, dbState, CommandInv, DataInv, FileInv

LEMMA CommandInit == Init => CommandInv
<1> SUFFICES ASSUME Init PROVE CommandInv
  OBVIOUS
<1>1. DOMAIN run = Runs /\ \A r \in Runs : run[r] = Idle
  BY DEF Init
<1>2. RunInv
  BY <1>1, IdleOK DEF RunInv
<1>3. DataInv
  <2>1. Checkout(tree) /\ events \in 0 .. MaxEvents /\ server \subseteq Catalogs
    BY TreeAssumption, EventAssumption, ServerAssumption DEF Init
  <2>2. unmanaged \in [Catalogs -> SUBSET ObjectKeys]
    BY UnmanagedAssumption DEF Init, ObjectKeys
  <2>3. recorded \in [Catalogs -> [Ids -> 0 .. MaxVersion]] /\ NoLeak
    BY DeployedAssumption DEF Init, NoLeak
  <2>4. \A d \in Catalogs : \A k \in unmanaged[d] : recorded[d][k] = 0
    BY DEF Init
  <2> QED BY <2>1, <2>2, <2>3, <2>4 DEF DataInv
<1>4. Idle.pc = "new" /\ ~Idle.reported
  BY DEF Idle
<1>5. LockInv
  BY <1>1, <1>4, RunAssumption DEF Init, LockInv
<1>6. FileInv
  BY EmptyPlan DEF Init, FileInv, NoFile
<1>7. AloneInv
  BY <1>1, <1>4, RunAssumption DEF Init, AloneInv, ReportPairs, Running, NoFile
<1> QED BY <1>2, <1>3, <1>5, <1>6, <1>7 DEF CommandInv

LEMMA CommandStutter == CommandInv /\ UNCHANGED vars => CommandInv'
<1> SUFFICES ASSUME CommandInv, UNCHANGED vars PROVE CommandInv'
  OBVIOUS
<1>1. UNCHANGED <<tree, events, server, recorded, unmanaged, holder, planFile, report, approved, run>>
  BY DEF vars, repo, dbState, files
<1> QED BY <1>1, TeamStep DEF CommandInv, DataInv, FileInv

LEMMA CommandNext == CommandInv /\ Next => CommandInv'
<1> SUFFICES ASSUME CommandInv, Next PROVE CommandInv'
  OBVIOUS
<1>1. ASSUME NEW r \in Runs, NEW c \in Commands, NEW e \in Environments, Configure(r, c, e)
      PROVE  CommandInv'
  BY <1>1, ConfigureInv
<1>2. ASSUME NEW r \in Runs, \/ Discover(r) \/ Ensure(r) \/ EnsureFails(r) \/ Scan(r)
      PROVE  CommandInv'
  BY <1>2, DiscoverInv, EnsureInv, EnsureFailsInv, ScanInv
<1>3. ASSUME NEW r \in Runs,
             \/ SkipDb(r) \/ ConnectFails(r) \/ Inspect(r) \/ Lock(r) \/ LockFails(r) \/ Finish(r)
      PROVE  CommandInv'
  BY <1>3, SkipDbInv, ConnectFailsInv, InspectInv, LockInvStep, LockFailsInv, FinishInv
<1>4. ASSUME NEW r \in Runs,
             \/ MigrateBlocked(r) \/ MigrateRefused(r) \/ Migrate(r) \/ MigrateFails(r)
      PROVE  CommandInv'
  BY <1>4, MigrateBlockedInv, MigrateRefusedInv, MigrateInv, MigrateFailsInv
<1>5. ASSUME NEW r \in Runs,
             \/ WritePlan(r) \/ WriteReport(r) \/ ReportFails(r) \/ Signal(r) \/ Kill(r)
      PROVE  CommandInv'
  BY <1>5, WritePlanInv, WriteReportInv, ReportFailsInv, SignalInv, KillInv
<1>6. ASSUME NEW p \in Paths, \/ ChangeFile(p) \/ AddFile(p) \/ RemoveFile(p)
      PROVE  CommandInv'
  BY <1>6, ChangeFileInv, AddFileInv, RemoveFileInv
<1> QED BY <1>1, <1>2, <1>3, <1>4, <1>5, <1>6, ApproveInv DEF Next

\* The invariant of whole invocations holds in every reachable state, for any number of
\* invocations, databases, files, environments and faults.
LEMMA CommandAlways == Spec => []CommandInv
<1>1. CommandInv /\ [Next]_vars => CommandInv'
  BY CommandNext, CommandStutter
<1> QED BY CommandInit, <1>1, PTL DEF Spec

-----------------------------------------------------------------------------
(* The theorems. *)

\* The state of a command stays well formed, and the deployment lock of a database is
\* held by exactly the invocation in its locked body (with_deploy_lock), whatever the
\* number of invocations, databases, files, environments and faults.
THEOREM CommandTypes == Spec => []TypeOK
<1>1. ObjectKeys \subseteq Ids
  BY ObjectIds DEF ObjectKeys
<1>2. CommandInv => TypeOK
  BY <1>1 DEF CommandInv, DataInv, LockInv, FileInv, TypeOK
<1> QED BY CommandAlways, <1>2, PTL

\* A history holds only objects and transitions of its own directory, although one scan
\* serves all databases, their tables share names and directories may differ only in
\* case (for_catalog_database, relink_transitions_from).
THEOREM HistoriesApart == Spec => []NoLeak
<1>1. CommandInv => NoLeak
  BY DEF CommandInv, DataInv
<1> QED BY CommandAlways, <1>1, PTL

\* However many databases a plan is merged from, the transitions stay with the row of
\* their own table in their own database (merge_plan_into).
THEOREM MergedPlansAligned == Spec => []PlanRowsAligned
<1>1. ASSUME NEW plan, PlanOK(plan)
      PROVE  \A i \in DOMAIN plan.transitions :
                /\ i \in DOMAIN plan.rows
                /\ \A q \in plan.transitions[i] :
                      Database(q) = plan.rows[i].db /\ TableKey(q) = KeyOf(plan.rows[i].path)
  BY <1>1 DEF PlanOK
<1>2. CommandInv => PlanOK(planFile.plan) /\ \A r \in Runs : PlanOK(run[r].plan)
  BY DEF CommandInv, FileInv, RunInv, LocalOK
<1>3. CommandInv => PlanRowsAligned
  BY <1>1, <1>2 DEF PlanRowsAligned
<1> QED BY CommandAlways, <1>3, PTL

\* While invocations do not overlap, the plan and the report on disk come from one run,
\* unless the writer of the plan never got to its report (write_reports); overlapping
\* invocations, crashes and write errors of any number are allowed to happen.
THEOREM ReportsPair == Spec => []ReportPairs
<1>1. CommandInv => ReportPairs
  BY DEF CommandInv, AloneInv
<1> QED BY CommandAlways, <1>1, PTL

\* Only an invocation that applies a plan changes what is recorded or unmanaged.
LEMMA HistoryChange ==
    ASSUME CommandInv, [Next]_vars
    PROVE  \/ UNCHANGED <<recorded, unmanaged>>
           \/ \E r \in Runs : Applying(r) /\ \E S \in SUBSET Work(r) : Record(r, S)
<1>1. CASE UNCHANGED vars
  BY <1>1 DEF vars, dbState
<1>2. ASSUME NEW r \in Runs, NEW c, NEW e, Configure(r, c, e)
      PROVE  UNCHANGED <<recorded, unmanaged>>
  BY <1>2 DEF Configure, dbState
<1>3. ASSUME NEW r \in Runs,
             \/ Discover(r) \/ Ensure(r) \/ EnsureFails(r) \/ Scan(r) \/ SkipDb(r)
             \/ ConnectFails(r) \/ Inspect(r) \/ Lock(r) \/ LockFails(r) \/ Finish(r)
             \/ MigrateBlocked(r) \/ MigrateRefused(r) \/ WritePlan(r) \/ WriteReport(r)
             \/ ReportFails(r)
      PROVE  UNCHANGED <<recorded, unmanaged>>
  BY <1>3 DEF Discover, Ensure, EnsureFails, Scan, SkipDb, ConnectFails, Inspect, Lock,
              LockFails, Finish, MigrateBlocked, MigrateRefused, WritePlan, WriteReport,
              ReportFails, dbState
<1>4. ASSUME NEW r \in Runs, Migrate(r)
      PROVE  Applying(r) /\ \E S \in SUBSET Work(r) : Record(r, S)
  BY <1>4 DEF Migrate
<1>5. ASSUME NEW r \in Runs, MigrateFails(r)
      PROVE  Applying(r) /\ \E S \in SUBSET Work(r) : Record(r, S)
  BY <1>5 DEF MigrateFails, Halves
<1>6. ASSUME NEW r \in Runs, Signal(r) \/ Kill(r)
      PROVE  \/ UNCHANGED <<recorded, unmanaged>>
             \/ Applying(r) /\ \E S \in SUBSET Work(r) : Record(r, S)
  BY <1>6, AbandonEffect DEF Signal, Kill
<1>7. ASSUME NEW p \in Paths, ChangeFile(p) \/ AddFile(p) \/ RemoveFile(p)
      PROVE  UNCHANGED <<recorded, unmanaged>>
  BY <1>7 DEF ChangeFile, AddFile, RemoveFile, Edit, dbState
<1>8. CASE Approve
  BY <1>8 DEF Approve, dbState
<1> QED BY <1>1, <1>2, <1>3, <1>4, <1>5, <1>6, <1>7, <1>8 DEF Next

LEMMA AdoptedHere ==
    ASSUME CommandInv, NEW r \in Runs, Applying(r), NEW S \in SUBSET Work(r), Record(r, S),
           NEW d \in Catalogs, NEW k \in unmanaged[d] \ unmanaged'[d]
    PROVE  holder[d] = r /\ Adopts(r)
<1> DEFINE all == S \cup UNION {Scripts(r, p) : p \in S}
<1>1. RunInv /\ LockInv /\ DataInv /\ InBody(r)
  BY DEF CommandInv, Applying
<1>2. /\ \A e \in Catalogs \ {Lower[Current(r)]} : unmanaged'[e] = unmanaged[e]
      /\ unmanaged'[Lower[Current(r)]] = unmanaged[Lower[Current(r)]] \ {Id(p) : p \in all}
  BY <1>1, RecordEffect
<1>3. d = Lower[Current(r)]
  BY <1>2
<1>4. PICK p \in all : Id(p) = k
  BY <1>2, <1>3
<1>5. /\ p \in Paths
      /\ \/ p \in S /\ p \in DOMAIN Decide(r) /\ IsObject(p) /\ Id(p) = KeyOf(p)
         \/ IsTransition(p) /\ Id(p) = p
  BY <1>1, <1>4, RecordedFiles
<1>6. k \in ObjectKeys /\ recorded[d][k] = 0
  BY <1>1 DEF DataInv
<1>7. ~(IsTransition(p) /\ Id(p) = p)
  BY <1>4, <1>5, <1>6, ObjectIds DEF ObjectKeys
<1>8. p \in DOMAIN Decide(r) /\ KeyOf(p) = k
  BY <1>4, <1>5, <1>7
<1>9. holder[d] = r /\ Job(r) = Decide(r) /\ LocalOK(run[r])
  BY <1>1, <1>3, BodyFacts
<1>10. Decide(r)[p].scen = "Adopt"
  <2>1. Decide(r)[p].scen = ScenarioOf(r, d, p, Decide(r)[p].scripts)
    BY <1>3, <1>8, <1>9, DecideRows
  <2>2. Exists(d, KeyOf(p)) /\ recorded[d][KeyOf(p)] = 0
    BY <1>6, <1>8 DEF Exists
  <2> QED BY <2>1, <2>2 DEF ScenarioOf, ResolvePlanScenario
<1> QED BY <1>8, <1>9, <1>10 DEF Adopts

\* An object that was there before rmig is taken over only by a run whose environment
\* says so, or whose environment is silent and whose file says so (build_config,
\* ensure_adopt_allowed), even when the run fails or is killed half way.
THEOREM AdoptionOnPurpose == Spec => AdoptedOnPurpose
<1> DEFINE A == \A d \in Catalogs : \A k \in unmanaged[d] \ unmanaged'[d] :
                  LET e == run[holder[d]].env
                  IN  e.env.adopt = "yes" \/ (e.env.adopt = "unset" /\ e.file.adopt = "yes")
<1>1. ASSUME CommandInv, [Next]_vars PROVE A
  <2>1. SUFFICES ASSUME NEW d \in Catalogs, NEW k \in unmanaged[d] \ unmanaged'[d]
                 PROVE  LET e == run[holder[d]].env
                        IN  \/ e.env.adopt = "yes"
                            \/ e.env.adopt = "unset" /\ e.file.adopt = "yes"
    OBVIOUS
  <2>2. PICK r \in Runs : Applying(r) /\ \E S \in SUBSET Work(r) : Record(r, S)
    BY <1>1, <2>1, HistoryChange
  <2>3. holder[d] = r /\ Adopts(r)
    BY <1>1, <2>1, <2>2, AdoptedHere
  <2>4. Cfg(r).adopt
    BY <2>2, <2>3 DEF Applying
  <2>5. Get(run[r].env.env.adopt, run[r].env.file.adopt) = "yes"
    BY <2>4 DEF Cfg, BuildConfig
  <2> QED BY <2>3, <2>5 DEF Get
<1>2. CommandInv /\ [Next]_vars => [A]_vars
  BY <1>1
<1> HIDE DEF A
<1>3. []CommandInv /\ [][Next]_vars => [][A]_vars
  BY <1>2, PTL
<1> QED BY CommandAlways, <1>3, PTL DEF Spec, AdoptedOnPurpose, A

\* No migrate runs or records a script that was still a draft when it was scanned
\* (SCAFFOLD_MARK, push_transition_staging), and only the holder of the lock of a
\* database records one.
THEOREM DraftsWait == Spec => DraftsNeverRun
<1> DEFINE A == \A d \in Catalogs, q \in {p \in Paths : IsTransition(p)} :
                  recorded'[d][q] # recorded[d][q] =>
                     holder[d] \in Runs /\ ~run[holder[d]].seen[q].draft
<1>1. ASSUME CommandInv, [Next]_vars PROVE A
  <2>1. SUFFICES ASSUME NEW d \in Catalogs, NEW q \in Paths, IsTransition(q),
                        recorded'[d][q] # recorded[d][q]
                 PROVE  holder[d] \in Runs /\ ~run[holder[d]].seen[q].draft
    OBVIOUS
  <2>2. PICK r \in Runs : Applying(r) /\ \E S \in SUBSET Work(r) : Record(r, S)
    BY <1>1, <2>1, HistoryChange
  <2>3. PICK S \in SUBSET Work(r) : Record(r, S)
    BY <2>2
  <2> DEFINE all == S \cup UNION {Scripts(r, p) : p \in S}
  <2>4. RunInv /\ LockInv /\ DataInv /\ InBody(r)
    BY <1>1, <2>2 DEF CommandInv, Applying
  <2>5. /\ \A e \in Catalogs \ {Lower[Current(r)]} : recorded'[e] = recorded[e]
        /\ \A i \in Ids : \/ recorded'[Lower[Current(r)]][i] = recorded[Lower[Current(r)]][i]
                          \/ \E p \in all : Id(p) = i
    BY <2>3, <2>4, RecordEffect
  <2>6. d = Lower[Current(r)] /\ q \in Ids
    BY <2>1, <2>5, ObjectIds
  <2>7. PICK p \in all : Id(p) = q
    BY <2>1, <2>5, <2>6
  <2>8. /\ p \in Paths
        /\ \/ IsObject(p) /\ Id(p) = KeyOf(p)
           \/ Id(p) = p /\ ~run[r].seen[p].draft
    BY <2>3, <2>4, <2>7, RecordedFiles
  <2>9. p = q /\ ~run[r].seen[p].draft
    BY <2>1, <2>7, <2>8, ObjectIds
  <2> QED BY <2>4, <2>6, <2>9, BodyFacts
<1>2. CommandInv /\ [Next]_vars => [A]_vars
  BY <1>1
<1> HIDE DEF A
<1>3. []CommandInv /\ [][Next]_vars => [][A]_vars
  BY <1>2, PTL
<1> QED BY CommandAlways, <1>3, PTL DEF Spec, DraftsNeverRun, A

-----------------------------------------------------------------------------
(* All databases, or an exit code other than zero. Directories that differ only in *)
(* case are one database with one name, so these theorems are about checkouts      *)
(* without them.                                                                   *)

DistinctDatabases == \A a, b \in Tops : SameDatabase(a, b) => a = b

\* Directory d went well: each object below it is in the plan.
Covered(s, d) ==
    \A p \in Objects(s.seen) : Database(p) = d =>
        d \in s.done /\ \E i \in 1 .. Len(s.plan.rows) : s.plan.rows[i].path = p

\* While nothing failed, every database the loop has passed went well.
LoopOK(s) ==
    /\ s.pc \in {"new", "discover", "ensure", "scan"} => s.at = 1
    /\ ~s.plan.some => Len(s.plan.rows) = 0
    /\ s.pc \in {"next", "body"} /\ s.code = 0 /\ ~s.missing =>
          \A i \in DOMAIN s.dbs : i < s.at => Covered(s, s.dbs[i])
    /\ s.pc = "plan_file" /\ s.exit = 0 => \A i \in DOMAIN s.dbs : Covered(s, s.dbs[i])

LoopInv == \A r \in Runs : LoopOK(run[r])

\* Every object below the current directory is a row of its plan.
LEMMA OwnRows ==
    ASSUME DistinctDatabases, NEW r \in Runs, LocalOK(run[r]), NEW p \in Objects(run[r].seen),
           Database(p) = Current(r)
    PROVE  /\ p \in DOMAIN Decide(r)
           /\ p \in DOMAIN ForCatalogDatabase(run[r].seen, run[r].ws, Current(r))
<1> DEFINE t == run[r].seen
           dirs == {Database(q) : q \in {x \in Objects(t) : SameDatabase(Database(x), Database(p))}}
<1>1. Checkout(t) /\ p \in DOMAIN run[r].ws
  BY ScanRows DEF LocalOK
<1>2. Database(p) \in dirs /\ dirs \subseteq Tops
  BY <1>1 DEF SameDatabase, Objects, Checkout, Tops
<1>3. dirs = {Database(p)}
  <2>1. ASSUME NEW a \in dirs PROVE a = Database(p)
    BY <1>2, <2>1 DEF DistinctDatabases
  <2> QED BY <1>2, <2>1
<1>4. Rank[Database(p)] \in Nat
  BY <1>2, TopRank
<1>5. \E a \in {Database(p)} : \A b \in {Database(p)} : Rank[a] <= Rank[b]
  BY <1>4
<1>6. InternDatabase(t, Database(p)) \in dirs
  BY <1>2, <1>3, <1>5, Zenon DEF InternDatabase
<1>7. InternDatabase(t, Database(p)) = Current(r)
  BY <1>3, <1>6
<1>8. p \in DOMAIN ForCatalogDatabase(t, run[r].ws, Current(r))
  BY <1>1, <1>7 DEF ForCatalogDatabase
<1> QED BY <1>8 DEF Decide

LEMMA ReturnLoop ==
    ASSUME NEW r \in Runs, LocalOK(run[r]), NEW c, c # 0
    PROVE  LoopOK(Return(r, c, FALSE))
<1> DEFINE s == Return(r, c, FALSE)
<1>1. DOMAIN run[r] = Fields
  BY DEF LocalOK
<1>2. s.pc \in {"plan_file", "done"} /\ s.exit = c /\ s.plan = NoPlan
  BY <1>1 DEF Return, Fields
<1> HIDE DEF s
<1>3. LoopOK(s)
  BY <1>2 DEF LoopOK, NoPlan
<1> QED BY <1>3 DEF s

LEMMA FailsLoop ==
    ASSUME NEW r \in Runs, LocalOK(run[r]), LoopOK(run[r]), NEW c \in Nat \ {0}
    PROVE  LoopOK(DatabaseFails(r, c))
<1> DEFINE s == DatabaseFails(r, c)
<1>1. DOMAIN run[r] = Fields /\ run[r].code \in Nat
  BY DEF LocalOK
<1>2. CASE Multi(r)
  <2>1. /\ s.pc = "next" /\ s.code = Worst(run[r].code, c)
        /\ \A f \in Fields \ {"pc", "at", "job", "code"} : s[f] = run[r][f]
    BY <1>1, <1>2, FailsFields
  <2>2. s.plan = run[r].plan
    BY <2>1 DEF Fields
  <2> HIDE DEF s
  <2>3. s.code # 0
    BY <1>1, <2>1, WorstOf
  <2>4. LoopOK(s)
    BY <2>1, <2>2, <2>3 DEF LoopOK
  <2> QED BY <2>4 DEF s
<1>3. CASE ~Multi(r)
  BY <1>3, ReturnLoop DEF DatabaseFails
<1> QED BY <1>2, <1>3

LEMMA DoneLoop ==
    ASSUME DistinctDatabases, NEW r \in Runs, LocalOK(run[r]), LoopOK(run[r]),
           run[r].pc \in {"next", "body"}, run[r].at <= Len(run[r].dbs), NEW c \in Nat, NEW gone
    PROVE  LoopOK(DatabaseDone(r, c, PlanOf(r, Decide(r), gone)))
<1> DEFINE b == PlanOf(r, Decide(r), gone)
           a == run[r].plan
           s == DatabaseDone(r, c, b)
<1>1. DOMAIN run[r] = Fields /\ run[r].at \in Nat \ {0} /\ run[r].code \in Nat /\ PlanOK(a)
      /\ run[r].dbs \in Seq(Tops \ Hidden)
  BY DEF LocalOK
<1>2. /\ PlanOK(b) /\ b.some
      /\ \A p \in DOMAIN Decide(r) : \E i \in 1 .. Len(b.rows) : b.rows[i].path = p
  BY PlanOfOK
<1> HIDE DEF b
<1>3. /\ DOMAIN s = Fields /\ s.pc = "next" /\ s.at = run[r].at + 1
      /\ s.code = Worst(run[r].code, c) /\ s.plan = MergePlan(a, b)
      /\ s.done = run[r].done \cup (IF c = 0 THEN {Current(r)} ELSE {})
      /\ \A f \in Fields \ {"pc", "at", "job", "code", "plan", "done"} : s[f] = run[r][f]
  BY <1>1, DoneFields
<1>4. s.seen = run[r].seen /\ s.dbs = run[r].dbs /\ s.missing = run[r].missing
  BY <1>3 DEF Fields
<1> HIDE DEF s
<1>5. /\ s.plan.some
      /\ a.some => \A i \in 1 .. Len(a.rows) : /\ i \in 1 .. Len(s.plan.rows)
                                               /\ s.plan.rows[i] = a.rows[i]
      /\ \A i \in 1 .. Len(b.rows) : \E j \in 1 .. Len(s.plan.rows) : s.plan.rows[j] = b.rows[i]
  <2> DEFINE m == MergePlan(a, b)
  <2>1. /\ m.some
        /\ a.some => \A i \in 1 .. Len(a.rows) : i \in 1 .. Len(m.rows) /\ m.rows[i] = a.rows[i]
        /\ \A i \in 1 .. Len(b.rows) : \E j \in 1 .. Len(m.rows) : m.rows[j] = b.rows[i]
    <3> HIDE DEF a
    <3> QED BY <1>1, <1>2, MergePlanOK
  <2>2. s.plan = m
    BY <1>3
  <2> HIDE DEF m
  <2> QED BY <2>1, <2>2
<1>6. ASSUME s.code = 0, ~s.missing, NEW i \in DOMAIN s.dbs, i < s.at
      PROVE  Covered(s, s.dbs[i])
  <2>1. run[r].code = 0 /\ c = 0
    <3>1. Worst(run[r].code, c) >= run[r].code /\ Worst(run[r].code, c) >= c
      BY <1>1, WorstOf
    <3>2. Worst(run[r].code, c) = 0
      BY <1>3, <1>6
    <3>3. 0 >= run[r].code /\ 0 >= c
      BY <3>1, <3>2
    <3> QED BY <3>3, <1>1
  <2>2. i \in DOMAIN run[r].dbs /\ s.dbs[i] = run[r].dbs[i] /\ i \in Nat
    BY <1>1, <1>4, <1>6
  <2>3. CASE i < run[r].at
    <3>1. Covered(run[r], run[r].dbs[i])
      BY <1>4, <1>6, <2>1, <2>2, <2>3 DEF LoopOK
    <3>2. ASSUME NEW p \in Objects(s.seen), Database(p) = s.dbs[i]
          PROVE  s.dbs[i] \in s.done /\ \E j \in 1 .. Len(s.plan.rows) : s.plan.rows[j].path = p
      <4>1. /\ s.dbs[i] \in run[r].done
            /\ \E j \in 1 .. Len(a.rows) : a.rows[j].path = p
        BY <3>1, <3>2, <1>4, <2>2 DEF Covered
      <4>2. a.some
        BY <4>1 DEF LoopOK
      <4> QED BY <4>1, <4>2, <1>3, <1>5
    <3> QED BY <3>2 DEF Covered
  <2>4. CASE ~(i < run[r].at)
    <3>1. i = run[r].at
      BY <1>1, <1>3, <1>6, <2>2, <2>4
    <3>2. s.dbs[i] = Current(r)
      BY <3>1, <1>4 DEF Current
    <3>3. ASSUME NEW p \in Objects(s.seen), Database(p) = s.dbs[i]
          PROVE  s.dbs[i] \in s.done /\ \E j \in 1 .. Len(s.plan.rows) : s.plan.rows[j].path = p
      <4>1. p \in DOMAIN Decide(r)
        BY <3>2, <3>3, <1>4, OwnRows
      <4>2. PICK k \in 1 .. Len(b.rows) : b.rows[k].path = p
        BY <4>1, <1>2
      <4>3. PICK j \in 1 .. Len(s.plan.rows) : s.plan.rows[j] = b.rows[k]
        BY <1>5
      <4> QED BY <4>2, <4>3, <2>1, <3>2, <1>3
    <3> QED BY <3>3 DEF Covered
  <2> QED BY <2>3, <2>4
<1>7. LoopOK(s)
  BY <1>3, <1>5, <1>6 DEF LoopOK
<1> QED BY <1>7 DEF s, b

LEMMA LoopSet ==
    ASSUME RunInv, LoopInv, NEW r \in Runs, NEW s, Set(r, s), LoopOK(s) PROVE LoopInv'
<1>1. run'[r] = s /\ \A q \in Runs \ {r} : run'[q] = run[q]
  BY SetRun
<1> QED BY <1>1 DEF LoopInv

LEMMA ConfigureLoop ==
    ASSUME CommandInv, LoopInv, NEW r \in Runs, NEW c, NEW e, Configure(r, c, e)
    PROVE  LoopInv'
<1>1. \A x \in Runs : DOMAIN run[x] = Fields
  BY DEF CommandInv, RunInv, LocalOK
<1>2. ASSUME NEW x \in Runs \ {r} PROVE LoopOK(run'[x])
  <2>1. run'[x] = [run[x] EXCEPT !.alone = run[x].alone /\ ~Running(x)]
    BY <1>1 DEF Configure
  <2>2. /\ run'[x].pc = run[x].pc /\ run'[x].at = run[x].at /\ run'[x].plan = run[x].plan
        /\ run'[x].code = run[x].code /\ run'[x].missing = run[x].missing
        /\ run'[x].dbs = run[x].dbs /\ run'[x].seen = run[x].seen
        /\ run'[x].done = run[x].done /\ run'[x].exit = run[x].exit
    BY <1>1, <2>1 DEF Fields
  <2>3. LoopOK(run[x])
    BY DEF LoopInv
  <2> QED BY <2>2, <2>3 DEF LoopOK, Covered
<1>3. LoopOK(run'[r])
  <2>1. run[r] = Idle
    BY DEF Configure, CommandInv, AloneInv
  <2>2. /\ run'[r].pc \in {"done", "discover"} /\ run'[r].at = run[r].at
        /\ run'[r].plan = run[r].plan
    BY <1>1 DEF Configure, Fields
  <2>3. Idle.at = 1 /\ Idle.plan = NoPlan
    BY DEF Idle
  <2> QED BY <2>1, <2>2, <2>3 DEF LoopOK, NoPlan
<1> QED BY <1>2, <1>3 DEF LoopInv

LEMMA StartLoop ==
    ASSUME CommandInv, LoopInv, NEW r \in Runs,
           \/ Discover(r) \/ Ensure(r) \/ EnsureFails(r) \/ Scan(r)
    PROVE  LoopInv'
<1>1. RunInv /\ LocalOK(run[r]) /\ LoopOK(run[r]) /\ DOMAIN run[r] = Fields
  BY DEF CommandInv, RunInv, LocalOK, LoopInv
<1>2. ASSUME NEW c \in {ExitConfig, ExitConn, ExitSql, ExitInput}, Set(r, Return(r, c, FALSE))
      PROVE  LoopInv'
  <2>1. c # 0
    BY ExitCodes
  <2> QED BY <1>1, <1>2, <2>1, ReturnLoop, LoopSet
<1>3. ASSUME run[r].at = 1, NEW s, Set(r, s), s.pc \in {"ensure", "scan", "next"},
             s.at = run[r].at, s.plan = run[r].plan, s.dbs \in Seq(Tops \ Hidden)
      PROVE  LoopInv'
  <2>1. \A i \in DOMAIN s.dbs : ~(i < s.at)
    BY <1>3
  <2>2. LoopOK(s)
    BY <1>1, <1>3, <2>1 DEF LoopOK
  <2> QED BY <1>1, <1>3, <2>2, LoopSet
<1>4. CASE Discover(r)
  <2> DEFINE dbs == IF run[r].dbs # <<>> THEN run[r].dbs ELSE DiscoverCatalogDatabases(tree)
             s == [run[r] EXCEPT !.pc = IF Mutates(r) THEN "ensure" ELSE "scan", !.dbs = dbs]
  <2>1. run[r].at = 1
    BY <1>1, <1>4 DEF Discover, LoopOK
  <2>2. dbs \in Seq(Tops \ Hidden)
    BY <1>1, DiscoverLists DEF LocalOK, CommandInv, DataInv
  <2>3. Set(r, Return(r, ExitConfig, FALSE)) \/ Set(r, s)
    BY <1>4 DEF Discover
  <2>4. /\ s.pc \in {"ensure", "scan"} /\ s.at = run[r].at /\ s.plan = run[r].plan
        /\ s.dbs = dbs
    BY <1>1 DEF Fields
  <2> HIDE DEF s
  <2> QED BY <2>1, <2>2, <2>3, <2>4, <1>2, <1>3
<1>5. CASE Ensure(r)
  <2> DEFINE s == [run[r] EXCEPT !.pc = "scan"]
  <2>1. run[r].at = 1
    BY <1>1, <1>5 DEF Ensure, LoopOK
  <2>2. Set(r, s) \/ run' = run
    BY <1>5 DEF Ensure, Goto
  <2>3. /\ s.pc = "scan" /\ s.at = run[r].at /\ s.plan = run[r].plan /\ s.dbs = run[r].dbs
    BY <1>1 DEF Fields
  <2> HIDE DEF s
  <2>4. run' = run => LoopInv'
    BY DEF LoopInv
  <2>5. s.dbs \in Seq(Tops \ Hidden)
    BY <1>1, <2>3 DEF LocalOK
  <2> QED BY <2>1, <2>2, <2>3, <2>4, <2>5, <1>3
<1>6. CASE EnsureFails(r)
  BY <1>2, <1>6 DEF EnsureFails
<1>7. CASE Scan(r)
  <2>1. run[r].at = 1
    BY <1>1, <1>7 DEF Scan, LoopOK
  <2>2. CASE ScanFails(tree)
    BY <1>2, <1>7, <2>2 DEF Scan
  <2>3. CASE ~ScanFails(tree)
    <3>1. PICK w \in ScanRoot(tree) :
             Set(r, [run[r] EXCEPT !.pc = "next", !.seen = tree, !.ws = w])
      BY <1>7, <2>3 DEF Scan
    <3> DEFINE s == [run[r] EXCEPT !.pc = "next", !.seen = tree, !.ws = w]
    <3>2. Set(r, s)
      BY <3>1
    <3>3. /\ s.pc = "next" /\ s.at = run[r].at /\ s.plan = run[r].plan /\ s.dbs = run[r].dbs
      BY <1>1 DEF Fields
    <3> HIDE DEF s
    <3>4. s.dbs \in Seq(Tops \ Hidden)
      BY <1>1, <3>3 DEF LocalOK
    <3> QED BY <2>1, <3>2, <3>3, <3>4, <1>3
  <2> QED BY <2>2, <2>3
<1> QED BY <1>4, <1>5, <1>6, <1>7

LEMMA PassLoop ==
    ASSUME DistinctDatabases, CommandInv, LoopInv, NEW r \in Runs,
           \/ SkipDb(r) \/ ConnectFails(r) \/ Inspect(r) \/ Lock(r) \/ LockFails(r) \/ Finish(r)
    PROVE  LoopInv'
<1>1. RunInv /\ LocalOK(run[r]) /\ LoopOK(run[r]) /\ DOMAIN run[r] = Fields
  BY DEF CommandInv, RunInv, LocalOK, LoopInv
<1>2. ASSUME NEW c \in {ExitConn, ExitSql, ExitLock}, Set(r, DatabaseFails(r, c)) PROVE LoopInv'
  <2>1. c \in Nat \ {0}
    BY ExitCodes
  <2> QED BY <1>1, <1>2, <2>1, FailsLoop, LoopSet
<1>3. ASSUME NEW c \in {ExitConn, ExitConfig}, Set(r, Return(r, c, FALSE)) PROVE LoopInv'
  <2>1. c # 0
    BY ExitCodes
  <2> QED BY <1>1, <1>3, <2>1, ReturnLoop, LoopSet
<1>4. CASE SkipDb(r)
  <2>1. run[r].pc = "next" /\ run[r].at <= Len(run[r].dbs)
    BY <1>4 DEF SkipDb, AtDb
  <2>2. CASE Empty(r) /\ Set(r, [run[r] EXCEPT !.at = @ + 1])
    <3> DEFINE s == [run[r] EXCEPT !.at = @ + 1]
    <3>1. /\ s.pc = "next" /\ s.at = run[r].at + 1 /\ s.plan = run[r].plan /\ s.dbs = run[r].dbs
          /\ s.code = run[r].code /\ s.missing = run[r].missing /\ s.seen = run[r].seen
          /\ s.done = run[r].done
      BY <1>1, <2>1 DEF Fields
    <3>2. Set(r, s)
      BY <2>2
    <3> HIDE DEF s
    <3>3. ASSUME s.code = 0, ~s.missing, NEW i \in DOMAIN s.dbs, i < s.at
          PROVE  Covered(s, s.dbs[i])
      <4>1. i \in Nat /\ run[r].at \in Nat
        BY <1>1, <3>1, <3>3 DEF LocalOK
      <4>2. CASE i < run[r].at
        BY <1>1, <2>1, <3>1, <3>3, <4>2 DEF LoopOK, Covered
      <4>3. CASE ~(i < run[r].at)
        <5>1. i = run[r].at
          BY <3>1, <3>3, <4>1, <4>3
        <5>2. s.dbs[i] = Current(r)
          BY <3>1, <5>1 DEF Current
        <5>3. \A p \in Objects(s.seen) : Database(p) # Current(r)
          BY <1>1, <2>2, <3>1, OwnRows DEF Empty
        <5> QED BY <5>2, <5>3 DEF Covered
      <4> QED BY <4>2, <4>3
    <3>4. LoopOK(s)
      BY <1>1, <3>1, <3>3 DEF LoopOK
    <3> QED BY <1>1, <3>2, <3>4, LoopSet
  <2>3. CASE Set(r, [run[r] EXCEPT !.at = @ + 1, !.missing = TRUE])
    <3> DEFINE s == [run[r] EXCEPT !.at = @ + 1, !.missing = TRUE]
    <3>1. s.pc = "next" /\ s.plan = run[r].plan /\ s.missing
      BY <1>1, <2>1 DEF Fields
    <3>2. Set(r, s)
      BY <2>3
    <3> HIDE DEF s
    <3>3. LoopOK(s)
      BY <1>1, <3>1 DEF LoopOK
    <3> QED BY <1>1, <3>2, <3>3, LoopSet
  <2>4. CASE Set(r, DatabaseFails(r, ExitConn))
    BY <1>2, <2>4
  <2> QED BY <1>4, <2>2, <2>3, <2>4 DEF SkipDb
<1>5. CASE ConnectFails(r)
  BY <1>2, <1>3, <1>5 DEF ConnectFails
<1>6. CASE Inspect(r)
  <2> DEFINE c == IF run[r].cmd = "validate" /\ IsBlocked(Decide(r)) THEN ExitBlocked ELSE 0
             s == DatabaseDone(r, c, PlanOf(r, Decide(r), {}))
  <2>1. Set(r, s)
    BY <1>6 DEF Inspect
  <2>2. c \in Nat
    BY ExitCodes
  <2>3. run[r].pc = "next" /\ run[r].at <= Len(run[r].dbs)
    BY <1>6 DEF Inspect, Reachable, AtDb
  <2> HIDE DEF c
  <2>4. LoopOK(s)
    BY <1>1, <2>2, <2>3, DoneLoop
  <2> QED BY <1>1, <2>1, <2>4, LoopSet
<1>7. CASE Lock(r)
  <2> DEFINE s == [run[r] EXCEPT !.pc = "body", !.job = Decide(r)]
  <2>1. Set(r, s) /\ run[r].pc = "next"
    BY <1>7 DEF Lock, Reachable, AtDb
  <2>2. /\ s.pc = "body" /\ s.at = run[r].at /\ s.plan = run[r].plan /\ s.dbs = run[r].dbs
        /\ s.code = run[r].code /\ s.missing = run[r].missing /\ s.seen = run[r].seen
        /\ s.done = run[r].done
    BY <1>1 DEF Fields
  <2> HIDE DEF s
  <2>3. LoopOK(s)
    BY <1>1, <2>1, <2>2 DEF LoopOK, Covered
  <2> QED BY <1>1, <2>1, <2>3, LoopSet
<1>8. CASE LockFails(r)
  <2>1. \E c \in {ExitLock, ExitSql} : Set(r, DatabaseFails(r, c))
    BY <1>8 DEF LockFails
  <2> QED BY <1>2, <2>1
<1>9. CASE Finish(r)
  <2>1. CASE run[r].missing
    BY <1>3, <1>9, <2>1 DEF Finish
  <2>2. CASE ~run[r].missing
    <3> DEFINE s == Return(r, run[r].code, TRUE)
    <3>1. Set(r, s) /\ run[r].pc = "next" /\ run[r].at > Len(run[r].dbs)
      BY <1>9, <2>2 DEF Finish
    <3>2. /\ s.pc \in {"plan_file", "done"} /\ s.exit = run[r].code /\ s.plan = run[r].plan
          /\ s.dbs = run[r].dbs /\ s.seen = run[r].seen /\ s.done = run[r].done
      BY <1>1 DEF Return, Fields
    <3> HIDE DEF s
    <3>3. \A i \in DOMAIN run[r].dbs : i < run[r].at
      <4>1. run[r].dbs \in Seq(Tops \ Hidden) /\ run[r].at \in Nat
        BY <1>1 DEF LocalOK
      <4> QED BY <3>1, <4>1
    <3>4. s.exit = 0 => \A i \in DOMAIN s.dbs : Covered(s, s.dbs[i])
      BY <1>1, <2>2, <3>1, <3>2, <3>3 DEF LoopOK, Covered
    <3>5. LoopOK(s)
      BY <1>1, <3>2, <3>4 DEF LoopOK
    <3> QED BY <1>1, <3>1, <3>5, LoopSet
  <2> QED BY <2>1, <2>2
<1> QED BY <1>4, <1>5, <1>6, <1>7, <1>8, <1>9

LEMMA BodyLoop ==
    ASSUME DistinctDatabases, CommandInv, LoopInv, NEW r \in Runs,
           \/ MigrateBlocked(r) \/ MigrateRefused(r) \/ Migrate(r) \/ MigrateFails(r)
    PROVE  LoopInv'
<1>1. InBody(r)
  BY DEF MigrateBlocked, MigrateRefused, Migrate, MigrateFails, Applying
<1>2. /\ RunInv /\ LocalOK(run[r]) /\ LoopOK(run[r]) /\ run[r].pc = "body"
      /\ run[r].at <= Len(run[r].dbs) /\ Job(r) = Decide(r)
  BY <1>1, BodyFacts DEF CommandInv, LoopInv, InBody
<1>3. ASSUME NEW c \in {0, ExitBlocked}, NEW gone,
             Set(r, DatabaseDone(r, c, PlanOf(r, Decide(r), gone)))
      PROVE  LoopInv'
  <2>1. c \in Nat
    BY ExitCodes
  <2>2. LoopOK(DatabaseDone(r, c, PlanOf(r, Decide(r), gone)))
    BY <1>2, <2>1, DoneLoop
  <2> QED BY <1>2, <1>3, <2>2, LoopSet
<1>4. ASSUME NEW c \in {ExitSql, ExitInput}, Set(r, DatabaseFails(r, c)) PROVE LoopInv'
  <2>1. c \in Nat \ {0}
    BY ExitCodes
  <2> QED BY <1>2, <1>4, <2>1, FailsLoop, LoopSet
<1>5. CASE MigrateBlocked(r)
  BY <1>2, <1>3, <1>5 DEF MigrateBlocked
<1>6. CASE MigrateRefused(r)
  BY <1>2, <1>3, <1>4, <1>6 DEF MigrateRefused
<1>7. CASE Migrate(r)
  BY <1>2, <1>3, <1>7 DEF Migrate
<1>8. CASE MigrateFails(r)
  BY <1>4, <1>8 DEF MigrateFails
<1> QED BY <1>5, <1>6, <1>7, <1>8

LEMMA EndLoop ==
    ASSUME CommandInv, LoopInv, NEW r \in Runs,
           \/ WritePlan(r) \/ WriteReport(r) \/ ReportFails(r) \/ Signal(r) \/ Kill(r)
    PROVE  LoopInv'
<1>1. RunInv /\ LocalOK(run[r]) /\ LoopOK(run[r]) /\ DOMAIN run[r] = Fields
  BY DEF CommandInv, RunInv, LocalOK, LoopInv
<1>2. ASSUME NEW pc \in {"done", "killed"}, NEW c, NEW b \in BOOLEAN, Set(r, End(r, pc, c, b))
      PROVE  LoopInv'
  <2> DEFINE s == End(r, pc, c, b)
  <2>1. s.pc \in {"done", "killed"} /\ s.plan = NoPlan
    BY DEF End, Idle
  <2>2. Set(r, s)
    BY <1>2
  <2> HIDE DEF s
  <2>3. LoopOK(s)
    BY <2>1 DEF LoopOK, NoPlan
  <2> QED BY <1>1, <2>2, <2>3, LoopSet
<1>3. CASE WritePlan(r)
  <2> DEFINE s == [run[r] EXCEPT !.pc = "report_file"]
  <2>1. Set(r, s)
    BY <1>3 DEF WritePlan, Goto
  <2>2. s.pc = "report_file" /\ s.plan = run[r].plan
    BY <1>1 DEF Fields
  <2> HIDE DEF s
  <2>3. LoopOK(s)
    BY <1>1, <2>2 DEF LoopOK
  <2> QED BY <1>1, <2>1, <2>3, LoopSet
<1>4. CASE WriteReport(r)
  BY <1>2, <1>4 DEF WriteReport
<1>5. CASE ReportFails(r)
  BY <1>2, <1>5 DEF ReportFails
<1>6. CASE Kill(r)
  BY <1>2, <1>6 DEF Kill
<1>7. CASE Signal(r)
  BY <1>1, <1>7, ReturnLoop, LoopSet, ExitCodes DEF Signal
<1> QED BY <1>3, <1>4, <1>5, <1>6, <1>7

LEMMA LoopNext ==
    ASSUME DistinctDatabases, CommandInv, LoopInv, [Next]_vars PROVE LoopInv'
<1>1. ASSUME run' = run PROVE LoopInv'
  BY <1>1 DEF LoopInv
<1>2. CASE UNCHANGED vars
  BY <1>1, <1>2 DEF vars
<1>3. ASSUME NEW p \in Paths, \/ ChangeFile(p) \/ AddFile(p) \/ RemoveFile(p)
      PROVE  LoopInv'
  BY <1>1, <1>3 DEF ChangeFile, AddFile, RemoveFile, Edit
<1>4. CASE Approve
  BY <1>1, <1>4 DEF Approve
<1>5. ASSUME NEW r \in Runs, NEW c \in Commands, NEW e \in Environments, Configure(r, c, e)
      PROVE  LoopInv'
  BY <1>5, ConfigureLoop
<1> QED BY <1>2, <1>3, <1>4, <1>5, StartLoop, PassLoop, BodyLoop, EndLoop DEF Next

LEMMA LoopInit == Init => LoopInv
<1>1. Idle.pc = "new" /\ Idle.at = 1 /\ Idle.plan = NoPlan
  BY DEF Idle
<1>2. LoopOK(Idle)
  BY <1>1 DEF LoopOK, NoPlan
<1> QED BY <1>2 DEF Init, LoopInv

\* Exit code 0 of a command over any number of databases means that each one the
\* repository declares went well and that the plan has a row for each of its objects; a
\* failed, blocked, refused or missing database cannot hide behind the others
\* (run_command, exit_code.max).
THEOREM ZeroMeansAll ==
    ASSUME DistinctDatabases
    PROVE  Spec => []ExitZeroMeansAll
<1>1. LoopInv => ExitZeroMeansAll
  <2>1. SUFFICES ASSUME LoopInv, NEW r \in Runs, run[r].pc = "plan_file", run[r].exit = 0,
                        NEW p \in DOMAIN run[r].seen, IsObject(p),
                        NEW i \in DOMAIN run[r].dbs, run[r].dbs[i] = Database(p)
                 PROVE  /\ Database(p) \in run[r].done
                        /\ \E j \in DOMAIN run[r].plan.rows : run[r].plan.rows[j].path = p
    BY DEF ExitZeroMeansAll
  <2>2. Covered(run[r], Database(p)) /\ p \in Objects(run[r].seen)
    BY <2>1 DEF LoopInv, LoopOK, Objects
  <2> QED BY <2>2 DEF Covered
<1>2. CommandInv /\ LoopInv /\ [Next]_vars => LoopInv'
  BY LoopNext
<1> QED BY CommandAlways, LoopInit, <1>1, <1>2, PTL DEF Spec

-----------------------------------------------------------------------------
(* What a migrate that went well has recorded. *)

\* Only a migrate that ran everything counts its database as done.
LEMMA DoneChange ==
    ASSUME CommandInv, [Next]_vars, NEW r \in Runs, Mutates(r),
           NEW d \in run'[r].done \ run[r].done
    PROVE  Migrate(r) /\ d = Current(r)
<1>1. RunInv /\ \A x \in Runs : DOMAIN run[x] = Fields /\ LocalOK(run[x])
  BY DEF CommandInv, RunInv, LocalOK
<1>2. run'[r].done # run[r].done
  OBVIOUS
<1>3. ASSUME NEW x \in Runs, NEW s, Set(x, s), s.done \subseteq run[x].done PROVE FALSE
  BY <1>1, <1>3, SetRun
<1>4. ASSUME NEW x \in Runs, NEW s, Set(x, s), s.done = run[x].done PROVE FALSE
  BY <1>3, <1>4
<1>5. ASSUME NEW x \in Runs, NEW c, NEW o \in BOOLEAN, Set(x, Return(x, c, o)) PROVE FALSE
  <2>1. Return(x, c, o).done = run[x].done
    BY <1>1 DEF Return, Fields
  <2> QED BY <1>4, <1>5, <2>1
<1>6. ASSUME NEW x \in Runs, NEW c, Set(x, DatabaseFails(x, c)) PROVE FALSE
  <2>1. CASE Multi(x)
    <3>1. DatabaseFails(x, c).done = run[x].done
      BY <1>1, <2>1 DEF DatabaseFails, Fields
    <3> QED BY <1>4, <1>6, <3>1
  <2>2. CASE ~Multi(x)
    BY <1>5, <1>6, <2>2 DEF DatabaseFails
  <2> QED BY <2>1, <2>2
<1>7. ASSUME NEW x \in Runs, NEW pc, NEW c, NEW b, Set(x, End(x, pc, c, b)) PROVE FALSE
  <2>1. End(x, pc, c, b).done = {}
    BY DEF End, Idle
  <2> QED BY <1>3, <1>7, <2>1
<1>8. ASSUME NEW x \in Runs, NEW c, NEW plan, Set(x, DatabaseDone(x, c, plan)), c # 0
      PROVE  FALSE
  <2>1. DatabaseDone(x, c, plan).done = run[x].done
    BY <1>1, <1>8 DEF DatabaseDone, Fields
  <2> QED BY <1>4, <1>8, <2>1
<1>9. ASSUME run' = run PROVE FALSE
  BY <1>2, <1>9
<1>10. ASSUME NEW x \in Runs, NEW c, NEW e, Configure(x, c, e) PROVE FALSE
  <2>1. run'[r].done = run[r].done
    BY <1>1, <1>10 DEF Configure, Fields
  <2> QED BY <1>2, <2>1
<1>11. ASSUME NEW x \in Runs, Discover(x) \/ Scan(x) \/ Lock(x) PROVE FALSE
  <2>1. CASE Discover(x)
    <3> DEFINE dbs == IF run[x].dbs # <<>> THEN run[x].dbs ELSE DiscoverCatalogDatabases(tree)
               s == [run[x] EXCEPT !.pc = IF Mutates(x) THEN "ensure" ELSE "scan", !.dbs = dbs]
    <3>1. Set(x, Return(x, ExitConfig, FALSE)) \/ Set(x, s)
      BY <2>1 DEF Discover
    <3>2. s.done = run[x].done
      BY <1>1 DEF Fields
    <3> HIDE DEF s
    <3> QED BY <1>4, <1>5, <3>1, <3>2
  <2>2. CASE Scan(x)
    <3>1. CASE ScanFails(tree)
      BY <1>5, <2>2, <3>1 DEF Scan
    <3>2. CASE ~ScanFails(tree)
      <4>1. PICK w \in ScanRoot(tree) :
               Set(x, [run[x] EXCEPT !.pc = "next", !.seen = tree, !.ws = w])
        BY <2>2, <3>2 DEF Scan
      <4> DEFINE s == [run[x] EXCEPT !.pc = "next", !.seen = tree, !.ws = w]
      <4>2. Set(x, s) /\ s.done = run[x].done
        BY <1>1, <4>1 DEF Fields
      <4> HIDE DEF s
      <4> QED BY <1>4, <4>2
    <3> QED BY <3>1, <3>2
  <2>3. CASE Lock(x)
    <3> DEFINE s == [run[x] EXCEPT !.pc = "body", !.job = Decide(x)]
    <3>1. Set(x, s) /\ s.done = run[x].done
      BY <1>1, <2>3 DEF Lock, Fields
    <3> HIDE DEF s
    <3> QED BY <1>4, <3>1
  <2> QED BY <1>11, <2>1, <2>2, <2>3
<1>12. ASSUME NEW x \in Runs, Ensure(x) \/ WritePlan(x) PROVE FALSE
  <2>1. ASSUME NEW pc PROVE [run[x] EXCEPT !.pc = pc].done = run[x].done
    BY <1>1 DEF Fields
  <2> QED BY <1>4, <1>9, <1>12, <2>1 DEF Ensure, WritePlan, Goto
<1>13. ASSUME NEW x \in Runs, EnsureFails(x) \/ Finish(x) \/ Signal(x) PROVE FALSE
  BY <1>5, <1>13 DEF EnsureFails, Finish, Signal
<1>14. ASSUME NEW x \in Runs, SkipDb(x) PROVE FALSE
  <2>1. /\ [run[x] EXCEPT !.at = @ + 1].done = run[x].done
        /\ [run[x] EXCEPT !.at = @ + 1, !.missing = TRUE].done = run[x].done
    BY <1>1 DEF Fields
  <2> QED BY <1>4, <1>6, <1>14, <2>1 DEF SkipDb
<1>15. ASSUME NEW x \in Runs, ConnectFails(x) \/ LockFails(x) \/ MigrateFails(x) PROVE FALSE
  BY <1>5, <1>6, <1>15 DEF ConnectFails, LockFails, MigrateFails
<1>16. ASSUME NEW x \in Runs, MigrateBlocked(x) \/ MigrateRefused(x) PROVE FALSE
  BY <1>6, <1>8, <1>16, ExitCodes DEF MigrateBlocked, MigrateRefused
<1>17. ASSUME NEW x \in Runs, WriteReport(x) \/ ReportFails(x) \/ Kill(x) PROVE FALSE
  BY <1>7, <1>17 DEF WriteReport, ReportFails, Kill
<1>18. ASSUME NEW p \in Paths, ChangeFile(p) \/ AddFile(p) \/ RemoveFile(p) PROVE FALSE
  BY <1>9, <1>18 DEF ChangeFile, AddFile, RemoveFile, Edit
<1>19. ~Approve
  BY <1>9 DEF Approve
<1>20. ~UNCHANGED vars
  BY <1>9 DEF vars
<1>21. ASSUME NEW x \in Runs, Inspect(x) PROVE FALSE
  <2>1. x # r
    BY <1>21 DEF Inspect
  <2>2. run'[r] = run[r]
    BY <1>1, <1>21, <2>1, SetRun DEF Inspect
  <2> QED BY <1>2, <2>2
<1>22. PICK x \in Runs : Migrate(x)
  BY <1>10, <1>11, <1>12, <1>13, <1>14, <1>15, <1>16, <1>17, <1>18, <1>19, <1>20, <1>21 DEF Next
<1> DEFINE s == DatabaseDone(x, 0, PlanOf(x, Job(x), AppliedBefore(x)))
<1>23. Set(x, s)
  BY <1>22 DEF Migrate
<1>24. s.done = run[x].done \cup {Current(x)}
  BY <1>1 DEF DatabaseDone, Fields
<1> HIDE DEF s
<1>25. run'[x] = s /\ \A q \in Runs \ {x} : run'[q] = run[q]
  BY <1>1, <1>23, SetRun
<1>26. x = r
  BY <1>2, <1>25
<1> QED BY <1>22, <1>24, <1>25, <1>26

\* The scripts of a row are all the authored transitions of its table in the directory.
LEMMA OwnScripts ==
    ASSUME DistinctDatabases, NEW r \in Runs, LocalOK(run[r]), NEW p \in DOMAIN Decide(r),
           Database(p) = Current(r)
    PROVE  Decide(r)[p].scripts = Staging(run[r].seen, Current(r), KeyOf(p))
<1> DEFINE t == run[r].seen
           w == run[r].ws
           d == Current(r)
<1>1. /\ Checkout(t) /\ w \in ScanRoot(t) /\ p \in Objects(t) /\ p \in Paths
      /\ Decide(r)[p].scripts = {q \in w[p] : Database(q) = d}
  BY DecideRows DEF LocalOK
<1>2. \/ w[p] = {} /\ StagedFor(t, p) = {}
      \/ w[p] \in StagedFor(t, p)
  BY <1>1, ScanRows
<1>3. ASSUME NEW q \in DOMAIN t, SameDatabase(Database(q), Database(p)) PROVE Database(q) = d
  <2>1. Database(q) \in Tops /\ Database(p) \in Tops
    BY <1>1 DEF Checkout, Tops
  <2> QED BY <1>3, <2>1 DEF DistinctDatabases
<1>4. \A q \in Staging(t, d, KeyOf(p)) : q \in DOMAIN t /\ Database(q) = d
  BY DEF Staging, Authored
<1>5. CASE w[p] = {} /\ StagedFor(t, p) = {}
  <2>1. Staging(t, d, KeyOf(p)) = {}
    <3>1. SUFFICES ASSUME NEW q \in Staging(t, d, KeyOf(p)) PROVE FALSE
      OBVIOUS
    <3>2. q \in DOMAIN t /\ Database(q) = Database(p)
      BY <1>4, <3>1
    <3>3. q \in {x \in DOMAIN t : SameDatabase(Database(x), Database(p))}
      BY <3>2 DEF SameDatabase
    <3>4. Staging(t, Database(q), KeyOf(p)) \in StagedFor(t, p)
      BY <3>1, <3>2, <3>3, Zenon DEF StagedFor
    <3> QED BY <1>5, <3>4
  <2> QED BY <1>1, <1>5, <2>1
<1>6. CASE w[p] \in StagedFor(t, p)
  <2>1. PICK q \in DOMAIN t : /\ SameDatabase(Database(q), Database(p))
                              /\ w[p] = Staging(t, Database(q), KeyOf(p))
    BY <1>6, Zenon DEF StagedFor
  <2>2. w[p] = Staging(t, d, KeyOf(p))
    BY <1>3, <2>1
  <2> QED BY <1>1, <1>4, <2>2
<1> QED BY <1>2, <1>5, <1>6

\* A table has transitions, a module has none: the kind is part of the key.
LEMMA ModuleScripts ==
    ASSUME NEW t, Checkout(t), NEW p \in Objects(t), p[3] # "tables", NEW d
    PROVE  Staging(t, d, KeyOf(p)) = {}
<1>1. SUFFICES ASSUME NEW q \in Staging(t, d, KeyOf(p)) PROVE FALSE
  OBVIOUS
<1> DEFINE n == Len(q)
<1>2. q \in Paths /\ p \in Paths /\ IsObject(p) /\ IsTransition(q) /\ TableKey(q) = KeyOf(p)
  BY DEF Staging, Authored, Checkout, Objects
<1>3. q \in Seq(DOMAIN Lower) /\ p \in Seq(DOMAIN Lower)
  BY <1>2, PathAssumption
<1>4. n >= 6 /\ q[n - 3] = "tables"
  BY <1>2 DEF IsTransition
<1>5. "tables" \in DOMAIN Lower
  <2>1. n \in Nat /\ n - 3 \in 1 .. n
    BY <1>3, <1>4
  <2>2. q[n - 3] \in DOMAIN Lower
    BY <1>3, <2>1
  <2> QED BY <1>4, <2>2
<1>6. p[3] \in Kinds /\ p[3] \in DOMAIN Lower
  <2>1. Len(p) = 4 /\ p[3] \in Kinds
    BY <1>2 DEF IsObject
  <2>2. p \in [1 .. Len(p) -> DOMAIN Lower]
    BY <1>3
  <2>3. 3 \in 1 .. Len(p)
    BY <2>1
  <2>4. p[3] \in DOMAIN Lower
    BY <2>2, <2>3
  <2> QED BY <2>1, <2>4
<1>7. "tables" \in Kinds
  BY DEF Kinds, TransactionalKinds
<1>8. Lower[p[3]] = p[3] /\ Lower["tables"] = "tables"
  BY <1>5, <1>6, <1>7, LowerAssumption
<1>9. TableKey(q)[2] = Lower["tables"] /\ KeyOf(p)[2] = Lower[p[3]]
  BY DEF TableKey, KeyOf, ObjectKey
<1> QED BY <1>2, <1>8, <1>9

\* The scenarios of a row that does not block.
LEMMA OpenScenario ==
    ASSUME NEW r \in Runs, LocalOK(run[r]), NEW p \in DOMAIN Decide(r), ~IsBlocked(Decide(r))
    PROVE  LET c == Lower[Current(r)]
               scen == Decide(r)[p].scen
               old == recorded[c][KeyOf(p)]
           IN  \/ scen = "Create" /\ old = 0
               \/ scen = "Adopt" /\ KeyOf(p) \in unmanaged[c]
               \/ scen = "SkipUnchanged" /\ old = run[r].seen[p].ver
               \/ scen = "TableReprocess" /\ Decide(r)[p].scripts # {}
               \/ scen \in {"ModuleUpdate", "TriggerUpdateModule"} /\ p[3] # "tables"
<1> DEFINE c == Lower[Current(r)]
           scripts == Decide(r)[p].scripts
           in == [exists |-> Exists(c, KeyOf(p)), prior |-> recorded[c][KeyOf(p)], drift |-> FALSE,
                  kind |-> p[3], checksum |-> run[r].seen[p].ver,
                  hasTransitions |-> scripts # {}, parent |-> ParentState(c, p)]
<1>1. p[3] \in Kinds /\ Decide(r)[p].scen = ResolvePlanScenario(in)
  BY DecideRows DEF ScenarioOf
<1>2. in.parent \in ParentStates
  BY DEF ParentState, ParentStates
<1>3. Decide(r)[p].scen \notin BlockedScenarios
  BY DEF IsBlocked
<1>4. /\ in.exists = Exists(c, KeyOf(p)) /\ in.prior = recorded[c][KeyOf(p)] /\ ~in.drift
      /\ in.kind = p[3] /\ in.checksum = run[r].seen[p].ver
      /\ in.hasTransitions = (scripts # {})
  OBVIOUS
<1> HIDE DEF in
<1>5. CASE ~in.exists
  BY <1>1, <1>4, <1>5 DEF ResolvePlanScenario, Exists
<1>6. CASE in.exists /\ in.prior = 0
  BY <1>1, <1>4, <1>6 DEF ResolvePlanScenario, Exists
<1>7. CASE in.exists /\ in.prior # 0 /\ in.prior = in.checksum
  BY <1>1, <1>4, <1>7 DEF ResolvePlanScenario
<1>8. CASE in.exists /\ in.prior # 0 /\ in.prior # in.checksum
  <2>1. Decide(r)[p].scen = ResolveChanged(in)
    BY <1>1, <1>4, <1>8 DEF ResolvePlanScenario
  <2>2. CASE in.kind = "tables"
    BY <1>3, <1>4, <2>1, <2>2 DEF ResolveChanged, BlockedScenarios
  <2>3. CASE in.kind = "triggers"
    <3>1. Decide(r)[p].scen = ChangedTrigger(in.parent)
      BY <2>1, <2>3 DEF ResolveChanged
    <3>2. Decide(r)[p].scen \in {"ModuleUpdate", "TriggerUpdateModule"} \cup BlockedScenarios
      BY <1>2, <3>1 DEF ChangedTrigger, ChangedDefault, ParentStates, BlockedScenarios, ModuleKinds
    <3> QED BY <1>3, <1>4, <2>3, <3>2
  <2>4. CASE in.kind \notin {"tables", "triggers"}
    <3>1. Decide(r)[p].scen = ChangedDefault(in.kind)
      BY <1>1, <1>4, <2>1, <2>4 DEF ResolveChanged
    <3> QED BY <1>3, <1>4, <2>4, <3>1 DEF ChangedDefault, BlockedScenarios
  <2> QED BY <2>2, <2>3, <2>4
<1> QED BY <1>5, <1>6, <1>7, <1>8

\* What is recorded after execute_plan ran everything, for a row of the directory.
LEMMA MigrateRecords ==
    ASSUME CommandInv, NEW r \in Runs, InBody(r), Record(r, Work(r)), NEW p \in DOMAIN Decide(r)
    PROVE  LET c == Lower[Current(r)]
               k == KeyOf(p)
           IN  /\ p \in Work(r) => recorded'[c][k] = run[r].seen[p].ver
               /\ p \notin Work(r) => recorded'[c][k] = recorded[c][k]
               /\ p \in Work(r) => \A q \in Scripts(r, p) : recorded'[c][q] # 0
               /\ \A i \in Ids : recorded[c][i] # 0 => recorded'[c][i] # 0
<1> DEFINE c == Lower[Current(r)]
           k == KeyOf(p)
           S == Work(r)
           all == S \cup UNION {Scripts(r, x) : x \in S}
           t == run[r].seen
<1>1. RunInv /\ LockInv /\ DataInv /\ S \in SUBSET Work(r) /\ LocalOK(run[r]) /\ c \in Catalogs
  BY BodyFacts DEF CommandInv
<1>2. \A i \in Ids :
         \/ i \notin {Id(x) : x \in all} /\ recorded'[c][i] = recorded[c][i]
         \/ \E x \in all : Id(x) = i /\ recorded'[c][i] = t[x].ver
  BY <1>1, RecordEffect
<1>3. ASSUME NEW x \in all
      PROVE  /\ x \in Paths /\ Id(x) \in Ids /\ t[x].ver \in 1 .. MaxVersion
             /\ \/ x \in S /\ x \in DOMAIN Decide(r) /\ IsObject(x) /\ Id(x) = KeyOf(x)
                \/ IsTransition(x) /\ Id(x) = x
  BY <1>1, RecordedFiles
<1>4. /\ p \in Objects(t) /\ p \in Paths /\ IsObject(p) /\ Lower[Database(p)] = c
      /\ Id(p) = k /\ k \in Ids
  BY <1>1, DecideRows, ObjectIds
<1>5. ASSUME NEW x \in all, Id(x) = k PROVE x = p /\ p \in S
  <2>1. x \in S /\ x \in DOMAIN Decide(r) /\ IsObject(x) /\ KeyOf(x) = k
    BY <1>3, <1>4, <1>5, ObjectIds
  <2>2. x \in Objects(t) /\ Lower[Database(x)] = c
    BY <1>1, <2>1, DecideRows
  <2>3. ~DuplicateObject(t)
    BY <1>1 DEF LocalOK, ScanFails
  <2> QED BY <1>4, <2>1, <2>2, <2>3 DEF DuplicateObject, SameDatabase
<1>6. p \in S => recorded'[c][k] = t[p].ver
  <2>1. SUFFICES ASSUME p \in S PROVE recorded'[c][k] = t[p].ver
    OBVIOUS
  <2>2. p \in all /\ k \in {Id(x) : x \in all}
    BY <1>4, <2>1
  <2>3. PICK x \in all : Id(x) = k /\ recorded'[c][k] = t[x].ver
    BY <1>2, <1>4, <2>2
  <2> QED BY <1>5, <2>3
<1>7. p \notin S => recorded'[c][k] = recorded[c][k]
  BY <1>2, <1>4, <1>5
<1>8. ASSUME p \in S, NEW q \in Scripts(r, p) PROVE recorded'[c][q] # 0
  <2>1. q \in all
    BY <1>8
  <2>2. Job(r) = Decide(r)
    BY <1>1, BodyFacts
  <2>3. q \in Decide(r)[p].scripts
    BY <1>8, <2>2 DEF Scripts, Planned
  <2>4. IsTransition(q) /\ q \in Paths
    BY <1>1, <2>3, DecideScripts
  <2>5. Id(q) = q /\ q \in Ids
    BY <2>4, ObjectIds
  <2>6. q \in {Id(x) : x \in all}
    BY <2>1, <2>5
  <2>7. PICK x \in all : recorded'[c][q] = t[x].ver
    BY <1>2, <2>5, <2>6
  <2> QED BY <1>3, <2>7
<1>9. ASSUME NEW i \in Ids, recorded[c][i] # 0 PROVE recorded'[c][i] # 0
  <2>1. CASE recorded'[c][i] = recorded[c][i]
    BY <1>9, <2>1
  <2>2. CASE \E x \in all : recorded'[c][i] = t[x].ver
    BY <1>3, <2>2
  <2> QED BY <1>2, <2>1, <2>2
<1> QED BY <1>6, <1>7, <1>8, <1>9

\* A migrate that went well for a database left none of its files out: every object
\* file below the directory is recorded with the content that was scanned (or is a
\* table whose transitions were all applied by earlier runs), and a table that was
\* created or changed has every authored transition recorded (for_catalog_database,
\* relink_transitions_from, compact_transitions, execute_plan).
THEOREM NothingLeftOut ==
    ASSUME DistinctDatabases
    PROVE  Spec => DeployedWhole
<1> DEFINE Own(r, d, k) == {q \in DOMAIN run[r].seen :
                               /\ IsTransition(q) /\ ~run[r].seen[q].draft
                               /\ Database(q) = d /\ TableKey(q) = k}
           Whole(r, d, p) ==
              LET k == KeyOf(p)
                  c == Lower[d]
                  advanced == recorded'[c][k] # recorded[c][k] /\ k \notin unmanaged[c]
              IN  /\ \/ recorded'[c][k] = run[r].seen[p].ver
                     \/ Own(r, d, k) # {} /\ \A q \in Own(r, d, k) : recorded[c][q] # 0
                  /\ advanced => \A q \in Own(r, d, k) : recorded'[c][q] # 0
           A == \A r \in Runs : \A d \in run'[r].done \ run[r].done : Mutates(r) =>
                   \A p \in {q \in DOMAIN run[r].seen : IsObject(q) /\ Database(q) = d} :
                      Whole(r, d, p)
<1>1. ASSUME CommandInv, [Next]_vars, NEW r \in Runs, NEW d \in run'[r].done \ run[r].done,
             Mutates(r), NEW p \in DOMAIN run[r].seen, IsObject(p), Database(p) = d
      PROVE  Whole(r, d, p)
  <2> DEFINE c == Lower[d]
             k == KeyOf(p)
             t == run[r].seen
             scripts == Decide(r)[p].scripts
             scen == Decide(r)[p].scen
  <2>1. Migrate(r) /\ d = Current(r)
    BY <1>1, DoneChange
  <2>2. InBody(r) /\ Record(r, Work(r)) /\ ~IsBlocked(Job(r))
    BY <2>1 DEF Migrate, Applying
  <2>3. LocalOK(run[r]) /\ Job(r) = Decide(r) /\ Checkout(t)
    BY <1>1, <2>2, BodyFacts DEF CommandInv, LocalOK
  <2>4. p \in DOMAIN Decide(r) /\ p \in Objects(t)
    BY <1>1, <2>1, <2>3, OwnRows DEF Objects
  <2>5. scripts = Staging(t, d, k)
    BY <1>1, <2>1, <2>3, <2>4, OwnScripts
  <2>6. Own(r, d, k) = scripts
    BY <2>5 DEF Staging, Authored
  <2>7. \A q \in scripts : q \in Ids
    BY <2>3, <2>4, DecideScripts, ObjectIds
  <2>8. /\ p \in Work(r) => recorded'[c][k] = t[p].ver
        /\ p \notin Work(r) => recorded'[c][k] = recorded[c][k]
        /\ p \in Work(r) => \A q \in Scripts(r, p) : recorded'[c][q] # 0
        /\ \A i \in Ids : recorded[c][i] # 0 => recorded'[c][i] # 0
    BY <1>1, <2>1, <2>2, <2>4, MigrateRecords
  <2>9. \/ scen = "Create" /\ recorded[c][k] = 0
        \/ scen = "Adopt" /\ k \in unmanaged[c]
        \/ scen = "SkipUnchanged" /\ recorded[c][k] = t[p].ver
        \/ scen = "TableReprocess" /\ scripts # {}
        \/ scen \in {"ModuleUpdate", "TriggerUpdateModule"} /\ p[3] # "tables"
    BY <2>1, <2>2, <2>3, <2>4, OpenScenario
  <2>10. SUFFICES /\ \/ recorded'[c][k] = t[p].ver
                     \/ scripts # {} /\ \A q \in scripts : recorded[c][q] # 0
                  /\ recorded'[c][k] # recorded[c][k] /\ k \notin unmanaged[c]
                       => \A q \in scripts : recorded'[c][q] # 0
    BY <2>6
  <2> HIDE DEF scen, scripts, k, c
  <2>11. CASE scen = "Create"
    <3>1. p \in Work(r) /\ Scripts(r, p) = scripts
      BY <2>3, <2>4, <2>11 DEF Work, Scripts, ActionOf, scen, scripts
    <3> QED BY <2>8, <3>1
  <2>12. CASE scen = "Adopt" /\ k \in unmanaged[c]
    <3>1. p \in Work(r)
      BY <2>3, <2>4, <2>12 DEF Work, ActionOf, scen
    <3> QED BY <2>8, <2>12, <3>1
  <2>13. CASE scen = "SkipUnchanged" /\ recorded[c][k] = t[p].ver
    BY <2>8, <2>13
  <2>14. CASE scen = "TableReprocess" /\ scripts # {}
    <3>1. Planned(Job(r), p) = scripts
      BY <2>3, <2>14 DEF Planned, scen, scripts
    <3>2. \A q \in AppliedBefore(r) : recorded[c][q] # 0
      BY <2>1 DEF AppliedBefore, c
    <3>3. CASE scripts \ AppliedBefore(r) = {}
      <4>1. \A q \in scripts : recorded[c][q] # 0
        BY <3>2, <3>3
      <4> QED BY <2>7, <2>8, <2>14, <4>1
    <3>4. CASE scripts \ AppliedBefore(r) # {}
      <4>1. p \in Work(r)
        BY <2>3, <2>4, <3>1, <3>4 DEF Work
      <4>2. Scripts(r, p) = scripts \ AppliedBefore(r)
        BY <2>3, <2>14, <3>1 DEF Scripts, scen
      <4>3. ASSUME NEW q \in scripts PROVE recorded'[c][q] # 0
        <5>1. CASE q \in AppliedBefore(r)
          BY <2>7, <2>8, <3>2, <5>1
        <5>2. CASE q \notin AppliedBefore(r)
          BY <2>8, <4>1, <4>2, <5>2
        <5> QED BY <5>1, <5>2
      <4> QED BY <2>8, <4>1, <4>3
    <3> QED BY <3>3, <3>4
  <2>15. CASE scen \in {"ModuleUpdate", "TriggerUpdateModule"} /\ p[3] # "tables"
    <3>1. p \in Work(r)
      BY <2>3, <2>4, <2>15 DEF Work, ActionOf, scen
    <3>2. scripts = {}
      BY <2>3, <2>4, <2>5, <2>15, ModuleScripts DEF k
    <3> QED BY <2>8, <3>1, <3>2
  <2> QED BY <2>9, <2>11, <2>12, <2>13, <2>14, <2>15
<1> HIDE DEF Whole
<1>2. CommandInv /\ [Next]_vars => A
  BY <1>1
<1>4. CommandInv /\ [Next]_vars => [A]_vars
  BY <1>2
<1> HIDE DEF A
<1>5. []CommandInv /\ [][Next]_vars => [][A]_vars
  BY <1>4, PTL
<1> QED BY CommandAlways, <1>5, PTL DEF Spec, DeployedWhole, A, Whole

-----------------------------------------------------------------------------
(* The gate. A plan file comes from a checkout that scanned. *)

SeenOK(f) == Checkout(f.seen) /\ ~ScanFails(f.seen) /\ ScanRoot(f.seen) # {}

GateInv == SeenOK(planFile) /\ SeenOK(approved)

LEMMA GateInit == Init => GateInv
<1>1. NoFile.seen = <<>>
  BY DEF NoFile
<1> QED BY <1>1, EmptyScan DEF Init, GateInv, SeenOK

LEMMA GateNext ==
    ASSUME CommandInv, GateInv, [Next]_vars PROVE GateInv'
<1>1. ASSUME UNCHANGED <<planFile, approved>> PROVE GateInv'
  BY <1>1 DEF GateInv
<1>2. CASE UNCHANGED vars
  BY <1>1, <1>2 DEF vars, files
<1>3. ASSUME NEW r \in Runs, NEW c, NEW e, Configure(r, c, e) PROVE GateInv'
  BY <1>1, <1>3 DEF Configure, files
<1>4. ASSUME NEW r \in Runs,
             \/ Discover(r) \/ Ensure(r) \/ EnsureFails(r) \/ Scan(r) \/ SkipDb(r)
             \/ ConnectFails(r) \/ Inspect(r) \/ Lock(r) \/ LockFails(r) \/ Finish(r)
             \/ MigrateBlocked(r) \/ MigrateRefused(r) \/ Migrate(r) \/ MigrateFails(r)
             \/ WriteReport(r) \/ ReportFails(r) \/ Signal(r) \/ Kill(r)
      PROVE  GateInv'
  BY <1>1, <1>4 DEF Discover, Ensure, EnsureFails, Scan, SkipDb, ConnectFails, Inspect, Lock,
              LockFails, Finish, MigrateBlocked, MigrateRefused, Migrate, MigrateFails,
              WriteReport, ReportFails, Signal, Kill, files
<1>5. ASSUME NEW r \in Runs, WritePlan(r) PROVE GateInv'
  <2>1. LocalOK(run[r])
    BY DEF CommandInv, RunInv
  <2>2. planFile'.seen \in {<<>>, run[r].seen} /\ approved' = approved
    BY <1>5 DEF WritePlan, NoFile
  <2>3. SeenOK(planFile')
    BY <2>1, <2>2, EmptyScan DEF SeenOK, LocalOK
  <2> QED BY <2>2, <2>3 DEF GateInv
<1>6. ASSUME NEW p \in Paths, ChangeFile(p) \/ AddFile(p) \/ RemoveFile(p) PROVE GateInv'
  BY <1>1, <1>6 DEF ChangeFile, AddFile, RemoveFile, Edit, files
<1>7. CASE Approve
  BY <1>7 DEF Approve, GateInv
<1> QED BY <1>2, <1>3, <1>4, <1>5, <1>6, <1>7 DEF Next

LEMMA GateAlways == Spec => []GateInv
<1>1. CommandInv /\ GateInv /\ [Next]_vars => GateInv'
  BY GateNext
<1> QED BY CommandAlways, GateInit, <1>1, PTL DEF Spec

LEMMA GateScan ==
    ASSUME GateInv
    PROVE  /\ Planned1 \in ScanRoot(planFile.seen) /\ DOMAIN Planned1 = Objects(planFile.seen)
           /\ Checkout(planFile.seen) /\ ~ScanFails(planFile.seen)
           /\ ChangedFiles \subseteq Paths
<1>1. Planned1 \in ScanRoot(planFile.seen)
  BY DEF GateInv, SeenOK, Planned1
<1>2. ChangedFiles \subseteq Paths
  BY DEF GateInv, SeenOK, Checkout, ChangedFiles, Differing
<1> QED BY <1>1, <1>2, ScanRows DEF GateInv, SeenOK

\* What git lists comes back as paths of the checkout.
LEMMA NormalizedGit ==
    ASSUME NEW p \in Paths PROVE Normalize(<<SqlRoot>> \o p) = p
<1> DEFINE D == DOMAIN Lower \cup {SqlRoot}
           s == <<SqlRoot>> \o p
<1>1. p \in Seq(D) /\ <<SqlRoot>> \in Seq(D)
  BY PathAssumption
<1>2. s \in Seq(D) /\ Len(s) = 1 + Len(p) /\ s[1] = SqlRoot /\ \A i \in 1 .. Len(p) : s[1 + i] = p[i]
  <2>1. Len(<<SqlRoot>>) = 1 /\ <<SqlRoot>>[1] = SqlRoot
    OBVIOUS
  <2> QED BY <1>1, <2>1, Concatenated
<1> HIDE DEF s
<1>3. s # <<>> /\ Len(p) \in Nat
  BY <1>1, <1>2
<1>4. Head(s) = SqlRoot
  BY <1>2, <1>3
<1>5. Tail(s) \in Seq(D) /\ Len(Tail(s)) = Len(p) /\ \A i \in 1 .. Len(p) : Tail(s)[i] = s[i + 1]
  BY <1>2, <1>3
<1>6. Tail(s) = p
  <2>1. \A i \in 1 .. Len(p) : Tail(s)[i] = p[i]
    BY <1>2, <1>5, <1>3
  <2> QED BY <1>1, <1>5, <2>1
<1>7. Normalize(s) = p
  BY <1>4, <1>6 DEF Normalize
<1> QED BY <1>7 DEF s

LEMMA NormalizedPath ==
    ASSUME SqlRoot \notin Tops, NEW p \in Paths PROVE Normalize(p) = p
<1>1. p \in Seq(DOMAIN Lower) /\ p # <<>>
  BY PathAssumption
<1>2. Head(p) = p[1]
  BY <1>1
<1>3. Head(p) # SqlRoot
  BY <1>2 DEF Tops, Database
<1> QED BY <1>3 DEF Normalize

\* The first source that lists something.
LEMMA FirstListed ==
    ASSUME NEW sources, DOMAIN sources \subseteq Nat, NEW n \in DOMAIN sources,
           \A i \in DOMAIN sources : sources[i].answer = "lists" <=> i = n
    PROVE  FirstListing(sources) = sources[n]
<1>1. {i \in DOMAIN sources : sources[i].answer = "lists"} = {n}
  OBVIOUS
<1>2. Min({n}) = n
  <2>1. {n} \in SUBSET Nat /\ {n} # {}
    OBVIOUS
  <2> QED BY <2>1, MinIn
<1> QED BY <1>1, <1>2 DEF FirstListing

\* Each source stands for changed files only, and for all of them, for a full
\* inspection, or in the last resort for those of the last commit.
LEMMA SourcePaths ==
    ASSUME GateInv, SqlRoot \notin Tops, NEW src \in Sources
    PROVE  LET res == ResolveChangedPaths(src)
           IN  /\ res.paths \subseteq ChangedFiles
               /\ \A p \in ChangedFiles :
                     \/ res.full \/ p \in res.paths
                     \/ LastResort(src) /\ <<SqlRoot>> \o p \notin src.parent.paths
<1> DEFINE res == ResolveChangedPaths(src)
           C == ChangedFiles
           P == {<<SqlRoot>> \o p : p \in C}
           diff == Lists(P)
           of(s) == [full |-> FALSE, paths |-> {Normalize(p) : p \in s.paths}]
<1>1. C \subseteq Paths
  BY GateScan
<1>2. {Normalize(p) : p \in C} = C
  BY <1>1, NormalizedPath
<1>3. {Normalize(p) : p \in P} = C
  BY <1>1, NormalizedGit
<1> HIDE DEF C, P
<1>4. of(Lists(C)).paths = C /\ of(diff).paths = C /\ of(Lists({})).paths = {}
  BY <1>2, <1>3 DEF Lists
<1>5. /\ diff.answer = "lists" /\ diff.paths = P /\ Lists(C).answer = "lists" /\ Lists(C).paths = C
      /\ Lists({}).answer = "lists" /\ Lists({}).paths = {}
      /\ Failed.answer = "failed" /\ Silent.answer = "silent"
  BY DEF Lists, Failed, Silent
<1>6. (P = {}) <=> (C = {})
  BY DEF P
<1>7. /\ ~Blind.inspectFull /\ Blind.env = Silent /\ Blind.base = Silent /\ Blind.git
      /\ Blind.ci.github = Silent /\ Blind.ci.gitlab = Silent /\ Blind.ci.azure = Silent
      /\ Blind.branches = [b \in 1 .. 4 |-> Failed] /\ Blind.parent = Failed
  BY DEF Blind
<1> DEFINE full == [full |-> TRUE, paths |-> {}]
<1>8. res = IF src.inspectFull THEN full
            ELSE IF Lists1(src.env) THEN of(src.env)
            ELSE IF src.base.answer = "failed" THEN full
            ELSE IF src.base.answer = "lists" THEN of(src.base)
            ELSE IF ~src.git THEN full
            ELSE IF TryCiChangedPaths(src.ci).answer = "lists" THEN of(TryCiChangedPaths(src.ci))
            ELSE IF Lists1(MergeBasePaths(src.branches)) THEN of(MergeBasePaths(src.branches))
            ELSE IF Lists1(src.parent) THEN of(src.parent)
            ELSE of(Lists({}))
  BY DEF ResolveChangedPaths
<1>9. full.full /\ full.paths = {}
  OBVIOUS
<1> HIDE DEF res, diff, of, full
\* Silence and failure of the CI variables and of the branches.
<1>10. ASSUME NEW ci, ci.github.answer # "lists", ci.gitlab.answer # "lists",
              ci.azure.answer # "lists"
       PROVE  TryCiChangedPaths(ci).answer # "lists"
  <2> DEFINE s == <<ci.github, ci.gitlab, ci.azure>>
  <2>1. {i \in DOMAIN s : s[i].answer = "lists"} = {}
    BY <1>10
  <2>2. FirstListing(s) = Failed
    BY <2>1 DEF FirstListing
  <2> QED BY <2>2, <1>5 DEF TryCiChangedPaths
<1>11. MergeBasePaths([b \in 1 .. 4 |-> Failed]) = Failed
  <2> DEFINE s == [b \in 1 .. 4 |-> Failed]
  <2>1. {i \in DOMAIN s : s[i].answer = "lists"} = {}
    BY <1>5
  <2> QED BY <2>1 DEF FirstListing, MergeBasePaths
<1>12. ASSUME NEW n \in 1 .. 4, NEW v, v.answer = "lists"
       PROVE  MergeBasePaths([[b \in 1 .. 4 |-> Failed] EXCEPT ![n] = v]) = v
  <2> DEFINE s == [[b \in 1 .. 4 |-> Failed] EXCEPT ![n] = v]
  <2>1. DOMAIN s = 1 .. 4 /\ s[n] = v /\ \A i \in 1 .. 4 : i # n => s[i] = Failed
    OBVIOUS
  <2>2. \A i \in DOMAIN s : s[i].answer = "lists" <=> i = n
    BY <1>5, <1>12, <2>1
  <2> HIDE DEF s
  <2>3. FirstListing(s) = s[n]
    BY <2>1, <2>2, FirstListed
  <2> QED BY <2>1, <2>3 DEF MergeBasePaths, s
<1>13. ~Lists1(Silent) /\ ~Lists1(Failed) /\ ~Lists1(Lists({}))
  BY <1>5 DEF Lists1
<1>14. CASE src = Blind
  <2>1. TryCiChangedPaths(src.ci).answer # "lists"
    BY <1>5, <1>7, <1>10, <1>14
  <2>2. res = of(Lists({}))
    BY <1>5, <1>7, <1>8, <1>11, <1>13, <1>14, <2>1
  <2>3. res.paths = {}
    BY <1>4, <2>2
  <2>4. LastResort(src) /\ src.parent.paths = {}
    BY <1>5, <1>7, <1>11, <1>13, <1>14, <2>1 DEF LastResort, Failed
  <2> QED BY <2>3, <2>4 DEF res, C
<1>15. CASE src = [Blind EXCEPT !.env = Lists(C), !.base = diff]
  <2>1. ~src.inspectFull /\ src.env = Lists(C) /\ src.base = diff
    BY <1>15 DEF Blind
  <2>2. res = of(Lists(C)) \/ res = of(diff)
    BY <1>5, <1>8, <2>1
  <2> QED BY <1>4, <2>2 DEF res, C
<1>16. CASE src = [Blind EXCEPT !.base = diff]
  <2>1. ~src.inspectFull /\ src.env = Silent /\ src.base = diff
    BY <1>16 DEF Blind
  <2>2. res = of(diff)
    BY <1>5, <1>8, <1>13, <2>1
  <2> QED BY <1>4, <2>2 DEF res, C
<1>17. CASE src = [Blind EXCEPT !.base = Failed]
  <2>1. ~src.inspectFull /\ src.env = Silent /\ src.base = Failed
    BY <1>17 DEF Blind
  <2>2. res = full
    BY <1>5, <1>8, <1>13, <2>1
  <2> QED BY <1>9, <2>2 DEF res
<1>18. CASE src = [Blind EXCEPT !.git = FALSE]
  <2>1. ~src.inspectFull /\ src.env = Silent /\ src.base = Silent /\ ~src.git
    BY <1>18 DEF Blind
  <2>2. res = full
    BY <1>5, <1>8, <1>13, <2>1
  <2> QED BY <1>9, <2>2 DEF res
<1>19. CASE src = [Blind EXCEPT !.ci.github = Failed, !.ci.gitlab = diff]
  <2>1. /\ ~src.inspectFull /\ src.env = Silent /\ src.base = Silent /\ src.git
        /\ src.ci.github = Failed /\ src.ci.gitlab = diff /\ src.ci.azure = Silent
    BY <1>19 DEF Blind
  <2> DEFINE s == <<src.ci.github, src.ci.gitlab, src.ci.azure>>
  <2>2. DOMAIN s = 1 .. 3 /\ s[1] = Failed /\ s[2] = diff /\ s[3] = Silent
    BY <2>1
  <2>3. \A i \in DOMAIN s : s[i].answer = "lists" <=> i = 2
    BY <1>5, <2>2
  <2>4. TryCiChangedPaths(src.ci) = FirstListing(s)
    BY DEF TryCiChangedPaths
  <2> HIDE DEF s
  <2>5. FirstListing(s) = diff
    <3>1. DOMAIN s \subseteq Nat /\ 2 \in DOMAIN s
      BY <2>2
    <3> QED BY <2>2, <2>3, <3>1, FirstListed
  <2>6. res = of(diff)
    BY <1>5, <1>8, <1>13, <2>1, <2>4, <2>5
  <2> QED BY <1>4, <2>6 DEF res, C
<1>20. CASE src = [Blind EXCEPT !.branches[3] = diff, !.parent = Lists({})]
  <2>1. /\ ~src.inspectFull /\ src.env = Silent /\ src.base = Silent /\ src.git
        /\ src.ci.github = Silent /\ src.ci.gitlab = Silent /\ src.ci.azure = Silent
        /\ src.branches = [[b \in 1 .. 4 |-> Failed] EXCEPT ![3] = diff]
        /\ src.parent = Lists({})
    BY <1>20 DEF Blind
  <2>2. TryCiChangedPaths(src.ci).answer # "lists"
    BY <1>5, <1>10, <2>1
  <2>3. MergeBasePaths(src.branches) = diff
    BY <1>5, <1>12, <2>1
  <2>4. Lists1(diff) <=> C # {}
    BY <1>5, <1>6 DEF Lists1
  <2>5. /\ C # {} => res = of(diff)
        /\ C = {} => res = of(Lists({}))
    BY <1>5, <1>8, <1>13, <2>1, <2>2, <2>3, <2>4
  <2> QED BY <1>4, <2>5 DEF res, C
<1>21. ASSUME NEW S \in SUBSET C,
              src = [Blind EXCEPT !.branches[1] = Lists({}), !.parent = GitLists(S)]
       PROVE  /\ res.paths \subseteq C
              /\ \A p \in C : \/ p \in res.paths
                              \/ LastResort(src) /\ <<SqlRoot>> \o p \notin src.parent.paths
  <2>1. /\ ~src.inspectFull /\ src.env = Silent /\ src.base = Silent /\ src.git
        /\ src.ci.github = Silent /\ src.ci.gitlab = Silent /\ src.ci.azure = Silent
        /\ src.branches = [[b \in 1 .. 4 |-> Failed] EXCEPT ![1] = Lists({})]
        /\ src.parent = GitLists(S)
    BY <1>21 DEF Blind
  <2>2. TryCiChangedPaths(src.ci).answer # "lists"
    BY <1>5, <1>10, <2>1
  <2>3. MergeBasePaths(src.branches) = Lists({})
    BY <1>5, <1>12, <2>1
  <2>4. /\ GitLists(S).paths = {<<SqlRoot>> \o p : p \in S}
        /\ GitLists(S).answer = "lists"
    BY DEF GitLists, Lists
  <2>5. \A p \in C : Normalize(<<SqlRoot>> \o p) = p
    BY <1>1, NormalizedGit DEF C
  <2>6. of(GitLists(S)).paths = S
    <3>1. \A p \in S : Normalize(<<SqlRoot>> \o p) = p
      BY <1>21, <2>5
    <3>2. {Normalize(q) : q \in {<<SqlRoot>> \o p : p \in S}} = {Normalize(<<SqlRoot>> \o p) : p \in S}
      OBVIOUS
    <3>3. {Normalize(<<SqlRoot>> \o p) : p \in S} = S
      BY <3>1
    <3> QED BY <2>4, <3>2, <3>3 DEF of
  <2>7. res = of(GitLists(S)) \/ (S = {} /\ res = of(Lists({})))
    <3>1. ~Lists1(GitLists(S)) => S = {}
      BY <2>4 DEF Lists1
    <3> QED BY <1>5, <1>8, <1>13, <2>1, <2>2, <2>3, <3>1
  <2>8. res.paths = S
    BY <1>4, <2>6, <2>7
  <2>9. LastResort(src)
    BY <1>5, <1>13, <2>1, <2>2, <2>3 DEF LastResort
  <2>10. ASSUME NEW p \in C, <<SqlRoot>> \o p \in src.parent.paths PROVE p \in S
    <3>1. PICK q \in S : <<SqlRoot>> \o p = <<SqlRoot>> \o q
      BY <2>1, <2>4, <2>10
    <3>2. q \in C
      BY <1>21
    <3>3. Normalize(<<SqlRoot>> \o p) = Normalize(<<SqlRoot>> \o q)
      BY <3>1
    <3> QED BY <2>5, <3>2, <3>3
  <2> QED BY <1>21, <2>8, <2>9, <2>10
<1>22. \/ src = Blind
       \/ src = [Blind EXCEPT !.env = Lists(C), !.base = diff]
       \/ src = [Blind EXCEPT !.base = diff]
       \/ src = [Blind EXCEPT !.base = Failed]
       \/ src = [Blind EXCEPT !.git = FALSE]
       \/ src = [Blind EXCEPT !.ci.github = Failed, !.ci.gitlab = diff]
       \/ src = [Blind EXCEPT !.branches[3] = diff, !.parent = Lists({})]
       \/ \E S \in SUBSET C :
             src = [Blind EXCEPT !.branches[1] = Lists({}), !.parent = GitLists(S)]
  BY DEF Sources, diff, P, C, GitLists
<1>23. CASE \E S \in SUBSET C :
               src = [Blind EXCEPT !.branches[1] = Lists({}), !.parent = GitLists(S)]
  <2>1. /\ res.paths \subseteq C
        /\ \A p \in C : \/ p \in res.paths
                        \/ LastResort(src) /\ <<SqlRoot>> \o p \notin src.parent.paths
    BY <1>21, <1>23
  <2> QED BY <2>1 DEF res, C
<1> QED BY <1>14, <1>15, <1>16, <1>17, <1>18, <1>19, <1>20, <1>22, <1>23

\* The qualified key of a script of the workspace.
LEMMA StandsFor ==
    ASSUME NEW t, Checkout(t), NEW w \in ScanRoot(t), NEW p \in DOMAIN Stands(w)
    PROVE  /\ p \in Paths /\ p \in DOMAIN t
           /\ \/ p \in DOMAIN w /\ IsObject(p) /\ Stands(w)[p] = KeyOf(p)
              \/ p \notin DOMAIN w /\ IsTransition(p) /\ Stands(w)[p] = TableKey(p)
<1>1. DOMAIN w = Objects(t)
  BY ScanRows
<1>2. CASE p \in DOMAIN w
  BY <1>1, <1>2 DEF Stands, Objects, Checkout
<1>3. CASE p \notin DOMAIN w
  <2>1. PICK row \in DOMAIN w : p \in w[row]
    BY <1>3 DEF Stands
  <2>2. p \in Authored(t)
    BY <2>1, ScanScripts
  <2> QED BY <1>3, <2>2 DEF Stands, Authored, Checkout
<1> QED BY <1>2, <1>3

\* An inspection that is limited to what git reports looks at every object that has a
\* changed script or transition, whichever source answers, unless it falls back to all
\* objects or only the last commit is left to ask. No database directory is called like
\* the directory of the checkout, which is cut off the front of every listed path
\* (resolve_changed_paths, normalize_git_paths, keys_for_changed_paths,
\* expand_delta_closure).
THEOREM InspectionIsHot ==
    ASSUME DistinctDatabases, SqlRoot \notin Tops
    PROVE  Spec => []ChangedIsHot
<1>1. ASSUME GateInv PROVE ChangedIsHot
  <2>1. SUFFICES ASSUME NEW src \in Sources, ~ResolveChangedPaths(src).full,
                        NEW row \in DOMAIN Planned1, NEW p \in ChangedFiles,
                        p \in {row} \cup Planned1[row],
                        ~(LastResort(src) /\ <<SqlRoot>> \o p \notin src.parent.paths)
                 PROVE  QualifiedKey(row, KeyOf(row)) \in DeltaOf(src)
    BY DEF ChangedIsHot
  <2> DEFINE w == Planned1
             t == planFile.seen
             s == Stands(w)
  <2>2. /\ w \in ScanRoot(t) /\ DOMAIN w = Objects(t) /\ Checkout(t)
    BY <1>1, GateScan
  <2>3. p \in ResolveChangedPaths(src).paths
    BY <1>1, <2>1, SourcePaths
  <2>4. p \in DOMAIN s /\ row \in Paths /\ IsObject(row) /\ row \in DOMAIN t
    BY <2>1, <2>2 DEF Stands, Objects, Checkout
  <2>5. QualifiedKey(p, s[p]) = QualifiedKey(row, KeyOf(row))
    <3>1. CASE p = row
      BY <2>1, <3>1 DEF Stands
    <3>2. CASE p \in w[row]
      <4>1. /\ p \in Authored(t) /\ TableKey(p) = KeyOf(row)
            /\ SameDatabase(Database(p), Database(row))
        BY <2>1, <2>2, <3>2, ScanScripts
      <4>2. IsTransition(p) /\ p \in Paths
        BY <2>2, <4>1 DEF Authored, Checkout
      <4>3. p \notin DOMAIN w
        BY <2>2, <4>2, ObjectIds DEF Objects
      <4>4. s[p] = TableKey(p)
        BY <2>4, <4>3 DEF Stands
      <4>5. Database(p) = Database(row)
        BY <2>4, <4>1, <4>2 DEF DistinctDatabases, Tops
      <4> QED BY <4>1, <4>4, <4>5 DEF QualifiedKey
    <3> QED BY <2>1, <3>1, <3>2
  <2>6. QualifiedKey(p, s[p]) \in KeysForChangedPaths(w, ResolveChangedPaths(src).paths)
    BY <2>3, <2>4, Zenon DEF KeysForChangedPaths
  <2> QED BY <2>5, <2>6 DEF DeltaOf, ExpandDeltaClosure
<1> QED BY GateAlways, <1>1, PTL

\* No path of a checkout ends like another one.
DistinctEndings == \A p, q \in Paths : EndsWith(q, p) => q = p

\* Wherever the list of changed files comes from, the gate lets a plan pass only if it
\* is not blocked and each object that is planned otherwise than in the approved plan
\* has a changed file of its own. The gate compares the ends of paths it does not know,
\* so this is about checkouts in which no path ends like another (evaluate_gate,
\* compare_snapshots, keys_for_changed_paths).
THEOREM GateIsExplained ==
    ASSUME DistinctEndings, SqlRoot \notin Tops
    PROVE  Spec => []GateExplained
<1>1. ASSUME GateInv PROVE GateExplained
  <2> DEFINE w == Planned1
             t == planFile.seen
             s == Stands(w)
  <2>1. SUFFICES ASSUME NEW src \in Sources,
                        EvaluateGate(Snapshot(approved.plan), Snapshot(planFile.plan),
                                     DeltaOf(src), 0, 0)
                 PROVE  /\ ~planFile.plan.blocked
                        /\ \A k \in DeltaOf(src) : \E p \in ChangedFiles : Touches(p, k)
    BY DEF GateExplained, EvaluateGate, CompareSnapshots
  <2>2. ~planFile.plan.blocked
    BY <2>1 DEF EvaluateGate, Snapshot
  <2>3. /\ w \in ScanRoot(t) /\ DOMAIN w = Objects(t) /\ Checkout(t) /\ ~ScanFails(t)
        /\ ChangedFiles \subseteq Paths
    BY <1>1, GateScan
  <2> DEFINE changed == ResolveChangedPaths(src).paths
             keys == KeysForChangedPaths(w, changed)
  <2>4. changed \subseteq ChangedFiles
    BY <1>1, <2>1, SourcePaths
  <2> HIDE DEF changed
  <2>5. ASSUME NEW k \in keys
        PROVE  \E p \in ChangedFiles : p \in DOMAIN s /\ k = QualifiedKey(p, s[p])
    <3> DEFINE related(p) == IF p \in DOMAIN s THEN {p}
                             ELSE {q \in DOMAIN s : EndsWith(q, p) \/ EndsWith(p, q)}
    <3>1. PICK p \in changed : \E q \in related(p) : k = QualifiedKey(q, s[q])
      <4>1. keys = {QualifiedKey(q, s[q]) : q \in UNION {related(p) : p \in changed}}
        BY DEF KeysForChangedPaths
      <4> HIDE DEF keys, related, s
      <4> QED BY <2>5, <4>1
    <3>2. PICK q \in related(p) : k = QualifiedKey(q, s[q])
      BY <3>1
    <3>3. p \in Paths /\ p \in ChangedFiles
      BY <2>3, <2>4
    <3>4. q = p /\ q \in DOMAIN s
      <4>1. q \in DOMAIN s /\ (q = p \/ EndsWith(q, p) \/ EndsWith(p, q))
        BY <3>2
      <4>2. q \in Paths
        BY <2>3, <4>1, StandsFor
      <4> QED BY <3>3, <4>1, <4>2 DEF DistinctEndings
    <3> QED BY <3>2, <3>3, <3>4
  <2>6. ASSUME NEW k \in keys PROVE \E p \in ChangedFiles : Touches(p, k)
    <3>1. PICK p \in ChangedFiles : p \in DOMAIN s /\ k = QualifiedKey(p, s[p])
      BY <2>5, <2>6
    <3>2. \/ IsObject(p) /\ s[p] = KeyOf(p)
          \/ IsTransition(p) /\ s[p] = TableKey(p)
      BY <2>3, <3>1, StandsFor
    <3> QED BY <3>1, <3>2 DEF Touches, QualifiedKey
  <2>7. ASSUME NEW x \in DOMAIN w \cap DOMAIN Parent, QualifiedKey(x, KeyOf(x)) \in keys
        PROVE  \E p \in ChangedFiles : Touches(p, QualifiedKey(x, Parent[x]))
    <3>1. PICK p \in ChangedFiles :
             p \in DOMAIN s /\ QualifiedKey(x, KeyOf(x)) = QualifiedKey(p, s[p])
      BY <2>5, <2>7
    <3>2. Database(p) = Database(x) /\ s[p] = KeyOf(x)
      BY <3>1 DEF QualifiedKey
    <3>3. x \in Objects(t) /\ x \in Paths /\ x[3] # "tables"
      BY <2>3, <2>7, ParentAssumption DEF Objects, Checkout
    <3>4. CASE p \in DOMAIN w /\ s[p] = KeyOf(p)
      <4>1. p = x
        BY <2>3, <3>2, <3>3, <3>4 DEF ScanFails, DuplicateObject, SameDatabase
      <4> QED BY <2>7, <3>1, <4>1 DEF Touches, QualifiedKey
    <3>5. CASE p \notin DOMAIN w /\ IsTransition(p) /\ s[p] = TableKey(p)
      <4>1. PICK row \in DOMAIN w : p \in w[row]
        BY <3>1, <3>5 DEF Stands
      <4>2. p \in Authored(t)
        BY <2>3, <4>1, ScanScripts
      <4>3. p \in Staging(t, Database(p), KeyOf(x))
        BY <3>2, <3>5, <4>2 DEF Staging
      <4> QED BY <2>3, <3>3, <4>3, ModuleScripts
    <3> QED BY <2>3, <3>1, <3>4, <3>5, StandsFor
  <2>8. ASSUME NEW k \in DeltaOf(src) PROVE \E p \in ChangedFiles : Touches(p, k)
    <3>1. \/ k \in keys
          \/ \E x \in DOMAIN w \cap DOMAIN Parent :
                QualifiedKey(x, KeyOf(x)) \in keys /\ k = QualifiedKey(x, Parent[x])
      BY <2>8, Zenon DEF DeltaOf, ExpandDeltaClosure, changed
    <3> QED BY <2>6, <2>7, <3>1
  <2> QED BY <2>2, <2>8
<1> QED BY GateAlways, <1>1, PTL

-----------------------------------------------------------------------------
(* Generated transitions. *)

\* The transitions of a table are in one directory: none is deeper, and no two
\* directories differ only in case.
OneDirectory ==
    \A p, q \in Paths : /\ IsTransition(p) /\ IsTransition(q)
                        /\ Database(p) = Database(q) /\ TableKey(p) = TableKey(q)
                        => Front(p) = Front(q)

LEMMA Appended ==
    ASSUME NEW S, NEW s \in Seq(S), NEW e \in S, NEW x, x = Append(s, e)
    PROVE  /\ x \in Seq(S) /\ Len(x) = Len(s) + 1 /\ x[Len(s) + 1] = e
           /\ \A i \in 1 .. Len(s) : x[i] = s[i]
           /\ Front(x) = s /\ Last(x) = e
<1>0. Len(s) \in Nat
  OBVIOUS
<1>1. x \in Seq(S) /\ Len(x) = Len(s) + 1
  OBVIOUS
<1>2. x[Len(s) + 1] = e
  OBVIOUS
<1>3. \A i \in 1 .. Len(s) : x[i] = s[i]
  OBVIOUS
<1>4. Last(x) = e
  BY <1>1, <1>2 DEF Last
<1> DEFINE f == SubSeq(x, 1, Len(s))
<1>5. Front(x) = f
  BY <1>0, <1>1 DEF Front
<1>6. f \in Seq(S) /\ Len(f) = Len(s)
  BY <1>0, <1>1
<1>7. ASSUME NEW i \in 1 .. Len(s) PROVE f[i] = x[i]
  BY <1>0, <1>1
<1> HIDE DEF f
<1>8. f = s
  BY <1>0, <1>3, <1>6, <1>7
<1> QED BY <1>1, <1>2, <1>3, <1>4, <1>5, <1>8

LEMMA GeneratedPath ==
    ASSUME NEW d, NEW p, NEW g, NEW x, x = Append(MigrationDir(d, p), g)
    PROVE  /\ Len(x) = 6 /\ x[2] = Lower[p[2]] /\ x[3] = "tables" /\ x[4] = "_migrations"
           /\ x[5] = Lower[p[4]] /\ x[6] = g
           /\ Front(x) = MigrationDir(d, p) /\ Last(x) = g
           /\ UnderMigrations(x)
<1>1. PICK s : s = MigrationDir(d, p)
  OBVIOUS
<1>2. PICK S : S = {d, Lower[p[2]], "tables", "_migrations", Lower[p[4]], g}
  OBVIOUS
<1>3. s \in Seq(S) /\ Len(s) = 5 /\ g \in S
  BY <1>1, <1>2 DEF MigrationDir
<1>4. s[2] = Lower[p[2]] /\ s[3] = "tables" /\ s[4] = "_migrations" /\ s[5] = Lower[p[4]]
  BY <1>1 DEF MigrationDir
<1>5. /\ Len(x) = Len(s) + 1 /\ x[Len(s) + 1] = g /\ \A i \in 1 .. Len(s) : x[i] = s[i]
      /\ Front(x) = s /\ Last(x) = g
  <2>1. x = Append(s, g)
    BY <1>1
  <2>2. Len(x) = Len(s) + 1 /\ x[Len(s) + 1] = g /\ \A i \in 1 .. Len(s) : x[i] = s[i]
    BY <1>3, <2>1, Appended
  <2>3. Front(x) = s
    BY <1>3, <2>1, Appended DEF Front
  <2>4. Last(x) = g
    BY <1>3, <2>1, Appended DEF Last
  <2> QED BY <2>2, <2>3, <2>4
<1>6. Len(x) = 6 /\ x[6] = g /\ x[2] = s[2] /\ x[3] = s[3] /\ x[4] = s[4] /\ x[5] = s[5]
  BY <1>3, <1>5
<1>7. UnderMigrations(x)
  BY <1>4, <1>6 DEF UnderMigrations
<1> QED BY <1>1, <1>4, <1>5, <1>6, <1>7

LEMMA ScaffoldFiles ==
    ASSUME CommandInv, NEW r \in Runs, InBody(r)
    PROVE  LET t2 == Scaffold(r)
           IN  /\ \A y \in DOMAIN tree : y \in DOMAIN t2 /\ t2[y] = tree[y]
               /\ \A x \in DOMAIN t2 \ DOMAIN tree :
                     /\ t2[x].draft = (Last(x) = GenName[TRUE])
                     /\ \E p \in Paths, b \in BOOLEAN :
                           /\ x = Append(MigrationDir(Current(r), p), GenName[b])
                           /\ ~HasNonScaffoldSql(tree, MigrationDir(Current(r), p))
                           /\ {p[2], p[4]} \cap BadNames = {}
                           /\ {p[2], p[4]} \subseteq DOMAIN Lower
<1> DEFINE dir(p) == MigrationDir(Current(r), p)
           rows == {p \in DOMAIN Job(r) :
                       /\ ActionOf(Job(r)[p].scen) = "ReprocessChangedBlocked"
                       /\ ~HasNonScaffoldSql(tree, dir(p))}
           new == {Append(dir(p), GenName[PickDraft(tree, p, dir(p))]) : p \in rows}
           gen == [q \in new |-> [ver |-> 1, draft |-> Last(q) = GenName[TRUE]]]
<1>1. Scaffold(r) = Over(tree, gen)
  BY DEF Scaffold
<1>2. /\ LocalOK(run[r]) /\ Job(r) = Decide(r)
  BY BodyFacts DEF CommandInv
<1>3. ASSUME NEW p \in rows
      PROVE  /\ p \in Paths /\ {p[2], p[4]} \cap BadNames = {}
             /\ {p[2], p[4]} \subseteq DOMAIN Lower /\ ~HasNonScaffoldSql(tree, dir(p))
  <2>1. p \in Objects(run[r].seen) /\ p \in Paths /\ IsObject(p)
    BY <1>2, <1>3, DecideRows
  <2>2. {p[1], p[2], p[4]} \cap BadNames = {}
    BY <1>2, <2>1 DEF LocalOK, ScanFails, IllegalName, Objects
  <2>6. Len(p) = 4
    BY <2>1 DEF IsObject
  <2>7. p \in Seq(DOMAIN Lower)
    BY <2>1, PathAssumption
  <2>3. p \in [1 .. Len(p) -> DOMAIN Lower] /\ Len(p) = 4
    <3>1. p \in [1 .. Len(p) -> DOMAIN Lower]
      BY <2>7
    <3> QED BY <2>6, <3>1
  <2>4. 2 \in 1 .. Len(p) /\ 4 \in 1 .. Len(p)
    BY <2>3
  <2>5. p[2] \in DOMAIN Lower /\ p[4] \in DOMAIN Lower
    BY <2>3, <2>4
  <2> QED BY <1>3, <2>1, <2>2, <2>5
<1>4. ASSUME NEW x \in new
      PROVE  \E p \in Paths, b \in BOOLEAN :
                /\ x = Append(MigrationDir(Current(r), p), GenName[b])
                /\ ~HasNonScaffoldSql(tree, MigrationDir(Current(r), p))
                /\ {p[2], p[4]} \cap BadNames = {} /\ {p[2], p[4]} \subseteq DOMAIN Lower
  <2>1. PICK p \in rows : x = Append(dir(p), GenName[PickDraft(tree, p, dir(p))])
    OBVIOUS
  <2>2. PickDraft(tree, p, dir(p)) \in BOOLEAN
    BY DEF PickDraft
  <2> HIDE DEF rows
  <2> QED BY <1>3, <2>1, <2>2
<1>5. \A x \in new : gen[x].draft = (Last(x) = GenName[TRUE])
  <2> HIDE DEF new
  <2> QED OBVIOUS
<1>6. DOMAIN gen = new
  OBVIOUS
<1> HIDE DEF gen, new
<1>7. /\ \A y \in DOMAIN tree : y \in DOMAIN Over(tree, gen) /\ Over(tree, gen)[y] = tree[y]
      /\ \A x \in DOMAIN Over(tree, gen) \ DOMAIN tree : x \in new /\ Over(tree, gen)[x] = gen[x]
  BY <1>6 DEF Over
<1> DEFINE t2 == Scaffold(r)
<1>8. /\ \A y \in DOMAIN tree : y \in DOMAIN t2 /\ t2[y] = tree[y]
      /\ \A x \in DOMAIN t2 \ DOMAIN tree : x \in new /\ t2[x] = gen[x]
  BY <1>1, <1>7
<1> HIDE DEF t2
<1>9. \A x \in DOMAIN t2 \ DOMAIN tree : t2[x].draft = (Last(x) = GenName[TRUE])
  BY <1>5, <1>8
<1>10. \A x \in DOMAIN t2 \ DOMAIN tree :
          \E p \in Paths, b \in BOOLEAN :
             /\ x = Append(MigrationDir(Current(r), p), GenName[b])
             /\ ~HasNonScaffoldSql(tree, MigrationDir(Current(r), p))
             /\ {p[2], p[4]} \cap BadNames = {} /\ {p[2], p[4]} \subseteq DOMAIN Lower
  BY <1>4, <1>8, Zenon
<1> QED BY <1>8, <1>9, <1>10, Zenon DEF t2

\* A checkout that scans still does with the transitions rmig generates.
LEMMA ScaffoldScans ==
    ASSUME OneDirectory, CommandInv, NEW r \in Runs, InBody(r), ~ScanFails(tree)
    PROVE  ~ScanFails(Scaffold(r))
<1> DEFINE t2 == Scaffold(r)
           New(x) == \E p \in Paths, b \in BOOLEAN :
                        /\ x = Append(MigrationDir(Current(r), p), GenName[b])
                        /\ ~HasNonScaffoldSql(tree, MigrationDir(Current(r), p))
                        /\ {p[2], p[4]} \cap BadNames = {} /\ {p[2], p[4]} \subseteq DOMAIN Lower
<1>1. /\ \A y \in DOMAIN tree : y \in DOMAIN t2 /\ t2[y] = tree[y]
      /\ \A x \in DOMAIN t2 \ DOMAIN tree : New(x) /\ t2[x].draft = (Last(x) = GenName[TRUE])
  BY ScaffoldFiles
<1>2. DOMAIN t2 \subseteq Paths
  BY ScaffoldOK DEF Checkout
<1> HIDE DEF t2
<1>3. ASSUME NEW x, New(x)
      PROVE  /\ UnderMigrations(x) /\ Len(x) = 6 /\ {x[2], x[5], x[6]} \cap BadNames = {}
             /\ Last(x) \in {GenName[TRUE], GenName[FALSE]}
             /\ \A y \in DOMAIN tree : Front(y) = Front(x) => tree[y].draft
             /\ x = Append(Front(x), Last(x))
  <2>1. PICK p \in Paths, b \in BOOLEAN :
           /\ x = Append(MigrationDir(Current(r), p), GenName[b])
           /\ ~HasNonScaffoldSql(tree, MigrationDir(Current(r), p))
           /\ {p[2], p[4]} \cap BadNames = {} /\ {p[2], p[4]} \subseteq DOMAIN Lower
    BY <1>3
  <2>2. /\ Len(x) = 6 /\ x[2] = Lower[p[2]] /\ x[5] = Lower[p[4]] /\ x[6] = GenName[b]
        /\ Front(x) = MigrationDir(Current(r), p) /\ Last(x) = GenName[b]
        /\ UnderMigrations(x)
    <3>1. x = Append(MigrationDir(Current(r), p), GenName[b])
      BY <2>1
    <3>2. Len(x) = 6 /\ x[2] = Lower[p[2]] /\ x[5] = Lower[p[4]] /\ x[6] = GenName[b]
      BY <3>1, GeneratedPath
    <3>3. Front(x) = MigrationDir(Current(r), p)
      BY <3>1, GeneratedPath DEF Front
    <3>5. Last(x) = GenName[b]
      BY <3>1, GeneratedPath DEF Last
    <3>4. UnderMigrations(x)
      BY <3>1, GeneratedPath
    <3> QED BY <3>2, <3>3, <3>4, <3>5
  <2>3. {x[2], x[5], x[6]} \cap BadNames = {}
    BY <2>1, <2>2, LowerAssumption, GenNameAssumption
  <2>4. \A y \in DOMAIN tree : Front(y) = Front(x) => tree[y].draft
    BY <2>1, <2>2 DEF HasNonScaffoldSql
  <2> QED BY <2>1, <2>2, <2>3, <2>4
<1> HIDE DEF New
<1>4. \A x \in DOMAIN t2 \ DOMAIN tree : ~IsObject(x) /\ ~IsNested(x)
  BY <1>1, <1>3 DEF IsObject, IsNested, ObjectFile
<1>5. ~\E x \in DOMAIN t2 : IsNested(x)
  BY <1>4 DEF ScanFails
<1>6. Objects(t2) = Objects(tree)
  BY <1>1, <1>4 DEF Objects
<1>7. ~DuplicateObject(t2)
  BY <1>6 DEF DuplicateObject, ScanFails
<1>8. ~IllegalName(t2)
  <2>1. SUFFICES ASSUME NEW x \in DOMAIN t2,
                        \/ IsObject(x) /\ {x[1], x[2], x[4]} \cap BadNames # {}
                        \/ LET n == Len(x)
                           IN  /\ UnderMigrations(x) /\ n >= 6
                               /\ x[n - 3] = "tables" /\ x[n - 2] = "_migrations"
                               /\ {x[n - 4], x[n - 1], x[n]} \cap BadNames # {}
                 PROVE  FALSE
    BY DEF IllegalName
  <2>2. CASE x \in DOMAIN tree
    BY <2>1, <2>2 DEF IllegalName, ScanFails
  <2>3. CASE x \notin DOMAIN tree
    <3>1. ~IsObject(x) /\ Len(x) = 6 /\ {x[2], x[5], x[6]} \cap BadNames = {}
      BY <1>1, <1>3, <1>4, <2>3
    <3>2. {x[6 - 4], x[6 - 1], x[6]} = {x[2], x[5], x[6]}
      OBVIOUS
    <3> QED BY <2>1, <3>1, <3>2
  <2> QED BY <2>2, <2>3
<1>9. ~DuplicateOrdinal(t2)
  <2>1. SUFFICES ASSUME NEW x \in Authored(t2), NEW y \in Authored(t2), x # y,
                        Database(x) = Database(y), TableKey(x) = TableKey(y),
                        OrdinalOf(x) = OrdinalOf(y)
                 PROVE  FALSE
    BY DEF DuplicateOrdinal, Staging
  <2>2. /\ x \in DOMAIN t2 /\ y \in DOMAIN t2 /\ ~t2[x].draft /\ ~t2[y].draft
        /\ IsTransition(x) /\ IsTransition(y) /\ Front(x) = Front(y)
    BY <1>2, <2>1 DEF Authored, OneDirectory
  <2>3. ASSUME NEW a \in DOMAIN t2 \ DOMAIN tree, NEW b \in DOMAIN tree, ~t2[b].draft,
               Front(a) = Front(b)
        PROVE  FALSE
    BY <1>1, <1>3, <2>3
  <2>4. CASE x \in DOMAIN tree /\ y \in DOMAIN tree
    <3>1. x \in Authored(tree) /\ y \in Authored(tree)
      BY <1>1, <2>2, <2>4 DEF Authored
    <3> QED BY <2>1, <3>1 DEF ScanFails, DuplicateOrdinal, Staging
  <2>5. CASE x \notin DOMAIN tree /\ y \notin DOMAIN tree
    <3>1. Last(x) = GenName[FALSE] /\ Last(y) = GenName[FALSE]
      BY <1>1, <1>3, <2>2, <2>5
    <3>2. x = Append(Front(x), Last(x)) /\ y = Append(Front(y), Last(y))
      BY <1>1, <1>3, <2>2, <2>5
    <3>3. x = y
      BY <2>2, <3>1, <3>2
    <3> QED BY <2>1, <3>3
  <2> QED BY <2>2, <2>3, <2>4, <2>5
<1> QED BY <1>5, <1>7, <1>8, <1>9 DEF ScanFails, t2

\* Generating transitions never turns a checkout that scans into one that does not, even
\* when a script appeared since the scan. The generator looks into one directory for the
\* scripts of a table, so this is about checkouts that keep them there (scaffold::ensure,
\* has_non_scaffold_sql, push_transition_staging).
THEOREM ScaffoldStaysScannable ==
    ASSUME OneDirectory
    PROVE  Spec => ScaffoldKeepsScannable
<1> DEFINE A == tree' # tree /\ events' = events /\ ~ScanFails(tree) => ~ScanFails(tree')
<1>1. ASSUME CommandInv, [Next]_vars, tree' # tree, events' = events, ~ScanFails(tree)
      PROVE  ~ScanFails(tree')
  <2>1. events \in Nat
    BY <1>1, EventAssumption DEF CommandInv, DataInv
  <2>2. ~Event
    BY <1>1, <2>1 DEF Event
  <2>3. ~UNCHANGED vars /\ ~Approve
    BY <1>1 DEF vars, repo, Approve
  <2>4. ASSUME NEW r \in Runs, NEW c, NEW e, Configure(r, c, e) PROVE FALSE
    BY <1>1, <2>4 DEF Configure, repo
  <2>5. ASSUME NEW r \in Runs,
               \/ Discover(r) \/ Ensure(r) \/ EnsureFails(r) \/ Scan(r) \/ SkipDb(r)
               \/ ConnectFails(r) \/ Inspect(r) \/ Lock(r) \/ LockFails(r) \/ Finish(r)
               \/ MigrateRefused(r) \/ Migrate(r) \/ MigrateFails(r) \/ WritePlan(r)
               \/ WriteReport(r) \/ ReportFails(r) \/ Signal(r) \/ Kill(r)
        PROVE  FALSE
    BY <1>1, <2>5 DEF Discover, Ensure, EnsureFails, Scan, SkipDb, ConnectFails, Inspect, Lock,
              LockFails, Finish, MigrateRefused, Migrate, MigrateFails, WritePlan,
              WriteReport, ReportFails, Signal, Kill, repo
  <2>6. ASSUME NEW p \in Paths, ChangeFile(p) \/ AddFile(p) \/ RemoveFile(p) PROVE FALSE
    BY <2>2, <2>6 DEF ChangeFile, AddFile, RemoveFile, Edit
  <2>7. PICK r \in Runs : MigrateBlocked(r)
    BY <1>1, <2>3, <2>4, <2>5, <2>6 DEF Next
  <2> QED BY <1>1, <2>7, ScaffoldScans DEF MigrateBlocked
<1>2. CommandInv /\ [Next]_vars => [A]_vars
  BY <1>1
<1> HIDE DEF A
<1>3. []CommandInv /\ [][Next]_vars => [][A]_vars
  BY <1>2, PTL
<1> QED BY CommandAlways, <1>3, PTL DEF Spec, ScaffoldKeepsScannable, A

=============================================================================
