-------------------------- MODULE PlanInspectProofs --------------------------
(***************************************************************************)
(* A migrate plans from the live database, no plan masks drift that has a  *)
(* version, the cache is honest and a complete migrate leaves nothing to   *)
(* do, for every number of processes, objects, versions and cache settings.*)
(***************************************************************************)
EXTENDS MCPlanInspect, TLAPS

-----------------------------------------------------------------------------
(* The invariant, in named parts. *)

Stages == {"idle", "bootstrap", "checksums", "warmup", "inspect", "save", "planned", "apply",
           "snapshot", "release"}

DataOK ==
    /\ live \in [Object -> 0 .. MaxVersion] /\ ddl \in [Object -> 0 .. MaxDdl]
    /\ seq \in 0 .. MaxDdl /\ watch \in {"absent", "enabled", "disabled"}
    /\ tables \in BOOLEAN
    /\ hist \in [Object -> [sum : 0 .. MaxVersion, fp : 0 .. MaxVersion, ver : 0 .. MaxDdl]]
    /\ cache \in [rows : SUBSET Object, layout : SUBSET Object]
    /\ holder \in Proc \cup {NoProc}
    /\ pc \in [Proc -> Stages] /\ probe \in [Proc -> {"unknown", "empty", "nonempty"}]
    /\ settled \in Workspaces \cup {NoWorkspace} /\ unseen \subseteq Object

LocalOK ==
    /\ cmd \in [Proc -> [name : {"plan", "migrate"}, mode : GitModes, delta : SUBSET Object]]
    /\ ws \in [Proc -> Workspaces \cup {NoWorkspace}]
    /\ ensured \in [Proc -> BOOLEAN] /\ need \in [Proc -> BOOLEAN]
    /\ partial \in [Proc -> BOOLEAN] /\ wrote \in [Proc -> BOOLEAN] /\ quiet \in [Proc -> BOOLEAN]
    /\ inspect \in [Proc -> SUBSET [key : BOOLEAN \X (SUBSET Object) \X (SUBSET Object),
                                    cat : SUBSET Object]]
    /\ prior \in [Proc -> [Object -> 0 .. MaxVersion]] /\ drift \in [Proc -> [Object -> BOOLEAN]]
    /\ hot \in [Proc -> SUBSET Object] /\ cat \in [Proc -> SUBSET Object]
    /\ todo \in [Proc -> SUBSET Object]

OwnInv ==
    \A p \in Proc : /\ Bypass(p) <=> holder = p
                    /\ hot[p] \subseteq Layout(p) /\ todo[p] \subseteq Layout(p)

\* What the stage of a command says of its local state: a migrate never uses what
\* a cache holds, and a fresh process has nothing cached.
StageAt(p) ==
    /\ pc[p] = "idle" => cmd[p] = NoCommand /\ hot[p] = {} /\ todo[p] = {}
    /\ pc[p] \in {"bootstrap", "apply", "snapshot"} => Bypass(p)
    /\ pc[p] = "warmup" => GitDelta(p)
    /\ Bypass(p) => need[p] /\ (pc[p] # "bootstrap" => tables)
    /\ Bypass(p) /\ pc[p] \in {"bootstrap", "checksums"} => probe[p] = "unknown"
    /\ Bypass(p) /\ pc[p] \in {"bootstrap", "checksums", "inspect"} => cat[p] = {}
    /\ pc[p] # "idle" /\ ~need[p] => Layout(p) \subseteq cat[p] /\ ~GitDelta(p)
    /\ pc[p] = "apply" => \A o \in todo[p] :
          Scenario(p, o) \in {"Create", "Adopt", "ModuleUpdate", "TableReprocess"}
    /\ ~Reuse => /\ pc[p] \in {"idle", "bootstrap", "checksums"} => probe[p] = "unknown"
                 /\ pc[p] \in {"idle", "bootstrap", "checksums", "warmup", "inspect"} =>
                       inspect[p] = {}
StageInv == \A p \in Proc : StageAt(p)

\* The object is as it was recorded, or its last change got no version.
Traced(o) == live[o] = hist[o].fp \/ o \in unseen

\* The history and the trigger: a row has a fingerprint, versions come from the
\* sequence, and an object with no later version than its row's is traced.
AuditAt(o) ==
    /\ hist[o].sum # 0 => hist[o].fp # 0
    /\ hist[o].ver <= seq /\ ddl[o] <= seq
    /\ ~OutOfBand /\ hist[o].sum # 0 => live[o] # 0
    /\ hist[o].sum # 0 /\ hist[o].ver # 0 /\ ddl[o] <= hist[o].ver => Traced(o)
AuditInv ==
    /\ ~tables => HistoryEmpty
    /\ watch # "absent" => tables
    /\ \A o \in Object : AuditAt(o)

\* A complete migrate is done with o: its row has the file's checksum, unless it is a
\* table whose transitions were applied before.
DoneAs(o, v) == /\ hist[o].sum = v \/ (o \notin Module /\ hist[o].sum # 0)
                /\ Traced(o) /\ live[o] # 0

\* What a command knows while nobody else changes the database.
Loaded == {"warmup", "inspect", "save", "planned"}
KnownAt(p, o) ==
    /\ pc[p] \in Loaded =>
          /\ prior[p][o] # 0 \/ Bypass(p) \/ ~Reuse => prior[p][o] = hist[o].sum
          /\ drift[p][o] => live[o] # hist[o].fp
          /\ prior[p][o] # 0 /\ ~drift[p][o] => Traced(o)
    /\ pc[p] \in {"save", "planned"} =>
          /\ Bypass(p) => (o \in cat[p] <=> live[o] # 0)
          /\ ~Reuse /\ ~GitDelta(p) /\ live[o] # 0 => o \in cat[p]
    /\ pc[p] = "apply" /\ o \notin todo[p] => DoneAs(o, ws[p][o])
KnownInv == \A p \in Proc : quiet[p] => \A o \in Layout(p) : KnownAt(p, o)

\* After a complete migrate.
SettledInv == \A o \in DOMAIN settled : DoneAs(o, settled[o])

\* While only rmig changes the schema, no cache names an object that is not there.
CacheAt(p) ==
    /\ cat[p] \subseteq Present /\ \A e \in inspect[p] : e.cat \subseteq Present
    /\ \A o \in Object : prior[p][o] # 0 => live[o] # 0
    /\ pc[p] = "apply" => Layout(p) \ todo[p] \subseteq Present
    /\ pc[p] = "snapshot" => Layout(p) \subseteq Present
CacheInv ==
    /\ cache.rows = cache.layout
    /\ ~OutOfBand => cache.rows \subseteq Present /\ \A p \in Proc : CacheAt(p)

-----------------------------------------------------------------------------
(* Workspaces and scenarios. *)

LEMMA WorkspaceOK ==
    ASSUME NEW w \in Workspaces \cup {NoWorkspace}
    PROVE  DOMAIN w \subseteq Object /\ \A o \in DOMAIN w : w[o] \in Versions
  <1>1. CASE w \in Workspaces
    <2>1. PICK L \in Layouts : w \in [L -> Versions]
      BY <1>1 DEF Workspaces
    <2>2. QED
      BY <2>1, LayoutAssumption
  <1>2. CASE w = NoWorkspace
    BY <1>2 DEF NoWorkspace
  <1>3. QED
    BY <1>1, <1>2

\* The scenarios that this module tells apart.
LEMMA ScenarioOf ==
    ASSUME NEW p \in Proc, NEW o
    PROVE  /\ Scenario(p, o) \in {"Create", "Adopt", "SkipUnchanged", "TableReprocess",
                                  "ModuleUpdate", "LiveStructuralDriftBlocked"}
           /\ Scenario(p, o) = "SkipUnchanged" <=>
                 /\ o \in cat[p] /\ prior[p][o] # 0 /\ ~drift[p][o]
                 /\ prior[p][o] = ws[p][o]
           /\ Scenario(p, o) = "TableReprocess" <=>
                 /\ o \in cat[p] /\ prior[p][o] # 0 /\ ~drift[p][o]
                 /\ prior[p][o] # ws[p][o] /\ o \notin Module
  <1> DEFINE in == [exists |-> o \in cat[p], prior |-> prior[p][o],
                    drift |-> drift[p][o], checksum |-> ws[p][o],
                    kind |-> IF o \in Module THEN "procedures" ELSE "tables",
                    hasTransitions |-> TRUE, parent |-> "unnamed"]
  <1>1. Scenario(p, o) = ResolvePlanScenario(in)
    BY DEF Scenario
  <1>2. /\ in.exists = (o \in cat[p]) /\ in.prior = prior[p][o] /\ in.drift = drift[p][o]
        /\ in.checksum = ws[p][o] /\ in.hasTransitions
        /\ in.kind = IF o \in Module THEN "procedures" ELSE "tables"
    OBVIOUS
  <1> HIDE DEF in
  <1>3. ResolveChanged(in) = IF o \in Module THEN "ModuleUpdate" ELSE "TableReprocess"
    BY <1>2 DEF ResolveChanged, ChangedDefault, ModuleKinds, Kinds, TransactionalKinds
  <1>4. QED
    BY <1>1, <1>2, <1>3 DEF ResolvePlanScenario, ModuleKinds

\* A transition leaves its table in the database.
LEMMA TransitionThere ==
    ASSUME DataOK, NEW p \in Proc, NEW o \in Object, Transition(p, o)
    PROVE  /\ live' \in [Object -> 0 .. MaxVersion] /\ live[o] # 0 /\ live'[o] # 0
           /\ \A c \in Object \ {o} : live'[c] = live[c]
  <1>1. PICK d \in Versions : live' = [live EXCEPT ![o] = d]
    BY DEF Transition
  <1>2. d \in 0 .. MaxVersion /\ d # 0
    BY BoundAssumption DEF Versions
  <1>3. QED
    BY <1>1, <1>2 DEF Transition, DataOK

\* An applied object is there afterwards, and its row says what is there.
LEMMA AppliedThere ==
    ASSUME DataOK, LocalOK, OwnInv, StageInv, NEW p \in Proc, NEW o \in Object, Apply(p, o)
    PROVE  /\ o \in Layout(p) /\ ws[p][o] \in Versions
           /\ live'[o] # 0 /\ live'[o] \in 0 .. MaxVersion
           /\ \A c \in Object \ {o} : live'[c] = live[c]
           /\ Scenario(p, o) \in {"Create", "Adopt", "ModuleUpdate", "TableReprocess"}
  <1>1. o \in Layout(p)
    BY DEF Apply, OwnInv
  <1>2. ws[p][o] \in Versions /\ ws[p][o] # 0
    <2>1. ws[p][o] \in Versions
      BY <1>1, WorkspaceOK DEF LocalOK, Layout
    <2>2. QED
      BY <2>1, BoundAssumption DEF Versions
  <1>3. Scenario(p, o) \in {"Create", "Adopt", "ModuleUpdate", "TableReprocess"}
    BY DEF Apply, StageInv, StageAt
  <1>4. Scenario(p, o) = "Adopt" => live[o] # 0
    BY DEF Apply
  <1>5. live' = IF Scenario(p, o) = "Adopt" THEN live ELSE [live EXCEPT ![o] = ws[p][o]]
    BY DEF Apply
  <1>6. /\ live'[o] # 0 /\ live'[o] \in 0 .. MaxVersion
        /\ \A c \in Object \ {o} : live'[c] = live[c]
    BY <1>2, <1>4, <1>5 DEF DataOK, Versions
  <1>7. QED
    BY <1>1, <1>2, <1>3, <1>6

-----------------------------------------------------------------------------
(* Types. *)

LEMMA TypeParts == DataOK /\ LocalOK /\ OwnInv => TypeOK
  BY DEF DataOK, LocalOK, OwnInv, TypeOK, Stages

\* DDL on o either takes the next version or none.
LEMMA DdlOK ==
    ASSUME DataOK, seq < MaxDdl, NEW o \in Object, Ddl(o)
    PROVE  /\ seq' \in 0 .. MaxDdl /\ ddl' \in [Object -> 0 .. MaxDdl] /\ seq <= seq'
           /\ \A c \in Object \ {o} : ddl'[c] = ddl[c]
           /\ (ddl'[o] = seq' /\ seq < seq') \/ (ddl' = ddl /\ seq' = seq)
  BY BoundAssumption DEF DataOK, Ddl, Stamp

LEMMA ApplyDdl ==
    ASSUME DataOK, LocalOK, OwnInv, StageInv, NEW p \in Proc, NEW o \in Object, Apply(p, o)
    PROVE  Ddl(o)
  <1>1. Scenario(p, o) \in {"Create", "Adopt", "ModuleUpdate", "TableReprocess"}
    BY AppliedThere
  <1>2. QED
    BY <1>1 DEF Apply, Ddl

\* A step of p.
Does(p) ==
    \/ Prepare(p) \/ Bootstrap(p) \/ LoadChecksums(p) \/ Warmup(p)
    \/ Inspect(p) \/ Save(p) \/ Report(p) \/ BeginApply(p)
    \/ \E o \in Object : Transition(p, o) \/ Apply(p, o)
    \/ Finish(p) \/ Snapshot(p) \/ Release(p) \/ Exit(p)

LEMMA NextCases == Next <=> \/ \E p \in Proc : Does(p)
                            \/ \E o \in Object : Outside(o)
                            \/ SwitchWatch
  BY DEF Next, Does

LEMMA SaveOK ==
    ASSUME DataOK, NEW layout \in SUBSET Object, NEW objects, SaveBatched(layout, objects)
    PROVE  cache' \in [rows : SUBSET Object, layout : SUBSET Object]
  BY DEF DataOK, SaveBatched

LEMMA LayoutOK ==
    ASSUME LocalOK, NEW p \in Proc
    PROVE  Layout(p) \subseteq Object /\ \A o \in Layout(p) : ws[p][o] \in Versions
  BY WorkspaceOK DEF LocalOK, Layout

LEMMA DataNext == ASSUME DataOK, LocalOK, OwnInv, StageInv, Next PROVE DataOK'
  <1> USE DEF database, process, reading, applying
  <1>1. ASSUME NEW p \in Proc, Does(p) PROVE DataOK'
    <2>l. Layout(p) \in SUBSET Object
      BY LayoutOK
    <2>1. CASE Prepare(p)
      BY <2>1 DEF Prepare, DataOK, Stages
    <2>2. CASE Bootstrap(p)
      BY <2>2 DEF Bootstrap, DataOK, Stages
    <2>3. CASE LoadChecksums(p)
      BY <2>3 DEF LoadChecksums, DataOK, Stages
    <2>4. CASE Warmup(p)
      BY <2>4 DEF Warmup, DataOK, Stages
    <2>5. CASE Inspect(p)
      BY <2>5 DEF Inspect, DataOK, Stages
    <2>6. CASE Save(p)
      <3>1. cache' \in [rows : SUBSET Object, layout : SUBSET Object]
        BY <2>l, <2>6, SaveOK DEF Save, DataOK
      <3>2. QED
        BY <2>6, <3>1 DEF Save, DataOK, Stages
    <2>7. CASE Report(p) \/ Release(p) \/ Exit(p)
      BY <2>7 DEF Report, Release, Exit, Leave, EndProcess, Forget, DataOK, Stages
    <2>8. CASE BeginApply(p)
      BY <2>8 DEF BeginApply, DataOK, Stages
    <2>9. ASSUME NEW o \in Object, Apply(p, o) PROVE DataOK'
      <3>1. /\ live' \in [Object -> 0 .. MaxVersion] /\ ws[p][o] \in 0 .. MaxVersion
            /\ live'[o] \in 0 .. MaxVersion
        <4>1. ws[p][o] \in 0 .. MaxVersion /\ live'[o] \in 0 .. MaxVersion
          BY <2>9, AppliedThere, BoundAssumption DEF Versions
        <4>2. live' = live \/ live' = [live EXCEPT ![o] = ws[p][o]]
          BY <2>9 DEF Apply
        <4>3. QED
          BY <4>1, <4>2 DEF DataOK
      <3>2. seq' \in 0 .. MaxDdl /\ ddl' \in [Object -> 0 .. MaxDdl]
        BY <2>9, ApplyDdl, DdlOK DEF Apply
      <3>3. Recorded(p, o) \in [sum : 0 .. MaxVersion, fp : 0 .. MaxVersion, ver : 0 .. MaxDdl]
        BY <3>1, <3>2 DEF Recorded
      <3>4. hist' \in [Object -> [sum : 0 .. MaxVersion, fp : 0 .. MaxVersion, ver : 0 .. MaxDdl]]
        BY <2>9, <3>3 DEF Apply, DataOK
      <3>5. QED
        BY <2>9, <3>1, <3>2, <3>4 DEF Apply, DataOK
    <2>10. CASE Finish(p)
      BY <2>10 DEF Finish, DataOK, LocalOK, Stages, AfterFinish, NoCache
    <2>11. CASE Snapshot(p)
      <3>1. cache' \in [rows : SUBSET Object, layout : SUBSET Object]
        BY <2>l, <2>11, SaveOK DEF Snapshot, DataOK
      <3>2. QED
        BY <2>11, <3>1 DEF Snapshot, DataOK, Stages
    <2>12. ASSUME NEW o \in Object, Transition(p, o) PROVE DataOK'
      <3>1. live' \in [Object -> 0 .. MaxVersion]
        BY <2>12, TransitionThere
      <3>2. seq' \in 0 .. MaxDdl /\ ddl' \in [Object -> 0 .. MaxDdl] /\ unseen' \subseteq Object
        BY <2>12, DdlOK DEF Transition, Unrecorded, DataOK
      <3>3. QED
        BY <2>12, <3>1, <3>2 DEF Transition, DataOK
    <2>13. QED
      BY <1>1, <2>1, <2>2, <2>3, <2>4, <2>5, <2>6, <2>7, <2>8, <2>9, <2>10, <2>11, <2>12 DEF Does
  <1>2. ASSUME NEW o \in Object, Outside(o) PROVE DataOK'
    <2>1. seq' \in 0 .. MaxDdl /\ ddl' \in [Object -> 0 .. MaxDdl] /\ unseen' \subseteq Object
      BY <1>2, DdlOK DEF Outside, Unrecorded, DataOK
    <2>2. live' \in [Object -> 0 .. MaxVersion]
      BY <1>2 DEF Outside, DataOK
    <2>3. UNCHANGED <<watch, tables, hist, cache, holder, pc, probe>> /\ settled' = NoWorkspace
      BY <1>2 DEF Outside
    <2>4. QED
      BY <2>1, <2>2, <2>3 DEF DataOK
  <1>3. CASE SwitchWatch
    BY <1>3 DEF SwitchWatch, DataOK
  <1>4. QED
    BY <1>1, <1>2, <1>3, NextCases

\* What a command's scope is made of.
LEMMA ScopeOK ==
    ASSUME LocalOK, NEW p \in Proc, NEW S \in Promoted(Layout(p) \ MustInspect(p))
    PROVE  MustInspect(p) \cup S \subseteq Layout(p)
  BY DEF Promoted, MustInspect

\* The two outcomes of Inspect.
Skips(p) == ~need[p] /\ UNCHANGED <<cat, hot, inspect>>
Looks(p, keys, found) ==
    /\ need[p] /\ MustInspect(p) \subseteq keys /\ keys \subseteq Layout(p)
    /\ \/ keys = {} /\ found = cat[p] /\ inspect' = inspect
       \/ /\ keys # {} /\ Cached(p, ScopeKey(p, keys)) # {} /\ inspect' = inspect
          /\ \E e \in Cached(p, ScopeKey(p, keys)) : found = e.cat
       \/ /\ keys # {} /\ Cached(p, ScopeKey(p, keys)) = {} /\ found = Queried(p, keys)
          /\ \/ inspect' = inspect
             \/ inspect' = [inspect EXCEPT ![p] = {e \in inspect[p] : e.key # ScopeKey(p, keys)}
                                         \cup {[key |-> ScopeKey(p, keys), cat |-> found]}]
    /\ hot' = [hot EXCEPT ![p] = keys]
    /\ cat' = [cat EXCEPT ![p] = found \cup (Layout(p) \ keys)]

LEMMA InspectCases ==
    ASSUME LocalOK, NEW p \in Proc, Inspect(p)
    PROVE  Skips(p) \/ \E keys, found : Looks(p, keys, found)
  <1>1. CASE ~need[p]
    BY <1>1 DEF Inspect, Skips
  <1>2. CASE need[p]
    <2>1. PICK S \in Promoted(Layout(p) \ MustInspect(p)) :
             LET keys == MustInspect(p) \cup S
                 key == ScopeKey(p, keys)
                 hits == Cached(p, key)
                 found == IF keys = {} THEN cat[p]
                          ELSE IF hits # {} THEN (CHOOSE e \in hits : TRUE).cat
                          ELSE Queried(p, keys)
             IN  /\ hot' = [hot EXCEPT ![p] = keys]
                 /\ cat' = [cat EXCEPT ![p] = found \cup (Layout(p) \ keys)]
                 /\ inspect' = IF keys = {} \/ hits # {} \/ ~Stores(p, found)
                                 THEN inspect
                                 ELSE [inspect EXCEPT ![p] =
                                         {e \in @ : e.key # key}
                                           \cup {[key |-> key, cat |-> found]}]
      BY <1>2 DEF Inspect
    <2> DEFINE keys == MustInspect(p) \cup S
               key == ScopeKey(p, keys)
               hits == Cached(p, key)
               found == IF keys = {} THEN cat[p]
                        ELSE IF hits # {} THEN (CHOOSE e \in hits : TRUE).cat
                        ELSE Queried(p, keys)
    <2>2. MustInspect(p) \subseteq keys /\ keys \subseteq Layout(p)
      BY ScopeOK
    <2>3. /\ hot' = [hot EXCEPT ![p] = keys]
          /\ cat' = [cat EXCEPT ![p] = found \cup (Layout(p) \ keys)]
          /\ inspect' = IF keys = {} \/ hits # {} \/ ~Stores(p, found)
                          THEN inspect
                          ELSE [inspect EXCEPT ![p] = {e \in inspect[p] : e.key # key}
                                    \cup {[key |-> key, cat |-> found]}]
      BY <2>1
    <2>4. keys # {} /\ hits # {} => \E e \in hits : found = e.cat
      <3> SUFFICES ASSUME keys # {}, hits # {} PROVE \E e \in hits : found = e.cat
        OBVIOUS
      <3>1. (CHOOSE e \in hits : TRUE) \in hits
        OBVIOUS
      <3>2. QED
        BY <3>1
    <2>5. /\ keys = {} => found = cat[p]
          /\ keys # {} /\ hits = {} => found = Queried(p, keys)
      OBVIOUS
    <2>6. hits = Cached(p, ScopeKey(p, keys)) /\ key = ScopeKey(p, keys)
      OBVIOUS
    <2> HIDE DEF keys, key, hits, found
    <2>7. Looks(p, keys, found)
      BY <1>2, <2>2, <2>3, <2>4, <2>5, <2>6 DEF Looks
    <2>8. QED
      BY <2>7
  <1>3. QED
    BY <1>1, <1>2 DEF LocalOK

LEMMA LooksOK ==
    ASSUME LocalOK, NEW p \in Proc, NEW keys, NEW found, Looks(p, keys, found)
    PROVE  /\ found \subseteq Object /\ keys \subseteq Object
           /\ inspect' \in [Proc -> SUBSET [key : BOOLEAN \X (SUBSET Object) \X (SUBSET Object),
                                            cat : SUBSET Object]]
  <1>1. keys \subseteq Object /\ Layout(p) \subseteq Object
    BY LayoutOK DEF Looks
  <1>2. found \subseteq Object
    <2>1. cat[p] \subseteq Object /\ cmd[p].delta \subseteq Object
          /\ \A e \in inspect[p] : e.cat \subseteq Object
      BY DEF LocalOK
    <2>2. Queried(p, keys) \subseteq Object
      BY <1>1, <2>1 DEF Queried, Present
    <2>3. \A e \in Cached(p, ScopeKey(p, keys)) : e.cat \subseteq Object
      BY <2>1 DEF Cached
    <2>4. QED
      BY <2>1, <2>2, <2>3 DEF Looks
  <1>3. [key |-> ScopeKey(p, keys), cat |-> found]
           \in [key : BOOLEAN \X (SUBSET Object) \X (SUBSET Object), cat : SUBSET Object]
    <2>1. ScopeKey(p, keys) \in BOOLEAN \X (SUBSET Object) \X (SUBSET Object)
      BY <1>1 DEF ScopeKey, Full, Bypass
    <2>2. QED
      BY <1>2, <2>1
  <1>4. inspect' \in [Proc -> SUBSET [key : BOOLEAN \X (SUBSET Object) \X (SUBSET Object),
                                      cat : SUBSET Object]]
    BY <1>3 DEF Looks, LocalOK
  <1>5. QED
    BY <1>1, <1>2, <1>4

\* The outcome of prepare_execute: command c on workspace w, with the objects of a
\* strict cache hit.
Prepares(p, c, w, hit) ==
    /\ pc[p] = "idle" /\ w \in Workspaces
    /\ c \in [name : {"plan", "migrate"}, mode : GitModes, delta : SUBSET Object]
    /\ hit = {} \/ (c.name = "plan" /\ c.mode = "listed" /\ hit = StrictLoad(DOMAIN w))
    /\ cmd' = [cmd EXCEPT ![p] = c] /\ ws' = [ws EXCEPT ![p] = w]
    /\ cat' = [cat EXCEPT ![p] = hit] /\ need' = [need EXCEPT ![p] = (hit = {})]
    /\ \/ /\ c.name = "migrate" /\ holder = NoProc /\ holder' = p
          /\ pc' = [pc EXCEPT ![p] = "bootstrap"] /\ probe' = [probe EXCEPT ![p] = "unknown"]
       \/ /\ c.name = "plan" /\ holder' = holder /\ pc' = [pc EXCEPT ![p] = "checksums"]
          /\ probe' = probe \/ probe' = [probe EXCEPT ![p] = "unknown"]
    /\ ensured' = [ensured EXCEPT ![p] = tables] /\ quiet' = [quiet EXCEPT ![p] = TRUE]
    /\ UNCHANGED <<database, cache, inspect, partial, prior, drift, hot, applying, unseen>>

LEMMA PrepareCases ==
    ASSUME NEW p \in Proc, Prepare(p)
    PROVE  \E c, w, hit : Prepares(p, c, w, hit)
  <1> DEFINE C(name, mode, delta) ==
                IF name = "plan" \/ mode = "full"
                  THEN [name |-> name, mode |-> mode, delta |-> delta]
                  ELSE [name |-> name, mode |-> "clean", delta |-> {}]
             H(c, w) == IF TryCache(c, DOMAIN w) THEN StrictLoad(DOMAIN w) ELSE {}
             B(name, c, w, hit) ==
                  /\ p \in IF name = "plan" THEN Planners ELSE Migrators
                  /\ IF name = "migrate"
                       THEN holder = NoProc /\ holder' = p
                       ELSE UNCHANGED holder
                  /\ cmd' = [cmd EXCEPT ![p] = c]
                  /\ ws' = [ws EXCEPT ![p] = w]
                  /\ cat' = [cat EXCEPT ![p] = hit]
                  /\ need' = [need EXCEPT ![p] = (hit = {})]
                  /\ pc' = [pc EXCEPT ![p] = IF name = "migrate" THEN "bootstrap"
                                                                 ELSE "checksums"]
                  /\ probe' = IF name = "migrate" \/ (ensured[p] /\ ~tables)
                                THEN [probe EXCEPT ![p] = "unknown"]
                                ELSE probe
  <1>1. \E mode \in Modes, w \in Workspaces, name \in {"plan", "migrate"} :
        \E delta \in IF mode = "delta" THEN SUBSET DOMAIN w ELSE {{}} :
           B(name, C(name, mode, delta), w, H(C(name, mode, delta), w))
    BY Zenon DEF Prepare
  <1>2. PICK mode \in Modes, w \in Workspaces, name \in {"plan", "migrate"} :
        \E delta \in IF mode = "delta" THEN SUBSET DOMAIN w ELSE {{}} :
           B(name, C(name, mode, delta), w, H(C(name, mode, delta), w))
    BY <1>1
  <1>3. PICK delta \in IF mode = "delta" THEN SUBSET DOMAIN w ELSE {{}} :
           B(name, C(name, mode, delta), w, H(C(name, mode, delta), w))
    BY <1>2
  <1> DEFINE c == C(name, mode, delta)
             hit == H(c, w)
  <1>4. delta \subseteq Object /\ mode \in GitModes /\ "clean" \in GitModes
    BY WorkspaceOK, ModeAssumption DEF GitModes
  <1>5. /\ c \in [name : {"plan", "migrate"}, mode : GitModes, delta : SUBSET Object]
        /\ c.name = name
    BY <1>4
  <1>6. hit = {} \/ (c.name # "migrate" /\ c.mode = "listed" /\ hit = StrictLoad(DOMAIN w))
    BY DEF TryCache
  <1>7. B(name, c, w, hit)
    BY <1>3
  <1>8. /\ pc[p] = "idle" /\ ensured' = [ensured EXCEPT ![p] = tables]
        /\ quiet' = [quiet EXCEPT ![p] = TRUE]
        /\ UNCHANGED <<database, cache, inspect, partial, prior, drift, hot, applying, unseen>>
    BY DEF Prepare
  <1> HIDE DEF c, hit
  <1>9. Prepares(p, c, w, hit)
    BY <1>5, <1>6, <1>7, <1>8 DEF Prepares
  <1>10. QED
    BY <1>9

LEMMA LocalNext == ASSUME DataOK, LocalOK, OwnInv, Next PROVE LocalOK'
  <1> USE DEF database, process, reading, applying
  <1>1. ASSUME NEW p \in Proc, Does(p) PROVE LocalOK'
    <2>l. Layout(p) \in SUBSET Object
      BY LayoutOK
    <2>1. CASE Prepare(p)
      <3>1. PICK c, w, hit : Prepares(p, c, w, hit)
        BY <2>1, PrepareCases
      <3>2. hit \subseteq Object
        BY <3>1 DEF Prepares, StrictLoad, DataOK
      <3>3. cmd' \in [Proc -> [name : {"plan", "migrate"}, mode : GitModes, delta : SUBSET Object]]
        BY <3>1 DEF Prepares, LocalOK
      <3>4. ws' \in [Proc -> Workspaces \cup {NoWorkspace}]
        BY <3>1 DEF Prepares, LocalOK
      <3>5. cat' \in [Proc -> SUBSET Object] /\ need' \in [Proc -> BOOLEAN]
        BY <3>1, <3>2 DEF Prepares, LocalOK
      <3>6. QED
        BY <3>1, <3>3, <3>4, <3>5 DEF Prepares, LocalOK, DataOK
    <2>2. CASE Bootstrap(p)
      BY <2>2 DEF Bootstrap, LocalOK
    <2>3. CASE LoadChecksums(p)
      <3>1. /\ prior' \in [Proc -> [Object -> 0 .. MaxVersion]]
            /\ drift' \in [Proc -> [Object -> BOOLEAN]]
        BY <2>3, BoundAssumption DEF LoadChecksums, LocalOK, DataOK
      <3>2. inspect' = inspect \/ inspect' = [inspect EXCEPT ![p] = {}]
        BY <2>3 DEF LoadChecksums
      <3>3. ensured' = ensured \/ ensured' = [ensured EXCEPT ![p] = TRUE]
        BY <2>3 DEF LoadChecksums
      <3>4. QED
        BY <2>3, <3>1, <3>2, <3>3 DEF LoadChecksums, LocalOK
    <2>4. CASE Warmup(p)
      <3>1. RelaxedLoad(Layout(p)) \subseteq Object
        BY DEF RelaxedLoad, DataOK
      <3>2. QED
        BY <2>4, <3>1 DEF Warmup, LocalOK
    <2>5. CASE Inspect(p)
      <3>1. CASE Skips(p)
        BY <2>5, <3>1 DEF Inspect, Skips, LocalOK
      <3>2. ASSUME NEW keys, NEW found, Looks(p, keys, found) PROVE LocalOK'
        <4>1. /\ found \subseteq Object /\ keys \subseteq Object
              /\ inspect' \in [Proc -> SUBSET [key : BOOLEAN \X (SUBSET Object) \X (SUBSET Object),
                                               cat : SUBSET Object]]
          BY <3>2, LooksOK
        <4>2. hot' \in [Proc -> SUBSET Object] /\ cat' \in [Proc -> SUBSET Object]
          BY <2>l, <3>2, <4>1 DEF Looks, LocalOK
        <4>3. QED
          BY <2>5, <4>1, <4>2 DEF Inspect, LocalOK
      <3>3. QED
        BY <2>5, <3>1, <3>2, InspectCases
    <2>6. CASE Save(p) \/ Snapshot(p)
      BY <2>6 DEF Save, Snapshot, LocalOK
    <2>7. CASE Report(p) \/ Release(p) \/ Exit(p)
      <3>1. /\ NoCommand \in [name : {"plan", "migrate"}, mode : GitModes, delta : SUBSET Object]
            /\ None \in [Object -> 0 .. MaxVersion] /\ NoDrift \in [Object -> BOOLEAN]
        BY BoundAssumption DEF NoCommand, None, NoDrift, GitModes
      <3>2. Leave(p) /\ (UNCHANGED process \/ Forget(p))
        BY <2>7 DEF Report, Release, Exit, EndProcess
      <3>3. QED
        BY <3>1, <3>2 DEF Leave, Forget, LocalOK
    <2>8. CASE BeginApply(p)
      BY <2>l, <2>8 DEF BeginApply, LocalOK
    <2>9. ASSUME NEW o \in Object, Apply(p, o) PROVE LocalOK'
      <3>1. quiet' \in [Proc -> BOOLEAN]
        BY <2>9 DEF Apply, LocalOK
      <3>2. QED
        BY <2>9, <3>1 DEF Apply, LocalOK
    <2>10. CASE Finish(p)
      BY <2>10 DEF Finish, LocalOK
    <2>11. ASSUME NEW o \in Object, Transition(p, o) PROVE LocalOK'
      <3>1. quiet' \in [Proc -> BOOLEAN]
        BY <2>11 DEF Transition, LocalOK
      <3>2. QED
        BY <2>11, <3>1 DEF Transition, LocalOK
    <2>12. QED
      BY <1>1, <2>1, <2>2, <2>3, <2>4, <2>5, <2>6, <2>7, <2>8, <2>9, <2>10, <2>11 DEF Does
  <1>2. ASSUME NEW o \in Object, Outside(o) PROVE LocalOK'
    BY <1>2 DEF Outside, LocalOK
  <1>3. CASE SwitchWatch
    BY <1>3 DEF SwitchWatch, LocalOK
  <1>4. QED
    BY <1>1, <1>2, <1>3, NextCases

-----------------------------------------------------------------------------
(* The lock and the stages of a command. *)

SameLocal(q) ==
    /\ pc'[q] = pc[q] /\ cmd'[q] = cmd[q] /\ ws'[q] = ws[q]
    /\ probe'[q] = probe[q] /\ inspect'[q] = inspect[q] /\ need'[q] = need[q]
    /\ prior'[q] = prior[q] /\ drift'[q] = drift[q] /\ hot'[q] = hot[q]
    /\ cat'[q] = cat[q] /\ todo'[q] = todo[q] /\ (quiet'[q] => quiet[q])

\* A step of one process changes nothing of another one's command.
LEMMA OthersSame ==
    ASSUME DataOK, LocalOK, NEW p \in Proc, NEW q \in Proc \ {p}, Does(p)
    PROVE  SameLocal(q)
  <1>0. /\ pc \in [Proc -> Stages] /\ probe \in [Proc -> {"unknown", "empty", "nonempty"}]
        /\ DOMAIN cmd = Proc /\ DOMAIN ws = Proc /\ DOMAIN inspect = Proc /\ DOMAIN need = Proc
        /\ DOMAIN prior = Proc /\ DOMAIN drift = Proc /\ DOMAIN hot = Proc /\ DOMAIN cat = Proc
        /\ DOMAIN todo = Proc /\ DOMAIN quiet = Proc
    BY DEF DataOK, LocalOK
  <1>e. \A f, a : DOMAIN f = Proc => [f EXCEPT ![p] = a][q] = f[q]
    OBVIOUS
  <1> USE <1>0, <1>e DEF SameLocal, database, process, reading, applying
  <1>1. CASE Prepare(p)
    <2>1. PICK c, w, hit : Prepares(p, c, w, hit)
      BY <1>1, PrepareCases
    <2>2. QED
      BY <2>1 DEF Prepares
  <1>2. CASE Bootstrap(p)
    BY <1>2 DEF Bootstrap
  <1>3. CASE LoadChecksums(p)
    <2>1. /\ inspect' = inspect \/ inspect' = [inspect EXCEPT ![p] = {}]
          /\ probe'[q] = probe[q] /\ prior'[q] = prior[q] /\ drift'[q] = drift[q] /\ pc'[q] = pc[q]
      BY <1>3 DEF LoadChecksums
    <2>2. QED
      BY <1>3, <2>1 DEF LoadChecksums
  <1>4. CASE Warmup(p)
    BY <1>4 DEF Warmup
  <1>5. CASE Inspect(p)
    <2>1. CASE Skips(p)
      BY <1>5, <2>1 DEF Inspect, Skips
    <2>2. ASSUME NEW keys, NEW found, Looks(p, keys, found) PROVE SameLocal(q)
      BY <1>5, <2>2 DEF Inspect, Looks
    <2>3. QED
      BY <1>5, <2>1, <2>2, InspectCases
  <1>6. CASE Save(p) \/ Snapshot(p) \/ BeginApply(p)
    BY <1>6 DEF Save, Snapshot, BeginApply
  <1>7. CASE Report(p) \/ Release(p) \/ Exit(p)
    <2>1. Leave(p) /\ (UNCHANGED process \/ Forget(p))
      BY <1>7 DEF Report, Release, Exit, EndProcess
    <2>2. QED
      BY <2>1 DEF Leave, Forget
  <1>8. ASSUME NEW o \in Object, Apply(p, o) PROVE SameLocal(q)
    BY <1>8 DEF Apply
  <1>9. CASE Finish(p)
    BY <1>9 DEF Finish
  <1>10. ASSUME NEW o \in Object, Transition(p, o) PROVE SameLocal(q)
    BY <1>10 DEF Transition
  <1>11. QED
    BY <1>1, <1>2, <1>3, <1>4, <1>5, <1>6, <1>7, <1>8, <1>9, <1>10 DEF Does

\* A step from outside changes nothing of a command but that it is not alone.
LEMMA OutsideSame ==
    ASSUME NEW q \in Proc, SwitchWatch \/ \E o \in Object : Outside(o)
    PROVE  SameLocal(q) /\ holder' = holder /\ tables' = tables
  BY DEF SwitchWatch, Outside, SameLocal, database, process, reading, applying

LEMMA OwnNext == ASSUME DataOK, LocalOK, OwnInv, StageInv, Next PROVE OwnInv'
  <1> DEFINE Own(q) == /\ Bypass(q) <=> holder = q
                       /\ hot[q] \subseteq Layout(q) /\ todo[q] \subseteq Layout(q)
  <1>1. ASSUME NEW p \in Proc, Does(p) PROVE OwnInv'
    <2>0. Own(p) /\ p # NoProc /\ pc[p] \in Stages
      BY ProcAssumption DEF OwnInv, DataOK
    <2>1. holder' = holder \/ (holder = NoProc /\ holder' = p) \/ (holder = p /\ holder' = NoProc)
      <3>1. CASE Prepare(p)
        <4>1. PICK c, w, hit : Prepares(p, c, w, hit)
          BY <3>1, PrepareCases
        <4>2. QED
          BY <4>1 DEF Prepares
      <3>2. CASE Report(p) \/ Release(p) \/ Exit(p)
        BY <3>2 DEF Report, Release, Exit, Leave
      <3>3. CASE ~Prepare(p) /\ ~Report(p) /\ ~Release(p) /\ ~Exit(p)
        BY <1>1, <3>3 DEF Does, Bootstrap, LoadChecksums, Warmup, Inspect, Save, BeginApply, Apply,
                          Transition, Finish, Snapshot
      <3>4. QED
        BY <3>1, <3>2, <3>3
    <2>2. ASSUME NEW q \in Proc \ {p} PROVE Own(q)'
      <3>1. SameLocal(q) /\ Own(q) /\ q # NoProc
        BY <1>1, <2>2, OthersSame, ProcAssumption DEF OwnInv
      <3>2. QED
        BY <2>1, <2>2, <3>1 DEF SameLocal, Bypass, Layout
    <2>3. Own(p)'
      <3> USE <2>0 DEF database, process, reading, applying, Bypass, Layout
      <3>1. CASE Prepare(p)
        <4>1. PICK c, w, hit : Prepares(p, c, w, hit)
          BY <3>1, PrepareCases
        <4>2. cmd[p] = NoCommand /\ hot[p] = {} /\ todo[p] = {}
          BY <4>1 DEF Prepares, StageInv, StageAt
        <4>3. cmd'[p] = c /\ hot'[p] = {} /\ todo'[p] = {}
          BY <4>1, <4>2 DEF Prepares, LocalOK
        <4>4. (c.name = "migrate" /\ holder' = p) \/ (c.name = "plan" /\ holder' = holder)
          BY <4>1 DEF Prepares
        <4>5. QED
          BY <4>2, <4>3, <4>4 DEF NoCommand
      <3>2. CASE Bootstrap(p) \/ LoadChecksums(p) \/ Warmup(p) \/ Save(p) \/ Finish(p) \/ Snapshot(p)
        BY <3>2 DEF Bootstrap, LoadChecksums, Warmup, Save, Finish, Snapshot
      <3>3. CASE Inspect(p)
        <4>1. CASE Skips(p)
          BY <3>3, <4>1 DEF Inspect, Skips
        <4>2. ASSUME NEW keys, NEW found, Looks(p, keys, found) PROVE Own(p)'
          <5>1. hot'[p] = keys /\ keys \subseteq Layout(p)
            BY <4>2 DEF Looks, LocalOK
          <5>2. QED
            BY <3>3, <5>1 DEF Inspect
        <4>3. QED
          BY <3>3, <4>1, <4>2, InspectCases
      <3>4. CASE Report(p) \/ Release(p) \/ Exit(p)
        <4>1. Leave(p)
          BY <3>4 DEF Report, Release, Exit
        <4>2. cmd'[p] = NoCommand /\ hot'[p] = {} /\ todo'[p] = {} /\ holder' # p
          BY <4>1 DEF Leave, LocalOK
        <4>3. QED
          BY <4>2 DEF NoCommand
      <3>5. CASE BeginApply(p)
        BY <3>5 DEF BeginApply, LocalOK
      <3>6. ASSUME NEW o \in Object, Apply(p, o) PROVE Own(p)'
        BY <3>6 DEF Apply, LocalOK
      <3>7. ASSUME NEW o \in Object, Transition(p, o) PROVE Own(p)'
        BY <3>7 DEF Transition
      <3>8. QED
        BY <1>1, <3>1, <3>2, <3>3, <3>4, <3>5, <3>6, <3>7 DEF Does
    <2>4. QED
      BY <2>2, <2>3 DEF OwnInv
  <1>2. CASE SwitchWatch \/ \E o \in Object : Outside(o)
    <2>1. \A q \in Proc : SameLocal(q) /\ holder' = holder
      BY <1>2, OutsideSame
    <2>2. QED
      BY <2>1 DEF OwnInv, SameLocal, Bypass, Layout
  <1>3. QED
    BY <1>1, <1>2, NextCases

\* The audit tables are never dropped.
LEMMA TablesStay == ASSUME DataOK, Next PROVE tables => tables'
  <1> USE DEF database, process, reading, applying
  <1>1. ASSUME NEW p \in Proc, Does(p) PROVE tables => tables'
    BY <1>1 DEF Does, Prepare, Bootstrap, LoadChecksums, Warmup, Inspect, Save, Report, Release,
                Exit, Leave, BeginApply, Apply, Transition, Finish, Snapshot
  <1>2. QED
    BY <1>1, NextCases DEF Outside, SwitchWatch

\* The steps that end a command.
LEMMA LeaveCases ==
    ASSUME DataOK, LocalOK, NEW p \in Proc, Report(p) \/ Release(p) \/ Exit(p)
    PROVE  /\ pc'[p] = "idle" /\ cmd'[p] = NoCommand /\ ws'[p] = NoWorkspace
           /\ hot'[p] = {} /\ cat'[p] = {} /\ todo'[p] = {} /\ prior'[p] = None /\ ~quiet'[p]
           /\ drift'[p] = NoDrift
           /\ UNCHANGED <<database, cache, settled, unseen>>
           /\ (probe'[p] = "unknown" /\ inspect'[p] = {})
                 \/ (Reuse /\ probe'[p] = probe[p] /\ inspect'[p] = inspect[p])
  <1>1. Leave(p) /\ (Forget(p) \/ (Reuse /\ UNCHANGED process))
    BY SwitchAssumption DEF Report, Release, Exit, EndProcess
  <1>2. DOMAIN inspect = Proc /\ DOMAIN probe = Proc
    BY DEF DataOK, LocalOK
  <1>3. (probe'[p] = "unknown" /\ inspect'[p] = {})
            \/ (Reuse /\ probe'[p] = probe[p] /\ inspect'[p] = inspect[p])
    BY <1>1, <1>2 DEF Forget, process
  <1>4. QED
    BY <1>1, <1>3 DEF Leave, DataOK, LocalOK

LEMMA StageNext == ASSUME DataOK, LocalOK, OwnInv, StageInv, CacheInv, Next PROVE StageInv'
  <1>t. tables => tables'
    BY TablesStay
  <1>s. ASSUME NEW q \in Proc, SameLocal(q) PROVE StageAt(q)'
    <2>1. StageAt(q)
      BY DEF StageInv
    <2>2. \A o : Scenario(q, o)' = Scenario(q, o)
      BY <1>s DEF SameLocal, Scenario
    <2>3. QED
      BY <1>t, <1>s, <2>1, <2>2 DEF SameLocal, StageAt, Bypass, GitDelta, Layout
  <1>1. ASSUME NEW p \in Proc, Does(p) PROVE StageInv'
    <2>0. StageAt(p) /\ pc[p] \in Stages
      BY DEF StageInv, DataOK
    <2> USE DEF database, process, reading, applying
    <2>1. CASE Prepare(p)
      <3>1. PICK c, w, hit : Prepares(p, c, w, hit)
        BY <2>1, PrepareCases
      <3>2. /\ cmd'[p] = c /\ ws'[p] = w /\ cat'[p] = hit /\ need'[p] = (hit = {})
            /\ hot'[p] = hot[p] /\ todo'[p] = todo[p] /\ inspect'[p] = inspect[p]
            /\ \/ c.name = "migrate" /\ pc'[p] = "bootstrap" /\ probe'[p] = "unknown"
               \/ c.name = "plan" /\ pc'[p] = "checksums" /\ probe'[p] \in {probe[p], "unknown"}
        BY <3>1 DEF Prepares, DataOK, LocalOK
      <3>3. hit # {} => c.name = "plan" /\ c.mode = "listed" /\ DOMAIN w \subseteq hit
        BY <3>1 DEF Prepares, StrictLoad, CacheInv
      <3>4. pc[p] = "idle" /\ (c.name = "migrate" => hit = {})
        BY <3>1 DEF Prepares
      <3>5. StageAt(p)'
        BY <2>0, <3>2, <3>3, <3>4 DEF StageAt, Bypass, GitDelta, Layout
      <3>6. QED
        BY <1>1, <1>s, <3>5, OthersSame DEF StageInv
    <2>2. CASE Bootstrap(p)
      <3>1. /\ pc[p] = "bootstrap" /\ pc'[p] = "checksums" /\ tables' = TRUE
            /\ UNCHANGED <<cmd, ws, need, cat, probe, inspect, hot, todo>>
        BY <2>2 DEF Bootstrap, DataOK
      <3>2. StageAt(p)'
        BY <2>0, <3>1 DEF StageAt, Bypass, GitDelta, Layout
      <3>3. QED
        BY <1>1, <1>s, <3>2, OthersSame DEF StageInv
    <2>3. CASE LoadChecksums(p)
      <3>1. /\ pc[p] = "checksums" /\ pc'[p] = IF GitDelta(p) THEN "warmup" ELSE "inspect"
            /\ inspect'[p] \in {inspect[p], {}}
            /\ UNCHANGED <<cmd, ws, need, cat, hot, todo, tables>>
        BY <2>3 DEF LoadChecksums, DataOK, LocalOK
      <3>2. StageAt(p)'
        BY <2>0, <3>1 DEF StageAt, Bypass, GitDelta, Layout
      <3>3. QED
        BY <1>1, <1>s, <3>2, OthersSame DEF StageInv
    <2>4. CASE Warmup(p)
      <3>1. /\ pc[p] = "warmup" /\ pc'[p] = "inspect"
            /\ UNCHANGED <<cmd, ws, need, hot, todo, probe, inspect, tables>>
        BY <2>4 DEF Warmup, DataOK
      <3>2. StageAt(p)'
        BY <2>0, <3>1 DEF StageAt, Bypass, GitDelta, Layout
      <3>3. QED
        BY <1>1, <1>s, <3>2, OthersSame DEF StageInv
    <2>5. CASE Inspect(p)
      <3>1. /\ pc[p] = "inspect" /\ pc'[p] = "save"
            /\ UNCHANGED <<cmd, ws, need, todo, probe, tables>>
            /\ need[p] \/ cat' = cat
        BY <2>5 DEF Inspect, DataOK
      <3>2. StageAt(p)'
        BY <2>0, <3>1 DEF StageAt, Bypass, GitDelta, Layout
      <3>3. QED
        BY <1>1, <1>s, <3>2, OthersSame DEF StageInv
    <2>6. CASE Save(p) \/ Snapshot(p) \/ Finish(p)
      <3>1. /\ pc[p] \in {"save", "snapshot", "apply"} /\ pc'[p] \in {"planned", "release", "snapshot"}
            /\ pc'[p] = "snapshot" => Bypass(p)
            /\ UNCHANGED <<cmd, ws, need, todo, cat, tables>>
        BY <2>0, <2>6 DEF Save, Snapshot, Finish, AfterFinish, DataOK, StageAt
      <3>2. StageAt(p)'
        BY <2>0, <3>1 DEF StageAt, Bypass, GitDelta, Layout
      <3>3. QED
        BY <1>1, <1>s, <3>2, OthersSame DEF StageInv
    <2>7. CASE Report(p) \/ Release(p) \/ Exit(p)
      <3>1. StageAt(p)'
        <4>1. /\ pc'[p] = "idle" /\ cmd'[p] = NoCommand /\ hot'[p] = {} /\ todo'[p] = {}
              /\ (probe'[p] = "unknown" /\ inspect'[p] = {}) \/ Reuse
          BY <2>7, LeaveCases
        <4>2. ~Bypass(p)'
          BY <4>1 DEF Bypass, NoCommand
        <4>3. QED
          BY <4>1, <4>2 DEF StageAt
      <3>2. QED
        BY <1>1, <1>s, <3>1, OthersSame DEF StageInv
    <2>8. CASE BeginApply(p)
      <3>1. /\ pc[p] = "planned" /\ pc'[p] = "apply" /\ Bypass(p) /\ ~Blocked(p)
            /\ todo'[p] \subseteq {o \in Layout(p) : Scenario(p, o) # "SkipUnchanged"}
            /\ UNCHANGED <<cmd, ws, need, cat, tables, prior, drift>>
        BY <2>8 DEF BeginApply, DataOK, LocalOK
      <3>2. \A o : Scenario(p, o)' = Scenario(p, o)
        BY <3>1 DEF Scenario
      <3>3. \A o \in Layout(p) : Scenario(p, o) # "SkipUnchanged" =>
               Scenario(p, o) \in {"Create", "Adopt", "ModuleUpdate", "TableReprocess"}
        BY <3>1, ScenarioOf DEF Blocked, BlockedScenarios
      <3>4. StageAt(p)'
        BY <2>0, <3>1, <3>2, <3>3 DEF StageAt, Bypass, GitDelta, Layout
      <3>5. QED
        BY <1>1, <1>s, <3>4, OthersSame DEF StageInv
    <2>9. ASSUME NEW o \in Object, Apply(p, o) PROVE StageInv'
      <3>1. /\ pc' = pc /\ todo'[p] \subseteq todo[p]
            /\ UNCHANGED <<cmd, ws, need, cat, tables, prior, drift, probe, inspect>>
        BY <2>9 DEF Apply, LocalOK
      <3>2. \A c : Scenario(p, c)' = Scenario(p, c)
        BY <3>1 DEF Scenario
      <3>3. StageAt(p)'
        BY <2>0, <2>9, <3>1, <3>2 DEF StageAt, Bypass, GitDelta, Layout, Apply
      <3>4. QED
        BY <1>1, <1>s, <3>3, OthersSame DEF StageInv
    <2>10. ASSUME NEW o \in Object, Transition(p, o) PROVE StageInv'
      <3>1. /\ pc' = pc
            /\ UNCHANGED <<cmd, ws, need, cat, tables, prior, drift, probe, inspect, todo, hot>>
        BY <2>10 DEF Transition
      <3>2. \A c : Scenario(p, c)' = Scenario(p, c)
        BY <3>1 DEF Scenario
      <3>3. StageAt(p)'
        BY <2>0, <3>1, <3>2 DEF StageAt, Bypass, GitDelta, Layout
      <3>4. QED
        BY <1>1, <1>s, <3>3, OthersSame DEF StageInv
    <2>11. QED
      BY <1>1, <2>1, <2>2, <2>3, <2>4, <2>5, <2>6, <2>7, <2>8, <2>9, <2>10 DEF Does
  <1>2. CASE SwitchWatch \/ \E o \in Object : Outside(o)
    BY <1>2, <1>s, OutsideSame DEF StageInv
  <1>3. QED
    BY <1>1, <1>2, NextCases

-----------------------------------------------------------------------------
(* The history and the trigger. *)

\* The steps that leave the database alone.
Writes(p) == Bootstrap(p) \/ \E o \in Object : Transition(p, o) \/ Apply(p, o)

LEMMA DatabaseSame ==
    ASSUME NEW p \in Proc, Does(p), ~Writes(p)
    PROVE  UNCHANGED <<database, unseen>>
  BY DEF Does, Writes, Prepare, LoadChecksums, Warmup, Inspect, Save, Report, Release, Exit, Leave,
         BeginApply, Finish, Snapshot

\* A change without a row: a transition that is not the last one, or DDL from outside.
LEMMA AuditChange ==
    ASSUME DataOK, AuditInv, NEW o \in Object, seq < MaxDdl, Ddl(o), Unrecorded(o),
           UNCHANGED <<watch, tables, hist>>, ~OutOfBand => live'[o] # 0,
           \A c \in Object \ {o} : live'[c] = live[c]
    PROVE  AuditInv'
  <1>n. seq \in Nat /\ ddl \in [Object -> Nat] /\ \A c \in Object : hist[c].ver \in Nat
    BY BoundAssumption DEF DataOK
  <1>1. /\ seq' \in Nat /\ ddl' \in [Object -> Nat] /\ seq <= seq'
        /\ \A c \in Object \ {o} : ddl'[c] = ddl[c]
        /\ (ddl'[o] = seq' /\ seq < seq') \/ (ddl' = ddl /\ seq' = seq)
    BY DdlOK, BoundAssumption
  <1>2. AuditAt(o)'
    <2>1. AuditAt(o) /\ hist[o].ver \in Nat /\ hist'[o] = hist[o]
      BY <1>n DEF AuditInv
    <2>2. CASE ddl'[o] = seq' /\ seq < seq'
      BY <1>n, <1>1, <2>1, <2>2 DEF AuditAt
    <2>3. CASE ddl' = ddl /\ seq' = seq
      <3>1. o \in unseen'
        BY <2>3 DEF Unrecorded
      <3>2. QED
        BY <1>n, <2>1, <2>3, <3>1 DEF AuditAt, Traced
    <2>4. QED
      BY <1>1, <2>2, <2>3
  <1>3. ASSUME NEW c \in Object \ {o} PROVE AuditAt(c)'
    <2>1. AuditAt(c)
      BY DEF AuditInv
    <2>2. /\ hist'[c] = hist[c] /\ live'[c] = live[c] /\ ddl'[c] = ddl[c]
          /\ seq <= seq' /\ seq' \in Nat /\ ddl[c] \in Nat /\ hist[c].ver \in Nat
      BY <1>n, <1>1
    <2>3. c \in unseen => c \in unseen'
      BY DEF Unrecorded
    <2>4. QED
      BY <1>n, <2>1, <2>2, <2>3 DEF AuditAt, Traced
  <1>4. QED
    BY <1>2, <1>3 DEF AuditInv, HistoryEmpty

LEMMA AuditNext == ASSUME DataOK, LocalOK, OwnInv, StageInv, AuditInv, Next PROVE AuditInv'
  <1>0. /\ ~tables => HistoryEmpty
        /\ watch # "absent" => tables
        /\ \A o \in Object : AuditAt(o)
    BY DEF AuditInv
  <1>n. seq \in Nat /\ ddl \in [Object -> Nat] /\ \A o \in Object : hist[o].ver \in Nat
    BY BoundAssumption DEF DataOK
  <1>u. ASSUME UNCHANGED <<database, unseen>> PROVE AuditInv'
    BY <1>u, <1>0 DEF AuditInv, AuditAt, Traced, database, HistoryEmpty
  <1>1. ASSUME NEW p \in Proc, Bootstrap(p) PROVE AuditInv'
    BY <1>0, <1>1 DEF Bootstrap, AuditInv, AuditAt, Traced
  <1>2. ASSUME NEW p \in Proc, NEW o \in Object, Apply(p, o) PROVE AuditInv'
    <2>1. /\ tables /\ UNCHANGED <<tables, watch>> /\ seq < MaxDdl
          /\ hist' = [hist EXCEPT ![o] = Recorded(p, o)] /\ unseen' = unseen \ {o}
      BY <1>2 DEF Apply, StageInv, StageAt
    <2>2. /\ live'[o] # 0 /\ \A c \in Object \ {o} : live'[c] = live[c]
      BY <1>2, AppliedThere
    <2>3. /\ hist'[o].fp = live'[o] /\ hist'[o].ver = ddl'[o]
          /\ \A c \in Object \ {o} : hist'[c] = hist[c]
      BY <2>1 DEF Recorded, DataOK
    <2>4. /\ seq' \in Nat /\ seq <= seq' /\ ddl' \in [Object -> Nat]
          /\ \A c \in Object \ {o} : ddl'[c] = ddl[c]
          /\ ddl'[o] <= seq'
      <3>1. Ddl(o)
        BY <1>2, ApplyDdl
      <3>2. ddl[o] <= seq
        BY <1>0 DEF AuditAt
      <3>3. QED
        BY <1>n, <2>1, <3>1, <3>2, DdlOK, BoundAssumption
    <2>5. AuditAt(o)'
      BY <2>2, <2>3, <2>4 DEF AuditAt, Traced
    <2>6. ASSUME NEW c \in Object \ {o} PROVE AuditAt(c)'
      <3>1. AuditAt(c)
        BY <1>0
      <3>2. /\ hist'[c] = hist[c] /\ live'[c] = live[c] /\ ddl'[c] = ddl[c]
            /\ seq <= seq' /\ seq' \in Nat /\ ddl[c] \in Nat /\ hist[c].ver \in Nat
            /\ c \in unseen => c \in unseen'
        BY <1>n, <2>1, <2>2, <2>3, <2>4
      <3>3. QED
        BY <1>n, <3>1, <3>2 DEF AuditAt, Traced
    <2>7. QED
      BY <1>0, <2>1, <2>5, <2>6 DEF AuditInv
  <1>3. ASSUME NEW p \in Proc, NEW o \in Object, Transition(p, o) PROVE AuditInv'
    <2>1. live'[o] # 0 /\ \A c \in Object \ {o} : live'[c] = live[c]
      BY <1>3, TransitionThere
    <2>2. seq < MaxDdl /\ Ddl(o) /\ Unrecorded(o) /\ UNCHANGED <<watch, tables, hist>>
      BY <1>3 DEF Transition
    <2>3. QED
      BY <2>1, <2>2, AuditChange
  <1>4. ASSUME NEW o \in Object, Outside(o) PROVE AuditInv'
    <2>1. /\ OutOfBand /\ seq < MaxDdl /\ Ddl(o) /\ Unrecorded(o) /\ UNCHANGED <<watch, tables, hist>>
          /\ \A c \in Object \ {o} : live'[c] = live[c]
      BY <1>4 DEF Outside, DataOK
    <2>2. QED
      BY <2>1, AuditChange
  <1>5. CASE SwitchWatch
    <2>1. watch # "absent" /\ UNCHANGED <<live, ddl, seq, tables, hist, unseen>>
      BY <1>5 DEF SwitchWatch
    <2>2. QED
      BY <1>0, <2>1 DEF AuditInv, AuditAt, Traced, HistoryEmpty
  <1>6. QED
    BY <1>u, <1>1, <1>2, <1>3, <1>4, <1>5, NextCases, DatabaseSame DEF Writes

-----------------------------------------------------------------------------
(* What a command knows. *)

LEMMA KnownChecksums ==
    ASSUME DataOK, LocalOK, OwnInv, StageInv, AuditInv, NEW p \in Proc, LoadChecksums(p),
           NEW o \in Layout(p)
    PROVE  KnownAt(p, o)'
  <1>1. o \in Object
    BY LayoutOK
  <1> DEFINE empty == IF probe[p] = "unknown" THEN ~tables \/ HistoryEmpty ELSE probe[p] = "empty"
  <1>2. /\ prior'[p][o] = IF empty THEN 0 ELSE hist[o].sum
        /\ drift'[p][o] = (~empty /\ Drifted(o))
        /\ pc[p] = "checksums" /\ pc'[p] \in {"warmup", "inspect"}
        /\ UNCHANGED <<live, hist, cmd, ws, unseen>>
    BY <1>1 DEF LoadChecksums, DataOK, LocalOK, database
  <1>3. empty /\ (Bypass(p) \/ ~Reuse) => hist[o].sum = 0
    <2>1. Bypass(p) \/ ~Reuse => probe[p] = "unknown"
      BY <1>2 DEF StageInv, StageAt
    <2>2. ~tables \/ HistoryEmpty => hist[o].sum = 0
      BY <1>1 DEF AuditInv, HistoryEmpty
    <2>3. QED
      BY <2>1, <2>2
  <1>4. /\ hist[o].sum # 0 => hist[o].fp # 0
        /\ hist[o].sum # 0 /\ ~Suspect(o) => Traced(o)
    <2>1. ddl[o] \in Nat /\ hist[o].ver \in Nat
      BY <1>1, BoundAssumption DEF DataOK
    <2>2. QED
      BY <1>1, <2>1 DEF AuditInv, AuditAt, Suspect
  <1>5. /\ Drifted(o) => live[o] # hist[o].fp
        /\ hist[o].sum # 0 /\ ~Drifted(o) => Traced(o)
    BY <1>4 DEF Drifted, Traced
  <1> HIDE DEF empty
  <1>6. QED
    BY <1>2, <1>3, <1>5 DEF KnownAt, Loaded, Bypass, Traced

LEMMA KnownCatalog ==
    ASSUME DataOK, LocalOK, OwnInv, StageInv, NEW p \in Proc, Inspect(p), NEW o \in Layout(p)
    PROVE  /\ Bypass(p) => (o \in cat'[p] <=> live[o] # 0)
           /\ ~Reuse /\ ~GitDelta(p) /\ live[o] # 0 => o \in cat'[p]
  <1>1. /\ pc[p] = "inspect" /\ StageAt(p) /\ o \in Object
    BY LayoutOK DEF Inspect, StageInv
  <1>2. CASE Skips(p)
    BY <1>1, <1>2 DEF Skips, StageAt
  <1>3. ASSUME NEW keys, NEW found, Looks(p, keys, found)
        PROVE  /\ Bypass(p) => (o \in cat'[p] <=> live[o] # 0)
               /\ ~Reuse /\ ~GitDelta(p) /\ live[o] # 0 => o \in cat'[p]
    <2>1. /\ cat'[p] = found \cup (Layout(p) \ keys) /\ MustInspect(p) \subseteq keys
          /\ keys \subseteq Layout(p)
      BY <1>3 DEF Looks, LocalOK
    <2>2. Bypass(p) \/ ~Reuse => Cached(p, ScopeKey(p, keys)) = {}
      BY <1>1 DEF Cached, StageAt
    <2>3. o \in keys /\ (Bypass(p) \/ ~Reuse) => found = Queried(p, keys)
      BY <1>3, <2>2 DEF Looks
    <2>4. ~GitDelta(p) => Queried(p, keys) = cat[p] \cup (Present \cap keys)
      BY DEF Queried
    <2>5. Bypass(p) => keys = Layout(p) /\ ~GitDelta(p) /\ cat[p] = {}
      BY <1>1, <2>1 DEF MustInspect, GitDelta, StageAt
    <2>6. QED
      BY <1>1, <2>1, <2>3, <2>4, <2>5 DEF Present
  <1>4. QED
    BY <1>2, <1>3, InspectCases

LEMMA KnownApply ==
    ASSUME DataOK, LocalOK, OwnInv, StageInv, KnownInv, NEW p \in Proc, BeginApply(p), quiet[p],
           NEW o \in Layout(p)
    PROVE  KnownAt(p, o)'
  <1>1. /\ pc[p] = "planned" /\ pc'[p] = "apply" /\ Bypass(p)
        /\ o \notin todo'[p] => Scenario(p, o) \in {"SkipUnchanged", "TableReprocess"}
        /\ UNCHANGED <<live, hist, ws, unseen>>
    BY DEF BeginApply, FilterApplied, DataOK, LocalOK, database, reading
  <1>2. KnownAt(p, o)
    BY DEF KnownInv
  <1>3. Scenario(p, o) \in {"SkipUnchanged", "TableReprocess"} => DoneAs(o, ws[p][o])
    BY <1>1, <1>2, ScenarioOf DEF KnownAt, Loaded, DoneAs
  <1>4. QED
    BY <1>1, <1>3 DEF KnownAt, Loaded, DoneAs, Traced

LEMMA KnownNext ==
    ASSUME DataOK, LocalOK, OwnInv, StageInv, AuditInv, KnownInv, Next PROVE KnownInv'
  <1> DEFINE Knows(q) == quiet[q] => \A o \in Layout(q) : KnownAt(q, o)
  <1>s. ASSUME NEW q \in Proc, SameLocal(q), quiet'[q] => UNCHANGED <<live, hist, unseen>>
        PROVE  Knows(q)'
    <2>1. Knows(q)
      BY DEF KnownInv
    <2>2. QED
      BY <1>s, <2>1 DEF SameLocal, KnownAt, Layout, Bypass, GitDelta, DoneAs, Traced
  <1>o. ASSUME NEW p \in Proc, Does(p), NEW q \in Proc \ {p} PROVE Knows(q)'
    <2>1. SameLocal(q)
      BY <1>o, OthersSame
    <2>2. ASSUME quiet'[q] PROVE UNCHANGED <<live, hist, unseen>>
      <3>1. \A o \in Object : ~Apply(p, o) /\ ~Transition(p, o)
        BY <1>o, <2>2 DEF Apply, Transition
      <3>2. CASE Bootstrap(p)
        BY <3>2 DEF Bootstrap
      <3>3. CASE ~Bootstrap(p)
        BY <1>o, <3>1, <3>3, DatabaseSame DEF database, Writes
      <3>4. QED
        BY <3>2, <3>3
    <2>3. QED
      BY <1>s, <2>1, <2>2
  <1>1. ASSUME NEW p \in Proc, Does(p) PROVE Knows(p)'
    <2> SUFFICES ASSUME quiet'[p], NEW o \in Layout(p)' PROVE KnownAt(p, o)'
      OBVIOUS
    <2>0. Knows(p) /\ StageAt(p)
      BY DEF KnownInv, StageInv
    <2> USE DEF database, process, reading, applying
    <2>1. CASE Prepare(p) \/ Bootstrap(p) \/ Finish(p) \/ Snapshot(p)
      <3>1. pc'[p] \in {"bootstrap", "checksums", "snapshot", "release"}
        <4>1. CASE Prepare(p)
          <5>1. PICK c, w, hit : Prepares(p, c, w, hit)
            BY <4>1, PrepareCases
          <5>2. QED
            BY <5>1 DEF Prepares, DataOK
        <4>2. CASE Bootstrap(p) \/ Finish(p) \/ Snapshot(p)
          BY <4>2 DEF Bootstrap, Finish, AfterFinish, Snapshot, DataOK
        <4>3. QED
          BY <2>1, <4>1, <4>2
      <3>2. QED
        BY <3>1 DEF KnownAt, Loaded
    <2>2. CASE LoadChecksums(p)
      <3>1. o \in Layout(p)
        BY <2>2 DEF LoadChecksums, Layout
      <3>2. QED
        BY <2>2, <3>1, KnownChecksums
    <2>3. CASE Warmup(p) \/ Save(p)
      <3>1. /\ UNCHANGED <<live, hist, unseen, prior, drift, cmd, ws, quiet>> /\ o \in Layout(p)
            /\ \/ pc[p] = "warmup" /\ pc'[p] = "inspect"
               \/ pc[p] = "save" /\ pc'[p] = "planned" /\ cat' = cat
        BY <2>3 DEF Warmup, Save, Layout, DataOK
      <3>2. KnownAt(p, o)
        BY <2>0, <3>1
      <3>3. QED
        BY <3>1, <3>2 DEF KnownAt, Loaded, Bypass, GitDelta, Traced
    <2>4. CASE Inspect(p)
      <3>1. /\ UNCHANGED <<live, hist, unseen, prior, drift, cmd, ws, quiet>> /\ o \in Layout(p)
            /\ pc[p] = "inspect" /\ pc'[p] = "save"
        BY <2>4 DEF Inspect, Layout, DataOK
      <3>2. KnownAt(p, o)
        BY <2>0, <3>1
      <3>3. /\ Bypass(p) => (o \in cat'[p] <=> live[o] # 0)
            /\ ~Reuse /\ ~GitDelta(p) /\ live[o] # 0 => o \in cat'[p]
        BY <2>4, <3>1, KnownCatalog
      <3>4. QED
        BY <3>1, <3>2, <3>3 DEF KnownAt, Loaded, Bypass, GitDelta, Traced
    <2>5. CASE Report(p) \/ Release(p) \/ Exit(p)
      BY <2>5, LeaveCases
    <2>6. CASE BeginApply(p)
      <3>1. o \in Layout(p) /\ quiet[p]
        BY <2>6 DEF BeginApply, Layout
      <3>2. QED
        BY <2>6, <3>1, KnownApply
    <2>7. ASSUME NEW c \in Object, Apply(p, c) PROVE KnownAt(p, o)'
      <3>1. /\ pc[p] = "apply" /\ pc' = pc /\ todo'[p] = todo[p] \ {c} /\ ws' = ws
            /\ hist' = [hist EXCEPT ![c] = Recorded(p, c)] /\ quiet[p] /\ o \in Layout(p)
        BY <2>7 DEF Apply, LocalOK, Layout
      <3>2. live'[c] # 0 /\ \A d \in Object \ {c} : live'[d] = live[d]
        BY <2>7, AppliedThere
      <3>3. o \in Object /\ KnownAt(p, o)
        BY <2>0, <3>1, LayoutOK
      <3>4. hist'[c].sum = ws[p][c] /\ hist'[c].fp = live'[c]
            /\ \A d \in Object \ {c} : hist'[d] = hist[d]
        BY <3>1 DEF Recorded, DataOK
      <3>5. QED
        <4>1. CASE o = c
          BY <3>1, <3>2, <3>4, <4>1 DEF KnownAt, Loaded, DoneAs, Traced
        <4>2. CASE o # c
          <5>1. live'[o] = live[o] /\ hist'[o] = hist[o] /\ (o \in unseen => o \in unseen')
            BY <2>7, <3>2, <3>3, <3>4, <4>2 DEF Apply
          <5>2. QED
            BY <3>1, <3>3, <4>2, <5>1 DEF KnownAt, Loaded, DoneAs, Traced
        <4>3. QED
          BY <4>1, <4>2
    <2>8. ASSUME NEW c \in Object, Transition(p, c) PROVE KnownAt(p, o)'
      <3>1. /\ pc[p] = "apply" /\ UNCHANGED <<pc, todo, ws, hist>> /\ c \in todo[p]
            /\ quiet[p] /\ o \in Layout(p)
        BY <2>8 DEF Transition, Layout
      <3>2. \A d \in Object \ {c} : live'[d] = live[d] /\ (d \in unseen => d \in unseen')
        BY <2>8, TransitionThere DEF Transition, Unrecorded
      <3>3. o \in Object /\ KnownAt(p, o)
        BY <2>0, <3>1, LayoutOK
      <3>4. QED
        BY <3>1, <3>2, <3>3 DEF KnownAt, Loaded, DoneAs, Traced
    <2>9. QED
      BY <1>1, <2>1, <2>2, <2>3, <2>4, <2>5, <2>6, <2>7, <2>8 DEF Does
  <1>2. ASSUME SwitchWatch \/ \E o \in Object : Outside(o), NEW q \in Proc PROVE Knows(q)'
    <2>1. SameLocal(q)
      BY <1>2, OutsideSame
    <2>2. quiet'[q] => UNCHANGED <<live, hist, unseen>>
      BY <1>2 DEF SwitchWatch, Outside
    <2>3. QED
      BY <1>s, <2>1, <2>2
  <1>3. QED
    BY <1>o, <1>1, <1>2, NextCases DEF KnownInv

LEMMA SettledNext ==
    ASSUME DataOK, LocalOK, OwnInv, StageInv, KnownInv, SettledInv, Next PROVE SettledInv'
  <1> USE DEF database, process, reading, applying
  <1>u. ASSUME UNCHANGED <<live, hist, settled, unseen>> PROVE SettledInv'
    BY <1>u DEF SettledInv, DoneAs, Traced
  <1>n. ASSUME settled' = NoWorkspace PROVE SettledInv'
    BY <1>n DEF SettledInv, NoWorkspace
  <1>1. ASSUME NEW p \in Proc, Finish(p) PROVE SettledInv'
    <2>1. UNCHANGED <<live, hist, unseen>> /\ pc[p] = "apply"
      BY <1>1 DEF Finish
    <2>2. CASE todo[p] = {} /\ quiet[p]
      <3>1. settled' = ws[p]
        BY <1>1, <2>2 DEF Finish
      <3>2. \A o \in Layout(p) : KnownAt(p, o)
        BY <2>2 DEF KnownInv
      <3>3. QED
        BY <2>1, <2>2, <3>1, <3>2 DEF SettledInv, KnownAt, Layout, DoneAs, Traced
    <2>3. CASE ~(todo[p] = {} /\ quiet[p])
      BY <1>1, <1>u, <2>1, <2>3 DEF Finish
    <2>4. QED
      BY <2>2, <2>3
  <1>2. ASSUME NEW p \in Proc, NEW o \in Object, Transition(p, o) \/ Apply(p, o)
        PROVE  SettledInv'
    BY <1>2, <1>n DEF Apply, Transition
  <1>3. ASSUME NEW p \in Proc, Does(p), ~Finish(p),
               \A o \in Object : ~Transition(p, o) /\ ~Apply(p, o)
        PROVE  SettledInv'
    <2>1. UNCHANGED <<live, hist, settled, unseen>>
      BY <1>3 DEF Does, Prepare, Bootstrap, LoadChecksums, Warmup, Inspect, Save, Report, Release,
                  Exit, Leave, BeginApply, Snapshot
    <2>2. QED
      BY <1>u, <2>1
  <1>4. CASE SwitchWatch \/ \E o \in Object : Outside(o)
    BY <1>4, <1>u, <1>n DEF SwitchWatch, Outside
  <1>5. QED
    BY <1>1, <1>2, <1>3, <1>4, NextCases

-----------------------------------------------------------------------------
(* The caches. *)

\* Without DDL from outside no object disappears.
LEMMA ObjectsStay ==
    ASSUME DataOK, LocalOK, OwnInv, StageInv, ~OutOfBand, Next PROVE Present \subseteq Present'
  <1>1. ASSUME NEW p \in Proc, NEW o \in Object, Apply(p, o) PROVE Present \subseteq Present'
    BY <1>1, AppliedThere DEF Present
  <1>t. ASSUME NEW p \in Proc, NEW o \in Object, Transition(p, o) PROVE Present \subseteq Present'
    BY <1>t, TransitionThere DEF Present
  <1>2. ASSUME NEW p \in Proc, Does(p), \A o \in Object : ~Transition(p, o) /\ ~Apply(p, o)
        PROVE  live' = live
    <2>1. CASE Bootstrap(p)
      BY <2>1 DEF Bootstrap
    <2>2. CASE ~Bootstrap(p)
      BY <1>2, <2>2, DatabaseSame DEF database, Writes
    <2>3. QED
      BY <2>1, <2>2
  <1>3. ASSUME SwitchWatch \/ \E o \in Object : Outside(o) PROVE live' = live
    BY <1>3 DEF SwitchWatch, Outside
  <1>4. QED
    BY <1>1, <1>t, <1>2, <1>3, NextCases DEF Present

\* What a plan looks at is there.
LEMMA LooksThere ==
    ASSUME LocalOK, NEW p \in Proc, NEW keys, NEW found, Looks(p, keys, found), CacheAt(p)
    PROVE  found \cup (Layout(p) \ keys) \subseteq Present
  <1>1. found \subseteq Present
    <2>1. Queried(p, keys) \subseteq Present
      BY DEF Queried, CacheAt
    <2>2. \A e \in Cached(p, ScopeKey(p, keys)) : e.cat \subseteq Present
      BY DEF Cached, CacheAt
    <2>3. QED
      BY <2>1, <2>2 DEF Looks, CacheAt
  <1>2. ASSUME NEW o \in Layout(p) \ keys PROVE o \in Present
    <2>1. o \in Object /\ ws[p][o] # 0
      BY <1>2, LayoutOK, BoundAssumption DEF Versions
    <2>2. o \notin MustInspect(p)
      BY <1>2 DEF Looks
    <2>3. prior[p][o] = ws[p][o]
      BY <1>2, <2>2 DEF MustInspect
    <2>4. QED
      BY <2>1, <2>3 DEF CacheAt, Present
  <1>3. QED
    BY <1>1, <1>2

LEMMA CacheNext ==
    ASSUME DataOK, LocalOK, OwnInv, StageInv, AuditInv, CacheInv, Next PROVE CacheInv'
  <1> USE DEF database, process, reading, applying
  <1>t. ~OutOfBand => Present \subseteq Present'
    BY ObjectsStay
  <1>f. ~OutOfBand => cache.rows \subseteq Present /\ \A p \in Proc : CacheAt(p)
    BY DEF CacheInv
  <1>c. /\ cache'.rows = cache'.layout
        /\ ~OutOfBand => cache'.rows \subseteq Present'
    <2>1. CASE cache' = cache
      BY <1>t, <2>1 DEF CacheInv
    <2>2. ASSUME NEW layout, cache' = [rows |-> layout, layout |-> layout],
                 ~OutOfBand => layout \subseteq Present
          PROVE  /\ cache'.rows = cache'.layout
                 /\ ~OutOfBand => cache'.rows \subseteq Present'
      BY <1>t, <2>2
    <2>3. \/ cache' = cache
          \/ cache' = NoCache
          \/ \E p \in Proc : /\ cache' = [rows |-> Layout(p), layout |-> Layout(p)]
                             /\ Layout(p) \subseteq cat[p] \/ pc[p] = "snapshot"
      <3>1. ASSUME NEW p \in Proc, Save(p) \/ Snapshot(p)
            PROVE  \/ cache' = cache
                   \/ /\ cache' = [rows |-> Layout(p), layout |-> Layout(p)]
                      /\ Layout(p) \subseteq cat[p] \/ pc[p] = "snapshot"
        BY <3>1 DEF Save, Snapshot, SaveBatched
      <3>2. ASSUME NEW p \in Proc, Does(p), ~Save(p), ~Snapshot(p)
            PROVE  cache' = cache \/ cache' = NoCache
        BY <3>2 DEF Does, Prepare, Bootstrap, LoadChecksums, Warmup, Inspect, Report, Release,
                    Exit, Leave, BeginApply, Apply, Transition, Finish
      <3>3. SwitchWatch \/ (\E o \in Object : Outside(o)) => cache' = cache
        BY DEF SwitchWatch, Outside
      <3>4. QED
        BY <3>1, <3>2, <3>3, NextCases
    <2>4. \A p \in Proc : ~OutOfBand /\ (Layout(p) \subseteq cat[p] \/ pc[p] = "snapshot") =>
             Layout(p) \subseteq Present
      BY <1>f DEF CacheAt
    <2>5. QED
      BY <2>1, <2>2, <2>3, <2>4 DEF NoCache
  <1>s. ASSUME NEW q \in Proc, SameLocal(q), ~OutOfBand PROVE CacheAt(q)'
    <2>1. CacheAt(q)
      BY <1>f, <1>s
    <2>2. \A o \in Object : live[o] # 0 => live'[o] # 0
      BY <1>t, <1>s DEF Present
    <2>3. Layout(q)' = Layout(q)
      BY <1>s DEF SameLocal, Layout
    <2>4. QED
      BY <1>t, <1>s, <2>1, <2>2, <2>3 DEF SameLocal, CacheAt
  <1>1. ASSUME NEW p \in Proc, Does(p), ~OutOfBand PROVE CacheAt(p)'
    <2>0. /\ CacheAt(p) /\ cache.rows \subseteq Present /\ Present \subseteq Present'
          /\ \A o \in Object : live[o] # 0 => live'[o] # 0
      BY <1>f, <1>t, <1>1 DEF Present
    <2>1. CASE Prepare(p)
      <3>1. PICK c, w, hit : Prepares(p, c, w, hit)
        BY <2>1, PrepareCases
      <3>2. /\ cat'[p] = hit /\ prior' = prior /\ inspect' = inspect
            /\ pc'[p] \in {"bootstrap", "checksums"} /\ hit \subseteq cache.rows
        BY <3>1 DEF Prepares, StrictLoad, DataOK, LocalOK
      <3>3. QED
        BY <2>0, <3>2 DEF CacheAt
    <2>2. CASE Bootstrap(p) \/ Save(p)
      <3>1. UNCHANGED <<cat, prior, inspect>> /\ pc'[p] \in {"checksums", "planned"}
        BY <2>2 DEF Bootstrap, Save, DataOK
      <3>2. QED
        BY <2>0, <3>1 DEF CacheAt
    <2>3. CASE LoadChecksums(p)
      <3>1. /\ cat' = cat /\ pc'[p] \in {"warmup", "inspect"} /\ inspect'[p] \in {inspect[p], {}}
            /\ \A o \in Object : prior'[p][o] \in {0, hist[o].sum}
        BY <2>3 DEF LoadChecksums, DataOK, LocalOK
      <3>2. \A o \in Object : hist[o].sum # 0 => live[o] # 0
        BY <1>1 DEF AuditInv, AuditAt
      <3>3. QED
        BY <2>0, <3>1, <3>2 DEF CacheAt
    <2>4. CASE Warmup(p)
      <3>1. /\ prior' = prior /\ inspect' = inspect /\ pc'[p] = "inspect"
            /\ cat'[p] \subseteq cache.rows
        BY <2>4 DEF Warmup, RelaxedLoad, DataOK, LocalOK
      <3>2. QED
        BY <2>0, <3>1 DEF CacheAt
    <2>5. CASE Inspect(p)
      <3>1. prior' = prior /\ pc'[p] = "save"
        BY <2>5 DEF Inspect, DataOK
      <3>2. CASE Skips(p)
        BY <2>0, <3>1, <3>2 DEF Skips, CacheAt
      <3>3. ASSUME NEW keys, NEW found, Looks(p, keys, found) PROVE CacheAt(p)'
        <4>1. found \cup (Layout(p) \ keys) \subseteq Present
          BY <2>0, <3>3, LooksThere
        <4>2. cat'[p] = found \cup (Layout(p) \ keys)
          BY <3>3 DEF Looks, LocalOK
        <4>3. \A e \in inspect'[p] : e \in inspect[p] \/ e.cat = found
          BY <3>3 DEF Looks, LocalOK
        <4>4. \A e \in inspect'[p] : e.cat \subseteq Present
          BY <2>0, <4>1, <4>3 DEF CacheAt
        <4>5. QED
          BY <2>0, <3>1, <4>1, <4>2, <4>4 DEF CacheAt
      <3>4. QED
        BY <2>5, <3>2, <3>3, InspectCases
    <2>6. CASE Report(p) \/ Release(p) \/ Exit(p)
      <3>1. /\ pc'[p] = "idle" /\ cat'[p] = {} /\ prior'[p] = None
            /\ inspect'[p] \in {inspect[p], {}}
        BY <2>6, LeaveCases
      <3>2. QED
        BY <2>0, <3>1 DEF CacheAt, None
    <2>7. CASE BeginApply(p)
      <3>1. /\ pc'[p] = "apply" /\ UNCHANGED <<cat, prior, inspect, ws>>
            /\ \A o \in Layout(p) \ todo'[p] : Scenario(p, o) \in {"SkipUnchanged", "TableReprocess"}
        BY <2>7 DEF BeginApply, FilterApplied, DataOK, LocalOK
      <3>2. \A o \in Layout(p) \ todo'[p] : o \in cat[p]
        BY <3>1, ScenarioOf
      <3>3. Layout(p)' \ todo'[p] \subseteq cat[p]
        BY <3>1, <3>2 DEF Layout
      <3>4. QED
        BY <2>0, <3>1, <3>3 DEF CacheAt
    <2>8. ASSUME NEW o \in Object, Apply(p, o) PROVE CacheAt(p)'
      <3>1. /\ pc[p] = "apply" /\ pc' = pc /\ UNCHANGED <<cat, prior, inspect, ws>>
            /\ todo'[p] = todo[p] \ {o}
        BY <2>8 DEF Apply, LocalOK
      <3>2. o \in Present'
        BY <2>8, AppliedThere DEF Present
      <3>3. Layout(p)' \ todo'[p] \subseteq Present'
        BY <2>0, <3>1, <3>2 DEF CacheAt, Layout
      <3>4. QED
        BY <2>0, <3>1, <3>3 DEF CacheAt
    <2>9. CASE Finish(p) \/ Snapshot(p)
      <3>1. /\ UNCHANGED <<cat, prior, inspect, ws>>
            /\ \/ pc'[p] = "release"
               \/ pc[p] = "apply" /\ todo[p] = {} /\ pc'[p] = "snapshot"
        BY <2>9 DEF Finish, AfterFinish, Snapshot, DataOK
      <3>2. pc'[p] = "snapshot" => Layout(p)' \subseteq Present
        BY <2>0, <3>1 DEF CacheAt, Layout
      <3>3. QED
        BY <2>0, <3>1, <3>2 DEF CacheAt
    <2>10. ASSUME NEW o \in Object, Transition(p, o) PROVE CacheAt(p)'
      <3>1. UNCHANGED <<pc, cat, prior, inspect, ws, todo>>
        BY <2>10 DEF Transition
      <3>2. Layout(p)' = Layout(p)
        BY <3>1 DEF Layout
      <3>3. QED
        BY <2>0, <3>1, <3>2 DEF CacheAt
    <2>11. QED
      BY <1>1, <2>1, <2>2, <2>3, <2>4, <2>5, <2>6, <2>7, <2>8, <2>9, <2>10 DEF Does
  <1>2. ASSUME ~OutOfBand, NEW q \in Proc PROVE CacheAt(q)'
    <2>1. ASSUME NEW p \in Proc, Does(p) PROVE CacheAt(q)'
      BY <1>1, <1>2, <1>s, <2>1, OthersSame
    <2>2. QED
      BY <1>2, <1>s, <2>1, NextCases, OutsideSame
  <1>3. QED
    BY <1>c, <1>2 DEF CacheInv

-----------------------------------------------------------------------------
(* The theorems. *)

InspectInv ==
    /\ DataOK /\ LocalOK /\ OwnInv /\ StageInv /\ AuditInv /\ KnownInv /\ SettledInv /\ CacheInv

LEMMA InspectInit == ASSUME Init PROVE InspectInv
  <1> USE DEF Init
  <1>1. DataOK
    <2>1. hist \in [Object -> [sum : 0 .. MaxVersion, fp : 0 .. MaxVersion, ver : 0 .. MaxDdl]]
      BY BoundAssumption DEF NoRow
    <2>2. ddl \in [Object -> 0 .. MaxDdl] /\ seq \in 0 .. MaxDdl
      BY BoundAssumption DEF None
    <2>3. cache \in [rows : SUBSET Object, layout : SUBSET Object]
      BY DEF NoCache
    <2>4. QED
      BY <2>1, <2>2, <2>3 DEF DataOK, Stages
  <1>2. LocalOK
    <2>1. NoCommand \in [name : {"plan", "migrate"}, mode : GitModes, delta : SUBSET Object]
      BY DEF NoCommand, GitModes
    <2>2. None \in [Object -> 0 .. MaxVersion] /\ NoDrift \in [Object -> BOOLEAN]
      BY BoundAssumption DEF None, NoDrift
    <2>3. QED
      BY <2>1, <2>2 DEF LocalOK
  <1>3. OwnInv
    BY ProcAssumption DEF OwnInv, Bypass, NoCommand
  <1>4. StageInv
    BY DEF StageInv, StageAt, Bypass, GitDelta, NoCommand
  <1>5. AuditInv
    BY DEF AuditInv, AuditAt, HistoryEmpty, NoRow, None
  <1>6. KnownInv
    BY DEF KnownInv
  <1>7. SettledInv
    BY DEF SettledInv, NoWorkspace
  <1>8. CacheInv
    BY DEF CacheInv, CacheAt, NoCache, None
  <1>9. QED
    BY <1>1, <1>2, <1>3, <1>4, <1>5, <1>6, <1>7, <1>8 DEF InspectInv

LEMMA InspectStutter == ASSUME InspectInv, UNCHANGED vars PROVE InspectInv'
  <1> USE DEF vars, database, process, reading, applying
  <1>1. DataOK' /\ LocalOK' /\ OwnInv'
    BY DEF InspectInv, DataOK, LocalOK, OwnInv, Bypass, Layout
  <1>2. StageInv'
    <2>1. \A p, o : Scenario(p, o)' = Scenario(p, o)
      BY DEF Scenario
    <2>2. QED
      BY <2>1 DEF InspectInv, StageInv, StageAt, Bypass, GitDelta, Layout
  <1>3. AuditInv' /\ SettledInv'
    BY DEF InspectInv, AuditInv, AuditAt, HistoryEmpty, SettledInv, DoneAs, Traced
  <1>4. KnownInv'
    BY DEF InspectInv, KnownInv, KnownAt, Layout, Bypass, GitDelta, DoneAs, Traced
  <1>5. CacheInv'
    BY DEF InspectInv, CacheInv, CacheAt, Present, Layout
  <1>6. QED
    BY <1>1, <1>2, <1>3, <1>4, <1>5 DEF InspectInv

LEMMA InspectNext == ASSUME InspectInv, Next PROVE InspectInv'
  BY DataNext, LocalNext, OwnNext, StageNext, AuditNext, KnownNext, SettledNext, CacheNext
     DEF InspectInv

LEMMA InspectAlways == Spec => []InspectInv
  <1>1. Init => InspectInv
    BY InspectInit
  <1>2. InspectInv /\ [Next]_vars => InspectInv'
    BY InspectNext, InspectStutter
  <1>3. QED
    BY <1>1, <1>2, PTL DEF Spec

\* Every variable keeps its type, only the process that runs a migrate holds the
\* deployment lock, and its scope and its work list stay inside its workspace.
THEOREM InspectTypes == Spec => []TypeOK
  <1>1. InspectInv => TypeOK
    BY TypeParts DEF InspectInv
  <1>2. QED
    BY <1>1, InspectAlways, PTL

\* A migrate plans from the live database (plan_snapshot.rs run_plan_db_phase with
\* bypass): for every number of processes, every cache content they leave behind,
\* every git answer, trigger switch and outside DDL, a migrate that nobody
\* disturbed has the catalog and the checksums of the server and no false drift.
THEOREM LockedPlansLive == Spec => []LockedPlanIsLive
  <1>1. InspectInv => LockedPlanIsLive
    BY DEF InspectInv, LockedPlanIsLive, Settled, KnownInv, KnownAt, Loaded
  <1>2. QED
    BY <1>1, InspectAlways, PTL

\* No plan calls an object unchanged whose live definition is not the recorded one
\* (load_checksums_header.sql, resolve_plan_scenario), unless its last change got no
\* version: whoever switches the trigger and whatever runs outside, a change that the
\* trigger stamped is never masked, by a cache or by a later change without one.
THEOREM DriftNotMasked == Spec => []NoMaskedDrift
  <1>1. InspectInv => NoMaskedDrift
    <2> SUFFICES ASSUME InspectInv, NEW p \in Proc, Settled(p), NEW o \in Layout(p),
                        Scenario(p, o) = "SkipUnchanged"
                 PROVE  hist[o].sum = ws[p][o] /\ (live[o] = hist[o].fp \/ o \in unseen)
      BY DEF NoMaskedDrift
    <2>1. prior[p][o] # 0 /\ ~drift[p][o] /\ prior[p][o] = ws[p][o]
      BY ScenarioOf
    <2>2. KnownAt(p, o) /\ pc[p] = "planned"
      BY DEF InspectInv, KnownInv, Settled
    <2>3. QED
      BY <2>1, <2>2 DEF KnownAt, Loaded, Traced
  <1>2. QED
    BY <1>1, InspectAlways, PTL

\* While only rmig changes the schema, the catalog_cache table never names an
\* object the database lacks (save_batched, save_workspace_snapshot, finish).
THEOREM CacheStaysHonest == ~OutOfBand => (Spec => []CacheHonest)
  <1> SUFFICES ASSUME ~OutOfBand PROVE Spec => []CacheHonest
    OBVIOUS
  <1>1. InspectInv => CacheHonest
    BY DEF InspectInv, CacheInv, CacheHonest
  <1>2. QED
    BY <1>1, InspectAlways, PTL

\* A migrate, or a plan of a new process, of what a complete migrate has applied
\* finds nothing to do (finish, load_checksums_plan) but tables whose transitions
\* were applied before, and objects that changed without a version.
THEOREM NothingIsLeft == Spec => []NothingLeft
  <1>1. InspectInv => NothingLeft
    <2> SUFFICES ASSUME InspectInv, NEW p \in Proc, Settled(p), ws[p] = settled,
                        Bypass(p) \/ (~Reuse /\ ~GitDelta(p)), NEW o \in Layout(p) \ unseen
                 PROVE  \/ Scenario(p, o) = "SkipUnchanged"
                        \/ Scenario(p, o) = "TableReprocess" /\ hist[o].sum # ws[p][o]
      BY DEF NothingLeft
    <2>1. DoneAs(o, ws[p][o])
      BY DEF InspectInv, SettledInv, Layout
    <2>2. KnownAt(p, o) /\ pc[p] = "planned"
      BY DEF InspectInv, KnownInv, Settled
    <2>3. ws[p][o] # 0
      BY LayoutOK, BoundAssumption DEF InspectInv, Versions
    <2>4. live[o] = hist[o].fp /\ live[o] # 0 /\ hist[o].sum # 0
      BY <2>1, <2>3 DEF DoneAs, Traced
    <2>5. prior[p][o] = hist[o].sum /\ ~drift[p][o] /\ o \in cat[p]
      BY <2>2, <2>4 DEF KnownAt, Loaded
    <2>6. hist[o].sum = ws[p][o] \/ o \notin Module
      BY <2>1 DEF DoneAs
    <2>7. QED
      BY <2>4, <2>5, <2>6, ScenarioOf
  <1>2. QED
    BY <1>1, InspectAlways, PTL

=============================================================================
