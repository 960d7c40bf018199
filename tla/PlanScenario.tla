---------------------------- MODULE PlanScenario ----------------------------
(***************************************************************************)
(* The planning decision of rmig as pure operators: which scenario a       *)
(* repository object falls into, the action that scenario stands for,      *)
(* whether it blocks the plan, and the order in which objects are applied. *)
(* Sources: plan/scenario_resolve.rs, plan/scenario.rs, domain/kind_code.rs*)
(* domain/action.rs and apply/kind.rs.                                     *)
(***************************************************************************)
EXTENDS Integers

\* is_module_kind_code: kinds re-emitted with CREATE OR ALTER.
ModuleKinds == {"views", "functions", "procedures", "triggers"}

\* is_transactional_kind: kinds created once and never re-emitted.
TransactionalKinds == {"tables", "indexes", "types", "sequences", "synonyms"}

Kinds == ModuleKinds \cup TransactionalKinds

\* kind_rank: the dependency-safe order of the kinds.
KindRank == [types |-> 0, sequences |-> 1, tables |-> 2, synonyms |-> 3,
             indexes |-> 4, views |-> 5, functions |-> 6, procedures |-> 7,
             triggers |-> 8]

Scenarios == {"Create", "Adopt", "SkipUnchanged", "TableReprocess",
              "TableBlockedNoTransitions", "TriggerUpdateModule",
              "TriggerBlockedParentMissing", "TriggerBlockedParentChanging",
              "ModuleUpdate", "StructuralChangeBlocked",
              "LiveStructuralDriftBlocked"}

Actions == {"CreateObject", "AdoptExisting", "SkipUnchanged",
            "ReprocessChanged", "ReprocessChangedBlocked",
            "UpdateExistingModule", "Fail"}

\* What the planner knows of a trigger's parent table: the script names no
\* parent, the parent is absent from the catalog, it is there without a recorded
\* checksum, or it is there with one.
ParentStates == {"unnamed", "missing", "unrecorded", "recorded"}

\* changed_default_scenario
ChangedDefault(kind) ==
    IF kind \in ModuleKinds THEN "ModuleUpdate" ELSE "StructuralChangeBlocked"

\* The KIND_TRIGGERS arm of resolve_changed_scenario.
ChangedTrigger(parent) ==
    CASE parent = "unnamed"    -> ChangedDefault("triggers")
      [] parent = "missing"    -> "TriggerBlockedParentMissing"
      [] parent = "unrecorded" -> "TriggerBlockedParentChanging"
      [] parent = "recorded"   -> "TriggerUpdateModule"

\* resolve_changed_scenario
ResolveChanged(in) ==
    CASE in.kind = "tables" /\ in.hasTransitions  -> "TableReprocess"
      [] in.kind = "tables" /\ ~in.hasTransitions -> "TableBlockedNoTransitions"
      [] in.kind = "triggers"                     -> ChangedTrigger(in.parent)
      [] in.kind \in Kinds \ {"tables", "triggers"} -> ChangedDefault(in.kind)

\* resolve_plan_scenario: the early returns in their order. A checksum is a
\* natural number; 0 is the zero digest, which counts as "no prior checksum".
ResolvePlanScenario(in) ==
    IF ~in.exists THEN "Create"
    ELSE IF in.prior = 0 THEN "Adopt"
    ELSE IF in.drift THEN IF in.kind \in ModuleKinds
                          THEN "ModuleUpdate"
                          ELSE "LiveStructuralDriftBlocked"
    ELSE IF in.prior = in.checksum THEN "SkipUnchanged"
    ELSE ResolveChanged(in)

\* PlanScenario::action
ActionOf(s) ==
    CASE s = "Create"         -> "CreateObject"
      [] s = "Adopt"          -> "AdoptExisting"
      [] s = "SkipUnchanged"  -> "SkipUnchanged"
      [] s = "TableReprocess" -> "ReprocessChanged"
      [] s \in {"StructuralChangeBlocked", "LiveStructuralDriftBlocked"} -> "Fail"
      [] s \in {"TableBlockedNoTransitions", "TriggerBlockedParentMissing",
                "TriggerBlockedParentChanging"} -> "ReprocessChangedBlocked"
      [] s \in {"TriggerUpdateModule", "ModuleUpdate"} -> "UpdateExistingModule"

\* PlanScenario::blocked_delta, as the set of scenarios with delta 1.
BlockedScenarios ==
    {"TableBlockedNoTransitions", "StructuralChangeBlocked",
     "LiveStructuralDriftBlocked", "TriggerBlockedParentMissing",
     "TriggerBlockedParentChanging"}

=============================================================================
