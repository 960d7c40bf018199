---------------------------- MODULE MigratorInv -----------------------------
(***************************************************************************)
(* The inductive invariant behind the properties of Migrator, in named     *)
(* parts.  TLC checks it on small instances; MigratorProofs, LedgerProofs  *)
(* and RunProofs prove it.                                                 *)
(***************************************************************************)
EXTENDS Migrator

\* How the lock, the sessions and the clients go together.  A closed session
\* has nothing left on the server; a connected client waits for its own
\* statements; only the lock holder can write.
SessionInv ==
    \A p \in Proc :
        /\ lock = p \/ conn[p] => sess[p]
        /\ ~sess[p] => tx[p] = "none" /\ inflight[p] = "none"
        /\ conn[p] => inflight[p] = "none" /\ pc[p] \in LockedPcs \cup {"acquire"}
        /\ pc[p] = "idle" => ~sess[p]
        /\ conn[p] /\ pc[p] \notin TxPcs \cup {"rollback"} => tx[p] = "none"

\* The work of a run.  A loop works either on transitions or on objects; the
\* transitions were scanned; an object with a script to run is to be created or
\* is a module; whatever a transaction is open for is still in the loop's list.
Early == {"idle", "acquire", "plan", "gate", "filter"}     \* before the filter
InTx(p) == tx[p] # "none" \/ pc[p] \in TxPcs \cup {"rollback"}

WorkInv ==
    \A p \in Proc :
        /\ todo[p] \subseteq Trans \/ todo[p] \subseteq Obj
        /\ retry[p] \subseteq Obj /\ (pc[p] = "modules" => todo[p] \subseteq Obj)
        /\ \A x \in Trans : x \in pend[p] \cup todo[p] => wsRev[p][x] # 0
        /\ \A o \in Obj : \/ o \in todo[p] \cup retry[p]
                          \/ ActionOf(scen[p][o]) \in {"CreateObject", "UpdateExistingModule"}
                          => scen[p][o] = "Create" \/ Kind[o] \in ModuleKinds
        /\ InTx(p) => job[p] \in todo[p]
        /\ pc[p] \in Early \cup {"schemas"} => todo[p] = {} /\ retry[p] = {}
        /\ pc[p] \in Early => pend[p] = {}

\* While a session can write, nothing it has still to apply is recorded.
PendingInv ==
    \A p \in Proc :
        /\ CanWrite(p) => \A x \in Trans : x \in todo[p] => migRow[x] = 0
        /\ At(p, "schemas") => \A x \in Trans : x \in pend[p] => migRow[x] = 0

-----------------------------------------------------------------------------
(* What the other properties rest on. *)

\* What a transaction holds is where the client is in apply_in_tx, unless the
\* body ended it; a body that ran still has the database it needs, because the
\* lock keeps the other migrators and its schema locks everybody else away.
HoldInv ==
    \A p \in Proc :
        /\ inflight[p] = "body" => tx[p] = "open"
        /\ conn[p] => /\ pc[p] = "body" => tx[p] = "open"
                      /\ pc[p] = "assert" => tx[p] = "body" \/ (tx[p] = "none" /\ Escapes # {})
                      /\ pc[p] = "flush" => tx[p] = "body"
                      /\ pc[p] = "commit" => tx[p] = "full"
        /\ tx[p] \in {"body", "full"} => CanRun(p)
        /\ pc[p] # "idle" => \A o \in Obj : wsFile[p][o] # 0

\* The loop of a run, also while one of its units is inside apply_in_tx.
Phase(p) == IF pc[p] \in TxPcs \cup {"rollback"} THEN Back(p) ELSE pc[p]

\* The lists of the loops hold what the plan says; a unit in apply_in_tx was the
\* next one of its list.
ListInv ==
    \A p \in Proc :
        /\ pc[p] # "idle" => cmd[p] \in Commands
        /\ Phase(p) \in {"filter", "schemas"} \cup LoopPcs => cmd[p] = "migrate" /\ ~PlanBlocked(p)
        /\ pc[p] = "record" /\ cmd[p] = "migrate" => ~PlanBlocked(p) /\ schema
        /\ Phase(p) \in LoopPcs => schema
        /\ Phase(p) = "transitions" => todo[p] \subseteq pend[p]
        /\ Phase(p) = "objects" => todo[p] \subseteq TxBatch(p)
        /\ Phase(p) = "modules" => todo[p] \cup retry[p] \subseteq ModuleBatch(p)
        /\ Phase(p) = "modules" => todo[p] \cap retry[p] = {}
        /\ Phase(p) \notin {"modules", "release", "exited", "dead"} => retry[p] = {}
        /\ InTx(p) => IsNext(job[p], todo[p])

\* Between two units of work no script is inside apply_in_tx.
JobInv ==
    \A p \in Proc : pc[p] \notin TxPcs \cup {"rollback", "release", "exited", "dead"} => job[p] = None

\* Objects whose script the run has still to run.
Ahead(p) ==
    CASE Phase(p) \in {"gate", "filter", "schemas", "transitions", "record"} ->
            WithAction(p, {"CreateObject", "UpdateExistingModule"})
      [] Phase(p) = "objects" -> todo[p] \cup ModuleBatch(p)
      [] Phase(p) = "modules" -> todo[p] \cup retry[p]
      [] OTHER -> {}

\* Planning again would treat what is still ahead the same way.
FreshInv ==
    \A p \in Proc : conn[p] =>
        \A o \in Ahead(p) : ActionOf(DecideObject(p, o)) = ActionOf(scen[p][o])

\* With no DDL from outside, what is recorded is there, and the effects of
\* transitions are in tables that are there.
AppliedInv == NeverRecordsUnapplied /\ \A x \in Trans : eff[x] > 0 => live[TableOf[x]] # 0

\* The recorded fingerprint is that of the live object, but for transitions that
\* were applied since.
ShapeInv == \A o \in Obj : rowCs[o] # 0 =>
                rowFp[o].ver = live[o] /\ rowFp[o].alters \subseteq Shape(live, eff, o).alters

\* Objects of a migrate whose row is still to come.
Due(p, o) ==
    \/ o \in Ahead(p)
    \/ Phase(p) = "gate" /\ scen[p][o] # "SkipUnchanged"
    \/ Phase(p) \in {"filter", "schemas", "transitions", "record"} /\ scen[p][o] = "Adopt"
    \/ /\ scen[p][o] = "TableReprocess"
       /\ \/ Phase(p) = "filter"
          \/ Phase(p) = "schemas" /\ pend[p] \cap TransOf(o) # {}
          \/ Phase(p) = "transitions" /\ todo[p] \cap TransOf(o) # {}

Applying == {"gate", "filter", "schemas", "record"} \cup LoopPcs

DueInv ==
    \A p \in Proc : conn[p] /\ cmd[p] = "migrate"
                    /\ (Phase(p) \in Applying \/ (pc[p] = "release" /\ exit[p] = 0)) =>
        \A o \in Obj : rowCs[o] = wsFile[p][o] \/ NothingToApply(p, o) \/ Due(p, o)

\* What a baseline or a repair knows of the objects that are there.
MetaInv ==
    \A p \in Proc : conn[p] /\ cmd[p] # "migrate" =>
        \A o \in Obj : live[o] # 0 =>
            /\ pc[p] \in {"gate", "record"} =>
                  /\ scen[p][o] # "Create"
                  /\ scen[p][o] # "Adopt" => rowCs[o] # 0
                  /\ scen[p][o] = "SkipUnchanged" => rowCs[o] = wsFile[p][o]
            /\ pc[p] = "release" /\ exit[p] = 0 =>
                  /\ rowCs[o] # 0
                  /\ cmd[p] = "repair" => rowCs[o] = wsFile[p][o]

\* Put off because a dependency is missing.
Stuck(o) == \E d \in Deps[o] : live[d] = 0

GiveUpInv ==
    \A p \in Proc : conn[p] =>
        /\ Phase(p) = "modules" /\ ~progress[p] => \A o \in retry[p] : Stuck(o)
        /\ pc[p] = "rollback" /\ Back(p) = "modules" => Stuck(job[p])
        /\ pc[p] = "release" /\ retry[p] # {} => exit[p] = 5 /\ \A o \in retry[p] : Stuck(o)

\* The whole invariant, for scripts that do not commit the executor's transaction.
IndInv ==
    /\ SessionInv /\ WritesUnderLock /\ WorkInv
    /\ PendingInv /\ ExactlyOnce /\ HoldInv /\ ListInv /\ JobInv /\ DueInv
    /\ ~OutOfBand => AppliedInv /\ FreshInv /\ MetaInv /\ ShapeInv

=============================================================================
