----------------------------- MODULE Migrations -----------------------------
(***************************************************************************)
(* The migrations of the database (migration_manager.py).  Several         *)
(* processes migrate the same database: each orchestrator when it starts,   *)
(* the command line, the migrations endpoints.  Each version runs in a     *)
(* transaction of its own that also writes its row of schema_migrations;   *)
(* what is pending is read once, before the first of them.                 *)
(***************************************************************************)
EXTENDS Naturals, FiniteSets

CONSTANTS
    Procs,       \* processes that migrate
    Latest,      \* versions are 1..Latest, 0 stands for "before the first"
    Files,       \* the versions whose file each process has
    UpTargets,   \* targets of migrate_up
    DownTargets, \* targets of migrate_down
    MaxFaults    \* bound: transactions that fail of themselves

Versions == 1..Latest

\* What is assumed of the constants.
MigrationsAssumption ==
    /\ Latest \in Nat /\ MaxFaults \in Nat /\ Files \in [Procs -> SUBSET Versions]
    /\ UpTargets \subseteq Versions /\ DownTargets \subseteq 0..Latest

VARIABLES
    recorded,   \* rows of schema_migrations
    schema,     \* how often the changes of each version are in the schema
    kind,       \* what each process does: "no", "up" or "down"
    target,     \* the target it was given
    todo,       \* the versions that it still has to do
    ended,      \* how its last call ended: "no", "returned", "raised"
    faults

vars == <<recorded, schema, kind, target, todo, ended, faults>>

MigrationsTypes ==
    /\ recorded \subseteq Versions
    /\ schema \in [Versions -> Nat]
    /\ kind \in [Procs -> {"no", "up", "down"}]
    /\ target \in [Procs -> 0..Latest]
    /\ todo \in [Procs -> SUBSET Versions]
    /\ ended \in [Procs -> {"no", "returned", "raised"}]
    /\ faults \in 0..MaxFaults

Init ==
    /\ recorded = {} /\ schema = [v \in Versions |-> 0]
    /\ kind = [p \in Procs |-> "no"] /\ target = [p \in Procs |-> 0]
    /\ todo = [p \in Procs |-> {}] /\ ended = [p \in Procs |-> "no"]
    /\ faults = 0

-----------------------------------------------------------------------------

Set(f, p, x) == [f EXCEPT ![p] = x]

\* Discovery sorts the files by their version: the first of those that are left,
\* and the first when they are gone through newest first.
Oldest(S) == {v \in S : \A w \in S : v <= w}
Newest(S) == {v \in S : \A w \in S : w <= v}

Begin(p, what, upto, versions) ==
    /\ kind[p] = "no"
    /\ kind' = Set(kind, p, what) /\ target' = Set(target, p, upto)
    /\ todo' = Set(todo, p, versions) /\ ended' = Set(ended, p, "no")
    /\ UNCHANGED <<recorded, schema, faults>>

\* migrate_up reads the applied versions and keeps what is pending.
MigrateUp(p, t) == Begin(p, "up", t, {v \in Files[p] : v \notin recorded /\ v <= t})

\* migrate_down goes through the applied versions newest first and passes over
\* those it has no file of.
MigrateDown(p, t) == Begin(p, "down", t, {v \in recorded : v > t /\ v \in Files[p]})

\* A transaction that fails leaves nothing behind and ends the call.
Raise(p) ==
    /\ kind' = Set(kind, p, "no") /\ todo' = Set(todo, p, {}) /\ ended' = Set(ended, p, "raised")
    /\ UNCHANGED <<recorded, schema, target>>

Fault(p) ==
    /\ kind[p] # "no" /\ todo[p] # {} /\ faults < MaxFaults
    /\ faults' = faults + 1 /\ Raise(p)

Did(p, v) ==
    /\ todo' = Set(todo, p, todo[p] \ {v})
    /\ UNCHANGED <<kind, target, ended, faults>>

\* Mutant: the insert does nothing when the row is there.
ApplyAgain(p) ==
    /\ kind[p] = "up"
    /\ \E v \in Oldest(todo[p]) :
         /\ recorded' = recorded \cup {v}
         /\ schema' = [schema EXCEPT ![v] = @ + 1]
         /\ Did(p, v)

\* apply_migration: upgrade and insert in one transaction, which the primary
\* key refuses when another process has done this version meanwhile.
Apply(p) ==
    /\ kind[p] = "up"
    /\ \E v \in Oldest(todo[p]) :
         \/ /\ v \notin recorded /\ recorded' = recorded \cup {v}
            /\ schema' = [schema EXCEPT ![v] = @ + 1]
            /\ Did(p, v)
         \/ v \in recorded /\ Raise(p) /\ UNCHANGED faults

\* rollback_migration: downgrades drop what exists, and deleting a row that is
\* gone is no error.
RollBack(p) ==
    /\ kind[p] = "down"
    /\ \E v \in Newest(todo[p]) :
         /\ recorded' = recorded \ {v}
         /\ schema' = [schema EXCEPT ![v] = 0]
         /\ Did(p, v)

Return(p) ==
    /\ kind[p] # "no" /\ todo[p] = {}
    /\ kind' = Set(kind, p, "no") /\ ended' = Set(ended, p, "returned")
    /\ UNCHANGED <<recorded, schema, target, todo, faults>>

Work(p) == Apply(p) \/ RollBack(p) \/ Return(p)

Next == \E p \in Procs :
    \/ \E t \in UpTargets : MigrateUp(p, t)
    \/ \E t \in DownTargets : MigrateDown(p, t)
    \/ Work(p) \/ Fault(p)

Spec == Init /\ [][Next]_vars

\* A call goes on, and an orchestrator whose start has failed is started again.
Fairness == \A p \in Procs : WF_vars(Work(p)) /\ WF_vars(\E t \in UpTargets : ended[p] # "returned" /\ MigrateUp(p, t))

FairSpec == Spec /\ Fairness

-----------------------------------------------------------------------------

\* The table tells the schema: the changes of a version are in the schema
\* exactly once when it is recorded and not at all when it is not, whichever
\* processes migrate up and down together.
LedgerIsSchema == \A v \in Versions : schema[v] = IF v \in recorded THEN 1 ELSE 0

\* No version is there without the ones before it, on which it may build.
NoGap == \A v \in recorded : 1..v \subseteq recorded

\* When migrate_up has returned, all that it was asked for is there, also the
\* versions that another process was applying meanwhile.
ReturnedIsDone ==
    \A p \in Procs : ended[p] = "returned" /\ DownTargets = {} =>
        \A v \in Files[p] : v <= target[p] => v \in recorded

\* Starts that fail because another process was faster come through in the end.
EveryStartEnds == \A p \in Procs : <>(ended[p] = "returned")
=============================================================================
