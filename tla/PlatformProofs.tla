---------------------------- MODULE PlatformProofs ----------------------------
(***************************************************************************)
(* What holds of the parts of the platform, whatever the values of their   *)
(* constants.  The parts share no state; each has its own specification,   *)
(* and the theorems name it.                                               *)
(***************************************************************************)
EXTENDS PlatformParts, TalkParts, FiniteSetTheorems, WellFoundedInduction, TLAPS

-----------------------------------------------------------------------------
(* Sandboxes.                                                              *)

BoxShape ==
  /\ boxRow \in [Boxes -> {"none", "creating", "running", "error", "destroying", "destroyed"}]
  /\ boxContainer \in [Boxes -> {"none", "running", "removed", "gone"}]
  /\ active \subseteq Boxes
  /\ creating \in [Boxes -> {"no", "storing", "stored", "ran", "erring", "over"}]
  /\ destroying \in [Destroyers ->
        [box : Boxes \cup {"none"}, at : {"idle", "marking", "removing", "recording", "erring"}]]

(* A sandbox that is being created is nobody else's yet, and its row does  *)
(* not say running.                                                        *)
BoxNew ==
  \A b \in Boxes : creating[b] # "over" =>
    /\ b \notin active /\ boxRow[b] # "running"
    /\ \A d \in Destroyers : destroying[d].at # "idle" => destroying[d].box # b

(* The update to running follows the start of the container.               *)
BoxRan == \A b \in Boxes : creating[b] = "ran" => boxContainer[b] \in {"running", "gone"}

(* The removal follows the update to destroying.                           *)
BoxMarked ==
  \A d \in Destroyers :
    /\ destroying[d].at # "idle" => destroying[d].box \in Boxes
    /\ destroying[d].at \in {"removing", "recording"} => boxRow[destroying[d].box] # "running"

BoxInv == BoxShape /\ BoxNew /\ BoxRan /\ BoxMarked /\ TheBoxes!RunningIsRunning

LEMMA InitBoxes == TheBoxes!Init => BoxInv
  BY DEF TheBoxes!Init, TheBoxes!Idle, BoxInv, BoxShape, BoxNew, BoxRan, BoxMarked, TheBoxes!RunningIsRunning

(* The creation of a sandbox writes its row and runs its container.        *)
LEMMA CreationOfBox ==
  ASSUME BoxInv, NEW b \in Boxes, TheBoxes!Create(b) \/ TheBoxes!CreateStep(b)
  PROVE  BoxInv'
<1>1. UNCHANGED destroying /\ creating[b] # "over"
  BY DEF TheBoxes!Create, TheBoxes!CreateStep, TheBoxes!Store, TheBoxes!RunContainer, TheBoxes!Record,
         TheBoxes!CreateFails
<1>2. CASE TheBoxes!Create(b)
  BY <1>2 DEF TheBoxes!Create, TheBoxes!Go, BoxInv, BoxShape, BoxNew, BoxRan, BoxMarked,
         TheBoxes!RunningIsRunning
<1>3. CASE TheBoxes!Store(b)
  BY <1>3 DEF TheBoxes!Store, TheBoxes!Go, BoxInv, BoxShape, BoxNew, BoxRan, BoxMarked,
         TheBoxes!RunningIsRunning
<1>4. CASE TheBoxes!RunContainer(b)
  BY <1>4 DEF TheBoxes!RunContainer, TheBoxes!Go, BoxInv, BoxShape, BoxNew, BoxRan, BoxMarked,
         TheBoxes!RunningIsRunning
<1>5. CASE TheBoxes!Record(b)
  BY <1>5 DEF TheBoxes!Record, TheBoxes!Go, TheBoxes!SetRow, BoxInv, BoxShape, BoxNew, BoxRan, BoxMarked,
         TheBoxes!RunningIsRunning
<1>6. CASE TheBoxes!CreateFails(b)
  BY <1>6 DEF TheBoxes!CreateFails, TheBoxes!Go, TheBoxes!SetRow, BoxInv, BoxShape, BoxNew, BoxRan, BoxMarked,
         TheBoxes!RunningIsRunning
<1>7. QED BY <1>2, <1>3, <1>4, <1>5, <1>6 DEF TheBoxes!CreateStep

LEMMA ContainerGoesFromBox ==
  ASSUME BoxInv, NEW b \in Boxes, TheBoxes!ContainerGoes(b) PROVE BoxInv'
  BY DEF TheBoxes!ContainerGoes, BoxInv, BoxShape, BoxNew, BoxRan, BoxMarked, TheBoxes!RunningIsRunning

(* Only active sandboxes are destroyed, and those have been created.       *)
LEMMA DestructionOfBoxBegins ==
  ASSUME BoxInv, NEW d \in Destroyers, NEW b \in active,
         destroying' = [destroying EXCEPT ![d] = [box |-> b, at |-> "marking"]],
         UNCHANGED <<boxRow, boxContainer, active, creating, up, boxFaults, boxCrashes>>
  PROVE  BoxInv'
  BY DEF BoxInv, BoxShape, BoxNew, BoxRan, BoxMarked, TheBoxes!RunningIsRunning

LEMMA DestructionOfBoxGoesOn ==
  ASSUME BoxInv, NEW d \in Destroyers, TheBoxes!DestroyStep(d) PROVE BoxInv'
<1> DEFINE b == destroying[d].box
<1>1. b \in Boxes /\ creating[b] = "over"
  BY DEF TheBoxes!DestroyStep, TheBoxes!Mark, TheBoxes!Remove, TheBoxes!Destroyed, TheBoxes!DestroyFails,
         TheBoxes!At, BoxInv, BoxMarked, BoxNew
<1>2. UNCHANGED creating
  BY DEF TheBoxes!DestroyStep, TheBoxes!Mark, TheBoxes!Remove, TheBoxes!Destroyed, TheBoxes!DestroyFails
<1>3. ASSUME NEW at \in {"idle", "removing", "recording", "erring"}, TheBoxes!Turn(d, at)
      PROVE  /\ destroying' \in [Destroyers ->
                  [box : Boxes \cup {"none"}, at : {"idle", "marking", "removing", "recording", "erring"}]]
             /\ destroying'[d].at = at /\ (at # "idle" => destroying'[d].box = b)
             /\ \A e \in Destroyers \ {d} : destroying'[e] = destroying[e]
  BY <1>3 DEF TheBoxes!Turn, TheBoxes!Idle, BoxInv, BoxShape
<1> HIDE DEF b
<1>4. ASSUME NEW status \in {"error", "destroying", "destroyed"}, TheBoxes!SetRow(b, status)
      PROVE  /\ boxRow' \in [Boxes -> {"none", "creating", "running", "error", "destroying", "destroyed"}]
             /\ \A c \in Boxes : boxRow'[c] = "running" => boxRow[c] = "running"
             /\ boxRow'[b] # "running"
  BY <1>1, <1>4 DEF TheBoxes!SetRow, BoxInv, BoxShape
<1>5. CASE TheBoxes!Mark(d)
  <2>1. UNCHANGED <<boxContainer, active, creating>>
    BY <1>5 DEF TheBoxes!Mark
  <2>2. CASE TheBoxes!SetRow(b, "destroying") /\ TheBoxes!Turn(d, "removing")
    <3>1. BoxShape'
      BY <1>3, <1>4, <2>1, <2>2 DEF BoxInv, BoxShape
    <3>2. BoxNew'
      BY <1>1, <1>3, <1>4, <2>1, <2>2 DEF BoxInv, BoxNew
    <3>3. BoxRan'
      BY <2>1 DEF BoxInv, BoxRan
    <3>4. BoxMarked'
      BY <1>1, <1>3, <1>4, <2>2 DEF BoxInv, BoxMarked
    <3>5. TheBoxes!RunningIsRunning'
      BY <1>4, <2>1, <2>2 DEF BoxInv, TheBoxes!RunningIsRunning
    <3>6. QED BY <3>1, <3>2, <3>3, <3>4, <3>5 DEF BoxInv
  <2>3. CASE UNCHANGED boxRow /\ TheBoxes!Turn(d, "erring")
    BY <1>1, <1>3, <2>1, <2>3 DEF BoxInv, BoxShape, BoxNew, BoxRan, BoxMarked, TheBoxes!RunningIsRunning
  <2>4. QED BY <1>5, <2>2, <2>3 DEF TheBoxes!Mark, b
<1>6. CASE TheBoxes!Remove(d)
  <2>1. UNCHANGED <<boxRow, active, creating>> /\ TheBoxes!Turn(d, "recording") /\ boxRow[b] # "running"
    BY <1>6 DEF TheBoxes!Remove, TheBoxes!At, BoxInv, BoxMarked, b
  <2>2. /\ boxContainer' \in [Boxes -> {"none", "running", "removed", "gone"}]
        /\ \A c \in Boxes \ {b} : boxContainer'[c] = boxContainer[c]
    BY <1>6 DEF TheBoxes!Remove, BoxInv, BoxShape, b
  <2>3. /\ destroying' \in [Destroyers ->
             [box : Boxes \cup {"none"}, at : {"idle", "marking", "removing", "recording", "erring"}]]
        /\ destroying'[d].box = b
        /\ \A e \in Destroyers \ {d} : destroying'[e] = destroying[e]
    BY <1>3, <2>1
  <2>4. BoxShape' /\ BoxNew' /\ BoxMarked'
    BY <1>1, <2>1, <2>2, <2>3 DEF BoxInv, BoxShape, BoxNew, BoxMarked
  <2>5. BoxRan' /\ TheBoxes!RunningIsRunning'
    BY <1>1, <2>1, <2>2 DEF BoxInv, BoxRan, TheBoxes!RunningIsRunning
  <2>6. QED BY <2>4, <2>5 DEF BoxInv
<1>7. CASE TheBoxes!Destroyed(d)
  <2>1. UNCHANGED <<boxContainer, creating>> /\ active' \in {active, active \ {b}} /\ boxRow[b] # "running"
    BY <1>7 DEF TheBoxes!Destroyed, TheBoxes!At, BoxInv, BoxMarked, b
  <2>2. UNCHANGED boxRow \/ TheBoxes!SetRow(b, "destroyed")
    BY <1>7 DEF TheBoxes!Destroyed, b
  <2>3. TheBoxes!Turn(d, "idle") \/ TheBoxes!Turn(d, "erring")
    BY <1>7 DEF TheBoxes!Destroyed, b
  <2>4. QED BY <1>1, <1>3, <1>4, <2>1, <2>2, <2>3
            DEF BoxInv, BoxShape, BoxNew, BoxRan, BoxMarked, TheBoxes!RunningIsRunning
<1>8. CASE TheBoxes!DestroyFails(d)
  <2>1. UNCHANGED <<boxContainer, active, creating>> /\ TheBoxes!Turn(d, "idle")
    BY <1>8 DEF TheBoxes!DestroyFails
  <2>2. UNCHANGED boxRow \/ TheBoxes!SetRow(b, "error")
    BY <1>8 DEF TheBoxes!DestroyFails, b
  <2>3. QED BY <1>1, <1>3, <1>4, <2>1, <2>2
            DEF BoxInv, BoxShape, BoxNew, BoxRan, BoxMarked, TheBoxes!RunningIsRunning
<1>9. QED BY <1>5, <1>6, <1>7, <1>8 DEF TheBoxes!DestroyStep

(* A stop leaves rows and containers; a start loads the rows that say      *)
(* running.                                                                *)
LEMMA RestartOfBoxes ==
  ASSUME BoxInv, TheBoxes!ProcessStops \/ TheBoxes!ProcessStarts PROVE BoxInv'
<1>1. CASE TheBoxes!ProcessStops
  BY <1>1 DEF TheBoxes!ProcessStops, TheBoxes!Idle, BoxInv, BoxShape, BoxNew, BoxRan, BoxMarked,
         TheBoxes!RunningIsRunning
<1>2. CASE TheBoxes!ProcessStarts
  BY <1>2 DEF TheBoxes!ProcessStarts, BoxInv, BoxShape, BoxNew, BoxRan, BoxMarked, TheBoxes!RunningIsRunning
<1>3. QED BY <1>1, <1>2

(* A row of agent_sandboxes says running only for a container that was run *)
(* and not removed, whatever raises and wherever the process stops         *)
(* (sandbox_manager.py).                                                   *)
THEOREM RowsSayRunning ==
  ASSUME TheBoxes!SandboxAssumption PROVE TheBoxes!Spec => []RunningIsRunning
<1>1. TheBoxes!Init => BoxInv
  BY InitBoxes
<1>2. BoxInv /\ [TheBoxes!Next]_(TheBoxes!vars) => BoxInv'
  <2> SUFFICES ASSUME BoxInv, [TheBoxes!Next]_(TheBoxes!vars) PROVE BoxInv'
    OBVIOUS
  <2>1. CASE UNCHANGED TheBoxes!vars
    BY <2>1 DEF TheBoxes!vars, BoxInv, BoxShape, BoxNew, BoxRan, BoxMarked, TheBoxes!RunningIsRunning
  <2>2. ASSUME NEW b \in Boxes, NEW d \in Destroyers, TheBoxes!Destroy(d, b) PROVE BoxInv'
    BY <2>2, DestructionOfBoxBegins DEF TheBoxes!Destroy
  <2>3. ASSUME NEW b \in Boxes, TheBoxes!Expire(b) PROVE BoxInv'
    BY <2>3, DestructionOfBoxBegins DEF TheBoxes!Expire, TheBoxes!SandboxAssumption
  <2>4. QED BY <2>1, <2>2, <2>3, CreationOfBox, ContainerGoesFromBox, DestructionOfBoxGoesOn, RestartOfBoxes
            DEF TheBoxes!Next
<1>3. BoxInv => RunningIsRunning
  BY DEF BoxInv, TheBoxes!RunningIsRunning, RunningIsRunning
<1>4. QED BY <1>1, <1>2, <1>3, PTL DEF TheBoxes!Spec

-----------------------------------------------------------------------------
(* The migrations.                                                         *)

LedgerInv == schema \in [1..Latest -> Nat] /\ TheMigrations!LedgerIsSchema

LEMMA LedgerLeft ==
  ASSUME LedgerInv, UNCHANGED <<recorded, schema>> PROVE LedgerInv'
  BY DEF LedgerInv, TheMigrations!LedgerIsSchema, TheMigrations!Versions

(* The change and its row go in one transaction, which the primary key     *)
(* refuses the second time.                                                *)
LEMMA LedgerApplied ==
  ASSUME LedgerInv, NEW p \in Procs, TheMigrations!Apply(p) PROVE LedgerInv'
<1>1. CASE UNCHANGED <<recorded, schema>>
  BY <1>1, LedgerLeft
<1>2. ASSUME NEW v, v \notin recorded, recorded' = recorded \cup {v}, schema' = [schema EXCEPT ![v] = @ + 1]
      PROVE  LedgerInv'
  <2>1. schema \in [1..Latest -> Nat] /\ \A u \in 1..Latest : schema[u] = IF u \in recorded THEN 1 ELSE 0
    BY DEF LedgerInv, TheMigrations!LedgerIsSchema, TheMigrations!Versions
  <2>2. \A u \in 1..Latest : schema'[u] = IF u = v THEN schema[v] + 1 ELSE schema[u]
    BY <1>2, <2>1
  <2>3. \A u \in 1..Latest : schema'[u] = IF u \in recorded' THEN 1 ELSE 0
    BY <1>2, <2>1, <2>2
  <2>4. schema' \in [1..Latest -> Nat]
    <3>1. schema' = [u \in 1..Latest |-> schema'[u]]
      BY <1>2, <2>1
    <3>2. \A u \in 1..Latest : schema'[u] \in Nat
      BY <2>3
    <3>3. QED BY <3>1, <3>2
  <2>5. QED BY <2>3, <2>4 DEF LedgerInv, TheMigrations!LedgerIsSchema, TheMigrations!Versions
<1>3. QED BY <1>1, <1>2 DEF TheMigrations!Apply, TheMigrations!Raise

LEMMA LedgerRolledBack ==
  ASSUME LedgerInv, NEW p \in Procs, TheMigrations!RollBack(p) PROVE LedgerInv'
<1>1. PICK v : recorded' = recorded \ {v} /\ schema' = [schema EXCEPT ![v] = 0]
  BY DEF TheMigrations!RollBack
<1>2. schema \in [1..Latest -> Nat] /\ \A u \in 1..Latest : schema[u] = IF u \in recorded THEN 1 ELSE 0
  BY DEF LedgerInv, TheMigrations!LedgerIsSchema, TheMigrations!Versions
<1>3. schema' \in [1..Latest -> Nat] /\ \A u \in 1..Latest : schema'[u] = IF u = v THEN 0 ELSE schema[u]
  BY <1>1, <1>2
<1>4. \A u \in 1..Latest : schema'[u] = IF u \in recorded' THEN 1 ELSE 0
  BY <1>1, <1>2, <1>3
<1>5. QED BY <1>3, <1>4 DEF LedgerInv, TheMigrations!LedgerIsSchema, TheMigrations!Versions

(* The changes of a version are in the schema exactly once when            *)
(* schema_migrations records it, whichever processes migrate up and down   *)
(* together and wherever they fail (migration_manager.py).                 *)
THEOREM LedgerTellsSchema == TheMigrations!Spec => []LedgerIsSchema
<1>1. TheMigrations!Init => LedgerInv
  BY DEF TheMigrations!Init, LedgerInv, TheMigrations!LedgerIsSchema, TheMigrations!Versions
<1>2. LedgerInv /\ [TheMigrations!Next]_(TheMigrations!vars) => LedgerInv'
  <2> SUFFICES ASSUME LedgerInv, [TheMigrations!Next]_(TheMigrations!vars) PROVE LedgerInv'
    OBVIOUS
  <2>1. CASE UNCHANGED TheMigrations!vars
    BY <2>1, LedgerLeft DEF TheMigrations!vars
  <2>2. ASSUME NEW p \in Procs, NEW t, TheMigrations!MigrateUp(p, t) \/ TheMigrations!MigrateDown(p, t)
        PROVE  LedgerInv'
    BY <2>2, LedgerLeft DEF TheMigrations!MigrateUp, TheMigrations!MigrateDown, TheMigrations!Begin
  <2>3. ASSUME NEW p \in Procs, TheMigrations!Fault(p) \/ TheMigrations!Return(p) PROVE LedgerInv'
    BY <2>3, LedgerLeft DEF TheMigrations!Fault, TheMigrations!Raise, TheMigrations!Return
  <2>4. QED BY <2>1, <2>2, <2>3, LedgerApplied, LedgerRolledBack DEF TheMigrations!Next, TheMigrations!Work
<1>3. LedgerInv => LedgerIsSchema
  BY DEF LedgerInv, TheMigrations!LedgerIsSchema, LedgerIsSchema
<1>4. QED BY <1>1, <1>2, <1>3, PTL DEF TheMigrations!Spec

(* Nobody migrates down: what a process found pending is recorded or still *)
(* to do, whatever the others record meanwhile, up to its return.          *)
UpwardInv ==
  /\ migrating \in [Procs -> {"no", "up"}]
  /\ todo \in [Procs -> SUBSET (1..Latest)] /\ ended \in [Procs -> {"no", "returned", "raised"}]
  /\ target \in [Procs -> Nat]
  /\ \A p \in Procs : \A v \in Images[p] : v <= target[p] =>
       /\ migrating[p] = "up" => v \in recorded \/ v \in todo[p]
       /\ ended[p] = "returned" => v \in recorded

LEMMA UpwardsGoOn ==
  ASSUME UpwardInv, Upwards!MigrationsAssumption, NEW p \in Procs,
         \/ \E t \in UpwardTargets : Upwards!MigrateUp(p, t)
         \/ Upwards!Work(p) \/ Upwards!Fault(p)
  PROVE  UpwardInv'
<1>1. ASSUME NEW t \in UpwardTargets, Upwards!MigrateUp(p, t) PROVE UpwardInv'
  BY <1>1 DEF Upwards!MigrateUp, Upwards!Begin, Upwards!Set, UpwardInv, Upwards!MigrationsAssumption, Upwards!Versions
<1>2. CASE Upwards!Fault(p)
  BY <1>2 DEF Upwards!Fault, Upwards!Raise, Upwards!Set, UpwardInv
<1>3. CASE Upwards!Apply(p)
  <2>1. PICK v :
             \/ recorded' = recorded \cup {v} /\ Upwards!Did(p, v)
             \/ UNCHANGED recorded /\ Upwards!Raise(p)
    BY <1>3 DEF Upwards!Apply, Upwards!Raise
  <2>2. CASE recorded' = recorded \cup {v} /\ Upwards!Did(p, v)
    <3>1. UNCHANGED <<migrating, target, ended>> /\ todo' = [todo EXCEPT ![p] = todo[p] \ {v}]
      BY <2>2 DEF Upwards!Did, Upwards!Set
    <3>2. todo' \in [Procs -> SUBSET (1..Latest)]
      BY <3>1 DEF UpwardInv
    <3>3. \A q \in Procs, u \in 1..Latest : u \in todo[q] => u \in todo'[q] \/ u = v
      BY <3>1 DEF UpwardInv
    <3>4. QED BY <2>2, <3>1, <3>2, <3>3 DEF UpwardInv
  <2>3. CASE UNCHANGED recorded /\ Upwards!Raise(p)
    BY <2>3 DEF Upwards!Raise, Upwards!Set, UpwardInv
  <2>4. QED BY <2>1, <2>2, <2>3
<1>4. CASE Upwards!Return(p)
  BY <1>4 DEF Upwards!Return, Upwards!Set, UpwardInv
<1>5. ~ Upwards!RollBack(p)
  BY DEF Upwards!RollBack, UpwardInv
<1>6. QED BY <1>1, <1>2, <1>3, <1>4, <1>5 DEF Upwards!Work

LEMMA UpwardsReturnDone ==
  ASSUME Upwards!MigrationsAssumption PROVE Upwards!Spec => []Upwards!ReturnedIsDone
<1>1. Upwards!Init => UpwardInv
  BY DEF Upwards!Init, UpwardInv
<1>2. UpwardInv /\ [Upwards!Next]_(Upwards!vars) => UpwardInv'
  <2> SUFFICES ASSUME UpwardInv, [Upwards!Next]_(Upwards!vars) PROVE UpwardInv'
    OBVIOUS
  <2>1. CASE UNCHANGED Upwards!vars
    BY <2>1 DEF Upwards!vars, UpwardInv
  <2>2. QED BY <2>1, UpwardsGoOn DEF Upwards!Next
<1>3. UpwardInv => Upwards!ReturnedIsDone
  BY DEF UpwardInv, Upwards!ReturnedIsDone
<1>4. QED BY <1>1, <1>2, <1>3, PTL DEF Upwards!Spec

-----------------------------------------------------------------------------
(* The sandboxes that run as pods.                                         *)

WholeOf(p) == IF origin[p] = "launch" THEN {"secret", "policy"} ELSE {"policy"}

PodShape ==
  /\ TheCluster!PodTypes
  /\ req \in [Requests -> [at : {"idle", "pod", "secret", "policy", "mark", "listed"}, of : SUBSET Pods]]

(* The parts of a pod are made one after the other before the pod is.      *)
PartsFirst ==
  \A p \in Pods :
    /\ spawn[p] \in {"no", "secret", "policy", "pod"} => pod[p] = "none"
    /\ spawn[p] \in {"no", "secret"} => parts[p] = {}
    /\ spawn[p] = "secret" => origin[p] = "launch"
    /\ spawn[p] = "policy" => parts[p] = WholeOf(p) \ {"policy"}
    /\ spawn[p] = "pod" => parts[p] = WholeOf(p)
    /\ spawn[p] \in {"made", "over"} => pod[p] # "none"

(* Requests work on entries, which are made last, and delete the pod first. *)
PodFirst ==
  /\ \A p \in Pods : entry[p] # "none" => spawn[p] = "over"
  /\ \A r \in Requests : req[r].at \in {"pod", "secret", "policy", "mark"} =>
       \A p \in req[r].of :
         spawn[p] = "over" /\ (req[r].at # "pod" => pod[p] = "deleted")

PodInv == PodShape /\ PartsFirst /\ PodFirst /\ TheCluster!RunsWithParts

(* A pod is spawned with its parts, when no creation fails.                *)
LEMMA SpawnOfPod ==
  ASSUME PodInv, NEW p \in Pods,
         TheCluster!SpawnStep(p) \/ \E from \in {"launch", "chat"} : TheCluster!Spawn(p, from)
  PROVE  PodInv'
<1>1. ASSUME NEW from \in {"launch", "chat"}, TheCluster!Spawn(p, from) PROVE PodInv'
  BY <1>1 DEF TheCluster!Spawn, PodInv, PodShape, PartsFirst, PodFirst, WholeOf, TheCluster!PodTypes,
         TheCluster!RunsWithParts
<1>2. CASE TheCluster!CreatePart(p, "secret", "policy")
  BY <1>2 DEF TheCluster!CreatePart, PodInv, PodShape, PartsFirst, PodFirst, WholeOf, TheCluster!PodTypes,
         TheCluster!RunsWithParts
<1>3. CASE TheCluster!CreatePart(p, "policy", "pod")
  BY <1>3 DEF TheCluster!CreatePart, PodInv, PodShape, PartsFirst, PodFirst, WholeOf, TheCluster!PodTypes,
         TheCluster!RunsWithParts
<1>4. CASE TheCluster!CreatePod(p)
  BY <1>4 DEF TheCluster!CreatePod, PodInv, PodShape, PartsFirst, PodFirst, WholeOf, TheCluster!PodTypes,
         TheCluster!RunsWithParts
<1>5. CASE TheCluster!Enter(p)
  BY <1>5 DEF TheCluster!Enter, PodInv, PodShape, PartsFirst, PodFirst, WholeOf, TheCluster!PodTypes,
         TheCluster!RunsWithParts
<1>6. QED BY <1>1, <1>2, <1>3, <1>4, <1>5 DEF TheCluster!SpawnStep

(* A termination deletes the pod before its parts, when no deletion fails. *)
LEMMA RequestOnPods ==
  ASSUME PodInv, NEW r \in Requests,
         \/ TheCluster!RequestStep(r) \/ TheCluster!ListPods(r)
         \/ \E p \in Pods : TheCluster!Terminate(r, p)
  PROVE  PodInv'
<1>1. CASE TheCluster!DeletePod(r)
  BY <1>1 DEF TheCluster!DeletePod, TheCluster!Turn, PodInv, PodShape, PartsFirst, PodFirst, WholeOf,
         TheCluster!PodTypes, TheCluster!RunsWithParts
<1>2. ASSUME NEW part \in {"secret", "policy"}, NEW next \in {"policy", "mark"},
             TheCluster!DeletePart(r, part, next)
      PROVE  PodInv'
  BY <1>2 DEF TheCluster!DeletePart, TheCluster!Turn, PodInv, PodShape, PartsFirst, PodFirst, WholeOf,
         TheCluster!PodTypes, TheCluster!RunsWithParts
<1>3. CASE TheCluster!Mark(r)
  <2>1. \A p \in req[r].of : spawn[p] = "over"
    BY <1>3 DEF TheCluster!Mark, PodInv, PodFirst
  <2>2. /\ UNCHANGED <<origin, spawn, pod, parts>>
        /\ req' = [req EXCEPT ![r] = [at |-> "idle", of |-> {}]]
        /\ entry' \in [Pods -> {"none", "running", "terminated"}]
        /\ \A p \in Pods : entry'[p] = entry[p] \/ p \in req[r].of
    BY <1>3 DEF TheCluster!Mark, TheCluster!Idle, PodInv, PodShape, TheCluster!PodTypes
  <2>3. PodShape'
    BY <2>2 DEF PodInv, PodShape, TheCluster!PodTypes
  <2>4. PartsFirst' /\ TheCluster!RunsWithParts'
    BY <2>2 DEF PodInv, PartsFirst, WholeOf, TheCluster!RunsWithParts
  <2>5. PodFirst'
    BY <2>1, <2>2 DEF PodInv, PodShape, PodFirst
  <2>6. QED BY <2>3, <2>4, <2>5 DEF PodInv
<1>4. CASE TheCluster!Sync(r)
  <2>1. /\ UNCHANGED <<origin, spawn, pod, parts>>
        /\ req' = [req EXCEPT ![r] = [at |-> "idle", of |-> {}]]
        /\ entry' \in [Pods -> {"none", "running", "terminated"}]
        /\ \A p \in Pods : entry'[p] # "none" => entry[p] # "none"
    BY <1>4 DEF TheCluster!Sync, TheCluster!Idle, PodInv, PodShape, TheCluster!PodTypes
  <2>2. PodShape'
    BY <2>1 DEF PodInv, PodShape, TheCluster!PodTypes
  <2>3. PartsFirst' /\ TheCluster!RunsWithParts'
    BY <2>1 DEF PodInv, PartsFirst, WholeOf, TheCluster!RunsWithParts
  <2>4. PodFirst'
    BY <2>1 DEF PodInv, PodShape, PodFirst
  <2>5. QED BY <2>2, <2>3, <2>4 DEF PodInv
<1>5. CASE TheCluster!ListPods(r)
  BY <1>5 DEF TheCluster!ListPods, TheCluster!Idle, PodInv, PodShape, PartsFirst, PodFirst, WholeOf,
         TheCluster!PodTypes, TheCluster!RunsWithParts
<1>6. ASSUME NEW p \in Pods, TheCluster!Terminate(r, p) PROVE PodInv'
  BY <1>6 DEF TheCluster!Terminate, TheCluster!Idle, PodInv, PodShape, PartsFirst, PodFirst, WholeOf,
         TheCluster!PodTypes, TheCluster!RunsWithParts
<1>7. QED BY <1>1, <1>2, <1>3, <1>4, <1>5, <1>6 DEF TheCluster!RequestStep

(* A pod runs only with the policy that isolates it and, if it was launched *)
(* with secrets, their Secret, when no call to the cluster fails: it is    *)
(* made last and deleted first (kubernetes_sandbox_driver.py).             *)
THEOREM PodsRunWithParts == TheCluster!Spec => []RunsWithParts
<1>1. TheCluster!Init => PodInv
  BY DEF TheCluster!Init, TheCluster!Idle, PodInv, PodShape, PartsFirst, PodFirst, WholeOf, TheCluster!PodTypes,
         TheCluster!RunsWithParts
<1>2. PodInv /\ [TheCluster!Next]_(TheCluster!vars) => PodInv'
  <2> SUFFICES ASSUME PodInv, [TheCluster!Next]_(TheCluster!vars) PROVE PodInv'
    OBVIOUS
  <2>1. CASE UNCHANGED TheCluster!vars
    BY <2>1 DEF TheCluster!vars, PodInv, PodShape, PartsFirst, PodFirst, WholeOf, TheCluster!PodTypes,
           TheCluster!RunsWithParts
  <2>2. ASSUME NEW p \in Pods, TheCluster!DeadlineEnds(p) PROVE PodInv'
    BY <2>2 DEF TheCluster!DeadlineEnds, PodInv, PodShape, PartsFirst, PodFirst, WholeOf, TheCluster!PodTypes,
           TheCluster!RunsWithParts
  <2>3. QED BY <2>1, <2>2, SpawnOfPod, RequestOnPods DEF TheCluster!Next
<1>3. PodInv => RunsWithParts
  BY DEF PodInv, RunsWithParts
<1>4. QED BY <1>1, <1>2, <1>3, PTL DEF TheCluster!Spec

(* Creations may fail, deletions do not.  A termination deletes the pod, its *)
(* Secret and its policy in that order, and nothing makes them again: the  *)
(* entry that it was given is made after all of them.                      *)
GoneShape ==
  /\ spawn \in [Pods -> {"no", "secret", "policy", "pod", "made", "over"}]
  /\ pod \in [Pods -> {"none", "running", "ended", "deleted"}]
  /\ parts \in [Pods -> SUBSET {"secret", "policy"}]
  /\ entry \in [Pods -> {"none", "running", "terminated"}]
  /\ req \in [Requests -> [at : {"idle", "pod", "secret", "policy", "mark", "listed"}, of : SUBSET Pods]]

GoneSoFar ==
  /\ \A p \in Pods : entry[p] # "none" => spawn[p] = "over"
  /\ \A r \in Requests : \A p \in req[r].of :
       /\ req[r].at \in {"pod", "secret", "policy", "mark"} => spawn[p] = "over"
       /\ req[r].at \in {"secret", "policy", "mark"} => pod[p] \in {"none", "deleted"}
       /\ req[r].at \in {"policy", "mark"} => "secret" \notin parts[p]
       /\ req[r].at = "mark" => "policy" \notin parts[p]

GoneInv == GoneShape /\ GoneSoFar

LEMMA SpawnGoes ==
  ASSUME GoneInv, NEW p \in Pods,
         PoorCluster!SpawnStep(p) \/ PoorCluster!DeadlineEnds(p) \/ PoorCluster!Spawn(p, "launch")
  PROVE  GoneInv'
<1>1. CASE PoorCluster!Spawn(p, "launch")
  BY <1>1 DEF PoorCluster!Spawn, GoneInv, GoneShape, GoneSoFar
<1>2. CASE PoorCluster!CreatePart(p, "secret", "policy")
  BY <1>2 DEF PoorCluster!CreatePart, GoneInv, GoneShape, GoneSoFar
<1>3. CASE PoorCluster!CreatePart(p, "policy", "pod")
  BY <1>3 DEF PoorCluster!CreatePart, GoneInv, GoneShape, GoneSoFar
<1>4. CASE PoorCluster!CreatePod(p)
  BY <1>4 DEF PoorCluster!CreatePod, GoneInv, GoneShape, GoneSoFar
<1>5. CASE PoorCluster!Enter(p)
  BY <1>5 DEF PoorCluster!Enter, GoneInv, GoneShape, GoneSoFar
<1>6. CASE PoorCluster!DeadlineEnds(p)
  BY <1>6 DEF PoorCluster!DeadlineEnds, GoneInv, GoneShape, GoneSoFar
<1>7. QED BY <1>1, <1>2, <1>3, <1>4, <1>5, <1>6 DEF PoorCluster!SpawnStep

LEMMA RequestsGo ==
  ASSUME GoneInv, NEW r \in Requests,
         \/ PoorCluster!RequestStep(r) \/ PoorCluster!ListPods(r)
         \/ \E p \in Pods : PoorCluster!Terminate(r, p)
  PROVE  GoneInv'
<1>1. CASE PoorCluster!DeletePod(r)
  BY <1>1 DEF PoorCluster!DeletePod, PoorCluster!Turn, GoneInv, GoneShape, GoneSoFar
<1>2. CASE PoorCluster!DeletePart(r, "secret", "policy")
  BY <1>2 DEF PoorCluster!DeletePart, PoorCluster!Turn, GoneInv, GoneShape, GoneSoFar
<1>3. CASE PoorCluster!DeletePart(r, "policy", "mark")
  BY <1>3 DEF PoorCluster!DeletePart, PoorCluster!Turn, GoneInv, GoneShape, GoneSoFar
<1>4. CASE PoorCluster!Mark(r)
  BY <1>4 DEF PoorCluster!Mark, PoorCluster!Idle, GoneInv, GoneShape, GoneSoFar
<1>5. CASE PoorCluster!Sync(r)
  BY <1>5 DEF PoorCluster!Sync, PoorCluster!Idle, GoneInv, GoneShape, GoneSoFar
<1>6. CASE PoorCluster!ListPods(r)
  BY <1>6 DEF PoorCluster!ListPods, PoorCluster!Idle, GoneInv, GoneShape, GoneSoFar
<1>7. ASSUME NEW p \in Pods, PoorCluster!Terminate(r, p) PROVE GoneInv'
  BY <1>7 DEF PoorCluster!Terminate, PoorCluster!Idle, GoneInv, GoneShape, GoneSoFar
<1>8. QED BY <1>1, <1>2, <1>3, <1>4, <1>5, <1>6, <1>7 DEF PoorCluster!RequestStep

LEMMA TerminationsLeaveNothing == PoorCluster!Spec => PoorCluster!TerminatedIsGone
<1>1. PoorCluster!Init => GoneInv
  BY DEF PoorCluster!Init, PoorCluster!Idle, GoneInv, GoneShape, GoneSoFar
<1>2. GoneInv /\ [PoorCluster!Next]_(PoorCluster!vars) => GoneInv'
  <2> SUFFICES ASSUME GoneInv, [PoorCluster!Next]_(PoorCluster!vars) PROVE GoneInv'
    OBVIOUS
  <2>1. CASE UNCHANGED PoorCluster!vars
    BY <2>1 DEF PoorCluster!vars, GoneInv, GoneShape, GoneSoFar
  <2>2. QED BY <2>1, SpawnGoes, RequestsGo DEF PoorCluster!Next
<1>3. GoneInv /\ [PoorCluster!Next]_(PoorCluster!vars) =>
        [\A r \in Requests, p \in Pods : req[r].at = "mark" /\ p \in req[r].of /\ req'[r].at = "idle"
             => parts[p] = {} /\ pod[p] # "running"]_(PoorCluster!vars)
  BY DEF GoneInv, GoneShape, GoneSoFar
<1>4. QED BY <1>1, <1>2, <1>3, PTL DEF PoorCluster!Spec, PoorCluster!TerminatedIsGone

(* What is reported done is done: a return of migrate_up, whichever other  *)
(* processes migrate up meanwhile, and the success of terminate_sandbox,   *)
(* whichever parts of the pod could not be made (migration_manager.py,     *)
(* kubernetes_sandbox_driver.py).                                          *)
THEOREM DoneIsDone ==
  ASSUME Upwards!MigrationsAssumption PROVE Upwards!Spec /\ PoorCluster!Spec => ReportedIsDone
<1>1. Upwards!ReturnedIsDone => (turn = "upwards" => Upwards!ReturnedIsDone)
  OBVIOUS
<1>2. QED BY <1>1, UpwardsReturnDone, TerminationsLeaveNothing, PTL DEF ReportedIsDone
-----------------------------------------------------------------------------
(* The documents.                                                          *)

Ops == {"none", "upload", "link", "get", "update", "delete", "reindex", "reindex all"}
Ats == {"new", "row", "chunks", "answer", "done"}
Replies == {"none", "200", "404", "500"}

CallRecords == [op : Ops, of : Docs \cup {"none"}, rest : SUBSET Docs, at : Ats, reply : Replies]

DocRecords == [scope : TheDocuments!Scopes \cup {TheDocuments!Temp}, file : BOOLEAN,
               meta : {"none", "broken", "whole"}, text : BOOLEAN, updates : Nat]

Uploading(c) == call[c].op \in {"upload", "link"}

Uploads(c, d) == Uploading(c) /\ call[c].of = d

DocShape ==
  /\ doc \in [Docs -> DocRecords] /\ accepted \in [Docs -> Nat] /\ docFaults \in Nat

CallShape ==
  /\ call \in [Calls -> CallRecords]
  /\ \A c \in Calls : Uploading(c) => call[c].at # "new" /\ call[c].rest = {} /\ call[c].of \in Docs
  /\ \A c \in Calls : call[c].at # "done" => call[c].reply = "none"

(* The id of an upload is its own, and nothing is known of it before.      *)
MintedOnce ==
  /\ \A d \in Docs : \A c1, c2 \in Calls : Uploads(c1, d) /\ Uploads(c2, d) => c1 = c2
  /\ \A d \in Docs : (\A c \in Calls : ~ Uploads(c, d)) =>
       doc[d] = TheDocuments!Unused /\ accepted[d] = 0 /\ d \notin removed \cup torn

(* Metadata are whole only with the updates and no deletion, and with the  *)
(* content unless a deletion has stopped.                                  *)
WholeIsTrue ==
  \A d \in Docs : doc[d].meta = "whole" =>
    (doc[d].file \/ d \in torn) /\ d \notin removed /\ doc[d].updates >= accepted[d]

(* What came of an upload: refused, it is nowhere; accepted, it is there    *)
(* until it is deleted or an update fails in it.                           *)
Kept(d) == d \in removed \cup torn \/ doc[d].meta = "whole" \/ (docFaults > 0 /\ doc[d].meta = "broken")

(* The process ended before the request was answered.                      *)
Unanswered(c) == call[c].at = "done" /\ call[c].reply = "none"

UploadsAreKept ==
  \A c \in Calls, d \in Docs : Uploads(c, d) /\ ~ Unanswered(c) =>
    IF call[c].reply = "500" THEN doc[d].meta # "whole" ELSE Kept(d)

DocInv == DocShape /\ CallShape /\ MintedOnce /\ WholeIsTrue /\ UploadsAreKept

(* Requests that leave what was uploaded, and whether it was refused, alone. *)
UploadsSame ==
  \A c \in Calls : /\ Uploading(c)' <=> Uploading(c)
                   /\ Uploading(c) => /\ call'[c].of = call[c].of
                                      /\ call'[c].reply = "500" <=> call[c].reply = "500"
                                      /\ Unanswered(c) => Unanswered(c)'

LEMMA DocumentsLeft ==
  ASSUME DocInv, CallShape', UploadsSame, UNCHANGED <<doc, accepted, removed, torn>>,
         docFaults' \in Nat, docFaults' >= docFaults
  PROVE  DocInv'
<1>1. DocShape'
  BY DEF DocInv, DocShape
<1>2. MintedOnce' /\ UploadsAreKept'
  BY DEF DocInv, DocShape, MintedOnce, UploadsAreKept, Uploads, Kept, UploadsSame, Unanswered
<1>3. WholeIsTrue'
  BY DEF DocInv, WholeIsTrue
<1>4. QED BY <1>1, <1>2, <1>3 DEF DocInv

LEMMA DocumentChanges ==
  ASSUME DocInv, CallShape', UploadsSame, NEW d \in Docs, NEW r \in DocRecords,
         doc' = [doc EXCEPT ![d] = r], r.scope = doc[d].scope, doc[d].scope \in TheDocuments!Scopes,
         docFaults' \in {docFaults, docFaults + 1},
         \/ /\ UNCHANGED <<removed, torn>> /\ accepted' \in {accepted, [accepted EXCEPT ![d] = @ + 1]}
            /\ doc[d].meta = "whole" /\ r = [doc[d] EXCEPT !.updates = @ + 1]
         \/ /\ UNCHANGED <<removed, torn, accepted>> /\ docFaults' = docFaults + 1
            /\ doc[d].meta = "whole" /\ r.meta = "broken"
         \/ UNCHANGED <<accepted, torn>> /\ removed' = removed \cup {d} /\ r.meta = "none"
         \/ /\ UNCHANGED <<accepted, removed>> /\ torn' = torn \cup {d}
            /\ r.meta \in {"none", doc[d].meta} /\ r.updates = doc[d].updates
  PROVE  DocInv'
<1>1. /\ \A u \in Docs : doc'[u] = IF u = d THEN r ELSE doc[u]
      /\ docFaults' \in Nat /\ docFaults' >= docFaults
      /\ DocShape'
  BY DEF DocInv, DocShape, DocRecords
<1>2. \A c \in Calls, u \in Docs : Uploads(c, u)' <=> Uploads(c, u)
  BY DEF Uploads, UploadsSame
<1>3. \E c \in Calls : Uploads(c, d)
  BY DEF DocInv, MintedOnce, TheDocuments!Unused, TheDocuments!Scopes, TheDocuments!Temp
<1>4. MintedOnce'
  <2>1. \A u \in Docs : u # d => doc'[u] = doc[u] /\ accepted'[u] = accepted[u] /\ (u \in removed' \cup torn' <=> u \in removed \cup torn)
    BY <1>1 DEF DocInv, DocShape
  <2>2. QED BY <2>1, <1>2, <1>3 DEF DocInv, MintedOnce
<1>5. WholeIsTrue'
  BY <1>1 DEF DocInv, DocShape, DocRecords, WholeIsTrue
<1>6. UploadsAreKept'
  BY <1>1, <1>2 DEF DocInv, DocShape, DocRecords, UploadsAreKept, Kept, UploadsSame, Uploads, Unanswered
<1>7. QED BY <1>1, <1>4, <1>5, <1>6 DEF DocInv

LEMMA CallAnswered ==
  ASSUME NEW c \in Calls, NEW op \in Ops, NEW d \in Docs \cup {"none"}, NEW reply \in Replies,
         TheDocuments!Answered(c, op, d, reply)
  PROVE  /\ call[c].at = "new"
         /\ \E r \in CallRecords : /\ call' = [call EXCEPT ![c] = r]
                                  /\ r.op = op /\ r.of = d /\ r.rest = {} /\ r.at = "done" /\ r.reply = reply
<1> DEFINE r == [TheDocuments!Idle EXCEPT !.op = op, !.of = d, !.at = "done", !.reply = reply]
<1>1. r \in CallRecords /\ r.op = op /\ r.of = d /\ r.rest = {} /\ r.at = "done" /\ r.reply = reply
  BY DEF TheDocuments!Idle, CallRecords, Ops, Ats, Replies
<1>2. call[c].at = "new" /\ call' = [call EXCEPT ![c] = r]
  BY DEF TheDocuments!Answered
<1>3. QED BY <1>1, <1>2

LEMMA CallBegun ==
  ASSUME NEW c \in Calls, NEW op \in Ops, NEW d \in Docs, TheDocuments!Begun(c, op, d)
  PROVE  /\ call[c].at = "new"
         /\ \E r \in CallRecords : /\ call' = [call EXCEPT ![c] = r]
                                  /\ r.op = op /\ r.of = d /\ r.rest = {} /\ r.at = "row" /\ r.reply = "none"
<1> DEFINE r == [TheDocuments!Idle EXCEPT !.op = op, !.of = d, !.at = "row"]
<1>1. r \in CallRecords /\ r.op = op /\ r.of = d /\ r.rest = {} /\ r.at = "row" /\ r.reply = "none"
  BY DEF TheDocuments!Idle, CallRecords, Ops, Ats, Replies
<1>2. call[c].at = "new" /\ call' = [call EXCEPT ![c] = r]
  BY DEF TheDocuments!Begun
<1>3. QED BY <1>1, <1>2

(* When the process ends, requests keep what they are for and what they    *)
(* answered.                                                               *)
LEMMA CallsAreLost ==
  ASSUME DocInv
  PROVE  \A c \in Calls :
           /\ TheDocuments!Lost[c] \in CallRecords
           /\ TheDocuments!Lost[c].op = call[c].op /\ TheDocuments!Lost[c].of = call[c].of
           /\ TheDocuments!Lost[c].rest = call[c].rest /\ TheDocuments!Lost[c].reply = call[c].reply
           /\ TheDocuments!Lost[c].at \in {call[c].at, "done"}
           /\ TheDocuments!Lost[c].at = "new" <=> call[c].at = "new"
<1> SUFFICES ASSUME NEW c \in Calls
             PROVE  LET l == IF call[c].at \in {"new", "done"} THEN call[c] ELSE [call[c] EXCEPT !.at = "done"] IN
                    /\ l \in CallRecords /\ l.op = call[c].op /\ l.of = call[c].of /\ l.rest = call[c].rest
                    /\ l.reply = call[c].reply /\ l.at \in {call[c].at, "done"} /\ (l.at = "new" <=> call[c].at = "new")
  BY DEF TheDocuments!Lost
<1>1. call[c] \in CallRecords
  BY DEF DocInv, CallShape
<1> DEFINE e == [call[c] EXCEPT !.at = "done"]
<1>2. e \in CallRecords /\ e.op = call[c].op /\ e.of = call[c].of /\ e.rest = call[c].rest
      /\ e.reply = call[c].reply /\ e.at = "done"
  BY <1>1 DEF CallRecords, Ops, Ats, Replies
<1> HIDE DEF e
<1>3. QED BY <1>1, <1>2 DEF e

LEMMA CallKilled ==
  ASSUME DocInv, NEW c \in Calls, NEW op \in Ops, NEW d \in Docs, TheDocuments!Killed(c, op, d)
  PROVE  /\ call[c].at = "new" /\ call' \in [Calls -> CallRecords] /\ docFaults' = docFaults + 1
         /\ call'[c].op = op /\ call'[c].of = d /\ call'[c].rest = {} /\ Unanswered(c)'
         /\ \A b \in Calls \ {c} : /\ call'[b].op = call[b].op /\ call'[b].of = call[b].of
                                   /\ call'[b].rest = call[b].rest /\ call'[b].reply = call[b].reply
                                   /\ call'[b].at \in {call[b].at, "done"}
                                   /\ call'[b].at = "new" <=> call[b].at = "new"
<1> DEFINE r == [TheDocuments!Idle EXCEPT !.op = op, !.of = d, !.at = "done"]
<1>1. r \in CallRecords /\ r.op = op /\ r.of = d /\ r.rest = {} /\ r.at = "done" /\ r.reply = "none"
  BY DEF TheDocuments!Idle, CallRecords, Ops, Ats, Replies
<1>2. /\ call[c].at = "new" /\ docFaults' = docFaults + 1
      /\ call' = [b \in Calls |-> IF b = c THEN r ELSE TheDocuments!Lost[b]]
  BY DEF TheDocuments!Killed, TheDocuments!Fault, TheDocuments!Lost
<1> HIDE DEF r
<1>3. QED BY <1>1, <1>2, CallsAreLost DEF Unanswered

LEMMA OtherKilled ==
  ASSUME DocInv, NEW c \in Calls, NEW op \in Ops \ {"upload", "link"}, NEW d \in Docs, TheDocuments!Killed(c, op, d)
  PROVE  CallShape' /\ UploadsSame
<1>1. ~ Uploading(c) /\ ~ Uploading(c)'
  BY CallKilled DEF DocInv, CallShape, Uploading
<1>2. QED BY <1>1, CallKilled DEF DocInv, CallShape, Uploading, UploadsSame, Unanswered

(* An upload of an id that no upload has, refused or not.                  *)
LEMMA DocumentComes ==
  ASSUME DocInv, NEW c \in Calls, NEW d \in Docs, NEW s \in TheDocuments!Scopes,
         TheDocuments!upload_document(c, d, s) \/ TheDocuments!upload_url(c, d, s)
  PROVE  DocInv'
<1>1. PICK op \in {"upload", "link"} :
        /\ \/ TheDocuments!Answered(c, op, d, "500") /\ UNCHANGED <<doc, docFaults>>
           \/ /\ TheDocuments!Answered(c, op, d, "500") \/ TheDocuments!Killed(c, op, d)
              /\ docFaults' = docFaults + 1
              /\ \E r \in DocRecords : doc' = [doc EXCEPT ![d] = r] /\ r.meta # "whole"
           \/ /\ TheDocuments!Begun(c, op, d) /\ UNCHANGED docFaults
              /\ \E r \in DocRecords : doc' = [doc EXCEPT ![d] = r] /\ r.meta = "whole" /\ r.file /\ r.updates = 0
        /\ UNCHANGED <<accepted, removed, torn>>
  <2>1. ASSUME NEW meta \in {"none", "broken"}
        PROVE  /\ [TheDocuments!Unused EXCEPT !.scope = s, !.meta = meta, !.file = TRUE] \in DocRecords
               /\ [TheDocuments!Unused EXCEPT !.scope = s, !.meta = meta, !.file = TRUE].meta # "whole"
               /\ [TheDocuments!Unused EXCEPT !.scope = s, !.meta = meta] \in DocRecords
               /\ [TheDocuments!Unused EXCEPT !.scope = s, !.meta = meta].meta # "whole"
               /\ \A file \in BOOLEAN : LET r == [TheDocuments!Unused EXCEPT !.scope = s, !.meta = meta, !.file = file]
                                        IN  r \in DocRecords /\ r.meta # "whole"
    BY DEF TheDocuments!Unused, DocRecords
  <2>2. ASSUME NEW text \in BOOLEAN
        PROVE  LET r == [scope |-> s, file |-> TRUE, meta |-> "whole", text |-> text, updates |-> 0]
               IN  r \in DocRecords /\ r.meta = "whole" /\ r.file /\ r.updates = 0
    BY DEF DocRecords
  <2>k. ASSUME NEW op \in {"upload", "link"}, TheDocuments!UploadKilled(c, op, d, s)
        PROVE  /\ TheDocuments!Killed(c, op, d) /\ docFaults' = docFaults + 1 /\ accepted' = accepted
               /\ \E r \in DocRecords : doc' = [doc EXCEPT ![d] = r] /\ r.meta # "whole"
    BY <2>1, <2>k DEF TheDocuments!UploadKilled, TheDocuments!Killed, TheDocuments!Fault
  <2>3. CASE TheDocuments!upload_document(c, d, s)
    BY <2>1, <2>2, <2>3, <2>k DEF TheDocuments!upload_document, TheDocuments!Fault
  <2>4. CASE TheDocuments!upload_url(c, d, s)
    BY <2>1, <2>2, <2>4, <2>k DEF TheDocuments!upload_url, TheDocuments!Fault
  <2>5. QED BY <2>3, <2>4
<1>2. call[c].at = "new" /\ \A b \in Calls : ~ Uploads(b, d)
  BY DEF TheDocuments!upload_document, TheDocuments!upload_url, TheDocuments!Fresh, TheDocuments!Answered,
         TheDocuments!Begun, TheDocuments!UploadKilled, TheDocuments!Killed, Uploads, Uploading
<1>3. doc[d] = TheDocuments!Unused /\ accepted[d] = 0 /\ d \notin removed \cup torn
  BY <1>2 DEF DocInv, MintedOnce
<1>m. doc[d].meta = "none" /\ doc \in [Docs -> DocRecords] /\ op \in Ops /\ "500" \in Replies
  <2>1. doc[d].meta = "none" /\ doc \in [Docs -> DocRecords]
    BY <1>3 DEF TheDocuments!Unused, DocInv, DocShape
  <2>2. op \in Ops /\ "500" \in Replies
    BY DEF Ops, Replies
  <2>3. QED BY <2>1, <2>2
<1>4. ASSUME NEW r \in CallRecords, call' = [call EXCEPT ![c] = r], r.op = op, r.of = d, r.rest = {}, r.at # "new",
             r.at # "done" => r.reply = "none"
      PROVE  /\ call' \in [Calls -> CallRecords] /\ call'[c] = r
             /\ \A b \in Calls \ {c} : call'[b] = call[b]
  BY <1>4 DEF DocInv, CallShape
<1>5. /\ call' \in [Calls -> CallRecords]
      /\ call'[c].op = op /\ call'[c].of = d /\ call'[c].rest = {} /\ call'[c].at # "new"
      /\ call'[c].at # "done" => call'[c].reply = "none"
      /\ Unanswered(c)' \/ (call'[c].reply = "500" <=> doc'[d].meta # "whole")
      /\ call'[c].reply = "500" => doc'[d].meta # "whole"
      /\ \A b \in Calls \ {c} : /\ call'[b].op = call[b].op /\ call'[b].of = call[b].of
                                /\ call'[b].rest = call[b].rest /\ call'[b].reply = call[b].reply
                                /\ call'[b].at \in {call[b].at, "done"}
                                /\ call'[b].at = "new" <=> call[b].at = "new"
  <2>1. CASE TheDocuments!Answered(c, op, d, "500") /\ doc'[d].meta # "whole"
    <3>1. PICK r \in CallRecords : /\ call' = [call EXCEPT ![c] = r]
                                   /\ r.op = op /\ r.of = d /\ r.rest = {} /\ r.at = "done" /\ r.reply = "500"
      BY <1>m, <2>1, CallAnswered
    <3>2. QED BY <1>4, <2>1, <3>1
  <2>2. CASE TheDocuments!Begun(c, op, d) /\ doc'[d].meta = "whole"
    <3>1. PICK r \in CallRecords : /\ call' = [call EXCEPT ![c] = r]
                                   /\ r.op = op /\ r.of = d /\ r.rest = {} /\ r.at = "row" /\ r.reply = "none"
      BY <1>m, <2>2, CallBegun
    <3>2. QED BY <1>4, <2>2, <3>1
  <2>3. CASE TheDocuments!Killed(c, op, d)
    BY <1>m, <2>3, CallKilled DEF Unanswered
  <2>4. QED BY <1>1, <1>m, <2>1, <2>2, <2>3
<1>6. CallShape'
  BY <1>5 DEF DocInv, CallShape, Uploading
<1>7. /\ DocShape'
      /\ \A u \in Docs : u # d => doc'[u] = doc[u]
      /\ docFaults' >= docFaults
      /\ doc'[d].meta = "whole" => doc'[d].file /\ doc'[d].updates = 0
  BY <1>1, <1>3 DEF DocInv, DocShape, TheDocuments!Unused
<1>8. ~ Uploading(c)
  BY <1>2 DEF DocInv, CallShape
<1>9. MintedOnce'
  BY <1>1, <1>2, <1>5, <1>7, <1>8 DEF DocInv, MintedOnce, Uploads, Uploading
<1>10. WholeIsTrue'
  BY <1>1, <1>3, <1>7 DEF DocInv, DocShape, WholeIsTrue
<1>11. UploadsAreKept'
  <2>1. \A b \in Calls, u \in Docs : Uploads(b, u)' <=> IF b = c THEN u = d ELSE Uploads(b, u)
    BY <1>1, <1>5 DEF Uploads, Uploading
  <2>2. \A b \in Calls \ {c} : Unanswered(b) => Unanswered(b)'
    BY <1>5 DEF Unanswered
  <2>3. \A u \in Docs : u # d => (Kept(u) => Kept(u)') /\ doc'[u].meta = doc[u].meta
    BY <1>1, <1>7 DEF Kept, DocInv, DocShape
  <2>4. ~ Unanswered(c)' => IF call'[c].reply = "500" THEN doc'[d].meta # "whole" ELSE Kept(d)'
    BY <1>5 DEF Kept, Unanswered
  <2>5. \A b \in Calls \ {c}, u \in Docs : Uploads(b, u) => u # d
    BY <1>2
  <2>6. QED BY <1>5, <2>1, <2>2, <2>3, <2>4, <2>5 DEF DocInv, UploadsAreKept
<1>12. QED BY <1>6, <1>7, <1>9, <1>10, <1>11 DEF DocInv

(* Requests that answer at once, or begin to index, and upload nothing.    *)
LEMMA RequestComes ==
  ASSUME DocInv, NEW c \in Calls, NEW r \in CallRecords, call[c].at = "new",
         call' = [call EXCEPT ![c] = r], r.op \notin {"upload", "link"}, r.at # "done" => r.reply = "none"
  PROVE  CallShape' /\ UploadsSame
  BY DEF DocInv, CallShape, UploadsSame, Uploading, Unanswered

(* Requests that go on with an index.                                      *)
LEMMA IndexGoesOn ==
  ASSUME DocInv, NEW c \in Calls,
         \/ TheDocuments!add_document(c) \/ TheDocuments!add_document_chunks(c)
         \/ TheDocuments!index_document(c) \/ TheDocuments!index_all_documents(c)
  PROVE  DocInv'
<1>1. PICK r \in CallRecords :
        /\ call' = [call EXCEPT ![c] = r] /\ r.op = call[c].op /\ r.at # "new"
        /\ r.at # "done" => r.reply = "none"
        /\ Uploading(c) => r.of = call[c].of /\ r.rest = {} /\ (r.reply = "500" <=> call[c].reply = "500")
  <2>1. call[c] \in CallRecords
    BY DEF DocInv, CallShape
  <2>2. ASSUME NEW at \in Ats PROVE [call[c] EXCEPT !.at = at] \in CallRecords
    BY <2>1 DEF CallRecords, Ops, Ats, Replies
  <2>3. CASE TheDocuments!add_document(c) \/ TheDocuments!add_document_chunks(c)
    <3>1. PICK at \in {"chunks", "answer"} : call' = [call EXCEPT ![c] = [call[c] EXCEPT !.at = at]]
      BY <2>3 DEF TheDocuments!add_document, TheDocuments!add_document_chunks
    <3>2. call[c].reply = "none"
      BY <2>3 DEF TheDocuments!add_document, TheDocuments!add_document_chunks, DocInv, CallShape
    <3> DEFINE r == [call[c] EXCEPT !.at = at]
    <3>3. r \in CallRecords /\ r.op = call[c].op /\ r.of = call[c].of /\ r.rest = call[c].rest /\ r.reply = "none"
          /\ r.at = at
      BY <2>1, <2>2, <3>2 DEF CallRecords, Ats
    <3>4. QED BY <3>1, <3>2, <3>3 DEF DocInv, CallShape
  <2>4. CASE TheDocuments!index_document(c)
    <3>1. PICK reply \in {"200", "500"} :
            /\ call' = [call EXCEPT ![c] = [call[c] EXCEPT !.at = "done", !.reply = reply]]
            /\ call[c].op # "reindex" => reply = "200"
      BY <2>4 DEF TheDocuments!index_document
    <3>2. call[c].reply # "500"
      BY <2>4 DEF DocInv, CallShape, TheDocuments!index_document
    <3> DEFINE r == [call[c] EXCEPT !.at = "done", !.reply = reply]
    <3>3. r \in CallRecords /\ r.op = call[c].op /\ r.of = call[c].of /\ r.rest = call[c].rest /\ r.reply = reply
          /\ r.at = "done"
      BY <2>1 DEF CallRecords, Ats, Replies
    <3>4. QED BY <3>1, <3>2, <3>3 DEF DocInv, CallShape, Uploading
  <2>5. CASE TheDocuments!index_all_documents(c)
    <3>1. PICK d \in call[c].rest :
            call' = [call EXCEPT ![c] = [call[c] EXCEPT !.of = d, !.rest = @ \ {d}, !.at = "row"]]
      BY <2>5 DEF TheDocuments!index_all_documents
    <3>2. ~ Uploading(c) /\ d \in Docs
      BY <2>1, <3>1 DEF DocInv, CallShape, CallRecords, Ops, Ats, Replies
    <3>3. call[c].reply = "none"
      BY <2>5 DEF TheDocuments!index_all_documents, DocInv, CallShape
    <3> DEFINE r == [call[c] EXCEPT !.of = d, !.rest = @ \ {d}, !.at = "row"]
    <3>4. r \in CallRecords /\ r.op = call[c].op /\ r.reply = "none" /\ r.at = "row"
      BY <2>1, <3>2, <3>3 DEF CallRecords, Ats
    <3>5. QED BY <3>1, <3>2, <3>4
  <2>6. QED BY <2>3, <2>4, <2>5
<1>u. ~ Unanswered(c)
  BY DEF TheDocuments!add_document, TheDocuments!add_document_chunks, TheDocuments!index_document,
         TheDocuments!index_all_documents, Unanswered
<1>2. CallShape' /\ UploadsSame
  BY <1>1, <1>u, SMTT(30) DEF DocInv, CallShape, UploadsSame, Uploading, Unanswered
<1>3. UNCHANGED <<doc, accepted, removed, torn>> /\ (docFaults' = docFaults \/ docFaults' = docFaults + 1)
  BY DEF TheDocuments!add_document, TheDocuments!add_document_chunks, TheDocuments!index_document,
         TheDocuments!index_all_documents, TheDocuments!Fault
<1>4. docFaults' \in Nat /\ docFaults' >= docFaults
  BY <1>3 DEF DocInv, DocShape
<1>5. QED BY <1>2, <1>3, <1>4, DocumentsLeft

LEMMA DocumentIsRead ==
  ASSUME DocInv, NEW c \in Calls,
         \/ \E d \in Docs, s \in TheDocuments!Scopes :
              TheDocuments!get_document(c, d, s) \/ TheDocuments!reindex_document(c, d, s)
         \/ \E s \in TheDocuments!Scopes : TheDocuments!reindex_knowledge_base(c, s)
  PROVE  DocInv'
<1>1. UNCHANGED <<doc, accepted, removed, torn, docFaults>>
  BY DEF TheDocuments!get_document, TheDocuments!reindex_document, TheDocuments!reindex_knowledge_base
<1>2. call[c].at = "new" /\ \E r \in CallRecords : call' = [call EXCEPT ![c] = r] /\ r.op \notin {"upload", "link"}
                                               /\ (r.at # "done" => r.reply = "none")
  <2>1. ASSUME NEW d \in Docs, NEW s \in TheDocuments!Scopes,
               TheDocuments!get_document(c, d, s) \/ TheDocuments!reindex_document(c, d, s)
        PROVE  \E op \in {"get", "reindex"} :
                 TheDocuments!Begun(c, op, d) \/ \E reply \in {"200", "404"} : TheDocuments!Answered(c, op, d, reply)
    BY <2>1 DEF TheDocuments!get_document, TheDocuments!reindex_document
  <2>2. ASSUME NEW s \in TheDocuments!Scopes, TheDocuments!reindex_knowledge_base(c, s),
               ~ TheDocuments!Answered(c, "reindex all", "none", "200")
        PROVE  /\ call[c].at = "new"
               /\ \E d \in Docs, rest \in SUBSET Docs :
                    call' = [call EXCEPT ![c] = [TheDocuments!Idle EXCEPT !.op = "reindex all", !.of = d, !.rest = rest,
                                                                          !.at = "row"]]
    BY <2>2 DEF TheDocuments!reindex_knowledge_base, TheDocuments!get_documents
  <2>3. ASSUME NEW d \in Docs, NEW rest \in SUBSET Docs
        PROVE  LET r == [TheDocuments!Idle EXCEPT !.op = "reindex all", !.of = d, !.rest = rest, !.at = "row"]
               IN  r \in CallRecords /\ r.op = "reindex all" /\ r.reply = "none"
    BY DEF TheDocuments!Idle, CallRecords, Ops, Ats, Replies
  <2>4. ASSUME NEW op \in Ops \ {"upload", "link"}, NEW d \in Docs \cup {"none"}, NEW reply \in Replies,
               TheDocuments!Answered(c, op, d, reply)
        PROVE  call[c].at = "new" /\ \E r \in CallRecords : call' = [call EXCEPT ![c] = r] /\ r.op \notin {"upload", "link"}
                                                            /\ (r.at # "done" => r.reply = "none")
    BY <2>4, CallAnswered
  <2>5. ASSUME NEW op \in Ops \ {"upload", "link"}, NEW d \in Docs, TheDocuments!Begun(c, op, d)
        PROVE  call[c].at = "new" /\ \E r \in CallRecords : call' = [call EXCEPT ![c] = r] /\ r.op \notin {"upload", "link"}
                                                            /\ (r.at # "done" => r.reply = "none")
    BY <2>5, CallBegun
  <2>6. CASE \E d \in Docs, s \in TheDocuments!Scopes :
               TheDocuments!get_document(c, d, s) \/ TheDocuments!reindex_document(c, d, s)
    <3>1. PICK d \in Docs, s \in TheDocuments!Scopes :
            TheDocuments!get_document(c, d, s) \/ TheDocuments!reindex_document(c, d, s)
      BY <2>6
    <3>2. PICK op \in {"get", "reindex"} :
            TheDocuments!Begun(c, op, d) \/ \E reply \in {"200", "404"} : TheDocuments!Answered(c, op, d, reply)
      BY <2>1, <3>1
    <3>3. op \in Ops \ {"upload", "link"} /\ {"200", "404"} \subseteq Replies
      BY DEF Ops, Replies
    <3>4. QED BY <2>4, <2>5, <3>2, <3>3
  <2>7. CASE \E s \in TheDocuments!Scopes : TheDocuments!reindex_knowledge_base(c, s)
    BY <2>2, <2>3, <2>4, <2>7 DEF Ops, Replies
  <2>8. QED BY <2>6, <2>7
<1>3. CallShape' /\ UploadsSame
  BY <1>2, RequestComes
<1>4. QED BY <1>1, <1>3, DocumentsLeft DEF DocInv, DocShape

LEMMA OtherRequest ==
  ASSUME DocInv, NEW c \in Calls, NEW d \in Docs, NEW op \in {"update", "delete"},
         \/ TheDocuments!Killed(c, op, d)
         \/ \E reply \in {"200", "404", "500"} : TheDocuments!Answered(c, op, d, reply)
  PROVE  CallShape' /\ UploadsSame
<1>1. op \in Ops \ {"upload", "link"} /\ {"200", "404", "500"} \subseteq Replies
  BY DEF Ops, Replies
<1>2. CASE \E reply \in {"200", "404", "500"} : TheDocuments!Answered(c, op, d, reply)
  <2>1. call[c].at = "new" /\ \E r \in CallRecords : call' = [call EXCEPT ![c] = r] /\ r.op = op /\ r.at = "done"
    BY <1>1, <1>2, CallAnswered
  <2>2. QED BY <1>1, <2>1, RequestComes
<1>3. QED BY <1>1, <1>2, OtherKilled

LEMMA DocumentIsUpdated ==
  ASSUME DocInv, NEW c \in Calls, NEW d \in Docs, NEW s \in TheDocuments!Scopes, TheDocuments!update_document(c, d, s)
  PROVE  DocInv'
<1>1. /\ \/ TheDocuments!Killed(c, "update", d)
         \/ \E reply \in {"200", "404", "500"} : TheDocuments!Answered(c, "update", d, reply)
      /\ UNCHANGED <<removed, torn>>
  BY DEF TheDocuments!update_document
<1>2. CallShape' /\ UploadsSame
  BY <1>1, OtherRequest
<1>3. CASE ~ TheDocuments!get_document_metadata(d, s)
  BY <1>1, <1>2, <1>3, DocumentsLeft DEF TheDocuments!update_document, DocInv, DocShape
<1>4. CASE TheDocuments!get_document_metadata(d, s)
  <2>1. doc[d].scope = s /\ doc[d].meta = "whole" /\ doc[d] \in DocRecords
    BY <1>4 DEF TheDocuments!get_document_metadata, DocInv, DocShape
  <2>2. CASE doc' = [doc EXCEPT ![d].updates = @ + 1] /\ accepted' \in {accepted, [accepted EXCEPT ![d] = @ + 1]}
             /\ docFaults' \in {docFaults, docFaults + 1}
    <3> DEFINE r == [doc[d] EXCEPT !.updates = @ + 1]
    <3>1. r \in DocRecords /\ doc' = [doc EXCEPT ![d] = r] /\ r.scope = doc[d].scope
      BY <2>1, <2>2 DEF DocRecords
    <3>2. QED BY <1>1, <1>2, <2>1, <2>2, <3>1, DocumentChanges
  <2>3. CASE doc' = [doc EXCEPT ![d].meta = "broken"] /\ docFaults' = docFaults + 1 /\ UNCHANGED accepted
    <3> DEFINE r == [doc[d] EXCEPT !.meta = "broken"]
    <3>1. r \in DocRecords /\ doc' = [doc EXCEPT ![d] = r] /\ r.scope = doc[d].scope /\ r.meta = "broken"
      BY <2>1, <2>3 DEF DocRecords
    <3>2. QED BY <1>1, <1>2, <2>1, <2>3, <3>1, DocumentChanges
  <2>4. QED BY <1>4, <2>2, <2>3 DEF TheDocuments!update_document, TheDocuments!Killed, TheDocuments!Fault,
            TheDocuments!Written
<1>5. QED BY <1>3, <1>4

LEMMA DocumentIsDeleted ==
  ASSUME DocInv, NEW c \in Calls, NEW d \in Docs, NEW s \in TheDocuments!Scopes, TheDocuments!delete_document(c, d, s)
  PROVE  DocInv'
<1>1. /\ \/ TheDocuments!Killed(c, "delete", d)
         \/ \E reply \in {"200", "404", "500"} : TheDocuments!Answered(c, "delete", d, reply)
      /\ UNCHANGED accepted
  BY DEF TheDocuments!delete_document
<1>2. CallShape' /\ UploadsSame
  BY <1>1, OtherRequest
<1>d. doc[d] \in DocRecords
  BY DEF DocInv, DocShape
<1>3. CASE UNCHANGED <<doc, removed, torn, docFaults>>
  BY <1>1, <1>2, <1>3, DocumentsLeft DEF DocInv, DocShape
<1>4. CASE /\ doc[d].scope = s /\ doc' = [doc EXCEPT ![d].file = FALSE, ![d].meta = "none"]
           /\ UNCHANGED <<torn, docFaults>> /\ removed' = removed \cup {d}
  <2> DEFINE r == [doc[d] EXCEPT !.file = FALSE, !.meta = "none"]
  <2>1. r \in DocRecords /\ doc' = [doc EXCEPT ![d] = r] /\ r.scope = doc[d].scope /\ r.meta = "none"
    BY <1>4, <1>d DEF DocRecords
  <2>2. QED BY <1>1, <1>2, <1>4, <2>1, DocumentChanges
<1>5. CASE /\ doc[d].scope = s /\ UNCHANGED removed /\ torn' = torn \cup {d} /\ docFaults' = docFaults + 1
           /\ \E file \in {FALSE, doc[d].file}, meta \in {"none", doc[d].meta} :
                doc' = [doc EXCEPT ![d].file = file, ![d].meta = meta]
  <2>1. PICK file \in {FALSE, doc[d].file}, meta \in {"none", doc[d].meta} :
          doc' = [doc EXCEPT ![d].file = file, ![d].meta = meta]
    BY <1>5
  <2> DEFINE r == [doc[d] EXCEPT !.file = file, !.meta = meta]
  <2>2. r \in DocRecords /\ doc' = [doc EXCEPT ![d] = r] /\ r.scope = doc[d].scope
        /\ r.meta \in {"none", doc[d].meta} /\ r.updates = doc[d].updates
    BY <1>d, <2>1 DEF DocRecords
  <2>3. QED BY <1>1, <1>2, <1>5, <2>2, DocumentChanges
<1>6. QED BY <1>3, <1>4, <1>5 DEF TheDocuments!delete_document, TheDocuments!Killed, TheDocuments!Fault

LEMMA RequestsOnDocuments ==
  ASSUME DocInv, NEW c \in Calls, NEW d \in Docs,
         TheDocuments!OrganizationRequest(c, d) \/ TheDocuments!TeamRequest(c, d) \/ TheDocuments!AgentRequest(c, d)
  PROVE  DocInv'
<1>1. ASSUME NEW o \in Organizations,
             \/ TheDocuments!upload_organization_document(c, d, o) \/ TheDocuments!add_organization_url(c, d, o)
             \/ TheDocuments!get_organization_document(c, d, o) \/ TheDocuments!get_organization_document_content(c, d, o)
             \/ TheDocuments!update_organization_document(c, d, o) \/ TheDocuments!delete_organization_document(c, d, o)
      PROVE  DocInv'
  <2>1. <<"organizations", o>> \in TheDocuments!Scopes
    BY DEF TheDocuments!Scopes
  <2>2. QED BY <1>1, <2>1, DocumentComes, DocumentIsRead, DocumentIsUpdated, DocumentIsDeleted
            DEF TheDocuments!upload_organization_document, TheDocuments!add_organization_url,
                TheDocuments!get_organization_document, TheDocuments!get_organization_document_content,
                TheDocuments!update_organization_document, TheDocuments!delete_organization_document
<1>2. ASSUME NEW t \in Teams,
             \/ TheDocuments!upload_team_document(c, d, t) \/ TheDocuments!add_team_url(c, d, t)
             \/ TheDocuments!get_team_document(c, d, t) \/ TheDocuments!get_team_document_content(c, d, t)
             \/ TheDocuments!update_team_document(c, d, t) \/ TheDocuments!delete_team_document(c, d, t)
      PROVE  DocInv'
  <2>1. <<"teams", t>> \in TheDocuments!Scopes
    BY DEF TheDocuments!Scopes
  <2>2. QED BY <1>2, <2>1, DocumentComes, DocumentIsRead, DocumentIsUpdated, DocumentIsDeleted
            DEF TheDocuments!upload_team_document, TheDocuments!add_team_url,
                TheDocuments!get_team_document, TheDocuments!get_team_document_content,
                TheDocuments!update_team_document, TheDocuments!delete_team_document
<1>3. ASSUME NEW a \in AgentIds,
             \/ TheDocuments!upload_agent_document(c, d, a) \/ TheDocuments!add_agent_url(c, d, a)
             \/ TheDocuments!get_agent_document(c, d, a) \/ TheDocuments!get_agent_document_content(c, d, a)
             \/ TheDocuments!update_agent_document(c, d, a) \/ TheDocuments!delete_agent_document(c, d, a)
      PROVE  DocInv'
  <2>1. <<"agents", a>> \in TheDocuments!Scopes
    BY DEF TheDocuments!Scopes
  <2>2. QED BY <1>3, <2>1, DocumentComes, DocumentIsRead, DocumentIsUpdated, DocumentIsDeleted
            DEF TheDocuments!upload_agent_document, TheDocuments!add_agent_url,
                TheDocuments!get_agent_document, TheDocuments!get_agent_document_content,
                TheDocuments!update_agent_document, TheDocuments!delete_agent_document
<1>4. QED BY <1>1, <1>2, <1>3 DEF TheDocuments!OrganizationRequest, TheDocuments!TeamRequest, TheDocuments!AgentRequest

LEMMA RestartOnDocuments ==
  ASSUME DocInv, TheDocuments!Restart PROVE DocInv'
<1>1. UNCHANGED <<doc, accepted, removed, torn>> /\ docFaults' = docFaults + 1 /\ call' = TheDocuments!Lost
  BY DEF TheDocuments!Restart, TheDocuments!Fault
<1>2. call' = [c \in Calls |-> TheDocuments!Lost[c]]
  BY <1>1 DEF TheDocuments!Lost
<1>3. CallShape' /\ UploadsSame
  BY <1>2, CallsAreLost DEF DocInv, CallShape, UploadsSame, Uploading, Unanswered
<1>4. QED BY <1>1, <1>3, DocumentsLeft DEF DocInv, DocShape

(* A scope lists what was uploaded to it and not deleted, with every       *)
(* update that was accepted, with its content unless a deletion of it has  *)
(* stopped on its way, and nothing that was refused, however requests,     *)
(* indexing and restarts interleave, whichever writes and removals raise   *)
(* and wherever among them the process is killed (knowledge_manager.py).   *)
THEOREM ListedIsTrue == TheDocuments!Spec => []CatalogueIsTrue
<1>1. TheDocuments!Init => DocInv
  BY DEF TheDocuments!Init, TheDocuments!Unused, TheDocuments!Idle, TheDocuments!Temp, DocInv, DocShape, CallShape,
         MintedOnce, WholeIsTrue, UploadsAreKept, Uploads, Uploading, DocRecords, CallRecords, Ops, Ats, Replies
<1>2. DocInv /\ [TheDocuments!Next]_(TheDocuments!vars) => DocInv'
  <2> SUFFICES ASSUME DocInv, [TheDocuments!Next]_(TheDocuments!vars) PROVE DocInv'
    OBVIOUS
  <2>1. CASE UNCHANGED TheDocuments!vars
    <3>1. UNCHANGED <<doc, accepted, removed, torn, call, docFaults>>
      BY <2>1 DEF TheDocuments!vars
    <3>2. CallShape' /\ UploadsSame
      BY <3>1 DEF DocInv, CallShape, UploadsSame, Uploading, Unanswered
    <3>3. QED BY <3>1, <3>2, DocumentsLeft DEF DocInv, DocShape
  <2>2. QED BY <2>1, RequestsOnDocuments, DocumentIsRead, IndexGoesOn, RestartOnDocuments DEF TheDocuments!Next
<1>3. DocInv => CatalogueIsTrue
  <2> SUFFICES ASSUME DocInv PROVE TheDocuments!CatalogueIsTrue
    BY DEF CatalogueIsTrue
  <2>1. \A d \in Docs, s \in TheDocuments!Scopes : d \in TheDocuments!get_documents(s) =>
          d \notin removed /\ (doc[d].file \/ d \in torn) /\ doc[d].updates >= accepted[d]
    BY DEF DocInv, WholeIsTrue, TheDocuments!get_documents, TheDocuments!get_document_metadata
  <2>2. ASSUME NEW c \in Calls, Uploading(c), call[c].reply # "none"
        PROVE  LET d == call[c].of IN
               IF call[c].reply = "500" THEN \A s \in TheDocuments!Scopes : d \notin TheDocuments!get_documents(s)
               ELSE d \in removed \cup torn \/ d \in TheDocuments!get_documents(doc[d].scope)
                    \/ (docFaults > 0 /\ doc[d].meta = "broken")
    <3>1. call[c].of \in Docs
      BY <2>2 DEF DocInv, CallShape
    <3>2. QED BY <2>2, <3>1 DEF DocInv, UploadsAreKept, Uploads, Kept, Unanswered, TheDocuments!get_documents,
              TheDocuments!get_document_metadata
  <2>3. QED BY <2>1, <2>2 DEF Uploading, TheDocuments!CatalogueIsTrue
<1>4. QED BY <1>1, <1>2, <1>3, PTL DEF TheDocuments!Spec

-----------------------------------------------------------------------------
(* The repository of a task.                                               *)

Untouched(commits) == \A e \in Execs : \A c \in commits : c.by # e

GitShape ==
  /\ DOMAIN branches = TheRepository!Branches /\ DOMAIN remote = TheRepository!Branches
  /\ DOMAIN worker = Execs /\ DOMAIN cleanup = Execs /\ DOMAIN feature = Execs
  /\ gitCancels = 0

Works(e) == worker[e] \notin {"new", "completed", "failed", "dropped"}

(* One execution works at a time, and no cleanup goes on beside it.        *)
OneWorks ==
  /\ \A e \in Execs : Works(e) =>
       \A f \in Execs \ {e} : worker[f] = "new" \/ (~ Works(f) /\ cleanup[f] \in {"none", "done"})
  /\ \A e \in Execs : Works(e) \/ worker[e] = "new" => cleanup[e] = "none"

(* What it commits goes to the branch that it has checked out.             *)
OnItsBranch ==
  \A e \in Execs :
    /\ worker[e] = "rebase" => head = TheRepository!Named
    /\ worker[e] \in {"ready", "add", "diff", "commit", "hash"} => head # TheRepository!Default
    /\ feature[e] # TheRepository!Default

Clean == Untouched(branches[TheRepository!Default]) /\ Untouched(remote[TheRepository!Default])

GitInv == GitShape /\ OneWorks /\ OnItsBranch /\ Clean

LEMMA BranchNames ==
  /\ TheRepository!Default \in TheRepository!Branches
  /\ TheRepository!Default # TheRepository!Named
  /\ \A e : TheRepository!Stamped(e) # TheRepository!Default
  /\ TheRepository!Default # TheRepository!NoBranch /\ TheRepository!Default # TheRepository!Detached
  BY DEF TheRepository!Default, TheRepository!Named, TheRepository!Stamped, TheRepository!Branches,
         TheRepository!NoBranch, TheRepository!Detached

(* A step of the execution that works, which leaves the others alone.      *)
LEMMA WorkerGoes ==
  ASSUME GitInv, NEW e \in Execs, Works(e), NEW pc, pc # "new", worker' = [worker EXCEPT ![e] = pc],
         \/ cleanup' = cleanup
         \/ TheRepository!Raises(e) /\ pc = "failed"
  PROVE  DOMAIN worker' = Execs /\ DOMAIN cleanup' = Execs /\ OneWorks'
<1>1. \A f \in Execs \ {e} : worker'[f] = worker[f] /\ cleanup'[f] = cleanup[f]
  BY DEF TheRepository!Raises, GitInv, GitShape
<1>2. worker'[e] = pc /\ (pc # "failed" => cleanup'[e] = cleanup[e])
  BY DEF GitInv, GitShape
<1>3. DOMAIN worker' = Execs /\ DOMAIN cleanup' = Execs
  BY DEF TheRepository!Raises, GitInv, GitShape
<1>4. \A f \in Execs \ {e} : worker[f] = "new" \/ (~ Works(f) /\ cleanup[f] \in {"none", "done"})
  BY DEF GitInv, OneWorks
<1>5. QED BY <1>1, <1>2, <1>3, <1>4 DEF GitInv, OneWorks, Works

LEMMA BranchGoes ==
  ASSUME GitInv, NEW e \in Execs, Works(e), NEW pc, worker' = [worker EXCEPT ![e] = pc],
         pc = "rebase" => head' = TheRepository!Named,
         pc \in {"ready", "add", "diff", "commit", "hash"} => head' # TheRepository!Default,
         \/ feature' = feature
         \/ \E b : b # TheRepository!Default /\ feature' = [feature EXCEPT ![e] = b]
  PROVE  DOMAIN feature' = Execs /\ OnItsBranch'
<1>1. \A f \in Execs \ {e} : worker'[f] = worker[f] /\ ~ Works(f)
  BY DEF GitInv, GitShape, OneWorks, Works
<1>2. worker'[e] = pc
  BY DEF GitInv, GitShape
<1>3. DOMAIN feature' = Execs /\ \A f \in Execs : feature'[f] # TheRepository!Default
  BY DEF GitInv, GitShape, OnItsBranch
<1>4. QED BY <1>1, <1>2, <1>3 DEF OnItsBranch, Works

(* A step that commits nothing to the default branch, here or at origin.   *)
LEMMA StepKeepsClean ==
  ASSUME GitInv,
         DOMAIN branches' = TheRepository!Branches, DOMAIN remote' = TheRepository!Branches,
         branches'[TheRepository!Default] \in {branches[TheRepository!Default], remote[TheRepository!Default]},
         remote'[TheRepository!Default] = remote[TheRepository!Default]
  PROVE  Clean'
  BY DEF GitInv, Clean, Untouched

LEMMA WorkspaceSetUp ==
  ASSUME GitInv, NEW e \in Execs, TheRepository!setup_workspace(e) PROVE GitInv'
<1>1. PICK pc \in {"fetch", "clone"} :
        /\ worker[e] = "new" /\ worker' = [worker EXCEPT ![e] = pc]
        /\ \A f \in Execs \ {e} : worker[f] = "new" \/ (~ Works(f) /\ cleanup[f] \in {"none", "done"})
        /\ UNCHANGED <<head, branches, remote, cleanup, feature, gitCancels>>
  BY DEF TheRepository!setup_workspace, TheRepository!At, TheRepository!Goes, TheRepository!Over, TheRepository!Ended,
         TheRepository!repoVars, TheRepository!execVars, Works
<1>2. /\ DOMAIN worker' = Execs /\ worker'[e] = pc
      /\ \A f \in Execs \ {e} : worker'[f] = worker[f]
  BY <1>1 DEF GitInv, GitShape
<1>3. GitShape' /\ Clean'
  BY <1>1, <1>2 DEF GitInv, GitShape, Clean, Untouched
<1>4. OneWorks'
  BY <1>1, <1>2 DEF GitInv, OneWorks, Works
<1>5. OnItsBranch'
  BY <1>1, <1>2 DEF GitInv, OnItsBranch, Works
<1>6. QED BY <1>3, <1>4, <1>5 DEF GitInv

LEMMA RepositoryCloned ==
  ASSUME GitInv, NEW e \in Execs, TheRepository!_clone_repository(e) PROVE GitInv'
<1>1. PICK pc \in {"list", "failed"} :
        /\ Works(e) /\ worker' = [worker EXCEPT ![e] = pc]
        /\ cleanup' = cleanup \/ (TheRepository!Raises(e) /\ pc = "failed")
  BY DEF TheRepository!_clone_repository, TheRepository!At, TheRepository!Goes, TheRepository!Raises, Works
<1>2. /\ UNCHANGED <<remote, feature, gitCancels>>
      /\ \/ UNCHANGED branches
         \/ branches' = [branches EXCEPT ![TheRepository!Default] = remote[TheRepository!Default]]
  BY DEF TheRepository!_clone_repository, TheRepository!execVars
<1>3. DOMAIN worker' = Execs /\ DOMAIN cleanup' = Execs /\ OneWorks'
  BY <1>1, WorkerGoes
<1>4. DOMAIN feature' = Execs /\ OnItsBranch'
  BY <1>1, <1>2, BranchGoes
<1>5. Clean' /\ GitShape'
  BY <1>2, <1>3, StepKeepsClean, BranchNames DEF GitInv, GitShape
<1>6. QED BY <1>3, <1>4, <1>5 DEF GitInv

LEMMA RepositoryUpdated ==
  ASSUME GitInv, NEW e \in Execs, TheRepository!_update_repository(e) PROVE GitInv'
<1>1. PICK pc \in {"checkout", "pull", "list", "failed"} :
        /\ Works(e) /\ worker' = [worker EXCEPT ![e] = pc]
        /\ cleanup' = cleanup \/ (TheRepository!Raises(e) /\ pc = "failed")
  BY DEF TheRepository!_update_repository, TheRepository!At, TheRepository!Goes, TheRepository!Raises, Works
<1>2. /\ UNCHANGED <<remote, feature, gitCancels>>
      /\ \/ UNCHANGED branches
         \/ branches' = [branches EXCEPT ![TheRepository!Default] = remote[TheRepository!Default]]
  BY DEF TheRepository!_update_repository, TheRepository!execVars
<1>3. DOMAIN worker' = Execs /\ DOMAIN cleanup' = Execs /\ OneWorks'
  BY <1>1, WorkerGoes
<1>4. DOMAIN feature' = Execs /\ OnItsBranch'
  BY <1>1, <1>2, BranchGoes
<1>5. Clean' /\ GitShape'
  BY <1>2, <1>3, StepKeepsClean, BranchNames DEF GitInv, GitShape
<1>6. QED BY <1>3, <1>4, <1>5 DEF GitInv

(* Rebasing or making a branch leaves the default branch alone, and the    *)
(* execution goes on only on the branch that it made or found.             *)
LEMMA FeatureBranchMade ==
  ASSUME GitInv, NEW e \in Execs, TheRepository!_create_feature_branch(e) PROVE GitInv'
<1>1. UNCHANGED <<remote, gitCancels>>
  BY DEF TheRepository!_create_feature_branch
<1>2. ASSUME NEW pc, Works(e), pc # "new", worker' = [worker EXCEPT ![e] = pc],
             cleanup' = cleanup \/ (TheRepository!Raises(e) /\ pc = "failed"),
             pc = "rebase" => head' = TheRepository!Named,
             pc \in {"ready", "add", "diff", "commit", "hash"} => head' # TheRepository!Default,
             \/ feature' = feature
             \/ \E b : b # TheRepository!Default /\ feature' = [feature EXCEPT ![e] = b],
             \/ branches' = branches
             \/ \E b, cs : b # TheRepository!Default /\ branches' = [branches EXCEPT ![b] = cs]
      PROVE  GitInv'
  <2>1. DOMAIN worker' = Execs /\ DOMAIN cleanup' = Execs /\ OneWorks'
    BY <1>2, WorkerGoes
  <2>2. DOMAIN feature' = Execs /\ OnItsBranch'
    BY <1>2, BranchGoes
  <2>3. DOMAIN branches' = TheRepository!Branches
        /\ branches'[TheRepository!Default] = branches[TheRepository!Default]
    BY <1>2, BranchNames DEF GitInv, GitShape
  <2>4. Clean' /\ GitShape'
    BY <1>1, <2>1, <2>2, <2>3, StepKeepsClean DEF GitInv, GitShape
  <2>5. QED BY <2>1, <2>2, <2>4 DEF GitInv
<1>3. CASE TheRepository!At(e, "list") /\ TheRepository!_create_feature_branch(e)
  BY <1>2, <1>3 DEF TheRepository!_create_feature_branch, TheRepository!At, TheRepository!Goes, Works
<1>4. CASE TheRepository!At(e, "create")
  BY <1>2, <1>4, BranchNames DEF TheRepository!_create_feature_branch, TheRepository!At, TheRepository!Goes, Works
<1>5. CASE TheRepository!At(e, "switch")
  BY <1>2, <1>5, BranchNames DEF TheRepository!_create_feature_branch, TheRepository!At, TheRepository!Goes, Works
<1>6. CASE TheRepository!At(e, "rebase")
  <2>1. head = TheRepository!Named
    BY <1>6 DEF TheRepository!At, GitInv, OnItsBranch
  <2>2. TheRepository!Rebase(e) /\ UNCHANGED cleanup
    BY <1>6 DEF TheRepository!_create_feature_branch, TheRepository!At
  <2>3. \/ /\ worker' = [worker EXCEPT ![e] = "ready"] /\ feature' = [feature EXCEPT ![e] = TheRepository!Named]
           /\ \E cs : branches' = [branches EXCEPT ![head] = cs]
           /\ UNCHANGED head
        \/ worker' = [worker EXCEPT ![e] = "fallback"] /\ UNCHANGED <<branches, feature>>
    BY <2>2 DEF TheRepository!Rebase, TheRepository!Goes
  <2>4. Works(e)
    BY <1>6 DEF TheRepository!At, Works
  <2>5. QED BY <1>2, <2>1, <2>2, <2>3, <2>4, BranchNames
<1>7. CASE TheRepository!At(e, "fallback")
  <2>1. TheRepository!Fallback(e)
    BY <1>7 DEF TheRepository!_create_feature_branch, TheRepository!At
  <2>2. \/ /\ worker' = [worker EXCEPT ![e] = "ready"] /\ head' = TheRepository!Stamped(e) /\ UNCHANGED cleanup
           /\ \E cs : branches' = [branches EXCEPT ![TheRepository!Stamped(e)] = cs]
           /\ feature' = [feature EXCEPT ![e] = TheRepository!Stamped(e)]
        \/ /\ TheRepository!Raises(e) /\ worker' = [worker EXCEPT ![e] = "failed"]
           /\ UNCHANGED <<branches, feature>>
    BY <2>1 DEF TheRepository!Fallback, TheRepository!Goes, TheRepository!Raises
  <2>3. Works(e)
    BY <1>7 DEF TheRepository!At, Works
  <2>4. QED BY <1>2, <2>2, <2>3, BranchNames
<1>8. QED BY <1>3, <1>4, <1>5, <1>6, <1>7 DEF TheRepository!_create_feature_branch, TheRepository!At

(* The iterations and their commits.                                       *)
LEMMA IterationGoes ==
  ASSUME GitInv, NEW e \in Execs, TheRepository!_step_execute_iteration(e) PROVE GitInv'
<1>1. PICK pc \in {"add", "failed"} :
        /\ Works(e) /\ worker' = [worker EXCEPT ![e] = pc]
        /\ cleanup' = cleanup \/ (TheRepository!Raises(e) /\ pc = "failed")
  BY DEF TheRepository!_step_execute_iteration, TheRepository!At, TheRepository!Goes, TheRepository!Raises, Works
<1>2. UNCHANGED <<head, branches, remote, feature, gitCancels>> /\ head # TheRepository!Default
  BY DEF TheRepository!_step_execute_iteration, TheRepository!At, GitInv, OnItsBranch
<1>3. DOMAIN worker' = Execs /\ DOMAIN cleanup' = Execs /\ OneWorks'
  BY <1>1, WorkerGoes
<1>4. DOMAIN feature' = Execs /\ OnItsBranch'
  BY <1>1, <1>2, BranchGoes
<1>5. Clean' /\ GitShape'
  BY <1>2, <1>3, StepKeepsClean DEF GitInv, GitShape
<1>6. QED BY <1>3, <1>4, <1>5 DEF GitInv

LEMMA ChangesCommitted ==
  ASSUME GitInv, NEW e \in Execs, TheRepository!commit_changes(e) PROVE GitInv'
<1>1. PICK pc \in {"ready", "diff", "commit", "hash", "failed"} :
        /\ Works(e) /\ worker' = [worker EXCEPT ![e] = pc]
        /\ cleanup' = cleanup \/ (TheRepository!Raises(e) /\ pc = "failed")
  BY DEF TheRepository!commit_changes, TheRepository!At, TheRepository!Goes, TheRepository!Raises, Works
<1>2. /\ UNCHANGED <<head, remote, feature, gitCancels>> /\ head # TheRepository!Default
      /\ branches' = branches \/ \E cs : branches' = [branches EXCEPT ![head] = cs]
  BY DEF TheRepository!commit_changes, TheRepository!At, GitInv, OnItsBranch
<1>3. DOMAIN worker' = Execs /\ DOMAIN cleanup' = Execs /\ OneWorks'
  BY <1>1, WorkerGoes
<1>4. DOMAIN feature' = Execs /\ OnItsBranch'
  BY <1>1, <1>2, BranchGoes
<1>5. DOMAIN branches' = TheRepository!Branches
      /\ branches'[TheRepository!Default] = branches[TheRepository!Default]
  BY <1>2, BranchNames DEF GitInv, GitShape
<1>6. Clean' /\ GitShape'
  BY <1>2, <1>3, <1>5, StepKeepsClean DEF GitInv, GitShape
<1>7. QED BY <1>3, <1>4, <1>6 DEF GitInv

(* The end of an execution pushes its own branch.                          *)
LEMMA TaskFinalized ==
  ASSUME GitInv, NEW e \in Execs,
         \/ TheRepository!_step_finalize_task(e) \/ TheRepository!push_branch(e)
         \/ TheRepository!create_pull_request(e) \/ TheRepository!_update_task_status(e)
  PROVE  GitInv'
<1>1. PICK pc \in {"push", "pull request", "record", "completed", "failed"} :
        /\ Works(e) /\ worker' = [worker EXCEPT ![e] = pc]
        /\ cleanup' = cleanup \/ (TheRepository!Raises(e) /\ pc = "failed")
  BY DEF TheRepository!_step_finalize_task, TheRepository!push_branch, TheRepository!create_pull_request,
         TheRepository!_update_task_status, TheRepository!At, TheRepository!Goes, TheRepository!Raises, Works
<1>2. /\ UNCHANGED <<head, branches, feature, gitCancels>>
      /\ remote' = remote \/ \E cs : remote' = [remote EXCEPT ![feature[e]] = cs]
  BY DEF TheRepository!_step_finalize_task, TheRepository!push_branch, TheRepository!create_pull_request,
         TheRepository!_update_task_status, TheRepository!repoVars, TheRepository!execVars
<1>3. DOMAIN worker' = Execs /\ DOMAIN cleanup' = Execs /\ OneWorks'
  BY <1>1, WorkerGoes
<1>4. DOMAIN feature' = Execs /\ OnItsBranch'
  BY <1>1, <1>2, BranchGoes
<1>5. DOMAIN remote' = TheRepository!Branches
      /\ remote'[TheRepository!Default] = remote[TheRepository!Default]
  BY <1>2, BranchNames DEF GitInv, GitShape, OnItsBranch
<1>6. Clean' /\ GitShape'
  BY <1>2, <1>3, <1>5, StepKeepsClean DEF GitInv, GitShape
<1>7. QED BY <1>3, <1>4, <1>6 DEF GitInv

(* A cleanup goes on while nobody works.                                   *)
LEMMA WorkspaceCleaned ==
  ASSUME GitInv, NEW e \in Execs, TheRepository!cleanup_workspace(e) PROVE GitInv'
<1>1. PICK pc \in {"delete", "unpush", "done"} :
        cleanup[e] \in {"checkout", "delete", "unpush"} /\ cleanup' = [cleanup EXCEPT ![e] = pc]
  BY DEF TheRepository!cleanup_workspace
<1>2. /\ UNCHANGED <<worker, feature, gitCancels>>
      /\ branches' = branches \/ \E cs : branches' = [branches EXCEPT ![feature[e]] = cs]
      /\ remote' = remote \/ \E cs : remote' = [remote EXCEPT ![feature[e]] = cs]
  BY DEF TheRepository!cleanup_workspace, TheRepository!execVars
<1>3. \A f \in Execs : ~ Works(f)
  BY <1>1 DEF GitInv, OneWorks
<1>4. OneWorks' /\ DOMAIN cleanup' = Execs
  <2>1. DOMAIN cleanup' = Execs /\ \A f \in Execs \ {e} : cleanup'[f] = cleanup[f]
    BY <1>1 DEF GitInv, GitShape
  <2>2. worker[e] # "new"
    BY <1>1 DEF GitInv, OneWorks
  <2>3. QED BY <1>2, <1>3, <2>1, <2>2 DEF GitInv, OneWorks, Works
<1>5. OnItsBranch'
  BY <1>2, <1>3 DEF GitInv, OnItsBranch, Works
<1>6. /\ DOMAIN remote' = TheRepository!Branches /\ DOMAIN branches' = TheRepository!Branches
      /\ remote'[TheRepository!Default] = remote[TheRepository!Default]
      /\ branches'[TheRepository!Default] = branches[TheRepository!Default]
  BY <1>2, BranchNames DEF GitInv, GitShape, OnItsBranch
<1>7. Clean' /\ GitShape'
  BY <1>2, <1>4, <1>6, StepKeepsClean DEF GitInv, GitShape
<1>8. QED BY <1>4, <1>5, <1>7 DEF GitInv

(* Others bring work of their own.                                         *)
LEMMA UpstreamComes ==
  ASSUME GitInv, TheRepository!GitAssumption, TheRepository!UpstreamMoves PROVE GitInv'
<1>1. /\ UNCHANGED <<head, branches, worker, cleanup, feature, gitCancels>>
      /\ \E n : remote' = [remote EXCEPT ![TheRepository!Default] = @ \cup {TheRepository!Commit(TheRepository!Upstream, n)}]
  BY DEF TheRepository!UpstreamMoves, TheRepository!repoVars, TheRepository!execVars
<1>2. \A n : \A f \in Execs : TheRepository!Commit(TheRepository!Upstream, n).by # f
  BY DEF TheRepository!Commit, TheRepository!GitAssumption
<1>3. GitShape'
  BY <1>1 DEF GitInv, GitShape
<1>4. Clean'
  BY <1>1, <1>2, BranchNames DEF GitInv, GitShape, Clean, Untouched
<1>5. OneWorks' /\ OnItsBranch'
  BY <1>1 DEF GitInv, OneWorks, OnItsBranch, Works
<1>6. QED BY <1>3, <1>4, <1>5 DEF GitInv

(* The work of an execution never gets on the default branch, whichever    *)
(* commands fail and in whatever state an earlier one left the workspace,  *)
(* as executions follow one another (git_workflow_manager.py).             *)
THEOREM DefaultStaysClean ==
  ASSUME TheRepository!GitAssumption PROVE TheRepository!Spec => []DefaultIsUntouched
<1>1. TheRepository!Init => GitInv
  <2> SUFFICES ASSUME TheRepository!Init PROVE GitInv
    OBVIOUS
  <2>1. GitShape /\ OneWorks
    BY DEF TheRepository!Init, GitShape, OneWorks, Works
  <2>2. OnItsBranch
    BY BranchNames DEF TheRepository!Init, OnItsBranch
  <2>3. branches[TheRepository!Default] = TheRepository!Missing /\ remote[TheRepository!Default] = {}
    BY BranchNames DEF TheRepository!Init
  <2>4. Untouched(TheRepository!Missing) /\ Untouched({})
    BY DEF Untouched, TheRepository!Missing, TheRepository!Commit, TheRepository!GitAssumption
  <2>5. QED BY <2>1, <2>2, <2>3, <2>4 DEF GitInv, Clean
<1>2. GitInv /\ [TheRepository!Next]_(TheRepository!vars) => GitInv'
  <2> SUFFICES ASSUME GitInv, [TheRepository!Next]_(TheRepository!vars) PROVE GitInv'
    OBVIOUS
  <2>1. CASE UNCHANGED TheRepository!vars
    BY <2>1 DEF TheRepository!vars, GitInv, GitShape, OneWorks, OnItsBranch, Clean, Untouched, Works
  <2>2. \A e \in Execs : ~ TheRepository!cancel_task_execution(e) /\ ~ TheRepository!Dropped(e)
    BY DEF TheRepository!cancel_task_execution, TheRepository!Dropped, TheRepository!At, GitInv, GitShape, OneWorks, Works
  <2>3. QED BY <2>1, <2>2, WorkspaceSetUp, RepositoryCloned, RepositoryUpdated, FeatureBranchMade, IterationGoes,
               ChangesCommitted, TaskFinalized, WorkspaceCleaned, UpstreamComes DEF TheRepository!Next
<1>3. GitInv => DefaultIsUntouched
  BY DEF GitInv, Clean, Untouched, TheRepository!DefaultIsUntouched, DefaultIsUntouched
<1>4. QED BY <1>1, <1>2, <1>3, PTL DEF TheRepository!Spec

-----------------------------------------------------------------------------
(* The sessions.                                                           *)

Speakers == Prompts \cup Enders

SpeakerRecords == [of : Sessions \cup {"none"}, by : Sockets \cup {"none", "task"},
                   at : {"new", "ready", "sending", "closing", "recording", "done"},
                   step : 0..ReplySteps, todo : SUBSET Sockets, dead : SUBSET Sockets, for : SUBSET Streams]

SocketRecords == [of : Sessions \cup {"none"}, at : {"new", "greeting", "reading", "dispatching", "ended"},
                  link : {"none", "open", "lost", "closed"}, early : BOOLEAN]

StreamRecords == [of : Sessions \cup {"none"}, at : {"new", "open", "ended"}, early : BOOLEAN]

FollowShape ==
  /\ speaker \in [Speakers -> SpeakerRecords] /\ socket \in [Sockets -> SocketRecords]
  /\ stream \in [Streams -> StreamRecords] /\ queue \in [Streams -> Seq(Speakers \X Nat)]
  /\ subs \in [Sessions -> SUBSET Sockets] /\ queues \in [Sessions -> SUBSET Streams]
  /\ session \in [Sessions -> {"new", "active", "terminated", "forgotten"}]
  /\ \A x \in Speakers : speaker[x].at \in {"ready", "sending", "closing", "recording"} => speaker[x].of \in Sessions

(* The queues of a session are those of its open streams.                  *)
OpenIsQueued ==
  /\ \A q \in Streams : stream[q].at = "open" => stream[q].of \in Sessions /\ q \in queues[stream[q].of]
  /\ \A s \in Sessions : \A q \in queues[s] : stream[q].at = "open" /\ stream[q].of = s /\ session[s] # "new"

(* What a dispatch has broadcast so far is in the queues that it is for.   *)
Broadcasts(p) == IF speaker[p].at = "sending" THEN speaker[p].step - 1 ELSE speaker[p].step

ReplyOf(p) ==
  /\ speaker[p].at \in {"new", "ready", "sending", "done"}
  /\ speaker[p].at = "new" => \A q \in Streams : TheSessions!Heard(q, p) = {}
  /\ \A q \in speaker[p].for : stream[q].at # "new"
  /\ speaker[p].at = "ready" => speaker[p].step < ReplySteps
  /\ speaker[p].at = "sending" => speaker[p].step > 0
  /\ speaker[p].at \in {"ready", "sending"} => speaker[p].step <= ReplySteps
  /\ speaker[p].at # "new" => \A q \in speaker[p].for : stream[q].at = "open" =>
       /\ stream[q].of = speaker[p].of
       /\ speaker[p].at = "done" => speaker[p].step = ReplySteps
       /\ TheSessions!InOrder(q, p, Broadcasts(p))

ReplySoFar == \A p \in Prompts : ReplyOf(p)

(* Who is spoken to has connected, and is dropped by a broadcast only when *)
(* it is gone.                                                             *)
DeadIsGone ==
  /\ \A x \in Speakers : speaker[x].by \in Sockets => socket[speaker[x].by].at # "new"
  /\ \A x \in Speakers : \A k \in speaker[x].todo : socket[k].at # "new"
  /\ \A x \in Speakers : \A k \in speaker[x].dead : socket[k].at # "new" /\ socket[k].link # "open"
  /\ \A s \in Sessions : \A k \in subs[s] : socket[k].at # "new" /\ session[s] # "new"
  /\ \A k \in Sockets : socket[k].at # "new" => socket[k].of \in Sessions /\ session[socket[k].of] # "new"

(* Who came in time is subscribed as long as it is connected.              *)
EarlyIsSubscribed ==
  \A k \in Sockets : socket[k].early /\ socket[k].link = "open" => socket[k].at # "new" /\ k \in subs[socket[k].of]

(* A termination has yet to close what is connected.                       *)
EndOf(e) ==
  speaker[e].of # "none" =>
    /\ speaker[e].at # "new" => session[speaker[e].of] \in {"terminated", "forgotten"}
    /\ \A k \in Sockets : socket[k].of = speaker[e].of /\ socket[k].early /\ socket[k].link = "open" =>
         /\ speaker[e].at = "closing" => k \in speaker[e].todo
         /\ speaker[e].at \notin {"recording", "done"}
    /\ \A q \in Streams : /\ stream[q].of = speaker[e].of /\ stream[q].early /\ stream[q].at = "open"
                          /\ speaker[e].at \in {"closing", "recording", "done"}
                          => \E i \in DOMAIN queue[q] : queue[q][i][1] \in Enders

EndSoFar == \A e \in Enders : EndOf(e)

FollowInv == FollowShape /\ OpenIsQueued /\ ReplySoFar /\ DeadIsGone /\ EarlyIsSubscribed /\ EndSoFar

(* A queue that grows by what another speaker says, or by the next         *)
(* broadcast of the same.                                                  *)
LEMMA HeardGrows ==
  ASSUME NEW q, NEW x, NEW e, NEW n, queue[q] \in Seq(Speakers \X Nat), e \in Speakers, n \in Nat,
         queue'[q] = Append(queue[q], <<e, n>>)
  PROVE  /\ DOMAIN queue'[q] = 1..Len(queue[q]) + 1 /\ DOMAIN queue[q] = 1..Len(queue[q]) /\ Len(queue[q]) \in Nat
         /\ \A i \in 1..Len(queue[q]) : queue'[q][i] = queue[q][i]
         /\ queue'[q][Len(queue[q]) + 1] = <<e, n>>
         /\ TheSessions!Heard(q, x)' =
              TheSessions!Heard(q, x) \cup (IF e = x THEN {Len(queue[q]) + 1} ELSE {})
<1>1. /\ DOMAIN queue'[q] = 1..Len(queue[q]) + 1 /\ DOMAIN queue[q] = 1..Len(queue[q]) /\ Len(queue[q]) \in Nat
      /\ \A i \in 1..Len(queue[q]) : queue'[q][i] = queue[q][i]
      /\ queue'[q][Len(queue[q]) + 1] = <<e, n>>
  OBVIOUS
<1>2. TheSessions!Heard(q, x)' = {i \in 1..Len(queue[q]) + 1 : queue'[q][i][1] = x}
  BY <1>1 DEF TheSessions!Heard
<1>3. TheSessions!Heard(q, x) = {i \in 1..Len(queue[q]) : queue[q][i][1] = x}
  BY <1>1 DEF TheSessions!Heard
<1>4. 1..Len(queue[q]) + 1 = (1..Len(queue[q])) \cup {Len(queue[q]) + 1}
  BY <1>1
<1>5. <<e, n>>[1] = e
  OBVIOUS
<1>6. TheSessions!Heard(q, x)' =
        TheSessions!Heard(q, x) \cup (IF e = x THEN {Len(queue[q]) + 1} ELSE {})
  <2> HIDE <1>1
  <2>1. \A i \in 1..Len(queue[q]) : queue'[q][i] = queue[q][i] /\ queue'[q][Len(queue[q]) + 1] = <<e, n>>
    BY <1>1
  <2>2. QED BY <1>2, <1>3, <1>4, <1>5, <2>1
<1>7. QED BY <1>1, <1>6

LEMMA OtherIsHeard ==
  ASSUME NEW q, NEW x, NEW e, NEW n, NEW k, queue[q] \in Seq(Speakers \X Nat), e \in Speakers, n \in Nat,
         queue'[q] = Append(queue[q], <<e, n>>), e # x
  PROVE  /\ TheSessions!Heard(q, x)' = TheSessions!Heard(q, x)
         /\ TheSessions!InOrder(q, x, k) => TheSessions!InOrder(q, x, k)'
<1>1. TheSessions!Heard(q, x)' = TheSessions!Heard(q, x)
  <2>1. TheSessions!Heard(q, x)' =
          TheSessions!Heard(q, x) \cup (IF e = x THEN {Len(queue[q]) + 1} ELSE {})
    BY HeardGrows
  <2>2. (IF e = x THEN {Len(queue[q]) + 1} ELSE {}) = {}
    OBVIOUS
  <2>3. QED BY <2>1, <2>2
<1>2. \A i \in TheSessions!Heard(q, x) : queue'[q][i] = queue[q][i]
  BY HeardGrows DEF TheSessions!Heard
<1>3. QED BY <1>1, <1>2 DEF TheSessions!InOrder

LEMMA NextIsHeard ==
  ASSUME NEW q, NEW x \in Speakers, NEW k \in Nat, queue[q] \in Seq(Speakers \X Nat),
         queue'[q] = Append(queue[q], <<x, k + 1>>), TheSessions!InOrder(q, x, k)
  PROVE  TheSessions!InOrder(q, x, k + 1)'
<1> DEFINE H == TheSessions!Heard(q, x)  l == Len(queue[q])
<1>1. /\ TheSessions!Heard(q, x)' = H \cup {l + 1} /\ l \in Nat
      /\ \A i \in H : i \in 1..l /\ queue'[q][i][2] = queue[q][i][2]
      /\ queue'[q][l + 1][2] = k + 1
  <2>1. PICK n \in Nat : n = k + 1
    OBVIOUS
  <2>2. queue'[q] = Append(queue[q], <<x, n>>)
    BY <2>1
  <2>3. /\ DOMAIN queue[q] = 1..Len(queue[q]) /\ Len(queue[q]) \in Nat
        /\ \A i \in 1..Len(queue[q]) : queue'[q][i] = queue[q][i]
        /\ queue'[q][Len(queue[q]) + 1] = <<x, n>>
    BY <2>2
  <2>4. TheSessions!Heard(q, x)' = TheSessions!Heard(q, x) \cup (IF x = x THEN {Len(queue[q]) + 1} ELSE {})
    BY <2>2, HeardGrows
  <2>5. \A i \in H : i \in 1..l
    BY <2>3 DEF TheSessions!Heard
  <2>6. <<x, n>>[2] = n
    OBVIOUS
  <2>7. TheSessions!Heard(q, x)' = H \cup {l + 1}
    BY <2>4
  <2> HIDE DEF H
  <2>8. QED BY <2>1, <2>3, <2>5, <2>6, <2>7
<1>2. /\ \A i \in 1..k : \E n \in H : queue[q][n][2] = i
      /\ \A n \in H : queue[q][n][2] \in 1..k
      /\ \A m, n \in H : m < n => queue[q][m][2] < queue[q][n][2]
  BY DEF TheSessions!InOrder
<1> HIDE DEF H, l
<1>3. \A i \in 1..(k + 1) : \E n \in H \cup {l + 1} : queue'[q][n][2] = i
  <2>1. \A i \in 1..(k + 1) : i \in 1..k \/ i = k + 1
    OBVIOUS
  <2>2. QED BY <1>1, <1>2, <2>1
<1>4. \A n \in H \cup {l + 1} : queue'[q][n][2] \in 1..(k + 1)
  <2>1. 1..k \subseteq 1..(k + 1) /\ k + 1 \in 1..(k + 1)
    OBVIOUS
  <2>2. \A n \in H : queue'[q][n][2] \in 1..k
    BY <1>1, <1>2
  <2>3. QED BY <1>1, <2>1, <2>2
<1>5. ASSUME NEW m \in H \cup {l + 1}, NEW n \in H \cup {l + 1}, m < n PROVE queue'[q][m][2] < queue'[q][n][2]
  <2>1. m \in H
    BY <1>1, <1>5
  <2>2. CASE n \in H
    BY <1>1, <1>2, <1>5, <2>1, <2>2
  <2>3. CASE n = l + 1
    <3>1. queue'[q][m][2] \in 1..k
      BY <1>1, <1>2, <2>1
    <3>2. queue'[q][n][2] = k + 1
      BY <1>1, <2>3
    <3>3. \A a \in 1..k : a < k + 1
      OBVIOUS
    <3>4. QED BY <3>1, <3>2, <3>3
  <2>4. QED BY <2>2, <2>3
<1>6. QED BY <1>1, <1>3, <1>4, <1>5 DEF TheSessions!InOrder

(* Sockets that go on: none connects again, and none is dropped from its   *)
(* session while it is connected and came in time.                         *)
SocketsKeep ==
  /\ socket' \in [Sockets -> SocketRecords] /\ subs' \in [Sessions -> SUBSET Sockets]
  /\ \A k \in Sockets : /\ socket'[k].of = socket[k].of /\ socket'[k].early = socket[k].early
                        /\ socket'[k].at = "new" <=> socket[k].at = "new"
                        /\ socket'[k].link = "open" => socket[k].link = "open"
  /\ \A s \in Sessions : subs'[s] \subseteq subs[s]
  /\ \A s \in Sessions : \A k \in subs[s] \ subs'[s] :
       ~ (socket'[k].link = "open" /\ socket'[k].early /\ socket'[k].of = s)

(* Sessions that go on: none is new again or comes back.                   *)
SessionsKeep ==
  /\ session' \in [Sessions -> {"new", "active", "terminated", "forgotten"}]
  /\ \A s \in Sessions : /\ session[s] # "new" => session'[s] # "new"
                         /\ session[s] \in {"terminated", "forgotten"} => session'[s] \in {"terminated", "forgotten"}

LEMMA EarlyStays ==
  ASSUME FollowInv, SocketsKeep PROVE EarlyIsSubscribed'
<1> SUFFICES ASSUME NEW k \in Sockets, socket'[k].early, socket'[k].link = "open"
             PROVE  socket'[k].at # "new" /\ k \in subs'[socket'[k].of]
  BY DEF EarlyIsSubscribed
<1>1. socket[k].early /\ socket[k].link = "open" /\ socket'[k].of = socket[k].of
  BY DEF SocketsKeep
<1>2. socket[k].at # "new" /\ k \in subs[socket[k].of] /\ socket[k].of \in Sessions
  BY <1>1 DEF FollowInv, EarlyIsSubscribed, DeadIsGone
<1>3. QED BY <1>1, <1>2 DEF SocketsKeep

LEMMA DeadStays ==
  ASSUME FollowInv, SocketsKeep, SessionsKeep,
         \A x \in Speakers : /\ speaker'[x].by \in Sockets => socket[speaker'[x].by].at # "new"
                             /\ \A k \in speaker'[x].todo : k \in Sockets /\ socket[k].at # "new"
                             /\ \A k \in speaker'[x].dead : k \in Sockets /\ socket[k].at # "new" /\ socket'[k].link # "open"
  PROVE  DeadIsGone'
<1>1. /\ \A s \in Sessions : \A k \in subs[s] : socket[k].at # "new" /\ session[s] # "new"
      /\ \A k \in Sockets : socket[k].at # "new" => socket[k].of \in Sessions /\ session[socket[k].of] # "new"
  BY DEF FollowInv, DeadIsGone
<1>2. /\ \A k \in Sockets : socket'[k].of = socket[k].of /\ (socket'[k].at = "new" <=> socket[k].at = "new")
      /\ \A s \in Sessions : \A k \in subs'[s] : k \in subs[s] /\ k \in Sockets
  BY DEF SocketsKeep
<1>3. \A s \in Sessions : session[s] # "new" => session'[s] # "new"
  BY DEF SessionsKeep
<1>4. \A s \in Sessions : \A k \in subs'[s] : socket'[k].at # "new" /\ session'[s] # "new"
  BY <1>1, <1>2, <1>3
<1>5. \A k \in Sockets : socket'[k].at # "new" => socket'[k].of \in Sessions /\ session'[socket'[k].of] # "new"
  BY <1>1, <1>2, <1>3
<1>6. \A x \in Speakers : speaker'[x].by \in Sockets => socket'[speaker'[x].by].at # "new"
  <2> SUFFICES ASSUME NEW x \in Speakers, speaker'[x].by \in Sockets PROVE socket'[speaker'[x].by].at # "new"
    OBVIOUS
  <2>1. PICK k \in Sockets : k = speaker'[x].by
    OBVIOUS
  <2>2. QED BY <1>2, <2>1
<1>7. \A x \in Speakers : /\ \A k \in speaker'[x].todo : socket'[k].at # "new"
                          /\ \A k \in speaker'[x].dead : socket'[k].at # "new" /\ socket'[k].link # "open"
  <2> SUFFICES ASSUME NEW x \in Speakers
               PROVE  /\ \A k \in speaker'[x].todo : socket'[k].at # "new"
                      /\ \A k \in speaker'[x].dead : socket'[k].at # "new" /\ socket'[k].link # "open"
    OBVIOUS
  <2>1. /\ \A k \in speaker'[x].todo : k \in Sockets /\ socket[k].at # "new"
        /\ \A k \in speaker'[x].dead : k \in Sockets /\ socket[k].at # "new" /\ socket'[k].link # "open"
    OBVIOUS
  <2>2. QED BY <1>2, <2>1
<1>8. QED BY <1>4, <1>5, <1>6, <1>7 DEF DeadIsGone

(* Streams that go on, whose queues may have grown.                        *)
StreamsKeep ==
  /\ stream' \in [Streams -> StreamRecords] /\ queue' \in [Streams -> Seq(Speakers \X Nat)]
  /\ \A q \in Streams : /\ stream'[q].of = stream[q].of /\ stream'[q].early = stream[q].early
                        /\ stream'[q].at = "new" <=> stream[q].at = "new"
                        /\ stream'[q].at = "open" => stream[q].at = "open"
                        /\ \A i \in DOMAIN queue[q] : i \in DOMAIN queue'[q] /\ queue'[q][i] = queue[q][i]

(* A termination that goes on as it is while other things happen.          *)
EnderKeeps(e) ==
  speaker'[e].of # "none" =>
    /\ speaker'[e].of = speaker[e].of /\ speaker'[e].at = speaker[e].at
    /\ speaker[e].at = "closing" => speaker[e].todo \subseteq speaker'[e].todo

LEMMA EndStays ==
  ASSUME FollowInv, SocketsKeep, SessionsKeep, StreamsKeep, NEW e \in Enders, EnderKeeps(e) PROVE EndOf(e)'
<1> SUFFICES ASSUME speaker'[e].of # "none"
             PROVE  /\ speaker'[e].at # "new" => session'[speaker'[e].of] \in {"terminated", "forgotten"}
                    /\ \A k \in Sockets : socket'[k].of = speaker'[e].of /\ socket'[k].early /\ socket'[k].link = "open" =>
                         /\ speaker'[e].at = "closing" => k \in speaker'[e].todo
                         /\ speaker'[e].at \notin {"recording", "done"}
                    /\ \A q \in Streams : /\ stream'[q].of = speaker'[e].of /\ stream'[q].early /\ stream'[q].at = "open"
                                          /\ speaker'[e].at \in {"closing", "recording", "done"}
                                          => \E i \in DOMAIN queue'[q] : queue'[q][i][1] \in Enders
  BY DEF EndOf
<1>1. /\ speaker'[e].of = speaker[e].of /\ speaker'[e].at = speaker[e].at
      /\ speaker[e].at = "closing" => speaker[e].todo \subseteq speaker'[e].todo
      /\ speaker[e].of # "none" /\ speaker[e].of \in Sessions \cup {"none"}
  BY DEF EnderKeeps, FollowInv, FollowShape, SpeakerRecords, Speakers
<1>2. speaker'[e].at # "new" => session'[speaker'[e].of] \in {"terminated", "forgotten"}
  BY <1>1 DEF FollowInv, EndSoFar, EndOf, SessionsKeep
<1>3. ASSUME NEW k \in Sockets, socket'[k].of = speaker'[e].of, socket'[k].early, socket'[k].link = "open"
      PROVE  /\ speaker'[e].at = "closing" => k \in speaker'[e].todo
             /\ speaker'[e].at \notin {"recording", "done"}
  BY <1>1, <1>3 DEF FollowInv, EndSoFar, EndOf, SocketsKeep
<1>4. ASSUME NEW q \in Streams, stream'[q].of = speaker'[e].of, stream'[q].early, stream'[q].at = "open",
             speaker'[e].at \in {"closing", "recording", "done"}
      PROVE  \E i \in DOMAIN queue'[q] : queue'[q][i][1] \in Enders
  <2>1. stream[q].of = speaker[e].of /\ stream[q].early /\ stream[q].at = "open"
    BY <1>1, <1>4 DEF StreamsKeep
  <2>2. EndOf(e)
    BY DEF FollowInv, EndSoFar
  <2>3. PICK i \in DOMAIN queue[q] : queue[q][i][1] \in Enders
    BY <1>1, <1>4, <2>1, <2>2 DEF EndOf
  <2>4. QED BY <2>3 DEF StreamsKeep
<1>5. QED BY <1>2, <1>3, <1>4

(* A dispatch that stands where it stood, whatever others put into the     *)
(* queues.                                                                 *)
PromptKeeps(p) ==
  /\ speaker'[p].of = speaker[p].of /\ speaker'[p].at = speaker[p].at
  /\ speaker'[p].step = speaker[p].step /\ speaker'[p].for = speaker[p].for

LEMMA ReplyStays ==
  ASSUME FollowInv, StreamsKeep, NEW p \in Prompts, PromptKeeps(p),
         \A q \in Streams : \/ queue'[q] = queue[q]
                            \/ \E e \in Speakers \ {p}, n \in Nat : queue'[q] = Append(queue[q], <<e, n>>)
  PROVE  ReplyOf(p)'
<1>1. /\ speaker'[p].of = speaker[p].of /\ speaker'[p].at = speaker[p].at
      /\ speaker'[p].step = speaker[p].step /\ speaker'[p].for = speaker[p].for
      /\ speaker[p].for \subseteq Streams
  BY DEF PromptKeeps, FollowInv, FollowShape, SpeakerRecords, Speakers
<1>2. ASSUME NEW q \in Streams, NEW k
      PROVE  /\ TheSessions!Heard(q, p)' = TheSessions!Heard(q, p)
             /\ TheSessions!InOrder(q, p, k) => TheSessions!InOrder(q, p, k)'
  <2>1. CASE queue'[q] = queue[q]
    BY <2>1 DEF TheSessions!Heard, TheSessions!InOrder
  <2>2. ASSUME NEW e \in Speakers \ {p}, NEW n \in Nat, queue'[q] = Append(queue[q], <<e, n>>)
        PROVE  /\ TheSessions!Heard(q, p)' = TheSessions!Heard(q, p)
               /\ TheSessions!InOrder(q, p, k) => TheSessions!InOrder(q, p, k)'
    <3>1. e # p /\ e \in Speakers /\ queue[q] \in Seq(Speakers \X Nat)
      BY DEF FollowInv, FollowShape
    <3>2. QED BY <2>2, <3>1, OtherIsHeard
  <2>3. QED BY <2>1, <2>2
<1>3. Broadcasts(p)' = Broadcasts(p)
  BY <1>1 DEF Broadcasts
<1>4. ASSUME NEW q \in speaker[p].for, stream'[q].at = "open", speaker[p].at # "new"
      PROVE  TheSessions!InOrder(q, p, Broadcasts(p))'
  <2>1. PICK k : k = Broadcasts(p)
    OBVIOUS
  <2>2. TheSessions!InOrder(q, p, k) /\ q \in Streams
    BY <1>1, <1>4, <2>1 DEF FollowInv, ReplySoFar, ReplyOf, StreamsKeep
  <2>3. TheSessions!InOrder(q, p, k)'
    BY <1>2, <2>2
  <2>4. QED BY <1>3, <2>1, <2>3
<1>5. \A q \in speaker[p].for : q \in Streams /\ stream'[q].of = stream[q].of
                                /\ (stream'[q].at = "new" <=> stream[q].at = "new") /\ (stream'[q].at = "open" => stream[q].at = "open")
  BY <1>1 DEF StreamsKeep
<1>6. QED BY <1>1, <1>2, <1>4, <1>5, ZenonT(40) DEF FollowInv, ReplySoFar, ReplyOf

LEMMA RepliesStay ==
  ASSUME FollowInv, StreamsKeep, \A p \in Prompts : PromptKeeps(p), UNCHANGED queue PROVE ReplySoFar'
  BY ReplyStays DEF ReplySoFar

LEMMA QueuedStays ==
  ASSUME FollowInv, SessionsKeep, UNCHANGED <<stream, queues>> PROVE OpenIsQueued'
  BY DEF FollowInv, OpenIsQueued, SessionsKeep

(* What is left alone goes on.                                             *)
LEMMA LeftAlone ==
  ASSUME FollowInv
  PROVE  /\ UNCHANGED <<socket, subs>> => SocketsKeep
         /\ UNCHANGED session => SessionsKeep
         /\ UNCHANGED <<stream, queue>> => StreamsKeep
         /\ UNCHANGED speaker => (\A e \in Enders : EnderKeeps(e)) /\ \A p \in Prompts : PromptKeeps(p)
<1>1. UNCHANGED <<socket, subs>> => SocketsKeep
  BY DEF FollowInv, FollowShape, SocketsKeep
<1>2. UNCHANGED session => SessionsKeep
  BY DEF FollowInv, FollowShape, SessionsKeep
<1>3. UNCHANGED <<stream, queue>> => StreamsKeep
  BY DEF FollowInv, FollowShape, StreamsKeep
<1>4. UNCHANGED speaker => (\A e \in Enders : EnderKeeps(e)) /\ \A p \in Prompts : PromptKeeps(p)
  BY DEF EnderKeeps, PromptKeeps
<1>5. QED BY <1>1, <1>2, <1>3, <1>4

(* One of those who speak takes a step.                                    *)
LEMMA SpeakerSteps ==
  ASSUME FollowInv, TheSessions!SessionsAssumption, NEW x \in Speakers, NEW r \in SpeakerRecords,
         speaker' = [speaker EXCEPT ![x] = r],
         r.at \in {"ready", "sending", "closing", "recording"} => r.of \in Sessions
  PROVE  /\ speaker' \in [Speakers -> SpeakerRecords]
         /\ \A y \in Speakers : speaker'[y].at \in {"ready", "sending", "closing", "recording"} => speaker'[y].of \in Sessions
         /\ speaker'[x] = r /\ \A y \in Speakers \ {x} : speaker'[y] = speaker[y]
         /\ \A e \in Enders \ {x} : EnderKeeps(e)
         /\ \A p \in Prompts \ {x} : PromptKeeps(p)
         /\ x \in Enders <=> x \notin Prompts
<1>1. speaker' \in [Speakers -> SpeakerRecords]
  BY DEF FollowInv, FollowShape
<1>2. speaker'[x] = r /\ \A y \in Speakers \ {x} : speaker'[y] = speaker[y]
  BY DEF FollowInv, FollowShape
<1>3. \A y \in Speakers : speaker'[y].at \in {"ready", "sending", "closing", "recording"} => speaker'[y].of \in Sessions
  BY <1>2 DEF FollowInv, FollowShape
<1>4. x \in Enders <=> x \notin Prompts
  BY DEF TheSessions!SessionsAssumption, Speakers
<1>5. \A e \in Enders \ {x} : EnderKeeps(e)
  BY <1>2 DEF EnderKeeps, Speakers
<1>6. \A p \in Prompts \ {x} : PromptKeeps(p)
  BY <1>2 DEF PromptKeeps, Speakers
<1>7. QED BY <1>1, <1>2, <1>3, <1>4, <1>5, <1>6

(* Only sockets and sessions go on.                                        *)
LEMMA OthersGoOn ==
  ASSUME FollowInv, SocketsKeep, SessionsKeep, UNCHANGED <<queues, stream, queue, speaker>> PROVE FollowInv'
<1>1. StreamsKeep /\ (\A e \in Enders : EnderKeeps(e)) /\ \A p \in Prompts : PromptKeeps(p)
  BY LeftAlone
<1>2. FollowShape'
  BY DEF FollowInv, FollowShape, SocketsKeep, SessionsKeep
<1>3. OpenIsQueued' /\ ReplySoFar' /\ EarlyIsSubscribed'
  BY <1>1, QueuedStays, RepliesStay, EarlyStays
<1>4. EndSoFar'
  BY <1>1, EndStays DEF EndSoFar
<1>5. DeadIsGone'
  <2>1. \A x \in Speakers : speaker'[x] = speaker[x] /\ speaker[x].todo \subseteq Sockets /\ speaker[x].dead \subseteq Sockets
    BY DEF FollowInv, FollowShape, SpeakerRecords
  <2>2. \A x \in Speakers : /\ speaker'[x].by \in Sockets => socket[speaker'[x].by].at # "new"
                            /\ \A k \in speaker'[x].todo : k \in Sockets /\ socket[k].at # "new"
                            /\ \A k \in speaker'[x].dead : k \in Sockets /\ socket[k].at # "new" /\ socket'[k].link # "open"
    BY <2>1 DEF FollowInv, DeadIsGone, SocketsKeep
  <2>3. QED BY <2>2, DeadStays
<1>6. QED BY <1>2, <1>3, <1>4, <1>5 DEF FollowInv

(* One of those who speak takes a step among sockets and sessions that go  *)
(* on.                                                                     *)
LEMMA SpeakerMoves ==
  ASSUME FollowInv, TheSessions!SessionsAssumption, SocketsKeep, SessionsKeep, StreamsKeep, UNCHANGED <<stream, queues>>,
         NEW x \in Speakers, NEW r \in SpeakerRecords, speaker' = [speaker EXCEPT ![x] = r],
         r.at \in {"ready", "sending", "closing", "recording"} => r.of \in Sessions,
         r.by \in Sockets => socket[r.by].at # "new",
         \A k \in r.todo : socket[k].at # "new",
         \A k \in r.dead : socket[k].at # "new" /\ socket'[k].link # "open"
  PROVE  /\ FollowShape' /\ OpenIsQueued' /\ DeadIsGone' /\ EarlyIsSubscribed'
         /\ speaker'[x] = r
         /\ \A e \in Enders \ {x} : EndOf(e)'
         /\ \A p \in Prompts \ {x} : PromptKeeps(p)
         /\ x \in Enders <=> x \notin Prompts
<1>1. /\ speaker' \in [Speakers -> SpeakerRecords]
      /\ \A y \in Speakers : speaker'[y].at \in {"ready", "sending", "closing", "recording"} => speaker'[y].of \in Sessions
      /\ speaker'[x] = r /\ \A y \in Speakers \ {x} : speaker'[y] = speaker[y]
      /\ \A e \in Enders \ {x} : EnderKeeps(e)
      /\ \A p \in Prompts \ {x} : PromptKeeps(p)
      /\ x \in Enders <=> x \notin Prompts
  BY SpeakerSteps
<1>2. FollowShape'
  BY <1>1 DEF FollowInv, FollowShape, SocketsKeep, SessionsKeep, StreamsKeep
<1>3. OpenIsQueued' /\ EarlyIsSubscribed'
  BY QueuedStays, EarlyStays
<1>4. DeadIsGone'
  <2>1. /\ r.todo \subseteq Sockets /\ r.dead \subseteq Sockets
        /\ \A y \in Speakers : speaker[y].todo \subseteq Sockets /\ speaker[y].dead \subseteq Sockets
    BY DEF SpeakerRecords, FollowInv, FollowShape
  <2>2. \A y \in Speakers : /\ speaker'[y].by \in Sockets => socket[speaker'[y].by].at # "new"
                            /\ \A k \in speaker'[y].todo : k \in Sockets /\ socket[k].at # "new"
                            /\ \A k \in speaker'[y].dead : k \in Sockets /\ socket[k].at # "new" /\ socket'[k].link # "open"
    BY <1>1, <2>1 DEF FollowInv, DeadIsGone, SocketsKeep
  <2>3. QED BY <2>2, DeadStays
<1>5. \A e \in Enders \ {x} : EndOf(e)'
  BY <1>1, EndStays
<1>6. QED BY <1>1, <1>2, <1>3, <1>4, <1>5

(* What is put into the queues of a session is kept there.                 *)
LEMMA QueuesGrow ==
  ASSUME FollowInv, NEW s, NEW event \in Speakers \X Nat, UNCHANGED stream,
         \A q \in Streams : queue'[q] = IF q \in queues[s] THEN Append(queue[q], event) ELSE queue[q],
         queue' = TheSessions!Queued(s, event)
  PROVE  StreamsKeep
<1>1. \A q \in Streams : queue[q] \in Seq(Speakers \X Nat) /\ Append(queue[q], event) \in Seq(Speakers \X Nat)
  BY DEF FollowInv, FollowShape
<1>2. queue' \in [Streams -> Seq(Speakers \X Nat)]
  BY <1>1 DEF TheSessions!Queued
<1>3. ASSUME NEW q \in Streams, NEW i \in DOMAIN queue[q] PROVE i \in DOMAIN queue'[q] /\ queue'[q][i] = queue[q][i]
  <2>1. queue[q] \in Seq(Speakers \X Nat)
    BY <1>1
  <2>2. CASE queue'[q] = queue[q]
    BY <2>2
  <2>3. CASE queue'[q] = Append(queue[q], event)
    BY <2>1, <2>3
  <2>4. QED BY <2>2, <2>3
<1>4. QED BY <1>2, <1>3 DEF StreamsKeep, FollowInv, FollowShape

(* A dispatch begins.                                                      *)
LEMMA DispatchBegins ==
  ASSUME FollowInv, TheSessions!SessionsAssumption, SocketsKeep,
         NEW p \in Prompts, NEW s \in Sessions, NEW by \in Sockets \cup {"task"}, speaker[p].at = "new",
         by \in Sockets => socket[by].at # "new",
         speaker' = [speaker EXCEPT ![p] = TheSessions!Dispatched(s, by)],
         UNCHANGED <<session, queues, stream, queue>>
  PROVE  FollowInv'
<1> DEFINE r == TheSessions!Dispatched(s, by)
<1>1. /\ r \in SpeakerRecords /\ r.of = s /\ r.by = by /\ r.at = "ready" /\ r.step = 0 /\ r.todo = {} /\ r.dead = {}
      /\ r.for = queues[s]
  <2>1. queues[s] \in SUBSET Streams /\ 0 \in 0..ReplySteps
    BY DEF FollowInv, FollowShape, TheSessions!SessionsAssumption
  <2>2. TheSessions!Silent \in SpeakerRecords
    BY <2>1 DEF TheSessions!Silent, SpeakerRecords
  <2>3. TheSessions!Silent.step = 0 /\ TheSessions!Silent.todo = {} /\ TheSessions!Silent.dead = {}
    BY DEF TheSessions!Silent
  <2>4. r = [TheSessions!Silent EXCEPT !.of = s, !.by = by, !.at = "ready", !.for = queues[s]]
    BY DEF TheSessions!Dispatched
  <2> HIDE DEF r
  <2>5. QED BY <2>1, <2>2, <2>3, <2>4 DEF SpeakerRecords
<1> HIDE DEF r
<1>2. SessionsKeep /\ StreamsKeep
  BY LeftAlone
<1>3. /\ FollowShape' /\ OpenIsQueued' /\ DeadIsGone' /\ EarlyIsSubscribed'
      /\ speaker'[p] = r /\ (\A e \in Enders : EndOf(e)') /\ \A o \in Prompts \ {p} : PromptKeeps(o)
  <2>1. speaker' = [speaker EXCEPT ![p] = r] /\ p \in Speakers
    BY DEF r, Speakers
  <2>2. QED BY <1>1, <1>2, <2>1, SpeakerMoves
<1>4. ReplyOf(p)'
  <2>1. \A q \in Streams : TheSessions!Heard(q, p) = {}
    BY DEF FollowInv, ReplySoFar, ReplyOf
  <2>2. \A q \in Streams : TheSessions!InOrder(q, p, 0)'
    BY <2>1 DEF TheSessions!InOrder, TheSessions!Heard
  <2>3. \A q \in queues[s] : q \in Streams /\ stream[q].at = "open" /\ stream[q].of = s
    BY DEF FollowInv, FollowShape, OpenIsQueued
  <2>4. Broadcasts(p)' = 0
    BY <1>1, <1>3 DEF Broadcasts
  <2>5. \A q \in Streams : TheSessions!InOrder(q, p, Broadcasts(p))'
    BY <2>2, <2>4
  <2>6. ReplySteps \in Nat /\ 0 < ReplySteps
    BY DEF TheSessions!SessionsAssumption
  <2>7. /\ speaker'[p].at = "ready" /\ speaker'[p].step = 0 /\ speaker'[p].of = s /\ speaker'[p].for = queues[s]
        /\ UNCHANGED stream
    BY <1>1, <1>3
  <2>8. QED BY <2>3, <2>5, <2>6, <2>7 DEF ReplyOf
<1>5. ReplySoFar'
  BY <1>2, <1>3, <1>4, ReplyStays DEF ReplySoFar
<1>6. QED BY <1>3, <1>5 DEF FollowInv, EndSoFar

-----------------------------------------------------------------------------
(* What the sockets do.                                                    *)
LEMMA AgentMade ==
  ASSUME FollowInv, NEW a, TheSessions!CreateAgent(a) PROVE FollowInv'
<1>1. UNCHANGED <<session, subs, socket, queues, stream, queue, speaker>>
  BY DEF TheSessions!CreateAgent, TheSessions!tableVars, TheSessions!streamVars
<1>2. QED BY <1>1, LeftAlone, OthersGoOn

LEMMA SessionBegun ==
  ASSUME FollowInv, NEW s \in Sessions, TheSessions!StartSession(s) PROVE FollowInv'
<1>1. /\ session[s] = "new" /\ session' = [session EXCEPT ![s] = "active"]
      /\ subs' = [subs EXCEPT ![s] = {}] /\ queues' = [queues EXCEPT ![s] = {}]
      /\ UNCHANGED <<socket, stream, queue, speaker>>
  BY DEF TheSessions!StartSession, TheSessions!streamVars
<1>2. subs[s] = {} /\ queues[s] = {}
  BY <1>1 DEF FollowInv, DeadIsGone, OpenIsQueued
<1>3. subs' = subs /\ queues' = queues
  BY <1>1, <1>2 DEF FollowInv, FollowShape
<1>4. SessionsKeep
  BY <1>1 DEF FollowInv, FollowShape, SessionsKeep
<1>5. QED BY <1>1, <1>3, <1>4, LeftAlone, OthersGoOn

LEMMA SocketGreeted ==
  ASSUME FollowInv, NEW k \in Sockets, TheSessions!Greet(k) \/ TheSessions!Leave(k) \/ TheSessions!Disconnected(k)
  PROVE  FollowInv'
<1>1. UNCHANGED <<session, queues, stream, queue, speaker>>
  BY DEF TheSessions!Greet, TheSessions!Leave, TheSessions!Disconnected, TheSessions!tableVars, TheSessions!streamVars
<1>2. CASE TheSessions!Greet(k)
  <2>1. /\ subs' = subs /\ socket[k].at = "greeting"
        /\ \E a \in {"ended", "reading"} : socket' = [socket EXCEPT ![k].at = a]
    BY <1>2 DEF TheSessions!Greet
  <2>2. /\ socket' \in [Sockets -> SocketRecords]
        /\ \A j \in Sockets : /\ socket'[j].of = socket[j].of /\ socket'[j].early = socket[j].early
                              /\ socket'[j].link = socket[j].link /\ (socket'[j].at = "new" <=> socket[j].at = "new")
    BY <2>1 DEF FollowInv, FollowShape, SocketRecords
  <2>3. SocketsKeep
    BY <2>1, <2>2 DEF SocketsKeep, FollowInv, FollowShape
  <2>4. QED BY <1>1, <2>3, LeftAlone, OthersGoOn
<1>3. CASE TheSessions!Leave(k)
  <2>1. subs' = subs /\ socket' = [socket EXCEPT ![k].link = "lost"]
    BY <1>3 DEF TheSessions!Leave
  <2>2. SocketsKeep
    BY <2>1 DEF SocketsKeep, FollowInv, FollowShape, SocketRecords
  <2>3. QED BY <1>1, <2>2, LeftAlone, OthersGoOn
<1>4. CASE TheSessions!Disconnected(k)
  <2>1. /\ socket[k].at = "reading" /\ socket[k].link # "open" /\ socket' = [socket EXCEPT ![k].at = "ended"]
        /\ subs' = [subs EXCEPT ![socket[k].of] = @ \ {k}]
    BY <1>4 DEF TheSessions!Disconnected
  <2>2. /\ socket' \in [Sockets -> SocketRecords]
        /\ \A j \in Sockets : /\ socket'[j].of = socket[j].of /\ socket'[j].early = socket[j].early
                              /\ socket'[j].link = socket[j].link /\ (socket'[j].at = "new" <=> socket[j].at = "new")
    BY <2>1 DEF FollowInv, FollowShape, SocketRecords
  <2>3. /\ subs' \in [Sessions -> SUBSET Sockets]
        /\ \A s \in Sessions : subs'[s] \subseteq subs[s] /\ subs[s] \ subs'[s] \subseteq {k}
    BY <2>1 DEF FollowInv, FollowShape
  <2>4. SocketsKeep
    BY <2>1, <2>2, <2>3 DEF SocketsKeep
  <2>5. QED BY <1>1, <2>4, LeftAlone, OthersGoOn
<1>5. QED BY <1>2, <1>3, <1>4

(* A socket connects: none of those who speak knows it.                    *)
LEMMA SocketConnected ==
  ASSUME FollowInv, NEW k \in Sockets, NEW s \in Sessions, TheSessions!Connect(k, s) PROVE FollowInv'
<1> DEFINE new == [of |-> s, at |-> "greeting", link |-> "open", early |-> session[s] = "active"]
<1>1. /\ session[s] # "new" /\ socket[k].at = "new" /\ socket' = [socket EXCEPT ![k] = new]
      /\ subs' = [subs EXCEPT ![s] = @ \cup {k}] /\ UNCHANGED <<session, queues, stream, queue, speaker>>
  BY DEF TheSessions!Connect, TheSessions!tableVars, TheSessions!streamVars
<1>2. /\ new \in SocketRecords /\ new.of = s /\ new.at = "greeting" /\ new.link = "open"
      /\ new.early = (session[s] = "active")
  BY DEF SocketRecords
<1> HIDE DEF new
<1>3. /\ socket' \in [Sockets -> SocketRecords] /\ socket'[k] = new /\ \A j \in Sockets \ {k} : socket'[j] = socket[j]
  BY <1>1, <1>2 DEF FollowInv, FollowShape
<1>4. /\ subs' \in [Sessions -> SUBSET Sockets] /\ subs'[s] = subs[s] \cup {k}
      /\ \A t \in Sessions \ {s} : subs'[t] = subs[t]
  BY <1>1 DEF FollowInv, FollowShape
<1>5. FollowShape'
  BY <1>1, <1>3, <1>4 DEF FollowInv, FollowShape
<1>6. OpenIsQueued' /\ ReplySoFar'
  <2>1. SessionsKeep /\ StreamsKeep /\ \A p \in Prompts : PromptKeeps(p)
    BY <1>1, LeftAlone
  <2>2. QED BY <1>1, <2>1, QueuedStays, RepliesStay
<1>7. DeadIsGone'
  <2>1. \A x \in Speakers : speaker'[x] = speaker[x] /\ speaker[x].todo \subseteq Sockets /\ speaker[x].dead \subseteq Sockets
    BY <1>1 DEF FollowInv, FollowShape, SpeakerRecords
  <2>2. \A x \in Speakers : speaker'[x].by \in Sockets => socket'[speaker'[x].by].at # "new"
    BY <1>2, <1>3, <2>1 DEF FollowInv, DeadIsGone
  <2>3. \A x \in Speakers : /\ \A j \in speaker'[x].todo : socket'[j].at # "new"
                            /\ \A j \in speaker'[x].dead : socket'[j].at # "new" /\ socket'[j].link # "open"
    BY <1>1, <1>2, <1>3, <2>1 DEF FollowInv, DeadIsGone
  <2>4. \A t \in Sessions : \A j \in subs'[t] : socket'[j].at # "new" /\ session'[t] # "new"
    BY <1>1, <1>2, <1>3, <1>4 DEF FollowInv, FollowShape, DeadIsGone
  <2>5. \A j \in Sockets : socket'[j].at # "new" => socket'[j].of \in Sessions /\ session'[socket'[j].of] # "new"
    BY <1>1, <1>2, <1>3 DEF FollowInv, DeadIsGone
  <2>6. QED BY <2>2, <2>3, <2>4, <2>5 DEF DeadIsGone
<1>8. EarlyIsSubscribed'
  <2> SUFFICES ASSUME NEW j \in Sockets, socket'[j].early, socket'[j].link = "open"
               PROVE  socket'[j].at # "new" /\ j \in subs'[socket'[j].of]
    BY DEF EarlyIsSubscribed
  <2>1. CASE j = k
    BY <1>2, <1>3, <1>4, <2>1
  <2>2. CASE j # k
    <3>1. socket[j].at # "new" /\ j \in subs[socket[j].of] /\ socket[j].of \in Sessions
      BY <1>3, <2>2 DEF FollowInv, EarlyIsSubscribed, DeadIsGone
    <3>2. QED BY <1>3, <1>4, <2>2, <3>1
  <2>3. QED BY <2>1, <2>2
<1>9. EndSoFar'
  <2> SUFFICES ASSUME NEW e \in Enders PROVE EndOf(e)'
    BY DEF EndSoFar
  <2>1. EndOf(e) /\ speaker[e].at \in {"new", "ready", "sending", "closing", "recording", "done"} /\ speaker'[e] = speaker[e]
    BY <1>1 DEF FollowInv, FollowShape, EndSoFar, SpeakerRecords, Speakers
  <2>2. \A j \in Sockets : socket'[j].of = speaker[e].of /\ socket'[j].early /\ speaker[e].of # "none" /\ speaker[e].at # "new" => j # k
    BY <1>2, <1>3, <2>1 DEF EndOf
  <2>3. QED BY <1>1, <1>3, <2>1, <2>2 DEF EndOf
<1>10. QED BY <1>5, <1>6, <1>7, <1>8, <1>9 DEF FollowInv

-----------------------------------------------------------------------------
(* What the streams do.                                                    *)
LEMMA StreamOpened ==
  ASSUME FollowInv, NEW q \in Streams, NEW s \in Sessions, TheSessions!OpenStream(q, s) PROVE FollowInv'
<1> DEFINE new == [of |-> s, at |-> "open", early |-> session[s] = "active"]
<1>1. /\ session[s] # "new" /\ stream[q].at = "new" /\ stream' = [stream EXCEPT ![q] = new]
      /\ queues' = [queues EXCEPT ![s] = @ \cup {q}] /\ UNCHANGED <<session, subs, socket, queue, speaker>>
  BY DEF TheSessions!OpenStream, TheSessions!tableVars
<1>2. new \in StreamRecords /\ new.of = s /\ new.at = "open" /\ new.early = (session[s] = "active")
  BY DEF StreamRecords
<1> HIDE DEF new
<1>3. stream' \in [Streams -> StreamRecords] /\ stream'[q] = new /\ \A r \in Streams \ {q} : stream'[r] = stream[r]
  BY <1>1, <1>2 DEF FollowInv, FollowShape
<1>4. /\ queues' \in [Sessions -> SUBSET Streams] /\ queues'[s] = queues[s] \cup {q}
      /\ \A t \in Sessions \ {s} : queues'[t] = queues[t]
  BY <1>1 DEF FollowInv, FollowShape
<1>5. FollowShape'
  BY <1>1, <1>3, <1>4 DEF FollowInv, FollowShape
<1>6. OpenIsQueued'
  <2>1. \A r \in Streams : stream'[r].at = "open" => stream'[r].of \in Sessions /\ r \in queues'[stream'[r].of]
    BY <1>2, <1>3, <1>4 DEF FollowInv, OpenIsQueued
  <2>2. \A t \in Sessions : \A r \in queues'[t] : stream'[r].at = "open" /\ stream'[r].of = t /\ session'[t] # "new"
    BY <1>1, <1>2, <1>3, <1>4 DEF FollowInv, FollowShape, OpenIsQueued
  <2>3. QED BY <2>1, <2>2 DEF OpenIsQueued
<1>7. ReplySoFar'
  <2> SUFFICES ASSUME NEW p \in Prompts PROVE ReplyOf(p)'
    BY DEF ReplySoFar
  <2>1. ReplyOf(p) /\ speaker'[p] = speaker[p] /\ speaker[p].for \subseteq Streams
    BY <1>1 DEF FollowInv, FollowShape, ReplySoFar, SpeakerRecords, Speakers
  <2>2. \A r \in speaker[p].for : r # q /\ stream'[r] = stream[r]
    BY <1>1, <1>3, <2>1 DEF ReplyOf
  <2>3. \A r \in Streams : TheSessions!Heard(r, p)' = TheSessions!Heard(r, p)
    BY <1>1 DEF TheSessions!Heard
  <2>4. ASSUME NEW r \in Streams, TheSessions!InOrder(r, p, Broadcasts(p)) PROVE TheSessions!InOrder(r, p, Broadcasts(p))'
    BY <1>1, <2>1, <2>4 DEF TheSessions!InOrder, TheSessions!Heard, Broadcasts
  <2>5. QED BY <2>1, <2>2, <2>3, <2>4 DEF ReplyOf
<1>8. DeadIsGone' /\ EarlyIsSubscribed'
  BY <1>1 DEF FollowInv, DeadIsGone, EarlyIsSubscribed
<1>9. EndSoFar'
  <2> SUFFICES ASSUME NEW e \in Enders PROVE EndOf(e)'
    BY DEF EndSoFar
  <2>1. EndOf(e) /\ speaker[e].at \in {"new", "ready", "sending", "closing", "recording", "done"} /\ speaker'[e] = speaker[e]
    BY <1>1 DEF FollowInv, FollowShape, EndSoFar, SpeakerRecords, Speakers
  <2>2. \A r \in Streams : stream'[r].of = speaker[e].of /\ stream'[r].early /\ speaker[e].of # "none" /\ speaker[e].at # "new" => r # q
    BY <1>2, <1>3, <2>1 DEF EndOf
  <2>3. QED BY <1>1, <1>3, <2>1, <2>2 DEF EndOf
<1>10. QED BY <1>5, <1>6, <1>7, <1>8, <1>9 DEF FollowInv

LEMMA StreamClosed ==
  ASSUME FollowInv, NEW q \in Streams, stream[q].at = "open", TheSessions!CloseStream(q),
         UNCHANGED <<session, subs, socket, queue, speaker>>
  PROVE  FollowInv'
<1>1. stream' = [stream EXCEPT ![q].at = "ended"] /\ queues' = [queues EXCEPT ![stream[q].of] = @ \ {q}]
  BY DEF TheSessions!CloseStream
<1>2. /\ stream' \in [Streams -> StreamRecords] /\ stream'[q].at = "ended" /\ stream'[q].of = stream[q].of
      /\ stream'[q].early = stream[q].early /\ \A r \in Streams \ {q} : stream'[r] = stream[r]
  BY <1>1 DEF FollowInv, FollowShape, StreamRecords
<1>3. /\ queues' \in [Sessions -> SUBSET Streams] /\ stream[q].of \in Sessions
      /\ queues'[stream[q].of] = queues[stream[q].of] \ {q}
      /\ \A t \in Sessions \ {stream[q].of} : queues'[t] = queues[t]
  BY <1>1 DEF FollowInv, FollowShape, OpenIsQueued
<1>4. SocketsKeep /\ SessionsKeep /\ (\A e \in Enders : EnderKeeps(e)) /\ \A p \in Prompts : PromptKeeps(p)
  BY LeftAlone
<1>5. StreamsKeep
  <2>1. \A r \in Streams : \A i \in DOMAIN queue[r] : i \in DOMAIN queue'[r] /\ queue'[r][i] = queue[r][i]
    OBVIOUS
  <2>2. QED BY <1>2, <2>1 DEF StreamsKeep, FollowInv, FollowShape
<1>6. FollowShape'
  BY <1>2, <1>3 DEF FollowInv, FollowShape
<1>7. OpenIsQueued'
  <2>1. \A r \in Streams : stream'[r].at = "open" => stream'[r].of \in Sessions /\ r \in queues'[stream'[r].of]
    BY <1>2, <1>3 DEF FollowInv, OpenIsQueued
  <2>2. \A t \in Sessions : \A r \in queues'[t] : stream'[r].at = "open" /\ stream'[r].of = t /\ session'[t] # "new"
    <3>1. \A t \in Sessions : \A r \in queues[t] : stream[r].at = "open" /\ stream[r].of = t /\ session[t] # "new" /\ r \in Streams
      BY DEF FollowInv, FollowShape, OpenIsQueued
    <3>2. \A t \in Sessions : \A r \in queues'[t] : r \in queues[t] /\ r # q
      BY <1>3, <3>1
    <3>3. QED BY <1>2, <3>1, <3>2
  <2>3. QED BY <2>1, <2>2 DEF OpenIsQueued
<1>8. ReplySoFar' /\ EarlyIsSubscribed' /\ EndSoFar'
  BY <1>4, <1>5, RepliesStay, EarlyStays, EndStays DEF EndSoFar
<1>9. DeadIsGone'
  BY DEF FollowInv, DeadIsGone
<1>10. QED BY <1>6, <1>7, <1>8, <1>9 DEF FollowInv

LEMMA StreamRead ==
  ASSUME FollowInv, NEW q \in Streams, TheSessions!Yield(q) \/ TheSessions!Abandon(q) PROVE FollowInv'
<1>1. UNCHANGED <<session, subs, socket, queue, speaker>> /\ stream[q].at = "open"
  BY DEF TheSessions!Yield, TheSessions!Abandon, TheSessions!tableVars
<1>2. TheSessions!CloseStream(q) \/ UNCHANGED <<stream, queues>>
  BY DEF TheSessions!Yield, TheSessions!Abandon
<1>3. CASE UNCHANGED <<stream, queues>>
  BY <1>1, <1>3, LeftAlone, OthersGoOn
<1>4. QED BY <1>1, <1>2, <1>3, StreamClosed

-----------------------------------------------------------------------------
(* What a prompt goes through.                                             *)
LEMMA PromptBegun ==
  ASSUME FollowInv, TheSessions!SessionsAssumption, NEW s \in Sessions,
         \/ TheSessions!Started(s)
         \/ \E p \in Prompts : TheSessions!PostMessage(p, s)
  PROVE  FollowInv'
<1>1. UNCHANGED <<session, subs, queues, socket, stream, queue>>
  BY DEF TheSessions!Started, TheSessions!PostMessage, TheSessions!tableVars, TheSessions!streamVars
<1>2. SocketsKeep /\ SessionsKeep
  BY <1>1, LeftAlone
<1>3. \/ UNCHANGED speaker
      \/ \E p \in Prompts : speaker[p].at = "new" /\ speaker' = [speaker EXCEPT ![p] = TheSessions!Dispatched(s, "task")]
  BY DEF TheSessions!Started, TheSessions!PostMessage
<1>4. CASE UNCHANGED speaker
  BY <1>1, <1>2, <1>4, OthersGoOn
<1>5. ASSUME NEW p \in Prompts, speaker[p].at = "new",
             speaker' = [speaker EXCEPT ![p] = TheSessions!Dispatched(s, "task")]
      PROVE  FollowInv'
  <2>1. "task" \notin Sockets
    BY DEF TheSessions!SessionsAssumption
  <2>2. QED BY <1>1, <1>2, <1>5, <2>1, DispatchBegins
<1>6. QED BY <1>3, <1>4, <1>5

LEMMA PromptChatted ==
  ASSUME FollowInv, TheSessions!SessionsAssumption, NEW p \in Prompts, NEW k \in Sockets, TheSessions!Chat(k, p)
  PROVE  FollowInv'
<1>1. /\ socket[k].at = "reading" /\ speaker[p].at = "new"
      /\ speaker' = [speaker EXCEPT ![p] = TheSessions!Dispatched(socket[k].of, k)]
      /\ socket' = [socket EXCEPT ![k].at = "dispatching"]
      /\ UNCHANGED <<session, subs, queues, stream, queue>>
  BY DEF TheSessions!Chat, TheSessions!tableVars, TheSessions!streamVars
<1>2. /\ socket' \in [Sockets -> SocketRecords]
      /\ \A j \in Sockets : /\ socket'[j].of = socket[j].of /\ socket'[j].early = socket[j].early
                            /\ socket'[j].link = socket[j].link /\ (socket'[j].at = "new" <=> socket[j].at = "new")
  BY <1>1 DEF FollowInv, FollowShape, SocketRecords
<1>3. SocketsKeep
  BY <1>1, <1>2 DEF SocketsKeep, FollowInv, FollowShape
<1>4. socket[k].of \in Sessions
  BY <1>1 DEF FollowInv, DeadIsGone
<1>5. QED BY <1>1, <1>3, <1>4, DispatchBegins

LEMMA PromptBroadcasts ==
  ASSUME FollowInv, TheSessions!SessionsAssumption, NEW p \in Prompts, TheSessions!Broadcast(p) PROVE FollowInv'
<1> DEFINE r == [speaker[p] EXCEPT !.at = "sending", !.step = @ + 1, !.todo = subs[speaker[p].of]]
<1>1. /\ speaker[p].at = "ready" /\ speaker' = [speaker EXCEPT ![p] = r]
      /\ UNCHANGED <<session, subs, queues, socket, stream, queue>>
  BY DEF TheSessions!Broadcast, TheSessions!tableVars, TheSessions!streamVars
<1>2. /\ p \in Speakers /\ speaker[p] \in SpeakerRecords /\ speaker[p].of \in Sessions
      /\ subs[speaker[p].of] \in SUBSET Sockets /\ speaker[p].step + 1 \in 0..ReplySteps
  <2>1. p \in Speakers
    BY DEF Speakers
  <2>2. speaker[p] \in SpeakerRecords /\ speaker[p].of \in Sessions /\ subs[speaker[p].of] \in SUBSET Sockets
    BY <1>1, <2>1 DEF FollowInv, FollowShape
  <2>3. speaker[p].step \in 0..ReplySteps /\ speaker[p].step < ReplySteps /\ ReplySteps \in Nat
    BY <1>1, <2>2 DEF SpeakerRecords, FollowInv, ReplySoFar, ReplyOf, TheSessions!SessionsAssumption
  <2>4. QED BY <2>1, <2>2, <2>3
<1>3. /\ r \in SpeakerRecords /\ r.of = speaker[p].of /\ r.by = speaker[p].by /\ r.at = "sending"
      /\ r.step = speaker[p].step + 1 /\ r.todo = subs[speaker[p].of] /\ r.dead = speaker[p].dead /\ r.for = speaker[p].for
  BY <1>2 DEF SpeakerRecords
<1> HIDE DEF r
<1>4. SocketsKeep /\ SessionsKeep /\ StreamsKeep
  BY <1>1, LeftAlone
<1>5. /\ FollowShape' /\ OpenIsQueued' /\ DeadIsGone' /\ EarlyIsSubscribed'
      /\ speaker'[p] = r /\ (\A e \in Enders : EndOf(e)') /\ \A o \in Prompts \ {p} : PromptKeeps(o)
  <2>1. /\ r.by \in Sockets => socket[r.by].at # "new"
        /\ \A k \in r.todo : socket[k].at # "new"
        /\ \A k \in r.dead : socket[k].at # "new" /\ socket'[k].link # "open"
    BY <1>1, <1>2, <1>3 DEF FollowInv, DeadIsGone
  <2>2. QED BY <1>1, <1>2, <1>3, <1>4, <2>1, SpeakerMoves
<1>6. ReplyOf(p)'
  <2>1. ReplyOf(p) /\ speaker[p].step \in 0..ReplySteps
    BY <1>2 DEF FollowInv, ReplySoFar, SpeakerRecords
  <2>2. Broadcasts(p) = speaker[p].step /\ Broadcasts(p)' = speaker[p].step
    BY <1>1, <1>3, <1>5, <2>1 DEF Broadcasts
  <2>3. ASSUME NEW q, TheSessions!InOrder(q, p, Broadcasts(p)) PROVE TheSessions!InOrder(q, p, Broadcasts(p))'
    BY <1>1, <2>2, <2>3 DEF TheSessions!InOrder, TheSessions!Heard
  <2>4. speaker[p].step + 1 > 0 /\ speaker[p].step + 1 <= ReplySteps
    BY <1>2, <2>1 DEF TheSessions!SessionsAssumption
  <2>5. QED BY <1>1, <1>3, <1>5, <2>1, <2>3, <2>4 DEF ReplyOf
<1>7. ReplySoFar'
  BY <1>1, <1>4, <1>5, <1>6, ReplyStays DEF ReplySoFar
<1>8. QED BY <1>5, <1>7 DEF FollowInv, EndSoFar

(* The put of a broadcast drops the dead sockets, tells the queues, and    *)
(* lets the socket read on when it was the last.                           *)
LEMMA PromptPut ==
  ASSUME FollowInv, TheSessions!SessionsAssumption, NEW p \in Prompts, TheSessions!Put(p) PROVE FollowInv'
<1> DEFINE s == speaker[p].of  n == speaker[p].step
           a == IF n = ReplySteps THEN "done" ELSE "ready"
           r == [speaker[p] EXCEPT !.dead = {}, !.at = a]
<1>1. /\ speaker[p].at = "sending" /\ speaker' = [speaker EXCEPT ![p] = r]
      /\ subs' = [subs EXCEPT ![s] = @ \ speaker[p].dead]
      /\ queue' = TheSessions!Queued(s, <<p, n>>)
      /\ socket' = [k \in Sockets |-> IF n = ReplySteps /\ k = speaker[p].by THEN [socket[k] EXCEPT !.at = "reading"] ELSE socket[k]]
      /\ UNCHANGED <<session, queues, stream>>
  BY DEF TheSessions!Put, TheSessions!Sent, TheSessions!tableVars
<1>2. p \in Speakers /\ speaker[p] \in SpeakerRecords /\ s \in Sessions /\ n \in 0..ReplySteps /\ a \in {"ready", "done"}
  <2>1. p \in Speakers
    BY DEF Speakers
  <2>2. speaker[p] \in SpeakerRecords /\ s \in Sessions
    BY <1>1, <2>1 DEF FollowInv, FollowShape
  <2>3. QED BY <2>1, <2>2 DEF SpeakerRecords
<1>3. /\ r \in SpeakerRecords /\ r.of = s /\ r.by = speaker[p].by /\ r.at = a
      /\ r.step = n /\ r.todo = speaker[p].todo /\ r.dead = {} /\ r.for = speaker[p].for
  BY <1>2 DEF SpeakerRecords
<1>4. n > 0 /\ n <= ReplySteps /\ ReplySteps \in Nat /\ n \in Nat /\ n - 1 \in Nat
  BY <1>1, <1>2 DEF FollowInv, ReplySoFar, ReplyOf, TheSessions!SessionsAssumption
<1>5. \A q \in Streams : queue'[q] = IF q \in queues[s] THEN Append(queue[q], <<p, n>>) ELSE queue[q]
  BY <1>1 DEF TheSessions!Queued
<1>6. a = "ready" => n < ReplySteps
  BY <1>4
<1>7. a = "done" => n = ReplySteps
  OBVIOUS
<1>8. /\ socket' \in [Sockets -> SocketRecords]
      /\ \A k \in Sockets : /\ socket'[k].of = socket[k].of /\ socket'[k].early = socket[k].early
                            /\ socket'[k].link = socket[k].link /\ (socket'[k].at = "new" <=> socket[k].at = "new")
  <2>1. \A k \in Sockets : k = speaker[p].by => socket[k].at # "new"
    BY <1>2 DEF FollowInv, DeadIsGone
  <2>2. \A k \in Sockets : \/ socket'[k] = socket[k]
                           \/ socket[k].at # "new" /\ socket'[k] = [socket[k] EXCEPT !.at = "reading"]
    BY <1>1, <2>1
  <2>3. ASSUME NEW k \in Sockets
        PROVE  /\ socket'[k] \in SocketRecords
               /\ socket'[k].of = socket[k].of /\ socket'[k].early = socket[k].early
               /\ socket'[k].link = socket[k].link /\ (socket'[k].at = "new" <=> socket[k].at = "new")
    <3>1. socket[k] \in SocketRecords
      BY DEF FollowInv, FollowShape
    <3>2. CASE socket'[k] = socket[k]
      BY <3>1, <3>2
    <3>3. CASE socket[k].at # "new" /\ socket'[k] = [socket[k] EXCEPT !.at = "reading"]
      BY <3>1, <3>3 DEF SocketRecords
    <3>4. QED BY <2>2, <3>2, <3>3
  <2>4. DOMAIN socket' = Sockets /\ socket' = [k \in Sockets |-> socket'[k]]
    BY <1>1
  <2>5. QED BY <2>3, <2>4
<1> HIDE DEF r, a
<1>9. SocketsKeep
  <2>1. /\ subs' \in [Sessions -> SUBSET Sockets]
        /\ \A t \in Sessions : subs'[t] \subseteq subs[t] /\ subs[t] \ subs'[t] \subseteq speaker[p].dead
    BY <1>1 DEF FollowInv, FollowShape
  <2>2. \A k \in speaker[p].dead : k \in Sockets /\ socket[k].link # "open"
    BY <1>2 DEF FollowInv, DeadIsGone, SpeakerRecords
  <2>3. QED BY <1>8, <2>1, <2>2 DEF SocketsKeep
<1>10. SessionsKeep /\ StreamsKeep
  <2>1. <<p, n>> \in Speakers \X Nat
    BY <1>2, <1>4
  <2>2. QED BY <1>1, <1>5, <2>1, QueuesGrow, LeftAlone
<1>11. /\ FollowShape' /\ OpenIsQueued' /\ DeadIsGone' /\ EarlyIsSubscribed'
       /\ speaker'[p] = r /\ (\A e \in Enders : EndOf(e)') /\ \A o \in Prompts \ {p} : PromptKeeps(o)
  <2>1. /\ r.by \in Sockets => socket[r.by].at # "new"
        /\ \A k \in r.todo : socket[k].at # "new"
    BY <1>2, <1>3 DEF FollowInv, DeadIsGone
  <2>2. QED BY <1>1, <1>2, <1>3, <1>9, <1>10, <2>1, SpeakerMoves
<1>12. ReplyOf(p)'
  <2>1. ReplyOf(p) /\ Broadcasts(p) = n - 1 /\ Broadcasts(p)' = n /\ speaker[p].for \subseteq Streams
    BY <1>1, <1>2, <1>3, <1>11 DEF FollowInv, ReplySoFar, SpeakerRecords, Broadcasts
  <2>2. ASSUME NEW q \in speaker[p].for, stream'[q].at = "open" PROVE TheSessions!InOrder(q, p, Broadcasts(p))'
    <3>1. stream[q].of = s /\ TheSessions!InOrder(q, p, n - 1)
      BY <1>1, <2>1, <2>2 DEF ReplyOf
    <3>2. q \in queues[s] /\ queue[q] \in Seq(Speakers \X Nat)
      BY <1>1, <2>1, <2>2, <3>1 DEF FollowInv, FollowShape, OpenIsQueued
    <3>3. PICK k \in Nat : k = n - 1 /\ k + 1 = n
      BY <1>4
    <3>4. queue'[q] = Append(queue[q], <<p, k + 1>>) /\ TheSessions!InOrder(q, p, k)
      BY <1>5, <2>1, <3>1, <3>2, <3>3
    <3>5. TheSessions!InOrder(q, p, k + 1)'
      BY <1>2, <3>2, <3>4, NextIsHeard
    <3>6. QED BY <2>1, <3>3, <3>5
  <2>3. QED BY <1>1, <1>2, <1>3, <1>4, <1>6, <1>7, <1>11, <2>1, <2>2 DEF ReplyOf
<1>13. ReplySoFar'
  <2>1. ASSUME NEW o \in Prompts \ {p} PROVE ReplyOf(o)'
    <3>1. \A q \in Streams : \/ queue'[q] = queue[q]
                             \/ \E e \in Speakers \ {o}, m \in Nat : queue'[q] = Append(queue[q], <<e, m>>)
      BY <1>2, <1>4, <1>5
    <3>2. QED BY <1>10, <1>11, <3>1, ReplyStays
  <2>2. QED BY <1>12, <2>1 DEF ReplySoFar
<1>14. QED BY <1>11, <1>13 DEF FollowInv, EndSoFar

-----------------------------------------------------------------------------
(* What a termination goes through.                                        *)
LEMMA Spoken ==
  ASSUME FollowInv, TheSessions!SessionsAssumption, NEW x \in Speakers, NEW k \in Sockets, TheSessions!SendTo(x, k)
  PROVE  FollowInv'
<1>1. /\ speaker[x].at = "sending" /\ k \in speaker[x].todo
      /\ UNCHANGED <<session, subs, queues, socket, stream, queue>>
  BY DEF TheSessions!SendTo, TheSessions!tableVars, TheSessions!streamVars
<1>2. PICK failed \in TheSessions!Fails(k) :
        speaker' = [speaker EXCEPT ![x].todo = @ \ {k}, ![x].dead = IF failed THEN @ \cup {k} ELSE @]
  BY DEF TheSessions!SendTo
<1>3. failed => socket[k].link # "open"
  <2>1. socket[k].link = "open" => TheSessions!Fails(k) = {FALSE}
    BY DEF TheSessions!Fails
  <2>2. QED BY <1>2, <2>1
<1> DEFINE d == IF failed THEN speaker[x].dead \cup {k} ELSE speaker[x].dead
           r == [speaker[x] EXCEPT !.todo = @ \ {k}, !.dead = d]
<1>4. speaker[x] \in SpeakerRecords /\ speaker[x].of \in Sessions
  BY <1>1 DEF FollowInv, FollowShape
<1>5. d \subseteq speaker[x].dead \cup {k} /\ (k \in d => k \in speaker[x].dead \/ failed) /\ d \in SUBSET Sockets
  BY <1>4 DEF SpeakerRecords
<1>6. speaker' = [speaker EXCEPT ![x] = r]
  BY <1>2, <1>4 DEF FollowInv, FollowShape, SpeakerRecords
<1> HIDE DEF d
<1>7. /\ r \in SpeakerRecords /\ r.of = speaker[x].of /\ r.by = speaker[x].by /\ r.at = "sending"
      /\ r.step = speaker[x].step /\ r.todo \subseteq speaker[x].todo /\ r.dead = d /\ r.for = speaker[x].for
  BY <1>1, <1>4, <1>5 DEF SpeakerRecords
<1> HIDE DEF r
<1>8. SocketsKeep /\ SessionsKeep /\ StreamsKeep
  BY <1>1, LeftAlone
<1>9. /\ FollowShape' /\ OpenIsQueued' /\ DeadIsGone' /\ EarlyIsSubscribed'
      /\ speaker'[x] = r /\ (\A e \in Enders \ {x} : EndOf(e)') /\ \A p \in Prompts \ {x} : PromptKeeps(p)
  <2>1. /\ r.by \in Sockets => socket[r.by].at # "new"
        /\ \A j \in r.todo : socket[j].at # "new"
        /\ \A j \in r.dead : socket[j].at # "new" /\ socket'[j].link # "open"
    BY <1>1, <1>3, <1>5, <1>7 DEF FollowInv, DeadIsGone
  <2>2. QED BY <1>1, <1>4, <1>6, <1>7, <1>8, <2>1, SpeakerMoves
<1>10. \A p \in Prompts : PromptKeeps(p)
  BY <1>1, <1>7, <1>9 DEF PromptKeeps
<1>11. x \in Enders => EndOf(x)'
  <2>1. EnderKeeps(x)
    BY <1>1, <1>7, <1>9 DEF EnderKeeps
  <2>2. QED BY <1>8, <2>1, EndStays
<1>12. QED BY <1>1, <1>8, <1>9, <1>10, <1>11, RepliesStay DEF FollowInv, EndSoFar

(* The step of a termination.                                              *)
LEMMA EnderMoves ==
  ASSUME FollowInv, TheSessions!SessionsAssumption, SocketsKeep, SessionsKeep, StreamsKeep, UNCHANGED <<stream, queues>>,
         NEW e \in Enders, NEW r \in SpeakerRecords, speaker' = [speaker EXCEPT ![e] = r],
         r.at \in {"ready", "sending", "closing", "recording"} => r.of \in Sessions,
         r.by \in Sockets => socket[r.by].at # "new",
         \A k \in r.todo : socket[k].at # "new",
         \A k \in r.dead : socket[k].at # "new" /\ socket'[k].link # "open",
         \/ queue' = queue
         \/ \E s : \E n \in Nat : queue' = TheSessions!Queued(s, <<e, n>>),
         EndOf(e)'
  PROVE  FollowInv'
<1>1. e \in Speakers
  BY DEF Speakers
<1>2. /\ FollowShape' /\ OpenIsQueued' /\ DeadIsGone' /\ EarlyIsSubscribed' /\ EndSoFar'
      /\ e \notin Prompts /\ \A p \in Prompts : PromptKeeps(p)
  BY <1>1, SpeakerMoves DEF EndSoFar
<1>3. ASSUME NEW p \in Prompts PROVE ReplyOf(p)'
  <2>1. \A q \in Streams : \/ queue'[q] = queue[q]
                           \/ \E y \in Speakers \ {p}, n \in Nat : queue'[q] = Append(queue[q], <<y, n>>)
    BY <1>1, <1>2 DEF TheSessions!Queued
  <2>2. QED BY <1>2, <2>1, ReplyStays
<1>4. QED BY <1>2, <1>3 DEF FollowInv, ReplySoFar

LEMMA SessionTerminated ==
  ASSUME FollowInv, TheSessions!SessionsAssumption, NEW e \in Enders, NEW s \in Sessions, TheSessions!Terminate(e, s)
  PROVE  FollowInv'
<1> DEFINE r == [TheSessions!Silent EXCEPT !.of = s, !.at = "sending", !.todo = subs[s]]
<1>1. /\ session[s] \in {"active", "terminated"} /\ session' = [session EXCEPT ![s] = "terminated"]
      /\ speaker' = [speaker EXCEPT ![e] = r] /\ UNCHANGED <<subs, queues, socket, stream, queue>>
  BY DEF TheSessions!Terminate, TheSessions!streamVars
<1>2. subs[s] \in SUBSET Sockets /\ TheSessions!Silent \in SpeakerRecords
  BY DEF FollowInv, FollowShape, TheSessions!Silent, SpeakerRecords, TheSessions!SessionsAssumption
<1>3. TheSessions!Silent.by = "none" /\ TheSessions!Silent.dead = {}
  BY DEF TheSessions!Silent
<1>4. r \in SpeakerRecords /\ r.of = s /\ r.by = "none" /\ r.at = "sending" /\ r.todo = subs[s] /\ r.dead = {}
  BY <1>2, <1>3 DEF SpeakerRecords
<1> HIDE DEF r
<1>5. SocketsKeep /\ StreamsKeep
  BY <1>1, LeftAlone
<1>6. SessionsKeep /\ session'[s] = "terminated"
  BY <1>1 DEF FollowInv, FollowShape, SessionsKeep
<1>7. speaker'[e] = r
  BY <1>1 DEF FollowInv, FollowShape, Speakers
<1>8. EndOf(e)'
  BY <1>4, <1>6, <1>7 DEF EndOf
<1>9. \A k \in r.todo : socket[k].at # "new"
  BY <1>4 DEF FollowInv, DeadIsGone
<1>10. "none" \notin Sockets
  BY DEF TheSessions!SessionsAssumption
<1>11. QED BY <1>1, <1>4, <1>5, <1>6, <1>8, <1>9, <1>10, EnderMoves

(* When its event is sent, a termination has everybody to close who came   *)
(* in time and is there still, and every stream has been told.             *)
LEMMA EndAnnounced ==
  ASSUME FollowInv, TheSessions!SessionsAssumption, NEW e \in Enders, TheSessions!Announced(e) PROVE FollowInv'
<1> DEFINE s == speaker[e].of  left == subs[s] \ speaker[e].dead
           r == [speaker[e] EXCEPT !.at = "closing", !.todo = left, !.dead = {}]
<1>1. /\ speaker[e].at = "sending" /\ speaker' = [speaker EXCEPT ![e] = r] /\ subs' = [subs EXCEPT ![s] = left]
      /\ queue' = TheSessions!Queued(s, <<e, 0>>) /\ UNCHANGED <<session, queues, socket, stream>>
  BY DEF TheSessions!Announced, TheSessions!Sent, TheSessions!tableVars
<1>2. e \in Speakers /\ speaker[e] \in SpeakerRecords /\ s \in Sessions /\ left \in SUBSET Sockets
  <2>1. e \in Speakers
    BY DEF Speakers
  <2>2. QED BY <1>1, <2>1 DEF FollowInv, FollowShape
<1>3. r \in SpeakerRecords /\ r.of = s /\ r.by = speaker[e].by /\ r.at = "closing" /\ r.todo = left /\ r.dead = {}
  BY <1>2 DEF SpeakerRecords
<1> HIDE DEF r
<1>4. SocketsKeep
  <2>1. /\ subs' \in [Sessions -> SUBSET Sockets] /\ subs'[s] = left
        /\ \A t \in Sessions : subs'[t] \subseteq subs[t] /\ subs[t] \ subs'[t] \subseteq speaker[e].dead
    BY <1>1, <1>2 DEF FollowInv, FollowShape
  <2>2. \A k \in speaker[e].dead : k \in Sockets /\ socket[k].link # "open"
    BY <1>2 DEF FollowInv, DeadIsGone, SpeakerRecords
  <2>3. QED BY <1>1, <2>1, <2>2 DEF SocketsKeep, FollowInv, FollowShape
<1>5. \A q \in Streams : queue'[q] = IF q \in queues[s] THEN Append(queue[q], <<e, 0>>) ELSE queue[q]
  BY <1>1 DEF TheSessions!Queued
<1>6. SessionsKeep /\ StreamsKeep
  <2>1. <<e, 0>> \in Speakers \X Nat
    BY <1>2
  <2>2. QED BY <1>1, <1>5, <2>1, QueuesGrow, LeftAlone
<1>7. speaker'[e] = r
  BY <1>1 DEF FollowInv, FollowShape, Speakers
<1>8. EndOf(e)'
  <2>1. EarlyIsSubscribed'
    BY <1>4, EarlyStays
  <2>2. session'[s] \in {"terminated", "forgotten"}
    <3>1. EndOf(e) /\ s # "none"
      BY <1>2 DEF FollowInv, EndSoFar, TheSessions!SessionsAssumption
    <3>2. QED BY <1>1, <3>1 DEF EndOf
  <2>3. \A k \in Sockets : socket'[k].of = s /\ socket'[k].early /\ socket'[k].link = "open" => k \in left
    <3>1. subs'[s] = left
      BY <1>1, <1>2 DEF FollowInv, FollowShape
    <3>2. QED BY <2>1, <3>1 DEF EarlyIsSubscribed
  <2>4. ASSUME NEW q \in Streams, stream'[q].of = s, stream'[q].at = "open"
        PROVE  \E i \in DOMAIN queue'[q] : queue'[q][i][1] \in Enders
    <3>1. q \in queues[s] /\ queue[q] \in Seq(Speakers \X Nat)
      BY <1>1, <2>4 DEF FollowInv, FollowShape, OpenIsQueued
    <3>2. queue'[q] = Append(queue[q], <<e, 0>>)
      BY <1>5, <3>1
    <3>3. Len(queue[q]) + 1 \in DOMAIN queue'[q] /\ queue'[q][Len(queue[q]) + 1] = <<e, 0>>
      BY <3>1, <3>2
    <3>4. <<e, 0>>[1] = e
      OBVIOUS
    <3>5. QED BY <3>3, <3>4
  <2>5. speaker'[e].of = s /\ speaker'[e].at = "closing" /\ speaker'[e].todo = left
    BY <1>3, <1>7
  <2> HIDE DEF s, left
  <2>6. QED BY <2>2, <2>3, <2>4, <2>5 DEF EndOf
<1>9. /\ \A k \in r.todo : socket[k].at # "new"
      /\ r.by \in Sockets => socket[r.by].at # "new"
  BY <1>2, <1>3 DEF FollowInv, DeadIsGone
<1>10. QED BY <1>1, <1>2, <1>3, <1>4, <1>6, <1>8, <1>9, EnderMoves

LEMMA SocketClosed ==
  ASSUME FollowInv, TheSessions!SessionsAssumption, NEW e \in Enders, NEW k \in Sockets, TheSessions!CloseSocket(e, k)
  PROVE  FollowInv'
<1> DEFINE r == [speaker[e] EXCEPT !.todo = @ \ {k}]
           l == IF socket[k].link = "open" THEN "closed" ELSE socket[k].link
<1>1. /\ speaker[e].at = "closing" /\ k \in speaker[e].todo
      /\ speaker' = [speaker EXCEPT ![e] = r] /\ socket' = [socket EXCEPT ![k].link = l]
      /\ UNCHANGED <<session, subs, queues, stream, queue>>
  <2>1. /\ speaker[e].at = "closing" /\ k \in speaker[e].todo
        /\ speaker' = [speaker EXCEPT ![e].todo = @ \ {k}]
        /\ socket' = [socket EXCEPT ![k].link = IF @ = "open" THEN "closed" ELSE @]
        /\ UNCHANGED <<session, subs, queues, stream, queue>>
    BY DEF TheSessions!CloseSocket, TheSessions!tableVars, TheSessions!streamVars
  <2>2. QED BY <2>1
<1>2. e \in Speakers /\ speaker[e] \in SpeakerRecords /\ speaker[e].of \in Sessions
  <2>1. e \in Speakers
    BY DEF Speakers
  <2>2. QED BY <1>1, <2>1 DEF FollowInv, FollowShape
<1>3. /\ r \in SpeakerRecords /\ r.of = speaker[e].of /\ r.by = speaker[e].by /\ r.at = "closing"
      /\ r.todo = speaker[e].todo \ {k} /\ r.dead = speaker[e].dead
  BY <1>1, <1>2 DEF SpeakerRecords
<1> HIDE DEF r
<1>4. l \in {"none", "lost", "closed"}
  BY DEF FollowInv, FollowShape, SocketRecords
<1> HIDE DEF l
<1>5. /\ socket' \in [Sockets -> SocketRecords] /\ socket'[k].link # "open"
      /\ \A j \in Sockets : /\ socket'[j].of = socket[j].of /\ socket'[j].early = socket[j].early
                            /\ (socket'[j].link = "open" => socket[j].link = "open")
                            /\ socket'[j].at = socket[j].at
  <2>1. socket \in [Sockets -> SocketRecords] /\ socket[k] \in SocketRecords
    BY DEF FollowInv, FollowShape
  <2> DEFINE new == [socket[k] EXCEPT !.link = l]
  <2>2. /\ new \in SocketRecords /\ new.link = l /\ new.of = socket[k].of /\ new.early = socket[k].early
        /\ new.at = socket[k].at
    BY <1>4, <2>1 DEF SocketRecords
  <2>3. socket' = [socket EXCEPT ![k] = new]
    BY <1>1
  <2> HIDE DEF new
  <2>4. /\ socket' \in [Sockets -> SocketRecords] /\ socket'[k] = new
        /\ \A j \in Sockets \ {k} : socket'[j] = socket[j]
    BY <2>1, <2>2, <2>3
  <2>5. QED BY <1>4, <2>2, <2>4
<1>6. SocketsKeep
  BY <1>1, <1>5 DEF SocketsKeep, FollowInv, FollowShape
<1>7. SessionsKeep /\ StreamsKeep
  BY <1>1, LeftAlone
<1>8. speaker'[e] = r
  BY <1>1 DEF FollowInv, FollowShape, Speakers
<1>9. EndOf(e)'
  <2>1. EndOf(e)
    BY DEF FollowInv, EndSoFar
  <2>2. QED BY <1>1, <1>3, <1>5, <1>8, <2>1 DEF EndOf
<1>10. /\ \A j \in r.todo : socket[j].at # "new"
       /\ r.by \in Sockets => socket[r.by].at # "new"
  BY <1>2, <1>3 DEF FollowInv, DeadIsGone
<1>11. \A j \in r.dead : socket[j].at # "new" /\ socket'[j].link # "open"
  BY <1>2, <1>3, <1>5 DEF FollowInv, DeadIsGone, SpeakerRecords
<1>12. QED BY <1>1, <1>2, <1>3, <1>6, <1>7, <1>9, <1>10, <1>11, EnderMoves

(* What is left of the sockets when the last of the copy is closed came    *)
(* too late or is gone.                                                    *)
LEMMA EndClosed ==
  ASSUME FollowInv, TheSessions!SessionsAssumption, NEW e \in Enders, TheSessions!Closed(e) PROVE FollowInv'
<1> DEFINE s == speaker[e].of  r == [speaker[e] EXCEPT !.at = "recording"]
<1>1. /\ speaker[e].at = "closing" /\ speaker[e].todo = {} /\ speaker' = [speaker EXCEPT ![e] = r]
      /\ subs' = [subs EXCEPT ![s] = {}] /\ UNCHANGED <<session, queues, socket, stream, queue>>
  <2>1. /\ speaker[e].at = "closing" /\ speaker[e].todo = {} /\ speaker' = [speaker EXCEPT ![e].at = "recording"]
        /\ subs' = [subs EXCEPT ![s] = {}] /\ UNCHANGED <<session, queues, socket, stream, queue>>
    BY DEF TheSessions!Closed, TheSessions!tableVars, TheSessions!streamVars
  <2>2. QED BY <2>1
<1>2. e \in Speakers /\ speaker[e] \in SpeakerRecords /\ s \in Sessions /\ s # "none"
  <2>1. e \in Speakers
    BY DEF Speakers
  <2>2. QED BY <1>1, <2>1 DEF FollowInv, FollowShape, TheSessions!SessionsAssumption
<1>3. /\ r \in SpeakerRecords /\ r.of = s /\ r.by = speaker[e].by /\ r.at = "recording"
      /\ r.todo = {} /\ r.dead = speaker[e].dead
  BY <1>1, <1>2 DEF SpeakerRecords
<1> HIDE DEF r
<1>4. EndOf(e) /\ \A k \in Sockets : ~ (socket[k].of = s /\ socket[k].early /\ socket[k].link = "open")
  <2>1. EndOf(e)
    BY DEF FollowInv, EndSoFar
  <2>2. QED BY <1>1, <1>2, <2>1 DEF EndOf
<1>5. SocketsKeep
  <2>1. /\ subs' \in [Sessions -> SUBSET Sockets] /\ \A t \in Sessions : subs'[t] \subseteq subs[t] /\ subs[t] \subseteq Sockets
        /\ \A t \in Sessions : t # s => subs'[t] = subs[t]
    BY <1>1 DEF FollowInv, FollowShape
  <2>2. QED BY <1>1, <1>4, <2>1 DEF SocketsKeep, FollowInv, FollowShape
<1>6. SessionsKeep /\ StreamsKeep
  BY <1>1, LeftAlone
<1>7. speaker'[e] = r
  BY <1>1 DEF FollowInv, FollowShape, Speakers
<1>8. EndOf(e)'
  BY <1>1, <1>3, <1>4, <1>7 DEF EndOf
<1>9. /\ r.by \in Sockets => socket[r.by].at # "new"
      /\ \A k \in r.dead : socket[k].at # "new" /\ socket'[k].link # "open"
  BY <1>1, <1>2, <1>3 DEF FollowInv, DeadIsGone
<1>10. QED BY <1>1, <1>2, <1>3, <1>5, <1>6, <1>8, <1>9, EnderMoves

LEMMA EndRecorded ==
  ASSUME FollowInv, TheSessions!SessionsAssumption, NEW e \in Enders, TheSessions!Record(e) PROVE FollowInv'
<1> DEFINE r == [speaker[e] EXCEPT !.at = "done"]
<1>1. /\ speaker[e].at = "recording" /\ speaker' = [speaker EXCEPT ![e] = r]
      /\ UNCHANGED <<session, subs, queues, socket, stream, queue>>
  <2>1. /\ speaker[e].at = "recording" /\ speaker' = [speaker EXCEPT ![e].at = "done"]
        /\ UNCHANGED <<session, subs, queues, socket, stream, queue>>
    BY DEF TheSessions!Record, TheSessions!streamVars
  <2>2. QED BY <2>1
<1>2. e \in Speakers /\ speaker[e] \in SpeakerRecords
  BY DEF Speakers, FollowInv, FollowShape
<1>3. /\ r \in SpeakerRecords /\ r.of = speaker[e].of /\ r.by = speaker[e].by /\ r.at = "done"
      /\ r.todo = speaker[e].todo /\ r.dead = speaker[e].dead
  BY <1>2 DEF SpeakerRecords
<1> HIDE DEF r
<1>4. SocketsKeep /\ SessionsKeep /\ StreamsKeep
  BY <1>1, LeftAlone
<1>5. speaker'[e] = r
  BY <1>1 DEF FollowInv, FollowShape, Speakers
<1>6. EndOf(e)'
  <2>1. EndOf(e)
    BY DEF FollowInv, EndSoFar
  <2>2. QED BY <1>1, <1>3, <1>5, <2>1 DEF EndOf
<1>7. /\ r.by \in Sockets => socket[r.by].at # "new"
      /\ \A k \in r.todo : socket[k].at # "new"
      /\ \A k \in r.dead : socket[k].at # "new" /\ socket'[k].link # "open"
  BY <1>1, <1>2, <1>3 DEF FollowInv, DeadIsGone
<1>8. QED BY <1>1, <1>2, <1>3, <1>4, <1>6, <1>7, EnderMoves

-----------------------------------------------------------------------------
(* A restart closes whatever is there and forgets what was under way.      *)
LEMMA ProcessRestarted ==
  ASSUME FollowInv, TheSessions!SessionsAssumption, TheSessions!Restart PROVE FollowInv'
<1>1. /\ session' = [s \in Sessions |-> IF session[s] = "new" THEN "new" ELSE "forgotten"]
      /\ subs' = [s \in Sessions |-> {}] /\ queues' = [s \in Sessions |-> {}]
      /\ socket' = [k \in Sockets |-> IF socket[k].at = "new" THEN socket[k]
                                       ELSE [socket[k] EXCEPT !.at = "ended", !.link = "closed"]]
      /\ stream' = [q \in Streams |-> IF stream[q].at = "new" THEN stream[q] ELSE [stream[q] EXCEPT !.at = "ended"]]
      /\ speaker' = [x \in Speakers |-> IF speaker[x].at \in {"new", "done"} THEN speaker[x]
                                         ELSE [TheSessions!Silent EXCEPT !.at = "done"]]
      /\ UNCHANGED queue
  BY DEF TheSessions!Restart, TheSessions!Speakers, Speakers
<1> DEFINE gone == [TheSessions!Silent EXCEPT !.at = "done"]
<1>2. /\ gone \in SpeakerRecords /\ gone.of = "none" /\ gone.by = "none" /\ gone.at = "done"
      /\ gone.todo = {} /\ gone.dead = {} /\ gone.for = {}
  <2>1. TheSessions!Silent \in SpeakerRecords
    BY DEF TheSessions!Silent, SpeakerRecords, TheSessions!SessionsAssumption
  <2>2. /\ TheSessions!Silent.of = "none" /\ TheSessions!Silent.by = "none"
        /\ TheSessions!Silent.todo = {} /\ TheSessions!Silent.dead = {} /\ TheSessions!Silent.for = {}
    BY DEF TheSessions!Silent
  <2>3. QED BY <2>1, <2>2 DEF SpeakerRecords
<1>3. \A x \in Speakers : /\ speaker[x] \in SpeakerRecords
                          /\ \/ speaker[x].at \in {"new", "done"} /\ speaker'[x] = speaker[x]
                             \/ speaker'[x] = gone
  BY <1>1 DEF FollowInv, FollowShape
<1> HIDE DEF gone
<1>4. ASSUME NEW k \in Sockets
      PROVE  /\ socket'[k] \in SocketRecords /\ socket'[k].of = socket[k].of /\ socket'[k].early = socket[k].early
             /\ (socket'[k].at = "new" <=> socket[k].at = "new")
             /\ socket[k].at # "new" => socket'[k].link = "closed"
             /\ socket[k].at = "new" => socket'[k] = socket[k]
  <2>1. socket[k] \in SocketRecords
    BY DEF FollowInv, FollowShape
  <2>2. CASE socket[k].at = "new"
    BY <1>1, <2>1, <2>2
  <2>3. CASE socket[k].at # "new"
    <3>1. socket'[k] = [socket[k] EXCEPT !.at = "ended", !.link = "closed"]
      BY <1>1, <2>3
    <3>2. QED BY <2>1, <2>3, <3>1 DEF SocketRecords
  <2>4. QED BY <2>2, <2>3
<1>5. ASSUME NEW q \in Streams PROVE stream'[q] \in StreamRecords /\ stream'[q].at # "open"
  <2>1. stream[q] \in StreamRecords
    BY DEF FollowInv, FollowShape
  <2>2. CASE stream[q].at = "new"
    BY <1>1, <2>1, <2>2
  <2>3. CASE stream[q].at # "new"
    <3>1. stream'[q] = [stream[q] EXCEPT !.at = "ended"]
      BY <1>1, <2>3
    <3>2. QED BY <2>1, <3>1 DEF StreamRecords
  <2>4. QED BY <2>2, <2>3
<1>6. \A k \in Sockets : ~ (socket'[k].early /\ socket'[k].link = "open")
  BY <1>4 DEF FollowInv, EarlyIsSubscribed
<1>7. \A s \in Sessions : session'[s] = IF session[s] = "new" THEN "new" ELSE "forgotten"
  BY <1>1
<1>8. FollowShape'
  <2>1. speaker' \in [Speakers -> SpeakerRecords]
    <3>1. \A x \in Speakers : speaker'[x] \in SpeakerRecords
      BY <1>2, <1>3
    <3>2. speaker' = [x \in Speakers |-> speaker'[x]]
      BY <1>1
    <3>3. QED BY <3>1, <3>2
  <2>2. socket' \in [Sockets -> SocketRecords]
    <3>1. socket' = [k \in Sockets |-> socket'[k]]
      BY <1>1
    <3>2. QED BY <1>4, <3>1
  <2>3. stream' \in [Streams -> StreamRecords]
    <3>1. stream' = [q \in Streams |-> stream'[q]]
      BY <1>1
    <3>2. QED BY <1>5, <3>1
  <2>4. \A x \in Speakers : speaker'[x].at \in {"ready", "sending", "closing", "recording"} => speaker'[x].of \in Sessions
    BY <1>2, <1>3
  <2>5. /\ subs' \in [Sessions -> SUBSET Sockets] /\ queues' \in [Sessions -> SUBSET Streams]
        /\ session' \in [Sessions -> {"new", "active", "terminated", "forgotten"}]
    BY <1>1
  <2>6. queue' \in [Streams -> Seq(Speakers \X Nat)]
    BY <1>1 DEF FollowInv, FollowShape
  <2>7. QED BY <2>1, <2>2, <2>3, <2>4, <2>5, <2>6 DEF FollowShape
<1>9. OpenIsQueued' /\ EarlyIsSubscribed'
  BY <1>1, <1>5, <1>6 DEF OpenIsQueued, EarlyIsSubscribed
<1>10. DeadIsGone'
  <2>1. \A x \in Speakers : speaker'[x].by \in Sockets => socket'[speaker'[x].by].at # "new"
    <3> SUFFICES ASSUME NEW x \in Speakers, speaker'[x].by \in Sockets PROVE socket'[speaker'[x].by].at # "new"
      OBVIOUS
    <3>1. speaker'[x].by = speaker[x].by
      BY <1>2, <1>3 DEF TheSessions!SessionsAssumption
    <3>2. QED BY <1>4, <3>1 DEF FollowInv, DeadIsGone
  <2>2. ASSUME NEW x \in Speakers
        PROVE  /\ \A k \in speaker'[x].todo : socket'[k].at # "new"
               /\ \A k \in speaker'[x].dead : socket'[k].at # "new" /\ socket'[k].link # "open"
    <3>1. /\ speaker'[x].todo \subseteq speaker[x].todo /\ speaker'[x].dead \subseteq speaker[x].dead
          /\ speaker[x].todo \subseteq Sockets /\ speaker[x].dead \subseteq Sockets
      BY <1>2, <1>3 DEF SpeakerRecords
    <3>2. QED BY <1>4, <3>1 DEF FollowInv, DeadIsGone
  <2>3. \A s \in Sessions : \A k \in subs'[s] : socket'[k].at # "new" /\ session'[s] # "new"
    BY <1>1
  <2>4. \A k \in Sockets : socket'[k].at # "new" => socket'[k].of \in Sessions /\ session'[socket'[k].of] # "new"
    BY <1>4, <1>7 DEF FollowInv, DeadIsGone
  <2>5. QED BY <2>1, <2>2, <2>3, <2>4 DEF DeadIsGone
<1>11. ASSUME NEW p \in Prompts PROVE ReplyOf(p)'
  <2>1. ReplyOf(p) /\ p \in Speakers /\ speaker[p].for \subseteq Streams
    <3>1. p \in Speakers
      BY DEF Speakers
    <3>2. QED BY <1>3, <3>1 DEF FollowInv, ReplySoFar, SpeakerRecords
  <2>2. CASE speaker'[p] = gone
    BY <1>2, <2>2 DEF ReplyOf
  <2>3. CASE speaker[p].at \in {"new", "done"} /\ speaker'[p] = speaker[p]
    <3>1. \A q \in speaker[p].for : stream'[q].at \notin {"new", "open"}
      <4>1. \A q \in Streams : stream[q].at # "new" => stream'[q].at = "ended"
        BY <1>1 DEF FollowInv, FollowShape, StreamRecords
      <4>2. QED BY <2>1, <4>1 DEF ReplyOf
    <3>2. \A q \in Streams : TheSessions!Heard(q, p)' = TheSessions!Heard(q, p)
      BY <1>1 DEF TheSessions!Heard
    <3>3. QED BY <2>1, <2>3, <3>1, <3>2 DEF ReplyOf
  <2>4. QED BY <1>3, <2>1, <2>2, <2>3
<1>12. ASSUME NEW e \in Enders PROVE EndOf(e)'
  <2>1. EndOf(e) /\ e \in Speakers
    BY DEF FollowInv, EndSoFar, Speakers
  <2>2. CASE speaker'[e] = gone
    BY <1>2, <2>2 DEF EndOf
  <2>3. CASE speaker'[e] = speaker[e]
    <3>1. speaker[e].of # "none" => speaker[e].of \in Sessions
      BY <1>3, <2>1 DEF SpeakerRecords
    <3>2. speaker'[e].of # "none" /\ speaker'[e].at # "new" => session'[speaker'[e].of] \in {"terminated", "forgotten"}
      BY <1>7, <2>1, <2>3, <3>1 DEF EndOf
    <3>3. QED BY <1>5, <1>6, <3>2 DEF EndOf
  <2>4. QED BY <1>3, <2>1, <2>2, <2>3
<1>13. QED BY <1>8, <1>9, <1>10, <1>11, <1>12 DEF FollowInv, ReplySoFar, EndSoFar

-----------------------------------------------------------------------------
LEMMA FollowStarts ==
  ASSUME TheSessions!SessionsAssumption, TheSessions!Init PROVE FollowInv
<1>1. /\ session = [s \in Sessions |-> "new"] /\ subs = [s \in Sessions |-> {}] /\ queues = [s \in Sessions |-> {}]
      /\ socket = [k \in Sockets |-> [of |-> "none", at |-> "new", link |-> "none", early |-> FALSE]]
      /\ stream = [q \in Streams |-> [of |-> "none", at |-> "new", early |-> FALSE]]
      /\ queue = [q \in Streams |-> <<>>] /\ speaker = [x \in Speakers |-> TheSessions!Silent]
  BY DEF TheSessions!Init, TheSessions!Speakers, Speakers
<1>2. TheSessions!Silent \in SpeakerRecords
  BY DEF TheSessions!Silent, SpeakerRecords, TheSessions!SessionsAssumption
<1>3. /\ TheSessions!Silent.of = "none" /\ TheSessions!Silent.by = "none" /\ TheSessions!Silent.at = "new"
      /\ TheSessions!Silent.todo = {} /\ TheSessions!Silent.dead = {} /\ TheSessions!Silent.for = {}
  BY DEF TheSessions!Silent
<1>4. FollowShape
  BY <1>1, <1>2, <1>3 DEF FollowShape, SocketRecords, StreamRecords
<1>5. OpenIsQueued /\ EarlyIsSubscribed
  BY <1>1 DEF OpenIsQueued, EarlyIsSubscribed
<1>6. \A p \in Prompts : ReplyOf(p)
  BY <1>1, <1>3 DEF ReplyOf, TheSessions!Heard, Speakers
<1>7. \A e \in Enders : EndOf(e)
  BY <1>1, <1>3 DEF EndOf, Speakers
<1>8. DeadIsGone
  <2>1. \A x \in Speakers : speaker[x] = TheSessions!Silent
    BY <1>1
  <2>2. QED BY <1>1, <1>3, <2>1 DEF DeadIsGone, TheSessions!SessionsAssumption
<1>9. QED BY <1>4, <1>5, <1>6, <1>7, <1>8 DEF FollowInv, ReplySoFar, EndSoFar

LEMMA FollowGoesOn ==
  ASSUME TheSessions!SessionsAssumption, FollowInv, [TheSessions!Next]_(TheSessions!vars) PROVE FollowInv'
<1>1. CASE UNCHANGED TheSessions!vars
  <2>1. UNCHANGED <<session, subs, socket, queues, stream, queue, speaker>>
    BY <1>1 DEF TheSessions!vars
  <2>2. QED BY <2>1, LeftAlone, OthersGoOn
<1>2. CASE \E a \in Agents : TheSessions!CreateAgent(a)
  BY <1>2, AgentMade
<1>3. CASE \E s \in Sessions : TheSessions!StartSession(s) \/ TheSessions!Started(s)
  BY <1>3, SessionBegun, PromptBegun
<1>4. CASE \E s \in Sessions, p \in Prompts : TheSessions!PostMessage(p, s)
  BY <1>4, PromptBegun
<1>5. CASE \E p \in Prompts : TheSessions!Broadcast(p) \/ TheSessions!Put(p)
  BY <1>5, PromptBroadcasts, PromptPut
<1>6. CASE \E x \in Speakers, k \in Sockets : TheSessions!SendTo(x, k)
  BY <1>6, Spoken
<1>7. CASE \E k \in Sockets, s \in Sessions : TheSessions!Connect(k, s)
  BY <1>7, SocketConnected
<1>8. CASE \E k \in Sockets : TheSessions!Greet(k) \/ TheSessions!Leave(k) \/ TheSessions!Disconnected(k)
  BY <1>8, SocketGreeted
<1>9. CASE \E k \in Sockets, p \in Prompts : TheSessions!Chat(k, p)
  BY <1>9, PromptChatted
<1>10. CASE \E q \in Streams, s \in Sessions : TheSessions!OpenStream(q, s)
  BY <1>10, StreamOpened
<1>11. CASE \E q \in Streams : TheSessions!Yield(q) \/ TheSessions!Abandon(q)
  BY <1>11, StreamRead
<1>12. CASE \E e \in Enders, s \in Sessions : TheSessions!Terminate(e, s)
  BY <1>12, SessionTerminated
<1>13. CASE \E e \in Enders : TheSessions!Announced(e) \/ TheSessions!Closed(e) \/ TheSessions!Record(e)
  BY <1>13, EndAnnounced, EndClosed, EndRecorded
<1>14. CASE \E e \in Enders, k \in Sockets : TheSessions!CloseSocket(e, k)
  BY <1>14, SocketClosed
<1>15. CASE TheSessions!Restart
  BY <1>15, ProcessRestarted
<1>16. QED
  BY <1>1, <1>2, <1>3, <1>4, <1>5, <1>6, <1>7, <1>8, <1>9, <1>10, <1>11, <1>12, <1>13, <1>14, <1>15
  DEF TheSessions!Next, TheSessions!Speakers, Speakers

(* Every stream that is open from the acceptance of a prompt to the end of *)
(* its dispatch holds the whole reply, in order and once; and when a       *)
(* termination is answered, every socket that came while the session was   *)
(* active is closed and every such stream has been told.                   *)
THEOREM EverybodyHears ==
  ASSUME TheSessions!SessionsAssumption PROVE TheSessions!Spec => []FollowersHearAll
<1>1. TheSessions!Init => FollowInv
  <2> SUFFICES ASSUME TheSessions!Init PROVE FollowInv
    OBVIOUS
  <2>1. QED BY FollowStarts
<1>2. FollowInv /\ [TheSessions!Next]_(TheSessions!vars) => FollowInv'
  BY FollowGoesOn
<1>3. FollowInv => FollowersHearAll
  <2> SUFFICES ASSUME FollowInv PROVE FollowersHearAll
    OBVIOUS
  <2>1. TheSessions!RepliesAreWhole
    <3> SUFFICES ASSUME NEW p \in Prompts, speaker[p].at = "done", NEW q \in speaker[p].for, stream[q].at = "open"
                 PROVE  TheSessions!InOrder(q, p, ReplySteps)
      BY DEF TheSessions!RepliesAreWhole
    <3>1. TheSessions!InOrder(q, p, Broadcasts(p)) /\ Broadcasts(p) = ReplySteps
      BY DEF FollowInv, ReplySoFar, ReplyOf, Broadcasts
    <3>2. QED BY <3>1
  <2>2. TheSessions!TerminatedIsClosed
    BY DEF FollowInv, EndSoFar, EndOf, TheSessions!TerminatedIsClosed
  <2>3. QED BY <2>1, <2>2 DEF FollowersHearAll
<1>4. QED BY <1>1, <1>2, <1>3, PTL DEF TheSessions!Spec

-----------------------------------------------------------------------------
(* The conversations about a goal.                                         *)

(* The step of a call that writes into a list.                             *)
WriteStep(c) ==
  CASE TalkKind[c] = "create" -> 6 [] TalkKind[c] = "message" -> 3
    [] TalkKind[c] = "suggest" -> 5 [] TalkKind[c] = "actions" -> 3 [] OTHER -> 0

Writers == {"create", "message", "suggest", "actions"}

Says(c) == TalkKind[c] \in {"create", "message"}

(* How a script reads and writes.                                          *)
LEMMA TalkScripts ==
  ASSUME TheTalks!TalksAssumption, NEW c \in TalkCalls
  PROVE  /\ Len(TheTalks!Script(c)) \in Nat /\ WriteStep(c) \in 0..Len(TheTalks!Script(c))
         /\ \A i \in 1..Len(TheTalks!Script(c)) :
              /\ TheTalks!Script(c)[i] = "write_messages" <=> Says(c) /\ i = WriteStep(c)
              /\ TheTalks!Script(c)[i] = "write_insights" <=> TalkKind[c] = "suggest" /\ i = WriteStep(c)
              /\ TheTalks!Script(c)[i] = "write_items" <=> TalkKind[c] = "actions" /\ i = WriteStep(c)
              /\ i + 1 = WriteStep(c) => TheTalks!Script(c)[i] =
                   IF Says(c) THEN "messages" ELSE IF TalkKind[c] = "suggest" THEN "insights" ELSE "conversation"
              /\ TheTalks!Script(c)[i] = "insert" => TalkKind[c] = "create"
              /\ TheTalks!Script(c)[i] \in {"conversation", "messages", "insights"} => TalkKind[c] \in TheTalks!Talks
<1> SUFFICES ASSUME NEW s, s = TheTalks!Script(c)
             PROVE  /\ Len(s) \in Nat /\ WriteStep(c) \in 0..Len(s)
                    /\ \A i \in 1..Len(s) :
                         /\ s[i] = "write_messages" <=> Says(c) /\ i = WriteStep(c)
                         /\ s[i] = "write_insights" <=> TalkKind[c] = "suggest" /\ i = WriteStep(c)
                         /\ s[i] = "write_items" <=> TalkKind[c] = "actions" /\ i = WriteStep(c)
                         /\ i + 1 = WriteStep(c) => s[i] =
                              IF Says(c) THEN "messages" ELSE IF TalkKind[c] = "suggest" THEN "insights" ELSE "conversation"
                         /\ s[i] = "insert" => TalkKind[c] = "create"
                         /\ s[i] \in {"conversation", "messages", "insights"} => TalkKind[c] \in TheTalks!Talks
  OBVIOUS
<1>1. CASE TalkKind[c] = "create"
  <2>1. s = <<"take", "goal", "insert">> \o <<"take", "messages", "write_messages", "give">> \o <<"give">>
    BY <1>1 DEF TheTalks!Script, TheTalks!create_goal_conversation, TheTalks!_add_message
  <2>2. WriteStep(c) = 6 /\ Says(c)
    BY <1>1 DEF WriteStep, Says
  <2>3. /\ Len(s) = 8
        /\ \A i \in 1..8 : s[i] = "write_messages" <=> i = 6
        /\ \A i \in 1..8 : s[i] # "write_insights"
        /\ \A i \in 1..8 : s[i] # "write_items"
        /\ s[5] = "messages"
    BY <2>1
  <2>4. QED BY <1>1, <2>2, <2>3 DEF TheTalks!Talks
<1>2. CASE TalkKind[c] = "message"
  <2>1. s = <<"take", "messages", "write_messages", "give">> \o <<"take", "touch", "give">>
    BY <1>2 DEF TheTalks!Script, TheTalks!add_message_to_conversation, TheTalks!_add_message
  <2>2. WriteStep(c) = 3 /\ Says(c)
    BY <1>2 DEF WriteStep, Says
  <2>3. /\ Len(s) = 7
        /\ \A i \in 1..7 : s[i] = "write_messages" <=> i = 3
        /\ \A i \in 1..7 : s[i] # "write_insights"
        /\ \A i \in 1..7 : s[i] # "write_items"
        /\ s[2] = "messages" /\ \A i \in 1..7 : s[i] # "insert"
    BY <2>1
  <2>4. QED BY <1>2, <2>2, <2>3 DEF TheTalks!Talks
<1>3. CASE TalkKind[c] = "suggest"
  <2>1. s = <<"take", "conversation">> \o <<"take", "insights", "write_insights", "give">> \o <<"give">>
    BY <1>3 DEF TheTalks!Script, TheTalks!generate_planning_milestones, TheTalks!_add_insight_to_conversation
  <2>2. WriteStep(c) = 5 /\ ~Says(c)
    BY <1>3 DEF WriteStep, Says
  <2>3. /\ Len(s) = 7
        /\ \A i \in 1..7 : s[i] # "write_messages"
        /\ \A i \in 1..7 : s[i] = "write_insights" <=> i = 5
        /\ \A i \in 1..7 : s[i] # "write_items"
        /\ s[4] = "insights" /\ \A i \in 1..7 : s[i] # "insert"
    BY <2>1
  <2>4. QED BY <1>3, <2>2, <2>3 DEF TheTalks!Talks
<1>4. CASE TalkKind[c] = "actions"
  <2>1. s = <<"take", "conversation", "write_items", "give">>
    BY <1>4 DEF TheTalks!Script, TheTalks!extract_action_items_from_conversation
  <2>2. WriteStep(c) = 3 /\ ~Says(c)
    BY <1>4 DEF WriteStep, Says
  <2>3. /\ Len(s) = 4
        /\ \A i \in 1..4 : s[i] # "write_messages"
        /\ \A i \in 1..4 : s[i] # "write_insights"
        /\ \A i \in 1..4 : s[i] = "write_items" <=> i = 3
        /\ s[2] = "conversation" /\ \A i \in 1..4 : s[i] # "insert"
    BY <2>1
  <2>4. QED BY <1>4, <2>2, <2>3 DEF TheTalks!Talks
<1>5. CASE TalkKind[c] = "monthly"
  <2>1. s = <<"take", "goal">> \o [month \in 1..Months |-> "milestone"] \o <<"give">>
    BY <1>5 DEF TheTalks!Script, TheTalks!generate_monthly_milestones
  <2> DEFINE m == [month \in 1..Months |-> "milestone"]
  <2>2. Months \in Nat
    BY DEF TheTalks!TalksAssumption
  <2>3. m \in Seq({"milestone"}) /\ Len(m) = Months
    BY <2>2
  <2>4. /\ Len(s) \in Nat
        /\ \A i \in 1..Len(s) : s[i] \in {"take", "goal", "milestone", "give"}
    <3> HIDE DEF m
    <3>1. s = <<"take", "goal">> \o m \o <<"give">>
      BY <2>1 DEF m
    <3> DEFINE W == {"take", "goal", "milestone", "give"}
    <3>2. <<"take", "goal">> \in Seq(W) /\ m \in Seq(W) /\ <<"give">> \in Seq(W)
      BY <2>3
    <3>3. s \in Seq(W)
      BY <3>1, <3>2
    <3>4. QED BY <3>3
  <2>5. WriteStep(c) = 0 /\ ~Says(c)
    BY <1>5 DEF WriteStep, Says
  <2>6. QED BY <1>5, <2>4, <2>5
<1>6. CASE TalkKind[c] \in {"review", "look", "plan", "weekly", "functional"}
  <2>1. \/ s = <<"take", "conversation", "refused">> /\ TalkKind[c] = "review"
        \/ s = <<"take", "conversation", "give">> /\ TalkKind[c] = "look"
        \/ s = <<"take", "goal", "take", "refused">>
        \/ s = <<"take", "goal", "refused">>
    BY <1>6 DEF TheTalks!Script,
       TheTalks!conduct_progress_review, TheTalks!get_conversation, TheTalks!generate_goal_execution_plan,
       TheTalks!generate_weekly_tasks_for_milestone, TheTalks!generate_cross_functional_tasks
  <2>2. WriteStep(c) = 0 /\ ~Says(c) /\ TalkKind[c] \notin Writers
    BY <1>6 DEF WriteStep, Says, Writers
  <2>3. /\ Len(s) \in Nat
        /\ \A i \in 1..Len(s) : /\ s[i] \in {"take", "goal", "conversation", "give", "refused"}
                                /\ s[i] = "conversation" => TalkKind[c] \in {"review", "look"}
    BY <2>1
  <2>4. QED BY <2>2, <2>3 DEF Writers, TheTalks!Talks
<1>7. TalkKind[c] \in TheTalks!Talks \cup TheTalks!Plans
  BY DEF TheTalks!TalksAssumption
<1>8. QED BY <1>1, <1>2, <1>3, <1>4, <1>5, <1>6, <1>7 DEF TheTalks!Talks, TheTalks!Plans

TalkRows ==
  [there : BOOLEAN, messages : Seq(TalkCalls), insights : SUBSET TalkCalls, items : SUBSET (TalkCalls \X Actionable)]

TalkShape ==
  /\ DOMAIN place = TalkCalls /\ \A c \in TalkCalls : place[c] \in 0..Len(TheTalks!Script(c))
  /\ copy \in [TalkCalls -> TalkRows] /\ conversation \in [TheTalks!Conversations -> TalkRows]
  /\ newer \in [TalkCalls -> 0..Limit]
  /\ \A c \in written : /\ c \in TalkCalls /\ TalkKind[c] \in Writers /\ place[c] >= WriteStep(c)
                        /\ About[c] \in TheTalks!Conversations
                        /\ conversation[About[c]].there \/ ~goal
  /\ \A c \in TheTalks!Conversations : conversation[c].there => goal

(* A history has messages that were written, each once.                    *)
Once(s) == (\A i \in DOMAIN s : s[i] \in written) /\ \A i, j \in DOMAIN s : s[i] = s[j] => i = j

HistoriesAreOnce ==
  /\ \A c \in TheTalks!Conversations : Once(conversation[c].messages)
  /\ \A c \in TalkCalls : Once(copy[c].messages)

(* The next step of a call is to write what it has read.                   *)
Due(c) == place[c] + 1 = WriteStep(c)

Alike(c, d) == About[c] = About[d] /\ (TalkKind[c] = TalkKind[d] \/ (Says(c) /\ Says(d)))

(* What a call wrote is in a row, its message as far from the end as it    *)
(* has newer ones.                                                         *)
InRow(r, c) ==
  /\ Says(c) => newer[c] = Limit \/ \E i \in DOMAIN r.messages : r.messages[i] = c /\ Len(r.messages) - i <= newer[c]
  /\ TalkKind[c] = "suggest" => c \in r.insights
  /\ TalkKind[c] = "actions" => \E m \in Actionable : <<c, m>> \in r.items

(* It is also in what the others have read who are to write the same list. *)
WrittenIsKept ==
  \A c \in written \ met : conversation[About[c]].there =>
    /\ InRow(conversation[About[c]], c)
    /\ \A d \in TalkCalls : Due(d) /\ Alike(c, d) => InRow(copy[d], c)

TalkInv == TalkShape /\ HistoriesAreOnce /\ WrittenIsKept

LEMMA DueWrites ==
  ASSUME TalkInv, TheTalks!TalksAssumption, NEW c \in TalkCalls
  PROVE  /\ TheTalks!Doing(c, "write_messages") <=> Says(c) /\ Due(c)
         /\ TheTalks!Doing(c, "write_insights") <=> TalkKind[c] = "suggest" /\ Due(c)
         /\ TheTalks!Doing(c, "write_items") <=> TalkKind[c] = "actions" /\ Due(c)
<1>1. /\ place[c] \in 0..Len(TheTalks!Script(c)) /\ Len(TheTalks!Script(c)) \in Nat
      /\ WriteStep(c) \in 0..Len(TheTalks!Script(c))
  BY TalkScripts DEF TalkInv, TalkShape
<1>2. ~TheTalks!Ended(c) <=> place[c] + 1 \in 1..Len(TheTalks!Script(c))
  BY <1>1 DEF TheTalks!Ended
<1>3. Due(c) => place[c] + 1 \in 1..Len(TheTalks!Script(c))
  BY <1>1 DEF Due
<1>4. QED BY <1>2, <1>3, TalkScripts DEF TheTalks!Doing, Due

(* A call goes on to its next step.                                        *)
LEMMA StepTaken ==
  ASSUME TalkInv, TheTalks!TalksAssumption, NEW c \in TalkCalls, NEW step, TheTalks!Doing(c, step), TheTalks!Advance(c)
  PROVE  /\ place' = [place EXCEPT ![c] = place[c] + 1]
         /\ place[c] + 1 \in place[c]..Len(TheTalks!Script(c))
         /\ place[c] + 1 \in 1..Len(TheTalks!Script(c)) /\ step = TheTalks!Script(c)[place[c] + 1]
         /\ Due(c)' => step = IF Says(c) THEN "messages" ELSE IF TalkKind[c] = "suggest" THEN "insights" ELSE "conversation"
         /\ Due(c)' => TalkKind[c] \in Writers
<1>1. place[c] \in 0..Len(TheTalks!Script(c)) /\ Len(TheTalks!Script(c)) \in Nat /\ WriteStep(c) \in Nat
  BY TalkScripts DEF TalkInv, TalkShape
<1>2. /\ place' = [place EXCEPT ![c] = place[c] + 1] /\ place'[c] = place[c] + 1
      /\ place[c] # Len(TheTalks!Script(c)) /\ step = TheTalks!Script(c)[place[c] + 1]
  BY DEF TalkInv, TalkShape, TheTalks!Doing, TheTalks!Ended, TheTalks!Advance
<1>3. place[c] + 1 \in 1..Len(TheTalks!Script(c)) /\ place[c] + 1 \in place[c]..Len(TheTalks!Script(c))
  BY <1>1, <1>2
<1>4. Due(c)' => (place[c] + 1) + 1 = WriteStep(c)
  BY <1>2 DEF Due
<1>5. Due(c)' => TalkKind[c] \in Writers
  BY <1>1, <1>4 DEF WriteStep, Writers
<1>6. QED BY <1>2, <1>3, <1>4, <1>5, TalkScripts

(* What a row holds it still holds when newer messages are counted.        *)
LEMMA MoreAreNewer ==
  ASSUME NEW r \in TalkRows, NEW c \in TalkCalls, newer \in [TalkCalls -> 0..Limit], newer' \in [TalkCalls -> 0..Limit],
         Limit \in Nat, newer[c] <= newer'[c], InRow(r, c)
  PROVE  /\ Says(c) => newer'[c] = Limit
                      \/ \E i \in DOMAIN r.messages : r.messages[i] = c /\ Len(r.messages) - i <= newer'[c]
         /\ TalkKind[c] = "suggest" => c \in r.insights
         /\ TalkKind[c] = "actions" => \E m \in Actionable : <<c, m>> \in r.items
<1>1. newer[c] \in 0..Limit /\ newer'[c] \in 0..Limit
  OBVIOUS
<1>2. newer[c] = Limit => newer'[c] = Limit
  BY <1>1
<1>3. r.messages \in Seq(TalkCalls)
  BY DEF TalkRows
<1>4. ASSUME NEW i \in DOMAIN r.messages, Len(r.messages) - i <= newer[c] PROVE Len(r.messages) - i <= newer'[c]
  BY <1>1, <1>3, <1>4
<1>5. QED BY <1>2, <1>4 DEF InRow

(* A step of a call that writes nothing.                                   *)
LEMMA TalkGoesOn ==
  ASSUME TalkInv, TheTalks!TalksAssumption, NEW d \in TalkCalls, NEW n \in place[d]..Len(TheTalks!Script(d)),
         NEW r \in TalkRows,
         place' = [place EXCEPT ![d] = n], copy' = [copy EXCEPT ![d] = r],
         UNCHANGED <<conversation, goal, written, met, newer>>,
         Once(r.messages),
         Due(d)' => \A c \in written \ met : Alike(c, d) /\ conversation[About[c]].there => InRow(r, c)
  PROVE  TalkInv'
<1>1. /\ DOMAIN place' = TalkCalls /\ place'[d] = n /\ \A c \in TalkCalls \ {d} : place'[c] = place[c]
      /\ copy' \in [TalkCalls -> TalkRows] /\ copy'[d] = r /\ \A c \in TalkCalls \ {d} : copy'[c] = copy[c]
  BY DEF TalkInv, TalkShape
<1>2. /\ \A c \in TalkCalls : place[c] \in 0..Len(TheTalks!Script(c)) /\ Len(TheTalks!Script(c)) \in Nat /\ WriteStep(c) \in Nat
      /\ n >= place[d] /\ n \in 0..Len(TheTalks!Script(d))
  BY TalkScripts DEF TalkInv, TalkShape
<1>3. TalkShape'
  <2>1. \A c \in TalkCalls : place'[c] \in 0..Len(TheTalks!Script(c)) /\ place'[c] >= place[c]
    BY <1>1, <1>2
  <2>2. \A c \in written : c \in TalkCalls /\ place'[c] >= WriteStep(c)
    BY <1>2, <2>1 DEF TalkInv, TalkShape
  <2>3. QED BY <1>1, <2>1, <2>2 DEF TalkInv, TalkShape
<1>4. HistoriesAreOnce'
  <2>1. \A c \in TalkCalls : Once(copy'[c].messages)
    BY <1>1 DEF TalkInv, HistoriesAreOnce
  <2>2. QED BY <2>1 DEF TalkInv, HistoriesAreOnce, Once
<1>5. WrittenIsKept'
  <2> SUFFICES ASSUME NEW c \in written \ met, conversation[About[c]].there
               PROVE  /\ InRow(conversation[About[c]], c)
                      /\ \A e \in TalkCalls : Due(e)' /\ Alike(c, e) => InRow(copy[e], c)'
    BY DEF WrittenIsKept, InRow
  <2>1. ASSUME NEW e \in TalkCalls, Due(e)', Alike(c, e) PROVE InRow(copy'[e], c)
    <3>1. CASE e = d
      BY <1>1, <2>1, <3>1
    <3>2. CASE e # d
      BY <1>1, <2>1, <3>2 DEF Due, TalkInv, WrittenIsKept
    <3>3. QED BY <3>1, <3>2
  <2>2. QED BY <2>1 DEF InRow, TalkInv, WrittenIsKept
<1>6. QED BY <1>3, <1>4, <1>5 DEF TalkInv


(* A step that leaves the call nothing to write next.                      *)
LEMMA TalkIdles ==
  ASSUME TalkInv, TheTalks!TalksAssumption, NEW d \in TalkCalls, NEW n \in place[d]..Len(TheTalks!Script(d)),
         place' = [place EXCEPT ![d] = n], UNCHANGED <<copy, conversation, goal, written, met, newer>>, ~Due(d)'
  PROVE  TalkInv'
<1>1. copy \in [TalkCalls -> TalkRows] /\ copy' = copy
  BY DEF TalkInv, TalkShape
<1>2. copy' = [copy EXCEPT ![d] = copy[d]] /\ copy[d] \in TalkRows
  BY <1>1
<1>3. Once(copy[d].messages)
  BY DEF TalkInv, HistoriesAreOnce
<1>4. QED BY <1>2, <1>3, TalkGoesOn

LEMMA TalkTakes ==
  ASSUME TalkInv, TheTalks!TalksAssumption, NEW d \in TalkCalls,
         TheTalks!Take(d) \/ TheTalks!Give(d) \/ TheTalks!Touch(d) \/ TheTalks!InsertMilestone(d)
  PROVE  TalkInv'
<1>1. PICK step \in {"take", "give", "touch", "write_items", "milestone"} : TheTalks!Doing(d, step) /\ TheTalks!Advance(d)
  BY DEF TheTalks!Take, TheTalks!Give, TheTalks!Touch, TheTalks!InsertMilestone
<1>2. UNCHANGED <<copy, conversation, goal, written, met, newer>>
  BY DEF TheTalks!Take, TheTalks!Give, TheTalks!Touch, TheTalks!InsertMilestone, TheTalks!dataVars, TheTalks!poolVars
<1>3. /\ place' = [place EXCEPT ![d] = place[d] + 1] /\ place[d] + 1 \in place[d]..Len(TheTalks!Script(d))
      /\ Due(d)' => step \in {"messages", "insights", "conversation"}
  BY <1>1, StepTaken
<1>4. ~Due(d)'
  BY <1>1, <1>3
<1>5. QED BY <1>2, <1>3, <1>4, TalkIdles

LEMMA TalkRaises ==
  ASSUME TalkInv, TheTalks!TalksAssumption, NEW d \in TalkCalls, TheTalks!Raise(d)
  PROVE  TalkInv'
<1>1. /\ place' = [place EXCEPT ![d] = Len(TheTalks!Script(d))]
      /\ UNCHANGED <<copy, conversation, goal, written, met, newer>>
  BY DEF TheTalks!Raise, TheTalks!dataVars
<1>2. /\ DOMAIN place = TalkCalls /\ place[d] \in 0..Len(TheTalks!Script(d)) /\ Len(TheTalks!Script(d)) \in Nat
      /\ WriteStep(d) \in 0..Len(TheTalks!Script(d))
  BY TalkScripts DEF TalkInv, TalkShape
<1>3. Len(TheTalks!Script(d)) \in place[d]..Len(TheTalks!Script(d)) /\ Len(TheTalks!Script(d)) + 1 # WriteStep(d)
  BY <1>2
<1>4. place'[d] = Len(TheTalks!Script(d))
  BY <1>1, <1>2
<1>5. ~Due(d)'
  BY <1>3, <1>4 DEF Due
<1>6. QED BY <1>1, <1>3, <1>5, TalkIdles

LEMMA TalkSelects ==
  ASSUME TalkInv, TheTalks!TalksAssumption, NEW d \in TalkCalls, TheTalks!Select(d)
  PROVE  TalkInv'
<1>1. /\ TheTalks!Advance(d) /\ UNCHANGED <<conversation, goal, written, met, newer>>
      /\ \/ TheTalks!Doing(d, "goal") /\ copy' = copy
         \/ /\ TheTalks!Doing(d, "conversation") \/ TheTalks!Doing(d, "messages") \/ TheTalks!Doing(d, "insights")
            /\ copy' = [copy EXCEPT ![d] = TheTalks!Needed(d)]
  BY DEF TheTalks!Select, TheTalks!dataVars
<1>2. CASE TheTalks!Doing(d, "goal") /\ copy' = copy
  <2>1. /\ place' = [place EXCEPT ![d] = place[d] + 1] /\ place[d] + 1 \in place[d]..Len(TheTalks!Script(d))
        /\ Due(d)' => "goal" \in {"messages", "insights", "conversation"}
    BY <1>1, <1>2, StepTaken
  <2>2. QED BY <1>1, <1>2, <2>1, TalkIdles
<1>3. ASSUME NEW step \in {"conversation", "messages", "insights"}, TheTalks!Doing(d, step),
             copy' = [copy EXCEPT ![d] = TheTalks!Needed(d)]
      PROVE  TalkInv'
  <2>1. PICK r : r = TheTalks!Needed(d)
    OBVIOUS
  <2>2. /\ place' = [place EXCEPT ![d] = place[d] + 1] /\ place[d] + 1 \in place[d]..Len(TheTalks!Script(d))
        /\ place[d] + 1 \in 1..Len(TheTalks!Script(d)) /\ step = TheTalks!Script(d)[place[d] + 1]
        /\ Due(d)' => step = IF Says(d) THEN "messages" ELSE IF TalkKind[d] = "suggest" THEN "insights" ELSE "conversation"
        /\ Due(d)' => TalkKind[d] \in Writers
    BY <1>1, <1>3, StepTaken
  <2>3. About[d] \in TheTalks!Conversations /\ conversation[About[d]] \in TalkRows
    <3>1. TalkKind[d] \in TheTalks!Talks
      BY <2>2, TalkScripts
    <3>2. QED BY <3>1 DEF TheTalks!TalksAssumption, TalkInv, TalkShape
  <2>4. \A other : TheTalks!Doing(d, other) <=> other = step
    BY <1>3 DEF TheTalks!Doing
  <2> DEFINE there == conversation[About[d]]
  <2>5. /\ step = "messages" => r = [TheTalks!NoRow EXCEPT !.messages = there.messages]
        /\ step = "insights" => r = [TheTalks!NoRow EXCEPT !.insights = there.insights]
        /\ step = "conversation" /\ TalkKind[d] = "actions"
             => r = [TheTalks!NoRow EXCEPT !.messages = there.messages, !.items = there.items]
        /\ step = "conversation" /\ TalkKind[d] # "actions" => r = TheTalks!NoRow
    BY <2>1, <2>4, <1>3 DEF TheTalks!Needed
  <2>6. /\ r \in TalkRows
        /\ r.messages = there.messages \/ r.messages = <<>>
        /\ step = "messages" => r.messages = there.messages
        /\ step = "insights" => r.insights = there.insights
        /\ step = "conversation" /\ TalkKind[d] = "actions" => r.items = there.items
    <3>1. /\ TheTalks!NoRow \in TalkRows /\ TheTalks!NoRow.messages = <<>>
          /\ there.messages \in Seq(TalkCalls) /\ there.insights \in SUBSET TalkCalls
          /\ there.items \in SUBSET (TalkCalls \X Actionable)
      BY <2>3 DEF TheTalks!NoRow, TalkRows
    <3>2. CASE step = "messages"
      <4>1. r = [TheTalks!NoRow EXCEPT !.messages = there.messages]
        BY <2>5, <3>2
      <4>2. r \in TalkRows /\ r.messages = there.messages
        BY <3>1, <4>1 DEF TalkRows
      <4>3. QED BY <3>2, <4>2
    <3>3. CASE step = "insights"
      <4>1. r = [TheTalks!NoRow EXCEPT !.insights = there.insights]
        BY <2>5, <3>3
      <4>2. r \in TalkRows /\ r.insights = there.insights /\ r.messages = <<>>
        BY <3>1, <4>1 DEF TalkRows
      <4>3. QED BY <3>3, <4>2
    <3>4. CASE step = "conversation" /\ TalkKind[d] = "actions"
      <4>1. r = [TheTalks!NoRow EXCEPT !.messages = there.messages, !.items = there.items]
        BY <2>5, <3>4
      <4>2. r \in TalkRows /\ r.items = there.items /\ r.messages = there.messages
        BY <3>1, <4>1 DEF TalkRows
      <4>3. QED BY <3>4, <4>2
    <3>5. CASE step = "conversation" /\ TalkKind[d] # "actions"
      BY <2>5, <3>1, <3>5
    <3>6. QED BY <1>3, <3>2, <3>3, <3>4, <3>5
  <2>7. Once(r.messages)
    BY <2>3, <2>6 DEF TalkInv, HistoriesAreOnce, Once
  <2>8. ASSUME NEW c \in written \ met, Due(d)', Alike(c, d), conversation[About[c]].there PROVE InRow(r, c)
    <3>1. InRow(there, c)
      BY <2>8 DEF TalkInv, WrittenIsKept, Alike
    <3>2. CASE Says(d)
      BY <2>2, <2>6, <2>8, <3>1, <3>2 DEF InRow, Alike, Says
    <3>3. CASE TalkKind[d] = "suggest"
      BY <2>2, <2>6, <2>8, <3>1, <3>3 DEF InRow, Alike, Says
    <3>4. CASE TalkKind[d] = "actions"
      BY <2>2, <2>6, <2>8, <3>1, <3>4 DEF InRow, Alike, Says
    <3>5. QED BY <2>2, <2>8, <3>2, <3>3, <3>4 DEF Writers, Says
  <2>9. QED BY <1>1, <1>3, <2>1, <2>2, <2>6, <2>7, <2>8, TalkGoesOn
<1>4. QED BY <1>1, <1>2, <1>3

(* A call writes its list back.                                            *)
LEMMA TalkWrites ==
  ASSUME TalkInv, TheTalks!TalksAssumption, NEW d \in TalkCalls, Due(d), TalkKind[d] \in Writers,
         About[d] \in TheTalks!Conversations, conversation[About[d]].there,
         NEW back \in TalkRows, back.there,
         place' = [place EXCEPT ![d] = place[d] + 1], copy' = [copy EXCEPT ![d] = TheTalks!NoRow],
         conversation' = [conversation EXCEPT ![About[d]] = back], goal' = goal,
         written' = written \cup {d}, met \subseteq met',
         d \notin met' => \A e \in TalkCalls \ {d} : ~(Alike(d, e) /\ Due(e)),
         newer' \in [TalkCalls -> 0..Limit], \A c \in TalkCalls : newer[c] <= newer'[c],
         Once(back.messages)',
         \A c \in written' \ met' : About[c] = About[d] => InRow(back, c)'
  PROVE  TalkInv'
<1>1. /\ DOMAIN place = TalkCalls /\ copy \in [TalkCalls -> TalkRows]
      /\ conversation \in [TheTalks!Conversations -> TalkRows] /\ newer \in [TalkCalls -> 0..Limit] /\ Limit \in Nat
      /\ \A c \in TalkCalls : place[c] \in 0..Len(TheTalks!Script(c)) /\ Len(TheTalks!Script(c)) \in Nat
                              /\ WriteStep(c) \in 0..Len(TheTalks!Script(c))
  BY TalkScripts DEF TalkInv, TalkShape, TheTalks!TalksAssumption
<1>2. /\ DOMAIN place' = TalkCalls /\ place'[d] = WriteStep(d) /\ \A c \in TalkCalls \ {d} : place'[c] = place[c]
      /\ place[d] <= WriteStep(d)
  BY <1>1 DEF Due
<1>3. TheTalks!NoRow \in TalkRows /\ TheTalks!NoRow.messages = <<>>
  BY DEF TheTalks!NoRow, TalkRows
<1>4. /\ copy' \in [TalkCalls -> TalkRows] /\ copy'[d] = TheTalks!NoRow
      /\ \A c \in TalkCalls \ {d} : copy'[c] = copy[c]
      /\ conversation' \in [TheTalks!Conversations -> TalkRows] /\ conversation'[About[d]] = back
      /\ \A c \in TheTalks!Conversations \ {About[d]} : conversation'[c] = conversation[c]
  BY <1>1, <1>3
<1>5. TalkShape'
  <2>1. \A c \in TalkCalls : place'[c] \in 0..Len(TheTalks!Script(c))
    BY <1>1, <1>2
  <2>2. \A c \in TalkCalls : c = d \/ place[c] >= WriteStep(c) => place'[c] >= WriteStep(c)
    BY <1>1, <1>2
  <2>3. ASSUME NEW c \in written'
        PROVE  /\ c \in TalkCalls /\ TalkKind[c] \in Writers /\ place'[c] >= WriteStep(c)
               /\ About[c] \in TheTalks!Conversations
               /\ conversation'[About[c]].there \/ ~goal'
    <3>1. CASE c = d
      BY <1>4, <2>2, <3>1
    <3>2. CASE c \in written
      BY <1>4, <2>2, <3>2 DEF TalkInv, TalkShape
    <3>3. QED BY <2>3, <3>1, <3>2
  <2>4. \A c \in TheTalks!Conversations : conversation'[c].there => goal'
    BY <1>4 DEF TalkInv, TalkShape
  <2>5. QED BY <1>2, <1>4, <2>1, <2>3, <2>4 DEF TalkShape
<1>6. HistoriesAreOnce'
  <2>1. ASSUME NEW s, Once(s) PROVE Once(s)'
    BY <2>1 DEF Once
  <2>2. ASSUME NEW c \in TheTalks!Conversations PROVE Once(conversation[c].messages)'
    <3>1. CASE c = About[d]
      BY <1>4, <3>1 DEF Once
    <3>2. CASE c # About[d]
      <4>1. Once(conversation[c].messages) /\ conversation'[c] = conversation[c]
        BY <1>4, <3>2 DEF TalkInv, HistoriesAreOnce
      <4>2. QED BY <4>1 DEF Once
    <3>3. QED BY <3>1, <3>2
  <2>3. ASSUME NEW c \in TalkCalls PROVE Once(copy[c].messages)'
    <3>1. CASE c = d
      BY <1>3, <1>4, <3>1 DEF Once
    <3>2. CASE c # d
      <4>1. Once(copy[c].messages) /\ copy'[c] = copy[c]
        BY <1>4, <3>2 DEF TalkInv, HistoriesAreOnce
      <4>2. QED BY <4>1 DEF Once
    <3>3. QED BY <3>1, <3>2
  <2>4. QED BY <2>2, <2>3 DEF HistoriesAreOnce
<1>7. WrittenIsKept'
  <2> SUFFICES ASSUME NEW c \in written' \ met', conversation'[About[c]].there
               PROVE  /\ InRow(conversation[About[c]], c)'
                      /\ \A e \in TalkCalls : (Due(e) /\ Alike(c, e))' => InRow(copy[e], c)'
    BY DEF WrittenIsKept
  <2>1. c \in TalkCalls /\ About[c] \in TheTalks!Conversations
    BY DEF TalkInv, TalkShape
  <2>2. c # d => conversation[About[c]].there
    BY <1>4, <2>1
  <2>3. c # d => InRow(conversation[About[c]], c) /\ \A e \in TalkCalls : Due(e) /\ Alike(c, e) => InRow(copy[e], c)
    BY <2>2 DEF TalkInv, WrittenIsKept
  <2>4. InRow(conversation[About[c]], c)'
    <3>1. CASE About[c] = About[d]
      BY <1>4, <3>1 DEF InRow
    <3>2. CASE About[c] # About[d]
      <4>1. conversation'[About[c]] = conversation[About[c]] /\ conversation[About[c]] \in TalkRows
            /\ InRow(conversation[About[c]], c)
        BY <1>1, <1>4, <2>1, <2>3, <3>2
      <4>2. QED BY <1>1, <2>1, <4>1, MoreAreNewer, ZenonT(40) DEF InRow
    <3>3. QED BY <3>1, <3>2
  <2>5. ASSUME NEW e \in TalkCalls, Due(e)', Alike(c, e)' PROVE InRow(copy[e], c)'
    <3>1. e # d
      BY <1>1, <1>2, <2>5 DEF Due
    <3>2. Due(e) /\ Alike(c, e) /\ copy'[e] = copy[e]
      BY <1>2, <1>4, <2>5, <3>1 DEF Due, Alike, Says
    <3>3. c # d
      BY <3>1, <3>2
    <3>4. InRow(copy[e], c) /\ copy[e] \in TalkRows
      BY <1>1, <2>3, <3>2, <3>3
    <3>5. /\ Says(c) => newer'[c] = Limit \/ \E i \in DOMAIN copy[e].messages :
                           copy[e].messages[i] = c /\ Len(copy[e].messages) - i <= newer'[c]
          /\ TalkKind[c] = "suggest" => c \in copy[e].insights
          /\ TalkKind[c] = "actions" => \E m \in Actionable : <<c, m>> \in copy[e].items
      BY <1>1, <2>1, <3>4, MoreAreNewer
    <3>6. QED BY <3>2, <3>5 DEF InRow, Says
  <2>6. QED BY <2>4, <2>5
<1>8. QED BY <1>5, <1>6, <1>7 DEF TalkInv

(* A history is cut down to its end.                                       *)
LEMMA TheEndStays ==
  ASSUME Limit \in Nat \ {0}, NEW s \in Seq(TalkCalls), NEW t, t = TheTalks!Trimmed(s)
  PROVE  \E k \in Nat : /\ t \in Seq(TalkCalls) /\ Len(s) = Len(t) + k /\ \A i \in DOMAIN t : t[i] = s[i + k]
                        /\ \A i \in DOMAIN s : Len(s) - i < Limit => i - k \in DOMAIN t
<1>1. CASE Len(s) <= Limit
  <2>1. t = s
    BY <1>1 DEF TheTalks!Trimmed
  <2>2. /\ t \in Seq(TalkCalls) /\ Len(s) = Len(t) + 0 /\ \A i \in DOMAIN t : t[i] = s[i + 0]
        /\ \A i \in DOMAIN s : i - 0 \in DOMAIN t
    <3>1. Len(t) \in Nat /\ DOMAIN t = 1..Len(t)
      BY <2>1
    <3>2. \A i \in 1..Len(t) : i + 0 = i /\ i - 0 = i
      OBVIOUS
    <3>3. QED BY <2>1, <3>1, <3>2
  <2>3. QED BY <2>2
<1>2. CASE ~(Len(s) <= Limit)
  <2>1. t = SubSeq(s, Len(s) - Limit + 1, Len(s))
    BY <1>2 DEF TheTalks!Trimmed
  <2>2. PICK k \in Nat : k = Len(s) - Limit
    BY <1>2
  <2>3. /\ t \in Seq(TalkCalls) /\ Len(t) = Limit /\ \A i \in 1..Limit : t[i] = s[(k + 1) + i - 1]
    <3>1. Len(s) \in Nat /\ Limit \in Nat /\ Len(s) = k + Limit
      BY <2>2
    <3>2. t = SubSeq(s, k + 1, k + Limit)
      BY <2>1, <2>2, <3>1
    <3>3. /\ k + 1 \in Nat /\ k + Limit \in 0..Len(s) /\ k + 1 >= 1 /\ k + Limit + 1 - (k + 1) = Limit
          /\ \A i \in 1..Limit : (k + 1) + i - 1 \in 1..Len(s)
      BY <3>1
    <3>4. t \in Seq(TalkCalls)
      BY <3>1, <3>2, <3>3
    <3>5. Len(t) = Limit
      BY <3>1, <3>2, <3>3
    <3>6. \A i \in 1..Limit : t[i] = s[(k + 1) + i - 1]
      BY <3>1, <3>2, <3>3
    <3>7. QED BY <3>4, <3>5, <3>6
  <2>4. Len(s) = Len(t) + k /\ DOMAIN t = 1..Limit
    BY <2>2, <2>3
  <2>5. \A i \in DOMAIN t : t[i] = s[i + k]
    <3>1. ASSUME NEW i \in 1..Limit PROVE (k + 1) + i - 1 = i + k
      BY <3>1
    <3>2. QED BY <2>3, <2>4, <3>1
  <2>6. \A i \in DOMAIN s : Len(s) - i < Limit => i - k \in DOMAIN t
    BY <2>2, <2>4
  <2>7. QED BY <2>3, <2>4, <2>5, <2>6
<1>3. QED BY <1>1, <1>2

(* What an update of a list does to a conversation that is there, apart    *)
(* from the list.                                                          *)
LEMMA UpdateWrites ==
  ASSUME TalkInv, TheTalks!TalksAssumption, NEW d \in TalkCalls, TalkKind[d] \in Writers,
         NEW step \in {"write_messages", "write_insights", "write_items"}, NEW back, TheTalks!Update(d, step, back)
  PROVE  /\ Due(d) /\ About[d] \in TheTalks!Conversations /\ d \notin written
         /\ place' = [place EXCEPT ![d] = place[d] + 1] /\ place[d] + 1 \in place[d]..Len(TheTalks!Script(d)) /\ ~Due(d)'
         /\ copy' = [copy EXCEPT ![d] = TheTalks!NoRow] /\ goal' = goal
         /\ ~conversation[About[d]].there => UNCHANGED <<conversation, written, met, newer>>
         /\ conversation[About[d]].there =>
              /\ conversation' = [conversation EXCEPT ![About[d]] = back] /\ written' = written \cup {d}
              /\ met \subseteq met'
              /\ d \notin met' => \A e \in TalkCalls \ {d} : ~(Alike(d, e) /\ Due(e))
              /\ newer' \in [TalkCalls -> 0..Limit] /\ \A c \in TalkCalls : newer[c] <= newer'[c]
              /\ step = "write_messages" =>
                   \A c \in written \ met : Says(c) /\ About[c] = About[d] /\ newer[c] < Limit => newer'[c] = newer[c] + 1
<1>1. /\ TheTalks!Doing(d, step) /\ TheTalks!Advance(d) /\ copy' = [copy EXCEPT ![d] = TheTalks!NoRow] /\ goal' = goal
      /\ ~conversation[About[d]].there => UNCHANGED <<conversation, written, met, newer>>
  BY DEF TheTalks!Update
<1>2. /\ Due(d)
      /\ step = "write_messages" => Says(d)
      /\ step = "write_insights" => TalkKind[d] = "suggest"
      /\ step = "write_items" => TalkKind[d] = "actions"
  BY <1>1, DueWrites
<1>3. /\ place' = [place EXCEPT ![d] = place[d] + 1] /\ place[d] + 1 \in place[d]..Len(TheTalks!Script(d))
      /\ ~Due(d)'
  BY <1>1, StepTaken
<1>4. About[d] \in TheTalks!Conversations
  BY DEF TheTalks!TalksAssumption, Writers, TheTalks!Talks
<1>5. d \notin written
  <2>1. place[d] \in Nat /\ WriteStep(d) \in Nat
    BY TalkScripts DEF TalkInv, TalkShape
  <2>2. QED BY <1>2, <2>1 DEF Due, TalkInv, TalkShape
<1>6. ASSUME conversation[About[d]].there
      PROVE  /\ conversation' = [conversation EXCEPT ![About[d]] = back] /\ written' = written \cup {d}
             /\ met \subseteq met'
             /\ d \notin met' => \A e \in TalkCalls \ {d} : ~(Alike(d, e) /\ Due(e))
             /\ newer' \in [TalkCalls -> 0..Limit] /\ \A c \in TalkCalls : newer[c] <= newer'[c]
             /\ step = "write_messages" =>
                  \A c \in written \ met : Says(c) /\ About[c] = About[d] /\ newer[c] < Limit => newer'[c] = newer[c] + 1
  <2> DEFINE others == {e \in TalkCalls \ {d} : TalkKind[e] \in TheTalks!Talks /\ About[e] = About[d]
                                                 /\ TheTalks!Doing(e, step)}
             counted(e) == /\ step = "write_messages" /\ e \in written \ met /\ TalkKind[e] \in {"create", "message"}
                           /\ About[e] = About[d] /\ newer[e] < Limit
  <2>1. /\ conversation' = [conversation EXCEPT ![About[d]] = back] /\ written' = written \cup {d}
        /\ met' = IF others = {} THEN met ELSE met \cup {d}
        /\ newer' = [e \in DOMAIN newer |-> IF counted(e) THEN newer[e] + 1 ELSE newer[e]]
    BY <1>6 DEF TheTalks!Update
  <2>2. ASSUME d \notin met', NEW e \in TalkCalls \ {d}, Alike(d, e), Due(e) PROVE FALSE
    <3>1. e \notin others
      BY <2>1, <2>2
    <3>2. TheTalks!Doing(e, step)
      BY <1>2, <2>2, DueWrites DEF Alike, Says
    <3>3. About[e] = About[d] /\ TalkKind[e] \in TheTalks!Talks
      BY <2>2, <1>2 DEF Alike, Says, TheTalks!Talks
    <3>4. QED BY <3>1, <3>2, <3>3
  <2>3. newer \in [TalkCalls -> 0..Limit] /\ Limit \in Nat
    BY DEF TalkInv, TalkShape, TheTalks!TalksAssumption
  <2>4. ASSUME NEW e \in TalkCalls
        PROVE  newer'[e] \in 0..Limit /\ newer[e] <= newer'[e] /\ (counted(e) => newer'[e] = newer[e] + 1)
    <3>1. newer'[e] = IF counted(e) THEN newer[e] + 1 ELSE newer[e]
      BY <2>1, <2>3
    <3>2. newer[e] \in 0..Limit
      BY <2>3
    <3>3. counted(e) => newer[e] < Limit
      OBVIOUS
    <3> HIDE DEF counted
    <3>4. QED BY <2>3, <3>1, <3>2, <3>3
  <2>5. newer' \in [TalkCalls -> 0..Limit]
    <3>1. newer' = [e \in TalkCalls |-> newer'[e]]
      BY <2>1, <2>3
    <3>2. QED BY <2>4, <3>1
  <2>6. \A c \in written : c \in TalkCalls
    BY DEF TalkInv, TalkShape
  <2>7. step = "write_messages" =>
          \A c \in written \ met : Says(c) /\ About[c] = About[d] /\ newer[c] < Limit => newer'[c] = newer[c] + 1
    BY <2>4, <2>6 DEF Says
  <2>8. QED BY <2>1, <2>2, <2>4, <2>5, <2>7
<1>7. QED BY <1>1, <1>2, <1>3, <1>4, <1>5, <1>6

(* A list of a conversation that is not there is not written.              *)
LEMMA NothingWritten ==
  ASSUME TalkInv, TheTalks!TalksAssumption, NEW d \in TalkCalls, TalkKind[d] \in Writers,
         NEW step \in {"write_messages", "write_insights", "write_items"}, NEW back, TheTalks!Update(d, step, back),
         ~conversation[About[d]].there
  PROVE  TalkInv'
<1>1. TheTalks!NoRow \in TalkRows /\ Once(TheTalks!NoRow.messages)
  BY DEF TheTalks!NoRow, TalkRows, Once
<1>2. QED BY <1>1, UpdateWrites, TalkGoesOn

(* What the row holds of the calls that wrote other lists.                 *)
LEMMA OtherLists ==
  ASSUME TalkInv, TheTalks!TalksAssumption, NEW d \in TalkCalls, TalkKind[d] \in Writers,
         NEW step \in {"write_messages", "write_insights", "write_items"}, NEW back, TheTalks!Update(d, step, back),
         conversation[About[d]].there, NEW c \in written' \ met', About[c] = About[d], c # d
  PROVE  /\ c \in written \ met /\ c \in TalkCalls /\ InRow(conversation[About[d]], c)
         /\ Alike(c, d) => InRow(copy[d], c)
         /\ LET r == conversation[About[d]] IN
            /\ Says(c) => newer'[c] = Limit
                         \/ \E i \in DOMAIN r.messages : r.messages[i] = c /\ Len(r.messages) - i <= newer'[c]
            /\ TalkKind[c] = "suggest" => c \in r.insights
            /\ TalkKind[c] = "actions" => \E m \in Actionable : <<c, m>> \in r.items
<1>1. c \in written \ met /\ Due(d) /\ newer' \in [TalkCalls -> 0..Limit] /\ \A e \in TalkCalls : newer[e] <= newer'[e]
      /\ About[d] \in TheTalks!Conversations
  BY UpdateWrites
<1>2. c \in TalkCalls /\ newer \in [TalkCalls -> 0..Limit] /\ conversation[About[d]] \in TalkRows /\ Limit \in Nat
  BY <1>1 DEF TalkInv, TalkShape, TheTalks!TalksAssumption
<1>3. InRow(conversation[About[d]], c) /\ (Alike(c, d) => InRow(copy[d], c))
  BY <1>1 DEF TalkInv, WrittenIsKept
<1>4. QED BY <1>1, <1>2, <1>3, MoreAreNewer

LEMMA InsightsWritten ==
  ASSUME TalkInv, TheTalks!TalksAssumption, NEW d \in TalkCalls, NEW back,
         back \in {r \in TalkRows : /\ r.there = conversation[About[d]].there
                                  /\ r.messages = conversation[About[d]].messages /\ r.items = conversation[About[d]].items
                                  /\ r.insights = copy[d].insights \cup {d}},
         TheTalks!Update(d, "write_insights", back)
  PROVE  TalkInv'
<1>1. TalkKind[d] = "suggest" /\ TalkKind[d] \in Writers /\ Due(d)
  BY DueWrites DEF TheTalks!Update, Writers
<1>2. CASE ~conversation[About[d]].there
  BY <1>1, <1>2, NothingWritten
<1>3. CASE conversation[About[d]].there
  <2> DEFINE there == conversation[About[d]]
  <2>1. /\ there \in TalkRows /\ copy[d] \in TalkRows /\ Once(there.messages)
    BY <1>1, UpdateWrites DEF TalkInv, TalkShape, HistoriesAreOnce
  <2>2. /\ back \in TalkRows /\ back.there /\ back.messages = there.messages /\ back.items = there.items
        /\ back.insights = copy[d].insights \cup {d}
    BY <1>3
  <2>3. written' = written \cup {d}
    BY <1>1, <1>3, UpdateWrites
  <2>4. Once(back.messages)'
    BY <2>1, <2>2, <2>3 DEF Once
  <2>5. ASSUME NEW c \in written' \ met', About[c] = About[d] PROVE InRow(back, c)'
    <3>1. CASE c = d
      BY <1>1, <2>2, <3>1 DEF InRow, Says
    <3>2. CASE c # d
      <4>1. /\ Alike(c, d) => InRow(copy[d], c)
            /\ Says(c) => newer'[c] = Limit
                         \/ \E i \in DOMAIN there.messages : there.messages[i] = c /\ Len(there.messages) - i <= newer'[c]
            /\ TalkKind[c] = "actions" => \E m \in Actionable : <<c, m>> \in there.items
        BY <1>1, <1>3, <2>5, <3>2, OtherLists
      <4>2. TalkKind[c] = "suggest" => c \in copy[d].insights
        BY <1>1, <2>5, <4>1 DEF Alike, InRow
      <4>3. QED BY <2>2, <4>1, <4>2 DEF InRow, Says
    <3>3. QED BY <3>1, <3>2
  <2>6. /\ Due(d) /\ About[d] \in TheTalks!Conversations
        /\ place' = [place EXCEPT ![d] = place[d] + 1] /\ copy' = [copy EXCEPT ![d] = TheTalks!NoRow]
        /\ conversation' = [conversation EXCEPT ![About[d]] = back] /\ goal' = goal
        /\ written' = written \cup {d} /\ met \subseteq met'
        /\ d \notin met' => \A e \in TalkCalls \ {d} : ~(Alike(d, e) /\ Due(e))
        /\ newer' \in [TalkCalls -> 0..Limit] /\ \A c \in TalkCalls : newer[c] <= newer'[c]
    BY <1>1, <1>3, UpdateWrites
  <2>7. TalkKind[d] \in Writers /\ back \in TalkRows /\ back.there
    BY <1>1, <2>2
  <2>8. QED BY <1>3, <2>4, <2>5, <2>6, <2>7, TalkWrites
<1>4. QED BY <1>2, <1>3

LEMMA ItemsWritten ==
  ASSUME TalkInv, TheTalks!TalksAssumption, NEW d \in TalkCalls, NEW back, NEW new,
         new = TheTalks!_identify_action_items_in_messages(d), new # {},
         back \in {r \in TalkRows : /\ r.there = conversation[About[d]].there
                                  /\ r.messages = conversation[About[d]].messages
                                  /\ r.insights = conversation[About[d]].insights /\ r.items = copy[d].items \cup new},
         TheTalks!Update(d, "write_items", back)
  PROVE  TalkInv'
<1>1. TalkKind[d] = "actions" /\ TalkKind[d] \in Writers /\ Due(d)
  BY DueWrites DEF TheTalks!Update, Writers
<1>2. CASE ~conversation[About[d]].there
  BY <1>1, <1>2, NothingWritten
<1>3. CASE conversation[About[d]].there
  <2> DEFINE there == conversation[About[d]]
  <2>1. /\ there \in TalkRows /\ copy[d] \in TalkRows /\ Once(there.messages)
    BY <1>1, UpdateWrites DEF TalkInv, TalkShape, HistoriesAreOnce
  <2>2. new \in SUBSET (TalkCalls \X Actionable) /\ \E m \in Actionable : <<d, m>> \in new
    BY DEF TheTalks!_identify_action_items_in_messages
  <2>3. /\ back \in TalkRows /\ back.there /\ back.messages = there.messages /\ back.insights = there.insights
        /\ back.items = copy[d].items \cup new
    BY <1>3
  <2>4. written' = written \cup {d}
    BY <1>1, <1>3, UpdateWrites
  <2>5. Once(back.messages)'
    BY <2>1, <2>3, <2>4 DEF Once
  <2>6. ASSUME NEW c \in written' \ met', About[c] = About[d] PROVE InRow(back, c)'
    <3>1. CASE c = d
      BY <1>1, <2>2, <2>3, <3>1 DEF InRow, Says
    <3>2. CASE c # d
      <4>1. /\ Alike(c, d) => InRow(copy[d], c)
            /\ Says(c) => newer'[c] = Limit
                         \/ \E i \in DOMAIN there.messages : there.messages[i] = c /\ Len(there.messages) - i <= newer'[c]
            /\ TalkKind[c] = "suggest" => c \in there.insights
        BY <1>1, <1>3, <2>6, <3>2, OtherLists
      <4>2. TalkKind[c] = "actions" => \E m \in Actionable : <<c, m>> \in copy[d].items
        BY <1>1, <2>6, <4>1 DEF Alike, InRow
      <4>3. QED BY <2>3, <4>1, <4>2 DEF InRow, Says
    <3>3. QED BY <3>1, <3>2
  <2>7. /\ Due(d) /\ About[d] \in TheTalks!Conversations
        /\ place' = [place EXCEPT ![d] = place[d] + 1] /\ copy' = [copy EXCEPT ![d] = TheTalks!NoRow]
        /\ conversation' = [conversation EXCEPT ![About[d]] = back] /\ goal' = goal
        /\ written' = written \cup {d} /\ met \subseteq met'
        /\ d \notin met' => \A e \in TalkCalls \ {d} : ~(Alike(d, e) /\ Due(e))
        /\ newer' \in [TalkCalls -> 0..Limit] /\ \A c \in TalkCalls : newer[c] <= newer'[c]
    BY <1>1, <1>3, UpdateWrites
  <2>8. TalkKind[d] \in Writers /\ back \in TalkRows /\ back.there
    BY <1>1, <2>3
  <2>9. QED BY <1>3, <2>5, <2>6, <2>7, <2>8, TalkWrites
<1>4. QED BY <1>2, <1>3

LEMMA MessagesWritten ==
  ASSUME TalkInv, TheTalks!TalksAssumption, NEW d \in TalkCalls, NEW back,
         back \in {r \in TalkRows : /\ r.there = conversation[About[d]].there
                                  /\ r.insights = conversation[About[d]].insights /\ r.items = conversation[About[d]].items
                                  /\ r.messages = TheTalks!Trimmed(Append(copy[d].messages, d))},
         TheTalks!Update(d, "write_messages", back)
  PROVE  TalkInv'
<1>1. Says(d) /\ TalkKind[d] \in Writers /\ Due(d) /\ TalkKind[d] \notin {"suggest", "actions"}
  BY DueWrites DEF TheTalks!Update, Writers, Says
<1>2. CASE ~conversation[About[d]].there
  BY <1>1, <1>2, NothingWritten
<1>3. CASE conversation[About[d]].there
  <2> DEFINE there == conversation[About[d]]
             old == copy[d].messages
             whole == Append(old, d)
  <2>1. there \in TalkRows /\ copy[d] \in TalkRows /\ Once(old) /\ Limit \in Nat \ {0}
    BY <1>1, UpdateWrites DEF TalkInv, TalkShape, HistoriesAreOnce, TheTalks!TalksAssumption
  <2>2. old \in Seq(TalkCalls)
    BY <2>1 DEF TalkRows
  <2>3. /\ whole \in Seq(TalkCalls) /\ Len(whole) = Len(old) + 1 /\ DOMAIN whole = 1..Len(old) + 1 /\ Len(old) \in Nat
        /\ \A i \in DOMAIN old : i \in 1..Len(old) /\ whole[i] = old[i]
        /\ whole[Len(old) + 1] = d
    BY <2>2
  <2>4. PICK t : t = TheTalks!Trimmed(whole)
    OBVIOUS
  <2> HIDE DEF whole
  <2>5. PICK k \in Nat : /\ t \in Seq(TalkCalls) /\ Len(whole) = Len(t) + k /\ \A i \in DOMAIN t : t[i] = whole[i + k]
                         /\ \A i \in DOMAIN whole : Len(whole) - i < Limit => i - k \in DOMAIN t
    BY <2>1, <2>3, <2>4, TheEndStays
  <2>6. /\ back \in TalkRows /\ back.there /\ back.messages = t /\ back.insights = there.insights
        /\ back.items = there.items
    BY <1>3, <2>4 DEF whole
  <2>7. /\ written' = written \cup {d} /\ d \notin written /\ newer' \in [TalkCalls -> 0..Limit]
        /\ newer \in [TalkCalls -> 0..Limit]
        /\ \A c \in written \ met : Says(c) /\ About[c] = About[d] /\ newer[c] < Limit => newer'[c] = newer[c] + 1
    BY <1>1, <1>3, UpdateWrites DEF TalkInv, TalkShape
  <2>8. Once(t)'
    <3>1. \A i \in DOMAIN t : i + k \in DOMAIN whole
      BY <2>3, <2>5
    <3>2. \A i \in DOMAIN whole : i \in DOMAIN old \/ i = Len(old) + 1
      BY <2>2, <2>3
    <3>3. \A i \in DOMAIN whole : whole[i] \in written \cup {d}
      BY <2>1, <2>3, <3>2 DEF Once
    <3>4. \A i, j \in DOMAIN whole : whole[i] = whole[j] => i = j
      <4>1. \A i \in DOMAIN old : whole[i] = old[i] /\ old[i] \in written
        BY <2>1, <2>3 DEF Once
      <4>2. \A i, j \in DOMAIN old : old[i] = old[j] => i = j
        BY <2>1 DEF Once
      <4>3. \A i \in DOMAIN old : whole[i] # d
        BY <2>7, <4>1
      <4>4. whole[Len(old) + 1] = d
        BY <2>3
      <4>5. SUFFICES ASSUME NEW i \in DOMAIN whole, NEW j \in DOMAIN whole, whole[i] = whole[j] PROVE i = j
        OBVIOUS
      <4>6. (i \in DOMAIN old \/ i = Len(old) + 1) /\ (j \in DOMAIN old \/ j = Len(old) + 1)
        BY <3>2
      <4>7. CASE i \in DOMAIN old /\ j \in DOMAIN old
        BY <4>1, <4>2, <4>5, <4>7
      <4>8. CASE i = Len(old) + 1 \/ j = Len(old) + 1
        BY <4>3, <4>4, <4>5, <4>6, <4>8
      <4>9. QED BY <4>6, <4>7, <4>8
    <3>5. ASSUME NEW i \in DOMAIN t, NEW j \in DOMAIN t, t[i] = t[j] PROVE i = j
      <4>1. i + k = j + k
        BY <2>5, <3>1, <3>4, <3>5
      <4>2. i \in Nat /\ j \in Nat
        BY <2>5
      <4>3. QED BY <4>1, <4>2
    <3>6. QED BY <2>5, <2>7, <3>1, <3>3, <3>5 DEF Once
  <2>9. ASSUME NEW c \in written' \ met', About[c] = About[d] PROVE InRow(back, c)'
    <3>1. ASSUME NEW i \in DOMAIN whole, whole[i] = c, Len(whole) - i <= newer'[c], newer'[c] \in 0..Limit, newer'[c] # Limit
          PROVE  \E j \in DOMAIN t : t[j] = c /\ Len(t) - j <= newer'[c]
      <4>1. i - k \in DOMAIN t /\ i \in Nat /\ Len(t) \in Nat /\ Len(whole) \in Nat
        <5>1. i \in Nat /\ Len(whole) \in Nat
          BY <2>1, <2>3, <3>1
        <5>2. Len(t) \in Nat
          BY <2>5
        <5>3. Len(whole) - i < Limit
          BY <2>1, <3>1, <5>1
        <5>4. QED BY <2>5, <3>1, <5>1, <5>2, <5>3
      <4>2. k \in Nat /\ Len(whole) = Len(t) + k
        BY <2>5
      <4>3. (i - k) + k = i /\ Len(t) - (i - k) = Len(whole) - i
        BY <4>1, <4>2
      <4>4. QED BY <2>5, <3>1, <4>1, <4>3
    <3>2. CASE c = d
      <4>1. Len(whole) - (Len(old) + 1) <= newer'[c] /\ newer'[c] \in 0..Limit /\ Len(old) + 1 \in DOMAIN whole
        BY <2>1, <2>3, <2>7, <3>2
      <4>2. newer'[c] = Limit \/ \E j \in DOMAIN t : t[j] = c /\ Len(t) - j <= newer'[c]
        BY <2>3, <3>1, <3>2, <4>1
      <4>3. QED BY <1>1, <2>6, <3>2, <4>2 DEF InRow, Says
    <3>3. CASE c # d
      <4>1. /\ c \in written \ met /\ c \in TalkCalls
            /\ Alike(c, d) => InRow(copy[d], c)
            /\ TalkKind[c] = "suggest" => c \in there.insights
            /\ TalkKind[c] = "actions" => \E m \in Actionable : <<c, m>> \in there.items
        BY <1>1, <1>3, <2>9, <3>3, OtherLists
      <4>2. ASSUME Says(c) PROVE newer'[c] = Limit \/ \E j \in DOMAIN t : t[j] = c /\ Len(t) - j <= newer'[c]
        <5>1. newer[c] = Limit \/ \E i \in DOMAIN old : old[i] = c /\ Len(old) - i <= newer[c]
          BY <1>1, <2>9, <4>1, <4>2 DEF Alike, InRow
        <5>2. newer[c] \in 0..Limit /\ newer'[c] \in 0..Limit /\ \A e \in TalkCalls : newer[e] <= newer'[e]
          BY <1>1, <1>3, <2>7, <4>1, UpdateWrites
        <5>3. CASE newer[c] = Limit
          BY <2>1, <4>1, <5>2, <5>3
        <5>4. CASE newer[c] # Limit
          <6>1. newer'[c] = newer[c] + 1
            BY <2>1, <2>7, <2>9, <4>1, <4>2, <5>2, <5>4
          <6>2. PICK i \in DOMAIN old : old[i] = c /\ Len(old) - i <= newer[c]
            BY <5>1, <5>4
          <6>3. i \in DOMAIN whole /\ whole[i] = c /\ Len(whole) - i <= newer'[c]
            BY <2>1, <2>3, <5>2, <6>1, <6>2, SMTT(30)
          <6>4. QED BY <3>1, <5>2, <6>3
        <5>5. QED BY <5>3, <5>4
      <4>3. QED BY <2>6, <4>1, <4>2 DEF InRow, Says
    <3>4. QED BY <3>2, <3>3
  <2>10. Once(back.messages)'
    BY <2>6, <2>8 DEF Once
  <2>11. /\ Due(d) /\ About[d] \in TheTalks!Conversations
         /\ place' = [place EXCEPT ![d] = place[d] + 1] /\ copy' = [copy EXCEPT ![d] = TheTalks!NoRow]
         /\ conversation' = [conversation EXCEPT ![About[d]] = back] /\ goal' = goal
         /\ written' = written \cup {d} /\ met \subseteq met'
         /\ d \notin met' => \A e \in TalkCalls \ {d} : ~(Alike(d, e) /\ Due(e))
         /\ newer' \in [TalkCalls -> 0..Limit] /\ \A c \in TalkCalls : newer[c] <= newer'[c]
    BY <1>1, <1>3, UpdateWrites
  <2>12. QED BY <1>1, <1>3, <2>6, <2>9, <2>10, <2>11, TalkWrites
<1>4. QED BY <1>2, <1>3

LEMMA TalkWritesBack ==
  ASSUME TalkInv, TheTalks!TalksAssumption, NEW d \in TalkCalls, TheTalks!Write(d)
  PROVE  TalkInv'
<1> DEFINE there == conversation[About[d]]
<1>1. ASSUME NEW step \in {"write_messages", "write_insights", "write_items"}, TheTalks!Doing(d, step)
      PROVE  there \in TalkRows /\ copy[d] \in TalkRows
  <2>1. TalkKind[d] \in TheTalks!Talks
    BY <1>1, DueWrites DEF Says, TheTalks!Talks
  <2>2. QED BY <2>1 DEF TheTalks!TalksAssumption, TalkInv, TalkShape
<1>2. CASE TheTalks!Update(d, "write_messages", [there EXCEPT !.messages = TheTalks!Trimmed(Append(copy[d].messages, d))])
  <2>1. there \in TalkRows /\ copy[d] \in TalkRows
    BY <1>1, <1>2 DEF TheTalks!Update
  <2>2. PICK t : t = TheTalks!Trimmed(Append(copy[d].messages, d))
    OBVIOUS
  <2>3. t \in Seq(TalkCalls)
    <3>1. copy[d].messages \in Seq(TalkCalls) /\ Limit \in Nat \ {0}
      BY <2>1 DEF TalkRows, TheTalks!TalksAssumption
    <3>2. Append(copy[d].messages, d) \in Seq(TalkCalls)
      BY <3>1
    <3>3. QED BY <2>2, <3>1, <3>2, TheEndStays
  <2>4. PICK back : back = [there EXCEPT !.messages = t]
    OBVIOUS
  <2>5. /\ back \in TalkRows /\ back.there = there.there /\ back.insights = there.insights /\ back.items = there.items
        /\ back.messages = t
    BY <2>1, <2>3, <2>4 DEF TalkRows
  <2>6. TheTalks!Update(d, "write_messages", back)
    BY <1>2, <2>2, <2>4
  <2>7. QED BY <2>2, <2>5, <2>6, MessagesWritten
<1>3. CASE TheTalks!Update(d, "write_insights", [there EXCEPT !.insights = copy[d].insights \cup {d}])
  <2>1. there \in TalkRows /\ copy[d] \in TalkRows
    BY <1>1, <1>3 DEF TheTalks!Update
  <2>2. PICK back : back = [there EXCEPT !.insights = copy[d].insights \cup {d}]
    OBVIOUS
  <2>3. /\ back \in TalkRows /\ back.there = there.there /\ back.messages = there.messages /\ back.items = there.items
        /\ back.insights = copy[d].insights \cup {d}
    BY <2>1, <2>2 DEF TalkRows
  <2>4. TheTalks!Update(d, "write_insights", back)
    BY <1>3, <2>2
  <2>5. QED BY <2>3, <2>4, InsightsWritten
<1>4. ASSUME NEW new, new = TheTalks!_identify_action_items_in_messages(d), new # {},
             TheTalks!Update(d, "write_items", [there EXCEPT !.items = copy[d].items \cup new])
      PROVE  TalkInv'
  <2>1. there \in TalkRows /\ copy[d] \in TalkRows
    BY <1>1, <1>4 DEF TheTalks!Update
  <2>2. PICK back : back = [there EXCEPT !.items = copy[d].items \cup new]
    OBVIOUS
  <2>3. new \in SUBSET (TalkCalls \X Actionable)
    BY <1>4 DEF TheTalks!_identify_action_items_in_messages
  <2>4. /\ back \in TalkRows /\ back.there = there.there /\ back.messages = there.messages
        /\ back.insights = there.insights /\ back.items = copy[d].items \cup new
    BY <2>1, <2>2, <2>3 DEF TalkRows
  <2>5. TheTalks!Update(d, "write_items", back)
    BY <1>4, <2>2
  <2>6. QED BY <1>4, <2>4, <2>5, ItemsWritten
<1>5. QED BY <1>2, <1>3, <1>4 DEF TheTalks!Write

(* The row of a conversation is inserted before any call writes into it.   *)
LEMMA TalkInserts ==
  ASSUME TalkInv, TheTalks!TalksAssumption, NEW d \in TalkCalls, TheTalks!Insert(d)
  PROVE  TalkInv'
<1>1. /\ TheTalks!Doing(d, "insert") /\ TheTalks!Advance(d) /\ goal /\ UNCHANGED <<copy, goal, written, met, newer>>
      /\ conversation' = [conversation EXCEPT ![d].there = TRUE]
  BY DEF TheTalks!Insert
<1>2. /\ place' = [place EXCEPT ![d] = place[d] + 1] /\ place[d] + 1 \in place[d]..Len(TheTalks!Script(d))
      /\ place[d] + 1 \in 1..Len(TheTalks!Script(d)) /\ TheTalks!Script(d)[place[d] + 1] = "insert"
      /\ Due(d)' => "insert" \in {"messages", "insights", "conversation"}
  BY <1>1, StepTaken
<1>3. d \in TheTalks!Conversations /\ About[d] = d
  <2>1. TalkKind[d] = "create"
    BY <1>2, TalkScripts
  <2>2. QED BY <2>1 DEF TheTalks!Conversations, TheTalks!TalksAssumption
<1>4. /\ DOMAIN place = TalkCalls /\ conversation \in [TheTalks!Conversations -> TalkRows]
      /\ \A c \in TalkCalls : place[c] \in 0..Len(TheTalks!Script(c)) /\ Len(TheTalks!Script(c)) \in Nat /\ WriteStep(c) \in Nat
  BY TalkScripts DEF TalkInv, TalkShape
<1>5. /\ DOMAIN place' = TalkCalls /\ \A c \in TalkCalls \ {d} : place'[c] = place[c]
      /\ \A c \in TalkCalls : place'[c] \in 0..Len(TheTalks!Script(c)) /\ place'[c] >= place[c]
  BY <1>2, <1>4
<1>6. PICK r : r = [conversation[d] EXCEPT !.there = TRUE]
  OBVIOUS
<1>7. /\ r \in TalkRows /\ r.there /\ r.messages = conversation[d].messages /\ r.insights = conversation[d].insights
      /\ r.items = conversation[d].items
  BY <1>3, <1>4, <1>6 DEF TalkRows
<1>8. /\ conversation' \in [TheTalks!Conversations -> TalkRows] /\ conversation'[d] = r
      /\ \A c \in TheTalks!Conversations \ {d} : conversation'[c] = conversation[c]
  BY <1>1, <1>3, <1>4, <1>6, <1>7
<1>9. ASSUME NEW c \in TheTalks!Conversations
      PROVE  /\ conversation'[c].messages = conversation[c].messages /\ conversation'[c].insights = conversation[c].insights
             /\ conversation'[c].items = conversation[c].items /\ (conversation[c].there => conversation'[c].there)
  BY <1>7, <1>8
<1>10. \A c \in written : /\ c \in TalkCalls /\ About[c] \in TheTalks!Conversations /\ conversation[About[c]].there
                          /\ TalkKind[c] \in Writers /\ place[c] >= WriteStep(c)
  BY <1>1 DEF TalkInv, TalkShape
<1>11. TalkShape'
  <2>1. \A c \in written : place'[c] >= WriteStep(c) /\ conversation'[About[c]].there
    BY <1>4, <1>5, <1>9, <1>10
  <2>2. copy' \in [TalkCalls -> TalkRows] /\ newer' \in [TalkCalls -> 0..Limit]
    BY <1>1 DEF TalkInv, TalkShape
  <2>3. QED BY <1>1, <1>5, <1>8, <1>10, <2>1, <2>2 DEF TalkShape
<1>12. HistoriesAreOnce'
  <2>1. \A c \in TheTalks!Conversations : Once(conversation[c].messages) /\ conversation'[c].messages = conversation[c].messages
    BY <1>9 DEF TalkInv, HistoriesAreOnce
  <2>2. \A c \in TalkCalls : Once(copy[c].messages)
    BY DEF TalkInv, HistoriesAreOnce
  <2>3. QED BY <1>1, <2>1, <2>2 DEF HistoriesAreOnce, Once
<1>13. WrittenIsKept'
  <2> SUFFICES ASSUME NEW c \in written \ met
               PROVE  /\ InRow(conversation[About[c]], c)'
                      /\ \A e \in TalkCalls : Due(e)' /\ Alike(c, e) => InRow(copy[e], c)'
    BY <1>1 DEF WrittenIsKept, Alike, Says
  <2>1. InRow(conversation[About[c]], c) /\ \A e \in TalkCalls : Due(e) /\ Alike(c, e) => InRow(copy[e], c)
    BY <1>10 DEF TalkInv, WrittenIsKept
  <2>2. InRow(conversation[About[c]], c)'
    BY <1>1, <1>9, <1>10, <2>1 DEF InRow, Says
  <2>3. ASSUME NEW e \in TalkCalls, Due(e)', Alike(c, e) PROVE InRow(copy[e], c)'
    <3>1. Due(e)
      BY <1>2, <1>5, <2>3 DEF Due
    <3>2. QED BY <1>1, <2>1, <2>3, <3>1 DEF InRow, Says
  <2>4. QED BY <2>2, <2>3
<1>14. QED BY <1>11, <1>12, <1>13 DEF TalkInv

LEMMA TalkGoalDeleted == ASSUME TalkInv, TheTalks!TalksAssumption, TheTalks!GoalDeleted PROVE TalkInv'
<1>1. /\ goal' = FALSE /\ conversation' = [c \in DOMAIN conversation |-> TheTalks!NoRow]
      /\ UNCHANGED <<place, copy, written, met, newer>>
  BY DEF TheTalks!GoalDeleted
<1>2. DOMAIN conversation = TheTalks!Conversations
  BY DEF TalkInv, TalkShape
<1>3. /\ TheTalks!NoRow \in TalkRows /\ ~TheTalks!NoRow.there /\ TheTalks!NoRow.messages = <<>>
  BY DEF TheTalks!NoRow, TalkRows
<1>4. /\ conversation' \in [TheTalks!Conversations -> TalkRows]
      /\ \A c \in TheTalks!Conversations : ~conversation'[c].there /\ conversation'[c].messages = <<>>
  BY <1>1, <1>2, <1>3
<1>5. TalkShape'
  BY <1>1, <1>4 DEF TalkInv, TalkShape
<1>6. HistoriesAreOnce'
  <2>1. \A c \in TalkCalls : Once(copy[c].messages)
    BY DEF TalkInv, HistoriesAreOnce
  <2>2. QED BY <1>1, <1>4, <2>1 DEF HistoriesAreOnce, Once
<1>7. WrittenIsKept'
  <2>1. \A c \in written : About[c] \in TheTalks!Conversations
    BY DEF TalkInv, TalkShape
  <2>2. QED BY <1>1, <1>4, <2>1 DEF WrittenIsKept
<1>8. QED BY <1>5, <1>6, <1>7 DEF TalkInv

LEMMA TalkBegins == ASSUME TheTalks!TalksAssumption, TheTalks!Init PROVE TalkInv
<1>1. /\ place = [c \in TalkCalls |-> 0] /\ newer = [c \in TalkCalls |-> 0] /\ written = {} /\ goal = TRUE
      /\ copy = [c \in TalkCalls |-> TheTalks!NoRow] /\ conversation = [c \in TheTalks!Conversations |-> TheTalks!NoRow]
  BY DEF TheTalks!Init
<1>2. /\ TheTalks!NoRow \in TalkRows /\ ~TheTalks!NoRow.there /\ TheTalks!NoRow.messages = <<>>
  BY DEF TheTalks!NoRow, TalkRows
<1>3. \A c \in TalkCalls : Len(TheTalks!Script(c)) \in Nat
  BY TalkScripts
<1>4. Limit \in Nat
  BY DEF TheTalks!TalksAssumption
<1>5. TalkShape
  BY <1>1, <1>2, <1>3, <1>4 DEF TalkShape
<1>6. HistoriesAreOnce
  BY <1>1, <1>2 DEF HistoriesAreOnce, Once
<1>7. WrittenIsKept
  BY <1>1 DEF WrittenIsKept
<1>8. QED BY <1>5, <1>6, <1>7 DEF TalkInv

LEMMA TalkStep == ASSUME TalkInv, TheTalks!TalksAssumption, [TheTalks!Next]_(TheTalks!vars) PROVE TalkInv'
<1>1. CASE UNCHANGED TheTalks!vars
  <2>1. UNCHANGED <<place, copy, conversation, goal, written, met, newer>>
    BY <1>1 DEF TheTalks!vars
  <2>2. TalkShape'
    BY <2>1 DEF TalkInv, TalkShape
  <2>3. HistoriesAreOnce'
    BY <2>1 DEF TalkInv, HistoriesAreOnce, Once
  <2>4. WrittenIsKept'
    <3>1. WrittenIsKept
      BY DEF TalkInv
    <3>2. \A c : Due(c)' <=> Due(c)
      BY <2>1 DEF Due
    <3>3. QED BY <2>1, <3>1, <3>2, ZenonT(40) DEF WrittenIsKept, InRow, Alike, Says
  <2>5. QED BY <2>2, <2>3, <2>4 DEF TalkInv
<1>2. ASSUME NEW c \in TalkCalls, TheTalks!Work(c) PROVE TalkInv'
  BY <1>2, TalkTakes, TalkRaises, TalkSelects, TalkWritesBack, TalkInserts DEF TheTalks!Work
<1>3. QED BY <1>1, <1>2, TalkGoalDeleted DEF TheTalks!Next

LEMMA TalkHolds == ASSUME TalkInv PROVE KeptUnlessOverlapped
<1>1. ASSUME NEW c \in written \ met, conversation[About[c]].there, newer[c] # Limit
      PROVE  TheTalks!Holds(conversation[About[c]], c)
  <2>1. TalkKind[c] \in Writers /\ InRow(conversation[About[c]], c)
    BY <1>1 DEF TalkInv, TalkShape, WrittenIsKept
  <2>2. CASE Says(c)
    BY <1>1, <2>1, <2>2 DEF InRow, Says, TheTalks!Holds, TheTalks!InSeq
  <2>3. CASE TalkKind[c] = "suggest"
    BY <2>1, <2>3 DEF InRow, TheTalks!Holds
  <2>4. CASE TalkKind[c] = "actions"
    BY <2>1, <2>4 DEF InRow, TheTalks!Holds
  <2>5. QED BY <2>1, <2>2, <2>3, <2>4 DEF Writers, Says
<1>2. \A c \in TheTalks!Conversations :
        \A i, j \in DOMAIN conversation[c].messages : conversation[c].messages[i] = conversation[c].messages[j] => i = j
  BY DEF TalkInv, HistoriesAreOnce, Once
<1>3. QED BY <1>1, <1>2 DEF KeptUnlessOverlapped, TheTalks!KeptUnlessOverlapped

(* What was written into a list of a conversation about a goal is still    *)
(* there, and once, unless another call had read the list before and wrote *)
(* it back after, newer messages fill the history, or the goal was deleted *)
(* (goal_conversation_service.py:682), for any number of calls of every    *)
(* kind about any number of conversations, whichever statements raise.     *)
THEOREM WrittenStays == ASSUME TheTalks!TalksAssumption PROVE TheTalks!Spec => []KeptUnlessOverlapped
<1>1. TheTalks!Init => TalkInv
  BY TalkBegins
<1>2. TalkInv /\ [TheTalks!Next]_(TheTalks!vars) => TalkInv'
  BY TalkStep
<1>3. TalkInv => KeptUnlessOverlapped
  BY TalkHolds
<1>4. QED BY <1>1, <1>2, <1>3, PTL DEF TheTalks!Spec

-----------------------------------------------------------------------------
(* The file operations.                                                    *)

(* A set of natural numbers has a least one.                               *)
LEMMA LeastOf ==
  ASSUME NEW S \in SUBSET Nat, S # {} PROVE \E m \in S : \A k \in S : m <= k
<1> DEFINE R == OpToRel(<, Nat)
<1>1. IsWellFoundedOn(R, Nat)
  BY NatLessThanWellFounded
<1>2. \A m, k \in Nat : <<k, m>> \in R <=> k < m
  BY DEF OpToRel
<1> HIDE DEF R
<1>3. PICK m \in S : \A k \in S : ~(<<k, m>> \in R)
  BY <1>1, WFMin
<1>4. \A k \in S : ~(k < m)
  BY <1>2, <1>3
<1>5. QED BY <1>4

LEMMA MinIsLeast ==
  ASSUME NEW S \in SUBSET Nat, S # {} PROVE TheFiles!Min(S) \in S /\ \A k \in S : TheFiles!Min(S) <= k
  BY LeastOf DEF TheFiles!Min

(* The backups that an application of b to workspace f takes.              *)
Saved(f, b) == [i \in {j \in DOMAIN Proposed[b] : f[Proposed[b][j].path] # Absent} |-> f[Proposed[b][i].path]]

(* Operation i of b is on path p, and is reverted from these backups.      *)
Undoes(b, i, p, saved) == Proposed[b][i].path = p /\ TheFiles!Reverts(Proposed[b][i], i, saved)

LEMMA Sequenced ==
  ASSUME TheFiles!FilesAssumption, NEW b \in Batches
  PROVE  /\ Len(Proposed[b]) \in Nat /\ DOMAIN Proposed[b] = 1..Len(Proposed[b])
         /\ \A i \in DOMAIN Proposed[b] :
              /\ Proposed[b][i] \in TheFiles!Operations
              /\ Proposed[b][i].path \in Paths /\ Proposed[b][i].to \in Paths
              /\ Proposed[b][i].kind \in {"create_file", "modify_file", "delete_file", "move_file", "apply_diff"}
<1>1. Proposed[b] \in Seq(TheFiles!Operations)
  BY DEF TheFiles!FilesAssumption
<1>2. Len(Proposed[b]) \in Nat /\ DOMAIN Proposed[b] = 1..Len(Proposed[b])
  BY <1>1
<1>3. \A i \in DOMAIN Proposed[b] : Proposed[b][i] \in TheFiles!Operations
  BY <1>1
<1>4. QED BY <1>2, <1>3 DEF TheFiles!Operations

(* The operations of a batch are performed one after the other.            *)
LEMMA Course ==
  ASSUME TheFiles!FilesAssumption, NEW b \in Batches
  PROVE  /\ TheFiles!After(b, 0) = files
         /\ \A n \in 1..Len(Proposed[b]) :
              TheFiles!After(b, n) = TheFiles!Perform(TheFiles!After(b, n - 1), Proposed[b][n])
<1> DEFINE L == Len(Proposed[b])
           Go(g, k) == IF k = 0 THEN files ELSE TheFiles!Perform(g[k - 1], Proposed[b][k])
           Bad == {n \in 0..L : ~ \E g : g = [k \in 0..n |-> Go(g, k)]}
           course == CHOOSE g : g = [k \in 0..L |-> Go(g, k)]
<1>1. L \in Nat
  BY Sequenced
<1>2. Bad = {}
  <2> SUFFICES ASSUME Bad # {} PROVE FALSE
    OBVIOUS
  <2>1. Bad \in SUBSET Nat
    BY <1>1
  <2> HIDE DEF Bad
  <2>2. PICK m \in Bad : \A k \in Bad : m <= k
    BY <2>1, LeastOf
  <2>3. m \in Nat /\ m - 1 \notin Bad
    BY <2>1, <2>2
  <2> USE DEF Bad
  <2>4. m \in 0..L /\ ~ \E g : g = [k \in 0..m |-> Go(g, k)]
    OBVIOUS
  <2>5. m # 0
    <3> DEFINE g == [k \in 0..0 |-> files]
    <3>1. \A k \in 0..0 : Go(g, k) = files
      OBVIOUS
    <3>2. g = [k \in 0..0 |-> Go(g, k)]
      BY <3>1
    <3>3. QED BY <2>4, <3>2
  <2>6. m - 1 \in 0..L /\ m - 1 \notin Bad
    BY <1>1, <2>3, <2>4, <2>5
  <2>7. PICK g : g = [k \in 0..(m - 1) |-> Go(g, k)]
    BY <2>6
  <2> DEFINE h == [k \in 0..m |-> IF k = m THEN TheFiles!Perform(g[m - 1], Proposed[b][m]) ELSE g[k]]
  <2>8. \A k \in 0..m : h[k] = Go(h, k)
    <3>1. TAKE k \in 0..m
    <3>2. CASE k = m
      <4>1. m - 1 \in 0..m /\ m - 1 # m
        BY <1>1, <2>4, <2>5
      <4>2. QED BY <3>2, <4>1, <2>5
    <3>3. CASE k # m
      <4>1. k \in 0..(m - 1) /\ (k # 0 => k - 1 \in 0..m /\ k - 1 # m)
        BY <1>1, <2>4, <2>5, <3>3
      <4>2. g[k] = Go(g, k)
        BY <2>7, <4>1
      <4>3. QED BY <3>3, <4>1, <4>2
    <3>4. QED BY <3>2, <3>3
  <2>9. h = [k \in 0..m |-> Go(h, k)]
    <3>1. h = [k \in 0..m |-> h[k]]
      OBVIOUS
    <3> HIDE DEF h
    <3>2. QED BY <2>8, <3>1
  <2>10. QED BY <2>4, <2>9
<1>3. course = [k \in 0..L |-> Go(course, k)]
  <2>1. L \notin Bad /\ L \in 0..L
    BY <1>1, <1>2
  <2>2. \E g : g = [k \in 0..L |-> Go(g, k)]
    BY <2>1
  <2>3. QED BY <2>2
<1>4. \A n : TheFiles!After(b, n) = course[n]
  BY DEF TheFiles!After
<1> HIDE DEF course
<1>5. course[0] = files
  BY <1>1, <1>3
<1>6. ASSUME NEW n \in 1..L PROVE course[n] = TheFiles!Perform(course[n - 1], Proposed[b][n])
  <2>1. n \in 0..L /\ n # 0
    BY <1>1
  <2>2. QED BY <1>3, <2>1
<1>7. QED BY <1>4, <1>5, <1>6

Workspace(f) == f = [p \in Paths |-> f[p]]

(* A workspace keeps its paths, and changes where an operation points.     *)
LEMMA Performed ==
  ASSUME NEW o \in TheFiles!Operations, NEW f, Workspace(f)
  PROVE  /\ Workspace(TheFiles!Perform(f, o))
         /\ \A p \in Paths : \/ TheFiles!Perform(f, o)[p] = f[p]
                             \/ o.kind # "apply_diff" /\ o.path = p
                             \/ o.kind = "move_file" /\ o.to = p
         /\ o.kind = "delete_file" => TheFiles!Perform(f, o)[o.path] = Absent
<1>1. /\ o.path \in Paths /\ o.to \in Paths
      /\ o.kind \in {"create_file", "modify_file", "delete_file", "move_file", "apply_diff"}
  BY DEF TheFiles!Operations
<1>2. CASE o.kind \in {"create_file", "modify_file"}
  <2>1. TheFiles!Perform(f, o) = [f EXCEPT ![o.path] = o.text]
    BY <1>2 DEF TheFiles!Perform
  <2>2. QED BY <1>1, <1>2, <2>1 DEF Workspace
<1>3. CASE o.kind = "delete_file"
  <2>1. TheFiles!Perform(f, o) = [f EXCEPT ![o.path] = Absent]
    BY <1>3 DEF TheFiles!Perform
  <2>2. QED BY <1>1, <1>3, <2>1 DEF Workspace
<1>4. CASE o.kind = "move_file"
  <2>1. TheFiles!Perform(f, o) = [f EXCEPT ![o.path] = Absent, ![o.to] = f[o.path]]
    BY <1>4 DEF TheFiles!Perform
  <2>2. QED BY <1>1, <1>4, <2>1 DEF Workspace
<1>5. CASE o.kind = "apply_diff"
  <2>1. TheFiles!Perform(f, o) = f
    BY <1>5 DEF TheFiles!Perform
  <2>2. QED BY <1>5, <2>1 DEF Workspace
<1>6. QED BY <1>1, <1>2, <1>3, <1>4, <1>5

(* The operations of b leave what none of them names.                      *)
LEMMA OthersLeft ==
  ASSUME TheFiles!FilesAssumption, NEW b \in Batches, Workspace(files), NEW n \in 0..Len(Proposed[b])
  PROVE  /\ Workspace(TheFiles!After(b, n))
         /\ \A p \in Paths \ (TheFiles!PathsOf(b) \cup TheFiles!Moved(b)) : TheFiles!After(b, n)[p] = files[p]
<1> DEFINE L == Len(Proposed[b])
           Good(k) == /\ Workspace(TheFiles!After(b, k))
                      /\ \A p \in Paths \ (TheFiles!PathsOf(b) \cup TheFiles!Moved(b)) :
                            TheFiles!After(b, k)[p] = files[p]
           Bad == {k \in 0..L : ~Good(k)}
<1>1. L \in Nat /\ DOMAIN Proposed[b] = 1..L
  BY Sequenced
<1>2. Bad \in SUBSET Nat
  BY <1>1
<1>3. ASSUME Bad # {} PROVE FALSE
  <2> HIDE DEF Bad
  <2>1. PICK m \in Bad : \A k \in Bad : m <= k
    BY <1>2, <1>3, LeastOf
  <2>2. m \in Nat /\ m - 1 \notin Bad
    BY <1>2, <2>1
  <2>3. m \in 0..L /\ ~Good(m)
    BY DEF Bad
  <2>4. m # 0
    BY <2>3, Course
  <2>5. m \in 1..L /\ m - 1 \in 0..L
    BY <1>1, <2>3, <2>4
  <2>6. Good(m - 1)
    BY <2>2, <2>5 DEF Bad
  <2>7. TheFiles!After(b, m) = TheFiles!Perform(TheFiles!After(b, m - 1), Proposed[b][m])
    BY <2>5, Course
  <2>8. Proposed[b][m].path \in TheFiles!PathsOf(b)
        /\ (Proposed[b][m].kind = "move_file" => Proposed[b][m].to \in TheFiles!Moved(b))
    BY <1>1, <2>5 DEF TheFiles!PathsOf, TheFiles!Moved
  <2>9. Proposed[b][m] \in TheFiles!Operations
    BY <1>1, <2>5, Sequenced
  <2>10. Good(m)
    BY <2>6, <2>7, <2>8, <2>9, Performed
  <2>11. QED BY <2>3, <2>10
<1>4. QED BY <1>3

(* What b has changed after n operations that could be performed, it       *)
(* reverts from the backups taken at first.                                *)
LEMMA ChangedIsUndone ==
  ASSUME TheFiles!FilesAssumption, NEW b \in Batches, Workspace(files), NEW n \in 0..Len(Proposed[b]),
         \A i \in 1..n : ~TheFiles!Impossible(TheFiles!After(b, i - 1), Proposed[b][i]),
         TheFiles!Undoable(b, files)
  PROVE  \A p \in Paths : TheFiles!After(b, n)[p] = files[p] \/ \E i \in 1..n : Undoes(b, i, p, Saved(files, b))
<1> DEFINE L == Len(Proposed[b])
           Good(k) == \A p \in Paths : \/ TheFiles!After(b, k)[p] = files[p]
                                       \/ \E i \in 1..k : Undoes(b, i, p, Saved(files, b))
           Bad == {k \in 0..n : ~Good(k)}
<1>1. L \in Nat /\ DOMAIN Proposed[b] = 1..L /\ n \in Nat
  BY Sequenced
<1>2. Bad \in SUBSET Nat
  BY <1>1
<1>3. ASSUME Bad # {} PROVE FALSE
  <2> HIDE DEF Bad
  <2>1. PICK m \in Bad : \A k \in Bad : m <= k
    BY <1>2, <1>3, LeastOf
  <2>2. m \in Nat /\ m - 1 \notin Bad
    BY <1>2, <2>1
  <2>3. m \in 0..n /\ ~Good(m)
    BY DEF Bad
  <2>4. m # 0
    BY <2>3, Course
  <2>5. m \in 1..n /\ m - 1 \in 0..n /\ m \in 1..L /\ m - 1 \in 0..L /\ \A i \in 1..(m - 1) : i \in 1..m
    BY <1>1, <2>3, <2>4
  <2>6. Good(m - 1)
    BY <2>2, <2>5 DEF Bad
  <2> DEFINE o == Proposed[b][m]
             f == TheFiles!After(b, m - 1)
  <2>7. TheFiles!After(b, m) = TheFiles!Perform(f, o) /\ Workspace(f)
    BY <2>5, Course, OthersLeft
  <2>8. m \in DOMAIN Proposed[b] /\ ~TheFiles!Impossible(f, o)
    BY <1>1, <2>5
  <2>9. /\ o \in TheFiles!Operations /\ o.kind # "move_file"
        /\ o.kind \in {"create_file", "modify_file", "delete_file", "apply_diff"}
    BY <2>8, Sequenced DEF TheFiles!Undoable
  <2> HIDE DEF Good, f, o
  <2>10. ASSUME NEW p \in Paths, TheFiles!Perform(f, o)[p] # f[p]
         PROVE  o.kind # "apply_diff" /\ o.path = p
    BY <2>7, <2>9, <2>10, Performed
  <2>11. \A p \in Paths : f[p] = files[p] \/ \E i \in 1..m : Undoes(b, i, p, Saved(files, b))
    BY <2>5, <2>6 DEF Good, f
  <2>12. ASSUME NEW p \in Paths, f[p] = files[p]
         PROVE  \/ TheFiles!Perform(f, o)[p] = files[p]
                \/ \E i \in 1..m : Undoes(b, i, p, Saved(files, b))
    <3>1. CASE TheFiles!Perform(f, o)[p] = f[p]
      BY <2>12, <3>1
    <3>2. CASE TheFiles!Perform(f, o)[p] # f[p]
      <4>1. o.kind \in {"create_file", "modify_file", "delete_file"} /\ o.path = p
        BY <2>9, <2>10, <3>2
      <4>2. CASE o.kind = "create_file"
        BY <2>5, <4>1, <4>2 DEF o, Undoes, TheFiles!Reverts
      <4>3. CASE o.kind # "create_file"
        <5>1. f[p] # Absent
          <6>1. CASE o.kind = "modify_file"
            BY <2>8, <4>1, <6>1 DEF TheFiles!Impossible
          <6>2. CASE o.kind = "delete_file"
            BY <2>7, <2>9, <2>12, <3>2, <4>1, <6>2, Performed
          <6>3. QED BY <4>1, <4>3, <6>1, <6>2
        <5>2. m \in DOMAIN Saved(files, b)
          BY <2>8, <2>12, <4>1, <5>1 DEF o, Saved
        <5>3. QED BY <2>5, <4>1, <4>3, <5>2 DEF o, Undoes, TheFiles!Reverts
      <4>4. QED BY <4>2, <4>3
    <3>3. QED BY <3>1, <3>2
  <2>13. ASSUME NEW p \in Paths
         PROVE  \/ TheFiles!After(b, m)[p] = files[p]
                \/ \E i \in 1..m : Undoes(b, i, p, Saved(files, b))
    BY <2>7, <2>11, <2>12
  <2>14. QED BY <2>3, <2>13 DEF Good
<1>4. n \in 0..n
  BY <1>1
<1>5. QED BY <1>3, <1>4

(* A path on which nothing is reverted is as it was.                       *)
LEMMA LeftByRollback ==
  ASSUME NEW b, NEW which, NEW saved, NEW f, NEW p \in Paths, \A i \in which : ~Undoes(b, i, p, saved)
  PROVE  TheFiles!Reverted(f, b, which, saved)[p] = f[p]
<1>1. {i \in which : Proposed[b][i].path = p /\ TheFiles!Reverts(Proposed[b][i], i, saved)} = {}
  BY DEF Undoes
<1>2. QED BY <1>1 DEF TheFiles!Reverted

(* Any other is as it was in the workspace g of the backups, when from     *)
(* there the batch is one that the engine can undo.                        *)
Restores(f, g, b, which) ==
  \A p \in Paths : (\E j \in which : Undoes(b, j, p, Saved(g, b))) =>
    TheFiles!Reverted(f, b, which, Saved(g, b))[p] = g[p]

LEMMA RestoredByRollback ==
  ASSUME TheFiles!FilesAssumption, NEW b \in Batches, NEW which \in SUBSET DOMAIN Proposed[b], NEW f, NEW g,
         TheFiles!Undoable(b, g)
  PROVE  Restores(f, g, b, which)
<1> SUFFICES ASSUME NEW p \in Paths, NEW j \in which, Undoes(b, j, p, Saved(g, b))
             PROVE  TheFiles!Reverted(f, b, which, Saved(g, b))[p] = g[p]
  BY DEF Restores
<1> DEFINE saved == Saved(g, b)
           those == {i \in which : Proposed[b][i].path = p /\ TheFiles!Reverts(Proposed[b][i], i, saved)}
           i == TheFiles!Min(those)
<1>1. TheFiles!Reverted(f, b, which, saved)[p] =
        IF those = {} THEN f[p] ELSE TheFiles!Former(Proposed[b][i], i, saved)
  BY DEF TheFiles!Reverted
<1>2. those \in SUBSET Nat /\ those # {} /\ \A k \in those : k \in DOMAIN Proposed[b] /\ Undoes(b, k, p, saved)
  BY Sequenced DEF Undoes
<1> HIDE DEF those
<1>3. i \in DOMAIN Proposed[b] /\ Undoes(b, i, p, saved)
  BY <1>2, MinIsLeast
<1> HIDE DEF i
<1>4. TheFiles!Former(Proposed[b][i], i, saved) = g[p]
  BY <1>3 DEF TheFiles!Undoable, Undoes, TheFiles!Former, TheFiles!Reverts, Saved
<1>5. QED BY <1>1, <1>2, <1>4

(* A rollback writes what the batch names.                                 *)
LEMMA RevertedAreNamed ==
  ASSUME TheFiles!FilesAssumption, NEW b \in Batches, NEW which \in SUBSET DOMAIN Proposed[b], NEW saved, NEW f
  PROVE  /\ Workspace(TheFiles!Reverted(f, b, which, saved))
         /\ \A p \in Paths \ TheFiles!PathsOf(b) : TheFiles!Reverted(f, b, which, saved)[p] = f[p]
<1>1. Workspace(TheFiles!Reverted(f, b, which, saved))
  BY DEF Workspace, TheFiles!Reverted
<1>2. ASSUME NEW p \in Paths \ TheFiles!PathsOf(b) PROVE TheFiles!Reverted(f, b, which, saved)[p] = f[p]
  <2>1. \A i \in which : ~Undoes(b, i, p, saved)
    BY <1>2 DEF Undoes, TheFiles!PathsOf
  <2>2. QED BY <2>1, LeftByRollback
<1>3. QED BY <1>1, <1>2

(* So does one that raises, and an emergency rollback.                     *)
LEMMA TornIsNamed ==
  ASSUME NEW f, Workspace(f), NEW q \in Paths, NEW g \in TheFiles!Torn(f, q)
  PROVE  Workspace(g) /\ \A p \in Paths \ {q} : g[p] = f[p]
  BY DEF TheFiles!Torn, Workspace

LEMMA StoppedIsNamed ==
  ASSUME TheFiles!FilesAssumption, NEW b \in Batches, NEW which \in SUBSET DOMAIN Proposed[b], NEW saved, NEW f,
         NEW k \in which, NEW g, g \in TheFiles!StoppedAt(f, b, which, saved, k)
  PROVE  Workspace(g) /\ \A p \in Paths \ TheFiles!PathsOf(b) : g[p] = f[p]
<1> DEFINE later == {i \in which : i > k}
           h == TheFiles!Reverted(f, b, later, saved)
           q == Proposed[b][k].path
<1>1. h = TheFiles!Reverted(f, b, later, saved) /\ later \in SUBSET DOMAIN Proposed[b] /\ later \subseteq which
  OBVIOUS
<1>2. g = h \/ (TheFiles!Reverts(Proposed[b][k], k, saved) /\ g \in TheFiles!Torn(h, q))
  BY DEF TheFiles!StoppedAt
<1>3. q \in Paths /\ q \in TheFiles!PathsOf(b)
  BY Sequenced DEF TheFiles!PathsOf
<1> HIDE DEF later, h
<1>4. Workspace(h) /\ \A p \in Paths \ TheFiles!PathsOf(b) : h[p] = f[p]
  BY <1>1, RevertedAreNamed
<1>5. Workspace(g) /\ \A p \in Paths \ {q} : g[p] = h[p]
  BY <1>2, <1>3, <1>4, TornIsNamed
<1>6. QED BY <1>3, <1>4, <1>5

LEMMA StoppedIsOrdered ==
  ASSUME TheFiles!FilesAssumption, NEW b \in Batches, NEW which \in SUBSET DOMAIN Proposed[b], NEW saved, NEW f,
         NEW k \in which, NEW g, g \in TheFiles!StoppedAt(f, b, which, saved, k),
         NEW p \in Paths, \A i \in which : ~Undoes(b, i, p, saved)
  PROVE  g[p] = f[p]
<1> DEFINE later == {i \in which : i > k}
           h == TheFiles!Reverted(f, b, later, saved)
           q == Proposed[b][k].path
<1>1. h = TheFiles!Reverted(f, b, later, saved) /\ later \in SUBSET DOMAIN Proposed[b] /\ later \subseteq which
  OBVIOUS
<1>2. g = h \/ (TheFiles!Reverts(Proposed[b][k], k, saved) /\ g \in TheFiles!Torn(h, q))
  BY DEF TheFiles!StoppedAt
<1>3. q \in Paths /\ q \in TheFiles!PathsOf(b)
  BY Sequenced DEF TheFiles!PathsOf
<1> HIDE DEF later, h
<1>4. h[p] = f[p] /\ Workspace(h)
  BY <1>1, LeftByRollback, RevertedAreNamed
<1>5. ~TheFiles!Reverts(Proposed[b][k], k, saved) \/ p # q
  BY DEF Undoes
<1>6. g[p] = h[p]
  BY <1>2, <1>3, <1>4, <1>5, TornIsNamed
<1>7. QED BY <1>4, <1>6

LEMMA RescuedAreNamed ==
  ASSUME TheFiles!FilesAssumption, NEW b \in Batches, NEW which \in SUBSET DOMAIN Proposed[b], NEW saved, NEW f,
         Workspace(f)
  PROVE  \A g \in TheFiles!Rescue(f, b, which, saved) :
           Workspace(g) /\ \A p \in Paths \ TheFiles!PathsOf(b) : g[p] = f[p]
<1> SUFFICES ASSUME NEW g \in TheFiles!Rescue(f, b, which, saved)
             PROVE  Workspace(g) /\ \A p \in Paths \ TheFiles!PathsOf(b) : g[p] = f[p]
  OBVIOUS
<1>1. CASE g = f
  BY <1>1
<1>2. CASE g = TheFiles!Reverted(f, b, which, saved)
  BY <1>2, RevertedAreNamed
<1>3. ASSUME NEW k \in which, g \in TheFiles!StoppedAt(f, b, which, saved, k)
      PROVE  Workspace(g) /\ \A p \in Paths \ TheFiles!PathsOf(b) : g[p] = f[p]
  BY <1>3, StoppedIsNamed
<1>4. QED BY <1>1, <1>2, <1>3 DEF TheFiles!Rescue

(* A batch that is applied can be taken back: its backups are of the       *)
(* workspace that it was applied to, and when it is one that the engine    *)
(* undoes, what it does not restore from them is as it was there, but for  *)
(* what others have written.                                               *)
Restorable(b) ==
  batch[b] = "applied" =>
    /\ backups[b] = Saved(before[b], b)
    /\ TheFiles!Undoable(b, before[b]) =>
         \A p \in Paths \ changed[b] :
           \/ files[p] = before[b][p]
           \/ \E i \in DOMAIN Proposed[b] : Undoes(b, i, p, backups[b])

FileShape ==
  /\ DOMAIN batch = Batches /\ DOMAIN backups = Batches /\ DOMAIN stamped = Batches
  /\ DOMAIN before = Batches /\ DOMAIN changed = Batches
  /\ \A b \in Batches : stamped[b] \subseteq DOMAIN Proposed[b]
  /\ Workspace(files)

FileInv == FileShape /\ \A b \in Batches : Restorable(b)

(* A batch stays so while others write.                                    *)
LEMMA StaysRestorable ==
  ASSUME NEW c \in Batches, Restorable(c), batch'[c] = batch[c], backups'[c] = backups[c],
         before'[c] = before[c], changed[c] \subseteq changed'[c],
         \A p \in Paths \ changed'[c] : files'[p] = files[p]
  PROVE  Restorable(c)'
  BY DEF Restorable, Undoes

LEMMA BatchMoves ==
  ASSUME FileInv, NEW b \in Batches, FileShape', Restorable(b)',
         \A c \in Batches \ {b} :
           /\ batch'[c] = batch[c] /\ backups'[c] = backups[c] /\ before'[c] = before[c]
           /\ changed[c] \subseteq changed'[c]
           /\ \A p \in Paths \ changed'[c] : files'[p] = files[p]
  PROVE  FileInv'
<1>1. ASSUME NEW c \in Batches \ {b} PROVE Restorable(c)'
  BY <1>1, StaysRestorable DEF FileInv
<1>2. QED BY <1>1 DEF FileInv

(* The operations before the first that cannot be performed.               *)
LEMMA PossibleToThere ==
  ASSUME TheFiles!FilesAssumption, NEW b \in Batches
  PROVE  /\ TheFiles!Stumble(b) \in Nat
         /\ \A i \in DOMAIN Proposed[b] :
              i < TheFiles!Stumble(b) => ~TheFiles!Impossible(TheFiles!After(b, i - 1), Proposed[b][i])
<1> DEFINE n == Len(Proposed[b])
           bad == {i \in DOMAIN Proposed[b] : TheFiles!Impossible(TheFiles!After(b, i - 1), Proposed[b][i])}
<1>1. TheFiles!Stumble(b) = IF bad = {} THEN n + 1 ELSE TheFiles!Min(bad)
  BY DEF TheFiles!Stumble
<1>2. bad \in SUBSET Nat /\ n \in Nat
  BY Sequenced
<1>3. \A i \in DOMAIN Proposed[b] :
         i \in bad <=> TheFiles!Impossible(TheFiles!After(b, i - 1), Proposed[b][i])
  OBVIOUS
<1> HIDE DEF bad
<1>4. CASE bad = {}
  BY <1>1, <1>2, <1>3, <1>4
<1>5. CASE bad # {}
  <2>1. TheFiles!Min(bad) \in bad /\ \A i \in bad : TheFiles!Min(bad) <= i
    BY <1>2, <1>5, MinIsLeast
  <2>2. TheFiles!Stumble(b) = TheFiles!Min(bad) /\ TheFiles!Min(bad) \in Nat
    BY <1>1, <1>2, <1>5, <2>1
  <2>3. \A i \in bad : ~(i < TheFiles!Min(bad))
    BY <1>2, <2>1, <2>2
  <2>4. QED BY <1>3, <2>2, <2>3
<1>6. QED BY <1>4, <1>5

(* A batch is proposed or rejected.                                        *)
LEMMA BatchWaits ==
  ASSUME FileInv, NEW b \in Batches, TheFiles!Propose(b) \/ TheFiles!Reject(b)
  PROVE  FileInv'
<1>1. /\ UNCHANGED <<files, backups, stamped, before, changed>> /\ DOMAIN batch' = Batches /\ batch'[b] = "pending"
      /\ \A c \in Batches \ {b} : batch'[c] = batch[c]
  BY DEF TheFiles!Propose, TheFiles!Reject, FileInv, FileShape
<1>2. FileShape'
  BY <1>1 DEF FileInv, FileShape
<1>3. Restorable(b)'
  BY <1>1 DEF Restorable
<1>4. QED BY <1>1, <1>2, <1>3, BatchMoves

(* The others find changed what b writes.                                  *)
LEMMA BatchBegins ==
  ASSUME FileInv, NEW b \in Batches, TheFiles!Begin(b)
  PROVE  /\ batch[b] = "pending" /\ DOMAIN before' = Batches /\ DOMAIN changed' = Batches
         /\ before'[b] = files /\ changed'[b] = {}
         /\ \A c \in Batches \ {b} :
              before'[c] = before[c] /\ changed'[c] = changed[c] \cup TheFiles!PathsOf(b) \cup TheFiles!Moved(b)
  BY DEF TheFiles!Begin, TheFiles!OthersSee, FileInv, FileShape

(* An application leaves what the batch does not name.                     *)
LEMMA BatchApplied ==
  ASSUME TheFiles!FilesAssumption, FileInv, NEW b \in Batches, TheFiles!Apply(b)
  PROVE  FileInv'
<1> DEFINE n == Len(Proposed[b])
           saved == Saved(files, b)
           After == TheFiles!After(b, n)
<1>1. n \in 0..n /\ DOMAIN Proposed[b] = 1..n /\ n \in Nat
  BY Sequenced
<1>2. /\ files' = After /\ DOMAIN batch' = Batches /\ DOMAIN backups' = Batches /\ DOMAIN stamped' = Batches
      /\ backups'[b] = saved /\ stamped'[b] = DOMAIN Proposed[b]
      /\ \A c \in Batches \ {b} : batch'[c] = batch[c] /\ backups'[c] = backups[c] /\ stamped'[c] = stamped[c]
  BY DEF TheFiles!Apply, TheFiles!TakeBackups, Saved, FileInv, FileShape
<1>3. /\ DOMAIN before' = Batches /\ DOMAIN changed' = Batches /\ before'[b] = files /\ changed'[b] = {}
      /\ \A c \in Batches \ {b} :
           before'[c] = before[c] /\ changed'[c] = changed[c] \cup TheFiles!PathsOf(b) \cup TheFiles!Moved(b)
  BY BatchBegins DEF TheFiles!Apply
<1>4. Workspace(files)
  BY DEF FileInv, FileShape
<1>5. Workspace(After) /\ \A p \in Paths \ (TheFiles!PathsOf(b) \cup TheFiles!Moved(b)) : After[p] = files[p]
  BY <1>1, <1>4, OthersLeft
<1>6. \A i \in 1..n : ~TheFiles!Impossible(TheFiles!After(b, i - 1), Proposed[b][i])
  <2>1. TheFiles!Stumble(b) > n
    BY DEF TheFiles!Apply
  <2>2. QED BY <1>1, <2>1, PossibleToThere
<1>7. FileShape'
  BY <1>2, <1>3, <1>5 DEF FileInv, FileShape, Workspace
<1> HIDE DEF After, saved
<1>8. ASSUME TheFiles!Undoable(b, files), NEW p \in Paths
      PROVE  After[p] = files[p] \/ \E i \in DOMAIN Proposed[b] : Undoes(b, i, p, saved)
  BY <1>1, <1>4, <1>6, <1>8, ChangedIsUndone DEF After, saved
<1>9. Restorable(b)'
  BY <1>2, <1>3, <1>8 DEF Restorable, Undoes, saved
<1>10. QED BY <1>2, <1>3, <1>5, <1>7, <1>9, BatchMoves

(* An application raises.                                                  *)
LEMMA BatchFails ==
  ASSUME TheFiles!FilesAssumption, FileInv, NEW b \in Batches, TheFiles!Fail(b) \/ TheFiles!FailBackup(b)
  PROVE  FileInv'
<1>1. /\ batch[b] = "pending" /\ batch' = batch /\ DOMAIN before' = Batches /\ DOMAIN changed' = Batches
      /\ \A c \in Batches \ {b} :
           before'[c] = before[c] /\ changed'[c] = changed[c] \cup TheFiles!PathsOf(b) \cup TheFiles!Moved(b)
  BY BatchBegins DEF TheFiles!Fail, TheFiles!FailBackup
<1>2. Workspace(files) /\ stamped[b] \in SUBSET DOMAIN Proposed[b]
  BY DEF FileInv, FileShape
<1>3. /\ DOMAIN backups' = Batches /\ DOMAIN stamped' = Batches /\ stamped'[b] \in SUBSET DOMAIN Proposed[b]
      /\ \A c \in Batches \ {b} : backups'[c] = backups[c] /\ stamped'[c] = stamped[c]
      /\ Workspace(files')
      /\ \A p \in Paths \ (TheFiles!PathsOf(b) \cup TheFiles!Moved(b)) : files'[p] = files[p]
  <2>1. CASE TheFiles!Fail(b)
    <3>1. PICK k \in DOMAIN Proposed[b] :
            /\ backups' = [backups EXCEPT ![b] = TheFiles!TakeBackups(b)]
            /\ stamped' = [stamped EXCEPT ![b] = @ \cup 1..(k - 1)]
            /\ \E f \in {TheFiles!After(b, k - 1)} \cup TheFiles!Raised(TheFiles!After(b, k - 1), Proposed[b][k]) :
                 files' \in TheFiles!Rescue(f, b, stamped'[b], backups'[b])
      BY <2>1 DEF TheFiles!Fail
    <3>2. k - 1 \in 0..Len(Proposed[b]) /\ 1..(k - 1) \subseteq DOMAIN Proposed[b]
      BY Sequenced
    <3>3. /\ DOMAIN backups' = Batches /\ DOMAIN stamped' = Batches /\ stamped'[b] \in SUBSET DOMAIN Proposed[b]
          /\ \A c \in Batches \ {b} : backups'[c] = backups[c] /\ stamped'[c] = stamped[c]
      BY <1>2, <3>1, <3>2 DEF FileInv, FileShape
    <3>4. /\ Workspace(TheFiles!After(b, k - 1))
          /\ \A p \in Paths \ (TheFiles!PathsOf(b) \cup TheFiles!Moved(b)) : TheFiles!After(b, k - 1)[p] = files[p]
      BY <1>2, <3>2, OthersLeft
    <3> DEFINE which == stamped[b] \cup 1..(k - 1)
               saved == TheFiles!TakeBackups(b)
    <3>5. which \in SUBSET DOMAIN Proposed[b]
          /\ \E f \in {TheFiles!After(b, k - 1)} \cup TheFiles!Raised(TheFiles!After(b, k - 1), Proposed[b][k]) :
               files' \in TheFiles!Rescue(f, b, which, saved)
      BY <1>2, <3>1, <3>2 DEF FileInv, FileShape
    <3> HIDE DEF which, saved
    <3>f. PICK f \in {TheFiles!After(b, k - 1)} \cup TheFiles!Raised(TheFiles!After(b, k - 1), Proposed[b][k]) :
            files' \in TheFiles!Rescue(f, b, which, saved)
      BY <3>5
    <3>g. Proposed[b][k].path \in Paths /\ Proposed[b][k].path \in TheFiles!PathsOf(b)
      BY Sequenced DEF TheFiles!PathsOf
    <3>h. Workspace(f) /\ \A p \in Paths \ TheFiles!PathsOf(b) : f[p] = TheFiles!After(b, k - 1)[p]
      BY <3>4, <3>f, <3>g, TornIsNamed DEF TheFiles!Raised
    <3>6. /\ Workspace(files')
          /\ \A p \in Paths \ TheFiles!PathsOf(b) : files'[p] = TheFiles!After(b, k - 1)[p]
      BY <3>5, <3>f, <3>h, RescuedAreNamed
    <3>7. QED BY <3>3, <3>4, <3>6
  <2>2. CASE TheFiles!FailBackup(b)
    <3>1. UNCHANGED <<backups, stamped>> /\ files' \in TheFiles!Rescue(files, b, stamped[b], backups[b])
      BY <2>2 DEF TheFiles!FailBackup
    <3>2. \A g \in TheFiles!Rescue(files, b, stamped[b], backups[b]) :
             Workspace(g) /\ \A p \in Paths \ TheFiles!PathsOf(b) : g[p] = files[p]
      BY <1>2, RescuedAreNamed
    <3>3. Workspace(files') /\ \A p \in Paths \ TheFiles!PathsOf(b) : files'[p] = files[p]
      BY <3>1, <3>2
    <3>4. QED BY <1>2, <3>1, <3>3 DEF FileInv, FileShape
  <2>3. QED BY <2>1, <2>2
<1>4. FileShape'
  BY <1>1, <1>3 DEF FileInv, FileShape
<1>5. Restorable(b)'
  BY <1>1 DEF Restorable
<1>6. QED BY <1>1, <1>3, <1>4, <1>5, BatchMoves

(* A rollback, whole or cut short.                                         *)
LEMMA BatchRolledBack ==
  ASSUME TheFiles!FilesAssumption, FileInv, NEW b \in Batches, TheFiles!Rollback(b) \/ TheFiles!RollbackStops(b)
  PROVE  FileInv'
<1>1. /\ UNCHANGED <<backups, stamped, before>> /\ DOMAIN batch' = Batches /\ DOMAIN changed' = Batches
      /\ batch'[b] = "pending" \/ batch' = batch
      /\ changed'[b] = changed[b]
      /\ \A c \in Batches \ {b} :
           /\ batch'[c] = batch[c]
           /\ changed'[c] = changed[c] \cup TheFiles!PathsOf(b) \cup TheFiles!Moved(b)
  BY DEF TheFiles!Rollback, TheFiles!RollbackStops, TheFiles!OthersSee, FileInv, FileShape
<1>3. /\ Workspace(files') /\ \A p \in Paths \ TheFiles!PathsOf(b) : files'[p] = files[p]
      /\ \A p \in Paths : files'[p] = files[p] \/ \E i \in DOMAIN Proposed[b] : Undoes(b, i, p, backups[b])
  <2>1. CASE TheFiles!Rollback(b)
    <3>1. files' = TheFiles!Reverted(files, b, DOMAIN Proposed[b], backups[b])
      BY <2>1 DEF TheFiles!Rollback
    <3>2. QED BY <3>1, RevertedAreNamed, LeftByRollback
  <2>2. CASE TheFiles!RollbackStops(b)
    <3>1. PICK k \in DOMAIN Proposed[b] :
            files' \in TheFiles!StoppedAt(files, b, DOMAIN Proposed[b], backups[b], k)
      BY <2>2 DEF TheFiles!RollbackStops
    <3> DEFINE which == DOMAIN Proposed[b]
               saved == backups[b]
    <3>2. which \in SUBSET DOMAIN Proposed[b] /\ k \in which /\ files' \in TheFiles!StoppedAt(files, b, which, saved, k)
      BY <3>1
    <3> HIDE DEF which, saved
    <3>3. Workspace(files') /\ \A p \in Paths \ TheFiles!PathsOf(b) : files'[p] = files[p]
      BY <3>2, StoppedIsNamed
    <3>4. ASSUME NEW p \in Paths, \A i \in which : ~Undoes(b, i, p, saved) PROVE files'[p] = files[p]
      BY <3>2, <3>4, StoppedIsOrdered
    <3>5. QED BY <3>3, <3>4 DEF which, saved
  <2>3. QED BY <2>1, <2>2
<1>5. FileShape'
  BY <1>1, <1>3 DEF FileInv, FileShape
<1>6. Restorable(b)'
  BY <1>1, <1>3 DEF FileInv, Restorable, Undoes
<1>7. QED BY <1>1, <1>3, <1>5, <1>6, BatchMoves

(* Somebody else writes a file.                                            *)
LEMMA FileEdited ==
  ASSUME FileInv, NEW p \in Paths, TheFiles!Edit(p)
  PROVE  FileInv'
<1>1. /\ UNCHANGED <<batch, stamped, backups, before>> /\ changed' = [b \in Batches |-> changed[b] \cup {p}]
  BY DEF TheFiles!Edit
<1>2. Workspace(files') /\ \A q \in Paths \ {p} : files'[q] = files[q]
  <2>1. PICK text : files' = [files EXCEPT ![p] = text]
    BY DEF TheFiles!Edit
  <2>2. QED BY <2>1 DEF FileInv, FileShape, Workspace
<1>3. FileShape'
  BY <1>1, <1>2 DEF FileInv, FileShape
<1>4. ASSUME NEW c \in Batches PROVE Restorable(c)'
  BY <1>1, <1>2, StaysRestorable DEF FileInv
<1>5. QED BY <1>3, <1>4 DEF FileInv

LEMMA FilesStart == ASSUME TheFiles!Init PROVE FileInv
  BY DEF TheFiles!Init, FileInv, FileShape, Restorable, Workspace

(* The calls that raised are counted.                                      *)
FaultsCounted == fileFaults \in Nat

LEMMA FaultsAreCounted ==
  ASSUME FaultsCounted, [TheFiles!Next]_(TheFiles!vars) PROVE FaultsCounted'
<1>1. fileFaults' = fileFaults \/ fileFaults' = fileFaults + 1
  BY DEF TheFiles!Next, TheFiles!vars, TheFiles!Propose, TheFiles!Reject, TheFiles!Apply, TheFiles!Fail,
         TheFiles!FailBackup, TheFiles!Rollback, TheFiles!RollbackStops, TheFiles!Edit
<1>2. QED BY <1>1 DEF FaultsCounted

LEMMA FilesGoOn == ASSUME TheFiles!FilesAssumption, FileInv, [TheFiles!Next]_(TheFiles!vars) PROVE FileInv'
<1>1. CASE UNCHANGED TheFiles!vars
  BY <1>1 DEF TheFiles!vars, FileInv, FileShape, Restorable, Undoes
<1>2. CASE TheFiles!Next
  BY <1>2, BatchWaits, BatchApplied, BatchFails, BatchRolledBack, FileEdited DEF TheFiles!Next
<1>3. QED BY <1>1, <1>2

(* An application that raises takes itself back, first by what it has      *)
(* performed and then by what an earlier one had; the file whose writing   *)
(* raised is reverted only when one of these wrote it too.                 *)
LEMMA FailedIsTakenBack ==
  ASSUME TheFiles!FilesAssumption, "rescue" \notin FileFailures, FileInv, NEW b \in Batches, TheFiles!Fail(b),
         TheFiles!Undoable(b, files), fileFaults \in Nat
  PROVE  \/ files' = files
         \/ /\ fileFaults' > fileFaults
            /\ \E i \in DOMAIN Proposed[b] : files' = [files EXCEPT ![Proposed[b][i].path] = Partial]
<1>1. PICK k \in DOMAIN Proposed[b] :
        /\ k = TheFiles!Stumble(b) \/ k < TheFiles!Stumble(b)
        /\ backups' = [backups EXCEPT ![b] = TheFiles!TakeBackups(b)]
        /\ stamped' = [stamped EXCEPT ![b] = @ \cup 1..(k - 1)]
        /\ \/ files' \in TheFiles!Rescue(TheFiles!After(b, k - 1), b, stamped'[b], backups'[b])
           \/ /\ fileFaults' = fileFaults + 1
              /\ \E f \in TheFiles!Torn(TheFiles!After(b, k - 1), Proposed[b][k].path) :
                   files' \in TheFiles!Rescue(f, b, stamped'[b], backups'[b])
  BY DEF TheFiles!Fail, TheFiles!Raised, TheFiles!Torn
<1> DEFINE saved == Saved(files, b)
           which == stamped[b] \cup 1..(k - 1)
           After == TheFiles!After(b, k - 1)
           q == Proposed[b][k].path
<1>2. /\ k \in Nat /\ k - 1 \in 0..Len(Proposed[b]) /\ 1..(k - 1) \subseteq DOMAIN Proposed[b]
      /\ q \in Paths /\ \A i \in 1..(k - 1) : i \in Nat /\ i < k
  BY Sequenced
<1>3. Workspace(files) /\ stamped[b] \subseteq DOMAIN Proposed[b]
  BY DEF FileInv, FileShape
<1>4. /\ which \in SUBSET DOMAIN Proposed[b]
      /\ \/ files' \in TheFiles!Rescue(After, b, which, saved)
         \/ fileFaults' = fileFaults + 1 /\ \E f \in TheFiles!Torn(After, q) : files' \in TheFiles!Rescue(f, b, which, saved)
  BY <1>1, <1>2, <1>3 DEF FileInv, FileShape, TheFiles!TakeBackups, Saved
<1>c. which \in SUBSET DOMAIN Proposed[b]
  BY <1>4
<1>5. \A p \in Paths : After[p] = files[p] \/ \E i \in 1..(k - 1) : Undoes(b, i, p, saved)
  <2>1. \A i \in 1..(k - 1) : i < TheFiles!Stumble(b)
    BY <1>1, <1>2, PossibleToThere
  <2>2. \A i \in 1..(k - 1) : ~TheFiles!Impossible(TheFiles!After(b, i - 1), Proposed[b][i])
    BY <1>2, <2>1, PossibleToThere
  <2>3. QED BY <1>2, <1>3, <2>2, ChangedIsUndone
<1>w. Workspace(After)
  BY <1>2, <1>3, OthersLeft
<1>6. saved # <<>>
  <2>1. PICK i \in DOMAIN Proposed[b] : files[Proposed[b][i].path] # Absent
    BY DEF TheFiles!Undoable, TheFiles!PathsOf
  <2>2. i \in DOMAIN saved
    BY <2>1 DEF Saved
  <2>3. QED BY <2>2
<1> HIDE DEF saved, After, q
<1>7. PICK f \in TheFiles!Torn(After, q) :
         files' = TheFiles!Reverted(f, b, which, saved) /\ (f = After \/ fileFaults' = fileFaults + 1)
  BY <1>4, <1>6 DEF TheFiles!Rescue, TheFiles!Torn
<1>r. Restores(f, files, b, which)
  <2> HIDE DEF which
  <2>1. QED BY <1>c, RestoredByRollback
<1>8. ASSUME NEW p \in Paths PROVE files'[p] = files[p] \/ (p = q /\ files'[p] = f[p])
  <2>1. CASE \E i \in which : Undoes(b, i, p, saved)
    BY <1>7, <1>8, <1>r, <2>1 DEF Restores, saved
  <2>2. CASE \A i \in which : ~Undoes(b, i, p, saved)
    <3>1. files'[p] = f[p]
      BY <1>7, <2>2, LeftByRollback
    <3>2. p = q \/ f[p] = After[p]
      BY <1>2, <1>w, TornIsNamed
    <3>3. QED BY <1>5, <2>2, <3>1, <3>2
  <2>3. QED BY <2>1, <2>2
<1>9. Workspace(files')
  BY <1>4, <1>7, RevertedAreNamed
<1>10. CASE f = After
  <2>1. \A p \in Paths : files'[p] = files[p]
    <3>1. SUFFICES ASSUME NEW p \in Paths, p = q, files'[p] = f[p], files'[p] # files[p] PROVE FALSE
      BY <1>8
    <3>2. PICK j \in which : Undoes(b, j, p, Saved(files, b))
      BY <1>5, <1>10, <3>1 DEF saved
    <3>3. QED BY <1>7, <1>r, <3>1, <3>2 DEF Restores, saved
  <2>2. QED BY <1>3, <1>9, <2>1 DEF Workspace
<1>11. CASE f # After
  <2>1. f[q] = Partial /\ fileFaults' > fileFaults
    BY <1>2, <1>7, <1>11, <1>w DEF TheFiles!Torn, Workspace
  <2>2. \A p \in Paths : files'[p] = files[p] \/ (p = q /\ files'[p] = Partial)
    BY <1>8, <2>1
  <2>3. files' = files \/ files' = [files EXCEPT ![q] = Partial]
    BY <1>2, <1>3, <1>9, <2>2 DEF Workspace
  <2>4. QED BY <2>1, <2>3 DEF q
<1>12. QED BY <1>10, <1>11

(* Where no backup can be made the first time, nothing is taken back.      *)
LEMMA NothingIsTakenBack ==
  ASSUME TheFiles!FilesAssumption, FileInv, NEW b \in Batches, TheFiles!FailBackup(b), TheFiles!FirstTime(b)
  PROVE  files' = files
<1>1. stamped[b] = {} /\ Workspace(files)
  BY DEF TheFiles!FirstTime, FileInv, FileShape
<1>2. files' = files \/ files' = TheFiles!Reverted(files, b, {}, backups[b])
  BY <1>1 DEF TheFiles!FailBackup, TheFiles!Rescue
<1>3. \A p \in Paths : TheFiles!Reverted(files, b, {}, backups[b])[p] = files[p]
  BY LeftByRollback
<1>4. Workspace(TheFiles!Reverted(files, b, {}, backups[b]))
  BY RevertedAreNamed
<1>5. QED BY <1>1, <1>2, <1>3, <1>4 DEF Workspace

(* A rollback of an applied batch.                                         *)
LEMMA BatchIsTakenBack ==
  ASSUME TheFiles!FilesAssumption, FileInv, NEW b \in Batches, TheFiles!Rollback(b),
         TheFiles!Undoable(b, before[b]), NEW p \in Paths \ changed[b]
  PROVE  files'[p] = before[b][p]
<1>1. /\ batch[b] = "applied"
      /\ files' = TheFiles!Reverted(files, b, DOMAIN Proposed[b], backups[b])
  BY DEF TheFiles!Rollback
<1>2. /\ backups[b] = Saved(before[b], b)
      /\ files[p] = before[b][p] \/ \E i \in DOMAIN Proposed[b] : Undoes(b, i, p, backups[b])
  BY <1>1 DEF FileInv, Restorable
<1>r. Restores(files, before[b], b, DOMAIN Proposed[b])
  BY RestoredByRollback
<1>3. CASE \E i \in DOMAIN Proposed[b] : Undoes(b, i, p, backups[b])
  BY <1>1, <1>2, <1>3, <1>r DEF Restores
<1>4. CASE \A i \in DOMAIN Proposed[b] : ~Undoes(b, i, p, backups[b])
  BY <1>1, <1>2, <1>4, LeftByRollback
<1>5. QED BY <1>3, <1>4

(* Of the steps only a rollback takes a batch from the applied ones.       *)
LEMMA OnlyRollbackUndoes ==
  ASSUME FileInv, NEW b \in Batches, TheFiles!Next, TheFiles!Undoing(b)
  PROVE  TheFiles!Rollback(b)
<1>1. batch[b] = "applied" /\ batch'[b] = "pending" /\ DOMAIN batch = Batches
  BY DEF TheFiles!Undoing, FileInv, FileShape
<1>2. ASSUME NEW c \in Batches,
             \/ TheFiles!Propose(c) \/ TheFiles!Reject(c) \/ TheFiles!Apply(c) \/ TheFiles!Fail(c)
             \/ TheFiles!FailBackup(c) \/ TheFiles!RollbackStops(c)
      PROVE  FALSE
  BY <1>1, <1>2 DEF TheFiles!Propose, TheFiles!Reject, TheFiles!Apply, TheFiles!Begin, TheFiles!Fail,
                    TheFiles!FailBackup, TheFiles!RollbackStops
<1>3. ASSUME NEW c \in Batches, TheFiles!Rollback(c), c # b PROVE FALSE
  BY <1>1, <1>3 DEF TheFiles!Rollback
<1>4. ASSUME NEW p \in Paths, TheFiles!Edit(p) PROVE FALSE
  BY <1>1, <1>4 DEF TheFiles!Edit
<1>5. QED BY <1>2, <1>3, <1>4 DEF TheFiles!Next

(* An application that raises leaves the files as they were, but for the   *)
(* one whose writing failed, and a rollback leaves them as they were       *)
(* before the application, but for what others wrote, for any operations   *)
(* in any number of batches, any files, faults and edits, if the rollback  *)
(* of an application that raises does not raise itself                     *)
(* (file_operations_engine.py:592 and :214).                               *)
THEOREM UndoneStaysUndone ==
  ASSUME TheFiles!FilesAssumption, "rescue" \notin FileFailures PROVE TheFiles!Spec => UndoneIsUndone
<1>1. TheFiles!Init => FileInv /\ FaultsCounted
  BY FilesStart DEF TheFiles!Init, FaultsCounted
<1>2. FileInv /\ FaultsCounted /\ [TheFiles!Next]_(TheFiles!vars) => FileInv' /\ FaultsCounted'
  BY FilesGoOn, FaultsAreCounted
<1>3. FileInv /\ FaultsCounted /\ [TheFiles!Next]_(TheFiles!vars) =>
        [\A b \in Batches :
           /\ TheFiles!Fail(b) /\ TheFiles!Undoable(b, files) =>
                 \/ files' = files
                 \/ fileFaults' > fileFaults /\ \E i \in DOMAIN Proposed[b] :
                       files' = [files EXCEPT ![Proposed[b][i].path] = Partial]
           /\ TheFiles!FailBackup(b) /\ TheFiles!FirstTime(b) /\ TheFiles!Undoable(b, files) => files' = files
           /\ TheFiles!Undoing(b) /\ TheFiles!Undoable(b, before[b]) =>
                 \A p \in TheFiles!PathsOf(b) \ changed[b] : files'[p] = before[b][p]]_(TheFiles!vars)
  <2> SUFFICES ASSUME FileInv, FaultsCounted, TheFiles!Next, NEW b \in Batches
               PROVE  /\ TheFiles!Fail(b) /\ TheFiles!Undoable(b, files) =>
                            \/ files' = files
                            \/ /\ fileFaults' > fileFaults
                               /\ \E i \in DOMAIN Proposed[b] : files' = [files EXCEPT ![Proposed[b][i].path] = Partial]
                      /\ TheFiles!FailBackup(b) /\ TheFiles!FirstTime(b) /\ TheFiles!Undoable(b, files)
                            => files' = files
                      /\ TheFiles!Undoing(b) /\ TheFiles!Undoable(b, before[b]) =>
                            \A p \in TheFiles!PathsOf(b) \ changed[b] : files'[p] = before[b][p]
    OBVIOUS
  <2>1. \A p \in TheFiles!PathsOf(b) : p \in Paths
    BY Sequenced DEF TheFiles!PathsOf
  <2>2. TheFiles!Fail(b) /\ TheFiles!Undoable(b, files) =>
          \/ files' = files
          \/ /\ fileFaults' > fileFaults
             /\ \E i \in DOMAIN Proposed[b] : files' = [files EXCEPT ![Proposed[b][i].path] = Partial]
    BY FailedIsTakenBack DEF FaultsCounted
  <2>3. TheFiles!FailBackup(b) /\ TheFiles!FirstTime(b) => files' = files
    BY NothingIsTakenBack
  <2>4. TheFiles!Undoing(b) /\ TheFiles!Undoable(b, before[b]) =>
          \A p \in TheFiles!PathsOf(b) \ changed[b] : files'[p] = before[b][p]
    BY <2>1, BatchIsTakenBack, OnlyRollbackUndoes
  <2>5. QED BY <2>2, <2>3, <2>4
<1>4. QED BY <1>1, <1>2, <1>3, PTL DEF TheFiles!Spec, UndoneIsUndone, TheFiles!UndoneIsUndone
=============================================================================
