------------------------------ MODULE Sandboxes ------------------------------
(***************************************************************************)
(* The sandboxes of the agents (sandbox_manager.py): a container, a row of *)
(* agent_sandboxes and an entry of active_sandboxes each.  Docker is called *)
(* synchronously, so coroutines meet only at the updates of the row, which *)
(* may raise; the process may stop and start again while the containers    *)
(* go on.  Workspace volumes are left out: Docker keeps the ones in use.   *)
(***************************************************************************)
EXTENDS Naturals, FiniteSets

CONSTANTS
    Boxes,        \* sandbox ids, one for each create_sandbox
    Destroyers,   \* callers of destroy_sandbox
    Cleaner,      \* the hourly cleanup loop, one of them
    MaxFaults,    \* bound: updates and removals that raise
    MaxCrashes    \* bound: process stops

\* What is assumed of the constants.
SandboxAssumption == Cleaner \in Destroyers /\ MaxFaults \in Nat /\ MaxCrashes \in Nat

VARIABLES
    row,         \* status in agent_sandboxes, "none" before the insert
    container,   \* the container in Docker
    active,      \* active_sandboxes
    creating,    \* how far create_sandbox is
    destroying,  \* what each destroyer is at
    up, faults, crashes

vars == <<row, container, active, creating, destroying, up, faults, crashes>>

Idle == [box |-> "none", at |-> "idle"]

SandboxTypes ==
    /\ row \in [Boxes -> {"none", "creating", "running", "error", "destroying", "destroyed"}]
    /\ container \in [Boxes -> {"none", "running", "removed", "gone"}]
    /\ active \subseteq Boxes
    /\ creating \in [Boxes -> {"no", "storing", "stored", "ran", "erring", "over"}]
    /\ \A d \in Destroyers : destroying[d] = Idle
         \/ (destroying[d].box \in Boxes /\ destroying[d].at \in {"marking", "removing", "recording", "erring"})
    /\ up \in BOOLEAN /\ faults \in 0..MaxFaults /\ crashes \in 0..MaxCrashes

Init ==
    /\ row = [b \in Boxes |-> "none"] /\ container = row
    /\ active = {}
    /\ creating = [b \in Boxes |-> "no"]
    /\ destroying = [d \in Destroyers |-> Idle]
    /\ up = TRUE /\ faults = 0 /\ crashes = 0

-----------------------------------------------------------------------------

Fine == UNCHANGED faults

Raises == faults < MaxFaults /\ faults' = faults + 1

SetRow(b, status) == row' = [row EXCEPT ![b] = IF @ = "none" THEN @ ELSE status]

Go(b, at) == creating' = [creating EXCEPT ![b] = at]

Create(b) ==
    /\ up /\ creating[b] = "no" /\ Go(b, "storing")
    /\ UNCHANGED <<row, container, active, destroying, up, faults, crashes>>

\* _store_sandbox.
Store(b) ==
    /\ up /\ creating[b] = "storing"
    /\ \/ Fine /\ row' = [row EXCEPT ![b] = "creating"] /\ Go(b, "stored")
       \/ Raises /\ UNCHANGED row /\ Go(b, "erring")
    /\ UNCHANGED <<container, active, destroying, up, crashes>>

\* _create_container; nothing awaits before it and the update that follows.
RunContainer(b) ==
    /\ up /\ creating[b] = "stored"
    /\ \/ Fine /\ container' = [container EXCEPT ![b] = "running"] /\ Go(b, "ran")
       \/ Raises /\ UNCHANGED container /\ Go(b, "erring")
    /\ UNCHANGED <<row, active, destroying, up, crashes>>

\* The row becomes running and only then is the sandbox an active one.
Record(b) ==
    /\ up /\ creating[b] = "ran"
    /\ \/ Fine /\ SetRow(b, "running") /\ active' = active \cup {b} /\ Go(b, "over")
       \/ Raises /\ UNCHANGED <<row, active>> /\ Go(b, "erring")
    /\ UNCHANGED <<container, destroying, up, crashes>>

\* The error path of create_sandbox records ERROR and raises.
CreateFails(b) ==
    /\ up /\ creating[b] = "erring" /\ Go(b, "over")
    /\ \/ Fine /\ SetRow(b, "error")
       \/ Raises /\ UNCHANGED row
    /\ UNCHANGED <<container, active, destroying, up, crashes>>

At(d, at) == up /\ destroying[d].at = at

Turn(d, at) == destroying' = [destroying EXCEPT ![d] = IF at = "idle" THEN Idle ELSE [@ EXCEPT !.at = at]]

\* A task's cleanup, a request or stop() destroys a sandbox; one that is not
\* active is passed over.
Destroy(d, b) ==
    /\ At(d, "idle") /\ d # Cleaner /\ b \in active
    /\ destroying' = [destroying EXCEPT ![d] = [box |-> b, at |-> "marking"]]
    /\ UNCHANGED <<row, container, active, creating, up, faults, crashes>>

\* Mutant: the loop looks for running sandboxes.
ExpireRunning(b) ==
    /\ At(Cleaner, "idle") /\ b \in active /\ row[b] = "running"
    /\ destroying' = [destroying EXCEPT ![Cleaner] = [box |-> b, at |-> "marking"]]
    /\ UNCHANGED <<row, container, active, creating, up, faults, crashes>>

\* _cleanup_expired_sandboxes: whatever is active after a day, in any status.
Expire(b) ==
    /\ At(Cleaner, "idle") /\ b \in active
    /\ destroying' = [destroying EXCEPT ![Cleaner] = [box |-> b, at |-> "marking"]]
    /\ UNCHANGED <<row, container, active, creating, up, faults, crashes>>

\* Mutant: a failing update does not keep the container from being removed.
MarkAnyway(d) ==
    /\ At(d, "marking")
    /\ \/ Fine /\ SetRow(destroying[d].box, "destroying")
       \/ Raises /\ UNCHANGED row
    /\ Turn(d, "removing")
    /\ UNCHANGED <<container, active, creating, up, crashes>>

Mark(d) ==
    /\ At(d, "marking")
    /\ \/ Fine /\ SetRow(destroying[d].box, "destroying") /\ Turn(d, "removing")
       \/ Raises /\ UNCHANGED row /\ Turn(d, "erring")
    /\ UNCHANGED <<container, active, creating, up, crashes>>

\* Stopping and removing the container; an error is logged only.
Remove(d) ==
    /\ At(d, "removing") /\ Turn(d, "recording")
    /\ \/ Fine /\ container' = [container EXCEPT ![destroying[d].box] = "removed"]
       \/ Raises /\ UNCHANGED container
    /\ UNCHANGED <<row, active, creating, up, crashes>>

\* A container that ended outside of the manager.
ContainerGoes(b) ==
    /\ container[b] = "running" /\ container' = [container EXCEPT ![b] = "gone"]
    /\ UNCHANGED <<row, active, creating, destroying, up, faults, crashes>>

\* The row is destroyed and the entry deleted, which raises when another call
\* has deleted it before.
Destroyed(d) ==
    /\ At(d, "recording")
    /\ LET b == destroying[d].box IN
         \/ /\ Fine /\ SetRow(b, "destroyed") /\ active' = active \ {b}
            /\ Turn(d, IF b \in active THEN "idle" ELSE "erring")
         \/ Raises /\ UNCHANGED <<row, active>> /\ Turn(d, "erring")
    /\ UNCHANGED <<container, creating, up, crashes>>

\* The error path of destroy_sandbox; the entry stays for the next cleanup.
DestroyFails(d) ==
    /\ At(d, "erring") /\ Turn(d, "idle")
    /\ \/ Fine /\ SetRow(destroying[d].box, "error")
       \/ Raises /\ UNCHANGED row
    /\ UNCHANGED <<container, active, creating, up, crashes>>

ProcessStops ==
    /\ up /\ crashes < MaxCrashes /\ crashes' = crashes + 1
    /\ up' = FALSE /\ active' = {}
    /\ creating' = [b \in Boxes |-> IF creating[b] = "no" THEN "no" ELSE "over"]
    /\ destroying' = [d \in Destroyers |-> Idle]
    /\ UNCHANGED <<row, container, faults>>

\* _load_existing_sandboxes: the running rows; those whose container Docker
\* does not find are destroyed.
ProcessStarts ==
    /\ ~up /\ up' = TRUE
    /\ LET rows == {b \in Boxes : row[b] = "running"}
           lost == {b \in rows : container[b] # "running"} IN
         /\ active' = rows \ lost
         /\ row' = [b \in Boxes |-> IF b \in lost THEN "destroyed" ELSE row[b]]
    /\ UNCHANGED <<container, creating, destroying, faults, crashes>>

CreateStep(b) == Store(b) \/ RunContainer(b) \/ Record(b) \/ CreateFails(b)

DestroyStep(d) == Mark(d) \/ Remove(d) \/ Destroyed(d) \/ DestroyFails(d)

Next ==
    \/ \E b \in Boxes : Create(b) \/ CreateStep(b) \/ ContainerGoes(b) \/ Expire(b) \/ \E d \in Destroyers : Destroy(d, b)
    \/ \E d \in Destroyers : DestroyStep(d)
    \/ ProcessStops \/ ProcessStarts

Spec == Init /\ [][Next]_vars

\* Coroutines go on, the hourly loop takes every expired sandbox and a stopped
\* process is started again.
Fairness ==
    /\ \A b \in Boxes : WF_vars(CreateStep(b)) /\ SF_vars(Expire(b))
    /\ \A d \in Destroyers : WF_vars(DestroyStep(d))
    /\ WF_vars(ProcessStarts)

FairSpec == Spec /\ Fairness

-----------------------------------------------------------------------------

Worked(b) == creating[b] \in {"stored", "ran", "erring"} \/ \E d \in Destroyers : destroying[d].box = b

\* What a start loads is true: a row says running only for a container that the
\* manager has run and not removed, whatever raises and wherever it stops.
RunningIsRunning == \A b \in Boxes : row[b] = "running" => container[b] \in {"running", "gone"}

\* Automatic cleanup: a sandbox does not stay active for ever, also when an
\* attempt to destroy it raised.
ActiveExpires == \A b \in Boxes : b \in active ~> b \notin active

\* A container that runs can be reached: its sandbox is active or someone is at
\* work on it, or a start will load it.
NoOrphan ==
    \A b \in Boxes : container[b] = "running" =>
        Worked(b) \/ IF up THEN b \in active ELSE row[b] = "running"

\* "not found in active sandboxes": destroying a sandbox twice does no harm, and
\* destroyed is the last that the row says.
DestroyedStays == [][\A b \in Boxes : row[b] = "destroyed" => row'[b] = "destroyed"]_vars
=============================================================================
