----------------------------- MODULE PodSandboxes -----------------------------
(***************************************************************************)
(* The sandboxes that run as pods of the cluster: the driver that makes and *)
(* deletes a Pod with its Secret and its NetworkPolicy                     *)
(* (kubernetes_sandbox_driver.py), and the entries of ACTIVE_SANDBOXES that *)
(* the router keeps of them (image_registry_router.py).  Each call to the  *)
(* cluster runs in an executor, so requests interleave at every one.       *)
(***************************************************************************)
EXTENDS Naturals, FiniteSets

CONSTANTS
    Pods,       \* spawned pods, by the short id of each
    Requests,   \* requests that terminate or list sandboxes
    Faults,     \* cluster calls that may fail: "create", "delete"
    Origins     \* who spawns: "launch" requests, "chat" messages

\* What is assumed of the constants.
PodAssumption == Faults \subseteq {"create", "delete"} /\ Origins \subseteq {"launch", "chat"}

VARIABLES
    origin,  \* who spawned the pod
    spawn,   \* the call that spawn_sandbox_pod makes next
    pod,     \* the Pod in the cluster
    parts,   \* which of the Secret and the NetworkPolicy exist
    entry,   \* status of the entry in ACTIVE_SANDBOXES
    req      \* what each request is at: a termination, or a listing and what it saw

vars == <<origin, spawn, pod, parts, entry, req>>

Idle == [at |-> "idle", of |-> {}]

PodTypes ==
    /\ origin \in [Pods -> {"none"} \cup Origins]
    /\ spawn \in [Pods -> {"no", "secret", "policy", "pod", "made", "over"}]
    /\ pod \in [Pods -> {"none", "running", "ended", "deleted"}]
    /\ parts \in [Pods -> SUBSET {"secret", "policy"}]
    /\ entry \in [Pods -> {"none", "running", "terminated"}]
    /\ \A r \in Requests : req[r].at \in {"idle", "pod", "secret", "policy", "mark", "listed"} /\ req[r].of \subseteq Pods

Init ==
    /\ origin = [p \in Pods |-> "none"] /\ spawn = [p \in Pods |-> "no"]
    /\ pod = [p \in Pods |-> "none"] /\ parts = [p \in Pods |-> {}]
    /\ entry = [p \in Pods |-> "none"] /\ req = [r \in Requests |-> Idle]

-----------------------------------------------------------------------------

\* launch_sandbox brings resolved secrets, a chat message none.
Spawn(p, from) ==
    /\ spawn[p] = "no"
    /\ origin' = [origin EXCEPT ![p] = from]
    /\ spawn' = [spawn EXCEPT ![p] = IF from = "launch" THEN "secret" ELSE "policy"]
    /\ UNCHANGED <<pod, parts, entry, req>>

\* Creating the Secret or the NetworkPolicy; a failure is a warning.
CreatePart(p, part, next) ==
    /\ spawn[p] = part /\ spawn' = [spawn EXCEPT ![p] = next]
    /\ \/ parts' = [parts EXCEPT ![p] = @ \cup {part}]
       \/ "create" \in Faults /\ UNCHANGED parts
    /\ UNCHANGED <<origin, pod, entry, req>>

CreatePod(p) ==
    /\ spawn[p] = "pod" /\ spawn' = [spawn EXCEPT ![p] = "made"]
    /\ \/ pod' = [pod EXCEPT ![p] = "running"]
       \/ "create" \in Faults /\ UNCHANGED pod
    /\ UNCHANGED <<origin, parts, entry, req>>

\* spawn_sandbox_pod answers running either way and the entry is added; the
\* answer to a spawn of a chat message is dropped.
Enter(p) ==
    /\ spawn[p] = "made" /\ spawn' = [spawn EXCEPT ![p] = "over"]
    /\ entry' = [entry EXCEPT ![p] = IF origin[p] = "launch" THEN "running" ELSE @]
    /\ UNCHANGED <<origin, pod, parts, req>>

SpawnStep(p) == CreatePart(p, "secret", "policy") \/ CreatePart(p, "policy", "pod") \/ CreatePod(p) \/ Enter(p)

\* activeDeadlineSeconds: the cluster ends the pod and keeps its object.
DeadlineEnds(p) ==
    /\ pod[p] = "running" /\ pod' = [pod EXCEPT ![p] = "ended"]
    /\ UNCHANGED <<origin, spawn, parts, entry, req>>

Turn(r, at) == req' = [req EXCEPT ![r].at = at]

\* terminate_sandbox of an entry, whatever its status is.
Terminate(r, p) ==
    /\ req[r] = Idle /\ entry[p] # "none"
    /\ req' = [req EXCEPT ![r] = [at |-> "pod", of |-> {p}]]
    /\ UNCHANGED <<origin, spawn, pod, parts, entry>>

\* Mutant: the policy goes before the pod it isolates.
DeletePodLast(r) ==
    /\ req[r].at = "pod" /\ Turn(r, "secret")
    /\ parts' = [p \in Pods |-> IF p \in req[r].of THEN {} ELSE parts[p]]
    /\ UNCHANGED <<origin, spawn, pod, entry>>

DeletePod(r) ==
    /\ req[r].at = "pod" /\ Turn(r, "secret")
    /\ \/ pod' = [p \in Pods |-> IF p \in req[r].of /\ pod[p] # "none" THEN "deleted" ELSE pod[p]]
       \/ "delete" \in Faults /\ UNCHANGED pod
    /\ UNCHANGED <<origin, spawn, parts, entry>>

\* Mutant: the secret alone is deleted.
DeletePartNotPolicy(r, part, next) ==
    /\ req[r].at = part /\ Turn(r, next)
    /\ parts' = [p \in Pods |-> IF p \in req[r].of THEN parts[p] \ {"secret"} ELSE parts[p]]
    /\ UNCHANGED <<origin, spawn, pod, entry>>

\* Deleting the Secret or the NetworkPolicy; a failure is passed over.
DeletePart(r, part, next) ==
    /\ req[r].at = part /\ Turn(r, next)
    /\ \/ parts' = [p \in Pods |-> IF p \in req[r].of THEN parts[p] \ {part} ELSE parts[p]]
       \/ "delete" \in Faults /\ UNCHANGED parts
    /\ UNCHANGED <<origin, spawn, pod, entry>>

\* The entry is terminated whichever of the deletions failed.
Mark(r) ==
    /\ req[r].at = "mark" /\ req' = [req EXCEPT ![r] = Idle]
    /\ entry' = [p \in Pods |-> IF p \in req[r].of THEN "terminated" ELSE entry[p]]
    /\ UNCHANGED <<origin, spawn, pod, parts>>

\* list_sandbox_pods returns the pods of any phase.
ListPods(r) ==
    /\ req[r] = Idle
    /\ req' = [req EXCEPT ![r] = [at |-> "listed", of |-> {p \in Pods : pod[p] \in {"running", "ended"}}]]
    /\ UNCHANGED <<origin, spawn, pod, parts, entry>>

\* list_sandboxes: every entry whose pod was listed becomes running.
Sync(r) ==
    /\ req[r].at = "listed" /\ req' = [req EXCEPT ![r] = Idle]
    /\ entry' = [p \in Pods |-> IF p \in req[r].of /\ entry[p] # "none" THEN "running" ELSE entry[p]]
    /\ UNCHANGED <<origin, spawn, pod, parts>>

RequestStep(r) == DeletePod(r) \/ DeletePart(r, "secret", "policy") \/ DeletePart(r, "policy", "mark") \/ Mark(r) \/ Sync(r)

Next ==
    \/ \E p \in Pods : SpawnStep(p) \/ DeadlineEnds(p) \/ \E from \in Origins : Spawn(p, from)
    \/ \E r \in Requests : RequestStep(r) \/ ListPods(r) \/ \E p \in Pods : Terminate(r, p)

Spec == Init /\ [][Next]_vars

\* Calls to the cluster return and the cluster enforces its deadlines; nobody
\* needs to terminate anything.
Fairness ==
    /\ \A p \in Pods : WF_vars(SpawnStep(p)) /\ WF_vars(DeadlineEnds(p))
    /\ \A r \in Requests : WF_vars(RequestStep(r))

FairSpec == Spec /\ Fairness

-----------------------------------------------------------------------------

\* A pod runs only while it has the policy that isolates it and, when it was
\* launched with secrets, the Secret it mounts.
RunsWithParts ==
    \A p \in Pods : pod[p] = "running" => parts[p] = IF origin[p] = "launch" THEN {"secret", "policy"} ELSE {"policy"}

\* A pod that was deleted leaves nothing behind once nobody is at work on it.
DeletedIsCleaned ==
    \A p \in Pods : pod[p] = "deleted" /\ (\A r \in Requests : p \notin req[r].of) => parts[p] = {}

\* "cleaned up by supervisor": when a termination ends, no part of the
\* sandbox is left in the cluster.
TerminatedIsGone ==
    [][\A r \in Requests, p \in Pods : req[r].at = "mark" /\ p \in req[r].of /\ req'[r].at = "idle"
           => parts[p] = {} /\ pod[p] # "running"]_vars

\* "Ephemeral": the Secret of a pod goes when the pod does, at the latest after
\* its deadline.
SecretsAreEphemeral == \A p \in Pods : ("secret" \in parts[p]) ~> ("secret" \notin parts[p])

\* "Sync with live pods": a listing does not revive an entry that was terminated.
TerminatedStays == [][\A p \in Pods : entry[p] = "terminated" => entry'[p] = "terminated"]_vars

\* "monitoring and lifecycle": every pod that was spawned has an entry.
EveryPodListed == \A p \in Pods : pod[p] = "running" /\ spawn[p] = "over" => entry[p] # "none"
=============================================================================
