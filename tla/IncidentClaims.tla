--------------------------- MODULE IncidentClaims ---------------------------
(***************************************************************************)
(* The election of the agent that remediates an incident.  A dispatch runs *)
(* one claimant per channel (incident_remediation_dispatcher.py); each of  *)
(* them reads the claims of the incident from Loki, posts its own, waits   *)
(* for the jitter and reads again (loki_incident_coordinator.py).  Loki is *)
(* a set that claims are added to; time is a clock of ticks, and claims    *)
(* made in one tick are still told apart by their nanoseconds.             *)
(***************************************************************************)
EXTENDS Naturals, FiniteSets

CONSTANTS
    Dispatches,   \* dispatch_incident calls for one incident id
    Channels,     \* the mechanisms of a dispatch
    Nobody,
    Lease,        \* lease_seconds
    Window,       \* how far back a query without a start looks
    Delay,        \* from time_ns() to the claim in Loki, unless that is slow
    Jitter,       \* consensus_jitter_ms
    Faults,       \* which of "push", "query" and "slow" may happen
    MaxTime       \* bound: ticks of the clock; claims are made early enough to end by then

Agents == Dispatches \X Channels

ASSUME ClaimsAssumption ==
    /\ Lease \in Nat /\ Window \in Nat /\ Delay \in Nat /\ Jitter \in Nat /\ MaxTime \in Nat
    /\ Delay < Jitter /\ Lease <= Window
    /\ Faults \subseteq {"push", "query", "slow"}
    /\ Nobody \notin Agents

VARIABLES
    now,       \* the clock
    entries,   \* claim_incident calls so far
    at,        \* where each claimant is
    time,      \* the tick of its now_ns
    order,     \* the rank of its now_ns among all of them
    since,     \* when it began to wait for the jitter
    handler,   \* the owner its result names
    ledger,    \* the owners whose claim is in Loki
    dispatch,  \* how far each dispatch is
    winner     \* the winning_agent_id it reported

vars == <<now, entries, at, time, order, since, handler, ledger, dispatch, winner>>

Places == {"idle", "checking", "posting", "waiting", "won", "stood_down"}

ClaimsTypes ==
    /\ now \in Nat /\ entries \in Nat
    /\ at \in [Agents -> Places]
    /\ time \in [Agents -> Nat] /\ order \in [Agents -> Nat] /\ since \in [Agents -> Nat]
    /\ handler \in [Agents -> Agents \cup {Nobody}]
    /\ ledger \subseteq Agents
    /\ dispatch \in [Dispatches -> {"none", "running", "reported"}]
    /\ winner \in [Dispatches -> Agents \cup {Nobody}]

Init ==
    /\ now = 0 /\ entries = 0
    /\ at = [a \in Agents |-> "idle"]
    /\ time = [a \in Agents |-> 0] /\ order = time /\ since = time
    /\ handler = [a \in Agents |-> Nobody]
    /\ ledger = {}
    /\ dispatch = [d \in Dispatches |-> "none"]
    /\ winner = [d \in Dispatches |-> Nobody]

-----------------------------------------------------------------------------

\* dispatch_incident: fresh owners, and every channel's coroutine is started.
Dispatch(d) ==
    /\ dispatch[d] = "none" /\ now + Delay + Jitter <= MaxTime
    /\ dispatch' = [dispatch EXCEPT ![d] = "running"]
    /\ UNCHANGED <<now, entries, at, time, order, since, handler, ledger, winner>>

\* A claimant takes the time before it looks at Loki.
Enter(a) ==
    /\ dispatch[a[1]] = "running" /\ at[a] = "idle"
    /\ entries' = entries + 1
    /\ at' = [at EXCEPT ![a] = "checking"]
    /\ time' = [time EXCEPT ![a] = now]
    /\ order' = [order EXCEPT ![a] = entries + 1]
    /\ UNCHANGED <<now, since, handler, ledger, dispatch, winner>>

\* What a query returns: no claims at all when it raises.
Returned(seen) ==
    \/ seen = {c \in ledger : now <= time[c] + Window}
    \/ "query" \in Faults /\ seen = {}

Earliest(c, claims) == c \in claims /\ \A o \in claims : order[c] <= order[o]

Settle(a, where, owner) ==
    /\ at' = [at EXCEPT ![a] = where]
    /\ handler' = [handler EXCEPT ![a] = owner]
    /\ UNCHANGED <<now, entries, time, order, since, ledger, dispatch, winner>>

\* The first claim whose lease, seen from the claimant's own time, still runs
\* decides; the ones that have expired are passed over.
PreCheck(a) ==
    /\ at[a] = "checking"
    /\ \E seen \in SUBSET ledger :
        /\ Returned(seen)
        /\ LET active == {c \in seen : time[a] < time[c] + Lease} IN
             \/ active = {} /\ Settle(a, "posting", Nobody)
             \/ \E c \in active :
                  /\ Earliest(c, active)
                  /\ Settle(a, IF c = a THEN "won" ELSE "stood_down", c)

\* push_claim_to_loki: a failure is logged, and the claimant waits as if its
\* claim were there.
Push(a) ==
    /\ at[a] = "posting"
    /\ at' = [at EXCEPT ![a] = "waiting"]
    /\ since' = [since EXCEPT ![a] = now]
    /\ \/ ledger' = ledger \cup {a}
       \/ "push" \in Faults /\ UNCHANGED ledger
    /\ UNCHANGED <<now, entries, time, order, handler, dispatch, winner>>

\* Mutant: the second query does not wait for the jitter.
RequeryAtOnce(a) ==
    /\ at[a] = "waiting"
    /\ \E seen \in SUBSET ledger :
        /\ Returned(seen)
        /\ \/ seen = {} /\ Settle(a, "won", a)
           \/ \E c \in seen :
                /\ Earliest(c, seen)
                /\ Settle(a, IF c = a THEN "won" ELSE "stood_down", c)

\* Mutant: no claim at all means that somebody else's is on its way.
RequeryShy(a) ==
    /\ at[a] = "waiting" /\ since[a] + Jitter <= now
    /\ \E seen \in SUBSET ledger :
        /\ Returned(seen)
        /\ \/ seen = {} /\ Settle(a, "stood_down", a)
           \/ \E c \in seen :
                /\ Earliest(c, seen)
                /\ Settle(a, IF c = a THEN "won" ELSE "stood_down", c)

\* The second query: the earliest claim wins, whether or not its lease runs,
\* and a claimant that sees no claim takes itself for the only one.
Requery(a) ==
    /\ at[a] = "waiting" /\ since[a] + Jitter <= now
    /\ \E seen \in SUBSET ledger :
        /\ Returned(seen)
        /\ \/ seen = {} /\ Settle(a, "won", a)
           \/ \E c \in seen :
                /\ Earliest(c, seen)
                /\ Settle(a, IF c = a THEN "won" ELSE "stood_down", c)

Over(a) == at[a] \in {"won", "stood_down"}

\* gather has every outcome; the report names a winner if there is one.
Report(d) ==
    /\ dispatch[d] = "running" /\ \A c \in Channels : Over(<<d, c>>)
    /\ dispatch' = [dispatch EXCEPT ![d] = "reported"]
    /\ LET winners == {a \in {d} \X Channels : at[a] = "won"} IN
         \E w \in (IF winners = {} THEN {Nobody} ELSE winners) : winner' = [winner EXCEPT ![d] = w]
    /\ UNCHANGED <<now, entries, at, time, order, since, handler, ledger>>

\* Time passes; a claim is in Loki within Delay unless it is slow, and the
\* claimants of a dispatch enter while the clock has ticks left for them.
Tick ==
    /\ now < MaxTime
    /\ \A a \in Agents : at[a] = "idle" /\ dispatch[a[1]] = "running" => now + Delay + Jitter < MaxTime
    /\ \A a \in Agents : at[a] \in {"checking", "posting"} =>
         IF "slow" \in Faults THEN now + Jitter < MaxTime ELSE now < time[a] + Delay
    /\ now' = now + 1
    /\ UNCHANGED <<entries, at, time, order, since, handler, ledger, dispatch, winner>>

Step(a) == Enter(a) \/ PreCheck(a) \/ Push(a) \/ Requery(a)

Next ==
    \/ \E d \in Dispatches : Dispatch(d) \/ Report(d)
    \/ \E a \in Agents : Step(a)
    \/ Tick

Spec == Init /\ [][Next]_vars

\* Every coroutine goes on: the posts and queries have timeouts of five
\* seconds, and the sleep ends.
Fairness ==
    /\ WF_vars(Tick)
    /\ \A a \in Agents : WF_vars(Step(a))
    /\ \A d \in Dispatches : WF_vars(Report(d))

FairSpec == Spec /\ Fairness

-----------------------------------------------------------------------------

\* The lease of a winner runs.
Active(a) == at[a] = "won" /\ now < time[a] + Lease

\* "exactly one agent executes remediation" (incident_remediation_dispatcher.py):
\* two winners never hold the incident at the same time.  It takes claims that
\* are in Loki before the others' jitter is over.
OneHandler == \A a, b \in Agents : Active(a) /\ Active(b) => a = b

\* Claimants do not stand down in a circle: as soon as one has stood down
\* there is another one that has won or whose claim is in Loki.
SomeoneRemains ==
    (\E a \in Agents : at[a] = "stood_down") =>
        \E a \in Agents : at[a] = "won" \/ (at[a] = "waiting" /\ a \in ledger)

\* A dispatched incident comes to be handled, whatever fails.
EveryIncidentHandled ==
    \A d \in Dispatches : dispatch[d] = "running" ~> \E a \in Agents : at[a] = "won"

\* "Agents that stand down say `Issue <link> is already being handled by
\* <owner>'": the owner they name has not stood down itself.
NamedOwnerHandles ==
    \A a \in Agents : at[a] = "stood_down" => at[handler[a]] # "stood_down"

\* When a dispatch reports that it has no winner, the incident is in the hands
\* of an earlier one: some lease runs or some claimant is still at it.
ReportedIsHandled ==
    [][\A d \in Dispatches :
         dispatch[d] = "running" /\ dispatch'[d] = "reported" /\ winner'[d] = Nobody =>
            \E a \in Agents : Active(a) \/ at[a] \in {"posting", "waiting"}]_vars
=============================================================================
