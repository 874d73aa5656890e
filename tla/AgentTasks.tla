------------------------------ MODULE AgentTasks ------------------------------
(***************************************************************************)
(* The tasks of one memory-enabled agent: agent_manager.py deploys a       *)
(* container, tracks it and inserts tasks; the loop in the container        *)
(* (autonomous_agent_with_memory.py) polls for pending tasks, runs each as  *)
(* a coroutine and reports with PUT /tasks/{id}/status.  Handlers, loop and *)
(* coroutines interleave at every request; a request may fail, a container  *)
(* may die.                                                                *)
(***************************************************************************)
EXTENDS Naturals, SequencesExt

CONSTANTS
    Tasks,        \* task ids
    Containers,   \* containers of the agent, one for each deployment
    Stoppers,     \* callers of stop_memory_enabled_agent
    Capacity,     \* MAX_CONCURRENT_TASKS
    MaxFaults,    \* bound: requests, updates and removals that fail
    MaxCrashes,   \* bound: containers that die
    MaxCopies     \* bound: coroutines started for one task

\* What is assumed of the constants.
AgentAssumption ==
    /\ Capacity \in Nat \ {0} /\ MaxCopies \in Nat \ {0}
    /\ MaxFaults \in Nat /\ MaxCrashes \in Nat

None == "none"

VARIABLES
    tracked,    \* the container in memory_enabled_agents, or None
    container,  \* what Docker has
    deploying,  \* deployments whose container is up and not yet tracked
    stopping,   \* what each stopper is at, for which container
    met,        \* containers that a deployment replaced, whose own came during a stop, or for
                \* which a request failed
    asked,      \* tasks whose insert is under way
    tasks,      \* rows of the table, oldest first
    status,     \* their status
    loop,       \* what the loop of a container does
    fetched,    \* tasks the last poll returned
    current,    \* current_tasks: the coroutine of each entry
    runs,       \* the coroutines, in the order they were started
    faults, crashes

orchestrator == <<tracked, deploying, stopping, met, asked>>
rows == <<tasks, status>>
agent == <<loop, fetched, current, runs>>
bounds == <<faults, crashes>>
vars == <<tracked, container, deploying, stopping, met, asked, tasks, status,
          loop, fetched, current, runs, faults, crashes>>

Live == {"marking", "working", "completing", "failing"}
Ended == {"succeeded", "failed"}
Over == Ended \cup {"lost"}

AgentTypes ==
    /\ tracked \in Containers \cup {None} /\ deploying \subseteq Containers /\ met \subseteq Containers
    /\ container \in [Containers -> {"none", "up", "gone"}]
    /\ \A s \in Stoppers : stopping[s].at \in {"idle", "destroying", "forgetting"}
    /\ asked \subseteq Tasks /\ tasks \in Seq(Tasks)
    /\ status \in [Tasks -> {None, "pending", "executing", "completed", "failed"}]
    /\ loop \in [Containers -> {"asleep", "polled"}]
    /\ \A c \in Containers : fetched[c] \subseteq Tasks /\ current[c] \subseteq DOMAIN runs
    /\ \A r \in DOMAIN runs : runs[r].task \in Tasks /\ runs[r].in \in Containers
                              /\ runs[r].at \in Live \cup Over
    /\ faults \in 0..MaxFaults /\ crashes \in 0..MaxCrashes

Idle == [at |-> "idle", container |-> None]

Init ==
    /\ tracked = None /\ container = [c \in Containers |-> "none"] /\ deploying = {}
    /\ stopping = [s \in Stoppers |-> Idle] /\ met = {} /\ asked = {}
    /\ tasks = <<>> /\ status = [t \in Tasks |-> None]
    /\ loop = [c \in Containers |-> "asleep"] /\ fetched = [c \in Containers |-> {}]
    /\ current = fetched /\ runs = <<>> /\ faults = 0 /\ crashes = 0

Fine == UNCHANGED bounds

Fault == faults < MaxFaults /\ faults' = faults + 1 /\ UNCHANGED crashes

-----------------------------------------------------------------------------
\* The orchestrator.

\* create_sandbox starts the container, then updates its row.
Deploy(c) ==
    /\ container[c] = "none"
    /\ container' = [container EXCEPT ![c] = "up"] /\ deploying' = deploying \cup {c}
    /\ Fine /\ UNCHANGED <<tracked, stopping, met, asked, rows, agent>>

\* What comes apart when c is entered: the container it replaces, and c itself
\* while a stop is under way that was not meant for it.
Disturbed(c) == {o \in {tracked} : o # None} \cup {o \in {c} : \E s \in Stoppers : stopping[s] # Idle}

\* Mutant: an agent that has an entry keeps it.
TrackFirst(c) ==
    /\ c \in deploying /\ deploying' = deploying \ {c}
    /\ \/ /\ tracked' = IF tracked = None THEN c ELSE tracked
          /\ met' = met \cup Disturbed(c) /\ Fine
       \/ Fault /\ met' = met \cup {c} /\ UNCHANGED tracked
    /\ UNCHANGED <<container, stopping, asked, rows, agent>>

\* The update may raise: the caller is told so and nothing is tracked.
Track(c) ==
    /\ c \in deploying /\ deploying' = deploying \ {c}
    /\ \/ tracked' = c /\ met' = met \cup Disturbed(c) /\ Fine
       \/ Fault /\ met' = met \cup {c} /\ UNCHANGED tracked
    /\ UNCHANGED <<container, stopping, asked, rows, agent>>

Stop(s) ==
    /\ stopping[s] = Idle /\ tracked # None
    /\ stopping' = [stopping EXCEPT ![s] = [at |-> "destroying", container |-> tracked]]
    /\ Fine /\ UNCHANGED <<tracked, container, deploying, met, asked, rows, agent>>

\* What is left of a container that is gone.
Dies(c) ==
    /\ container' = [container EXCEPT ![c] = "gone"]
    /\ loop' = [loop EXCEPT ![c] = "asleep"] /\ fetched' = [fetched EXCEPT ![c] = {}]
    /\ current' = [current EXCEPT ![c] = {}]
    /\ runs' = [r \in DOMAIN runs |->
            IF runs[r].in = c /\ runs[r].at \in Live THEN [runs[r] EXCEPT !.at = "lost"] ELSE runs[r]]

\* destroy_sandbox logs what goes wrong and returns.
Destroy(s) ==
    LET c == stopping[s].container IN
    /\ stopping[s].at = "destroying"
    /\ stopping' = [stopping EXCEPT ![s].at = "forgetting"]
    /\ \/ Dies(c) /\ Fine /\ UNCHANGED met
       \/ Fault /\ met' = met \cup {c} /\ UNCHANGED <<container, agent>>
    /\ UNCHANGED <<tracked, deploying, asked, rows>>

\* del memory_enabled_agents[agent_id], which raises when another has done it.
Forget(s) ==
    /\ stopping[s].at = "forgetting" /\ stopping' = [stopping EXCEPT ![s] = Idle]
    /\ tracked' = None
    /\ Fine /\ UNCHANGED <<container, deploying, met, asked, rows, agent>>

\* assign_task_to_memory_agent: the entry is looked up, then the insert awaits.
Assign(t) ==
    /\ tracked # None /\ status[t] = None /\ asked' = asked \cup {t}
    /\ Fine /\ UNCHANGED <<tracked, container, deploying, stopping, met, rows, agent>>

Insert(t) ==
    /\ t \in asked /\ asked' = asked \ {t}
    /\ status' = [status EXCEPT ![t] = "pending"] /\ tasks' = Append(tasks, t)
    /\ Fine /\ UNCHANGED <<tracked, container, deploying, stopping, met, agent>>

-----------------------------------------------------------------------------
\* The loop in a container.

Copies(t) == Cardinality({r \in DOMAIN runs : runs[r].task = t})

\* The oldest pending tasks, at most n of them.
PendingTasks(n) ==
    LET open == {k \in DOMAIN tasks : status[tasks[k]] = "pending" /\ Copies(tasks[k]) < MaxCopies}
    IN  {tasks[k] : k \in {i \in open : Cardinality({j \in open : j < i}) < n}}

Poll(c) ==
    /\ container[c] = "up" /\ loop[c] = "asleep"
    /\ loop' = [loop EXCEPT ![c] = "polled"]
    /\ \/ /\ fetched' = [fetched EXCEPT ![c] = PendingTasks(Capacity - Cardinality(current[c]))]
          /\ Fine
       \/ Fault /\ fetched' = [fetched EXCEPT ![c] = {}]
    /\ UNCHANGED <<container, orchestrator, rows, current, runs>>

Finished(c) == {r \in current[c] : runs[r].at \in Ended}

\* Each task fetched is started, its entry replacing one of the same id; then
\* the entries whose coroutine is done are removed.  (All of this without an
\* await, so that the order among them only numbers the coroutines.)
StartAndReap(c) ==
    LET new == SetToSeq(fetched[c])
        begun == {Len(runs) + k : k \in DOMAIN new}
        replaced == {r \in current[c] : runs[r].task \in fetched[c]}
    IN  /\ container[c] = "up" /\ loop[c] = "polled"
        /\ runs' = runs \o [k \in DOMAIN new |-> [task |-> new[k], in |-> c, at |-> "marking"]]
        /\ current' = [current EXCEPT ![c] = ((@ \ replaced) \cup begun) \ Finished(c)]
        /\ loop' = [loop EXCEPT ![c] = "asleep"] /\ fetched' = [fetched EXCEPT ![c] = {}]
        /\ Fine /\ UNCHANGED <<container, orchestrator, rows>>

-----------------------------------------------------------------------------
\* A coroutine, _execute_task_with_memory.

RunGoes(r, at) == runs' = [runs EXCEPT ![r].at = at]

\* _update_task_status logs a request that fails and returns.
Report(t, s) ==
    \/ status' = [status EXCEPT ![t] = s] /\ Fine
    \/ Fault /\ UNCHANGED status

MarkExecuting(r) ==
    /\ runs[r].at = "marking" /\ RunGoes(r, "working")
    /\ Report(runs[r].task, "executing")
    /\ UNCHANGED <<container, orchestrator, tasks, loop, fetched, current>>

\* Mutant: the task is reported before it is worked on.
ReportFirst(r) ==
    /\ runs[r].at = "working" /\ RunGoes(r, "failing")
    /\ Report(runs[r].task, "completed")
    /\ UNCHANGED <<container, orchestrator, tasks, loop, fetched, current>>

\* The model is asked, its changes applied and the outcome learnt from.
Work(r) ==
    /\ runs[r].at = "working"
    /\ RunGoes(r, "completing") \/ RunGoes(r, "failing")
    /\ Fine /\ UNCHANGED <<container, orchestrator, rows, loop, fetched, current>>

ReportEnd(r) ==
    /\ \/ runs[r].at = "completing" /\ RunGoes(r, "succeeded") /\ Report(runs[r].task, "completed")
       \/ runs[r].at = "failing" /\ RunGoes(r, "failed") /\ Report(runs[r].task, "failed")
    /\ UNCHANGED <<container, orchestrator, tasks, loop, fetched, current>>

Crash(c) ==
    /\ container[c] = "up" /\ crashes < MaxCrashes /\ crashes' = crashes + 1
    /\ Dies(c) /\ UNCHANGED <<orchestrator, rows, faults>>

-----------------------------------------------------------------------------

Next ==
    \/ \E c \in Containers : Deploy(c) \/ Track(c) \/ Poll(c) \/ StartAndReap(c) \/ Crash(c)
    \/ \E s \in Stoppers : Stop(s) \/ Destroy(s) \/ Forget(s)
    \/ \E t \in Tasks : Assign(t) \/ Insert(t)
    \/ \E r \in DOMAIN runs : MarkExecuting(r) \/ Work(r) \/ ReportEnd(r)

Spec == Init /\ [][Next]_vars

RunSteps(k) == k \in DOMAIN runs /\ (MarkExecuting(k) \/ Work(k) \/ ReportEnd(k))

\* A request is answered or times out, so handlers, loops and coroutines go
\* on; nobody has to deploy, to stop or to assign.
Fairness ==
    /\ \A c \in Containers : WF_vars(Track(c)) /\ WF_vars(Poll(c)) /\ WF_vars(StartAndReap(c))
    /\ \A s \in Stoppers : WF_vars(Destroy(s)) /\ WF_vars(Forget(s))
    /\ \A t \in Tasks : WF_vars(Insert(t))
    /\ \A k \in 1..(MaxCopies * Cardinality(Tasks)) : WF_vars(RunSteps(k))

FairSpec == Spec /\ Fairness

-----------------------------------------------------------------------------

\* A coroutine that still goes on in container c.
Active(c) == {r \in DOMAIN runs : runs[r].in = c /\ runs[r].at \in Live}

\* What the table says of a task happened in a container: it is executing only
\* after a coroutine went beyond marking it, and completed or failed only as a
\* coroutine ended, however many of them race for the row.
StatusIsHistory ==
    \A t \in Tasks : LET ends == {runs[r].at : r \in {q \in DOMAIN runs : runs[q].task = t}} IN
        /\ status[t] = "executing" => ends \ {"marking"} # {}
        /\ status[t] = "completed" => "succeeded" \in ends
        /\ status[t] = "failed" => "failed" \in ends

\* The loop never runs more coroutines than its capacity ("Check for new tasks
\* if we have capacity").
WithinCapacity == \A c \in Containers : Cardinality(Active(c)) <= Capacity

Quiet == deploying = {} /\ \A s \in Stoppers : stopping[s] = Idle

\* When no deployment and no stop is under way, a container that is up is the
\* one that the manager tracks: unless a later one took its entry, it was
\* entered while somebody was stopping another, or a request failed for it.
UpIsTrackedUnlessMet ==
    Quiet => \A c \in Containers : container[c] = "up" => tracked = c \/ c \in met

\* The same without the exceptions.
UpIsTracked == Quiet => \A c \in Containers : container[c] = "up" => tracked = c

\* A task that was accepted is picked up.
AcceptedIsPicked == \A t \in Tasks : (t \in asked) ~> (status[t] \in {"executing", "completed", "failed"})

\* A task that a coroutine has marked ends as completed or failed.
PickedEnds == \A t \in Tasks : (status[t] = "executing") ~> (status[t] \in {"completed", "failed"})

=============================================================================
