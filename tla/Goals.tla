------------------------------- MODULE Goals -------------------------------
(***************************************************************************)
(* The tracking of a goal (goal_tracking_service.py), whose calls take     *)
(* connections of one pool while they hold others of it, together with the *)
(* manual updates and the milestones that change the same goal             *)
(* (goals_management_service.py and the trigger of its tables).  A call is *)
(* a script of steps and gives way at each of them.                        *)
(***************************************************************************)
EXTENDS Integers, Sequences, FiniteSets

CONSTANTS
    Jobs,        \* calls, and the periodic assessment
    kind,        \* what each of them does
    wanted,      \* the progress that it sets, in half percents
    PoolSize,    \* max_size of the pool of the tracking service
    ActiveGoals, \* goals of the organization that are active
    Values,      \* progress that may be set
    MaxFaults    \* bound: statements that raise

Kinds == {"record", "assess", "report", "dashboard", "periodic", "manual", "milestone"}

GoalsAssumption ==
    /\ (\A j \in Jobs : kind[j] \in Kinds /\ wanted[j] \in Values) /\ Values \subseteq Nat /\ 0 \in Values
    /\ PoolSize \in Nat /\ ActiveGoals \in Nat /\ MaxFaults \in Nat

VARIABLES
    free,      \* connections of the pool that nobody holds
    pos,       \* how many steps of its script each job has behind it
    held,      \* connections that each job holds
    read,      \* the progress that it read
    progress,  \* progress_percentage of the goal
    latest,    \* the progress in the last row of goal_progress_tracking
    faults

vars == <<free, pos, held, read, progress, latest, faults>>

GoalsTypes ==
    /\ free \in 0..PoolSize
    /\ pos \in [Jobs -> Nat] /\ held \in [Jobs -> 0..3] /\ read \in [Jobs -> Values]
    /\ progress \in Values /\ latest \in Values

-----------------------------------------------------------------------------
\* The scripts.

\* Mutant: too few rows to tell a velocity, and the connection is kept.
LeakyVelocity == <<"take", "velocity">>

\* _calculate_velocity and _identify_critical_path, each with a connection of
\* its own.
Velocity == <<"take", "velocity", "give">>
CriticalPath == <<"take", "path", "give">>

\* assess_goal_deadline_risk.
Assess == <<"take", "read">> \o Velocity \o CriticalPath \o <<"give">>

RECURSIVE Times(_, _)
Times(script, n) == IF n = 0 THEN <<>> ELSE script \o Times(script, n - 1)

\* What each kind of job does.
Script(j) ==
    CASE kind[j] = "record" -> <<"take", "read">> \o Velocity \o <<"log", "change", "give">>
      [] kind[j] = "assess" -> Assess
      [] kind[j] = "report" -> <<"take", "read", "refused", "give">>
      [] kind[j] = "dashboard" -> <<"take", "read">> \o Times(Assess \o <<"read">>, ActiveGoals) \o <<"read", "read", "give">>
      [] kind[j] = "periodic" -> <<"take", "read">> \o Times(Assess, ActiveGoals) \o <<"give">>
      [] kind[j] = "manual" -> <<"set", "log">>
      [] kind[j] = "milestone" -> <<"reset">>

Ended(j) == pos[j] = Len(Script(j))
Doing(j, step) == ~Ended(j) /\ Script(j)[pos[j] + 1] = step
Advance(j) == pos' = [pos EXCEPT ![j] = @ + 1]

Init ==
    /\ free = PoolSize
    /\ pos = [j \in Jobs |-> 0] /\ held = pos /\ read = pos
    /\ progress = 0 /\ latest = 0 /\ faults = 0

-----------------------------------------------------------------------------
\* acquire waits until a connection is free; nothing limits how long.
Take(j) ==
    /\ Doing(j, "take") /\ free > 0 /\ Advance(j)
    /\ free' = free - 1 /\ held' = [held EXCEPT ![j] = @ + 1]
    /\ UNCHANGED <<read, progress, latest, faults>>

Give(j) ==
    /\ Doing(j, "give") /\ Advance(j)
    /\ free' = free + 1 /\ held' = [held EXCEPT ![j] = @ - 1]
    /\ UNCHANGED <<read, progress, latest, faults>>

\* The goal is read; other reads matter only in that they give way.
Read(j) ==
    /\ Doing(j, "read") /\ Advance(j)
    /\ read' = [read EXCEPT ![j] = progress]
    /\ UNCHANGED <<free, held, progress, latest, faults>>

\* The velocity and the critical path: the query of the one is always refused,
\* that of the other may raise, and their errors are caught.
Guess(j) ==
    /\ Doing(j, "velocity") \/ Doing(j, "path")
    /\ Advance(j)
    /\ UNCHANGED <<free, held, read, progress, latest, faults>>

\* record_progress_update inserts a snapshot, update_goal_progress its entry.
Log(j) ==
    /\ Doing(j, "log") /\ Advance(j) /\ latest' = wanted[j]
    /\ UNCHANGED <<free, held, read, progress, faults>>

\* Is the change as large as progress_update_threshold, one percent?
Significant(p, q) == p - q >= 2 \/ q - p >= 2

\* record_progress_update compares with the progress that it read.
Change(j) ==
    /\ Doing(j, "change") /\ Advance(j)
    /\ progress' = IF Significant(wanted[j], read[j]) THEN wanted[j] ELSE progress
    /\ UNCHANGED <<free, held, read, latest, faults>>

\* update_goal_progress sets it; its pool is another one.
Set(j) ==
    /\ Doing(j, "set") /\ Advance(j) /\ progress' = wanted[j]
    /\ UNCHANGED <<free, held, read, latest, faults>>

\* create_milestone: the trigger sums up milestones, none of which has come
\* anywhere, and writes an entry, all in one transaction.
Reset(j) ==
    /\ Doing(j, "reset") /\ Advance(j) /\ progress' = 0 /\ latest' = 0
    /\ UNCHANGED <<free, held, read, faults>>

\* Where the periodic assessment goes on when the assessment of a goal raises.
NextGoal(j) == 2 + Len(Assess) * ((pos[j] - 2) \div Len(Assess) + 1)
Assessing(j) == kind[j] = "periodic" /\ pos[j] >= 2

\* A statement raises: a report always does, the others at a fault.  The call
\* leaves its blocks, with every connection; the periodic assessment only
\* those of the goal that it was at.
Raise(j) ==
    /\ \/ Doing(j, "refused") /\ UNCHANGED faults
       \/ /\ \E step \in {"read", "log", "change", "set", "reset"} : Doing(j, step)
          /\ faults < MaxFaults /\ faults' = faults + 1
    /\ IF Assessing(j)
       THEN pos' = [pos EXCEPT ![j] = NextGoal(j)] /\ held' = [held EXCEPT ![j] = 1] /\ free' = free + held[j] - 1
       ELSE pos' = [pos EXCEPT ![j] = Len(Script(j))] /\ held' = [held EXCEPT ![j] = 0] /\ free' = free + held[j]
    /\ UNCHANGED <<read, progress, latest>>

\* The periodic assessment sleeps six hours and begins anew.
Repeat(j) ==
    /\ kind[j] = "periodic" /\ Ended(j) /\ pos' = [pos EXCEPT ![j] = 0]
    /\ UNCHANGED <<free, held, read, progress, latest, faults>>

Work(j) ==
    Take(j) \/ Give(j) \/ Read(j) \/ Guess(j) \/ Log(j) \/ Change(j) \/ Set(j) \/ Reset(j) \/ Raise(j)

Next == \E j \in Jobs : Work(j) \/ Repeat(j)

Spec == Init /\ [][Next]_vars

\* A call that has begun goes on, and who waits for a connection is served in
\* turn, so that the periodic assessment cannot overtake it for ever.
Fairness == \A j \in Jobs : SF_vars((pos[j] > 0 \/ kind[j] = "periodic") /\ Work(j))

FairSpec == Spec /\ Fairness

-----------------------------------------------------------------------------
\* A call of the tracking service that has begun ends, although the jobs take
\* connections while they hold others (goal_tracking_service.py:263).  That is
\* so as long as the jobs that come together leave one connection of the pool
\* free: an assessment and a record hold one while they wait, a dashboard and
\* the periodic assessment two.  Four of the latter stop for good, with all
\* that comes after.
CallsEnd == \A j \in Jobs : pos[j] > 0 ~> Ended(j)

\* The goal does not differ by more than a percent from what was last tracked,
\* once all calls have ended.  The code does not meet this: a record compares
\* with a progress that was read before (goal_tracking_service.py:222).
TrackedIsProgress ==
    faults = 0 /\ (\A j \in Jobs : pos[j] \in {0, Len(Script(j))}) => ~Significant(progress, latest)
=============================================================================
