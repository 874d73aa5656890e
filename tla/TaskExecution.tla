---------------------------- MODULE TaskExecution ----------------------------
(***************************************************************************)
(* The autonomous execution of tasks (task_execution_engine.py): contexts  *)
(* in memory, one worker that takes them a step further, a monitor, an     *)
(* hourly cleanup, and callers that start and cancel.  All of them are     *)
(* coroutines of one event loop that meet at each await of the database,   *)
(* where an update may raise.                                              *)
(***************************************************************************)
EXTENDS Naturals, FiniteSets

CONSTANTS
    Tasks,
    MaxStarts,    \* bound: executions that are started for a task
    MaxCancels,   \* bound: cancellations that find an execution
    MaxFaults     \* bound: awaits of the database or of a sandbox that raise

\* What is assumed of the constants.
EngineAssumption == MaxStarts \in Nat /\ MaxCancels \in Nat /\ MaxFaults \in Nat

VARIABLES
    starts,     \* contexts made for each task so far
    live,       \* active_executions: the number of the task's context, 0 for none
    ctx,        \* ctx[t][n]: status and last step of the n-th context
    row,        \* tasks.status in the database
    todo,       \* what the worker's scan still has to process
    work,       \* the step the worker is in
    calls,      \* updates that callers and the monitor wait for
    cleanups,   \* scheduled cleanups of each task
    aged,       \* contexts past the time limit of the monitor
    cancels,
    faults

vars == <<starts, live, ctx, row, todo, work, calls, cleanups, aged, cancels, faults>>

Steps == {"none", "analyze", "sandbox", "git", "execute", "review", "commit", "finalize"}

Ended == {"completed", "failed", "cancelled"}

Statuses == {"pending", "analyzing", "setting_up", "executing", "reviewing", "committing"} \cup Ended

NoStep == [task |-> 0, at |-> "idle"]

EngineTypes ==
    /\ \A t \in Tasks : starts[t] \in 0..MaxStarts /\ live[t] \in 0..starts[t]
    /\ ctx \in [Tasks -> [1..MaxStarts -> [status : Statuses, step : Steps]]]
    /\ row \in [Tasks -> Statuses]
    /\ todo \subseteq Tasks
    /\ work = NoStep \/ (work.task \in Tasks /\ work.at \in {"marking", "storing", "spoilt", "failing", "failing_again"})
    /\ calls \subseteq (Tasks \X {"pending", "cancelled", "failed", "overdue"})
    /\ \A t \in Tasks : cleanups[t] \in Nat
    /\ aged \subseteq Tasks
    /\ cancels \in 0..MaxCancels /\ faults \in 0..MaxFaults

Init ==
    /\ starts = [t \in Tasks |-> 0] /\ live = starts /\ cleanups = starts
    /\ ctx = [t \in Tasks |-> [n \in 1..MaxStarts |-> [status |-> "pending", step |-> "none"]]]
    /\ row = [t \in Tasks |-> "pending"]
    /\ todo = {} /\ work = NoStep /\ calls = {} /\ aged = {}
    /\ cancels = 0 /\ faults = 0

-----------------------------------------------------------------------------

Status(t) == ctx[t][live[t]].status

\* The statuses _execution_worker looks for.
Picked == {"pending", "executing"}

\* _determine_next_step without the question to a human.  Six iterations have
\* passed by the first commit, and _is_task_complete asks for three.
NextStep(c) ==
    IF c.status = "pending" THEN "analyze"
    ELSE [none |-> "analyze", analyze |-> "sandbox", sandbox |-> "git", git |-> "execute",
          execute |-> "review", review |-> "commit", commit |-> "finalize", finalize |-> "none"][c.step]

StatusIn(step, old) ==
    [none |-> old, analyze |-> "analyzing", sandbox |-> "setting_up", git |-> old, execute |-> "executing",
     review |-> "reviewing", commit |-> "committing", finalize |-> "completed"][step]

\* An await that raises.
Raises == faults < MaxFaults /\ faults' = faults + 1

Fine == UNCHANGED faults

\* start_task_execution replaces the context of the task, whatever it is at.
Start(t) ==
    /\ starts[t] < MaxStarts
    /\ starts' = [starts EXCEPT ![t] = @ + 1]
    /\ live' = [live EXCEPT ![t] = starts[t] + 1]
    /\ calls' = calls \cup {<<t, "pending">>}
    /\ aged' = aged \ {t}
    /\ UNCHANGED <<ctx, row, todo, work, cleanups, cancels, faults>>

\* The update that a start ends with; when it raises the task is recorded as
\* failed and its context stays.
Started(t) ==
    /\ <<t, "pending">> \in calls
    /\ \/ /\ Fine /\ row' = [row EXCEPT ![t] = "pending"]
          /\ calls' = calls \ {<<t, "pending">>}
       \/ /\ Raises /\ UNCHANGED row
          /\ calls' = (calls \ {<<t, "pending">>}) \cup {<<t, "failed">>}
    /\ UNCHANGED <<starts, live, ctx, todo, work, cleanups, aged, cancels>>

NotStarted(t) ==
    /\ <<t, "failed">> \in calls /\ calls' = calls \ {<<t, "failed">>}
    /\ \/ Fine /\ row' = [row EXCEPT ![t] = "failed"]
       \/ Raises /\ UNCHANGED row
    /\ UNCHANGED <<starts, live, ctx, todo, work, cleanups, aged, cancels>>

Cancel(t) ==
    /\ live[t] # 0 /\ cancels < MaxCancels /\ cancels' = cancels + 1
    /\ ctx' = [ctx EXCEPT ![t][live[t]].status = "cancelled"]
    /\ calls' = calls \cup {<<t, "cancelled">>}
    /\ UNCHANGED <<starts, live, row, todo, work, cleanups, aged, faults>>

Cancelled(t) ==
    /\ <<t, "cancelled">> \in calls /\ calls' = calls \ {<<t, "cancelled">>}
    /\ \/ /\ Fine /\ row' = [row EXCEPT ![t] = "cancelled"]
          /\ cleanups' = [cleanups EXCEPT ![t] = @ + 1]
       \/ Raises /\ UNCHANGED <<row, cleanups>>
    /\ UNCHANGED <<starts, live, ctx, todo, work, aged, cancels>>

\* One pass of _execution_worker over the contexts.
Scan ==
    /\ work = NoStep /\ todo = {}
    /\ todo' = {t \in Tasks : live[t] # 0 /\ Status(t) \in Picked}
    /\ todo' # {}
    /\ UNCHANGED <<starts, live, ctx, row, work, calls, cleanups, aged, cancels, faults>>

\* _process_task_execution up to the first await of its step.
Process(t) ==
    /\ work = NoStep /\ t \in todo /\ todo' = todo \ {t}
    /\ IF live[t] = 0 \/ Status(t) \in Ended
       THEN UNCHANGED <<ctx, work>>
       ELSE LET c == ctx[t][live[t]]  step == NextStep(c) IN
              /\ ctx' = [ctx EXCEPT ![t][live[t]] = [status |-> StatusIn(step, c.status), step |-> step]]
              /\ work' = [task |-> t, at |-> IF step = "git" THEN "storing" ELSE "marking", n |-> live[t]]
    /\ UNCHANGED <<starts, live, row, calls, cleanups, aged, cancels, faults>>

\* The status of the step is stored and the step itself is done, or it raises;
\* the last step schedules the cleanup.
Mark ==
    /\ work # NoStep /\ work.at = "marking"
    /\ LET t == work.task  c == ctx[t][work.n] IN
         \/ /\ Fine /\ row' = [row EXCEPT ![t] = StatusIn(c.step, c.status)]
            /\ work' = [work EXCEPT !.at = "storing"]
            /\ cleanups' = IF c.step = "finalize" THEN [cleanups EXCEPT ![t] = @ + 1] ELSE cleanups
         \/ /\ Raises /\ row' \in {row, [row EXCEPT ![t] = StatusIn(c.step, c.status)]}
            /\ work' = [work EXCEPT !.at = "spoilt"] /\ UNCHANGED cleanups
    /\ UNCHANGED <<starts, live, ctx, todo, calls, aged, cancels>>

\* The synchronous part of _handle_execution_error.
SetFailed(t) ==
    ctx' = IF live[t] = 0 THEN ctx ELSE [ctx EXCEPT ![t][live[t]].status = "failed"]

\* The iteration is stored; _execute_step raises when this or its step did.
StoreIteration ==
    /\ work # NoStep /\ work.at \in {"storing", "spoilt"}
    /\ \/ Fine /\ work.at = "storing" /\ work' = NoStep /\ UNCHANGED ctx
       \/ Fine /\ work.at = "spoilt" /\ work' = [work EXCEPT !.at = "failing"] /\ SetFailed(work.task)
       \/ Raises /\ work' = [work EXCEPT !.at = "failing"] /\ SetFailed(work.task)
    /\ UNCHANGED <<starts, live, row, todo, calls, cleanups, aged, cancels>>

\* Mutant: the worker gives up at the first error of its error handling.
FailOnce ==
    /\ work # NoStep /\ work.at \in {"failing", "failing_again"}
    /\ LET t == work.task IN
         \/ /\ Fine /\ row' = [row EXCEPT ![t] = "failed"] /\ work' = NoStep
            /\ cleanups' = [cleanups EXCEPT ![t] = @ + 1] /\ UNCHANGED ctx
         \/ Raises /\ work' = NoStep /\ UNCHANGED <<row, cleanups, ctx>>
    /\ UNCHANGED <<starts, live, todo, calls, aged, cancels>>

\* _handle_execution_error, which is called again when it raises itself.
Fail ==
    /\ work # NoStep /\ work.at \in {"failing", "failing_again"}
    /\ LET t == work.task IN
         \/ /\ Fine /\ row' = [row EXCEPT ![t] = "failed"] /\ work' = NoStep
            /\ cleanups' = [cleanups EXCEPT ![t] = @ + 1] /\ UNCHANGED ctx
         \/ /\ Raises /\ work.at = "failing" /\ work' = [work EXCEPT !.at = "failing_again"]
            /\ SetFailed(t) /\ UNCHANGED <<row, cleanups>>
         \/ Raises /\ work.at = "failing_again" /\ work' = NoStep /\ UNCHANGED <<row, cleanups, ctx>>
    /\ UNCHANGED <<starts, live, todo, calls, aged, cancels>>

\* _cleanup_execution pops whatever context the task has by then.
Cleanup(t) ==
    /\ cleanups[t] > 0 /\ cleanups' = [cleanups EXCEPT ![t] = @ - 1]
    /\ live' = [live EXCEPT ![t] = 0]
    /\ UNCHANGED <<starts, ctx, row, todo, work, calls, aged, cancels, faults>>

\* Mutant: the monitor looks after the executions that are executing.
OverdueExecuting(t) ==
    /\ live[t] # 0 /\ <<t, "overdue">> \notin calls /\ cleanups[t] = 0
    /\ t \in aged \/ (Status(t) = "executing" /\ (work = NoStep \/ work.task # t) /\ t \notin todo)
    /\ \A k \in {"pending", "failed"} : <<t, k>> \notin calls
    /\ aged' = aged \cup {t}
    /\ SetFailed(t)
    /\ calls' = calls \cup {<<t, "overdue">>}
    /\ UNCHANGED <<starts, live, row, todo, work, cleanups, cancels, faults>>

\* The monitor finds an execution past its limit of 50 hours: by then its step
\* and its start are long over, an ended one is cleaned up, and one it could
\* not record as failed it meets again every minute.
Overdue(t) ==
    /\ live[t] # 0 /\ <<t, "overdue">> \notin calls /\ cleanups[t] = 0
    /\ t \in aged \/ (Status(t) \notin Ended /\ (work = NoStep \/ work.task # t) /\ t \notin todo)
    /\ \A k \in {"pending", "failed"} : <<t, k>> \notin calls
    /\ aged' = aged \cup {t}
    /\ SetFailed(t)
    /\ calls' = calls \cup {<<t, "overdue">>}
    /\ UNCHANGED <<starts, live, row, todo, work, cleanups, cancels, faults>>

OverdueFailed(t) ==
    /\ <<t, "overdue">> \in calls /\ calls' = calls \ {<<t, "overdue">>}
    /\ \/ /\ Fine /\ row' = [row EXCEPT ![t] = "failed"]
          /\ cleanups' = [cleanups EXCEPT ![t] = @ + 1]
       \/ Raises /\ UNCHANGED <<row, cleanups>>
    /\ UNCHANGED <<starts, live, ctx, todo, work, aged, cancels>>

\* _cleanup_worker drops what ended an hour ago.
CleanupEnded(t) ==
    /\ live[t] # 0 /\ Status(t) \in Ended /\ t \notin aged
    /\ (work = NoStep \/ work.task # t) /\ \A k \in {"cancelled", "overdue"} : <<t, k>> \notin calls
    /\ live' = [live EXCEPT ![t] = 0]
    /\ UNCHANGED <<starts, ctx, row, todo, work, calls, cleanups, aged, cancels, faults>>

Monitor(t) == Overdue(t) \/ OverdueFailed(t)

Answers(t) == Started(t) \/ NotStarted(t) \/ Cancelled(t)

Worker == Scan \/ (\E t \in Tasks : Process(t)) \/ Mark \/ StoreIteration \/ Fail

Next ==
    \/ Worker
    \/ \E t \in Tasks : Start(t) \/ Cancel(t) \/ Answers(t) \/ Cleanup(t) \/ Monitor(t) \/ CleanupEnded(t)

Spec == Init /\ [][Next]_vars

\* The loops run for ever and the database answers.
Fairness ==
    /\ WF_vars(Worker)
    /\ \A t \in Tasks : /\ WF_vars(Answers(t)) /\ WF_vars(Cleanup(t))
                       /\ WF_vars(Monitor(t)) /\ WF_vars(CleanupEnded(t))

FairSpec == Spec /\ Fairness

-----------------------------------------------------------------------------

\* Nothing that could still write the status of the task is under way.
Still(t) ==
    /\ cleanups[t] = 0 /\ (work = NoStep \/ work.task # t)
    /\ \A k \in {"pending", "cancelled", "failed", "overdue"} : <<t, k>> \notin calls

\* get_execution_status looks into the database for "completed/failed tasks":
\* a task whose execution is gone is recorded there as ended.
EndedIsRecorded ==
    \A t \in Tasks : starts[t] > 0 /\ live[t] = 0 /\ Still(t) => row[t] \in Ended

\* Of an execution that is gone no step is recorded as under way: what made it
\* fail is recorded, though two of the updates may raise.  (The first update
\* of the start may still come last.)
NotLeftAtWork ==
    \A t \in Tasks : starts[t] > 0 /\ live[t] = 0 /\ Still(t) => row[t] \in Ended \cup {"pending"}

\* The cleanup, which goes by the task, only ever drops a context that ended.
CleanupIsOwn ==
    [][\A t \in Tasks : live[t] # 0 /\ live'[t] = 0 => Status(t) \in Ended]_vars

\* Every execution is taken out of memory in the end, with its sandbox, also
\* when the updates that report its failure raise.
EveryExecutionEnds == \A t \in Tasks : live[t] # 0 ~> live[t] = 0

\* "Continue based on last completed step": an execution whose analysis is done
\* goes on to the setup of its sandbox.
AnalysisIsContinued ==
    \A t \in Tasks : live[t] # 0 ~> live[t] # 0 /\ ctx[t][live[t]].step = "sandbox"
=============================================================================
