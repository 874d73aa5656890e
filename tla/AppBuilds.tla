------------------------------ MODULE AppBuilds ------------------------------
(***************************************************************************)
(* BuildRuntime as a whole: the runner tasks and the delivery loop of one  *)
(* process over the same rows of the store, with restarts of the process.  *)
(***************************************************************************)
EXTENDS BuildRunner, CallbackDelivery

vars == <<storeVars, runnerVars, deliveryVars>>

Init == StoreInit /\ RunnerInit /\ DeliveryInit

(* The pod stops: runners, handlers and the loop go together.              *)
Crash == ProcessStops /\ RunnersDie /\ LoopDies

(* start(): resume what list_active returns, then begin the loop.          *)
Restart ==
  /\ ProcessStarts
  /\ RunnersResume \/ ResumeFails
  /\ UNCHANGED deliveryVars

Next ==
  \/ /\ \E b \in Sessions : SessionStep(b)
     /\ UNCHANGED deliveryVars
  \/ RegistryStep /\ UNCHANGED deliveryVars
  \/ DeliveryStep /\ UNCHANGED runnerVars
  \/ Crash
  \/ Restart

Spec == Init /\ [][Next]_vars

(* What the program schedules: a ready task runs, a due callback is tried, *)
(* the clock moves, a stopped pod is started again.  The deployer and      *)
(* FuzeFront answer or time out.  Accepting, cancelling, faults and other  *)
(* owners are never forced.                                                *)
Fairness ==
  /\ \A b \in Sessions :
       /\ WF_vars(Enqueue(b) /\ UNCHANGED deliveryVars)
       /\ WF_vars(RunnerStep(b) /\ UNCHANGED deliveryVars)
       /\ WF_vars(CancelKillsTask(b) /\ UNCHANGED deliveryVars)
       /\ WF_vars(CancelReturns(b) /\ UNCHANGED deliveryVars)
       /\ WF_vars(BackoffEnds(b) /\ UNCHANGED runnerVars)
  /\ WF_vars(LoopStep /\ UNCHANGED runnerVars)
  /\ WF_vars(Restart)

FairSpec == Spec /\ Fairness

-----------------------------------------------------------------------------
(* Every variable has its type.                                            *)
AppBuildsTypeOK == TypeOK /\ LoopType

(* A session moves, announces and reports as BuildContract promises.       *)
Contract == INSTANCE BuildContract WITH
  status    <- [b \in Sessions |-> rec[b].status],
  announced <- [b \in Sessions |->
                 [i \in DOMAIN rec[b].outbox |-> rec[b].outbox[i].status]],
  reported  <- posted

ImplementsContract == Contract!Spec

(* Every accepted session ends, and with it the obligation to report:      *)
(* every callback is delivered, rejected, superseded or given up.          *)
EverySessionEnds ==
  \A b \in Sessions : Active(rec[b]) ~> Terminal(rec[b])

CallbacksSettle ==
  \A b \in Sessions : HasPending(rec[b]) ~> ~HasPending(rec[b])

=============================================================================
