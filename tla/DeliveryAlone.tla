---------------------------- MODULE DeliveryAlone ----------------------------
(***************************************************************************)
(* The delivery loop with the runners abstracted to writers of the rows:   *)
(* any of them may open a session, move it forward with a callback or      *)
(* cancel it, between any two steps of the loop.  For checking the loop    *)
(* with several sessions.                                                  *)
(***************************************************************************)
EXTENDS CallbackDelivery

CONSTANT Reports   \* bound: the statuses the writers announce

ASSUME ReportsAssumption == Reports \subseteq ReportedStatus

SessionMoves(b) ==
  /\ up
  /\ \/ ~Exists(rec[b]) /\ rec' = [rec EXCEPT ![b] = NewRecord]
     \/ \E s \in Reports :
          /\ Exists(rec[b]) /\ CanTransition(rec[b].status, s)
          /\ rec' = [rec EXCEPT ![b] = Announce(@, s, NoSlug)]
     \/ Active(rec[b]) /\ rec' = [rec EXCEPT ![b] = Cancelled(@)]
  /\ UNCHANGED <<up, crashes, storeFaults, deliveryVars>>

LoopCrash == ProcessStops /\ LoopDies /\ UNCHANGED <<rec, storeFaults>>

LoopRestart ==
  ProcessStarts /\ UNCHANGED <<rec, crashes, storeFaults, deliveryVars>>

DeliveryNext ==
  \/ DeliveryStep
  \/ \E b \in Sessions : SessionMoves(b)
  \/ LoopCrash
  \/ LoopRestart

DeliveryInitAll == StoreInit /\ DeliveryInit

DeliverySpec ==
  DeliveryInitAll /\ [][DeliveryNext]_<<storeVars, deliveryVars>>
=============================================================================
