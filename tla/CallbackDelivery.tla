-------------------------- MODULE CallbackDelivery --------------------------
(***************************************************************************)
(* The callback-delivery loop of BuildRuntime (_delivery_loop, deliver_due,*)
(* _deliver_session): one task walks the outboxes and posts each session's *)
(* first pending entry to FuzeFront, at most once at a time, with backoff. *)
(* The loop is a client of the store: runners and cancellations write the  *)
(* same rows between any two of its steps.                                 *)
(***************************************************************************)
EXTENDS BuildStore

CONSTANT CallbackMaxAttempts   \* settings.callback_max_attempts

ASSUME DeliveryAssumption == CallbackMaxAttempts \in Nat \ {0}

VARIABLES loop,     \* the delivery task: where it stands and what it holds
          posted    \* posted[b]: seq of the last callback posted for b

deliveryVars == <<loop, posted>>

NoSession == "none"

Outcome == {"delivered", "moot", "halt", "dead", "retry"}

Waiting == [pc |-> "wait", todo |-> {}, session |-> NoSession,
            seq |-> 0, outcome |-> "none"]

DeliveryInit ==
  /\ loop = Waiting
  /\ posted = [b \in Sessions |-> 0]

LoopAt(pc) == up /\ loop.pc = pc

-----------------------------------------------------------------------------
(* Woken or timed out: snapshot list_pending_outbox.  The wait has a       *)
(* timeout, so a wake-up lost to _wake.clear() only delays the pass.       *)
BeginPass ==
  /\ LoopAt("wait") /\ PendingSessions # {}
  /\ \E rows \in SUBSET PendingSessions :
       /\ Listed(rows, PendingSessions)
       /\ loop' = [loop EXCEPT !.pc = "next", !.todo = rows]
  /\ UNCHANGED <<storeVars, posted>>

(* The next session of the snapshot, or the end of the pass.               *)
NextSession ==
  /\ LoopAt("next")
  /\ \/ loop.todo = {} /\ loop' = Waiting
     \/ \E b \in loop.todo :
          loop' = [loop EXCEPT !.pc = "read", !.session = b,
                               !.todo = @ \ {b}]
  /\ UNCHANGED <<storeVars, posted>>

DoneWithSession ==
  [loop EXCEPT !.pc = "next", !.session = NoSession, !.seq = 0,
               !.outcome = "none"]

(* store.get: the first pending entry, if it is due.                       *)
ReadEntry ==
  /\ LoopAt("read")
  /\ LET r == rec[loop.session] IN
       \/ /\ \A i \in PendingAt(r) : IsFirstPending(r, i) => ~r.outbox[i].due
          /\ loop' = DoneWithSession
       \/ \E i \in PendingAt(r) :
            /\ IsFirstPending(r, i) /\ r.outbox[i].due
            /\ loop' = [loop EXCEPT !.pc = "post", !.seq = i,
                                    !.outcome = "none"]
  /\ UNCHANGED <<storeVars, posted>>

(* post_callback and classify_callback: FuzeFront may answer anything.     *)
PostCallback ==
  /\ LoopAt("post")
  /\ \E outcome \in Outcome :
       loop' = [loop EXCEPT !.pc = "apply", !.outcome = outcome]
  /\ posted' = [posted EXCEPT ![loop.session] = loop.seq]
  /\ UNCHANGED storeVars

(* Mutants: one attempt too many; a state no reader knows.                 *)
VerdictLate(n, outcome) ==
  CASE outcome = "delivered"          -> "delivered"
    [] outcome \in {"moot", "halt"} -> "rejected"
    [] outcome = "dead"               -> "dead"
    [] outcome = "retry"              ->
         IF n > CallbackMaxAttempts THEN "dead" ELSE "pending"

VerdictMisspelt(n, outcome) ==
  IF outcome = "delivered" THEN "delivered" ELSE "failed"

(* What the n-th answer makes of a callback.                               *)
Verdict(n, outcome) ==
  CASE outcome = "delivered"          -> "delivered"
    [] outcome \in {"moot", "halt"} -> "rejected"
    [] outcome = "dead"               -> "dead"
    [] outcome = "retry"              ->
         IF n >= CallbackMaxAttempts THEN "dead" ELSE "pending"

(* Mutant: a retry that is not counted.                                    *)
SettledUncounted(e, outcome) ==
  LET state == Verdict(e.attempts + 1, outcome) IN
  IF outcome = "retry" THEN [e EXCEPT !.due = FALSE]
  ELSE [e EXCEPT !.attempts = @ + 1, !.state = state]

(* The entry once the answer is applied; one that is retried backs off.    *)
Settled(e, outcome) ==
  LET state == Verdict(e.attempts + 1, outcome) IN
  [e EXCEPT !.attempts = @ + 1, !.state = state, !.due = state # "pending"]

Answered(r, seq, outcome) ==
  LET o == [r.outbox EXCEPT ![seq] = Settled(@, outcome)] IN
  IF outcome = "halt"
  THEN [r EXCEPT !.callbacks_halted = TRUE, !.outbox = Supersede(o)]
  ELSE [r EXCEPT !.outbox = o]

(* Mutant: the entry is not checked to be pending still.                   *)
ApplyBlindly ==
  /\ LoopAt("apply")
  /\ rec' = [rec EXCEPT ![loop.session] = Answered(@, loop.seq, loop.outcome)]
  /\ loop' = DoneWithSession
  /\ UNCHANGED <<up, crashes, storeFaults, posted>>

(* The atomic apply: nothing if someone settled the entry meanwhile; retry *)
(* and halt leave the session, the other outcomes go on with its next one. *)
ApplyOutcome ==
  /\ LoopAt("apply")
  /\ LET b == loop.session IN
       rec' = IF loop.seq \in PendingAt(rec[b])
              THEN [rec EXCEPT ![b] = Answered(@, loop.seq, loop.outcome)]
              ELSE rec
  /\ loop' = IF loop.outcome \in {"retry", "halt"} THEN DoneWithSession
             ELSE [loop EXCEPT !.pc = "read", !.seq = 0, !.outcome = "none"]
  /\ UNCHANGED <<up, crashes, storeFaults, posted>>

(* A store operation raises: the pass is given up and the loop waits.      *)
PassFails ==
  /\ up /\ StoreRaises
  /\ loop.pc \in {"read", "apply"}
  /\ loop' = Waiting
  /\ UNCHANGED <<rec, up, crashes, posted>>

(* The clock reaches nextAttemptAt of a backed-off entry.                  *)
BackoffEnds(b) ==
  /\ \E i \in PendingAt(rec[b]) :
       /\ ~rec[b].outbox[i].due
       /\ rec' = [rec EXCEPT ![b].outbox[i].due = TRUE]
  /\ UNCHANGED <<up, crashes, storeFaults, deliveryVars>>

-----------------------------------------------------------------------------
(* A restart loses the loop's place; start() begins it anew.               *)
LoopDies == loop' = Waiting /\ UNCHANGED posted

LoopStep ==
  \/ BeginPass
  \/ NextSession
  \/ ReadEntry
  \/ PostCallback
  \/ ApplyOutcome

DeliveryStep ==
  \/ LoopStep
  \/ PassFails
  \/ \E b \in Sessions : BackoffEnds(b)

LoopType ==
  /\ loop \in [pc : {"wait", "next", "read", "post", "apply"},
               todo : SUBSET Sessions, session : Sessions \cup {NoSession},
               seq : Nat, outcome : Outcome \cup {"none"}]
  /\ posted \in [Sessions -> Nat]

-----------------------------------------------------------------------------
(* Callbacks of a session are posted in order: none while an earlier one   *)
(* is pending.                                                             *)
PostedInOrder ==
  loop.pc \in {"post", "apply"} =>
    \A i \in PendingAt(rec[loop.session]) : loop.seq <= i

(* FuzeFront is never told an earlier state after a later one, even across *)
(* restarts that lose the loop's place and passes that fail half-way.      *)
ReportsNeverGoBack == [][\A b \in Sessions : posted'[b] >= posted[b]]_posted

(* Once settled a callback stays as it is: an answer that arrives after a  *)
(* cancellation superseded its entry changes nothing.                      *)
SettledStays ==
  [][\A b \in Sessions : \A i \in DOMAIN rec[b].outbox \ PendingAt(rec[b]) :
       rec'[b].outbox[i] = rec[b].outbox[i]]_rec

(* A cancelled session has no callback left to deliver.                    *)
CancelledOwesNothing ==
  \A b \in Sessions : rec[b].status = "cancelled" => ~HasPending(rec[b])

(* No callback is applied more than its attempts, none waits beyond them,  *)
(* and one that got an answer was posted.                                  *)
AttemptsBounded ==
  \A b \in Sessions : \A i \in DOMAIN rec[b].outbox :
    LET e == rec[b].outbox[i] IN
    /\ e.attempts <= CallbackMaxAttempts
    /\ e.state = "pending" => e.attempts < CallbackMaxAttempts
    /\ e.attempts > 0 => i <= posted[b]

(* What comments and tests of the repository say and the code does not do. *)

(* runtime.py:82: a halt answer means "stop reporting this session".       *)
HaltIsSilence ==
  loop.pc = "post" => ~rec[loop.session].callbacks_halted

(* tests/test_app_builds.py:1004: a cancelled session reports nothing more.*)
CancelIsSilence ==
  [][\A b \in Sessions :
       rec[b].status = "cancelled" => posted'[b] = posted[b]]_posted
=============================================================================
