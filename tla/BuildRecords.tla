---------------------------- MODULE BuildRecords ----------------------------
(***************************************************************************)
(* The persisted session record of services/orchestrator/app_builds and    *)
(* its forward-only state machine (models.py).  Pure operators: a record   *)
(* goes in, the record the code would store comes out.                     *)
(***************************************************************************)
EXTENDS Naturals, Sequences

CONSTANTS Slugs,     \* application slugs a session may try
          NoSlug     \* Python's None in slug and app_slug

ASSUME NoSlugAssumption == NoSlug \notin Slugs

-----------------------------------------------------------------------------
(* "absent" is no row in app_build_sessions; the others are stored.        *)
Status == {"absent", "accepted", "building", "deploying",
           "deployed", "failed", "cancelled"}

TerminalStatus == {"deployed", "failed", "cancelled"}

ReportedStatus == {"building", "deploying", "deployed", "failed"}

Rank == [s \in {"accepted", "building", "deploying", "deployed"} |->
           CASE s = "accepted"  -> 0
             [] s = "building"  -> 1
             [] s = "deploying" -> 2
             [] s = "deployed"  -> 3]

CanTransition(current, target) ==
  /\ current \notin TerminalStatus
  /\ \/ target \in {"failed", "cancelled"}
     \/ /\ {current, target} \subseteq DOMAIN Rank
        /\ Rank[target] > Rank[current]

EntryState == {"pending", "delivered", "rejected", "superseded", "dead"}

ErrorCode == {"none", "deploy_failed", "manifest_invalid", "slug_unavailable",
              "registry_unavailable", "registry_rejected", "internal_error"}

(* One callback of the outbox.  Its seq is its position: entries are only  *)
(* appended, numbered from 1.  "due" stands for nextAttemptAt <= clock.    *)
Entry == [status : ReportedStatus, app : Slugs \cup {NoSlug},
          state : EntryState, attempts : Nat, due : BOOLEAN]

BuildRecord ==
  [status : Status, artifact : BOOLEAN, deploy_result : BOOLEAN,
   slug : Slugs \cup {NoSlug}, slugs_tried : SUBSET Slugs,
   register_attempted : BOOLEAN, registered : BOOLEAN,
   app_slug : Slugs \cup {NoSlug}, error_code : ErrorCode,
   outbox : Seq(Entry), callbacks_halted : BOOLEAN]

NoRow ==
  [status |-> "absent", artifact |-> FALSE, deploy_result |-> FALSE,
   slug |-> NoSlug, slugs_tried |-> {}, register_attempted |-> FALSE,
   registered |-> FALSE, app_slug |-> NoSlug, error_code |-> "none",
   outbox |-> << >>, callbacks_halted |-> FALSE]

NewRecord == [NoRow EXCEPT !.status = "accepted"]

Exists(r) == r.status # "absent"

Terminal(r) == r.status \in TerminalStatus

Active(r) == Exists(r) /\ ~Terminal(r)

-----------------------------------------------------------------------------
(* BuildRecord.advance raises IllegalTransition unless this holds.         *)
CanAdvance(r, target) ==
  /\ CanTransition(r.status, target)
  /\ target = "deployed" => r.registered /\ r.app_slug # NoSlug

NewEntry(status, app) ==
  [status |-> status, app |-> app, state |-> "pending",
   attempts |-> 0, due |-> TRUE]

(* _advance_with_callback: the transition and its callback are one write.  *)
Announce(r, target, app) ==
  [r EXCEPT !.status = target, !.outbox = Append(@, NewEntry(target, app))]

Supersede(outbox) ==
  [i \in DOMAIN outbox |->
     IF outbox[i].state = "pending"
     THEN [outbox[i] EXCEPT !.state = "superseded"] ELSE outbox[i]]

(* Mutants: a spelling no reader of the status knows; the outbox forgotten.*)
CancelledMisspelt(r) ==
  [r EXCEPT !.status = "canceled", !.outbox = Supersede(@)]

CancelledKeepsOutbox(r) == [r EXCEPT !.status = "cancelled"]

Cancelled(r) ==
  [r EXCEPT !.status = "cancelled", !.outbox = Supersede(@)]

PendingAt(r) == {i \in DOMAIN r.outbox : r.outbox[i].state = "pending"}

HasPending(r) == PendingAt(r) # {}

(* Mutants: any pending entry; the newest one.                             *)
IsSomePending(r, i) == i \in PendingAt(r)

IsLastPending(r, i) ==
  /\ i \in PendingAt(r)
  /\ \A j \in PendingAt(r) : j <= i

IsFirstPending(r, i) ==
  /\ i \in PendingAt(r)
  /\ \A j \in PendingAt(r) : i <= j
=============================================================================
