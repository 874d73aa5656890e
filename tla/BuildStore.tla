----------------------------- MODULE BuildStore -----------------------------
(***************************************************************************)
(* What survives and what does not: the app_build_sessions table (store.py)*)
(* and the single orchestrator process.  Every store operation is atomic;  *)
(* the process may stop between any two of them and start again, and a     *)
(* store operation may raise.  Both are bounded by a budget.               *)
(***************************************************************************)
EXTENDS BuildRecords, FiniteSets

CONSTANTS Sessions,        \* buildSessionIds
          ListLimit,       \* LIMIT of list_active and list_pending_outbox
          MaxCrashes,      \* bound: process stops in a behaviour
          MaxStoreFaults   \* bound: store operations that raise

ASSUME StoreAssumption ==
  /\ ListLimit \in Nat \ {0}
  /\ MaxCrashes \in Nat
  /\ MaxStoreFaults \in Nat

VARIABLES rec,          \* rec[b]: the row of session b
          up,           \* the orchestrator process runs
          crashes,      \* process stops so far
          storeFaults   \* store operations that raised so far

storeVars == <<rec, up, crashes, storeFaults>>

StoreInit ==
  /\ rec = [b \in Sessions |-> NoRow]
  /\ up = TRUE
  /\ crashes = 0
  /\ storeFaults = 0

(* The rows a LIMITed listing returns.  ORDER BY created_at is abstracted: *)
(* any rows of the right number.                                           *)
Listed(rows, all) ==
  /\ rows \subseteq all
  /\ \/ rows = all /\ Cardinality(all) <= ListLimit
     \/ Cardinality(rows) = ListLimit /\ Cardinality(all) > ListLimit

ActiveSessions == {b \in Sessions : Active(rec[b])}

PendingSessions == {b \in Sessions : HasPending(rec[b])}

StoreRaises ==
  /\ storeFaults < MaxStoreFaults
  /\ storeFaults' = storeFaults + 1

ProcessStops ==
  /\ up
  /\ crashes < MaxCrashes
  /\ up' = FALSE
  /\ crashes' = crashes + 1

ProcessStarts == ~up /\ up' = TRUE
=============================================================================
