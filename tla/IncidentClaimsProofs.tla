------------------------ MODULE IncidentClaimsProofs ------------------------
(***************************************************************************)
(* The election has one winner at a time, whatever the number of dispatches*)
(* and channels and the length of lease, window, delay and jitter, as long *)
(* as every claim comes to Loki within the delay and every query answers.  *)
(***************************************************************************)
EXTENDS IncidentClaims, TLAPS

-----------------------------------------------------------------------------
(* The inductive invariant.                                                *)

Entered(a) == at[a] # "idle"

(* Claimants are ranked by when they took their time.                      *)
Ranked ==
  /\ \A a \in Agents : Entered(a) => time[a] <= now /\ order[a] <= entries
  /\ \A a, b \in Agents : Entered(a) /\ Entered(b) =>
       /\ order[a] = order[b] => a = b
       /\ order[a] < order[b] => time[a] <= time[b]

(* A claim is under way for at most the delay, and then in Loki.           *)
Posted ==
  \A a \in Agents :
    /\ at[a] = "idle" => a \notin ledger
    /\ at[a] \in {"checking", "posting"} => a \notin ledger /\ now <= time[a] + Delay
    /\ at[a] = "waiting" => a \in ledger /\ time[a] <= since[a]
    /\ at[a] = "won" => a \in ledger

(* Whoever is ranked before a winner has stood down or is past its lease.  *)
WonBefore ==
  \A a, b \in Agents :
    at[b] = "won" /\ Entered(a) /\ order[a] < order[b] =>
      at[a] = "stood_down" \/ time[a] + Lease <= now

ClaimsInv == ClaimsTypes /\ Ranked /\ Posted /\ WonBefore

-----------------------------------------------------------------------------
LEMMA InitClaims == Init => ClaimsInv
  BY ClaimsAssumption DEF Init, ClaimsInv, ClaimsTypes, Ranked, Posted, WonBefore, Entered, Places

LEMMA DispatchClaims ==
  ASSUME ClaimsInv, NEW d \in Dispatches, Dispatch(d)
  PROVE  ClaimsInv'
  BY DEF Dispatch, ClaimsInv, ClaimsTypes, Ranked, Posted, WonBefore, Entered, Places

LEMMA ReportClaims ==
  ASSUME ClaimsInv, NEW d \in Dispatches, Report(d)
  PROVE  ClaimsInv'
<1>1. UNCHANGED <<now, entries, at, time, order, since, handler, ledger>>
  BY DEF Report
<1>2. ClaimsTypes'
  <2>1. winner' \in [Dispatches -> Agents \cup {Nobody}]
    BY DEF Report, ClaimsInv, ClaimsTypes, Agents
  <2>2. dispatch' \in [Dispatches -> {"none", "running", "reported"}]
    BY DEF Report, ClaimsInv, ClaimsTypes
  <2>3. QED BY <1>1, <2>1, <2>2 DEF ClaimsInv, ClaimsTypes
<1>3. QED BY <1>1, <1>2 DEF ClaimsInv, Ranked, Posted, WonBefore, Entered

(* A newcomer is ranked last, and its time is the latest.                  *)
LEMMA EnterClaims ==
  ASSUME ClaimsInv, NEW a \in Agents, Enter(a)
  PROVE  ClaimsInv'
<1>1. /\ at[a] = "idle" /\ entries' = entries + 1 /\ UNCHANGED <<now, since, ledger>>
      /\ at' = [at EXCEPT ![a] = "checking"]
      /\ time' = [time EXCEPT ![a] = now]
      /\ order' = [order EXCEPT ![a] = entries + 1]
  BY DEF Enter
<1>2. ClaimsTypes'
  BY <1>1 DEF Enter, ClaimsInv, ClaimsTypes, Places
<1>3. \A b \in Agents \ {a} : at'[b] = at[b] /\ time'[b] = time[b] /\ order'[b] = order[b]
  BY <1>1 DEF ClaimsInv, ClaimsTypes
<1>4. at'[a] = "checking" /\ time'[a] = now /\ order'[a] = entries + 1
  BY <1>1 DEF ClaimsInv, ClaimsTypes
<1>5. now \in Nat /\ entries \in Nat /\ Delay \in Nat /\ order \in [Agents -> Nat]
  BY ClaimsAssumption DEF ClaimsInv, ClaimsTypes
<1>6. Ranked'
  BY <1>1, <1>3, <1>4, <1>5 DEF ClaimsInv, Ranked, Entered
<1>7. Posted'
  BY <1>1, <1>3, <1>4, <1>5 DEF ClaimsInv, Posted
<1>8. WonBefore'
  BY <1>1, <1>3, <1>4, <1>5 DEF ClaimsInv, WonBefore, Ranked, Entered
<1>9. QED BY <1>2, <1>6, <1>7, <1>8 DEF ClaimsInv

(* What settling a claimant leaves to show.                                *)
LEMMA SettleClaims ==
  ASSUME ClaimsInv, NEW a \in Agents, NEW where \in {"posting", "won", "stood_down"},
         NEW owner \in Agents \cup {Nobody}, Settle(a, where, owner), Entered(a),
         where = "posting" => at[a] = "checking",
         where = "won" => a \in ledger /\ \A b \in Agents :
           Entered(b) /\ order[b] < order[a] => at[b] = "stood_down" \/ time[b] + Lease <= now,
         at[a] = "stood_down" => where = "stood_down"
  PROVE  ClaimsInv'
<1>1. at' = [at EXCEPT ![a] = where] /\ UNCHANGED <<now, entries, time, order, since, ledger>>
  BY DEF Settle
<1>2. ClaimsTypes'
  BY DEF Settle, ClaimsInv, ClaimsTypes, Places
<1>3. at'[a] = where /\ \A b \in Agents \ {a} : at'[b] = at[b]
  BY <1>1 DEF ClaimsInv, ClaimsTypes
<1>4. Ranked'
  BY <1>1, <1>3 DEF ClaimsInv, Ranked, Entered
<1>5. Posted'
  BY <1>1, <1>3 DEF ClaimsInv, Posted
<1>6. WonBefore'
  <2> SUFFICES ASSUME NEW x \in Agents, NEW y \in Agents,
                      at'[y] = "won", at'[x] # "idle", order[x] < order[y]
               PROVE  at'[x] = "stood_down" \/ time[x] + Lease <= now
    BY <1>1 DEF WonBefore, Entered
  <2>1. x # y
    BY DEF ClaimsInv, ClaimsTypes
  <2>2. CASE y = a
    BY <2>1, <2>2, <1>3 DEF Entered
  <2>3. CASE y # a
    BY <2>1, <2>3, <1>3 DEF ClaimsInv, WonBefore, Entered
  <2>4. QED BY <2>2, <2>3
<1>7. QED BY <1>2, <1>4, <1>5, <1>6 DEF ClaimsInv

(* The first query never makes a winner: a claimant has not posted yet.    *)
LEMMA PreCheckClaims ==
  ASSUME ClaimsInv, NEW a \in Agents, PreCheck(a)
  PROVE  ClaimsInv'
<1>1. at[a] = "checking" /\ a \notin ledger /\ Entered(a)
  BY DEF PreCheck, ClaimsInv, Posted, Entered
<1>2. PICK seen \in SUBSET ledger :
        LET active == {c \in seen : time[a] < time[c] + Lease} IN
          \/ active = {} /\ Settle(a, "posting", Nobody)
          \/ \E c \in active :
               /\ Earliest(c, active)
               /\ Settle(a, IF c = a THEN "won" ELSE "stood_down", c)
  BY DEF PreCheck
<1>3. CASE Settle(a, "posting", Nobody)
  BY <1>1, <1>3, SettleClaims
<1>4. CASE \E c \in seen : c # a /\ Settle(a, "stood_down", c)
  <2>1. ledger \subseteq Agents
    BY DEF ClaimsInv, ClaimsTypes
  <2>2. QED BY <1>1, <1>4, <2>1, SettleClaims
<1>5. QED BY <1>1, <1>2, <1>3, <1>4

LEMMA PushClaims ==
  ASSUME Faults = {}, ClaimsInv, NEW a \in Agents, Push(a)
  PROVE  ClaimsInv'
<1>1. /\ at[a] = "posting" /\ at' = [at EXCEPT ![a] = "waiting"] /\ since' = [since EXCEPT ![a] = now]
      /\ ledger' = ledger \cup {a} /\ UNCHANGED <<now, entries, time, order>>
  BY DEF Push
<1>2. ClaimsTypes'
  BY <1>1 DEF Push, ClaimsInv, ClaimsTypes, Places
<1>3. /\ at'[a] = "waiting" /\ since'[a] = now
      /\ \A b \in Agents \ {a} : at'[b] = at[b] /\ since'[b] = since[b]
  BY <1>1 DEF ClaimsInv, ClaimsTypes
<1>4. Ranked'
  BY <1>1, <1>3 DEF ClaimsInv, Ranked, Entered
<1>5. Posted'
  BY <1>1, <1>3, <1>4 DEF ClaimsInv, Posted, Ranked, Entered
<1>6. WonBefore'
  BY <1>1, <1>3 DEF ClaimsInv, WonBefore, Entered
<1>7. QED BY <1>2, <1>4, <1>5, <1>6 DEF ClaimsInv

(* The jitter outlasts the delay: the claim of everyone ranked before is   *)
(* in Loki, so the second query shows it unless it is past the window.     *)
LEMMA EarlierIsSeen ==
  ASSUME Faults = {}, ClaimsInv, NEW a \in Agents, at[a] = "waiting", since[a] + Jitter <= now,
         NEW seen \in SUBSET ledger, Returned(seen),
         NEW b \in Agents, Entered(b), order[b] < order[a], b \notin seen
  PROVE  at[b] = "stood_down" \/ time[b] + Lease <= now
<1>1. /\ Delay \in Nat /\ Jitter \in Nat /\ Lease \in Nat /\ Window \in Nat
      /\ Delay < Jitter /\ Lease <= Window
  BY ClaimsAssumption
<1>2. now \in Nat /\ time[a] \in Nat /\ time[b] \in Nat /\ since[a] \in Nat
  BY DEF ClaimsInv, ClaimsTypes
<1>3. time[b] <= time[a] /\ time[a] <= since[a]
  BY DEF ClaimsInv, Ranked, Posted, Entered
<1>4. ~(now <= time[b] + Delay)
  BY <1>1, <1>2, <1>3
<1>5. at[b] \in {"waiting", "won", "stood_down"}
  BY <1>4 DEF ClaimsInv, ClaimsTypes, Places, Posted, Entered
<1>6. CASE b \in ledger
  <2>1. ~(now <= time[b] + Window)
    BY <1>6 DEF Returned
  <2>2. QED BY <2>1, <1>1, <1>2
<1>7. CASE b \notin ledger
  BY <1>5, <1>7 DEF ClaimsInv, Posted
<1>8. QED BY <1>6, <1>7

LEMMA RequeryClaims ==
  ASSUME Faults = {}, ClaimsInv, NEW a \in Agents, Requery(a)
  PROVE  ClaimsInv'
<1>1. /\ at[a] = "waiting" /\ since[a] + Jitter <= now /\ Entered(a) /\ a \in ledger
      /\ ledger \subseteq Agents
  BY DEF Requery, ClaimsInv, ClaimsTypes, Posted, Entered
<1>2. PICK seen \in SUBSET ledger :
        /\ Returned(seen)
        /\ \/ seen = {} /\ Settle(a, "won", a)
           \/ \E c \in seen :
                /\ Earliest(c, seen)
                /\ Settle(a, IF c = a THEN "won" ELSE "stood_down", c)
  BY DEF Requery
<1>3. CASE \E c \in seen : c # a /\ Settle(a, "stood_down", c)
  BY <1>1, <1>3, SettleClaims
<1>4. CASE Settle(a, "won", a) /\ \A o \in seen : order[a] <= order[o]
  <2>1. \A b \in Agents : Entered(b) /\ order[b] < order[a] =>
          at[b] = "stood_down" \/ time[b] + Lease <= now
    <3> TAKE b \in Agents
    <3> HAVE Entered(b) /\ order[b] < order[a]
    <3>1. b \notin seen
      BY <1>4 DEF ClaimsInv, ClaimsTypes
    <3>2. QED BY <1>1, <1>2, <3>1, EarlierIsSeen
  <2>2. QED BY <1>1, <1>4, <2>1, SettleClaims
<1>5. QED BY <1>2, <1>3, <1>4 DEF Earliest

LEMMA TickClaims ==
  ASSUME Faults = {}, ClaimsInv, Tick
  PROVE  ClaimsInv'
<1>1. /\ now' = now + 1 /\ UNCHANGED <<entries, at, time, order, since, handler, ledger, dispatch, winner>>
      /\ \A a \in Agents : at[a] \in {"checking", "posting"} => now < time[a] + Delay
  BY DEF Tick
<1>2. now \in Nat /\ Delay \in Nat /\ Lease \in Nat /\ time \in [Agents -> Nat]
  BY ClaimsAssumption DEF ClaimsInv, ClaimsTypes
<1>3. ClaimsTypes'
  BY <1>1, <1>2 DEF ClaimsInv, ClaimsTypes
<1>4. Ranked'
  BY <1>1, <1>2 DEF ClaimsInv, Ranked, Entered
<1>5. Posted'
  <2> SUFFICES ASSUME NEW a \in Agents, at[a] \in {"checking", "posting"}
               PROVE  now + 1 <= time[a] + Delay
    BY <1>1 DEF ClaimsInv, Posted
  <2>1. now < time[a] + Delay /\ time[a] \in Nat
    BY <1>1, <1>2
  <2>2. QED BY <1>2, <2>1
<1>6. WonBefore'
  BY <1>1, <1>2 DEF ClaimsInv, WonBefore, Entered
<1>7. QED BY <1>3, <1>4, <1>5, <1>6 DEF ClaimsInv

LEMMA ClaimsStep ==
  ASSUME Faults = {}, ClaimsInv, [Next]_vars
  PROVE  ClaimsInv'
<1>1. CASE UNCHANGED vars
  BY <1>1 DEF vars, ClaimsInv, ClaimsTypes, Ranked, Posted, WonBefore, Entered
<1>2. ASSUME NEW d \in Dispatches, Dispatch(d) PROVE ClaimsInv'
  BY <1>2, DispatchClaims
<1>3. ASSUME NEW d \in Dispatches, Report(d) PROVE ClaimsInv'
  BY <1>3, ReportClaims
<1>4. ASSUME NEW a \in Agents, Step(a) PROVE ClaimsInv'
  BY <1>4, EnterClaims, PreCheckClaims, PushClaims, RequeryClaims DEF Step
<1>5. CASE Tick
  BY <1>5, TickClaims
<1>6. QED BY <1>1, <1>2, <1>3, <1>4, <1>5 DEF Next

(* Of two winners the one ranked first is past its lease.                  *)
LEMMA InvOneHandler == ClaimsInv => OneHandler
<1> SUFFICES ASSUME ClaimsInv, NEW a \in Agents, NEW b \in Agents, Active(a), Active(b)
             PROVE  a = b
  BY DEF OneHandler
<1>1. ~(order[a] < order[b]) /\ ~(order[b] < order[a])
  <2>1. now \in Nat /\ time[a] \in Nat /\ time[b] \in Nat /\ Lease \in Nat
    BY ClaimsAssumption DEF ClaimsInv, ClaimsTypes
  <2>2. QED BY <2>1 DEF ClaimsInv, WonBefore, Active, Entered
<1>2. order[a] \in Nat /\ order[b] \in Nat
  BY DEF ClaimsInv, ClaimsTypes
<1>3. order[a] = order[b]
  BY <1>1, <1>2
<1>4. QED BY <1>3 DEF ClaimsInv, Ranked, Active, Entered

(* "exactly one agent executes remediation": two claimants never hold the  *)
(* incident at the same time, when no claim is slow or refused and no      *)
(* query fails (claim_incident, loki_incident_coordinator.py).             *)
THEOREM OneHandlerAtATime ==
  ASSUME Faults = {} PROVE Spec => []OneHandler
<1>1. Init => ClaimsInv
  BY InitClaims
<1>2. ClaimsInv /\ [Next]_vars => ClaimsInv'
  BY ClaimsStep
<1>3. ClaimsInv => OneHandler
  BY InvOneHandler
<1>4. QED BY <1>1, <1>2, <1>3, PTL DEF Spec
=============================================================================
