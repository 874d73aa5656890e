----------------------- MODULE CallbackDeliveryProofs -----------------------
(***************************************************************************)
(* What the delivery loop keeps, whatever the writers of the rows do       *)
(* between its steps, as long as each of them only appends a callback,     *)
(* supersedes the pending ones, or leaves the outbox alone.                *)
(***************************************************************************)
EXTENDS CallbackDelivery, BuildRecordsProofs

-----------------------------------------------------------------------------
(* The inductive invariant.                                                *)

(* The outbox of row r when p is the last callback posted from it.         *)
OutboxSound(r, p) ==
  /\ p <= Len(r.outbox)
  /\ \A i \in PendingAt(r) : p <= i
  /\ r.status = "cancelled" => ~HasPending(r)
  /\ \A i \in DOMAIN r.outbox :
       /\ r.outbox[i].attempts <= CallbackMaxAttempts
       /\ r.outbox[i].state = "pending" =>
            r.outbox[i].attempts < CallbackMaxAttempts
       /\ r.outbox[i].attempts > 0 => i <= p

(* What the loop holds across its awaits.                                  *)
HeldInv ==
  /\ loop.pc \in {"read", "post", "apply"} => loop.session \in Sessions
  /\ loop.pc \in {"post", "apply"} =>
       loop.seq \in DOMAIN rec[loop.session].outbox
  /\ loop.pc = "post" => posted[loop.session] <= loop.seq
  /\ loop.pc = "apply" => /\ posted[loop.session] = loop.seq
                          /\ loop.outcome \in Outcome
  /\ PostedInOrder

DeliveryTypes == rec \in [Sessions -> BuildRecord] /\ LoopType

DeliveryInv ==
  /\ DeliveryTypes
  /\ HeldInv
  /\ \A b \in Sessions : OutboxSound(rec[b], posted[b])

(* What a writer of rows that is not the loop may make of row r.           *)
RowMoves(r, s) ==
  \/ s.outbox = r.outbox /\ (s.status = "cancelled" => r.status = "cancelled")
  \/ /\ r.status # "cancelled" /\ s.status # "cancelled"
     /\ \E status \in ReportedStatus, app \in Slugs \cup {NoSlug} :
          s.outbox = Append(r.outbox, NewEntry(status, app))
  \/ s.outbox = Supersede(r.outbox)

-----------------------------------------------------------------------------
(* The positions of an outbox are 1..Len, its elements entries.            *)
LEMMA OutboxType ==
  ASSUME NEW r \in BuildRecord
  PROVE  /\ r.outbox \in Seq(Entry) /\ Len(r.outbox) \in Nat
         /\ DOMAIN r.outbox = 1..Len(r.outbox)
         /\ \A i \in DOMAIN r.outbox : r.outbox[i] \in Entry /\ i \in Nat
         /\ PendingAt(r) \subseteq DOMAIN r.outbox
<1>1. r.outbox \in Seq(Entry)
  BY DEF BuildRecord
<1>2. Len(r.outbox) \in Nat /\ DOMAIN r.outbox = 1..Len(r.outbox)
  BY <1>1, LenProperties
<1>3. \A i \in DOMAIN r.outbox : r.outbox[i] \in Entry
  BY <1>1, <1>2, ElementOfSeq
<1> QED
  BY <1>1, <1>2, <1>3 DEF PendingAt

(* One callback more, pending and not yet tried.                           *)
LEMMA AppendKeeps ==
  ASSUME NEW r \in BuildRecord, NEW s \in BuildRecord, NEW p \in Nat,
         OutboxSound(r, p), s.status # "cancelled",
         NEW status \in ReportedStatus, NEW app \in Slugs \cup {NoSlug},
         s.outbox = Append(r.outbox, NewEntry(status, app))
  PROVE  /\ OutboxSound(s, p)
         /\ \A i \in DOMAIN r.outbox :
              i \in DOMAIN s.outbox /\ s.outbox[i] = r.outbox[i]
         /\ \A i \in PendingAt(s) : i \in PendingAt(r) \/ i > Len(r.outbox)
<1> DEFINE n == Len(r.outbox) + 1
           e == NewEntry(status, app)
<1>1. /\ r.outbox \in Seq(Entry) /\ Len(r.outbox) \in Nat
      /\ DOMAIN r.outbox = 1..Len(r.outbox)
  BY OutboxType
<1>2. e \in Entry /\ e.state = "pending" /\ e.attempts = 0
  BY DEF NewEntry, Entry, EntryState, ReportedStatus
<1>3. /\ Len(s.outbox) = n /\ s.outbox[n] = e
      /\ \A i \in 1..Len(r.outbox) : s.outbox[i] = r.outbox[i]
  BY <1>1, <1>2, AppendProperties
<1>4. DOMAIN s.outbox = 1..n
  BY <1>3, OutboxType
<1>5. \A i \in DOMAIN s.outbox : i \in DOMAIN r.outbox \/ i = n
  BY <1>1, <1>4
<1>6. \A i \in PendingAt(s) : i \in PendingAt(r) \/ i > Len(r.outbox)
  BY <1>1, <1>3, <1>5 DEF PendingAt
<1>7. \A i \in DOMAIN s.outbox :
        /\ s.outbox[i].attempts <= CallbackMaxAttempts
        /\ s.outbox[i].state = "pending" =>
             s.outbox[i].attempts < CallbackMaxAttempts
        /\ s.outbox[i].attempts > 0 => i <= p
  BY <1>1, <1>2, <1>3, <1>5, DeliveryAssumption DEF OutboxSound
<1>8. p <= Len(s.outbox) /\ \A i \in PendingAt(s) : p <= i
  <2>1. p <= Len(r.outbox) /\ \A i \in PendingAt(r) : p <= i
    BY DEF OutboxSound
  <2>2. PendingAt(s) \subseteq Nat
    BY <1>4, <1>1 DEF PendingAt
  <2> QED
    BY <1>1, <1>3, <1>6, <2>1, <2>2
<1> QED
  BY <1>1, <1>3, <1>4, <1>6, <1>7, <1>8 DEF OutboxSound

(* No callback is pending any more, none is touched but for that.          *)
LEMMA SupersedeSound ==
  ASSUME NEW r \in BuildRecord, NEW s \in BuildRecord, NEW p \in Nat,
         OutboxSound(r, p), s.outbox = Supersede(r.outbox)
  PROVE  /\ OutboxSound(s, p)
         /\ DOMAIN s.outbox = DOMAIN r.outbox
         /\ \A i \in DOMAIN r.outbox \ PendingAt(r) :
              s.outbox[i] = r.outbox[i]
         /\ PendingAt(s) = {}
<1>1. /\ r.outbox \in Seq(Entry) /\ Len(r.outbox) \in Nat
      /\ \A i \in DOMAIN r.outbox : r.outbox[i] \in Entry
  BY OutboxType
<1>2. /\ Len(s.outbox) = Len(r.outbox)
      /\ DOMAIN s.outbox = DOMAIN r.outbox
      /\ \A i \in DOMAIN r.outbox : s.outbox[i].state # "pending"
  BY <1>1, SupersedeKeeps
<1>3. \A i \in DOMAIN r.outbox :
        s.outbox[i].attempts = r.outbox[i].attempts
  BY <1>1 DEF Supersede, Entry
<1>4. \A i \in DOMAIN r.outbox \ PendingAt(r) : s.outbox[i] = r.outbox[i]
  BY DEF Supersede, PendingAt
<1>5. PendingAt(s) = {}
  BY <1>2 DEF PendingAt
<1> QED
  BY <1>2, <1>3, <1>4, <1>5 DEF OutboxSound, HasPending

(* Whatever a writer does, the outbox stays sound, settled callbacks stay  *)
(* as they are and a callback that becomes pending is the newest.          *)
LEMMA RowMovesKeeps ==
  ASSUME NEW r \in BuildRecord, NEW s \in BuildRecord, NEW p \in Nat,
         OutboxSound(r, p), RowMoves(r, s)
  PROVE  /\ OutboxSound(s, p)
         /\ DOMAIN r.outbox \subseteq DOMAIN s.outbox
         /\ \A i \in DOMAIN r.outbox \ PendingAt(r) :
              s.outbox[i] = r.outbox[i]
         /\ \A i \in PendingAt(s) : i \in PendingAt(r) \/ i > Len(r.outbox)
<1>1. CASE s.outbox = r.outbox
            /\ (s.status = "cancelled" => r.status = "cancelled")
  BY <1>1 DEF OutboxSound, PendingAt, HasPending
<1>2. CASE s.status # "cancelled"
            /\ \E status \in ReportedStatus, app \in Slugs \cup {NoSlug} :
                 s.outbox = Append(r.outbox, NewEntry(status, app))
  BY <1>2, AppendKeeps
<1>3. CASE s.outbox = Supersede(r.outbox)
  BY <1>3, SupersedeSound
<1> QED
  BY <1>1, <1>2, <1>3 DEF RowMoves

(* A step of a writer keeps the invariant of the loop.                     *)
LEMMA WriterStepInv ==
  ASSUME DeliveryInv, rec' \in [Sessions -> BuildRecord],
         \A b \in Sessions : RowMoves(rec[b], rec'[b]),
         UNCHANGED deliveryVars
  PROVE  DeliveryInv'
<1>1. loop' = loop /\ posted' = posted /\ posted \in [Sessions -> Nat]
  BY DEF deliveryVars, DeliveryInv, DeliveryTypes, LoopType
<1>2. ASSUME NEW b \in Sessions
      PROVE  /\ OutboxSound(rec'[b], posted[b])
             /\ DOMAIN rec[b].outbox \subseteq DOMAIN rec'[b].outbox
             /\ \A i \in PendingAt(rec'[b]) :
                  i \in PendingAt(rec[b]) \/ i > Len(rec[b].outbox)
  BY <1>1, RowMovesKeeps DEF DeliveryInv, DeliveryTypes
<1>3. DeliveryTypes'
  BY <1>1 DEF DeliveryInv, DeliveryTypes, LoopType
<1>4. HeldInv'
  <2>1. CASE loop.pc \notin {"post", "apply"}
    BY <1>1, <2>1 DEF DeliveryInv, HeldInv, PostedInOrder
  <2>2. CASE loop.pc \in {"post", "apply"}
    <3>1. /\ loop.session \in Sessions
          /\ loop.seq \in DOMAIN rec[loop.session].outbox
          /\ \A i \in PendingAt(rec[loop.session]) : loop.seq <= i
      BY <2>2 DEF DeliveryInv, HeldInv, PostedInOrder
    <3>2. /\ Len(rec[loop.session].outbox) \in Nat
          /\ DOMAIN rec[loop.session].outbox = 1..Len(rec[loop.session].outbox)
      BY <3>1, OutboxType DEF DeliveryInv, DeliveryTypes
    <3>3. PendingAt(rec'[loop.session]) \subseteq Nat
      <4>1. rec'[loop.session] \in BuildRecord
        BY <3>1
      <4> QED
        BY <4>1, OutboxType
    <3>4. loop.seq \in Nat /\ loop.seq <= Len(rec[loop.session].outbox)
      BY <3>1, <3>2
    <3>5. ASSUME NEW i \in PendingAt(rec'[loop.session])
          PROVE  loop.seq <= i
      BY <1>2, <3>1, <3>2, <3>3, <3>4
    <3>6. loop.seq \in DOMAIN rec'[loop.session].outbox
      BY <1>2, <3>1
    <3> QED
      BY <1>1, <3>1, <3>5, <3>6 DEF DeliveryInv, HeldInv, PostedInOrder
  <2> QED
    BY <2>1, <2>2
<1> QED
  BY <1>1, <1>2, <1>3, <1>4 DEF DeliveryInv

-----------------------------------------------------------------------------
(* The steps of the loop.                                                  *)

(* A callback that is still pending gets its answer: one attempt more, and *)
(* pending only while attempts are left.                                   *)
LEMMA SettledKeeps ==
  ASSUME NEW e \in Entry, NEW outcome \in Outcome,
         e.attempts < CallbackMaxAttempts
  PROVE  LET f == Settled(e, outcome) IN
         /\ f \in Entry
         /\ f.status = e.status /\ f.app = e.app
         /\ f.attempts = e.attempts + 1
         /\ f.attempts <= CallbackMaxAttempts
         /\ f.state = "pending" => f.attempts < CallbackMaxAttempts
<1>1. e.attempts \in Nat /\ CallbackMaxAttempts \in Nat
  BY DeliveryAssumption DEF Entry
<1> DEFINE n == e.attempts + 1
           state == Verdict(n, outcome)
           f == Settled(e, outcome)
<1>2. /\ state \in EntryState
      /\ state = "pending" => n < CallbackMaxAttempts
  BY <1>1 DEF Verdict, EntryState, Outcome
<1>3. f = [e EXCEPT !.attempts = n, !.state = state, !.due = state # "pending"]
  BY DEF Settled
<1>4. n \in Nat /\ n <= CallbackMaxAttempts
  BY <1>1
<1> HIDE DEF n, state, f
<1>5. f \in Entry
  BY <1>2, <1>3, <1>4 DEF Entry
<1>6. /\ f.status = e.status /\ f.app = e.app
      /\ f.attempts = n /\ f.state = state
  BY <1>3 DEF Entry
<1> QED
  BY <1>2, <1>4, <1>5, <1>6 DEF n, f

(* What runners decide from is the same in both rows.                      *)
SameRun(r, s) ==
  /\ s.status = r.status
  /\ s.artifact = r.artifact /\ s.deploy_result = r.deploy_result
  /\ s.slug = r.slug /\ s.slugs_tried = r.slugs_tried
  /\ s.register_attempted = r.register_attempted
  /\ s.registered = r.registered /\ s.app_slug = r.app_slug
  /\ s.error_code = r.error_code

(* The answer changes the callback it is for; a halt also supersedes the   *)
(* other pending ones.                                                     *)
LEMMA AnsweredKeeps ==
  ASSUME NEW r \in BuildRecord, NEW seq \in PendingAt(r),
         NEW outcome \in Outcome, OutboxSound(r, seq)
  PROVE  LET s == Answered(r, seq, outcome) IN
         /\ s \in BuildRecord
         /\ OutboxSound(s, seq)
         /\ \A i \in DOMAIN r.outbox \ PendingAt(r) :
              s.outbox[i] = r.outbox[i]
         /\ Len(s.outbox) = Len(r.outbox) /\ DOMAIN s.outbox = DOMAIN r.outbox
         /\ \A i \in DOMAIN r.outbox : s.outbox[i].status = r.outbox[i].status
         /\ SameRun(r, s)
<1> DEFINE o == [r.outbox EXCEPT ![seq] = Settled(@, outcome)]
           q == [r EXCEPT !.outbox = o]
           s == Answered(r, seq, outcome)
<1>1. /\ r.outbox \in Seq(Entry) /\ Len(r.outbox) \in Nat
      /\ DOMAIN r.outbox = 1..Len(r.outbox)
      /\ \A i \in DOMAIN r.outbox : r.outbox[i] \in Entry
      /\ seq \in DOMAIN r.outbox /\ seq \in Nat
  BY OutboxType
<1>2. /\ r.outbox[seq].attempts < CallbackMaxAttempts
      /\ r.outbox[seq].state = "pending"
  BY <1>1 DEF OutboxSound, PendingAt
<1>3. LET f == Settled(r.outbox[seq], outcome) IN
      /\ f \in Entry /\ f.status = r.outbox[seq].status
      /\ f.attempts <= CallbackMaxAttempts
      /\ f.state = "pending" => f.attempts < CallbackMaxAttempts
  BY <1>1, <1>2, SettledKeeps
<1>4. o \in [DOMAIN r.outbox -> Entry]
  <2>1. r.outbox \in [DOMAIN r.outbox -> Entry]
    BY <1>1
  <2> QED
    BY <1>1, <1>3, <2>1
<1>5. o \in Seq(Entry) /\ Len(o) = Len(r.outbox) /\ DOMAIN o = DOMAIN r.outbox
  BY <1>1, <1>4, SeqByDomain
<1>6. q \in BuildRecord /\ q.outbox = o /\ q.status = r.status
  BY <1>5 DEF BuildRecord
<1>7. \A i \in DOMAIN r.outbox :
        o[i] = IF i = seq THEN Settled(r.outbox[seq], outcome)
               ELSE r.outbox[i]
  BY <1>1
<1>8. PendingAt(q) \subseteq PendingAt(r)
  BY <1>2, <1>5, <1>6, <1>7 DEF PendingAt
<1>9. OutboxSound(q, seq)
  <2>1. seq <= Len(q.outbox) /\ \A i \in PendingAt(q) : seq <= i
    BY <1>5, <1>6, <1>8 DEF OutboxSound
  <2>2. q.status = "cancelled" => ~HasPending(q)
    BY <1>6, <1>8 DEF OutboxSound, HasPending
  <2>3. \A i \in DOMAIN q.outbox :
          /\ q.outbox[i].attempts <= CallbackMaxAttempts
          /\ q.outbox[i].state = "pending" =>
               q.outbox[i].attempts < CallbackMaxAttempts
          /\ q.outbox[i].attempts > 0 => i <= seq
    <3> SUFFICES ASSUME NEW i \in DOMAIN r.outbox
                 PROVE  /\ o[i].attempts <= CallbackMaxAttempts
                        /\ o[i].state = "pending" =>
                             o[i].attempts < CallbackMaxAttempts
                        /\ o[i].attempts > 0 => i <= seq
      BY <1>5, <1>6
    <3>1. CASE i = seq
      BY <1>1, <1>3, <1>7, <3>1
    <3>2. CASE i # seq
      BY <1>7, <3>2 DEF OutboxSound
    <3> QED
      BY <3>1, <3>2
  <2> QED
    BY <2>1, <2>2, <2>3 DEF OutboxSound
<1>10. \A i \in DOMAIN r.outbox \ PendingAt(r) : q.outbox[i] = r.outbox[i]
  BY <1>6, <1>7
<1>11. \A i \in DOMAIN r.outbox : o[i].status = r.outbox[i].status
  BY <1>3, <1>7
<1>12. CASE outcome # "halt"
  <2>1. s = q
    BY <1>12 DEF Answered
  <2>2. SameRun(r, s)
    BY <2>1 DEF BuildRecord, SameRun
  <2> QED
    BY <1>5, <1>6, <1>9, <1>10, <1>11, <2>1, <2>2
<1>13. CASE outcome = "halt"
  <2>1. s = [r EXCEPT !.callbacks_halted = TRUE, !.outbox = Supersede(o)]
    BY <1>13 DEF Answered
  <2>2. /\ Supersede(o) \in Seq(Entry) /\ Len(Supersede(o)) = Len(o)
        /\ DOMAIN Supersede(o) = DOMAIN o
        /\ \A i \in DOMAIN o : Supersede(o)[i].status = o[i].status
    BY <1>5, SupersedeKeeps
  <2>3. s \in BuildRecord /\ s.outbox = Supersede(q.outbox)
    BY <1>6, <2>1, <2>2 DEF BuildRecord
  <2>4. /\ OutboxSound(s, seq)
        /\ \A i \in DOMAIN q.outbox \ PendingAt(q) : s.outbox[i] = q.outbox[i]
    BY <1>1, <1>6, <1>9, <2>3, SupersedeSound
  <2>5. SameRun(r, s)
    BY <2>1 DEF BuildRecord, SameRun
  <2> QED
    BY <1>5, <1>6, <1>8, <1>10, <1>11, <2>2, <2>3, <2>4, <2>5
<1> QED
  BY <1>12, <1>13

(* A step that moves only the loop, to a place where it holds nothing yet  *)
(* or a session to read.                                                   *)
LEMMA LoopMovesInv ==
  ASSUME DeliveryInv, UNCHANGED <<rec, posted>>, LoopType',
         loop'.pc \in {"wait", "next", "read"},
         loop'.pc = "read" => loop'.session \in Sessions
  PROVE  DeliveryInv'
<1>1. HeldInv'
  BY DEF HeldInv, PostedInOrder
<1> QED
  BY <1>1 DEF DeliveryInv, DeliveryTypes

LEMMA BeginPassInv ==
  ASSUME DeliveryInv, BeginPass
  PROVE  DeliveryInv'
<1>1. PICK rows \in SUBSET PendingSessions :
        loop' = [loop EXCEPT !.pc = "next", !.todo = rows]
  BY DEF BeginPass
<1>2. PendingSessions \subseteq Sessions
  BY DEF PendingSessions
<1>3. LoopType' /\ loop'.pc = "next"
  BY <1>1, <1>2 DEF DeliveryInv, DeliveryTypes, LoopType, BeginPass
<1> QED
  BY <1>3, LoopMovesInv DEF BeginPass, storeVars

(* A loop that has done with a session, or waits, is well typed.           *)
LEMMA DoneType ==
  ASSUME LoopType
  PROVE  LET L == [pc : {"wait", "next", "read", "post", "apply"},
                   todo : SUBSET Sessions,
                   session : Sessions \cup {NoSession},
                   seq : Nat, outcome : Outcome \cup {"none"}] IN
         /\ Waiting \in L /\ Waiting.pc = "wait"
         /\ DoneWithSession \in L /\ DoneWithSession.pc = "next"
BY DEF LoopType, Waiting, DoneWithSession

LEMMA NextSessionInv ==
  ASSUME DeliveryInv, NextSession
  PROVE  DeliveryInv'
<1>1. LoopType
  BY DEF DeliveryInv, DeliveryTypes
<1>2. UNCHANGED <<rec, posted>>
  BY DEF NextSession, storeVars
<1>3. CASE loop' = Waiting
  <2>1. LoopType' /\ loop'.pc = "wait"
    BY <1>1, <1>2, <1>3, DoneType DEF LoopType
  <2> QED
    BY <1>2, <2>1, LoopMovesInv
<1>4. CASE \E b \in loop.todo :
             loop' = [loop EXCEPT !.pc = "read", !.session = b,
                                  !.todo = @ \ {b}]
  <2>1. PICK b \in loop.todo :
          loop' = [loop EXCEPT !.pc = "read", !.session = b, !.todo = @ \ {b}]
    BY <1>4
  <2>2. b \in Sessions
    BY <1>1 DEF LoopType
  <2>3. LoopType' /\ loop'.pc = "read" /\ loop'.session = b
    BY <1>1, <1>2, <2>1, <2>2 DEF LoopType
  <2> QED
    BY <1>2, <2>2, <2>3, LoopMovesInv
<1> QED
  BY <1>3, <1>4 DEF NextSession

LEMMA ReadEntryInv ==
  ASSUME DeliveryInv, ReadEntry
  PROVE  DeliveryInv'
<1> DEFINE b == loop.session
<1>1. LoopType /\ b \in Sessions /\ rec[b] \in BuildRecord
  BY DEF DeliveryInv, DeliveryTypes, HeldInv, ReadEntry, LoopAt
<1>2. UNCHANGED <<rec, posted>>
  BY DEF ReadEntry, storeVars
<1>3. CASE loop' = DoneWithSession
  <2>1. LoopType' /\ loop'.pc = "next"
    BY <1>1, <1>2, <1>3, DoneType DEF LoopType
  <2> QED
    BY <1>2, <2>1, LoopMovesInv
<1>4. CASE \E i \in PendingAt(rec[b]) :
             /\ IsFirstPending(rec[b], i)
             /\ loop' = [loop EXCEPT !.pc = "post", !.seq = i,
                                     !.outcome = "none"]
  <2>1. PICK i \in PendingAt(rec[b]) :
          /\ IsFirstPending(rec[b], i)
          /\ loop' = [loop EXCEPT !.pc = "post", !.seq = i, !.outcome = "none"]
    BY <1>4
  <2>2. i \in DOMAIN rec[b].outbox /\ i \in Nat
    BY <1>1, <2>1, OutboxType
  <2>3. /\ LoopType' /\ loop'.pc = "post" /\ loop'.session = b
        /\ loop'.seq = i
    BY <1>1, <1>2, <2>1, <2>2 DEF LoopType
  <2>4. posted[b] <= i
    BY <1>1 DEF DeliveryInv, OutboxSound
  <2>5. \A j \in PendingAt(rec[b]) : i <= j
    BY <2>1 DEF IsFirstPending
  <2>6. HeldInv'
    BY <1>1, <1>2, <2>2, <2>3, <2>4, <2>5 DEF HeldInv, PostedInOrder, PendingAt
  <2> QED
    BY <1>2, <2>3, <2>6 DEF DeliveryInv, DeliveryTypes
<1> QED
  BY <1>3, <1>4 DEF ReadEntry

(* Nothing earlier is pending when a callback is posted.                   *)
LEMMA PostCallbackInv ==
  ASSUME DeliveryInv, PostCallback
  PROVE  DeliveryInv'
<1> DEFINE b == loop.session
<1>1. /\ LoopType /\ b \in Sessions /\ rec[b] \in BuildRecord
      /\ loop.seq \in DOMAIN rec[b].outbox
      /\ posted[b] <= loop.seq
      /\ \A i \in PendingAt(rec[b]) : loop.seq <= i
      /\ rec \in [Sessions -> BuildRecord]
  BY DEF DeliveryInv, DeliveryTypes, HeldInv, PostedInOrder, PostCallback,
         LoopAt
<1>2. /\ loop.seq \in Nat /\ loop.seq <= Len(rec[b].outbox)
      /\ \A i \in DOMAIN rec[b].outbox : i \in Nat
  BY <1>1, OutboxType
<1>3. PICK outcome \in Outcome :
        loop' = [loop EXCEPT !.pc = "apply", !.outcome = outcome]
  BY DEF PostCallback
<1>4. rec' = rec /\ posted' = [posted EXCEPT ![b] = loop.seq]
  BY DEF PostCallback, storeVars
<1>5. /\ loop'.pc = "apply" /\ loop'.session = b /\ loop'.seq = loop.seq
      /\ loop'.outcome \in Outcome /\ LoopType'
  BY <1>1, <1>2, <1>3, <1>4 DEF LoopType
<1>6. posted'[b] = loop.seq
  BY <1>1, <1>4 DEF LoopType
<1>7. HeldInv'
  BY <1>1, <1>4, <1>5, <1>6 DEF HeldInv, PostedInOrder, PendingAt
<1>8. ASSUME NEW c \in Sessions PROVE OutboxSound(rec'[c], posted'[c])
  <2>1. CASE c # b
    BY <1>1, <1>4, <2>1 DEF DeliveryInv, LoopType
  <2>2. CASE c = b
    <3>1. OutboxSound(rec[b], posted[b])
      BY <1>1 DEF DeliveryInv
    <3>2. posted[b] \in Nat
      BY <1>1 DEF LoopType
    <3>3. \A i \in DOMAIN rec[b].outbox :
            rec[b].outbox[i].attempts > 0 => i <= loop.seq
      BY <1>1, <1>2, <3>1, <3>2 DEF OutboxSound
    <3>4. OutboxSound(rec[b], loop.seq)
      BY <1>1, <1>2, <3>1, <3>3 DEF OutboxSound
    <3> QED
      BY <1>4, <1>6, <2>2, <3>4
  <2> QED
    BY <2>1, <2>2
<1> QED
  BY <1>1, <1>4, <1>5, <1>7, <1>8 DEF DeliveryInv, DeliveryTypes

LEMMA ApplyOutcomeInv ==
  ASSUME DeliveryInv, ApplyOutcome
  PROVE  DeliveryInv'
<1> DEFINE b == loop.session
<1>1. /\ LoopType /\ b \in Sessions /\ rec[b] \in BuildRecord
      /\ posted[b] = loop.seq /\ loop.outcome \in Outcome
      /\ rec \in [Sessions -> BuildRecord]
      /\ OutboxSound(rec[b], loop.seq)
  BY DEF DeliveryInv, DeliveryTypes, HeldInv, ApplyOutcome, LoopAt
<1>2. posted' = posted
  BY DEF ApplyOutcome
<1>3. /\ LoopType' /\ loop'.pc \in {"next", "read"}
      /\ loop'.pc = "read" => loop'.session = b
  <2>1. CASE loop' = DoneWithSession
    BY <1>1, <1>2, <2>1, DoneType DEF LoopType
  <2>2. CASE loop' = [loop EXCEPT !.pc = "read", !.seq = 0,
                                  !.outcome = "none"]
    BY <1>1, <1>2, <2>2 DEF LoopType
  <2> QED
    BY <2>1, <2>2 DEF ApplyOutcome
<1>4. HeldInv'
  BY <1>1, <1>3 DEF HeldInv, PostedInOrder
<1>5. CASE loop.seq \notin PendingAt(rec[b])
  <2>1. rec' = rec
    BY <1>5 DEF ApplyOutcome
  <2> QED
    BY <1>2, <1>3, <1>4, <2>1 DEF DeliveryInv, DeliveryTypes
<1>6. CASE loop.seq \in PendingAt(rec[b])
  <2> DEFINE s == Answered(rec[b], loop.seq, loop.outcome)
  <2>1. rec' = [rec EXCEPT ![b] = s]
    BY <1>6 DEF ApplyOutcome
  <2>2. s \in BuildRecord /\ OutboxSound(s, loop.seq)
    BY <1>1, <1>6, AnsweredKeeps
  <2>3. rec' \in [Sessions -> BuildRecord]
    BY <1>1, <2>1, <2>2
  <2>4. \A c \in Sessions : OutboxSound(rec'[c], posted'[c])
    BY <1>1, <1>2, <2>1, <2>2 DEF DeliveryInv
  <2> QED
    BY <1>3, <1>4, <2>3, <2>4 DEF DeliveryInv, DeliveryTypes
<1> QED
  BY <1>5, <1>6

(* A pass given up, a process stopped: the loop waits.                     *)
LEMMA LoopWaitsInv ==
  ASSUME DeliveryInv, UNCHANGED <<rec, posted>>, loop' = Waiting
  PROVE  DeliveryInv'
<1>1. LoopType' /\ loop'.pc = "wait"
  BY DoneType DEF DeliveryInv, DeliveryTypes, LoopType
<1> QED
  BY <1>1, LoopMovesInv

(* The row of a session whose backoff ends, but for due.                   *)
LEMMA BackoffRow ==
  ASSUME NEW r \in BuildRecord, NEW i \in PendingAt(r)
  PROVE  LET s == [r EXCEPT !.outbox[i].due = TRUE] IN
         /\ s \in BuildRecord
         /\ DOMAIN s.outbox = DOMAIN r.outbox
         /\ Len(s.outbox) = Len(r.outbox)
         /\ \A j \in DOMAIN r.outbox :
              s.outbox[j] = IF j = i THEN [r.outbox[i] EXCEPT !.due = TRUE]
                            ELSE r.outbox[j]
         /\ SameRun(r, s)
<1> DEFINE o == [r.outbox EXCEPT ![i].due = TRUE]
           s == [r EXCEPT !.outbox[i].due = TRUE]
<1>1. /\ r.outbox \in Seq(Entry) /\ i \in DOMAIN r.outbox
      /\ \A j \in DOMAIN r.outbox : r.outbox[j] \in Entry
      /\ DOMAIN r.outbox = 1..Len(r.outbox)
  BY OutboxType
<1>2. [r.outbox[i] EXCEPT !.due = TRUE] \in Entry
  BY <1>1 DEF Entry
<1>3. r.outbox \in [DOMAIN r.outbox -> Entry]
  BY <1>1
<1>4. o \in [DOMAIN r.outbox -> Entry]
  BY <1>1, <1>2, <1>3
<1>5. o \in Seq(Entry) /\ Len(o) = Len(r.outbox) /\ DOMAIN o = DOMAIN r.outbox
  BY <1>1, <1>4, SeqByDomain
<1>6. s = [r EXCEPT !.outbox = o]
  OBVIOUS
<1>7. s \in BuildRecord /\ s.outbox = o /\ SameRun(r, s)
  BY <1>5, <1>6 DEF BuildRecord, SameRun
<1>8. \A j \in DOMAIN r.outbox :
        o[j] = IF j = i THEN [r.outbox[i] EXCEPT !.due = TRUE]
               ELSE r.outbox[j]
  BY <1>1
<1> HIDE DEF o
<1> QED
  BY <1>5, <1>7, <1>8

LEMMA BackoffEndsInv ==
  ASSUME DeliveryInv, NEW b \in Sessions, BackoffEnds(b)
  PROVE  DeliveryInv'
<1>1. /\ rec \in [Sessions -> BuildRecord] /\ rec[b] \in BuildRecord
      /\ UNCHANGED <<loop, posted>>
  BY DEF DeliveryInv, DeliveryTypes, BackoffEnds, deliveryVars
<1>2. PICK i \in PendingAt(rec[b]) :
        rec' = [rec EXCEPT ![b].outbox[i].due = TRUE]
  BY DEF BackoffEnds
<1> DEFINE s == [rec[b] EXCEPT !.outbox[i].due = TRUE]
<1>3. rec' = [rec EXCEPT ![b] = s]
  BY <1>2
<1>4. /\ s \in BuildRecord /\ s.status = rec[b].status
      /\ DOMAIN s.outbox = DOMAIN rec[b].outbox
      /\ Len(s.outbox) = Len(rec[b].outbox)
      /\ \A j \in DOMAIN rec[b].outbox :
           /\ s.outbox[j].state = rec[b].outbox[j].state
           /\ s.outbox[j].attempts = rec[b].outbox[j].attempts
  <2>1. \A j \in DOMAIN rec[b].outbox : rec[b].outbox[j] \in Entry
    BY <1>1, OutboxType
  <2>2. /\ s \in BuildRecord
        /\ DOMAIN s.outbox = DOMAIN rec[b].outbox
        /\ Len(s.outbox) = Len(rec[b].outbox)
        /\ \A j \in DOMAIN rec[b].outbox :
             s.outbox[j] = IF j = i THEN [rec[b].outbox[i] EXCEPT !.due = TRUE]
                           ELSE rec[b].outbox[j]
    BY <1>1, BackoffRow
  <2>3. s.status = rec[b].status
    BY <1>1 DEF BuildRecord
  <2> HIDE DEF s
  <2> QED
    BY <2>1, <2>2, <2>3 DEF Entry
<1> HIDE DEF s
<1>5. PendingAt(s) = PendingAt(rec[b])
  BY <1>4 DEF PendingAt
<1>6. OutboxSound(s, posted[b])
  <2>1. OutboxSound(rec[b], posted[b])
    BY DEF DeliveryInv
  <2> QED
    BY <1>4, <1>5, <2>1 DEF OutboxSound, HasPending
<1>7. rec' \in [Sessions -> BuildRecord]
  BY <1>1, <1>3, <1>4
<1>8. \A c \in Sessions : OutboxSound(rec'[c], posted'[c])
  BY <1>1, <1>3, <1>6 DEF DeliveryInv
<1>9. \A c \in Sessions : /\ PendingAt(rec'[c]) = PendingAt(rec[c])
                          /\ DOMAIN rec'[c].outbox = DOMAIN rec[c].outbox
  BY <1>1, <1>3, <1>4, <1>5
<1>10. HeldInv'
  BY <1>1, <1>9 DEF DeliveryInv, HeldInv, PostedInOrder
<1>11. LoopType'
  BY <1>1 DEF DeliveryInv, DeliveryTypes, LoopType
<1> QED
  BY <1>7, <1>8, <1>10, <1>11 DEF DeliveryInv, DeliveryTypes

(* Every step of the loop keeps the invariant.                             *)
LEMMA DeliveryStepInv ==
  ASSUME DeliveryInv, DeliveryStep
  PROVE  DeliveryInv'
<1>1. CASE PassFails
  BY <1>1, LoopWaitsInv DEF PassFails
<1> QED
  BY <1>1, BeginPassInv, NextSessionInv, ReadEntryInv, PostCallbackInv,
     ApplyOutcomeInv, BackoffEndsInv
  DEF DeliveryStep, LoopStep

-----------------------------------------------------------------------------
(* What a step of the loop does to a row, and what the invariant says.     *)

(* The loop changes nothing of a row but the pending callbacks of its      *)
(* outbox and the halt mark.                                               *)
RowSettles(r, s) ==
  \/ s = r
  \/ /\ PendingAt(r) # {}
     /\ SameRun(r, s)
     /\ Len(s.outbox) = Len(r.outbox) /\ DOMAIN s.outbox = DOMAIN r.outbox
     /\ \A i \in DOMAIN r.outbox : s.outbox[i].status = r.outbox[i].status
     /\ \A i \in DOMAIN r.outbox \ PendingAt(r) : s.outbox[i] = r.outbox[i]

LEMMA DeliveryStepRows ==
  ASSUME DeliveryInv, DeliveryStep, NEW b \in Sessions
  PROVE  RowSettles(rec[b], rec'[b])
<1>1. rec \in [Sessions -> BuildRecord] /\ rec[b] \in BuildRecord
  BY DEF DeliveryInv, DeliveryTypes
<1>2. CASE rec' = rec
  BY <1>2 DEF RowSettles
<1>3. CASE ApplyOutcome /\ loop.seq \in PendingAt(rec[loop.session])
  <2>1. CASE b # loop.session
    BY <1>1, <1>3, <2>1 DEF ApplyOutcome, RowSettles
  <2>2. CASE b = loop.session
    <3> DEFINE s == Answered(rec[b], loop.seq, loop.outcome)
    <3>1. loop.outcome \in Outcome /\ OutboxSound(rec[b], loop.seq)
      BY <1>3, <2>2 DEF ApplyOutcome, LoopAt, DeliveryInv, HeldInv
    <3>2. rec'[b] = s
      BY <1>1, <1>3, <2>2 DEF ApplyOutcome
    <3>3. /\ \A i \in DOMAIN rec[b].outbox \ PendingAt(rec[b]) :
               s.outbox[i] = rec[b].outbox[i]
          /\ Len(s.outbox) = Len(rec[b].outbox)
          /\ DOMAIN s.outbox = DOMAIN rec[b].outbox
          /\ \A i \in DOMAIN rec[b].outbox :
               s.outbox[i].status = rec[b].outbox[i].status
          /\ SameRun(rec[b], s)
      <4>1. loop.seq \in PendingAt(rec[b])
        BY <1>3, <2>2
      <4> QED
        BY <1>1, <3>1, <4>1, AnsweredKeeps
    <3> HIDE DEF s
    <3> QED
      BY <1>3, <2>2, <3>2, <3>3 DEF RowSettles
  <2> QED
    BY <2>1, <2>2
<1>4. CASE \E c \in Sessions : BackoffEnds(c)
  <2>0. PICK c \in Sessions : BackoffEnds(c)
    BY <1>4
  <2>1. PICK i \in PendingAt(rec[c]) :
          rec' = [rec EXCEPT ![c].outbox[i].due = TRUE]
    BY <2>0 DEF BackoffEnds
  <2>2. CASE b # c
    BY <1>1, <2>1, <2>2 DEF RowSettles
  <2>3. CASE b = c
    <3> DEFINE s == [rec[b] EXCEPT !.outbox[i].due = TRUE]
    <3>1. rec'[b] = s
      BY <1>1, <2>1, <2>3
    <3>2. /\ DOMAIN s.outbox = DOMAIN rec[b].outbox
          /\ Len(s.outbox) = Len(rec[b].outbox)
          /\ \A j \in DOMAIN rec[b].outbox :
               s.outbox[j] =
                 IF j = i THEN [rec[b].outbox[i] EXCEPT !.due = TRUE]
                 ELSE rec[b].outbox[j]
          /\ SameRun(rec[b], s)
      BY <1>1, <2>1, <2>3, BackoffRow
    <3>3. \A j \in DOMAIN rec[b].outbox : rec[b].outbox[j] \in Entry
      BY <1>1, OutboxType
    <3> HIDE DEF s
    <3>4. \A j \in DOMAIN rec[b].outbox :
            s.outbox[j].status = rec[b].outbox[j].status
      BY <3>2, <3>3 DEF Entry
    <3>6. \A j \in DOMAIN rec[b].outbox \ PendingAt(rec[b]) :
            s.outbox[j] = rec[b].outbox[j]
      BY <2>1, <2>3, <3>2
    <3>7. PendingAt(rec[b]) # {}
      BY <2>1, <2>3
    <3> QED
      BY <3>1, <3>2, <3>4, <3>6, <3>7 DEF RowSettles
  <2> QED
    BY <2>2, <2>3
<1> QED
  BY <1>2, <1>3, <1>4
  DEF DeliveryStep, LoopStep, BeginPass, NextSession, ReadEntry,
      PostCallback, ApplyOutcome, PassFails, storeVars

(* No step of the loop posts an earlier callback than the last one.        *)
LEMMA DeliveryStepReports ==
  ASSUME DeliveryInv, DeliveryStep, NEW b \in Sessions
  PROVE  posted'[b] >= posted[b]
<1>1. posted \in [Sessions -> Nat] /\ loop.seq \in Nat
  BY DEF DeliveryInv, DeliveryTypes, LoopType
<1>2. CASE PostCallback
  BY <1>1, <1>2 DEF PostCallback, LoopAt, DeliveryInv, HeldInv
<1>3. CASE posted' = posted
  BY <1>1, <1>3
<1> QED
  BY <1>2, <1>3
  DEF DeliveryStep, LoopStep, BeginPass, NextSession, ReadEntry,
      ApplyOutcome, PassFails, BackoffEnds, deliveryVars

LEMMA DeliveryInvSays ==
  ASSUME DeliveryInv
  PROVE  PostedInOrder /\ CancelledOwesNothing /\ AttemptsBounded
<1>1. PostedInOrder
  BY DEF DeliveryInv, HeldInv
<1>2. CancelledOwesNothing
  BY DEF DeliveryInv, OutboxSound, CancelledOwesNothing
<1>3. AttemptsBounded
  BY DEF DeliveryInv, OutboxSound, AttemptsBounded
<1> QED
  BY <1>1, <1>2, <1>3
=============================================================================
