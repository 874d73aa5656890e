--------------------------- MODULE AppBuildsProofs ---------------------------
(***************************************************************************)
(* The whole of BuildRuntime: what the runners keep and what the delivery  *)
(* loop keeps hold together, and with them the contract with FuzeFront.    *)
(***************************************************************************)
EXTENDS AppBuilds, BuildRunnerProofs, CallbackDeliveryProofs

AppInv == RunnerInv /\ DeliveryInv

-----------------------------------------------------------------------------
(* The runners and the cancellers are writers the loop can live with.      *)

LEMMA AnnounceMoves ==
  ASSUME NEW r \in BuildRecord, ~Terminal(r), NEW s \in ReportedStatus,
         NEW app \in Slugs \cup {NoSlug}
  PROVE  RowMoves(r, Announce(r, s, app))
<1>1. /\ Announce(r, s, app).status = s
      /\ Announce(r, s, app).outbox = Append(r.outbox, NewEntry(s, app))
  BY DEF Announce, BuildRecord
<1>2. r.status # "cancelled" /\ s # "cancelled"
  BY DEF Terminal, TerminalStatus, ReportedStatus
<1> QED
  BY <1>1, <1>2 DEF RowMoves

(* A row written with the same status and outbox.                          *)
LEMMA QuietMoves ==
  ASSUME NEW r, NEW s, s.status = r.status, s.outbox = r.outbox
  PROVE  RowMoves(r, s)
BY DEF RowMoves

LEMMA PersistRows ==
  ASSUME TypeOK, NEW c \in Sessions, NEW new, NEW local,
         Persist(c, new, local), ~Terminal(rec[c]) => RowMoves(rec[c], new),
         NEW b \in Sessions
  PROVE  RowMoves(rec[b], rec'[b])
<1>1. CASE rec' = rec
  BY <1>1, QuietMoves
<1>2. CASE ~Terminal(rec[c]) /\ rec' = [rec EXCEPT ![c] = new]
  BY <1>2, QuietMoves DEF TypeOK
<1> QED
  BY <1>1, <1>2 DEF Persist

LEMMA SessionStepRows ==
  ASSUME RunnerInv, NEW c \in Sessions, SessionStep(c), NEW b \in Sessions
  PROVE  RowMoves(rec[b], rec'[b])
<1>1. TypeOK /\ rec[c] \in BuildRecord /\ SessionInv(c)
  BY DEF RunnerInv, TypeOK
<1>2. CASE Accept(c)
  <2>1. rec[c] = NoRow
    BY <1>1, <1>2 DEF Accept, SessionInv, AbsentInv
  <2>2. RowMoves(rec[c], NewRecord)
    BY <2>1 DEF RowMoves, NewRecord, NoRow
  <2> QED
    BY <1>1, <1>2, <2>2, QuietMoves DEF Accept, TypeOK
<1>3. CASE CancelCommits(c)
  <2>1. RowMoves(rec[c], Cancelled(rec[c]))
    BY <1>1 DEF RowMoves, Cancelled, BuildRecord
  <2> QED
    BY <1>1, <1>3, <2>1, QuietMoves DEF CancelCommits, TypeOK
<1>4. CASE Fail(c)
  <2>1. CASE rec' = rec
    BY <2>1, QuietMoves
  <2>2. CASE ~Terminal(rec[c])
    <3> DEFINE a == Announce(rec[c], "failed", NoSlug)
               new == [a EXCEPT !.error_code = runner[c].code]
    <3>1. RowMoves(rec[c], a) /\ a \in BuildRecord
      BY <1>1, <2>2, AnnounceMoves, AnnounceType DEF ReportedStatus
    <3>2. new.status = a.status /\ new.outbox = a.outbox
      BY <3>1 DEF BuildRecord
    <3>3. RowMoves(rec[c], new)
      BY <3>1, <3>2 DEF RowMoves
    <3>4. rec' = [rec EXCEPT ![c] = new]
      BY <1>4, <2>2 DEF Fail
    <3> QED
      BY <1>1, <3>3, <3>4, QuietMoves DEF TypeOK
  <2> QED
    BY <1>4, <2>1, <2>2 DEF Fail
<1>5. CASE AnnounceBuilding(c)
  BY <1>1, <1>5, PersistRows, AnnounceMoves DEF AnnounceBuilding, ReportedStatus
<1>6. CASE AnnounceDeploying(c)
  BY <1>1, <1>6, PersistRows, AnnounceMoves DEF AnnounceDeploying, ReportedStatus
<1>7. CASE Finish(c)
  <2>1. runner[c].slug \in Slugs \cup {NoSlug}
    BY <1>1 DEF TypeOK, Runner
  <2> QED
    BY <1>1, <1>7, <2>1, PersistRows, AnnounceMoves DEF Finish, ReportedStatus
<1>8. CASE \/ KeepArtifact(c) \/ KeepDeploy(c) \/ NoteTaken(c) \/ KeepSlug(c)
           \/ MarkAttempt(c) \/ RetireSlug(c) \/ RecordRegistration(c)
  <2>1. CASE KeepArtifact(c)
    <3>1. RowMoves(rec[c], [rec[c] EXCEPT !.artifact = TRUE])
      BY <1>1 DEF RowMoves, BuildRecord
    <3> QED
      BY <1>1, <2>1, <3>1, PersistRows DEF KeepArtifact
  <2>2. CASE KeepDeploy(c)
    <3>1. RowMoves(rec[c], [rec[c] EXCEPT !.deploy_result = TRUE])
      BY <1>1 DEF RowMoves, BuildRecord
    <3> QED
      BY <1>1, <2>2, <3>1, PersistRows DEF KeepDeploy
  <2>3. CASE NoteTaken(c)
    <3>1. RowMoves(rec[c],
                   [rec[c] EXCEPT !.slugs_tried = @ \cup {Candidate(c)}])
      BY <1>1 DEF RowMoves, BuildRecord
    <3> QED
      BY <1>1, <2>3, <3>1, PersistRows DEF NoteTaken
  <2>4. CASE KeepSlug(c)
    <3>1. RowMoves(rec[c], [rec[c] EXCEPT !.slug = runner[c].slug,
                                          !.register_attempted = FALSE])
      BY <1>1 DEF RowMoves, BuildRecord
    <3> QED
      BY <1>1, <2>4, <3>1, PersistRows DEF KeepSlug
  <2>5. CASE MarkAttempt(c)
    <3>1. RowMoves(rec[c], [rec[c] EXCEPT !.register_attempted = TRUE])
      BY <1>1 DEF RowMoves, BuildRecord
    <3> QED
      BY <1>1, <2>5, <3>1, PersistRows DEF MarkAttempt
  <2>6. CASE RetireSlug(c)
    <3>1. RowMoves(rec[c],
                   [rec[c] EXCEPT !.slugs_tried = @ \cup {runner[c].slug},
                                  !.slug = NoSlug])
      BY <1>1 DEF RowMoves, BuildRecord
    <3> QED
      BY <1>1, <2>6, <3>1, PersistRows DEF RetireSlug
  <2>7. CASE RecordRegistration(c)
    <3>1. RowMoves(rec[c], [rec[c] EXCEPT !.registered = TRUE,
                                          !.app_slug = runner[c].slug])
      BY <1>1 DEF RowMoves, BuildRecord
    <3> QED
      BY <1>1, <2>7, <3>1, PersistRows DEF RecordRegistration
  <2> QED
    BY <1>8, <2>1, <2>2, <2>3, <2>4, <2>5, <2>6, <2>7
<1>9. CASE rec' = rec
  BY <1>9, QuietMoves
<1> QED
  BY <1>2, <1>3, <1>4, <1>5, <1>6, <1>7, <1>8, <1>9
  DEF SessionStep, RunnerStep, CancelStep, RunnerStarts, ReadBack, Build,
      Deploy, EnterRegister, SkipTried, ProbeSlug, NoCandidateLeft, OnlyRunner,
      Enqueue, PostAnswered, PostLost, RunnerStoreFault, CancelKillsTask,
      CancelReturns, CancelStoreFault

(* A step of the runners keeps the loop's invariant.                       *)
LEMMA RunnersKeepDelivery ==
  ASSUME AppInv, RunnerInv', UNCHANGED deliveryVars,
         \A b \in Sessions : RowMoves(rec[b], rec'[b])
  PROVE  DeliveryInv'
<1>1. rec' \in [Sessions -> BuildRecord]
  BY DEF RunnerInv, TypeOK
<1> QED
  BY <1>1, WriterStepInv DEF AppInv

-----------------------------------------------------------------------------
(* A step of the loop keeps the runners' invariant.                        *)

LEMMA SettlesKeepsSession ==
  ASSUME NEW b \in Sessions, SessionInv(b), RowSettles(rec[b], rec'[b]),
         UNCHANGED <<runner, accepting, registry, wire>>
  PROVE  SessionInv(b)'
<1>1. CASE rec'[b] = rec[b]
  BY <1>1, OtherSession
<1>2. CASE PendingAt(rec[b]) # {} /\ SameRun(rec[b], rec'[b])
  <2>1. Exists(rec[b])
    BY <1>2 DEF SessionInv, AbsentInv, NoRow, PendingAt
  <2>2. AbsentInv(b)'
    BY <1>2, <2>1 DEF AbsentInv, Exists, SameRun
  <2>3. ResultsInv(b)'
    BY <1>2 DEF SessionInv, ResultsInv, SameRun
  <2>4. StoredInv(b)'
    BY <1>2 DEF SessionInv, StoredInv, Standing, SameRun
  <2>5. StatusInv(b)'
    BY <1>2 DEF SessionInv, StatusInv, Standing, Terminal, SameRun
  <2>6. SlugInv(b)'
    BY <1>2 DEF SessionInv, SlugInv, Standing, MoreCandidates, SameRun
  <2>7. TraceInv(b)'
    BY <1>2 DEF SessionInv, TraceInv, NamesSlug, SameRun
  <2> QED
    BY <2>2, <2>3, <2>4, <2>5, <2>6, <2>7 DEF SessionInv
<1> QED
  BY <1>1, <1>2 DEF RowSettles

LEMMA DeliveryKeepsRunners ==
  ASSUME AppInv, DeliveryStep, UNCHANGED runnerVars
  PROVE  AppInv'
<1>1. DeliveryInv'
  BY DeliveryStepInv DEF AppInv
<1>2. UNCHANGED <<runner, accepting, canceller, registry, wire, lost>>
  BY DEF runnerVars
<1>3. up' = up /\ crashes' = crashes /\ storeFaults' \in Nat
  <2>1. storeFaults \in Nat
    BY DEF AppInv, RunnerInv, TypeOK
  <2>2. CASE PassFails
    BY <2>1, <2>2 DEF PassFails, StoreRaises
  <2>3. CASE LoopStep
    BY <2>1, <2>3 DEF LoopStep, BeginPass, NextSession, ReadEntry,
                      PostCallback, ApplyOutcome, storeVars
  <2>4. CASE \E b \in Sessions : BackoffEnds(b)
    BY <2>1, <2>4 DEF BackoffEnds
  <2> QED
    BY <2>2, <2>3, <2>4 DEF DeliveryStep
<1>4. TypeOK'
  BY <1>1, <1>2, <1>3 DEF AppInv, RunnerInv, TypeOK, DeliveryInv, DeliveryTypes
<1>5. \A b \in Sessions : SessionInv(b)'
  BY <1>2, DeliveryStepRows, SettlesKeepsSession DEF AppInv, RunnerInv
<1> QED
  BY <1>1, <1>4, <1>5 DEF AppInv, RunnerInv

-----------------------------------------------------------------------------
(* The invariant of the whole.                                             *)

LEMMA AppInitInv == Init => AppInv
<1> SUFFICES ASSUME Init PROVE AppInv
  OBVIOUS
<1>1. RunnerInv
  BY RunnerInitInv DEF Init, RunnerInitAll
<1>2. /\ loop = Waiting /\ posted = [b \in Sessions |-> 0]
      /\ \A b \in Sessions : rec[b] = NoRow
  BY DEF Init, DeliveryInit, StoreInit
<1>3. DeliveryTypes
  BY <1>1, <1>2 DEF RunnerInv, TypeOK, DeliveryTypes, LoopType, Waiting
<1>4. HeldInv
  BY <1>2 DEF HeldInv, PostedInOrder, Waiting
<1>5. OutboxSound(NoRow, 0)
  BY DEF OutboxSound, NoRow, PendingAt, HasPending
<1> QED
  BY <1>1, <1>2, <1>3, <1>4, <1>5 DEF AppInv, DeliveryInv

LEMMA AppNextInv ==
  ASSUME AppInv, [Next]_vars
  PROVE  AppInv'
<1>1. CASE (\E b \in Sessions : SessionStep(b)) /\ UNCHANGED deliveryVars
  <2>1. RunnerInv'
    BY <1>1, SessionStepInv DEF AppInv
  <2>2. \A b \in Sessions : RowMoves(rec[b], rec'[b])
    BY <1>1, SessionStepRows DEF AppInv
  <2> QED
    BY <1>1, <2>1, <2>2, RunnersKeepDelivery DEF AppInv
<1>2. CASE RegistryStep /\ UNCHANGED deliveryVars
  <2>1. RunnerInv'
    BY <1>2, PostLandsInv, ForeignRegistersInv DEF AppInv, RegistryStep
  <2>2. \A b \in Sessions : RowMoves(rec[b], rec'[b])
    BY <1>2, QuietMoves DEF RegistryStep, PostLands, ForeignRegisters
  <2> QED
    BY <1>2, <2>1, <2>2, RunnersKeepDelivery DEF AppInv
<1>3. CASE DeliveryStep /\ UNCHANGED runnerVars
  BY <1>3, DeliveryKeepsRunners
<1>4. CASE Crash
  <2>1. RunnerInv'
    BY <1>4, ProcessStopsInv DEF AppInv, Crash
  <2>2. rec' = rec
    BY <1>4 DEF Crash, RunnersDie
  <2>3. DeliveryInv'
    BY <1>4, <2>2, LoopWaitsInv DEF AppInv, Crash, LoopDies
  <2> QED
    BY <2>1, <2>3 DEF AppInv
<1>5. CASE Restart
  <2>1. RunnerInv'
    BY <1>5, ProcessStartsInv DEF AppInv, Restart
  <2>2. \A b \in Sessions : RowMoves(rec[b], rec'[b])
    BY <1>5, QuietMoves DEF Restart, RunnersResume, ResumeFails
  <2> QED
    BY <1>5, <2>1, <2>2, RunnersKeepDelivery DEF AppInv, Restart
<1>6. CASE UNCHANGED vars
  <2>1. RunnerInv'
    BY <1>6, RunnerStutterInv DEF AppInv, vars
  <2>2. \A b \in Sessions : RowMoves(rec[b], rec'[b])
    BY <1>6, QuietMoves DEF vars, storeVars
  <2> QED
    BY <1>6, <2>1, <2>2, RunnersKeepDelivery DEF AppInv, vars
<1> QED
  BY <1>1, <1>2, <1>3, <1>4, <1>5, <1>6 DEF Next

(* The runners' and the loop's invariants hold together of every behaviour *)
(* of the process and its restarts.                                        *)
THEOREM AppInvariant == Spec => []AppInv
BY AppInitInv, AppNextInv, PTL DEF Spec

(* Every variable keeps its type.                                          *)
THEOREM AppTypes == Spec => []AppBuildsTypeOK
<1>1. AppInv => AppBuildsTypeOK
  BY DEF AppInv, RunnerInv, DeliveryInv, DeliveryTypes, AppBuildsTypeOK
<1> QED
  BY <1>1, AppInvariant, PTL

(* The delivery loop harms none of what the runners keep.                  *)
THEOREM RunnersUnharmed ==
  Spec => [](RegistryTraceable /\ AdvanceNeverRefused /\ FinishedStepsNotRedone)
<1>1. AppInv =>
        RegistryTraceable /\ AdvanceNeverRefused /\ FinishedStepsNotRedone
  BY RunnerInvSays DEF AppInv
<1> QED
  BY <1>1, AppInvariant, PTL

(* The callbacks of a session are posted in order: whatever is announced,  *)
(* cancelled or restarted meanwhile, none is posted while an earlier one   *)
(* is pending.                                                             *)
THEOREM CallbacksPostedInOrder == Spec => []PostedInOrder
<1>1. AppInv => PostedInOrder
  BY DeliveryInvSays DEF AppInv
<1> QED
  BY <1>1, AppInvariant, PTL

(* A cancelled session owes FuzeFront nothing, however late the runner,    *)
(* the loop or a restart come.                                             *)
THEOREM CancellationSettlesCallbacks == Spec => []CancelledOwesNothing
<1>1. AppInv => CancelledOwesNothing
  BY DeliveryInvSays DEF AppInv
<1> QED
  BY <1>1, AppInvariant, PTL

(* No callback is answered more often than callback_max_attempts.          *)
THEOREM AttemptsAreBounded == Spec => []AttemptsBounded
<1>1. AppInv => AttemptsBounded
  BY DeliveryInvSays DEF AppInv
<1> QED
  BY <1>1, AppInvariant, PTL

-----------------------------------------------------------------------------
(* What no step does.                                                      *)

(* A step either is one of the loop or moves rows as writers do and posts  *)
(* nothing.                                                                *)
LEMMA WritersOrLoop ==
  ASSUME AppInv, [Next]_vars
  PROVE  \/ DeliveryStep
         \/ /\ posted' = posted
            /\ \A b \in Sessions : RowMoves(rec[b], rec'[b])
<1>1. CASE (\E b \in Sessions : SessionStep(b)) /\ UNCHANGED deliveryVars
  BY <1>1, SessionStepRows DEF AppInv, deliveryVars
<1>2. CASE RegistryStep /\ UNCHANGED deliveryVars
  BY <1>2, QuietMoves DEF RegistryStep, PostLands, ForeignRegisters,
                          deliveryVars
<1>3. CASE Crash
  BY <1>3, QuietMoves DEF Crash, RunnersDie, LoopDies
<1>4. CASE Restart
  BY <1>4, QuietMoves DEF Restart, RunnersResume, ResumeFails, deliveryVars
<1>5. CASE UNCHANGED vars
  BY <1>5, QuietMoves DEF vars, storeVars, deliveryVars
<1> QED
  BY <1>1, <1>2, <1>3, <1>4, <1>5 DEF Next

(* Once delivered, rejected, superseded or given up, a callback is not     *)
(* touched again by a late answer, a cancellation or a resumed runner.     *)
THEOREM SettledCallbacksStay == Spec => SettledStays
<1>1. AppInv /\ [Next]_vars =>
        [\A b \in Sessions : \A i \in DOMAIN rec[b].outbox \ PendingAt(rec[b]) :
           rec'[b].outbox[i] = rec[b].outbox[i]]_rec
  <2> SUFFICES ASSUME AppInv, [Next]_vars, NEW b \in Sessions,
                      NEW i \in DOMAIN rec[b].outbox \ PendingAt(rec[b])
               PROVE  rec'[b].outbox[i] = rec[b].outbox[i]
    OBVIOUS
  <2>1. /\ rec[b] \in BuildRecord /\ rec'[b] \in BuildRecord
        /\ OutboxSound(rec[b], posted[b]) /\ posted[b] \in Nat
    BY AppNextInv
    DEF AppInv, DeliveryInv, DeliveryTypes, LoopType
  <2>2. CASE DeliveryStep
    BY <2>2, DeliveryStepRows DEF AppInv, RowSettles
  <2>3. CASE RowMoves(rec[b], rec'[b])
    BY <2>1, <2>3, RowMovesKeeps
  <2> QED
    BY <2>2, <2>3, WritersOrLoop
<1> QED
  BY <1>1, AppInvariant, PTL DEF Spec, SettledStays

(* The end of a session is final in the whole: the loop settles callbacks  *)
(* of an ended session and changes nothing else of its row.                *)
THEOREM EndsStayFinal == Spec => TerminalIsFinal
<1>1. AppInv /\ [Next]_vars =>
        [\A b \in Sessions : Terminal(rec[b]) =>
           /\ rec'[b].status = rec[b].status
           /\ rec'[b].app_slug = rec[b].app_slug
           /\ rec'[b].error_code = rec[b].error_code
           /\ Len(rec'[b].outbox) = Len(rec[b].outbox)]_rec
  <2> SUFFICES ASSUME AppInv, [Next]_vars, NEW b \in Sessions, Terminal(rec[b])
               PROVE  /\ rec'[b].status = rec[b].status
                      /\ rec'[b].app_slug = rec[b].app_slug
                      /\ rec'[b].error_code = rec[b].error_code
                      /\ Len(rec'[b].outbox) = Len(rec[b].outbox)
    OBVIOUS
  <2>1. CASE DeliveryStep
    BY <2>1, DeliveryStepRows DEF AppInv, RowSettles, SameRun
  <2>2. CASE [RunnerNext]_<<storeVars, runnerVars>>
    BY <2>2, NextKeepsEnded DEF AppInv, RunnerInv
  <2> QED
    BY <2>1, <2>2 DEF Next, RunnerNext, Crash, Restart, vars
<1> QED
  BY <1>1, AppInvariant, PTL DEF Spec, TerminalIsFinal

(* FuzeFront is never told an earlier state of a session after a later     *)
(* one, not even by a loop that a restart began anew.                      *)
THEOREM ReportsAreMonotonic == Spec => ReportsNeverGoBack
<1>1. AppInv /\ [Next]_vars =>
        [\A b \in Sessions : posted'[b] >= posted[b]]_posted
  <2> SUFFICES ASSUME AppInv, [Next]_vars, NEW b \in Sessions
               PROVE  posted'[b] >= posted[b]
    OBVIOUS
  <2>1. posted[b] \in Nat
    BY DEF AppInv, DeliveryInv, DeliveryTypes, LoopType
  <2> QED
    BY <2>1, WritersOrLoop, DeliveryStepReports DEF AppInv
<1> QED
  BY <1>1, AppInvariant, PTL DEF Spec, ReportsNeverGoBack

-----------------------------------------------------------------------------
(* The contract: what the refinement mapping makes of a step.              *)

StatusOf == [b \in Sessions |-> rec[b].status]

Statuses(outbox) == [i \in DOMAIN outbox |-> outbox[i].status]

AnnouncedOf == [b \in Sessions |-> Statuses(rec[b].outbox)]

LEMMA StatusesOfAppend ==
  ASSUME NEW o \in Seq(Entry), NEW s \in ReportedStatus,
         NEW app \in Slugs \cup {NoSlug}
  PROVE  Statuses(Append(o, NewEntry(s, app))) = Append(Statuses(o), s)
<1> DEFINE e == NewEntry(s, app)
           p == Append(o, e)
           n == Len(o) + 1
<1>1. /\ Len(o) \in Nat /\ DOMAIN o = 1..Len(o)
      /\ \A i \in DOMAIN o : o[i] \in Entry
  BY LenProperties, ElementOfSeq
<1>2. e \in Entry /\ e.status = s
  BY DEF NewEntry, Entry, EntryState, ReportedStatus
<1>3. /\ p \in Seq(Entry) /\ Len(p) = n /\ p[n] = e
      /\ \A i \in 1..Len(o) : p[i] = o[i]
  BY <1>1, <1>2, AppendProperties
<1>4. DOMAIN p = 1..n
  BY <1>3, LenProperties
<1>5. /\ Statuses(o) \in [DOMAIN o -> ReportedStatus]
      /\ \A i \in DOMAIN o : Statuses(o)[i] = o[i].status
  BY <1>1 DEF Statuses, Entry
<1>6. Statuses(o) \in Seq(ReportedStatus) /\ Len(Statuses(o)) = Len(o)
  BY <1>5, SeqByDomain
<1> DEFINE q == Append(Statuses(o), s)
<1>7. /\ q \in Seq(ReportedStatus) /\ Len(q) = n /\ q[n] = s
      /\ \A i \in 1..Len(o) : q[i] = Statuses(o)[i]
  BY <1>1, <1>6, AppendProperties
<1>8. DOMAIN q = 1..n /\ q \in [1..n -> ReportedStatus]
  BY <1>7, LenProperties, ElementOfSeq
<1>9. \A i \in 1..n : q[i] = p[i].status
  <2> SUFFICES ASSUME NEW i \in 1..n PROVE q[i] = p[i].status
    OBVIOUS
  <2>1. CASE i = n
    BY <1>2, <1>3, <1>7, <2>1
  <2>2. CASE i \in 1..Len(o)
    BY <1>1, <1>3, <1>5, <1>7, <2>2
  <2>3. i = n \/ i \in 1..Len(o)
    <3>1. Len(o) \in Nat
      BY <1>1
    <3> QED
      BY <3>1
  <2> QED
    BY <2>1, <2>2, <2>3
<1> HIDE DEF p, q
<1>10. Statuses(p) = [i \in 1..n |-> p[i].status]
  BY <1>4 DEF Statuses
<1>11. q = [i \in 1..n |-> q[i]]
  BY <1>8
<1>12. Statuses(p) = q
  BY <1>9, <1>10, <1>11
<1> QED
  BY <1>12 DEF p, q

(* A step that keeps every status and every announcement, and posts        *)
(* nothing, is no step of the contract.                                    *)
LEMMA ContractStutters ==
  ASSUME posted' = posted,
         \A b \in Sessions : /\ rec'[b].status = rec[b].status
                             /\ Statuses(rec'[b].outbox) = Statuses(rec[b].outbox)
  PROVE  UNCHANGED Contract!contractVars
<1>1. StatusOf' = StatusOf /\ AnnouncedOf' = AnnouncedOf
  BY DEF StatusOf, AnnouncedOf
<1> QED
  BY <1>1 DEF Contract!contractVars, StatusOf, AnnouncedOf, Statuses

(* Moving on with a callback is a move of the contract.                    *)
LEMMA ContractMoves ==
  ASSUME TypeOK, NEW b \in Sessions, NEW s \in ReportedStatus,
         NEW app \in Slugs \cup {NoSlug}, NEW new,
         new.status = s,
         new.outbox = Append(rec[b].outbox, NewEntry(s, app)),
         rec' = [rec EXCEPT ![b] = new], posted' = posted,
         <<rec[b].status, s>> \in Contract!Walk
  PROVE  Contract!Next
<1>1. rec[b].outbox \in Seq(Entry)
  BY DEF TypeOK, BuildRecord
<1>2. Statuses(new.outbox) = Append(Statuses(rec[b].outbox), s)
  BY <1>1, StatusesOfAppend
<1>3. StatusOf' = [StatusOf EXCEPT ![b] = s]
  BY DEF StatusOf, TypeOK
<1>4. AnnouncedOf' = [AnnouncedOf EXCEPT ![b] = Append(@, s)]
  BY <1>2 DEF AnnouncedOf, TypeOK
<1>5. <<StatusOf[b], s>> \in Contract!Walk
  BY DEF StatusOf
<1>6. Contract!Move(b, s)
  BY <1>3, <1>4, <1>5 DEF Contract!Move, StatusOf, AnnouncedOf, Statuses
<1> QED
  BY <1>6 DEF Contract!Next, ReportedStatus

LEMMA PersistAnnounces ==
  ASSUME TypeOK, NEW b \in Sessions, NEW s \in ReportedStatus,
         NEW app \in Slugs \cup {NoSlug}, NEW local,
         Persist(b, Announce(rec[b], s, app), local), posted' = posted,
         ~Terminal(rec[b]) => <<rec[b].status, s>> \in Contract!Walk
  PROVE  Contract!Next \/ UNCHANGED Contract!contractVars
<1> DEFINE new == Announce(rec[b], s, app)
<1>1. CASE rec' = rec
  BY <1>1, ContractStutters
<1>2. CASE ~Terminal(rec[b]) /\ rec' = [rec EXCEPT ![b] = new]
  <2>1. /\ new.status = s
        /\ new.outbox = Append(rec[b].outbox, NewEntry(s, app))
    BY DEF Announce, TypeOK, BuildRecord
  <2> HIDE DEF new
  <2> QED
    BY <1>2, <2>1, ContractMoves
<1> QED
  BY <1>1, <1>2 DEF Persist

LEMMA PersistQuietly ==
  ASSUME TypeOK, NEW b \in Sessions, NEW new, NEW local,
         Persist(b, new, local), posted' = posted,
         new.status = rec[b].status, new.outbox = rec[b].outbox
  PROVE  UNCHANGED Contract!contractVars
<1>1. CASE rec' = rec
  BY <1>1, ContractStutters
<1>2. CASE rec' = [rec EXCEPT ![b] = new]
  <2>1. \A c \in Sessions : /\ rec'[c].status = rec[c].status
                            /\ rec'[c].outbox = rec[c].outbox
    BY <1>2 DEF TypeOK
  <2> QED
    BY <2>1, ContractStutters
<1> QED
  BY <1>1, <1>2 DEF Persist

(* The steps of runners and cancellers, as the contract sees them.         *)
LEMMA SessionStepContract ==
  ASSUME RunnerInv, NEW b \in Sessions, SessionStep(b), posted' = posted
  PROVE  Contract!Next \/ UNCHANGED Contract!contractVars
<1>1. TypeOK /\ rec[b] \in BuildRecord /\ SessionInv(b)
  BY DEF RunnerInv, TypeOK
<1>2. CASE Accept(b)
  <2>1. rec[b] = NoRow /\ rec' = [rec EXCEPT ![b] = NewRecord]
    BY <1>1, <1>2 DEF Accept, SessionInv, AbsentInv
  <2>2. NewRecord.status = "accepted" /\ NewRecord.outbox = NoRow.outbox
    BY DEF NewRecord, NoRow
  <2>3. StatusOf' = [StatusOf EXCEPT ![b] = "accepted"]
    BY <1>1, <2>1, <2>2 DEF StatusOf, TypeOK
  <2>4. \A c \in Sessions : rec'[c].outbox = rec[c].outbox
    BY <1>1, <2>1, <2>2 DEF TypeOK
  <2>5. AnnouncedOf' = AnnouncedOf /\ StatusOf[b] = "absent"
    BY <2>1, <2>4 DEF AnnouncedOf, StatusOf, NoRow
  <2>6. Contract!Open(b)
    BY <2>3, <2>5 DEF Contract!Open, StatusOf, AnnouncedOf, Statuses
  <2> QED
    BY <2>6 DEF Contract!Next
<1>3. CASE CancelCommits(b)
  <2> DEFINE new == Cancelled(rec[b])
  <2>1. rec' = [rec EXCEPT ![b] = new] /\ Active(rec[b])
    BY <1>3 DEF CancelCommits
  <2>2. new.status = "cancelled" /\ new.outbox = Supersede(rec[b].outbox)
    BY <1>1 DEF Cancelled, BuildRecord
  <2>3. Statuses(new.outbox) = Statuses(rec[b].outbox)
    <3>1. rec[b].outbox \in Seq(Entry)
      BY <1>1 DEF BuildRecord
    <3> QED
      BY <2>2, <3>1, SupersedeKeeps DEF Statuses
  <2> HIDE DEF new
  <2>4. StatusOf' = [StatusOf EXCEPT ![b] = "cancelled"]
    BY <1>1, <2>1, <2>2 DEF StatusOf, TypeOK
  <2>5. AnnouncedOf' = AnnouncedOf
    BY <1>1, <2>1, <2>3 DEF AnnouncedOf, TypeOK
  <2>6. StatusOf[b] \in {"accepted", "building", "deploying"}
    BY <1>1, <2>1 DEF StatusOf, Active, Exists, Terminal, TerminalStatus,
                      BuildRecord, Status
  <2>7. Contract!Cancel(b)
    BY <2>4, <2>5, <2>6 DEF Contract!Cancel, StatusOf, AnnouncedOf, Statuses
  <2> QED
    BY <2>7 DEF Contract!Next
<1>4. CASE Fail(b)
  <2>1. CASE rec' = rec
    BY <2>1, ContractStutters
  <2>2. CASE ~Terminal(rec[b])
    <3> DEFINE a == Announce(rec[b], "failed", NoSlug)
               new == [a EXCEPT !.error_code = runner[b].code]
    <3>1. rec' = [rec EXCEPT ![b] = new]
      BY <1>4, <2>2 DEF Fail
    <3>2. a \in BuildRecord
      BY <1>1, AnnounceType DEF ReportedStatus
    <3>3. /\ new.status = a.status /\ new.outbox = a.outbox
          /\ a.status = "failed"
          /\ a.outbox = Append(rec[b].outbox, NewEntry("failed", NoSlug))
      BY <1>1, <3>2 DEF BuildRecord, Announce
    <3>4. Exists(rec[b])
      BY <1>1, <1>4, TaskHasRow DEF Fail, At
    <3>5. <<rec[b].status, "failed">> \in Contract!Walk
      BY <1>1, <2>2, <3>4 DEF Contract!Walk, Exists, Terminal, TerminalStatus,
                              BuildRecord, Status
    <3> HIDE DEF new
    <3> QED
      BY <1>1, <3>1, <3>3, <3>5, ContractMoves DEF ReportedStatus
  <2> QED
    BY <1>4, <2>1, <2>2 DEF Fail
<1>5. CASE AnnounceBuilding(b)
  <2>1. ~Terminal(rec[b]) => <<rec[b].status, "building">> \in Contract!Walk
    BY <1>1, <1>5 DEF AnnounceBuilding, At, SessionInv, StatusInv, Standing,
                      Contract!Walk
  <2> QED
    BY <1>1, <1>5, <2>1, PersistAnnounces DEF AnnounceBuilding, ReportedStatus
<1>6. CASE AnnounceDeploying(b)
  <2>1. ~Terminal(rec[b]) => <<rec[b].status, "deploying">> \in Contract!Walk
    BY <1>1, <1>6 DEF AnnounceDeploying, At, SessionInv, StatusInv, Standing,
                      Contract!Walk
  <2> QED
    BY <1>1, <1>6, <2>1, PersistAnnounces DEF AnnounceDeploying, ReportedStatus
<1>7. CASE Finish(b)
  <2>1. ~Terminal(rec[b]) => <<rec[b].status, "deployed">> \in Contract!Walk
    BY <1>1, <1>7 DEF Finish, At, SessionInv, StatusInv, Standing,
                      Contract!Walk
  <2>2. runner[b].slug \in Slugs \cup {NoSlug}
    BY <1>1 DEF TypeOK, Runner
  <2> QED
    BY <1>1, <1>7, <2>1, <2>2, PersistAnnounces DEF Finish, ReportedStatus
<1>8. CASE KeepArtifact(b)
  <2>1. LET new == [rec[b] EXCEPT !.artifact = TRUE] IN
        new.status = rec[b].status /\ new.outbox = rec[b].outbox
    BY <1>1 DEF BuildRecord
  <2> QED
    BY <1>1, <1>8, <2>1, PersistQuietly DEF KeepArtifact
<1>9. CASE KeepDeploy(b)
  <2>1. LET new == [rec[b] EXCEPT !.deploy_result = TRUE] IN
        new.status = rec[b].status /\ new.outbox = rec[b].outbox
    BY <1>1 DEF BuildRecord
  <2> QED
    BY <1>1, <1>9, <2>1, PersistQuietly DEF KeepDeploy
<1>10. CASE NoteTaken(b)
  <2>1. LET new == [rec[b] EXCEPT !.slugs_tried = @ \cup {Candidate(b)}] IN
        new.status = rec[b].status /\ new.outbox = rec[b].outbox
    BY <1>1 DEF BuildRecord
  <2> QED
    BY <1>1, <1>10, <2>1, PersistQuietly DEF NoteTaken
<1>11. CASE KeepSlug(b)
  <2>1. LET new == [rec[b] EXCEPT !.slug = runner[b].slug,
                                  !.register_attempted = FALSE] IN
        new.status = rec[b].status /\ new.outbox = rec[b].outbox
    BY <1>1 DEF BuildRecord
  <2> QED
    BY <1>1, <1>11, <2>1, PersistQuietly DEF KeepSlug
<1>12. CASE MarkAttempt(b)
  <2>1. LET new == [rec[b] EXCEPT !.register_attempted = TRUE] IN
        new.status = rec[b].status /\ new.outbox = rec[b].outbox
    BY <1>1 DEF BuildRecord
  <2> QED
    BY <1>1, <1>12, <2>1, PersistQuietly DEF MarkAttempt
<1>13. CASE RetireSlug(b)
  <2>1. LET new == [rec[b] EXCEPT !.slugs_tried = @ \cup {runner[b].slug},
                                  !.slug = NoSlug] IN
        new.status = rec[b].status /\ new.outbox = rec[b].outbox
    BY <1>1 DEF BuildRecord
  <2> QED
    BY <1>1, <1>13, <2>1, PersistQuietly DEF RetireSlug
<1>14. CASE RecordRegistration(b)
  <2>1. LET new == [rec[b] EXCEPT !.registered = TRUE,
                                  !.app_slug = runner[b].slug] IN
        new.status = rec[b].status /\ new.outbox = rec[b].outbox
    BY <1>1 DEF BuildRecord
  <2> QED
    BY <1>1, <1>14, <2>1, PersistQuietly DEF RecordRegistration
<1>15. CASE rec' = rec
  BY <1>15, ContractStutters
<1> QED
  BY <1>2, <1>3, <1>4, <1>5, <1>6, <1>7, <1>8, <1>9, <1>10, <1>11, <1>12,
     <1>13, <1>14, <1>15
  DEF SessionStep, RunnerStep, CancelStep, RunnerStarts, ReadBack, Build,
      Deploy, EnterRegister, SkipTried, ProbeSlug, NoCandidateLeft, OnlyRunner,
      Enqueue, PostAnswered, PostLost, RunnerStoreFault, CancelKillsTask,
      CancelReturns, CancelStoreFault

(* The steps of the loop, as the contract sees them.                       *)
LEMMA DeliveryStepContract ==
  ASSUME AppInv, DeliveryStep
  PROVE  Contract!Next \/ UNCHANGED Contract!contractVars
<1>1. ASSUME NEW b \in Sessions
      PROVE  /\ rec'[b].status = rec[b].status
             /\ Statuses(rec'[b].outbox) = Statuses(rec[b].outbox)
  <2>1. RowSettles(rec[b], rec'[b])
    BY DeliveryStepRows DEF AppInv
  <2> QED
    BY <2>1 DEF RowSettles, SameRun, Statuses
<1>2. CASE posted' = posted
  BY <1>1, <1>2, ContractStutters
<1>3. CASE PostCallback
  <2> DEFINE b == loop.session
  <2>1. /\ b \in Sessions /\ loop.seq \in DOMAIN rec[b].outbox
        /\ posted[b] <= loop.seq
    BY <1>3 DEF PostCallback, LoopAt, AppInv, DeliveryInv, HeldInv
  <2>2. posted' = [posted EXCEPT ![b] = loop.seq] /\ rec' = rec
    BY <1>3 DEF PostCallback, storeVars
  <2>3. loop.seq \in DOMAIN AnnouncedOf[b]
    BY <2>1 DEF AnnouncedOf, Statuses
  <2>4. Contract!Report(b, loop.seq)
    BY <2>1, <2>2 DEF Contract!Report
  <2>5. \E i \in DOMAIN AnnouncedOf[b] : Contract!Report(b, i)
    BY <2>3, <2>4
  <2> QED
    BY <2>1, <2>5 DEF Contract!Next, AnnouncedOf, Statuses
<1> QED
  BY <1>2, <1>3
  DEF DeliveryStep, LoopStep, BeginPass, NextSession, ReadEntry,
      ApplyOutcome, PassFails, BackoffEnds, deliveryVars

LEMMA NextContract ==
  ASSUME AppInv, [Next]_vars
  PROVE  Contract!Next \/ UNCHANGED Contract!contractVars
<1>1. CASE (\E b \in Sessions : SessionStep(b)) /\ UNCHANGED deliveryVars
  BY <1>1, SessionStepContract DEF AppInv, deliveryVars
<1>2. CASE DeliveryStep
  BY <1>2, DeliveryStepContract
<1>3. CASE rec' = rec /\ posted' = posted
  BY <1>3, ContractStutters
<1> QED
  BY <1>1, <1>2, <1>3
  DEF Next, RegistryStep, PostLands, ForeignRegisters, Crash, RunnersDie,
      LoopDies, Restart, RunnersResume, ResumeFails, deliveryVars, vars,
      storeVars

(* BuildRuntime keeps its contract with FuzeFront: a session walks its     *)
(* states one by one, announces each, and reports only what it announced,  *)
(* in order, whatever restarts, faults, cancellations and answers come.    *)
THEOREM BuildsImplementContract == Spec => ImplementsContract
<1>1. Init => Contract!Init
  <2> SUFFICES ASSUME Init PROVE Contract!Init
    OBVIOUS
  <2>1. /\ rec = [b \in Sessions |-> NoRow]
        /\ posted = [b \in Sessions |-> 0]
    BY DEF Init, StoreInit, DeliveryInit
  <2>2. StatusOf = [b \in Sessions |-> "absent"]
    BY <2>1 DEF StatusOf, NoRow
  <2>3. Statuses(NoRow.outbox) = << >>
    BY DEF Statuses, NoRow
  <2>4. AnnouncedOf = [b \in Sessions |-> << >>]
    BY <2>1, <2>3 DEF AnnouncedOf
  <2> QED
    BY <2>1, <2>2, <2>4 DEF Contract!Init, StatusOf, AnnouncedOf, Statuses
<1>2. AppInv /\ [Next]_vars => [Contract!Next]_(Contract!contractVars)
  BY NextContract
<1> QED
  BY <1>1, <1>2, AppInvariant, PTL DEF Spec, ImplementsContract, Contract!Spec
=============================================================================
