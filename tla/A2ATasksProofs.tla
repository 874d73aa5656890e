--------------------------- MODULE A2ATasksProofs ---------------------------
(***************************************************************************)
(* The fields of a task's snapshot agree, and CANCELED is archived,        *)
(* whatever the number of tasks, threads, tools, faults and replies.       *)
(***************************************************************************)
EXTENDS A2ATasks, TLAPS

-----------------------------------------------------------------------------
(* The inductive invariant.                                                *)

(* What the loop is cancelling is a stored task, and archived once the     *)
(* provider has been asked, unless it refuses.                             *)
ArchiveInv ==
  /\ job[Loop].step \in {"archive", "cancelled"} => Known(job[Loop].task)
  /\ "refused" \notin Faults =>
       /\ job[Loop].step = "cancelled" => session[job[Loop].task].mode = "archived"
       /\ CanceledIsArchived

A2AInv == A2ATypes /\ SnapshotAgrees /\ ArchiveInv

-----------------------------------------------------------------------------
(* What the operators that steps are made of do.                           *)

LEMMA SomeTask == (CHOOSE t \in Tasks : TRUE) \in Tasks
  BY A2AAssumption

LEMMA WorkType ==
  ASSUME NEW step \in Steps, NEW kind \in {"unary", "stream", "background"},
         NEW t \in Tasks, NEW answer \in Answer
  PROVE  /\ Work(step, kind, t, answer) \in Job
         /\ Work(step, kind, t, answer).step = step /\ Work(step, kind, t, answer).task = t
  BY DEF Work, Job, NoResult

LEMMA NoAnswerType == NoAnswer \in Answer
  BY DEF NoAnswer, Answer, Words

(* One worker goes to a step of the same task and the others are left.     *)
LEMMA OneWorker ==
  ASSUME job \in [Workers -> Job], NEW w \in Workers, NEW work \in Job,
         job' = [job EXCEPT ![w] = work]
  PROVE  /\ job' \in [Workers -> Job]
         /\ job'[w] = work /\ \A v \in Workers \ {w} : job'[v] = job[v]
  OBVIOUS

LEMMA Rests ==
  ASSUME job \in [Workers -> Job], NEW w \in Workers, Rest(w)
  PROVE  /\ job' \in [Workers -> Job] /\ job'[w].step = "off"
         /\ \A v \in Workers \ {w} : job'[v] = job[v]
<1>1. job[w].task \in Tasks
  BY DEF Job
<1>2. /\ Work("off", "unary", job[w].task, NoAnswer) \in Job
      /\ Work("off", "unary", job[w].task, NoAnswer).step = "off"
  BY <1>1, WorkType, NoAnswerType DEF Steps
<1>3. QED BY <1>2, OneWorker DEF Rest

LEMMA Goes ==
  ASSUME job \in [Workers -> Job], NEW w \in Workers, NEW step \in Steps, Goto(w, step)
  PROVE  /\ job' \in [Workers -> Job] /\ job'[w].step = step /\ job'[w].task = job[w].task
         /\ \A v \in Workers \ {w} : job'[v] = job[v]
<1>1. [job[w] EXCEPT !.step = step] \in Job
  BY DEF Job
<1>2. job' = [job EXCEPT ![w] = [job[w] EXCEPT !.step = step]]
  BY DEF Goto
<1>3. job'[w] = [job[w] EXCEPT !.step = step]
  BY <1>1, <1>2, OneWorker
<1>4. job'[w].step = step /\ job'[w].task = job[w].task
  BY <1>3 DEF Job
<1>5. QED BY <1>1, <1>2, <1>4, OneWorker

(* A result reaches workers that go on where they were.                    *)
LEMMA Delivers ==
  ASSUME job \in [Workers -> Job], NEW t \in Tasks, NEW result \in Results, Deliver(t, result)
  PROVE  /\ job' \in [Workers -> Job]
         /\ \A w \in Workers : job'[w].step = job[w].step /\ job'[w].task = job[w].task
<1>1. \A w \in Workers : [job[w] EXCEPT !.result = result] \in Job
  BY DEF Job
<1>2. QED BY <1>1 DEF Deliver, Job

LEMMA LoopWorks == Loop \in Workers /\ Threads \subseteq Workers
  BY DEF Workers

(* An update with a tool use exactly when the state is an interrupted one. *)
LEMMA Updates ==
  ASSUME store \in [Tasks -> Record], NEW t \in Tasks, NEW state \in States,
         NEW tool \in Tools \cup {NoTool}, Update(t, state, tool),
         SnapshotAgrees, tool # NoTool <=> state \in Interrupted
  PROVE  /\ store' \in [Tasks -> Record] /\ SnapshotAgrees'
         /\ store'[t].state = state /\ \A u \in Tasks \ {t} : store'[u] = store[u]
<1> DEFINE new == [state |-> state, terminal |-> state \in Terminal, pending |-> tool]
<1>1. new \in Record
  BY DEF Record
<1>2. store' = [store EXCEPT ![t] = new]
  BY DEF Update
<1>3. new.state = state /\ new.pending = tool /\ new.terminal = (state \in Terminal)
  OBVIOUS
<1> HIDE DEF new
<1>4. /\ store' \in [Tasks -> Record]
      /\ store'[t] = new /\ \A u \in Tasks \ {t} : store'[u] = store[u]
  BY <1>1, <1>2
<1>5. SnapshotAgrees'
  <2> SUFFICES ASSUME NEW u \in Tasks
               PROVE  /\ store'[u].terminal <=> store'[u].state \in Terminal
                      /\ store'[u].pending # NoTool <=> store'[u].state \in Interrupted
    BY DEF SnapshotAgrees
  <2>1. CASE u = t
    BY <2>1, <1>3, <1>4
  <2>2. CASE u # t
    BY <2>2, <1>4 DEF SnapshotAgrees
  <2>3. QED BY <2>1, <2>2
<1>6. QED BY <1>3, <1>4, <1>5

(* The archive is safe from a step that stores neither CANCELED nor nothing *)
(* at all, leaves archived sessions so, and leaves the loop's cancellation. *)
LEMMA ArchiveKept ==
  ASSUME A2AInv, A2ATypes',
         \A t \in Tasks : store'[t].state = store[t].state \/ store'[t].state \notin {"unknown", "CANCELED"},
         \A t \in Tasks : Known(t) /\ session[t].mode = "archived" => session'[t].mode = "archived",
         \/ job'[Loop].step = job[Loop].step /\ job'[Loop].task = job[Loop].task
         \/ job'[Loop].step \notin {"archive", "cancelled"}
  PROVE  ArchiveInv'
<1>1. job[Loop].task \in Tasks
  BY LoopWorks DEF A2AInv, A2ATypes, Job
<1>2. \A t \in Tasks : Known(t) => Known(t)'
  BY DEF Known
<1>3. \A t \in Tasks : store'[t].state = "CANCELED" => store[t].state = "CANCELED" /\ Known(t)
  BY DEF Known
<1>4. "refused" \notin Faults => CanceledIsArchived'
  BY <1>3 DEF A2AInv, ArchiveInv, CanceledIsArchived
<1>5. job'[Loop].step \in {"archive", "cancelled"} =>
        job'[Loop].step = job[Loop].step /\ job'[Loop].task = job[Loop].task
  OBVIOUS
<1>6. QED BY <1>1, <1>2, <1>4, <1>5 DEF A2AInv, ArchiveInv

(* A step that stores nothing has only its sessions and workers to show.   *)
LEMMA NothingStored ==
  ASSUME A2AInv, UNCHANGED store, A2ATypes',
         \A t \in Tasks : Known(t) /\ session[t].mode = "archived" => session'[t].mode = "archived",
         \/ job'[Loop].step = job[Loop].step /\ job'[Loop].task = job[Loop].task
         \/ job'[Loop].step \notin {"archive", "cancelled"}
  PROVE  A2AInv'
<1>1. SnapshotAgrees'
  BY DEF A2AInv, SnapshotAgrees
<1>2. ArchiveInv'
  BY ArchiveKept
<1>3. QED BY <1>1, <1>2 DEF A2AInv

LEMMA FaultCounts ==
  ASSUME A2ATypes, NEW kind, Fault(kind) PROVE faults' \in 0..MaxFaults /\ kind \in Faults
  BY A2AAssumption DEF Fault, A2ATypes

-----------------------------------------------------------------------------
(* One step per action.                                                    *)

LEMMA InitA2A == Init => A2AInv
<1> SUFFICES ASSUME Init PROVE A2AInv
  OBVIOUS
<1> DEFINE work == Work("off", "unary", CHOOSE t \in Tasks : TRUE, NoAnswer)
<1>1. work \in Job /\ work.step = "off"
  BY SomeTask, WorkType, NoAnswerType DEF Steps
<1>2. job = [w \in Workers |-> work]
  BY DEF Init
<1> HIDE DEF work
<1>3. NoRecord \in Record /\ NoRecord.state = "unknown" /\ NoRecord.terminal = FALSE
        /\ NoRecord.pending = NoTool
  BY DEF NoRecord, Record, States
<1>4. store = [t \in Tasks |-> NoRecord]
  BY DEF Init
<1>5. A2ATypes
  <2>1. session \in [Tasks -> Session]
    BY DEF Init, Session
  <2>2. replies.sent = 0 /\ replies.mail = {}
    BY DEF Init
  <2>3. 0 \in 0..MaxReplies /\ 0 \in 0..MaxFaults /\ 0 \in 0..MaxAsks
    BY A2AAssumption
  <2>4. faults = 0 /\ asks = 0 /\ alive = {} /\ decided = {}
    BY DEF Init
  <2>5. job \in [Workers -> Job] /\ store \in [Tasks -> Record]
    BY <1>1, <1>2, <1>3, <1>4
  <2>6. QED BY <2>1, <2>2, <2>3, <2>4, <2>5 DEF A2ATypes
<1>6. SnapshotAgrees
  BY <1>3, <1>4 DEF SnapshotAgrees, Terminal, Interrupted
<1>7. ArchiveInv
  BY <1>1, <1>2, <1>3, <1>4, LoopWorks DEF ArchiveInv, CanceledIsArchived
<1>8. QED BY <1>5, <1>6, <1>7 DEF A2AInv

LEMMA TurnEndsA2A ==
  ASSUME A2AInv, NEW t \in Tasks, TurnEnds(t) PROVE A2AInv'
<1>1. session[t].mode = "busy" /\ UNCHANGED <<store, replies, alive, decided, faults>>
  BY DEF TurnEnds
<1>2. job \in [Workers -> Job] /\ session \in [Tasks -> Session]
  BY DEF A2AInv, A2ATypes
<1>3. PICK result \in Results, new \in Session :
        /\ Deliver(t, result) /\ asks' \in 0..MaxAsks
        /\ session' = [session EXCEPT ![t] = new]
  <2>1. CASE \E k \in Tools :
               /\ asks < MaxAsks /\ asks' = asks + 1
               /\ session' = [session EXCEPT ![t] = [mode |-> "paused", tool |-> k]]
               /\ Deliver(t, [status |-> "blocked", tool |-> k])
    <3>1. PICK k \in Tools :
               /\ asks < MaxAsks /\ asks' = asks + 1
               /\ session' = [session EXCEPT ![t] = [mode |-> "paused", tool |-> k]]
               /\ Deliver(t, [status |-> "blocked", tool |-> k])
      BY <2>1
    <3>2. [status |-> "blocked", tool |-> k] \in Results
      BY DEF Results
    <3>3. asks' \in 0..MaxAsks
      BY <3>1, A2AAssumption DEF A2AInv, A2ATypes
    <3>4. [mode |-> "paused", tool |-> k] \in Session
      BY DEF Session
    <3>5. QED BY <3>1, <3>2, <3>3, <3>4
  <2>2. CASE \E status \in {"idle", "error"} :
               /\ session' = [session EXCEPT ![t].mode = "quiet"]
               /\ Deliver(t, [status |-> status, tool |-> NoTool])
               /\ UNCHANGED asks
    <3>1. PICK status \in {"idle", "error"} :
               /\ session' = [session EXCEPT ![t].mode = "quiet"]
               /\ Deliver(t, [status |-> status, tool |-> NoTool])
               /\ UNCHANGED asks
      BY <2>2
    <3>2. [status |-> status, tool |-> NoTool] \in Results
      BY DEF Results
    <3>3. /\ session' = [session EXCEPT ![t] = [session[t] EXCEPT !.mode = "quiet"]]
          /\ [session[t] EXCEPT !.mode = "quiet"] \in Session
      BY <1>2, <3>1 DEF Session
    <3>4. asks' \in 0..MaxAsks
      BY <3>1 DEF A2AInv, A2ATypes
    <3>5. QED BY <3>1, <3>2, <3>3, <3>4
  <2>3. QED BY <2>1, <2>2 DEF TurnEnds
<1>4. session' \in [Tasks -> Session] /\ \A u \in Tasks \ {t} : session'[u] = session[u]
  BY <1>2, <1>3
<1>5. /\ job' \in [Workers -> Job]
      /\ \A w \in Workers : job'[w].step = job[w].step /\ job'[w].task = job[w].task
  BY <1>2, <1>3, Delivers
<1>6. A2ATypes'
  BY <1>1, <1>3, <1>4, <1>5 DEF A2AInv, A2ATypes
<1>7. QED BY <1>1, <1>4, <1>5, <1>6, NothingStored, LoopWorks

LEMMA HumanAnswersA2A ==
  ASSUME A2AInv, NEW t \in Tasks, HumanAnswers(t) PROVE A2AInv'
<1>1. /\ session[t].mode = "paused" /\ UNCHANGED <<store, job, replies, alive, decided, faults, asks>>
      /\ session' = [session EXCEPT ![t] = [mode |-> "busy", tool |-> NoTool]]
  BY DEF HumanAnswers
<1>2. session' \in [Tasks -> Session] /\ \A u \in Tasks \ {t} : session'[u] = session[u]
  BY <1>1 DEF A2AInv, A2ATypes, Session
<1>3. A2ATypes'
  BY <1>1, <1>2 DEF A2AInv, A2ATypes
<1>4. QED BY <1>1, <1>2, <1>3, NothingStored

LEMMA StreamOpensA2A ==
  ASSUME A2AInv, NEW w \in Workers, StreamOpens(w) PROVE A2AInv'
<1>1. /\ job' = [job EXCEPT ![w] = [job[w] EXCEPT !.open = TRUE]]
      /\ UNCHANGED <<store, session, replies, alive, decided, faults, asks>>
  BY DEF StreamOpens
<1>2. job[w] \in Job
  BY DEF A2AInv, A2ATypes
<1>3. /\ [job[w] EXCEPT !.open = TRUE] \in Job
      /\ [job[w] EXCEPT !.open = TRUE].step = job[w].step
      /\ [job[w] EXCEPT !.open = TRUE].task = job[w].task
  BY <1>2 DEF Job
<1>4. /\ job' \in [Workers -> Job]
      /\ \A v \in Workers : job'[v].step = job[v].step /\ job'[v].task = job[v].task
  BY <1>1, <1>3, OneWorker DEF A2AInv, A2ATypes
<1>5. A2ATypes'
  BY <1>1, <1>4 DEF A2AInv, A2ATypes
<1>6. QED BY <1>1, <1>4, <1>5, NothingStored, LoopWorks

LEMMA StreamClosesA2A ==
  ASSUME A2AInv, NEW w \in Workers, StreamCloses(w) PROVE A2AInv'
<1>1. PICK status \in {"idle", "error"} :
        /\ Fault("ended") \/ Fault("dropped")
        /\ job' = [job EXCEPT ![w].open = FALSE, ![w].result = [status |-> status, tool |-> NoTool]]
  BY DEF StreamCloses
<1> DEFINE result == [status |-> status, tool |-> NoTool]
           work == [[job[w] EXCEPT !.open = FALSE] EXCEPT !.result = result]
<1>2. UNCHANGED <<store, session, replies, alive, decided, asks>> /\ faults' \in 0..MaxFaults
  BY <1>1, FaultCounts DEF StreamCloses, A2AInv
<1>3. result \in Results
  BY DEF Results
<1>4. job[w] \in Job /\ job \in [Workers -> Job]
  BY DEF A2AInv, A2ATypes
<1>5. job' = [job EXCEPT ![w] = work]
  BY <1>1, <1>4
<1> HIDE DEF result
<1>6. work \in Job /\ work.step = job[w].step /\ work.task = job[w].task
  BY <1>3, <1>4 DEF Job
<1> HIDE DEF work
<1>7. /\ job' \in [Workers -> Job]
      /\ \A v \in Workers : job'[v].step = job[v].step /\ job'[v].task = job[v].task
  BY <1>4, <1>5, <1>6, OneWorker
<1>8. A2ATypes'
  BY <1>2, <1>7 DEF A2AInv, A2ATypes
<1>9. QED BY <1>2, <1>7, <1>8, NothingStored, LoopWorks

(* A refused post and an unreachable provider end the call; a background   *)
(* run stores FAILED of the second.                                        *)
LEMMA RefusedA2A ==
  ASSUME A2AInv, NEW w \in Workers, Refused(w), UNCHANGED <<replies, asks>>, faults' \in 0..MaxFaults
  PROVE  A2AInv'
<1>1. Rest(w) /\ UNCHANGED <<store, session, alive, decided>>
  BY DEF Refused
<1>2. /\ job' \in [Workers -> Job] /\ job'[w].step = "off"
      /\ \A v \in Workers \ {w} : job'[v] = job[v]
  BY <1>1, Rests DEF A2AInv, A2ATypes
<1>3. A2ATypes'
  BY <1>1, <1>2 DEF A2AInv, A2ATypes
<1>4. QED BY <1>1, <1>2, <1>3, NothingStored, LoopWorks

LEMMA UnreachableA2A ==
  ASSUME A2AInv, NEW w \in Workers, Unreachable(w), UNCHANGED <<replies, asks>>
  PROVE  A2AInv'
<1> DEFINE t == job[w].task
<1>1. Fault("unreachable") /\ Rest(w) /\ UNCHANGED <<session, alive, decided>>
  BY DEF Unreachable
<1>2. /\ job' \in [Workers -> Job] /\ job'[w].step = "off"
      /\ \A v \in Workers \ {w} : job'[v] = job[v]
  BY <1>1, Rests DEF A2AInv, A2ATypes
<1>3. t \in Tasks
  BY DEF A2AInv, A2ATypes, Job
<1> HIDE DEF t
<1>4. faults' \in 0..MaxFaults
  BY <1>1, FaultCounts DEF A2AInv
<1>5. CASE UNCHANGED store
  <2>1. A2ATypes'
    BY <1>1, <1>2, <1>4, <1>5 DEF A2AInv, A2ATypes
  <2>2. QED BY <1>1, <1>2, <1>5, <2>1, NothingStored, LoopWorks
<1>6. CASE Update(t, "FAILED", NoTool)
  <2>1. /\ store' \in [Tasks -> Record] /\ SnapshotAgrees'
        /\ store'[t].state = "FAILED" /\ \A u \in Tasks \ {t} : store'[u] = store[u]
    BY <1>3, <1>6, Updates DEF A2AInv, A2ATypes, States, Interrupted, Terminal
  <2>2. A2ATypes'
    BY <1>1, <1>2, <1>4, <2>1 DEF A2AInv, A2ATypes
  <2>3. \A u \in Tasks : store'[u].state = store[u].state \/ store'[u].state \notin {"unknown", "CANCELED"}
    BY <2>1
  <2>4. ArchiveInv'
    BY <1>1, <1>2, <2>2, <2>3, ArchiveKept, LoopWorks
  <2>5. QED BY <2>1, <2>2, <2>4 DEF A2AInv
<1>7. QED BY <1>5, <1>6 DEF Unreachable, t

LEMMA StartA2A ==
  ASSUME A2AInv, NEW t \in Tasks, Start(t) PROVE A2AInv'
<1>1. /\ ~Known(t) /\ session' = [session EXCEPT ![t].mode = "quiet"]
      /\ UNCHANGED <<replies, alive, decided, faults, asks>>
  BY DEF Start
<1>2. PICK w \in Workers, step \in {"prompt", "frame"}, kind \in {"unary", "stream", "background"},
           state \in {"SUBMITTED", "WORKING"} :
        Assign(w, Work(step, kind, t, NoAnswer)) /\ Update(t, state, NoTool)
  BY LoopWorks DEF Start
<1>3. /\ store' \in [Tasks -> Record] /\ SnapshotAgrees'
      /\ store'[t].state = state /\ \A u \in Tasks \ {t} : store'[u] = store[u]
  BY <1>2, Updates DEF A2AInv, A2ATypes, States, Interrupted, Terminal
<1> DEFINE work == Work(step, kind, t, NoAnswer)
<1>4. work \in Job /\ work.step = step
  BY WorkType, NoAnswerType DEF Steps
<1>5. job' = [job EXCEPT ![w] = work]
  BY <1>2 DEF Assign
<1> HIDE DEF work
<1>6. /\ job' \in [Workers -> Job] /\ job'[w].step = step
      /\ \A v \in Workers \ {w} : job'[v] = job[v]
  BY <1>4, <1>5, OneWorker DEF A2AInv, A2ATypes
<1>7. session' \in [Tasks -> Session] /\ \A u \in Tasks \ {t} : session'[u] = session[u]
  BY <1>1 DEF A2AInv, A2ATypes, Session
<1>8. A2ATypes'
  BY <1>1, <1>3, <1>6, <1>7 DEF A2AInv, A2ATypes
<1>9. ArchiveInv'
  <2>1. \A u \in Tasks : store'[u].state = store[u].state \/ store'[u].state \notin {"unknown", "CANCELED"}
    BY <1>3
  <2>2. \A u \in Tasks : Known(u) /\ session[u].mode = "archived" => session'[u].mode = "archived"
    BY <1>1, <1>7
  <2>3. QED BY <1>6, <1>8, <2>1, <2>2, ArchiveKept, LoopWorks
<1>10. QED BY <1>3, <1>8, <1>9 DEF A2AInv

LEMMA ScopeRequiredA2A ==
  ASSUME A2AInv, NEW t \in Tasks, ScopeRequired(t) PROVE A2AInv'
<1>1. A2ATypes' /\ UNCHANGED <<store, session, job>>
  BY DEF ScopeRequired, A2AInv, A2ATypes
<1>2. QED BY <1>1, NothingStored

LEMMA NextFrameA2A ==
  ASSUME A2AInv, NEW w \in Threads, NextFrame(w) PROVE A2AInv'
<1>1. UNCHANGED <<store, session, replies, alive, decided, faults, asks>>
  BY DEF NextFrame
<1>2. Rest(w) \/ Goto(w, "prompt") \/ Goto(w, "await")
  BY DEF NextFrame
<1>3. /\ job' \in [Workers -> Job] /\ job'[w].step \in {"off", "prompt", "await"}
      /\ \A v \in Workers \ {w} : job'[v] = job[v]
  BY <1>2, Rests, Goes, LoopWorks DEF A2AInv, A2ATypes, Steps
<1>4. A2ATypes'
  BY <1>1, <1>3 DEF A2AInv, A2ATypes
<1>5. QED BY <1>1, <1>3, <1>4, NothingStored, LoopWorks

LEMMA PostPromptA2A ==
  ASSUME A2AInv, NEW w \in Workers, PostPrompt(w) PROVE A2AInv'
<1> DEFINE t == job[w].task
<1>1. t \in Tasks /\ UNCHANGED <<replies, asks>>
  BY DEF A2AInv, A2ATypes, Job, PostPrompt
<1>2. CASE /\ session[t].mode \in {"quiet", "busy"}
           /\ session' = [session EXCEPT ![t].mode = "busy"]
           /\ Goto(w, "await") /\ UNCHANGED <<store, alive, decided, faults>>
  <2> HIDE DEF t
  <2>1. session' \in [Tasks -> Session] /\ \A u \in Tasks \ {t} : session'[u] = session[u]
    BY <1>1, <1>2 DEF A2AInv, A2ATypes, Session
  <2>2. /\ job' \in [Workers -> Job] /\ job'[w].step = "await"
        /\ \A v \in Workers \ {w} : job'[v] = job[v]
    BY <1>2, Goes DEF A2AInv, A2ATypes, Steps
  <2>3. A2ATypes'
    BY <1>1, <1>2, <2>1, <2>2 DEF A2AInv, A2ATypes
  <2>4. QED BY <1>2, <2>1, <2>2, <2>3, NothingStored, LoopWorks
<1>3. CASE Refused(w) /\ (UNCHANGED faults \/ Fault("refused"))
  <2>1. faults' \in 0..MaxFaults
    BY <1>3, FaultCounts DEF A2AInv, A2ATypes
  <2>2. QED BY <1>1, <1>3, <2>1, RefusedA2A
<1>4. CASE Unreachable(w)
  BY <1>1, <1>4, UnreachableA2A
<1>5. QED BY <1>2, <1>3, <1>4 DEF PostPrompt

(* Only a pause is mapped to an interrupted state, and it names its tool.  *)
LEMMA MappedAgrees ==
  ASSUME NEW result \in Results, NEW state \in MappedStates(result)
  PROVE  /\ state \in States /\ result.tool \in Tools \cup {NoTool}
         /\ result.tool # NoTool <=> state \in Interrupted
         /\ state \notin {"unknown", "CANCELED"}
<1>1. CASE result \in [status : {"idle", "error"}, tool : {NoTool}]
  BY <1>1 DEF MappedStates, States, Interrupted, Terminal
<1>2. CASE result \in [status : {"blocked"}, tool : Tools]
  BY <1>2, A2AAssumption DEF MappedStates, States, Interrupted, Terminal
<1>3. QED BY <1>1, <1>2 DEF Results

LEMMA StoreResultA2A ==
  ASSUME A2AInv, NEW w \in Workers, StoreResult(w) PROVE A2AInv'
<1> DEFINE t == job[w].task
           result == job[w].result
<1>1. t \in Tasks /\ result \in Results
  BY DEF A2AInv, A2ATypes, Job, StoreResult
<1>2. Rest(w) /\ UNCHANGED <<session, replies, decided, faults, asks>>
  BY DEF StoreResult
<1>3. PICK state \in MappedStates(result) :
        /\ Update(t, state, result.tool)
        /\ alive' = IF state \in Interrupted THEN alive \cup {t} ELSE alive
  BY DEF StoreResult
<1> HIDE DEF t, result
<1>4. /\ job' \in [Workers -> Job] /\ job'[w].step = "off"
      /\ \A v \in Workers \ {w} : job'[v] = job[v]
  BY <1>2, Rests DEF A2AInv, A2ATypes
<1>5. /\ state \in States /\ result.tool \in Tools \cup {NoTool}
      /\ result.tool # NoTool <=> state \in Interrupted
      /\ state \notin {"unknown", "CANCELED"}
  BY <1>1, MappedAgrees
<1>6. /\ store' \in [Tasks -> Record] /\ SnapshotAgrees'
      /\ store'[t].state = state /\ \A u \in Tasks \ {t} : store'[u] = store[u]
  BY <1>1, <1>3, <1>5, Updates DEF A2AInv, A2ATypes
<1>7. A2ATypes'
  BY <1>1, <1>2, <1>3, <1>4, <1>6 DEF A2AInv, A2ATypes
<1>8. ArchiveInv'
  <2>1. \A u \in Tasks : store'[u].state = store[u].state \/ store'[u].state \notin {"unknown", "CANCELED"}
    BY <1>5, <1>6
  <2>2. QED BY <1>2, <1>4, <1>7, <2>1, ArchiveKept, LoopWorks
<1>9. QED BY <1>6, <1>7, <1>8 DEF A2AInv

LEMMA SendReplyA2A ==
  ASSUME A2AInv, NEW t \in Tasks, SendReply(t) PROVE A2AInv'
<1>1. UNCHANGED <<store, session, job, alive, decided, faults, asks>> /\ replies.sent < MaxReplies
  BY DEF SendReply
<1>2. store[t].pending \in Tools \cup {NoTool}
  BY DEF A2AInv, A2ATypes, Record
<1>3. PICK word \in Words, about \in Tools \cup {NoTool} :
        replies' = [sent |-> replies.sent + 1, mail |-> replies.mail \cup
               {[task |-> t, about |-> about, word |-> word]}]
  BY <1>2 DEF SendReply
<1>4. replies'.sent \in 0..MaxReplies
  BY <1>1, <1>3, A2AAssumption DEF A2AInv, A2ATypes
<1>5. replies'.mail \subseteq Reply
  BY <1>3 DEF A2AInv, A2ATypes, Reply
<1>6. A2ATypes'
  BY <1>1, <1>4, <1>5 DEF A2AInv, A2ATypes
<1>7. QED BY <1>1, <1>6, NothingStored

LEMMA ContinueA2A ==
  ASSUME A2AInv, NEW w \in Workers, Continue(w) PROVE A2AInv'
<1>1. UNCHANGED <<store, session, alive, decided, faults, asks>>
  BY DEF Continue
<1> DEFINE kind == IF w = Loop THEN "unary" ELSE "stream"
           asked(r) == [about |-> r.about, word |-> r.word, tool |-> store[r.task].pending]
<1>2. PICK r \in replies.mail :
        /\ \/ Assign(w, Work("await", kind, r.task, NoAnswer))
           \/ Assign(w, Work("answer", kind, r.task, asked(r)))
        /\ replies' = [replies EXCEPT !.mail = @ \ {r}]
  BY DEF Continue
<1>3. r \in Reply
  BY <1>2 DEF A2AInv, A2ATypes
<1>4. r.task \in Tasks /\ asked(r) \in Answer /\ kind \in {"unary", "stream", "background"}
  BY <1>3 DEF Reply, Answer, A2AInv, A2ATypes, Record
<1> HIDE DEF kind, asked
<1>5. PICK step \in {"await", "answer"}, answer \in Answer : job' = [job EXCEPT ![w] = Work(step, kind, r.task, answer)]
  BY <1>2, <1>4, NoAnswerType DEF Assign
<1> DEFINE work == Work(step, kind, r.task, answer)
<1>6. work \in Job /\ work.step = step
  BY <1>4, WorkType DEF Steps
<1> HIDE DEF work
<1>7. /\ job' \in [Workers -> Job] /\ job'[w].step = step
      /\ \A v \in Workers \ {w} : job'[v] = job[v]
  BY <1>5, <1>6, OneWorker DEF A2AInv, A2ATypes, work
<1>8. replies'.sent \in 0..MaxReplies /\ replies'.mail \subseteq Reply
  <2>1. replies'.sent = replies.sent /\ replies'.mail \subseteq replies.mail
    BY <1>2, SMT
  <2>2. QED BY <2>1 DEF A2AInv, A2ATypes
<1>9. A2ATypes'
  BY <1>1, <1>7, <1>8 DEF A2AInv, A2ATypes
<1>10. QED BY <1>1, <1>7, <1>9, NothingStored, LoopWorks

LEMMA PostAnswerA2A ==
  ASSUME A2AInv, NEW w \in Workers, PostAnswer(w) PROVE A2AInv'
<1> DEFINE t == job[w].task
           a == job[w].answer
           fits == IF a.tool = NoTool THEN session[t].mode \in {"quiet", "busy"}
                   ELSE session[t] = [mode |-> "paused", tool |-> a.tool]
<1>1. t \in Tasks /\ a \in Answer /\ UNCHANGED <<replies, asks>>
  BY DEF A2AInv, A2ATypes, Job, PostAnswer
<1>2. CASE /\ fits
           /\ session' = [session EXCEPT ![t] = [mode |-> "busy", tool |-> NoTool]]
           /\ decided' = IF a.tool = NoTool THEN decided ELSE decided \cup
                {[about |-> a.about, tool |-> a.tool, allow |-> a.word = "allow"]}
           /\ Goto(w, "await") /\ UNCHANGED <<store, alive, faults>>
  <2> HIDE DEF t, a
  <2>1. session[t].mode # "archived"
    BY <1>2
  <2>2. session' \in [Tasks -> Session] /\ \A u \in Tasks \ {t} : session'[u] = session[u]
    BY <1>1, <1>2 DEF A2AInv, A2ATypes, Session
  <2>3. /\ job' \in [Workers -> Job] /\ job'[w].step = "await"
        /\ \A v \in Workers \ {w} : job'[v] = job[v]
    BY <1>2, Goes DEF A2AInv, A2ATypes, Steps
  <2>4. decided' \subseteq [about : Tools \cup {NoTool}, tool : Tools, allow : BOOLEAN]
    <3>1. a.about \in Tools \cup {NoTool} /\ a.tool \in Tools \cup {NoTool}
      BY <1>1 DEF Answer
    <3>2. CASE a.tool = NoTool
      BY <1>2, <3>2 DEF A2AInv, A2ATypes
    <3>3. CASE a.tool # NoTool
      <4>1. [about |-> a.about, tool |-> a.tool, allow |-> a.word = "allow"]
              \in [about : Tools \cup {NoTool}, tool : Tools, allow : BOOLEAN]
        BY <3>1, <3>3
      <4>2. QED BY <1>2, <3>3, <4>1 DEF A2AInv, A2ATypes
    <3>4. QED BY <3>2, <3>3
  <2>5. A2ATypes'
    BY <1>1, <1>2, <2>2, <2>3, <2>4 DEF A2AInv, A2ATypes
  <2>6. QED BY <1>2, <2>1, <2>2, <2>3, <2>5, NothingStored, LoopWorks
<1>3. CASE Refused(w) /\ (UNCHANGED faults \/ Fault("refused"))
  <2>1. faults' \in 0..MaxFaults
    BY <1>3, FaultCounts DEF A2AInv, A2ATypes
  <2>2. QED BY <1>1, <1>3, <2>1, RefusedA2A
<1>4. CASE Unreachable(w)
  BY <1>1, <1>4, UnreachableA2A
<1>5. QED BY <1>2, <1>3, <1>4 DEF PostAnswer

LEMMA CancelA2A ==
  ASSUME A2AInv, NEW t \in Tasks, Cancel(t) PROVE A2AInv'
<1> DEFINE work == Work("archive", "unary", t, NoAnswer)
<1>1. /\ Known(t) /\ job' = [job EXCEPT ![Loop] = work]
      /\ UNCHANGED <<store, session, replies, alive, decided, faults, asks>>
  BY DEF Cancel, Assign
<1>2. work \in Job /\ work.step = "archive" /\ work.task = t
  BY WorkType, NoAnswerType DEF Steps
<1> HIDE DEF work
<1>3. job' \in [Workers -> Job] /\ job'[Loop].step = "archive" /\ job'[Loop].task = t
  BY <1>1, <1>2, OneWorker, LoopWorks DEF A2AInv, A2ATypes
<1>4. A2ATypes'
  BY <1>1, <1>3 DEF A2AInv, A2ATypes
<1>5. SnapshotAgrees'
  BY <1>1 DEF A2AInv, SnapshotAgrees
<1>6. ArchiveInv'
  BY <1>1, <1>3 DEF A2AInv, ArchiveInv, Known, CanceledIsArchived
<1>7. QED BY <1>4, <1>5, <1>6 DEF A2AInv

(* Unless the provider refuses, what the loop is to store CANCELED is      *)
(* archived, and stays so.                                                 *)
LEMMA ArchiveA2A ==
  ASSUME A2AInv, Archive PROVE A2AInv'
<1> DEFINE t == job[Loop].task
<1>1. t \in Tasks /\ UNCHANGED <<replies, asks>> /\ job[Loop].step = "archive" /\ Known(t)
  BY LoopWorks DEF A2AInv, A2ATypes, ArchiveInv, Job, Archive
<1>2. CASE /\ session' = [session EXCEPT ![t] = [mode |-> "archived", tool |-> NoTool]]
           /\ job' = [w \in Workers |->
                IF w = Loop THEN [job[w] EXCEPT !.step = "cancelled"]
                ELSE IF job[w].task = t /\ job[w].open /\ job[w].result = NoResult
                THEN [job[w] EXCEPT !.result = [status |-> "error", tool |-> NoTool]]
                ELSE job[w]]
           /\ UNCHANGED <<store, alive, decided, faults>>
  <2>1. /\ session' \in [Tasks -> Session] /\ session'[t].mode = "archived"
        /\ \A u \in Tasks \ {t} : session'[u] = session[u]
    <3> HIDE DEF t
    <3>1. QED BY <1>1, <1>2 DEF A2AInv, A2ATypes, Session
  <2>2. job' \in [Workers -> Job] /\ job'[Loop].step = "cancelled" /\ job'[Loop].task = t
    <3>1. [status |-> "error", tool |-> NoTool] \in Results
      BY DEF Results
    <3>2. \A w \in Workers : job[w] \in Job
      BY DEF A2AInv, A2ATypes
    <3>3. \A w \in Workers :
            /\ [job[w] EXCEPT !.result = [status |-> "error", tool |-> NoTool]] \in Job
            /\ [job[w] EXCEPT !.step = "cancelled"] \in Job
            /\ [job[w] EXCEPT !.step = "cancelled"].step = "cancelled"
            /\ [job[w] EXCEPT !.step = "cancelled"].task = job[w].task
      BY <3>1, <3>2 DEF Job, Steps
    <3>4. job'[Loop] = [job[Loop] EXCEPT !.step = "cancelled"]
      BY <1>2, LoopWorks
    <3>5. job' \in [Workers -> Job]
      BY <1>2, <3>2, <3>3
    <3>6. QED BY <3>3, <3>4, <3>5, LoopWorks
  <2> HIDE DEF t
  <2>3. A2ATypes'
    BY <1>1, <1>2, <2>1, <2>2 DEF A2AInv, A2ATypes
  <2>4. SnapshotAgrees'
    BY <1>2 DEF A2AInv, SnapshotAgrees
  <2>5. ArchiveInv'
    BY <1>1, <1>2, <2>1, <2>2 DEF A2AInv, ArchiveInv, Known, CanceledIsArchived
  <2>6. QED BY <2>3, <2>4, <2>5 DEF A2AInv
<1>3. CASE /\ session[t].mode = "archived" \/ "refused" \in Faults
           /\ UNCHANGED faults \/ Fault("refused")
           /\ Goto(Loop, "cancelled")
           /\ UNCHANGED <<store, session, alive, decided>>
  <2>1. job' \in [Workers -> Job] /\ job'[Loop].step = "cancelled" /\ job'[Loop].task = t
    BY <1>3, Goes, LoopWorks DEF A2AInv, A2ATypes, Steps
  <2>2. faults' \in 0..MaxFaults
    BY <1>3, FaultCounts DEF A2AInv, A2ATypes
  <2> HIDE DEF t
  <2>3. A2ATypes'
    BY <1>1, <1>3, <2>1, <2>2 DEF A2AInv, A2ATypes
  <2>4. SnapshotAgrees'
    BY <1>3 DEF A2AInv, SnapshotAgrees
  <2>5. ArchiveInv'
    BY <1>1, <1>3, <2>1 DEF A2AInv, ArchiveInv, Known, CanceledIsArchived
  <2>6. QED BY <2>3, <2>4, <2>5 DEF A2AInv
<1>4. CASE Unreachable(Loop)
  BY <1>1, <1>4, UnreachableA2A, LoopWorks
<1>5. QED BY <1>2, <1>3, <1>4 DEF Archive

LEMMA StoreCanceledA2A ==
  ASSUME A2AInv, StoreCanceled PROVE A2AInv'
<1> DEFINE t == job[Loop].task
<1>1. /\ t \in Tasks /\ job[Loop].step = "cancelled" /\ Update(t, "CANCELED", NoTool) /\ Rest(Loop)
      /\ UNCHANGED <<session, replies, alive, decided, faults, asks>>
  BY LoopWorks DEF A2AInv, A2ATypes, Job, StoreCanceled
<1>2. "refused" \notin Faults => session[t].mode = "archived"
  BY <1>1 DEF A2AInv, ArchiveInv
<1> HIDE DEF t
<1>3. /\ store' \in [Tasks -> Record] /\ SnapshotAgrees'
      /\ store'[t].state = "CANCELED" /\ \A u \in Tasks \ {t} : store'[u] = store[u]
  BY <1>1, Updates DEF A2AInv, A2ATypes, States, Interrupted, Terminal
<1>4. job' \in [Workers -> Job] /\ job'[Loop].step = "off"
  BY <1>1, Rests, LoopWorks DEF A2AInv, A2ATypes
<1>5. A2ATypes'
  BY <1>1, <1>3, <1>4 DEF A2AInv, A2ATypes
<1>6. ArchiveInv'
  BY <1>1, <1>2, <1>3, <1>4 DEF A2AInv, ArchiveInv, CanceledIsArchived
<1>7. QED BY <1>3, <1>5, <1>6 DEF A2AInv

LEMMA SubscribeA2A ==
  ASSUME A2AInv, NEW w \in Threads, NEW t \in Tasks, Subscribe(w, t) PROVE A2AInv'
<1> DEFINE work == Work("attach", "stream", t, NoAnswer)
<1>1. /\ job' = [job EXCEPT ![w] = work]
      /\ UNCHANGED <<store, session, replies, alive, decided, faults, asks>>
  BY DEF Subscribe, Assign
<1>2. work \in Job /\ work.step = "attach"
  BY WorkType, NoAnswerType DEF Steps
<1> HIDE DEF work
<1>3. /\ job' \in [Workers -> Job] /\ job'[w].step = "attach"
      /\ \A v \in Workers \ {w} : job'[v] = job[v]
  BY <1>1, <1>2, OneWorker, LoopWorks DEF A2AInv, A2ATypes
<1>4. A2ATypes'
  BY <1>1, <1>3 DEF A2AInv, A2ATypes
<1>5. QED BY <1>1, <1>3, <1>4, NothingStored, LoopWorks

LEMMA A2AStep ==
  ASSUME A2AInv, [Next]_vars PROVE A2AInv'
<1>1. CASE UNCHANGED vars
  <2>1. A2ATypes'
    BY <1>1 DEF vars, A2AInv, A2ATypes
  <2>2. QED BY <1>1, <2>1, NothingStored DEF vars
<1>2. ASSUME NEW t \in Tasks,
             TurnEnds(t) \/ HumanAnswers(t) \/ Start(t) \/ ScopeRequired(t) \/ SendReply(t) \/ Cancel(t)
      PROVE  A2AInv'
  BY <1>2, TurnEndsA2A, HumanAnswersA2A, StartA2A, ScopeRequiredA2A, SendReplyA2A, CancelA2A
<1>3. ASSUME NEW w \in Workers, Run(w) \/ Continue(w) PROVE A2AInv'
  BY <1>3, StreamOpensA2A, StreamClosesA2A, PostPromptA2A, StoreResultA2A, PostAnswerA2A, ContinueA2A
     DEF Run
<1>4. ASSUME NEW w \in Threads, NEW t \in Tasks, Subscribe(w, t) PROVE A2AInv'
  BY <1>4, SubscribeA2A
<1>5. ASSUME NEW w \in Threads, NextFrame(w) PROVE A2AInv'
  BY <1>5, NextFrameA2A
<1>6. CASE Archive \/ StoreCanceled
  BY <1>6, ArchiveA2A, StoreCanceledA2A
<1>7. QED BY <1>1, <1>2, <1>3, <1>4, <1>5, <1>6 DEF Next

LEMMA A2AInvariant == Spec => []A2AInv
<1>1. Init => A2AInv
  BY InitA2A
<1>2. A2AInv /\ [Next]_vars => A2AInv'
  BY A2AStep
<1>3. QED BY <1>1, <1>2, PTL DEF Spec

(* The state of a snapshot, its terminal flag and its pending tool use     *)
(* agree, whichever run, call or thread wrote last (SessionStore.update),  *)
(* and every variable keeps its type.                                      *)
THEOREM SnapshotsAgree == Spec => [](SnapshotAgrees /\ A2ATypes)
<1>1. A2AInv => SnapshotAgrees /\ A2ATypes
  BY DEF A2AInv
<1>2. QED BY <1>1, A2AInvariant, PTL

(* A task shown CANCELED has had its session archived, when the provider   *)
(* refuses no post (cancel_task, adapter.py).                              *)
THEOREM CancellationIsArchived ==
  ASSUME "refused" \notin Faults PROVE Spec => []CanceledIsArchived
<1>1. A2AInv => CanceledIsArchived
  BY DEF A2AInv, ArchiveInv
<1>2. QED BY <1>1, A2AInvariant, PTL
-----------------------------------------------------------------------------
(* A task shown WORKING has a run under way, when the provider refuses no  *)
(* post.                                                                   *)

(* A worker reads the stream of its session and stores what comes; or the  *)
(* loop is about to store CANCELED; or nobody has got to the session yet,  *)
(* and the thread that was started for it is about to post the prompt.     *)
InFlight(t) ==
  \/ \E w \in Workers : job[w].task = t /\ job[w].step = "await"
  \/ job[Loop].task = t /\ job[Loop].step = "cancelled"
  \/ /\ session[t].mode = "quiet"
     /\ \E w \in Threads : job[w].task = t /\ job[w].step = "prompt" /\ job[w].kind = "background"

FlightInv == \A t \in Tasks : store[t].state = "WORKING" => InFlight(t)

Stays(v) == job'[v].step = job[v].step /\ job'[v].task = job[v].task /\ job'[v].kind = job[v].kind

(* One worker moves: nothing becomes WORKING, whoever takes a session up   *)
(* reads its stream, and the worker leaves no run behind.                  *)
LEMMA FlightGoesOn ==
  ASSUME FlightInv, NEW w \in Workers, NEW of \in Tasks, job[w].task = of,
         \A v \in Workers \ {w} : Stays(v),
         \A t \in Tasks : store'[t].state = "WORKING" => store[t].state = "WORKING",
         \A t \in Tasks : session[t].mode = "quiet" => session'[t].mode = "quiet" \/ InFlight(t)',
         \/ Stays(w)
         \/ job[w].step \notin {"await", "cancelled", "prompt"}
         \/ store'[of].state # "WORKING"
         \/ InFlight(of)'
         \/ job[w].step = "prompt" /\ (job[w].kind # "background" \/ session[of].mode # "quiet")
  PROVE  FlightInv'
<1> SUFFICES ASSUME NEW t \in Tasks, store'[t].state = "WORKING" PROVE InFlight(t)'
  BY DEF FlightInv
<1>1. InFlight(t)
  BY DEF FlightInv
<1>2. CASE \E v \in Workers : job[v].task = t /\ job[v].step = "await"
  <2>1. PICK v \in Workers : job[v].task = t /\ job[v].step = "await"
    BY <1>2
  <2>2. CASE Stays(v)
    BY <2>1, <2>2 DEF Stays, InFlight
  <2>3. CASE ~Stays(v)
    <3>1. v = w
      BY <2>3
    <3>2. QED BY <2>1, <2>3, <3>1
  <2>4. QED BY <2>2, <2>3
<1>3. CASE job[Loop].task = t /\ job[Loop].step = "cancelled"
  <2>1. CASE Stays(Loop)
    BY <1>3, <2>1 DEF Stays, InFlight
  <2>2. CASE ~Stays(Loop)
    <3>1. Loop = w
      BY <2>2, LoopWorks
    <3>2. QED BY <1>3, <2>2, <3>1
  <2>3. QED BY <2>1, <2>2
<1>4. CASE session[t].mode = "quiet" /\ \E v \in Threads : job[v].task = t /\ job[v].step = "prompt" /\ job[v].kind = "background"
  <2>1. PICK v \in Threads : job[v].task = t /\ job[v].step = "prompt" /\ job[v].kind = "background"
    BY <1>4
  <2>2. CASE Stays(v)
    BY <1>4, <2>1, <2>2 DEF Stays, InFlight
  <2>3. CASE ~Stays(v)
    <3>1. v = w
      BY <2>3, LoopWorks
    <3>2. QED BY <1>4, <2>1, <2>3, <3>1
  <2>4. QED BY <2>2, <2>3
<1>5. QED BY <1>1, <1>2, <1>3, <1>4 DEF InFlight

(* Workers may get results, and sessions that are not quiet may change.    *)
LEMMA FlightStays ==
  ASSUME FlightInv, \A v \in Workers : Stays(v), UNCHANGED store,
         \A t \in Tasks : session[t].mode = "quiet" => session'[t].mode = "quiet"
  PROVE  FlightInv'
  BY LoopWorks DEF FlightInv, InFlight, Stays

LEMMA RestsElsewhere ==
  ASSUME A2AInv, NEW w \in Workers, Rest(w) PROVE \A v \in Workers \ {w} : Stays(v)
  BY Rests DEF A2AInv, A2ATypes, Stays

LEMMA GoesElsewhere ==
  ASSUME A2AInv, NEW w \in Workers, NEW step \in Steps, Goto(w, step)
  PROVE  /\ \A v \in Workers \ {w} : Stays(v)
         /\ job'[w].step = step /\ job'[w].task = job[w].task
  BY Goes DEF A2AInv, A2ATypes, Stays

LEMMA AssignsElsewhere ==
  ASSUME A2AInv, NEW w \in Workers, NEW work, Assign(w, work)
  PROVE  /\ \A v \in Workers \ {w} : Stays(v)
         /\ job'[w] = work /\ job[w].step = "off"
  BY DEF Assign, Idle, A2AInv, A2ATypes, Stays

LEMMA UpdatesOne ==
  ASSUME A2AInv, NEW t \in Tasks, NEW state, NEW tool, Update(t, state, tool)
  PROVE  store'[t].state = state /\ \A u \in Tasks \ {t} : store'[u] = store[u]
  BY DEF Update, A2AInv, A2ATypes

LEMMA TurnEndsFlight ==
  ASSUME A2AInv, FlightInv, NEW t \in Tasks, TurnEnds(t) \/ HumanAnswers(t) PROVE FlightInv'
<1>1. UNCHANGED store /\ session[t].mode # "quiet" /\ \A u \in Tasks \ {t} : session'[u] = session[u]
  BY DEF TurnEnds, HumanAnswers, A2AInv, A2ATypes
<1>2. \A v \in Workers : Stays(v)
  <2>1. CASE HumanAnswers(t)
    BY <2>1 DEF HumanAnswers, Stays
  <2>2. ASSUME NEW result, Deliver(t, result) PROVE \A v \in Workers : Stays(v)
    <3>1. \A v \in Workers : job[v] \in Job
      BY DEF A2AInv, A2ATypes
    <3>2. QED BY <2>2, <3>1 DEF Deliver, Stays, Job
  <2>3. QED BY <2>1, <2>2 DEF TurnEnds
<1>3. QED BY <1>1, <1>2, FlightStays

LEMMA StreamFlight ==
  ASSUME A2AInv, FlightInv, NEW w \in Workers, StreamOpens(w) \/ StreamCloses(w) PROVE FlightInv'
<1>1. job[w] \in Job /\ job \in [Workers -> Job]
  BY DEF A2AInv, A2ATypes
<1>2. \A v \in Workers : Stays(v)
  BY <1>1 DEF StreamOpens, StreamCloses, Stays, Job
<1>3. QED BY <1>2, FlightStays DEF StreamOpens, StreamCloses

LEMMA RefusedFlight ==
  ASSUME A2AInv, FlightInv, NEW w \in Workers, Refused(w), job[w].step \in {"prompt", "answer"},
         job[w].step = "prompt" => session[job[w].task].mode # "quiet"
  PROVE  FlightInv'
<1>1. PICK t \in Tasks : job[w].task = t
  BY DEF A2AInv, A2ATypes, Job
<1>2. QED BY <1>1, FlightGoesOn, RestsElsewhere DEF Refused

LEMMA UnreachableFlight ==
  ASSUME A2AInv, FlightInv, NEW w \in Workers, Unreachable(w), job[w].step \in {"prompt", "answer", "archive"}
  PROVE  FlightInv'
<1>1. PICK t \in Tasks : job[w].task = t
  BY DEF A2AInv, A2ATypes, Job
<1>2. (\A v \in Workers \ {w} : Stays(v)) /\ UNCHANGED session
  BY RestsElsewhere DEF Unreachable
<1>3. CASE job[w].kind = "background"
  <2>1. store'[t].state = "FAILED" /\ \A u \in Tasks \ {t} : store'[u] = store[u]
    BY <1>1, <1>3, UpdatesOne DEF Unreachable
  <2>2. \A u \in Tasks : store'[u].state = "WORKING" => store[u].state = "WORKING"
    BY <2>1
  <2>3. QED BY <1>1, <1>2, <2>1, <2>2, FlightGoesOn
<1>4. CASE job[w].kind # "background"
  <2>1. UNCHANGED store
    BY <1>4 DEF Unreachable
  <2>2. QED BY <1>1, <1>2, <1>4, <2>1, FlightGoesOn
<1>5. QED BY <1>3, <1>4

LEMMA PostFlight ==
  ASSUME A2AInv, FlightInv, "refused" \notin Faults, NEW w \in Workers, PostPrompt(w) \/ PostAnswer(w)
  PROVE  FlightInv'
<1>0. PICK t \in Tasks : job[w].task = t /\ session \in [Tasks -> Session]
  BY DEF A2AInv, A2ATypes, Job
<1>1. ASSUME Goto(w, "await"), UNCHANGED store, \A u \in Tasks \ {t} : session'[u] = session[u] PROVE FlightInv'
  <2>1. (\A v \in Workers \ {w} : Stays(v)) /\ job'[w].step = "await" /\ job'[w].task = t
    BY <1>0, <1>1, GoesElsewhere DEF Steps
  <2>2. InFlight(t)'
    BY <2>1 DEF InFlight
  <2>3. QED BY <1>0, <1>1, <2>1, <2>2, FlightGoesOn
<1>2. ~Fault("refused")
  BY DEF Fault
<1>3. CASE PostPrompt(w)
  BY <1>0, <1>1, <1>2, <1>3, RefusedFlight, UnreachableFlight DEF PostPrompt
<1>4. CASE PostAnswer(w)
  BY <1>0, <1>1, <1>2, <1>4, RefusedFlight, UnreachableFlight DEF PostAnswer
<1>5. QED BY <1>3, <1>4

LEMMA StoreFlight ==
  ASSUME A2AInv, FlightInv, NEW w \in Workers, NEW state, NEW tool, state # "WORKING",
         Update(job[w].task, state, tool), Rest(w), UNCHANGED session
  PROVE  FlightInv'
<1>1. PICK t \in Tasks : job[w].task = t
  BY DEF A2AInv, A2ATypes, Job
<1>2. store'[t].state = state /\ \A u \in Tasks \ {t} : store'[u] = store[u]
  BY <1>1, UpdatesOne
<1>3. \A u \in Tasks : store'[u].state = "WORKING" => store[u].state = "WORKING"
  BY <1>2
<1>4. QED BY <1>1, <1>2, <1>3, RestsElsewhere, FlightGoesOn

LEMMA StoreResultFlight ==
  ASSUME A2AInv, FlightInv, NEW w \in Workers, StoreResult(w) PROVE FlightInv'
<1>1. job[w].result \in Results
  BY DEF A2AInv, A2ATypes, Job, StoreResult
<1>2. \A state \in MappedStates(job[w].result) : state # "WORKING"
  BY <1>1 DEF MappedStates, Interrupted
<1>3. QED BY <1>2, StoreFlight DEF StoreResult

(* A thread is started with the snapshot that says WORKING.                *)
LEMMA StartFlight ==
  ASSUME A2AInv, FlightInv, NEW t \in Tasks, Start(t) PROVE FlightInv'
<1>0. session \in [Tasks -> Session] /\ store \in [Tasks -> Record]
  BY DEF A2AInv, A2ATypes
<1>1. session'[t].mode = "quiet" /\ \A u \in Tasks \ {t} : session'[u] = session[u]
  BY <1>0 DEF Start, Session
<1>2. ASSUME NEW w \in Workers, NEW work, Assign(w, work), NEW state, Update(t, state, NoTool),
             \/ state # "WORKING"
             \/ w \in Threads /\ work = Work("prompt", "background", t, NoAnswer)
      PROVE  FlightInv'
  <2>1. (\A v \in Workers \ {w} : Stays(v)) /\ job'[w] = work /\ job[w].step = "off"
    BY <1>2, AssignsElsewhere
  <2>2. store'[t].state = state /\ \A u \in Tasks \ {t} : store'[u] = store[u]
    BY <1>2, UpdatesOne
  <2>3. state = "WORKING" => InFlight(t)'
    BY <1>1, <1>2, <2>1 DEF InFlight, Work
  <2>4. ASSUME NEW u \in Tasks \ {t}, store'[u].state = "WORKING" PROVE InFlight(u)'
    <3>1. InFlight(u)
      BY <2>2, <2>4 DEF FlightInv
    <3>2. QED BY <1>1, <2>1, <2>4, <3>1, LoopWorks DEF InFlight, Stays
  <2>5. QED BY <2>2, <2>3, <2>4 DEF FlightInv
<1>3. CASE Assign(Loop, Work("prompt", "unary", t, NoAnswer)) /\ Update(t, "SUBMITTED", NoTool)
  BY <1>2, <1>3, LoopWorks
<1>4. ASSUME NEW w \in Threads, Assign(w, Work("prompt", "background", t, NoAnswer)), Update(t, "WORKING", NoTool)
      PROVE  FlightInv'
  BY <1>2, <1>4, LoopWorks
<1>5. ASSUME NEW w \in Threads, Assign(w, Work("frame", "stream", t, NoAnswer)), Update(t, "SUBMITTED", NoTool)
      PROVE  FlightInv'
  BY <1>2, <1>5, LoopWorks
<1>6. QED BY <1>3, <1>4, <1>5 DEF Start

(* Calls that find a worker idle, or leave it before it has begun.         *)
LEMMA CallsFlight ==
  ASSUME A2AInv, FlightInv, NEW w \in Workers, UNCHANGED <<store, session>>,
         \/ \E work : Assign(w, work)
         \/ job[w].step \in {"frame", "attach"} /\ (Rest(w) \/ \E step \in Steps : Goto(w, step))
  PROVE  FlightInv'
<1>1. \A v \in Workers \ {w} : Stays(v)
  BY AssignsElsewhere, RestsElsewhere, GoesElsewhere
<1>2. job[w].step \in {"off", "frame", "attach"}
  BY DEF Assign, Idle
<1>3. job[w].task \in Tasks
  BY DEF A2AInv, A2ATypes, Job
<1>4. QED BY <1>1, <1>2, <1>3, FlightGoesOn

(* An archived session has the loop that is about to store CANCELED.       *)
LEMMA ArchiveFlight ==
  ASSUME A2AInv, FlightInv, "refused" \notin Faults, Archive PROVE FlightInv'
<1>0. PICK t \in Tasks : job[Loop].task = t /\ job[Loop].step = "archive" /\ session \in [Tasks -> Session] /\ job \in [Workers -> Job]
  BY LoopWorks DEF A2AInv, A2ATypes, Job, Archive
<1>1. CASE /\ session' = [session EXCEPT ![t] = [mode |-> "archived", tool |-> NoTool]]
           /\ job' = [w \in Workers |->
                IF w = Loop THEN [job[w] EXCEPT !.step = "cancelled"]
                ELSE IF job[w].task = t /\ job[w].open /\ job[w].result = NoResult
                THEN [job[w] EXCEPT !.result = [status |-> "error", tool |-> NoTool]]
                ELSE job[w]]
           /\ UNCHANGED store
  <2>1. job'[Loop].step = "cancelled" /\ job'[Loop].task = t
    <3>1. job[Loop] \in Job /\ job'[Loop] = [job[Loop] EXCEPT !.step = "cancelled"]
      BY <1>0, <1>1, LoopWorks
    <3>2. QED BY <1>0, <3>1 DEF Job
  <2>2. \A v \in Workers \ {Loop} : Stays(v)
    <3>1. \A v \in Workers : job[v] \in Job
      BY <1>0
    <3>2. QED BY <1>1, <3>1 DEF Stays, Job
  <2>3. InFlight(t)'
    BY <2>1 DEF InFlight
  <2>4. \A u \in Tasks \ {t} : session'[u] = session[u]
    BY <1>0, <1>1
  <2>5. QED BY <1>0, <1>1, <2>2, <2>3, <2>4, FlightGoesOn, LoopWorks
<1>2. CASE Goto(Loop, "cancelled") /\ UNCHANGED <<store, session>>
  <2>1. \A v \in Workers \ {Loop} : Stays(v)
    BY <1>2, GoesElsewhere, LoopWorks DEF Steps
  <2>2. QED BY <1>0, <1>2, <2>1, FlightGoesOn, LoopWorks
<1>3. CASE Unreachable(Loop)
  BY <1>0, <1>3, UnreachableFlight, LoopWorks
<1>4. QED BY <1>0, <1>1, <1>2, <1>3 DEF Archive

LEMMA FlightStep ==
  ASSUME A2AInv, FlightInv, "refused" \notin Faults, [Next]_vars PROVE FlightInv'
<1>1. CASE UNCHANGED vars
  BY <1>1, FlightStays DEF vars, Stays
<1>2. ASSUME NEW t \in Tasks, ScopeRequired(t) \/ SendReply(t) PROVE FlightInv'
  BY <1>2, FlightStays DEF ScopeRequired, SendReply, Stays
<1>3. ASSUME NEW t \in Tasks, Cancel(t) PROVE FlightInv'
  BY <1>3, CallsFlight, LoopWorks DEF Cancel
<1>4. ASSUME NEW w \in Threads, NEW t \in Tasks, Subscribe(w, t) PROVE FlightInv'
  BY <1>4, CallsFlight, LoopWorks DEF Subscribe
<1>5. ASSUME NEW w \in Workers, Continue(w) PROVE FlightInv'
  BY <1>5, CallsFlight DEF Continue
<1>6. ASSUME NEW w \in Threads, NextFrame(w) PROVE FlightInv'
  BY <1>6, CallsFlight, LoopWorks DEF NextFrame, Steps
<1>7. ASSUME NEW w \in Workers, Run(w) PROVE FlightInv'
  BY <1>7, StreamFlight, PostFlight, StoreResultFlight DEF Run
<1>8. CASE StoreCanceled
  BY <1>8, StoreFlight, LoopWorks DEF StoreCanceled
<1>9. QED BY <1>1, <1>2, <1>3, <1>4, <1>5, <1>6, <1>7, <1>8, TurnEndsFlight, StartFlight, ArchiveFlight DEF Next

(* A task shown WORKING has a run under way, whichever threads race for    *)
(* its session and whatever the streams lose, when the provider refuses no *)
(* post (send_message and _run_and_store, adapter.py).                     *)
THEOREM WorkingHasItsRun ==
  ASSUME "refused" \notin Faults PROVE Spec => []WorkingIsInFlight
<1>1. Init => FlightInv
  <2> SUFFICES ASSUME Init PROVE FlightInv
    OBVIOUS
  <2>1. store = [t \in Tasks |-> NoRecord]
    BY DEF Init
  <2>2. NoRecord.state = "unknown"
    BY DEF NoRecord
  <2>3. QED BY <2>1, <2>2 DEF FlightInv
<1>2. A2AInv /\ FlightInv /\ [Next]_vars => FlightInv'
  BY FlightStep
<1>3. A2AInv /\ FlightInv => WorkingIsInFlight
  BY LoopWorks DEF FlightInv, InFlight, WorkingIsInFlight, Idle
<1>4. QED BY <1>1, <1>2, <1>3, A2AInvariant, PTL DEF Spec
=============================================================================
