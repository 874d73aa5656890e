------------------------------ MODULE A2ATasks ------------------------------
(***************************************************************************)
(* The A2A server of agent-templates/a2a: wire methods dispatched onto a   *)
(* provider session (adapter.py), the snapshot of each task it keeps       *)
(* (session_store.py), the mapping of a run's result to a task state       *)
(* (task_mapper.py) and the driver that posts to the session and reads its *)
(* event stream (sync/driver.py).                                          *)
(*                                                                         *)
(* Unary calls run on the event loop, one at a time: `rpc' is a coroutine  *)
(* that never awaits while it dispatches.  A streaming call and a          *)
(* background run each have a thread.  The provider's session is external. *)
(***************************************************************************)
EXTENDS Naturals

CONSTANTS
    Tasks,      \* task ids, which are session ids
    Loop,       \* the event loop, the worker of every unary call
    Threads,    \* the workers of streaming calls and background runs
    Tools,      \* tool uses a session may pause on
    NoTool,
    Faults,     \* the provider faults that occur, a subset of FaultKinds
    MaxFaults, MaxAsks, MaxReplies,     \* bounds
    HumanHelps, \* whether a human may answer a pause behind the caller's back
    Unscoped    \* the requests whose token lacks a scope the skill requires

FaultKinds == {"refused", "unreachable", "ended", "dropped"}

ASSUME A2AAssumption ==
    /\ Tasks # {} /\ Loop \notin Threads
    /\ NoTool \notin Tools
    /\ Faults \subseteq FaultKinds
    /\ MaxFaults \in Nat /\ MaxAsks \in Nat /\ MaxReplies \in Nat
    /\ HumanHelps \in BOOLEAN
    /\ Unscoped \subseteq Tasks

Workers == Threads \cup {Loop}

Terminal == {"COMPLETED", "FAILED", "CANCELED"}
Interrupted == {"INPUT_REQUIRED", "AUTH_REQUIRED"}
States == {"unknown", "SUBMITTED", "WORKING"} \cup Interrupted \cup Terminal

VARIABLES
    store,      \* SessionStore: the snapshot of each task
    session,    \* the provider's session behind each task
    job,        \* what each worker is doing
    replies,    \* the callers' answers on their way to the server
    alive,      \* tasks a caller was told are interrupted, hence alive
    decided,    \* the decisions the provider took: about, tool, allow
    faults, asks

vars == <<store, session, job, replies, alive, decided, faults, asks>>

Record == [state : States, terminal : BOOLEAN, pending : Tools \cup {NoTool}]
Session == [mode : {"absent", "quiet", "busy", "paused", "archived"},
            tool : Tools \cup {NoTool}]
Words == {"allow", "other", "blank"}    \* what _parse_decision tells apart
Reply == [task : Tasks, about : Tools \cup {NoTool}, word : Words]

\* What run_until_block returns: the status and, of a pause, its tool use.
Results == [status : {"idle", "error"}, tool : {NoTool}]
             \cup [status : {"blocked"}, tool : Tools]
NoResult == [status |-> "none", tool |-> NoTool]

\* A continuation's answer: the pause it was written about, and the pending
\* tool use that was read from the snapshot when it arrived.
Answer == [about : Tools \cup {NoTool}, word : Words, tool : Tools \cup {NoTool}]
NoAnswer == [about |-> NoTool, word |-> "blank", tool |-> NoTool]

Steps == {"off", "frame", "attach", "answer", "prompt", "await", "archive",
          "cancelled"}
Job == [step : Steps, kind : {"unary", "stream", "background"}, task : Tasks,
        answer : Answer, open : BOOLEAN, result : Results \cup {NoResult}]

Work(step, kind, t, answer) ==
    [step |-> step, kind |-> kind, task |-> t, answer |-> answer,
     open |-> FALSE, result |-> NoResult]

Idle(w) == job[w].step = "off"
Assign(w, work) == Idle(w) /\ job' = [job EXCEPT ![w] = work]
Rest(w) == job' = [job EXCEPT ![w] = Work("off", "unary", job[w].task, NoAnswer)]
Goto(w, step) == job' = [job EXCEPT ![w].step = step]

-----------------------------------------------------------------------------
(* The snapshot. *)

\* Mutant: an update without a tool use leaves the pending one in place.
UpdateKeepsPending(t, state, tool) ==
    store' = [store EXCEPT ![t] =
        [state |-> state, terminal |-> state \in Terminal,
         pending |-> IF tool = NoTool THEN store[t].pending ELSE tool]]

\* SessionStore.update: the terminal flag and the pending tool go with the
\* snapshot, and whatever was there before is overwritten.
Update(t, state, tool) ==
    store' = [store EXCEPT ![t] =
        [state |-> state, terminal |-> state \in Terminal, pending |-> tool]]

\* map_result and classify_pause: whether a pause asks for a credential or
\* for a decision is in the words of the tool's description.
MappedStates(result) ==
    CASE result.status = "idle" -> {"COMPLETED"}
      [] result.status = "error" -> {"FAILED"}
      [] OTHER -> Interrupted

-----------------------------------------------------------------------------
(* The provider (external) and the driver's stream of its events. *)

Fault(kind) == /\ kind \in Faults /\ faults < MaxFaults /\ faults' = faults + 1

\* An event reaches the streams that are open; the reader returns the first.
Deliver(t, result) ==
    job' = [w \in Workers |->
        IF job[w].task = t /\ job[w].open /\ job[w].result = NoResult
        THEN [job[w] EXCEPT !.result = result] ELSE job[w]]

\* A turn ends: the session pauses on a tool, goes idle, or reports an error.
TurnEnds(t) ==
    /\ session[t].mode = "busy"
    /\ \/ \E k \in Tools :
            /\ asks < MaxAsks /\ asks' = asks + 1
            /\ session' = [session EXCEPT ![t] = [mode |-> "paused", tool |-> k]]
            /\ Deliver(t, [status |-> "blocked", tool |-> k])
       \/ \E status \in {"idle", "error"} :
            /\ session' = [session EXCEPT ![t].mode = "quiet"]
            /\ Deliver(t, [status |-> status, tool |-> NoTool])
            /\ UNCHANGED asks
    /\ UNCHANGED <<store, replies, alive, decided, faults>>

\* reach_human: a human answers on the callee's side; no call is involved.
HumanAnswers(t) ==
    /\ HumanHelps /\ session[t].mode = "paused"
    /\ session' = [session EXCEPT ![t] = [mode |-> "busy", tool |-> NoTool]]
    /\ UNCHANGED <<store, job, replies, alive, decided, faults, asks>>

\* The stream thread connects while the driver goes on; it carries the events
\* that are emitted from then on.
StreamOpens(w) ==
    /\ job[w].step \in {"prompt", "await"} /\ ~job[w].open
    /\ job[w].result = NoResult
    /\ job' = [job EXCEPT ![w].open = TRUE]
    /\ UNCHANGED <<store, session, replies, alive, decided, faults, asks>>

\* The stream closes: at its end the reader puts None, which run_until_block
\* takes for an idle session; on an OSError it puts a session.error first.
StreamCloses(w) ==
    /\ job[w].step \in {"prompt", "await"} /\ job[w].result = NoResult
    /\ \E status \in {"idle", "error"} :
         /\ \/ status = "idle" /\ job[w].open /\ Fault("ended")
            \/ status = "error" /\ Fault("dropped")
         /\ job' = [job EXCEPT ![w].open = FALSE,
                      ![w].result = [status |-> status, tool |-> NoTool]]
    /\ UNCHANGED <<store, session, replies, alive, decided, asks>>

\* A post the session does not accept is an HTTP error, a SystemExit that no
\* `except Exception' catches: a request answers 500, a background thread
\* dies, and the snapshot stays as it was.
Refused(w) == Rest(w) /\ UNCHANGED <<store, session, alive, decided>>

\* Mutant: the background run has no except.
UnreachableUncaught(w) ==
    /\ Fault("unreachable")
    /\ Rest(w)
    /\ UNCHANGED <<store, session, alive, decided>>

\* An unreachable provider is an Exception: the background run stores FAILED.
Unreachable(w) ==
    /\ Fault("unreachable")
    /\ Rest(w)
    /\ IF job[w].kind = "background"
       THEN Update(job[w].task, "FAILED", NoTool)
       ELSE UNCHANGED store
    /\ UNCHANGED <<session, alive, decided>>

-----------------------------------------------------------------------------
(* SendMessage and SendStreamingMessage without a task id. *)

Known(t) == store[t].state # "unknown"

\* _prepare creates the session and its record; the caller asked to wait, to
\* be answered at once while a thread runs, or for a stream of frames.
Start(t) ==
    /\ ~Known(t) /\ t \notin Unscoped /\ Idle(Loop)
    /\ session' = [session EXCEPT ![t].mode = "quiet"]
    /\ \/ /\ Assign(Loop, Work("prompt", "unary", t, NoAnswer))
          /\ Update(t, "SUBMITTED", NoTool)
       \/ \E w \in Threads :
            \/ /\ Assign(w, Work("prompt", "background", t, NoAnswer))
               /\ Update(t, "WORKING", NoTool)
            \/ /\ Assign(w, Work("frame", "stream", t, NoAnswer))
               /\ Update(t, "SUBMITTED", NoTool)
    /\ UNCHANGED <<replies, alive, decided, faults, asks>>

\* A missing scope is answered AUTH_REQUIRED under an id nothing stores.
ScopeRequired(t) ==
    /\ t \in Unscoped /\ Idle(Loop)
    /\ alive' = alive \cup {t}
    /\ UNCHANGED <<store, session, job, replies, decided, faults, asks>>

\* The loop pulls the next frame of a stream, and the run starts in a thread;
\* or the client is gone, and the generator is abandoned.
NextFrame(w) ==
    /\ job[w].step \in {"frame", "attach"}
    /\ \/ Idle(Loop) /\ Goto(w, IF job[w].step = "frame" THEN "prompt" ELSE "await")
       \/ Rest(w)
    /\ UNCHANGED <<store, session, replies, alive, decided, faults, asks>>

\* run_until_block posts the prompt.
PostPrompt(w) ==
    LET t == job[w].task IN
    /\ job[w].step = "prompt"
    /\ \/ /\ session[t].mode \in {"quiet", "busy"}
          /\ session' = [session EXCEPT ![t].mode = "busy"]
          /\ Goto(w, "await")
          /\ UNCHANGED <<store, alive, decided, faults>>
       \/ /\ session[t].mode \in {"paused", "archived"} /\ UNCHANGED faults
          /\ Refused(w)
       \/ Fault("refused") /\ Refused(w)
       \/ Unreachable(w)
    /\ UNCHANGED <<replies, asks>>

\* _run_and_store after run_until_block has returned: the result is mapped
\* and stored, whatever the snapshot has become in the meantime.
StoreResult(w) ==
    LET t == job[w].task
        result == job[w].result IN
    /\ job[w].step = "await" /\ result # NoResult
    /\ \E state \in MappedStates(result) :
         /\ Update(t, state, result.tool)
         /\ alive' = IF state \in Interrupted THEN alive \cup {t} ELSE alive
    /\ Rest(w)
    /\ UNCHANGED <<session, replies, decided, faults, asks>>

-----------------------------------------------------------------------------
(* A message with a task id: _continue. *)

\* The caller reads a pause and answers it; or it asks after a task that it
\* handed over, which ask_agent of the hand-off server sends as a message too.
SendReply(t) ==
    /\ Known(t) /\ replies.sent < MaxReplies
    /\ \E word \in Words, about \in {store[t].pending, NoTool} :
         /\ about = NoTool => word = "other"
         /\ replies' = [sent |-> replies.sent + 1, mail |-> replies.mail \cup
               {[task |-> t, about |-> about, word |-> word]}]
    /\ UNCHANGED <<store, session, job, alive, decided, faults, asks>>

\* The answer is for whatever tool use the snapshot names now; without one a
\* reply with text resumes the session, and the run goes on in any case.
Continue(w) ==
    /\ Idle(Loop)
    /\ \E r \in replies.mail :
         LET tool == store[r.task].pending
             kind == IF w = Loop THEN "unary" ELSE "stream"
             answer == [about |-> r.about, word |-> r.word, tool |-> tool] IN
         /\ Assign(w, IF tool = NoTool /\ r.word = "blank"
                      THEN Work("await", kind, r.task, NoAnswer)
                      ELSE Work("answer", kind, r.task, answer))
         /\ replies' = [replies EXCEPT !.mail = @ \ {r}]
    /\ UNCHANGED <<store, session, alive, decided, faults, asks>>

\* The post of confirm_tool, or of resume_session's message.  The session
\* takes a confirmation only of the tool use it is paused on.
PostAnswer(w) ==
    LET t == job[w].task
        a == job[w].answer
        fits == IF a.tool = NoTool THEN session[t].mode \in {"quiet", "busy"}
                ELSE session[t] = [mode |-> "paused", tool |-> a.tool] IN
    /\ job[w].step = "answer"
    /\ \/ /\ fits
          /\ session' = [session EXCEPT ![t] = [mode |-> "busy", tool |-> NoTool]]
          /\ decided' = IF a.tool = NoTool THEN decided ELSE decided \cup
               {[about |-> a.about, tool |-> a.tool, allow |-> a.word = "allow"]}
          /\ Goto(w, "await")
          /\ UNCHANGED <<store, alive, faults>>
       \/ ~fits /\ UNCHANGED faults /\ Refused(w)
       \/ Fault("refused") /\ Refused(w)
       \/ Unreachable(w)
    /\ UNCHANGED <<replies, asks>>

-----------------------------------------------------------------------------
(* CancelTask and SubscribeToTask. *)

\* cancel_task reads the terminal flag, then archives.
Cancel(t) ==
    /\ Known(t) /\ ~store[t].terminal
    /\ Assign(Loop, Work("archive", "unary", t, NoAnswer))
    /\ UNCHANGED <<store, session, replies, alive, decided, faults, asks>>

\* Mutant: an unreachable provider is swallowed as well.
ArchiveSwallows ==
    LET t == job[Loop].task IN
    /\ job[Loop].step = "archive"
    /\ \/ UNCHANGED faults
          /\ session' = [session EXCEPT ![t] = [mode |-> "archived", tool |-> NoTool]]
       \/ Fault("unreachable") /\ UNCHANGED session
    /\ Goto(Loop, "cancelled")
    /\ UNCHANGED <<store, alive, decided, replies, asks>>

\* The driver's archive_session swallows a refusal; an archived session ends
\* its streams with session.status_terminated.
Archive ==
    LET t == job[Loop].task IN
    /\ job[Loop].step = "archive"
    /\ \/ /\ session[t].mode # "archived"
          /\ session' = [session EXCEPT ![t] = [mode |-> "archived", tool |-> NoTool]]
          /\ job' = [w \in Workers |->
                IF w = Loop THEN [job[w] EXCEPT !.step = "cancelled"]
                ELSE IF job[w].task = t /\ job[w].open /\ job[w].result = NoResult
                THEN [job[w] EXCEPT !.result = [status |-> "error", tool |-> NoTool]]
                ELSE job[w]]
          /\ UNCHANGED <<store, alive, decided, faults>>
       \/ /\ session[t].mode = "archived" \/ "refused" \in Faults
          /\ IF session[t].mode = "archived" THEN UNCHANGED faults
             ELSE Fault("refused")
          /\ Goto(Loop, "cancelled")
          /\ UNCHANGED <<store, session, alive, decided>>
       \/ Unreachable(Loop)
    /\ UNCHANGED <<replies, asks>>

StoreCanceled ==
    /\ job[Loop].step = "cancelled"
    /\ Update(job[Loop].task, "CANCELED", NoTool)
    /\ Rest(Loop)
    /\ UNCHANGED <<session, replies, alive, decided, faults, asks>>

\* subscribe_to_task checks the terminal flag and hands out the snapshot; the
\* run of the same session follows with the next frame.
Subscribe(w, t) ==
    /\ Known(t) /\ ~store[t].terminal /\ Idle(Loop)
    /\ Assign(w, Work("attach", "stream", t, NoAnswer))
    /\ UNCHANGED <<store, session, replies, alive, decided, faults, asks>>

-----------------------------------------------------------------------------
NoRecord == [state |-> "unknown", terminal |-> FALSE, pending |-> NoTool]

Init ==
    /\ store = [t \in Tasks |-> NoRecord]
    /\ session = [t \in Tasks |-> [mode |-> "absent", tool |-> NoTool]]
    /\ job = [w \in Workers |-> Work("off", "unary", CHOOSE t \in Tasks : TRUE, NoAnswer)]
    /\ replies = [sent |-> 0, mail |-> {}]
    /\ alive = {} /\ decided = {}
    /\ faults = 0 /\ asks = 0

Run(w) == \/ StreamOpens(w) \/ StreamCloses(w) \/ PostPrompt(w) \/ StoreResult(w)
          \/ PostAnswer(w)

Next ==
    \/ \E t \in Tasks : \/ TurnEnds(t) \/ HumanAnswers(t) \/ Start(t)
                        \/ ScopeRequired(t) \/ SendReply(t) \/ Cancel(t)
                        \/ \E w \in Threads : Subscribe(w, t)
    \/ \E w \in Workers : Run(w) \/ Continue(w)
    \/ \E w \in Threads : NextFrame(w)
    \/ Archive \/ StoreCanceled

Spec == Init /\ [][Next]_vars

\* What is under way goes on: threads run, the loop serves the call it has,
\* the session ends its turns, and a stream that is being opened opens.
Fairness ==
    /\ \A t \in Tasks : WF_vars(TurnEnds(t))
    /\ \A w \in Workers : WF_vars(StreamOpens(w)) /\ WF_vars(PostPrompt(w))
                          /\ WF_vars(PostAnswer(w)) /\ WF_vars(StoreResult(w))
    /\ \A w \in Threads : WF_vars(NextFrame(w))
    /\ WF_vars(Archive) /\ WF_vars(StoreCanceled)

FairSpec == Spec /\ Fairness

-----------------------------------------------------------------------------
(* Properties. *)

\* Every variable stays in the set of values the code gives it.
A2ATypes ==
    /\ store \in [Tasks -> Record]
    /\ session \in [Tasks -> Session]
    /\ job \in [Workers -> Job]
    /\ replies.sent \in 0..MaxReplies /\ replies.mail \subseteq Reply
    /\ alive \subseteq Tasks
    /\ decided \subseteq [about : Tools \cup {NoTool}, tool : Tools, allow : BOOLEAN]
    /\ faults \in 0..MaxFaults /\ asks \in 0..MaxAsks

\* The three fields of a snapshot agree, whichever of the racing writers wrote
\* last: terminal exactly when the state is, and a tool use to confirm exactly
\* when the task is shown as interrupted (cancel_task refuses by the flag, and
\* _continue chooses by the pending tool).
SnapshotAgrees ==
    \A t \in Tasks :
        /\ store[t].terminal <=> store[t].state \in Terminal
        /\ store[t].pending # NoTool <=> store[t].state \in Interrupted

\* A task shown CANCELED has had its session archived (state-mapping.md: "the
\* adapter still reports CANCELED only once archival is confirmed").
CanceledIsArchived ==
    \A t \in Tasks :
        store[t].state = "CANCELED" => session[t].mode = "archived"

\* Nothing is allowed that was not approved: the tool use the provider is told
\* to run is the one the affirmative reply was written about.
AllowedWasApproved == \A d \in decided : d.allow => d.about = d.tool

\* Asking after a task decides nothing (spawn_agent: the result is "a Task the
\* caller polls via ask_agent").
PollsDecideNothing == \A d \in decided : d.about # NoTool

\* A terminal state is final (state-mapping.md calls COMPLETED, FAILED and
\* CANCELED terminal): it is when the event loop is the only worker, and with
\* threads a run that was overtaken by CancelTask stores its result last.
TerminalIsFinal ==
    [][\A t \in Tasks : store[t].terminal => store'[t].state = store[t].state]_vars

\* A task shown WORKING has a run under way ("not a resting state").
WorkingIsInFlight ==
    \A t \in Tasks : store[t].state = "WORKING" =>
        \E w \in Workers : ~Idle(w) /\ job[w].task = t

\* A task the caller was told is interrupted can be polled and answered.
InterruptedIsKnown == \A t \in alive : Known(t)

\* A caller that polls sees the end of a pause that a human has resolved.
PollingSees ==
    \A t \in Tasks :
        store[t].state \in Interrupted /\ session[t].mode = "quiet"
            ~> store[t].state \notin Interrupted
=============================================================================
