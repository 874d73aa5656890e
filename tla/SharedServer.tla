---------------------------- MODULE SharedServer ----------------------------
(***************************************************************************)
(* The event loop of the shared A2A server (agent-templates/a2a/server.py) *)
(* under hand-offs between the agents it serves.  `rpc' is a coroutine     *)
(* that dispatches a unary method without awaiting, so a SendMessage that  *)
(* waits for its session holds the loop; the session's agent may hand a    *)
(* goal to another tenant of the same server (handoff_mcp/server.py), by a *)
(* client without a timeout.  How a task is run is A2ATasks' subject.      *)
(***************************************************************************)
EXTENDS Naturals

CONSTANTS
    Calls,      \* SendMessage calls to this server
    Peers,      \* the ones an agent served here may make
    Polls,      \* GetTask calls
    Modes,      \* "wait" and "now": returnImmediately false and true
    NoCall

\* What is assumed of the constants.
SharedAssumption ==
    /\ NoCall \notin Calls /\ Peers \subseteq Calls
    /\ Modes \subseteq {"wait", "now"}

VARIABLES
    call,       \* each SendMessage on the wire
    work,       \* the session it started
    by,         \* the session that made the call, NoCall when a caller outside did
    serving,    \* the call that holds the event loop
    poll        \* each GetTask on the wire

vars == <<call, work, by, serving, poll>>

SharedTypes ==
    /\ call \in [Calls -> [sent : {"no", "waiting", "held", "answered"}, mode : Modes]]
    /\ work \in [Calls -> {"none", "working", "handing", "ended"}]
    /\ by \in [Calls -> Calls \cup {NoCall}]
    /\ serving \in Calls \cup {NoCall}
    /\ poll \in [Polls -> {"no", "waiting", "answered"}]

Free == serving = NoCall

\* The sessions that go on once the calls `done' are answered.
Resume(started, done) ==
    work' = [c \in Calls |->
        IF c \in started THEN "working"
        ELSE IF work[c] = "handing" /\ \E d \in done : by[d] = c THEN "working"
        ELSE work[c]]

Post(c, caller) ==
    /\ call[c].sent = "no"
    /\ \E m \in Modes : call' = [call EXCEPT ![c] = [sent |-> "waiting", mode |-> m]]
    /\ by' = [by EXCEPT ![c] = caller]
    /\ UNCHANGED <<serving, poll>>

\* A caller outside starts a task.
Send(c) == Post(c, NoCall) /\ UNCHANGED work

\* spawn_agent, ask_agent and reach_human post to the callee's server and read
\* the answer: with or without returnImmediately the agent waits for the post.
HandOff(a, c) ==
    /\ work[a] = "working" /\ c \in Peers
    /\ Post(c, a)
    /\ work' = [work EXCEPT ![a] = "handing"]

\* Mutant: a call that returns immediately is run on the loop as well.
AcceptHolds(c) ==
    /\ Free /\ call[c].sent = "waiting"
    /\ call' = [call EXCEPT ![c].sent = "held"] /\ serving' = c
    /\ Resume({c}, {})
    /\ UNCHANGED <<by, poll>>

\* The loop takes a call: _run_background answers at once, and a call that
\* waits holds the loop inside run_until_block.
Accept(c) ==
    /\ Free /\ call[c].sent = "waiting"
    /\ IF call[c].mode = "wait"
       THEN /\ call' = [call EXCEPT ![c].sent = "held"] /\ serving' = c
            /\ Resume({c}, {})
       ELSE /\ call' = [call EXCEPT ![c].sent = "answered"] /\ UNCHANGED serving
            /\ Resume({c}, {c})
    /\ UNCHANGED <<by, poll>>

\* The session ends its turn.
TurnEnds(c) ==
    /\ work[c] = "working"
    /\ work' = [work EXCEPT ![c] = "ended"]
    /\ UNCHANGED <<call, by, serving, poll>>

\* Mutant: the call is answered and the loop stays taken.
ReturnHolds(c) ==
    /\ serving = c /\ work[c] = "ended" /\ call[c].sent = "held"
    /\ call' = [call EXCEPT ![c].sent = "answered"]
    /\ Resume({}, {c})
    /\ UNCHANGED <<by, poll, serving>>

\* run_until_block comes back and the loop is free again.
Return(c) ==
    /\ serving = c /\ work[c] = "ended"
    /\ serving' = NoCall
    /\ call' = [call EXCEPT ![c].sent = "answered"]
    /\ Resume({}, {c})
    /\ UNCHANGED <<by, poll>>

AskStatus(p) ==
    /\ poll[p] = "no" /\ poll' = [poll EXCEPT ![p] = "waiting"]
    /\ UNCHANGED <<call, work, by, serving>>

\* GetTask answers from the snapshot, when the loop is free.
AnswerStatus(p) ==
    /\ Free /\ poll[p] = "waiting" /\ poll' = [poll EXCEPT ![p] = "answered"]
    /\ UNCHANGED <<call, work, by, serving>>

Init ==
    /\ call \in [Calls -> [sent : {"no"}, mode : {CHOOSE m \in Modes : TRUE}]]
    /\ work = [c \in Calls |-> "none"]
    /\ by = [c \in Calls |-> NoCall]
    /\ serving = NoCall
    /\ poll = [p \in Polls |-> "no"]

Next ==
    \/ \E c \in Calls : \/ Send(c) \/ Accept(c) \/ TurnEnds(c) \/ Return(c)
                        \/ \E a \in Calls : HandOff(a, c)
    \/ \E p \in Polls : AskStatus(p) \/ AnswerStatus(p)

\* The loop takes up what waits for it, and a session ends its turn unless it
\* waits for another one.
Fairness ==
    /\ \A c \in Calls : WF_vars(Accept(c)) /\ WF_vars(TurnEnds(c)) /\ WF_vars(Return(c))
    /\ \A p \in Polls : WF_vars(AnswerStatus(p))

Spec == Init /\ [][Next]_vars /\ Fairness

-----------------------------------------------------------------------------

\* A caller that polls is answered (state-mapping.md: "Polling until terminal,
\* or subscribing, is always safe"): it is when no call holds the loop, and
\* never again once a call that holds it hands over to the same server.
PollsAnswered == \A p \in Polls : poll[p] = "waiting" ~> poll[p] = "answered"

\* A session that handed a goal over goes on: nobody waits for itself.
HandOffsReturn == \A c \in Calls : work[c] = "handing" ~> work[c] # "handing"
=============================================================================
