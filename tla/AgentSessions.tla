---------------------------- MODULE AgentSessions ----------------------------
(***************************************************************************)
(* Agents and their chat sessions (agent_lifecycle_router.py).  Both live  *)
(* in dictionaries of the process.  A prompt is dispatched as a series of  *)
(* broadcasts to the sockets and to the event streams of its session; a    *)
(* termination is one more broadcast, after which it closes the sockets.   *)
(* Everything gives way at each send to a socket, and at the database.     *)
(***************************************************************************)
EXTENDS Naturals, FiniteSets, Sequences

CONSTANTS
    Agents,      \* agent ids
    Sessions,    \* session ids
    Sockets,     \* websockets of sessions
    Streams,     \* event streams of sessions
    Prompts,     \* messages that are dispatched
    Enders,      \* calls that terminate a session
    Steps,       \* broadcasts of a dispatch: status, thought, chunks, message, status
    MaxRestarts  \* bound: restarts of the process

\* What is assumed of the constants.
SessionsAssumption ==
    /\ Steps \in Nat \ {0} /\ MaxRestarts \in Nat /\ Prompts \cap Enders = {}
    /\ "none" \notin Sessions /\ {"none", "task"} \cap Sockets = {}

Speakers == Prompts \cup Enders

VARIABLES
    agents,     \* REGISTERED_AGENTS
    created,    \* history: agents whose creation was answered
    session,    \* status in ACTIVE_SESSIONS
    row,        \* status in chat_sessions
    starting,   \* sessions whose insert is under way
    subs,       \* SESSION_SUBSCRIBERS
    queues,     \* SESSION_QUEUES
    socket,     \* each socket: its session, where its handler is, its link, whether it came in time
    stream,     \* each stream: its session, whether it is open, whether it came in time
    queue,      \* what was put into its queue
    yielded,    \* how much of that the client was sent
    speaker,    \* each dispatch and each termination
    restarts

vars == <<agents, created, session, row, starting, subs, queues, socket, stream, queue, yielded, speaker, restarts>>

Silent == [of |-> "none", by |-> "none", at |-> "new", step |-> 0, todo |-> {}, dead |-> {}, for |-> {}]

SessionTypes ==
    /\ created \subseteq Agents /\ agents \subseteq Agents
    /\ session \in [Sessions -> {"new", "active", "terminated", "forgotten"}]
    /\ row \in [Sessions -> {"none", "active", "terminated"}]
    /\ subs \in [Sessions -> SUBSET Sockets] /\ queues \in [Sessions -> SUBSET Streams]
    /\ \A k \in Sockets : socket[k].at \in {"new", "greeting", "reading", "dispatching", "ended"}
                          /\ socket[k].link \in {"none", "open", "lost", "closed"}
    /\ \A x \in Speakers : speaker[x].at \in {"new", "ready", "sending", "closing", "recording", "done"}

Init ==
    /\ agents = {} /\ created = {}
    /\ session = [s \in Sessions |-> "new"] /\ row = [s \in Sessions |-> "none"] /\ starting = {}
    /\ subs = [s \in Sessions |-> {}] /\ queues = [s \in Sessions |-> {}]
    /\ socket = [k \in Sockets |-> [of |-> "none", at |-> "new", link |-> "none", early |-> FALSE]]
    /\ stream = [q \in Streams |-> [of |-> "none", at |-> "new", early |-> FALSE]]
    /\ queue = [q \in Streams |-> <<>>] /\ yielded = [q \in Streams |-> 0]
    /\ speaker = [x \in Speakers |-> Silent]
    /\ restarts = 0

agentVars == <<agents, created>>
tableVars == <<session, row, starting>>
streamVars == <<stream, queue, yielded>>

-----------------------------------------------------------------------------
\* The insert names no team, which the table of agents requires: it is refused
\* and that is logged.
CreateAgent(a) ==
    /\ a \notin created
    /\ agents' = agents \cup {a} /\ created' = created \cup {a}
    /\ UNCHANGED <<tableVars, subs, queues, socket, streamVars, speaker, restarts>>

\* What list_agents and get_agent find.
Listed == agents

-----------------------------------------------------------------------------
\* A dispatch begins with the streams that are there to hear it.
Dispatched(s, by) == [Silent EXCEPT !.of = s, !.by = by, !.at = "ready", !.for = queues[s]]

StartSession(s) ==
    /\ session[s] = "new"
    /\ session' = [session EXCEPT ![s] = "active"] /\ starting' = starting \cup {s}
    /\ subs' = [subs EXCEPT ![s] = {}] /\ queues' = [queues EXCEPT ![s] = {}]
    /\ UNCHANGED <<agentVars, row, socket, streamVars, speaker, restarts>>

\* The insert, which may be refused, and the initial prompt of those that have
\* one.
Started(s) ==
    /\ s \in starting /\ starting' = starting \ {s}
    /\ row' \in {row, [row EXCEPT ![s] = "active"]}
    /\ \/ UNCHANGED speaker
       \/ \E p \in Prompts : speaker[p].at = "new" /\ speaker' = [speaker EXCEPT ![p] = Dispatched(s, "task")]
    /\ UNCHANGED <<agentVars, session, subs, queues, socket, streamVars, restarts>>

PostMessage(p, s) ==
    /\ session[s] = "active" /\ speaker[p].at = "new"
    /\ speaker' = [speaker EXCEPT ![p] = Dispatched(s, "task")]
    /\ UNCHANGED <<agentVars, tableVars, subs, queues, socket, streamVars, restarts>>

-----------------------------------------------------------------------------
\* The next broadcast of a dispatch goes to the subscribers of that moment.
Broadcast(p) ==
    /\ speaker[p].at = "ready"
    /\ speaker' = [speaker EXCEPT ![p].at = "sending", ![p].step = @ + 1, ![p].todo = subs[speaker[p].of]]
    /\ UNCHANGED <<agentVars, tableVars, subs, queues, socket, streamVars, restarts>>

\* A send to a client that is gone may be noticed, one to a closed socket is.
Fails(k) == CASE socket[k].link = "open" -> {FALSE} [] socket[k].link = "lost" -> BOOLEAN [] OTHER -> {TRUE}

SendTo(x, k) ==
    /\ speaker[x].at = "sending" /\ k \in speaker[x].todo
    /\ \E failed \in Fails(k) :
        speaker' = [speaker EXCEPT ![x].todo = @ \ {k}, ![x].dead = IF failed THEN @ \cup {k} ELSE @]
    /\ UNCHANGED <<agentVars, tableVars, subs, queues, socket, streamVars, restarts>>

\* When the sockets are done, the dead ones are dropped and the event is put
\* into the queues that are there now.
Sent(x) == speaker[x].at = "sending" /\ speaker[x].todo = {}

Queued(s, event) == [q \in Streams |-> IF q \in queues[s] THEN Append(queue[q], event) ELSE queue[q]]

\* The bug of a send that raises out of the broadcast: the queues are passed over.
PutUnlessDead(p) ==
    LET s == speaker[p].of IN
    /\ Sent(p)
    /\ subs' = [subs EXCEPT ![s] = @ \ speaker[p].dead]
    /\ queue' = IF speaker[p].dead = {} THEN Queued(s, <<p, speaker[p].step>>) ELSE queue
    /\ LET over == speaker[p].step = Steps IN
       /\ speaker' = [speaker EXCEPT ![p].dead = {}, ![p].at = IF over THEN "done" ELSE "ready"]
       /\ socket' = [k \in Sockets |-> IF over /\ k = speaker[p].by THEN [socket[k] EXCEPT !.at = "reading"] ELSE socket[k]]
    /\ UNCHANGED <<agentVars, tableVars, queues, stream, yielded, restarts>>

Put(p) ==
    LET s == speaker[p].of IN
    /\ Sent(p)
    /\ subs' = [subs EXCEPT ![s] = @ \ speaker[p].dead]
    /\ queue' = Queued(s, <<p, speaker[p].step>>)
    /\ LET over == speaker[p].step = Steps IN
       /\ speaker' = [speaker EXCEPT ![p].dead = {}, ![p].at = IF over THEN "done" ELSE "ready"]
       /\ socket' = [k \in Sockets |-> IF over /\ k = speaker[p].by THEN [socket[k] EXCEPT !.at = "reading"] ELSE socket[k]]
    /\ UNCHANGED <<agentVars, tableVars, queues, stream, yielded, restarts>>

-----------------------------------------------------------------------------
\* A client may connect to any id it knows, also of a session that is over.
Connect(k, s) ==
    /\ session[s] # "new" /\ socket[k].at = "new"
    /\ socket' = [socket EXCEPT ![k] = [of |-> s, at |-> "greeting", link |-> "open", early |-> session[s] = "active"]]
    /\ subs' = [subs EXCEPT ![s] = @ \cup {k}]
    /\ UNCHANGED <<agentVars, tableVars, queues, streamVars, speaker, restarts>>

\* The greeting stands before the try: when it raises, the socket stays
\* subscribed until a broadcast finds it dead.
Greet(k) ==
    /\ socket[k].at = "greeting"
    /\ \E failed \in Fails(k) : socket' = [socket EXCEPT ![k].at = IF failed THEN "ended" ELSE "reading"]
    /\ UNCHANGED <<agentVars, tableVars, subs, queues, streamVars, speaker, restarts>>

\* The handler dispatches itself and does not ask whether the session is over.
Chat(k, p) ==
    /\ socket[k].at = "reading" /\ socket[k].link = "open" /\ speaker[p].at = "new"
    /\ speaker' = [speaker EXCEPT ![p] = Dispatched(socket[k].of, k)]
    /\ socket' = [socket EXCEPT ![k].at = "dispatching"]
    /\ UNCHANGED <<agentVars, tableVars, subs, queues, streamVars, restarts>>

Leave(k) ==
    /\ socket[k].link = "open" /\ socket' = [socket EXCEPT ![k].link = "lost"]
    /\ UNCHANGED <<agentVars, tableVars, subs, queues, streamVars, speaker, restarts>>

Disconnected(k) ==
    /\ socket[k].at = "reading" /\ socket[k].link # "open"
    /\ socket' = [socket EXCEPT ![k].at = "ended"]
    /\ subs' = [subs EXCEPT ![socket[k].of] = @ \ {k}]
    /\ UNCHANGED <<agentVars, tableVars, queues, streamVars, speaker, restarts>>

-----------------------------------------------------------------------------
OpenStream(q, s) ==
    /\ session[s] # "new" /\ stream[q].at = "new"
    /\ stream' = [stream EXCEPT ![q] = [of |-> s, at |-> "open", early |-> session[s] = "active"]]
    /\ queues' = [queues EXCEPT ![s] = @ \cup {q}]
    /\ UNCHANGED <<agentVars, tableVars, subs, socket, queue, yielded, speaker, restarts>>

CloseStream(q) ==
    /\ stream' = [stream EXCEPT ![q].at = "ended"]
    /\ queues' = [queues EXCEPT ![stream[q].of] = @ \ {q}]

\* The stream ends with the event of a termination.
Yield(q) ==
    /\ stream[q].at = "open" /\ yielded[q] < Len(queue[q])
    /\ yielded' = [yielded EXCEPT ![q] = @ + 1]
    /\ IF queue[q][yielded[q] + 1][1] \in Enders THEN CloseStream(q) ELSE UNCHANGED <<stream, queues>>
    /\ UNCHANGED <<agentVars, tableVars, subs, socket, queue, speaker, restarts>>

\* The client of the stream leaves.
Abandon(q) ==
    /\ stream[q].at = "open" /\ CloseStream(q)
    /\ UNCHANGED <<agentVars, tableVars, subs, socket, queue, yielded, speaker, restarts>>

-----------------------------------------------------------------------------
Terminate(e, s) ==
    /\ session[s] \in {"active", "terminated"} /\ speaker[e].at = "new"
    /\ session' = [session EXCEPT ![s] = "terminated"]
    /\ speaker' = [speaker EXCEPT ![e] = [Silent EXCEPT !.of = s, !.at = "sending", !.todo = subs[s]]]
    /\ UNCHANGED <<agentVars, row, starting, subs, queues, socket, streamVars, restarts>>

Announced(e) ==
    LET s == speaker[e].of left == subs[s] \ speaker[e].dead IN
    /\ Sent(e)
    /\ subs' = [subs EXCEPT ![s] = left] /\ queue' = Queued(s, <<e, 0>>)
    /\ speaker' = [speaker EXCEPT ![e].at = "closing", ![e].todo = left, ![e].dead = {}]
    /\ UNCHANGED <<agentVars, tableVars, queues, socket, stream, yielded, restarts>>

CloseSocket(e, k) ==
    /\ speaker[e].at = "closing" /\ k \in speaker[e].todo
    /\ speaker' = [speaker EXCEPT ![e].todo = @ \ {k}]
    /\ socket' = [socket EXCEPT ![k].link = IF @ = "open" THEN "closed" ELSE @]
    /\ UNCHANGED <<agentVars, tableVars, subs, queues, streamVars, restarts>>

\* Whoever has joined since the copy is dropped as well, and not closed.
Closed(e) ==
    /\ speaker[e].at = "closing" /\ speaker[e].todo = {}
    /\ subs' = [subs EXCEPT ![speaker[e].of] = {}]
    /\ speaker' = [speaker EXCEPT ![e].at = "recording"]
    /\ UNCHANGED <<agentVars, tableVars, queues, socket, streamVars, restarts>>

\* The update, which may be refused and finds a row only after the insert.
Record(e) ==
    LET s == speaker[e].of IN
    /\ speaker[e].at = "recording"
    /\ row' \in {row, [row EXCEPT ![s] = IF @ = "none" THEN "none" ELSE "terminated"]}
    /\ speaker' = [speaker EXCEPT ![e].at = "done"]
    /\ UNCHANGED <<agentVars, session, starting, subs, queues, socket, streamVars, restarts>>

\* Nothing but the rows outlives the process.
Restart ==
    /\ restarts < MaxRestarts /\ restarts' = restarts + 1
    /\ agents' = {} /\ starting' = {}
    /\ session' = [s \in Sessions |-> IF session[s] = "new" THEN "new" ELSE "forgotten"]
    /\ subs' = [s \in Sessions |-> {}] /\ queues' = [s \in Sessions |-> {}]
    /\ socket' = [k \in Sockets |-> IF socket[k].at = "new" THEN socket[k] ELSE [socket[k] EXCEPT !.at = "ended", !.link = "closed"]]
    /\ stream' = [q \in Streams |-> IF stream[q].at = "new" THEN stream[q] ELSE [stream[q] EXCEPT !.at = "ended"]]
    /\ speaker' = [x \in Speakers |-> IF speaker[x].at \in {"new", "done"} THEN speaker[x] ELSE [Silent EXCEPT !.at = "done"]]
    /\ UNCHANGED <<created, row, queue, yielded>>

-----------------------------------------------------------------------------
Next ==
    \/ \E a \in Agents : CreateAgent(a)
    \/ \E s \in Sessions : StartSession(s) \/ Started(s)
    \/ \E s \in Sessions, p \in Prompts : PostMessage(p, s)
    \/ \E p \in Prompts : Broadcast(p) \/ Put(p)
    \/ \E x \in Speakers, k \in Sockets : SendTo(x, k)
    \/ \E k \in Sockets, s \in Sessions : Connect(k, s)
    \/ \E k \in Sockets : Greet(k) \/ Leave(k) \/ Disconnected(k)
    \/ \E k \in Sockets, p \in Prompts : Chat(k, p)
    \/ \E q \in Streams, s \in Sessions : OpenStream(q, s)
    \/ \E q \in Streams : Yield(q) \/ Abandon(q)
    \/ \E e \in Enders, s \in Sessions : Terminate(e, s)
    \/ \E e \in Enders : Announced(e) \/ Closed(e) \/ Record(e)
    \/ \E e \in Enders, k \in Sockets : CloseSocket(e, k)
    \/ Restart

Spec == Init /\ [][Next]_vars

-----------------------------------------------------------------------------
\* The first k broadcasts of a speaker are in a queue, in order and once, and
\* nothing else of it is.
Heard(q, x) == {n \in DOMAIN queue[q] : queue[q][n][1] = x}

InOrder(q, x, k) ==
    /\ \A i \in 1..k : \E n \in Heard(q, x) : queue[q][n][2] = i
    /\ \A n \in Heard(q, x) : queue[q][n][2] \in 1..k
    /\ \A m, n \in Heard(q, x) : m < n => queue[q][m][2] < queue[q][n][2]

\* A stream that is open from the acceptance of a prompt to the end of its
\* dispatch has the whole reply in its queue, in order and once, whatever
\* sockets fail and whatever else is dispatched or terminated meanwhile.
RepliesAreWhole ==
    \A p \in Prompts : speaker[p].at = "done" =>
        \A q \in speaker[p].for : stream[q].at = "open" => InOrder(q, p, Steps)

\* When a termination is answered, every socket that came while the session
\* was active has been closed and every stream has been told.
TerminatedIsClosed ==
    \A e \in Enders : speaker[e].at = "done" /\ speaker[e].of # "none" =>
        /\ \A k \in Sockets : socket[k].of = speaker[e].of /\ socket[k].early => socket[k].link # "open"
        /\ \A q \in Streams : stream[q].of = speaker[e].of /\ stream[q].early /\ stream[q].at = "open" =>
             \E i \in DOMAIN queue[q] : queue[q][i][1] \in Enders

\* Not met, because nobody looks whether the session is over: when a
\* termination is answered, nobody subscribes the session any more.
TerminatedIsDeserted == \A s \in Sessions : session[s] = "terminated" /\ (\E e \in Enders : speaker[e].at = "done" /\ speaker[e].of = s) =>
    \A k \in Sockets : socket[k].of = s => socket[k].link # "open"

\* Not met, because the termination does not wait for the insert and either
\* may be refused: a terminated session is recorded as such.
EndedIsRecorded == \A e \in Enders : speaker[e].at = "done" /\ speaker[e].of # "none" /\ starting = {} => row[speaker[e].of] # "active"

\* Not met, because agents are kept in memory only: an agent that was created
\* is listed.
CreatedIsListed == created \subseteq Listed
=============================================================================
