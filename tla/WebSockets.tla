----------------------------- MODULE WebSockets -----------------------------
(***************************************************************************)
(* The sockets over which browsers follow agents, teams and organizations  *)
(* (websocket_manager.py and its endpoints).  Everything runs on one event *)
(* loop: a coroutine gives way only where it sends or receives, so another *)
(* one may connect, leave or be swept out between two sends of an update.  *)
(***************************************************************************)
EXTENDS Naturals, FiniteSets, Sequences

CONSTANTS
    Conns,     \* connection ids, one for each socket (a uuid)
    Feeds,     \* agents, teams and organizations that a socket may follow
    scope,     \* the feeds of each connection
    Talkers,   \* connections of /ws/updates, which may change what they subscribe
    Updates,   \* updates that are sent, each once
    All        \* the target of a broadcast

\* What is assumed of the constants.
SocketsAssumption ==
    IsFiniteSet(Conns) /\ scope \in [Conns -> SUBSET Feeds] /\ Talkers \subseteq Conns /\ All \notin Feeds

VARIABLES
    order,       \* every key that entered the dict connections, oldest first
    registered,  \* the keys of connections
    index,       \* agent_connections, team_connections and org_connections
    subs,        \* its subscription to the type of the updates
    connected,   \* its flag connected
    stale,       \* its last ping is older than five minutes
    client,      \* the far end of the socket
    handler,     \* the coroutine of the endpoint
    send,        \* each update on its way
    due, got     \* history: whom it was for, whom it reached

sockets == <<order, registered, index, subs, connected, stale, client, handler>>
vars == <<sockets, send, due, got>>

Unsent == [at |-> "new", to |-> All, todo |-> {}, failed |-> {}, pos |-> 0, size |-> 0, visited |-> 0]

SocketTypes ==
    /\ order \in Seq(Conns) /\ registered \subseteq Conns
    /\ index \in [Feeds -> SUBSET Conns]
    /\ subs \in [Conns -> {"asked", "dropped", "renewed"}]
    /\ connected \in [Conns -> BOOLEAN] /\ stale \in [Conns -> BOOLEAN]
    /\ client \in [Conns -> {"open", "closed", "lost"}]
    /\ handler \in [Conns -> {"new", "confirming", "serving", "over"}]
    /\ due \in [Updates -> SUBSET Conns] /\ got \in [Updates -> SUBSET Conns]

Init ==
    /\ order = <<>> /\ registered = {}
    /\ index = [f \in Feeds |-> {}]
    /\ subs = [c \in Conns |-> "asked"]
    /\ connected = [c \in Conns |-> FALSE] /\ stale = connected
    /\ client = [c \in Conns |-> "open"]
    /\ handler = [c \in Conns |-> "new"]
    /\ send = [u \in Updates |-> Unsent]
    /\ due = [u \in Updates |-> {}] /\ got = due

-----------------------------------------------------------------------------
\* The life of a socket.

At(c, place) == handler[c] = place

Go(c, place) == handler' = [handler EXCEPT ![c] = place]

\* connect: the socket is accepted, entered and indexed without giving way.
Connect(c) ==
    /\ At(c, "new") /\ Go(c, "confirming")
    /\ order' = Append(order, c) /\ registered' = registered \cup {c}
    /\ index' = [f \in Feeds |-> IF f \in scope[c] THEN index[f] \cup {c} ELSE index[f]]
    /\ connected' = [connected EXCEPT ![c] = TRUE]
    /\ UNCHANGED <<subs, stale, client, send, due, got>>

\* What send_update answers: a closed socket raises and the flag falls, a lost
\* one may still take the frame.
SendOk(c) == connected[c] /\ client[c] # "closed"
SendFails(c) == ~connected[c] \/ client[c] # "open"

\* The confirmation that the socket is connected.
Confirm(c) ==
    /\ At(c, "confirming") /\ Go(c, "serving")
    /\ \/ SendOk(c) /\ UNCHANGED connected
       \/ SendFails(c) /\ connected' = [connected EXCEPT ![c] = FALSE]
    /\ UNCHANGED <<order, registered, index, subs, stale, client, send, due, got>>

\* A ping is answered and renews last_ping.
Ping(c) ==
    /\ At(c, "serving") /\ client[c] = "open" /\ stale' = [stale EXCEPT ![c] = FALSE]
    /\ UNCHANGED <<order, registered, index, subs, connected, client, handler, send, due, got>>

\* The client replaces its subscriptions; this does not renew last_ping.
Subscribe(c) ==
    /\ c \in Talkers /\ At(c, "serving") /\ client[c] = "open"
    /\ subs' = [subs EXCEPT ![c] = IF @ = "dropped" THEN "renewed" ELSE "dropped"]
    /\ UNCHANGED <<order, registered, index, connected, stale, client, handler, send, due, got>>

\* The client closes its end, or the network takes it away.
Leave(c) ==
    /\ handler[c] \in {"confirming", "serving"} /\ client[c] = "open"
    /\ \E end \in {"closed", "lost"} : client' = [client EXCEPT ![c] = end]
    /\ UNCHANGED <<order, registered, index, subs, connected, stale, handler, send, due, got>>

\* Mutant: the index of a feed goes with the first of its connections.
ForgetFeeds(gone) ==
    /\ registered' = registered \ gone
    /\ connected' = [c \in Conns |-> connected[c] /\ c \notin gone]
    /\ index' = [f \in Feeds |-> IF index[f] \cap gone # {} THEN {} ELSE index[f]]

\* disconnect, of every connection in gone; it gives way nowhere.
Disconnect(gone) ==
    /\ registered' = registered \ gone
    /\ connected' = [c \in Conns |-> connected[c] /\ c \notin gone]
    /\ index' = [f \in Feeds |-> index[f] \ gone]

\* The endpoint learns that its client has gone and disconnects.
Finish(c) ==
    /\ At(c, "serving") /\ client[c] # "open" /\ Go(c, "over")
    /\ Disconnect({c} \cap registered)
    /\ UNCHANGED <<order, subs, stale, client, send, due, got>>

\* Five minutes go by without a ping.
Age(c) ==
    /\ c \in registered /\ ~stale[c] /\ stale' = [stale EXCEPT ![c] = TRUE]
    /\ UNCHANGED <<order, registered, index, subs, connected, client, handler, send, due, got>>

\* Mutant: the sweep leaves to broadcast_update what a send has failed on.
SweepConnected ==
    LET gone == {c \in registered : stale[c] /\ connected[c]} IN
    /\ gone # {} /\ Disconnect(gone)
    /\ UNCHANGED <<order, subs, stale, client, handler, send, due, got>>

\* _cleanup_task: every minute the stale connections are disconnected.
Sweep ==
    LET gone == {c \in registered : stale[c]} IN
    /\ gone # {} /\ Disconnect(gone)
    /\ UNCHANGED <<order, subs, stale, client, handler, send, due, got>>

-----------------------------------------------------------------------------
\* The way of an update.

Subscribed(c) == subs[c] # "dropped"

SendTo(u, c) ==
    \/ SendOk(c) /\ UNCHANGED connected
       /\ got' = [got EXCEPT ![u] = IF client[c] = "open" THEN @ \cup {c} ELSE @]
    \/ SendFails(c) /\ UNCHANGED got /\ connected' = [connected EXCEPT ![c] = FALSE]

\* send_to_agent, send_to_team or send_to_organization copies the set of ids;
\* a broadcast begins to iterate over connections itself.
Start(u, target) ==
    /\ send[u].at = "new"
    /\ send' = [send EXCEPT ![u] =
          IF target = All THEN [@ EXCEPT !.at = "iterating", !.size = Cardinality(registered)]
          ELSE [@ EXCEPT !.at = "sending", !.to = target, !.todo = index[target]]]
    /\ due' = [due EXCEPT ![u] = {c \in registered : target = All \/ target \in scope[c]}]
    /\ UNCHANGED <<sockets, got>>

\* The next id of the copy, if it is still a connection that should receive it.
Deliver(u, c) ==
    /\ send[u].at = "sending" /\ c \in send[u].todo
    /\ send' = [send EXCEPT ![u].todo = @ \ {c}]
    /\ IF c \in registered /\ Subscribed(c) THEN SendTo(u, c) ELSE UNCHANGED <<got, connected>>
    /\ UNCHANGED <<order, registered, index, subs, stale, client, handler, due>>

Delivered(u) ==
    /\ send[u].at = "sending" /\ send[u].todo = {}
    /\ send' = [send EXCEPT ![u].at = "done"]
    /\ UNCHANGED <<sockets, due, got>>

\* The keys that the iterator of a broadcast has before it.
Ahead(u) == {i \in 1..Len(order) : i > send[u].pos /\ order[i] \in registered}

\* The dict has grown or shrunk since the iteration began, or offers more keys
\* than it had: RuntimeError.
Upset(u) ==
    \/ Cardinality(registered) # send[u].size
    \/ Ahead(u) # {} /\ send[u].visited = send[u].size

\* The next connection of a broadcast.
Visit(u) ==
    /\ send[u].at = "iterating" /\ ~Upset(u) /\ Ahead(u) # {}
    /\ LET i == CHOOSE j \in Ahead(u) : \A k \in Ahead(u) : j <= k
           c == order[i] IN
       /\ IF connected[c] /\ Subscribed(c) THEN SendTo(u, c) ELSE UNCHANGED <<got, connected>>
       /\ send' = [send EXCEPT ![u] = [@ EXCEPT
             !.pos = i, !.visited = send[u].visited + 1,
             !.failed = IF connected'[c] THEN send[u].failed ELSE send[u].failed \cup {c}]]
    /\ UNCHANGED <<order, registered, index, subs, stale, client, handler, due>>

\* A broadcast that is through disconnects what it failed on.
Visited(u) ==
    /\ send[u].at = "iterating" /\ ~Upset(u) /\ Ahead(u) = {}
    /\ Disconnect(send[u].failed \cap registered)
    /\ send' = [send EXCEPT ![u].at = "done"]
    /\ UNCHANGED <<order, subs, stale, client, handler, due, got>>

\* A broadcast that raises reaches nobody further and disconnects nothing.
Raise(u) ==
    /\ send[u].at = "iterating" /\ Upset(u)
    /\ send' = [send EXCEPT ![u].at = "raised"]
    /\ UNCHANGED <<sockets, due, got>>

-----------------------------------------------------------------------------

Next ==
    \/ \E c \in Conns :
          \/ Connect(c) \/ Confirm(c) \/ Ping(c) \/ Subscribe(c) \/ Leave(c) \/ Finish(c) \/ Age(c)
    \/ Sweep
    \/ \E u \in Updates :
          \/ \E target \in Feeds \cup {All} : Start(u, target)
          \/ \E c \in Conns : Deliver(u, c)
          \/ Delivered(u) \/ Visit(u) \/ Visited(u) \/ Raise(u)

\* The loop runs what is ready, the clock goes on, and a client that closes is
\* noticed; one that the network took away may never be.
Fairness ==
    /\ \A c \in Conns : WF_vars(Confirm(c)) /\ WF_vars(client[c] = "closed" /\ Finish(c))
                     /\ WF_vars(client[c] # "open" /\ Age(c))
    /\ WF_vars(Sweep)

Spec == Init /\ [][Next]_vars
FairSpec == Spec /\ Fairness

-----------------------------------------------------------------------------
\* When an update has been sent, every client that follows its target, and was
\* there all along with the subscription it came with, has it: whoever else
\* connected, left, was swept out or failed meanwhile (websocket_manager.py:310).
WatchersAreTold ==
    \A u \in Updates : send[u].at = "done" =>
        \A c \in due[u] :
            c \in registered /\ client[c] = "open" /\ subs[c] = "asked" => c \in got[u]

\* A connection whose client has gone does not stay registered, also when the
\* endpoint never learns of it and whatever its sends answered
\* (websocket_manager.py:341).
GoneIsForgotten ==
    \A c \in Conns : (c \in registered /\ client[c] # "open") ~> c \notin registered

\* A broadcast reaches its end.  The code does not meet this: a socket that
\* connects or leaves while an update is being sent changes the dict that is
\* being iterated (websocket_manager.py:279).
BroadcastsEnd == \A u \in Updates : send[u].at # "raised"

\* A client whose socket is open goes on receiving updates.  The code does not
\* meet this: five minutes without a ping end it, whatever else the client
\* sends, and the socket stays open (websocket_manager.py:352).
OpenIsRegistered == \A c \in Conns : At(c, "serving") /\ client[c] = "open" => c \in registered
=============================================================================
