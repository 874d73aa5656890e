------------------------------- MODULE PodRelay -------------------------------
(***************************************************************************)
(* The relay between browsers and pods (image_registry_router.py).  A pod  *)
(* opens a websocket, whose handler enters it into CONNECTED_AGENT_PODS    *)
(* under the id in the URL, or a default one, and again under the id that  *)
(* the pod's first message names.  The handler of a browser takes one chat *)
(* message at a time: it announces the work to its own browser, looks the  *)
(* pod up and sends it the message, or streams a model's answer itself.    *)
(* What a pod sends is broadcast to every browser of ACTIVE_CHAT_CLIENTS.  *)
(* A network that loses a connection does not tell the orchestrator.       *)
(***************************************************************************)
EXTENDS Naturals, FiniteSets

CONSTANTS
    Agents,       \* agent ids
    Default,      \* the id of a pod whose URL names none
    Sockets,      \* connections of pods, each used once
    Prompts,      \* chat messages
    Browsers,     \* chat clients
    NetworkLosses \* bound: connections whose end is not noticed at once

\* What is assumed of the constants.
RelayAssumption == Default \in Agents /\ NetworkLosses \in Nat

None == "none"

VARIABLES
    agent,    \* the agent whose pod opened the socket
    key,      \* resolved_id of its handler
    sock,     \* the socket: "new", "open", "lost" (nobody is at the far end), "closed"
    handler,  \* its handler: "no", "greeting" (nothing received yet), "reading", "ended"
    relay,    \* CONNECTED_AGENT_PODS
    prompt,   \* each message, see RelayTypes
    to,       \* the browser it is from, the agent it is for, the socket it was relayed to
    browser,  \* each client: "no", "open", "gone" (its handler has not noticed), "left"
    clients,  \* ACTIVE_CHAT_CLIENTS
    sending,  \* of each pod's handler: whom it still sends a message to, who was dead, what it answers
    losses

vars == <<agent, key, sock, handler, relay, prompt, to, browser, clients, sending, losses>>

podVars == <<agent, key, sock, handler, relay, losses>>
chatVars == <<prompt, to>>
webVars == <<browser, clients, sending>>

Nothing == [left |-> {}, dead |-> {}, busy |-> FALSE, of |-> None]

\* A message is asked, announced, answered here or relayed, run by the pod and
\* sent out; "answered" when the browser it is from has the answer, "dropped"
\* when there is no such browser any more.
RelayTypes ==
    /\ agent \in [Sockets -> Agents \cup {None}] /\ key \in [Sockets -> Agents \cup {None}]
    /\ relay \in [Agents -> Sockets \cup {None}]
    /\ sock \in [Sockets -> {"new", "open", "lost", "closed"}]
    /\ handler \in [Sockets -> {"no", "greeting", "reading", "ended"}]
    /\ prompt \in [Prompts -> {"new", "asked", "announced", "local", "relayed", "running", "sent", "answered", "dropped"}]
    /\ to \in [Prompts -> [from : Browsers \cup {None}, agent : Agents \cup {None}, socket : Sockets \cup {None}]]
    /\ browser \in [Browsers -> {"no", "open", "gone", "left"}] /\ clients \subseteq Browsers
    /\ \A s \in Sockets : sending[s].left \subseteq Browsers /\ sending[s].dead \subseteq Browsers
    /\ losses \in 0..NetworkLosses

Init ==
    /\ agent = [s \in Sockets |-> None] /\ key = agent /\ relay = [a \in Agents |-> None]
    /\ sock = [s \in Sockets |-> "new"] /\ handler = [s \in Sockets |-> "no"]
    /\ prompt = [m \in Prompts |-> "new"] /\ to = [m \in Prompts |-> [from |-> None, agent |-> None, socket |-> None]]
    /\ browser = [b \in Browsers |-> "no"] /\ clients = {}
    /\ sending = [s \in Sockets |-> Nothing] /\ losses = 0

-----------------------------------------------------------------------------

\* A pod of agent a connects, by a URL that names it or by one that does not.
PodConnects(s, a, k) ==
    /\ sock[s] = "new" /\ k \in {a, Default}
    /\ agent' = [agent EXCEPT ![s] = a] /\ key' = [key EXCEPT ![s] = k]
    /\ sock' = [sock EXCEPT ![s] = "open"] /\ handler' = [handler EXCEPT ![s] = "greeting"]
    /\ relay' = [relay EXCEPT ![k] = s]
    /\ UNCHANGED <<losses, chatVars, webVars>>

\* The pod goes, or its network does: the orchestrator has not noticed yet.
PodGoes(s) ==
    /\ sock[s] = "open" /\ losses < NetworkLosses /\ losses' = losses + 1
    /\ sock' = [sock EXCEPT ![s] = "lost"]
    /\ UNCHANGED <<agent, key, handler, relay, chatVars, webVars>>

SocketCloses(s) ==
    /\ sock[s] = "lost" /\ sock' = [sock EXCEPT ![s] = "closed"]
    /\ UNCHANGED <<agent, key, handler, relay, losses, chatVars, webVars>>

\* A message is broadcast to a copy of the list, m being the chat message that
\* it answers.
Begin(s, m) == sending' = [sending EXCEPT ![s] = [left |-> clients, dead |-> {}, busy |-> TRUE, of |-> m]]

\* Mutant: the handler goes on under the id it began with.
PodRegistersTwice(s) ==
    /\ handler[s] = "greeting" /\ sock[s] \in {"open", "lost"}
    /\ relay' = [relay EXCEPT ![agent[s]] = s] /\ handler' = [handler EXCEPT ![s] = "reading"]
    /\ Begin(s, None)
    /\ UNCHANGED <<agent, key, sock, losses, browser, clients, chatVars>>

\* The first message of a pod names its agent: the handler takes that id for
\* its own and adds the entry.  One under another id stays.
PodRegisters(s) ==
    /\ handler[s] = "greeting" /\ sock[s] \in {"open", "lost"}
    /\ key' = [key EXCEPT ![s] = agent[s]] /\ handler' = [handler EXCEPT ![s] = "reading"]
    /\ relay' = IF key[s] = agent[s] THEN relay ELSE [relay EXCEPT ![agent[s]] = s]
    /\ Begin(s, None)
    /\ UNCHANGED <<agent, sock, losses, browser, clients, chatVars>>

\* The finally of agent_relay_websocket deletes the entry of the id the handler
\* has last, also when a later connection has replaced this one there.
HandlerEnds(s) ==
    /\ handler[s] \in {"greeting", "reading"} /\ sock[s] = "closed" /\ ~sending[s].busy
    /\ handler' = [handler EXCEPT ![s] = "ended"] /\ relay' = [relay EXCEPT ![key[s]] = None]
    /\ UNCHANGED <<agent, key, sock, losses, chatVars, webVars>>

BrowserConnects(b) ==
    /\ browser[b] = "no" /\ browser' = [browser EXCEPT ![b] = "open"]
    /\ clients' = clients \cup {b}
    /\ UNCHANGED <<sending, podVars, chatVars>>

BrowserGoes(b) ==
    /\ browser[b] = "open" /\ browser' = [browser EXCEPT ![b] = "gone"]
    /\ UNCHANGED <<clients, sending, podVars, chatVars>>

\* The handler of a browser works on a message of it.
Busy(b) == \E m \in Prompts : to[m].from = b /\ prompt[m] \in {"asked", "announced", "local"}

\* The finally of multi_agent_websocket.
Leave(b) == browser' = [browser EXCEPT ![b] = "left"] /\ clients' = clients \ {b}

\* The handler waits for the next message when it learns of the end.
BrowserLeaves(b) ==
    /\ browser[b] = "gone" /\ ~Busy(b) /\ Leave(b)
    /\ UNCHANGED <<sending, podVars, chatVars>>

\* A send to the browser raises: the handler ends, and its message with it.
SendRaises(m) ==
    /\ browser[to[m].from] = "gone" /\ Leave(to[m].from)
    /\ prompt' = [prompt EXCEPT ![m] = "dropped"]
    /\ UNCHANGED <<to, sending, podVars>>

-----------------------------------------------------------------------------

\* A chat message arrives.
Ask(m, b, a) ==
    /\ prompt[m] = "new" /\ browser[b] = "open" /\ ~Busy(b)
    /\ prompt' = [prompt EXCEPT ![m] = "asked"]
    /\ to' = [to EXCEPT ![m] = [from |-> b, agent |-> a, socket |-> None]]
    /\ UNCHANGED <<podVars, webVars>>

\* Its browser is told the status and the thought; a send to one that has gone
\* may pass unseen.
Announce(m) ==
    /\ prompt[m] = "asked"
    /\ \/ SendRaises(m)
       \/ prompt' = [prompt EXCEPT ![m] = "announced"] /\ UNCHANGED <<to, podVars, webVars>>

\* The pod of the agent, or of its running sandbox, which has an id of its own.
PodsFor(a) == IF relay[a] # None THEN {relay[a]} ELSE {None} \cup {relay[i] : i \in Agents}

\* A message goes to the pod when there is one and the send does not raise.
LookUp(m) ==
    /\ prompt[m] = "announced"
    /\ \E s \in PodsFor(to[m].agent) :
         \/ /\ s # None /\ sock[s] \in {"open", "lost"}
            /\ prompt' = [prompt EXCEPT ![m] = "relayed"] /\ to' = [to EXCEPT ![m].socket = s]
         \/ /\ s # None => sock[s] \in {"lost", "closed"}
            /\ prompt' = [prompt EXCEPT ![m] = "local"] /\ UNCHANGED to
    /\ UNCHANGED <<podVars, webVars>>

\* The model's answer, or the stock one when the model fails, is streamed to
\* the browser that asked.
AnswerHere(m) ==
    /\ prompt[m] = "local"
    /\ \/ SendRaises(m)
       \/ /\ prompt' = [prompt EXCEPT ![m] = IF browser[to[m].from] = "open" THEN "answered" ELSE "dropped"]
          /\ UNCHANGED <<to, podVars, webVars>>

PodRuns(m) ==
    /\ prompt[m] = "relayed" /\ sock[to[m].socket] = "open"
    /\ prompt' = [prompt EXCEPT ![m] = "running"]
    /\ UNCHANGED <<to, podVars, webVars>>

\* A pod answers over the connection it has then; the handler begins to
\* broadcast the answer.
PodAnswers(m) ==
    LET asked == to[m].socket IN
      \E s \in Sockets :
        /\ prompt[m] = "running" /\ sock[s] = "open" /\ handler[s] = "reading" /\ ~sending[s].busy
        /\ s = asked \/ (sock[asked] # "open" /\ agent[s] = agent[asked])
        /\ prompt' = [prompt EXCEPT ![m] = "sent"] /\ Begin(s, m)
        /\ UNCHANGED <<to, browser, clients, podVars>>

\* A browser has received a message that answers m.
Hear(m, b) == prompt' = IF m # None /\ to[m].from = b THEN [prompt EXCEPT ![m] = "answered"] ELSE prompt

\* Mutant: the first client that cannot be sent to ends the round.
SendUntilDead(s, b) ==
    /\ b \in sending[s].left
    /\ IF browser[b] = "open"
       THEN /\ sending' = [sending EXCEPT ![s].left = @ \ {b}]
            /\ Hear(sending[s].of, b)
       ELSE sending' = [sending EXCEPT ![s].left = {}, ![s].dead = {b}] /\ UNCHANGED prompt
    /\ UNCHANGED <<to, browser, clients, podVars>>

\* Each send is awaited; one to a client that has gone raises or passes unseen.
SendTo(s, b) ==
    /\ b \in sending[s].left
    /\ \/ /\ browser[b] = "open" /\ sending' = [sending EXCEPT ![s].left = @ \ {b}]
          /\ Hear(sending[s].of, b)
       \/ /\ browser[b] # "open" /\ UNCHANGED prompt
          /\ sending' = [sending EXCEPT ![s].left = @ \ {b}, ![s].dead = @ \cup {b}]
       \/ browser[b] = "gone" /\ sending' = [sending EXCEPT ![s].left = @ \ {b}] /\ UNCHANGED prompt
    /\ UNCHANGED <<to, browser, clients, podVars>>

\* Clients that could not be sent to are dropped when they are still there.
DropDead(s) ==
    /\ sending[s].busy /\ sending[s].left = {}
    /\ clients' = clients \ sending[s].dead
    /\ sending' = [sending EXCEPT ![s] = Nothing]
    /\ UNCHANGED <<browser, podVars, chatVars>>

Broadcast(s) == DropDead(s) \/ \E b \in Browsers : SendTo(s, b)

Next ==
    \/ \E s \in Sockets :
         \/ \E a, k \in Agents : PodConnects(s, a, k)
         \/ PodRegisters(s) \/ PodGoes(s) \/ SocketCloses(s) \/ HandlerEnds(s) \/ Broadcast(s)
    \/ \E b \in Browsers : BrowserConnects(b) \/ BrowserGoes(b) \/ BrowserLeaves(b)
    \/ \E m \in Prompts :
         \/ \E b \in Browsers, a \in Agents : Ask(m, b, a)
         \/ Announce(m) \/ LookUp(m) \/ AnswerHere(m) \/ PodRuns(m) \/ PodAnswers(m)

Spec == Init /\ [][Next]_vars

\* Handlers run, a broken connection is noticed some time, pods register and
\* work.
Fairness ==
    /\ \A s \in Sockets :
         WF_vars(PodRegisters(s)) /\ WF_vars(SocketCloses(s)) /\ WF_vars(HandlerEnds(s)) /\ WF_vars(Broadcast(s))
    /\ \A b \in Browsers : WF_vars(BrowserLeaves(b))
    /\ \A m \in Prompts :
         /\ WF_vars(Announce(m)) /\ WF_vars(LookUp(m)) /\ WF_vars(AnswerHere(m))
         /\ WF_vars(PodRuns(m)) /\ SF_vars(PodAnswers(m))

FairSpec == Spec /\ Fairness

-----------------------------------------------------------------------------

\* The entry under an id that is not the default one is never of a handler that
\* has ended or goes by another id, whoever connects, registers and ends in
\* between: a message for an agent finds a socket that somebody reads.
NamedEntriesLive ==
    \A a \in Agents \ {Default} :
        relay[a] # None => handler[relay[a]] \in {"greeting", "reading"} /\ key[relay[a]] = a

\* The same of every entry.
NoDeadEntry == \A a \in Agents : relay[a] # None => handler[relay[a]] # "ended"

\* Nobody who listens is dropped from the clients, whichever handlers send,
\* drop and leave at the same time.
ListenersStay == \A b \in Browsers : browser[b] = "open" => b \in clients

\* The answer to a message reaches the browser that asked, by the pod's
\* broadcast or from here, whoever else goes in between: unless that browser
\* goes itself, or the pod the message went to goes before it has answered.
EveryPromptAnswered ==
    \A m \in Prompts : prompt[m] = "asked" ~>
        \/ prompt[m] = "answered"
        \/ \E b \in Browsers : to[m].from = b /\ browser[b] # "open"
        \/ prompt[m] \in {"relayed", "running"} /\ sock[to[m].socket] \in {"lost", "closed"}

\* "a live pod WebSocket relay is connected for this agent": an open connection
\* of an agent's pod is the one that its messages go to.
ConnectedIsReached ==
    \A s \in Sockets : sock[s] = "open" /\ handler[s] = "reading" => relay[agent[s]] = s
=============================================================================
