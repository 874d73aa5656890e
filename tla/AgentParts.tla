----------------------------- MODULE AgentParts -----------------------------
(***************************************************************************)
(* What an agent lives in: the loop that works off its tasks, its memory,  *)
(* the relay to its pod and the sockets that follow it.  The parts share   *)
(* no state.  What is checked of them and what is proved of them is said   *)
(* here once.                                                              *)
(***************************************************************************)
EXTENDS Naturals, FiniteSets, Sequences

CONSTANTS
    Agents, Default, Sockets, Prompts, Browsers, NetworkLosses,
    Writers, Flusher, BufferMax, MaxMemories, MaxRefused, MaxLost,
    Conns, Feeds, scope, Talkers, Updates, All,
    Tasks, Containers, Stoppers, Capacity, TaskFaults, TaskCrashes, MaxCopies

VARIABLES
    turn,    \* the part that moves, where they are put side by side
    agent, key, sock, handler, relay, prompt, to, browser, clients, sending, losses,
    created, buffer, met, stored, flush, skill, learner, outcomes, alone, refused, lost,
    order, registered, index, subs, connected, stale, client, endpoint, send, due, got,
    tracked, container, deploying, stopping, disturbed, asked, tasks, status, loop, fetched, current, runs,
    taskFaults, taskCrashes

TheRelay == INSTANCE PodRelay
TheSockets == INSTANCE WebSockets WITH handler <- endpoint

TheMemory == INSTANCE AgentMemory

TheTasks == INSTANCE AgentTasks WITH
    MaxFaults <- TaskFaults, MaxCrashes <- TaskCrashes, faults <- taskFaults, crashes <- taskCrashes,
    met <- disturbed

relayVars == <<agent, key, sock, handler, relay, prompt, to, browser, clients, sending, losses>>
memoryVars == <<created, buffer, met, stored, flush, skill, learner, outcomes, alone, refused, lost>>
socketVars == <<order, registered, index, subs, connected, stale, client, endpoint, send, due, got>>
loopVars == <<tracked, container, deploying, stopping, disturbed, asked, tasks, status,
              loop, fetched, current, runs, taskFaults, taskCrashes>>

-----------------------------------------------------------------------------
\* However updates of a skill interleave, no outcome is counted twice, and one
\* whose update met no other is counted.
CountsUnlessMet == TheMemory!CountsUnlessMet

\* A memory that store_memory returned for is in the buffer or in the table,
\* unless it came while a batch was being written.
KeptUnlessMet == TheMemory!KeptUnlessMet

\* The relay keeps no entry of a handler that has ended, but under the default
\* id that some pods come with.
NamedEntriesLive == TheRelay!NamedEntriesLive

\* An update reaches every client that follows its target all along, whoever
\* else comes, goes or fails.
WatchersAreTold == TheSockets!WatchersAreTold

\* What the task table says of a task happened in a container.
StatusIsHistory == TheTasks!StatusIsHistory

\* When nobody deploys or stops, a container that runs is tracked, unless
\* another deployment, a stop or a failed request came between.
UpIsTrackedUnlessMet == TheTasks!UpIsTrackedUnlessMet
=============================================================================
