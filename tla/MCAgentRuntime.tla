--------------------------- MODULE MCAgentRuntime ---------------------------
(***************************************************************************)
(* What an agent lives in, side by side: the loop that works off its       *)
(* tasks, its memory, the brains it asks, the relay between its pod and    *)
(* the chat clients, and the sockets that follow it.  They share no state, *)
(* so the order in which two of them take their steps tells nothing: one   *)
(* is chosen at the start and it alone moves.                              *)
(***************************************************************************)
EXTENDS AgentParts, BrainStore

CONSTANTS t1, c1

\* Every socket may follow every feed.
WholeScope == [c \in Conns |-> Feeds]

\* Two tasks in one container that may be stopped or die; one task in two
\* containers, with updates that fail; and deployments and stops alone.
OneContainer == INSTANCE AgentTasks WITH
    Containers <- {c1}, MaxFaults <- 0, MaxCrashes <- TaskCrashes,
    faults <- taskFaults, crashes <- taskCrashes, met <- disturbed
OneTask == INSTANCE AgentTasks WITH
    Tasks <- {t1}, Stoppers <- {}, MaxFaults <- TaskFaults, MaxCrashes <- 0,
    faults <- taskFaults, crashes <- taskCrashes, met <- disturbed
NoTask == INSTANCE AgentTasks WITH
    Tasks <- {}, MaxFaults <- TaskFaults, MaxCrashes <- TaskCrashes,
    faults <- taskFaults, crashes <- taskCrashes, met <- disturbed

ASSUME RuntimeAssumption ==
    /\ TheTasks!AgentAssumption
    /\ TheMemory!MemoryAssumption /\ TheRelay!RelayAssumption
    /\ TheSockets!SocketsAssumption /\ BrainAssumption

runtimeVars == <<turn, relayVars, memoryVars, socketVars, loopVars, vars>>

\* The calls that the store gets matter only when it moves.
OneJob == kind = [c \in Calls |-> "update"] /\ \E b \in Brains : on = [c \in Calls |-> b]

RuntimeInit ==
    /\ turn \in {"relay", "sockets", "brains", "memory", "tasks", "copies", "deployments"}
    /\ TheRelay!Init /\ TheSockets!Init /\ TheTasks!Init /\ TheMemory!Init
    /\ Init /\ (turn # "brains" => OneJob)

RuntimeNext ==
    /\ UNCHANGED turn
    /\ \/ turn = "tasks" /\ OneContainer!Next /\ UNCHANGED <<relayVars, memoryVars, socketVars, vars>>
       \/ turn = "copies" /\ OneTask!Next /\ UNCHANGED <<relayVars, memoryVars, socketVars, vars>>
       \/ turn = "deployments" /\ NoTask!Next /\ UNCHANGED <<relayVars, memoryVars, socketVars, vars>>
       \/ turn = "memory" /\ TheMemory!Next /\ UNCHANGED <<loopVars, relayVars, socketVars, vars>>
       \/ turn = "relay" /\ TheRelay!Next /\ UNCHANGED <<loopVars, memoryVars, socketVars, vars>>
       \/ turn = "sockets" /\ TheSockets!Next /\ UNCHANGED <<loopVars, memoryVars, relayVars, vars>>
       \/ turn = "brains" /\ Next /\ UNCHANGED <<relayVars, memoryVars, socketVars, loopVars>>

RuntimeSpec == RuntimeInit /\ [][RuntimeNext]_runtimeVars
=============================================================================
