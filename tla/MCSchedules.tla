---------------------------- MODULE MCSchedules ----------------------------
(***************************************************************************)
(* What must come to happen, in parts side by side: the execution engine,  *)
(* the Docker sandboxes, the claims on an incident, the A2A server that    *)
(* several agents share, the relay of the agent pods, the sockets of the   *)
(* browsers, the tracking of goals and the conversations about them.  They *)
(* share no state: one of them is chosen at the start and it alone moves,  *)
(* under the fairness that its own module states.                          *)
(***************************************************************************)
EXTENDS TalkParts

CONSTANTS t1, t2, b1, task, cleaner, c1, c2, c3, none, x, s1, s2, m1, m2, d1, cloud, pod, u1, all

VARIABLES
    turn,    \* the part that moves
    starts, live, ctx, taskRow, taskTodo, step, updates, cleanups, aged, cancels, engineFaults,
    boxRow, boxContainer, active, creating, destroying, up, boxFaults, boxCrashes,
    now, entries, at, time, order, since, owner, ledger, dispatch, winner,
    call, work, by, serving, poll,
    agent, key, sock, handler, relay, prompt, to, browser, clients, sending, losses,
    sockets, registered, index, subs, connected, stale, client, endpoint, update, due, got,
    free, pos, held, read, progress, latest, goalFaults

\* Two executions, a cancellation and an await that raises.
TheEngine == INSTANCE TaskExecution WITH
    Tasks <- {t1, t2}, MaxStarts <- 1, MaxCancels <- 1, MaxFaults <- 1,
    row <- taskRow, todo <- taskTodo, work <- step, calls <- updates, faults <- engineFaults

\* A sandbox, a task's caller and the cleanup loop, faults and a restart.
TheBoxes == INSTANCE Sandboxes WITH
    Boxes <- {b1}, Destroyers <- {task, cleaner}, Cleaner <- cleaner, MaxFaults <- 2, MaxCrashes <- 1,
    row <- boxRow, container <- boxContainer, faults <- boxFaults, crashes <- boxCrashes

\* One dispatch through two channels; posts and queries may fail or be slow.
TheClaims == INSTANCE IncidentClaims WITH
    Dispatches <- {d1}, Channels <- {cloud, pod}, Nobody <- none,
    Lease <- 6, Window <- 6, Delay <- 1, Jitter <- 2, Faults <- {"push", "query", "slow"}, MaxTime <- 4,
    handler <- owner

\* Agents of one server that hand over to each other and do not wait.
TheServer == INSTANCE SharedServer WITH
    Calls <- {c1, c2, c3}, Peers <- {c1, c2, c3}, Polls <- {t1}, Modes <- {"now"}, NoCall <- none

\* Agents that wait, none of which hands over to its own server.
ServerAlone == INSTANCE SharedServer WITH
    Calls <- {c1, c2, c3}, Peers <- {}, Polls <- {t1}, Modes <- {"wait", "now"}, NoCall <- none

\* One agent: a message and a pod that connects twice; a message and two
\* clients; two messages of one client.
AllRelayed == INSTANCE PodRelay WITH
    Agents <- {x}, Default <- x, Sockets <- {s1, s2}, Prompts <- {m1, m2}, Browsers <- {c1, c2}, NetworkLosses <- 1
TheRelay == INSTANCE PodRelay WITH
    Agents <- {x}, Default <- x, Sockets <- {s1, s2}, Prompts <- {m1}, Browsers <- {c1}, NetworkLosses <- 1
TheCrowd == INSTANCE PodRelay WITH
    Agents <- {x}, Default <- x, Sockets <- {s1}, Prompts <- {m1}, Browsers <- {c1, c2}, NetworkLosses <- 1
TheQueue == INSTANCE PodRelay WITH
    Agents <- {x}, Default <- x, Sockets <- {s1}, Prompts <- {m1, m2}, Browsers <- {c1}, NetworkLosses <- 1

\* Two sockets of all organizations and a broadcast.
TheSockets == INSTANCE WebSockets WITH
    Conns <- {c1, c2}, Feeds <- {}, scope <- [c \in {c1, c2} |-> {}], Talkers <- {}, Updates <- {u1}, All <- all,
    order <- sockets, handler <- endpoint, send <- update

\* A dashboard beside an assessment; a record and a report beside the periodic
\* assessment; and the calls that change the progress of a goal.  Of the four
\* connections the first two leave always one free.
Boards == {"dashboard", "assess"}
Reports == {"record", "report", "periodic"}
Changes == {"record", "manual", "milestone"}
TheJobs == [j \in Boards \cup Reports \cup Changes |-> j]
Wanted == [j \in DOMAIN TheJobs |-> IF j = "manual" THEN 3 ELSE 2]

TheCalls == INSTANCE Goals WITH
    Jobs <- DOMAIN TheJobs, kind <- TheJobs, wanted <- Wanted, PoolSize <- 4, ActiveGoals <- 1, Values <- {0, 2, 3},
    MaxFaults <- 1, faults <- goalFaults
TheBoards == INSTANCE Goals WITH
    Jobs <- Boards, kind <- TheJobs, wanted <- Wanted, PoolSize <- 4, ActiveGoals <- 2, Values <- {0, 2, 3},
    MaxFaults <- 1, faults <- goalFaults
TheReports == INSTANCE Goals WITH
    Jobs <- Reports, kind <- TheJobs, wanted <- Wanted, PoolSize <- 4, ActiveGoals <- 2, Values <- {0, 2, 3},
    MaxFaults <- 1, faults <- goalFaults
TheChanges == INSTANCE Goals WITH
    Jobs <- Changes, kind <- TheJobs, wanted <- Wanted, PoolSize <- 4, ActiveGoals <- 1, Values <- {0, 2, 3},
    MaxFaults <- 1, faults <- goalFaults

\* A conversation that is created, written to and analysed at once; one whose
\* goal may be deleted; and the plans for a goal.
Talk == {"create", "message", "question"}
Row == {"create", "actions", "suggest", "look"}
Plan == {"create", "review", "plan", "monthly"}
EveryCall == Talk \cup Row \cup Plan
KindOf == [c \in EveryCall |-> IF c = "question" THEN "message" ELSE c]
OneConversation == [c \in EveryCall |-> "create"]
AskForAction == {"create", "message"}

TheTalk == INSTANCE GoalConversations WITH
    Calls <- Talk, kind <- TalkKind, of <- About, PoolSize <- 2, Months <- 0, MaxFaults <- 0, MayDelete <- FALSE,
    free <- seats, pos <- place, held <- taken, failed <- raised, read <- copy, row <- conversation, faults <- talkFaults
WithThree == INSTANCE GoalConversations WITH
    Calls <- EveryCall, kind <- TalkKind, of <- About, PoolSize <- 3, MaxFaults <- TalkFaults,
    free <- seats, pos <- place, held <- taken, failed <- raised, read <- copy, row <- conversation, faults <- talkFaults
TheRow == INSTANCE GoalConversations WITH
    Calls <- Row, kind <- TalkKind, of <- About, PoolSize <- 3, Months <- 0, MaxFaults <- 1,
    free <- seats, pos <- place, held <- taken, failed <- raised, read <- copy, row <- conversation, faults <- talkFaults
ThePlans == INSTANCE GoalConversations WITH
    Calls <- Plan, kind <- TalkKind, of <- About, PoolSize <- 2, MaxFaults <- 1,
    free <- seats, pos <- place, held <- taken, failed <- raised, read <- copy, row <- conversation, faults <- talkFaults

ASSUME SchedulesAssumption ==
    /\ TheEngine!EngineAssumption /\ TheBoxes!SandboxAssumption /\ TheClaims!ClaimsAssumption
    /\ TheServer!SharedAssumption /\ ServerAlone!SharedAssumption /\ TheRelay!RelayAssumption /\ TheCrowd!RelayAssumption /\ TheQueue!RelayAssumption
    /\ TheSockets!SocketsAssumption
    /\ TheCalls!GoalsAssumption
    /\ TheTalks!TalksAssumption

engineVars == <<starts, live, ctx, taskRow, taskTodo, step, updates, cleanups, aged, cancels, engineFaults>>
boxesVars == <<boxRow, boxContainer, active, creating, destroying, up, boxFaults, boxCrashes>>
claimsVars == <<now, entries, at, time, order, since, owner, ledger, dispatch, winner>>
serverVars == <<call, work, by, serving, poll>>
relayVars == <<agent, key, sock, handler, relay, prompt, to, browser, clients, sending, losses>>
socketVars == <<sockets, registered, index, subs, connected, stale, client, endpoint, update, due, got>>
goalVars == <<free, pos, held, read, progress, latest, goalFaults>>
vars == <<turn, engineVars, boxesVars, claimsVars, serverVars, relayVars, socketVars, goalVars, talkVars>>

Init ==
    /\ turn \in {"engine", "boxes", "claims", "server", "server alone", "relay", "crowd", "queue", "sockets", "boards", "reports", "changes",
                "talk", "row", "plans"}
    /\ TheEngine!Init /\ TheBoxes!Init /\ TheClaims!Init /\ AllRelayed!Init /\ TheSockets!Init /\ TheCalls!Init
    /\ IF turn = "server alone" THEN ServerAlone!Init ELSE TheServer!Init
    /\ IF turn = "row" THEN WithThree!Init ELSE TheTalks!Init

Next ==
    /\ UNCHANGED turn
    /\ \/ turn = "engine" /\ TheEngine!Next /\ UNCHANGED <<boxesVars, claimsVars, serverVars, relayVars, socketVars, goalVars, talkVars>>
       \/ turn = "boxes" /\ TheBoxes!Next /\ UNCHANGED <<engineVars, claimsVars, serverVars, relayVars, socketVars, goalVars, talkVars>>
       \/ turn = "claims" /\ TheClaims!Next /\ UNCHANGED <<engineVars, boxesVars, serverVars, relayVars, socketVars, goalVars, talkVars>>
       \/ turn = "server" /\ TheServer!Next /\ UNCHANGED <<engineVars, boxesVars, claimsVars, relayVars, socketVars, goalVars, talkVars>>
       \/ turn = "server alone" /\ ServerAlone!Next /\ UNCHANGED <<engineVars, boxesVars, claimsVars, relayVars, socketVars, goalVars, talkVars>>
       \/ turn = "relay" /\ TheRelay!Next /\ UNCHANGED <<engineVars, boxesVars, claimsVars, serverVars, socketVars, goalVars, talkVars>>
       \/ turn = "crowd" /\ TheCrowd!Next /\ UNCHANGED <<engineVars, boxesVars, claimsVars, serverVars, socketVars, goalVars, talkVars>>
       \/ turn = "queue" /\ TheQueue!Next /\ UNCHANGED <<engineVars, boxesVars, claimsVars, serverVars, socketVars, goalVars, talkVars>>
       \/ turn = "sockets" /\ TheSockets!Next /\ UNCHANGED <<engineVars, boxesVars, claimsVars, serverVars, relayVars, goalVars, talkVars>>
       \/ turn = "boards" /\ TheBoards!Next /\ UNCHANGED <<engineVars, boxesVars, claimsVars, serverVars, relayVars, socketVars, talkVars>>
       \/ turn = "reports" /\ TheReports!Next /\ UNCHANGED <<engineVars, boxesVars, claimsVars, serverVars, relayVars, socketVars, talkVars>>
       \/ turn = "changes" /\ TheChanges!Next /\ UNCHANGED <<engineVars, boxesVars, claimsVars, serverVars, relayVars, socketVars, talkVars>>
       \/ turn = "talk" /\ TheTalk!Next /\ UNCHANGED <<engineVars, boxesVars, claimsVars, serverVars, relayVars, socketVars, goalVars>>
       \/ turn = "row" /\ TheRow!Next /\ UNCHANGED <<engineVars, boxesVars, claimsVars, serverVars, relayVars, socketVars, goalVars>>
       \/ turn = "plans" /\ ThePlans!Next /\ UNCHANGED <<engineVars, boxesVars, claimsVars, serverVars, relayVars, socketVars, goalVars>>

Spec == Init /\ [][Next]_vars

-----------------------------------------------------------------------------
\* The engine takes every execution out of memory in the end, with its
\* sandbox, also when the updates that report its failure raise.
EveryExecutionEnds == turn = "engine" /\ TheEngine!Fairness => TheEngine!EveryExecutionEnds

\* A sandbox does not stay active for ever: the cleanup loop destroys it, also
\* when an attempt to destroy it raised and across a restart.
ActiveExpires == turn = "boxes" /\ TheBoxes!Fairness => TheBoxes!ActiveExpires

\* A dispatched incident comes to be handled, whatever fails.
EveryIncidentHandled == turn = "claims" /\ TheClaims!Fairness => TheClaims!EveryIncidentHandled

\* A session that handed a goal over to an agent of its own server goes on,
\* and a caller that polls is answered though other calls hold the server's
\* loop.
CallsReturn ==
    /\ turn = "server" /\ TheServer!Fairness => TheServer!HandOffsReturn
    /\ turn = "server alone" /\ ServerAlone!Fairness => ServerAlone!PollsAnswered

\* The answer to a chat message reaches the browser that asked, unless that goes
\* away, or the pod that the message was relayed to.
EveryPromptAnswered ==
    /\ turn = "relay" /\ TheRelay!Fairness => TheRelay!EveryPromptAnswered
    /\ turn = "crowd" /\ TheCrowd!Fairness => TheCrowd!EveryPromptAnswered
    /\ turn = "queue" /\ TheQueue!Fairness => TheQueue!EveryPromptAnswered

\* A connection whose client has gone does not stay registered, also when its
\* endpoint never learns of it.
GoneIsForgotten == turn = "sockets" /\ TheSockets!Fairness => TheSockets!GoneIsForgotten

\* A call of the tracking service, or about a conversation or a plan, ends,
\* although it takes connections of its pool while it holds others.
CallsEnd ==
    /\ turn = "boards" /\ TheBoards!Fairness => TheBoards!CallsEnd
    /\ turn = "reports" /\ TheReports!Fairness => TheReports!CallsEnd
    /\ turn = "changes" /\ TheChanges!Fairness => TheChanges!CallsEnd
    /\ turn = "talk" /\ TheTalk!Fairness => TheTalk!CallsEnd
    /\ turn = "row" /\ TheRow!Fairness => TheRow!CallsEnd
    /\ turn = "plans" /\ ThePlans!Fairness => ThePlans!CallsEnd
=============================================================================
