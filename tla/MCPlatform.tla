----------------------------- MODULE MCPlatform -----------------------------
(***************************************************************************)
(* The parts of the platform around an agent, side by side, with the       *)
(* execution engine and the file operations.  They share no state, so the  *)
(* order in which two of them take their steps tells nothing: one is       *)
(* chosen at the start and it alone moves.                                 *)
(***************************************************************************)
EXTENDS PlatformParts

CONSTANTS t1, t2, b1, b2, p1, p2, f1, f2, f3, e1, e2, d1

VARIABLES
    starts, live, ctx, taskRow, taskTodo, step, updates, cleanups, aged, cancels, engineFaults

\* Two executions, and awaits that raise.
TheEngine == INSTANCE TaskExecution WITH
    Tasks <- {t1, t2}, MaxStarts <- 1, MaxCancels <- 0, MaxFaults <- 2,
    row <- taskRow, todo <- taskTodo, work <- step, calls <- updates, faults <- engineFaults

\* Of two processes that migrate up one has an image that lacks the last
\* version; when one migrates up and the other down both have all.
OldAndNew == [p \in Procs |-> IF p = p1 THEN 1..2 ELSE 1..3]
WholeFiles == [p \in Procs |-> 1..3]

\* One batch that modifies, creates and deletes, and an automatically approved
\* one that modifies and moves the same files.
TheOps == [b \in {b1, b2} |->
    IF b = b1
    THEN << [kind |-> "modify_file", path |-> f1, text |-> b1, to |-> f1, safe |-> FALSE],
            [kind |-> "create_file", path |-> f2, text |-> b1, to |-> f2, safe |-> TRUE],
            [kind |-> "delete_file", path |-> f3, text |-> b1, to |-> f3, safe |-> TRUE] >>
    ELSE << [kind |-> "modify_file", path |-> f3, text |-> b2, to |-> f3, safe |-> TRUE],
            [kind |-> "apply_diff", path |-> f3, text |-> b2, to |-> f3, safe |-> TRUE],
            [kind |-> "move_file", path |-> f1, text |-> b2, to |-> f2, safe |-> TRUE] >>]

\* One document in scopes of each kind, or two documents of an agent.
OneDocument == INSTANCE Documents WITH Docs <- {d1}, Parts <- Chunks, MaxFaults <- DocFaults, faults <- docFaults
OneScope == INSTANCE Documents WITH
    Organizations <- {}, Teams <- {}, Parts <- Chunks, MaxFaults <- 0, faults <- docFaults

\* One execution that is cancelled.
TheCancelled == INSTANCE GitWorkflow WITH
    Execs <- {e1}, MaxFaults <- 1, MaxCancels <- 1, Overlapping <- FALSE, cancels <- gitCancels, faults <- gitFaults

ASSUME PlatformAssumption ==
    /\ TheEngine!EngineAssumption /\ TheBoxes!SandboxAssumption
    /\ Upwards!MigrationsAssumption /\ TheMigrations!MigrationsAssumption
    /\ TheCluster!PodAssumption /\ PoorCluster!PodAssumption
    /\ TheFiles!FilesAssumption /\ TheSessions!SessionsAssumption
    /\ TheDocuments!DocumentsAssumption
    /\ TheRepository!GitAssumption /\ TheCancelled!GitAssumption

engineVars == <<starts, live, ctx, taskRow, taskTodo, step, updates, cleanups, aged, cancels, engineFaults>>
vars == <<turn, engineVars, boxesVars, migrationVars, clusterVars, filesVars, sessionVars, docVars, gitVars>>

Init ==
    /\ turn \in {"engine", "boxes", "upwards", "both ways", "cluster", "poor cluster", "files", "chat", "ending",
                "documents", "scope", "repository", "cancelled"}
    /\ TheEngine!Init /\ TheBoxes!Init /\ TheMigrations!Init /\ TheCluster!Init /\ TheFiles!Init
    /\ TheSessions!Init /\ TheDocuments!Init /\ TheRepository!Init

\* A session with one prompt, and a session that is terminated twice.
Chats == TheSessions!Next /\ speaker'[e2] = speaker[e2] /\ created' = created
Ends == TheSessions!Next /\ speaker'[p1] = speaker[p1] /\ sessionRestarts' = sessionRestarts

Next ==
    /\ UNCHANGED turn
    /\ \/ turn = "engine" /\ TheEngine!Next /\ UNCHANGED <<boxesVars, migrationVars, clusterVars, filesVars, sessionVars, docVars, gitVars>>
       \/ turn = "boxes" /\ TheBoxes!Next /\ UNCHANGED <<engineVars, migrationVars, clusterVars, filesVars, sessionVars, docVars, gitVars>>
       \/ turn = "upwards" /\ Upwards!Next /\ UNCHANGED <<engineVars, boxesVars, clusterVars, filesVars, sessionVars, docVars, gitVars>>
       \/ turn = "both ways" /\ TheMigrations!Next /\ UNCHANGED <<engineVars, boxesVars, clusterVars, filesVars, sessionVars, docVars, gitVars>>
       \/ turn = "cluster" /\ TheCluster!Next /\ UNCHANGED <<engineVars, boxesVars, migrationVars, filesVars, sessionVars, docVars, gitVars>>
       \/ turn = "poor cluster" /\ PoorCluster!Next /\ UNCHANGED <<engineVars, boxesVars, migrationVars, filesVars, sessionVars, docVars, gitVars>>
       \/ turn = "files" /\ TheFiles!Next /\ UNCHANGED <<engineVars, boxesVars, migrationVars, clusterVars, sessionVars, docVars, gitVars>>
       \/ turn = "chat" /\ Chats /\ UNCHANGED <<engineVars, boxesVars, migrationVars, clusterVars, filesVars, docVars, gitVars>>
       \/ turn = "ending" /\ Ends /\ UNCHANGED <<engineVars, boxesVars, migrationVars, clusterVars, filesVars, docVars, gitVars>>
       \/ turn = "documents" /\ OneDocument!Next /\ UNCHANGED <<engineVars, boxesVars, migrationVars, clusterVars, filesVars, sessionVars, gitVars>>
       \/ turn = "scope" /\ OneScope!Next /\ UNCHANGED <<engineVars, boxesVars, migrationVars, clusterVars, filesVars, sessionVars, gitVars>>
       \/ turn = "repository" /\ TheRepository!Next /\ UNCHANGED <<engineVars, boxesVars, migrationVars, clusterVars, filesVars, sessionVars, docVars>>
       \/ turn = "cancelled" /\ TheCancelled!Next /\ UNCHANGED <<engineVars, boxesVars, migrationVars, clusterVars, filesVars, sessionVars, docVars>>

Spec == Init /\ [][Next]_vars
=============================================================================
