---------------------------- MODULE PlatformParts ----------------------------
(***************************************************************************)
(* The platform around an agent: the Docker sandboxes, the migrations that *)
(* every start of the process makes, the sandbox pods, the sessions in     *)
(* which people talk to agents, the documents that agents search, the      *)
(* repository of a task and the file operations in a workspace.  The parts *)
(* share no state.  What is checked of them and what is proved of them is  *)
(* said here once.                                                         *)
(***************************************************************************)
EXTENDS Naturals, FiniteSets, Sequences

CONSTANTS
    Boxes, Destroyers, Cleaner, BoxFaults, BoxCrashes,
    Procs, Latest, Files, UpTargets, DownTargets, MigrationFaults, Images, UpwardTargets, UpwardFaults,
    Pods, Requests,
    Agents, Sessions, Sockets, Streams, Prompts, Enders, ReplySteps, SessionRestarts,
    Organizations, Teams, AgentIds, Docs, Calls, Chunks, DocFaults,
    Execs, Iterations, MaxUpstream, GitFaults,
    Batches, Paths, Texts, Proposed, Absent, Original, Foreign, Partial, Present, FileFailures, FileFaults, FileEdits

VARIABLES
    turn,    \* the part that moves, where they are put side by side
    boxRow, boxContainer, active, creating, destroying, up, boxFaults, boxCrashes,
    recorded, schema, migrating, target, todo, ended, migrationFaults,
    origin, spawn, pod, parts, entry, req,
    agents, created, session, sessionRow, starting, subs, queues, socket, stream, queue, yielded, speaker,
    sessionRestarts,
    doc, accepted, removed, torn, rows, chunks, call, docFaults,
    cloned, head, branches, stopped, dirty, staged, remote, opened, worker, cleanup, feature, round, kept, pull,
    gitCancels, gitFaults,
    files, batch, approval, backups, stamped, before, changed, fileFaults, edits

TheBoxes == INSTANCE Sandboxes WITH
    MaxFaults <- BoxFaults, MaxCrashes <- BoxCrashes,
    row <- boxRow, container <- boxContainer, faults <- boxFaults, crashes <- boxCrashes

TheMigrations == INSTANCE Migrations WITH
    MaxFaults <- MigrationFaults, kind <- migrating, faults <- migrationFaults

\* Nobody migrates down, and an image may lack versions that another has.
Upwards == INSTANCE Migrations WITH
    Files <- Images, UpTargets <- UpwardTargets, DownTargets <- {},
    MaxFaults <- UpwardFaults, kind <- migrating, faults <- migrationFaults

\* Pods that launches and chats spawn, on a cluster that serves.
TheCluster == INSTANCE PodSandboxes WITH Faults <- {}, Origins <- {"launch", "chat"}

\* Pods on a cluster that may fail to create what they need.
PoorCluster == INSTANCE PodSandboxes WITH Faults <- {"create"}, Origins <- {"launch"}

TheSessions == INSTANCE AgentSessions WITH
    Steps <- ReplySteps, MaxRestarts <- SessionRestarts, row <- sessionRow, restarts <- sessionRestarts

TheDocuments == INSTANCE Documents WITH Parts <- Chunks, MaxFaults <- DocFaults, faults <- docFaults

\* Executions of a task one after the other, none of them cancelled.
TheRepository == INSTANCE GitWorkflow WITH
    MaxFaults <- GitFaults, MaxCancels <- 0, Overlapping <- FALSE, cancels <- gitCancels, faults <- gitFaults

\* Batches of file operations, and others who write the same files.
TheFiles == INSTANCE FileOperations WITH
    ops <- Proposed, Faults <- FileFailures, MaxFaults <- FileFaults, MaxEdits <- FileEdits,
    place <- batch, status <- approval, faults <- fileFaults

boxesVars == <<boxRow, boxContainer, active, creating, destroying, up, boxFaults, boxCrashes>>
migrationVars == <<recorded, schema, migrating, target, todo, ended, migrationFaults>>
clusterVars == <<origin, spawn, pod, parts, entry, req>>
sessionVars == <<agents, created, session, sessionRow, starting, subs, queues, socket, stream, queue, yielded, speaker,
                 sessionRestarts>>
docVars == <<doc, accepted, removed, torn, rows, chunks, call, docFaults>>
gitVars == <<cloned, head, branches, stopped, dirty, staged, remote, opened, worker, cleanup, feature, round, kept, pull,
             gitCancels, gitFaults>>
filesVars == <<files, batch, approval, backups, stamped, before, changed, fileFaults, edits>>

-----------------------------------------------------------------------------
\* A row says running only for a container that runs, whatever raises and
\* wherever the process stops.
RunningIsRunning == TheBoxes!RunningIsRunning

\* The changes of a version are in the schema exactly once when the table
\* records it, whichever processes migrate up and down together.
LedgerIsSchema == TheMigrations!LedgerIsSchema

\* A pod runs with the Secret and the NetworkPolicy that it needs.
RunsWithParts == turn = "cluster" => TheCluster!RunsWithParts

\* What is reported done is done: when migrate_up returns, everything up to its
\* target is recorded, also what another process was applying meanwhile; and a
\* termination that reports success leaves nothing of the pod.
ReportedIsDone == [](turn = "upwards" => Upwards!ReturnedIsDone) /\ PoorCluster!TerminatedIsGone

\* A stream that is open while a prompt is answered has the whole reply in its
\* queue, in order and once, whatever sockets fail; when a termination is
\* answered, every socket that came before it has been closed and every stream
\* has been told.
FollowersHearAll == TheSessions!RepliesAreWhole /\ TheSessions!TerminatedIsClosed

\* What a scope lists is what was uploaded to it and not deleted, with every
\* update that was accepted, and with its content unless a deletion stopped.
CatalogueIsTrue == TheDocuments!CatalogueIsTrue

\* The work of an execution never gets on the default branch, whichever
\* commands fail and in whatever state an earlier one left the workspace.
DefaultIsUntouched == turn = "repository" => TheRepository!DefaultIsUntouched

\* A failed application and a rollback leave the files as they were before, but
\* for one whose writing failed.
UndoneIsUndone == TheFiles!UndoneIsUndone
=============================================================================
