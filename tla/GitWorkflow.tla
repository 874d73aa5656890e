---------------------------- MODULE GitWorkflow ----------------------------
(***************************************************************************)
(* The repository of a task (git_workflow_manager.py) as the execution     *)
(* engine uses it: an execution clones or updates the workspace, makes a   *)
(* feature branch, commits an iteration at a time and opens a pull         *)
(* request; the cleanup of one that failed or was cancelled leaves the     *)
(* branch and deletes it.  Each git command is a process that is awaited,  *)
(* in the one working directory of the task, and may fail.                 *)
(***************************************************************************)
EXTENDS Naturals, FiniteSets

CONSTANTS
    Execs,         \* executions of the task, one started after the other
    Iterations,    \* bound: iterations of an execution
    MaxUpstream,   \* bound: commits that others bring to the default branch
    MaxFaults,     \* bound: commands that fail without a reason of their own
    MaxCancels,    \* bound: executions that are cancelled
    Overlapping    \* does an execution start while the cleanup of another goes on?

Upstream == <<"others", "work">>
NoBranch == <<"none", "none">>

\* What is assumed of the constants; the id of an execution is no other author.
GitAssumption ==
    /\ {Iterations, MaxUpstream, MaxFaults, MaxCancels} \subseteq Nat /\ Overlapping \in BOOLEAN
    /\ {Upstream, NoBranch} \cap Execs = {}

VARIABLES
    cloned,    \* is there a repository?
    head,      \* the branch that is checked out, or "detached" in the middle of a rebase
    branches,  \* the commits of each local branch; none has never all
    stopped,   \* what a rebase that stopped has replayed
    dirty,     \* work that is not committed
    staged,    \* work that is staged
    remote,    \* the commits of each branch of origin
    opened,    \* branches with a pull request
    worker,    \* each execution: where its step is
    cleanup,   \* where its cleanup is
    feature,   \* its feature branch
    round,     \* its iterations
    kept,      \* history: work whose commit was answered
    pull,      \* the commits of the pull request it was answered
    cancels, faults

vars == <<cloned, head, branches, stopped, dirty, staged, remote, opened, worker, cleanup, feature, round, kept, pull,
          cancels, faults>>

Default == <<"default", "branch">>
Named == <<"feature", "branch">>
Stamped(e) == <<"stamped", e>>
Branches == {Default, Named} \cup {Stamped(e) : e \in Execs}
Detached == <<"detached", "none">>

\* A commit: whose work it holds and how often it has been rewritten.
Commit(by, n) == [by |-> by, n |-> n, times |-> 0]
Rewritten(cs) == {[c EXCEPT !.times = @ + 1] : c \in cs}
Missing == {Commit(NoBranch, 0)}
Has(repo, b) == repo[b] # Missing

Init ==
    /\ cloned = FALSE /\ head = NoBranch /\ dirty = {} /\ staged = {} /\ stopped = {}
    /\ branches = [b \in Branches |-> Missing]
    /\ remote = [b \in Branches |-> IF b = Default THEN {} ELSE Missing] /\ opened = {}
    /\ worker = [e \in Execs |-> "new"] /\ cleanup = [e \in Execs |-> "none"]
    /\ feature = [e \in Execs |-> NoBranch] /\ round = [e \in Execs |-> 0]
    /\ kept = [e \in Execs |-> {}] /\ pull = [e \in Execs |-> Missing]
    /\ cancels = 0 /\ faults = 0

repoVars == <<cloned, head, branches, stopped, dirty, staged>>
execVars == <<feature, round, kept, pull, cancels>>

Fault == faults < MaxFaults /\ faults' = faults + 1
At(e, pc) == worker[e] = pc
Goes(e, pc) == worker' = [worker EXCEPT ![e] = pc]
\* An exception ends a step: the execution has failed.
Raises(e) ==
    /\ Goes(e, "failed")
    /\ cleanup' = [cleanup EXCEPT ![e] = IF feature[e] = NoBranch \/ @ # "none" THEN @ ELSE "checkout"]

\* Unmerged files, and work that the other branch would overwrite, stop a
\* checkout; other work that is not committed comes along.
MayCheckOut == head # Detached
MayRefuse == head = Detached \/ dirty # {}

-----------------------------------------------------------------------------
Ended(e) == worker[e] \in {"completed", "failed", "dropped"}
Over(e) == Ended(e) /\ (Overlapping \/ cleanup[e] \in {"none", "done"})

setup_workspace(e) ==
    /\ At(e, "new") /\ \A f \in Execs \ {e} : worker[f] = "new" \/ Over(f)
    /\ Goes(e, IF cloned THEN "fetch" ELSE "clone")
    /\ UNCHANGED <<repoVars, remote, opened, cleanup, execVars, faults>>

_clone_repository(e) ==
    /\ At(e, "clone")
    /\ \/ /\ cloned' = TRUE /\ head' = Default /\ branches' = [branches EXCEPT ![Default] = remote[Default]]
          /\ Goes(e, "list") /\ UNCHANGED <<cleanup, faults>>
       \/ Fault /\ Raises(e) /\ UNCHANGED <<cloned, head, branches>>
    /\ UNCHANGED <<stopped, dirty, staged, remote, opened, execVars>>

\* fetch, checkout of the default branch, pull: a pull that cannot go forward
\* fails.
_update_repository(e) ==
    /\ \/ At(e, "fetch") /\ Goes(e, "checkout") /\ UNCHANGED <<head, branches, cleanup, faults>>
       \/ At(e, "checkout") /\ MayCheckOut /\ head' = Default /\ Goes(e, "pull") /\ UNCHANGED <<branches, cleanup, faults>>
       \/ /\ At(e, "pull") /\ head = Default /\ branches[Default] \subseteq remote[Default]
          /\ branches' = [branches EXCEPT ![Default] = remote[Default]]
          /\ Goes(e, "list") /\ UNCHANGED <<head, cleanup, faults>>
       \/ /\ worker[e] \in {"fetch", "checkout", "pull"} /\ Raises(e) /\ UNCHANGED <<head, branches>>
          /\ IF \/ At(e, "checkout") /\ MayRefuse
                \/ At(e, "pull") /\ (dirty # {} \/ head # Default \/ ~branches[Default] \subseteq remote[Default])
             THEN UNCHANGED faults ELSE Fault
    /\ UNCHANGED <<cloned, stopped, dirty, staged, remote, opened, execVars>>

Here == IF head = Detached THEN stopped ELSE branches[head]

\* A rebase of work that is not on the default branch yet rewrites it, or stops
\* at a conflict; it does not start over work that is not committed.
Rebase(e) ==
    LET base == branches[Default]  own == branches[head] \ base IN
    \/ /\ dirty = {} /\ Goes(e, "ready") /\ feature' = [feature EXCEPT ![e] = Named]
       /\ branches' = [branches EXCEPT ![head] = IF base \subseteq @ THEN @ ELSE base \cup Rewritten(own)]
       /\ UNCHANGED <<head, stopped, faults>>
    \/ /\ dirty = {} /\ ~base \subseteq branches[head]
       /\ \E some \in SUBSET own : some # own /\ stopped' = base \cup Rewritten(some)
       /\ head' = Detached /\ Goes(e, "fallback") /\ UNCHANGED <<branches, feature, faults>>
    \/ /\ IF dirty # {} THEN UNCHANGED faults ELSE Fault
       /\ Goes(e, "fallback") /\ UNCHANGED <<head, branches, stopped, feature>>

\* The bug of going on where one is when not even the fallback can be made.
FallbackOrStay(e) ==
    \/ /\ head' = Stamped(e) /\ branches' = [branches EXCEPT ![Stamped(e)] = Here]
       /\ Goes(e, "ready") /\ feature' = [feature EXCEPT ![e] = Stamped(e)] /\ UNCHANGED <<cleanup, faults>>
    \/ Fault /\ Goes(e, "ready") /\ feature' = [feature EXCEPT ![e] = Stamped(e)] /\ UNCHANGED <<head, branches, cleanup>>

\* A branch with the time in its name, from wherever the repository is.
Fallback(e) ==
    \/ /\ head' = Stamped(e) /\ branches' = [branches EXCEPT ![Stamped(e)] = Here]
       /\ Goes(e, "ready") /\ feature' = [feature EXCEPT ![e] = Stamped(e)] /\ UNCHANGED <<cleanup, faults>>
    \/ Fault /\ Raises(e) /\ UNCHANGED <<head, branches, feature>>

_create_feature_branch(e) ==
    /\ \/ /\ At(e, "list") /\ Goes(e, IF Has(branches, Named) THEN "switch" ELSE "create")
          /\ UNCHANGED <<head, branches, stopped, cleanup, feature, faults>>
       \/ /\ At(e, "create") /\ ~Has(branches, Named) /\ head' = Named /\ branches' = [branches EXCEPT ![Named] = Here]
          /\ Goes(e, "ready") /\ feature' = [feature EXCEPT ![e] = Named] /\ UNCHANGED <<stopped, cleanup, faults>>
       \/ /\ At(e, "switch") /\ Has(branches, Named) /\ MayCheckOut /\ head' = Named /\ Goes(e, "rebase")
          /\ UNCHANGED <<branches, stopped, cleanup, feature, faults>>
       \/ /\ worker[e] \in {"list", "create", "switch"} /\ Goes(e, "fallback")
          /\ IF \/ At(e, "switch") /\ (MayRefuse \/ ~Has(branches, Named))
                \/ At(e, "create") /\ Has(branches, Named)
             THEN UNCHANGED faults ELSE Fault
          /\ UNCHANGED <<head, branches, stopped, cleanup, feature>>
       \/ At(e, "rebase") /\ head \in Branches /\ Rebase(e) /\ UNCHANGED cleanup
       \/ At(e, "fallback") /\ Fallback(e) /\ UNCHANGED stopped
    /\ UNCHANGED <<cloned, dirty, staged, remote, opened, round, kept, pull, cancels>>

-----------------------------------------------------------------------------
\* An iteration: the agent may change files, and may fail after it did; what
\* there is is committed.
_step_execute_iteration(e) ==
    /\ At(e, "ready") /\ cleanup[e] = "none" /\ round[e] < Iterations
    /\ round' = [round EXCEPT ![e] = @ + 1]
    /\ \/ dirty' = dirty \cup {Commit(e, round'[e])} \/ UNCHANGED dirty
    /\ \/ Goes(e, "add") /\ UNCHANGED <<cleanup, faults>>
       \/ Fault /\ Raises(e)
    /\ UNCHANGED <<cloned, head, branches, stopped, staged, remote, opened, feature, kept, pull, cancels>>

\* add, diff, commit, rev-parse; without anything staged it ends early.
commit_changes(e) ==
    /\ \/ At(e, "add") /\ staged' = dirty /\ Goes(e, "diff") /\ UNCHANGED <<branches, stopped, dirty, kept, cleanup, faults>>
       \/ /\ At(e, "diff") /\ Goes(e, IF staged = {} THEN "ready" ELSE "commit")
          /\ UNCHANGED <<branches, stopped, dirty, staged, kept, cleanup, faults>>
       \/ /\ At(e, "commit") /\ staged # {}
          /\ IF head = Detached THEN stopped' = stopped \cup staged /\ UNCHANGED branches
             ELSE branches' = [branches EXCEPT ![head] = @ \cup staged] /\ UNCHANGED stopped
          /\ dirty' = dirty \ staged /\ staged' = {}
          /\ Goes(e, "hash") /\ UNCHANGED <<kept, cleanup, faults>>
       \* "nothing to commit" is an answer of its own
       \/ /\ At(e, "commit") /\ staged = {} /\ Goes(e, "ready")
          /\ UNCHANGED <<branches, stopped, dirty, staged, kept, cleanup, faults>>
       \/ /\ At(e, "hash") /\ Goes(e, "ready") /\ kept' = [kept EXCEPT ![e] = Here]
          /\ UNCHANGED <<branches, stopped, dirty, staged, cleanup, faults>>
       \/ /\ worker[e] \in {"add", "diff", "commit", "hash"} /\ Fault /\ Raises(e)
          /\ UNCHANGED <<branches, stopped, dirty, staged, kept>>
    /\ UNCHANGED <<cloned, head, remote, opened, feature, round, pull, cancels>>

\* A push that is refused is an answer that nobody looks at.
push_branch(e) ==
    LET f == feature[e] IN
    /\ At(e, "push") /\ Goes(e, "pull request")
    /\ \/ /\ Has(branches, f) /\ (Has(remote, f) => remote[f] \subseteq branches[f])
          /\ remote' = [remote EXCEPT ![f] = branches[f]] /\ UNCHANGED faults
       \/ /\ UNCHANGED remote
          /\ IF Has(branches, f) /\ (Has(remote, f) => remote[f] \subseteq branches[f]) THEN Fault ELSE UNCHANGED faults
    /\ UNCHANGED <<repoVars, opened, cleanup, execVars>>

_step_finalize_task(e) ==
    /\ At(e, "ready") /\ cleanup[e] = "none" /\ round[e] > 0 /\ Goes(e, "push")
    /\ UNCHANGED <<repoVars, remote, opened, cleanup, execVars, faults>>

\* GitHub opens one pull request for a branch that has something to merge.
create_pull_request(e) ==
    LET f == feature[e]  can == Has(remote, f) /\ f \notin opened /\ ~remote[f] \subseteq remote[Default] IN
    /\ At(e, "pull request") /\ Goes(e, "record")
    /\ \/ can /\ opened' = opened \cup {f} /\ pull' = [pull EXCEPT ![e] = remote[f]] /\ UNCHANGED faults
       \/ UNCHANGED <<opened, pull>> /\ (IF can THEN Fault ELSE UNCHANGED faults)
    /\ UNCHANGED <<repoVars, remote, cleanup, feature, round, kept, cancels>>

\* The end is recorded, and an execution whose end cannot be has failed.
_update_task_status(e) ==
    /\ At(e, "record")
    /\ \/ Goes(e, "completed") /\ UNCHANGED <<cleanup, faults>>
       \/ Fault /\ Raises(e)
    /\ UNCHANGED <<repoVars, remote, opened, execVars>>

\* A cancelled execution is cleaned up beside the step that it is in.
cancel_task_execution(e) ==
    /\ cancels < MaxCancels /\ cancels' = cancels + 1
    /\ worker[e] \in {"ready", "add", "diff", "commit", "hash", "push", "pull request", "record"}
    /\ cleanup[e] = "none"
    /\ cleanup' = [cleanup EXCEPT ![e] = "checkout"]
    /\ UNCHANGED <<repoVars, remote, opened, worker, feature, round, kept, pull, faults>>

\* When its step has ended the worker does not find the execution any more.
Dropped(e) ==
    /\ At(e, "ready") /\ cleanup[e] # "none" /\ Goes(e, "dropped")
    /\ UNCHANGED <<repoVars, remote, opened, cleanup, execVars, faults>>

\* checkout of the default branch, deletion of the feature branch here and at
\* origin; a command that fails ends it, the last one excepted.
cleanup_workspace(e) ==
    LET Moves(pc) == cleanup' = [cleanup EXCEPT ![e] = pc] IN
    /\ \/ /\ cleanup[e] = "checkout" /\ MayCheckOut /\ head' = Default /\ Moves("delete")
          /\ UNCHANGED <<branches, remote, opened, faults>>
       \/ /\ cleanup[e] = "delete" /\ Has(branches, feature[e]) /\ head # feature[e] /\ Moves("unpush")
          /\ branches' = [branches EXCEPT ![feature[e]] = Missing] /\ UNCHANGED <<head, remote, opened, faults>>
       \/ /\ cleanup[e] = "unpush" /\ Moves("done") /\ UNCHANGED <<head, branches>>
          /\ \/ remote' = [remote EXCEPT ![feature[e]] = Missing] /\ opened' = opened \ {feature[e]} /\ UNCHANGED faults
             \/ UNCHANGED <<remote, opened>> /\ Fault
       \/ /\ cleanup[e] \in {"checkout", "delete"} /\ Moves("done") /\ UNCHANGED <<head, branches, remote, opened>>
          /\ IF \/ cleanup[e] = "checkout" /\ MayRefuse
                \/ cleanup[e] = "delete" /\ (~Has(branches, feature[e]) \/ head = feature[e])
             THEN UNCHANGED faults ELSE Fault
    /\ UNCHANGED <<cloned, stopped, dirty, staged, worker, execVars>>

\* Others bring work to the default branch of origin.
UpstreamMoves ==
    /\ Cardinality(remote[Default]) < MaxUpstream
    /\ remote' = [remote EXCEPT ![Default] = @ \cup {Commit(Upstream, Cardinality(@))}]
    /\ UNCHANGED <<repoVars, opened, worker, cleanup, execVars, faults>>

Next ==
    \/ \E e \in Execs :
        \/ setup_workspace(e) \/ _clone_repository(e) \/ _update_repository(e) \/ _create_feature_branch(e)
        \/ _step_execute_iteration(e) \/ commit_changes(e) \/ _step_finalize_task(e)
        \/ push_branch(e) \/ create_pull_request(e) \/ _update_task_status(e)
        \/ cancel_task_execution(e) \/ Dropped(e) \/ cleanup_workspace(e)
    \/ UpstreamMoves

Spec == Init /\ [][Next]_vars

-----------------------------------------------------------------------------
\* The work of an execution never gets on the default branch, here or at
\* origin, whichever commands fail and in whatever state an earlier execution
\* left the workspace.  (Met when executions neither overlap nor are cancelled:
\* a cleanup checks the default branch out under a commit that goes on.)
DefaultIsUntouched == \A e \in Execs, b \in {branches, remote} : \A c \in b[Default] : c.by # e

\* Not met, because nobody looks whether the push was refused: the pull request
\* that an execution is answered has what it committed.
PullRequestHasWork == \A e \in Execs : pull[e] # Missing => {c \in kept[e] : c.by = e} \subseteq pull[e]

\* Not met, because a cleanup gives up at the first command that fails: a
\* failed execution leaves a workspace that the next one can use.
CleanedIsUsable == \A e \in Execs : At(e, "failed") /\ cleanup[e] \in {"none", "done"} => ~MayRefuse
=============================================================================
