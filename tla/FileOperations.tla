--------------------------- MODULE FileOperations ---------------------------
(***************************************************************************)
(* The file operations that a model asks for and a person approves, with   *)
(* their backups and their way back (file_operations_engine.py).  Nothing  *)
(* in the engine waits, so an application or a rollback is one step; the   *)
(* agent at work in the same directory and other batches change the files  *)
(* between such steps.                                                     *)
(***************************************************************************)
EXTENDS Naturals, Sequences, FiniteSetsExt

CONSTANTS
    Batches,   \* batches of operations
    Paths,     \* paths in the workspace
    Texts,     \* what operations write
    ops,       \* the operations of each batch
    Absent,    \* the content of a path where there is no file
    Original,  \* the content of a file that was there before
    Foreign,   \* what somebody else writes
    Partial,   \* the content of a file whose writing raised
    Present,   \* the paths that are there at first
    Faults,    \* which of "backup", "write", "restore" and "rescue" may raise
    MaxFaults, \* bound: calls that raise
    MaxEdits   \* bound: changes by others

Operations ==
    [kind : {"create_file", "modify_file", "delete_file", "move_file", "apply_diff"},
     path : Paths, text : Texts, to : Paths, safe : BOOLEAN]

FilesAssumption ==
    /\ Present \subseteq Paths /\ Faults \subseteq {"backup", "write", "restore", "rescue"}
    /\ MaxFaults \in Nat /\ MaxEdits \in Nat
    /\ \A b \in Batches : ops[b] \in Seq(Operations) /\ ops[b] # <<>>

VARIABLES
    files,    \* the workspace
    place,    \* which of pending_operations and applied_operations holds a batch
    status,   \* approval_status
    backups,  \* rollback_info: the operations with a backup, and what it holds
    stamped,  \* the operations whose applied_at is set
    before,   \* history: the workspace when the batch was last applied
    changed,  \* history: the paths that others have written since
    faults, edits

vars == <<files, place, status, backups, stamped, before, changed, faults, edits>>

FilesTypes ==
    /\ place \in [Batches -> {"none", "pending", "applied"}]
    /\ status \in [Batches -> {"pending", "approved", "rejected", "auto_approved"}]
    /\ \A b \in Batches : DOMAIN backups[b] \subseteq DOMAIN ops[b] /\ stamped[b] \subseteq DOMAIN ops[b]

Init ==
    /\ files = [p \in Paths |-> IF p \in Present THEN Original ELSE Absent]
    /\ place = [b \in Batches |-> "none"]
    /\ status = [b \in Batches |-> "pending"]
    /\ backups = [b \in Batches |-> <<>>]
    /\ stamped = [b \in Batches |-> {}]
    /\ before = [b \in Batches |-> files] /\ changed = stamped
    /\ faults = 0 /\ edits = 0

-----------------------------------------------------------------------------
\* The operations.

\* What an operation makes of the workspace; a diff is accepted and ignored.
Perform(f, o) ==
    CASE o.kind \in {"create_file", "modify_file"} -> [f EXCEPT ![o.path] = o.text]
      [] o.kind = "delete_file" -> [f EXCEPT ![o.path] = Absent]
      [] o.kind = "move_file" -> [f EXCEPT ![o.path] = Absent, ![o.to] = f[o.path]]
      [] o.kind = "apply_diff" -> f

Impossible(f, o) == o.kind \in {"modify_file", "move_file"} /\ f[o.path] = Absent

\* The workspace after the first n operations of b.
After(b, n) ==
    LET course[k \in 0..Len(ops[b])] == IF k = 0 THEN files ELSE Perform(course[k - 1], ops[b][k])
    IN  course[n]

\* The first operation that raises of itself, or one past the last.
Stumble(b) ==
    LET bad == {i \in DOMAIN ops[b] : Impossible(After(b, i - 1), ops[b][i])} IN
    IF bad = {} THEN Len(ops[b]) + 1 ELSE Min(bad)

\* Mutant: the backups of an earlier application are kept.
KeepBackups(b) ==
    IF backups[b] # <<>> THEN backups[b]
    ELSE [i \in {j \in DOMAIN ops[b] : files[ops[b][j].path] # Absent} |-> files[ops[b][i].path]]

\* _create_backup of every operation, before the first is applied.
TakeBackups(b) ==
    [i \in {j \in DOMAIN ops[b] : files[ops[b][j].path] # Absent} |-> files[ops[b][i].path]]

\* _rollback_operation writes the path of a creation, which it deletes, and of
\* a modification or a deletion that has a backup, which it restores.
Reverts(o, i, saved) ==
    \/ o.kind = "create_file"
    \/ o.kind \in {"modify_file", "delete_file"} /\ i \in DOMAIN saved

Former(o, i, saved) == IF o.kind = "create_file" THEN Absent ELSE saved[i]

\* The workspace f after the operations in which have been reverted, the last
\* one first: the earliest that writes a path leaves it as it stays.
Reverted(f, b, which, saved) ==
    [p \in Paths |->
        LET those == {i \in which : ops[b][i].path = p /\ Reverts(ops[b][i], i, saved)}
        IN  IF those = {} THEN f[p] ELSE Former(ops[b][Min(those)], Min(those), saved)]

-----------------------------------------------------------------------------
PathsOf(b) == {ops[b][i].path : i \in DOMAIN ops[b]}

\* What b writes, the others find changed.
Moved(b) == {ops[b][i].to : i \in {j \in DOMAIN ops[b] : ops[b][j].kind = "move_file"}}
OthersSee(b) == [c \in Batches |-> IF c = b THEN changed[c] ELSE changed[c] \cup PathsOf(b) \cup Moved(b)]

\* process_claude_response.
Propose(b) ==
    /\ place[b] = "none" /\ place' = [place EXCEPT ![b] = "pending"]
    /\ status' = [status EXCEPT ![b] =
          IF \A i \in DOMAIN ops[b] : ops[b][i].safe THEN "auto_approved" ELSE "pending"]
    /\ UNCHANGED <<files, backups, stamped, before, changed, faults, edits>>

\* approve_operations with approved = False.
Reject(b) ==
    /\ place[b] = "pending" /\ status' = [status EXCEPT ![b] = "rejected"]
    /\ UNCHANGED <<files, place, backups, stamped, before, changed, faults, edits>>

\* Who may begin to apply a pending batch: approve_operations, whatever was
\* decided before, and apply_operations_if_approved.
Begin(b) ==
    /\ place[b] = "pending"
    /\ \/ status' = [status EXCEPT ![b] = "approved"]
       \/ status[b] \in {"approved", "auto_approved"} /\ UNCHANGED status
    /\ before' = [before EXCEPT ![b] = files]
    /\ changed' = [OthersSee(b) EXCEPT ![b] = {}]
    /\ UNCHANGED edits

Fault(kind) == kind \in Faults /\ faults < MaxFaults

\* _apply_operations, with every operation carried out.
Apply(b) ==
    /\ Begin(b) /\ Stumble(b) > Len(ops[b])
    /\ files' = After(b, Len(ops[b]))
    /\ place' = [place EXCEPT ![b] = "applied"]
    /\ backups' = [backups EXCEPT ![b] = TakeBackups(b)]
    /\ stamped' = [stamped EXCEPT ![b] = DOMAIN ops[b]]
    /\ UNCHANGED faults

\* A file is truncated, or created, before it is written: what f is when writing
\* p raises.
Torn(f, p) == {f, [f EXCEPT ![p] = Partial]}

\* Operation o raises: a creation or a modification writes.
Raised(f, o) == IF o.kind \in {"create_file", "modify_file"} THEN Torn(f, o.path) ELSE {f}

\* The reversal of operation k raises, after those of the later ones: what is
\* not a creation writes.
StoppedAt(f, b, which, saved, k) ==
    LET g == Reverted(f, b, {i \in which : i > k}, saved) IN
    IF ops[b][k].kind # "create_file" /\ Reverts(ops[b][k], k, saved) THEN Torn(g, ops[b][k].path) ELSE {g}

\* _emergency_rollback of f: nothing when there is no backup at all; it may
\* raise itself, and that is only logged.
Rescue(f, b, which, saved) ==
    IF saved = <<>> THEN {f}
    ELSE {Reverted(f, b, which, saved)} \cup
         (IF "rescue" \in Faults THEN UNION {StoppedAt(f, b, which, saved, k) : k \in which} ELSE {})

\* _apply_operations, where operation k raises, of itself before it writes, or
\* by a fault; it is not taken back, only those that were carried out are.
Fail(b) ==
    /\ Begin(b)
    /\ \E k \in DOMAIN ops[b] :
          /\ backups' = [backups EXCEPT ![b] = TakeBackups(b)]
          /\ stamped' = [stamped EXCEPT ![b] = @ \cup 1..(k - 1)]
          /\ \/ /\ k = Stumble(b) /\ UNCHANGED faults
                /\ files' \in Rescue(After(b, k - 1), b, stamped'[b], backups'[b])
             \/ /\ k < Stumble(b) /\ Fault("write") /\ faults' = faults + 1
                /\ \E f \in Raised(After(b, k - 1), ops[b][k]) : files' \in Rescue(f, b, stamped'[b], backups'[b])
    /\ UNCHANGED place

\* _apply_operations, where a backup cannot be made: rollback_info is still
\* that of an earlier application.
FailBackup(b) ==
    /\ Begin(b) /\ Fault("backup") /\ faults' = faults + 1
    /\ files' \in Rescue(files, b, stamped[b], backups[b])
    /\ UNCHANGED <<place, backups, stamped>>

\* rollback_operations; refused where nothing was backed up.
Rollback(b) ==
    /\ place[b] = "applied" /\ backups[b] # <<>>
    /\ files' = Reverted(files, b, DOMAIN ops[b], backups[b])
    /\ place' = [place EXCEPT ![b] = "pending"] /\ status' = [status EXCEPT ![b] = "pending"]
    /\ changed' = OthersSee(b)
    /\ UNCHANGED <<backups, stamped, before, faults, edits>>

\* rollback_operations that raises on its way; the batch stays applied.
RollbackStops(b) ==
    /\ place[b] = "applied" /\ backups[b] # <<>> /\ Fault("restore") /\ faults' = faults + 1
    /\ \E k \in DOMAIN ops[b] : files' \in StoppedAt(files, b, DOMAIN ops[b], backups[b], k)
    /\ changed' = OthersSee(b)
    /\ UNCHANGED <<place, status, backups, stamped, before, edits>>

\* The agent at work in the workspace writes or removes a file.
Edit(p) ==
    /\ edits < MaxEdits /\ edits' = edits + 1
    /\ \E text \in {Foreign, Absent} \ {files[p]} : files' = [files EXCEPT ![p] = text]
    /\ changed' = [b \in Batches |-> changed[b] \cup {p}]
    /\ UNCHANGED <<place, status, backups, stamped, before, faults>>

Next ==
    \/ \E b \in Batches :
          \/ Propose(b) \/ Reject(b) \/ Apply(b) \/ Fail(b) \/ FailBackup(b) \/ Rollback(b) \/ RollbackStops(b)
    \/ \E p \in Paths : Edit(p)

Spec == Init /\ [][Next]_vars

-----------------------------------------------------------------------------
\* A batch that the engine can undo from workspace f: it moves nothing, creates
\* no file that is there, and names one that is.
Undoable(b, f) ==
    /\ \A i \in DOMAIN ops[b] :
          /\ ops[b][i].kind # "move_file"
          /\ ops[b][i].kind = "create_file" => f[ops[b][i].path] = Absent
    /\ \E p \in PathsOf(b) : f[p] # Absent

Failing(b) == Fail(b) \/ FailBackup(b)
FirstTime(b) == stamped[b] = {}
Undoing(b) == place[b] = "applied" /\ place'[b] = "pending"

\* An application in which an operation cannot be carried out leaves the
\* workspace as it was, one in which a write fails leaves at most that one file
\* torn, and a rollback leaves every file of the batch as it was before the
\* application unless somebody else has written it since; also when the batch
\* was applied, undone and approved again, and when an earlier rollback raised.
\* What no backup can be made for a second time is left out: then the old ones
\* are restored (file_operations_engine.py:592 and :222).
UndoneIsUndone ==
    [][\A b \in Batches :
         /\ Fail(b) /\ Undoable(b, files) =>
               \/ files' = files
               \/ faults' > faults /\ \E i \in DOMAIN ops[b] : files' = [files EXCEPT ![ops[b][i].path] = Partial]
         /\ FailBackup(b) /\ FirstTime(b) /\ Undoable(b, files) => files' = files
         /\ Undoing(b) /\ Undoable(b, before[b]) =>
               \A p \in PathsOf(b) \ changed[b] : files'[p] = before[b][p]]_vars

\* Any application that raises leaves the workspace as it was.  The code does
\* not meet this: the file whose writing raised stays torn, without a backup
\* there is no rollback, a move stays, and a creation over a file removes it;
\* and backups of an earlier application are restored when new ones cannot be
\* made (file_operations_engine.py:460 and :597).
FailedIsUndone == [][\A b \in Batches : Failing(b) => files' = files]_vars

\* A rejected batch is not applied.  The code does not meet this: the rejected
\* batch stays pending and may be approved (file_operations_engine.py:195).
RejectedStaysOut == [][\A b \in Batches : status[b] = "rejected" => place'[b] # "applied"]_vars
=============================================================================
