------------------------------ MODULE AgentMemory ------------------------------
(***************************************************************************)
(* The memory of an agent (agent_memory_manager.py): memories gather in a  *)
(* buffer that is written when it is full and every 30 seconds, and what   *)
(* an outcome teaches is counted in the agent's row of agent_expertise.    *)
(* The coroutines of several tasks share the manager and interleave at the *)
(* awaits on the pool and on the database, which may refuse a batch or      *)
(* lose its answer.  A pool without a codec for vectors, which is what      *)
(* initialize makes, refuses every batch.                                   *)
(***************************************************************************)
EXTENDS Naturals, FiniteSets, Sequences

CONSTANTS
    Writers,      \* coroutines of tasks
    Flusher,      \* the periodic flush, one of those that flush
    BufferMax,    \* buffer_max_size
    MaxMemories,  \* bound: memories stored in the session
    MaxRefused,   \* bound: batches that the database refuses
    MaxLost       \* bound: batches committed whose answer is lost

\* What is assumed of the constants.
MemoryAssumption ==
    /\ BufferMax \in Nat \ {0} /\ MaxMemories \in Nat
    /\ MaxRefused \in Nat /\ MaxLost \in Nat
    /\ Flusher \notin Writers

Flushers == Writers \cup {Flusher}

NoRow == 0

VARIABLES
    created,    \* memories store_memory has made, the numbers 1..created
    buffer,     \* memory_buffer
    met,        \* memories that came while a batch was being written
    stored,     \* rows of agent_memory
    flush,      \* what each flusher awaits, and with which batch
    skill,      \* task_count in the row of the skill, or NoRow
    learner,    \* what each writer awaits in _update_expertise, what it read, and whether it met another
    outcomes,   \* outcomes whose update is over
    alone,      \* those of them whose update met no other and did not raise
    refused, lost

memory == <<created, buffer, met, stored, flush, refused, lost>>
expertise == <<skill, learner, outcomes, alone>>
vars == <<created, buffer, met, stored, flush, skill, learner, outcomes, alone, refused, lost>>

Quiet == [at |-> "idle", batch |-> {}]
Rest == [at |-> "idle", read |-> NoRow, met |-> FALSE]

MemoryTypes ==
    /\ created \in 0..MaxMemories /\ stored \subseteq 1..created /\ met \subseteq 1..created
    /\ \A k \in DOMAIN buffer : buffer[k] \in 1..created
    /\ \A f \in Flushers : /\ flush[f].at \in {"idle", "acquiring", "inserting", "committed", "refused"}
                           /\ flush[f].batch \subseteq 1..created
    /\ skill \in {NoRow} \cup 1..MaxMemories
    /\ outcomes \in 0..MaxMemories /\ alone \in 0..outcomes
    /\ refused \in 0..MaxRefused /\ lost \in 0..MaxLost

Init ==
    /\ created = 0 /\ buffer = <<>> /\ met = {} /\ stored = {}
    /\ flush = [f \in Flushers |-> Quiet]
    /\ skill = NoRow /\ learner = [w \in Writers |-> Rest]
    /\ outcomes = 0 /\ alone = 0 /\ refused = 0 /\ lost = 0

Buffered == {buffer[k] : k \in DOMAIN buffer}

Busy(w) == flush[w].at # "idle" \/ learner[w].at # "idle"

-----------------------------------------------------------------------------
Writing(f) == flush[f].at \in {"inserting", "committed", "refused"}

\* store_memory; a full buffer is flushed before it returns.
Store(w) ==
    /\ ~Busy(w) /\ created < MaxMemories
    /\ created' = created + 1 /\ buffer' = Append(buffer, created + 1)
    /\ met' = IF \E f \in Flushers : Writing(f) THEN met \cup {created + 1} ELSE met
    /\ flush' = IF Len(buffer) + 1 >= BufferMax THEN [flush EXCEPT ![w].at = "acquiring"] ELSE flush
    /\ UNCHANGED <<stored, refused, lost, expertise>>

\* _periodic_flush wakes; an empty buffer is left alone.
Wake ==
    /\ flush[Flusher].at = "idle" /\ buffer # <<>>
    /\ flush' = [flush EXCEPT ![Flusher].at = "acquiring"]
    /\ UNCHANGED <<created, buffer, met, stored, refused, lost, expertise>>

\* Mutant: the batch leaves the buffer as it is handed to the database.
InsertAndClear(f) ==
    /\ flush[f].at = "acquiring"
    /\ flush' = [flush EXCEPT ![f] = [at |-> "inserting", batch |-> Buffered]]
    /\ buffer' = <<>>
    /\ UNCHANGED <<created, met, stored, refused, lost, expertise>>

\* The pool gives a connection; the batch is what the buffer holds then.
Insert(f) ==
    /\ flush[f].at = "acquiring"
    /\ flush' = [flush EXCEPT ![f] = [at |-> "inserting", batch |-> Buffered]]
    /\ UNCHANGED <<created, buffer, met, stored, refused, lost, expertise>>

\* The database takes the batch as a whole, unless one of it is there already
\* (the primary key) or it refuses; its answer may be lost.
Commit(f) ==
    LET batch == flush[f].batch
        answers(a) == flush' = [flush EXCEPT ![f].at = a]
    IN  /\ flush[f].at = "inserting"
        /\ \/ /\ batch \cap stored = {} /\ stored' = stored \cup batch
              /\ \/ answers("committed") /\ UNCHANGED lost
                 \/ lost < MaxLost /\ lost' = lost + 1 /\ answers("refused")
              /\ UNCHANGED refused
           \/ /\ batch \cap stored # {} /\ answers("refused") /\ UNCHANGED <<stored, refused, lost>>
           \/ /\ refused < MaxRefused /\ refused' = refused + 1
              /\ answers("refused") /\ UNCHANGED <<stored, lost>>
        /\ UNCHANGED <<created, buffer, met, expertise>>

\* memory_buffer.clear() after the await; an error is logged and changes nothing.
Clear(f) ==
    /\ flush[f].at \in {"committed", "refused"}
    /\ buffer' = IF flush[f].at = "committed" THEN <<>> ELSE buffer
    /\ flush' = [flush EXCEPT ![f] = Quiet]
    /\ UNCHANGED <<created, met, stored, refused, lost, expertise>>

-----------------------------------------------------------------------------
\* _update_expertise, for outcomes of one skill.

Active == {w \in Writers : learner[w].at # "idle"}

Learn(w) ==
    /\ ~Busy(w) /\ outcomes + Cardinality(Active) < MaxMemories
    /\ learner' = [v \in Writers |-> IF v = w THEN [at |-> "reading", read |-> NoRow, met |-> Active # {}]
                                     ELSE [learner[v] EXCEPT !.met = v \in Active]]
    /\ UNCHANGED <<skill, outcomes, alone, memory>>

ReadSkill(w) ==
    /\ learner[w].at = "reading" /\ learner' = [learner EXCEPT ![w].at = "writing", ![w].read = skill]
    /\ UNCHANGED <<skill, outcomes, alone, memory>>

\* The update of an outcome is over.
Learned(w, counted) ==
    /\ learner' = [learner EXCEPT ![w] = Rest] /\ outcomes' = outcomes + 1
    /\ alone' = IF counted /\ ~learner[w].met THEN alone + 1 ELSE alone

\* Mutant: the update adds to the row what it has just read.
WriteSum(w) ==
    /\ learner[w].at = "writing" /\ Learned(w, TRUE)
    /\ skill' = skill + learner[w].read + 1
    /\ UNCHANGED memory

\* The row is updated from what was read; a second insert for the agent and
\* skill is refused by their constraint, and the error is logged.
WriteSkill(w) ==
    /\ learner[w].at = "writing" /\ Learned(w, TRUE)
    /\ skill' = IF learner[w].read # NoRow THEN learner[w].read + 1
                ELSE IF skill = NoRow THEN 1 ELSE skill
    /\ UNCHANGED memory

\* Any of the statements raises; this is logged as well.
RaiseSkill(w) ==
    /\ learner[w].at # "idle" /\ refused < MaxRefused /\ refused' = refused + 1
    /\ Learned(w, FALSE)
    /\ UNCHANGED <<skill, created, buffer, met, stored, flush, lost>>

-----------------------------------------------------------------------------

Next ==
    \/ Wake
    \/ \E f \in Flushers : Insert(f) \/ Commit(f) \/ Clear(f)
    \/ \E w \in Writers : Store(w) \/ Learn(w) \/ ReadSkill(w) \/ WriteSkill(w) \/ RaiseSkill(w)

Spec == Init /\ [][Next]_vars

\* The pool and the database answer, and the periodic flush wakes again and again.
Fairness ==
    /\ WF_vars(Wake)
    /\ \A f \in Flushers : WF_vars(Insert(f)) /\ WF_vars(Commit(f)) /\ WF_vars(Clear(f))

FairSpec == Spec /\ Fairness

-----------------------------------------------------------------------------

\* A memory that store_memory has returned for is in the buffer or in the
\* database, unless it came while a batch was being written: whoever flushes,
\* beside whom, and whatever becomes of the batches.
KeptUnlessMet == 1..created \subseteq stored \cup Buffered \cup met

\* The same without the exception.
KeptOrStored == 1..created \subseteq stored \cup Buffered

\* Every memory comes to the database.
ComesToStore == \A m \in 1..MaxMemories : (m <= created) ~> (m \in stored)

\* When no update is under way the row has counted every outcome.
CountsOutcomes == Active = {} => outcomes = skill

\* However updates interleave, no outcome is counted twice, and one whose update
\* met no other is counted.
CountsUnlessMet == alone <= skill /\ skill <= outcomes
=============================================================================
