----------------------------- MODULE BrainStore -----------------------------
(***************************************************************************)
(* The brains, their documents and their chunks (brain_store.py).  Every   *)
(* call opens a connection of its own and commits statement by statement;  *)
(* it gives way at each of them, and when it closes the connection.  What  *)
(* the database refuses stays in IN_MEMORY_BRAINS, which is also where a   *)
(* brain that the table does not have is looked up.                        *)
(***************************************************************************)
EXTENDS Naturals, FiniteSets

CONSTANTS
    Brains,       \* brain ids
    BuiltIn,      \* the brains that the source defines
    Calls,        \* calls of the store
    Kinds,        \* which calls there are
    NoBrain,      \* no brain
    Given,        \* documents that a brain is said to have though no call added them
    Chunks,       \* chunks of a document
    MaxFaults, MaxRestarts   \* bounds

\* What is assumed of the constants.
BrainAssumption ==
    /\ IsFiniteSet(Calls) /\ BuiltIn \subseteq Brains
    /\ Kinds \subseteq {"create", "update", "delete", "add", "chunk"}
    /\ Chunks \in Nat /\ MaxFaults \in Nat /\ MaxRestarts \in Nat
    /\ Given \cap Calls = {} /\ \A calls \in SUBSET Calls : NoBrain # calls

VARIABLES
    row,       \* table brains: the calls whose values a row holds
    memory,    \* IN_MEMORY_BRAINS, likewise
    kept,      \* document_count there, as the documents it stands for
    docs,      \* table brain_documents: the calls that added one
    counted,   \* document_count in the table: the calls that raised it, and what was given
    chunks,    \* table brain_chunks: chunks of the document of each brain
    vectors,   \* vector_count, beyond what the row came with
    ready,     \* _table_ready
    at, kind, on, seen, read,   \* each call: where it is, what it does, to which brain, what it
                                \* has read, and the document_count in it
    empty,     \* its count of brains was 0
    next,      \* the chunk it comes to
    removed,   \* history: brains that a deletion has reached
    again,     \* history: brains whose row was inserted after that
    deleted,   \* history: brains whose deletion was reported
    faults, restarts

tables == <<row, docs, counted, chunks, vectors>>
cache == <<memory, kept>>
found == <<seen, read>>
history == <<removed, again, deleted, restarts>>
vars == <<tables, cache, ready, at, kind, on, found, empty, next, faults, history>>

Claims == Calls \cup Given

Values == (SUBSET Calls) \cup {NoBrain}

BrainTypes ==
    /\ row \in [Brains -> Values] /\ memory \in [Brains -> Values]
    /\ docs \in [Brains -> SUBSET Calls] /\ counted \in [Brains -> SUBSET Claims]
    /\ kept \in [Brains -> SUBSET Claims] /\ read \in [Calls -> SUBSET Claims]
    /\ chunks \in [Brains -> SUBSET (1..Chunks)] /\ vectors \in [Brains -> Nat]
    /\ ready \in BOOLEAN /\ removed \subseteq Brains /\ again \subseteq removed /\ deleted \subseteq Brains
    /\ at \in [Calls -> {"new", "checking", "seeding", "working", "finishing", "keeping", "done"}]
    /\ kind \in [Calls -> Kinds] /\ on \in [Calls -> Brains] /\ seen \in [Calls -> Values]
    /\ empty \in [Calls -> BOOLEAN] /\ next \in [Calls -> 1..Chunks + 1]

\* The built-in brains come with counts, and without documents.
Defaults == [b \in Brains |-> IF b \in BuiltIn THEN {} ELSE NoBrain]
Claimed == [b \in Brains |-> IF b \in BuiltIn THEN Given ELSE {}]

Init ==
    /\ row = [b \in Brains |-> NoBrain] /\ memory = Defaults /\ kept = Claimed
    /\ docs = [b \in Brains |-> {}] /\ counted = docs /\ chunks = docs /\ read = [c \in Calls |-> {}]
    /\ vectors = [b \in Brains |-> 0] /\ ready = FALSE
    /\ at = [c \in Calls |-> "new"] /\ seen = [c \in Calls |-> NoBrain]
    /\ kind \in [Calls -> Kinds] /\ on \in [Calls -> Brains]
    /\ empty = [c \in Calls |-> FALSE] /\ next = [c \in Calls |-> 1]
    /\ removed = {} /\ again = {} /\ deleted = {} /\ faults = 0 /\ restarts = 0

-----------------------------------------------------------------------------
\* A call works on its tables once _ensure_table has let it.

Go(c, place) == at' = [at EXCEPT ![c] = place]

Ensured == IF ready THEN "working" ELSE "checking"

Begin(c) ==
    /\ at[c] = "new" /\ Go(c, Ensured)
    /\ UNCHANGED <<tables, cache, ready, kind, on, found, empty, next, faults, history>>

\* Rows are inserted where there is none, with the counts that come with them.
Insert(brains, counts) ==
    /\ counted' = [b \in Brains |-> IF b \in brains THEN counts[b] ELSE counted[b]]
    /\ vectors' = [b \in Brains |-> IF b \in brains THEN 0 ELSE vectors[b]]
    /\ again' = again \cup (brains \cap removed)

\* _ensure_table counts the brains.
Check(c) ==
    /\ at[c] = "checking" /\ Go(c, "seeding")
    /\ empty' = [empty EXCEPT ![c] = \A b \in Brains : row[b] = NoBrain]
    /\ UNCHANGED <<tables, cache, ready, kind, on, found, next, faults, history>>

\* It seeds what it counted as empty from the brains in memory.
Seed(c) ==
    LET seeds == {b \in Brains : empty[c] /\ row[b] = NoBrain /\ memory[b] # NoBrain} IN
    /\ at[c] = "seeding" /\ Go(c, "working") /\ ready' = TRUE
    /\ row' = [b \in Brains |-> IF b \in seeds THEN memory[b] ELSE row[b]] /\ Insert(seeds, kept)
    /\ UNCHANGED <<docs, chunks, cache, kind, on, found, empty, next, faults, removed, deleted, restarts>>

Works(c, what) == at[c] = "working" /\ kind[c] = what

-----------------------------------------------------------------------------
\* What a call takes for the brain and its document_count.
Finds(c, value, count) == seen' = [seen EXCEPT ![c] = value] /\ read' = [read EXCEPT ![c] = count]

\* create_brain takes the counts from the request; a row that is there keeps its own.
Create(c) ==
    /\ Works(c, "create") /\ Go(c, "keeping") /\ row' = [row EXCEPT ![on[c]] = {c}]
    /\ \E count \in SUBSET Given :
          /\ Finds(c, {c}, count)
          /\ Insert(IF row[on[c]] = NoBrain THEN {on[c]} ELSE {}, [b \in Brains |-> count])
    /\ UNCHANGED <<docs, chunks, cache, ready, kind, on, empty, next, faults, removed, deleted, restarts>>

\* get_brain in update_brain: the row, or the brain in memory, or none.
FindsInMemory(c) ==
    LET b == on[c] IN
    \/ memory[b] # NoBrain /\ Finds(c, memory[b] \cup {c}, kept[b]) /\ Go(c, "finishing")
    \/ memory[b] = NoBrain /\ Go(c, "done") /\ UNCHANGED found

ReadForUpdate(c) ==
    LET b == on[c] IN
    /\ Works(c, "update")
    /\ \/ row[b] # NoBrain /\ Finds(c, row[b] \cup {c}, counted[b]) /\ Go(c, "finishing")
       \/ row[b] = NoBrain /\ FindsInMemory(c)
    /\ UNCHANGED <<tables, cache, ready, kind, on, empty, next, faults, history>>

\* The update writes every column from what it has read.
WriteUpdate(c) ==
    /\ at[c] = "finishing" /\ kind[c] = "update" /\ Go(c, "keeping")
    /\ row' = [row EXCEPT ![on[c]] = IF @ = NoBrain THEN NoBrain ELSE seen[c]]
    /\ UNCHANGED <<docs, counted, chunks, vectors, cache, ready, kind, on, found, empty, next, faults, history>>

\* create_brain and update_brain end with the copy in memory.
Keep(c) ==
    /\ at[c] = "keeping" /\ kind[c] \in {"create", "update"} /\ Go(c, "done")
    /\ memory' = [memory EXCEPT ![on[c]] = seen[c]] /\ kept' = [kept EXCEPT ![on[c]] = read[c]]
    /\ deleted' = IF kind[c] = "create" THEN deleted \ {on[c]} ELSE deleted
    /\ UNCHANGED <<tables, ready, kind, on, found, empty, next, faults, removed, again, restarts>>

\* Mutant: the documents go first.
DeleteDocsFirst(c) ==
    /\ Works(c, "delete") /\ Go(c, "finishing")
    /\ docs' = [docs EXCEPT ![on[c]] = {}] /\ removed' = removed \cup {on[c]}
    /\ UNCHANGED <<row, counted, vectors, chunks, cache, ready, kind, on, found, empty, next, faults, again, deleted, restarts>>

\* delete_brain: the row, then the documents, then the brain in memory.
DeleteRow(c) ==
    /\ Works(c, "delete") /\ Go(c, "finishing")
    /\ row' = [row EXCEPT ![on[c]] = NoBrain]
    /\ seen' = [seen EXCEPT ![c] = row[on[c]]] /\ removed' = removed \cup {on[c]}
    /\ UNCHANGED <<read, docs, counted, vectors, chunks, cache, ready, kind, on, empty, next, faults, again, deleted, restarts>>

DeleteDocs(c) ==
    /\ at[c] = "finishing" /\ kind[c] = "delete" /\ Go(c, "keeping")
    /\ docs' = [docs EXCEPT ![on[c]] = {}]
    /\ UNCHANGED <<row, counted, chunks, vectors, cache, ready, kind, on, found, empty, next, faults, history>>

Forget(c) ==
    /\ at[c] = "keeping" /\ kind[c] = "delete" /\ Go(c, "done")
    /\ memory' = [memory EXCEPT ![on[c]] = NoBrain]
    /\ deleted' = IF memory[on[c]] # NoBrain \/ seen[c] # NoBrain THEN deleted \cup {on[c]} ELSE deleted
    /\ UNCHANGED <<kept, tables, ready, kind, on, found, empty, next, faults, removed, again, restarts>>

\* What counting a document does to a brain that has a row.
Count(c) == counted' = [counted EXCEPT ![on[c]] = IF row[on[c]] = NoBrain THEN @ ELSE @ \cup {c}]

\* add_document: the document, whether or not its brain has a row.
InsertDocument(c) ==
    /\ Works(c, "add") /\ Go(c, "finishing")
    /\ docs' = [docs EXCEPT ![on[c]] = @ \cup {c}]
    /\ UNCHANGED <<row, counted, chunks, vectors, cache, ready, kind, on, found, empty, next, faults, history>>

CountDocument(c) ==
    /\ at[c] = "finishing" /\ kind[c] = "add" /\ Go(c, "done") /\ Count(c)
    /\ UNCHANGED <<row, docs, chunks, vectors, cache, ready, kind, on, found, empty, next, faults, history>>

\* add_document_chunks upserts one chunk after the other.
UpsertChunk(c) ==
    /\ Works(c, "chunk") /\ next[c] <= Chunks
    /\ chunks' = [chunks EXCEPT ![on[c]] = @ \cup {next[c]}]
    /\ next' = [next EXCEPT ![c] = @ + 1]
    /\ UNCHANGED <<row, docs, counted, vectors, cache, ready, at, kind, on, found, empty, faults, history>>

CountChunks(c) ==
    /\ Works(c, "chunk") /\ next[c] > Chunks /\ Go(c, "done")
    /\ vectors' = [vectors EXCEPT ![on[c]] = IF row[on[c]] = NoBrain THEN @ ELSE @ + Chunks]
    /\ UNCHANGED <<row, docs, counted, chunks, cache, ready, kind, on, found, empty, next, faults, history>>

\* A statement raises.  An update that could not read takes the brain in
\* memory, a deletion goes on with the memory, a creation and an update stay
\* in memory alone, and an addition returns nothing.
Raise(c) ==
    /\ faults < MaxFaults /\ faults' = faults + 1
    /\ at[c] \in {"checking", "seeding", "working", "finishing"}
    /\ \/ kind[c] \in {"add", "chunk"} /\ Go(c, "done") /\ UNCHANGED found
       \/ kind[c] = "delete" /\ Go(c, "keeping") /\ UNCHANGED found
       \/ kind[c] = "create" /\ Go(c, "keeping") /\ \E count \in SUBSET Given : Finds(c, {c}, count)
       \/ kind[c] = "update" /\ at[c] = "finishing" /\ Go(c, "keeping") /\ UNCHANGED found
       \/ kind[c] = "update" /\ at[c] # "finishing" /\ FindsInMemory(c)
    /\ UNCHANGED <<tables, cache, ready, kind, on, empty, next, history>>

\* The process starts anew: what was under way is gone, with the memory.
Restart ==
    /\ restarts < MaxRestarts /\ restarts' = restarts + 1
    /\ memory' = Defaults /\ kept' = Claimed /\ ready' = FALSE
    /\ at' = [c \in Calls |-> IF at[c] = "new" THEN "new" ELSE "done"]
    /\ UNCHANGED <<tables, kind, on, found, empty, next, faults, removed, again, deleted>>

Next ==
    \/ \E c \in Calls :
          \/ Begin(c) \/ Check(c) \/ Seed(c) \/ Create(c) \/ ReadForUpdate(c) \/ WriteUpdate(c) \/ Keep(c)
          \/ DeleteRow(c) \/ DeleteDocs(c) \/ Forget(c) \/ InsertDocument(c) \/ CountDocument(c)
          \/ UpsertChunk(c) \/ CountChunks(c) \/ Raise(c)
    \/ Restart

Spec == Init /\ [][Next]_vars

-----------------------------------------------------------------------------
\* Beyond what it was given, a brain claims no document that is not stored,
\* whatever is added, deleted, updated, refused or restarted meanwhile, unless
\* its row was inserted anew after a deletion (brain_store.py:825).
CountedIsStored == \A b \in Brains \ again : row[b] # NoBrain => counted[b] \subseteq docs[b] \cup Given

\* The same of all that it claims.  The code does not meet this: the built-in
\* brains are stored with a document_count of 12, 28 or 34 and no documents, and
\* a creation takes its count from the request (brain_store.py:309, 508).
ClaimedIsStored == \A b \in Brains \ again : row[b] # NoBrain => counted[b] \subseteq docs[b]

\* What get_brain answers.
Visible(b) == IF row[b] # NoBrain THEN row[b] ELSE memory[b]

\* A brain whose deletion was reported is not found.  The code does not meet
\* this: an update under way puts it back into memory, a restart brings a
\* built-in brain back, and a deletion that the database refused is reported
\* all the same (brain_store.py:597).
DeletedIsGone == \A b \in deleted : Visible(b) = NoBrain

\* An update that has ended is in what get_brain answers.  The code does not
\* meet this: each writes every column from what it read (brain_store.py:577).
UpdatesAreKept ==
    \A c \in Calls : at[c] = "done" /\ kind[c] = "update" /\ seen[c] # NoBrain /\ Visible(on[c]) # NoBrain
        => c \in Visible(on[c])

\* vector_count is the number of chunks stored.  The code does not meet this:
\* a chunk that is written again is counted again (brain_store.py:903).
VectorsAreChunks == \A b \in Brains : row[b] # NoBrain => vectors[b] <= Cardinality(chunks[b])
=============================================================================
