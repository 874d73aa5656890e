----------------------------- MODULE Documents -----------------------------
(***************************************************************************)
(* Documents of organizations, teams and agents (knowledge_manager.py, the *)
(* handlers of main.py) and their index (rag_integration.py).  A document  *)
(* is a file and a metadata file in the directory of its scope; its index  *)
(* is a row and chunks in the brains' tables.  The files are written and   *)
(* removed without giving way, but one by one: a write or a removal may    *)
(* raise, and the process may be killed, between any two.  The index does  *)
(* give way: a deletion or another indexing may come between any two of    *)
(* its statements.  (The process runs as app.main, so that the imports of  *)
(* index_all_documents resolve.)                                           *)
(***************************************************************************)
EXTENDS Naturals, FiniteSets

CONSTANTS
    Organizations, Teams, AgentIds,
    Docs,        \* ids that uploads mint
    Calls,       \* requests
    Parts,       \* chunks of a document
    MaxFaults    \* bound: writes, removals and statements that fail, ends of the process

\* What is assumed of the constants.
DocumentsAssumption == Parts \in Nat /\ MaxFaults \in Nat

\* The directory of a scope.
Scopes == ({"organizations"} \X Organizations) \cup ({"teams"} \X Teams) \cup ({"agents"} \X AgentIds)
Temp == <<"temp", "temp">>

VARIABLES
    doc,       \* each id: its directory, its content file, its metadata file, updates in it
    accepted,  \* history: updates that were answered with success
    removed,   \* history: ids whose deletion was answered with success
    torn,      \* history: ids whose deletion stopped on its way
    rows,      \* rows of brain_documents that hold the document
    chunks,    \* its chunks in brain_chunks
    call,      \* each request: what it does, to which document, to which ones after it,
               \* where it is, what it answered
    faults

vars == <<doc, accepted, removed, torn, rows, chunks, call, faults>>

Unused == [scope |-> Temp, file |-> FALSE, meta |-> "none", text |-> FALSE, updates |-> 0]
Idle == [op |-> "none", of |-> "none", rest |-> {}, at |-> "new", reply |-> "none"]

DocumentTypes ==
    /\ \A d \in Docs : doc[d].scope \in Scopes \cup {Temp} /\ doc[d].meta \in {"none", "broken", "whole"}
    /\ chunks \in [Docs -> 0..Parts] /\ removed \subseteq Docs /\ torn \subseteq Docs
    /\ \A c \in Calls : call[c].at \in {"new", "row", "chunks", "answer", "done"}
                        /\ call[c].reply \in {"none", "200", "404", "500"}

Init ==
    /\ doc = [d \in Docs |-> Unused] /\ accepted = [d \in Docs |-> 0] /\ removed = {} /\ torn = {}
    /\ rows = [d \in Docs |-> 0] /\ chunks = [d \in Docs |-> 0]
    /\ call = [c \in Calls |-> Idle] /\ faults = 0

Answered(c, op, d, reply) == /\ call[c].at = "new"
                             /\ call' = [call EXCEPT ![c] = [Idle EXCEPT !.op = op, !.of = d, !.at = "done", !.reply = reply]]
Begun(c, op, d) == /\ call[c].at = "new"
                   /\ call' = [call EXCEPT ![c] = [Idle EXCEPT !.op = op, !.of = d, !.at = "row"]]
\* The server mints an id for each upload.
Fresh(d) == \A c \in Calls : call[c].op \in {"upload", "link"} => call[c].of # d
Fault == faults < MaxFaults /\ faults' = faults + 1

\* The requests under way when the process ends.
Lost == [c \in Calls |-> IF call[c].at \in {"new", "done"} THEN call[c] ELSE [call[c] EXCEPT !.at = "done"]]

\* The process is killed within a request: it is not answered, like the others.
Killed(c, op, d) ==
    /\ call[c].at = "new" /\ Fault
    /\ call' = [Lost EXCEPT ![c] = [Idle EXCEPT !.op = op, !.of = d, !.at = "done"]]

-----------------------------------------------------------------------------
\* The metadata of a document, as one scope finds it: a file that cannot be
\* parsed is taken for none.
get_document_metadata(d, s) == doc[d].scope = s /\ doc[d].meta = "whole"

get_documents(s) == {d \in Docs : get_document_metadata(d, s)}

\* Writing the metadata truncates the file first.
Written(d, meta) == doc' = [doc EXCEPT ![d].meta = meta]

-----------------------------------------------------------------------------
\* What a killed upload leaves: the content, and less than its metadata.
UploadKilled(c, op, d, s) ==
    /\ Killed(c, op, d)
    /\ \E meta \in {"none", "broken"}, file \in BOOLEAN :
          doc' = [doc EXCEPT ![d] = [Unused EXCEPT !.scope = s, !.meta = meta, !.file = file]]
    /\ UNCHANGED accepted

\* An upload: of an unsupported type or too large it writes nothing.  When the
\* metadata cannot be written the content is removed, the rest of the metadata
\* is not.
upload_document(c, d, s) ==
    /\ Fresh(d)
    /\ \/ Answered(c, "upload", d, "500") /\ UNCHANGED <<doc, accepted, faults>>
       \/ /\ Answered(c, "upload", d, "500") /\ Fault
          /\ \E meta \in {"none", "broken"} : doc' = [doc EXCEPT ![d] = [Unused EXCEPT !.scope = s, !.meta = meta]]
          /\ UNCHANGED accepted
       \/ UploadKilled(c, "upload", d, s)
       \/ /\ Begun(c, "upload", d)
          /\ \E text \in BOOLEAN :
              doc' = [doc EXCEPT ![d] = [scope |-> s, file |-> TRUE, meta |-> "whole", text |-> text, updates |-> 0]]
          /\ UNCHANGED <<accepted, faults>>
    /\ UNCHANGED <<removed, torn, rows, chunks>>

\* The content of a link: nothing is cleaned up after it.
upload_url(c, d, s) ==
    /\ Fresh(d)
    /\ \/ Answered(c, "link", d, "500") /\ UNCHANGED <<doc, accepted, faults>>
       \/ /\ Answered(c, "link", d, "500") /\ Fault
          /\ \E meta \in {"none", "broken"} :
              doc' = [doc EXCEPT ![d] = [Unused EXCEPT !.scope = s, !.meta = meta, !.file = TRUE]]
          /\ UNCHANGED accepted
       \/ UploadKilled(c, "link", d, s)
       \/ /\ Begun(c, "link", d)
          /\ \E text \in BOOLEAN :
              doc' = [doc EXCEPT ![d] = [scope |-> s, file |-> TRUE, meta |-> "whole", text |-> text, updates |-> 0]]
          /\ UNCHANGED <<accepted, faults>>
    /\ UNCHANGED <<removed, torn, rows, chunks>>

\* The brain that a document is indexed into: its agent's, or the global one.
Brain(d) == IF doc[d].scope[1] = "agents" THEN doc[d].scope ELSE <<"organizations", "global">>

\* The row and the chunks are separate calls of the store; either may fail
\* without the other or the caller being told.
add_document(c) ==
    LET d == call[c].of IN
    /\ call[c].at = "row"
    /\ IF doc[d].text
       THEN /\ \/ rows' = [rows EXCEPT ![d] = @ + 1] /\ UNCHANGED faults
               \/ UNCHANGED rows /\ Fault
            /\ call' = [call EXCEPT ![c].at = "chunks"]
       ELSE call' = [call EXCEPT ![c].at = "answer"] /\ UNCHANGED <<rows, faults>>
    /\ UNCHANGED <<doc, accepted, removed, torn, chunks>>

Larger(m, n) == IF m < n THEN n ELSE m

add_document_chunks(c) ==
    LET d == call[c].of IN
    /\ call[c].at = "chunks"
    /\ \/ chunks' = [chunks EXCEPT ![d] = Parts] /\ UNCHANGED faults
       \/ Fault /\ \E n \in 0..Parts : n < Parts /\ chunks' = [chunks EXCEPT ![d] = Larger(@, n)]
    /\ call' = [call EXCEPT ![c].at = "answer"]
    /\ UNCHANGED <<doc, accepted, removed, torn, rows>>

\* An upload is answered whatever its index has come to; a new indexing fails
\* only for want of a text.
index_document(c) ==
    /\ call[c].at = "answer" /\ call[c].rest = {}
    /\ call' = [call EXCEPT ![c].at = "done",
                            ![c].reply = IF call[c].op = "reindex" /\ ~doc[call[c].of].text THEN "500" ELSE "200"]
    /\ UNCHANGED <<doc, accepted, removed, torn, rows, chunks, faults>>

-----------------------------------------------------------------------------
get_document(c, d, s) == /\ Answered(c, "get", d, IF get_document_metadata(d, s) THEN "200" ELSE "404")
                         /\ UNCHANGED <<doc, accepted, removed, torn, rows, chunks, faults>>

\* The bug of writing what was read before somebody else's deletion.
update_blindly(c, d, s) ==
    /\ doc[d].scope = s
    /\ Answered(c, "update", d, "200") /\ UNCHANGED faults
    /\ doc' = [doc EXCEPT ![d].meta = "whole", ![d].updates = @ + 1] /\ accepted' = [accepted EXCEPT ![d] = @ + 1]
    /\ UNCHANGED <<removed, torn, rows, chunks>>

update_document(c, d, s) ==
    /\ IF get_document_metadata(d, s)
       THEN \/ /\ Answered(c, "update", d, "200") /\ UNCHANGED faults
               /\ doc' = [doc EXCEPT ![d].updates = @ + 1] /\ accepted' = [accepted EXCEPT ![d] = @ + 1]
            \/ /\ (Answered(c, "update", d, "500") /\ Fault) \/ Killed(c, "update", d)
               /\ Written(d, "broken") /\ UNCHANGED accepted
            \/ Killed(c, "update", d) /\ doc' = [doc EXCEPT ![d].updates = @ + 1] /\ UNCHANGED accepted
       ELSE Answered(c, "update", d, "404") /\ UNCHANGED <<doc, accepted, faults>>
    /\ UNCHANGED <<removed, torn, rows, chunks>>

\* Taking a document out of the index is logged and not done.
remove_document_from_index(d) == UNCHANGED <<rows, chunks>>

\* The files are unlinked in the order the directory gives.  Success is answered
\* for whatever id is well-formed, in whatever scope; when a removal raises the
\* answer is that there is no such document.
delete_document(c, d, s) ==
    /\ remove_document_from_index(d) /\ UNCHANGED accepted
    /\ \/ /\ Answered(c, "delete", d, "200") /\ UNCHANGED <<torn, faults>>
          /\ IF doc[d].scope = s
             THEN doc' = [doc EXCEPT ![d].file = FALSE, ![d].meta = "none"] /\ removed' = removed \cup {d}
             ELSE UNCHANGED <<doc, removed>>
       \/ /\ doc[d].scope = s
          /\ \E file \in {FALSE, doc[d].file}, meta \in {"none", doc[d].meta} :
                /\ doc' = [doc EXCEPT ![d].file = file, ![d].meta = meta]
                /\ \/ Answered(c, "delete", d, "404") /\ Fault /\ (file \/ meta # "none")
                   \/ Killed(c, "delete", d)
          /\ torn' = torn \cup {d} /\ UNCHANGED removed

-----------------------------------------------------------------------------
\* The handlers of the three kinds of scope.
upload_organization_document(c, d, o) == upload_document(c, d, <<"organizations", o>>)
add_organization_url(c, d, o) == upload_url(c, d, <<"organizations", o>>)
get_organization_document(c, d, o) == get_document(c, d, <<"organizations", o>>)
get_organization_document_content(c, d, o) == get_document(c, d, <<"organizations", o>>)
update_organization_document(c, d, o) == update_document(c, d, <<"organizations", o>>)
delete_organization_document(c, d, o) == delete_document(c, d, <<"organizations", o>>)
list_organization_documents(o) == get_documents(<<"organizations", o>>)

upload_team_document(c, d, t) == upload_document(c, d, <<"teams", t>>)
add_team_url(c, d, t) == upload_url(c, d, <<"teams", t>>)
get_team_document(c, d, t) == get_document(c, d, <<"teams", t>>)
get_team_document_content(c, d, t) == get_document(c, d, <<"teams", t>>)
update_team_document(c, d, t) == update_document(c, d, <<"teams", t>>)
delete_team_document(c, d, t) == delete_document(c, d, <<"teams", t>>)
list_team_documents(t) == get_documents(<<"teams", t>>)

upload_agent_document(c, d, a) == upload_document(c, d, <<"agents", a>>)
add_agent_url(c, d, a) == upload_url(c, d, <<"agents", a>>)
get_agent_document(c, d, a) == get_document(c, d, <<"agents", a>>)
get_agent_document_content(c, d, a) == get_document(c, d, <<"agents", a>>)
update_agent_document(c, d, a) == update_document(c, d, <<"agents", a>>)
delete_agent_document(c, d, a) == delete_document(c, d, <<"agents", a>>)
list_agent_documents(a) == get_documents(<<"agents", a>>)

\* A request that indexes one document again.
reindex_document(c, d, s) ==
    /\ IF get_document_metadata(d, s) THEN Begun(c, "reindex", d) ELSE Answered(c, "reindex", d, "404")
    /\ UNCHANGED <<doc, accepted, removed, torn, rows, chunks, faults>>

\* The documents of a scope, as they are when the request arrives, are indexed
\* one after the other; those without a text are left out.
reindex_knowledge_base(c, s) ==
    LET listed == {d \in get_documents(s) : doc[d].text} IN
    /\ IF listed = {} THEN Answered(c, "reindex all", "none", "200")
       ELSE /\ call[c].at = "new"
            /\ \E d \in listed : call' = [call EXCEPT ![c] = [Idle EXCEPT !.op = "reindex all", !.of = d,
                                                                  !.rest = listed \ {d}, !.at = "row"]]
    /\ UNCHANGED <<doc, accepted, removed, torn, rows, chunks, faults>>

index_all_documents(c) ==
    /\ call[c].at = "answer"
    /\ \E d \in call[c].rest : call' = [call EXCEPT ![c].of = d, ![c].rest = @ \ {d}, ![c].at = "row"]
    /\ UNCHANGED <<doc, accepted, removed, torn, rows, chunks, faults>>

\* What a search finds for an agent: the chunks in its own and in the global
\* brain, and only when there are none the rows.
search_relevant_context(a) ==
    LET there == {d \in Docs : Brain(d) \in {<<"agents", a>>, <<"organizations", "global">>}}
        hits == {d \in there : chunks[d] > 0}
    IN IF hits # {} THEN hits ELSE {d \in there : rows[d] > 0}

\* What is not in a file or a table is lost with the process.
Restart ==
    /\ Fault /\ call' = Lost
    /\ UNCHANGED <<doc, accepted, removed, torn, rows, chunks>>

-----------------------------------------------------------------------------
OrganizationRequest(c, d) == \E o \in Organizations :
    \/ upload_organization_document(c, d, o) \/ add_organization_url(c, d, o)
    \/ get_organization_document(c, d, o) \/ get_organization_document_content(c, d, o)
    \/ update_organization_document(c, d, o) \/ delete_organization_document(c, d, o)

TeamRequest(c, d) == \E t \in Teams :
    \/ upload_team_document(c, d, t) \/ add_team_url(c, d, t)
    \/ get_team_document(c, d, t) \/ get_team_document_content(c, d, t)
    \/ update_team_document(c, d, t) \/ delete_team_document(c, d, t)

AgentRequest(c, d) == \E a \in AgentIds :
    \/ upload_agent_document(c, d, a) \/ add_agent_url(c, d, a)
    \/ get_agent_document(c, d, a) \/ get_agent_document_content(c, d, a)
    \/ update_agent_document(c, d, a) \/ delete_agent_document(c, d, a)

Next ==
    \/ \E c \in Calls, d \in Docs : OrganizationRequest(c, d) \/ TeamRequest(c, d) \/ AgentRequest(c, d)
    \/ \E c \in Calls, d \in Docs, s \in Scopes : reindex_document(c, d, s)
    \/ \E c \in Calls, s \in Scopes : reindex_knowledge_base(c, s)
    \/ \E c \in Calls : add_document(c) \/ add_document_chunks(c) \/ index_document(c) \/ index_all_documents(c)
    \/ Restart

Spec == Init /\ [][Next]_vars

-----------------------------------------------------------------------------
\* What a scope lists is what was uploaded to it and not deleted, with every
\* update that was accepted, and with its content unless a deletion of it has
\* stopped on its way; an upload that was answered with success is listed until
\* its document is deleted or an update of it fails, and one that was refused
\* never is.
CatalogueIsTrue ==
    /\ \A d \in Docs, s \in Scopes : d \in get_documents(s) =>
        d \notin removed /\ (doc[d].file \/ d \in torn) /\ doc[d].updates >= accepted[d]
    /\ \A c \in Calls : call[c].op \in {"upload", "link"} /\ call[c].at = "done" /\ call[c].reply # "none" =>
        LET d == call[c].of IN
        IF call[c].reply = "500" THEN \A s \in Scopes : d \notin get_documents(s)
        ELSE d \in removed \cup torn \/ d \in get_documents(doc[d].scope) \/ (faults > 0 /\ doc[d].meta = "broken")

\* Not met, because a deletion that stops may have removed the content and not
\* the metadata: what a scope lists has its content.
ListedHasContent == \A d \in Docs, s \in Scopes : d \in get_documents(s) => doc[d].file

\* Not met, because an index entry is never removed and an indexing may end
\* after the deletion: a deleted document is not found.
DeletedIsNotFound == \A a \in AgentIds : search_relevant_context(a) \cap removed = {}

\* Not met, because each indexing adds a row of its own: a document has one row.
OneRowEach == \A d \in Docs : rows[d] <= 1

\* Not met, because the documents of every organization and team go to the one
\* global brain: an agent finds no document of another scope.
FoundIsOwn == \A a \in AgentIds : \A d \in search_relevant_context(a) : doc[d].scope = <<"agents", a>>

\* Not met, because what the store reports is not looked at: a document whose
\* indexing was answered with success has all its chunks.
ReindexedIsIndexed == \A c \in Calls : call[c].op = "reindex" /\ call[c].reply = "200" => chunks[call[c].of] = Parts

\* Not met, because a deletion finds nothing to delete and says it did: what
\* was deleted was there.
DeletedWasThere == \A c \in Calls : call[c].op = "delete" /\ call[c].reply = "200" => call[c].of \in removed

\* Not met, because the update truncates the file: an update that is refused
\* leaves the document listed.
RefusedUpdateKeeps == \A d \in Docs : doc[d].file /\ d \notin removed => d \in get_documents(doc[d].scope)
=============================================================================
