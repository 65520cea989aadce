----------------------------- MODULE Documents -----------------------------
(***************************************************************************)
(* The documents of one project: upload, parse, embed, delete.  A document *)
(* lives in five places that no transaction spans: the object store, the   *)
(* project_files row, its parsed_clauses and clause_embeddings rows, and   *)
(* the points of the vector store.  Two modes: inline (APP_ENV=testing)    *)
(* parses inside the upload request; otherwise a Celery chain parses and   *)
(* then embeds.  Committed state is in the variables under "stores"; what  *)
(* a transaction has written and not committed is in its actor's own.      *)
(***************************************************************************)
EXTENDS Naturals

CONSTANTS
    Uploads,        \* POST .../documents requests; each names the row it inserts
    Deletes,        \* DELETE requests: of one document or of the project
    Workers,        \* Celery worker slots of the "parsing" queue
    Roles, Names,   \* document slots (A, B, C) and sanitized file names
    Modes,          \* values of settings.is_testing to consider
    Embeddings,     \* settings.ENABLE_EMBEDDINGS (read in inline mode only)
    MaxRetries,     \* max_retries of both tasks
    MaxRedeliver,   \* bound: broker redeliveries
    Free,           \* nobody holds the row lock
    Empty,          \* no object under the key; no clauses
    NoMsg           \* the worker holds no message

\* STORAGE_KEY_PATTERN: one key per role and name in a project.
Keys == Roles \X Names
Msg  == [file : Uploads, stage : {"parse", "embed"}, retries : 0..MaxRetries]
Actors == Uploads \cup Deletes \cup Workers

ASSUME BoundsAssumption ==
    /\ MaxRetries \in Nat /\ MaxRedeliver \in Nat
    /\ Modes \subseteq BOOLEAN /\ Embeddings \in BOOLEAN
ASSUME ActorsAssumption ==
    /\ Uploads \cap Deletes = {} /\ Uploads \cap Workers = {} /\ Deletes \cap Workers = {}
    /\ Free \notin Actors /\ Empty \notin Uploads /\ NoMsg \notin Msg

VARIABLES
    \* stores
    object,     \* object store: whose bytes each key holds
    file,       \* project_files.parse_status, "none" where there is no row
    clauses,    \* parsed_clauses: whose bytes the document's clauses came from
    flagged,    \* documents with clause_flags on their clauses
    chunks,     \* documents with clause_embeddings rows
    index,      \* documents with points in the contract_chunks collection
    project,    \* is the projects row there
    lock,       \* row locks on a document's rows
    \* actors
    pc,
    key,        \* uploads: the storage key
    saw,        \* uploads: documents committed when the slot was checked (history)
    parsed,     \* uploads: whose bytes the uncommitted clauses came from
    target,     \* deletes: documents selected
    whole,      \* deletes of the project
    msg,        \* workers: message held
    queue,      \* Celery messages waiting, with multiplicity
    inline,     \* settings.is_testing, read when the processes start
    \* history
    reported,   \* documents parse_document_task returned success for
    redelivered

stores  == <<object, file, clauses, flagged, chunks, index, project, lock>>
local   == <<key, saw, parsed, target, whole, msg>>
history == <<inline, reported, redelivered>>
vars    == <<stores, pc, local, queue, history>>

Exists(f) == file[f] # "none"
Existing  == {f \in Uploads : Exists(f)}
Role(f)   == key[f][1]
LockedBy(a) == {f \in Uploads : lock[f] = a}
Release(a)  == [f \in Uploads |-> IF lock[f] = a THEN Free ELSE lock[f]]
\* The document an actor works on.
File(a) == IF a \in Workers THEN msg[a].file ELSE a

Step(a, from, to) == pc[a] = from /\ pc' = [pc EXCEPT ![a] = to]
Send(m) == queue' = [queue EXCEPT ![m] = @ + 1]

\* An upload whose row is flushed holds a key-share lock on the project row.
InTxn(u) == pc[u] \in {"stored", "parsed", "sent"}

Init ==
    /\ object = [k \in Keys |-> Empty]
    /\ file = [f \in Uploads |-> "none"]
    /\ clauses = [f \in Uploads |-> Empty]
    /\ flagged = {} /\ chunks = {} /\ index = {}
    /\ project = "live"
    /\ lock = [f \in Uploads |-> Free]
    /\ pc = [a \in Actors |-> "idle"]
    /\ key \in [Uploads -> Keys]
    /\ saw = [u \in Uploads |-> {}]
    /\ parsed = [u \in Uploads |-> Empty]
    /\ target = [d \in Deletes |-> {}] /\ whole = {}
    /\ msg = [w \in Workers |-> NoMsg]
    /\ queue = [m \in Msg |-> 0]
    /\ inline \in Modes
    /\ reported = {}
    /\ redelivered = 0

-----------------------------------------------------------------------------
(* Upload: upload_document and DocumentService.upload                      *)

\* As CheckSlot would be without the duplicate check.
CheckNothing(u) ==
    /\ Step(u, "idle", "checked")
    /\ saw' = [saw EXCEPT ![u] = Existing]
    /\ UNCHANGED <<stores, key, parsed, target, whole, msg, queue, history>>

\* The duplicate check finds no committed document in the role's slot.
CheckSlot(u) ==
    /\ Step(u, "idle", "checked")
    /\ \A f \in Existing : Role(f) # Role(u)
    /\ saw' = [saw EXCEPT ![u] = Existing]
    /\ UNCHANGED <<stores, key, parsed, target, whole, msg, queue, history>>

\* The request is refused: the slot is taken, the type or size is wrong.
Refuse(u) ==
    /\ Step(u, "idle", "ended")
    /\ UNCHANGED <<stores, local, queue, history>>

\* storage.upload puts the bytes under the key (whatever was there), then the
\* row is flushed.
Store(u) ==
    /\ Step(u, "checked", "stored")
    /\ project = "live"
    /\ object' = [object EXCEPT ![key[u]] = u]
    /\ UNCHANGED <<file, clauses, flagged, chunks, index, project, lock, local,
                   queue, history>>

\* Inline: the bytes are downloaded again and parsed.
Parse(u) ==
    /\ inline
    /\ Step(u, "stored", "parsed")
    /\ object[key[u]] # Empty
    /\ parsed' = [parsed EXCEPT ![u] = object[key[u]]]
    /\ UNCHANGED <<stores, key, saw, target, whole, msg, queue, history>>

\* As CommitParsed would be if the row were committed before the clauses.
CommitRowOnly(u) ==
    /\ Step(u, "parsed", IF Embeddings THEN "embedding" ELSE "ended")
    /\ file' = [file EXCEPT ![u] = "completed"]
    /\ UNCHANGED <<object, clauses, flagged, chunks, index, project, lock,
                   local, queue, history>>

\* Row, clauses and parse_status are committed together: by the explicit
\* commit before embedding, or when the request ends.
CommitParsed(u) ==
    /\ Step(u, "parsed", IF Embeddings THEN "embedding" ELSE "ended")
    /\ file' = [file EXCEPT ![u] = "completed"]
    /\ clauses' = [clauses EXCEPT ![u] = parsed[u]]
    /\ UNCHANGED <<object, flagged, chunks, index, project, lock, local, queue,
                   history>>

\* Celery: the chain's first message is sent before the commit.
Dispatch(u) ==
    /\ ~ inline
    /\ Step(u, "stored", "sent")
    /\ Send([file |-> u, stage |-> "parse", retries |-> 0])
    /\ UNCHANGED <<stores, local, history>>

CommitPending(u) ==
    /\ Step(u, "sent", "ended")
    /\ file' = [file EXCEPT ![u] = "pending"]
    /\ UNCHANGED <<object, clauses, flagged, chunks, index, project, lock, local,
                   queue, history>>

\* Parsing, a statement or the commit fails: the transaction is rolled back,
\* the object stays.
AbortUpload(u) ==
    /\ pc[u] = "checked" \/ InTxn(u)
    /\ pc' = [pc EXCEPT ![u] = "ended"]
    /\ UNCHANGED <<stores, local, queue, history>>

-----------------------------------------------------------------------------
(* embed_document, called inline by an upload or by a worker               *)

AfterEmbed(a) == IF a \in Workers THEN "done" ELSE "ended"

\* SELECT the clauses: none, nothing to do.
ReadClauses(a) ==
    /\ pc[a] = "embedding"
    /\ pc' = [pc EXCEPT ![a] = IF clauses[File(a)] = Empty THEN AfterEmbed(a) ELSE "read"]
    /\ UNCHANGED <<stores, local, queue, history>>

\* As UpsertVectors would be if the points were left to a later job.
UpsertLater(a) ==
    /\ Step(a, "read", "indexed")
    /\ UNCHANGED <<stores, local, queue, history>>

\* The points go to the vector store, outside of the transaction.
UpsertVectors(a) ==
    /\ Step(a, "read", "indexed")
    /\ index' = index \cup {File(a)}
    /\ UNCHANGED <<object, file, clauses, flagged, chunks, project, lock, local,
                   queue, history>>

\* As CommitChunks would be without the foreign key on clause_id.
CommitChunksUnreferenced(a) ==
    /\ Step(a, "indexed", AfterEmbed(a))
    /\ lock[File(a)] = Free
    /\ chunks' = chunks \cup {File(a)}
    /\ UNCHANGED <<object, file, clauses, flagged, index, project, lock, local,
                   queue, history>>

\* The document's clause_embeddings are replaced and committed; the inserts
\* reference the clauses.
CommitChunks(a) ==
    /\ Step(a, "indexed", AfterEmbed(a))
    /\ lock[File(a)] = Free /\ clauses[File(a)] # Empty
    /\ chunks' = chunks \cup {File(a)}
    /\ UNCHANGED <<object, file, clauses, flagged, index, project, lock, local,
                   queue, history>>

\* Inline, an exception is logged and dropped: the upload succeeds.
DropEmbedError(u) ==
    /\ pc[u] \in {"embedding", "read", "indexed"}
    /\ pc' = [pc EXCEPT ![u] = "ended"]
    /\ UNCHANGED <<stores, local, queue, history>>

UploadStep(u) ==
    \/ Store(u) \/ Parse(u) \/ CommitParsed(u) \/ Dispatch(u) \/ CommitPending(u)
    \/ AbortUpload(u) \/ ReadClauses(u) \/ UpsertVectors(u) \/ CommitChunks(u)
    \/ DropEmbedError(u)

-----------------------------------------------------------------------------
(* Delete: delete_document, and the files' part of delete_project          *)

\* The documents to delete are selected: one, or all of the project.
Select(d) ==
    /\ Step(d, "idle", "selected")
    /\ project = "live"
    /\ \/ \E f \in Existing : /\ target' = [target EXCEPT ![d] = {f}]
                              /\ UNCHANGED whole
       \/ /\ target' = [target EXCEPT ![d] = Existing]
          /\ whole' = whole \cup {d}
    /\ UNCHANGED <<stores, key, saw, parsed, msg, queue, history>>

\* The rows the DELETEs reach: by project id, so also what was committed since
\* the SELECT, or by document id.
Doomed(d) == IF d \in whole THEN Existing ELSE target[d] \cap Existing

\* As DeleteRows would be if clause_flags did not reference parsed_clauses.
DeleteRowsUnreferenced(d) ==
    /\ Step(d, "selected", "deleted")
    /\ \A f \in Doomed(d) : lock[f] = Free
    /\ lock' = [f \in Uploads |-> IF f \in Doomed(d) THEN d ELSE lock[f]]
    /\ UNCHANGED <<object, file, clauses, flagged, chunks, index, project,
                   local, queue, history>>

\* DELETE the clauses and the rows.  Only a project delete deletes findings
\* first: those on a single document's clauses are in its way.
DeleteRows(d) ==
    /\ Step(d, "selected", "deleted")
    /\ \A f \in Doomed(d) : lock[f] = Free /\ (d \notin whole => f \notin flagged)
    /\ lock' = [f \in Uploads |-> IF f \in Doomed(d) THEN d ELSE lock[f]]
    /\ UNCHANGED <<object, file, clauses, flagged, chunks, index, project,
                   local, queue, history>>

\* clause_flags.clause_id has no ON DELETE: the statement raises.
RefuseDelete(d) ==
    /\ d \notin whole
    /\ Step(d, "selected", "ended")
    /\ Doomed(d) \cap flagged # {}
    /\ UNCHANGED <<stores, local, queue, history>>

\* storage.delete for each selected document, best effort, before the commit.
Unstore(d) ==
    /\ Step(d, "deleted", "unstored")
    /\ \E gone \in SUBSET target[d] :
          object' = [k \in Keys |-> IF \E f \in gone : key[f] = k THEN Empty ELSE object[k]]
    /\ UNCHANGED <<file, clauses, flagged, chunks, index, project, lock, local,
                   queue, history>>

\* The request commits; clause_embeddings cascade, the points of the vector
\* store stay.  Deleting the project row waits for uploads that reference it
\* and fails on a document row that is left.
CommitDelete(d) ==
    LET S == LockedBy(d)
    IN  /\ Step(d, "unstored", "ended")
        /\ d \in whole => (\A u \in Uploads : ~ InTxn(u)) /\ Existing = S
        /\ file' = [f \in Uploads |-> IF f \in S THEN "none" ELSE file[f]]
        /\ clauses' = [f \in Uploads |-> IF f \in S THEN Empty ELSE clauses[f]]
        /\ chunks' = chunks \ S
        /\ flagged' = IF d \in whole THEN flagged \ S ELSE flagged
        /\ project' = IF d \in whole THEN "gone" ELSE project
        /\ lock' = Release(d)
        /\ UNCHANGED <<object, index, local, queue, history>>

\* A statement or the commit fails: everything but the object store is rolled
\* back.
AbortDelete(d) ==
    /\ pc[d] \in {"selected", "deleted", "unstored"}
    /\ pc' = [pc EXCEPT ![d] = "ended"]
    /\ lock' = Release(d)
    /\ UNCHANGED <<object, file, clauses, flagged, chunks, index, project, local,
                   queue, history>>

DeleteStep(d) ==
    \/ DeleteRows(d) \/ RefuseDelete(d) \/ Unstore(d) \/ CommitDelete(d) \/ AbortDelete(d)

-----------------------------------------------------------------------------
(* Celery: parse_document_task, then embed_document_task                   *)

\* No row: the parse task returns an error value, which the chain takes for
\* success.
Take(w, m) ==
    /\ pc[w] = "idle"
    /\ queue[m] > 0
    /\ queue' = [queue EXCEPT ![m] = @ - 1]
    /\ msg' = [msg EXCEPT ![w] = m]
    /\ pc' = [pc EXCEPT ![w] = IF m.stage = "embed" THEN "embedding"
                               ELSE IF Exists(m.file) THEN "loaded" ELSE "returned"]
    /\ UNCHANGED <<stores, key, saw, parsed, target, whole, history>>

\* The row is updated, the object parsed, the clauses inserted and their
\* vectors upserted; but the task returns out of `async for session in
\* get_db(...)`, which closes the session before its commit.
ParseReturns(w) ==
    LET f == File(w)
    IN  /\ Step(w, "loaded", "returned")
        /\ lock[f] = Free /\ Exists(f) /\ object[key[f]] # Empty
        /\ reported' = reported \cup {f}
        /\ UNCHANGED <<stores, local, queue, inline, redelivered>>

\* The chain sends its second message when the first task has returned.
SendEmbed(w) ==
    /\ Step(w, "returned", "done")
    /\ Send([file |-> File(w), stage |-> "embed", retries |-> 0])
    /\ UNCHANGED <<stores, local, history>>

\* Either task raises: no row any more, no object, no provider, no store.
Raises(w) ==
    /\ pc[w] \in {"loaded", "embedding", "read", "indexed"}
    /\ pc' = [pc EXCEPT ![w] = "raised"]
    /\ UNCHANGED <<stores, local, queue, history>>

\* As Retry would be if the attempt were not counted.
RetryUncounted(w) ==
    /\ Step(w, "raised", "done")
    /\ Send(msg[w])
    /\ UNCHANGED <<stores, local, history>>

Retry(w) ==
    /\ Step(w, "raised", "done")
    /\ IF msg[w].retries < MaxRetries
       THEN Send([msg[w] EXCEPT !.retries = @ + 1])
       ELSE UNCHANGED queue
    /\ UNCHANGED <<stores, local, history>>

\* acks_late.
Ack(w) ==
    /\ Step(w, "done", "idle")
    /\ msg' = [msg EXCEPT ![w] = NoMsg]
    /\ UNCHANGED <<stores, key, saw, parsed, target, whole, queue, history>>

\* The whole worker dies and the broker restores the message.
Crash(w) ==
    /\ pc[w] # "idle"
    /\ redelivered < MaxRedeliver
    /\ redelivered' = redelivered + 1
    /\ Send(msg[w])
    /\ pc' = [pc EXCEPT ![w] = "idle"]
    /\ msg' = [msg EXCEPT ![w] = NoMsg]
    /\ UNCHANGED <<stores, key, saw, parsed, target, whole, inline,
                   reported>>

\* Only the pool process is killed: without task_reject_on_worker_lost its
\* parent acknowledges the message, and the chain ends here.
ChildKilled(w) ==
    /\ pc[w] # "idle"
    /\ pc' = [pc EXCEPT ![w] = "idle"]
    /\ msg' = [msg EXCEPT ![w] = NoMsg]
    /\ UNCHANGED <<stores, key, saw, parsed, target, whole, queue, history>>

WorkerStep(w) ==
    \/ \E m \in Msg : Take(w, m)
    \/ ParseReturns(w) \/ SendEmbed(w) \/ Raises(w) \/ Retry(w) \/ Ack(w)
    \/ ReadClauses(w) \/ UpsertVectors(w) \/ CommitChunks(w)

-----------------------------------------------------------------------------
(* The agents, as far as documents see them (module AnalysisTasks)         *)

\* An agent run commits findings on the document's clauses.
Flag(f) ==
    /\ clauses[f] # Empty /\ lock[f] = Free
    /\ flagged' = flagged \cup {f}
    /\ UNCHANGED <<object, file, clauses, chunks, index, project, lock, pc, local,
                   queue, history>>

\* A re-run's purge commits and its agents find nothing.
Unflag(f) ==
    /\ lock[f] = Free
    /\ flagged' = flagged \ {f}
    /\ UNCHANGED <<object, file, clauses, chunks, index, project, lock, pc, local,
                   queue, history>>

Drained ==
    /\ \A m \in Msg : queue[m] = 0
    /\ \A a \in Actors : pc[a] \in {"idle", "ended"}

Quiet ==
    /\ Drained
    /\ \A a \in Uploads \cup Deletes : pc[a] = "ended"
    /\ UNCHANGED vars

Next ==
    \/ \E u \in Uploads : CheckSlot(u) \/ Refuse(u) \/ UploadStep(u)
    \/ \E d \in Deletes : Select(d) \/ DeleteStep(d)
    \/ \E w \in Workers : WorkerStep(w) \/ Crash(w) \/ ChildKilled(w)
    \/ \E f \in Uploads : Flag(f) \/ Unflag(f)
    \/ Quiet

\* The server finishes the requests it has begun and the workers run; nothing
\* makes a client send a request, an agent report or a worker die.
Fairness ==
    /\ \A u \in Uploads : WF_vars(UploadStep(u))
    /\ \A d \in Deletes : WF_vars(DeleteStep(d))
    /\ \A w \in Workers : WF_vars(WorkerStep(w))

Spec == Init /\ [][Next]_vars /\ Fairness

-----------------------------------------------------------------------------
(* Properties                                                              *)

\* Every variable has its type.  "processing" and "failed" are no status of a
\* committed row: every path that assigns them is rolled back.
TypeOK ==
    /\ object \in [Keys -> Uploads \cup {Empty}]
    /\ file \in [Uploads -> {"none", "pending", "completed"}]
    /\ clauses \in [Uploads -> Uploads \cup {Empty}]
    /\ flagged \in SUBSET Uploads /\ chunks \in SUBSET Uploads /\ index \in SUBSET Uploads
    /\ project \in {"live", "gone"}
    /\ lock \in [Uploads -> Deletes \cup {Free}]
    /\ pc \in [Actors -> {"idle", "ended", "checked", "stored", "parsed", "sent",
                          "embedding", "read", "indexed", "selected", "deleted",
                          "unstored", "loaded", "returned", "raised", "done"}]
    /\ key \in [Uploads -> Keys]
    /\ saw \in [Uploads -> SUBSET Uploads]
    /\ parsed \in [Uploads -> Uploads \cup {Empty}]
    /\ target \in [Deletes -> SUBSET Uploads]
    /\ whole \in SUBSET Deletes
    /\ msg \in [Workers -> Msg \cup {NoMsg}]
    /\ queue \in [Msg -> Nat]
    /\ inline \in Modes
    /\ reported \in SUBSET Uploads
    /\ redelivered \in Nat

\* A document has clauses exactly when its status says so, whatever fails
\* between parsing, embedding and the end of the request.
ClausesFollowStatus ==
    \A f \in Uploads : clauses[f] # Empty <=> file[f] = "completed"

\* Embeddings and findings never outlive the clauses they cite, although a
\* delete runs between embed_document's SELECT and its INSERTs.
ReferencesHold == \A f \in chunks \cup flagged : clauses[f] # Empty

\* What lexical search finds, vector search can find: the points are in the
\* vector store before the rows are committed.
ChunksSearchable == chunks \subseteq index

\* A document is served, or was parsed from, another one's bytes only if the
\* other's duplicate check came before the document was committed.
BytesMatch ==
    \A f \in Existing : \A b \in {object[key[f]], clauses[f]} \ {f, Empty} :
        f \notin saw[b]

\* Attempts are bounded and nobody waits for ever: requests end and the broker
\* drains.
Drains == <>[]Drained

\* parse_tasks.py: "Downloads a ProjectFile, parses it into clauses, persists
\* to DB": a document the task returned success for has its clauses.
ParsedIsPersisted == \A f \in reported : Exists(f) => clauses[f] # Empty

=============================================================================
