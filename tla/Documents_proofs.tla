--------------------------- MODULE Documents_proofs ---------------------------
(***************************************************************************)
(* Proofs about Documents for any number of uploads, deletes and workers,  *)
(* any roles and names, and any bounds on retries and redeliveries.        *)
(***************************************************************************)
EXTENDS Documents, TLAPS

\* A worker that is at work holds a message.
Holding == \A w \in Workers : pc[w] # "idle" => msg[w] \in Msg

\* Until an upload commits there is no row; what it has parsed is something.
Uncommitted ==
    \A u \in Uploads :
        /\ pc[u] \in {"idle", "checked", "stored", "parsed", "sent"} => file[u] = "none"
        /\ pc[u] = "parsed" => parsed[u] # Empty

\* Bytes are only ever those of an upload with the same storage key.
Owned ==
    /\ \A k \in Keys : object[k] # Empty => key[object[k]] = k
    /\ \A u \in Uploads : /\ parsed[u] # Empty => key[parsed[u]] = key[u]
                          /\ clauses[u] # Empty => key[clauses[u]] = key[u]

\* The documents an upload's duplicate check saw are in other slots.
SawOthers == \A u \in Uploads : \A f \in saw[u] : Role(f) # Role(u)

\* A row is locked by a delete between its DELETEs and its end; what the delete
\* of a single document has locked has no finding.
LockHeld ==
    \A f \in Uploads : lock[f] # Free =>
        /\ pc[lock[f]] \in {"deleted", "unstored"}
        /\ lock[f] \notin whole => f \notin flagged

\* Who is about to commit chunks has put their points into the vector store.
Indexed == \A a \in Uploads \cup Workers : pc[a] = "indexed" => File(a) \in index

IInv ==
    /\ TypeOK /\ Holding /\ Uncommitted /\ Owned /\ SawOthers /\ LockHeld /\ Indexed
    /\ ClausesFollowStatus /\ ReferencesHold /\ ChunksSearchable

-----------------------------------------------------------------------------
LEMMA InitInvariant == Init => IInv
<1> SUFFICES ASSUME Init PROVE IInv
    OBVIOUS
<1> USE BoundsAssumption, ActorsAssumption DEF Init
<1>1. TypeOK
    BY DEF TypeOK, Actors
<1>2. Holding /\ Uncommitted /\ Indexed
    BY DEF Holding, Uncommitted, Indexed, Actors
<1>3. Owned /\ SawOthers /\ LockHeld
    BY DEF Owned, SawOthers, LockHeld
<1>4. ClausesFollowStatus /\ ReferencesHold /\ ChunksSearchable
    BY DEF ClausesFollowStatus, ReferencesHold, ChunksSearchable
<1>5. QED
    BY <1>1, <1>2, <1>3, <1>4 DEF IInv

\* What an upload or a busy worker works on is an upload's document.
LEMMA FileType ==
    ASSUME Holding, NEW a \in Uploads \cup Workers, a \in Workers => pc[a] # "idle"
    PROVE  File(a) \in Uploads
BY DEF Holding, File, Msg

\* Sending keeps the broker's counts natural numbers.
LEMMA SendType ==
    ASSUME queue \in [Msg -> Nat], NEW m, Send(m)
    PROVE  queue' \in [Msg -> Nat]
<1>1. queue' = [x \in Msg |-> IF x = m THEN queue[x] + 1 ELSE queue[x]]
    BY DEF Send
<1>2. QED
    BY <1>1

\* Actors of one kind are none of another.
LEMMA Kinds ==
    /\ Uploads \subseteq Actors /\ Deletes \subseteq Actors /\ Workers \subseteq Actors
    /\ \A u \in Uploads : u \notin Deletes /\ u \notin Workers /\ u # Empty /\ u # Free
    /\ \A d \in Deletes : d \notin Uploads /\ d \notin Workers /\ d # Free
    /\ \A w \in Workers : w \notin Uploads /\ w \notin Deletes /\ w # Free
BY ActorsAssumption DEF Actors

\* Everybody has a step of its own only, and keys are never changed.
LEMMA OthersWait ==
    ASSUME TypeOK, [Next]_vars
    PROVE  /\ key' = key /\ inline' = inline
           /\ \/ UNCHANGED pc
              \/ \E a \in Actors : \E to : pc' = [pc EXCEPT ![a] = to]
<1>1. ASSUME NEW u \in Uploads, CheckSlot(u) \/ Refuse(u) \/ UploadStep(u)
      PROVE  /\ key' = key /\ inline' = inline
             /\ \E to : pc' = [pc EXCEPT ![u] = to]
    BY <1>1 DEF CheckSlot, Refuse, UploadStep, Store, Parse, CommitParsed, Dispatch,
                CommitPending, AbortUpload, ReadClauses, UpsertVectors, CommitChunks,
                DropEmbedError, Step, local, history
<1>2. ASSUME NEW d \in Deletes, Select(d) \/ DeleteStep(d)
      PROVE  /\ key' = key /\ inline' = inline
             /\ \E to : pc' = [pc EXCEPT ![d] = to]
    BY <1>2 DEF Select, DeleteStep, DeleteRows, RefuseDelete, Unstore, CommitDelete,
                AbortDelete, Step, local, history
<1>3. ASSUME NEW w \in Workers, NEW m \in Msg, Take(w, m)
      PROVE  /\ key' = key /\ inline' = inline
             /\ \E to : pc' = [pc EXCEPT ![w] = to]
    BY <1>3 DEF Take, history
<1>4. ASSUME NEW w \in Workers,
             \/ ParseReturns(w) \/ SendEmbed(w) \/ Raises(w) \/ Retry(w) \/ Ack(w)
             \/ ReadClauses(w) \/ UpsertVectors(w) \/ CommitChunks(w) \/ Crash(w) \/ ChildKilled(w)
      PROVE  /\ key' = key /\ inline' = inline
             /\ \E to : pc' = [pc EXCEPT ![w] = to]
    BY <1>4 DEF ParseReturns, SendEmbed, Raises, Retry, Ack, ReadClauses, UpsertVectors,
                CommitChunks, Crash, ChildKilled, Step, local, history
<1>5. ASSUME NEW f \in Uploads, Flag(f) \/ Unflag(f)
      PROVE  key' = key /\ inline' = inline /\ UNCHANGED pc
    BY <1>5 DEF Flag, Unflag, local, history
<1>6. CASE Quiet \/ UNCHANGED vars
    BY <1>6 DEF Quiet, vars, local, history
<1>7. QED
    BY <1>1, <1>2, <1>3, <1>4, <1>5, <1>6, Kinds DEF Next, WorkerStep

LEMMA TypeInvariantStep == IInv /\ [Next]_vars => TypeOK'
<1> SUFFICES ASSUME IInv, [Next]_vars PROVE TypeOK'
    OBVIOUS
<1> USE DEF IInv
<1>1. ASSUME NEW u \in Uploads,
             \/ CheckSlot(u) \/ Refuse(u) \/ Store(u) \/ Parse(u) \/ CommitParsed(u)
             \/ CommitPending(u) \/ AbortUpload(u)
      PROVE  TypeOK'
  <2>1. u \in Actors
    BY Kinds
  <2>2. CASE CheckSlot(u) \/ Refuse(u) \/ AbortUpload(u)
    BY <2>1, <2>2 DEF TypeOK, CheckSlot, Refuse, AbortUpload, Step, Existing, stores, local,
                      history
  <2>3. CASE Store(u)
    BY <2>1, <2>3 DEF TypeOK, Store, Step, local, history
  <2>4. CASE Parse(u)
    BY <2>1, <2>4 DEF TypeOK, Parse, Step, stores, history
  <2>5. CASE CommitParsed(u)
    BY <2>1, <2>5 DEF TypeOK, CommitParsed, Step, local, history
  <2>6. CASE CommitPending(u)
    BY <2>1, <2>6 DEF TypeOK, CommitPending, Step, local, history
  <2>7. QED
    BY <1>1, <2>2, <2>3, <2>4, <2>5, <2>6
<1>2. ASSUME NEW u \in Uploads, Dispatch(u) \/ DropEmbedError(u) PROVE TypeOK'
    BY <1>2, Kinds, SendType DEF TypeOK, Dispatch, DropEmbedError, Step, stores, local, history
<1>3. ASSUME NEW a \in Uploads \cup Workers,
             ReadClauses(a) \/ UpsertVectors(a) \/ CommitChunks(a)
      PROVE  TypeOK'
  <2>1. a \in Actors
    BY Kinds
  <2>2. pc[a] # "idle" /\ File(a) \in Uploads
    BY <1>3, FileType DEF ReadClauses, UpsertVectors, CommitChunks, Step
  <2>3. CASE ReadClauses(a)
    BY <2>1, <2>3 DEF TypeOK, ReadClauses, AfterEmbed, stores, local, history
  <2>4. CASE UpsertVectors(a)
    BY <2>1, <2>2, <2>4 DEF TypeOK, UpsertVectors, Step, local, history
  <2>5. CASE CommitChunks(a)
    BY <2>1, <2>2, <2>5 DEF TypeOK, CommitChunks, AfterEmbed, Step, local, history
  <2>6. QED
    BY <1>3, <2>3, <2>4, <2>5
<1>4. ASSUME NEW d \in Deletes, Select(d) \/ RefuseDelete(d) PROVE TypeOK'
  <2>1. target' \in [Deletes -> SUBSET Uploads] /\ whole' \in SUBSET Deletes
    <3>1. CASE Select(d)
        BY <3>1 DEF TypeOK, Select, Existing
    <3>2. CASE RefuseDelete(d)
        BY <3>2 DEF TypeOK, RefuseDelete, local
    <3>3. QED
        BY <1>4, <3>1, <3>2
  <2>2. QED
    BY <1>4, <2>1, Kinds DEF TypeOK, Select, RefuseDelete, Step, stores, local, history
<1>5. ASSUME NEW d \in Deletes, DeleteRows(d) \/ AbortDelete(d) PROVE TypeOK'
    BY <1>5, Kinds DEF TypeOK, DeleteRows, AbortDelete, Release, Step, local, history
<1>6. ASSUME NEW d \in Deletes, Unstore(d) PROVE TypeOK'
  <2>1. PICK gone \in SUBSET target[d] :
          object' = [k \in Keys |-> IF \E f \in gone : key[f] = k THEN Empty ELSE object[k]]
    BY <1>6 DEF Unstore
  <2>2. object' \in [Keys -> Uploads \cup {Empty}]
    BY <2>1 DEF TypeOK
  <2>3. QED
    BY <1>6, <2>2, Kinds DEF TypeOK, Unstore, Step, local, history
<1>7. ASSUME NEW d \in Deletes, CommitDelete(d) PROVE TypeOK'
    BY <1>7, Kinds DEF TypeOK, CommitDelete, Release, Step, local, history
<1>8. ASSUME NEW w \in Workers, NEW m \in Msg, Take(w, m) PROVE TypeOK'
  <2>1. queue[m] \in Nat /\ queue[m] - 1 \in Nat
    BY <1>8 DEF TypeOK, Take
  <2>2. queue' \in [Msg -> Nat]
    BY <1>8, <2>1 DEF TypeOK, Take
  <2>3. QED
    BY <1>8, <2>2, Kinds DEF TypeOK, Take, stores, history
<1>9. ASSUME NEW w \in Workers, ParseReturns(w) \/ Raises(w) \/ Ack(w) PROVE TypeOK'
  <2>1. ParseReturns(w) => File(w) \in Uploads
    BY FileType DEF ParseReturns, Step
  <2>2. QED
    BY <1>9, <2>1, Kinds DEF TypeOK, ParseReturns, Raises, Ack, Step, stores, local, history
<1>10. ASSUME NEW w \in Workers,
              SendEmbed(w) \/ Retry(w) \/ Crash(w) \/ ChildKilled(w)
       PROVE  TypeOK'
  <2>1. queue' \in [Msg -> Nat]
    BY <1>10, SendType DEF TypeOK, SendEmbed, Retry, Crash, ChildKilled
  <2>2. QED
    BY <1>10, <2>1, Kinds DEF TypeOK, SendEmbed, Retry, Crash, ChildKilled, Step,
                           stores, local, history
<1>11. ASSUME NEW f \in Uploads, Flag(f) \/ Unflag(f) PROVE TypeOK'
    BY <1>11 DEF TypeOK, Flag, Unflag, local, history
<1>12. CASE Quiet \/ UNCHANGED vars
    BY <1>12 DEF TypeOK, Quiet, vars, stores, local, history
<1>13. QED
    BY <1>1, <1>2, <1>3, <1>4, <1>5, <1>6, <1>7, <1>8, <1>9, <1>10, <1>11, <1>12
       DEF Next, UploadStep, DeleteStep, WorkerStep

LEMMA HoldingStep == IInv /\ [Next]_vars => Holding'
<1> SUFFICES ASSUME IInv, [Next]_vars, NEW v \in Workers, pc'[v] # "idle"
             PROVE  msg'[v] \in Msg
    BY DEF Holding
<1> USE DEF IInv
<1>1. ASSUME msg'[v] = msg[v], pc[v] # "idle" PROVE msg'[v] \in Msg
    BY <1>1 DEF Holding
<1>2. ASSUME NEW u \in Uploads \cup Deletes,
             \/ CheckSlot(u) \/ Refuse(u) \/ UploadStep(u) \/ Select(u) \/ DeleteStep(u)
      PROVE  msg'[v] \in Msg
  <2>1. msg' = msg
    BY <1>2 DEF CheckSlot, Refuse, UploadStep, Store, Parse, CommitParsed, Dispatch,
                CommitPending, AbortUpload, ReadClauses, UpsertVectors, CommitChunks,
                DropEmbedError, Select, DeleteStep, DeleteRows, RefuseDelete, Unstore,
                CommitDelete, AbortDelete, local
  <2>2. \E to : pc' = [pc EXCEPT ![u] = to]
    BY <1>2 DEF CheckSlot, Refuse, UploadStep, Store, Parse, CommitParsed, Dispatch,
                CommitPending, AbortUpload, ReadClauses, UpsertVectors, CommitChunks,
                DropEmbedError, Select, DeleteStep, DeleteRows, RefuseDelete, Unstore,
                CommitDelete, AbortDelete, Step
  <2>3. u # v /\ v \in Actors
    BY Kinds
  <2>4. QED
    BY <1>1, <2>1, <2>2, <2>3 DEF TypeOK
<1>3. ASSUME NEW w \in Workers, NEW m \in Msg, Take(w, m) PROVE msg'[v] \in Msg
    BY <1>1, <1>3, Kinds DEF Take, TypeOK
<1>4. ASSUME NEW w \in Workers,
             \/ ParseReturns(w) \/ SendEmbed(w) \/ Raises(w) \/ Retry(w)
             \/ ReadClauses(w) \/ UpsertVectors(w) \/ CommitChunks(w)
      PROVE  msg'[v] \in Msg
  <2>1. msg' = msg /\ pc[w] # "idle" /\ \E to : pc' = [pc EXCEPT ![w] = to]
    BY <1>4 DEF ParseReturns, SendEmbed, Raises, Retry, ReadClauses, UpsertVectors,
                CommitChunks, Step, local
  <2>2. QED
    BY <1>1, <2>1, Kinds DEF TypeOK
<1>5. ASSUME NEW w \in Workers, Ack(w) \/ Crash(w) \/ ChildKilled(w) PROVE msg'[v] \in Msg
    BY <1>1, <1>5, Kinds DEF Ack, Crash, ChildKilled, Step, TypeOK
<1>6. ASSUME NEW f \in Uploads, Flag(f) \/ Unflag(f) PROVE msg'[v] \in Msg
    BY <1>1, <1>6 DEF Flag, Unflag, local
<1>7. CASE Quiet \/ UNCHANGED vars
    BY <1>1, <1>7 DEF Quiet, vars, local
<1>8. QED
    BY <1>2, <1>3, <1>4, <1>5, <1>6, <1>7 DEF Next, WorkerStep

LEMMA UncommittedStep == IInv /\ [Next]_vars => Uncommitted'
<1> DEFINE Early == {"idle", "checked", "stored", "parsed", "sent"}
<1> SUFFICES ASSUME IInv, [Next]_vars, NEW v \in Uploads
             PROVE  /\ pc'[v] \in Early => file'[v] = "none"
                    /\ pc'[v] = "parsed" => parsed'[v] # Empty
    BY DEF Uncommitted
<1> DEFINE Goal == /\ pc'[v] \in Early => file'[v] = "none"
                   /\ pc'[v] = "parsed" => parsed'[v] # Empty
<1> USE DEF IInv
<1>0. /\ pc[v] \in Early => file[v] = "none"
      /\ pc[v] = "parsed" => parsed[v] # Empty
    BY DEF Uncommitted
<1>1. ASSUME pc'[v] = pc[v] \/ pc'[v] \notin Early \/ (pc[v] \in Early /\ pc'[v] # "parsed"),
             file'[v] \in {file[v], "none"} \/ pc'[v] \notin Early, parsed'[v] = parsed[v]
      PROVE  Goal
    BY <1>0, <1>1
<1>2. ASSUME NEW u \in Uploads,
             \/ CheckSlot(u) \/ Refuse(u) \/ Store(u) \/ Dispatch(u) \/ AbortUpload(u)
             \/ ReadClauses(u) \/ UpsertVectors(u) \/ CommitChunks(u) \/ DropEmbedError(u)
      PROVE  Goal
  <2>1. parsed' = parsed /\ file' = file
    BY <1>2 DEF CheckSlot, Refuse, Store, Dispatch, AbortUpload, ReadClauses, UpsertVectors,
                CommitChunks, DropEmbedError, stores, local
  <2>2. pc'[v] = pc[v] \/ pc'[v] \notin Early \/ (pc[v] \in Early /\ pc'[v] # "parsed")
    BY <1>2, Kinds DEF TypeOK, CheckSlot, Refuse, Store, Dispatch, AbortUpload, ReadClauses,
                       UpsertVectors, CommitChunks, DropEmbedError, AfterEmbed, Step
  <2>3. QED
    BY <1>1, <2>1, <2>2
<1>3. ASSUME NEW u \in Uploads, Parse(u) PROVE Goal
  <2>1. /\ file' = file /\ parsed' = [parsed EXCEPT ![u] = object[key[u]]]
        /\ object[key[u]] # Empty /\ pc[u] = "stored" /\ pc' = [pc EXCEPT ![u] = "parsed"]
    BY <1>3 DEF Parse, Step, stores
  <2>2. QED
    BY <1>0, <2>1, Kinds DEF TypeOK
<1>4. ASSUME NEW u \in Uploads, CommitParsed(u) \/ CommitPending(u) PROVE Goal
  <2>1. /\ parsed' = parsed
        /\ \E to : to \notin Early /\ pc' = [pc EXCEPT ![u] = to]
        /\ \E s : file' = [file EXCEPT ![u] = s]
    BY <1>4 DEF CommitParsed, CommitPending, Step, local
  <2>2. QED
    BY <1>0, <2>1, Kinds DEF TypeOK
<1>5. ASSUME NEW d \in Deletes, Select(d) \/ DeleteStep(d) PROVE Goal
  <2>1. parsed' = parsed /\ \E to : pc' = [pc EXCEPT ![d] = to]
    BY <1>5 DEF Select, DeleteStep, DeleteRows, RefuseDelete, Unstore, CommitDelete,
                AbortDelete, Step, local
  <2>2. file'[v] \in {file[v], "none"}
    BY <1>5 DEF Select, DeleteStep, DeleteRows, RefuseDelete, Unstore, CommitDelete,
                AbortDelete, stores
  <2>3. pc'[v] = pc[v]
    BY <2>1, Kinds DEF TypeOK
  <2>4. QED
    BY <1>1, <2>1, <2>2, <2>3
<1>6. ASSUME NEW w \in Workers, NEW m \in Msg, Take(w, m) PROVE Goal
    BY <1>1, <1>6, Kinds DEF TypeOK, Take, stores
<1>7. ASSUME NEW w \in Workers,
             \/ ParseReturns(w) \/ SendEmbed(w) \/ Raises(w) \/ Retry(w) \/ Ack(w)
             \/ ReadClauses(w) \/ UpsertVectors(w) \/ CommitChunks(w) \/ Crash(w) \/ ChildKilled(w)
      PROVE  Goal
  <2>1. parsed' = parsed /\ file' = file /\ \E to : pc' = [pc EXCEPT ![w] = to]
    BY <1>7 DEF ParseReturns, SendEmbed, Raises, Retry, Ack, ReadClauses, UpsertVectors,
                CommitChunks, Crash, ChildKilled, Step, stores, local
  <2>2. pc'[v] = pc[v]
    BY <2>1, Kinds DEF TypeOK
  <2>3. QED
    BY <1>1, <2>1, <2>2
<1>8. ASSUME NEW f \in Uploads, Flag(f) \/ Unflag(f) PROVE Goal
    BY <1>1, <1>8 DEF Flag, Unflag, local
<1>9. CASE Quiet \/ UNCHANGED vars
    BY <1>1, <1>9 DEF Quiet, vars, stores, local
<1>10. QED
    BY <1>2, <1>3, <1>4, <1>5, <1>6, <1>7, <1>8, <1>9 DEF Next, UploadStep, WorkerStep

\* The committed tables of a document change with three steps of requests only:
\* the two commits of an upload and the commit of a delete.
LEMMA TablesChange ==
    ASSUME [Next]_vars
    PROVE  \/ \E u \in Uploads : CommitParsed(u) \/ CommitPending(u)
           \/ \E d \in Deletes : CommitDelete(d)
           \/ file' = file /\ clauses' = clauses
<1>1. ASSUME NEW u \in Uploads,
             \/ CheckSlot(u) \/ Refuse(u) \/ Store(u) \/ Parse(u) \/ Dispatch(u)
             \/ AbortUpload(u) \/ DropEmbedError(u)
      PROVE  file' = file /\ clauses' = clauses
    BY <1>1 DEF CheckSlot, Refuse, Store, Parse, Dispatch, AbortUpload, DropEmbedError, stores
<1>2. ASSUME NEW d \in Deletes,
             Select(d) \/ DeleteRows(d) \/ RefuseDelete(d) \/ Unstore(d) \/ AbortDelete(d)
      PROVE  file' = file /\ clauses' = clauses
    BY <1>2 DEF Select, DeleteRows, RefuseDelete, Unstore, AbortDelete, stores
<1>3. ASSUME NEW w, NEW m, Take(w, m) PROVE file' = file /\ clauses' = clauses
    BY <1>3 DEF Take, stores
<1>4. ASSUME NEW w,
             \/ ParseReturns(w) \/ SendEmbed(w) \/ Raises(w) \/ Retry(w) \/ Ack(w)
             \/ ReadClauses(w) \/ UpsertVectors(w) \/ CommitChunks(w) \/ Crash(w) \/ ChildKilled(w)
             \/ Flag(w) \/ Unflag(w)
      PROVE  file' = file /\ clauses' = clauses
    BY <1>4 DEF ParseReturns, SendEmbed, Raises, Retry, Ack, ReadClauses, UpsertVectors,
                CommitChunks, Crash, ChildKilled, Flag, Unflag, stores
<1>5. CASE Quiet \/ UNCHANGED vars
    BY <1>5 DEF Quiet, vars, stores
<1>6. QED
    BY <1>1, <1>2, <1>3, <1>4, <1>5 DEF Next, UploadStep, DeleteStep, WorkerStep

LEMMA ClausesFollowStatusStep == IInv /\ [Next]_vars => ClausesFollowStatus'
<1> SUFFICES ASSUME IInv, [Next]_vars, NEW f \in Uploads
             PROVE  clauses'[f] # Empty <=> file'[f] = "completed"
    BY DEF ClausesFollowStatus
<1> USE DEF IInv
<1>0. /\ clauses[f] # Empty <=> file[f] = "completed"
      /\ pc[f] = "parsed" => parsed[f] # Empty
      /\ pc[f] = "sent" => file[f] = "none"
    BY DEF ClausesFollowStatus, Uncommitted
<1>1. CASE file' = file /\ clauses' = clauses
    BY <1>0, <1>1
<1>2. ASSUME NEW u \in Uploads, CommitParsed(u)
      PROVE  clauses'[f] # Empty <=> file'[f] = "completed"
    BY <1>0, <1>2 DEF CommitParsed, Step, TypeOK
<1>3. ASSUME NEW u \in Uploads, CommitPending(u)
      PROVE  clauses'[f] # Empty <=> file'[f] = "completed"
    BY <1>0, <1>3 DEF CommitPending, Step, TypeOK
<1>4. ASSUME NEW d \in Deletes, CommitDelete(d)
      PROVE  clauses'[f] # Empty <=> file'[f] = "completed"
    BY <1>0, <1>4 DEF CommitDelete, TypeOK
<1>5. QED
    BY <1>1, <1>2, <1>3, <1>4, TablesChange

LEMMA OwnedStep == IInv /\ [Next]_vars => Owned'
<1> SUFFICES ASSUME IInv, [Next]_vars PROVE Owned'
    OBVIOUS
<1> USE DEF IInv
<1>0. key' = key /\ TypeOK /\ Owned
    BY OthersWait
<1>1. ASSUME NEW f \in Uploads, clauses'[f] # Empty PROVE key'[clauses'[f]] = key'[f]
  <2>1. CASE file' = file /\ clauses' = clauses
    BY <1>0, <1>1, <2>1 DEF Owned
  <2>2. ASSUME NEW u \in Uploads, CommitParsed(u) PROVE key'[clauses'[f]] = key'[f]
    BY <1>0, <1>1, <2>2 DEF CommitParsed, TypeOK, Owned
  <2>3. ASSUME NEW u \in Uploads, CommitPending(u) PROVE key'[clauses'[f]] = key'[f]
    BY <1>0, <1>1, <2>3 DEF CommitPending, Owned
  <2>4. ASSUME NEW d \in Deletes, CommitDelete(d) PROVE key'[clauses'[f]] = key'[f]
    BY <1>0, <1>1, <2>4 DEF CommitDelete, Owned
  <2>5. QED
    BY <2>1, <2>2, <2>3, <2>4, TablesChange
<1>2. ASSUME NEW u \in Uploads, Parse(u)
      PROVE  /\ object' = object
             /\ \A v \in Uploads : parsed'[v] # Empty => key'[parsed'[v]] = key'[v]
  <2>1. key[u] \in Keys
    BY <1>0 DEF TypeOK
  <2>2. QED
    BY <1>0, <1>2, <2>1 DEF Parse, Owned, TypeOK, stores
<1>3. ASSUME parsed' = parsed
      PROVE  \A v \in Uploads : parsed'[v] # Empty => key'[parsed'[v]] = key'[v]
    BY <1>0, <1>3 DEF Owned
<1>4. ASSUME object' = object
      PROVE  \A k \in Keys : object'[k] # Empty => key'[object'[k]] = k
    BY <1>0, <1>4 DEF Owned
<1>5. ASSUME NEW u \in Uploads, Store(u)
      PROVE  parsed' = parsed /\ \A k \in Keys : object'[k] # Empty => key'[object'[k]] = k
    BY <1>0, <1>5 DEF Store, Owned, TypeOK, local
<1>6. ASSUME NEW d \in Deletes, Unstore(d)
      PROVE  parsed' = parsed /\ \A k \in Keys : object'[k] # Empty => key'[object'[k]] = k
  <2>1. \A k \in Keys : object'[k] \in {object[k], Empty}
    BY <1>6 DEF Unstore
  <2>2. QED
    BY <1>0, <1>6, <2>1 DEF Unstore, Owned, local
<1>7. ASSUME NEW u \in Uploads,
             \/ CheckSlot(u) \/ Refuse(u) \/ CommitParsed(u) \/ Dispatch(u) \/ CommitPending(u)
             \/ AbortUpload(u) \/ DropEmbedError(u)
      PROVE  object' = object /\ parsed' = parsed
    BY <1>7 DEF CheckSlot, Refuse, CommitParsed, Dispatch, CommitPending, AbortUpload,
                DropEmbedError, stores, local
<1>8. ASSUME NEW d \in Deletes,
             Select(d) \/ DeleteRows(d) \/ RefuseDelete(d) \/ CommitDelete(d) \/ AbortDelete(d)
      PROVE  object' = object /\ parsed' = parsed
    BY <1>8 DEF Select, DeleteRows, RefuseDelete, CommitDelete, AbortDelete, stores, local
<1>9. ASSUME NEW w, NEW m, Take(w, m) PROVE object' = object /\ parsed' = parsed
    BY <1>9 DEF Take, stores
<1>10. ASSUME NEW w,
              \/ ParseReturns(w) \/ SendEmbed(w) \/ Raises(w) \/ Retry(w) \/ Ack(w)
              \/ ReadClauses(w) \/ UpsertVectors(w) \/ CommitChunks(w) \/ Crash(w) \/ ChildKilled(w)
              \/ Flag(w) \/ Unflag(w)
       PROVE  object' = object /\ parsed' = parsed
    BY <1>10 DEF ParseReturns, SendEmbed, Raises, Retry, Ack, ReadClauses, UpsertVectors,
                 CommitChunks, Crash, ChildKilled, Flag, Unflag, stores, local
<1>11. CASE Quiet \/ UNCHANGED vars
    BY <1>11, <1>3, <1>4, <1>1 DEF Quiet, vars, stores, local, Owned
<1>12. /\ \A k \in Keys : object'[k] # Empty => key'[object'[k]] = k
       /\ \A v \in Uploads : parsed'[v] # Empty => key'[parsed'[v]] = key'[v]
    BY <1>2, <1>3, <1>4, <1>5, <1>6, <1>7, <1>8, <1>9, <1>10, <1>11
       DEF Next, UploadStep, DeleteStep, WorkerStep, Owned
<1>13. QED
    BY <1>1, <1>12 DEF Owned

LEMMA SawOthersStep == IInv /\ [Next]_vars => SawOthers'
<1> SUFFICES ASSUME IInv, [Next]_vars PROVE SawOthers'
    OBVIOUS
<1> USE DEF IInv
<1>0. key' = key /\ TypeOK /\ SawOthers
    BY OthersWait
<1>1. CASE saw' = saw
    BY <1>0, <1>1 DEF SawOthers, Role
<1>2. ASSUME NEW u \in Uploads, CheckSlot(u) PROVE SawOthers'
    BY <1>0, <1>2 DEF CheckSlot, SawOthers, Role, TypeOK, Existing
<1>3. ASSUME NEW u \in Uploads, Refuse(u) \/ UploadStep(u) PROVE saw' = saw
    BY <1>3 DEF Refuse, UploadStep, Store, Parse, CommitParsed, Dispatch, CommitPending,
                AbortUpload, ReadClauses, UpsertVectors, CommitChunks, DropEmbedError, local
<1>4. ASSUME NEW d \in Deletes, Select(d) \/ DeleteStep(d) PROVE saw' = saw
    BY <1>4 DEF Select, DeleteStep, DeleteRows, RefuseDelete, Unstore, CommitDelete,
                AbortDelete, local
<1>5. ASSUME NEW w, NEW m, Take(w, m) PROVE saw' = saw
    BY <1>5 DEF Take
<1>6. ASSUME NEW w,
             \/ ParseReturns(w) \/ SendEmbed(w) \/ Raises(w) \/ Retry(w) \/ Ack(w)
             \/ ReadClauses(w) \/ UpsertVectors(w) \/ CommitChunks(w) \/ Crash(w) \/ ChildKilled(w)
             \/ Flag(w) \/ Unflag(w)
      PROVE  saw' = saw
    BY <1>6 DEF ParseReturns, SendEmbed, Raises, Retry, Ack, ReadClauses, UpsertVectors,
                CommitChunks, Crash, ChildKilled, Flag, Unflag, local
<1>7. CASE Quiet \/ UNCHANGED vars
    BY <1>7, <1>1 DEF Quiet, vars, local
<1>8. QED
    BY <1>1, <1>2, <1>3, <1>4, <1>5, <1>6, <1>7 DEF Next, WorkerStep

LEMMA LockHeldStep == IInv /\ [Next]_vars => LockHeld'
<1> SUFFICES ASSUME IInv, [Next]_vars, NEW f \in Uploads, lock'[f] # Free
             PROVE  /\ pc'[lock'[f]] \in {"deleted", "unstored"}
                    /\ lock'[f] \notin whole' => f \notin flagged'
    BY DEF LockHeld
<1> DEFINE Goal == /\ pc'[lock'[f]] \in {"deleted", "unstored"}
                   /\ lock'[f] \notin whole' => f \notin flagged'
<1> USE DEF IInv
<1>0. lock[f] # Free => /\ lock[f] \in Deletes /\ pc[lock[f]] \in {"deleted", "unstored"}
                        /\ lock[f] \notin whole => f \notin flagged
    BY DEF LockHeld, TypeOK
<1>1. ASSUME lock'[f] = lock[f], pc'[lock[f]] = pc[lock[f]], whole' = whole,
             flagged' = flagged
      PROVE  Goal
    BY <1>0, <1>1
<1>2. ASSUME NEW a \in Uploads \cup Workers, lock' = lock, whole' = whole, flagged' = flagged,
             \E to : pc' = [pc EXCEPT ![a] = to]
      PROVE  Goal
    BY <1>0, <1>1, <1>2, Kinds DEF TypeOK
<1>3. ASSUME NEW u \in Uploads, CheckSlot(u) \/ Refuse(u) \/ UploadStep(u) PROVE Goal
  <2>1. lock' = lock /\ whole' = whole /\ flagged' = flagged
        /\ \E to : pc' = [pc EXCEPT ![u] = to]
    BY <1>3 DEF CheckSlot, Refuse, UploadStep, Store, Parse, CommitParsed, Dispatch,
                CommitPending, AbortUpload, ReadClauses, UpsertVectors, CommitChunks,
                DropEmbedError, Step, stores, local
  <2>2. QED
    BY <1>2, <2>1
<1>4. ASSUME NEW d \in Deletes, Select(d) PROVE Goal
  <2>1. /\ lock' = lock /\ flagged' = flagged /\ pc[d] = "idle"
        /\ pc' = [pc EXCEPT ![d] = "selected"]
        /\ whole' = whole \/ whole' = whole \cup {d}
    BY <1>4 DEF Select, Step, stores
  <2>2. lock[f] # d
    BY <1>0, <2>1, Kinds
  <2>3. QED
    BY <1>0, <2>1, <2>2, Kinds DEF TypeOK
<1>5. ASSUME NEW d \in Deletes, DeleteRows(d) PROVE Goal
  <2>1. /\ flagged' = flagged /\ whole' = whole /\ pc[d] = "selected"
        /\ pc' = [pc EXCEPT ![d] = "deleted"]
        /\ lock'[f] = IF f \in Doomed(d) THEN d ELSE lock[f]
        /\ f \in Doomed(d) /\ d \notin whole => f \notin flagged
    BY <1>5 DEF DeleteRows, Step, local
  <2>2. CASE f \in Doomed(d)
    BY <2>1, <2>2, Kinds DEF TypeOK
  <2>3. CASE f \notin Doomed(d)
    <3>1. lock[f] # d
        BY <1>0, <2>1, Kinds
    <3>2. QED
        BY <1>0, <1>1, <2>1, <2>3, <3>1, Kinds DEF TypeOK
  <2>4. QED
    BY <2>2, <2>3
<1>6. ASSUME NEW d \in Deletes, RefuseDelete(d) PROVE Goal
    BY <1>0, <1>6, Kinds DEF RefuseDelete, Step, TypeOK, stores, local
<1>7. ASSUME NEW d \in Deletes, Unstore(d) PROVE Goal
    BY <1>0, <1>7, Kinds DEF Unstore, Step, TypeOK, local
<1>8. ASSUME NEW d \in Deletes, CommitDelete(d) \/ AbortDelete(d) PROVE Goal
  <2>1. /\ whole' = whole /\ flagged' \subseteq flagged /\ pc' = [pc EXCEPT ![d] = "ended"]
        /\ lock'[f] = IF lock[f] = d THEN Free ELSE lock[f]
    BY <1>8 DEF CommitDelete, AbortDelete, Step, Release, local
  <2>2. QED
    BY <1>0, <2>1, Kinds DEF TypeOK
<1>9. ASSUME NEW w \in Workers, NEW m \in Msg, Take(w, m) PROVE Goal
    BY <1>2, <1>9 DEF Take, stores
<1>10. ASSUME NEW w \in Workers,
              \/ ParseReturns(w) \/ SendEmbed(w) \/ Raises(w) \/ Retry(w) \/ Ack(w)
              \/ ReadClauses(w) \/ UpsertVectors(w) \/ CommitChunks(w) \/ Crash(w) \/ ChildKilled(w)
       PROVE  Goal
  <2>1. lock' = lock /\ whole' = whole /\ flagged' = flagged
        /\ \E to : pc' = [pc EXCEPT ![w] = to]
    BY <1>10 DEF ParseReturns, SendEmbed, Raises, Retry, Ack, ReadClauses, UpsertVectors,
                CommitChunks, Crash, ChildKilled, Step, stores, local
  <2>2. QED
    BY <1>2, <2>1
<1>11. ASSUME NEW g \in Uploads, Flag(g) \/ Unflag(g) PROVE Goal
    BY <1>0, <1>11 DEF Flag, Unflag, local
<1>12. CASE Quiet \/ UNCHANGED vars
    BY <1>1, <1>12 DEF Quiet, vars, stores, local
<1>13. QED
    BY <1>3, <1>4, <1>5, <1>6, <1>7, <1>8, <1>9, <1>10, <1>11, <1>12
       DEF Next, DeleteStep, WorkerStep

LEMMA ReferencesHoldStep == IInv /\ [Next]_vars => ReferencesHold'
<1> SUFFICES ASSUME IInv, [Next]_vars, NEW f \in chunks' \cup flagged'
             PROVE  clauses'[f] # Empty
    BY DEF ReferencesHold
<1> USE DEF IInv
<1>0. /\ f \in chunks \cup flagged => f \in Uploads /\ clauses[f] # Empty
    BY DEF ReferencesHold, TypeOK
<1>1. ASSUME chunks' = chunks, flagged' = flagged, clauses' = clauses
      PROVE  clauses'[f] # Empty
    BY <1>0, <1>1
<1>2. ASSUME NEW u \in Uploads,
             \/ CheckSlot(u) \/ Refuse(u) \/ Store(u) \/ Parse(u) \/ Dispatch(u)
             \/ CommitPending(u) \/ AbortUpload(u) \/ DropEmbedError(u)
      PROVE  clauses'[f] # Empty
    BY <1>1, <1>2 DEF CheckSlot, Refuse, Store, Parse, Dispatch, CommitPending, AbortUpload,
                      DropEmbedError, stores
<1>3. ASSUME NEW u \in Uploads, CommitParsed(u) PROVE clauses'[f] # Empty
  <2>1. parsed[u] # Empty
    BY <1>3 DEF CommitParsed, Step, Uncommitted
  <2>2. QED
    BY <1>0, <1>3, <2>1 DEF CommitParsed, TypeOK
<1>4. ASSUME NEW a \in Uploads \cup Workers, CommitChunks(a) PROVE clauses'[f] # Empty
    BY <1>0, <1>4 DEF CommitChunks
<1>5. ASSUME NEW d \in Deletes, CommitDelete(d) PROVE clauses'[f] # Empty
  <2>1. f \in chunks \cup flagged
    BY <1>5 DEF CommitDelete
  <2>2. f \in Uploads /\ clauses'[f] = IF lock[f] = d THEN Empty ELSE clauses[f]
    BY <1>0, <1>5, <2>1 DEF CommitDelete, LockedBy
  <2>3. lock[f] # d
    <3>1. SUFFICES ASSUME lock[f] = d PROVE FALSE
        OBVIOUS
    <3>2. f \in LockedBy(d)
        BY <2>2, <3>1 DEF LockedBy
    <3>3. d \notin whole /\ f \in flagged
        BY <1>5, <3>2 DEF CommitDelete
    <3>4. QED
        BY <2>2, <3>1, <3>3, Kinds DEF LockHeld
  <2>4. QED
    BY <1>0, <2>1, <2>2, <2>3
<1>6. ASSUME NEW d \in Deletes,
             Select(d) \/ DeleteRows(d) \/ RefuseDelete(d) \/ Unstore(d) \/ AbortDelete(d)
      PROVE  clauses'[f] # Empty
    BY <1>1, <1>6 DEF Select, DeleteRows, RefuseDelete, Unstore, AbortDelete, stores
<1>7. ASSUME NEW w, NEW m, Take(w, m) PROVE clauses'[f] # Empty
    BY <1>1, <1>7 DEF Take, stores
<1>8. ASSUME NEW w,
             \/ ParseReturns(w) \/ SendEmbed(w) \/ Raises(w) \/ Retry(w) \/ Ack(w)
             \/ ReadClauses(w) \/ UpsertVectors(w) \/ Crash(w) \/ ChildKilled(w)
      PROVE  clauses'[f] # Empty
    BY <1>1, <1>8 DEF ParseReturns, SendEmbed, Raises, Retry, Ack, ReadClauses, UpsertVectors,
                      Crash, ChildKilled, stores
<1>9. ASSUME NEW g \in Uploads, Flag(g) \/ Unflag(g) PROVE clauses'[f] # Empty
    BY <1>0, <1>9 DEF Flag, Unflag
<1>10. CASE Quiet \/ UNCHANGED vars
    BY <1>1, <1>10 DEF Quiet, vars, stores
<1>11. QED
    BY <1>2, <1>3, <1>4, <1>5, <1>6, <1>7, <1>8, <1>9, <1>10
       DEF Next, UploadStep, DeleteStep, WorkerStep

\* Points are never taken out of the vector store, and the document a busy
\* actor works on is the same as long as it is busy.
LEMMA IndexedStep == IInv /\ [Next]_vars => Indexed' /\ ChunksSearchable'
<1> SUFFICES ASSUME IInv, [Next]_vars PROVE Indexed' /\ ChunksSearchable'
    OBVIOUS
<1> USE DEF IInv
<1>1. ASSUME index \subseteq index', chunks' \subseteq chunks,
             \A b \in Uploads \cup Workers : pc'[b] = "indexed" =>
                pc[b] = "indexed" /\ (b \in Workers => msg'[b] = msg[b])
      PROVE  Indexed' /\ ChunksSearchable'
    BY <1>1 DEF Indexed, ChunksSearchable, File
<1>2. ASSUME NEW u \in Uploads,
             \/ CheckSlot(u) \/ Refuse(u) \/ Store(u) \/ Parse(u) \/ CommitParsed(u)
             \/ Dispatch(u) \/ CommitPending(u) \/ AbortUpload(u) \/ DropEmbedError(u)
      PROVE  Indexed' /\ ChunksSearchable'
  <2>1. index' = index /\ chunks' = chunks /\ msg' = msg
    BY <1>2 DEF CheckSlot, Refuse, Store, Parse, CommitParsed, Dispatch, CommitPending,
                AbortUpload, DropEmbedError, stores, local
  <2>2. \A b \in Uploads \cup Workers : pc'[b] = "indexed" => pc[b] = "indexed"
    BY <1>2, Kinds DEF TypeOK, CheckSlot, Refuse, Store, Parse, CommitParsed, Dispatch,
                CommitPending, AbortUpload, DropEmbedError, Step
  <2>3. QED
    BY <1>1, <2>1, <2>2
<1>3. ASSUME NEW a \in Uploads \cup Workers, ReadClauses(a) PROVE Indexed' /\ ChunksSearchable'
  <2>1. index' = index /\ chunks' = chunks /\ msg' = msg
    BY <1>3 DEF ReadClauses, stores, local
  <2>2. \A b \in Uploads \cup Workers : pc'[b] = "indexed" => pc[b] = "indexed"
    BY <1>3, Kinds DEF TypeOK, ReadClauses, AfterEmbed
  <2>3. QED
    BY <1>1, <2>1, <2>2
<1>4. ASSUME NEW a \in Uploads \cup Workers, UpsertVectors(a)
      PROVE  Indexed' /\ ChunksSearchable'
  <2>1. /\ index' = index \cup {File(a)} /\ chunks' = chunks /\ msg' = msg
        /\ pc' = [pc EXCEPT ![a] = "indexed"]
    BY <1>4 DEF UpsertVectors, Step, local
  <2>2. \A b \in Uploads \cup Workers : File(b)' = File(b)
    BY <2>1 DEF File
  <2>3. QED
    BY <2>1, <2>2, Kinds DEF Indexed, ChunksSearchable, TypeOK
<1>5. ASSUME NEW a \in Uploads \cup Workers, CommitChunks(a)
      PROVE  Indexed' /\ ChunksSearchable'
  <2>1. /\ chunks' = chunks \cup {File(a)} /\ index' = index /\ msg' = msg
        /\ pc[a] = "indexed" /\ pc' = [pc EXCEPT ![a] = AfterEmbed(a)]
    BY <1>5 DEF CommitChunks, Step, local
  <2>2. File(a) \in index
    BY <2>1 DEF Indexed
  <2>3. AfterEmbed(a) # "indexed"
    BY DEF AfterEmbed
  <2>4. \A b \in Uploads \cup Workers : File(b)' = File(b)
    BY <2>1 DEF File
  <2>5. QED
    BY <2>1, <2>2, <2>3, <2>4, Kinds DEF Indexed, ChunksSearchable, TypeOK
<1>6. ASSUME NEW d \in Deletes, Select(d) \/ DeleteStep(d) PROVE Indexed' /\ ChunksSearchable'
  <2>1. /\ index' = index /\ chunks' \subseteq chunks /\ msg' = msg
        /\ \E to : pc' = [pc EXCEPT ![d] = to]
    BY <1>6 DEF Select, DeleteStep, DeleteRows, RefuseDelete, Unstore, CommitDelete,
                AbortDelete, Step, stores, local
  <2>2. \A b \in Uploads \cup Workers : pc'[b] = pc[b]
    BY <2>1, Kinds DEF TypeOK
  <2>3. QED
    BY <1>1, <2>1, <2>2
<1>7. ASSUME NEW w \in Workers, NEW m \in Msg, Take(w, m) PROVE Indexed' /\ ChunksSearchable'
    BY <1>1, <1>7, Kinds DEF Take, TypeOK, stores
<1>8. ASSUME NEW w \in Workers,
             \/ ParseReturns(w) \/ SendEmbed(w) \/ Raises(w) \/ Retry(w) \/ Ack(w)
             \/ Crash(w) \/ ChildKilled(w)
      PROVE  Indexed' /\ ChunksSearchable'
  <2>1. /\ index' = index /\ chunks' = chunks
        /\ \E to : to # "indexed" /\ pc' = [pc EXCEPT ![w] = to]
        /\ \A b \in Workers \ {w} : msg'[b] = msg[b]
    BY <1>8 DEF TypeOK, ParseReturns, SendEmbed, Raises, Retry, Ack, Crash, ChildKilled,
                    Step, stores, local
  <2>2. QED
    BY <1>1, <2>1, Kinds DEF TypeOK
<1>9. ASSUME NEW g \in Uploads, Flag(g) \/ Unflag(g) PROVE Indexed' /\ ChunksSearchable'
    BY <1>1, <1>9 DEF Flag, Unflag, local
<1>10. CASE Quiet \/ UNCHANGED vars
    BY <1>1, <1>10 DEF Quiet, vars, stores, local
<1>11. QED
    BY <1>2, <1>3, <1>4, <1>5, <1>6, <1>7, <1>8, <1>9, <1>10
       DEF Next, UploadStep, WorkerStep

-----------------------------------------------------------------------------
\* The inductive invariant holds throughout.
THEOREM Invariant == Spec => []IInv
<1>1. IInv /\ [Next]_vars => IInv'
    BY TypeInvariantStep, HoldingStep, UncommittedStep, OwnedStep, SawOthersStep,
       LockHeldStep, IndexedStep, ClausesFollowStatusStep, ReferencesHoldStep DEF IInv
<1>2. QED
    BY InitInvariant, <1>1, PTL DEF Spec

\* Every variable of the documents' stores and actors keeps its type, so
\* "processing" and "failed" never are the status of a committed row.
THEOREM TypeCorrect == Spec => []TypeOK
BY Invariant, PTL DEF IInv

\* document_service.py and parse_tasks.py: whatever fails between parsing,
\* embedding and the end of the request, a document has clauses exactly when
\* its row says so.
THEOREM ClausesFollowStatusAlways == Spec => []ClausesFollowStatus
BY Invariant, PTL DEF IInv

\* Whatever embedding jobs, agents and deletes do at once, embeddings and
\* findings cite clauses that are there.
THEOREM ReferencesHoldAlways == Spec => []ReferencesHold
BY Invariant, PTL DEF IInv

\* embedding_service.py, embed_document: every document with committed chunk
\* rows has its points in the vector store.
THEOREM ChunksSearchableAlways == Spec => []ChunksSearchable
BY Invariant, PTL DEF IInv

\* document_service.py, upload: a document has another one's bytes only if the
\* other's duplicate check could not see it yet, for any mix of uploads,
\* deletes and jobs on one storage key.
THEOREM BytesMatchAlways == Spec => []BytesMatch
<1>1. IInv => BytesMatch
  <2> SUFFICES ASSUME IInv, NEW f \in Existing,
                      NEW b \in {object[key[f]], clauses[f]} \ {f, Empty}
               PROVE  f \notin saw[b]
    BY DEF BytesMatch
  <2>1. f \in Uploads /\ key[f] \in Keys /\ b \in Uploads
    BY DEF Existing, IInv, TypeOK
  <2>2. key[b] = key[f]
    BY <2>1 DEF IInv, Owned
  <2>3. QED
    BY <2>1, <2>2 DEF IInv, SawOthers, Role
<1>2. QED
    BY <1>1, Invariant, PTL

=============================================================================
