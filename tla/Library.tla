------------------------------ MODULE Library ------------------------------
(***************************************************************************)
(* Reviewing findings and the clause library.  An approved finding puts    *)
(* its clause into the library: a clause_library_entries row and a point   *)
(* of the tenant's Qdrant collection, which no transaction spans.  flag,   *)
(* entry and point are what others see; what a request has flushed and not *)
(* committed is in its program counter, decision and loaded.  Every review *)
(* is by another user.                                                     *)
(***************************************************************************)
EXTENDS Naturals

CONSTANTS
    Findings,       \* clause_flags rows of finished agent runs
    Blank,          \* those on a clause without text
    Reviews,        \* PATCH /findings/{id}/review; names the entry it may add
    Creates,        \* POST /clause-library; names the entry it adds
    Updates,        \* PATCH /clause-library/{id}
    Deletes,        \* DELETE /clause-library/{id}
    None            \* no row, no point, no note, nobody

Makers  == Reviews \cup Creates
Actors  == Makers \cup Updates \cup Deletes

Statuses == {"approved", "rejected"}

\* The reviewer's columns of a finding; a library entry; a point of the vector
\* store: its vector stands for the text, its payload for the status.
FlagType  == [status : Statuses \cup {"pending"}, note : Reviews \cup {None},
              by : Reviews \cup {None}]
EntryType == [text : {"first", "second"}, status : Statuses, active : BOOLEAN,
              recorded : BOOLEAN]
PointType == [text : {"first", "second"}, status : Statuses]

ASSUME ActorsAssumption ==
    /\ Reviews \cap Creates = {} /\ Updates \cap Deletes = {}
    /\ Makers \cap (Updates \cup Deletes) = {}
    /\ Blank \subseteq Findings
    /\ None \notin Actors /\ None \notin Findings
    /\ None \notin FlagType \cup EntryType \cup PointType

VARIABLES
    \* stores
    flag,       \* clause_flags: the reviewer's columns, None where purged
    entry,      \* clause_library_entries
    point,      \* Qdrant: vector and payload of each entry's point
    lock,       \* who has updated a clause_flags row and not committed
    \* actors
    pc,
    target,     \* the finding reviewed; the entry updated or deleted
    decision,   \* reviews: status, note and user of the request
    loaded,     \* reviews, deletes: the row as selected
    \* history
    answered,   \* reviews committed
    made,       \* entries committed
    edited,     \* entries changed since
    failed,     \* entries for which a request failed after a step in Qdrant
    crowded     \* findings reviewed by two requests at once

stores  == <<flag, entry, point, lock>>
local   == <<target, decision, loaded>>
history == <<answered, made, edited, failed, crowded>>
vars    == <<stores, pc, local, history>>

Step(a, from, to) == pc[a] = from /\ pc' = [pc EXCEPT ![a] = to]

Pending == [status |-> "pending", note |-> None, by |-> None]

\* What the embedding and the payload are made of.
Content(e) == [text |-> e.text, status |-> e.status]
NewEntry   == [text |-> "first", status |-> "approved", active |-> TRUE, recorded |-> FALSE]

Upserted(m) == [point EXCEPT ![m] = Content(NewEntry)]
Dropped(m)  == [point EXCEPT ![m] = None]

Approves(r) == decision[r].status = "approved" /\ target[r] \notin Blank

Init ==
    /\ flag = [f \in Findings |-> Pending]
    /\ entry = [m \in Makers |-> None]
    /\ point = [m \in Makers |-> None]
    /\ lock = [f \in Findings |-> None]
    /\ pc = [a \in Actors |-> "idle"]
    /\ target = [a \in Actors |-> None]
    /\ decision = [r \in Reviews |-> Pending]
    /\ loaded = [a \in Actors |-> None]
    /\ answered = {} /\ made = {} /\ edited = {} /\ failed = {} /\ crowded = {}

-----------------------------------------------------------------------------
(* review_finding                                                          *)

Reviewing(f) == {r \in Reviews : target[r] = f /\ pc[r] \notin {"idle", "ended"}}

\* SELECT the finding and assign status, note (also when there is none) and user.
Load(r, f, status, note) ==
    /\ Step(r, "idle", "loaded")
    /\ flag[f] # None
    /\ target' = [target EXCEPT ![r] = f]
    /\ loaded' = [loaded EXCEPT ![r] = flag[f]]
    /\ decision' = [decision EXCEPT ![r] = [status |-> status, note |-> note, by |-> r]]
    /\ crowded' = IF Reviewing(f) = {} THEN crowded ELSE crowded \cup {f}
    /\ UNCHANGED <<stores, answered, made, edited, failed>>

\* The first flush takes the row's lock.  With an approval it has inserted the
\* entry as well.
Flush(r) ==
    LET f == target[r]
    IN  /\ r \in Reviews
        /\ Step(r, "loaded", IF Approves(r) THEN "inserted" ELSE "flushed")
        /\ lock[f] = None /\ flag[f] # None
        /\ lock' = [lock EXCEPT ![f] = r]
        /\ UNCHANGED <<flag, entry, point, local, history>>

\* A re-run has deleted the finding: the UPDATE meets no row, and what follows
\* in the handler finds the session rolled back.
FlushStale(r) ==
    /\ r \in Reviews
    /\ Step(r, "loaded", "ended")
    /\ flag[target[r]] = None
    /\ UNCHANGED <<stores, local, history>>

\* POST /clause-library: no finding, only the entry is flushed.
Insert(c) ==
    /\ Step(c, "idle", "inserted")
    /\ UNCHANGED <<stores, local, history>>

-----------------------------------------------------------------------------
(* ClauseLibraryService.create, for a review or a POST                     *)

\* The text is embedded and the point upserted, and then its id recorded.
Index(m) ==
    /\ Step(m, "inserted", "indexed")
    /\ point' = Upserted(m)
    /\ UNCHANGED <<flag, entry, lock, local, history>>

\* As IndexFails would be if nothing were flushed before the embedding: the
\* failure is swallowed and there is no entry.
FailsBeforeInsert(m) ==
    /\ Step(m, "inserted", IF m \in Reviews THEN "flushed" ELSE "raised")
    /\ failed' = failed \cup {m}
    /\ UNCHANGED <<flag, entry, lock, point, local, answered, made, edited, crowded>>

\* Voyage or Qdrant fails, possibly after the upsert: a review swallows it and
\* keeps the entry, a POST fails.
IndexFails(m) ==
    /\ Step(m, "inserted", IF m \in Reviews THEN "unindexed" ELSE "raised")
    /\ failed' = failed \cup {m}
    /\ point' \in {point, Upserted(m)}
    /\ UNCHANGED <<flag, entry, lock, local, answered, made, edited, crowded>>

\* As Overwritten would be if a request without a note left the old one.
OverwrittenIfGiven(f, old, new) ==
    [status |-> new.status, note |-> IF new.note # None THEN new.note ELSE flag[f].note,
     by |-> new.by]

\* The columns an UPDATE writes are those that the request changed.
Overwritten(f, old, new) ==
    [status |-> IF new.status # old.status THEN new.status ELSE flag[f].status,
     note   |-> IF new.note # old.note THEN new.note ELSE flag[f].note,
     by     |-> IF new.by # old.by THEN new.by ELSE flag[f].by]

\* The request commits the finding's columns, the entry and the audit row.
CommitReview(r) ==
    LET f == target[r]
        kept == pc[r] \in {"indexed", "unindexed"}
    IN  /\ r \in Reviews
        /\ pc[r] \in {"flushed", "indexed", "unindexed"}
        /\ pc' = [pc EXCEPT ![r] = "ended"]
        /\ flag' = [flag EXCEPT ![f] = Overwritten(f, loaded[r], decision[r])]
        /\ entry' = IF kept THEN [entry EXCEPT ![r] =
                                     [NewEntry EXCEPT !.recorded = (pc[r] = "indexed")]]
                            ELSE entry
        /\ lock' = [lock EXCEPT ![f] = None]
        /\ answered' = answered \cup {r}
        /\ made' = IF kept THEN made \cup {r} ELSE made
        /\ UNCHANGED <<point, local, edited, failed, crowded>>

CommitCreate(c) ==
    /\ c \in Creates
    /\ Step(c, "indexed", "ended")
    /\ entry' = [entry EXCEPT ![c] = [NewEntry EXCEPT !.recorded = TRUE]]
    /\ made' = made \cup {c}
    /\ UNCHANGED <<flag, point, lock, local, answered, edited, failed, crowded>>

\* A statement, the audit row or the commit fails: rolled back, but for Qdrant.
AbortMaker(m) ==
    /\ pc[m] \in {"inserted", "flushed", "indexed", "unindexed", "raised"}
    /\ pc' = [pc EXCEPT ![m] = "ended"]
    /\ lock' = [f \in Findings |-> IF lock[f] = m THEN None ELSE lock[f]]
    /\ failed' = IF pc[m] = "indexed" THEN failed \cup {m} ELSE failed
    /\ UNCHANGED <<flag, entry, point, local, answered, made, edited, crowded>>

\* A re-run's purge commits (module AnalysisTasks).
Purge(f) ==
    /\ flag[f] # None /\ lock[f] = None
    /\ flag' = [flag EXCEPT ![f] = None]
    /\ UNCHANGED <<entry, point, lock, pc, local, history>>

-----------------------------------------------------------------------------
(* ClauseLibraryService.update and delete                                  *)

\* SELECT the entry.
Find(a, m) ==
    /\ a \in Updates \cup Deletes
    /\ Step(a, "idle", "found")
    /\ entry[m] # None
    /\ target' = [target EXCEPT ![a] = m]
    /\ loaded' = [loaded EXCEPT ![a] = entry[m]]
    /\ UNCHANGED <<stores, decision, history>>

\* Text, status or activity is changed and committed; the point is left alone.
\* If the entry is gone, the UPDATE meets no row and the request fails.
Edit(u) ==
    LET m == target[u]
    IN  /\ u \in Updates
        /\ Step(u, "found", "ended")
        /\ \/ /\ entry[m] # None
              /\ entry' \in {[entry EXCEPT ![m].text = "second"],
                             [entry EXCEPT ![m].status = "rejected"],
                             [entry EXCEPT ![m].active = FALSE]}
              /\ edited' = edited \cup {m}
           \/ entry[m] = None /\ UNCHANGED <<entry, edited>>
        /\ UNCHANGED <<flag, point, lock, local, answered, made, failed, crowded>>

\* As Unindex would be if the row were trusted to take its point with it.
UnindexNothing(d) ==
    /\ d \in Deletes
    /\ Step(d, "found", "unindexed")
    /\ UNCHANGED <<stores, local, history>>

\* The point is deleted if its id was recorded.
Unindex(d) ==
    LET m == target[d]
    IN  /\ d \in Deletes
        /\ Step(d, "found", "unindexed")
        /\ point' = IF loaded[d].recorded THEN Dropped(m) ELSE point
        /\ UNCHANGED <<flag, entry, lock, local, history>>

\* The row is deleted and committed; a row that is gone already is only a warning.
CommitDelete(d) ==
    /\ d \in Deletes
    /\ Step(d, "unindexed", "ended")
    /\ entry' = [entry EXCEPT ![target[d]] = None]
    /\ UNCHANGED <<flag, point, lock, local, history>>

\* Qdrant, a statement or the commit fails.
AbortDelete(d) ==
    /\ d \in Deletes
    /\ pc[d] \in {"found", "unindexed"}
    /\ pc' = [pc EXCEPT ![d] = "ended"]
    /\ failed' = IF pc[d] = "unindexed" THEN failed \cup {target[d]} ELSE failed
    /\ UNCHANGED <<stores, local, answered, made, edited, crowded>>

\* Nothing is under way; without it TLC would take that for a deadlock.
Quiet == (\A a \in Actors : pc[a] \in {"idle", "ended"}) /\ UNCHANGED vars

Next ==
    \/ \E r \in Reviews, f \in Findings, s \in Statuses : \E note \in {r, None} : Load(r, f, s, note)
    \/ \E r \in Reviews : Flush(r) \/ FlushStale(r) \/ CommitReview(r)
    \/ \E c \in Creates : Insert(c) \/ CommitCreate(c)
    \/ \E m \in Makers : Index(m) \/ IndexFails(m) \/ AbortMaker(m)
    \/ \E f \in Findings : Purge(f)
    \/ \E a \in Updates \cup Deletes, m \in Makers : Find(a, m)
    \/ \E u \in Updates : Edit(u)
    \/ \E d \in Deletes : Unindex(d) \/ CommitDelete(d) \/ AbortDelete(d)
    \/ Quiet

Spec == Init /\ [][Next]_vars

-----------------------------------------------------------------------------
(* Properties                                                              *)

PcType == {"idle", "loaded", "inserted", "flushed", "indexed", "unindexed", "raised", "found",
           "ended"}

\* Every variable has its type.
TypeOK ==
    /\ flag \in [Findings -> FlagType \cup {None}]
    /\ entry \in [Makers -> EntryType \cup {None}]
    /\ point \in [Makers -> PointType \cup {None}]
    /\ lock \in [Findings -> Reviews \cup {None}]
    /\ pc \in [Actors -> PcType]
    /\ target \in [Actors -> Findings \cup Makers \cup {None}]
    /\ decision \in [Reviews -> FlagType]
    /\ loaded \in [Actors -> FlagType \cup EntryType \cup {None}]
    /\ answered \in SUBSET Reviews /\ made \in SUBSET Makers
    /\ edited \in SUBSET Makers /\ failed \in SUBSET Makers /\ crowded \in SUBSET Findings

\* Nobody is adding or removing the entry.
Settled(m) ==
    /\ pc[m] \in {"idle", "loaded", "ended"}
    /\ \A d \in Deletes : target[d] = m => pc[d] # "unindexed"

\* Unless a request for it failed half way, an entry is in the table exactly if
\* its point is in the vector store, and the point shows the entry as it is
\* unless it has been edited.
IndexFollowsTable ==
    \A m \in Makers \ failed :
        Settled(m) =>
            /\ entry[m] # None <=> point[m] # None
            /\ entry[m] # None /\ m \notin edited => point[m] = Content(entry[m])

\* An approval and its library entry are committed together: every committed
\* approval of a finding on a clause with text has its entry, also one whose
\* indexing failed (that entry was flushed before and is kept without a point),
\* and a review that is rolled back, or whose finding a re-run has deleted, adds
\* nothing.
ApprovalAddsEntry ==
    \A r \in Reviews : r \in made <=> r \in answered /\ Approves(r)

\* What tasks.py:564 says of an approval whose entry cannot be indexed, "Clause
\* library requires Voyage AI keys - skip silently in demo mode": a review leaves
\* an entry only with its point recorded.  The code keeps the flushed entry.
SkippedWithoutIndex == \A r \in Reviews : entry[r] # None => entry[r].recorded

\* Unless two requests reviewed it at once, a finding's status, note and
\* reviewer come from one review.
ReviewIsWhole ==
    \A f \in Findings \ crowded :
        flag[f] # None /\ flag[f].by # None => flag[f] = decision[flag[f].by]

=============================================================================
