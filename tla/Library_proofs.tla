-------------------------- MODULE Library_proofs --------------------------
(***************************************************************************)
(* Proofs about Library for any findings, reviews, entries, edits and      *)
(* deletes, failing where they may.                                        *)
(***************************************************************************)
EXTENDS Library, TLAPS

\* A review that has flushed holds its finding's row, which no purge deletes.
Holds(r) == r \in Reviews /\ pc[r] \in {"inserted", "flushed", "indexed", "unindexed"}

Locks ==
    /\ \A r \in Reviews : pc[r] \notin {"idle", "ended"} =>
           target[r] \in Findings /\ decision[r].by = r
    /\ \A r \in Reviews : Holds(r) => lock[target[r]] = r /\ flag[target[r]] # None

\* Of each actor that has begun with an entry: it was committed before.
Finding ==
    \A a \in Updates \cup Deletes : pc[a] \in {"found", "unindexed"} =>
        /\ target[a] \in Makers
        /\ pc[target[a]] = "ended" /\ loaded[a] \in EntryType
        /\ target[a] \notin failed => loaded[a].recorded

Unindexing(m) == \E d \in Deletes : pc[d] = "unindexed" /\ target[d] = m

\* Who has not failed: before its step in Qdrant there is no point, after it the
\* point shows the entry, and a delete removes the point before the row.
Pointed(m) ==
    /\ entry[m] # None => pc[m] = "ended"
    /\ m \notin failed =>
           /\ pc[m] \notin {"unindexed", "raised"}
           /\ entry[m] # None => entry[m].recorded
           /\ pc[m] \in {"idle", "loaded", "inserted", "flushed"} => point[m] = None
           /\ pc[m] = "indexed" => point[m] = Content(NewEntry)
           /\ pc[m] = "ended" /\ entry[m] = None => point[m] = None
           /\ Unindexing(m) => point[m] = None
           /\ entry[m] # None /\ ~Unindexing(m) => point[m] # None
           /\ entry[m] # None /\ ~Unindexing(m) /\ m \notin edited => point[m] = Content(entry[m])

Points == \A m \in Makers : Pointed(m)

\* A review has an entry under way exactly if it approves.
Approving ==
    \A r \in Reviews :
        /\ r \in made \/ r \in answered => pc[r] = "ended"
        /\ pc[r] \in {"inserted", "indexed", "unindexed"} => Approves(r)
        /\ pc[r] = "flushed" => ~Approves(r)

\* The reviewer of a finding is done.  Where no two met, whoever reviews it is
\* alone and has read what is there.
Reviewers ==
    /\ \A f \in Findings :
           flag[f] # None /\ flag[f].by # None => flag[f].by \in Reviews /\ pc[flag[f].by] = "ended"
    /\ \A f \in Findings \ crowded : \A r \in Reviews :
           target[r] = f /\ pc[r] \notin {"idle", "ended"} =>
               /\ Reviewing(f) = {r}
               /\ flag[f] # None => loaded[r] = flag[f]

IInv ==
    /\ TypeOK /\ Locks /\ Finding /\ Points
    /\ Approving /\ ApprovalAddsEntry /\ Reviewers /\ ReviewIsWhole

-----------------------------------------------------------------------------
\* A step moves its actor's program counter and no other.
LEMMA StepMoves ==
    ASSUME TypeOK, NEW a \in Actors, NEW from, NEW to \in PcType, Step(a, from, to)
    PROVE  /\ pc' \in [Actors -> PcType] /\ pc[a] = from /\ pc'[a] = to
           /\ \A b \in Actors \ {a} : pc'[b] = pc[b]
BY DEF TypeOK, Step

LEMMA NewTypes ==
    /\ NewEntry \in EntryType /\ Content(NewEntry) \in PointType
    /\ [NewEntry EXCEPT !.recorded = TRUE] \in EntryType
    /\ [NewEntry EXCEPT !.recorded = TRUE].recorded
    /\ Content([NewEntry EXCEPT !.recorded = TRUE]) = Content(NewEntry)
    /\ \A e \in EntryType : Content(e) \in PointType
BY DEF NewEntry, Content, EntryType, PointType, Statuses

\* None is no row and no point.
LEMMA NoneIsNone == None \notin FlagType /\ None \notin EntryType /\ None \notin PointType
BY ActorsAssumption

LEMMA OverwrittenType ==
    ASSUME NEW f \in Findings, flag[f] \in FlagType, NEW old \in FlagType, NEW new \in FlagType
    PROVE  /\ Overwritten(f, old, new) \in FlagType
           /\ Overwritten(f, old, new).by \in {flag[f].by, new.by}
           /\ flag[f] = old => Overwritten(f, old, new) = new
BY DEF Overwritten, FlagType

LEMMA InitInv == Init => IInv
<1> SUFFICES ASSUME Init PROVE IInv
  OBVIOUS
<1>1. Pending \in FlagType
  BY DEF Pending, FlagType
<1>2. TypeOK
  BY <1>1 DEF Init, TypeOK, PcType
<1>3. \A a \in Actors : pc[a] = "idle"
  BY DEF Init
<1>4. \A m \in Makers : entry[m] = None /\ point[m] = None /\ m \in Actors
  BY DEF Init, Actors
<1>5. Locks /\ Finding
  BY <1>3 DEF Locks, Finding, Holds, Actors, Makers
<1>6. Points
  BY <1>3, <1>4 DEF Points, Pointed, Unindexing, Actors
<1>7. Approving /\ ApprovalAddsEntry
  BY <1>3 DEF Init, Approving, ApprovalAddsEntry, Actors, Makers
<1>8. \A f \in Findings : flag[f].by = None
  BY DEF Init, Pending
<1>9. Reviewers /\ ReviewIsWhole
  BY <1>3, <1>8 DEF Reviewers, ReviewIsWhole, Actors, Makers
<1>10. QED
  BY <1>2, <1>5, <1>6, <1>7, <1>9 DEF IInv

-----------------------------------------------------------------------------
(* Frames                                                                  *)

\* A step of somebody who reviews no finding.
LEMMA FlagsKept ==
    ASSUME IInv, NEW a \in Actors \ Reviews,
           flag' = flag, lock' = lock, decision' = decision, crowded' = crowded,
           \A r \in Reviews : pc'[r] = pc[r] /\ target'[r] = target[r] /\ loaded'[r] = loaded[r],
           answered' = answered, \A r \in Reviews : r \in made' <=> r \in made
    PROVE  Locks' /\ Approving' /\ ApprovalAddsEntry' /\ Reviewers' /\ ReviewIsWhole'
<1>1. Locks'
  BY DEF IInv, Locks, Holds
<1>2. \A r \in Reviews : Approves(r)' <=> Approves(r)
  BY DEF Approves
<1>3. Approving' /\ ApprovalAddsEntry'
  BY <1>2 DEF IInv, Approving, ApprovalAddsEntry
<1>4. \A f \in Findings : Reviewing(f)' = Reviewing(f)
  BY DEF Reviewing
<1>5. Reviewers'
  BY <1>4 DEF IInv, Reviewers
<1>6. ReviewIsWhole'
  BY DEF IInv, ReviewIsWhole
<1>7. QED
  BY <1>1, <1>3, <1>5, <1>6

\* An entry is as it was if the step is not about it.
LEMMA PointKept ==
    ASSUME NEW m \in Makers, Pointed(m), entry'[m] = entry[m], point'[m] = point[m],
           pc'[m] = pc[m], m \in edited' <=> m \in edited, m \in failed => m \in failed',
           Unindexing(m)' <=> Unindexing(m)
    PROVE  Pointed(m)'
BY DEF Pointed

\* A maker's step leaves updates, deletes and other entries alone.
LEMMA MakersStep ==
    ASSUME IInv, NEW m \in Makers, failed \subseteq failed', edited' = edited,
           pc[m] # "ended" \/ pc'[m] = "ended",
           \A b \in Actors \ {m} :
               pc'[b] = pc[b] /\ target'[b] = target[b] /\ loaded'[b] = loaded[b],
           \A n \in Makers \ {m} : entry'[n] = entry[n] /\ point'[n] = point[n]
    PROVE  /\ Finding'
           /\ \A n \in Makers \ {m} : Pointed(n)'
           /\ Unindexing(m)' <=> Unindexing(m)
           /\ pc[m] # "ended" => ~Unindexing(m)
<1>1. \A a \in Updates \cup Deletes : /\ a \in Actors /\ pc'[a] = pc[a]
                                      /\ target'[a] = target[a] /\ loaded'[a] = loaded[a]
  BY ActorsAssumption DEF Actors
<1>2. \A n \in Makers : n \in Actors /\ (n # m => pc'[n] = pc[n])
  BY DEF Actors
<1>3. Finding'
  <2>1. ASSUME NEW a \in Updates \cup Deletes, pc'[a] \in {"found", "unindexed"}
        PROVE  /\ target'[a] \in Makers
               /\ pc'[target'[a]] = "ended" /\ loaded'[a] \in EntryType
               /\ target'[a] \notin failed' => loaded'[a].recorded
    <3>1. /\ target[a] \in Makers /\ pc[target[a]] = "ended" /\ loaded[a] \in EntryType
          /\ target[a] \notin failed => loaded[a].recorded
      BY <1>1, <2>1 DEF IInv, Finding
    <3>2. pc'[target[a]] = "ended"
      BY <1>2, <3>1
    <3>3. QED
      BY <1>1, <3>1, <3>2
  <2>2. QED
    BY <2>1 DEF Finding
<1>4. ASSUME NEW n \in Makers PROVE Unindexing(n)' <=> Unindexing(n)
  BY <1>1 DEF Unindexing
<1>5. ASSUME NEW n \in Makers \ {m} PROVE Pointed(n)'
  BY <1>2, <1>4, PointKept DEF IInv, Points
<1>6. pc[m] # "ended" => ~Unindexing(m)
  BY DEF IInv, Finding, Unindexing
<1>7. QED
  BY <1>3, <1>4, <1>5, <1>6

-----------------------------------------------------------------------------
(* One lemma per action of a review                                        *)

LEMMA LoadInv ==
    ASSUME IInv, NEW r \in Reviews, NEW f \in Findings, NEW s \in Statuses,
           NEW note \in {r, None}, Load(r, f, s, note)
    PROVE  IInv'
<1> DEFINE new == [status |-> s, note |-> note, by |-> r]
<1>1. new \in FlagType /\ new.by = r
  BY DEF FlagType
<1>2. /\ Step(r, "idle", "loaded") /\ flag[f] # None
      /\ target' = [target EXCEPT ![r] = f]
      /\ loaded' = [loaded EXCEPT ![r] = flag[f]]
      /\ decision' = [decision EXCEPT ![r] = new]
      /\ crowded' = IF Reviewing(f) = {} THEN crowded ELSE crowded \cup {f}
      /\ UNCHANGED <<stores, answered, made, edited, failed>>
  BY DEF Load
<1> HIDE DEF new
<1>3. r \in Actors /\ r \in Makers
  BY DEF Actors, Makers
<1>4. /\ pc' \in [Actors -> PcType] /\ pc[r] = "idle" /\ pc'[r] = "loaded"
      /\ \A b \in Actors \ {r} : pc'[b] = pc[b]
  BY <1>2, <1>3, StepMoves DEF IInv, PcType
<1>5. /\ flag' = flag /\ entry' = entry /\ point' = point /\ lock' = lock
      /\ answered' = answered /\ made' = made /\ edited' = edited /\ failed' = failed
  BY <1>2 DEF stores
<1>6. flag[f] \in FlagType
  BY <1>2 DEF IInv, TypeOK
<1>7. /\ target' \in [Actors -> Findings \cup Makers \cup {None}] /\ target'[r] = f
      /\ \A b \in Actors \ {r} : target'[b] = target[b]
  BY <1>2, <1>3 DEF IInv, TypeOK
<1>8. /\ loaded' \in [Actors -> FlagType \cup EntryType \cup {None}] /\ loaded'[r] = flag[f]
      /\ \A b \in Actors \ {r} : loaded'[b] = loaded[b]
  BY <1>2, <1>3, <1>6 DEF IInv, TypeOK
<1>9. /\ decision' \in [Reviews -> FlagType] /\ decision'[r] = new
      /\ \A b \in Reviews \ {r} : decision'[b] = decision[b]
  BY <1>1, <1>2 DEF IInv, TypeOK
<1>10. TypeOK'
  <2>1. crowded' \in SUBSET Findings
    BY <1>2 DEF IInv, TypeOK
  <2>2. QED
    BY <1>4, <1>5, <1>7, <1>8, <1>9, <2>1 DEF IInv, TypeOK
<1>11. \A b \in Reviews : b \in Actors
  BY DEF Actors, Makers
<1>12. Locks'
  <2>1. ASSUME NEW b \in Reviews
        PROVE  /\ (pc[b] \notin {"idle", "ended"} => target[b] \in Findings /\ decision[b].by = b)'
               /\ (Holds(b) => lock[target[b]] = b /\ flag[target[b]] # None)'
    <3>1. CASE b = r
      BY <1>1, <1>4, <1>7, <1>9, <3>1 DEF Holds
    <3>2. CASE b # r
      BY <1>4, <1>5, <1>7, <1>9, <1>11, <3>2 DEF IInv, Locks, Holds
    <3>3. QED
      BY <3>1, <3>2
  <2>2. QED
    BY <2>1 DEF Locks
<1>13. Finding' /\ Points'
  <2>1. /\ Finding' /\ \A n \in Makers \ {r} : Pointed(n)'
        /\ ~Unindexing(r) /\ (Unindexing(r)' <=> Unindexing(r))
    BY <1>3, <1>4, <1>5, <1>7, <1>8, MakersStep
  <2>2. Pointed(r)'
    BY <1>3, <1>4, <1>5, <2>1 DEF IInv, Points, Pointed
  <2>3. QED
    BY <2>1, <2>2 DEF Points
<1>14. Approving' /\ ApprovalAddsEntry'
  <2>1. r \notin made /\ r \notin answered
    BY <1>4 DEF IInv, Approving
  <2>2. \A b \in Reviews \ {r} : Approves(b)' <=> Approves(b)
    BY <1>7, <1>9, <1>11 DEF Approves
  <2>3. QED
    BY <1>4, <1>5, <1>11, <2>1, <2>2 DEF IInv, Approving, ApprovalAddsEntry
<1>15. Reviewers'
  <2>1. \A g \in Findings : flag[g] # None /\ flag[g].by # None =>
            /\ flag[g].by \in Reviews \ {r} /\ pc'[flag[g].by] = "ended"
    BY <1>4, <1>11 DEF IInv, Reviewers
  <2>2. ASSUME NEW g \in Findings \ crowded', NEW b \in Reviews,
               target'[b] = g, pc'[b] \notin {"idle", "ended"}
        PROVE  Reviewing(g)' = {b} /\ (flag'[g] # None => loaded'[b] = flag'[g])
    <3>1. g \notin crowded /\ (g = f => Reviewing(f) = {})
      BY <1>2, <2>2
    <3>2. CASE g = f
      <4>1. b = r
        BY <1>4, <1>7, <1>11, <2>2, <3>1, <3>2 DEF Reviewing
      <4>2. Reviewing(f)' = {r}
        BY <1>4, <1>7, <1>11, <3>1, <3>2 DEF Reviewing
      <4>3. QED
        BY <1>5, <1>8, <3>2, <4>1, <4>2
    <3>3. CASE g # f
      <4>1. b # r /\ b \in Actors
        BY <1>7, <1>11, <2>2, <3>3
      <4>2. Reviewing(g) = {b} /\ (flag[g] # None => loaded[b] = flag[g])
        BY <1>4, <1>7, <2>2, <3>1, <4>1 DEF IInv, Reviewers
      <4>3. Reviewing(g)' = Reviewing(g)
        BY <1>4, <1>7, <1>11, <3>3 DEF Reviewing
      <4>4. QED
        BY <1>5, <1>8, <4>1, <4>2, <4>3
    <3>4. QED
      BY <3>2, <3>3
  <2>3. QED
    BY <1>5, <2>1, <2>2 DEF Reviewers
<1>16. ReviewIsWhole'
  <2>1. \A g \in Findings : flag[g] # None /\ flag[g].by # None => flag[g].by \in Reviews \ {r}
    BY <1>4 DEF IInv, Reviewers
  <2>2. crowded \subseteq crowded'
    BY <1>2
  <2>3. QED
    BY <1>5, <1>9, <2>1, <2>2 DEF IInv, ReviewIsWhole
<1>17. QED
  BY <1>10, <1>12, <1>13, <1>14, <1>15, <1>16 DEF IInv

-----------------------------------------------------------------------------
(* Steps of a request that has loaded its finding already                  *)

\* Nothing a maker does on its way changes who has reviewed what.
LEMMA ReviewersKept ==
    ASSUME IInv, NEW m \in Makers, m \in Reviews => pc[m] \notin {"idle", "ended"},
           pc[m] # "ended", flag' = flag, decision' = decision, target' = target,
           loaded' = loaded, crowded' = crowded,
           \A b \in Actors \ {m} : pc'[b] = pc[b]
    PROVE  Reviewers' /\ ReviewIsWhole'
<1>1. \A b \in Reviews : b \in Actors /\ (b # m => pc'[b] = pc[b])
  BY DEF Actors, Makers
<1>2. \A g \in Findings : flag[g] # None /\ flag[g].by # None =>
          flag[g].by \in Reviews /\ pc'[flag[g].by] = "ended"
  BY <1>1 DEF IInv, Reviewers
<1>3. ASSUME NEW g \in Findings \ crowded, NEW b \in Reviews,
             target[b] = g, pc'[b] \notin {"idle", "ended"}
      PROVE  Reviewing(g)' = {b} /\ (flag[g] # None => loaded[b] = flag[g])
  <2>1. pc[b] \notin {"idle", "ended"}
    BY <1>1, <1>3
  <2>2. Reviewing(g) = {b} /\ (flag[g] # None => loaded[b] = flag[g])
    BY <1>3, <2>1 DEF IInv, Reviewers
  <2>3. ASSUME NEW c \in Reviews, target[c] = g, pc'[c] \notin {"idle", "ended"}
        PROVE  c = b
    BY <1>1, <2>2, <2>3 DEF Reviewing
  <2>4. QED
    BY <1>3, <2>2, <2>3 DEF Reviewing
<1>4. Reviewers'
  BY <1>2, <1>3 DEF Reviewers
<1>5. ReviewIsWhole'
  BY DEF IInv, ReviewIsWhole
<1>6. QED
  BY <1>4, <1>5

LEMMA LocksKept ==
    ASSUME IInv, NEW m \in Makers, m \in Reviews => pc[m] \notin {"idle", "ended"},
           decision' = decision, target' = target,
           \A b \in Actors \ {m} : pc'[b] = pc[b],
           \A b \in Reviews \ {m} : Holds(b) =>
               lock'[target[b]] = lock[target[b]] /\ flag'[target[b]] = flag[target[b]],
           Holds(m)' => lock'[target[m]] = m /\ flag'[target[m]] # None
    PROVE  Locks'
<1>1. \A b \in Reviews : b \in Actors /\ (b # m => pc'[b] = pc[b])
  BY DEF Actors, Makers
<1>2. ASSUME NEW b \in Reviews, pc'[b] \notin {"idle", "ended"}
      PROVE  target'[b] \in Findings /\ decision'[b].by = b
  BY <1>1, <1>2 DEF IInv, Locks
<1>3. ASSUME NEW b \in Reviews, Holds(b)'
      PROVE  lock'[target'[b]] = b /\ flag'[target'[b]] # None
  <2>1. CASE b = m
    BY <1>3, <2>1
  <2>2. CASE b # m
    <3>1. Holds(b)
      BY <1>1, <1>3, <2>2 DEF Holds
    <3>2. QED
      BY <2>2, <3>1 DEF IInv, Locks
  <2>3. QED
    BY <2>1, <2>2
<1>4. QED
  BY <1>2, <1>3 DEF Locks

\* Nor whose approval has an entry.
LEMMA ApprovingKept ==
    ASSUME IInv, NEW m \in Makers, answered' = answered, made' = made,
           decision' = decision, target' = target,
           \A b \in Actors \ {m} : pc'[b] = pc[b],
           pc[m] # "ended",
           m \in Reviews =>
               /\ pc'[m] \in {"inserted", "indexed", "unindexed"} => Approves(m)
               /\ pc'[m] = "flushed" => ~Approves(m)
    PROVE  Approving' /\ ApprovalAddsEntry'
<1>1. \A b \in Reviews : b \in Actors /\ (b # m => pc'[b] = pc[b])
  BY DEF Actors, Makers
<1>2. \A b \in Reviews : Approves(b)' <=> Approves(b)
  BY DEF Approves
<1>3. m \in Reviews => m \notin made /\ m \notin answered
  BY DEF IInv, Approving
<1>4. QED
  BY <1>1, <1>2, <1>3 DEF IInv, Approving, ApprovalAddsEntry

LEMMA FlushInv ==
    ASSUME IInv, NEW r \in Reviews, Flush(r) PROVE IInv'
<1> DEFINE to == IF Approves(r) THEN "inserted" ELSE "flushed"
<1>1. PICK f \in Findings : f = target[r]
  BY DEF Flush, Step, IInv, Locks
<1>2. /\ Step(r, "loaded", to) /\ lock[f] = None /\ flag[f] # None
      /\ lock' = [lock EXCEPT ![f] = r]
      /\ flag' = flag /\ entry' = entry /\ point' = point /\ UNCHANGED <<local, history>>
  BY <1>1 DEF Flush
<1>3. r \in Actors /\ r \in Makers /\ to \in PcType
  BY DEF Actors, Makers, PcType
<1>4. /\ pc' \in [Actors -> PcType] /\ pc[r] = "loaded" /\ pc'[r] = to
      /\ \A b \in Actors \ {r} : pc'[b] = pc[b]
  BY <1>2, <1>3, StepMoves DEF IInv
<1>5. /\ target' = target /\ decision' = decision /\ loaded' = loaded /\ answered' = answered
      /\ made' = made /\ edited' = edited /\ failed' = failed /\ crowded' = crowded
  BY <1>2 DEF local, history
<1>6. TypeOK'
  BY <1>2, <1>4, <1>5 DEF IInv, TypeOK
<1>7. Locks'
  <2>1. \A b \in Reviews \ {r} : Holds(b) => target[b] # f
    BY <1>2, ActorsAssumption DEF IInv, Locks, Actors, Makers
  <2>2. lock'[f] = r /\ \A g \in Findings \ {f} : lock'[g] = lock[g]
    BY <1>2 DEF IInv, TypeOK
  <2>3. \A b \in Reviews \ {r} : Holds(b) => target[b] \in Findings
    BY DEF IInv, Locks, Holds
  <2>4. QED
    BY <1>1, <1>2, <1>3, <1>4, <1>5, <2>1, <2>2, <2>3, LocksKept
<1>8. Finding' /\ Points'
  <2>1. /\ Finding' /\ \A n \in Makers \ {r} : Pointed(n)'
        /\ ~Unindexing(r) /\ (Unindexing(r)' <=> Unindexing(r))
    BY <1>2, <1>3, <1>4, <1>5, MakersStep
  <2>2. Pointed(r)'
    BY <1>2, <1>3, <1>4, <1>5, <2>1 DEF IInv, Points, Pointed
  <2>3. QED
    BY <2>1, <2>2 DEF Points
<1>9. Approving' /\ ApprovalAddsEntry'
  BY <1>3, <1>4, <1>5, ApprovingKept
<1>10. Reviewers' /\ ReviewIsWhole'
  BY <1>2, <1>3, <1>4, <1>5, ReviewersKept
<1>11. QED
  BY <1>6, <1>7, <1>8, <1>9, <1>10 DEF IInv

LEMMA FlushStaleInv ==
    ASSUME IInv, NEW r \in Reviews, FlushStale(r) PROVE IInv'
<1>1. Step(r, "loaded", "ended") /\ UNCHANGED <<stores, local, history>>
  BY DEF FlushStale
<1>2. r \in Actors /\ r \in Makers
  BY DEF Actors, Makers
<1>3. /\ pc' \in [Actors -> PcType] /\ pc[r] = "loaded" /\ pc'[r] = "ended"
      /\ \A b \in Actors \ {r} : pc'[b] = pc[b]
  BY <1>1, <1>2, StepMoves DEF IInv, PcType
<1>4. /\ flag' = flag /\ entry' = entry /\ point' = point /\ lock' = lock
      /\ target' = target /\ decision' = decision /\ loaded' = loaded /\ answered' = answered
      /\ made' = made /\ edited' = edited /\ failed' = failed /\ crowded' = crowded
  BY <1>1 DEF stores, local, history
<1>5. TypeOK'
  BY <1>3, <1>4 DEF IInv, TypeOK
<1>6. Locks'
  <2>1. ~Holds(r)'
    BY <1>3 DEF Holds
  <2>2. QED
    BY <1>2, <1>3, <1>4, <2>1, LocksKept
<1>7. Finding' /\ Points'
  <2>1. /\ Finding' /\ \A n \in Makers \ {r} : Pointed(n)'
        /\ ~Unindexing(r) /\ (Unindexing(r)' <=> Unindexing(r))
    BY <1>2, <1>3, <1>4, MakersStep
  <2>2. Pointed(r)'
    BY <1>2, <1>3, <1>4, <2>1 DEF IInv, Points, Pointed
  <2>3. QED
    BY <2>1, <2>2 DEF Points
<1>8. Approving' /\ ApprovalAddsEntry'
  BY <1>2, <1>3, <1>4, ApprovingKept
<1>9. Reviewers' /\ ReviewIsWhole'
  BY <1>2, <1>3, <1>4, ReviewersKept
<1>10. QED
  BY <1>5, <1>6, <1>7, <1>8, <1>9 DEF IInv

-----------------------------------------------------------------------------
(* ClauseLibraryService.create                                             *)

LEMMA InsertInv ==
    ASSUME IInv, NEW c \in Creates, Insert(c) PROVE IInv'
<1>1. Step(c, "idle", "inserted") /\ UNCHANGED <<stores, local, history>>
  BY DEF Insert
<1>2. c \in Actors /\ c \in Makers /\ c \notin Reviews
  BY ActorsAssumption DEF Actors, Makers
<1>3. /\ pc' \in [Actors -> PcType] /\ pc[c] = "idle" /\ pc'[c] = "inserted"
      /\ \A b \in Actors \ {c} : pc'[b] = pc[b]
  BY <1>1, <1>2, StepMoves DEF IInv, PcType
<1>4. /\ flag' = flag /\ entry' = entry /\ point' = point /\ lock' = lock
      /\ target' = target /\ decision' = decision /\ loaded' = loaded /\ answered' = answered
      /\ made' = made /\ edited' = edited /\ failed' = failed /\ crowded' = crowded
  BY <1>1 DEF stores, local, history
<1>5. TypeOK'
  BY <1>3, <1>4 DEF IInv, TypeOK
<1>6. Finding' /\ Points'
  <2>1. /\ Finding' /\ \A n \in Makers \ {c} : Pointed(n)'
        /\ ~Unindexing(c) /\ (Unindexing(c)' <=> Unindexing(c))
    BY <1>2, <1>3, <1>4, MakersStep
  <2>2. Pointed(c)'
    BY <1>2, <1>3, <1>4, <2>1 DEF IInv, Points, Pointed
  <2>3. QED
    BY <2>1, <2>2 DEF Points
<1>7. \A b \in Reviews : b \in Actors \ {c}
  BY <1>2 DEF Actors, Makers
<1>8. Locks' /\ Approving' /\ ApprovalAddsEntry' /\ Reviewers' /\ ReviewIsWhole'
  BY <1>2, <1>3, <1>4, <1>7, FlagsKept
<1>9. QED
  BY <1>5, <1>6, <1>8 DEF IInv

LEMMA UpsertedType ==
    ASSUME TypeOK, NEW m \in Makers
    PROVE  /\ Upserted(m) \in [Makers -> PointType \cup {None}]
           /\ Upserted(m)[m] = Content(NewEntry)
           /\ \A n \in Makers \ {m} : Upserted(m)[n] = point[n]
BY NewTypes DEF TypeOK, Upserted

\* A step in Qdrant, done or failed.
LEMMA IndexingInv ==
    ASSUME IInv, NEW m \in Makers, Index(m) \/ IndexFails(m) PROVE IInv'
<1>1. /\ Step(m, "inserted", pc'[m]) /\ pc'[m] \in {"indexed", "unindexed", "raised"}
      /\ m \in Reviews => pc'[m] # "raised"
      /\ pc'[m] = "indexed" => point' = Upserted(m)
      /\ pc'[m] # "indexed" => m \in failed'
      /\ point' \in {point, Upserted(m)} /\ failed' \in {failed, failed \cup {m}}
  <2>1. m \in Actors
    BY DEF Actors
  <2>2. CASE Index(m)
    <3>1. Step(m, "inserted", "indexed")
      BY <2>2 DEF Index
    <3>2. pc'[m] = "indexed"
      BY <2>1, <3>1, StepMoves DEF IInv, PcType
    <3>3. QED
      BY <2>2, <3>1, <3>2 DEF Index, history
  <2>3. CASE IndexFails(m)
    <3> DEFINE to == IF m \in Reviews THEN "unindexed" ELSE "raised"
    <3>1. Step(m, "inserted", to)
      BY <2>3 DEF IndexFails
    <3>2. pc'[m] = to
      BY <2>1, <3>1, StepMoves DEF IInv, PcType
    <3>3. QED
      BY <2>3, <3>1, <3>2 DEF IndexFails
  <2>4. QED
    BY <2>2, <2>3
<1>2. /\ flag' = flag /\ entry' = entry /\ lock' = lock
      /\ target' = target /\ decision' = decision /\ loaded' = loaded /\ answered' = answered
      /\ made' = made /\ edited' = edited /\ crowded' = crowded
  BY DEF Index, IndexFails, local, history
<1>3. m \in Actors
  BY DEF Actors
<1>4. /\ pc' \in [Actors -> PcType] /\ pc[m] = "inserted"
      /\ \A b \in Actors \ {m} : pc'[b] = pc[b]
  BY <1>1, <1>3, StepMoves DEF IInv, PcType
<1>5. /\ point' \in [Makers -> PointType \cup {None}]
      /\ \A n \in Makers \ {m} : point'[n] = point[n]
      /\ pc'[m] = "indexed" => point'[m] = Content(NewEntry)
  BY <1>1, UpsertedType DEF IInv, TypeOK
<1>6. TypeOK'
  <2>1. failed' \in SUBSET Makers
    BY <1>1 DEF IInv, TypeOK
  <2>2. QED
    BY <1>2, <1>4, <1>5, <2>1 DEF IInv, TypeOK
<1>7. Locks'
  BY <1>1, <1>2, <1>4, LocksKept DEF IInv, Locks, Holds
<1>8. Finding' /\ Points'
  <2>1. /\ Finding' /\ \A n \in Makers \ {m} : Pointed(n)'
        /\ ~Unindexing(m) /\ (Unindexing(m)' <=> Unindexing(m))
    BY <1>1, <1>2, <1>4, <1>5, MakersStep
  <2>2. Pointed(m)'
    BY <1>1, <1>2, <1>4, <1>5, <2>1 DEF IInv, Points, Pointed
  <2>3. QED
    BY <2>1, <2>2 DEF Points
<1>9. Approving' /\ ApprovalAddsEntry'
  <2>1. m \in Reviews => Approves(m)
    BY <1>4 DEF IInv, Approving
  <2>2. QED
    BY <1>1, <1>2, <1>4, <2>1, ApprovingKept
<1>10. Reviewers' /\ ReviewIsWhole'
  BY <1>2, <1>4, ReviewersKept
<1>11. QED
  BY <1>6, <1>7, <1>8, <1>9, <1>10 DEF IInv

\* Rolled back: only a step in Qdrant that is done leaves something behind.
LEMMA AbortMakerInv ==
    ASSUME IInv, NEW m \in Makers, AbortMaker(m) PROVE IInv'
<1>1. /\ pc[m] \in {"inserted", "flushed", "indexed", "unindexed", "raised"}
      /\ pc' = [pc EXCEPT ![m] = "ended"]
      /\ lock' = [f \in Findings |-> IF lock[f] = m THEN None ELSE lock[f]]
      /\ failed' = IF pc[m] = "indexed" THEN failed \cup {m} ELSE failed
      /\ flag' = flag /\ entry' = entry /\ point' = point
      /\ target' = target /\ decision' = decision /\ loaded' = loaded /\ answered' = answered
      /\ made' = made /\ edited' = edited /\ crowded' = crowded
  BY DEF AbortMaker, local
<1>2. m \in Actors
  BY DEF Actors
<1>3. /\ pc' \in [Actors -> PcType] /\ pc'[m] = "ended"
      /\ \A b \in Actors \ {m} : pc'[b] = pc[b]
  BY <1>1, <1>2 DEF IInv, TypeOK, PcType
<1>4. TypeOK'
  <2>1. failed' \in SUBSET Makers
    BY <1>1 DEF IInv, TypeOK
  <2>2. lock' \in [Findings -> Reviews \cup {None}]
    BY <1>1 DEF IInv, TypeOK
  <2>3. QED
    BY <1>1, <1>3, <2>1, <2>2 DEF IInv, TypeOK
<1>5. Locks'
  <2>1. ~Holds(m)'
    BY <1>3 DEF Holds
  <2>2. ASSUME NEW b \in Reviews \ {m}, Holds(b)
        PROVE  lock'[target[b]] = lock[target[b]]
    <3>1. target[b] \in Findings /\ lock[target[b]] = b
      BY <2>2 DEF IInv, Locks, Holds
    <3>2. QED
      BY <1>1, <3>1
  <2>3. QED
    BY <1>1, <1>3, <2>1, <2>2, LocksKept
<1>6. Finding' /\ Points'
  <2>1. /\ Finding' /\ \A n \in Makers \ {m} : Pointed(n)'
        /\ ~Unindexing(m) /\ (Unindexing(m)' <=> Unindexing(m))
    BY <1>1, <1>3, MakersStep
  <2>2. Pointed(m)'
    BY <1>1, <1>3, <2>1 DEF IInv, Points, Pointed
  <2>3. QED
    BY <2>1, <2>2 DEF Points
<1>7. Approving' /\ ApprovalAddsEntry'
  BY <1>1, <1>3, ApprovingKept
<1>8. Reviewers' /\ ReviewIsWhole'
  BY <1>1, <1>3, ReviewersKept
<1>9. QED
  BY <1>4, <1>5, <1>6, <1>7, <1>8 DEF IInv

\* An entry and its point, once the entry is committed.
LEMMA Entered ==
    ASSUME IInv, NEW m \in Makers, pc[m] \in {"indexed", "unindexed"},
           entry'[m] = [NewEntry EXCEPT !.recorded = (pc[m] = "indexed")],
           point' = point, failed' = failed, pc'[m] = "ended",
           ~Unindexing(m), Unindexing(m)' <=> Unindexing(m)
    PROVE  Pointed(m)'
<1>1. CASE m \in failed
  BY <1>1 DEF Pointed
<1>2. CASE m \notin failed
  <2>1. pc[m] = "indexed" /\ point[m] = Content(NewEntry)
    BY <1>2 DEF IInv, Points, Pointed
  <2>2. /\ entry'[m].recorded /\ Content(entry'[m]) = Content(NewEntry)
        /\ entry'[m] # None
    BY <2>1, NewTypes, NoneIsNone
  <2>3. point[m] # None
    BY <2>1, NewTypes, NoneIsNone
  <2>4. QED
    BY <2>1, <2>2, <2>3 DEF Pointed
<1>3. QED
  BY <1>1, <1>2

\* The finding's columns come from this request if it met no other.
LEMMA CommitReviewInv ==
    ASSUME IInv, NEW r \in Reviews, CommitReview(r) PROVE IInv'
<1>1. PICK f \in Findings : f = target[r]
  BY DEF CommitReview, IInv, Locks
<1> DEFINE kept == pc[r] \in {"indexed", "unindexed"}
           row  == [NewEntry EXCEPT !.recorded = (pc[r] = "indexed")]
           over == Overwritten(f, loaded[r], decision[r])
<1>2. /\ pc[r] \in {"flushed", "indexed", "unindexed"}
      /\ pc' = [pc EXCEPT ![r] = "ended"]
      /\ flag' = [flag EXCEPT ![f] = over]
      /\ entry' = IF kept THEN [entry EXCEPT ![r] = row] ELSE entry
      /\ lock' = [lock EXCEPT ![f] = None]
      /\ answered' = answered \cup {r}
      /\ made' = IF kept THEN made \cup {r} ELSE made
      /\ point' = point /\ edited' = edited /\ failed' = failed /\ crowded' = crowded
      /\ target' = target /\ decision' = decision /\ loaded' = loaded
  BY <1>1 DEF CommitReview, local
<1>3. r \in Actors /\ r \in Makers /\ \A b \in Reviews : b \in Actors
  BY DEF Actors, Makers
<1>4. /\ pc' \in [Actors -> PcType] /\ pc'[r] = "ended"
      /\ \A b \in Actors \ {r} : pc'[b] = pc[b]
  BY <1>2, <1>3 DEF IInv, TypeOK, PcType
<1>5. lock[f] = r /\ flag[f] # None /\ decision[r].by = r
  BY <1>1, <1>2 DEF IInv, Locks, Holds
<1>6. flag[f] \in FlagType /\ decision[r] \in FlagType
  BY <1>5 DEF IInv, TypeOK
<1>7. over.by \in {flag[f].by, r} /\ over \in FlagType
  BY <1>5, <1>6 DEF Overwritten, FlagType
<1>8. row \in EntryType
  BY NewTypes DEF NewEntry, EntryType, Statuses
<1> HIDE DEF row, over
<1>9. /\ flag' \in [Findings -> FlagType \cup {None}] /\ flag'[f] = over
      /\ \A g \in Findings \ {f} : flag'[g] = flag[g]
  BY <1>2, <1>7 DEF IInv, TypeOK
<1>10. /\ entry' \in [Makers -> EntryType \cup {None}]
       /\ kept => entry'[r] = row
       /\ ~kept => entry' = entry
       /\ \A n \in Makers \ {r} : entry'[n] = entry[n]
  BY <1>2, <1>3, <1>8 DEF IInv, TypeOK
<1>11. /\ lock' \in [Findings -> Reviews \cup {None}]
       /\ \A g \in Findings \ {f} : lock'[g] = lock[g]
  BY <1>2 DEF IInv, TypeOK
<1>12. TypeOK'
  <2>1. answered' \in SUBSET Reviews /\ made' \in SUBSET Makers
    BY <1>2, <1>3 DEF IInv, TypeOK
  <2>2. QED
    BY <1>2, <1>4, <1>9, <1>10, <1>11, <2>1 DEF IInv, TypeOK
<1>13. Locks'
  <2>1. ~Holds(r)'
    BY <1>4 DEF Holds
  <2>2. ASSUME NEW b \in Reviews \ {r}, Holds(b)
        PROVE  lock'[target[b]] = lock[target[b]] /\ flag'[target[b]] = flag[target[b]]
    <3>1. target[b] \in Findings /\ lock[target[b]] = b
      BY <2>2 DEF IInv, Locks, Holds
    <3>2. target[b] # f
      BY <1>5, <3>1
    <3>3. QED
      BY <1>9, <1>11, <3>1, <3>2
  <2>3. QED
    BY <1>2, <1>3, <1>4, <2>1, <2>2, LocksKept
<1>14. Finding' /\ Points'
  <2>1. /\ Finding' /\ \A n \in Makers \ {r} : Pointed(n)'
        /\ ~Unindexing(r) /\ (Unindexing(r)' <=> Unindexing(r))
    BY <1>2, <1>3, <1>4, <1>10, MakersStep
  <2>2. CASE kept
    <3>1. Pointed(r)'
      BY <1>2, <1>3, <1>4, <1>10, <2>1, <2>2, Entered DEF row
    <3>2. QED
      BY <2>1, <3>1 DEF Points
  <2>3. CASE ~kept
    <3>1. pc[r] = "flushed" /\ entry' = entry
      BY <1>2, <1>10, <2>3
    <3>2. Pointed(r)'
      BY <1>2, <1>3, <1>4, <2>1, <3>1 DEF IInv, Points, Pointed
    <3>3. QED
      BY <2>1, <3>2 DEF Points
  <2>4. QED
    BY <2>2, <2>3
<1>15. Approving' /\ ApprovalAddsEntry'
  <2>1. \A b \in Reviews : Approves(b)' <=> Approves(b)
    BY <1>2 DEF Approves
  <2>2. r \notin made /\ (kept <=> Approves(r))
    BY <1>2 DEF IInv, Approving
  <2>3. r \in made' <=> Approves(r)
    BY <1>2, <2>2
  <2>4. \A b \in Reviews \ {r} : /\ b \in made' <=> b \in made
                                 /\ b \in answered' <=> b \in answered
    BY <1>2
  <2>5. Approving'
    BY <1>3, <1>4, <2>1, <2>4 DEF IInv, Approving
  <2>6. ApprovalAddsEntry'
    BY <1>2, <2>1, <2>3, <2>4 DEF IInv, ApprovalAddsEntry
  <2>7. QED
    BY <2>5, <2>6
<1>16. \A b \in Reviews : pc[b] = "ended" => pc'[b] = "ended"
  BY <1>3, <1>4
<1>17. \A g \in Findings : flag'[g] # None /\ flag'[g].by # None =>
           flag'[g].by \in Reviews /\ pc'[flag'[g].by] = "ended"
  <2>1. ASSUME NEW g \in Findings, g # f, flag'[g] # None, flag'[g].by # None
        PROVE  flag'[g].by \in Reviews /\ pc'[flag'[g].by] = "ended"
    BY <1>9, <1>16, <2>1 DEF IInv, Reviewers
  <2>2. ASSUME over.by # None
        PROVE  over.by \in Reviews /\ pc'[over.by] = "ended"
    BY <1>4, <1>5, <1>7, <1>16, <2>2 DEF IInv, Reviewers
  <2>3. QED
    BY <1>9, <2>1, <2>2
<1>18. f \notin crowded => Reviewing(f) = {r} /\ flag[f] = loaded[r]
  BY <1>1, <1>2, <1>5 DEF IInv, Reviewers
<1>19. Reviewers'
  <2>1. ASSUME NEW g \in Findings \ crowded', NEW b \in Reviews,
               target'[b] = g, pc'[b] \notin {"idle", "ended"}
        PROVE  Reviewing(g)' = {b} /\ (flag'[g] # None => loaded'[b] = flag'[g])
    <3>1. b # r /\ pc[b] \notin {"idle", "ended"} /\ g \notin crowded
      BY <1>2, <1>3, <1>4, <2>1
    <3>2. Reviewing(g) = {b} /\ (flag[g] # None => loaded[b] = flag[g])
      BY <1>2, <2>1, <3>1 DEF IInv, Reviewers
    <3>3. g # f
      BY <1>18, <3>1, <3>2
    <3>4. Reviewing(g)' = Reviewing(g)
      BY <1>1, <1>2, <1>3, <1>4, <3>3 DEF Reviewing
    <3>5. QED
      BY <1>2, <1>9, <3>2, <3>3, <3>4
  <2>2. QED
    BY <1>17, <2>1 DEF Reviewers
<1>20. ReviewIsWhole'
  <2>1. ASSUME f \notin crowded PROVE over = decision[r]
    <3>1. flag[f] = loaded[r]
      BY <1>18, <2>1
    <3>2. QED
      BY <1>6, <3>1, OverwrittenType DEF over
  <2>2. f \notin crowded => over.by = r
    BY <1>5, <2>1
  <2>3. ASSUME NEW g \in Findings \ crowded, flag'[g] # None, flag'[g].by # None
        PROVE  flag'[g] = decision[flag'[g].by]
    <3>1. CASE g = f
      BY <1>9, <2>1, <2>2, <2>3, <3>1
    <3>2. CASE g # f
      BY <1>9, <2>3, <3>2 DEF IInv, ReviewIsWhole
    <3>3. QED
      BY <3>1, <3>2
  <2>4. QED
    BY <1>2, <2>3 DEF ReviewIsWhole
<1>21. QED
  BY <1>12, <1>13, <1>14, <1>15, <1>19, <1>20 DEF IInv

LEMMA CommitCreateInv ==
    ASSUME IInv, NEW c \in Creates, CommitCreate(c) PROVE IInv'
<1> DEFINE row == [NewEntry EXCEPT !.recorded = TRUE]
<1>1. /\ Step(c, "indexed", "ended") /\ entry' = [entry EXCEPT ![c] = row]
      /\ made' = made \cup {c} /\ flag' = flag /\ point' = point /\ lock' = lock
      /\ target' = target /\ decision' = decision /\ loaded' = loaded /\ answered' = answered
      /\ edited' = edited /\ failed' = failed /\ crowded' = crowded
  BY DEF CommitCreate, local
<1>2. c \in Actors /\ c \in Makers /\ c \notin Reviews
  BY ActorsAssumption DEF Actors, Makers
<1>3. /\ pc' \in [Actors -> PcType] /\ pc[c] = "indexed" /\ pc'[c] = "ended"
      /\ \A b \in Actors \ {c} : pc'[b] = pc[b]
  BY <1>1, <1>2, StepMoves DEF IInv, PcType
<1>4. row \in EntryType
  BY NewTypes
<1> HIDE DEF row
<1>5. /\ entry' \in [Makers -> EntryType \cup {None}] /\ entry'[c] = row
      /\ \A n \in Makers \ {c} : entry'[n] = entry[n]
  BY <1>1, <1>2, <1>4 DEF IInv, TypeOK
<1>6. TypeOK'
  <2>1. made' \in SUBSET Makers
    BY <1>1, <1>2 DEF IInv, TypeOK
  <2>2. QED
    BY <1>1, <1>3, <1>5, <2>1 DEF IInv, TypeOK
<1>7. Finding' /\ Points'
  <2>1. /\ Finding' /\ \A n \in Makers \ {c} : Pointed(n)'
        /\ ~Unindexing(c) /\ (Unindexing(c)' <=> Unindexing(c))
    BY <1>1, <1>2, <1>3, <1>5, MakersStep
  <2>2. row = [NewEntry EXCEPT !.recorded = (pc[c] = "indexed")]
    BY <1>3 DEF row
  <2>3. Pointed(c)'
    BY <1>1, <1>2, <1>3, <1>5, <2>1, <2>2, Entered
  <2>4. QED
    BY <2>1, <2>3 DEF Points
<1>8. \A b \in Reviews : b \in Actors \ {c}
  BY <1>2 DEF Actors, Makers
<1>9. Locks' /\ Approving' /\ ApprovalAddsEntry' /\ Reviewers' /\ ReviewIsWhole'
  BY <1>1, <1>2, <1>3, <1>8, FlagsKept
<1>10. QED
  BY <1>6, <1>7, <1>9 DEF IInv

LEMMA PurgeInv ==
    ASSUME IInv, NEW f \in Findings, Purge(f) PROVE IInv'
<1>1. /\ flag[f] # None /\ lock[f] = None /\ flag' = [flag EXCEPT ![f] = None]
      /\ entry' = entry /\ point' = point /\ lock' = lock /\ pc' = pc /\ target' = target
      /\ decision' = decision /\ loaded' = loaded /\ answered' = answered /\ made' = made
      /\ edited' = edited /\ failed' = failed /\ crowded' = crowded
  BY DEF Purge, local, history
<1>2. /\ flag' \in [Findings -> FlagType \cup {None}] /\ flag'[f] = None
      /\ \A g \in Findings \ {f} : flag'[g] = flag[g]
  BY <1>1 DEF IInv, TypeOK
<1>3. TypeOK'
  BY <1>1, <1>2 DEF IInv, TypeOK
<1>4. Locks'
  <2>1. \A r \in Reviews : Holds(r) => target[r] \in Findings /\ target[r] # f
    BY <1>1, ActorsAssumption DEF IInv, Locks, Holds, Actors, Makers
  <2>2. QED
    BY <1>1, <1>2, <2>1 DEF IInv, Locks, Holds
<1>5. Finding'
  BY <1>1 DEF IInv, Finding
<1>6. Points'
  BY <1>1 DEF IInv, Points, Pointed, Unindexing
<1>7. Approving' /\ ApprovalAddsEntry'
  BY <1>1 DEF IInv, Approving, ApprovalAddsEntry, Approves
<1>8. Reviewers' /\ ReviewIsWhole'
  <2>1. \A g \in Findings : Reviewing(g)' = Reviewing(g)
    BY <1>1 DEF Reviewing
  <2>2. Reviewers'
    BY <1>1, <1>2, <2>1 DEF IInv, Reviewers
  <2>3. ReviewIsWhole'
    BY <1>1, <1>2 DEF IInv, ReviewIsWhole
  <2>4. QED
    BY <2>2, <2>3
<1>9. QED
  BY <1>3, <1>4, <1>5, <1>6, <1>7, <1>8 DEF IInv

-----------------------------------------------------------------------------
(* Updates and deletes                                                     *)

LEMMA FindInv ==
    ASSUME IInv, NEW a \in Updates \cup Deletes, NEW m \in Makers, Find(a, m) PROVE IInv'
<1>1. /\ Step(a, "idle", "found") /\ entry[m] # None
      /\ target' = [target EXCEPT ![a] = m] /\ loaded' = [loaded EXCEPT ![a] = entry[m]]
      /\ UNCHANGED <<stores, decision, history>>
  BY DEF Find
<1>2. a \in Actors /\ a \notin Makers /\ m \in Actors
  BY ActorsAssumption DEF Actors
<1>3. /\ pc' \in [Actors -> PcType] /\ pc[a] = "idle" /\ pc'[a] = "found"
      /\ \A b \in Actors \ {a} : pc'[b] = pc[b]
  BY <1>1, <1>2, StepMoves DEF IInv, PcType
<1>4. /\ flag' = flag /\ entry' = entry /\ point' = point /\ lock' = lock
      /\ decision' = decision /\ answered' = answered
      /\ made' = made /\ edited' = edited /\ failed' = failed /\ crowded' = crowded
  BY <1>1 DEF stores, history
<1>5. entry[m] \in EntryType /\ pc[m] = "ended" /\ (m \notin failed => entry[m].recorded)
  BY <1>1 DEF IInv, TypeOK, Points, Pointed
<1>6. /\ target' \in [Actors -> Findings \cup Makers \cup {None}] /\ target'[a] = m
      /\ \A b \in Actors \ {a} : target'[b] = target[b]
  BY <1>1, <1>2 DEF IInv, TypeOK
<1>7. /\ loaded' \in [Actors -> FlagType \cup EntryType \cup {None}] /\ loaded'[a] = entry[m]
      /\ \A b \in Actors \ {a} : loaded'[b] = loaded[b]
  BY <1>1, <1>2, <1>5 DEF IInv, TypeOK
<1>8. TypeOK'
  BY <1>3, <1>4, <1>6, <1>7 DEF IInv, TypeOK
<1>9. \A n \in Makers : n \in Actors \ {a}
  BY <1>2 DEF Actors
<1>10. Finding'
  <2>1. ASSUME NEW b \in Updates \cup Deletes, b # a, pc'[b] \in {"found", "unindexed"}
        PROVE  /\ target'[b] \in Makers
               /\ pc'[target'[b]] = "ended" /\ loaded'[b] \in EntryType
               /\ target'[b] \notin failed' => loaded'[b].recorded
    <3>1. b \in Actors \ {a}
      BY <2>1 DEF Actors
    <3>2. /\ target[b] \in Makers /\ pc[target[b]] = "ended" /\ loaded[b] \in EntryType
          /\ target[b] \notin failed => loaded[b].recorded
      BY <1>3, <2>1, <3>1 DEF IInv, Finding
    <3>3. QED
      BY <1>3, <1>4, <1>6, <1>7, <1>9, <3>1, <3>2
  <2>2. QED
    BY <1>2, <1>3, <1>4, <1>5, <1>6, <1>7, <2>1 DEF Finding
<1>11. Points'
  <2>1. ASSUME NEW n \in Makers PROVE Unindexing(n)' <=> Unindexing(n)
    <3>1. \A d \in Deletes : pc'[d] = "unindexed" /\ target'[d] = n
                                 <=> pc[d] = "unindexed" /\ target[d] = n
      BY <1>3, <1>6 DEF Actors
    <3>2. QED
      BY <3>1 DEF Unindexing
  <2>2. QED
    BY <1>3, <1>4, <1>9, <2>1, PointKept DEF IInv, Points
<1>12. \A b \in Reviews : b \in Actors \ {a}
  BY <1>9 DEF Makers
<1>13. a \in Actors \ Reviews
  BY <1>2 DEF Makers
<1>14. Locks' /\ Approving' /\ ApprovalAddsEntry' /\ Reviewers' /\ ReviewIsWhole'
  BY <1>3, <1>4, <1>6, <1>7, <1>12, <1>13, FlagsKept
<1>15. QED
  BY <1>8, <1>10, <1>11, <1>14 DEF IInv

\* What is as before when an update or delete moves on with its entry.
LEMMA OwnersStep ==
    ASSUME IInv, NEW a \in Updates \cup Deletes, pc[a] \in {"found", "unindexed"},
           pc' \in [Actors -> PcType], pc'[a] \in {"unindexed", "ended"},
           \A b \in Actors \ {a} : pc'[b] = pc[b],
           flag' = flag, lock' = lock, target' = target, decision' = decision,
           loaded' = loaded, answered' = answered, made' = made, crowded' = crowded,
           failed \subseteq failed',
           \A n \in Makers \ {target[a]} : entry'[n] = entry[n] /\ point'[n] = point[n],
           \A n \in Makers \ {target[a]} : n \in edited' <=> n \in edited
    PROVE  /\ Locks' /\ Approving' /\ ApprovalAddsEntry' /\ Reviewers' /\ ReviewIsWhole'
           /\ Finding' /\ \A n \in Makers \ {target[a]} : Pointed(n)'
           /\ target[a] \in Makers /\ pc[target[a]] = "ended" /\ pc'[target[a]] = "ended"
<1>1. a \in Actors /\ a \notin Makers
  BY ActorsAssumption DEF Actors
<1>2. \A n \in Makers : n \in Actors \ {a}
  BY <1>1 DEF Actors
<1>3. target[a] \in Makers /\ pc[target[a]] = "ended" /\ pc'[target[a]] = "ended"
  BY <1>2 DEF IInv, Finding
<1>4. Finding'
  <2>1. ASSUME NEW b \in Updates \cup Deletes, pc'[b] \in {"found", "unindexed"}
        PROVE  /\ target[b] \in Makers
               /\ pc'[target[b]] = "ended" /\ loaded[b] \in EntryType
               /\ target[b] \notin failed' => loaded[b].recorded
    <3>1. pc[b] \in {"found", "unindexed"}
      BY <2>1 DEF Actors
    <3>2. QED
      BY <1>2, <3>1 DEF IInv, Finding
  <2>2. QED
    BY <2>1 DEF Finding
<1>5. ASSUME NEW n \in Makers \ {target[a]} PROVE Pointed(n)'
  <2>1. Unindexing(n)' <=> Unindexing(n)
    <3>1. \A d \in Deletes : d # a => pc'[d] = pc[d]
      BY DEF Actors
    <3>2. \A d \in Deletes : pc'[d] = "unindexed" /\ target[d] = n
                                 <=> pc[d] = "unindexed" /\ target[d] = n
      BY <1>5, <3>1
    <3>3. QED
      BY <3>2 DEF Unindexing
  <2>2. QED
    BY <1>2, <2>1, PointKept DEF IInv, Points
<1>6. \A b \in Reviews : b \in Actors \ {a}
  BY <1>2 DEF Makers
<1>7. a \in Actors \ Reviews
  BY <1>1 DEF Makers
<1>8. Locks' /\ Approving' /\ ApprovalAddsEntry' /\ Reviewers' /\ ReviewIsWhole'
  BY <1>6, <1>7, FlagsKept
<1>9. QED
  BY <1>3, <1>4, <1>5, <1>8

LEMMA EditInv ==
    ASSUME IInv, NEW u \in Updates, Edit(u) PROVE IInv'
<1>1. u \in Actors /\ u \notin Deletes
  BY ActorsAssumption DEF Actors
<1>2. Step(u, "found", "ended")
  BY DEF Edit
<1>3. /\ pc' \in [Actors -> PcType] /\ pc[u] = "found" /\ pc'[u] = "ended"
      /\ \A b \in Actors \ {u} : pc'[b] = pc[b]
  BY <1>1, <1>2, StepMoves DEF IInv, PcType
<1>4. PICK m \in Makers : m = target[u]
  BY <1>3 DEF IInv, Finding
<1>5. /\ flag' = flag /\ point' = point /\ lock' = lock
      /\ target' = target /\ decision' = decision /\ loaded' = loaded /\ answered' = answered
      /\ made' = made /\ failed' = failed /\ crowded' = crowded
  BY DEF Edit, local
<1>6. /\ entry' \in [Makers -> EntryType \cup {None}]
      /\ \A n \in Makers \ {m} : entry'[n] = entry[n]
      /\ \/ entry' = entry /\ edited' = edited
         \/ /\ entry[m] # None /\ entry'[m] \in EntryType
            /\ entry'[m].recorded = entry[m].recorded /\ edited' = edited \cup {m}
  <2>1. CASE entry[m] = None
    BY <1>4, <2>1 DEF Edit, IInv, TypeOK
  <2>2. CASE entry[m] # None
    <3>1. entry[m] \in EntryType
      BY <2>2 DEF IInv, TypeOK
    <3>2. PICK e \in {[entry[m] EXCEPT !.text = "second"], [entry[m] EXCEPT !.status = "rejected"],
                      [entry[m] EXCEPT !.active = FALSE]} :
              entry' = [entry EXCEPT ![m] = e] /\ edited' = edited \cup {m}
      BY <1>4, <2>2, Zenon DEF Edit
    <3>3. e \in EntryType /\ e.recorded = entry[m].recorded
      BY <3>1, <3>2 DEF EntryType, Statuses
    <3>4. entry \in [Makers -> EntryType \cup {None}]
      BY DEF IInv, TypeOK
    <3>5. QED
      BY <2>2, <3>2, <3>3, <3>4
  <2>3. QED
    BY <2>1, <2>2
<1>7. TypeOK'
  <2>1. edited' \in SUBSET Makers
    BY <1>6 DEF IInv, TypeOK
  <2>2. QED
    BY <1>3, <1>5, <1>6, <2>1 DEF IInv, TypeOK
<1>8. /\ Locks' /\ Approving' /\ ApprovalAddsEntry' /\ Reviewers' /\ ReviewIsWhole'
      /\ Finding' /\ \A n \in Makers \ {m} : Pointed(n)'
      /\ pc[m] = "ended" /\ pc'[m] = "ended"
  BY <1>3, <1>4, <1>5, <1>6, OwnersStep
<1>9. Unindexing(m)' <=> Unindexing(m)
  <2>1. \A d \in Deletes : pc'[d] = pc[d]
    BY <1>1, <1>3 DEF Actors
  <2>2. QED
    BY <1>5, <2>1 DEF Unindexing
<1>10. Pointed(m)'
  <2>1. Pointed(m)
    BY DEF IInv, Points
  <2>2. None \notin EntryType
    BY NoneIsNone
  <2>3. QED
    BY <1>5, <1>6, <1>8, <1>9, <2>1, <2>2 DEF Pointed
<1>11. Points'
  BY <1>8, <1>10 DEF Points
<1>12. QED
  BY <1>7, <1>8, <1>11 DEF IInv

\* The point goes first.
LEMMA UnindexInv ==
    ASSUME IInv, NEW d \in Deletes, Unindex(d) PROVE IInv'
<1>1. d \in Actors /\ Step(d, "found", "unindexed")
  BY DEF Unindex, Actors
<1>2. /\ pc' \in [Actors -> PcType] /\ pc[d] = "found" /\ pc'[d] = "unindexed"
      /\ \A b \in Actors \ {d} : pc'[b] = pc[b]
  BY <1>1, StepMoves DEF IInv, PcType
<1>3. PICK m \in Makers : m = target[d]
  BY <1>2 DEF IInv, Finding
<1>4. /\ point' = IF loaded[d].recorded THEN Dropped(m) ELSE point
      /\ flag' = flag /\ entry' = entry /\ lock' = lock
      /\ target' = target /\ decision' = decision /\ loaded' = loaded /\ answered' = answered
      /\ made' = made /\ edited' = edited /\ failed' = failed /\ crowded' = crowded
  BY <1>3 DEF Unindex, local, history
<1>5. /\ point' \in [Makers -> PointType \cup {None}]
      /\ \A n \in Makers \ {m} : point'[n] = point[n]
      /\ loaded[d].recorded => point'[m] = None
  BY <1>4 DEF IInv, TypeOK, Dropped
<1>6. TypeOK'
  BY <1>2, <1>4, <1>5 DEF IInv, TypeOK
<1>7. /\ Locks' /\ Approving' /\ ApprovalAddsEntry' /\ Reviewers' /\ ReviewIsWhole'
      /\ Finding' /\ \A n \in Makers \ {m} : Pointed(n)'
      /\ pc[m] = "ended" /\ pc'[m] = "ended"
  BY <1>2, <1>3, <1>4, <1>5, OwnersStep
<1>8. Unindexing(m)'
  BY <1>2, <1>3, <1>4 DEF Unindexing
<1>9. Pointed(m)'
  <2>1. m \notin failed => loaded[d].recorded
    BY <1>2, <1>3 DEF IInv, Finding
  <2>2. Pointed(m)
    BY DEF IInv, Points
  <2>3. QED
    BY <1>4, <1>5, <1>7, <1>8, <2>1, <2>2 DEF Pointed
<1>10. QED
  BY <1>6, <1>7, <1>9 DEF IInv, Points

LEMMA CommitDeleteInv ==
    ASSUME IInv, NEW d \in Deletes, CommitDelete(d) PROVE IInv'
<1>1. d \in Actors /\ Step(d, "unindexed", "ended")
  BY DEF CommitDelete, Actors
<1>2. /\ pc' \in [Actors -> PcType] /\ pc[d] = "unindexed" /\ pc'[d] = "ended"
      /\ \A b \in Actors \ {d} : pc'[b] = pc[b]
  BY <1>1, StepMoves DEF IInv, PcType
<1>3. PICK m \in Makers : m = target[d]
  BY <1>2 DEF IInv, Finding
<1>4. /\ entry' = [entry EXCEPT ![m] = None]
      /\ flag' = flag /\ point' = point /\ lock' = lock
      /\ target' = target /\ decision' = decision /\ loaded' = loaded /\ answered' = answered
      /\ made' = made /\ edited' = edited /\ failed' = failed /\ crowded' = crowded
  BY <1>3 DEF CommitDelete, local, history
<1>5. /\ entry' \in [Makers -> EntryType \cup {None}] /\ entry'[m] = None
      /\ \A n \in Makers \ {m} : entry'[n] = entry[n]
  BY <1>4 DEF IInv, TypeOK
<1>6. TypeOK'
  BY <1>2, <1>4, <1>5 DEF IInv, TypeOK
<1>7. /\ Locks' /\ Approving' /\ ApprovalAddsEntry' /\ Reviewers' /\ ReviewIsWhole'
      /\ Finding' /\ \A n \in Makers \ {m} : Pointed(n)'
      /\ pc[m] = "ended" /\ pc'[m] = "ended"
  BY <1>2, <1>3, <1>4, <1>5, OwnersStep
<1>8. Pointed(m)'
  <2>1. m \notin failed => point[m] = None
    BY <1>2, <1>3 DEF IInv, Points, Pointed, Unindexing
  <2>2. QED
    BY <1>4, <1>5, <1>7, <2>1 DEF IInv, Points, Pointed
<1>9. QED
  BY <1>6, <1>7, <1>8 DEF IInv, Points

LEMMA AbortDeleteInv ==
    ASSUME IInv, NEW d \in Deletes, AbortDelete(d) PROVE IInv'
<1>1. d \in Actors /\ pc[d] \in {"found", "unindexed"} /\ pc' = [pc EXCEPT ![d] = "ended"]
  BY DEF AbortDelete, Actors
<1>2. /\ pc' \in [Actors -> PcType] /\ pc'[d] = "ended"
      /\ \A b \in Actors \ {d} : pc'[b] = pc[b]
  BY <1>1 DEF IInv, TypeOK, PcType
<1>3. PICK m \in Makers : m = target[d]
  BY <1>1 DEF IInv, Finding
<1>4. /\ failed' = IF pc[d] = "unindexed" THEN failed \cup {m} ELSE failed
      /\ entry' = entry /\ flag' = flag /\ point' = point /\ lock' = lock
      /\ target' = target /\ decision' = decision /\ loaded' = loaded /\ answered' = answered
      /\ made' = made /\ edited' = edited /\ crowded' = crowded
  BY <1>3 DEF AbortDelete, stores, local
<1>5. TypeOK'
  <2>1. failed' \in SUBSET Makers
    BY <1>4 DEF IInv, TypeOK
  <2>2. QED
    BY <1>2, <1>4, <2>1 DEF IInv, TypeOK
<1>6. /\ Locks' /\ Approving' /\ ApprovalAddsEntry' /\ Reviewers' /\ ReviewIsWhole'
      /\ Finding' /\ \A n \in Makers \ {m} : Pointed(n)'
      /\ pc[m] = "ended" /\ pc'[m] = "ended"
  BY <1>1, <1>2, <1>3, <1>4, OwnersStep
<1>7. Pointed(m)'
  <2>1. pc[d] = "found" => (Unindexing(m)' <=> Unindexing(m))
    BY <1>2, <1>4 DEF Unindexing, Actors
  <2>2. Pointed(m)
    BY DEF IInv, Points
  <2>3. QED
    BY <1>1, <1>4, <1>6, <2>1, <2>2 DEF Pointed
<1>8. QED
  BY <1>5, <1>6, <1>7 DEF IInv, Points

-----------------------------------------------------------------------------
LEMMA NextInv == IInv /\ [Next]_vars => IInv'
<1> SUFFICES ASSUME IInv, [Next]_vars PROVE IInv'
  OBVIOUS
<1>1. ASSUME NEW r \in Reviews, NEW f \in Findings, NEW s \in Statuses,
             NEW note \in {r, None}, Load(r, f, s, note)
      PROVE  IInv'
  BY <1>1, LoadInv
<1>2. ASSUME NEW r \in Reviews, Flush(r) \/ FlushStale(r) \/ CommitReview(r)
      PROVE  IInv'
  BY <1>2, FlushInv, FlushStaleInv, CommitReviewInv
<1>3. ASSUME NEW c \in Creates, Insert(c) \/ CommitCreate(c)
      PROVE  IInv'
  BY <1>3, InsertInv, CommitCreateInv
<1>4. ASSUME NEW m \in Makers, Index(m) \/ IndexFails(m) \/ AbortMaker(m)
      PROVE  IInv'
  BY <1>4, IndexingInv, AbortMakerInv
<1>5. ASSUME NEW f \in Findings, Purge(f)
      PROVE  IInv'
  BY <1>5, PurgeInv
<1>6. ASSUME NEW a \in Updates \cup Deletes, NEW m \in Makers, Find(a, m)
      PROVE  IInv'
  BY <1>6, FindInv
<1>7. ASSUME NEW u \in Updates, Edit(u)
      PROVE  IInv'
  BY <1>7, EditInv
<1>8. ASSUME NEW d \in Deletes, Unindex(d) \/ CommitDelete(d) \/ AbortDelete(d)
      PROVE  IInv'
  BY <1>8, UnindexInv, CommitDeleteInv, AbortDeleteInv
<1>9. CASE UNCHANGED vars
  <2>1. /\ flag' = flag /\ entry' = entry /\ point' = point /\ lock' = lock /\ pc' = pc
        /\ target' = target /\ decision' = decision /\ loaded' = loaded /\ answered' = answered
        /\ made' = made /\ edited' = edited /\ failed' = failed /\ crowded' = crowded
    BY <1>9 DEF vars, stores, local, history
  <2>2. TypeOK' /\ Locks' /\ Finding'
    BY <2>1 DEF IInv, TypeOK, Locks, Holds, Finding
  <2>3. Points'
    BY <2>1 DEF IInv, Points, Pointed, Unindexing
  <2>4. Approving' /\ ApprovalAddsEntry'
    BY <2>1 DEF IInv, Approving, ApprovalAddsEntry, Approves
  <2>5. Reviewers' /\ ReviewIsWhole'
    BY <2>1 DEF IInv, Reviewers, ReviewIsWhole, Reviewing
  <2>6. QED
    BY <2>2, <2>3, <2>4, <2>5 DEF IInv
<1>10. QED
  BY <1>1, <1>2, <1>3, <1>4, <1>5, <1>6, <1>7, <1>8, <1>9 DEF Next, Quiet

THEOREM Invariant == Spec => []IInv
BY InitInv, NextInv, PTL DEF Spec

\* Every variable of Library has its type.
THEOREM TypeCorrect == Spec => []TypeOK
<1>1. IInv => TypeOK
  BY DEF IInv
<1>2. QED
  BY <1>1, Invariant, PTL

\* An entry none of whose requests failed in between is in the table exactly if
\* its point is in the vector store, which shows it as it was created.
THEOREM IndexFollowsTableAlways == Spec => []IndexFollowsTable
<1>1. IInv => IndexFollowsTable
  <2> SUFFICES ASSUME IInv, NEW m \in Makers \ failed, Settled(m)
               PROVE  /\ entry[m] # None <=> point[m] # None
                      /\ entry[m] # None /\ m \notin edited => point[m] = Content(entry[m])
    BY DEF IndexFollowsTable
  <2>1. ~Unindexing(m) /\ pc[m] \in {"idle", "loaded", "ended"}
    BY DEF Settled, Unindexing
  <2>2. Pointed(m)
    BY DEF IInv, Points
  <2>3. QED
    BY <2>1, <2>2 DEF Pointed
<1>2. QED
  BY <1>1, Invariant, PTL

\* A committed approval has its entry and nothing else has one, whatever fails.
THEOREM ApprovalAddsEntryAlways == Spec => []ApprovalAddsEntry
<1>1. IInv => ApprovalAddsEntry
  BY DEF IInv
<1>2. QED
  BY <1>1, Invariant, PTL

\* Reviews that do not meet leave a finding with the columns of one of them.
THEOREM ReviewIsWholeAlways == Spec => []ReviewIsWhole
<1>1. IInv => ReviewIsWhole
  BY DEF IInv
<1>2. QED
  BY <1>1, Invariant, PTL

=============================================================================
