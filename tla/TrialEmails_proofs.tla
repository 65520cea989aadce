------------------------- MODULE TrialEmails_proofs -------------------------
(***************************************************************************)
(* Proofs about TrialEmails for any organizations, milestones and number   *)
(* of overlapping runs.  Two facts carry the argument: a run that is not   *)
(* clouded is the only active one, and an email that a calm run has sent   *)
(* is in the stored mask and in the mask every active run has read.        *)
(***************************************************************************)
EXTENDS TrialEmails, TLAPS

\* What is recorded, read or about to be recorded has been sent.
MasksAreSent ==
    \A o \in admin : \A b \in Milestones :
        (b \in bits[o] \/ \E s \in Active : b \in seen[s][o] \cup mine[s][o])
            => sent[o][b] > 0

\* A run that no other has overlapped is alone.
CalmIsAlone == \A s \in Active : s \notin clouded => Active = {s}

\* A run never sends what the mask it read records.
MineIsNew == \A s \in Active : \A o \in Orgs : mine[s][o] \cap seen[s][o] = {}

\* An email sent by a calm run was sent by one, and every mask records it.
SettledIsKept ==
    \A o \in Orgs : \A b \in Milestones :
        /\ settled[o][b] <= 1
        /\ settled[o][b] > 0 => /\ b \in bits[o]
                                /\ \A s \in Active : b \in seen[s][o]

IInv == TypeOK /\ MasksAreSent /\ CalmIsAlone /\ MineIsNew /\ SettledIsKept

-----------------------------------------------------------------------------
\* Counting saturates at two and moves off zero.
LEMMA TickCounts ==
    ASSUME NEW n \in Count
    PROVE  Tick(n) \in Count /\ Tick(n) > 0 /\ (n = 0 => Tick(n) = 1)
BY DEF Tick, Count

LEMMA InitInv == Init => IInv
<1>1. SUFFICES ASSUME Init PROVE IInv
  OBVIOUS
<1>2. TypeOK
  BY <1>1, BoundAssumption DEF Init, TypeOK, NoBits, Count
<1>3. MasksAreSent /\ CalmIsAlone /\ MineIsNew /\ SettledIsKept
  BY <1>1 DEF Init, MasksAreSent, CalmIsAlone, MineIsNew, SettledIsKept, Active, NoBits
<1>4. QED
  BY <1>2, <1>3 DEF IInv

-----------------------------------------------------------------------------
\* Steps of the environment touch no mask and no run.
LEMMA ReachInv ==
    ASSUME IInv, NEW o \in Orgs, NEW b \in Milestones, Reach(o, b) PROVE IInv'
<1>1. TypeOK'
  BY DEF IInv, TypeOK, Reach, run, history
<1>2. Active' = Active
  BY DEF Active, Reach, run
<1>3. MasksAreSent' /\ CalmIsAlone' /\ MineIsNew' /\ SettledIsKept'
  BY <1>2 DEF IInv, MasksAreSent, CalmIsAlone, MineIsNew, SettledIsKept, Reach, run, history
<1>4. QED
  BY <1>1, <1>3 DEF IInv

LEMMA LeaveTrialInv ==
    ASSUME IInv, NEW o \in Orgs, LeaveTrial(o) PROVE IInv'
<1>1. TypeOK'
  BY DEF IInv, TypeOK, LeaveTrial, run, history
<1>2. Active' = Active
  BY DEF Active, LeaveTrial, run
<1>3. MasksAreSent' /\ CalmIsAlone' /\ MineIsNew' /\ SettledIsKept'
  BY <1>2 DEF IInv, MasksAreSent, CalmIsAlone, MineIsNew, SettledIsKept, LeaveTrial, run, history
<1>4. QED
  BY <1>1, <1>3 DEF IInv

-----------------------------------------------------------------------------
LEMMA StartInv ==
    ASSUME IInv, NEW s \in Slots, Start(s) PROVE IInv'
<1>1. TypeOK'
  BY DEF IInv, TypeOK, Start, stored, NoBits, Active
<1>2. Active' = Active \cup {s} /\ s \notin Active
  BY DEF Active, Start, IInv, TypeOK
<1>3. /\ seen'[s] = bits /\ mine'[s] = NoBits
      /\ \A t \in Active : seen'[t] = seen[t] /\ mine'[t] = mine[t]
  BY <1>2 DEF Start, IInv, TypeOK, Active
<1>4. UNCHANGED <<admin, bits, sent, settled>>
  BY DEF Start, stored
<1>5. MasksAreSent'
  BY <1>2, <1>3, <1>4 DEF IInv, MasksAreSent, NoBits, TypeOK
<1>6. CalmIsAlone'
  <2>1. CASE Active = {}
    BY <2>1, <1>2 DEF CalmIsAlone
  <2>2. CASE Active # {}
    <3>1. clouded' = clouded \cup Active \cup {s}
      BY <2>2 DEF Start
    <3>2. QED
      BY <3>1, <1>2 DEF CalmIsAlone
  <2>3. QED
    BY <2>1, <2>2
<1>7. MineIsNew'
  BY <1>2, <1>3 DEF IInv, MineIsNew, NoBits
<1>8. SettledIsKept'
  BY <1>2, <1>3, <1>4 DEF IInv, SettledIsKept
<1>9. QED
  BY <1>1, <1>5, <1>6, <1>7, <1>8 DEF IInv

-----------------------------------------------------------------------------
LEMMA DispatchInv ==
    ASSUME IInv, NEW s \in Slots, NEW o \in Orgs, NEW b \in Milestones, Dispatch(s, o, b)
    PROVE  IInv'
<1>1. UNCHANGED <<trialing, admin, due, bits, pc, loaded, seen, now, settled, clouded, failures>>
  BY DEF Dispatch, stored
<1>2. s \in Active /\ Active' = Active
  BY <1>1 DEF Active, Dispatch
<1>3. /\ mine'[s][o] = mine[s][o] \cup {b}
      /\ \A t \in Slots : \A p \in Orgs : t # s \/ p # o => mine'[t][p] = mine[t][p]
      /\ mine' \in [Slots -> [Orgs -> SUBSET Milestones]]
  BY DEF Dispatch, IInv, TypeOK
<1>4. /\ sent' \in [Orgs -> [Milestones -> Count]]
      /\ \A p \in Orgs : \A c \in Milestones : sent[p][c] > 0 => sent'[p][c] > 0
      /\ o \in admin => sent'[o][b] > 0
  <2>1. CASE o \notin admin
    BY <2>1 DEF Dispatch, IInv, TypeOK
  <2>2. CASE o \in admin
    <3>1. sent' = [sent EXCEPT ![o][b] = Tick(sent[o][b])]
      BY <2>2 DEF Dispatch
    <3>2. sent[o][b] \in Count /\ sent \in [Orgs -> [Milestones -> Count]]
      BY DEF IInv, TypeOK
    <3>3. Tick(sent[o][b]) \in Count /\ Tick(sent[o][b]) > 0
      BY <3>2, TickCounts
    <3>4. QED
      BY <3>1, <3>2, <3>3
  <2>3. QED
    BY <2>1, <2>2
<1>5. TypeOK'
  BY <1>1, <1>3, <1>4 DEF IInv, TypeOK
<1>6. MasksAreSent'
  <2>1. SUFFICES ASSUME NEW p \in admin, NEW c \in Milestones,
                        c \in bits[p] \/ \E t \in Active : c \in seen[t][p] \cup mine'[t][p]
                 PROVE  sent'[p][c] > 0
    BY <1>1, <1>2 DEF MasksAreSent
  <2>2. p \in Orgs
    BY DEF IInv, TypeOK
  <2>3. CASE p = o /\ c = b
    BY <2>3, <1>4
  <2>4. CASE c \in bits[p] \/ \E t \in Active : c \in seen[t][p] \cup mine[t][p]
    BY <2>4, <2>2, <1>4 DEF IInv, MasksAreSent
  <2>5. QED
    BY <2>1, <2>2, <2>3, <2>4, <1>3 DEF Active
<1>7. CalmIsAlone' /\ SettledIsKept'
  BY <1>1, <1>2 DEF IInv, CalmIsAlone, SettledIsKept
<1>8. MineIsNew'
  <2>1. b \notin seen[s][o]
    BY DEF Dispatch, Todo
  <2>2. QED
    BY <2>1, <1>1, <1>2, <1>3 DEF IInv, MineIsNew, Active
<1>9. QED
  BY <1>5, <1>6, <1>7, <1>8 DEF IInv

-----------------------------------------------------------------------------
LEMMA CommitInv ==
    ASSUME IInv, NEW s \in Slots, Commit(s) PROVE IInv'
<1>1. /\ UNCHANGED <<trialing, admin, due, loaded, seen, now, mine, sent, clouded, failures>>
      /\ bits' = [o \in Orgs |-> IF mine[s][o] = {} THEN bits[o] ELSE seen[s][o] \cup mine[s][o]]
      /\ pc' = [pc EXCEPT ![s] = "idle"]
  BY DEF Commit
<1>2. s \in Active /\ Active' = Active \ {s}
  BY <1>1 DEF Active, Commit, IInv, TypeOK
<1>3. settled' \in [Orgs -> [Milestones -> Count]]
  <2>1. \A o \in Orgs, b \in Milestones : settled[o][b] \in Count /\ Tick(settled[o][b]) \in Count
    BY TickCounts DEF IInv, TypeOK
  <2>2. CASE s \in clouded
    BY <2>2 DEF Commit, IInv, TypeOK
  <2>3. CASE s \notin clouded
    BY <2>1, <2>3 DEF Commit
  <2>4. QED
    BY <2>2, <2>3
<1>4. TypeOK'
  BY <1>1, <1>3 DEF IInv, TypeOK
<1>5. MasksAreSent'
  BY <1>1, <1>2 DEF IInv, MasksAreSent, TypeOK
<1>6. CalmIsAlone' /\ MineIsNew'
  BY <1>1, <1>2 DEF IInv, CalmIsAlone, MineIsNew
<1>7. SettledIsKept'
  <2>1. SUFFICES ASSUME NEW o \in Orgs, NEW b \in Milestones
                 PROVE  /\ settled'[o][b] <= 1
                        /\ settled'[o][b] > 0 => /\ b \in bits'[o]
                                                 /\ \A t \in Active' : b \in seen[t][o]
    BY <1>1 DEF SettledIsKept
  <2>2. settled[o][b] > 0 => b \in bits'[o] /\ \A t \in Active : b \in seen[t][o]
    BY <1>1, <1>2 DEF IInv, SettledIsKept
  <2>3. settled[o][b] <= 1 /\ settled[o][b] \in Count
    BY DEF IInv, SettledIsKept, TypeOK
  <2>4. CASE s \notin clouded /\ b \in mine[s][o]
    <3>1. Active' = {}
      BY <2>4, <1>2 DEF IInv, CalmIsAlone
    <3>2. b \in bits'[o]
      BY <2>4, <1>1
    <3>3. settled[o][b] = 0
      <4>1. b \notin seen[s][o]
        BY <2>4, <1>2 DEF IInv, MineIsNew
      <4>2. ~ (settled[o][b] > 0)
        BY <4>1, <1>2, <2>2
      <4>3. QED
        BY <4>2, <2>3 DEF Count
    <3>4. settled'[o][b] = Tick(settled[o][b])
      BY <2>4 DEF Commit
    <3>5. settled'[o][b] = 1
      BY <3>3, <3>4 DEF Tick
    <3>6. QED
      BY <3>1, <3>2, <3>5
  <2>5. CASE s \in clouded \/ b \notin mine[s][o]
    <3>1. settled'[o][b] = settled[o][b]
      BY <2>5 DEF Commit
    <3>2. QED
      BY <3>1, <2>2, <2>3, <1>2
  <2>6. QED
    BY <2>4, <2>5
<1>8. QED
  BY <1>4, <1>5, <1>6, <1>7 DEF IInv

LEMMA FailInv ==
    ASSUME IInv, NEW s \in Slots, Fail(s) PROVE IInv'
<1>1. /\ UNCHANGED <<trialing, admin, due, bits, loaded, seen, now, mine, sent, settled, clouded>>
      /\ pc' = [pc EXCEPT ![s] = "idle"]
      /\ failures' = failures + 1 /\ failures < MaxFailures
  BY DEF Fail, stored
<1>2. Active' = Active \ {s}
  BY <1>1 DEF Active, IInv, TypeOK
<1>3. TypeOK'
  BY <1>1, BoundAssumption DEF IInv, TypeOK
<1>4. MasksAreSent' /\ CalmIsAlone' /\ MineIsNew' /\ SettledIsKept'
  BY <1>1, <1>2 DEF IInv, MasksAreSent, CalmIsAlone, MineIsNew, SettledIsKept
<1>5. QED
  BY <1>3, <1>4 DEF IInv

LEMMA StutterInv == IInv /\ UNCHANGED vars => IInv'
BY DEF IInv, TypeOK, MasksAreSent, CalmIsAlone, MineIsNew, SettledIsKept, Active,
       vars, stored, run, history

-----------------------------------------------------------------------------
\* The inductive invariant holds of every run of the specification.
THEOREM Invariant == Spec => []IInv
<1>1. IInv /\ [Next]_vars => IInv'
  <2>1. SUFFICES ASSUME IInv, [Next]_vars PROVE IInv'
    OBVIOUS
  <2>2. CASE UNCHANGED vars
    BY <2>1, <2>2, StutterInv
  <2>3. CASE \E o \in Orgs : LeaveTrial(o) \/ \E b \in Milestones : Reach(o, b)
    BY <2>1, <2>3, LeaveTrialInv, ReachInv
  <2>4. CASE \E s \in Slots : Run(s) \/ Fail(s)
    BY <2>1, <2>4, StartInv, DispatchInv, CommitInv, FailInv DEF Run
  <2>5. QED
    BY <2>1, <2>2, <2>3, <2>4 DEF Next
<1>2. QED
  BY InitInv, <1>1, PTL DEF Spec

\* Every variable keeps its type.
THEOREM TypeCorrect == Spec => []TypeOK
<1>1. IInv => TypeOK
  BY DEF IInv
<1>2. QED
  BY Invariant, <1>1, PTL

\* A recorded milestone email was dispatched, however runs overlap and fail.
THEOREM RecordedWasSentAlways == Spec => []RecordedWasSent
<1>1. IInv => RecordedWasSent
  <2>1. SUFFICES ASSUME IInv, NEW o \in admin, NEW b \in bits[o] PROVE sent[o][b] > 0
    BY DEF RecordedWasSent
  <2>2. b \in Milestones
    BY <2>1 DEF IInv, TypeOK
  <2>3. QED
    BY <2>1, <2>2 DEF IInv, MasksAreSent
<1>2. QED
  BY Invariant, <1>1, PTL

\* Of the runs that neither failed nor overlapped, one at most sends an email.
THEOREM SettledOnceAlways == Spec => []SettledOnce
<1>1. IInv => SettledOnce
  BY DEF IInv, SettledIsKept, SettledOnce
<1>2. QED
  BY Invariant, <1>1, PTL

=============================================================================
