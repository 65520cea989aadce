--------------------------- MODULE Delivery_proofs ---------------------------
(***************************************************************************)
(* More proofs about AnalysisTasks, on top of those of                     *)
(* AnalysisTasks_proofs: the tables implement TaskBoard, and what becomes  *)
(* of the messages and the billing of a task.                              *)
(***************************************************************************)
EXTENDS AnalysisTasks_proofs, FiniteSetTheorems, WellFoundedInduction

-----------------------------------------------------------------------------
(* What a request is at.                                                   *)

\* A trigger that has begun names at least one type; tasks are created by
\* triggers only, one per type, once the purge is through.
RequestShape ==
    \A r \in Requests :
        /\ rmade[r] \in 0..MaxTypes
        /\ rmade[r] > 0 => rpc[r] \in {"creating", "ended"}
        /\ rpc[r] \in {"begun", "purged", "creating"} /\ rkind[r] # "delete"
              => Len(rtypes[r]) \in 1..MaxTypes
        /\ rpc[r] = "creating" => rkind[r] # "delete"

LEMMA InitRequestShape == Init => RequestShape
BY BoundsAssumption DEF Init, RequestShape

LEMMA RequestShapeStep == IInv /\ RequestShape /\ [Next]_vars => RequestShape'
<1> SUFFICES ASSUME IInv, RequestShape, [Next]_vars, NEW q \in Requests
             PROVE  /\ rmade'[q] \in 0..MaxTypes
                    /\ rmade'[q] > 0 => rpc'[q] \in {"creating", "ended"}
                    /\ rpc'[q] \in {"begun", "purged", "creating"} /\ rkind'[q] # "delete"
                          => Len(rtypes'[q]) \in 1..MaxTypes
                    /\ rpc'[q] = "creating" => rkind'[q] # "delete"
    BY DEF RequestShape
<1> DEFINE Shape == /\ rmade[q] \in 0..MaxTypes
                    /\ rmade[q] > 0 => rpc[q] \in {"creating", "ended"}
                    /\ rpc[q] \in {"begun", "purged", "creating"} /\ rkind[q] # "delete"
                          => Len(rtypes[q]) \in 1..MaxTypes
                    /\ rpc[q] = "creating" => rkind[q] # "delete"
           Goal == /\ rmade'[q] \in 0..MaxTypes
                   /\ rmade'[q] > 0 => rpc'[q] \in {"creating", "ended"}
                   /\ rpc'[q] \in {"begun", "purged", "creating"} /\ rkind'[q] # "delete"
                         => Len(rtypes'[q]) \in 1..MaxTypes
                   /\ rpc'[q] = "creating" => rkind'[q] # "delete"
<1>0. Shape
    BY DEF RequestShape
<1> USE DEF IInv, TypeOK
<1>1. ASSUME rmade' = rmade, rpc' = rpc, rkind' = rkind, rtypes' = rtypes PROVE Goal
    BY <1>0, <1>1
<1>2. ASSUME NEW r \in Requests, TriggerBegin(r) PROVE Goal
  <2>1. PICK n \in 1..MaxTypes : \E ts \in [1..n -> Types] : rtypes' = [rtypes EXCEPT ![r] = ts]
    BY <1>2 DEF TriggerBegin
  <2>2. PICK ts \in [1..n -> Types] : rtypes' = [rtypes EXCEPT ![r] = ts]
    BY <2>1
  <2>3. Len(ts) = n
    BY <2>2, BoundsAssumption
  <2>4. rmade' = rmade /\ rkind' = rkind /\ rpc[r] = "idle" /\ rpc' = [rpc EXCEPT ![r] = "begun"]
    BY <1>2 DEF TriggerBegin, Goto
  <2>5. CASE q = r
    BY <1>0, <2>2, <2>3, <2>4, <2>5
  <2>6. CASE q # r
    BY <1>0, <2>2, <2>4, <2>6
  <2>7. QED
    BY <2>5, <2>6
<1>3. ASSUME NEW r \in Requests, DeleteBegin(r) PROVE Goal
    BY <1>0, <1>3 DEF DeleteBegin, Goto
<1>4. ASSUME NEW r \in Requests, PurgeTasks(r) PROVE Goal
    BY <1>0, <1>4 DEF PurgeTasks, Goto
<1>5. ASSUME NEW r \in Requests, CreateTask(r) PROVE Goal
  <2>1. rmade[r] + 1 \in 1..Len(rtypes[r]) /\ rpc[r] = "creating"
    BY <1>5 DEF CreateTask
  <2>2. rmade' = [rmade EXCEPT ![r] = rmade[r] + 1]
        /\ rpc' = rpc /\ rkind' = rkind /\ rtypes' = rtypes
    BY <1>5 DEF CreateTask
  <2>3. Len(rtypes[r]) <= MaxTypes
    BY <2>1 DEF RequestShape
  <2>4. QED
    BY <1>0, <2>1, <2>2, <2>3, BoundsAssumption
<1>6. ASSUME NEW r \in Requests,
             Refuse(r) \/ CommitTrigger(r) \/ CommitDelete(r) \/ Abort(r)
      PROVE  Goal
    BY <1>0, <1>6 DEF Refuse, CommitTrigger, CommitDelete, Abort, Goto
<1>7. ASSUME NEW r \in Requests, PurgeFindings(r) PROVE Goal
    BY <1>0, <1>7 DEF PurgeFindings, Goto
<1>8. ASSUME NEW w \in Workers, NEW m \in Msg, Deliver(w, m) PROVE Goal
    BY <1>8, <1>1 DEF Deliver, rvars
<1>9. ASSUME NEW w \in Workers,
             \/ Claim(w) \/ RunFails(w) \/ Publish(w) \/ ReadUsage(w) \/ WriteUsage(w)
             \/ UsageFails(w) \/ MarkFailed(w) \/ MarkFails(w) \/ Retry(w) \/ Ack(w)
             \/ Crash(w) \/ ChildKilled(w) \/ Redeliver(w)
      PROVE  Goal
    BY <1>9, <1>1 DEF Claim, RunFails, Publish, ReadUsage, WriteUsage, UsageFails,
                      MarkFailed, MarkFails, Retry, Ack, Crash, ChildKilled, Redeliver, rvars
<1>10. CASE Quiet \/ UNCHANGED vars
    BY <1>10, <1>1 DEF Quiet, vars, rvars
<1>11. QED
    BY <1>2, <1>3, <1>4, <1>5, <1>6, <1>7, <1>8, <1>9, <1>10
       DEF Next, RequestStep, WorkerStep

\* A request that creates tasks names them, and none of them is in the table.
LEMMA CreatedIsNew ==
    ASSUME IInv, RequestShape, NEW r \in Requests, rpc[r] = "creating"
    PROVE  Created(r) \subseteq {t \in TaskId : ~ Exists(t)}
<1>1. rmade[r] \in 0..MaxTypes
    BY DEF RequestShape
<1>2. SUFFICES ASSUME NEW i \in 1..rmade[r]
               PROVE  <<r, i>> \in TaskId /\ ~ Exists(<<r, i>>)
    BY DEF Created
<1>3. <<r, i>> \in TaskId
    BY <1>1, BoundsAssumption DEF TaskId
<1>4. <<r, i>>[1] = r
    OBVIOUS
<1>5. QED
    BY <1>3, <1>4 DEF IInv, RowOfEnded

-----------------------------------------------------------------------------
(* The tables implement the board.                                         *)

\* A purge that commits leaves nothing of the tasks it deletes.
LEMMA NothingLeft ==
    ASSUME IInv, NEW r \in Requests, NEW t \in Purged(r)
    PROVE  FlagsLeft(r, t) = 0 /\ ResultLeft(r, t) = FALSE
<1>1. t \in TaskId /\ lock[t] = r
    BY DEF Purged
<1>2. flags[t] <= rseen[r].flags[t] /\ (result[t] => rseen[r].result[t])
    BY <1>1 DEF IInv, PurgedRow
<1>3. flags[t] \in Nat /\ rseen[r].flags[t] \in Nat
    BY <1>1 DEF IInv, TypeOK
<1>4. QED
    BY <1>2, <1>3 DEF FlagsLeft, ResultLeft

LEMMA CommitTriggerSubmits ==
    ASSUME IInv, RequestShape, NEW r \in Requests, CommitTrigger(r)
    PROVE  Board!Next
<1> DEFINE new == Created(r)
           old == Purged(r)
           ran == Ran(r)
<1>1. rpc[r] = "creating" /\ rmade[r] = Len(rtypes[r])
    BY DEF CommitTrigger
<1>3. new # {}
  <2>1. rmade[r] \in 1..MaxTypes
    BY <1>1 DEF RequestShape
  <2>2. <<r, 1>> \in new
    BY <2>1 DEF Created
  <2>3. QED
    BY <2>2
<1>4. new \in (SUBSET {t \in TaskId : ~ Board!Present(t)}) \ {{}}
  <2>1. new \subseteq {t \in TaskId : row[t] = "none"}
    BY <1>1, CreatedIsNew DEF Exists
  <2>2. {t \in TaskId : row[t] = "none"} = {t \in TaskId : ~ Board!Present(t)}
    BY DEF Board!Present
  <2> HIDE DEF new
  <2>3. new \in SUBSET {t \in TaskId : ~ Board!Present(t)}
    BY <2>1, <2>2
  <2>4. QED
    BY <1>3, <2>3
<1>5. old \in SUBSET {t \in TaskId : Board!Present(t)}
    BY ActorsAssumption DEF IInv, LockedRow, Purged, Exists, Board!Present
<1>6. ran \in SUBSET new
    BY DEF Ran
<1>7. new \cap old = {}
    BY <1>4, <1>5
<1>8. row' = [t \in TaskId |-> CASE t \in ran -> "completed"
                                 [] t \in new \ ran -> "queued"
                                 [] t \in old -> "none"
                                 [] OTHER -> row[t]]
  <2>1. row' = [t \in TaskId |-> IF t \in ran THEN "completed"
                                 ELSE IF t \in new THEN "queued"
                                 ELSE IF t \in old THEN "none" ELSE row[t]]
    BY DEF CommitTrigger
  <2> HIDE DEF new, old, ran
  <2>2. QED
    BY <1>6, <1>7, <2>1
<1>9. \E reported \in SUBSET ran :
          flags' = [t \in TaskId |-> IF t \in old THEN 0
                                     ELSE IF t \in reported THEN 1 ELSE flags[t]]
  <2>1. PICK reported \in SUBSET ran :
          flags' = [t \in TaskId |-> IF t \in old THEN FlagsLeft(r, t)
                                     ELSE IF t \in reported THEN 1 ELSE flags[t]]
    BY DEF CommitTrigger
  <2>2. \A t \in old : FlagsLeft(r, t) = 0
    BY NothingLeft
  <2> HIDE DEF old, ran
  <2>3. QED
    BY <2>1, <2>2
<1>10. result' = [t \in TaskId |-> t \in ran \/ (t \notin old /\ result[t])]
  <2>1. result' = [t \in TaskId |-> IF t \in old THEN ResultLeft(r, t)
                                    ELSE t \in ran \/ result[t]]
    BY DEF CommitTrigger
  <2>2. \A t \in old : ResultLeft(r, t) = FALSE
    BY NothingLeft
  <2> HIDE DEF old, ran, new
  <2>3. \A t \in TaskId : (IF t \in old THEN ResultLeft(r, t) ELSE t \in ran \/ result[t])
                            = (t \in ran \/ (t \notin old /\ result[t]))
    BY <1>6, <1>7, <2>2
  <2>4. QED
    BY <2>1, <2>3
<1>11. Board!Submit(new, old, ran)
  <2> HIDE DEF new, old, ran
  <2>1. QED
    BY <1>8, <1>9, <1>10 DEF Board!Submit
<1>12. QED
  <2> HIDE DEF new, old, ran
  <2>1. QED
    BY <1>4, <1>5, <1>6, <1>11 DEF Board!Next

LEMMA CommitDeleteClears ==
    ASSUME IInv, NEW r \in Requests, CommitDelete(r)
    PROVE  Board!Clear
<1>1. row' = [t \in TaskId |-> "none"]
    BY DEF CommitDelete
<1>2. \A t \in TaskId \ Purged(r) : flags[t] = 0 /\ ~ result[t]
    BY DEF CommitDelete, Existing, IInv, FindingsHaveTask
<1>3. flags' = [t \in TaskId |-> 0]
  <2>1. flags' = [t \in TaskId |-> IF t \in Purged(r) THEN FlagsLeft(r, t) ELSE flags[t]]
    BY DEF CommitDelete
  <2>2. QED
    BY <1>2, <2>1, NothingLeft
<1>4. result' = [t \in TaskId |-> FALSE]
  <2>1. result' = [t \in TaskId |-> IF t \in Purged(r) THEN ResultLeft(r, t) ELSE result[t]]
    BY DEF CommitDelete
  <2>2. \A t \in TaskId : (IF t \in Purged(r) THEN ResultLeft(r, t) ELSE result[t]) = FALSE
    BY <1>2, NothingLeft DEF IInv, TypeOK
  <2>3. QED
    BY <2>1, <2>2
<1>5. QED
    BY <1>1, <1>3, <1>4 DEF Board!Clear

LEMMA PublishFinishes ==
    ASSUME IInv, NEW w \in Workers, Publish(w)
    PROVE  Board!Next
<1>1. Held(w) \in TaskId /\ Exists(Held(w))
    BY HeldType DEF IInv, Working, ClaimedRow, Publish, Step
<1>2. Board!Finish(Held(w))
    BY <1>1 DEF Board!Finish, Board!Present, Exists, Publish
<1>3. QED
    BY <1>1, <1>2 DEF Board!Next

LEMMA MarkFailedFails ==
    ASSUME IInv, NEW w \in Workers, MarkFailed(w)
    PROVE  Board!Next \/ UNCHANGED Board!board
<1>1. Held(w) \in TaskId
    BY HeldType DEF IInv, Working, MarkFailed, Step
<1>2. flags' = flags /\ result' = result
    BY DEF MarkFailed
<1>3. CASE Exists(Held(w))
  <2>1. Board!Fail(Held(w))
    BY <1>2, <1>3 DEF Board!Fail, Board!Present, Exists, MarkFailed
  <2>2. QED
    BY <1>1, <2>1 DEF Board!Next
<1>4. CASE ~ Exists(Held(w))
  <2>1. row' = row
    BY <1>1, <1>4 DEF MarkFailed, Exists, IInv, TypeOK
  <2>2. QED
    BY <1>2, <2>1 DEF Board!board
<1>5. QED
    BY <1>3, <1>4

LEMMA StepIsBoardStep ==
    IInv /\ RequestShape /\ [Next]_vars => [Board!Next]_(Board!board)
<1> SUFFICES ASSUME IInv, RequestShape, [Next]_vars
             PROVE  Board!Next \/ UNCHANGED Board!board
    OBVIOUS
<1>1. ASSUME row' = row, flags' = flags, result' = result
      PROVE  UNCHANGED Board!board
    BY <1>1 DEF Board!board
<1>2. ASSUME NEW r \in Requests, CommitTrigger(r) PROVE Board!Next
    BY <1>2, CommitTriggerSubmits
<1>3. ASSUME NEW r \in Requests, CommitDelete(r) PROVE Board!Next
    BY <1>3, CommitDeleteClears DEF Board!Next
<1>4. ASSUME NEW w \in Workers, Publish(w) PROVE Board!Next
    BY <1>4, PublishFinishes
<1>5. ASSUME NEW w \in Workers, MarkFailed(w) PROVE Board!Next \/ UNCHANGED Board!board
    BY <1>5, MarkFailedFails
<1>6. ASSUME NEW r \in Requests,
             \/ TriggerBegin(r) \/ DeleteBegin(r) \/ Refuse(r) \/ PurgeFindings(r)
             \/ PurgeTasks(r) \/ CreateTask(r) \/ Abort(r)
      PROVE  UNCHANGED Board!board
    BY <1>6, <1>1 DEF TriggerBegin, DeleteBegin, Refuse, PurgeFindings, PurgeTasks,
                      CreateTask, Abort, tables
<1>7. ASSUME NEW w \in Workers, NEW m \in Msg, Deliver(w, m) PROVE UNCHANGED Board!board
    BY <1>7, <1>1 DEF Deliver, tables
<1>8. ASSUME NEW w \in Workers,
             \/ Claim(w) \/ RunFails(w) \/ ReadUsage(w) \/ WriteUsage(w)
             \/ UsageFails(w) \/ MarkFails(w) \/ Retry(w) \/ Ack(w)
             \/ Crash(w) \/ ChildKilled(w) \/ Redeliver(w)
      PROVE  UNCHANGED Board!board
    BY <1>8, <1>1 DEF Claim, RunFails, ReadUsage, WriteUsage, UsageFails, MarkFails,
                      Retry, Ack, Crash, ChildKilled, Redeliver, tables
<1>9. CASE Quiet \/ UNCHANGED vars
    BY <1>9, <1>1 DEF Quiet, vars, tables
<1>10. QED
    BY <1>2, <1>3, <1>4, <1>5, <1>6, <1>7, <1>8, <1>9 DEF Next, RequestStep, WorkerStep

LEMMA RequestShapeAlways == Spec => []RequestShape
<1>1. IInv /\ RequestShape /\ [Next]_vars => RequestShape'
    BY RequestShapeStep
<1>2. QED
    BY InitRequestShape, <1>1, Invariant, PTL DEF Spec

\* tasks.py and agent_tasks.py: whatever the interleaving, each change of the
\* committed tables is a whole step of the board.
THEOREM ImplementsTaskBoard == Spec => BoardSpec
<1>1. Init => Board!Init
    BY DEF Init, Board!Init
<1>2. QED
    BY <1>1, StepIsBoardStep, RequestShapeAlways, Invariant, PTL
       DEF Spec, BoardSpec, Board!Spec

-----------------------------------------------------------------------------
(* No task is forgotten.                                                   *)

\* The request has sent a message for the task.
Sent(t) == rkind[t[1]] # "inline" /\ t \in Created(t[1])

\* A worker that found its task's row is at work for a request that has ended.
TakenIsEnded ==
    \A w \in Workers : wpc[w] \notin {"idle", "done"} => rpc[Held(w)[1]] = "ended"

\* Somebody will still see to the task, or it is one of the abandoned.
Tracked(t) == t \in missed \cup unmarked \cup lost \/ Pending(t)

\* The task is queued, or will be once its request commits.
Open(t) == row[t] = "queued" \/ (rpc[t[1]] = "creating" /\ Sent(t))

NoneLost == \A t \in TaskId : Open(t) => Tracked(t)

LEMMA InitNoneLost == Init => TakenIsEnded /\ NoneLost
<1> SUFFICES ASSUME Init PROVE TakenIsEnded /\ NoneLost
    OBVIOUS
<1>1. TakenIsEnded
    BY DEF Init, TakenIsEnded
<1>2. \A t \in TaskId : t[1] \in Requests
    BY DEF TaskId
<1>3. QED
    BY <1>1, <1>2 DEF Init, NoneLost, Open

\* A request that has ended stays so.
LEMMA EndedStays ==
    ASSUME IInv, [Next]_vars, NEW r \in Requests, rpc[r] = "ended"
    PROVE  rpc'[r] = "ended"
<1> USE DEF IInv, TypeOK
<1>1. ASSUME NEW q \in Requests,
             \/ TriggerBegin(q) \/ DeleteBegin(q) \/ Refuse(q) \/ PurgeFindings(q)
             \/ PurgeTasks(q) \/ CommitTrigger(q) \/ CommitDelete(q) \/ Abort(q)
      PROVE  rpc'[r] = "ended"
  <2>1. rpc[q] # "ended"
    BY <1>1 DEF TriggerBegin, DeleteBegin, Refuse, PurgeFindings, PurgeTasks,
                CommitTrigger, CommitDelete, Abort, InTxn
  <2>2. \E pc : rpc' = [rpc EXCEPT ![q] = pc]
    BY <1>1 DEF TriggerBegin, DeleteBegin, Refuse, PurgeFindings, PurgeTasks,
                CommitTrigger, CommitDelete, Abort, Goto
  <2>3. QED
    BY <2>1, <2>2
<1>2. ASSUME NEW q \in Requests, CreateTask(q) PROVE rpc'[r] = "ended"
    BY <1>2 DEF CreateTask
<1>3. ASSUME NEW w \in Workers, NEW m \in Msg, Deliver(w, m) PROVE rpc'[r] = "ended"
    BY <1>3 DEF Deliver, rvars
<1>4. ASSUME NEW w \in Workers,
             \/ Claim(w) \/ RunFails(w) \/ Publish(w) \/ ReadUsage(w) \/ WriteUsage(w)
             \/ UsageFails(w) \/ MarkFailed(w) \/ MarkFails(w) \/ Retry(w) \/ Ack(w)
             \/ Crash(w) \/ ChildKilled(w) \/ Redeliver(w)
      PROVE  rpc'[r] = "ended"
    BY <1>4 DEF Claim, RunFails, Publish, ReadUsage, WriteUsage, UsageFails,
                MarkFailed, MarkFails, Retry, Ack, Crash, ChildKilled, Redeliver, rvars
<1>5. CASE Quiet \/ UNCHANGED vars
    BY <1>5 DEF Quiet, vars, rvars
<1>6. QED
    BY <1>1, <1>2, <1>3, <1>4, <1>5 DEF Next, RequestStep, WorkerStep

\* What a worker holds is a message for the task.
LEMMA HeldMessage ==
    ASSUME IInv, NEW w \in Workers, wpc[w] # "idle"
    PROVE  /\ wmsg[w] \in Msg /\ Held(w) \in TaskId /\ Held(w)[1] \in Requests
           /\ wmsg[w].retries \in 0..MaxRetries
           /\ wmsg[w] = [task |-> Held(w), retries |-> wmsg[w].retries]
BY DEF IInv, Working, Held, Msg, TaskId

\* Who works on what changes in the steps of that worker only.
LEMMA OthersWork ==
    ASSUME NEW w \in Workers, WorkerStep(w) \/ Crash(w) \/ ChildKilled(w) \/ Redeliver(w),
           NEW v \in Workers \ {w}, TypeOK
    PROVE  wpc'[v] = wpc[v] /\ wmsg'[v] = wmsg[v] /\ wread'[v] = wread[v]
<1> USE DEF TypeOK
<1>1. ASSUME NEW m \in Msg, Deliver(w, m)
      PROVE  wpc'[v] = wpc[v] /\ wmsg'[v] = wmsg[v] /\ wread'[v] = wread[v]
    BY <1>1 DEF Deliver
<1>2. CASE \/ Claim(w) \/ RunFails(w) \/ Publish(w) \/ ReadUsage(w) \/ WriteUsage(w)
           \/ UsageFails(w) \/ MarkFailed(w)
    BY <1>2 DEF Claim, RunFails, Publish, ReadUsage, WriteUsage, UsageFails, MarkFailed, Step
<1>3. CASE MarkFails(w) \/ Retry(w) \/ Ack(w) \/ Crash(w) \/ ChildKilled(w) \/ Redeliver(w)
    BY <1>3 DEF MarkFails, Retry, Ack, Crash, ChildKilled, Redeliver, Step, wvars
<1>4. QED
    BY <1>1, <1>2, <1>3 DEF WorkerStep

LEMMA TakenIsEndedStep == IInv /\ TakenIsEnded /\ [Next]_vars => TakenIsEnded'
<1> SUFFICES ASSUME IInv, TakenIsEnded, [Next]_vars,
                    NEW v \in Workers, wpc'[v] \notin {"idle", "done"}
             PROVE  rpc'[wmsg'[v].task[1]] = "ended"
    BY DEF TakenIsEnded, Held
<1> DEFINE Goal == rpc'[wmsg'[v].task[1]] = "ended"
<1>0. ASSUME wpc[v] \notin {"idle", "done"}, wmsg'[v] = wmsg[v] PROVE Goal
  <2>1. Held(v)[1] \in Requests
    BY <1>0, HeldMessage
  <2>2. rpc[Held(v)[1]] = "ended"
    BY <1>0 DEF TakenIsEnded
  <2>3. rpc'[Held(v)[1]] = "ended"
    BY <2>1, <2>2, EndedStays
  <2>4. QED
    BY <1>0, <2>3 DEF Held
<1> USE DEF IInv, TypeOK
<1>1. CASE wpc' = wpc /\ wmsg' = wmsg
    BY <1>0, <1>1
<1>2. ASSUME NEW w \in Workers, w # v,
             WorkerStep(w) \/ Crash(w) \/ ChildKilled(w) \/ Redeliver(w)
      PROVE  Goal
    BY <1>0, <1>2, OthersWork
<1>3. ASSUME NEW m \in Msg, Deliver(v, m) PROVE Goal
  <2>1. Exists(m.task) /\ wmsg'[v] = m
    BY <1>3 DEF Deliver
  <2>2. m.task \in TaskId /\ m.task[1] \in Requests
    BY DEF Msg, TaskId
  <2>3. rpc[m.task[1]] = "ended"
    BY <2>1, <2>2 DEF RowOfEnded
  <2>4. QED
    BY <2>1, <2>2, <2>3, EndedStays
<1>4. CASE Claim(v) \/ RunFails(v) \/ Publish(v) \/ ReadUsage(v) \/ MarkFailed(v) \/ MarkFails(v)
  <2>1. wpc[v] \notin {"idle", "done"} /\ wmsg' = wmsg
    BY <1>4 DEF Claim, RunFails, Publish, ReadUsage, MarkFailed, MarkFails, Step
  <2>2. QED
    BY <1>0, <2>1
<1>5. CASE WriteUsage(v) \/ UsageFails(v) \/ Retry(v) \/ Ack(v) \/ Crash(v) \/ ChildKilled(v)
    BY <1>5 DEF WriteUsage, UsageFails, Retry, Ack, Crash, ChildKilled, Step
<1>6. ASSUME NEW r \in Requests,
             TriggerBegin(r) \/ DeleteBegin(r) \/ Refuse(r) \/ RequestStep(r)
      PROVE  wpc' = wpc /\ wmsg' = wmsg
    BY <1>6 DEF TriggerBegin, DeleteBegin, Refuse, RequestStep, PurgeFindings,
                PurgeTasks, CreateTask, CommitTrigger, CommitDelete, Abort, wvars
<1>7. CASE Redeliver(v) \/ Quiet \/ UNCHANGED vars
    BY <1>7, <1>1 DEF Redeliver, Quiet, vars, wvars
<1>8. ASSUME NEW w \in Workers,
             WorkerStep(w) \/ Crash(w) \/ ChildKilled(w) \/ Redeliver(w)
      PROVE  Goal
  <2>1. CASE w = v
    BY <1>3, <1>4, <1>5, <1>7, <1>8, <2>1 DEF WorkerStep
  <2>2. QED
    BY <1>2, <1>8, <2>1
<1>9. QED
    BY <1>1, <1>6, <1>7, <1>8 DEF Next

LEMMA SentType == ASSUME NEW t \in TaskId PROVE t[1] \in Requests
BY DEF TaskId

\* Steps of requests neither take messages nor change what workers do.
LEMMA RequestsTrack ==
    ASSUME IInv, NEW t \in TaskId, Tracked(t),
           wpc' = wpc, wmsg' = wmsg, missed' = missed, unmarked' = unmarked, lost' = lost,
           \A m \in Msg : queue[m] > 0 => queue'[m] > 0
    PROVE  Tracked(t)'
<1>1. \A n \in 0..MaxRetries : [task |-> t, retries |-> n] \in Msg
    BY DEF Msg
<1>3. CASE t \in missed \cup unmarked \cup lost
    BY <1>3 DEF Tracked
<1>4. ASSUME NEW n \in 0..MaxRetries, queue[[task |-> t, retries |-> n]] > 0
      PROVE  Tracked(t)'
  <2>1. queue'[[task |-> t, retries |-> n]] > 0
    BY <1>1, <1>4
  <2>2. QED
    BY <2>1 DEF Tracked, Pending
<1>5. ASSUME NEW w \in Workers, wpc[w] \in Undecided, Held(w) = t
      PROVE  Tracked(t)'
    BY <1>5 DEF Tracked, Pending, Held
<1>6. QED
    BY <1>3, <1>4, <1>5 DEF Tracked, Pending

\* A worker's step may end what that worker does for the task, and takes one
\* message at most; all else that tracks the task goes on tracking it.
LEMMA WorkersTrack ==
    ASSUME IInv, NEW t \in TaskId, Tracked(t), NEW w \in Workers,
           Held(w) # t \/ wpc[w] \notin Undecided,
           \A v \in Workers \ {w} : wpc'[v] = wpc[v] /\ wmsg'[v] = wmsg[v],
           missed \subseteq missed', unmarked \subseteq unmarked', lost \subseteq lost',
           \A m \in Msg : queue[m] > 0 => queue'[m] > 0
    PROVE  Tracked(t)'
<1>1. \A n \in 0..MaxRetries : [task |-> t, retries |-> n] \in Msg
    BY DEF Msg
<1>3. CASE t \in missed \cup unmarked \cup lost
    BY <1>3 DEF Tracked
<1>4. ASSUME NEW n \in 0..MaxRetries, queue[[task |-> t, retries |-> n]] > 0
      PROVE  Tracked(t)'
  <2>1. queue'[[task |-> t, retries |-> n]] > 0
    BY <1>1, <1>4
  <2>2. QED
    BY <2>1 DEF Tracked, Pending
<1>5. ASSUME NEW v \in Workers, wpc[v] \in Undecided, Held(v) = t
      PROVE  Tracked(t)'
  <2>1. v # w
    BY <1>5
  <2>2. wpc'[v] \in Undecided /\ Held(v)' = t
    BY <1>5, <2>1 DEF Held
  <2>3. QED
    BY <2>2 DEF Tracked, Pending
<1>6. QED
    BY <1>3, <1>4, <1>5 DEF Tracked, Pending

\* Sending only adds to what is waiting.
LEMMA SendAdds ==
    ASSUME queue \in [Msg -> Nat], NEW m \in Msg, Send(m)
    PROVE  /\ \A x \in Msg : queue[x] > 0 => queue'[x] > 0
           /\ queue'[m] > 0
BY DEF Send

LEMMA RequestsLoseNone ==
    ASSUME IInv, RequestShape, NoneLost, NEW r \in Requests,
           TriggerBegin(r) \/ DeleteBegin(r) \/ Refuse(r) \/ RequestStep(r),
           NEW t \in TaskId, Open(t)'
    PROVE  Tracked(t)'
<1> USE DEF IInv, TypeOK
<1>1. t[1] \in Requests /\ \A m \in Msg : queue[m] \in Nat
    BY SentType
<1>2. wpc' = wpc /\ wmsg' = wmsg /\ missed' = missed /\ unmarked' = unmarked /\ lost' = lost
    BY DEF TriggerBegin, DeleteBegin, Refuse, RequestStep, PurgeFindings, PurgeTasks,
           CreateTask, CommitTrigger, CommitDelete, Abort, wvars, history
<1>3. ASSUME queue' = queue, Open(t) PROVE Tracked(t)'
    BY <1>1, <1>2, <1>3, RequestsTrack DEF NoneLost
<1>4. CASE TriggerBegin(r) \/ DeleteBegin(r) \/ Refuse(r) \/ PurgeFindings(r) \/ Abort(r)
  <2>1. queue' = queue /\ row' = row /\ rmade' = rmade
    BY <1>4 DEF TriggerBegin, DeleteBegin, Refuse, PurgeFindings, Abort, tables
  <2>2. rpc'[t[1]] = "creating" => rpc[t[1]] = "creating" /\ rkind'[t[1]] = rkind[t[1]]
    BY <1>1, <1>4 DEF TriggerBegin, DeleteBegin, Refuse, PurgeFindings, Abort, Goto
  <2>3. QED
    BY <1>3, <2>1, <2>2 DEF Open, Sent, Created
<1>5. CASE PurgeTasks(r)
  <2>1. queue' = queue /\ row' = row /\ rmade' = rmade /\ rkind' = rkind
    BY <1>5 DEF PurgeTasks
  <2>2. rmade[r] = 0
    <3>1. rpc[r] = "purged" /\ rmade[r] \in 0..MaxTypes /\ ~ (rmade[r] > 0)
        BY <1>5 DEF PurgeTasks, RequestShape
    <3>2. QED
        BY <3>1, BoundsAssumption
  <2>3. t[1] = r => ~ Sent(t)'
    BY <2>1, <2>2 DEF Sent, Created
  <2>4. t[1] # r => rpc'[t[1]] = rpc[t[1]]
    BY <1>1, <1>5 DEF PurgeTasks, Goto
  <2>5. QED
    BY <1>3, <2>1, <2>3, <2>4 DEF Open, Sent, Created
<1>6. CASE CreateTask(r)
  <2> DEFINE new == <<r, rmade[r] + 1>>
             m == [task |-> new, retries |-> 0]
  <2>1. rpc' = rpc /\ row' = row /\ rkind' = rkind /\ rmade' = [rmade EXCEPT ![r] = rmade[r] + 1]
    BY <1>6 DEF CreateTask, tables
  <2>2. rkind[r] # "inline" => Send(m)
    BY <1>6 DEF CreateTask, Dispatch
  <2>3. rkind[r] = "inline" => queue' = queue
    BY <1>6 DEF CreateTask, Dispatch
  <2>4. rpc[r] = "creating" /\ rmade[r] \in 0..MaxTypes /\ rmade[r] + 1 \in 1..MaxTypes
    <3>1. rpc[r] = "creating" /\ rmade[r] + 1 \in 1..Len(rtypes[r])
        BY <1>6 DEF CreateTask
    <3>2. Len(rtypes[r]) \in 1..MaxTypes /\ rmade[r] \in 0..MaxTypes
        BY <3>1 DEF RequestShape
    <3>3. QED
        BY <3>1, <3>2, BoundsAssumption
  <2>5. new \in TaskId /\ m \in Msg
    BY <2>4, BoundsAssumption DEF TaskId, Msg
  <2>6. CASE t = new
    <3>1. row[t] = "none"
        <4>1. t[1] = r
            BY <2>6
        <4>2. QED
            BY <2>4, <4>1 DEF RowOfEnded, Exists
    <3>2. rkind[r] # "inline"
        BY <2>1, <2>6, <3>1 DEF Open, Sent
    <3>3. queue'[m] > 0
        BY <2>2, <2>5, <3>2, SendAdds
    <3>4. 0 \in 0..MaxRetries
        BY BoundsAssumption
    <3>5. QED
        BY <2>6, <3>3, <3>4 DEF Tracked, Pending
  <2>7. CASE t # new
    <3>1. \A x \in Msg : queue[x] > 0 => queue'[x] > 0
        BY <1>1, <2>2, <2>3, <2>5, SendAdds
    <3>2. Created(t[1])' \subseteq Created(t[1]) \cup {new}
        BY <1>1, <2>1, <2>4 DEF Created
    <3>3. Open(t)
        BY <2>1, <2>7, <3>2 DEF Open, Sent
    <3>4. QED
        BY <1>2, <3>1, <3>3, RequestsTrack DEF NoneLost
  <2>8. QED
    BY <2>6, <2>7
<1>7. CASE CommitTrigger(r)
  <2>1. queue' = queue /\ rmade' = rmade /\ rkind' = rkind /\ rpc[r] = "creating"
        /\ rpc' = [rpc EXCEPT ![r] = "ended"]
    BY <1>7 DEF CommitTrigger, Goto
  <2>2. row'[t] = "queued" => row[t] = "queued" \/ t \in Created(r) \ Ran(r)
    BY <1>7 DEF CommitTrigger
  <2>3. t \in Created(r) \ Ran(r) => t[1] = r /\ Sent(t)
    BY DEF Created, Ran, Sent
  <2>4. QED
    BY <1>1, <1>3, <2>1, <2>2, <2>3 DEF Open, Sent, Created
<1>8. CASE CommitDelete(r)
  <2>1. queue' = queue /\ rmade' = rmade /\ rkind' = rkind /\ row'[t] = "none"
        /\ rpc' = [rpc EXCEPT ![r] = "ended"]
    BY <1>8 DEF CommitDelete, Goto
  <2>2. QED
    BY <1>1, <1>3, <2>1 DEF Open, Sent, Created
<1>9. QED
    BY <1>4, <1>5, <1>6, <1>7, <1>8 DEF RequestStep

LEMMA WorkersLoseNone ==
    ASSUME IInv, TakenIsEnded, NoneLost, NEW w \in Workers,
           WorkerStep(w) \/ Crash(w) \/ ChildKilled(w) \/ Redeliver(w),
           NEW t \in TaskId, Open(t)'
    PROVE  Tracked(t)'
<1> USE DEF IInv, TypeOK
<1>1. /\ t[1] \in Requests
      /\ \A m \in Msg : queue[m] \in Nat
      /\ \A n \in 0..MaxRetries : [task |-> t, retries |-> n] \in Msg
    BY SentType DEF Msg
<1>2. \A v \in Workers \ {w} : wpc'[v] = wpc[v] /\ wmsg'[v] = wmsg[v]
    BY OthersWork
<1>3. rpc' = rpc /\ rmade' = rmade /\ rkind' = rkind
  <2>1. ASSUME NEW m \in Msg, Deliver(w, m) PROVE UNCHANGED rvars
    BY <2>1 DEF Deliver
  <2>2. UNCHANGED rvars
    BY <2>1 DEF WorkerStep, Claim, RunFails, Publish, ReadUsage, WriteUsage, UsageFails,
                MarkFailed, MarkFails, Retry, Ack, Crash, ChildKilled, Redeliver
  <2>3. QED
    BY <2>2 DEF rvars
<1>4. ASSUME row'[t] = row[t] \/ row'[t] # "queued" PROVE Open(t)
    BY <1>3, <1>4 DEF Open, Sent, Created
<1>5. ASSUME NEW m \in Msg, Deliver(w, m) PROVE Tracked(t)'
  <2>1. /\ wpc[w] = "idle" /\ row' = row /\ unmarked' = unmarked /\ lost' = lost
        /\ queue' = [queue EXCEPT ![m] = queue[m] - 1]
        /\ wmsg' = [wmsg EXCEPT ![w] = m]
        /\ wpc' = [wpc EXCEPT ![w] = IF Exists(m.task) THEN "loaded" ELSE "done"]
        /\ missed' = IF Exists(m.task) THEN missed ELSE missed \cup {m.task}
    BY <1>5 DEF Deliver, tables
  <2>2. Tracked(t)
    BY <1>4, <2>1 DEF NoneLost
  <2>3. CASE m.task = t
    <3>1. CASE Exists(t)
        BY <2>1, <2>3, <3>1 DEF Tracked, Pending, Held, Undecided
    <3>2. CASE ~ Exists(t)
        BY <2>1, <2>3, <3>2 DEF Tracked
    <3>3. QED
        BY <3>1, <3>2
  <2>4. CASE m.task # t
    <3>1. \A n \in 0..MaxRetries :
            queue'[[task |-> t, retries |-> n]] = queue[[task |-> t, retries |-> n]]
        BY <1>1, <2>1, <2>4
    <3>2. CASE t \in missed \cup unmarked \cup lost
        BY <2>1, <3>2 DEF Tracked
    <3>3. ASSUME NEW n \in 0..MaxRetries, queue[[task |-> t, retries |-> n]] > 0
          PROVE  Tracked(t)'
        BY <3>1, <3>3 DEF Tracked, Pending
    <3>4. ASSUME NEW v \in Workers, wpc[v] \in Undecided, Held(v) = t
          PROVE  Tracked(t)'
        <4>1. v # w
            BY <2>1, <3>4 DEF Undecided
        <4>2. wpc'[v] \in Undecided /\ Held(v)' = t
            BY <1>2, <3>4, <4>1 DEF Held
        <4>3. QED
            BY <4>2 DEF Tracked, Pending
    <3>5. QED
        BY <2>2, <3>2, <3>3, <3>4 DEF Tracked, Pending
  <2>5. QED
    BY <2>3, <2>4
<1>6. CASE Claim(w) \/ RunFails(w)
  <2>1. row' = row /\ queue' = queue /\ wmsg' = wmsg
        /\ missed' = missed /\ unmarked' = unmarked /\ lost' = lost
        /\ wpc'[w] \in {"claimed", "failing"} /\ wpc[w] \in {"loaded", "claimed"}
    BY <1>6 DEF Claim, RunFails, Step, history
  <2>2. Tracked(t)
    BY <1>4, <2>1 DEF NoneLost
  <2>3. CASE Held(w) = t
    BY <2>1, <2>3 DEF Tracked, Pending, Held, Undecided
  <2>4. CASE Held(w) # t
    BY <1>1, <1>2, <2>1, <2>2, <2>4, WorkersTrack
  <2>5. QED
    BY <2>3, <2>4
<1>7. CASE Publish(w) \/ MarkFailed(w)
  <2>1. /\ queue' = queue /\ missed' = missed /\ unmarked' = unmarked /\ lost' = lost
        /\ wpc[w] \notin {"idle", "done"}
        /\ row' = [row EXCEPT ![Held(w)] = row'[Held(w)]] /\ row'[Held(w)] # "queued"
    <3>1. Held(w) \in TaskId
        BY <1>7, HeldMessage DEF Publish, MarkFailed, Step
    <3>2. QED
        BY <1>7, <3>1 DEF Publish, MarkFailed, Step, history, Exists
  <2>2. Held(w) # t
    <3>1. rpc[Held(w)[1]] = "ended"
        BY <2>1 DEF TakenIsEnded
    <3>2. QED
        BY <1>3, <2>1, <3>1 DEF Open
  <2>3. Tracked(t)
    BY <1>4, <2>1, <2>2 DEF NoneLost
  <2>4. QED
    BY <1>1, <1>2, <2>1, <2>2, <2>3, WorkersTrack
<1>8. CASE MarkFails(w)
  <2>1. row' = row /\ queue' = queue /\ missed' = missed /\ lost' = lost
        /\ unmarked' = unmarked \cup {Held(w)}
    BY <1>8 DEF MarkFails, tables
  <2>2. Tracked(t)
    BY <1>4, <2>1 DEF NoneLost
  <2>3. CASE Held(w) = t
    BY <2>1, <2>3 DEF Tracked
  <2>4. CASE Held(w) # t
    BY <1>1, <1>2, <2>1, <2>2, <2>4, WorkersTrack
  <2>5. QED
    BY <2>3, <2>4
<1>9. CASE ReadUsage(w) \/ WriteUsage(w) \/ UsageFails(w) \/ Ack(w)
  <2>1. row' = row /\ queue' = queue /\ missed' = missed /\ unmarked' = unmarked /\ lost' = lost
        /\ wpc[w] \notin Undecided
    BY <1>9 DEF ReadUsage, WriteUsage, UsageFails, Ack, Step, tables, history, Undecided
  <2>2. QED
    BY <1>1, <1>2, <1>4, <2>1, WorkersTrack DEF NoneLost
<1>10. CASE Retry(w)
  <2>1. row' = row /\ missed' = missed /\ unmarked' = unmarked /\ lost' = lost /\ wpc[w] = "marked"
    BY <1>10 DEF Retry, Step, tables, history
  <2>2. \A x \in Msg : queue[x] > 0 => queue'[x] > 0
    <3>1. CASE wmsg[w].retries < MaxRetries
        <4>1. [task |-> Held(w), retries |-> wmsg[w].retries + 1] \in Msg
            <5>1. Held(w) \in TaskId /\ wmsg[w].retries \in 0..MaxRetries
                BY <2>1, HeldMessage
            <5>2. wmsg[w].retries + 1 \in 0..MaxRetries
                BY <3>1, <5>1, BoundsAssumption
            <5>3. QED
                BY <5>1, <5>2 DEF Msg
        <4>2. QED
            BY <1>10, <3>1, <4>1, SendAdds DEF Retry
    <3>2. CASE ~ (wmsg[w].retries < MaxRetries)
        BY <1>1, <1>10, <3>2 DEF Retry
    <3>3. QED
        BY <3>1, <3>2
  <2>3. QED
    BY <1>2, <1>4, <2>1, <2>2, WorkersTrack DEF NoneLost, Undecided
<1>11. CASE Crash(w) \/ Redeliver(w)
  <2>1. row' = row /\ missed' = missed /\ unmarked' = unmarked /\ lost' = lost
        /\ wpc[w] # "idle" /\ Send(wmsg[w])
    BY <1>11 DEF Crash, Redeliver, CanRedeliver, tables
  <2>2. wmsg[w] \in Msg /\ wmsg[w].retries \in 0..MaxRetries
        /\ wmsg[w] = [task |-> Held(w), retries |-> wmsg[w].retries]
    BY <2>1, HeldMessage
  <2>3. (\A x \in Msg : queue[x] > 0 => queue'[x] > 0) /\ queue'[wmsg[w]] > 0
    BY <2>1, <2>2, SendAdds
  <2>4. CASE Held(w) = t
    BY <2>2, <2>3, <2>4 DEF Tracked, Pending
  <2>5. CASE Held(w) # t
    BY <1>2, <1>4, <2>1, <2>3, <2>5, WorkersTrack DEF NoneLost
  <2>6. QED
    BY <2>4, <2>5
<1>12. CASE ChildKilled(w)
  <2>1. row' = row /\ queue' = queue /\ missed' = missed /\ unmarked' = unmarked
        /\ lost' = IF wpc[w] \in Undecided THEN lost \cup {Held(w)} ELSE lost
    BY <1>12 DEF ChildKilled
  <2>2. Tracked(t)
    BY <1>4, <2>1 DEF NoneLost
  <2>3. CASE Held(w) = t /\ wpc[w] \in Undecided
    BY <2>1, <2>3 DEF Tracked
  <2>4. CASE ~ (Held(w) = t /\ wpc[w] \in Undecided)
    BY <1>1, <1>2, <2>1, <2>2, <2>4, WorkersTrack
  <2>5. QED
    BY <2>3, <2>4
<1>13. QED
    BY <1>5, <1>6, <1>7, <1>8, <1>9, <1>10, <1>11, <1>12 DEF WorkerStep

LEMMA NoneLostStep ==
    IInv /\ RequestShape /\ TakenIsEnded /\ NoneLost /\ [Next]_vars => NoneLost'
<1> SUFFICES ASSUME IInv, RequestShape, TakenIsEnded, NoneLost, [Next]_vars,
                    NEW t \in TaskId, Open(t)'
             PROVE  Tracked(t)'
    BY DEF NoneLost
<1>1. CASE Quiet \/ UNCHANGED vars
    BY <1>1 DEF Quiet, vars, tables, rvars, wvars, history, NoneLost, Open, Sent,
                Created, Tracked, Pending, Held
<1>2. QED
    BY <1>1, RequestsLoseNone, WorkersLoseNone DEF Next

LEMMA NoneLostAlways == Spec => [](TakenIsEnded /\ NoneLost)
<1>1. IInv /\ RequestShape /\ TakenIsEnded /\ NoneLost /\ [Next]_vars
        => TakenIsEnded' /\ NoneLost'
    BY TakenIsEndedStep, NoneLostStep
<1>2. QED
    BY InitNoneLost, <1>1, Invariant, RequestShapeAlways, PTL DEF Spec

\* agent_tasks.py: a committed task waits for a worker or has one, unless a
\* worker looked it up too early, its failure could not be recorded or the pool
\* process that ran it was killed, for any number of retries, redeliveries and
\* deaths of whole workers or of their processes.
THEOREM NobodyForgottenAlways == Spec => []NobodyForgotten
<1>1. NoneLost => NobodyForgotten
    BY DEF NoneLost, NobodyForgotten, Open, Tracked
<1>2. QED
    BY <1>1, NoneLostAlways, PTL

-----------------------------------------------------------------------------
(* Counting the attempts of a task.                                        *)

\* What can still make a run of a task: with f[n] messages for its n-th retry
\* and the workers in S, one token each.
Tokens(f, S) ==
    {x \in (0..MaxRetries) \X Nat : 1 <= x[2] /\ x[2] <= f[x[1]]} \cup (S \X {0})

Counts == [0..MaxRetries -> Nat]

LEMMA SetGrowsByOne ==
    ASSUME NEW S, IsFiniteSet(S), NEW x, NEW T, T \subseteq S \cup {x}
    PROVE  /\ IsFiniteSet(T) /\ Cardinality(T) \in Nat /\ Cardinality(S) \in Nat
           /\ Cardinality(T) <= Cardinality(S) + 1
<1>1. IsFiniteSet(S \cup {x}) /\ Cardinality(S) \in Nat /\ Cardinality(S \cup {x}) \in Nat
      /\ Cardinality(S \cup {x}) <= Cardinality(S) + 1
  <2>1. IsFiniteSet(S \cup {x})
    BY FS_AddElement
  <2>2. Cardinality(S) \in Nat /\ Cardinality(S \cup {x}) \in Nat
    BY <2>1, FS_CardinalityType
  <2>3. Cardinality(S \cup {x}) = Cardinality(S) \/ Cardinality(S \cup {x}) = Cardinality(S) + 1
    BY FS_AddElement
  <2>4. QED
    BY ONLY <2>1, <2>2, <2>3
<1>2. IsFiniteSet(T) /\ Cardinality(T) <= Cardinality(S \cup {x})
    BY <1>1, FS_Subset
<1>3. QED
    BY <1>1, <1>2, FS_CardinalityType

LEMMA AtMostOne ==
    ASSUME NEW x, NEW T, T \subseteq {x}
    PROVE  IsFiniteSet(T) /\ Cardinality(T) \in Nat /\ Cardinality(T) <= 1
<1>1. IsFiniteSet({x}) /\ Cardinality({x}) = 1
    BY FS_Singleton
<1>2. QED
    BY <1>1, FS_Subset, FS_CardinalityType

LEMMA SetShrinksByOne ==
    ASSUME NEW S, IsFiniteSet(S), NEW y \in S, NEW T, T \subseteq S \ {y}
    PROVE  /\ IsFiniteSet(T) /\ Cardinality(T) \in Nat /\ Cardinality(S) \in Nat
           /\ Cardinality(T) + 1 <= Cardinality(S)
<1>1. IsFiniteSet(S \ {y}) /\ Cardinality(S) \in Nat /\ Cardinality(S \ {y}) \in Nat
      /\ Cardinality(S \ {y}) = Cardinality(S) - 1
    BY FS_RemoveElement, FS_CardinalityType
<1>2. IsFiniteSet(T) /\ Cardinality(T) <= Cardinality(S \ {y})
    BY <1>1, FS_Subset
<1>3. QED
    BY <1>1, <1>2, FS_CardinalityType

LEMMA SetTradesOne ==
    ASSUME NEW S, IsFiniteSet(S), NEW y \in S, NEW x, NEW T, T \subseteq (S \ {y}) \cup {x}
    PROVE  /\ IsFiniteSet(T) /\ Cardinality(T) \in Nat /\ Cardinality(S) \in Nat
           /\ Cardinality(T) <= Cardinality(S)
<1>1. IsFiniteSet(S \ {y}) /\ Cardinality(S \ {y}) \in Nat /\ Cardinality(S) \in Nat
      /\ Cardinality(S \ {y}) + 1 <= Cardinality(S)
    BY SetShrinksByOne
<1>2. IsFiniteSet(T) /\ Cardinality(T) \in Nat
      /\ Cardinality(T) <= Cardinality(S \ {y}) + 1
    BY <1>1, SetGrowsByOne
<1>3. QED
    BY <1>1, <1>2

\* Fewer messages and fewer workers, fewer tokens.
LEMMA FewerTokens ==
    ASSUME NEW f \in Counts, NEW g \in Counts, NEW S, NEW T, T \subseteq S,
           \A n \in 0..MaxRetries : g[n] <= f[n]
    PROVE  Tokens(g, T) \subseteq Tokens(f, S)
<1> SUFFICES ASSUME NEW n \in 0..MaxRetries, NEW i \in Nat, 1 <= i, i <= g[n]
             PROVE  i <= f[n]
    BY DEF Tokens
<1> QED
    BY DEF Counts

\* One message more, one token more.
LEMMA OneTokenMore ==
    ASSUME NEW f \in Counts, NEW g \in Counts, NEW S, NEW T, T \subseteq S,
           NEW k \in 0..MaxRetries, g[k] <= f[k] + 1,
           \A n \in (0..MaxRetries) \ {k} : g[n] <= f[n]
    PROVE  Tokens(g, T) \subseteq Tokens(f, S) \cup {<<k, f[k] + 1>>}
<1> SUFFICES ASSUME NEW n \in 0..MaxRetries, NEW i \in Nat, 1 <= i, i <= g[n],
                    <<n, i>> # <<k, f[k] + 1>>
             PROVE  i <= f[n]
    BY DEF Tokens
<1>1. f[n] \in Nat /\ g[n] \in Nat /\ f[k] \in Nat
    BY DEF Counts
<1>2. CASE n = k
    BY <1>1, <1>2
<1>3. CASE n # k
    BY <1>1, <1>3
<1>4. QED
    BY <1>2, <1>3

\* A message becomes a worker's.
LEMMA TokenTaken ==
    ASSUME NEW f \in Counts, NEW g \in Counts, NEW S, NEW w, NEW T, T \subseteq S \cup {w},
           NEW k \in 0..MaxRetries, f[k] > 0, g[k] <= f[k] - 1,
           \A n \in (0..MaxRetries) \ {k} : g[n] <= f[n]
    PROVE  /\ <<k, f[k]>> \in Tokens(f, S)
           /\ Tokens(g, T) \subseteq (Tokens(f, S) \ {<<k, f[k]>>}) \cup {<<w, 0>>}
<1>1. f[k] \in Nat /\ <<k, f[k]>> \in Tokens(f, S)
    BY DEF Counts, Tokens
<1>2. ASSUME NEW n \in 0..MaxRetries, NEW i \in Nat, 1 <= i, i <= g[n]
      PROVE  i <= f[n] /\ <<n, i>> # <<k, f[k]>>
  <2>1. f[n] \in Nat /\ g[n] \in Nat /\ f[k] \in Nat
    BY DEF Counts
  <2>2. CASE n = k
    BY <1>2, <2>1, <2>2
  <2>3. CASE n # k
    BY <1>2, <2>1, <2>3
  <2>4. QED
    BY <2>2, <2>3
<1>3. \A v : <<v, 0>> # <<k, f[k]>>
    BY <1>1
<1>4. QED
    BY <1>1, <1>2, <1>3 DEF Tokens

\* A worker gives up the task.
LEMMA WorkerToken ==
    ASSUME NEW f \in Counts, NEW S, NEW w \in S
    PROVE  /\ <<w, 0>> \in Tokens(f, S)
           /\ Tokens(f, S \ {w}) \subseteq Tokens(f, S) \ {<<w, 0>>}
BY DEF Tokens

-----------------------------------------------------------------------------
(* Retries and redeliveries bound the findings of a task.                  *)

Trying == {"loaded", "claimed", "failing", "marked"}

Waits(t)    == [n \in 0..MaxRetries |-> queue[[task |-> t, retries |-> n]]]
TryingOn(t) == {w \in Workers : wpc[w] \in Trying /\ Held(w) = t}

\* What can still add findings to the task without a redelivery.
Attempts(t) == Tokens(Waits(t), TryingOn(t))

\* Only what a request has sent is in the broker or with a worker.
QueuedIsSent == \A m \in Msg : queue[m] > 0 => Sent(m.task)
HeldIsSent   == \A w \in Workers : wpc[w] # "idle" => Sent(Held(w))

\* Attempts and stored runs together are one per delivery at most.
Within(attempts, t) ==
    /\ IsFiniteSet(attempts)
    /\ Cardinality(attempts) + flags[t] <= 1 + redelivered[t]
    /\ result[t] => Cardinality(attempts) <= redelivered[t]
Budget == \A t \in TaskId : Within(Attempts(t), t)

SentIInv == IInv /\ RequestShape /\ QueuedIsSent /\ HeldIsSent

LEMMA MsgOf ==
    ASSUME NEW t \in TaskId, NEW n \in 0..MaxRetries
    PROVE  /\ [task |-> t, retries |-> n] \in Msg
           /\ [task |-> t, retries |-> n].task = t
           /\ [task |-> t, retries |-> n].retries = n
BY DEF Msg

LEMMA WaitsType ==
    ASSUME queue \in [Msg -> Nat], NEW t \in TaskId
    PROVE  Waits(t) \in Counts
BY MsgOf DEF Waits, Counts

LEMMA InitBudget == Init => QueuedIsSent /\ HeldIsSent /\ Budget
<1> SUFFICES ASSUME Init PROVE QueuedIsSent /\ HeldIsSent /\ Budget
    OBVIOUS
<1>1. QueuedIsSent /\ HeldIsSent
    BY DEF Init, QueuedIsSent, HeldIsSent
<1>2. ASSUME NEW t \in TaskId PROVE Within(Attempts(t), t)
  <2>1. \A n \in 0..MaxRetries : Waits(t)[n] = 0
    BY MsgOf DEF Init, Waits
  <2>2. TryingOn(t) = {}
    BY DEF Init, TryingOn, Trying
  <2>3. Attempts(t) = {}
    BY <2>1, <2>2 DEF Attempts, Tokens
  <2>4. flags[t] = 0 /\ redelivered[t] = 0 /\ result[t] = FALSE
    BY DEF Init
  <2>5. QED
    BY <2>3, <2>4, FS_EmptySet DEF Within
<1>3. QED
    BY <1>1, <1>2 DEF Budget

\* A worker's step leaves the requests' own state alone.
LEMMA WorkersLeaveRequests ==
    ASSUME NEW w \in Workers, WorkerStep(w) \/ Crash(w) \/ ChildKilled(w) \/ Redeliver(w)
    PROVE  UNCHANGED rvars
<1>1. ASSUME NEW m \in Msg, Deliver(w, m) PROVE UNCHANGED rvars
    BY <1>1 DEF Deliver
<1>2. QED
    BY <1>1 DEF WorkerStep, Claim, RunFails, Publish, ReadUsage, WriteUsage, UsageFails,
                MarkFailed, MarkFails, Retry, Ack, Crash, ChildKilled, Redeliver

\* A request's step leaves the workers and the history alone.
LEMMA RequestsLeaveWorkers ==
    ASSUME NEW r \in Requests,
           TriggerBegin(r) \/ DeleteBegin(r) \/ Refuse(r) \/ RequestStep(r)
    PROVE  UNCHANGED <<wvars, history>>
BY DEF TriggerBegin, DeleteBegin, Refuse, RequestStep, PurgeFindings, PurgeTasks,
       CreateTask, CommitTrigger, CommitDelete, Abort

\* What has been sent stays sent: a request counts what it makes upwards and
\* keeps its mode once it has begun.
LEMMA SentStays ==
    ASSUME IInv, RequestShape, [Next]_vars, NEW t \in TaskId, Sent(t)
    PROVE  Sent(t)'
<1> USE DEF IInv, TypeOK
<1>1. t[1] \in Requests /\ rmade[t[1]] \in Nat
    BY SentType
<1>2. ASSUME rmade' = rmade, rkind' = rkind PROVE Sent(t)'
    BY <1>2 DEF Sent, Created
<1>3. ASSUME NEW r \in Requests, DeleteBegin(r) PROVE Sent(t)'
  <2>1. rmade' = rmade /\ rkind' = [rkind EXCEPT ![r] = "delete"]
    BY <1>3 DEF DeleteBegin
  <2>2. QED
    BY <1>1, <2>1 DEF Sent, Created
<1>4. ASSUME NEW r \in Requests, CreateTask(r) PROVE Sent(t)'
  <2>1. rkind' = rkind /\ rmade' = [rmade EXCEPT ![r] = rmade[r] + 1]
    BY <1>4 DEF CreateTask
  <2>2. rmade'[t[1]] \in Nat /\ rmade[t[1]] <= rmade'[t[1]]
    BY <1>1, <2>1
  <2>3. Created(t[1]) \subseteq Created(t[1])'
    BY <1>1, <2>2 DEF Created
  <2>4. QED
    BY <2>1, <2>3 DEF Sent
<1>5. ASSUME NEW r \in Requests,
             \/ TriggerBegin(r) \/ Refuse(r) \/ PurgeFindings(r) \/ PurgeTasks(r)
             \/ CommitTrigger(r) \/ CommitDelete(r) \/ Abort(r)
      PROVE  rmade' = rmade /\ rkind' = rkind
    BY <1>5 DEF TriggerBegin, Refuse, PurgeFindings, PurgeTasks, CommitTrigger,
                CommitDelete, Abort
<1>6. ASSUME NEW w \in Workers, WorkerStep(w) \/ Crash(w) \/ ChildKilled(w) \/ Redeliver(w)
      PROVE  rmade' = rmade /\ rkind' = rkind
    BY <1>6, WorkersLeaveRequests DEF rvars
<1>7. CASE Quiet \/ UNCHANGED vars
    BY <1>2, <1>7 DEF Quiet, vars, rvars
<1>8. QED
    BY <1>2, <1>3, <1>4, <1>5, <1>6, <1>7 DEF Next, RequestStep


\* A request sends a message for the task it makes.
LEMMA MadeIsSent ==
    ASSUME IInv, RequestShape, NEW r \in Requests, CreateTask(r)
    PROVE  \E new \in TaskId : /\ new = <<r, rmade[r] + 1>>
                               /\ rkind[r] # "inline" => Sent(new)'
                               /\ ~ Sent(new) /\ ~ Exists(new)
<1> USE DEF IInv, TypeOK
<1>1. rpc[r] = "creating" /\ rmade[r] + 1 \in 1..Len(rtypes[r]) /\ rkind' = rkind
      /\ rmade' = [rmade EXCEPT ![r] = rmade[r] + 1]
    BY DEF CreateTask
<1>2. Len(rtypes[r]) \in 1..MaxTypes /\ rmade[r] \in 0..MaxTypes
    BY <1>1 DEF RequestShape
<1>3. rmade[r] \in Nat /\ rmade[r] + 1 \in 1..MaxTypes
    BY <1>1, <1>2, BoundsAssumption
<1>4. PICK new \in TaskId : new = <<r, rmade[r] + 1>>
    BY <1>3 DEF TaskId
<1>5. rmade'[r] = rmade[r] + 1 /\ new[1] = r
    BY <1>1, <1>4
<1>6. rmade[r] + 1 \in 1..rmade'[r] /\ rmade[r] + 1 \notin 1..rmade[r]
    BY <1>3, <1>5
<1>7. new \in Created(r)' /\ new \notin Created(r)
    BY <1>4, <1>6 DEF Created
<1>8. rkind[r] # "inline" => Sent(new)'
    BY <1>1, <1>5, <1>7 DEF Sent
<1>9. ~ Sent(new)
    BY <1>5, <1>7 DEF Sent
<1>10. ~ Exists(new)
    BY <1>1, <1>5 DEF RowOfEnded
<1>11. QED
    BY <1>4, <1>8, <1>9, <1>10

LEMMA QueuedIsSentStep == SentIInv /\ [Next]_vars => QueuedIsSent'
<1> SUFFICES ASSUME SentIInv, [Next]_vars, NEW x \in Msg, queue'[x] > 0
             PROVE  Sent(x.task)'
    BY DEF QueuedIsSent
<1>0. x.task \in TaskId /\ IInv /\ RequestShape /\ queue \in [Msg -> Nat]
    BY DEF Msg, SentIInv, IInv, TypeOK
<1>1. ASSUME queue[x] > 0 PROVE Sent(x.task)'
    BY <1>0, <1>1, SentStays DEF SentIInv, QueuedIsSent
<1>2. ASSUME NEW m \in Msg, Send(m), x # m PROVE Sent(x.task)'
    BY <1>0, <1>1, <1>2 DEF Send
<1>3. ASSUME NEW w \in Workers, wpc[w] # "idle"
      PROVE  wmsg[w] \in Msg /\ \E t \in TaskId : t = Held(w) /\ Sent(t)'
  <2>1. Held(w) \in TaskId /\ Sent(Held(w)) /\ wmsg[w] \in Msg
    BY <1>0, <1>3, HeldMessage DEF SentIInv, HeldIsSent
  <2>2. PICK t \in TaskId : t = Held(w) /\ Sent(t)
    BY <2>1
  <2>3. QED
    BY <1>0, <2>1, <2>2, SentStays
<1>4. ASSUME NEW r \in Requests, CreateTask(r) PROVE Sent(x.task)'
  <2>1. PICK new \in TaskId : new = <<r, rmade[r] + 1>> /\ (rkind[r] # "inline" => Sent(new)')
    BY <1>0, <1>4, MadeIsSent
  <2>2. PICK m \in Msg : m = [task |-> new, retries |-> 0] /\ m.task = new
    <3>1. 0 \in 0..MaxRetries
        BY BoundsAssumption
    <3>2. QED
        BY <3>1, MsgOf
  <2>3. CASE rkind[r] = "inline"
    BY <1>1, <1>4, <2>3 DEF CreateTask, Dispatch
  <2>4. CASE rkind[r] # "inline"
    <3>1. Send(m)
        BY <1>4, <2>1, <2>2, <2>4 DEF CreateTask, Dispatch
    <3>2. QED
        BY <1>2, <2>1, <2>2, <2>4, <3>1
  <2>5. QED
    BY <2>3, <2>4
<1>5. ASSUME NEW r \in Requests,
             \/ TriggerBegin(r) \/ DeleteBegin(r) \/ Refuse(r) \/ PurgeFindings(r)
             \/ PurgeTasks(r) \/ CommitTrigger(r) \/ CommitDelete(r) \/ Abort(r)
      PROVE  Sent(x.task)'
    BY <1>1, <1>5 DEF TriggerBegin, DeleteBegin, Refuse, PurgeFindings, PurgeTasks,
                      CommitTrigger, CommitDelete, Abort
<1>6. ASSUME NEW w \in Workers, NEW m \in Msg, Deliver(w, m) PROVE Sent(x.task)'
  <2>1. queue[x] > 0
    BY <1>0, <1>6 DEF Deliver
  <2>2. QED
    BY <1>1, <2>1
<1>7. ASSUME NEW w \in Workers,
             \/ Claim(w) \/ RunFails(w) \/ Publish(w) \/ ReadUsage(w) \/ WriteUsage(w)
             \/ UsageFails(w) \/ MarkFailed(w) \/ MarkFails(w) \/ Ack(w) \/ ChildKilled(w)
      PROVE  Sent(x.task)'
    BY <1>1, <1>7 DEF Claim, RunFails, Publish, ReadUsage, WriteUsage, UsageFails,
                      MarkFailed, MarkFails, Ack, ChildKilled
<1>8. ASSUME NEW w \in Workers, Retry(w) PROVE Sent(x.task)'
  <2>1. wpc[w] # "idle"
    BY <1>8 DEF Retry, Step
  <2>2. CASE wmsg[w].retries < MaxRetries
    <3>1. PICK t \in TaskId : t = Held(w) /\ Sent(t)'
        BY <1>3, <2>1
    <3>2. wmsg[w].retries \in 0..MaxRetries
        BY <1>0, <2>1, HeldMessage
    <3>3. wmsg[w].retries + 1 \in 0..MaxRetries
        BY <2>2, <3>2, BoundsAssumption
    <3>4. PICK m \in Msg : m = [task |-> t, retries |-> wmsg[w].retries + 1] /\ m.task = t
        BY <3>3, MsgOf
    <3>5. Send(m)
        BY <1>8, <2>2, <3>1, <3>4 DEF Retry
    <3>6. QED
        BY <1>2, <3>1, <3>4, <3>5
  <2>3. CASE ~ (wmsg[w].retries < MaxRetries)
    BY <1>1, <1>8, <2>3 DEF Retry
  <2>4. QED
    BY <2>2, <2>3
<1>9. ASSUME NEW w \in Workers, Crash(w) \/ Redeliver(w) PROVE Sent(x.task)'
  <2>1. wpc[w] # "idle" /\ Send(wmsg[w]) /\ wmsg[w].task = Held(w)
    BY <1>9 DEF Crash, Redeliver, CanRedeliver, Held
  <2>2. PICK t \in TaskId : t = Held(w) /\ Sent(t)'
    BY <1>3, <2>1
  <2>3. PICK m \in Msg : m = wmsg[w]
    BY <1>3, <2>1
  <2>4. Send(m) /\ m.task = t
    BY <2>1, <2>2, <2>3
  <2>5. QED
    BY <1>2, <2>2, <2>4
<1>10. CASE Quiet \/ UNCHANGED vars
    BY <1>1, <1>10 DEF Quiet, vars
<1>11. QED
    BY <1>4, <1>5, <1>6, <1>7, <1>8, <1>9, <1>10 DEF Next, RequestStep, WorkerStep

LEMMA HeldIsSentStep == SentIInv /\ [Next]_vars => HeldIsSent'
<1> SUFFICES ASSUME SentIInv, [Next]_vars, NEW v \in Workers, wpc'[v] # "idle"
             PROVE  Sent(Held(v))'
    BY DEF HeldIsSent
<1>0. IInv /\ RequestShape /\ TypeOK
    BY DEF SentIInv, IInv
<1>1. ASSUME wpc[v] # "idle", wmsg'[v] = wmsg[v] PROVE Sent(Held(v))'
  <2>1. Held(v) \in TaskId /\ Sent(Held(v))
    BY <1>0, <1>1, HeldMessage DEF SentIInv, HeldIsSent
  <2>2. PICK t \in TaskId : t = Held(v) /\ Sent(t)
    BY <2>1
  <2>3. Sent(t)' /\ Held(v)' = t
    BY <1>0, <1>1, <2>2, SentStays DEF Held
  <2>4. QED
    BY <2>3 DEF Sent, Created
<1>2. ASSUME NEW m \in Msg, Deliver(v, m) PROVE Sent(Held(v))'
  <2>1. m.task \in TaskId /\ Sent(m.task)
    BY <1>2 DEF Deliver, Msg, SentIInv, QueuedIsSent
  <2>2. PICK t \in TaskId : t = m.task /\ Sent(t)
    BY <2>1
  <2>3. Sent(t)' /\ Held(v)' = t
    BY <1>0, <1>2, <2>2, SentStays DEF Deliver, Held, TypeOK
  <2>4. QED
    BY <2>3 DEF Sent, Created
<1>3. ASSUME NEW r \in Requests,
             TriggerBegin(r) \/ DeleteBegin(r) \/ Refuse(r) \/ RequestStep(r)
      PROVE  Sent(Held(v))'
    BY <1>1, <1>3, RequestsLeaveWorkers DEF wvars
<1>4. ASSUME NEW w \in Workers, w # v, WorkerStep(w) \/ Crash(w) \/ ChildKilled(w) \/ Redeliver(w)
      PROVE  Sent(Held(v))'
    BY <1>0, <1>1, <1>4, OthersWork
<1>5. CASE \/ Claim(v) \/ RunFails(v) \/ Publish(v) \/ ReadUsage(v) \/ WriteUsage(v)
           \/ UsageFails(v) \/ MarkFailed(v) \/ MarkFails(v) \/ Retry(v) \/ Redeliver(v)
  <2>1. wpc[v] # "idle" /\ wmsg' = wmsg
    BY <1>5 DEF Claim, RunFails, Publish, ReadUsage, WriteUsage, UsageFails, MarkFailed,
                MarkFails, Retry, Redeliver, CanRedeliver, Step, wvars
  <2>2. QED
    BY <1>1, <2>1
<1>6. CASE Ack(v) \/ Crash(v) \/ ChildKilled(v)
    BY <1>0, <1>6 DEF Ack, Crash, ChildKilled, Step, TypeOK
<1>7. ASSUME NEW w \in Workers, WorkerStep(w) \/ Crash(w) \/ ChildKilled(w) \/ Redeliver(w)
      PROVE  Sent(Held(v))'
  <2>1. CASE w = v
    BY <1>2, <1>5, <1>6, <1>7, <2>1 DEF WorkerStep
  <2>2. QED
    BY <1>4, <1>7, <2>1
<1>8. CASE Quiet \/ UNCHANGED vars
    BY <1>1, <1>8 DEF Quiet, vars, wvars
<1>9. QED
    BY <1>3, <1>7, <1>8 DEF Next

\* The budget goes on holding when nothing is added to it.
LEMMA Carried ==
    ASSUME TypeOK, TypeOK', NEW t \in TaskId, Within(Attempts(t), t),
           flags'[t] <= flags[t], result'[t] => result[t],
           redelivered[t] <= redelivered'[t],
           IsFiniteSet(Attempts(t)'), Cardinality(Attempts(t)') <= Cardinality(Attempts(t))
    PROVE  Within(Attempts(t), t)'
<1> USE DEF TypeOK
<1>1. Cardinality(Attempts(t)) \in Nat /\ Cardinality(Attempts(t)') \in Nat
    BY FS_CardinalityType DEF Within
<1>2. /\ flags[t] \in Nat /\ flags'[t] \in Nat
      /\ redelivered[t] \in Nat /\ redelivered'[t] \in Nat
    OBVIOUS
<1>3. Cardinality(Attempts(t)) + flags[t] <= 1 + redelivered[t]
    BY DEF Within
<1>4. Cardinality(Attempts(t)') + flags'[t] <= 1 + redelivered'[t]
    BY <1>1, <1>2, <1>3
<1>5. result'[t] => Cardinality(Attempts(t)') <= redelivered'[t]
    BY <1>1, <1>2 DEF Within
<1>6. QED
    BY <1>4, <1>5 DEF Within

\* ... in particular when no message and no attempt is new.
LEMMA NoNewAttempt ==
    ASSUME TypeOK, TypeOK', NEW t \in TaskId, Within(Attempts(t), t),
           \A n \in 0..MaxRetries : Waits(t)'[n] <= Waits(t)[n],
           TryingOn(t)' \subseteq TryingOn(t),
           flags'[t] <= flags[t], result'[t] => result[t],
           redelivered[t] <= redelivered'[t]
    PROVE  Within(Attempts(t), t)'
<1>1. Waits(t) \in Counts /\ Waits(t)' \in Counts
  <2>1. queue \in [Msg -> Nat] /\ queue' \in [Msg -> Nat]
    BY DEF TypeOK
  <2>2. QED
    BY <2>1, MsgOf DEF Waits, Counts
<1>2. Attempts(t)' \subseteq Attempts(t)
    BY <1>1, FewerTokens DEF Attempts
<1>3. IsFiniteSet(Attempts(t)') /\ Cardinality(Attempts(t)') <= Cardinality(Attempts(t))
    BY <1>2, FS_Subset DEF Within
<1>4. QED
    BY <1>3, Carried

\* A task that has not been sent has nothing waiting and nobody trying.
LEMMA UnsentHasNone ==
    ASSUME SentIInv, NEW t \in TaskId, ~ Sent(t)
    PROVE  /\ \A n \in 0..MaxRetries : Waits(t)[n] = 0
           /\ TryingOn(t) = {} /\ Attempts(t) = {}
<1>1. ASSUME NEW n \in 0..MaxRetries PROVE Waits(t)[n] = 0
  <2>1. PICK m \in Msg : m = [task |-> t, retries |-> n] /\ m.task = t
    BY MsgOf
  <2>2. ~ (queue[m] > 0) /\ queue[m] \in Nat
    BY <2>1 DEF SentIInv, QueuedIsSent, IInv, TypeOK
  <2>3. QED
    BY <2>1, <2>2 DEF Waits
<1>2. TryingOn(t) = {}
    BY DEF SentIInv, HeldIsSent, TryingOn, Trying
<1>3. Attempts(t) = {}
    BY <1>1, <1>2 DEF Attempts, Tokens
<1>4. QED
    BY <1>1, <1>2, <1>3

LEMMA RequestsKeepBudget ==
    ASSUME SentIInv, TypeOK', Budget, NEW r \in Requests,
           TriggerBegin(r) \/ DeleteBegin(r) \/ Refuse(r) \/ RequestStep(r),
           NEW t \in TaskId
    PROVE  Within(Attempts(t), t)'
<1> USE DEF SentIInv, IInv
<1>1. TypeOK /\ Within(Attempts(t), t)
    BY DEF Budget
<1>2. TryingOn(t)' = TryingOn(t) /\ redelivered' = redelivered /\ redelivered[t] \in Nat
    BY <1>1, RequestsLeaveWorkers DEF wvars, history, TryingOn, Held, TypeOK
<1>3. ASSUME queue' = queue PROVE Waits(t)' = Waits(t) /\ Attempts(t)' = Attempts(t)
    BY <1>2, <1>3 DEF Waits, Attempts
<1>4. Waits(t) \in Counts
    BY <1>1, WaitsType DEF TypeOK
<1>5. ASSUME queue' = queue, flags'[t] <= flags[t], result'[t] => result[t]
      PROVE  Within(Attempts(t), t)'
  <2>1. IsFiniteSet(Attempts(t)) /\ Cardinality(Attempts(t)) \in Nat
    BY <1>1, FS_CardinalityType DEF Within
  <2>2. IsFiniteSet(Attempts(t)') /\ Cardinality(Attempts(t)') <= Cardinality(Attempts(t))
    BY <1>3, <1>5, <2>1
  <2>3. redelivered[t] <= redelivered'[t]
    BY <1>2
  <2>4. QED
    BY <1>1, <1>5, <2>2, <2>3, Carried
<1>6. flags[t] \in Nat /\ flags[t] <= flags[t]
    BY <1>1 DEF TypeOK
<1>7. CASE \/ TriggerBegin(r) \/ DeleteBegin(r) \/ Refuse(r) \/ PurgeFindings(r)
           \/ PurgeTasks(r) \/ Abort(r)
  <2>1. queue' = queue /\ flags' = flags /\ result' = result
    BY <1>7 DEF TriggerBegin, DeleteBegin, Refuse, PurgeFindings, PurgeTasks, Abort, tables
  <2>2. QED
    BY <1>5, <1>6, <2>1
<1>8. CASE CreateTask(r)
  <2>1. PICK new \in TaskId : new = <<r, rmade[r] + 1>> /\ ~ Sent(new) /\ ~ Exists(new)
    BY <1>8, MadeIsSent
  <2>2. flags' = flags /\ result' = result
    BY <1>8 DEF CreateTask, tables
  <2>3. CASE rkind[r] = "inline"
    BY <1>5, <1>6, <1>8, <2>2, <2>3 DEF CreateTask, Dispatch
  <2>4. CASE rkind[r] # "inline"
    <3>1. PICK m \in Msg : m = [task |-> new, retries |-> 0] /\ m.task = new
        <4>1. 0 \in 0..MaxRetries
            BY BoundsAssumption
        <4>2. QED
            BY <4>1, MsgOf
    <3>2. queue' = [queue EXCEPT ![m] = queue[m] + 1]
        BY <1>8, <2>1, <2>4, <3>1 DEF CreateTask, Dispatch, Send
    <3>3. CASE t # new
        <4>1. \A n \in 0..MaxRetries : Waits(t)'[n] = Waits(t)[n] /\ Waits(t)[n] \in Nat
            <5>1. ASSUME NEW n \in 0..MaxRetries
                  PROVE  Waits(t)'[n] = Waits(t)[n] /\ Waits(t)[n] \in Nat
                <6>1. PICK x \in Msg : x = [task |-> t, retries |-> n] /\ x.task = t
                    BY MsgOf
                <6>2. queue'[x] = queue[x] /\ queue[x] \in Nat
                    BY <1>1, <3>1, <3>2, <3>3, <6>1 DEF TypeOK
                <6>3. QED
                    BY <6>1, <6>2 DEF Waits
            <5>2. QED
                BY <5>1
        <4>2. QED
            BY <1>1, <1>2, <1>6, <2>2, <4>1, NoNewAttempt
    <3>4. CASE t = new
        <4>1. \A n \in 0..MaxRetries : Waits(t)[n] = 0
            BY <2>1, <3>4, UnsentHasNone
        <4>2. TryingOn(t) = {} /\ flags[t] = 0 /\ ~ result[t]
            BY <2>1, <3>4, UnsentHasNone DEF FindingsHaveTask
        <4>3. ASSUME NEW n \in 0..MaxRetries PROVE Waits(t)'[n] <= 1
            <5>1. PICK x \in Msg : x = [task |-> t, retries |-> n]
                BY MsgOf
            <5>2. queue[x] = 0
                BY <4>1, <5>1 DEF Waits
            <5>3. queue'[x] <= 1
                BY <1>1, <3>2, <5>2 DEF TypeOK
            <5>4. QED
                BY <5>1, <5>3 DEF Waits
        <4>4. ASSUME NEW n \in 0..MaxRetries, n # 0 PROVE Waits(t)'[n] = 0
            <5>1. PICK x \in Msg : x = [task |-> t, retries |-> n] /\ x.retries = n
                BY MsgOf
            <5>2. queue[x] = 0 /\ m.retries = 0
                BY <4>1, <5>1, <3>1, BoundsAssumption DEF Waits
            <5>3. queue'[x] = 0
                BY <1>1, <3>2, <4>4, <5>1, <5>2 DEF TypeOK
            <5>4. QED
                BY <5>1, <5>3 DEF Waits
        <4>5. Attempts(t)' \subseteq {<<0, 1>>}
            <5>1. TryingOn(t)' = {}
                BY <1>2, <4>2
            <5>2. ASSUME NEW n \in 0..MaxRetries, NEW i \in Nat, 1 <= i, i <= Waits(t)'[n]
                  PROVE  n = 0 /\ i = 1
                <6>1. Waits(t)'[n] \in Nat
                    BY MsgOf DEF Waits, TypeOK
                <6>2. QED
                    BY <4>3, <4>4, <5>2, <6>1
            <5>3. QED
                BY <5>1, <5>2 DEF Attempts, Tokens
        <4>6. IsFiniteSet(Attempts(t)') /\ Cardinality(Attempts(t)') <= 1
              /\ Cardinality(Attempts(t)') \in Nat
            BY <4>5, AtMostOne
        <4>7. QED
            BY <1>2, <2>2, <4>2, <4>6 DEF Within
    <3>5. QED
        BY <3>3, <3>4
  <2>5. QED
    BY <2>3, <2>4
<1>9. CASE CommitTrigger(r)
  <2>1. queue' = queue
    BY <1>9 DEF CommitTrigger
  <2>2. PICK reported \in SUBSET Ran(r) :
            flags' = [x \in TaskId |-> IF x \in Purged(r) THEN FlagsLeft(r, x)
                                       ELSE IF x \in reported THEN 1 ELSE flags[x]]
    BY <1>9 DEF CommitTrigger
  <2>3. result' = [x \in TaskId |-> IF x \in Purged(r) THEN ResultLeft(r, x)
                                    ELSE x \in Ran(r) \/ result[x]]
    BY <1>9 DEF CommitTrigger
  <2>4. CASE t \in Purged(r)
    <3>1. flags'[t] <= flags[t]
        BY <1>1, <1>6, <2>2, <2>4 DEF FlagsLeft, TypeOK
    <3>2. result'[t] => result[t]
        BY <2>3, <2>4 DEF ResultLeft
    <3>3. QED
        BY <1>5, <2>1, <3>1, <3>2
  <2>5. CASE t \notin Purged(r) /\ t \notin Ran(r)
    BY <1>5, <1>6, <2>1, <2>2, <2>3, <2>5
  <2>6. CASE t \notin Purged(r) /\ t \in Ran(r)
    <3>1. ~ Sent(t)
        BY <2>6 DEF Ran, Created, Sent
    <3>2. Attempts(t)' = {}
        BY <1>3, <2>1, <3>1, UnsentHasNone
    <3>3. flags'[t] <= 1 /\ flags'[t] \in Nat
        <4>1. ~ Exists(t) /\ flags[t] = 0
            <5>1. t[1] = r /\ rpc[r] = "creating"
                BY <1>9, <2>6 DEF Ran, Created, CommitTrigger
            <5>2. QED
                BY <5>1 DEF RowOfEnded, FindingsHaveTask
        <4>2. QED
            BY <2>2, <2>6, <4>1
    <3>4. QED
        BY <1>2, <3>2, <3>3, FS_EmptySet DEF Within
  <2>7. QED
    BY <2>4, <2>5, <2>6
<1>10. CASE CommitDelete(r)
  <2>1. queue' = queue
        /\ flags' = [x \in TaskId |-> IF x \in Purged(r) THEN FlagsLeft(r, x) ELSE flags[x]]
        /\ result' = [x \in TaskId |-> IF x \in Purged(r) THEN ResultLeft(r, x) ELSE result[x]]
    BY <1>10 DEF CommitDelete
  <2>2. flags'[t] <= flags[t]
    BY <1>1, <1>6, <2>1 DEF FlagsLeft, TypeOK
  <2>3. result'[t] => result[t]
    BY <2>1 DEF ResultLeft
  <2>4. QED
    BY <1>5, <2>1, <2>2, <2>3
<1>11. QED
    BY <1>7, <1>8, <1>9, <1>10 DEF RequestStep

\* Of the attempts of any task a worker's step adds and ends its own only.
LEMMA OthersTry ==
    ASSUME TypeOK, NEW w \in Workers, WorkerStep(w) \/ Crash(w) \/ ChildKilled(w) \/ Redeliver(w),
           NEW t \in TaskId
    PROVE  /\ TryingOn(t)' \subseteq TryingOn(t) \cup {w}
           /\ ~ (wpc'[w] \in Trying /\ wmsg'[w].task = t)
                  => TryingOn(t)' \subseteq TryingOn(t) \ {w}
<1>1. \A v \in Workers \ {w} : wpc'[v] = wpc[v] /\ wmsg'[v] = wmsg[v]
    BY OthersWork
<1>2. QED
    BY <1>1 DEF TryingOn, Held

\* What is stored of a task other than the one the worker holds is left alone.
LEMMA WorkersKeepFindings ==
    ASSUME IInv, NEW w \in Workers, WorkerStep(w) \/ Crash(w) \/ ChildKilled(w) \/ Redeliver(w),
           ~ Publish(w)
    PROVE  flags' = flags /\ result' = result
<1>1. ASSUME NEW m \in Msg, Deliver(w, m) PROVE flags' = flags /\ result' = result
    BY <1>1 DEF Deliver, tables
<1>2. QED
    BY <1>1 DEF WorkerStep, Claim, RunFails, ReadUsage, WriteUsage, UsageFails,
                MarkFailed, MarkFails, Retry, Ack, Crash, ChildKilled, Redeliver, tables

\* A message of a task: sending it is one token more for that task.
LEMMA SentToken ==
    ASSUME TypeOK, NEW m \in Msg, Send(m)
    PROVE  /\ \A t \in TaskId : t # m.task => Waits(t)' = Waits(t)
           /\ Waits(m.task)'[m.retries] = Waits(m.task)[m.retries] + 1
           /\ \A n \in (0..MaxRetries) \ {m.retries} : Waits(m.task)'[n] = Waits(m.task)[n]
<1>1. \A x \in Msg : queue'[x] = IF x = m THEN queue[x] + 1 ELSE queue[x]
    BY DEF Send, TypeOK
<1>2. m.task \in TaskId /\ m.retries \in 0..MaxRetries
      /\ m = [task |-> m.task, retries |-> m.retries]
    BY DEF Msg
<1>3. ASSUME NEW t \in TaskId, t # m.task, NEW n \in 0..MaxRetries
      PROVE  queue'[[task |-> t, retries |-> n]] = queue[[task |-> t, retries |-> n]]
  <2>1. PICK x \in Msg : x = [task |-> t, retries |-> n] /\ x.task = t
    BY MsgOf
  <2>2. queue'[x] = queue[x]
    BY <1>1, <1>3, <2>1
  <2>3. QED
    BY <2>1, <2>2
<1>4. Waits(m.task)'[m.retries] = Waits(m.task)[m.retries] + 1
    BY <1>1, <1>2 DEF Waits
<1>5. ASSUME NEW n \in (0..MaxRetries) \ {m.retries}
      PROVE  Waits(m.task)'[n] = Waits(m.task)[n]
  <2>1. PICK x \in Msg : x = [task |-> m.task, retries |-> n] /\ x.retries = n
    BY <1>2, MsgOf
  <2>2. queue'[x] = queue[x]
    BY <1>1, <1>5, <2>1
  <2>3. QED
    BY <2>1, <2>2 DEF Waits
<1>6. QED
    BY <1>3, <1>4, <1>5 DEF Waits

\* ... and taking it is one token less.
LEMMA TakenToken ==
    ASSUME TypeOK, NEW m \in Msg, queue' = [queue EXCEPT ![m] = queue[m] - 1]
    PROVE  /\ \A t \in TaskId : t # m.task => Waits(t)' = Waits(t)
           /\ Waits(m.task)[m.retries] = queue[m]
           /\ Waits(m.task)'[m.retries] = queue[m] - 1
           /\ \A n \in (0..MaxRetries) \ {m.retries} : Waits(m.task)'[n] = Waits(m.task)[n]
<1>1. \A x \in Msg : queue'[x] = IF x = m THEN queue[x] - 1 ELSE queue[x]
    BY DEF TypeOK
<1>2. m.task \in TaskId /\ m.retries \in 0..MaxRetries
      /\ m = [task |-> m.task, retries |-> m.retries]
    BY DEF Msg
<1>3. ASSUME NEW t \in TaskId, t # m.task, NEW n \in 0..MaxRetries
      PROVE  queue'[[task |-> t, retries |-> n]] = queue[[task |-> t, retries |-> n]]
  <2>1. PICK x \in Msg : x = [task |-> t, retries |-> n] /\ x.task = t
    BY MsgOf
  <2>2. queue'[x] = queue[x]
    BY <1>1, <1>3, <2>1
  <2>3. QED
    BY <2>1, <2>2
<1>4. Waits(m.task)[m.retries] = queue[m] /\ Waits(m.task)'[m.retries] = queue[m] - 1
    BY <1>1, <1>2 DEF Waits
<1>5. ASSUME NEW n \in (0..MaxRetries) \ {m.retries}
      PROVE  Waits(m.task)'[n] = Waits(m.task)[n]
  <2>1. PICK x \in Msg : x = [task |-> m.task, retries |-> n] /\ x.retries = n
    BY <1>2, MsgOf
  <2>2. queue'[x] = queue[x]
    BY <1>1, <1>5, <2>1
  <2>3. QED
    BY <2>1, <2>2 DEF Waits
<1>6. QED
    BY <1>3, <1>4, <1>5 DEF Waits

LEMMA WorkersKeepBudget ==
    ASSUME SentIInv, TypeOK', Budget, NEW w \in Workers,
           WorkerStep(w) \/ Crash(w) \/ ChildKilled(w) \/ Redeliver(w), NEW t \in TaskId
    PROVE  Within(Attempts(t), t)'
<1> USE DEF SentIInv, IInv
<1>1. TypeOK /\ Within(Attempts(t), t)
    BY DEF Budget
<1>2. /\ flags[t] \in Nat /\ redelivered[t] \in Nat
      /\ flags[t] <= flags[t] /\ redelivered[t] <= redelivered[t]
    BY <1>1 DEF TypeOK
<1>3. Waits(t) \in Counts /\ Waits(t)' \in Counts
  <2>1. queue \in [Msg -> Nat] /\ queue' \in [Msg -> Nat]
    BY <1>1 DEF TypeOK
  <2>2. QED
    BY <2>1, MsgOf DEF Waits, Counts
<1>4. \A n \in 0..MaxRetries : Waits(t)[n] \in Nat /\ Waits(t)[n] <= Waits(t)[n]
    BY <1>3 DEF Counts
<1>5. /\ TryingOn(t)' \subseteq TryingOn(t) \cup {w}
      /\ ~ (wpc'[w] \in Trying /\ wmsg'[w].task = t) => TryingOn(t)' \subseteq TryingOn(t) \ {w}
    BY <1>1, OthersTry
<1>6. IsFiniteSet(Attempts(t)) /\ Cardinality(Attempts(t)) \in Nat
    BY <1>1, FS_CardinalityType DEF Within
<1>7. ~ Publish(w) => flags' = flags /\ result' = result
    BY WorkersKeepFindings
<1>8. ASSUME \A n \in 0..MaxRetries : Waits(t)'[n] <= Waits(t)[n],
             TryingOn(t)' \subseteq TryingOn(t),
             flags'[t] = flags[t], result'[t] = result[t], redelivered'[t] = redelivered[t]
      PROVE  Within(Attempts(t), t)'
    BY <1>1, <1>2, <1>8, NoNewAttempt
<1>9. ASSUME NEW m \in Msg, Deliver(w, m) PROVE Within(Attempts(t), t)'
  <2>1. /\ queue[m] > 0 /\ queue' = [queue EXCEPT ![m] = queue[m] - 1]
        /\ redelivered' = redelivered /\ wmsg'[w] = m /\ ~ Publish(w)
    BY <1>1, <1>9 DEF Deliver, Publish, Step, TypeOK
  <2>2. CASE t # m.task
    <3>1. Waits(t)' = Waits(t)
        BY <1>1, <2>1, <2>2, TakenToken
    <3>2. TryingOn(t)' \subseteq TryingOn(t)
        BY <1>5, <2>1, <2>2
    <3>3. QED
        BY <1>4, <1>7, <1>8, <2>1, <3>1, <3>2
  <2>3. CASE t = m.task
    <3>1. m.retries \in 0..MaxRetries /\ queue[m] \in Nat
        BY <1>1 DEF Msg, TypeOK
    <3>2. /\ Waits(t)[m.retries] = queue[m] /\ Waits(t)'[m.retries] = queue[m] - 1
          /\ \A n \in (0..MaxRetries) \ {m.retries} : Waits(t)'[n] = Waits(t)[n]
        BY <1>1, <2>1, <2>3, TakenToken
    <3>3. PICK k \in 0..MaxRetries : k = m.retries
        BY <3>1
    <3>4. /\ Waits(t)[k] > 0 /\ Waits(t)'[k] <= Waits(t)[k] - 1
          /\ \A n \in (0..MaxRetries) \ {k} : Waits(t)'[n] <= Waits(t)[n]
        BY <1>4, <2>1, <3>1, <3>2, <3>3
    <3>5. /\ <<k, Waits(t)[k]>> \in Attempts(t)
          /\ Attempts(t)' \subseteq (Attempts(t) \ {<<k, Waits(t)[k]>>}) \cup {<<w, 0>>}
        BY <1>3, <1>5, <3>4, TokenTaken DEF Attempts
    <3>6. IsFiniteSet(Attempts(t)') /\ Cardinality(Attempts(t)') <= Cardinality(Attempts(t))
        BY <1>6, <3>5, SetTradesOne
    <3>7. flags'[t] <= flags[t] /\ (result'[t] => result[t]) /\ redelivered[t] <= redelivered'[t]
        BY <1>2, <1>7, <2>1
    <3>8. QED
        BY <1>1, <3>6, <3>7, Carried
  <2>4. QED
    BY <2>2, <2>3
<1>10. CASE \/ Claim(w) \/ RunFails(w) \/ ReadUsage(w) \/ WriteUsage(w) \/ UsageFails(w)
            \/ MarkFailed(w) \/ MarkFails(w) \/ Ack(w) \/ ChildKilled(w)
  <2>1. queue' = queue /\ redelivered' = redelivered
    BY <1>10 DEF Claim, RunFails, ReadUsage, WriteUsage, UsageFails, MarkFailed, MarkFails,
                 Ack, ChildKilled, history
  <2>2. ~ Publish(w)
    BY <1>1, <1>10 DEF Claim, RunFails, ReadUsage, WriteUsage, UsageFails, MarkFailed, MarkFails,
                 Ack, ChildKilled, Step, Publish, TypeOK
  <2>3. \/ wpc'[w] \notin Trying
        \/ wpc[w] \in Trying /\ wmsg' = wmsg
    BY <1>1, <1>10 DEF Claim, RunFails, ReadUsage, WriteUsage, UsageFails, MarkFailed,
                       MarkFails, Ack, ChildKilled, Step, Trying, TypeOK
  <2>4. TryingOn(t)' \subseteq TryingOn(t)
    BY <1>5, <2>3 DEF TryingOn, Held
  <2>5. Waits(t)' = Waits(t)
    BY <2>1 DEF Waits
  <2>6. QED
    BY <1>4, <1>7, <1>8, <2>1, <2>2, <2>4, <2>5
<1>11. CASE Publish(w)
  <2>1. /\ queue' = queue /\ redelivered' = redelivered /\ wpc[w] = "claimed"
        /\ wpc'[w] = "committed" /\ Held(w) \in TaskId
    BY <1>1, <1>11, HeldMessage DEF Publish, Step, TypeOK
  <2>2. Waits(t)' = Waits(t) /\ TryingOn(t)' \subseteq TryingOn(t) \ {w}
    BY <1>5, <2>1 DEF Waits, Trying
  <2>3. PICK n \in {0, 1} : flags' = [flags EXCEPT ![Held(w)] = flags[Held(w)] + n]
    BY <1>11 DEF Publish
  <2>4. result' = [result EXCEPT ![Held(w)] = TRUE]
    BY <1>11 DEF Publish
  <2>5. CASE Held(w) # t
    BY <1>1, <1>4, <1>8, <2>1, <2>2, <2>3, <2>4, <2>5 DEF TypeOK
  <2>6. CASE Held(w) = t
    <3>1. w \in TryingOn(t)
        BY <2>1, <2>6 DEF TryingOn, Trying
    <3>2. /\ <<w, 0>> \in Attempts(t)
          /\ Tokens(Waits(t), TryingOn(t) \ {w}) \subseteq Attempts(t) \ {<<w, 0>>}
        BY <1>3, <3>1, WorkerToken DEF Attempts
    <3>3. Attempts(t)' \subseteq Attempts(t) \ {<<w, 0>>}
        BY <1>3, <1>4, <2>2, <3>2, FewerTokens DEF Attempts
    <3>4. /\ IsFiniteSet(Attempts(t)') /\ Cardinality(Attempts(t)') \in Nat
          /\ Cardinality(Attempts(t)') + 1 <= Cardinality(Attempts(t))
        BY <1>6, <3>2, <3>3, SetShrinksByOne
    <3>5. flags'[t] \in Nat /\ flags'[t] <= flags[t] + 1
        BY <1>1, <1>2, <2>3, <2>6 DEF TypeOK
    <3>6. Cardinality(Attempts(t)) + flags[t] <= 1 + redelivered[t]
        BY <1>1 DEF Within
    <3>7. /\ Cardinality(Attempts(t)') + flags'[t] <= 1 + redelivered'[t]
          /\ Cardinality(Attempts(t)') <= redelivered'[t]
        BY <1>2, <1>6, <2>1, <3>4, <3>5, <3>6
    <3>8. QED
        BY <3>4, <3>7 DEF Within
  <2>7. QED
    BY <2>5, <2>6
<1>12. CASE Retry(w)
  <2>1. /\ redelivered' = redelivered /\ wpc[w] = "marked" /\ wpc'[w] = "done" /\ ~ Publish(w)
    BY <1>1, <1>12 DEF Retry, Step, history, Publish, TypeOK
  <2>2. TryingOn(t)' \subseteq TryingOn(t) \ {w}
    BY <1>5, <2>1 DEF Trying
  <2>3. /\ Held(w) \in TaskId /\ wmsg[w].retries \in 0..MaxRetries
    BY <2>1, HeldMessage
  <2>4. CASE wmsg[w].retries < MaxRetries
    <3>1. wmsg[w].retries + 1 \in 0..MaxRetries
        BY <2>3, <2>4, BoundsAssumption
    <3>2. PICK m \in Msg : /\ m = [task |-> Held(w), retries |-> wmsg[w].retries + 1]
                           /\ m.task = Held(w)
        BY <2>3, <3>1, MsgOf
    <3>3. Send(m)
        BY <1>12, <2>4, <3>2 DEF Retry
    <3>4. CASE Held(w) # t
        BY <1>1, <1>4, <1>7, <1>8, <2>1, <2>2, <3>2, <3>3, <3>4, SentToken
    <3>5. CASE Held(w) = t
        <4>1. PICK k \in 0..MaxRetries : k = m.retries
            BY DEF Msg
        <4>2. /\ Waits(t)'[k] = Waits(t)[k] + 1
              /\ \A n \in (0..MaxRetries) \ {k} : Waits(t)'[n] = Waits(t)[n]
            BY <1>1, <3>2, <3>3, <3>5, <4>1, SentToken
        <4>3. Attempts(t)' \subseteq
                Tokens(Waits(t), TryingOn(t) \ {w}) \cup {<<k, Waits(t)[k] + 1>>}
            <5>1. Waits(t)'[k] <= Waits(t)[k] + 1
                  /\ \A n \in (0..MaxRetries) \ {k} : Waits(t)'[n] <= Waits(t)[n]
                BY <1>4, <4>2
            <5>2. QED
                BY <1>3, <2>2, <5>1, OneTokenMore DEF Attempts
        <4>4. w \in TryingOn(t)
            BY <2>1, <3>5 DEF TryingOn, Trying
        <4>5. /\ <<w, 0>> \in Attempts(t)
              /\ Tokens(Waits(t), TryingOn(t) \ {w}) \subseteq Attempts(t) \ {<<w, 0>>}
            BY <1>3, <4>4, WorkerToken DEF Attempts
        <4>6. Attempts(t)' \subseteq (Attempts(t) \ {<<w, 0>>}) \cup {<<k, Waits(t)[k] + 1>>}
            BY <4>3, <4>5
        <4>7. IsFiniteSet(Attempts(t)') /\ Cardinality(Attempts(t)') <= Cardinality(Attempts(t))
            BY <1>6, <4>5, <4>6, SetTradesOne
        <4>8. flags'[t] <= flags[t] /\ (result'[t] => result[t]) /\ redelivered[t] <= redelivered'[t]
            BY <1>2, <1>7, <2>1
        <4>9. QED
            BY <1>1, <4>7, <4>8, Carried
    <3>6. QED
        BY <3>4, <3>5
  <2>5. CASE ~ (wmsg[w].retries < MaxRetries)
    <3>1. Waits(t)' = Waits(t)
        BY <1>12, <2>5 DEF Retry, Waits
    <3>2. QED
        BY <1>4, <1>7, <1>8, <2>1, <2>2, <3>1
  <2>6. QED
    BY <2>4, <2>5
<1>13. CASE Crash(w) \/ Redeliver(w)
  <2>1. /\ wpc[w] # "idle" /\ Send(wmsg[w])
        /\ redelivered' = [redelivered EXCEPT ![Held(w)] = redelivered[Held(w)] + 1]
    BY <1>13 DEF Crash, Redeliver, CanRedeliver
  <2>2. \/ wpc'[w] \notin Trying
        \/ wpc'[w] = wpc[w] /\ wmsg' = wmsg
    BY <1>1, <1>13 DEF Crash, Redeliver, wvars, Trying, TypeOK
  <2>3. TryingOn(t)' \subseteq TryingOn(t)
    BY <1>5, <2>2 DEF TryingOn, Held
  <2>4. ~ Publish(w)
    BY <1>1, <1>13 DEF Crash, Redeliver, wvars, Publish, Step, CanRedeliver, TypeOK
  <2>5. PICK m \in Msg : m = wmsg[w] /\ m.task = Held(w) /\ Held(w) \in TaskId
    BY <2>1, HeldMessage DEF Held
  <2>6. Send(m)
    BY <2>1, <2>5
  <2>7. CASE Held(w) # t
    <3>1. redelivered'[t] = redelivered[t]
        BY <1>1, <2>1, <2>7 DEF TypeOK
    <3>2. Waits(t)' = Waits(t)
        BY <1>1, <2>5, <2>6, <2>7, SentToken
    <3>3. QED
        BY <1>4, <1>7, <1>8, <2>3, <2>4, <3>1, <3>2
  <2>8. CASE Held(w) = t
    <3>1. redelivered'[t] = redelivered[t] + 1
        BY <1>1, <2>1, <2>8 DEF TypeOK
    <3>2. PICK k \in 0..MaxRetries : k = m.retries
        BY DEF Msg
    <3>3. /\ Waits(t)'[k] = Waits(t)[k] + 1
          /\ \A n \in (0..MaxRetries) \ {k} : Waits(t)'[n] = Waits(t)[n]
        BY <1>1, <2>5, <2>6, <2>8, <3>2, SentToken
    <3>4. Waits(t)'[k] <= Waits(t)[k] + 1
          /\ \A n \in (0..MaxRetries) \ {k} : Waits(t)'[n] <= Waits(t)[n]
        BY <1>4, <3>3
    <3>5. Attempts(t)' \subseteq Attempts(t) \cup {<<k, Waits(t)[k] + 1>>}
        BY <1>3, <2>3, <3>4, OneTokenMore DEF Attempts
    <3>6. /\ IsFiniteSet(Attempts(t)') /\ Cardinality(Attempts(t)') \in Nat
          /\ Cardinality(Attempts(t)') <= Cardinality(Attempts(t)) + 1
        BY <1>6, <3>5, SetGrowsByOne
    <3>7. /\ Cardinality(Attempts(t)) + flags[t] <= 1 + redelivered[t]
          /\ result[t] => Cardinality(Attempts(t)) <= redelivered[t]
        BY <1>1 DEF Within
    <3>8. /\ Cardinality(Attempts(t)') + flags'[t] <= 1 + redelivered'[t]
          /\ result'[t] => Cardinality(Attempts(t)') <= redelivered'[t]
        BY <1>2, <1>6, <1>7, <2>4, <3>1, <3>6, <3>7
    <3>9. QED
        BY <3>6, <3>8 DEF Within
  <2>9. QED
    BY <2>7, <2>8
<1>14. QED
    BY <1>9, <1>10, <1>11, <1>12, <1>13 DEF WorkerStep

LEMMA BudgetStep ==
    SentIInv /\ TypeOK' /\ Budget /\ [Next]_vars => Budget'
<1> SUFFICES ASSUME SentIInv, TypeOK', Budget, [Next]_vars, NEW t \in TaskId
             PROVE  Within(Attempts(t), t)'
    BY DEF Budget
<1>1. CASE Quiet \/ UNCHANGED vars
    BY <1>1 DEF Quiet, vars, tables, wvars, history, Budget, Within, Attempts, Waits,
                TryingOn, Held
<1>2. QED
    BY <1>1, RequestsKeepBudget, WorkersKeepBudget DEF Next

LEMMA BudgetAlways == Spec => [](SentIInv /\ Budget)
<1>1. SentIInv /\ IInv' /\ RequestShape' /\ Budget /\ [Next]_vars
        => QueuedIsSent' /\ HeldIsSent' /\ Budget'
    BY QueuedIsSentStep, HeldIsSentStep, BudgetStep DEF IInv
<1>2. QED
    BY InitBudget, <1>1, Invariant, RequestShapeAlways, PTL DEF Spec, SentIInv

\* agent_tasks.py: however often runs fail, are retried or crash, the findings
\* stored for a task are those of one run per delivery of its message at most,
\* because a run that has stored some no longer counts as an attempt.
THEOREM FindingsOncePerDeliveryAlways == Spec => []FindingsOncePerDelivery
<1>1. SentIInv /\ Budget => FindingsOncePerDelivery
  <2> SUFFICES ASSUME SentIInv, Budget, NEW t \in TaskId
               PROVE  flags[t] <= 1 + redelivered[t]
    BY DEF FindingsOncePerDelivery
  <2>1. Within(Attempts(t), t)
    BY DEF Budget
  <2>2. Cardinality(Attempts(t)) \in Nat /\ flags[t] \in Nat /\ redelivered[t] \in Nat
    BY <2>1, FS_CardinalityType DEF Within, SentIInv, IInv, TypeOK
  <2>3. QED
    BY <2>1, <2>2 DEF Within
<1>2. QED
    BY <1>1, BudgetAlways, PTL

LEMMA FailureHidesNoSuccessStep ==
    SentIInv /\ TypeOK' /\ Budget /\ FailureHidesNoSuccess /\ [Next]_vars
        => FailureHidesNoSuccess'
<1> SUFFICES ASSUME SentIInv, TypeOK', Budget, FailureHidesNoSuccess, [Next]_vars,
                    NEW t \in TaskId, row'[t] = "failed", result'[t]
             PROVE  redelivered'[t] > 0
    BY DEF FailureHidesNoSuccess
<1> USE DEF SentIInv, IInv
<1>0. TypeOK /\ redelivered[t] \in Nat /\ redelivered'[t] \in Nat
    BY DEF TypeOK
<1>1. ASSUME row[t] = "failed", result[t], redelivered'[t] >= redelivered[t]
      PROVE  redelivered'[t] > 0
    BY <1>0, <1>1 DEF FailureHidesNoSuccess
<1>2. ASSUME row'[t] = row[t], result'[t] = result[t], redelivered' = redelivered
      PROVE  redelivered'[t] > 0
    BY <1>0, <1>1, <1>2
<1>3. ASSUME NEW r \in Requests,
             \/ TriggerBegin(r) \/ DeleteBegin(r) \/ Refuse(r) \/ PurgeFindings(r)
             \/ PurgeTasks(r) \/ CreateTask(r) \/ Abort(r)
      PROVE  redelivered'[t] > 0
    BY <1>2, <1>3 DEF TriggerBegin, DeleteBegin, Refuse, PurgeFindings, PurgeTasks,
                      CreateTask, Abort, tables, history
<1>4. ASSUME NEW r \in Requests, CommitTrigger(r) PROVE redelivered'[t] > 0
  <2>1. /\ row' = [x \in TaskId |-> IF x \in Ran(r) THEN "completed"
                                    ELSE IF x \in Created(r) THEN "queued"
                                    ELSE IF x \in Purged(r) THEN "none" ELSE row[x]]
        /\ result' = [x \in TaskId |-> IF x \in Purged(r) THEN ResultLeft(r, x)
                                        ELSE x \in Ran(r) \/ result[x]]
        /\ redelivered' = redelivered
    BY <1>4 DEF CommitTrigger, history
  <2>2. t \notin Ran(r) /\ row[t] = "failed"
    BY <2>1
  <2>3. result[t]
    BY <2>1, <2>2 DEF ResultLeft
  <2>4. QED
    BY <1>0, <1>1, <2>1, <2>2, <2>3
<1>5. ASSUME NEW r \in Requests, CommitDelete(r) PROVE redelivered'[t] > 0
    BY <1>5 DEF CommitDelete
<1>6. ASSUME NEW w \in Workers, NEW m \in Msg, Deliver(w, m) PROVE redelivered'[t] > 0
    BY <1>2, <1>6 DEF Deliver, tables
<1>7. ASSUME NEW w \in Workers,
             \/ Claim(w) \/ RunFails(w) \/ ReadUsage(w) \/ WriteUsage(w) \/ UsageFails(w)
             \/ MarkFails(w) \/ Retry(w) \/ Ack(w) \/ ChildKilled(w)
      PROVE  redelivered'[t] > 0
    BY <1>2, <1>7 DEF Claim, RunFails, ReadUsage, WriteUsage, UsageFails, MarkFails, Retry,
                      Ack, ChildKilled, tables, history
<1>8. ASSUME NEW w \in Workers, Publish(w) PROVE redelivered'[t] > 0
  <2>1. Held(w) # t
    BY <1>0, <1>8 DEF Publish, TypeOK
  <2>2. QED
    BY <1>0, <1>2, <1>8, <2>1 DEF Publish, TypeOK
<1>9. ASSUME NEW w \in Workers, MarkFailed(w) PROVE redelivered'[t] > 0
  <2>1. wpc[w] = "failing" /\ result' = result /\ redelivered' = redelivered
    BY <1>9 DEF MarkFailed, Step, history
  <2>2. CASE Held(w) = t
    <3>1. w \in TryingOn(t)
        BY <2>1, <2>2 DEF TryingOn, Trying
    <3>2. Within(Attempts(t), t) /\ Waits(t) \in Counts
        BY <1>0, WaitsType DEF Budget, TypeOK
    <3>3. <<w, 0>> \in Attempts(t)
        BY <3>1, <3>2, WorkerToken DEF Attempts
    <3>4. Cardinality(Attempts(t)) \in Nat /\ Cardinality(Attempts(t)) # 0
        BY <3>2, <3>3, FS_CardinalityType, FS_EmptySet DEF Within
    <3>5. Cardinality(Attempts(t)) <= redelivered[t]
        BY <2>1, <3>2 DEF Within
    <3>6. QED
        BY <1>0, <2>1, <3>4, <3>5
  <2>3. CASE Held(w) # t
    BY <1>0, <1>2, <1>9, <2>1, <2>3 DEF MarkFailed, TypeOK
  <2>4. QED
    BY <2>2, <2>3
<1>10. ASSUME NEW w \in Workers, Crash(w) \/ Redeliver(w) PROVE redelivered'[t] > 0
  <2>1. /\ row' = row /\ result' = result
        /\ redelivered' = [redelivered EXCEPT ![Held(w)] = redelivered[Held(w)] + 1]
    BY <1>10 DEF Crash, Redeliver, tables
  <2>2. redelivered'[t] >= redelivered[t]
    BY <1>0, <2>1 DEF TypeOK
  <2>3. QED
    BY <1>1, <2>1, <2>2
<1>11. CASE Quiet \/ UNCHANGED vars
    BY <1>2, <1>11 DEF Quiet, vars, tables, history
<1>12. QED
    BY <1>3, <1>4, <1>5, <1>6, <1>7, <1>8, <1>9, <1>10, <1>11
       DEF Next, RequestStep, WorkerStep

\* agent_tasks.py, the handler of an exception: FAILED is written over a task
\* that has its result only if the broker delivered the message more than once.
THEOREM FailureHidesNoSuccessAlways == Spec => []FailureHidesNoSuccess
<1>1. Init => FailureHidesNoSuccess
    BY DEF Init, FailureHidesNoSuccess
<1>2. SentIInv /\ IInv' /\ Budget /\ FailureHidesNoSuccess /\ [Next]_vars
        => FailureHidesNoSuccess'
    BY FailureHidesNoSuccessStep DEF IInv
<1>3. QED
    BY <1>1, <1>2, BudgetAlways, Invariant, PTL DEF Spec

-----------------------------------------------------------------------------
(* Billing.                                                                *)

\* The sum of a function on a finite set is what any function that satisfies
\* its recursion says.
LEMMA SumIs ==
    ASSUME NEW fun, IsFiniteSet(DOMAIN fun), NEW g,
           g = [s \in SUBSET DOMAIN fun |->
                    IF s = {} THEN 0
                    ELSE fun[CHOOSE x \in s : TRUE] + g[s \ {CHOOSE x \in s : TRUE}]]
    PROVE  SumFunction(fun) = g[DOMAIN fun]
<1> DEFINE D == DOMAIN fun
           Sums(h) == h = [s \in SUBSET D |->
                    IF s = {} THEN 0
                    ELSE fun[CHOOSE x \in s : TRUE] + h[s \ {CHOOSE x \in s : TRUE}]]
           iter == CHOOSE h : Sums(h)
           Bad == {k \in Nat : \E s \in SUBSET D : Cardinality(s) = k /\ iter[s] # g[s]}
<1>1. SumFunction(fun) = iter[D]
    BY Zenon DEF SumFunction, SumFunctionOnSet, FoldFunctionOnSet, MapThenFoldSet
<1>2. Sums(iter)
    BY Zenon
<1>3. \A s \in SUBSET D : IsFiniteSet(s) /\ Cardinality(s) \in Nat
    BY FS_Subset, FS_CardinalityType
<1>4. Bad = {}
  <2>1. SUFFICES ASSUME Bad # {} PROVE FALSE
    OBVIOUS
  <2>2. PICK k \in Bad : \A j \in Bad : ~ (<<j, k>> \in OpToRel(<, Nat))
    <3>1. Bad \subseteq Nat /\ Bad # {}
        BY <2>1
    <3> HIDE DEF Bad
    <3>2. QED
        BY <3>1, WFMin, NatLessThanWellFounded
  <2>3. PICK s \in SUBSET D : Cardinality(s) = k /\ iter[s] # g[s]
    OBVIOUS
  <2> DEFINE x == CHOOSE y \in s : TRUE
             r == s \ {x}
  <2> HIDE DEF iter, Bad
  <2>4. s # {}
    BY <1>2, <2>3
  <2>5. x \in s
    BY <2>4
  <2>6. /\ iter[s] = fun[x] + iter[r] /\ g[s] = fun[x] + g[r] /\ r \in SUBSET D
    BY <1>2, <2>4
  <2>7. Cardinality(r) = k - 1 /\ Cardinality(r) \in Nat /\ k \in Nat
    <3> HIDE DEF x
    <3>1. IsFiniteSet(s) /\ IsFiniteSet(r) /\ Cardinality(r) \in Nat /\ Cardinality(s) \in Nat
        BY <1>3, <2>6
    <3>2. Cardinality(r) = Cardinality(s) - 1
        BY <2>5, <3>1, FS_RemoveElement
    <3>3. QED
        BY <2>3, <3>1, <3>2
  <2> HIDE DEF x, r
  <2>8. Cardinality(r) \in Bad
    BY <2>3, <2>6, <2>7 DEF Bad
  <2>9. <<Cardinality(r), k>> \in OpToRel(<, Nat)
    <3>1. OpToRel(<, Nat) = {ss \in Nat \X Nat : ss[1] < ss[2]}
        BY Zenon DEF OpToRel
    <3>2. Cardinality(r) < k
        BY <2>7
    <3>3. QED
        BY <2>7, <3>1, <3>2
  <2>10. QED
    BY <2>2, <2>8, <2>9
<1>5. Cardinality(D) \in Nat /\ D \in SUBSET D
    BY <1>3
<1>6. iter[D] = g[D]
    <2> HIDE DEF iter
    <2> QED BY <1>4, <1>5
<1>7. QED
    BY <1>1, <1>6

\* All records but the first count one contract.
Ones(u) == \A i \in 2..Len(u) : u[i] = 1

LEMMA IntervalSize ==
    ASSUME NEW n \in Nat
    PROVE  IsFiniteSet(1..n) /\ Cardinality(1..n) = n
<1>1. 1 \in Int /\ n \in Int
    OBVIOUS
<1>2. IsFiniteSet(1..n) /\ Cardinality(1..n) = IF 1 > n THEN 0 ELSE n - 1 + 1
    BY <1>1, FS_Interval
<1>3. (IF 1 > n THEN 0 ELSE n - 1 + 1) = n
    OBVIOUS
<1>4. QED
    BY <1>2, <1>3

LEMMA SumOfRecords ==
    ASSUME NEW u \in Seq(Nat), Ones(u)
    PROVE  SumFunction(u) = IF u = <<>> THEN 0 ELSE u[1] + Len(u) - 1
<1> DEFINE D == DOMAIN u
           g == [s \in SUBSET D |-> IF 1 \in s THEN u[1] + Cardinality(s) - 1
                                    ELSE Cardinality(s)]
<1>1. D = 1..Len(u) /\ Len(u) \in Nat /\ \A i \in D : u[i] \in Nat
    OBVIOUS
<1>2. IsFiniteSet(D) /\ Cardinality(D) = Len(u)
    BY <1>1, IntervalSize
<1>3. \A s \in SUBSET D : IsFiniteSet(s) /\ Cardinality(s) \in Nat
    BY <1>2, FS_Subset, FS_CardinalityType
<1>4. ASSUME NEW s \in SUBSET D
      PROVE  g[s] = IF s = {} THEN 0
                    ELSE u[CHOOSE x \in s : TRUE] + g[s \ {CHOOSE x \in s : TRUE}]
  <2>1. CASE s = {}
    BY <2>1, FS_EmptySet
  <2>2. CASE s # {}
    <3> DEFINE x == CHOOSE y \in s : TRUE
    <3>1. x \in s
        BY <2>2
    <3> HIDE DEF x
    <3>2. Cardinality(s \ {x}) = Cardinality(s) - 1 /\ Cardinality(s) \in Nat
        BY <1>3, <3>1, FS_RemoveElement
    <3>3. CASE x = 1
        <4>1. u[x] \in Nat /\ g[s] = u[1] + Cardinality(s) - 1
            BY <1>1, <3>1, <3>3
        <4>2. g[s \ {x}] = Cardinality(s) - 1
            BY <3>2, <3>3
        <4>3. g[s] = u[x] + g[s \ {x}]
            <5> HIDE DEF g
            <5> QED BY <3>2, <3>3, <4>1, <4>2
        <4>4. QED
            BY <2>2, <4>3 DEF x
    <3>4. CASE x # 1
        <4>1. u[x] = 1
            BY <1>1, <3>1, <3>4 DEF Ones
        <4>2. 1 \in s => u[1] \in Nat
            BY <1>1
        <4>3. g[s] = (IF 1 \in s THEN u[1] + Cardinality(s) - 1 ELSE Cardinality(s))
            OBVIOUS
        <4>4. g[s \ {x}] = (IF 1 \in s THEN u[1] + (Cardinality(s) - 1) - 1 ELSE Cardinality(s) - 1)
            BY <3>2, <3>4
        <4>5. g[s] = u[x] + g[s \ {x}]
            <5> HIDE DEF g
            <5>1. CASE 1 \in s
                <6>1. g[s] = u[1] + Cardinality(s) - 1 /\ u[1] \in Nat
                    BY <4>2, <4>3, <5>1
                <6>2. g[s \ {x}] = u[1] + (Cardinality(s) - 1) - 1
                    BY <4>4, <5>1
                <6>3. QED
                    BY <3>2, <4>1, <6>1, <6>2
            <5>2. CASE 1 \notin s
                BY <3>2, <4>1, <4>3, <4>4, <5>2
            <5>3. QED
                BY <5>1, <5>2
        <4>6. QED
            BY <2>2, <4>5 DEF x
    <3>5. QED
        BY <3>3, <3>4
  <2>3. QED
    BY <2>1, <2>2
<1>5. g = [s \in SUBSET D |-> IF s = {} THEN 0
                ELSE u[CHOOSE x \in s : TRUE] + g[s \ {CHOOSE x \in s : TRUE}]]
  <2>1. g = [s \in SUBSET D |-> g[s]]
    OBVIOUS
  <2> HIDE DEF g
  <2>2. QED
    BY <1>4, <2>1
<1>6. SumFunction(u) = g[D]
    <2> HIDE DEF g
    <2> QED BY <1>2, <1>5, SumIs
<1>7. g[D] = IF 1 \in D THEN u[1] + Len(u) - 1 ELSE Len(u)
    BY <1>2
<1>8. u = <<>> <=> Len(u) = 0
    BY EmptySeq
<1>9. QED
    BY <1>1, <1>6, <1>7, <1>8

InFlight == {w \in Workers : wpc[w] \in {"committed", "metered"}}

\* What the records say, and will say once every worker between its commit and
\* its increment is through, is within the runs published: a worker adds to
\* the value it read, and no record is ever below that value and the runs
\* since counted by other records.
Billed ==
    /\ IsFiniteSet(InFlight) /\ Cardinality(InFlight) <= published
    /\ Ones(usage)
    /\ usage # <<>> => usage[1] + Len(usage) - 1 + Cardinality(InFlight) <= published
    /\ \A w \in Workers : wpc[w] = "metered" /\ wread[w] # <<>> =>
          /\ usage # <<>>
          /\ wread[w][1] + Len(usage) - 1 + Cardinality(InFlight) <= published

LEMMA InitBilled == Init => Billed
<1> SUFFICES ASSUME Init PROVE Billed
    OBVIOUS
<1>1. InFlight = {}
    BY DEF Init, InFlight
<1>2. QED
    BY <1>1, FS_EmptySet DEF Init, Billed, Ones

\* A worker that counts its contract makes room for it.
LEMMA CountsOne ==
    ASSUME NEW a \in Nat, NEW n \in Nat, NEW c \in Nat, NEW b \in Nat, NEW p \in Nat,
           c + 1 <= b, a + n - 1 + b <= p
    PROVE  a + 1 + n - 1 + c <= p /\ a + n - 1 + c <= p
OBVIOUS

\* Nothing is billed when no run is published, no record written, and no
\* worker comes to the increment.
LEMMA NothingBilled ==
    ASSUME TypeOK, Billed, usage' = usage, wread' = wread, published' = published,
           \A v \in Workers : /\ wpc'[v] \in {"committed", "metered"} => v \in InFlight
                              /\ wpc'[v] = "metered" => wpc[v] = "metered"
    PROVE  Billed'
<1>1. InFlight' \subseteq InFlight
    BY DEF InFlight
<1>2. /\ IsFiniteSet(InFlight') /\ Cardinality(InFlight') \in Nat /\ Cardinality(InFlight) \in Nat
      /\ Cardinality(InFlight') <= Cardinality(InFlight)
    BY <1>1, FS_Subset, FS_CardinalityType DEF Billed
<1>3. published \in Nat /\ Len(usage) \in Nat /\ (usage # <<>> => usage[1] \in Nat)
    BY DEF TypeOK
<1>4. \A v \in Workers : wread[v] # <<>> => wread[v][1] \in Nat
    BY DEF TypeOK
<1>5. Ones(usage)'
    BY DEF Billed, Ones
<1>6. Cardinality(InFlight') <= published'
    BY <1>2, <1>3 DEF Billed
<1>7. usage' # <<>> => usage'[1] + Len(usage') - 1 + Cardinality(InFlight') <= published'
    BY <1>2, <1>3 DEF Billed
<1>8. ASSUME NEW v \in Workers, wpc'[v] = "metered", wread'[v] # <<>>
      PROVE  usage' # <<>> /\ wread'[v][1] + Len(usage') - 1 + Cardinality(InFlight') <= published'
  <2>1. usage # <<>> /\ wread[v][1] + Len(usage) - 1 + Cardinality(InFlight) <= published
    BY <1>8 DEF Billed
  <2>2. QED
    BY <1>2, <1>3, <1>4, <1>8, <2>1
<1>9. QED
    BY <1>2, <1>5, <1>6, <1>7, <1>8 DEF Billed

LEMMA BilledStep == IInv /\ TypeOK' /\ Billed /\ [Next]_vars => Billed'
<1> SUFFICES ASSUME IInv, TypeOK', Billed, [Next]_vars PROVE Billed'
    OBVIOUS
<1> USE DEF IInv
<1>1. /\ TypeOK /\ IsFiniteSet(InFlight) /\ Cardinality(InFlight) \in Nat
      /\ published \in Nat /\ Len(usage) \in Nat /\ (usage # <<>> => usage[1] \in Nat)
      /\ \A v \in Workers : wread[v] # <<>> => wread[v][1] \in Nat
  <2>1. published \in Nat /\ Len(usage) \in Nat /\ (usage # <<>> => usage[1] \in Nat)
    BY DEF TypeOK
  <2>2. \A v \in Workers : wread[v] # <<>> => wread[v][1] \in Nat
    BY DEF TypeOK
  <2>3. QED
    BY <2>1, <2>2, FS_CardinalityType DEF Billed
<1>2. ASSUME NEW r \in Requests,
             TriggerBegin(r) \/ DeleteBegin(r) \/ Refuse(r) \/ RequestStep(r)
      PROVE  Billed'
  <2>1. usage' = usage
    BY <1>2 DEF TriggerBegin, DeleteBegin, Refuse, RequestStep, PurgeFindings, PurgeTasks,
                CreateTask, CommitTrigger, CommitDelete, Abort, tables
  <2>2. wpc' = wpc /\ wread' = wread /\ published' = published
    BY <1>2, RequestsLeaveWorkers DEF wvars, history
  <2>3. QED
    BY <1>1, <2>1, <2>2, NothingBilled DEF InFlight
<1>3. ASSUME NEW w \in Workers, NEW m \in Msg, Deliver(w, m) PROVE Billed'
    BY <1>1, <1>3, NothingBilled DEF Deliver, tables, InFlight, TypeOK
<1>4. ASSUME NEW w \in Workers,
             \/ Claim(w) \/ RunFails(w) \/ MarkFailed(w) \/ MarkFails(w) \/ Retry(w)
             \/ Ack(w) \/ Redeliver(w)
      PROVE  Billed'
  <2>1. usage' = usage /\ wread' = wread /\ published' = published
    BY <1>4 DEF Claim, RunFails, MarkFailed, MarkFails, Retry, Ack, Redeliver,
                tables, wvars, history
  <2>2. \A v \in Workers : wpc'[v] \in {"committed", "metered"} => wpc'[v] = wpc[v]
    BY <1>1, <1>4 DEF Claim, RunFails, MarkFailed, MarkFails, Retry, Ack, Redeliver,
                Step, wvars, TypeOK
  <2>3. QED
    BY <1>1, <2>1, <2>2, NothingBilled DEF InFlight
<1>5. ASSUME NEW w \in Workers, Publish(w) PROVE Billed'
  <2>1. /\ usage' = usage /\ wread' = wread /\ published' = published + 1
        /\ wpc' = [wpc EXCEPT ![w] = "committed"]
    BY <1>5 DEF Publish, Step
  <2>2. InFlight' \subseteq InFlight \cup {w}
    BY <1>1, <2>1 DEF InFlight, TypeOK
  <2>3. /\ IsFiniteSet(InFlight') /\ Cardinality(InFlight') \in Nat
        /\ Cardinality(InFlight') <= Cardinality(InFlight) + 1
    BY <1>1, <2>2, SetGrowsByOne
  <2>4. Ones(usage)'
    BY <2>1 DEF Billed, Ones
  <2>5. Cardinality(InFlight') <= published'
        /\ (usage' # <<>> => usage'[1] + Len(usage') - 1 + Cardinality(InFlight') <= published')
    BY <1>1, <2>1, <2>3 DEF Billed
  <2>6. ASSUME NEW v \in Workers, wpc'[v] = "metered", wread'[v] # <<>>
        PROVE  usage' # <<>> /\ wread'[v][1] + Len(usage') - 1 + Cardinality(InFlight') <= published'
    <3>1. wpc[v] = "metered"
        BY <1>1, <2>1, <2>6 DEF TypeOK
    <3>2. usage # <<>> /\ wread[v][1] + Len(usage) - 1 + Cardinality(InFlight) <= published
        BY <2>1, <2>6, <3>1 DEF Billed
    <3>3. QED
        BY <1>1, <2>1, <2>3, <2>6, <3>2
  <2>7. QED
    BY <2>3, <2>4, <2>5, <2>6 DEF Billed
<1>6. ASSUME NEW w \in Workers, ReadUsage(w) PROVE Billed'
  <2>1. /\ usage' = usage /\ published' = published /\ wpc[w] = "committed"
        /\ wread' = [wread EXCEPT ![w] = usage]
        /\ wpc' = [wpc EXCEPT ![w] = "metered"]
    BY <1>6 DEF ReadUsage, Step, tables, history
  <2>2. InFlight' = InFlight
    BY <1>1, <2>1 DEF InFlight, TypeOK
  <2>3. ASSUME NEW v \in Workers, wpc'[v] = "metered", wread'[v] # <<>>
        PROVE  usage' # <<>> /\ wread'[v][1] + Len(usage') - 1 + Cardinality(InFlight') <= published'
    <3>1. CASE v = w
        BY <1>1, <2>1, <2>2, <2>3, <3>1 DEF Billed, TypeOK
    <3>2. CASE v # w
        <4>1. wpc[v] = "metered" /\ wread'[v] = wread[v]
            BY <1>1, <2>1, <2>3, <3>2 DEF TypeOK
        <4>2. QED
            BY <2>1, <2>2, <2>3, <4>1 DEF Billed
    <3>3. QED
        BY <3>1, <3>2
  <2>4. Ones(usage)'
    BY <2>1 DEF Billed, Ones
  <2>5. QED
    BY <2>1, <2>2, <2>3, <2>4 DEF Billed
<1>7. ASSUME NEW w \in Workers, UsageFails(w) \/ Crash(w) \/ ChildKilled(w) PROVE Billed'
  <2>1. /\ usage' = usage /\ published' = published
        /\ wpc'[w] \notin {"committed", "metered"}
        /\ \A v \in Workers \ {w} : wpc'[v] = wpc[v] /\ wread'[v] = wread[v]
    BY <1>1, <1>7 DEF UsageFails, Crash, ChildKilled, tables, history, TypeOK
  <2>2. InFlight' \subseteq InFlight
    BY <2>1 DEF InFlight
  <2>3. /\ IsFiniteSet(InFlight') /\ Cardinality(InFlight') \in Nat
        /\ Cardinality(InFlight') <= Cardinality(InFlight)
    BY <1>1, <2>2, FS_Subset, FS_CardinalityType
  <2>4. Ones(usage)'
    BY <2>1 DEF Billed, Ones
  <2>5. Cardinality(InFlight') <= published'
        /\ (usage' # <<>> => usage'[1] + Len(usage') - 1 + Cardinality(InFlight') <= published')
    BY <1>1, <2>1, <2>3 DEF Billed
  <2>6. ASSUME NEW v \in Workers, wpc'[v] = "metered", wread'[v] # <<>>
        PROVE  usage' # <<>> /\ wread'[v][1] + Len(usage') - 1 + Cardinality(InFlight') <= published'
    <3>1. wpc[v] = "metered" /\ wread'[v] = wread[v]
        BY <2>1, <2>6
    <3>2. usage # <<>> /\ wread[v][1] + Len(usage) - 1 + Cardinality(InFlight) <= published
        BY <2>6, <3>1 DEF Billed
    <3>3. QED
        BY <1>1, <2>1, <2>3, <2>6, <3>1, <3>2
  <2>7. QED
    BY <2>3, <2>4, <2>5, <2>6 DEF Billed
<1>8. ASSUME NEW w \in Workers, WriteUsage(w) PROVE Billed'
  <2>1. /\ published' = published /\ wpc[w] = "metered"
        /\ wread' = [wread EXCEPT ![w] = <<>>] /\ wpc' = [wpc EXCEPT ![w] = "done"]
        /\ usage' = IF wread[w] = <<>> THEN Append(usage, 1)
                    ELSE [usage EXCEPT ![1] = wread[w][1] + 1]
    BY <1>8 DEF WriteUsage, Step, history
  <2>2. w \in InFlight /\ InFlight' \subseteq InFlight \ {w}
    BY <1>1, <2>1 DEF InFlight, TypeOK
  <2>3. /\ IsFiniteSet(InFlight') /\ Cardinality(InFlight') \in Nat
        /\ Cardinality(InFlight') + 1 <= Cardinality(InFlight)
    BY <1>1, <2>2, SetShrinksByOne
  <2>4. ASSUME NEW v \in Workers, wpc'[v] = "metered", wread'[v] # <<>>
        PROVE  /\ usage # <<>> /\ wread'[v][1] \in Nat
               /\ wread'[v][1] + Len(usage) - 1 + Cardinality(InFlight) <= published
    <3>1. wpc[v] = "metered" /\ wread'[v] = wread[v]
        BY <1>1, <2>1, <2>4 DEF TypeOK
    <3>2. QED
        BY <1>1, <2>4, <3>1 DEF Billed
  <2>5. CASE wread[w] = <<>>
    <3>1. usage' # <<>> /\ Len(usage') = Len(usage) + 1 /\ usage'[Len(usage) + 1] = 1
          /\ \A i \in 1..Len(usage) : usage'[i] = usage[i]
        BY <1>1, <2>1, <2>5 DEF TypeOK
    <3>2. Ones(usage)'
        <4>1. ASSUME NEW i \in 2..Len(usage') PROVE usage'[i] = 1
            <5>1. CASE i = Len(usage) + 1
                BY <3>1, <5>1
            <5>2. CASE i # Len(usage) + 1
                <6>1. i \in 2..Len(usage) /\ i \in 1..Len(usage)
                    BY <1>1, <3>1, <5>2
                <6>2. QED
                    BY <3>1, <6>1 DEF Billed, Ones
            <5>3. QED
                BY <5>1, <5>2
        <4>2. QED
            BY <4>1 DEF Ones
    <3>3. Cardinality(InFlight') <= published'
          /\ usage'[1] + Len(usage') - 1 + Cardinality(InFlight') <= published'
        <4>1. CASE usage = <<>>
            BY <1>1, <2>1, <2>3, <3>1, <4>1 DEF Billed
        <4>2. CASE usage # <<>>
            <5>1. usage'[1] = usage[1]
                BY <1>1, <3>1, <4>2, EmptySeq DEF TypeOK
            <5>2. usage[1] + Len(usage) - 1 + Cardinality(InFlight) <= published
                BY <4>2 DEF Billed
            <5>3. Cardinality(InFlight) <= published /\ usage[1] \in Nat
                BY <1>1, <4>2 DEF Billed
            <5>4. QED
                BY <1>1, <2>1, <2>3, <3>1, <5>1, <5>2, <5>3
        <4>3. QED
            BY <4>1, <4>2
    <3>4. ASSUME NEW v \in Workers, wpc'[v] = "metered", wread'[v] # <<>>
          PROVE  wread'[v][1] + Len(usage') - 1 + Cardinality(InFlight') <= published'
        <4>1. wpc[v] = "metered" /\ wread[v] = wread'[v] /\ wread[v] # <<>>
            BY <2>1, <2>4, <3>4
        <4>2. wread[v][1] + Len(usage) - 1 + Cardinality(InFlight) <= published
            BY <4>1 DEF Billed
        <4>3. wread[v][1] \in Nat
            BY <1>1, <4>1
        <4>4. QED
            BY <1>1, <2>1, <2>3, <3>1, <4>1, <4>2, <4>3
    <3>5. QED
        BY <2>3, <3>1, <3>2, <3>3, <3>4 DEF Billed
  <2>6. CASE wread[w] # <<>>
    <3>1. usage # <<>> /\ wread[w][1] + Len(usage) - 1 + Cardinality(InFlight) <= published
        BY <2>1, <2>6 DEF Billed
    <3>2. 1 \in 1..Len(usage) /\ wread[w][1] \in Nat /\ wread[w][1] + 1 \in Nat
        <4>1. usage \in Seq(Nat) /\ Len(usage) # 0
            BY <1>1, <3>1, EmptySeq DEF TypeOK
        <4>2. 1 \in 1..Len(usage)
            BY <1>1, <4>1
        <4>3. wread[w][1] \in Nat
            BY <1>1, <2>6
        <4>4. QED
            BY <4>2, <4>3
    <3>3. /\ usage' \in Seq(Nat) /\ Len(usage') = Len(usage) /\ usage'[1] = wread[w][1] + 1
          /\ \A i \in 2..Len(usage) : usage'[i] = usage[i]
        BY <1>1, <2>1, <2>6, <3>2, ExceptSeq DEF TypeOK
    <3>4. Ones(usage)' /\ usage' # <<>>
        <4>1. \A i \in 2..Len(usage) : usage[i] = 1
            BY DEF Billed, Ones
        <4>2. Ones(usage)'
            BY <3>3, <4>1 DEF Ones
        <4>3. Len(usage') # 0
            BY <1>1, <3>2, <3>3
        <4>4. usage' # <<>>
            BY <4>3
        <4>5. QED
            BY <4>2, <4>4
    <3>5. Cardinality(InFlight') <= published'
          /\ usage'[1] + Len(usage') - 1 + Cardinality(InFlight') <= published'
        <4>1. wread[w][1] + 1 + Len(usage) - 1 + Cardinality(InFlight') <= published
            BY <1>1, <2>3, <3>1, <3>2, CountsOne
        <4>2. Cardinality(InFlight') <= published'
            BY <1>1, <2>1, <2>3 DEF Billed
        <4>3. QED
            BY <2>1, <3>3, <4>1, <4>2
    <3>6. ASSUME NEW v \in Workers, wpc'[v] = "metered", wread'[v] # <<>>
          PROVE  wread'[v][1] + Len(usage') - 1 + Cardinality(InFlight') <= published'
        <4>1. /\ wread'[v][1] \in Nat
              /\ wread'[v][1] + Len(usage) - 1 + Cardinality(InFlight) <= published
            BY <2>4, <3>6
        <4>2. wread'[v][1] + Len(usage) - 1 + Cardinality(InFlight') <= published
            BY <1>1, <2>3, <4>1, CountsOne
        <4>3. QED
            BY <2>1, <3>3, <4>2
    <3>7. QED
        BY <2>3, <3>4, <3>5, <3>6 DEF Billed
  <2>7. QED
    BY <2>5, <2>6
<1>9. CASE Quiet \/ UNCHANGED vars
    BY <1>1, <1>9, NothingBilled DEF Quiet, vars, tables, wvars, history, InFlight
<1>10. QED
    BY <1>2, <1>3, <1>4, <1>5, <1>6, <1>7, <1>8, <1>9 DEF Next, WorkerStep

\* quota_service.py, increment_usage: its two halves race with those of other
\* workers, and increments may be lost, but the month's records never count
\* more contracts than runs were committed, for any number of workers.
THEOREM NeverOverbilledAlways == Spec => []NeverOverbilled
<1>1. IInv /\ Billed => NeverOverbilled
  <2> SUFFICES ASSUME IInv, Billed PROVE SumFunction(usage) <= published
    BY DEF NeverOverbilled
  <2>1. usage \in Seq(Nat) /\ Ones(usage) /\ published \in Nat
    BY DEF IInv, TypeOK, Billed
  <2>2. SumFunction(usage) = IF usage = <<>> THEN 0 ELSE usage[1] + Len(usage) - 1
    BY <2>1, SumOfRecords
  <2>3. /\ Cardinality(InFlight) \in Nat /\ Len(usage) \in Nat
        /\ (usage # <<>> => usage[1] \in Nat)
    BY <2>1, FS_CardinalityType DEF Billed
  <2>4. QED
    BY <2>1, <2>2, <2>3 DEF Billed
<1>2. IInv /\ IInv' /\ Billed /\ [Next]_vars => Billed'
    BY BilledStep DEF IInv
<1>3. QED
    BY InitBilled, <1>1, <1>2, Invariant, PTL DEF Spec

=============================================================================
