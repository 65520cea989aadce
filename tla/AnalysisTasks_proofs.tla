------------------------ MODULE AnalysisTasks_proofs ------------------------
(***************************************************************************)
(* Proofs about AnalysisTasks for any number of requests, workers, types,  *)
(* retries and redeliveries.                                               *)
(***************************************************************************)
EXTENDS AnalysisTasks, SequenceTheorems, TLAPS

\* A worker that is at work holds a message.
Working ==
    \A w \in Workers : wpc[w] # "idle" => wmsg[w] \in Msg

\* A worker that has flushed RUNNING holds the row lock of a task that exists.
ClaimedRow ==
    \A w \in Workers : wpc[w] = "claimed" =>
        lock[Held(w)] = w /\ Exists(Held(w))

\* A request holds row locks only once it has purged, and what it locked has
\* no finding and no result its purge has not seen.
PurgedRow ==
    \A r \in Requests : \A t \in TaskId : lock[t] = r =>
        /\ rpc[r] \in {"creating", "removing"}
        /\ flags[t] <= rseen[r].flags[t]
        /\ result[t] => rseen[r].result[t]

\* Only rows are locked.
LockedRow == \A t \in TaskId : lock[t] # Free => Exists(t)

\* Nobody sees a row of a request that has not ended.
RowOfEnded == \A t \in TaskId : Exists(t) => rpc[t[1]] = "ended"

IInv == /\ TypeOK /\ Working /\ ClaimedRow /\ PurgedRow /\ LockedRow /\ RowOfEnded
        /\ FindingsHaveTask /\ RunsAreWhole

-----------------------------------------------------------------------------
LEMMA InitInvariant == Init => IInv
<1> SUFFICES ASSUME Init PROVE IInv
    OBVIOUS
<1> USE DEF Init
<1>1. TypeOK
  <2>1. PICK mode \in Modes : rkind = [r \in Requests |-> mode]
    OBVIOUS
  <2>2. rkind \in [Requests -> {"trigger", "inline", "delete"}]
    BY <2>1, ModesAssumption
  <2>3. QED
    BY <2>2 DEF TypeOK, Status, ReqPc, InTxn, WorkerPc, NothingSeen
<1>2. Working /\ ClaimedRow
    BY DEF Working, ClaimedRow
<1>3. PurgedRow
    BY ActorsAssumption DEF PurgedRow
<1>4. FindingsHaveTask /\ RunsAreWhole
    BY DEF FindingsHaveTask, RunsAreWhole, Exists
<1>5. LockedRow /\ RowOfEnded
    BY DEF LockedRow, RowOfEnded, Exists
<1>6. QED
    BY <1>1, <1>2, <1>3, <1>4, <1>5 DEF IInv

\* What a worker holds names a task.
LEMMA HeldType ==
    ASSUME NEW w \in Workers, wmsg[w] \in Msg
    PROVE  Held(w) \in TaskId /\ wmsg[w].task \in TaskId /\ wmsg[w].retries \in Nat
BY BoundsAssumption DEF Held, Msg

\* Sending keeps the broker's counts natural numbers.
LEMMA SendType ==
    ASSUME queue \in [Msg -> Nat], NEW m, Send(m)
    PROVE  queue' \in [Msg -> Nat]
<1>1. queue' = [x \in Msg |-> IF x = m THEN queue[x] + 1 ELSE queue[x]]
    BY DEF Send
<1>2. QED
    BY <1>1

\* What two DELETEs leave is again a number of findings and a result bit.
LEMMA LeftType ==
    ASSUME flags \in [TaskId -> Nat], result \in [TaskId -> BOOLEAN],
           rseen \in [Requests -> [flags : [TaskId -> Nat], result : [TaskId -> BOOLEAN]]],
           NEW r \in Requests, NEW t \in TaskId
    PROVE  FlagsLeft(r, t) \in Nat /\ ResultLeft(r, t) \in BOOLEAN
<1>1. /\ flags[t] \in Nat /\ rseen[r].flags[t] \in Nat
      /\ result[t] \in BOOLEAN /\ rseen[r].result[t] \in BOOLEAN
    OBVIOUS
<1>2. FlagsLeft(r, t) \in Nat
    BY <1>1 DEF FlagsLeft
<1>3. QED
    BY <1>1, <1>2 DEF ResultLeft

\* Overwriting the first counter keeps a sequence of counters.
LEMMA SetFirst ==
    ASSUME NEW s \in Seq(Nat), NEW n \in Nat
    PROVE  [s EXCEPT ![1] = n] \in Seq(Nat)
<1>1. CASE s = <<>>
  <2>1. DOMAIN s = 1..0 /\ s \in [1..0 -> Nat]
    BY <1>1, LenProperties, EmptySeq
  <2>2. 1 \notin 1..0
    OBVIOUS
  <2>3. [s EXCEPT ![1] = n] = s
    BY <2>1, <2>2
  <2>4. QED
    BY <2>3
<1>2. CASE s # <<>>
  <2>1. 1 \in 1..Len(s)
    BY <1>2, EmptySeq
  <2>2. QED
    BY <2>1, ExceptSeq
<1>3. QED
    BY <1>1, <1>2

LEMMA TypeInvariantStep == IInv /\ [Next]_vars => TypeOK'
<1> SUFFICES ASSUME IInv, [Next]_vars PROVE TypeOK'
    OBVIOUS
<1> USE BoundsAssumption, ActorsAssumption DEF IInv, TypeOK, Working
<1>1. ASSUME NEW r \in Requests, TriggerBegin(r) PROVE TypeOK'
    BY <1>1 DEF TriggerBegin, Goto, ReqPc, InTxn, tables, wvars, history, Existing
<1>2. ASSUME NEW r \in Requests, DeleteBegin(r) PROVE TypeOK'
    BY <1>2 DEF DeleteBegin, Goto, ReqPc, InTxn, tables, wvars, history, Existing
<1>3. ASSUME NEW r \in Requests, Refuse(r) PROVE TypeOK'
    BY <1>3 DEF Refuse, Goto, ReqPc, InTxn, tables, wvars, history
<1>4. ASSUME NEW r \in Requests, PurgeFindings(r) PROVE TypeOK'
    BY <1>4 DEF PurgeFindings, Goto, ReqPc, InTxn, tables, wvars, history
<1>5. ASSUME NEW r \in Requests, PurgeTasks(r) PROVE TypeOK'
    BY <1>5 DEF PurgeTasks, Goto, ReqPc, InTxn, wvars, history
<1>6. ASSUME NEW r \in Requests, CreateTask(r) PROVE TypeOK'
  <2>1. queue' \in [Msg -> Nat]
    <3>1. CASE rkind[r] = "inline"
        BY <1>6, <3>1 DEF CreateTask, Dispatch
    <3>2. CASE rkind[r] # "inline"
        BY <1>6, <3>2, SendType DEF CreateTask, Dispatch
    <3>3. QED
        BY <3>1, <3>2
  <2>2. rmade' \in [Requests -> Nat]
    BY <1>6 DEF CreateTask
  <2>3. QED
    BY <1>6, <2>1, <2>2 DEF CreateTask, tables, wvars, history
<1>7. ASSUME NEW r \in Requests, CommitTrigger(r) PROVE TypeOK'
  <2>1. row' \in [TaskId -> Status]
    BY <1>7 DEF CommitTrigger, Status
  <2>2. flags' \in [TaskId -> Nat]
    <3>1. PICK reported \in SUBSET Ran(r) :
            flags' = [t \in TaskId |-> IF t \in Purged(r) THEN FlagsLeft(r, t)
                                       ELSE IF t \in reported THEN 1 ELSE flags[t]]
        BY <1>7 DEF CommitTrigger
    <3>2. QED
        BY <3>1, LeftType
  <2>3. result' \in [TaskId -> BOOLEAN]
    BY <1>7, LeftType DEF CommitTrigger
  <2>4. lock' \in [TaskId -> {Free} \cup Requests \cup Workers]
    BY <1>7 DEF CommitTrigger, Release
  <2>5. QED
    BY <1>7, <2>1, <2>2, <2>3, <2>4 DEF CommitTrigger, Goto, ReqPc, InTxn, wvars, history
<1>8. ASSUME NEW r \in Requests, CommitDelete(r) PROVE TypeOK'
    BY <1>8, LeftType DEF CommitDelete, Goto, ReqPc, InTxn, wvars, history, Release, Status
<1>9. ASSUME NEW r \in Requests, Abort(r) PROVE TypeOK'
    BY <1>9 DEF Abort, Goto, ReqPc, InTxn, wvars, history, Release
<1>10. ASSUME NEW w \in Workers, NEW m \in Msg, Deliver(w, m) PROVE TypeOK'
  <2>1. queue[m] \in Nat /\ queue[m] - 1 \in Nat
    BY <1>10 DEF Deliver
  <2>2. m.task \in TaskId
    BY DEF Msg
  <2>3. queue' \in [Msg -> Nat]
    BY <1>10, <2>1 DEF Deliver
  <2>4. missed' \in SUBSET TaskId
    BY <1>10, <2>2 DEF Deliver
  <2>5. QED
    BY <1>10, <2>3, <2>4 DEF Deliver, WorkerPc, tables, rvars
<1>11. ASSUME NEW w \in Workers, Claim(w) PROVE TypeOK'
    BY <1>11 DEF Claim, Step, WorkerPc, rvars, history
<1>12. ASSUME NEW w \in Workers, RunFails(w) PROVE TypeOK'
    BY <1>12 DEF RunFails, WorkerPc, rvars, history, Release
<1>13. ASSUME NEW w \in Workers, Publish(w) PROVE TypeOK'
    BY <1>13, HeldType DEF Publish, Step, WorkerPc, rvars, Release, Status
<1>14. ASSUME NEW w \in Workers, ReadUsage(w) PROVE TypeOK'
    BY <1>14 DEF ReadUsage, Step, WorkerPc, tables, rvars, history
<1>15. ASSUME NEW w \in Workers, WriteUsage(w) PROVE TypeOK'
  <2>1. usage' \in Seq(Nat)
    <3>1. CASE wread[w] = <<>>
        BY <1>15, <3>1 DEF WriteUsage
    <3>2. CASE wread[w] # <<>>
        <4>1. wread[w][1] + 1 \in Nat
            BY <3>2
        <4>2. usage' = [usage EXCEPT ![1] = wread[w][1] + 1]
            BY <1>15, <3>2 DEF WriteUsage
        <4>3. QED
            BY <4>1, <4>2, SetFirst
    <3>3. QED
        BY <3>1, <3>2
  <2>2. wread' \in [Workers -> Seq(Nat)]
    BY <1>15 DEF WriteUsage
  <2>3. QED
    BY <1>15, <2>1, <2>2 DEF WriteUsage, Step, WorkerPc, rvars, history
<1>16. ASSUME NEW w \in Workers, UsageFails(w) PROVE TypeOK'
    BY <1>16 DEF UsageFails, WorkerPc, tables, rvars, history
<1>17. ASSUME NEW w \in Workers, MarkFailed(w) PROVE TypeOK'
    BY <1>17 DEF MarkFailed, Step, WorkerPc, rvars, history, Status
<1>18. ASSUME NEW w \in Workers, MarkFails(w) PROVE TypeOK'
    BY <1>18, HeldType DEF MarkFails, Step, WorkerPc, tables, rvars
<1>19. ASSUME NEW w \in Workers, Retry(w) PROVE TypeOK'
    BY <1>19, SendType DEF Retry, Step, WorkerPc, tables, rvars, history
<1>20. ASSUME NEW w \in Workers, Ack(w) PROVE TypeOK'
    BY <1>20 DEF Ack, Step, WorkerPc, tables, rvars, history
<1>21. ASSUME NEW w \in Workers, Crash(w) PROVE TypeOK'
  <2>1. wmsg[w] \in Msg /\ Held(w) \in TaskId
    BY <1>21, HeldType DEF Crash, CanRedeliver
  <2>2. queue' \in [Msg -> Nat]
    BY <1>21, <2>1, SendType DEF Crash
  <2>3. redelivered' \in [TaskId -> Nat]
    BY <1>21, <2>1 DEF Crash
  <2>4. lock' \in [TaskId -> {Free} \cup Requests \cup Workers]
    BY <1>21 DEF Crash, Release
  <2>5. wread' \in [Workers -> Seq(Nat)]
    BY <1>21 DEF Crash
  <2>6. wpc' \in [Workers -> WorkerPc] /\ wmsg' \in [Workers -> Msg \cup {NoMsg}]
    BY <1>21 DEF Crash, WorkerPc
  <2>7. QED
    BY <1>21, <2>2, <2>3, <2>4, <2>5, <2>6 DEF Crash, rvars
<1>22. ASSUME NEW w \in Workers, ChildKilled(w) PROVE TypeOK'
  <2>1. lost' \in SUBSET TaskId
    BY <1>22, HeldType DEF ChildKilled
  <2>2. lock' \in [TaskId -> {Free} \cup Requests \cup Workers]
    BY <1>22 DEF ChildKilled, Release
  <2>3. wread' \in [Workers -> Seq(Nat)]
    BY <1>22 DEF ChildKilled
  <2>4. wpc' \in [Workers -> WorkerPc] /\ wmsg' \in [Workers -> Msg \cup {NoMsg}]
    BY <1>22 DEF ChildKilled, WorkerPc
  <2>5. QED
    BY <1>22, <2>1, <2>2, <2>3, <2>4 DEF ChildKilled, rvars
<1>23. ASSUME NEW w \in Workers, Redeliver(w) PROVE TypeOK'
  <2>1. wmsg[w] \in Msg /\ Held(w) \in TaskId
    BY <1>23, HeldType DEF Redeliver, CanRedeliver
  <2>2. queue' \in [Msg -> Nat]
    BY <1>23, <2>1, SendType DEF Redeliver
  <2>3. redelivered' \in [TaskId -> Nat]
    BY <1>23, <2>1 DEF Redeliver
  <2>4. QED
    BY <1>23, <2>2, <2>3 DEF Redeliver, tables, rvars, wvars
<1>24. CASE Quiet \/ UNCHANGED vars
    BY <1>24 DEF Quiet, vars, tables, rvars, wvars, history
<1>25. QED
    BY <1>1, <1>2, <1>3, <1>4, <1>5, <1>6, <1>7, <1>8, <1>9, <1>10, <1>11,
       <1>12, <1>13, <1>14, <1>15, <1>16, <1>17, <1>18, <1>19, <1>20, <1>21,
       <1>22, <1>23, <1>24 DEF Next, RequestStep, WorkerStep


-----------------------------------------------------------------------------
(* The other conjuncts change with a few actions only; each lemma below    *)
(* takes the actions in three groups: those of requests, those of workers, *)
(* and the steps that leave its variables alone.                           *)

LEMMA WorkingStep == IInv /\ [Next]_vars => Working'
<1> SUFFICES ASSUME IInv, [Next]_vars, NEW v \in Workers, wpc'[v] # "idle"
             PROVE  wmsg'[v] \in Msg
    BY DEF Working
<1> USE DEF IInv, TypeOK, Working
<1>1. CASE wpc' = wpc /\ wmsg' = wmsg
    BY <1>1
<1>2. ASSUME NEW w \in Workers, NEW m \in Msg, Deliver(w, m) PROVE wmsg'[v] \in Msg
    BY <1>2 DEF Deliver
<1>3. ASSUME NEW w \in Workers, wmsg' = wmsg, wpc[w] # "idle",
             \A u \in Workers \ {w} : wpc'[u] = wpc[u]
      PROVE  wmsg'[v] \in Msg
    BY <1>3
<1>4. ASSUME NEW w \in Workers, Ack(w) \/ Crash(w) \/ ChildKilled(w) PROVE wmsg'[v] \in Msg
    BY <1>4 DEF Ack, Step, Crash, ChildKilled
<1>5. ASSUME NEW r \in Requests,
             TriggerBegin(r) \/ DeleteBegin(r) \/ Refuse(r) \/ RequestStep(r)
      PROVE  wpc' = wpc /\ wmsg' = wmsg
    BY <1>5 DEF TriggerBegin, DeleteBegin, Refuse, RequestStep, PurgeFindings,
                PurgeTasks, CreateTask, CommitTrigger, CommitDelete, Abort, wvars
<1>6. ASSUME NEW w \in Workers,
             \/ Claim(w) \/ RunFails(w) \/ Publish(w) \/ ReadUsage(w) \/ WriteUsage(w)
             \/ UsageFails(w) \/ MarkFailed(w) \/ MarkFails(w) \/ Retry(w)
      PROVE  /\ wmsg' = wmsg /\ wpc[w] # "idle"
             /\ \A u \in Workers \ {w} : wpc'[u] = wpc[u]
    BY <1>6 DEF Claim, RunFails, Publish, ReadUsage, WriteUsage, UsageFails,
                MarkFailed, MarkFails, Retry, Step
<1>7. CASE (\E w \in Workers : Redeliver(w)) \/ Quiet \/ UNCHANGED vars
    BY <1>7, <1>1 DEF Redeliver, Quiet, vars, wvars
<1>8. QED
    BY <1>1, <1>2, <1>3, <1>4, <1>5, <1>6, <1>7 DEF Next, WorkerStep

\* No request has the name of a worker, and nobody is Free.
LEMMA Actors ==
    ASSUME NEW r \in Requests, NEW w \in Workers
    PROVE  r # w /\ r # Free /\ w # Free
BY ActorsAssumption

\* What a committing request has run itself is not in the table, so no other
\* transaction can have locked it.
LEMMA LockedNotRun ==
    ASSUME IInv, NEW r \in Requests, CommitTrigger(r),
           NEW t \in TaskId, lock[t] # Free
    PROVE  t \notin Ran(r)
<1>1. Exists(t) /\ rpc[t[1]] = "ended"
    BY DEF IInv, LockedRow, RowOfEnded
<1>2. rpc[r] = "creating"
    BY DEF CommitTrigger
<1>3. t[1] # r
    BY <1>1, <1>2
<1>4. QED
    BY <1>3 DEF Ran, Created

LEMMA ClaimedRowStep == IInv /\ [Next]_vars => ClaimedRow'
<1> SUFFICES ASSUME IInv, [Next]_vars, NEW v \in Workers, wpc'[v] = "claimed"
             PROVE  wmsg'[v] \in Msg /\ lock'[wmsg'[v].task] = v /\ row'[wmsg'[v].task] # "none"
    BY DEF ClaimedRow, Held, Exists
<1> DEFINE Claimed == /\ wpc[v] = "claimed" /\ wmsg[v] \in Msg
                      /\ wmsg[v].task \in TaskId
                      /\ lock[wmsg[v].task] = v /\ row[wmsg[v].task] # "none"
           Goal == wmsg'[v] \in Msg /\ lock'[wmsg'[v].task] = v /\ row'[wmsg'[v].task] # "none"
<1>0. wpc[v] = "claimed" => Claimed
    BY HeldType DEF IInv, ClaimedRow, Working, Held, Exists
<1> USE DEF IInv, TypeOK
<1>1. ASSUME wpc' = wpc, wmsg' = wmsg, lock' = lock, row' = row PROVE Goal
    BY <1>0, <1>1
<1>2. ASSUME NEW w \in Workers, wpc'[w] # "claimed", lock' = lock, row' = row,
             \A u \in Workers \ {w} : wpc'[u] = wpc[u] /\ wmsg'[u] = wmsg[u]
      PROVE  Goal
    BY <1>0, <1>2
<1>3. ASSUME NEW w \in Workers, Claim(w) PROVE Goal
  <2>1. CASE v = w
    BY <1>3, <2>1, HeldType DEF Claim, Step, Exists, Held, Working
  <2>2. CASE v # w
    <3>1. Claimed /\ wmsg' = wmsg /\ row' = row
        BY <1>0, <1>3, <2>2 DEF Claim, Step
    <3>2. wmsg[v].task # Held(w)
        BY <1>3, <3>1, ActorsAssumption DEF Claim, Unlocked
    <3>3. QED
        BY <1>3, <3>1, <3>2 DEF Claim
  <2>3. QED
    BY <2>1, <2>2
<1>4. ASSUME NEW w \in Workers, wpc'[w] # "claimed", lock' = Release(w), row' = row,
             \A u \in Workers \ {w} : wpc'[u] = wpc[u] /\ wmsg'[u] = wmsg[u]
      PROVE  Goal
    BY <1>0, <1>4 DEF Release
<1>5. ASSUME NEW w \in Workers, Publish(w) PROVE Goal
    BY <1>0, <1>5 DEF Publish, Step, Release
<1>6. ASSUME NEW w \in Workers, MarkFailed(w) PROVE Goal
    BY <1>0, <1>6 DEF MarkFailed, Step, Exists
<1>7. ASSUME NEW r \in Requests, PurgeTasks(r) PROVE Goal
  <2>1. Claimed /\ wmsg' = wmsg /\ row' = row
    BY <1>0, <1>7 DEF PurgeTasks, wvars
  <2>2. wmsg[v].task \notin PurgeTarget(r)
    BY <1>7, <2>1, Actors DEF PurgeTasks, Unlocked
  <2>3. QED
    BY <1>7, <2>1, <2>2 DEF PurgeTasks
<1>8. ASSUME NEW r \in Requests, CommitTrigger(r) PROVE Goal
  <2>1. Claimed /\ wmsg' = wmsg
    BY <1>0, <1>8 DEF CommitTrigger, wvars
  <2>2. wmsg[v].task \notin Purged(r)
    BY <2>1, Actors DEF Purged
  <2>3. QED
    BY <1>8, <2>1, <2>2, Actors DEF CommitTrigger, Release
<1>9. ASSUME NEW r \in Requests, CommitDelete(r) PROVE Goal
  <2>1. Claimed
    BY <1>0, <1>9 DEF CommitDelete, wvars
  <2>2. wmsg[v].task \in Existing /\ wmsg[v].task \notin Purged(r)
    BY <2>1, Actors DEF Purged, Existing, Exists
  <2>3. QED
    BY <1>9, <2>2 DEF CommitDelete
<1>10. ASSUME NEW r \in Requests, Abort(r) PROVE Goal
    BY <1>0, <1>10, Actors DEF Abort, Release, wvars
<1>11. ASSUME NEW r \in Requests,
              \/ TriggerBegin(r) \/ DeleteBegin(r) \/ Refuse(r)
              \/ PurgeFindings(r) \/ CreateTask(r)
       PROVE  Goal
    BY <1>11, <1>1 DEF TriggerBegin, DeleteBegin, Refuse, PurgeFindings, CreateTask,
                       tables, wvars
<1>12. ASSUME NEW w \in Workers, NEW m \in Msg, Deliver(w, m) PROVE Goal
    BY <1>12, <1>2 DEF Deliver, tables
<1>13. ASSUME NEW w \in Workers,
              \/ ReadUsage(w) \/ UsageFails(w) \/ WriteUsage(w)
              \/ MarkFails(w) \/ Retry(w) \/ Ack(w)
       PROVE  Goal
  <2>1. lock' = lock /\ row' = row
    BY <1>13 DEF ReadUsage, UsageFails, WriteUsage, MarkFails, Retry, Ack, tables
  <2>2. wpc'[w] # "claimed"
    BY <1>13 DEF ReadUsage, UsageFails, WriteUsage, MarkFails, Retry, Ack, Step
  <2>3. \A u \in Workers \ {w} : wpc'[u] = wpc[u] /\ wmsg'[u] = wmsg[u]
    BY <1>13 DEF ReadUsage, UsageFails, WriteUsage, MarkFails, Retry, Ack, Step
  <2>4. QED
    BY <1>2, <2>1, <2>2, <2>3
<1>14. ASSUME NEW w \in Workers, RunFails(w) \/ Crash(w) \/ ChildKilled(w) PROVE Goal
    BY <1>14, <1>4 DEF RunFails, Crash, ChildKilled
<1>15. CASE (\E w \in Workers : Redeliver(w)) \/ Quiet \/ UNCHANGED vars
    BY <1>15, <1>1 DEF Redeliver, Quiet, vars, wvars, tables
<1>16. QED
    BY <1>3, <1>5, <1>6, <1>7, <1>8, <1>9, <1>10, <1>11, <1>12, <1>13, <1>14,
       <1>15 DEF Next, RequestStep, WorkerStep

LEMMA PurgedRowStep == IInv /\ [Next]_vars => PurgedRow'
<1> SUFFICES ASSUME IInv, [Next]_vars, NEW q \in Requests, NEW t \in TaskId, lock'[t] = q
             PROVE  /\ rpc'[q] \in {"creating", "removing"}
                    /\ flags'[t] <= rseen'[q].flags[t]
                    /\ result'[t] => rseen'[q].result[t]
    BY DEF PurgedRow
<1> DEFINE Seen == /\ rpc[q] \in {"creating", "removing"}
                   /\ flags[t] <= rseen[q].flags[t]
                   /\ result[t] => rseen[q].result[t]
           Goal == /\ rpc'[q] \in {"creating", "removing"}
                   /\ flags'[t] <= rseen'[q].flags[t]
                   /\ result'[t] => rseen'[q].result[t]
<1>0. lock[t] = q => Seen
    BY DEF IInv, PurgedRow
<1> USE DEF IInv, TypeOK
<1>1. ASSUME lock' = lock, rpc' = rpc, rseen' = rseen, flags' = flags, result' = result
      PROVE  Goal
    BY <1>0, <1>1
<1>2. ASSUME NEW r \in Requests,
             TriggerBegin(r) \/ DeleteBegin(r) \/ Refuse(r) \/ PurgeFindings(r)
      PROVE  Goal
  <2>1. lock' = lock /\ flags' = flags /\ result' = result /\ rpc[r] \notin {"creating", "removing"}
    BY <1>2 DEF TriggerBegin, DeleteBegin, Refuse, PurgeFindings, tables
  <2>2. rpc'[q] = rpc[q] /\ rseen'[q] = rseen[q]
    BY <1>0, <1>2, <2>1 DEF TriggerBegin, DeleteBegin, Refuse, PurgeFindings, Goto
  <2>3. QED
    BY <1>0, <2>1, <2>2
<1>3. ASSUME NEW r \in Requests, PurgeTasks(r) PROVE Goal
  <2>1. CASE t \in PurgeTarget(r)
    <3>1. q = r
        BY <1>3, <2>1 DEF PurgeTasks
    <3>2. Exists(t) /\ ~ Dangling(r, t)
        BY <1>3, <2>1 DEF PurgeTasks, PurgeTarget, Existing
    <3>3. flags[t] \in Nat /\ rseen[r].flags[t] \in Nat
        OBVIOUS
    <3>4. flags[t] <= rseen[r].flags[t] /\ (result[t] => rseen[r].result[t])
        BY <3>2, <3>3 DEF Dangling
    <3>5. QED
        BY <1>3, <3>1, <3>4 DEF PurgeTasks, Goto
  <2>2. CASE t \notin PurgeTarget(r)
    <3>1. lock[t] = q
        BY <1>3, <2>2 DEF PurgeTasks
    <3>2. q # r
        BY <1>0, <1>3, <3>1 DEF PurgeTasks
    <3>3. QED
        BY <1>0, <1>3, <3>1, <3>2 DEF PurgeTasks, Goto
  <2>3. QED
    BY <2>1, <2>2
<1>4. ASSUME NEW r \in Requests, CommitTrigger(r) \/ CommitDelete(r) PROVE Goal
  <2>1. lock' = Release(r) /\ rseen' = rseen /\ rpc' = [rpc EXCEPT ![r] = "ended"]
    BY <1>4 DEF CommitTrigger, CommitDelete, Goto
  <2>2. lock[t] = q /\ q # r
    BY <2>1, ActorsAssumption DEF Release
  <2>3. t \notin Purged(r) /\ lock[t] # Free
    BY <2>2, ActorsAssumption DEF Purged
  <2>4. flags'[t] = flags[t] /\ result'[t] = result[t]
    <3>1. CASE CommitTrigger(r)
      <4>1. t \notin Ran(r)
        BY <2>3, <3>1, LockedNotRun
      <4>2. QED
        BY <2>3, <3>1, <4>1 DEF CommitTrigger
    <3>2. CASE CommitDelete(r)
        BY <2>3, <3>2 DEF CommitDelete
    <3>3. QED
        BY <1>4, <3>1, <3>2
  <2>5. QED
    BY <1>0, <2>1, <2>2, <2>4
<1>5. ASSUME NEW r \in Requests, Abort(r) PROVE Goal
  <2>1. lock[t] = q /\ q # r
    BY <1>5, ActorsAssumption DEF Abort, Release
  <2>2. QED
    BY <1>0, <1>5, <2>1 DEF Abort, Goto
<1>6. ASSUME NEW w \in Workers, Claim(w) PROVE Goal
    BY <1>0, <1>6, Actors DEF Claim, rvars
<1>7. ASSUME NEW w \in Workers, RunFails(w) \/ Crash(w) \/ ChildKilled(w) PROVE Goal
  <2>1. lock' = Release(w)
    BY <1>7 DEF RunFails, Crash, ChildKilled
  <2>2. lock[t] = q
    BY <2>1, Actors DEF Release
  <2>3. QED
    BY <1>0, <1>7, <2>2 DEF RunFails, Crash, ChildKilled, rvars
<1>8. ASSUME NEW w \in Workers, Publish(w) PROVE Goal
  <2>1. lock[t] = q
    BY <1>8, Actors DEF Publish, Release
  <2>2. t # Held(w)
    BY <1>8, <2>1, Actors DEF Publish, Step, ClaimedRow
  <2>3. QED
    BY <1>0, <1>8, <2>1, <2>2 DEF Publish, rvars
<1>9. ASSUME NEW r \in Requests, CreateTask(r) PROVE Goal
    BY <1>9, <1>1 DEF CreateTask, tables
<1>10. ASSUME NEW w \in Workers, NEW m \in Msg, Deliver(w, m) PROVE Goal
    BY <1>10, <1>1 DEF Deliver, tables, rvars
<1>11. ASSUME NEW w \in Workers,
              \/ ReadUsage(w) \/ UsageFails(w) \/ WriteUsage(w) \/ MarkFailed(w)
              \/ MarkFails(w) \/ Retry(w) \/ Ack(w) \/ Redeliver(w)
       PROVE  Goal
    BY <1>11, <1>1 DEF ReadUsage, UsageFails, WriteUsage, MarkFailed, MarkFails,
                       Retry, Ack, Redeliver, tables, rvars
<1>12. CASE Quiet \/ UNCHANGED vars
    BY <1>12, <1>1 DEF Quiet, vars, tables, rvars
<1>13. QED
    BY <1>2, <1>3, <1>4, <1>5, <1>6, <1>7, <1>8, <1>9, <1>10, <1>11, <1>12
       DEF Next, RequestStep, WorkerStep


LEMMA LockedRowStep == IInv /\ [Next]_vars => LockedRow'
<1> SUFFICES ASSUME IInv, [Next]_vars, NEW t \in TaskId, lock'[t] # Free
             PROVE  row'[t] # "none"
    BY DEF LockedRow, Exists
<1> DEFINE Goal == row'[t] # "none"
<1>0. lock[t] # Free => row[t] # "none"
    BY DEF IInv, LockedRow, Exists
<1> USE DEF IInv, TypeOK
<1>1. ASSUME lock' = lock, row' = row PROVE Goal
    BY <1>0, <1>1
<1>2. ASSUME NEW r \in Requests, PurgeTasks(r) PROVE Goal
  <2>1. CASE t \in PurgeTarget(r)
    BY <1>2, <2>1 DEF PurgeTasks, PurgeTarget, Existing, Exists
  <2>2. CASE t \notin PurgeTarget(r)
    BY <1>0, <1>2, <2>2 DEF PurgeTasks
  <2>3. QED
    BY <2>1, <2>2
<1>3. ASSUME NEW r \in Requests, CommitTrigger(r) PROVE Goal
  <2>1. lock[t] # Free /\ t \notin Purged(r)
    BY <1>3 DEF CommitTrigger, Release, Purged
  <2>2. row'[t] \in {"completed", "queued", row[t]}
    BY <1>3, <2>1 DEF CommitTrigger
  <2>3. QED
    BY <1>0, <2>1, <2>2
<1>4. ASSUME NEW r \in Requests, CommitDelete(r) PROVE Goal
  <2>1. lock[t] # Free /\ t \notin Purged(r)
    BY <1>4 DEF CommitDelete, Release, Purged
  <2>2. QED
    BY <1>0, <1>4, <2>1 DEF CommitDelete, Existing, Exists
<1>5. ASSUME NEW r \in Requests, Abort(r) PROVE Goal
    BY <1>0, <1>5 DEF Abort, Release
<1>6. ASSUME NEW w \in Workers, Claim(w) PROVE Goal
    BY <1>0, <1>6 DEF Claim, Exists
<1>7. ASSUME NEW w \in Workers, RunFails(w) \/ Crash(w) \/ ChildKilled(w) PROVE Goal
  <2>1. lock' = Release(w) /\ row' = row
    BY <1>7 DEF RunFails, Crash, ChildKilled
  <2>2. QED
    BY <1>0, <2>1 DEF Release
<1>8. ASSUME NEW w \in Workers, Publish(w) PROVE Goal
  <2>1. lock[t] # Free /\ row' = [row EXCEPT ![Held(w)] = "completed"]
    BY <1>8 DEF Publish, Release
  <2>2. QED
    BY <1>0, <2>1
<1>9. ASSUME NEW w \in Workers, MarkFailed(w) PROVE Goal
    BY <1>0, <1>9 DEF MarkFailed, Exists
<1>10. ASSUME NEW r \in Requests,
              \/ TriggerBegin(r) \/ DeleteBegin(r) \/ Refuse(r)
              \/ PurgeFindings(r) \/ CreateTask(r)
       PROVE  Goal
    BY <1>10, <1>1 DEF TriggerBegin, DeleteBegin, Refuse, PurgeFindings, CreateTask, tables
<1>11. ASSUME NEW w \in Workers, NEW m \in Msg, Deliver(w, m) PROVE Goal
    BY <1>11, <1>1 DEF Deliver, tables
<1>12. ASSUME NEW w \in Workers,
              \/ ReadUsage(w) \/ WriteUsage(w) \/ UsageFails(w)
              \/ MarkFails(w) \/ Retry(w) \/ Ack(w) \/ Redeliver(w)
       PROVE  Goal
    BY <1>12, <1>1 DEF ReadUsage, WriteUsage, UsageFails, MarkFails, Retry, Ack,
                       Redeliver, tables
<1>13. CASE Quiet \/ UNCHANGED vars
    BY <1>13, <1>1 DEF Quiet, vars, tables
<1>14. QED
    BY <1>2, <1>3, <1>4, <1>5, <1>6, <1>7, <1>8, <1>9, <1>10, <1>11, <1>12,
       <1>13 DEF Next, RequestStep, WorkerStep

LEMMA RowOfEndedStep == IInv /\ [Next]_vars => RowOfEnded'
<1> SUFFICES ASSUME IInv, [Next]_vars, NEW t \in TaskId, row'[t] # "none"
             PROVE  rpc'[t[1]] = "ended"
    BY DEF RowOfEnded, Exists
<1> DEFINE Goal == rpc'[t[1]] = "ended"
<1>0. /\ t[1] \in Requests
      /\ row[t] # "none" => rpc[t[1]] = "ended"
    BY DEF IInv, RowOfEnded, Exists, TaskId
<1> USE DEF IInv, TypeOK
<1>1. ASSUME row[t] # "none", rpc' = rpc PROVE Goal
    BY <1>0, <1>1
<1>2. ASSUME row[t] # "none", NEW r \in Requests, rpc[r] # "ended", NEW pc,
             rpc' = [rpc EXCEPT ![r] = pc]
      PROVE  Goal
    BY <1>0, <1>2
<1>3. ASSUME NEW r \in Requests, CommitTrigger(r) PROVE Goal
  <2>1. rpc' = [rpc EXCEPT ![r] = "ended"]
    BY <1>3 DEF CommitTrigger, Goto
  <2>2. CASE t \in Created(r)
    <3>1. t[1] = r
        BY <2>2 DEF Created
    <3>2. QED
        BY <1>0, <2>1, <3>1
  <2>3. CASE t \notin Created(r)
    <3>1. row'[t] \in {"none", row[t]}
        BY <1>3, <2>3 DEF CommitTrigger, Ran
    <3>2. QED
        BY <1>0, <2>1, <3>1
  <2>4. QED
    BY <2>2, <2>3
<1>4. ASSUME NEW r \in Requests, CommitDelete(r) PROVE Goal
    BY <1>4 DEF CommitDelete
<1>5. ASSUME NEW r \in Requests,
             \/ TriggerBegin(r) \/ DeleteBegin(r) \/ Refuse(r)
             \/ PurgeFindings(r) \/ PurgeTasks(r) \/ Abort(r)
      PROVE  Goal
  <2>1. row' = row /\ rpc[r] # "ended"
    BY <1>5 DEF TriggerBegin, DeleteBegin, Refuse, PurgeFindings, PurgeTasks, Abort,
                tables, InTxn
  <2>2. \E pc : rpc' = [rpc EXCEPT ![r] = pc]
    BY <1>5 DEF TriggerBegin, DeleteBegin, Refuse, PurgeFindings, PurgeTasks, Abort, Goto
  <2>3. QED
    BY <1>2, <2>1, <2>2
<1>6. ASSUME NEW r \in Requests, CreateTask(r) PROVE Goal
    BY <1>6, <1>1 DEF CreateTask, tables
<1>7. ASSUME NEW w \in Workers, Publish(w) PROVE Goal
  <2>1. Held(w) \in TaskId /\ Exists(Held(w))
    BY <1>7, HeldType DEF Publish, Step, Working, ClaimedRow
  <2>2. row[t] # "none"
    BY <1>7, <2>1 DEF Publish, Exists
  <2>3. QED
    BY <1>1, <1>7, <2>2 DEF Publish, rvars
<1>8. ASSUME NEW w \in Workers, MarkFailed(w) PROVE Goal
  <2>1. row[t] # "none"
    BY <1>8 DEF MarkFailed, Exists
  <2>2. QED
    BY <1>1, <1>8, <2>1 DEF MarkFailed, rvars
<1>9. ASSUME NEW w \in Workers, NEW m \in Msg, Deliver(w, m) PROVE Goal
    BY <1>9, <1>1 DEF Deliver, tables, rvars
<1>10. ASSUME NEW w \in Workers,
              \/ Claim(w) \/ RunFails(w) \/ ReadUsage(w) \/ WriteUsage(w)
              \/ UsageFails(w) \/ MarkFails(w) \/ Retry(w) \/ Ack(w)
              \/ Crash(w) \/ ChildKilled(w) \/ Redeliver(w)
       PROVE  Goal
    BY <1>10, <1>1 DEF Claim, RunFails, ReadUsage, WriteUsage, UsageFails, MarkFails,
                       Retry, Ack, Crash, ChildKilled, Redeliver, tables, rvars
<1>11. CASE Quiet \/ UNCHANGED vars
    BY <1>11, <1>1 DEF Quiet, vars, tables, rvars
<1>12. QED
    BY <1>3, <1>4, <1>5, <1>6, <1>7, <1>8, <1>9, <1>10, <1>11
       DEF Next, RequestStep, WorkerStep

LEMMA FindingsHaveTaskStep == IInv /\ [Next]_vars => FindingsHaveTask'
<1> SUFFICES ASSUME IInv, [Next]_vars, NEW t \in TaskId, row'[t] = "none"
             PROVE  flags'[t] = 0 /\ ~ result'[t]
    BY DEF FindingsHaveTask, Exists
<1> DEFINE Goal == flags'[t] = 0 /\ ~ result'[t]
<1>0. row[t] = "none" => flags[t] = 0 /\ ~ result[t]
    BY DEF IInv, FindingsHaveTask, Exists
<1> USE DEF IInv, TypeOK
<1>1. ASSUME row' = row, flags' = flags, result' = result PROVE Goal
    BY <1>0, <1>1
<1>2. ASSUME NEW r \in Requests, CommitTrigger(r) \/ CommitDelete(r) PROVE Goal
  <2>1. CASE t \in Purged(r)
    <3>1. flags[t] <= rseen[r].flags[t] /\ (result[t] => rseen[r].result[t])
        BY <2>1 DEF Purged, PurgedRow
    <3>2. flags[t] \in Nat /\ rseen[r].flags[t] \in Nat
        OBVIOUS
    <3>3. FlagsLeft(r, t) = 0 /\ ~ ResultLeft(r, t)
        BY <3>1, <3>2 DEF FlagsLeft, ResultLeft
    <3>4. QED
        BY <1>2, <2>1, <3>3 DEF CommitTrigger, CommitDelete
  <2>2. CASE t \notin Purged(r)
    <3>1. flags'[t] = flags[t] /\ result'[t] = result[t]
        BY <1>2, <2>2 DEF CommitTrigger, CommitDelete
    <3>2. row[t] = "none"
        BY <1>2, <2>2 DEF CommitTrigger, CommitDelete, Existing, Exists
    <3>3. QED
        BY <1>0, <3>1, <3>2
  <2>3. QED
    BY <2>1, <2>2
<1>3. ASSUME NEW w \in Workers, Publish(w) PROVE Goal
  <2>1. Held(w) \in TaskId
    BY <1>3, HeldType DEF Publish, Step, Working
  <2>2. t # Held(w)
    BY <1>3, <2>1 DEF Publish
  <2>3. QED
    BY <1>0, <1>3, <2>2 DEF Publish
<1>4. ASSUME NEW w \in Workers, MarkFailed(w) PROVE Goal
    BY <1>0, <1>4 DEF MarkFailed, Exists
<1>5. ASSUME NEW r \in Requests,
             \/ TriggerBegin(r) \/ DeleteBegin(r) \/ Refuse(r) \/ PurgeFindings(r)
             \/ PurgeTasks(r) \/ CreateTask(r) \/ Abort(r)
      PROVE  Goal
    BY <1>5, <1>1 DEF TriggerBegin, DeleteBegin, Refuse, PurgeFindings, PurgeTasks,
                      CreateTask, Abort, tables
<1>6. ASSUME NEW w \in Workers, NEW m \in Msg, Deliver(w, m) PROVE Goal
    BY <1>6, <1>1 DEF Deliver, tables
<1>7. ASSUME NEW w \in Workers,
             \/ Claim(w) \/ RunFails(w) \/ ReadUsage(w) \/ WriteUsage(w)
             \/ UsageFails(w) \/ MarkFails(w) \/ Retry(w) \/ Ack(w)
             \/ Crash(w) \/ ChildKilled(w) \/ Redeliver(w)
      PROVE  Goal
    BY <1>7, <1>1 DEF Claim, RunFails, ReadUsage, WriteUsage, UsageFails, MarkFails,
                      Retry, Ack, Crash, ChildKilled, Redeliver, tables
<1>8. CASE Quiet \/ UNCHANGED vars
    BY <1>8, <1>1 DEF Quiet, vars, tables
<1>9. QED
    BY <1>2, <1>3, <1>4, <1>5, <1>6, <1>7, <1>8 DEF Next, RequestStep, WorkerStep

LEMMA RunsAreWholeStep == IInv /\ [Next]_vars => RunsAreWhole'
<1> SUFFICES ASSUME IInv, [Next]_vars, NEW t \in TaskId
             PROVE  /\ row'[t] = "completed" => result'[t]
                    /\ ~ result'[t] => flags'[t] = 0
    BY DEF RunsAreWhole
<1> DEFINE Goal == /\ row'[t] = "completed" => result'[t]
                   /\ ~ result'[t] => flags'[t] = 0
<1>0. (row[t] = "completed" => result[t]) /\ (~ result[t] => flags[t] = 0)
    BY DEF IInv, RunsAreWhole
<1> USE DEF IInv, TypeOK
<1>1. ASSUME row' = row, flags' = flags, result' = result PROVE Goal
    BY <1>0, <1>1
<1>2. ASSUME NEW r \in Requests, CommitTrigger(r) \/ CommitDelete(r) PROVE Goal
  <2>1. CASE t \in Purged(r)
    <3>1. flags[t] <= rseen[r].flags[t] /\ (result[t] => rseen[r].result[t])
        BY <2>1 DEF Purged, PurgedRow
    <3>2. flags[t] \in Nat /\ rseen[r].flags[t] \in Nat
        OBVIOUS
    <3>3. FlagsLeft(r, t) = 0
        BY <3>1, <3>2 DEF FlagsLeft
    <3>4. row'[t] # "completed"
      <4>1. CASE CommitDelete(r)
        BY <4>1 DEF CommitDelete
      <4>2. CASE CommitTrigger(r)
        <5>1. t \notin Ran(r)
            BY <2>1, <4>2, LockedNotRun, ActorsAssumption DEF Purged
        <5>2. QED
            BY <2>1, <4>2, <5>1 DEF CommitTrigger
      <4>3. QED
        BY <1>2, <4>1, <4>2
    <3>5. QED
        BY <1>2, <2>1, <3>3, <3>4 DEF CommitTrigger, CommitDelete
  <2>2. CASE t \notin Purged(r) /\ CommitDelete(r)
    BY <1>0, <2>2 DEF CommitDelete
  <2>3. CASE t \notin Purged(r) /\ CommitTrigger(r) /\ t \in Ran(r)
    <3>1. result'[t] = TRUE
      BY <2>3 DEF CommitTrigger
    <3>2. QED
      BY <3>1
  <2>4. CASE t \notin Purged(r) /\ CommitTrigger(r) /\ t \notin Ran(r)
    <3>1. flags'[t] = flags[t] /\ result'[t] = result[t]
      BY <2>4 DEF CommitTrigger
    <3>2. row'[t] \in {"queued", "none", row[t]}
      BY <2>4 DEF CommitTrigger
    <3>3. QED
      BY <1>0, <3>1, <3>2
  <2>5. QED
    BY <1>2, <2>1, <2>2, <2>3, <2>4
<1>3. ASSUME NEW w \in Workers, Publish(w) PROVE Goal
  <2>1. Held(w) \in TaskId
    BY <1>3, HeldType DEF Publish, Step, Working
  <2>2. QED
    BY <1>0, <1>3, <2>1 DEF Publish
<1>4. ASSUME NEW w \in Workers, MarkFailed(w) PROVE Goal
    BY <1>0, <1>4 DEF MarkFailed, Exists
<1>5. ASSUME NEW r \in Requests,
             \/ TriggerBegin(r) \/ DeleteBegin(r) \/ Refuse(r) \/ PurgeFindings(r)
             \/ PurgeTasks(r) \/ CreateTask(r) \/ Abort(r)
      PROVE  Goal
    BY <1>5, <1>1 DEF TriggerBegin, DeleteBegin, Refuse, PurgeFindings, PurgeTasks,
                      CreateTask, Abort, tables
<1>6. ASSUME NEW w \in Workers, NEW m \in Msg, Deliver(w, m) PROVE Goal
    BY <1>6, <1>1 DEF Deliver, tables
<1>7. ASSUME NEW w \in Workers,
             \/ Claim(w) \/ RunFails(w) \/ ReadUsage(w) \/ WriteUsage(w)
             \/ UsageFails(w) \/ MarkFails(w) \/ Retry(w) \/ Ack(w)
             \/ Crash(w) \/ ChildKilled(w) \/ Redeliver(w)
      PROVE  Goal
    BY <1>7, <1>1 DEF Claim, RunFails, ReadUsage, WriteUsage, UsageFails, MarkFails,
                      Retry, Ack, Crash, ChildKilled, Redeliver, tables
<1>8. CASE Quiet \/ UNCHANGED vars
    BY <1>8, <1>1 DEF Quiet, vars, tables
<1>9. QED
    BY <1>2, <1>3, <1>4, <1>5, <1>6, <1>7, <1>8 DEF Next, RequestStep, WorkerStep

-----------------------------------------------------------------------------
\* The strengthened invariant is inductive.
THEOREM Invariant == Spec => []IInv
<1>1. IInv /\ [Next]_vars => IInv'
    BY TypeInvariantStep, WorkingStep, ClaimedRowStep, PurgedRowStep,
       LockedRowStep, RowOfEndedStep, FindingsHaveTaskStep, RunsAreWholeStep DEF IInv
<1>2. QED
    BY InitInvariant, <1>1, PTL DEF Spec

\* Every reachable state has its type, for any number of requests, workers,
\* task types, retries and redeliveries.
THEOREM TypeCorrect == Spec => []TypeOK
<1>1. IInv => TypeOK
    BY DEF IInv
<1>2. QED
    BY <1>1, Invariant, PTL

\* Purges racing with workers, and project deletes racing with both, never
\* leave a finding or a result without its task.
THEOREM FindingsHaveTaskAlways == Spec => []FindingsHaveTask
<1>1. IInv => FindingsHaveTask
    BY DEF IInv
<1>2. QED
    BY <1>1, Invariant, PTL

\* A completed task always has its result, and findings never come without.
THEOREM RunsAreWholeAlways == Spec => []RunsAreWhole
<1>1. IInv => RunsAreWhole
    BY DEF IInv
<1>2. QED
    BY <1>1, Invariant, PTL

=============================================================================
