--------------------------- MODULE AnalysisTasks ---------------------------
(***************************************************************************)
(* The analysis pipeline of one project: the API requests that trigger     *)
(* agents (and delete the project), the Celery broker, the workers that    *)
(* run the agents, and the tables they share.                              *)
(*                                                                         *)
(* PostgreSQL runs at READ COMMITTED: a statement sees what is committed   *)
(* when it starts, an UPDATE or DELETE waits for the row locks of other    *)
(* transactions.  The variables under "tables" are committed state; what a *)
(* transaction has written and not committed is in the actor's own         *)
(* variables.                                                              *)
(***************************************************************************)
EXTENDS Integers, Sequences, Functions

CONSTANTS
    Requests,       \* API requests: each is one POST .../tasks or one DELETE project
    Workers,        \* Celery worker slots of the "agents" queue
    Types,          \* task types
    Modes,          \* how triggered agents run: "trigger" by Celery, "inline" in testing mode
    MaxTypes,       \* bound: task types named by one trigger request
    MaxRetries,     \* max_retries of run_agent_task
    MaxRedeliver,   \* bound: broker redeliveries per task
    Limit,          \* contracts per month of the organization's plan, -1 for no limit
    Free,           \* nobody holds the row lock
    NoMsg           \* the worker holds no message

\* A task row is named by the request that inserts it and its position in
\* data.task_types: uuid4 ids are never reused.
TaskId == Requests \X (1..MaxTypes)
Msg    == [task : TaskId, retries : 0..MaxRetries]

ASSUME BoundsAssumption ==
    /\ MaxTypes \in Nat /\ MaxRetries \in Nat /\ MaxRedeliver \in Nat
    /\ Limit \in Nat \cup {-1}
ASSUME ModesAssumption == Modes \subseteq {"trigger", "inline"}
ASSUME ActorsAssumption ==
    /\ Requests \cap Workers = {}
    /\ Free \notin Requests \cup Workers
    /\ NoMsg \notin Msg

VARIABLES
    \* tables
    row,        \* analysis_tasks.status, "none" where there is no row
    flags,      \* clause_flags: agent runs whose findings are stored for the task
    result,     \* task_results: does the task have its row
    usage,      \* usage_records of this month: contracts_processed of each
    project,    \* is the projects row there
    lock,       \* row locks on analysis_tasks
    \* broker
    queue,      \* messages waiting, with multiplicity
    \* API requests
    rpc, rkind, rtypes, rold, rseen, rmade,
    \* workers
    wpc, wmsg, wread,
    \* history
    missed,     \* tasks a worker looked up and did not find
    unmarked,   \* tasks whose failure could not be recorded
    lost,       \* tasks whose process was killed before the attempt had an outcome
    redelivered,\* broker redeliveries of the task's messages
    published   \* agent runs committed by workers

tables  == <<row, flags, result, usage, project, lock>>
rvars   == <<rpc, rkind, rtypes, rold, rseen, rmade>>
wvars   == <<wpc, wmsg, wread>>
history == <<missed, unmarked, lost, redelivered, published>>
vars    == <<tables, queue, rvars, wvars, history>>

Status   == {"none", "queued", "completed", "failed"}
InTxn    == {"begun", "purged", "creating", "removing"}
ReqPc    == {"idle", "ended"} \cup InTxn
WorkerPc == {"idle", "loaded", "claimed", "committed", "metered",
             "failing", "marked", "done"}
Undecided == {"loaded", "claimed", "failing"}

-----------------------------------------------------------------------------
Exists(t)   == row[t] # "none"
Existing    == {t \in TaskId : Exists(t)}
TypeOf(t)   == rtypes[t[1]][t[2]]
Unlocked(t) == lock[t] = Free
Release(a)  == [t \in TaskId |-> IF lock[t] = a THEN Free ELSE lock[t]]
Held(w)     == wmsg[w].task

Send(m) == queue' = [queue EXCEPT ![m] = @ + 1]

\* The findings and results a purge has not seen: rows another transaction
\* committed between its DELETE FROM clause_flags / task_results and its
\* DELETE FROM analysis_tasks.  They still reference the task.
Dangling(r, t) ==
    /\ Exists(t)
    /\ \/ flags[t] > rseen[r].flags[t]
       \/ result[t] /\ ~ rseen[r].result[t]

\* What the DELETEs of request r leave of the task's findings and result.
FlagsLeft(r, t)  == IF flags[t] > rseen[r].flags[t]
                    THEN flags[t] - rseen[r].flags[t] ELSE 0
ResultLeft(r, t) == result[t] /\ ~ rseen[r].result[t]

NothingSeen == [flags  |-> [t \in TaskId |-> 0],
                result |-> [t \in TaskId |-> FALSE]]

Init ==
    /\ row = [t \in TaskId |-> "none"]
    /\ flags = [t \in TaskId |-> 0]
    /\ result = [t \in TaskId |-> FALSE]
    /\ usage = <<>>
    /\ project = "live"
    /\ lock = [t \in TaskId |-> Free]
    /\ queue = [m \in Msg |-> 0]
    /\ rpc = [r \in Requests |-> "idle"]
    /\ \E mode \in Modes : rkind = [r \in Requests |-> mode]
    /\ rtypes = [r \in Requests |-> <<>>]
    /\ rold = [r \in Requests |-> {}]
    /\ rseen = [r \in Requests |-> NothingSeen]
    /\ rmade = [r \in Requests |-> 0]
    /\ wpc = [w \in Workers |-> "idle"]
    /\ wmsg = [w \in Workers |-> NoMsg]
    /\ wread = [w \in Workers |-> <<>>]
    /\ missed = {}
    /\ unmarked = {}
    /\ lost = {}
    /\ redelivered = [t \in TaskId |-> 0]
    /\ published = 0

-----------------------------------------------------------------------------
(* API requests                                                            *)

Goto(r, pc) == rpc' = [rpc EXCEPT ![r] = pc]

\* check_task_quota: nothing is asked in testing mode or of a plan without a
\* limit; otherwise at most one usage record may exist (scalar_one_or_none
\* raises), and it must be below the limit.
QuotaLeft(r) == \/ rkind[r] = "inline" \/ Limit = -1
                \/ usage = <<>> /\ 0 < Limit
                \/ Len(usage) = 1 /\ usage[1] < Limit

\* trigger_tasks up to the SELECT of the previous runs of the same types.
TriggerBegin(r) ==
    /\ rpc[r] = "idle"
    /\ project = "live"
    /\ QuotaLeft(r)
    /\ \E n \in 1..MaxTypes : \E ts \in [1..n -> Types] :
          /\ rtypes' = [rtypes EXCEPT ![r] = ts]
          /\ rold' = [rold EXCEPT ![r] =
                        {t \in Existing : \E i \in 1..n : ts[i] = TypeOf(t)}]
    /\ Goto(r, "begun")
    /\ UNCHANGED <<tables, queue, rkind, rseen, rmade, wvars, history>>

\* ProjectService.delete up to the SELECT of the project's task ids.
DeleteBegin(r) ==
    /\ rpc[r] = "idle"
    /\ project = "live"
    /\ rkind' = [rkind EXCEPT ![r] = "delete"]
    /\ rold' = [rold EXCEPT ![r] = Existing]
    /\ Goto(r, "begun")
    /\ UNCHANGED <<tables, queue, rtypes, rseen, rmade, wvars, history>>

\* The request ends with an error before it has written anything: no quota,
\* a required file is missing, no such project.
Refuse(r) ==
    /\ rpc[r] = "idle"
    /\ Goto(r, "ended")
    /\ UNCHANGED <<tables, queue, rkind, rtypes, rold, rseen, rmade, wvars, history>>

\* DELETE FROM clause_flags / task_results WHERE task_id IN old.
PurgeFindings(r) ==
    /\ rpc[r] = "begun"
    /\ rseen' = [rseen EXCEPT ![r] =
          [flags  |-> [t \in TaskId |-> IF t \in rold[r] THEN flags[t] ELSE 0],
           result |-> [t \in TaskId |-> t \in rold[r] /\ result[t]]]]
    /\ Goto(r, "purged")
    /\ UNCHANGED <<tables, queue, rkind, rtypes, rold, rmade, wvars, history>>

\* DELETE FROM analysis_tasks: of the previous runs for a trigger, of every
\* row of the project for a project delete.
PurgeTarget(r) ==
    IF rkind[r] = "delete" THEN Existing ELSE rold[r] \cap Existing

\* As PurgeTasks would be without the foreign keys on task_id.
PurgeTasksUnreferenced(r) ==
    /\ rpc[r] = "purged"
    /\ \A t \in PurgeTarget(r) : Unlocked(t)
    /\ lock' = [t \in TaskId |-> IF t \in PurgeTarget(r) THEN r ELSE lock[t]]
    /\ Goto(r, IF rkind[r] = "delete" THEN "removing" ELSE "creating")
    /\ UNCHANGED <<row, flags, result, usage, project, queue, rkind, rtypes,
                   rold, rseen, rmade, wvars, history>>

PurgeTasks(r) ==
    /\ rpc[r] = "purged"
    /\ \A t \in PurgeTarget(r) : Unlocked(t) /\ ~ Dangling(r, t)
    /\ lock' = [t \in TaskId |-> IF t \in PurgeTarget(r) THEN r ELSE lock[t]]
    /\ Goto(r, IF rkind[r] = "delete" THEN "removing" ELSE "creating")
    /\ UNCHANGED <<row, flags, result, usage, project, queue, rkind, rtypes,
                   rold, rseen, rmade, wvars, history>>

\* run_agent_task.delay; in testing mode the request runs the agent itself and
\* nothing is sent.
Dispatch(r, t) ==
    IF rkind[r] = "inline" THEN UNCHANGED queue ELSE Send([task |-> t, retries |-> 0])

\* create_task for the next type, then its dispatch: the message is in the
\* broker while the row is not committed.
CreateTask(r) ==
    LET i == rmade[r] + 1
    IN  /\ rpc[r] = "creating"
        /\ i \in DOMAIN rtypes[r]
        /\ project = "live"
        /\ rmade' = [rmade EXCEPT ![r] = i]
        /\ Dispatch(r, <<r, i>>)
        /\ UNCHANGED <<tables, rpc, rkind, rtypes, rold, rseen, wvars, history>>

Created(r) == {<<r, i>> : i \in 1..rmade[r]}
Purged(r)  == {t \in TaskId : lock[t] = r}

\* Tasks that the request itself has run: _run_agent_inline leaves findings
\* (there may be none), a result and COMPLETED in the request's transaction;
\* when the agent raises, so does the request.
Ran(r) == IF rkind[r] = "inline" THEN Created(r) ELSE {}

\* get_session commits after the handler returns.
CommitTrigger(r) ==
    /\ rpc[r] = "creating"
    /\ rmade[r] = Len(rtypes[r])
    /\ row' = [t \in TaskId |-> IF t \in Ran(r) THEN "completed"
                                ELSE IF t \in Created(r) THEN "queued"
                                ELSE IF t \in Purged(r) THEN "none" ELSE row[t]]
    /\ \E reported \in SUBSET Ran(r) :
          flags' = [t \in TaskId |-> IF t \in Purged(r) THEN FlagsLeft(r, t)
                                     ELSE IF t \in reported THEN 1 ELSE flags[t]]
    /\ result' = [t \in TaskId |-> IF t \in Purged(r) THEN ResultLeft(r, t)
                                    ELSE t \in Ran(r) \/ result[t]]
    /\ lock' = Release(r)
    /\ Goto(r, "ended")
    /\ UNCHANGED <<usage, project, queue, rkind, rtypes, rold, rseen, rmade,
                   wvars, history>>

\* The project row goes last, and the request commits.  The DELETE waits for
\* requests that hold the row (an uncommitted task references it) and fails
\* on a task row it has not deleted.
CommitDelete(r) ==
    /\ rpc[r] = "removing"
    /\ \A q \in Requests \ {r} : rpc[q] = "creating" => rmade[q] = 0
    /\ Existing = Purged(r)
    /\ row' = [t \in TaskId |-> "none"]
    /\ flags' = [t \in TaskId |-> IF t \in Purged(r) THEN FlagsLeft(r, t) ELSE flags[t]]
    /\ result' = [t \in TaskId |-> IF t \in Purged(r) THEN ResultLeft(r, t) ELSE result[t]]
    /\ project' = "gone"
    /\ lock' = Release(r)
    /\ Goto(r, "ended")
    /\ UNCHANGED <<usage, queue, rkind, rtypes, rold, rseen, rmade, wvars, history>>

\* As Abort would be if the purge had been committed on its own.
AbortKeepsPurge(r) ==
    /\ rpc[r] \in InTxn
    /\ flags' = [t \in TaskId |-> IF lock[t] = r THEN 0 ELSE flags[t]]
    /\ lock' = Release(r)
    /\ Goto(r, "ended")
    /\ UNCHANGED <<row, result, usage, project, queue, rkind, rtypes, rold,
                   rseen, rmade, wvars, history>>

\* A statement, the dispatch or the commit fails and get_db rolls back: a
\* foreign key still references a purged row, the project row is gone, the
\* broker or the database is unreachable.  Messages already sent stay sent.
Abort(r) ==
    /\ rpc[r] \in InTxn
    /\ lock' = Release(r)
    /\ Goto(r, "ended")
    /\ UNCHANGED <<row, flags, result, usage, project, queue, rkind, rtypes,
                   rold, rseen, rmade, wvars, history>>

RequestStep(r) ==
    \/ PurgeFindings(r) \/ PurgeTasks(r) \/ CreateTask(r)
    \/ CommitTrigger(r) \/ CommitDelete(r) \/ Abort(r)

-----------------------------------------------------------------------------
(* Workers: run_agent_task                                                 *)

Step(w, from, to) == wpc[w] = from /\ wpc' = [wpc EXCEPT ![w] = to]

\* The worker takes a message and SELECTs the task.  No row: the error is
\* returned, not raised, so nothing retries it.
Deliver(w, m) ==
    /\ wpc[w] = "idle"
    /\ queue[m] > 0
    /\ queue' = [queue EXCEPT ![m] = @ - 1]
    /\ wmsg' = [wmsg EXCEPT ![w] = m]
    /\ wpc' = [wpc EXCEPT ![w] = IF Exists(m.task) THEN "loaded" ELSE "done"]
    /\ missed' = IF Exists(m.task) THEN missed ELSE missed \cup {m.task}
    /\ UNCHANGED <<tables, rvars, wread, unmarked, lost, redelivered, published>>

\* status = RUNNING is flushed: the UPDATE takes the row lock and stays
\* uncommitted.
Claim(w) ==
    /\ Step(w, "loaded", "claimed")
    /\ Unlocked(Held(w)) /\ Exists(Held(w))
    /\ lock' = [lock EXCEPT ![Held(w)] = w]
    /\ UNCHANGED <<row, flags, result, usage, project, queue, rvars, wmsg,
                   wread, history>>

\* As RunFails would be if the error were returned, like that of a missing task.
RunFailsReturns(w) ==
    /\ wpc[w] \in {"loaded", "claimed"}
    /\ lock' = Release(w)
    /\ wpc' = [wpc EXCEPT ![w] = "done"]
    /\ UNCHANGED <<row, flags, result, usage, project, queue, rvars, wmsg,
                   wread, history>>

\* The agent, the flush or the commit raises (the row was purged under the
\* UPDATE, a flagged clause was deleted): everything is rolled back.
RunFails(w) ==
    /\ wpc[w] \in {"loaded", "claimed"}
    /\ lock' = Release(w)
    /\ wpc' = [wpc EXCEPT ![w] = "failing"]
    /\ UNCHANGED <<row, flags, result, usage, project, queue, rvars, wmsg,
                   wread, history>>

\* As Publish would be if a run without findings stored no result row.
PublishResultOfFindings(w) ==
    LET t == Held(w)
    IN  /\ Step(w, "claimed", "committed")
        /\ \E n \in {0, 1} :
              /\ flags' = [flags EXCEPT ![t] = @ + n]
              /\ result' = [result EXCEPT ![t] = @ \/ n = 1]
        /\ row' = [row EXCEPT ![t] = "completed"]
        /\ lock' = Release(w)
        /\ published' = published + 1
        /\ UNCHANGED <<usage, project, queue, rvars, wmsg, wread, missed,
                       unmarked, lost, redelivered>>

\* The agent returns: findings (there may be none), the result row if there
\* is none yet and COMPLETED are committed together.
Publish(w) ==
    LET t == Held(w)
    IN  /\ Step(w, "claimed", "committed")
        /\ \E n \in {0, 1} : flags' = [flags EXCEPT ![t] = @ + n]
        /\ result' = [result EXCEPT ![t] = TRUE]
        /\ row' = [row EXCEPT ![t] = "completed"]
        /\ lock' = Release(w)
        /\ published' = published + 1
        /\ UNCHANGED <<usage, project, queue, rvars, wmsg, wread, missed,
                       unmarked, lost, redelivered>>

\* increment_usage, first half: SELECT this month's record.
ReadUsage(w) ==
    /\ Step(w, "committed", "metered")
    /\ Len(usage) <= 1
    /\ wread' = [wread EXCEPT ![w] = usage]
    /\ UNCHANGED <<tables, queue, rvars, wmsg, history>>

\* As WriteUsage would be if a new record were both created with and
\* incremented by the contract.
WriteUsageTwice(w) ==
    /\ Step(w, "metered", "done")
    /\ usage' = IF wread[w] = <<>> THEN Append(usage, 2)
                ELSE [usage EXCEPT ![1] = wread[w][1] + 1]
    /\ wread' = [wread EXCEPT ![w] = <<>>]
    /\ UNCHANGED <<row, flags, result, project, lock, queue, rvars, wmsg, history>>

\* increment_usage, second half: INSERT the record it did not find, or UPDATE
\* it to the value read plus one.
WriteUsage(w) ==
    /\ Step(w, "metered", "done")
    /\ usage' = IF wread[w] = <<>> THEN Append(usage, 1)
                ELSE [usage EXCEPT ![1] = wread[w][1] + 1]
    /\ wread' = [wread EXCEPT ![w] = <<>>]
    /\ UNCHANGED <<row, flags, result, project, lock, queue, rvars, wmsg, history>>

\* As UsageFails would be if a billing error reached the task's handler.
UsageFailureRaises(w) ==
    /\ wpc[w] \in {"committed", "metered"}
    /\ wpc' = [wpc EXCEPT ![w] = "failing"]
    /\ wread' = [wread EXCEPT ![w] = <<>>]
    /\ UNCHANGED <<tables, queue, rvars, wmsg, history>>

\* Billing raised (two records, no connection): swallowed.
UsageFails(w) ==
    /\ wpc[w] \in {"committed", "metered"}
    /\ wpc' = [wpc EXCEPT ![w] = "done"]
    /\ wread' = [wread EXCEPT ![w] = <<>>]
    /\ UNCHANGED <<tables, queue, rvars, wmsg, history>>

\* The exception handler's own session sets FAILED, if the row is there.
MarkFailed(w) ==
    LET t == Held(w)
    IN  /\ Step(w, "failing", "marked")
        /\ Unlocked(t)
        /\ row' = [row EXCEPT ![t] = IF Exists(t) THEN "failed" ELSE "none"]
        /\ UNCHANGED <<flags, result, usage, project, lock, queue, rvars, wmsg,
                       wread, history>>

\* ... best effort: its own exception is dropped.
MarkFails(w) ==
    /\ Step(w, "failing", "marked")
    /\ unmarked' = unmarked \cup {Held(w)}
    /\ UNCHANGED <<tables, queue, rvars, wmsg, wread, missed, lost,
                   redelivered, published>>

\* As Retry would be if the attempt were not counted.
RetryUncounted(w) ==
    /\ Step(w, "marked", "done")
    /\ Send(wmsg[w])
    /\ UNCHANGED <<tables, rvars, wmsg, wread, history>>

\* self.retry publishes the next attempt, up to max_retries.
Retry(w) ==
    /\ Step(w, "marked", "done")
    /\ IF wmsg[w].retries < MaxRetries
       THEN Send([task |-> Held(w), retries |-> wmsg[w].retries + 1])
       ELSE UNCHANGED queue
    /\ UNCHANGED <<tables, rvars, wmsg, wread, history>>

\* acks_late: the message is acknowledged when the task has returned.
Ack(w) ==
    /\ Step(w, "done", "idle")
    /\ wmsg' = [wmsg EXCEPT ![w] = NoMsg]
    /\ UNCHANGED <<tables, queue, rvars, wread, history>>

CanRedeliver(w) ==
    /\ wpc[w] # "idle"
    /\ redelivered[Held(w)] < MaxRedeliver

\* The whole worker dies (its host, its container): PostgreSQL rolls its
\* transaction back and the broker restores the unacknowledged message.
Crash(w) ==
    /\ CanRedeliver(w)
    /\ Send(wmsg[w])
    /\ redelivered' = [redelivered EXCEPT ![Held(w)] = @ + 1]
    /\ wpc' = [wpc EXCEPT ![w] = "idle"]
    /\ wmsg' = [wmsg EXCEPT ![w] = NoMsg]
    /\ wread' = [wread EXCEPT ![w] = <<>>]
    /\ lock' = Release(w)
    /\ UNCHANGED <<row, flags, result, usage, project, rvars, missed, unmarked,
                   lost, published>>

\* Only the pool process that runs the task is killed: task_reject_on_worker_lost
\* is not set, so its parent acknowledges the message, and nobody touches the
\* row any more.
ChildKilled(w) ==
    /\ wpc[w] # "idle"
    /\ lost' = IF wpc[w] \in Undecided THEN lost \cup {Held(w)} ELSE lost
    /\ wpc' = [wpc EXCEPT ![w] = "idle"]
    /\ wmsg' = [wmsg EXCEPT ![w] = NoMsg]
    /\ wread' = [wread EXCEPT ![w] = <<>>]
    /\ lock' = Release(w)
    /\ UNCHANGED <<row, flags, result, usage, project, queue, rvars, missed,
                   unmarked, redelivered, published>>

\* The visibility timeout passes while the worker is still at it.
Redeliver(w) ==
    /\ CanRedeliver(w)
    /\ Send(wmsg[w])
    /\ redelivered' = [redelivered EXCEPT ![Held(w)] = @ + 1]
    /\ UNCHANGED <<tables, rvars, wvars, missed, unmarked, lost, published>>

WorkerStep(w) ==
    \/ \E m \in Msg : Deliver(w, m)
    \/ Claim(w) \/ RunFails(w) \/ Publish(w)
    \/ ReadUsage(w) \/ WriteUsage(w) \/ UsageFails(w)
    \/ MarkFailed(w) \/ MarkFails(w) \/ Retry(w) \/ Ack(w)

-----------------------------------------------------------------------------
Drained ==
    /\ \A m \in Msg : queue[m] = 0
    /\ \A w \in Workers : wpc[w] = "idle"

\* Every request has been answered and the broker is empty.
Quiet ==
    /\ Drained
    /\ \A r \in Requests : rpc[r] = "ended"
    /\ UNCHANGED vars

Next ==
    \/ \E r \in Requests : \/ TriggerBegin(r) \/ DeleteBegin(r) \/ Refuse(r)
                           \/ RequestStep(r)
    \/ \E w \in Workers : WorkerStep(w) \/ Crash(w) \/ ChildKilled(w) \/ Redeliver(w)
    \/ Quiet

\* The server finishes the requests it has begun and the workers run; nothing
\* makes a client send a request, a worker die or the broker redeliver.
Fairness ==
    /\ \A r \in Requests : WF_vars(RequestStep(r))
    /\ \A w \in Workers : WF_vars(WorkerStep(w))

Spec == Init /\ [][Next]_vars /\ Fairness

-----------------------------------------------------------------------------
(* Properties                                                              *)

\* Every variable has its type (models/task.py, models/billing.py).  "running"
\* is no status of a committed row: run_agent_task only ever flushes it.
TypeOK ==
    /\ row \in [TaskId -> Status]
    /\ flags \in [TaskId -> Nat]
    /\ result \in [TaskId -> BOOLEAN]
    /\ usage \in Seq(Nat)
    /\ project \in {"live", "gone"}
    /\ lock \in [TaskId -> {Free} \cup Requests \cup Workers]
    /\ queue \in [Msg -> Nat]
    /\ rpc \in [Requests -> ReqPc]
    /\ rkind \in [Requests -> {"trigger", "inline", "delete"}]
    /\ rtypes \in [Requests -> Seq(Types)]
    /\ rold \in [Requests -> SUBSET TaskId]
    /\ rseen \in [Requests -> [flags : [TaskId -> Nat], result : [TaskId -> BOOLEAN]]]
    /\ rmade \in [Requests -> Nat]
    /\ wpc \in [Workers -> WorkerPc]
    /\ wmsg \in [Workers -> Msg \cup {NoMsg}]
    /\ wread \in [Workers -> Seq(Nat)]
    /\ missed \in SUBSET TaskId
    /\ unmarked \in SUBSET TaskId
    /\ lost \in SUBSET TaskId
    /\ redelivered \in [TaskId -> Nat]
    /\ published \in Nat

\* Findings and results never outlive their task, whatever order purges,
\* project deletes and committing workers take: a purge that missed a run
\* committed between its statements must not go through.
FindingsHaveTask ==
    \A t \in TaskId : ~ Exists(t) => flags[t] = 0 /\ ~ result[t]

\* A task shown as completed has its result, and a task without a result has
\* no findings: a reader never sees half of a run.
RunsAreWhole ==
    \A t \in TaskId : /\ row[t] = "completed" => result[t]
                      /\ ~ result[t] => flags[t] = 0

\* Retries never duplicate findings, however often a run fails: a task holds
\* the findings of more than one run only if the broker redelivered its
\* message, and then of at most one run per redelivery more.
FindingsOncePerDelivery ==
    \A t \in TaskId : flags[t] <= 1 + redelivered[t]

\* A failure overwrites a success only after a redelivery: without one, a
\* failed task has neither result nor findings.
FailureHidesNoSuccess ==
    \A t \in TaskId : row[t] = "failed" /\ result[t] => redelivered[t] > 0

\* A committed task is abandoned in QUEUED in three ways only: a worker looked
\* it up before the request had committed it, an attempt failed and so did the
\* attempt to record that, or the pool process was killed in an attempt.  The
\* death of a whole worker abandons nothing.
Pending(t) ==
    \/ \E n \in 0..MaxRetries : queue[[task |-> t, retries |-> n]] > 0
    \/ \E w \in Workers : /\ wpc[w] \in Undecided
                          /\ Held(w) = t
NobodyForgotten ==
    \A t \in TaskId : row[t] = "queued" => t \in missed \cup unmarked \cup lost \/ Pending(t)

\* What the usage records say is never more than the runs that were
\* committed, although both halves of the increment race.
NeverOverbilled == SumFunction(usage) <= published

\* Under fair scheduling a committed task does not stay QUEUED: it reaches an
\* outcome, is purged, or is one of the three abandoned kinds.
QueuedSettles ==
    \A t \in TaskId :
        row[t] = "queued" ~> row[t] # "queued" \/ t \in missed \cup unmarked \cup lost

\* Attempts are bounded: once the requests stop, the broker drains and every
\* worker is idle for good.
Drains == <>[]Drained

\* The committed tables implement the board a reviewer is promised: tasks,
\* findings and results change together, one whole step at a time.
Board == INSTANCE TaskBoard WITH status <- row, findings <- flags
BoardSpec == Board!Spec

\* tasks.py: "This ensures re-runs replace results rather than accumulate
\* duplicate findings": one task of a type at a time.
OneTaskPerType ==
    \A s, t \in Existing : TypeOf(s) = TypeOf(t) => s = t

=============================================================================
