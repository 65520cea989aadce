---------------------------- MODULE TrialEmails ----------------------------
(***************************************************************************)
(* The hourly beat task that sends the milestone emails of trials.  A run  *)
(* loads every trialing subscription, dispatches the emails that are due   *)
(* and not recorded in trial_emails_sent, and commits the new bitmasks of  *)
(* all of them at the end.  Runs overlap when one takes longer than the    *)
(* hour, when the broker redelivers it, or when two wait in the queue.     *)
(***************************************************************************)
EXTENDS Naturals

CONSTANTS
    Orgs,           \* organizations with a subscription
    Milestones,     \* bits of trial_emails_sent: day 3, day 7, day 12, ended
    Slots,          \* beat runs that may be active at the same time
    MaxFailures     \* bound: runs that fail

ASSUME BoundAssumption == MaxFailures \in Nat

VARIABLES
    trialing,   \* organizations whose subscription is TRIALING
    admin,      \* organizations with an admin_email
    due,        \* milestones reached, by organization
    bits,       \* subscriptions.trial_emails_sent, committed
    pc,         \* runs: "idle" or "sending"
    loaded,     \* runs: the organizations selected
    seen,       \* runs: the bitmasks selected
    now,        \* runs: the milestones reached when the run started
    mine,       \* runs: the bits the run has set and not committed
    \* history
    sent,       \* emails dispatched, up to 2
    settled,    \* emails dispatched by a run that met no trouble, up to 2
    clouded,    \* runs that have overlapped another
    failures

stored  == <<trialing, admin, due, bits>>
run     == <<pc, loaded, seen, now, mine>>
history == <<sent, settled, clouded, failures>>
vars    == <<stored, run, history>>

Count  == 0..2
Tick(n) == IF n < 2 THEN n + 1 ELSE n
NoBits == [o \in Orgs |-> {}]

Init ==
    /\ trialing = Orgs
    /\ admin \in SUBSET Orgs
    /\ due = NoBits /\ bits = NoBits
    /\ pc = [s \in Slots |-> "idle"]
    /\ loaded = [s \in Slots |-> {}]
    /\ seen = [s \in Slots |-> NoBits]
    /\ now = [s \in Slots |-> NoBits]
    /\ mine = [s \in Slots |-> NoBits]
    /\ sent = [o \in Orgs |-> [b \in Milestones |-> 0]]
    /\ settled = [o \in Orgs |-> [b \in Milestones |-> 0]]
    /\ clouded = {}
    /\ failures = 0

-----------------------------------------------------------------------------
\* Time passes: a day threshold or trial_end.
Reach(o, b) ==
    /\ b \notin due[o]
    /\ due' = [due EXCEPT ![o] = @ \cup {b}]
    /\ UNCHANGED <<trialing, admin, bits, run, history>>

\* A Stripe webhook moves the subscription to another status.
LeaveTrial(o) ==
    /\ trialing' = trialing \ {o}
    /\ UNCHANGED <<admin, due, bits, run, history>>

Active == {s \in Slots : pc[s] # "idle"}

\* The rows are selected, joined to their organizations.
Start(s) ==
    /\ pc[s] = "idle"
    /\ pc' = [pc EXCEPT ![s] = "sending"]
    /\ loaded' = [loaded EXCEPT ![s] = trialing]
    /\ seen' = [seen EXCEPT ![s] = bits]
    /\ now' = [now EXCEPT ![s] = due]
    /\ mine' = [mine EXCEPT ![s] = NoBits]
    /\ clouded' = IF Active = {} THEN clouded \ {s} ELSE clouded \cup Active \cup {s}
    /\ UNCHANGED <<stored, sent, settled, failures>>

\* What the loop has still to do for an organization.
Todo(s, o) == IF o \in loaded[s] THEN now[s][o] \ (seen[s][o] \cup mine[s][o]) ELSE {}

\* As Dispatch would be if the loop stopped at the first email that is due and
\* recorded them all.
DispatchFirstOnly(s, o, b) ==
    /\ pc[s] = "sending"
    /\ b \in Todo(s, o)
    /\ mine' = [mine EXCEPT ![s][o] = @ \cup Todo(s, o)]
    /\ sent' = IF o \in admin THEN [sent EXCEPT ![o][b] = Tick(@)] ELSE sent
    /\ UNCHANGED <<stored, pc, loaded, seen, now, settled, clouded, failures>>

\* As Dispatch would be if the loop did not test the bit.
DispatchAgain(s, o, b) ==
    /\ pc[s] = "sending"
    /\ o \in loaded[s] /\ b \in now[s][o] \ mine[s][o]
    /\ mine' = [mine EXCEPT ![s][o] = @ \cup {b}]
    /\ sent' = IF o \in admin THEN [sent EXCEPT ![o][b] = Tick(@)] ELSE sent
    /\ UNCHANGED <<stored, pc, loaded, seen, now, settled, clouded, failures>>

\* One email goes to the broker, if the organization has an address; the bit
\* is set in the session either way.
Dispatch(s, o, b) ==
    /\ pc[s] = "sending"
    /\ b \in Todo(s, o)
    /\ mine' = [mine EXCEPT ![s][o] = @ \cup {b}]
    /\ sent' = IF o \in admin THEN [sent EXCEPT ![o][b] = Tick(@)] ELSE sent
    /\ UNCHANGED <<stored, pc, loaded, seen, now, settled, clouded, failures>>

\* The one commit at the end: each changed row gets the mask the run read
\* with its own bits added.
Commit(s) ==
    /\ pc[s] = "sending"
    /\ \A o \in Orgs : Todo(s, o) = {}
    /\ bits' = [o \in Orgs |-> IF mine[s][o] = {} THEN bits[o] ELSE seen[s][o] \cup mine[s][o]]
    /\ settled' = IF s \in clouded THEN settled
                  ELSE [o \in Orgs |-> [b \in Milestones |->
                          IF b \in mine[s][o] THEN Tick(settled[o][b]) ELSE settled[o][b]]]
    /\ pc' = [pc EXCEPT ![s] = "idle"]
    /\ UNCHANGED <<trialing, admin, due, loaded, seen, now, mine, sent, clouded, failures>>

\* A dispatch raises, the commit fails or the worker dies: no bit is stored.
Fail(s) ==
    /\ pc[s] = "sending"
    /\ failures < MaxFailures
    /\ failures' = failures + 1
    /\ pc' = [pc EXCEPT ![s] = "idle"]
    /\ UNCHANGED <<stored, loaded, seen, now, mine, sent, settled, clouded>>

Run(s) == Start(s) \/ Commit(s) \/ \E o \in Orgs, b \in Milestones : Dispatch(s, o, b)

Next ==
    \/ \E o \in Orgs : LeaveTrial(o) \/ \E b \in Milestones : Reach(o, b)
    \/ \E s \in Slots : Run(s) \/ Fail(s)

\* Beat schedules runs for ever and the worker finishes them.
Spec == Init /\ [][Next]_vars /\ \A s \in Slots : WF_vars(Run(s))

-----------------------------------------------------------------------------
\* Every variable has its type (models/billing.py).
TypeOK ==
    /\ trialing \in SUBSET Orgs /\ admin \in SUBSET Orgs
    /\ due \in [Orgs -> SUBSET Milestones]
    /\ bits \in [Orgs -> SUBSET Milestones]
    /\ pc \in [Slots -> {"idle", "sending"}]
    /\ loaded \in [Slots -> SUBSET Orgs]
    /\ seen \in [Slots -> [Orgs -> SUBSET Milestones]]
    /\ now \in [Slots -> [Orgs -> SUBSET Milestones]]
    /\ mine \in [Slots -> [Orgs -> SUBSET Milestones]]
    /\ sent \in [Orgs -> [Milestones -> Count]]
    /\ settled \in [Orgs -> [Milestones -> Count]]
    /\ clouded \in SUBSET Slots
    /\ failures \in 0..MaxFailures

\* A recorded email was dispatched, however runs overlap and overwrite each
\* other's masks: no organization with an address misses one.
RecordedWasSent ==
    \A o \in admin : \A b \in bits[o] : sent[o][b] > 0

\* Of the runs that neither failed nor overlapped another, at most one sends a
\* given email: a repetition always has an unlucky run behind it.
SettledOnce == \A o \in Orgs : \A b \in Milestones : settled[o][b] <= 1

\* A milestone that is reached is emailed, unless the trial ends first: failed
\* runs delay it and lose nothing.
DueIsSent ==
    \A o \in Orgs : \A b \in Milestones :
        b \in due[o] /\ o \in admin ~> sent[o][b] > 0 \/ o \notin trialing

=============================================================================
