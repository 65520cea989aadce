------------------------------ MODULE Tenancy ------------------------------
(***************************************************************************)
(* What the requests of one organization's people do to its members and to *)
(* its projects: inviting, changing roles, removing; creating projects     *)
(* under the plan's monthly limit, deleting them.  A request is served by  *)
(* one of the server's Slots, each of which serves one after the other.    *)
(* member, role and fresh are what is committed; what a request has read,  *)
(* or flushed and not committed, is in its slot.                           *)
(***************************************************************************)
EXTENDS Integers, FiniteSets

CONSTANTS
    Slots,          \* requests served at a time
    People,         \* email addresses
    Roles,
    Projects,       \* bound: ids of this month's projects
    Plans,
    Limit,          \* PLAN_LIMITS[plan]["projects_per_month"], -1: unlimited
    MaxLost,        \* bound: invitations that fail after their email, per person
    Nobody          \* no person, no project

ASSUME PlansAssumption ==
    /\ Limit \in [Plans -> (Nat \ {0}) \cup {-1}]
    /\ IsFiniteSet(Slots) /\ IsFiniteSet(Projects) /\ MaxLost \in Nat
    /\ People \cap Projects = {} /\ Nobody \notin People \cup Projects

VARIABLES
    \* stores
    user,       \* people with a users row
    member,     \* memberships: "none", "active", "removed" (is_active = false)
    role,       \* memberships.role
    fresh,      \* projects created this month
    plan,       \* subscriptions.plan
    \* slots
    request,    \* what each slot is serving, and how far it is
    \* history
    mails,      \* invitation emails sent to each person
    lost,       \* of those, how many came from a request that then failed
    best        \* the highest limit of this month so far, -1: unlimited

stores  == <<user, member, role, fresh, plan>>
history == <<mails, lost, best>>
vars    == <<stores, request, history>>

\* at: how far it is; on: the person or project it is about; role: the role it
\* gives; loaded: the membership as selected; quota: the limit of the plan as
\* selected; born: the month its transaction began in.
Idle == [at |-> "idle", on |-> Nobody, role |-> Nobody, loaded |-> "none", quota |-> -1,
         born |-> "this"]

At(q, states) == request[q].at \in states
Begin(q, r)   == At(q, {"idle"}) /\ request' = [request EXCEPT ![q] = r]
Go(q, to)     == request' = [request EXCEPT ![q].at = to]
Done(q)       == request' = [request EXCEPT ![q] = Idle]

Init ==
    /\ user \in SUBSET People       \* those who are in other organizations
    /\ fresh = {}
    /\ member = [p \in People |-> "none"]
    /\ role = [p \in People |-> Nobody]
    /\ plan \in Plans
    /\ request = [q \in Slots |-> Idle]
    /\ mails = [p \in People |-> 0]
    /\ lost = [p \in People |-> 0]
    /\ best = Limit[plan]

-----------------------------------------------------------------------------
(* invite_member                                                           *)

\* Requests whose uncommitted rows are in the way of inserting one for p.
InTheWay(p, states) == {q \in Slots : request[q].on = p /\ At(q, states)}

\* SELECT the user by email.
FindUser(q, p, r) ==
    /\ Begin(q, [Idle EXCEPT !.at = IF p \in user THEN "known" ELSE "unknown",
                             !.on = p, !.role = r])
    /\ UNCHANGED <<stores, history>>

\* INSERT the placeholder.  users.email is unique: the INSERT waits for one
\* that is not committed, and fails if it is.
StubUser(q) ==
    LET p == request[q].on
    IN  /\ At(q, {"unknown"})
        /\ InTheWay(p, {"stubbed", "stub free", "stub added", "stub mailed"}) = {}
        /\ IF p \in user THEN Done(q) ELSE Go(q, "stubbed")
        /\ UNCHANGED <<stores, history>>

\* SELECT the membership: any, active or not, answers 409.
FindMember(q) ==
    /\ At(q, {"known", "stubbed"})
    /\ IF member[request[q].on] # "none" THEN Done(q)
       ELSE Go(q, IF At(q, {"known"}) THEN "free" ELSE "stub free")
    /\ UNCHANGED <<stores, history>>

\* As AddMember would be without uq_membership_user_org.
AddMemberUnchecked(q) ==
    /\ At(q, {"free", "stub free"})
    /\ Go(q, IF At(q, {"free"}) THEN "added" ELSE "stub added")
    /\ UNCHANGED <<stores, history>>

\* INSERT the membership: (user_id, organization_id) is unique.
AddMember(q) ==
    LET p == request[q].on
    IN  /\ At(q, {"free", "stub free"})
        /\ InTheWay(p, {"added", "mailed", "stub added", "stub mailed"}) = {}
        /\ IF member[p] # "none" THEN Done(q)
           ELSE Go(q, IF At(q, {"free"}) THEN "added" ELSE "stub added")
        /\ UNCHANGED <<stores, history>>

\* The email is queued before the transaction commits.
Mail(q) ==
    /\ At(q, {"added", "stub added"})
    /\ Go(q, IF At(q, {"added"}) THEN "mailed" ELSE "stub mailed")
    /\ mails' = [mails EXCEPT ![request[q].on] = @ + 1]
    /\ UNCHANGED <<stores, lost, best>>

CommitInvite(q) ==
    LET p == request[q].on
    IN  /\ At(q, {"mailed", "stub mailed"})
        /\ Done(q)
        /\ user' = user \cup {p}
        /\ member' = [member EXCEPT ![p] = "active"]
        /\ role' = [role EXCEPT ![p] = request[q].role]
        /\ UNCHANGED <<fresh, plan, history>>

\* A statement, the email queue or the commit fails: rolled back, but an email
\* that was queued is sent.
AbortInvite(q) ==
    LET p == request[q].on
    IN  /\ At(q, {"known", "unknown", "stubbed", "free", "stub free", "added", "stub added",
                  "mailed", "stub mailed"})
        /\ Done(q)
        /\ IF At(q, {"mailed", "stub mailed"})
           THEN lost[p] < MaxLost /\ lost' = [lost EXCEPT ![p] = @ + 1]
           ELSE UNCHANGED lost
        /\ UNCHANGED <<stores, mails, best>>

-----------------------------------------------------------------------------
(* update_member_role, remove_member                                       *)

\* SELECT the membership by its id, removed or not.
Find(q, p, to) ==
    /\ member[p] # "none"
    /\ Begin(q, [Idle EXCEPT !.at = to, !.on = p, !.loaded = member[p]])
    /\ UNCHANGED <<stores, history>>

\* As ChangeRole would be if the UPDATE wrote the whole row as it was loaded.
ChangeRow(q, r) ==
    LET p == request[q].on
    IN  /\ At(q, {"changing"})
        /\ Done(q)
        /\ role' = [role EXCEPT ![p] = r]
        /\ member' = [member EXCEPT ![p] = request[q].loaded]
        /\ UNCHANGED <<user, fresh, plan, history>>

\* UPDATE the role, the only column that was assigned.
ChangeRole(q, r) ==
    /\ At(q, {"changing"})
    /\ Done(q)
    /\ role' = [role EXCEPT ![request[q].on] = r]
    /\ UNCHANGED <<user, member, fresh, plan, history>>

\* UPDATE is_active.
Remove(q) ==
    /\ At(q, {"removing"})
    /\ Done(q)
    /\ member' = [member EXCEPT ![request[q].on] = "removed"]
    /\ UNCHANGED <<user, role, fresh, plan, history>>

-----------------------------------------------------------------------------
(* create_project, delete_project                                          *)

\* The request's transaction begins, whose time will be created_at; SELECT the
\* plan.  (QuotaMiddleware has let the request through: it refuses those of
\* organizations that are not served, but not when its own check fails.)
ReadPlan(q) ==
    /\ Begin(q, [Idle EXCEPT !.at = "planned", !.quota = Limit[plan]])
    /\ UNCHANGED <<stores, history>>

\* As Count would be if the project to come were not reckoned with.
CountOneMore(q) ==
    /\ At(q, {"planned"})
    /\ IF request[q].quota # -1 /\ Cardinality(fresh) > request[q].quota THEN Done(q)
       ELSE Go(q, "counted")
    /\ UNCHANGED <<stores, history>>

\* Count this month's projects, unless the plan is unlimited.
Count(q) ==
    /\ At(q, {"planned"})
    /\ IF request[q].quota # -1 /\ Cardinality(fresh) >= request[q].quota THEN Done(q)
       ELSE Go(q, "counted")
    /\ UNCHANGED <<stores, history>>

\* The row is inserted and committed; it belongs to the month the transaction
\* began in.
CommitProject(q) ==
    /\ At(q, {"counted"})
    /\ Done(q)
    /\ IF request[q].born = "this"
       THEN \E x \in Projects \ fresh : fresh' = fresh \cup {x}
       ELSE UNCHANGED fresh
    /\ UNCHANGED <<user, member, role, plan, history>>

FindProject(q, x) ==
    /\ x \in fresh
    /\ Begin(q, [Idle EXCEPT !.at = "deleting", !.on = x])
    /\ UNCHANGED <<stores, history>>

\* With everything in it (modules AnalysisTasks and Documents).
DeleteProject(q) ==
    /\ At(q, {"deleting"})
    /\ Done(q)
    /\ fresh' = fresh \ {request[q].on}
    /\ UNCHANGED <<user, member, role, plan, history>>

\* A statement or the commit fails.
AbortOther(q) ==
    /\ At(q, {"changing", "removing", "planned", "counted", "deleting"})
    /\ Done(q)
    /\ UNCHANGED <<stores, history>>

-----------------------------------------------------------------------------
(* The environment                                                         *)

\* The higher of two limits.
Higher(a, b) == IF a = -1 \/ b = -1 THEN -1 ELSE IF a > b THEN a ELSE b

\* A Stripe webhook commits another plan (module Accounts).
Subscribe(to) ==
    /\ plan' = to
    /\ best' = Higher(best, Limit[to])
    /\ UNCHANGED <<user, member, role, fresh, request, mails, lost>>

\* The first of the month: what was created is last month's.  No request takes
\* a month.
NextMonth ==
    /\ \A q \in Slots : request[q].born = "this"
    /\ fresh' = {}
    /\ request' = [q \in Slots |-> IF At(q, {"idle"}) THEN Idle
                                   ELSE [request[q] EXCEPT !.born = "last"]]
    /\ best' = Limit[plan]
    /\ UNCHANGED <<user, member, role, plan, mails, lost>>

Next ==
    \/ \E q \in Slots, p \in People : \E r \in Roles : FindUser(q, p, r)
    \/ \E q \in Slots : \/ StubUser(q) \/ FindMember(q) \/ AddMember(q) \/ Mail(q)
                        \/ CommitInvite(q) \/ AbortInvite(q)
    \/ \E q \in Slots, p \in People : Find(q, p, "changing") \/ Find(q, p, "removing")
    \/ \E q \in Slots, r \in Roles : ChangeRole(q, r)
    \/ \E q \in Slots : Remove(q) \/ ReadPlan(q) \/ Count(q) \/ CommitProject(q)
    \/ \E q \in Slots, x \in Projects : FindProject(q, x)
    \/ \E q \in Slots : DeleteProject(q) \/ AbortOther(q)
    \/ \E to \in Plans : Subscribe(to)
    \/ NextMonth

Spec == Init /\ [][Next]_vars

-----------------------------------------------------------------------------
(* Properties                                                              *)

States == {"idle", "known", "unknown", "stubbed", "free", "stub free", "added", "stub added",
           "mailed", "stub mailed", "changing", "removing", "planned", "counted", "deleting"}

RequestType ==
    [at : States, on : People \cup Projects \cup {Nobody}, role : Roles \cup {Nobody},
     loaded : {"none", "active", "removed"}, quota : Nat \cup {-1}, born : {"this", "last"}]

\* Every variable has its type.
TypeOK ==
    /\ user \in SUBSET People /\ fresh \in SUBSET Projects
    /\ member \in [People -> {"none", "active", "removed"}]
    /\ role \in [People -> Roles \cup {Nobody}]
    /\ plan \in Plans
    /\ request \in [Slots -> RequestType]
    /\ mails \in [People -> Nat] /\ lost \in [People -> Nat] /\ best \in Nat \cup {-1}

Mailing(p) == InTheWay(p, {"mailed", "stub mailed"})

\* However many invite a person at once, one email goes out for the membership
\* and one for each request that fails after it: the unique keys make all but
\* one wait before their email.
InvitedOnce ==
    \A p \in People :
        mails[p] = lost[p] + Cardinality(Mailing(p)) + (IF member[p] = "none" THEN 0 ELSE 1)

\* Who has been removed stays out: no change of role that was loaded before
\* brings a member back, and no invitation either (users.py answers 409).
RemovalSticks ==
    [][\A p \in People : member[p] = "removed" => member'[p] = "removed"]_vars

\* The monthly limit is passed by no more than the requests that counted before
\* the others' projects were committed, whatever plan changes, deletions and
\* failures lie between.
QuotaHolds == best # -1 => Cardinality(fresh) < best + Cardinality(Slots)

=============================================================================
