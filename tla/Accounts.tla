------------------------------ MODULE Accounts ------------------------------
(***************************************************************************)
(* Organizations and their subscriptions, as the webhooks of Clerk and     *)
(* Stripe maintain them.  Both senders deliver every event until it is     *)
(* answered with 200, possibly twice and in any order, and the requests    *)
(* run concurrently: each reads, decides, writes the columns that differ   *)
(* from what it has read, and commits.                                     *)
(***************************************************************************)
EXTENDS Naturals, FiniteSets

CONSTANTS
    Orgs,           \* organizations; all have the same name
    Tagged,         \* those whose Stripe subscription carries metadata.tenant_id:
                    \* the checkout tags its session only, somebody did it by hand
    Handlers,       \* webhook requests that may be active at the same time
    Reported,       \* bound: the statuses Stripe reports
    MaxEvents,      \* bound: Stripe events of an organization
    MaxFailures,    \* bound: requests that fail or whose answer is lost
    Scopes,         \* bound: what may happen in one behaviour
    NoEvent         \* the handler is idle

StripeStatus == {"active", "trialing", "past_due", "unpaid", "incomplete", "canceled"}
Status       == {"none", "active", "trialing", "past_due", "canceled"}

\* A subscription at Stripe, and what its invoices have come to since the last
\* event of the subscription itself: nothing worth telling, a failed payment,
\* or a later successful one.
Standing == [status  : StripeStatus \cup {"none"},
             invoice : {"none", "failed", "settled"}]
Stands(status) == [status |-> status, invoice |-> "none"]

ClerkKind  == {"created", "renamed", "removed"}
StripeKind == {"subscription", "ended", "failed", "succeeded"}

\* n numbers the Stripe events of an organization as they happen; status is
\* the subscription's, in events that carry it.
Event == [org : Orgs, kind : ClerkKind \cup StripeKind,
          status : StripeStatus \cup {"none"}, n : 0..MaxEvents]
Clerk(o, k)        == [org |-> o, kind |-> k, status |-> "none", n |-> 0]
Stripe(o, k, s, n) == [org |-> o, kind |-> k, status |-> s, n |-> n]
FromStripe(e)      == e.kind \in StripeKind

ASSUME ParametersAssumption ==
    /\ Tagged \subseteq Orgs
    /\ Reported \subseteq StripeStatus \ {"canceled"}
    /\ MaxEvents \in Nat /\ MaxFailures \in Nat
    /\ Scopes \subseteq [orgs : SUBSET Orgs, churn : BOOLEAN,
                         events : 0..MaxEvents, failures : 0..MaxFailures]
    /\ NoEvent \notin Event

VARIABLES
    \* Clerk and Stripe
    clerk,      \* the organization in Clerk
    stripe,     \* its subscription in Stripe
    emitted,    \* Stripe events so far
    pending,    \* events not answered yet
    \* tables
    org,        \* organizations.is_active
    slug,       \* organizations.slug
    sub,        \* subscriptions.status
    customer,   \* organizations whose subscription has a stripe_customer_id
    \* handlers
    pc, ev,
    free,       \* created: was the plain slug free
    read,       \* the status (Stripe) or is_active (Clerk) that was read
    \* history
    welcomed,   \* welcome emails dispatched, up to 2
    ignored,    \* organizations whose deletion found no row
    applied,    \* the latest Stripe event taken
    unsure,     \* see Take
    failures,
    scope       \* the organizations there are, whether Clerk renames and deletes
                \* them, and how many events and failures there may be

senders  == <<clerk, stripe, emitted, pending>>
tables   == <<org, slug, sub, customer>>
handlers == <<pc, ev, free, read>>
noted    == <<welcomed, ignored, applied, unsure>>
vars     == <<senders, tables, handlers, noted, failures, scope>>

Init ==
    /\ clerk = [o \in Orgs |-> "none"]
    /\ stripe = [o \in Orgs |-> Stands("none")]
    /\ emitted = [o \in Orgs |-> 0]
    /\ pending = {}
    /\ org = [o \in Orgs |-> "none"]
    /\ slug = [o \in Orgs |-> "none"]
    /\ sub = [o \in Orgs |-> "none"]
    /\ customer = {}
    /\ pc = [h \in Handlers |-> "idle"]
    /\ ev = [h \in Handlers |-> NoEvent]
    /\ free = [h \in Handlers |-> FALSE]
    /\ read = [h \in Handlers |-> "none"]
    /\ welcomed = [o \in Orgs |-> 0]
    /\ ignored = {}
    /\ applied = [o \in Orgs |-> 0]
    /\ unsure = {}
    /\ failures = 0
    /\ scope \in Scopes

-----------------------------------------------------------------------------
(* Clerk and Stripe                                                        *)

\* An organization is created, renamed (once) and deleted in Clerk.
ClerkChange(o) ==
    /\ o \in scope.orgs
    /\ \/ clerk[o] = "none" /\ clerk' = [clerk EXCEPT ![o] = "alive"]
          /\ pending' = pending \cup {Clerk(o, "created")}
       \/ clerk[o] = "alive" /\ scope.churn /\ clerk' = [clerk EXCEPT ![o] = "renamed"]
          /\ pending' = pending \cup {Clerk(o, "renamed")}
       \/ clerk[o] \in {"alive", "renamed"} /\ scope.churn
          /\ clerk' = [clerk EXCEPT ![o] = "deleted"]
          /\ pending' = pending \cup {Clerk(o, "removed")}
    /\ UNCHANGED <<stripe, emitted, tables, handlers, noted, failures, scope>>

\* What a Stripe event makes of the subscription.  A payment does not bring a
\* canceled subscription back.
After(s, kind, status) ==
    CASE kind = "subscription" -> Stands(status)
      [] kind = "ended"        -> Stands("canceled")
      [] kind = "failed"       ->
            [status  |-> IF s.status \in {"active", "trialing"} THEN "past_due" ELSE s.status,
             invoice |-> "failed"]
      [] kind = "succeeded"    ->
            [status  |-> IF s.status \in {"past_due", "unpaid", "incomplete"}
                         THEN "active" ELSE s.status,
             invoice |-> IF s.invoice = "failed" THEN "settled" ELSE s.invoice]

Emitted(o) == {e \in pending : e.org = o /\ FromStripe(e)}

\* Something happens to the subscription: checkout (also after a
\* cancellation), a change of status or price, the end, an invoice (also one
\* that is still open when the subscription has ended).
Happen(o, kind, status) ==
    /\ org[o] # "none"
    /\ emitted[o] < scope.events
    /\ IF kind = "subscription" THEN status \in Reported
       ELSE stripe[o].status # "none" /\ status = "none"
    /\ kind = "ended" => stripe[o].status # "canceled"
    /\ stripe' = [stripe EXCEPT ![o] = After(@, kind, status)]
    /\ emitted' = [emitted EXCEPT ![o] = @ + 1]
    /\ pending' = pending \cup {Stripe(o, kind, status, emitted[o] + 1)}
    /\ UNCHANGED <<clerk, tables, handlers, noted, failures, scope>>

-----------------------------------------------------------------------------
(* The handlers                                                            *)

SlugTaken == \E p \in Orgs : slug[p] = "plain"

\* Invoices look the subscription up by stripe_customer_id.
ByCustomer == {"failed", "succeeded"}

Busy(o) == \E h \in Handlers : ev[h] # NoEvent /\ ev[h].org = o /\ FromStripe(ev[h])

\* A request arrives and reads.  History: the organization's local status is
\* unsure once a Stripe event arrives out of order, again, or while another one
\* is handled, until a subscription event comes in alone and with nothing
\* newer or older outstanding.
Take(h, e) ==
    LET o       == e.org
        newest  == Emitted(o) = {e} /\ e.n = emitted[o] /\ ~ Busy(o)
        inOrder == (\A f \in Emitted(o) : f.n >= e.n) /\ e.n >= applied[o] /\ ~ Busy(o)
    IN  /\ pc[h] = "idle"
        /\ e \in pending
        /\ pc' = [pc EXCEPT ![h] = "read"]
        /\ ev' = [ev EXCEPT ![h] = e]
        /\ free' = [free EXCEPT ![h] = e.kind = "created" /\ ~ SlugTaken]
        /\ read' = [read EXCEPT ![h] =
              IF ~ FromStripe(e) THEN org[o]
              ELSE IF e.kind \in ByCustomer /\ o \notin customer THEN "none"
              ELSE sub[o]]
        /\ ignored' = IF e.kind = "removed" /\ org[o] = "none" THEN ignored \cup {o} ELSE ignored
        /\ IF FromStripe(e)
           THEN /\ applied' = [applied EXCEPT ![o] = IF e.n > @ THEN e.n ELSE @]
                /\ unsure' = IF newest /\ e.kind = "subscription" /\ o \in Tagged
                             THEN unsure \ {o}
                             ELSE IF inOrder THEN unsure ELSE unsure \cup {o}
           ELSE UNCHANGED <<applied, unsure>>
        /\ UNCHANGED <<senders, tables, welcomed, failures, scope>>

End(h) ==
    /\ pc' = [pc EXCEPT ![h] = "idle"]
    /\ ev' = [ev EXCEPT ![h] = NoEvent]
    /\ free' = [free EXCEPT ![h] = FALSE]
    /\ read' = [read EXCEPT ![h] = "none"]
    /\ scope' = scope

\* The request is over: 200, and the sender is done with the event unless the
\* answer is lost.
Answer(h) ==
    /\ End(h)
    /\ \/ pending' = pending \ {ev[h]} /\ failures' = failures
       \/ failures < scope.failures /\ failures' = failures + 1 /\ pending' = pending

At(h, kinds) == pc[h] = "read" /\ ev[h].kind \in kinds

\* _handle_org_created: the organization is known, nothing is done.
AlreadyExists(h) ==
    /\ At(h, {"created"})
    /\ read[h] # "none"
    /\ Answer(h)
    /\ UNCHANGED <<clerk, stripe, emitted, tables, noted>>

\* ... the organization, its rules and its trial subscription are committed
\* together.  clerk_org_id and slug are unique.
CommitCreated(h) ==
    LET o == ev[h].org
        s == IF free[h] THEN "plain" ELSE "suffixed"
    IN  /\ At(h, {"created"})
        /\ read[h] = "none"
        /\ org[o] = "none"
        /\ s = "plain" => ~ SlugTaken
        /\ org' = [org EXCEPT ![o] = "active"]
        /\ slug' = [slug EXCEPT ![o] = s]
        /\ sub' = [sub EXCEPT ![o] = "trialing"]
        /\ pc' = [pc EXCEPT ![h] = "committed"]
        /\ UNCHANGED <<senders, customer, ev, free, read, noted, failures, scope>>

\* ... then the welcome email goes out.
Welcome(h) ==
    LET o == ev[h].org
    IN  /\ pc[h] = "committed"
        /\ welcomed' = [welcomed EXCEPT ![o] = IF @ < 2 THEN @ + 1 ELSE @]
        /\ Answer(h)
        /\ UNCHANGED <<clerk, stripe, emitted, tables, ignored,
                       applied, unsure>>

\* As RaceLost would be if the conflict were answered like a duplicate.
RaceLostAnswered(h) ==
    LET o == ev[h].org
    IN  /\ At(h, {"created"})
        /\ read[h] = "none"
        /\ org[o] # "none" \/ (free[h] /\ SlugTaken)
        /\ Answer(h)
        /\ UNCHANGED <<clerk, stripe, emitted, tables, noted>>

\* As RaceLost would be if the email were dispatched before the commit.
RaceLostGreets(h) ==
    LET o == ev[h].org
    IN  /\ At(h, {"created"})
        /\ read[h] = "none"
        /\ org[o] # "none" \/ (free[h] /\ SlugTaken)
        /\ welcomed' = [welcomed EXCEPT ![o] = IF @ < 2 THEN @ + 1 ELSE @]
        /\ End(h)
        /\ UNCHANGED <<senders, tables, ignored, applied, unsure, failures>>

\* ... or a unique constraint is violated: 500, and Clerk delivers again.
RaceLost(h) ==
    LET o == ev[h].org
    IN  /\ At(h, {"created"})
        /\ read[h] = "none"
        /\ org[o] # "none" \/ (free[h] /\ SlugTaken)
        /\ End(h)
        /\ UNCHANGED <<senders, tables, noted, failures>>

\* As Rename would be if it wrote the whole row it had read.
RenameWritesRow(h) ==
    /\ At(h, {"renamed"})
    /\ org' = IF read[h] = "none" THEN org ELSE [org EXCEPT ![ev[h].org] = read[h]]
    /\ Answer(h)
    /\ UNCHANGED <<clerk, stripe, emitted, slug, sub, customer, noted>>

\* _handle_org_updated writes name and logo_url, and no slug.
Rename(h) ==
    /\ At(h, {"renamed"})
    /\ Answer(h)
    /\ UNCHANGED <<clerk, stripe, emitted, tables, noted>>

\* _handle_org_deleted: an unknown organization is ignored.
Remove(h) ==
    /\ At(h, {"removed"})
    /\ org' = IF read[h] = "none" THEN org ELSE [org EXCEPT ![ev[h].org] = "inactive"]
    /\ Answer(h)
    /\ UNCHANGED <<clerk, stripe, emitted, slug, sub, customer, noted>>

\* The UPDATE sets the status if it is not the one that was read.
SetStatus(h, status) ==
    sub' = IF status = read[h] THEN sub ELSE [sub EXCEPT ![ev[h].org] = status]

\* _status_map; a status it does not know counts as active.
StatusOf(s) == CASE s = "unpaid"     -> "past_due"
                 [] s = "incomplete" -> "active"
                 [] OTHER            -> s

\* upsert_from_stripe.  Without a tenant id the event is answered and dropped.
Upsert(h) ==
    /\ At(h, {"subscription"})
    /\ IF ev[h].org \in Tagged
       THEN SetStatus(h, StatusOf(ev[h].status)) /\ customer' = customer \cup {ev[h].org}
       ELSE UNCHANGED <<sub, customer>>
    /\ Answer(h)
    /\ UNCHANGED <<clerk, stripe, emitted, org, slug, noted>>

\* cancel_subscription.
Cancel(h) ==
    /\ At(h, {"ended"})
    /\ IF ev[h].org \in Tagged THEN SetStatus(h, "canceled") ELSE UNCHANGED sub
    /\ Answer(h)
    /\ UNCHANGED <<clerk, stripe, emitted, org, slug, customer, noted>>

\* mark_past_due: whatever the status was.
MarkPastDue(h) ==
    /\ At(h, {"failed"})
    /\ IF read[h] = "none" THEN UNCHANGED sub ELSE SetStatus(h, "past_due")
    /\ Answer(h)
    /\ UNCHANGED <<clerk, stripe, emitted, org, slug, customer, noted>>

\* As ClearPastDue would be if a payment activated every subscription.
ClearAny(h) ==
    /\ At(h, {"succeeded"})
    /\ IF read[h] = "none" THEN UNCHANGED sub ELSE SetStatus(h, "active")
    /\ Answer(h)
    /\ UNCHANGED <<clerk, stripe, emitted, org, slug, customer, noted>>

\* clear_past_due: a payment activates only a subscription that is past due.
ClearPastDue(h) ==
    /\ At(h, {"succeeded"})
    /\ IF read[h] = "past_due" THEN SetStatus(h, "active") ELSE UNCHANGED sub
    /\ Answer(h)
    /\ UNCHANGED <<clerk, stripe, emitted, org, slug, customer, noted>>

\* The request fails or its process dies: what is not committed is rolled
\* back, and the sender delivers again.
Fail(h) ==
    /\ pc[h] # "idle"
    /\ failures < scope.failures
    /\ failures' = failures + 1
    /\ End(h)
    /\ UNCHANGED <<senders, tables, noted>>

HandlerStep(h) ==
    \/ AlreadyExists(h) \/ CommitCreated(h) \/ Welcome(h) \/ RaceLost(h)
    \/ Rename(h) \/ Remove(h)
    \/ Upsert(h) \/ Cancel(h) \/ MarkPastDue(h) \/ ClearPastDue(h)

\* Nothing is left to deliver.
Quiet ==
    /\ pending = {}
    /\ \A h \in Handlers : pc[h] = "idle"
    /\ UNCHANGED vars

Next ==
    \/ \E o \in Orgs : ClerkChange(o)
    \/ \E o \in Orgs, kind \in StripeKind, s \in Reported \cup {"none"} : Happen(o, kind, s)
    \/ \E h \in Handlers : (\E e \in pending : Take(h, e)) \/ HandlerStep(h) \/ Fail(h)
    \/ Quiet

\* The server finishes the requests it has accepted, and Clerk does not give
\* up on an organization.created that is not answered.
Fairness ==
    /\ \A h \in Handlers : WF_vars(HandlerStep(h))
    /\ \A o \in Orgs : SF_vars(\E h \in Handlers : Take(h, Clerk(o, "created")))

Spec == Init /\ [][Next]_vars /\ Fairness

-----------------------------------------------------------------------------
(* Properties                                                              *)

\* Every variable has its type.  A subscription row never holds a status of
\* Stripe's that the application does not know.
TypeOK ==
    /\ clerk \in [Orgs -> {"none", "alive", "renamed", "deleted"}]
    /\ stripe \in [Orgs -> Standing]
    /\ emitted \in [Orgs -> 0..MaxEvents]
    /\ pending \in SUBSET Event
    /\ org \in [Orgs -> {"none", "active", "inactive"}]
    /\ slug \in [Orgs -> {"none", "plain", "suffixed"}]
    /\ sub \in [Orgs -> Status]
    /\ customer \in SUBSET Tagged
    /\ pc \in [Handlers -> {"idle", "read", "committed"}]
    /\ ev \in [Handlers -> Event \cup {NoEvent}]
    /\ free \in [Handlers -> BOOLEAN]
    /\ read \in [Handlers -> Status \cup {"inactive"}]
    /\ welcomed \in [Orgs -> 0..2]
    /\ ignored \in SUBSET Orgs
    /\ applied \in [Orgs -> 0..MaxEvents]
    /\ unsure \in SUBSET Orgs
    /\ failures \in 0..MaxFailures
    /\ scope \in Scopes

\* One welcome email at most, however often organization.created is delivered
\* and whichever of the requests that handle it at once wins.
WelcomedOnce == \A o \in Orgs : welcomed[o] <= 1

\* An organization deleted in Clerk is inactive here as soon as the event is
\* answered, whatever else is delivered at the same time; the exception is a
\* deletion that came in before the creation.
DeletedIsInactive ==
    \A o \in Orgs \ ignored :
        clerk[o] = "deleted" /\ Clerk(o, "removed") \notin pending => org[o] # "active"

\* check_task_quota lets tasks through.
Served(o) == sub[o] \in {"none", "active", "trialing"}

\* Once Stripe has been heard out, and unless events were muddled and no
\* subscription event has put that right since, a tagged organization is served
\* if its subscription is active or in its trial, and refused if it is unpaid.
\* What the code makes of the rest: it knows no `incomplete` and serves it, and
\* invoices count whatever became of their subscription, so that a payment
\* that fails and then succeeds brings a canceled one back to service.  An
\* organization that has paid through the checkout alone, whose subscription is
\* not tagged, stays on its trial whatever Stripe says.
ServiceMirrors ==
    /\ \A o \in Tagged \ unsure : Emitted(o) = {} /\ ~ Busy(o) =>
          LET s == stripe[o]
          IN  /\ s.status \in {"active", "trialing"} => Served(o)
              /\ s.status \in {"past_due", "unpaid"} => ~ Served(o)
              /\ s.status = "incomplete" => (Served(o) <=> s.invoice # "failed")
              /\ s.status = "canceled" => (Served(o) <=> s.invoice = "settled")
    /\ \A o \in Orgs \ Tagged : org[o] # "none" => sub[o] = "trialing"

\* Every organization of Clerk arrives, although two with one name race for
\* the slug and requests fail: the retry finds the slug taken.
Onboarded == \A o \in Orgs : clerk[o] # "none" ~> org[o] # "none"

=============================================================================
