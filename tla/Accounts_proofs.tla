-------------------------- MODULE Accounts_proofs --------------------------
(***************************************************************************)
(* Type correctness of Accounts, that the welcome email goes out at most   *)
(* once, that organizations deleted in Clerk are inactive, and that the    *)
(* subscriptions' rows say what Stripe says.                               *)
(***************************************************************************)
EXTENDS Accounts, TLAPS

\* A request that has committed an organization handles its creation, the
\* organization is there, and nobody has welcomed it yet.
CommittedIsNew ==
    \A h \in Handlers : pc[h] = "committed" =>
        /\ ev[h] \in Event /\ ev[h].kind = "created"
        /\ org[ev[h].org] # "none"
        /\ welcomed[ev[h].org] = 0

\* The unique keys let one request commit an organization.
CommittedApart ==
    \A g, h \in Handlers :
        pc[g] = "committed" /\ pc[h] = "committed" /\ ev[g].org = ev[h].org => g = h

\* Only organizations that are there are welcomed.
WelcomedIsThere == \A o \in Orgs : welcomed[o] > 0 => org[o] # "none"

\* A request that is at work has an event.
WorkingHasEvent == \A h \in Handlers : pc[h] # "idle" => ev[h] \in Event

\* A deletion that found no row is noted as ignored.
MissedIsIgnored ==
    \A h \in Handlers :
        pc[h] = "read" /\ ev[h].kind = "removed" /\ read[h] = "none" => ev[h].org \in ignored

\* Once its deletion is answered, an organization is not only not active, it
\* is there: nobody can create it any more.
DeletedIsThere ==
    \A o \in Orgs \ ignored :
        clerk[o] = "deleted" /\ Clerk(o, "removed") \notin pending => org[o] = "inactive"

IInv == /\ TypeOK /\ WorkingHasEvent
        /\ CommittedIsNew /\ CommittedApart /\ WelcomedIsThere /\ WelcomedOnce
        /\ MissedIsIgnored /\ DeletedIsThere

-----------------------------------------------------------------------------
LEMMA InitInvariant == Init => IInv
<1> SUFFICES ASSUME Init PROVE IInv
    OBVIOUS
<1> USE DEF Init
<1>1. TypeOK
    BY ParametersAssumption DEF TypeOK, Status, Standing, Stands
<1>2. WorkingHasEvent /\ CommittedIsNew /\ CommittedApart /\ MissedIsIgnored
    BY DEF WorkingHasEvent, CommittedIsNew, CommittedApart, MissedIsIgnored
<1>3. WelcomedIsThere /\ WelcomedOnce /\ DeletedIsThere
    BY DEF WelcomedIsThere, WelcomedOnce, DeletedIsThere
<1>4. QED
    BY <1>1, <1>2, <1>3 DEF IInv

\* Events of both senders are events.
LEMMA ClerkIsEvent ==
    ASSUME NEW o \in Orgs, NEW k \in ClerkKind
    PROVE  Clerk(o, k) \in Event
BY ParametersAssumption DEF Clerk, Event

LEMMA StripeIsEvent ==
    ASSUME NEW o \in Orgs, NEW k \in StripeKind, NEW s \in Reported \cup {"none"},
           NEW n \in 0..MaxEvents
    PROVE  Stripe(o, k, s, n) \in Event
BY ParametersAssumption DEF Stripe, Event

\* The fields of an event.
LEMMA EventFields ==
    ASSUME NEW e \in Event
    PROVE  /\ e.org \in Orgs /\ e.kind \in ClerkKind \cup StripeKind
           /\ e.status \in StripeStatus \cup {"none"} /\ e.n \in 0..MaxEvents
BY DEF Event

\* The status map knows every status.
LEMMA StatusOfType ==
    ASSUME NEW s \in StripeStatus \cup {"none"}
    PROVE  StatusOf(s) \in Status
BY DEF StatusOf, StripeStatus, Status

\* What Stripe events make of a subscription.
LEMMA AfterType ==
    ASSUME NEW s \in Standing, NEW kind \in StripeKind,
           NEW status \in StripeStatus \cup {"none"}
    PROVE  After(s, kind, status) \in Standing
<1>1. s.status \in StripeStatus \cup {"none"} /\ s.invoice \in {"none", "failed", "settled"}
    BY DEF Standing
<1>2. CASE kind = "subscription" \/ kind = "ended"
    BY <1>2 DEF After, Stands, Standing, StripeStatus
<1>3. CASE kind = "failed"
    BY <1>1, <1>3 DEF After, Standing, StripeStatus
<1>4. CASE kind = "succeeded"
    BY <1>1, <1>4 DEF After, Standing, StripeStatus
<1>5. QED
    BY <1>2, <1>3, <1>4 DEF StripeKind

\* What a behaviour allows is within the bounds.
LEMMA ScopeBounds ==
    ASSUME TypeOK
    PROVE  scope.events \in 0..MaxEvents /\ scope.failures \in 0..MaxFailures
BY ParametersAssumption DEF TypeOK

\* Ending a request keeps the types of its variables.
LEMMA EndType ==
    ASSUME TypeOK, NEW h \in Handlers, End(h)
    PROVE  /\ pc' \in [Handlers -> {"idle", "read", "committed"}]
           /\ ev' \in [Handlers -> Event \cup {NoEvent}]
           /\ free' \in [Handlers -> BOOLEAN]
           /\ read' \in [Handlers -> Status \cup {"inactive"}]
           /\ scope' \in Scopes
BY DEF TypeOK, End, Status

\* Answering it, too, and the senders'.
LEMMA AnswerType ==
    ASSUME TypeOK, NEW h \in Handlers, Answer(h)
    PROVE  /\ pc' \in [Handlers -> {"idle", "read", "committed"}]
           /\ ev' \in [Handlers -> Event \cup {NoEvent}]
           /\ free' \in [Handlers -> BOOLEAN]
           /\ read' \in [Handlers -> Status \cup {"inactive"}]
           /\ pending' \in SUBSET Event
           /\ failures' \in 0..MaxFailures
           /\ scope' \in Scopes
<1>1. End(h)
    BY DEF Answer
<1>2. pending' \in SUBSET Event /\ failures' \in 0..MaxFailures
    BY ParametersAssumption, ScopeBounds DEF Answer, TypeOK
<1>3. QED
    BY <1>1, <1>2, EndType

\* Writing a status keeps the type of the column.
LEMMA SetStatusType ==
    ASSUME TypeOK, NEW h \in Handlers, ev[h] \in Event, NEW s \in Status, SetStatus(h, s)
    PROVE  sub' \in [Orgs -> Status]
BY EventFields DEF TypeOK, SetStatus

-----------------------------------------------------------------------------
LEMMA TypeStep == IInv /\ [Next]_vars => TypeOK'
<1> SUFFICES ASSUME TypeOK, WorkingHasEvent, [Next]_vars PROVE TypeOK'
    BY DEF IInv
<1> USE DEF senders, tables, noted, handlers
<1>1. ASSUME NEW o \in Orgs, ClerkChange(o) PROVE TypeOK'
  <2>1. pending' \in SUBSET Event
      BY <1>1, ClerkIsEvent DEF ClerkChange, ClerkKind, TypeOK
  <2>2. clerk' \in [Orgs -> {"none", "alive", "renamed", "deleted"}]
      BY <1>1 DEF ClerkChange, TypeOK
  <2>3. QED
      BY <1>1, <2>1, <2>2 DEF ClerkChange, TypeOK
<1>2. ASSUME NEW o \in Orgs, NEW kind \in StripeKind, NEW s \in Reported \cup {"none"},
             Happen(o, kind, s)
      PROVE  TypeOK'
  <2>1. emitted[o] \in Nat /\ emitted[o] + 1 \in 0..MaxEvents
      BY <1>2, ParametersAssumption, ScopeBounds DEF Happen, TypeOK
  <2>2. pending' \in SUBSET Event
    <3>1. Stripe(o, kind, s, emitted[o] + 1) \in Event
        BY <2>1, StripeIsEvent
    <3>2. pending' = pending \cup {Stripe(o, kind, s, emitted[o] + 1)}
        BY <1>2 DEF Happen
    <3>3. QED
        BY <3>1, <3>2 DEF TypeOK
  <2>3. emitted' \in [Orgs -> 0..MaxEvents]
      BY <1>2, <2>1 DEF Happen, TypeOK
  <2>4. After(stripe[o], kind, s) \in Standing
      BY AfterType, ParametersAssumption DEF TypeOK
  <2>5. stripe' \in [Orgs -> Standing]
      BY <1>2, <2>4 DEF Happen, TypeOK
  <2>6. QED
      BY <1>2, <2>2, <2>3, <2>5 DEF Happen, TypeOK
<1>3. ASSUME NEW h \in Handlers, NEW e \in pending, Take(h, e) PROVE TypeOK'
  <2>1. e \in Event /\ e.org \in Orgs /\ e.n \in 0..MaxEvents
      BY EventFields DEF TypeOK
  <2>2. /\ pc' \in [Handlers -> {"idle", "read", "committed"}]
        /\ ev' \in [Handlers -> Event \cup {NoEvent}]
      BY <1>3, <2>1 DEF Take, TypeOK
  <2>3. free' \in [Handlers -> BOOLEAN]
      BY <1>3 DEF Take, TypeOK
  <2>4. read' \in [Handlers -> Status \cup {"inactive"}]
    <3>1. org[e.org] \in Status \cup {"inactive"} /\ sub[e.org] \in Status
        BY <2>1 DEF TypeOK, Status
    <3>2. QED
        BY <1>3, <3>1 DEF Take, TypeOK, Status
  <2>5. ignored' \in SUBSET Orgs
      BY <1>3, <2>1 DEF Take, TypeOK
  <2>6. applied' \in [Orgs -> 0..MaxEvents] /\ unsure' \in SUBSET Orgs
      BY <1>3, <2>1 DEF Take, TypeOK
  <2>7. QED
      BY <1>3, <2>2, <2>3, <2>4, <2>5, <2>6 DEF Take, TypeOK
<1>4. ASSUME NEW h \in Handlers, HandlerStep(h) PROVE TypeOK'
  <2>1. pc[h] # "idle" => ev[h] \in Event /\ ev[h].org \in Orgs
                          /\ ev[h].status \in StripeStatus \cup {"none"}
      BY EventFields DEF WorkingHasEvent
  <2>2. CASE AlreadyExists(h)
      BY <2>2, AnswerType DEF AlreadyExists, TypeOK
  <2>3. CASE CommitCreated(h)
    <3>1. ev[h].org \in Orgs
        BY <2>1, <2>3 DEF CommitCreated, At
    <3>2. /\ org' \in [Orgs -> {"none", "active", "inactive"}]
          /\ slug' \in [Orgs -> {"none", "plain", "suffixed"}]
          /\ sub' \in [Orgs -> Status]
          /\ pc' \in [Handlers -> {"idle", "read", "committed"}]
        BY <2>3, <3>1 DEF CommitCreated, TypeOK, Status
    <3>3. QED
        BY <2>3, <3>2 DEF CommitCreated, TypeOK
  <2>4. CASE Welcome(h)
    <3>1. ev[h].org \in Orgs
        BY <2>1, <2>4 DEF Welcome
    <3>2. welcomed[ev[h].org] \in 0..2
        BY <3>1 DEF TypeOK
    <3> DEFINE n == IF welcomed[ev[h].org] < 2 THEN welcomed[ev[h].org] + 1
                    ELSE welcomed[ev[h].org]
    <3>3. n \in 0..2
        BY <3>2
    <3>4. welcomed' = [welcomed EXCEPT ![ev[h].org] = n]
        BY <2>4 DEF Welcome
    <3> HIDE DEF n
    <3>5. welcomed' \in [Orgs -> 0..2]
        BY <3>3, <3>4 DEF TypeOK
    <3>6. QED
        BY <2>4, <3>5, AnswerType DEF Welcome, TypeOK
  <2>5. CASE RaceLost(h)
      BY <2>5, EndType DEF RaceLost, TypeOK
  <2>6. CASE Rename(h)
      BY <2>6, AnswerType DEF Rename, TypeOK
  <2>7. CASE Remove(h)
    <3>1. org' \in [Orgs -> {"none", "active", "inactive"}]
        BY <2>7 DEF Remove, TypeOK
    <3>2. QED
        BY <2>7, <3>1, AnswerType DEF Remove, TypeOK
  <2>8. CASE Upsert(h)
    <3>1. ev[h] \in Event /\ StatusOf(ev[h].status) \in Status
        BY <2>1, <2>8, StatusOfType DEF Upsert, At
    <3>2. sub' \in [Orgs -> Status] /\ customer' \in SUBSET Tagged
        BY <2>8, <3>1, SetStatusType DEF Upsert, TypeOK
    <3>3. QED
        BY <2>8, <3>2, AnswerType DEF Upsert, TypeOK
  <2>9. CASE Cancel(h) \/ MarkPastDue(h) \/ ClearPastDue(h)
    <3>1. ev[h] \in Event
        BY <2>1, <2>9 DEF Cancel, MarkPastDue, ClearPastDue, At
    <3>2. "canceled" \in Status /\ "past_due" \in Status /\ "active" \in Status
        BY DEF Status
    <3>3. sub' \in [Orgs -> Status]
        BY <2>9, <3>1, <3>2, SetStatusType DEF Cancel, MarkPastDue, ClearPastDue, TypeOK
    <3>4. Answer(h) /\ UNCHANGED <<clerk, stripe, emitted, org, slug, customer, noted>>
        BY <2>9 DEF Cancel, MarkPastDue, ClearPastDue
    <3>5. QED
        BY <3>3, <3>4, AnswerType DEF TypeOK
  <2>10. QED
      BY <1>4, <2>2, <2>3, <2>4, <2>5, <2>6, <2>7, <2>8, <2>9 DEF HandlerStep
<1>5. ASSUME NEW h \in Handlers, Fail(h) PROVE TypeOK'
  <2>1. failures' \in 0..MaxFailures
      BY <1>5, ParametersAssumption, ScopeBounds DEF Fail, TypeOK
  <2>2. QED
      BY <1>5, <2>1, EndType DEF Fail, TypeOK
<1>6. CASE UNCHANGED vars
    BY <1>6 DEF vars, handlers, TypeOK
<1>7. QED
    BY <1>1, <1>2, <1>3, <1>4, <1>5, <1>6 DEF Next, Quiet

-----------------------------------------------------------------------------
(* What the actions do to the requests, the organizations and the emails.  *)

\* A request that begins holds an event; nobody else's changes.
LEMMA WorkingStep == IInv /\ [Next]_vars => WorkingHasEvent'
<1> SUFFICES ASSUME IInv, [Next]_vars PROVE WorkingHasEvent'
    OBVIOUS
<1> USE DEF IInv, TypeOK, WorkingHasEvent
<1>1. CASE UNCHANGED <<pc, ev>>
    BY <1>1
<1>2. ASSUME NEW h \in Handlers, NEW e \in pending, Take(h, e) PROVE WorkingHasEvent'
    BY <1>2 DEF Take
<1>3. ASSUME NEW h \in Handlers, End(h) PROVE WorkingHasEvent'
    BY <1>3 DEF End
<1>4. ASSUME NEW h \in Handlers, CommitCreated(h) PROVE WorkingHasEvent'
    BY <1>4 DEF CommitCreated, At
<1>5. ASSUME NEW h \in Handlers, HandlerStep(h) PROVE End(h) \/ CommitCreated(h)
    BY <1>5 DEF HandlerStep, AlreadyExists, Welcome, RaceLost, Rename, Remove, Upsert,
                Cancel, MarkPastDue, ClearPastDue, Answer
<1>6. ASSUME NEW h \in Handlers, Fail(h) PROVE End(h)
    BY <1>6 DEF Fail
<1>7. ASSUME NEW o \in Orgs, ClerkChange(o) PROVE UNCHANGED <<pc, ev>>
    BY <1>7 DEF ClerkChange, handlers
<1>8. ASSUME NEW o \in Orgs, NEW kind \in StripeKind, NEW s \in Reported \cup {"none"},
             Happen(o, kind, s)
      PROVE  UNCHANGED <<pc, ev>>
    BY <1>8 DEF Happen, handlers
<1>9. CASE UNCHANGED vars
    BY <1>1, <1>9 DEF vars, handlers
<1>10. QED
    BY <1>1, <1>2, <1>3, <1>4, <1>5, <1>6, <1>7, <1>8, <1>9 DEF Next, Quiet

\* What a step may do, in what the welcome depends on: nothing; end a request
\* with or without an email; begin one; or commit an organization.
Ends(h) ==
    /\ End(h)
    /\ welcomed' = welcomed
    /\ \A o \in Orgs : org[o] # "none" => org'[o] # "none"

LEMMA WelcomeSteps ==
    IInv /\ [Next]_vars =>
        \/ UNCHANGED <<org, pc, ev, welcomed>>
        \/ \E h \in Handlers : \/ Ends(h) \/ CommitCreated(h) \/ Welcome(h)
                               \/ \E e \in pending : Take(h, e)
<1> SUFFICES ASSUME IInv, [Next]_vars
             PROVE  \/ UNCHANGED <<org, pc, ev, welcomed>>
                    \/ \E h \in Handlers : \/ Ends(h) \/ CommitCreated(h) \/ Welcome(h)
                                           \/ \E e \in pending : Take(h, e)
    OBVIOUS
<1> USE DEF IInv, noted, tables
<1>1. ASSUME NEW h \in Handlers, Remove(h) PROVE Ends(h)
  <2>1. org \in [Orgs -> {"none", "active", "inactive"}]
      BY DEF TypeOK
  <2>2. \A o \in Orgs : org[o] # "none" => org'[o] # "none"
      BY <1>1, <2>1 DEF Remove
  <2>3. QED
      BY <1>1, <2>2 DEF Remove, Ends, Answer
<1>2. ASSUME NEW h \in Handlers, HandlerStep(h)
      PROVE  Ends(h) \/ CommitCreated(h) \/ Welcome(h)
    BY <1>1, <1>2 DEF HandlerStep, AlreadyExists, RaceLost, Rename, Upsert, Cancel,
                      MarkPastDue, ClearPastDue, Answer, Ends
<1>3. ASSUME NEW h \in Handlers, Fail(h) PROVE Ends(h)
    BY <1>3 DEF Fail, Ends
<1>4. ASSUME NEW o \in Orgs, ClerkChange(o) PROVE UNCHANGED <<org, pc, ev, welcomed>>
    BY <1>4 DEF ClerkChange, handlers
<1>5. ASSUME NEW o \in Orgs, NEW kind \in StripeKind, NEW s \in Reported \cup {"none"},
             Happen(o, kind, s)
      PROVE  UNCHANGED <<org, pc, ev, welcomed>>
    BY <1>5 DEF Happen, handlers
<1>6. CASE UNCHANGED vars
    BY <1>6 DEF vars, handlers
<1>7. QED
    BY <1>2, <1>3, <1>4, <1>5, <1>6 DEF Next, Quiet

LEMMA WelcomeStep ==
    IInv /\ [Next]_vars =>
        CommittedIsNew' /\ CommittedApart' /\ WelcomedIsThere' /\ WelcomedOnce'
<1> SUFFICES ASSUME IInv, [Next]_vars
             PROVE  CommittedIsNew' /\ CommittedApart' /\ WelcomedIsThere' /\ WelcomedOnce'
    OBVIOUS
<1>0. /\ org \in [Orgs -> {"none", "active", "inactive"}]
      /\ welcomed \in [Orgs -> 0..2]
      /\ pc \in [Handlers -> {"idle", "read", "committed"}]
      /\ ev \in [Handlers -> Event \cup {NoEvent}]
      /\ pending \in SUBSET Event
      /\ \A h \in Handlers : pc[h] # "idle" => ev[h] \in Event
      /\ CommittedIsNew /\ CommittedApart /\ WelcomedIsThere /\ WelcomedOnce
    BY DEF IInv, TypeOK, WorkingHasEvent
<1> USE DEF CommittedIsNew, CommittedApart, WelcomedIsThere, WelcomedOnce
<1>1. CASE UNCHANGED <<org, pc, ev, welcomed>>
    BY <1>0, <1>1
<1>2. ASSUME NEW h \in Handlers, Ends(h)
      PROVE  CommittedIsNew' /\ CommittedApart' /\ WelcomedIsThere' /\ WelcomedOnce'
    BY <1>0, <1>2, EventFields DEF Ends, End
<1>3. ASSUME NEW h \in Handlers, CommitCreated(h)
      PROVE  CommittedIsNew' /\ CommittedApart' /\ WelcomedIsThere' /\ WelcomedOnce'
  <2> DEFINE o == ev[h].org
  <2>1. /\ o \in Orgs /\ ev[h] \in Event /\ ev[h].kind = "created" /\ org[o] = "none"
        /\ org' = [org EXCEPT ![o] = "active"]
        /\ pc' = [pc EXCEPT ![h] = "committed"]
        /\ ev' = ev /\ welcomed' = welcomed
      BY <1>0, <1>3, EventFields DEF CommitCreated, At, noted
  <2>2. welcomed[o] = 0
      BY <1>0, <2>1
  <2>3. QED
      BY <1>0, <2>1, <2>2, EventFields
<1>4. ASSUME NEW h \in Handlers, Welcome(h)
      PROVE  CommittedIsNew' /\ CommittedApart' /\ WelcomedIsThere' /\ WelcomedOnce'
  <2> DEFINE o == ev[h].org
  <2>1. /\ o \in Orgs /\ org[o] # "none" /\ welcomed[o] = 0 /\ pc[h] = "committed"
        /\ pc' = [pc EXCEPT ![h] = "idle"] /\ ev' = [ev EXCEPT ![h] = NoEvent]
        /\ org' = org
      BY <1>0, <1>4, EventFields DEF Welcome, Answer, End, tables
  <2>2. welcomed' = [welcomed EXCEPT ![o] = 1]
      BY <1>4, <2>1 DEF Welcome
  <2> HIDE DEF o
  <2>3. WelcomedIsThere' /\ WelcomedOnce'
      BY <1>0, <2>1, <2>2
  <2>4. CommittedApart'
      BY <1>0, <2>1
  <2>5. CommittedIsNew'
      BY <1>0, <2>1, <2>2, EventFields DEF o
  <2>6. QED
      BY <2>3, <2>4, <2>5
<1>5. ASSUME NEW h \in Handlers, NEW e \in pending, Take(h, e)
      PROVE  CommittedIsNew' /\ CommittedApart' /\ WelcomedIsThere' /\ WelcomedOnce'
    BY <1>0, <1>5 DEF Take, tables
<1>6. QED
    BY <1>1, <1>2, <1>3, <1>4, <1>5, WelcomeSteps

-----------------------------------------------------------------------------
(* Deletions.                                                              *)

\* A step that answers an event without touching an organization answers no
\* deletion.
AnswersOther(h) ==
    /\ End(h)
    /\ UNCHANGED <<org, clerk, ignored>>
    /\ \A e \in pending : e.kind = "removed" => e \in pending'

LEMMA DeleteSteps ==
    IInv /\ [Next]_vars =>
        \/ UNCHANGED <<org, pc, ev, read, clerk, pending, ignored>>
        \/ \E o \in Orgs : ClerkChange(o)
        \/ /\ UNCHANGED <<org, pc, ev, read, clerk, ignored>>
           /\ pending \subseteq pending'
        \/ \E h \in Handlers : \/ AnswersOther(h) \/ CommitCreated(h) \/ Remove(h)
                               \/ \E e \in pending : Take(h, e)
<1> DEFINE Goal ==
        \/ UNCHANGED <<org, pc, ev, read, clerk, pending, ignored>>
        \/ \E o \in Orgs : ClerkChange(o)
        \/ /\ UNCHANGED <<org, pc, ev, read, clerk, ignored>>
           /\ pending \subseteq pending'
        \/ \E h \in Handlers : \/ AnswersOther(h) \/ CommitCreated(h) \/ Remove(h)
                               \/ \E e \in pending : Take(h, e)
<1> SUFFICES ASSUME IInv, [Next]_vars PROVE Goal
    OBVIOUS
<1>1. ASSUME NEW h \in Handlers, HandlerStep(h)
      PROVE  AnswersOther(h) \/ CommitCreated(h) \/ Remove(h)
  <2>1. CASE CommitCreated(h) \/ Remove(h)
      BY <2>1
  <2>2. CASE RaceLost(h)
      BY <2>2 DEF RaceLost, AnswersOther, senders, tables, noted
  <2>3. CASE \/ AlreadyExists(h) \/ Welcome(h) \/ Rename(h) \/ Upsert(h)
             \/ Cancel(h) \/ MarkPastDue(h) \/ ClearPastDue(h)
    <3>1. ev[h].kind # "removed"
        BY <2>3 DEF AlreadyExists, Welcome, Rename, Upsert, Cancel, MarkPastDue,
                    ClearPastDue, At, IInv, CommittedIsNew
    <3>2. Answer(h) /\ UNCHANGED <<org, clerk, ignored>>
        BY <2>3 DEF AlreadyExists, Welcome, Rename, Upsert, Cancel, MarkPastDue,
                    ClearPastDue, tables, noted
    <3>3. QED
        BY <3>1, <3>2 DEF Answer, AnswersOther
  <2>4. QED
      BY <1>1, <2>1, <2>2, <2>3 DEF HandlerStep
<1>2. ASSUME NEW h \in Handlers, Fail(h) PROVE AnswersOther(h)
    BY <1>2 DEF Fail, AnswersOther, senders, tables, noted
<1>3. ASSUME NEW o \in Orgs, NEW kind \in StripeKind, NEW s \in Reported \cup {"none"},
             Happen(o, kind, s)
      PROVE  UNCHANGED <<org, pc, ev, read, clerk, ignored>> /\ pending \subseteq pending'
    BY <1>3 DEF Happen, handlers, tables, noted
<1>4. ASSUME UNCHANGED vars
      PROVE  UNCHANGED <<org, pc, ev, read, clerk, pending, ignored>>
    BY <1>4 DEF vars, handlers, senders, tables, noted
<1>5. QED
    BY <1>1, <1>2, <1>3, <1>4 DEF Next, Quiet

LEMMA DeleteStep == IInv /\ [Next]_vars => MissedIsIgnored' /\ DeletedIsThere'
<1> SUFFICES ASSUME IInv, [Next]_vars PROVE MissedIsIgnored' /\ DeletedIsThere'
    OBVIOUS
<1>0. /\ org \in [Orgs -> {"none", "active", "inactive"}]
      /\ clerk \in [Orgs -> {"none", "alive", "renamed", "deleted"}]
      /\ pc \in [Handlers -> {"idle", "read", "committed"}]
      /\ ev \in [Handlers -> Event \cup {NoEvent}]
      /\ read \in [Handlers -> Status \cup {"inactive"}]
      /\ pending \in SUBSET Event /\ ignored \in SUBSET Orgs
      /\ \A h \in Handlers : pc[h] # "idle" => ev[h] \in Event
      /\ MissedIsIgnored /\ DeletedIsThere
    BY DEF IInv, TypeOK, WorkingHasEvent
<1>k. \A o \in Orgs : Clerk(o, "removed").kind = "removed" /\ Clerk(o, "removed").org = o
    BY DEF Clerk
<1> USE DEF MissedIsIgnored, DeletedIsThere
<1>1. CASE UNCHANGED <<org, pc, ev, read, clerk, pending, ignored>>
    BY <1>0, <1>1
<1>2. ASSUME NEW o \in Orgs, ClerkChange(o) PROVE MissedIsIgnored' /\ DeletedIsThere'
  <2>1. UNCHANGED <<org, pc, ev, read, ignored>> /\ pending \subseteq pending'
      BY <1>2 DEF ClerkChange, handlers, tables, noted
  <2>2. \A p \in Orgs : clerk'[p] = "deleted" =>
            clerk[p] = "deleted" \/ Clerk(p, "removed") \in pending'
      BY <1>0, <1>2 DEF ClerkChange
  <2>3. QED
      BY <1>0, <2>1, <2>2
<1>3. ASSUME UNCHANGED <<org, pc, ev, read, clerk, ignored>>, pending \subseteq pending'
      PROVE  MissedIsIgnored' /\ DeletedIsThere'
    BY <1>0, <1>3
<1>4. ASSUME NEW h \in Handlers, AnswersOther(h) PROVE MissedIsIgnored' /\ DeletedIsThere'
  <2>1. MissedIsIgnored'
      BY <1>0, <1>4 DEF AnswersOther, End
  <2>2. DeletedIsThere'
      BY <1>0, <1>4, <1>k DEF AnswersOther
  <2>3. QED
      BY <2>1, <2>2
<1>5. ASSUME NEW h \in Handlers, CommitCreated(h) PROVE MissedIsIgnored' /\ DeletedIsThere'
  <2>1. /\ ev[h].org \in Orgs /\ org[ev[h].org] = "none"
        /\ org' = [org EXCEPT ![ev[h].org] = "active"]
        /\ pc' = [pc EXCEPT ![h] = "committed"]
        /\ UNCHANGED <<ev, read, clerk, pending, ignored>>
      BY <1>0, <1>5, EventFields DEF CommitCreated, At, noted, senders
  <2>2. QED
      BY <1>0, <2>1
<1>6. ASSUME NEW h \in Handlers, Remove(h) PROVE MissedIsIgnored' /\ DeletedIsThere'
  <2> DEFINE o == ev[h].org
  <2>1. /\ o \in Orgs /\ ev[h].kind = "removed" /\ pc[h] = "read"
        /\ End(h) /\ UNCHANGED <<clerk, ignored>>
        /\ pending' = pending \ {ev[h]} \/ pending' = pending
        /\ org' = IF read[h] = "none" THEN org ELSE [org EXCEPT ![o] = "inactive"]
      BY <1>0, <1>6, EventFields DEF Remove, At, Answer, noted
  <2>2. read[h] = "none" => o \in ignored
      BY <1>0, <2>1
  <2>3. MissedIsIgnored'
      BY <1>0, <2>1 DEF End
  <2>4. \A p \in Orgs : p # o /\ Clerk(p, "removed") \in pending
                         => Clerk(p, "removed") \in pending'
      BY <1>k, <2>1
  <2>5. DeletedIsThere'
      BY <1>0, <2>1, <2>2, <2>4
  <2>6. QED
      BY <2>3, <2>5
<1>7. ASSUME NEW h \in Handlers, NEW e \in pending, Take(h, e)
      PROVE  MissedIsIgnored' /\ DeletedIsThere'
  <2>1. /\ UNCHANGED <<org, clerk, pending>> /\ ignored \subseteq ignored'
        /\ pc' = [pc EXCEPT ![h] = "read"] /\ ev' = [ev EXCEPT ![h] = e]
      BY <1>7 DEF Take, tables, senders
  <2>2. e.kind = "removed" /\ read'[h] = "none" => e.org \in ignored'
      BY <1>0, <1>7, EventFields DEF Take, FromStripe, StripeKind
  <2>3. \A g \in Handlers \ {h} : read'[g] = read[g]
      BY <1>0, <1>7 DEF Take
  <2>4. QED
      BY <1>0, <2>1, <2>2, <2>3
<1>8. QED
    BY <1>1, <1>2, <1>3, <1>4, <1>5, <1>6, <1>7, DeleteSteps

-----------------------------------------------------------------------------
\* The inductive invariant holds in every reachable state.
THEOREM Invariant == Spec => []IInv
<1>1. IInv /\ [Next]_vars => IInv'
    BY TypeStep, WorkingStep, WelcomeStep, DeleteStep DEF IInv
<1>2. QED
    BY <1>1, InitInvariant, PTL DEF Spec

\* Type correctness for any number of organizations, requests and events: a
\* subscription row never holds a status the application does not know.
THEOREM TypeCorrect == Spec => []TypeOK
<1>1. IInv => TypeOK
    BY DEF IInv
<1>2. QED
    BY <1>1, Invariant, PTL

\* At most one welcome email, however often and in whatever overlap
\* organization.created is handled.
THEOREM WelcomedOnceAlways == Spec => []WelcomedOnce
<1>1. IInv => WelcomedOnce
    BY DEF IInv
<1>2. QED
    BY <1>1, Invariant, PTL

\* An answered deletion leaves the organization inactive for good, whatever is
\* delivered again or at the same time, unless it overtook the creation.
THEOREM DeletedIsInactiveAlways == Spec => []DeletedIsInactive
<1>1. IInv => DeletedIsInactive
    BY DEF IInv, DeletedIsThere, DeletedIsInactive
<1>2. QED
    BY <1>1, Invariant, PTL

-----------------------------------------------------------------------------
(* Stripe's events.                                                        *)

\* Stripe has events of known organizations only.
Known ==
    \A o \in Orgs : /\ emitted[o] > 0 => org[o] # "none"
                    /\ emitted[o] = 0 => stripe[o].status = "none"

\* The events not answered yet carry different numbers, of events that have
\* happened; a subscription event has a status, and if it is the last one, the
\* subscription has it at Stripe.
Numbered ==
    /\ \A o \in Orgs : applied[o] <= emitted[o]
    /\ \A e \in pending : FromStripe(e) =>
          /\ e.n > 0 /\ e.n <= emitted[e.org]
          /\ e.kind = "subscription" => e.status # "none"
          /\ e.kind = "subscription" /\ e.n = emitted[e.org] => stripe[e.org] = Stands(e.status)
    /\ \A e, f \in pending :
          FromStripe(e) /\ FromStripe(f) /\ e.org = f.org /\ e.n = f.n => e = f

Handles(h, o) == ev[h] # NoEvent /\ ev[h].org = o /\ FromStripe(ev[h])

\* One request at most handles an event of the organization; it is the latest
\* event taken, and what the request has read is still true.
Alone(o) ==
    \A h \in Handlers : Handles(h, o) =>
        /\ ev[h] \in pending /\ ev[h].n = applied[o]
        /\ read[h] = sub[o]
        /\ \A g \in Handlers : Handles(g, o) => g = h

\* The event e takes a subscription from s to r.
Follows(e, s, r) ==
    /\ r = After(s, e.kind, e.status)
    /\ e.kind = "subscription" => e.status # "none"
    /\ e.kind # "subscription" => s.status # "none"

\* What handling events in order makes of the subscription s: invoices decide
\* for one that has ended or never began.
Local(s) ==
    CASE s.status \in {"active", "trialing"} -> s.status
      [] s.status \in {"past_due", "unpaid"} -> "past_due"
      [] s.status = "incomplete" -> IF s.invoice = "failed" THEN "past_due" ELSE "active"
      [] s.status = "canceled" -> IF s.invoice = "none" THEN "canceled"
                                  ELSE IF s.invoice = "failed" THEN "past_due" ELSE "active"
      [] OTHER -> "trialing"

\* The row is that.
Agrees(s, o) == s.status # "none" => sub[o] = Local(s) /\ o \in customer

\* t[n] is the subscription after its n-th event.  All events after
\* the latest one taken are outstanding; without that one the row agrees with
\* the status after it, and as long as it is outstanding (its request is at
\* work, has failed, or its answer was lost) perhaps with the one before.
Explains(o, t) ==
    /\ t[emitted[o]] = stripe[o]
    /\ \A e \in Emitted(o) : e.n >= applied[o] /\ Follows(e, t[e.n - 1], t[e.n])
    /\ \A n \in 1..emitted[o] : n > applied[o] => \E e \in Emitted(o) : e.n = n
    /\ \/ Agrees(t[applied[o]], o)
       \/ \E e \in Emitted(o) :
             e.n = applied[o] /\ (e.kind = "subscription" \/ Agrees(t[e.n - 1], o))

Trace == [0..MaxEvents -> Standing]

\* The row of an organization whose subscription is not tagged is its trial's,
\* and its invoices find no row.  A deletion that has read a row has a row.
OnTrial ==
    /\ \A o \in Orgs \ Tagged : sub[o] = IF org[o] = "none" THEN "none" ELSE "trialing"
    /\ \A h \in Handlers :
          pc[h] # "idle" /\ ev[h].kind \in ByCustomer /\ ev[h].org \notin Tagged
              => read[h] = "none"
    /\ \A h \in Handlers :
          pc[h] # "idle" /\ ev[h].kind = "removed" /\ read[h] # "none"
              => org[ev[h].org] # "none"

InOrder == \A o \in Tagged \ unsure : Alone(o) /\ \E t \in Trace : Explains(o, t)

\* Types, without the ones of the other variables.
MirrorType ==
    /\ stripe \in [Orgs -> Standing]
    /\ emitted \in [Orgs -> 0..MaxEvents]
    /\ pending \in SUBSET Event
    /\ org \in [Orgs -> {"none", "active", "inactive"}]
    /\ sub \in [Orgs -> Status]
    /\ customer \in SUBSET Tagged
    /\ ev \in [Handlers -> Event \cup {NoEvent}]
    /\ read \in [Handlers -> Status \cup {"inactive"}]
    /\ applied \in [Orgs -> 0..MaxEvents]
    /\ unsure \in SUBSET Orgs
    /\ Tagged \subseteq Orgs /\ MaxEvents \in Nat /\ scope.events \in 0..MaxEvents
    /\ NoEvent \notin Event

LEMMA MirrorTypes == IInv => MirrorType
BY ParametersAssumption, ScopeBounds DEF IInv, TypeOK, MirrorType

\* A step that leaves Stripe's events, and what is made of them, alone.
Passes ==
    /\ UNCHANGED <<stripe, emitted, sub, customer, applied, unsure>>
    /\ \A e \in pending \cup pending' : FromStripe(e) => e \in pending /\ e \in pending'
    /\ \A o \in Orgs : org[o] # "none" => org'[o] # "none"
    /\ \A h \in Handlers : ev'[h] = NoEvent \/ (ev'[h] = ev[h] /\ read'[h] = read[h])

\* The handlers of Stripe's events.
StripeStep(h) == Upsert(h) \/ Cancel(h) \/ MarkPastDue(h) \/ ClearPastDue(h)

LEMMA EndPasses ==
    ASSUME IInv, NEW h \in Handlers, End(h)
    PROVE  \A g \in Handlers : ev'[g] = NoEvent \/ (ev'[g] = ev[g] /\ read'[g] = read[g])
BY MirrorTypes DEF End, MirrorType

LEMMA MirrorSteps ==
    IInv /\ [Next]_vars =>
        \/ Passes
        \/ \E o \in Orgs, kind \in StripeKind, s \in Reported \cup {"none"} : Happen(o, kind, s)
        \/ \E h \in Handlers :
              CommitCreated(h) \/ StripeStep(h) \/ \E e \in pending : Take(h, e)
<1> SUFFICES ASSUME IInv, [Next]_vars, ~ Passes
             PROVE  \/ \E o \in Orgs, kind \in StripeKind, s \in Reported \cup {"none"} :
                          Happen(o, kind, s)
                    \/ \E h \in Handlers :
                          CommitCreated(h) \/ StripeStep(h) \/ \E e \in pending : Take(h, e)
    OBVIOUS
<1>0. MirrorType
    BY MirrorTypes
<1>1. ASSUME NEW o \in Orgs, ClerkChange(o) PROVE FALSE
  <2>1. \A k \in ClerkKind : ~ FromStripe(Clerk(o, k))
      BY DEF Clerk, FromStripe, ClerkKind, StripeKind
  <2>2. \A e \in pending \cup pending' : FromStripe(e) => e \in pending /\ e \in pending'
      BY <1>1, <2>1 DEF ClerkChange, ClerkKind
  <2>3. QED
      BY <1>1, <2>2 DEF ClerkChange, Passes, tables, handlers, noted
<1>2. ASSUME NEW h \in Handlers,
             AlreadyExists(h) \/ Welcome(h) \/ RaceLost(h) \/ Rename(h) \/ Remove(h) \/ Fail(h)
      PROVE  FALSE
  <2>1. End(h) /\ UNCHANGED <<stripe, emitted, sub, customer, applied, unsure>>
      BY <1>2 DEF AlreadyExists, Welcome, RaceLost, Rename, Remove, Fail, Answer,
                  senders, tables, noted
  <2>2. pending' = pending \/ (pending' = pending \ {ev[h]} /\ ~ FromStripe(ev[h]))
      BY <1>2 DEF AlreadyExists, Welcome, RaceLost, Rename, Remove, Fail, Answer, At,
                  senders, FromStripe, StripeKind, IInv, CommittedIsNew
  <2>3. \A o \in Orgs : org[o] # "none" => org'[o] # "none"
    <3>1. CASE Remove(h)
        BY <1>0, <3>1 DEF Remove, MirrorType
    <3>2. CASE ~ Remove(h)
        BY <1>2, <3>2 DEF AlreadyExists, Welcome, RaceLost, Rename, Fail, tables
    <3>3. QED
        BY <3>1, <3>2
  <2>4. QED
      BY <2>1, <2>2, <2>3, EndPasses DEF Passes
<1>3. ASSUME UNCHANGED vars PROVE FALSE
    BY <1>3 DEF Passes, vars, senders, tables, handlers, noted
<1>4. QED
    BY <1>1, <1>2, <1>3 DEF Next, Quiet, HandlerStep, StripeStep

\* What an answered or failed Stripe event leaves alone.
LEMMA StripeStepFrame ==
    ASSUME IInv, NEW h \in Handlers, StripeStep(h)
    PROVE  /\ End(h) /\ ev[h] \in Event /\ FromStripe(ev[h]) /\ ev[h].org \in Orgs
           /\ UNCHANGED <<stripe, emitted, org, applied, unsure>>
           /\ pending' = pending \/ pending' = pending \ {ev[h]}
<1>1. At(h, StripeKind)
    BY DEF StripeStep, Upsert, Cancel, MarkPastDue, ClearPastDue, At, StripeKind
<1>2. ev[h] \in Event /\ FromStripe(ev[h])
    BY <1>1 DEF At, FromStripe, IInv, WorkingHasEvent
<1>3. Answer(h) /\ UNCHANGED <<stripe, emitted, org, applied, unsure>>
    BY DEF StripeStep, Upsert, Cancel, MarkPastDue, ClearPastDue, noted
<1>4. QED
    BY <1>2, <1>3, EventFields DEF Answer

LEMMA KnownStep == IInv /\ Known /\ [Next]_vars => Known'
<1> SUFFICES ASSUME IInv, Known, [Next]_vars PROVE Known'
    OBVIOUS
<1>0. MirrorType
    BY MirrorTypes
<1>1. CASE Passes
    BY <1>1 DEF Passes, Known
<1>2. ASSUME NEW o \in Orgs, NEW kind \in StripeKind, NEW s \in Reported \cup {"none"},
             Happen(o, kind, s)
      PROVE  Known'
  <2>1. /\ emitted' = [emitted EXCEPT ![o] = emitted[o] + 1] /\ org' = org /\ org[o] # "none"
        /\ \A p \in Orgs \ {o} : stripe'[p] = stripe[p]
      BY <1>0, <1>2 DEF Happen, tables, MirrorType
  <2>2. emitted[o] \in Nat /\ emitted'[o] = emitted[o] + 1
      BY <1>0, <2>1 DEF MirrorType
  <2>3. \A p \in Orgs \ {o} : emitted'[p] = emitted[p]
      BY <1>0, <2>1 DEF MirrorType
  <2>4. QED
      BY <2>1, <2>2, <2>3 DEF Known
<1>3. ASSUME NEW h \in Handlers, CommitCreated(h) PROVE Known'
    BY <1>0, <1>3 DEF CommitCreated, Known, senders, MirrorType
<1>4. ASSUME NEW h \in Handlers, StripeStep(h) PROVE Known'
    BY <1>4, StripeStepFrame DEF Known
<1>5. ASSUME NEW h \in Handlers, NEW e \in pending, Take(h, e) PROVE Known'
    BY <1>5 DEF Take, Known, senders, tables
<1>6. QED
    BY <1>1, <1>2, <1>3, <1>4, <1>5, MirrorSteps

\* An event that has just happened.
LEMMA HappenEvent ==
    ASSUME MirrorType, NEW o \in Orgs, NEW kind \in StripeKind,
           NEW s \in Reported \cup {"none"}, Happen(o, kind, s)
    PROVE  \E e \in Event :
              /\ e.org = o /\ e.kind = kind /\ e.status = s /\ e.n = emitted[o] + 1
              /\ FromStripe(e)
              /\ pending' = pending \cup {e}
              /\ emitted[o] + 1 \in 0..MaxEvents
<1>1. emitted[o] \in Nat /\ emitted[o] + 1 \in 0..MaxEvents
    BY DEF Happen, MirrorType
<1>2. PICK e \in Event : e = Stripe(o, kind, s, emitted[o] + 1)
    BY <1>1, StripeIsEvent
<1>3. e.org = o /\ e.kind = kind /\ e.status = s /\ e.n = emitted[o] + 1
    BY <1>2 DEF Stripe
<1>4. pending' = pending \cup {e}
    BY <1>2 DEF Happen
<1>5. QED
    BY <1>1, <1>3, <1>4 DEF FromStripe

LEMMA NumberedStep == IInv /\ Numbered /\ [Next]_vars => Numbered'
<1> SUFFICES ASSUME IInv, Numbered, [Next]_vars PROVE Numbered'
    OBVIOUS
<1>0. MirrorType
    BY MirrorTypes
<1>1. ASSUME UNCHANGED <<stripe, emitted>>, \A o \in Orgs : applied'[o] <= emitted[o],
             \A e \in pending' : FromStripe(e) => e \in pending
      PROVE  Numbered'
    BY <1>1 DEF Numbered
<1>2. CASE Passes
    BY <1>1, <1>2 DEF Passes, Numbered
<1>3. ASSUME NEW o \in Orgs, NEW kind \in StripeKind, NEW s \in Reported \cup {"none"},
             Happen(o, kind, s)
      PROVE  Numbered'
  <2>1. PICK e \in Event :
              /\ e.org = o /\ e.kind = kind /\ e.status = s /\ e.n = emitted[o] + 1
              /\ FromStripe(e) /\ pending' = pending \cup {e}
      BY <1>0, <1>3, HappenEvent
  <2>2. /\ emitted[o] \in Nat /\ emitted'[o] = emitted[o] + 1
        /\ \A p \in Orgs \ {o} : emitted'[p] = emitted[p] /\ stripe'[p] = stripe[p]
        /\ stripe'[o] = After(stripe[o], kind, s)
        /\ applied' = applied
      BY <1>0, <1>3 DEF Happen, noted, MirrorType
  <2>3. \A p \in Orgs : applied'[p] <= emitted'[p]
    <3>1. \A p \in Orgs : applied[p] \in Nat /\ emitted[p] \in Nat
        BY <1>0 DEF MirrorType
    <3>2. QED
        BY <2>2, <3>1 DEF Numbered
  <2>4. ASSUME NEW f \in pending, FromStripe(f)
        PROVE  /\ f.n > 0 /\ f.n <= emitted'[f.org]
               /\ f.kind = "subscription" => f.status # "none"
               /\ f.kind = "subscription" /\ f.n = emitted'[f.org]
                     => stripe'[f.org] = Stands(f.status)
               /\ f.org = o => f.n # e.n
    <3>1. f.org \in Orgs /\ f.n \in Nat /\ f.n > 0 /\ f.n <= emitted[f.org]
        BY <1>0, <2>4, EventFields DEF Numbered, MirrorType
    <3>2. /\ f.kind = "subscription" => f.status # "none"
          /\ f.kind = "subscription" /\ f.n = emitted[f.org] => stripe[f.org] = Stands(f.status)
        BY <2>4 DEF Numbered
    <3>3. CASE f.org = o
        BY <2>1, <2>2, <3>1, <3>2, <3>3
    <3>4. CASE f.org # o
        BY <2>2, <3>1, <3>2, <3>4
    <3>5. QED
        BY <3>3, <3>4
  <2>5. /\ e.n > 0 /\ e.n <= emitted'[e.org]
        /\ e.kind = "subscription" => e.status # "none" /\ stripe'[e.org] = Stands(e.status)
    <3>1. s = "none" => kind # "subscription"
        BY <1>3, ParametersAssumption DEF Happen, StripeStatus
    <3>2. QED
        BY <2>1, <2>2, <3>1 DEF After
  <2>6. \A f \in pending' : FromStripe(f) =>
            /\ f.n > 0 /\ f.n <= emitted'[f.org]
            /\ f.kind = "subscription" => f.status # "none"
            /\ f.kind = "subscription" /\ f.n = emitted'[f.org]
                  => stripe'[f.org] = Stands(f.status)
      BY <2>1, <2>4, <2>5
  <2>7. \A f, g \in pending' :
            FromStripe(f) /\ FromStripe(g) /\ f.org = g.org /\ f.n = g.n => f = g
      BY <2>1, <2>4 DEF Numbered
  <2>8. QED
      BY <2>3, <2>6, <2>7 DEF Numbered
<1>4. ASSUME NEW h \in Handlers, CommitCreated(h) PROVE Numbered'
    BY <1>1, <1>4 DEF CommitCreated, senders, noted, Numbered
<1>5. ASSUME NEW h \in Handlers, StripeStep(h) PROVE Numbered'
    BY <1>1, <1>5, StripeStepFrame DEF Numbered
<1>6. ASSUME NEW h \in Handlers, NEW e \in pending, Take(h, e) PROVE Numbered'
  <2>1. UNCHANGED <<stripe, emitted, pending>>
      BY <1>6 DEF Take, senders
  <2>2. FromStripe(e) => e.n <= emitted[e.org] /\ e.org \in Orgs
      BY <1>0, EventFields DEF Numbered, MirrorType
  <2>3. \A o \in Orgs : applied'[o] <= emitted[o]
      BY <1>0, <1>6, <2>2 DEF Take, Numbered, MirrorType
  <2>4. QED
      BY <1>1, <2>1, <2>3
<1>7. QED
    BY <1>2, <1>3, <1>4, <1>5, <1>6, MirrorSteps

-----------------------------------------------------------------------------
(* An organization whose Stripe events come in in order.                   *)

Fine(o) == Alone(o) /\ \E t \in Trace : Explains(o, t)

\* A step that leaves the organization alone, or ends its request.
LEMMA FineFrame ==
    ASSUME NEW o \in Orgs, Fine(o),
           emitted'[o] = emitted[o], stripe'[o] = stripe[o],
           applied'[o] = applied[o], sub'[o] = sub[o],
           o \in customer <=> o \in customer',
           Emitted(o)' = Emitted(o),
           \A h \in Handlers : Handles(h, o)' =>
               Handles(h, o) /\ ev'[h] = ev[h] /\ read'[h] = read[h]
    PROVE  Fine(o)'
<1>1. ASSUME NEW h \in Handlers, Handles(h, o)'
      PROVE  /\ ev'[h] \in pending' /\ ev'[h].n = applied'[o]
             /\ read'[h] = sub'[o]
             /\ \A g \in Handlers : Handles(g, o)' => g = h
  <2>1. Handles(h, o) /\ ev'[h] = ev[h] /\ read'[h] = read[h]
      BY <1>1
  <2>2. ev[h] \in Emitted(o) /\ ev[h].n = applied[o] /\ read[h] = sub[o]
      BY <2>1 DEF Fine, Alone, Handles, Emitted
  <2>3. ev[h] \in Emitted(o)'
      BY <2>2
  <2>4. \A g \in Handlers : Handles(g, o)' => g = h
      BY <2>1 DEF Fine, Alone
  <2>5. QED
      BY <2>1, <2>2, <2>3, <2>4 DEF Emitted
<1>2. Alone(o)'
    BY <1>1 DEF Alone
<1>3. PICK t \in Trace : Explains(o, t)
    BY DEF Fine
<1>4. \A s : Agrees(s, o) => Agrees(s, o)'
    BY DEF Agrees
<1>5. PICK n : n = applied[o]
    OBVIOUS
<1>6. Agrees(t[n], o)' \/ \E e \in Emitted(o) :
            e.n = n /\ (e.kind = "subscription" \/ Agrees(t[e.n - 1], o)')
    BY <1>3, <1>4, <1>5 DEF Explains
<1>7. Explains(o, t)'
    BY <1>3, <1>5, <1>6 DEF Explains
<1>8. QED
    BY <1>2, <1>7 DEF Fine

\* Something happens to the subscription of o: the trace grows by its status.
LEMMA FineHappen ==
    ASSUME MirrorType, Numbered, NEW o \in Orgs, Fine(o), NEW kind \in StripeKind,
           NEW s \in Reported \cup {"none"}, Happen(o, kind, s), o \notin unsure'
    PROVE  Fine(o)'
<1>1. PICK e \in Event :
            /\ e.org = o /\ e.kind = kind /\ e.status = s /\ e.n = emitted[o] + 1
            /\ FromStripe(e) /\ pending' = pending \cup {e}
            /\ emitted[o] + 1 \in 0..MaxEvents
    BY HappenEvent
<1>2. PICK k \in Nat : k = emitted[o]
    BY DEF MirrorType
<1>3. PICK r \in Standing : r = After(stripe[o], kind, s)
    BY AfterType, ParametersAssumption DEF MirrorType
<1>4. /\ emitted'[o] = k + 1 /\ stripe'[o] = r
      /\ UNCHANGED <<sub, customer, applied, ev, read>>
    BY <1>2, <1>3 DEF Happen, tables, handlers, noted, MirrorType
<1>5. PICK a \in Nat : a = applied[o] /\ a <= k
    BY <1>2 DEF MirrorType, Numbered
<1>6. \A f \in Emitted(o) : f \in Event /\ f.n \in Nat /\ f.n > 0 /\ f.n <= k
    BY <1>2, EventFields DEF Emitted, Numbered, MirrorType
<1>7. Emitted(o)' = Emitted(o) \cup {e}
    BY <1>1 DEF Emitted
<1>8. Alone(o)'
    BY <1>1, <1>4 DEF Fine, Alone, Handles
<1>9. PICK t \in Trace : Explains(o, t)
    BY DEF Fine
<1>10. PICK u \in Trace : u = [t EXCEPT ![k + 1] = r]
    BY <1>1, <1>2, <1>3 DEF Trace
<1>11. u[k + 1] = r /\ \A n \in Nat : n <= k => u[n] = t[n]
    BY <1>1, <1>2, <1>10 DEF Trace, MirrorType
<1>12. Follows(e, u[e.n - 1], u[e.n])
  <2>1. e.n - 1 = k /\ e.n = k + 1
      BY <1>1, <1>2
  <2>2. t[k] = stripe[o]
      BY <1>2, <1>9 DEF Explains
  <2>3. kind # "subscription" => stripe[o].status # "none"
      BY DEF Happen
  <2>4. kind = "subscription" => s # "none"
      BY ParametersAssumption DEF Happen, StripeStatus
  <2>5. QED
      BY <1>1, <1>3, <1>11, <2>1, <2>2, <2>3, <2>4 DEF Follows
<1>13. \A f \in Emitted(o) : f.n >= a /\ Follows(f, u[f.n - 1], u[f.n])
  <2> SUFFICES ASSUME NEW f \in Emitted(o) PROVE f.n >= a /\ Follows(f, u[f.n - 1], u[f.n])
      OBVIOUS
  <2>1. f.n >= a /\ Follows(f, t[f.n - 1], t[f.n])
      BY <1>5, <1>9 DEF Explains
  <2>2. u[f.n] = t[f.n] /\ u[f.n - 1] = t[f.n - 1]
      BY <1>6, <1>11
  <2>3. QED
      BY <2>1, <2>2
<1>14. \A n \in 1..(k + 1) : n > a => \E f \in Emitted(o) \cup {e} : f.n = n
    BY <1>1, <1>2, <1>5, <1>9 DEF Explains
<1>15. \A x : Agrees(x, o) => Agrees(x, o)'
    BY <1>4 DEF Agrees
<1>16. Agrees(u[a], o)' \/ \E f \in Emitted(o) :
            f.n = a /\ (f.kind = "subscription" \/ Agrees(u[f.n - 1], o)')
  <2>1. Agrees(t[a], o) \/ \E f \in Emitted(o) :
            f.n = a /\ (f.kind = "subscription" \/ Agrees(t[f.n - 1], o))
      BY <1>5, <1>9 DEF Explains
  <2>2. u[a] = t[a]
      BY <1>5, <1>11
  <2>3. \A f \in Emitted(o) : u[f.n - 1] = t[f.n - 1]
      BY <1>6, <1>11
  <2>4. QED
      BY <1>15, <2>1, <2>2, <2>3
<1>17. Explains(o, u)'
  <2>1. u[emitted'[o]] = stripe'[o]
      BY <1>4, <1>11
  <2>2. \A f \in Emitted(o)' : f.n >= a /\ Follows(f, u[f.n - 1], u[f.n])
      BY <1>1, <1>2, <1>5, <1>7, <1>12, <1>13
  <2>3. \A n \in 1..emitted'[o] : n > a => \E f \in Emitted(o)' : f.n = n
      BY <1>4, <1>7, <1>14
  <2>4. applied'[o] = a
      BY <1>4, <1>5
  <2>5. QED
      BY <1>7, <1>16, <2>1, <2>2, <2>3, <2>4 DEF Explains
<1>18. QED
    BY <1>8, <1>17 DEF Fine

\* An event that is outstanding comes in after the ones before it.
LEMMA FineTake ==
    ASSUME IInv, Numbered, NEW o \in Tagged, NEW h \in Handlers, NEW e \in pending,
           Fine(o), Take(h, e), FromStripe(e), e.org = o,
           \A f \in Emitted(o) : f.n >= e.n, e.n >= applied[o], ~ Busy(o)
    PROVE  Fine(o)'
<1>0. MirrorType /\ o \in Orgs
    BY MirrorTypes DEF MirrorType
<1>1. PICK a \in Nat, k \in Nat : a = applied[o] /\ k = emitted[o]
    BY <1>0 DEF MirrorType
<1>2. e \in Event /\ e \in Emitted(o) /\ e.n \in Nat /\ e.n > 0 /\ e.n <= k
    BY <1>0, <1>1, EventFields DEF Emitted, Numbered, MirrorType
<1>3. /\ UNCHANGED <<emitted, stripe, pending, sub, customer>>
      /\ ev' = [ev EXCEPT ![h] = e]
    BY DEF Take, senders, tables
<1>4. applied'[o] = e.n
  <2>1. applied' = [applied EXCEPT ![o] = IF e.n > applied[o] THEN e.n ELSE applied[o]]
      BY DEF Take
  <2>2. QED
      BY <1>0, <1>1, <1>2, <2>1 DEF MirrorType
<1>5. PICK t \in Trace : Explains(o, t)
    BY DEF Fine
<1>6. Follows(e, t[e.n - 1], t[e.n])
    BY <1>2, <1>5 DEF Explains
\* The row agrees with the status before the event, or the one after it.
<1>7. Agrees(t[e.n], o) \/ e.kind = "subscription" \/ Agrees(t[e.n - 1], o)
  <2>1. CASE a = e.n
    <3>1. \A f \in Emitted(o) : f.n = a => f = e
        BY <1>2, <2>1 DEF Emitted, Numbered
    <3>2. QED
        BY <1>1, <1>5, <2>1, <3>1 DEF Explains
  <2>2. CASE a # e.n
    <3>1. a < e.n
        BY <1>1, <1>2, <2>2
    <3>2. a + 1 \in 1..emitted[o] /\ a + 1 > applied[o]
        BY <1>1, <1>2, <3>1
    <3>3. PICK f \in Emitted(o) : f.n = a + 1
        BY <1>5, <3>2 DEF Explains
    <3>4. e.n - 1 = a
        BY <1>2, <3>1, <3>3
    <3>5. \A g \in Emitted(o) : g.n # a
        BY <1>1, <1>2, <3>1
    <3>6. QED
        BY <1>1, <1>5, <3>4, <3>5 DEF Explains
  <2>3. QED
      BY <2>1, <2>2
<1>8. e.kind # "subscription" => o \in customer
  <2>1. e.kind # "subscription" => t[e.n].status # "none" /\ t[e.n - 1].status # "none"
    <3>1. e.kind \in StripeKind
        BY DEF FromStripe
    <3>2. QED
        BY <1>6, <3>1 DEF Follows, After, Stands, StripeKind
  <2>2. QED
      BY <1>7, <2>1 DEF Agrees
<1>9. read'[h] = sub'[o]
  <2>1. read'[h] = IF e.kind \in ByCustomer /\ o \notin customer THEN "none" ELSE sub[o]
      BY <1>0 DEF Take, MirrorType
  <2>2. QED
      BY <1>3, <1>8, <2>1 DEF ByCustomer
<1>10. \A g \in Handlers : Handles(g, o)' => g = h
    BY <1>0, <1>3 DEF Handles, Busy, MirrorType
<1>11. ev'[h] = e
    BY <1>0, <1>3 DEF MirrorType
<1>12. Alone(o)'
    BY <1>3, <1>4, <1>9, <1>10, <1>11 DEF Alone
<1>13. \A x : Agrees(x, o) => Agrees(x, o)'
    BY <1>3 DEF Agrees
<1>14. Explains(o, t)'
  <2>1. Emitted(o)' = Emitted(o)
      BY <1>3 DEF Emitted
  <2>2. t[emitted'[o]] = stripe'[o]
      BY <1>3, <1>5 DEF Explains
  <2>3. \A f \in Emitted(o)' : f.n >= e.n /\ Follows(f, t[f.n - 1], t[f.n])
      BY <1>5, <2>1 DEF Explains
  <2>4. \A n \in 1..emitted'[o] : n > e.n => \E f \in Emitted(o)' : f.n = n
      BY <1>1, <1>2, <1>3, <1>5, <2>1 DEF Explains
  <2>5. Agrees(t[e.n], o)' \/ \E f \in Emitted(o)' :
            f.n = e.n /\ (f.kind = "subscription" \/ Agrees(t[f.n - 1], o)')
      BY <1>2, <1>7, <1>13, <2>1
  <2>6. QED
      BY <1>4, <2>2, <2>3, <2>4, <2>5 DEF Explains
<1>15. QED
    BY <1>12, <1>14 DEF Fine

\* A subscription event that is the last one, with nothing else outstanding,
\* puts right whatever went wrong before.
LEMMA FineAgain ==
    ASSUME IInv, Numbered, NEW o \in Tagged, NEW h \in Handlers, NEW e \in pending,
           Take(h, e), FromStripe(e), e.org = o, e.kind = "subscription",
           Emitted(o) = {e}, e.n = emitted[o], ~ Busy(o)
    PROVE  Fine(o)'
<1>0. MirrorType /\ o \in Orgs
    BY MirrorTypes DEF MirrorType
<1>1. e \in Event /\ e.n \in Nat /\ e.n > 0 /\ e.status # "none" /\ stripe[o] = Stands(e.status)
    BY <1>0, EventFields DEF Numbered, MirrorType
<1>2. /\ UNCHANGED <<emitted, stripe, pending, sub, customer>>
      /\ ev' = [ev EXCEPT ![h] = e]
    BY DEF Take, senders, tables
<1>3. applied'[o] = e.n
  <2>1. applied' = [applied EXCEPT ![o] = IF e.n > applied[o] THEN e.n ELSE applied[o]]
      BY DEF Take
  <2>2. applied[o] \in Nat /\ applied[o] <= e.n
      BY <1>0 DEF Numbered, MirrorType
  <2>3. QED
      BY <1>0, <1>1, <2>1, <2>2 DEF MirrorType
<1>4. read'[h] = sub'[o]
    BY <1>0, <1>2 DEF Take, MirrorType, ByCustomer
<1>5. \A g \in Handlers : Handles(g, o)' => g = h
    BY <1>0, <1>2 DEF Handles, Busy, MirrorType
<1>6. ev'[h] = e
    BY <1>0, <1>2 DEF MirrorType
<1>7. Alone(o)'
    BY <1>2, <1>3, <1>4, <1>5, <1>6 DEF Alone
<1>8. PICK t \in Trace : t = [n \in 0..MaxEvents |-> Stands(e.status)]
    BY <1>1, EventFields DEF Trace, Stands, Standing
<1>9. t[e.n] = Stands(e.status)
    BY <1>1, <1>8, EventFields
<1>10. Follows(e, t[e.n - 1], t[e.n])
    BY <1>1, <1>9 DEF Follows, After
<1>11. Explains(o, t)'
  <2>1. Emitted(o)' = {e}
      BY <1>2 DEF Emitted
  <2>2. \A n \in 1..emitted'[o] : ~ n > e.n
      BY <1>1, <1>2
  <2>3. QED
      BY <1>1, <1>2, <1>3, <1>9, <1>10, <2>1, <2>2 DEF Explains
<1>12. QED
    BY <1>7, <1>11 DEF Fine

\* Handling an event of a subscription whose row agrees with it as it was before
\* the event, or already with what the event makes of it, makes it agree with
\* the latter.
LEMMA Settles ==
    ASSUME MirrorType, NEW o \in Tagged, NEW h \in Handlers, StripeStep(h),
           ev[h] \in Event, ev[h].org = o, read[h] = sub[o],
           NEW s \in Standing, NEW r \in Standing,
           Follows(ev[h], s, r),
           Agrees(r, o) \/ ev[h].kind = "subscription" \/ Agrees(s, o)
    PROVE  Agrees(r, o)'
<1>0. o \in Orgs /\ sub \in [Orgs -> Status] /\ sub[o] \in Status
    BY DEF MirrorType
<1>1. ASSUME NEW x \in Status, SetStatus(h, x) PROVE sub'[o] = x
    BY <1>0, <1>1 DEF SetStatus
<1>2. CASE Upsert(h)
  <2>1. /\ ev[h].kind = "subscription" /\ ev[h].status \in StripeStatus \cup {"none"}
        /\ SetStatus(h, StatusOf(ev[h].status)) /\ o \in customer'
      BY <1>2, EventFields DEF Upsert, At
  <2>2. sub'[o] = StatusOf(ev[h].status)
      BY <1>1, <2>1, StatusOfType
  <2>3. r = Stands(ev[h].status) /\ ev[h].status # "none"
      BY <2>1 DEF Follows, After
  <2>4. StatusOf(ev[h].status) = Local(Stands(ev[h].status))
      BY <2>1, <2>3 DEF StatusOf, Local, Stands, StripeStatus
  <2>5. QED
      BY <2>1, <2>2, <2>3, <2>4 DEF Agrees
<1>3. ASSUME ~ Upsert(h) PROVE Agrees(r, o)'
  <2>1. customer' = customer /\ ev[h].kind \in {"ended", "failed", "succeeded"}
      BY <1>3 DEF StripeStep, Cancel, MarkPastDue, ClearPastDue, At
  <2>2. s.status # "none" /\ r = After(s, ev[h].kind, ev[h].status)
      BY <2>1 DEF Follows
  <2>3. /\ s.status \in StripeStatus /\ s.invoice \in {"none", "failed", "settled"}
      BY <2>2 DEF Standing
  <2>4. r.status # "none"
      BY <2>1, <2>2, <2>3 DEF After, Stands
  <2>5. o \in customer /\ (sub[o] = Local(r) \/ sub[o] = Local(s))
      BY <2>1, <2>2, <2>4 DEF Agrees
  <2>6. CASE Cancel(h)
    <3>1. sub'[o] = "canceled" /\ ev[h].kind = "ended"
        BY <1>1, <2>6 DEF Cancel, At, Status
    <3>2. r = Stands("canceled")
        BY <2>2, <3>1 DEF After
    <3>3. Local(r) = "canceled"
        BY <3>2 DEF Local, Stands
    <3>4. QED
        BY <2>1, <2>5, <3>1, <3>3 DEF Agrees
  <2>7. CASE MarkPastDue(h)
    <3>1. ev[h].kind = "failed"
        BY <2>7 DEF MarkPastDue, At
    <3>2. /\ r.status = IF s.status \in {"active", "trialing"} THEN "past_due" ELSE s.status
          /\ r.invoice = "failed"
        BY <2>2, <3>1 DEF After
    <3>3. Local(r) = "past_due"
        BY <2>3, <3>2 DEF Local, StripeStatus
    <3>4. sub[o] # "none"
        BY <2>5 DEF Local
    <3>5. sub'[o] = "past_due"
        BY <1>1, <2>7, <3>4 DEF MarkPastDue, Status
    <3>6. QED
        BY <2>1, <2>5, <3>3, <3>5 DEF Agrees
  <2>8. CASE ClearPastDue(h)
    <3>1. ev[h].kind = "succeeded"
        BY <2>8 DEF ClearPastDue, At
    <3>2. /\ r.status = IF s.status \in {"past_due", "unpaid", "incomplete"}
                        THEN "active" ELSE s.status
          /\ r.invoice = IF s.invoice = "failed" THEN "settled" ELSE s.invoice
        BY <2>2, <3>1 DEF After
    <3>3. sub'[o] = IF sub[o] = "past_due" THEN "active" ELSE sub[o]
        BY <1>1, <2>8 DEF ClearPastDue, Status
    <3>4. Local(r) # "past_due"
        BY <2>3, <3>2 DEF Local, StripeStatus
    <3>5. Local(r) = IF Local(s) = "past_due" THEN "active" ELSE Local(s)
        BY <2>3, <3>2 DEF Local, StripeStatus
    <3>6. sub'[o] = Local(r)
        BY <2>5, <3>3, <3>4, <3>5
    <3>7. QED
        BY <2>1, <2>5, <3>6 DEF Agrees
  <2>9. QED
      BY <1>3, <2>6, <2>7, <2>8 DEF StripeStep
<1>4. QED
    BY <1>2, <1>3

\* The request is over, and its event answered or not.
LEMMA FineSettled ==
    ASSUME IInv, Numbered, NEW o \in Tagged, Fine(o), NEW h \in Handlers, StripeStep(h),
           ev[h].org = o
    PROVE  Fine(o)'
<1>0. MirrorType /\ o \in Orgs
    BY MirrorTypes DEF MirrorType
<1>1. /\ End(h) /\ ev[h] \in Event /\ FromStripe(ev[h])
      /\ UNCHANGED <<stripe, emitted, applied>>
      /\ pending' = pending \/ pending' = pending \ {ev[h]}
    BY StripeStepFrame
<1>2. PICK e \in Event : e = ev[h]
    BY <1>1
<1>3. PICK a \in Nat : a = applied[o]
    BY <1>0 DEF MirrorType
<1>4. Handles(h, o)
    BY <1>0, <1>1 DEF Handles, MirrorType
<1>5. e \in Emitted(o) /\ e.n = a /\ read[h] = sub[o] /\ \A g \in Handlers : Handles(g, o) => g = h
    BY <1>1, <1>2, <1>3, <1>4 DEF Fine, Alone, Emitted
<1>6. PICK t \in Trace : Explains(o, t)
    BY DEF Fine
<1>7. a > 0 /\ a <= MaxEvents /\ Follows(e, t[a - 1], t[a])
    BY <1>0, <1>1, <1>2, <1>3, <1>5, <1>6 DEF Explains, Numbered, Emitted, MirrorType
<1>8. Agrees(t[a], o) \/ e.kind = "subscription" \/ Agrees(t[a - 1], o)
  <2>1. \A f \in Emitted(o) : f.n = a => f = e
      BY <1>5 DEF Emitted, Numbered
  <2>2. QED
      BY <1>3, <1>6, <2>1 DEF Explains
<1>9. t[a] \in Standing /\ t[a - 1] \in Standing
    BY <1>0, <1>3, <1>7 DEF Trace, MirrorType
<1>10. Agrees(t[a], o)'
    BY <1>0, <1>1, <1>2, <1>5, <1>7, <1>8, <1>9, Settles
<1>11. Alone(o)'
  <2>1. \A g \in Handlers : ~ Handles(g, o)'
      BY <1>0, <1>1, <1>5 DEF End, Handles, MirrorType
  <2>2. QED
      BY <2>1 DEF Alone
<1>12. Explains(o, t)'
  <2>1. Emitted(o)' \subseteq Emitted(o) /\ Emitted(o) \ {e} \subseteq Emitted(o)'
      BY <1>1, <1>2 DEF Emitted
  <2>2. t[emitted'[o]] = stripe'[o]
      BY <1>1, <1>6 DEF Explains
  <2>3. \A f \in Emitted(o)' : f.n >= a /\ Follows(f, t[f.n - 1], t[f.n])
      BY <1>3, <1>6, <2>1 DEF Explains
  <2>4. \A n \in 1..emitted'[o] : n > a => \E f \in Emitted(o)' : f.n = n
    <3> SUFFICES ASSUME NEW n \in 1..emitted[o], n > a PROVE \E f \in Emitted(o)' : f.n = n
        BY <1>1
    <3>1. PICK f \in Emitted(o) : f.n = n
        BY <1>3, <1>6 DEF Explains
    <3>2. f # e
        BY <1>3, <1>5, <3>1
    <3>3. QED
        BY <2>1, <3>1, <3>2
  <2>5. applied'[o] = a
      BY <1>1, <1>3
  <2>6. QED
      BY <1>10, <2>2, <2>3, <2>4, <2>5 DEF Explains
<1>13. QED
    BY <1>11, <1>12 DEF Fine

\* A new organization has no Stripe events, and its row is its trial's.
LEMMA FineCreated ==
    ASSUME MirrorType, Known, Numbered, NEW o \in Orgs, Fine(o), NEW h \in Handlers,
           CommitCreated(h), ev[h].org = o
    PROVE  Fine(o)'
<1>1. UNCHANGED <<stripe, emitted, pending, applied, ev, read, customer>>
    BY DEF CommitCreated, senders, noted
<1>2. emitted[o] = 0 /\ stripe[o].status = "none" /\ applied[o] = 0
    BY DEF CommitCreated, Known, Numbered, MirrorType
<1>3. Emitted(o) = {}
  <2> SUFFICES ASSUME NEW e \in Emitted(o) PROVE FALSE
      OBVIOUS
  <2>1. e.n \in Nat /\ e.n > 0 /\ e.n <= 0
      BY <1>2, EventFields DEF Emitted, Numbered, MirrorType
  <2>2. QED
      BY <2>1
<1>4. Emitted(o)' = {}
    BY <1>1, <1>3 DEF Emitted
<1>5. \A g \in Handlers : ~ Handles(g, o)
    BY <1>3 DEF Fine, Alone, Handles, Emitted
<1>6. Alone(o)'
    BY <1>1, <1>5 DEF Alone, Handles
<1>7. PICK t \in Trace : Explains(o, t)
    BY DEF Fine
<1>8. t[0] = stripe[o] /\ t[0].status = "none"
    BY <1>2, <1>7 DEF Explains
<1>9. Agrees(t[0], o)'
    BY <1>8 DEF Agrees
<1>10. Explains(o, t)'
    BY <1>1, <1>2, <1>4, <1>8, <1>9 DEF Explains
<1>11. QED
    BY <1>6, <1>10 DEF Fine

-----------------------------------------------------------------------------
LEMMA InOrderStep == IInv /\ Known /\ Numbered /\ InOrder /\ [Next]_vars => InOrder'
<1> SUFFICES ASSUME IInv, Known, Numbered, InOrder, [Next]_vars,
                    NEW o \in Tagged, o \notin unsure'
             PROVE  Fine(o)'
    BY DEF InOrder, Fine
<1>0. MirrorType /\ o \in Orgs /\ (o \notin unsure => Fine(o))
    BY MirrorTypes DEF MirrorType, InOrder, Fine
<1>1. CASE Passes
  <2>1. Emitted(o)' = Emitted(o)
      BY <1>1 DEF Passes, Emitted
  <2>2. \A h \in Handlers : Handles(h, o)' =>
            Handles(h, o) /\ ev'[h] = ev[h] /\ read'[h] = read[h]
      BY <1>1 DEF Passes, Handles
  <2>3. QED
      BY <1>0, <1>1, <2>1, <2>2, FineFrame DEF Passes
<1>2. ASSUME NEW p \in Orgs, NEW kind \in StripeKind, NEW s \in Reported \cup {"none"},
             Happen(p, kind, s)
      PROVE  Fine(o)'
  <2>1. o \notin unsure
      BY <1>2 DEF Happen, noted
  <2>2. CASE p = o
      BY <1>0, <1>2, <2>1, <2>2, FineHappen
  <2>3. CASE p # o
    <3>1. Emitted(o)' = Emitted(o)
        BY <1>0, <1>2, <2>3, HappenEvent DEF Emitted
    <3>2. /\ stripe'[o] = stripe[o] /\ emitted'[o] = emitted[o]
          /\ UNCHANGED <<sub, customer, applied, ev, read>>
        BY <1>0, <1>2, <2>3 DEF Happen, tables, handlers, noted, MirrorType
    <3>3. \A h \in Handlers : Handles(h, o)' =>
              Handles(h, o) /\ ev'[h] = ev[h] /\ read'[h] = read[h]
        BY <3>2 DEF Handles
    <3>4. QED
        BY <1>0, <2>1, <3>1, <3>2, <3>3, FineFrame
  <2>4. QED
      BY <2>2, <2>3
<1>3. ASSUME NEW h \in Handlers, CommitCreated(h) PROVE Fine(o)'
  <2>1. UNCHANGED <<stripe, emitted, pending, applied, unsure, ev, read, customer>>
      BY <1>3 DEF CommitCreated, senders, noted
  <2>2. CASE ev[h].org = o
      BY <1>0, <1>3, <2>1, <2>2, FineCreated
  <2>3. CASE ev[h].org # o
    <3>1. sub'[o] = sub[o]
        BY <1>0, <1>3, <2>3 DEF CommitCreated, MirrorType
    <3>2. Emitted(o)' = Emitted(o) /\ \A g \in Handlers : Handles(g, o)' => Handles(g, o)
        BY <2>1 DEF Emitted, Handles
    <3>3. QED
        BY <1>0, <2>1, <3>1, <3>2, FineFrame
  <2>4. QED
      BY <2>2, <2>3
<1>4. ASSUME NEW h \in Handlers, StripeStep(h) PROVE Fine(o)'
  <2>1. /\ End(h) /\ ev[h] \in Event /\ FromStripe(ev[h]) /\ ev[h].org \in Orgs
        /\ UNCHANGED <<stripe, emitted, applied, unsure>>
        /\ pending' = pending \/ pending' = pending \ {ev[h]}
      BY <1>4, StripeStepFrame
  <2>2. CASE ev[h].org = o
      BY <1>0, <1>4, <2>1, <2>2, FineSettled
  <2>3. CASE ev[h].org # o
    <3>1. sub'[o] = sub[o] /\ (o \in customer <=> o \in customer')
        BY <1>0, <1>4, <2>3 DEF StripeStep, Upsert, Cancel, MarkPastDue, ClearPastDue,
                                SetStatus, MirrorType
    <3>2. Emitted(o)' = Emitted(o)
        BY <2>1, <2>3 DEF Emitted
    <3>3. \A g \in Handlers : Handles(g, o)' =>
              Handles(g, o) /\ ev'[g] = ev[g] /\ read'[g] = read[g]
        BY <1>0, <2>1 DEF End, Handles, MirrorType
    <3>4. QED
        BY <1>0, <2>1, <3>1, <3>2, <3>3, FineFrame
  <2>4. QED
      BY <2>2, <2>3
<1>5. ASSUME NEW h \in Handlers, NEW e \in pending, Take(h, e) PROVE Fine(o)'
  <2>1. /\ UNCHANGED <<stripe, emitted, pending, sub, customer>>
        /\ ev' = [ev EXCEPT ![h] = e]
        /\ \A g \in Handlers \ {h} : read'[g] = read[g]
      BY <1>0, <1>5 DEF Take, senders, tables, MirrorType
  <2>2. CASE FromStripe(e) /\ e.org = o
    <3>1. CASE e.kind = "subscription" /\ Emitted(o) = {e} /\ e.n = emitted[o] /\ ~ Busy(o)
        BY <1>5, <2>2, <3>1, FineAgain
    <3>2. ASSUME ~ (e.kind = "subscription" /\ Emitted(o) = {e} /\ e.n = emitted[o] /\ ~ Busy(o))
          PROVE  Fine(o)'
      <4>1. /\ \A f \in Emitted(o) : f.n >= e.n
            /\ e.n >= applied[o] /\ ~ Busy(o) /\ o \notin unsure
          BY <1>5, <2>2, <3>2 DEF Take
      <4>2. QED
          BY <1>0, <1>5, <2>2, <4>1, FineTake
    <3>3. QED
        BY <3>1, <3>2
  <2>3. CASE ~ (FromStripe(e) /\ e.org = o)
    <3>1. applied'[o] = applied[o] /\ o \notin unsure
        BY <1>0, <1>5, <2>3 DEF Take, MirrorType
    <3>2. \A g \in Handlers : Handles(g, o)' => g # h
        BY <1>0, <2>1, <2>3 DEF Handles, MirrorType
    <3>3. \A g \in Handlers : Handles(g, o)' =>
              Handles(g, o) /\ ev'[g] = ev[g] /\ read'[g] = read[g]
        BY <1>0, <2>1, <3>2 DEF Handles, MirrorType
    <3>4. Emitted(o)' = Emitted(o)
        BY <2>1 DEF Emitted
    <3>5. QED
        BY <1>0, <2>1, <3>1, <3>3, <3>4, FineFrame
  <2>4. QED
      BY <2>2, <2>3
<1>6. QED
    BY <1>1, <1>2, <1>3, <1>4, <1>5, MirrorSteps

LEMMA MirrorInit == Init => Known /\ Numbered /\ InOrder
<1> SUFFICES ASSUME Init PROVE Known /\ Numbered /\ InOrder
    OBVIOUS
<1>1. MirrorType
    BY InitInvariant, MirrorTypes
<1>2. Known /\ Numbered
    BY DEF Init, Known, Numbered, Stands
<1>3. ASSUME NEW o \in Tagged PROVE Alone(o) /\ \E t \in Trace : Explains(o, t)
  <2>1. o \in Orgs
      BY <1>1 DEF MirrorType
  <2>2. /\ stripe[o] = Stands("none") /\ emitted[o] = 0 /\ applied[o] = 0 /\ Emitted(o) = {}
        /\ \A h \in Handlers : ~ Handles(h, o)
      BY <2>1 DEF Init, Emitted, Handles
  <2>3. PICK t \in Trace : t = [n \in 0..MaxEvents |-> Stands("none")]
      BY DEF Trace, Standing, Stands
  <2>4. t[0] = Stands("none")
      BY <1>1, <2>3 DEF MirrorType
  <2>5. Agrees(t[0], o)
      BY <2>4 DEF Agrees, Stands
  <2>6. QED
      BY <2>2, <2>4, <2>5 DEF Alone, Explains
<1>4. QED
    BY <1>2, <1>3 DEF InOrder

-----------------------------------------------------------------------------
(* Organizations whose subscription is not tagged.                         *)

LEMMA OnTrialInit == Init => OnTrial
BY DEF Init, OnTrial

LEMMA OnTrialStep == IInv /\ OnTrial /\ [Next]_vars => OnTrial'
<1> SUFFICES ASSUME IInv, OnTrial, [Next]_vars PROVE OnTrial'
    OBVIOUS
<1>0. MirrorType /\ pc \in [Handlers -> {"idle", "read", "committed"}]
    BY MirrorTypes DEF IInv, TypeOK
<1> DEFINE Row(o) == sub[o] = IF org[o] = "none" THEN "none" ELSE "trialing"
           Blind(h) == pc[h] # "idle" /\ ev[h].kind \in ByCustomer /\ ev[h].org \notin Tagged
                           => read[h] = "none"
           Saw(h) == pc[h] # "idle" /\ ev[h].kind = "removed" /\ read[h] # "none"
                           => org[ev[h].org] # "none"
<1>w. \A h \in Handlers : pc[h] # "idle" => ev[h] \in Event /\ ev[h].org \in Orgs
    BY EventFields DEF IInv, WorkingHasEvent
<1>1. ASSUME NEW h \in Handlers, End(h), \A o \in Orgs : org[o] # "none" => org'[o] # "none"
      PROVE  \A g \in Handlers : Blind(g)' /\ Saw(g)'
    BY <1>0, <1>w, <1>1 DEF End, OnTrial, MirrorType
<1>2. ASSUME UNCHANGED <<pc, ev, read, org>> PROVE \A g \in Handlers : Blind(g)' /\ Saw(g)'
    BY <1>2 DEF OnTrial
<1>3. ASSUME UNCHANGED <<sub, org>> PROVE \A o \in Orgs \ Tagged : Row(o)'
    BY <1>3 DEF OnTrial
<1>4. ASSUME NEW o \in Orgs, ClerkChange(o) PROVE OnTrial'
    BY <1>2, <1>3, <1>4 DEF ClerkChange, handlers, tables, OnTrial
<1>5. ASSUME NEW o \in Orgs, NEW kind \in StripeKind, NEW s \in Reported \cup {"none"},
             Happen(o, kind, s)
      PROVE  OnTrial'
    BY <1>2, <1>3, <1>5 DEF Happen, handlers, tables, OnTrial
<1>6. ASSUME NEW h \in Handlers, NEW e \in pending, Take(h, e) PROVE OnTrial'
  <2>1. UNCHANGED <<sub, org>>
      BY <1>6 DEF Take, tables
  <2>2. /\ ev' = [ev EXCEPT ![h] = e]
        /\ \A g \in Handlers \ {h} : read'[g] = read[g] /\ pc'[g] = pc[g]
      BY <1>0, <1>6 DEF Take, MirrorType
  <2>3. e.kind \in ByCustomer /\ e.org \notin Tagged => read'[h] = "none"
      BY <1>0, <1>6 DEF Take, MirrorType, FromStripe, ByCustomer, StripeKind
  <2>4. e.kind = "removed" => read'[h] = org[e.org]
      BY <1>0, <1>6 DEF Take, MirrorType, FromStripe, StripeKind
  <2>5. \A g \in Handlers : Blind(g)' /\ Saw(g)'
      BY <1>0, <2>1, <2>2, <2>3, <2>4 DEF OnTrial, MirrorType
  <2>6. QED
      BY <1>3, <2>1, <2>5 DEF OnTrial
<1>7. ASSUME NEW h \in Handlers, CommitCreated(h) PROVE OnTrial'
  <2>1. /\ pc[h] = "read" /\ ev[h].kind = "created"
        /\ org' = [org EXCEPT ![ev[h].org] = "active"]
        /\ sub' = [sub EXCEPT ![ev[h].org] = "trialing"]
        /\ pc' = [pc EXCEPT ![h] = "committed"] /\ ev' = ev /\ read' = read
      BY <1>7 DEF CommitCreated, At
  <2>2. \A o \in Orgs \ Tagged : Row(o)'
      BY <1>0, <2>1 DEF OnTrial, MirrorType
  <2>3. \A g \in Handlers : Blind(g)' /\ Saw(g)'
      BY <1>0, <1>w, <2>1 DEF OnTrial, ByCustomer, MirrorType
  <2>4. QED
      BY <2>2, <2>3 DEF OnTrial
<1>8. ASSUME NEW h \in Handlers, Remove(h) PROVE OnTrial'
  <2>1. End(h) /\ sub' = sub
      BY <1>8 DEF Remove, Answer
  <2>2. ev[h] \in Event /\ ev[h].org \in Orgs
      BY <1>8, EventFields DEF Remove, At, IInv, WorkingHasEvent
  <2>3. \A o \in Orgs : org'[o] = "none" <=> org[o] = "none"
    <3>1. read[h] # "none" => org[ev[h].org] # "none"
        BY <1>8 DEF Remove, At, OnTrial
    <3>2. QED
        BY <1>0, <1>8, <2>2, <3>1 DEF Remove, MirrorType
  <2>4. QED
      BY <1>1, <2>1, <2>3 DEF OnTrial
<1>9. ASSUME NEW h \in Handlers, StripeStep(h) PROVE OnTrial'
  <2>1. /\ End(h) /\ ev[h] \in Event /\ ev[h].org \in Orgs /\ org' = org
      BY <1>9, StripeStepFrame
  <2>2. CASE ev[h].org \in Tagged
    <3>1. \A o \in Orgs \ Tagged : sub'[o] = sub[o]
        BY <1>0, <1>9, <2>2 DEF StripeStep, Upsert, Cancel, MarkPastDue, ClearPastDue,
                                SetStatus, MirrorType
    <3>2. QED
        BY <1>1, <2>1, <3>1 DEF OnTrial
  <2>3. CASE ev[h].org \notin Tagged
    <3>1. MarkPastDue(h) \/ ClearPastDue(h) => read[h] = "none"
        BY <2>3 DEF MarkPastDue, ClearPastDue, At, ByCustomer, OnTrial
    <3>2. sub' = sub
        BY <1>9, <2>3, <3>1 DEF StripeStep, Upsert, Cancel, MarkPastDue, ClearPastDue
    <3>3. QED
        BY <1>1, <1>3, <2>1, <3>2 DEF OnTrial
  <2>4. QED
      BY <2>2, <2>3
<1>10. ASSUME NEW h \in Handlers,
              AlreadyExists(h) \/ Welcome(h) \/ RaceLost(h) \/ Rename(h) \/ Fail(h)
       PROVE  OnTrial'
  <2>1. End(h) /\ UNCHANGED <<sub, org>>
      BY <1>10 DEF AlreadyExists, Welcome, RaceLost, Rename, Fail, Answer, tables
  <2>2. QED
      BY <1>1, <1>3, <2>1 DEF OnTrial
<1>11. CASE UNCHANGED vars
    BY <1>2, <1>3, <1>11 DEF vars, tables, handlers, OnTrial
<1>12. QED
    BY <1>4, <1>5, <1>6, <1>7, <1>8, <1>9, <1>10, <1>11
       DEF Next, Quiet, HandlerStep, StripeStep

\* Once Stripe has been heard out, a tagged organization whose events came in in
\* order, or whose last one was a subscription event that came in alone, is
\* served if it is active or in its trial and refused if it is unpaid; one that
\* never began or has ended as its invoices say; and one that is not tagged
\* stays on its trial.  For any number of organizations, requests, events and
\* failures.
THEOREM ServiceMirrorsAlways == Spec => []ServiceMirrors
<1>1. IInv /\ Known /\ Numbered /\ InOrder /\ [Next]_vars => (Known /\ Numbered /\ InOrder)'
    BY KnownStep, NumberedStep, InOrderStep
<1>2. ASSUME IInv, Numbered, InOrder, NEW o \in Tagged \ unsure, Emitted(o) = {}
      PROVE  /\ stripe[o].status \in {"active", "trialing"} => Served(o)
             /\ stripe[o].status \in {"past_due", "unpaid"} => ~ Served(o)
             /\ stripe[o].status = "incomplete" => (Served(o) <=> stripe[o].invoice # "failed")
             /\ stripe[o].status = "canceled" => (Served(o) <=> stripe[o].invoice = "settled")
  <2>1. PICK t \in Trace : Explains(o, t)
      BY <1>2 DEF InOrder
  <2>2. applied[o] \in Nat /\ emitted[o] \in Nat /\ applied[o] <= emitted[o]
      BY <1>2, MirrorTypes DEF MirrorType, Numbered
  <2>3. applied[o] = emitted[o]
      BY <1>2, <2>1, <2>2 DEF Explains
  <2>4. Agrees(stripe[o], o)
      BY <1>2, <2>1, <2>3 DEF Explains
  <2>5. stripe[o].invoice \in {"none", "failed", "settled"}
      BY <1>2, MirrorTypes DEF MirrorType, Standing
  <2>6. QED
      BY <2>4, <2>5 DEF Agrees, Local, Served
<1>3. IInv /\ Numbered /\ InOrder /\ OnTrial => ServiceMirrors
    BY <1>2 DEF ServiceMirrors, OnTrial
<1>4. QED
    BY <1>1, <1>3, MirrorInit, OnTrialInit, OnTrialStep, Invariant, PTL DEF Spec

=============================================================================
