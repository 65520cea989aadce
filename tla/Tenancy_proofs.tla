-------------------------- MODULE Tenancy_proofs --------------------------
(***************************************************************************)
(* Proofs about Tenancy for any people, plans, limits and number of        *)
(* requests served at a time.  Two arguments: of the requests that have    *)
(* inserted a membership of one person at most one is not committed, and   *)
(* then there is none; and the projects there are, with those that have    *)
(* been counted for and are not committed, stay under the limit plus the   *)
(* number of slots.                                                        *)
(***************************************************************************)
EXTENDS Tenancy, FiniteSetTheorems, TLAPS

Adding   == {"added", "mailed", "stub added", "stub mailed"}
Mailed   == {"mailed", "stub mailed"}
Inviting == {"known", "unknown", "stubbed", "free", "stub free"} \cup Adding

\* A request is about somebody, and who is to change or to go has been a member.
Targets ==
    \A q \in Slots :
        /\ request[q].at \in Inviting => request[q].on \in People /\ request[q].role \in Roles
        /\ request[q].at \in {"changing", "removing"} =>
               request[q].on \in People /\ member[request[q].on] # "none"

\* The unique keys: who has inserted a membership of a person is the only one,
\* and there is none in the table.
OneAdds ==
    \A q \in Slots : request[q].at \in Adding =>
        /\ member[request[q].on] = "none"
        /\ \A s \in Slots : request[s].at \in Adding /\ request[s].on = request[q].on => s = q

\* This month's best limit is one, and the plan's is no higher.
PlanWithin ==
    /\ best # 0
    /\ best # -1 => Limit[plan] # -1 /\ Limit[plan] <= best

\* Nor is a limit that a request of this month has read.
ReadWithin ==
    \A q \in Slots :
        request[q].at = "planned" /\ request[q].born = "this" /\ best # -1 =>
            request[q].quota # -1 /\ request[q].quota <= best

\* Requests that have found room and not committed their project.
Counted == {q \in Slots : request[q].at = "counted" /\ request[q].born = "this"}

Room == best # -1 => Cardinality(fresh) + Cardinality(Counted) < best + Cardinality(Slots)

IInv ==
    /\ TypeOK /\ Targets /\ OneAdds /\ InvitedOnce
    /\ PlanWithin /\ ReadWithin /\ Room

\* A step that moves no request but q's.
Moves(q) ==
    /\ request' \in [Slots -> RequestType]
    /\ \A s \in Slots \ {q} : request'[s] = request[s]

-----------------------------------------------------------------------------
(* How the helpers of Tenancy move a request                               *)

LEMMA IdleType == Idle \in RequestType
BY DEF Idle, RequestType, States

LEMMA BeginMoves ==
    ASSUME TypeOK, NEW q \in Slots, NEW r \in RequestType, Begin(q, r)
    PROVE  Moves(q) /\ request[q].at = "idle" /\ request'[q] = r
BY DEF TypeOK, Begin, At, Moves

LEMMA DoneMoves ==
    ASSUME TypeOK, NEW q \in Slots, Done(q)
    PROVE  Moves(q) /\ request'[q].at = "idle"
BY IdleType DEF TypeOK, Done, Moves, Idle

LEMMA GoMoves ==
    ASSUME TypeOK, NEW q \in Slots, NEW to \in States, Go(q, to)
    PROVE  /\ Moves(q)
           /\ request'[q].at = to
           /\ request'[q].on = request[q].on /\ request'[q].role = request[q].role
           /\ request'[q].born = request[q].born
<1> DEFINE n == [request[q] EXCEPT !.at = to]
<1>1. request[q] \in RequestType
  BY DEF TypeOK
<1>2. n \in RequestType /\ n.at = to /\ n.on = request[q].on /\ n.role = request[q].role
         /\ n.born = request[q].born
  BY <1>1 DEF RequestType
<1>3. request' = [request EXCEPT ![q] = n]
  BY DEF Go
<1> HIDE DEF n
<1>4. QED
  BY <1>2, <1>3 DEF TypeOK, Moves

\* No finer than sets: those who are in the way, those who have counted.
LEMMA FiniteSlots ==
    /\ \A S \in SUBSET Slots : IsFiniteSet(S) /\ Cardinality(S) \in Nat
                               /\ Cardinality(S) <= Cardinality(Slots)
    /\ Cardinality(Slots) \in Nat
    /\ \A F \in SUBSET Projects : IsFiniteSet(F) /\ Cardinality(F) \in Nat
BY PlansAssumption, FS_Subset, FS_CardinalityType

-----------------------------------------------------------------------------
(* Frames: steps that are no business of the members, or of the projects   *)

LEMMA MembersKept ==
    ASSUME IInv, NEW q \in Slots, Moves(q),
           member' = member, mails' = mails, lost' = lost,
           request[q].at \notin Mailed, request'[q].at \notin Adding,
           request'[q].at \in Inviting => request'[q].on \in People /\ request'[q].role \in Roles,
           request'[q].at \in {"changing", "removing"} =>
               request'[q].on \in People /\ member[request'[q].on] # "none"
    PROVE  Targets' /\ OneAdds' /\ InvitedOnce'
<1>1. Targets'
  BY DEF IInv, Targets, Moves
<1>2. OneAdds'
  BY DEF IInv, OneAdds, Moves
<1>3. ASSUME NEW p \in People PROVE Mailing(p)' = Mailing(p)
  <2>1. ASSUME NEW s \in Slots
        PROVE  request'[s].on = p /\ request'[s].at \in Mailed <=>
                   request[s].on = p /\ request[s].at \in Mailed
    <3>1. CASE s = q
      BY <3>1 DEF Adding, Mailed
    <3>2. CASE s # q
      BY <3>2 DEF Moves
    <3>3. QED
      BY <3>1, <3>2
  <2>2. QED
    BY <2>1 DEF Mailing, InTheWay, At, Mailed
<1>4. InvitedOnce'
  BY <1>3 DEF IInv, InvitedOnce
<1>5. QED
  BY <1>1, <1>2, <1>4

LEMMA ProjectsKept ==
    ASSUME IInv, NEW q \in Slots, Moves(q),
           fresh' = fresh, plan' = plan, best' = best,
           request'[q].at \notin {"planned", "counted"}
    PROVE  PlanWithin' /\ ReadWithin' /\ Room'
<1>1. PlanWithin'
  BY DEF IInv, PlanWithin
<1>2. ReadWithin'
  BY DEF IInv, ReadWithin, Moves
<1>3. Counted' \subseteq Counted /\ Counted \subseteq Slots
  BY DEF Counted, Moves
<1>4. Cardinality(Counted') \in Nat /\ Cardinality(Counted) \in Nat
         /\ Cardinality(Counted') <= Cardinality(Counted)
  BY <1>3, FiniteSlots, FS_Subset
<1>5. Cardinality(fresh) \in Nat /\ Cardinality(Slots) \in Nat /\ best \in Int
  BY FiniteSlots DEF IInv, TypeOK
<1>6. Room'
  BY <1>4, <1>5 DEF IInv, Room
<1>7. QED
  BY <1>1, <1>2, <1>6

-----------------------------------------------------------------------------
(* One lemma per action                                                    *)

LEMMA InitInv == Init => IInv
<1> SUFFICES ASSUME Init PROVE IInv
  OBVIOUS
<1>1. TypeOK
  BY IdleType, PlansAssumption DEF Init, TypeOK
<1>2. \A q \in Slots : request[q].at = "idle"
  BY DEF Init, Idle
<1>3. Targets /\ OneAdds /\ ReadWithin /\ Counted = {}
  BY <1>2 DEF Targets, OneAdds, ReadWithin, Counted, Inviting, Adding
<1>4. \A p \in People : Mailing(p) = {}
  BY <1>2 DEF Mailing, InTheWay, At
<1>5. InvitedOnce
  BY <1>4, FS_EmptySet DEF Init, InvitedOnce
<1>6. PlanWithin
  BY PlansAssumption DEF Init, PlanWithin
<1>7. Room
  BY <1>1, <1>3, <1>6, FS_EmptySet, FiniteSlots DEF Init, Room, TypeOK, PlanWithin
<1>8. QED
  BY <1>1, <1>3, <1>5, <1>6, <1>7 DEF IInv

LEMMA FindUserInv ==
    ASSUME IInv, NEW q \in Slots, NEW p \in People, NEW r \in Roles, FindUser(q, p, r)
    PROVE  IInv'
<1> DEFINE n == [Idle EXCEPT !.at = IF p \in user THEN "known" ELSE "unknown",
                             !.on = p, !.role = r]
<1>1. n \in RequestType /\ n.at \in {"known", "unknown"} /\ n.on = p /\ n.role = r
  BY DEF Idle, RequestType, States
<1>2. Begin(q, n)
  BY DEF FindUser
<1> HIDE DEF n
<1>3. Moves(q) /\ request[q].at = "idle" /\ request'[q] = n
  BY <1>1, <1>2, BeginMoves DEF IInv
<1>4. TypeOK'
  BY <1>3 DEF IInv, TypeOK, FindUser, Moves, stores, history
<1>5. Targets' /\ OneAdds' /\ InvitedOnce'
  BY <1>1, <1>3, MembersKept DEF FindUser, stores, history, Mailed, Adding, Inviting
<1>6. PlanWithin' /\ ReadWithin' /\ Room'
  BY <1>1, <1>3, ProjectsKept DEF FindUser, stores, history
<1>7. QED
  BY <1>4, <1>5, <1>6 DEF IInv

LEMMA StubUserInv ==
    ASSUME IInv, NEW q \in Slots, StubUser(q) PROVE IInv'
<1>1. request[q].at = "unknown" /\ UNCHANGED <<stores, history>>
  BY DEF StubUser, At
<1>2. /\ Moves(q)
      /\ \/ request'[q].at = "idle"
         \/ /\ request'[q].at = "stubbed"
            /\ request'[q].on = request[q].on /\ request'[q].role = request[q].role
  BY DoneMoves, GoMoves DEF StubUser, IInv, States
<1>3. request[q].on \in People /\ request[q].role \in Roles
  BY <1>1 DEF IInv, Targets, Inviting
<1>4. TypeOK'
  BY <1>1, <1>2 DEF IInv, TypeOK, Moves, stores, history
<1>5. Targets' /\ OneAdds' /\ InvitedOnce'
  BY <1>1, <1>2, <1>3, MembersKept DEF stores, history, Mailed, Adding, Inviting
<1>6. PlanWithin' /\ ReadWithin' /\ Room'
  BY <1>1, <1>2, ProjectsKept DEF stores, history
<1>7. QED
  BY <1>4, <1>5, <1>6 DEF IInv

LEMMA FindMemberInv ==
    ASSUME IInv, NEW q \in Slots, FindMember(q) PROVE IInv'
<1>1. request[q].at \in {"known", "stubbed"} /\ UNCHANGED <<stores, history>>
  BY DEF FindMember, At
<1>2. /\ Moves(q)
      /\ \/ request'[q].at = "idle"
         \/ /\ request'[q].at \in {"free", "stub free"}
            /\ request'[q].on = request[q].on /\ request'[q].role = request[q].role
  BY DoneMoves, GoMoves DEF FindMember, IInv, States
<1>3. request[q].on \in People /\ request[q].role \in Roles
  BY <1>1 DEF IInv, Targets, Inviting
<1>4. TypeOK'
  BY <1>1, <1>2 DEF IInv, TypeOK, Moves, stores, history
<1>5. Targets' /\ OneAdds' /\ InvitedOnce'
  BY <1>1, <1>2, <1>3, MembersKept DEF stores, history, Mailed, Adding, Inviting
<1>6. PlanWithin' /\ ReadWithin' /\ Room'
  BY <1>1, <1>2, ProjectsKept DEF stores, history
<1>7. QED
  BY <1>4, <1>5, <1>6 DEF IInv

\* A step that is about one person leaves the others' books alone.
LEMMA OnePersonsBooks ==
    ASSUME InvitedOnce, NEW p \in People, NEW q \in Slots, Moves(q), request[q].on = p,
           request'[q].on = p \/ request'[q].at \notin Mailed,
           \A x \in People \ {p} :
               mails'[x] = mails[x] /\ lost'[x] = lost[x] /\ member'[x] = member[x],
           mails'[p] = lost'[p] + Cardinality(Mailing(p)')
                           + (IF member'[p] = "none" THEN 0 ELSE 1)
    PROVE  InvitedOnce'
<1>1. ASSUME NEW x \in People \ {p} PROVE Mailing(x)' = Mailing(x)
  <2>1. \A s \in Slots : (s \in Mailing(x))' <=> s \in Mailing(x)
    BY DEF Mailing, InTheWay, At, Moves, Mailed
  <2>2. QED
    BY <2>1 DEF Mailing, InTheWay
<1>2. ASSUME NEW x \in People \ {p}
      PROVE  mails'[x] = lost'[x] + Cardinality(Mailing(x)')
                             + (IF member'[x] = "none" THEN 0 ELSE 1)
  BY <1>1 DEF InvitedOnce
<1>3. QED
  BY <1>2 DEF InvitedOnce

\* Who goes on, or begins where nobody else is, is still the only one.
LEMMA StillOne ==
    ASSUME IInv, NEW q \in Slots, Moves(q), NEW p, member[p] = "none",
           request[q].on = p, request'[q].on = p, member' = member,
           \A s \in Slots \ {q} : ~(request[s].at \in Adding /\ request[s].on = p)
    PROVE  OneAdds'
<1>1. ASSUME NEW s \in Slots, NEW t \in Slots, request'[s].at \in Adding,
             request'[t].at \in Adding, request'[t].on = request'[s].on
      PROVE  s = t
  BY <1>1 DEF IInv, OneAdds, Moves
<1>2. ASSUME NEW s \in Slots, request'[s].at \in Adding
      PROVE  member'[request'[s].on] = "none"
  BY <1>2 DEF IInv, OneAdds, Moves
<1>3. QED
  BY <1>1, <1>2 DEF OneAdds

\* Who is done is in nobody's way.
LEMMA OneLess ==
    ASSUME IInv, NEW q \in Slots, Moves(q), request'[q].at = "idle",
           \A s \in Slots \ {q} :
               request[s].at \in Adding => member'[request[s].on] = member[request[s].on]
    PROVE  OneAdds'
<1>1. ASSUME NEW s \in Slots, NEW t \in Slots, request'[s].at \in Adding,
             request'[t].at \in Adding, request'[t].on = request'[s].on
      PROVE  s = t
  <2>1. s # q /\ t # q
    BY <1>1 DEF Adding
  <2>2. request'[s] = request[s] /\ request'[t] = request[t]
    BY <2>1 DEF Moves
  <2>3. QED
    BY <1>1, <2>2 DEF IInv, OneAdds
<1>2. ASSUME NEW s \in Slots, request'[s].at \in Adding
      PROVE  member'[request'[s].on] = "none"
  BY <1>2 DEF IInv, OneAdds, Moves, Adding
<1>3. QED
  BY <1>1, <1>2 DEF OneAdds

\* The unique key, at the INSERT.
LEMMA AddMemberInv ==
    ASSUME IInv, NEW q \in Slots, AddMember(q) PROVE IInv'
<1>0. PICK p \in People : p = request[q].on
  BY DEF AddMember, At, IInv, Targets, Inviting
<1>1. request[q].at \in {"free", "stub free"} /\ UNCHANGED <<stores, history>>
  BY DEF AddMember, At
<1>2. request[q].role \in Roles
  BY <1>1 DEF IInv, Targets, Inviting
<1>3. TypeOK' /\ Moves(q)
  <2>1. Moves(q)
    BY DoneMoves, GoMoves DEF AddMember, IInv, States
  <2>2. QED
    BY <1>1, <2>1 DEF IInv, TypeOK, Moves, stores, history
<1>4. CASE member[p] # "none"
  <2>1. request'[q].at = "idle"
    BY <1>0, <1>4, DoneMoves DEF AddMember, IInv
  <2>2. Targets' /\ OneAdds' /\ InvitedOnce'
    BY <1>1, <1>3, <2>1, MembersKept DEF stores, history, Mailed, Adding, Inviting
  <2>3. PlanWithin' /\ ReadWithin' /\ Room'
    BY <1>1, <1>3, <2>1, ProjectsKept DEF stores, history
  <2>4. QED
    BY <1>3, <2>2, <2>3 DEF IInv
<1>5. CASE member[p] = "none"
  <2>1. /\ request'[q].at \in {"added", "stub added"}
        /\ request'[q].on = p /\ request'[q].role = request[q].role
    BY <1>0, <1>5, GoMoves DEF AddMember, IInv, States
  <2>2. \A s \in Slots : ~(request[s].on = p /\ request[s].at \in Adding)
    BY <1>0 DEF AddMember, InTheWay, At, Adding
  <2>3. Targets'
    BY <1>1, <1>2, <1>3, <2>1 DEF IInv, Targets, Moves, stores
  <2>4. OneAdds'
    BY <1>0, <1>1, <1>3, <1>5, <2>1, <2>2, StillOne DEF stores
  <2>5. \A x \in People : Mailing(x)' = Mailing(x)
    BY <1>1, <1>3, <2>1 DEF Mailing, InTheWay, At, Moves
  <2>6. InvitedOnce'
    BY <1>1, <2>5 DEF IInv, InvitedOnce, stores, history
  <2>7. PlanWithin' /\ ReadWithin' /\ Room'
    BY <1>1, <1>3, <2>1, ProjectsKept DEF stores, history
  <2>8. QED
    BY <1>3, <2>3, <2>4, <2>6, <2>7 DEF IInv
<1>6. QED
  BY <1>4, <1>5

\* Whoever is about to mail, or has mailed and not committed, is the only one.
LEMMA OnlyOneMails ==
    ASSUME IInv, NEW q \in Slots, request[q].at \in Adding
    PROVE  /\ request[q].on \in People
           /\ Mailing(request[q].on) = IF request[q].at \in Mailed THEN {q} ELSE {}
           /\ member[request[q].on] = "none"
BY DEF IInv, OneAdds, Targets, Mailing, InTheWay, At, Adding, Mailed, Inviting

LEMMA MailInv ==
    ASSUME IInv, NEW q \in Slots, Mail(q) PROVE IInv'
<1>1. PICK p \in People : p = request[q].on
  BY OnlyOneMails DEF Mail, At, Adding
<1>2. /\ request[q].at \in {"added", "stub added"} /\ UNCHANGED <<stores, lost, best>>
      /\ mails' = [mails EXCEPT ![p] = mails[p] + 1]
  BY <1>1 DEF Mail, At
<1>3. Mailing(p) = {} /\ member[p] = "none" /\ request[q].role \in Roles
  BY <1>1, <1>2, OnlyOneMails DEF Adding, Mailed, IInv, Targets, Inviting
<1>4. /\ Moves(q) /\ request'[q].at \in Mailed
      /\ request'[q].on = p /\ request'[q].role = request[q].role
  BY <1>1, GoMoves DEF Mail, IInv, States, Mailed
<1>5. /\ mails' \in [People -> Nat] /\ mails'[p] = mails[p] + 1
      /\ \A x \in People \ {p} : mails'[x] = mails[x]
  <2>1. mails \in [People -> Nat]
    BY DEF IInv, TypeOK
  <2>2. mails' = [mails EXCEPT ![p] = mails[p] + 1]
    BY <1>2
  <2>3. QED
    BY <2>1, <2>2
<1>6. TypeOK'
  BY <1>2, <1>4, <1>5 DEF IInv, TypeOK, Moves, stores
<1>7. Targets'
  BY <1>2, <1>3, <1>4 DEF IInv, Targets, Moves, Mailed, stores
<1>8. OneAdds'
  <2>1. \A s \in Slots \ {q} : ~(request[s].at \in Adding /\ request[s].on = p)
    BY <1>1, <1>2 DEF IInv, OneAdds, Adding
  <2>2. QED
    BY <1>1, <1>2, <1>3, <1>4, <2>1, StillOne DEF stores
<1>9. InvitedOnce'
  <2>1. Mailing(p)' = {q}
    <3>1. \A s \in Slots \ {q} : ~(request[s].on = p /\ request[s].at \in Mailed)
      BY <1>3 DEF Mailing, InTheWay, At, Mailed
    <3>2. \A s \in Slots \ {q} : ~(request'[s].on = p /\ request'[s].at \in Mailed)
      BY <1>4, <3>1 DEF Moves
    <3>3. QED
      BY <1>4, <3>2 DEF Mailing, InTheWay, At, Mailed
  <2>2. Cardinality({q}) = 1 /\ Cardinality({}) = 0
    BY FS_Singleton, FS_EmptySet
  <2>3. mails[p] = lost[p]
    <3>1. mails[p] = lost[p] + Cardinality(Mailing(p)) + (IF member[p] = "none" THEN 0 ELSE 1)
      BY <1>1 DEF IInv, InvitedOnce
    <3>2. lost[p] \in Nat
      BY <1>1 DEF IInv, TypeOK
    <3>3. QED
      BY ONLY <1>3, <2>2, <3>1, <3>2
  <2>4. mails'[p] = lost'[p] + Cardinality(Mailing(p)')
                        + (IF member'[p] = "none" THEN 0 ELSE 1)
    <3>1. lost'[p] = lost[p] /\ lost[p] \in Nat /\ member'[p] = "none"
      BY <1>2, <1>3 DEF IInv, TypeOK, stores
    <3>2. QED
      BY <1>5, <2>1, <2>2, <2>3, <3>1
  <2>5. QED
    BY <1>1, <1>2, <1>4, <1>5, <2>4, OnePersonsBooks DEF IInv, stores
<1>10. PlanWithin' /\ ReadWithin' /\ Room'
  BY <1>2, <1>4, ProjectsKept DEF stores, Mailed
<1>11. QED
  BY <1>6, <1>7, <1>8, <1>9, <1>10 DEF IInv

LEMMA CommitInviteInv ==
    ASSUME IInv, NEW q \in Slots, CommitInvite(q)
    PROVE  IInv' /\ \A x \in People : member[x] = "removed" => member'[x] = "removed"
<1>1. PICK p \in People : p = request[q].on
  BY OnlyOneMails DEF CommitInvite, At, Adding
<1>2. /\ request[q].at \in Mailed /\ request'[q].at = "idle" /\ Moves(q)
      /\ user' = user \cup {p} /\ member' = [member EXCEPT ![p] = "active"]
      /\ role' = [role EXCEPT ![p] = request[q].role]
      /\ UNCHANGED <<fresh, plan, history>>
  BY <1>1, DoneMoves DEF CommitInvite, At, Mailed, IInv
<1>3. Mailing(p) = {q} /\ member[p] = "none" /\ request[q].role \in Roles
  BY <1>1, <1>2, OnlyOneMails DEF Adding, Mailed, IInv, Targets, Inviting
<1>4. /\ member' \in [People -> {"none", "active", "removed"}] /\ member'[p] = "active"
      /\ \A x \in People \ {p} : member'[x] = member[x]
  BY <1>2 DEF IInv, TypeOK
<1>5. TypeOK'
  BY <1>2, <1>3, <1>4 DEF IInv, TypeOK, Moves, history
<1>6. Targets'
  <2>1. SUFFICES ASSUME NEW s \in Slots
                 PROVE  /\ request'[s].at \in Inviting =>
                                request'[s].on \in People /\ request'[s].role \in Roles
                        /\ request'[s].at \in {"changing", "removing"} =>
                                request'[s].on \in People /\ member'[request'[s].on] # "none"
    BY DEF Targets
  <2>2. CASE s = q
    BY <1>2, <2>2 DEF Inviting, Adding
  <2>3. CASE s # q
    <3>1. request'[s] = request[s]
      BY <1>2, <2>3 DEF Moves
    <3>2. /\ request[s].at \in Inviting => request[s].on \in People /\ request[s].role \in Roles
          /\ request[s].at \in {"changing", "removing"} =>
                 request[s].on \in People /\ member[request[s].on] # "none"
      BY DEF IInv, Targets
    <3>3. \A x \in People : member[x] # "none" => member'[x] # "none"
      BY <1>4
    <3>4. QED
      BY <3>1, <3>2, <3>3
  <2>4. QED
    BY <2>2, <2>3
<1>7. OneAdds'
  <2>1. \A s \in Slots \ {q} : request[s].at \in Adding => request[s].on # p
    BY <1>1, <1>2 DEF IInv, OneAdds, Adding, Mailed
  <2>2. \A s \in Slots : request[s].at \in Adding => request[s].on \in People
    BY DEF IInv, Targets, Inviting
  <2>3. QED
    BY <1>2, <1>4, <2>1, <2>2, OneLess
<1>8. InvitedOnce'
  <2>1. Mailing(p)' = {}
    BY <1>2, <1>3 DEF Mailing, InTheWay, At, Moves
  <2>2. Cardinality({q}) = 1 /\ Cardinality({}) = 0
    BY FS_Singleton, FS_EmptySet
  <2>3. mails[p] = lost[p] + 1
    BY <1>3, <2>2 DEF IInv, InvitedOnce, TypeOK
  <2>4. mails'[p] = lost'[p] + Cardinality(Mailing(p)')
                        + (IF member'[p] = "none" THEN 0 ELSE 1)
    BY <1>2, <1>4, <2>1, <2>2, <2>3 DEF IInv, TypeOK, history
  <2>5. QED
    BY <1>1, <1>2, <1>4, <2>4, OnePersonsBooks DEF IInv, history, Mailed
<1>9. PlanWithin' /\ ReadWithin' /\ Room'
  BY <1>2, ProjectsKept DEF history
<1>10. \A x \in People : member[x] = "removed" => member'[x] = "removed"
  BY <1>3, <1>4
<1>11. QED
  BY <1>5, <1>6, <1>7, <1>8, <1>9, <1>10 DEF IInv

\* An invitation that fails after its email counts as lost.
LEMMA AbortInviteInv ==
    ASSUME IInv, NEW q \in Slots, AbortInvite(q) PROVE IInv'
<1>1. /\ request[q].at \in Inviting /\ request'[q].at = "idle" /\ Moves(q)
      /\ UNCHANGED <<stores, mails, best>>
  BY DoneMoves DEF AbortInvite, At, Inviting, Adding, IInv
<1>2. PICK p \in People : p = request[q].on
  BY <1>1 DEF IInv, Targets
<1>3. PlanWithin' /\ ReadWithin' /\ Room'
  BY <1>1, ProjectsKept DEF stores
<1>4. CASE request[q].at \notin Mailed
  <2>1. lost' = lost
    BY <1>4 DEF AbortInvite, At, Mailed
  <2>2. TypeOK'
    BY <1>1, <2>1 DEF IInv, TypeOK, Moves, stores
  <2>3. Targets' /\ OneAdds' /\ InvitedOnce'
    BY <1>1, <1>4, <2>1, MembersKept DEF stores, Adding, Inviting
  <2>4. QED
    BY <1>3, <2>2, <2>3 DEF IInv
<1>5. CASE request[q].at \in Mailed
  <2>1. lost' = [lost EXCEPT ![p] = lost[p] + 1]
    BY <1>2, <1>5 DEF AbortInvite, At, Mailed
  <2>2. /\ lost' \in [People -> Nat] /\ lost'[p] = lost[p] + 1
        /\ \A x \in People \ {p} : lost'[x] = lost[x]
    BY <2>1 DEF IInv, TypeOK
  <2>3. TypeOK'
    BY <1>1, <2>2 DEF IInv, TypeOK, Moves, stores
  <2>4. Mailing(p) = {q}
    BY <1>2, <1>5, OnlyOneMails DEF Adding, Mailed
  <2>5. Mailing(p)' = {}
    BY <1>1, <2>4 DEF Mailing, InTheWay, At, Moves
  <2>6. Cardinality({q}) = 1 /\ Cardinality({}) = 0
    BY FS_Singleton, FS_EmptySet
  <2>7. mails[p] = lost[p] + 1 + (IF member[p] = "none" THEN 0 ELSE 1)
    BY <2>4, <2>6 DEF IInv, InvitedOnce, TypeOK
  <2>8. mails'[p] = lost'[p] + Cardinality(Mailing(p)')
                        + (IF member'[p] = "none" THEN 0 ELSE 1)
    BY <1>1, <2>2, <2>5, <2>6, <2>7 DEF IInv, TypeOK, stores
  <2>9. InvitedOnce'
    BY <1>1, <1>2, <2>2, <2>8, OnePersonsBooks DEF IInv, stores, Mailed
  <2>10. Targets' /\ OneAdds'
    BY <1>1, OneLess DEF IInv, Targets, Moves, stores, Adding, Inviting
  <2>11. QED
    BY <1>3, <2>3, <2>9, <2>10 DEF IInv
<1>6. QED
  BY <1>4, <1>5

-----------------------------------------------------------------------------
LEMMA FindInv ==
    ASSUME IInv, NEW q \in Slots, NEW p \in People, NEW to \in {"changing", "removing"},
           Find(q, p, to)
    PROVE  IInv'
<1> DEFINE n == [Idle EXCEPT !.at = to, !.on = p, !.loaded = member[p]]
<1>1. n \in RequestType /\ n.at = to /\ n.on = p
  BY DEF Idle, RequestType, States, IInv, TypeOK
<1>2. Begin(q, n) /\ member[p] # "none" /\ UNCHANGED <<stores, history>>
  BY DEF Find
<1> HIDE DEF n
<1>3. Moves(q) /\ request[q].at = "idle" /\ request'[q] = n
  BY <1>1, <1>2, BeginMoves DEF IInv
<1>4. TypeOK'
  BY <1>2, <1>3 DEF IInv, TypeOK, Moves, stores, history
<1>5. Targets' /\ OneAdds' /\ InvitedOnce'
  BY <1>1, <1>2, <1>3, MembersKept DEF stores, history, Mailed, Adding, Inviting
<1>6. PlanWithin' /\ ReadWithin' /\ Room'
  BY <1>1, <1>2, <1>3, ProjectsKept DEF stores, history
<1>7. QED
  BY <1>4, <1>5, <1>6 DEF IInv

LEMMA ChangeRoleInv ==
    ASSUME IInv, NEW q \in Slots, NEW r \in Roles, ChangeRole(q, r) PROVE IInv'
<1>1. /\ request[q].at = "changing" /\ request'[q].at = "idle" /\ Moves(q)
      /\ role' = [role EXCEPT ![request[q].on] = r]
      /\ UNCHANGED <<user, member, fresh, plan, history>>
  BY DoneMoves DEF ChangeRole, At, IInv
<1>2. role' \in [People -> Roles \cup {Nobody}]
  BY <1>1 DEF IInv, TypeOK
<1>3. TypeOK'
  BY <1>1, <1>2 DEF IInv, TypeOK, Moves, history
<1>4. Targets' /\ OneAdds' /\ InvitedOnce'
  BY <1>1, MembersKept DEF history, Mailed, Adding, Inviting
<1>5. PlanWithin' /\ ReadWithin' /\ Room'
  BY <1>1, ProjectsKept DEF history
<1>6. QED
  BY <1>3, <1>4, <1>5 DEF IInv

\* Who is removed had been a member, so nobody is inserting one for them.
LEMMA RemoveInv ==
    ASSUME IInv, NEW q \in Slots, Remove(q)
    PROVE  IInv' /\ \A x \in People : member[x] = "removed" => member'[x] = "removed"
<1>1. request[q].at = "removing" /\ request'[q].at = "idle" /\ Moves(q)
  BY DoneMoves DEF Remove, At, IInv
<1>2. PICK p \in People : p = request[q].on /\ member[p] # "none"
  BY <1>1 DEF IInv, Targets
<1>3. /\ member' = [member EXCEPT ![p] = "removed"]
      /\ UNCHANGED <<user, role, fresh, plan, history>>
  BY <1>2 DEF Remove
<1>4. /\ member' \in [People -> {"none", "active", "removed"}] /\ member'[p] = "removed"
      /\ \A x \in People \ {p} : member'[x] = member[x]
  BY <1>3 DEF IInv, TypeOK
<1>5. TypeOK'
  BY <1>1, <1>3, <1>4 DEF IInv, TypeOK, Moves, history
<1>6. Targets'
  <2>1. SUFFICES ASSUME NEW s \in Slots
                 PROVE  /\ request'[s].at \in Inviting =>
                                request'[s].on \in People /\ request'[s].role \in Roles
                        /\ request'[s].at \in {"changing", "removing"} =>
                                request'[s].on \in People /\ member'[request'[s].on] # "none"
    BY DEF Targets
  <2>2. CASE s = q
    BY <1>1, <2>2 DEF Inviting, Adding
  <2>3. CASE s # q
    <3>1. request'[s] = request[s]
      BY <1>1, <2>3 DEF Moves
    <3>2. /\ request[s].at \in Inviting => request[s].on \in People /\ request[s].role \in Roles
          /\ request[s].at \in {"changing", "removing"} =>
                 request[s].on \in People /\ member[request[s].on] # "none"
      BY DEF IInv, Targets
    <3>3. \A x \in People : member[x] # "none" => member'[x] # "none"
      BY <1>4
    <3>4. QED
      BY <3>1, <3>2, <3>3
  <2>4. QED
    BY <2>2, <2>3
<1>7. OneAdds'
  <2>1. \A s \in Slots : request[s].at \in Adding => request[s].on \in People \ {p}
    BY <1>2 DEF IInv, OneAdds, Targets, Inviting
  <2>2. QED
    BY <1>1, <1>4, <2>1, OneLess
<1>8. InvitedOnce'
  <2>1. Mailing(p)' = Mailing(p)
    <3>1. \A s \in Slots : (s \in Mailing(p))' <=> s \in Mailing(p)
      BY <1>1 DEF Mailing, InTheWay, At, Moves
    <3>2. QED
      BY <3>1 DEF Mailing, InTheWay
  <2>2. mails'[p] = lost'[p] + Cardinality(Mailing(p)')
                        + (IF member'[p] = "none" THEN 0 ELSE 1)
    BY <1>2, <1>3, <1>4, <2>1 DEF IInv, InvitedOnce, history
  <2>3. QED
    BY <1>1, <1>2, <1>3, <1>4, <2>2, OnePersonsBooks DEF IInv, history, Mailed
<1>9. PlanWithin' /\ ReadWithin' /\ Room'
  BY <1>1, <1>3, ProjectsKept DEF history
<1>10. QED
  BY <1>4, <1>5, <1>6, <1>7, <1>8, <1>9 DEF IInv

-----------------------------------------------------------------------------
LEMMA ReadPlanInv ==
    ASSUME IInv, NEW q \in Slots, ReadPlan(q) PROVE IInv'
<1> DEFINE n == [Idle EXCEPT !.at = "planned", !.quota = Limit[plan]]
<1>1. n \in RequestType /\ n.at = "planned" /\ n.quota = Limit[plan]
  <2>1. Limit[plan] \in Nat \cup {-1}
    BY PlansAssumption DEF IInv, TypeOK
  <2>2. QED
    BY <2>1 DEF Idle, RequestType, States
<1>2. Begin(q, n) /\ UNCHANGED <<stores, history>>
  BY DEF ReadPlan
<1> HIDE DEF n
<1>3. Moves(q) /\ request[q].at = "idle" /\ request'[q] = n
  BY <1>1, <1>2, BeginMoves DEF IInv
<1>4. TypeOK'
  BY <1>2, <1>3 DEF IInv, TypeOK, Moves, stores, history
<1>5. Targets' /\ OneAdds' /\ InvitedOnce'
  BY <1>1, <1>2, <1>3, MembersKept DEF stores, history, Mailed, Adding, Inviting
<1>6. PlanWithin' /\ ReadWithin'
  BY <1>1, <1>2, <1>3 DEF IInv, PlanWithin, ReadWithin, Moves, stores, history
<1>7. Counted' = Counted
  BY <1>1, <1>3 DEF Counted, Moves
<1>8. Room'
  BY <1>2, <1>7 DEF IInv, Room, stores, history
<1>9. QED
  BY <1>4, <1>5, <1>6, <1>8 DEF IInv

\* There is room for one more than has been counted, and then at most as many
\* more as there are slots.
LEMMA CountInv ==
    ASSUME IInv, NEW q \in Slots, Count(q) PROVE IInv'
<1>1. /\ request[q].at = "planned" /\ UNCHANGED <<stores, history>>
      /\ Moves(q) /\ request'[q].at \in {"idle", "counted"}
  BY DoneMoves, GoMoves DEF Count, At, IInv, States
<1>2. TypeOK'
  BY <1>1 DEF IInv, TypeOK, Moves, stores, history
<1>3. Targets' /\ OneAdds' /\ InvitedOnce'
  BY <1>1, MembersKept DEF stores, history, Mailed, Adding, Inviting
<1>4. PlanWithin' /\ ReadWithin'
  BY <1>1 DEF IInv, PlanWithin, ReadWithin, Moves, stores, history
<1>5. CASE request'[q].at = "idle"
  BY <1>1, <1>2, <1>3, <1>5, ProjectsKept DEF stores, history, IInv
<1>6. CASE request'[q].at = "counted" /\ request[q].born = "last"
  <2>1. request'[q].born = "last"
    BY <1>6, DoneMoves, GoMoves DEF Count, At, IInv, States
  <2>2. Counted' = Counted
    BY <1>1, <1>6, <2>1 DEF Counted, Moves
  <2>3. Room'
    BY <1>1, <2>2 DEF IInv, Room, stores, history
  <2>4. QED
    BY <1>2, <1>3, <1>4, <2>3 DEF IInv
<1>7. CASE request'[q].at = "counted" /\ request[q].born = "this"
  <2>1. ~(request[q].quota # -1 /\ Cardinality(fresh) >= request[q].quota)
    BY <1>7, DoneMoves DEF Count, IInv
  <2>2. best # -1 => Cardinality(fresh) < best
    <3>1. request[q] \in RequestType /\ best \in Int /\ Cardinality(fresh) \in Nat
      BY FiniteSlots DEF IInv, TypeOK
    <3>2. best # -1 => request[q].quota # -1 /\ request[q].quota <= best
      BY <1>1, <1>7 DEF IInv, ReadWithin
    <3>3. request[q].quota \in Int
      BY <3>1 DEF RequestType
    <3>4. QED
      BY <2>1, <3>1, <3>2, <3>3
  <2>3. Cardinality(Counted') \in Nat /\ Cardinality(Counted') <= Cardinality(Slots)
    <3>1. Counted' \subseteq Slots
      BY DEF Counted
    <3>2. QED
      BY <3>1, FiniteSlots
  <2>4. Cardinality(fresh) \in Nat /\ Cardinality(Slots) \in Nat /\ best \in Int
    BY FiniteSlots DEF IInv, TypeOK
  <2>5. Room'
    BY <1>1, <2>2, <2>3, <2>4 DEF Room, stores, history
  <2>6. QED
    BY <1>2, <1>3, <1>4, <2>5 DEF IInv
<1>8. QED
  <2>1. request[q].born \in {"this", "last"}
    BY DEF IInv, TypeOK, RequestType
  <2>2. QED
    BY <1>1, <1>5, <1>6, <1>7, <2>1

\* One project more, one request less.
LEMMA CommitProjectInv ==
    ASSUME IInv, NEW q \in Slots, CommitProject(q) PROVE IInv'
<1>1. /\ request[q].at = "counted" /\ Moves(q) /\ request'[q].at = "idle"
      /\ UNCHANGED <<user, member, role, plan, history>>
  BY DoneMoves DEF CommitProject, At, IInv
<1>2. fresh' \subseteq Projects
  BY DEF CommitProject, IInv, TypeOK
<1>3. TypeOK'
  BY <1>1, <1>2 DEF IInv, TypeOK, Moves, history
<1>4. Targets' /\ OneAdds' /\ InvitedOnce'
  BY <1>1, MembersKept DEF history, Mailed, Adding, Inviting
<1>5. PlanWithin' /\ ReadWithin'
  BY <1>1 DEF IInv, PlanWithin, ReadWithin, Moves, history
<1>6. CASE request[q].born # "this"
  BY <1>1, <1>3, <1>4, <1>6, ProjectsKept DEF CommitProject, history, IInv
<1>7. CASE request[q].born = "this"
  <2>1. PICK x \in Projects \ fresh : fresh' = fresh \cup {x}
    BY <1>7 DEF CommitProject
  <2>2. Counted' = Counted \ {q} /\ q \in Counted
    BY <1>1, <1>7 DEF Counted, Moves
  <2>3. Counted \in SUBSET Slots /\ fresh \in SUBSET Projects
    BY DEF Counted, IInv, TypeOK
  <2>4. Cardinality(Counted') = Cardinality(Counted) - 1
    BY <2>2, <2>3, FiniteSlots, FS_RemoveElement
  <2>5. Cardinality(fresh') = Cardinality(fresh) + 1
    BY <2>1, <2>3, FiniteSlots, FS_AddElement
  <2>6. Cardinality(Counted) \in Nat /\ Cardinality(fresh) \in Nat /\ best \in Int
    BY <2>3, FiniteSlots DEF IInv, TypeOK
  <2>7. Room'
    BY <1>1, <2>4, <2>5, <2>6, FiniteSlots DEF IInv, Room, history
  <2>8. QED
    BY <1>3, <1>4, <1>5, <2>7 DEF IInv
<1>8. QED
  BY <1>6, <1>7

LEMMA FindProjectInv ==
    ASSUME IInv, NEW q \in Slots, NEW x \in Projects, FindProject(q, x) PROVE IInv'
<1> DEFINE n == [Idle EXCEPT !.at = "deleting", !.on = x]
<1>1. n \in RequestType /\ n.at = "deleting"
  BY DEF Idle, RequestType, States
<1>2. Begin(q, n) /\ UNCHANGED <<stores, history>>
  BY DEF FindProject
<1> HIDE DEF n
<1>3. Moves(q) /\ request[q].at = "idle" /\ request'[q] = n
  BY <1>1, <1>2, BeginMoves DEF IInv
<1>4. TypeOK'
  BY <1>2, <1>3 DEF IInv, TypeOK, Moves, stores, history
<1>5. Targets' /\ OneAdds' /\ InvitedOnce'
  BY <1>1, <1>2, <1>3, MembersKept DEF stores, history, Mailed, Adding, Inviting
<1>6. PlanWithin' /\ ReadWithin' /\ Room'
  BY <1>1, <1>2, <1>3, ProjectsKept DEF stores, history
<1>7. QED
  BY <1>4, <1>5, <1>6 DEF IInv

LEMMA DeleteProjectInv ==
    ASSUME IInv, NEW q \in Slots, DeleteProject(q) PROVE IInv'
<1>1. /\ request[q].at = "deleting" /\ Moves(q) /\ request'[q].at = "idle"
      /\ fresh' \subseteq fresh /\ UNCHANGED <<user, member, role, plan, history>>
  BY DoneMoves DEF DeleteProject, At, IInv
<1>2. TypeOK'
  BY <1>1 DEF IInv, TypeOK, Moves, history
<1>3. Targets' /\ OneAdds' /\ InvitedOnce'
  BY <1>1, MembersKept DEF history, Mailed, Adding, Inviting
<1>4. PlanWithin' /\ ReadWithin'
  BY <1>1 DEF IInv, PlanWithin, ReadWithin, Moves, history
<1>5. Counted' = Counted
  BY <1>1 DEF Counted, Moves
<1>6. /\ Cardinality(fresh') \in Nat /\ Cardinality(fresh) \in Nat
      /\ Cardinality(fresh') <= Cardinality(fresh)
  BY <1>1, FiniteSlots, FS_Subset DEF IInv, TypeOK
<1>7. Cardinality(Counted) \in Nat /\ Cardinality(Slots) \in Nat /\ best \in Int
  <2>1. Counted \in SUBSET Slots
    BY DEF Counted
  <2>2. QED
    BY <2>1, FiniteSlots DEF IInv, TypeOK
<1>8. Room'
  BY <1>1, <1>5, <1>6, <1>7 DEF IInv, Room, history
<1>9. QED
  BY <1>2, <1>3, <1>4, <1>8 DEF IInv

LEMMA AbortOtherInv ==
    ASSUME IInv, NEW q \in Slots, AbortOther(q) PROVE IInv'
<1>1. /\ request[q].at \notin Mailed /\ Moves(q) /\ request'[q].at = "idle"
      /\ UNCHANGED <<stores, history>>
  BY DoneMoves DEF AbortOther, At, IInv, Mailed
<1>2. TypeOK'
  BY <1>1 DEF IInv, TypeOK, Moves, stores, history
<1>3. Targets' /\ OneAdds' /\ InvitedOnce'
  BY <1>1, MembersKept DEF stores, history, Mailed, Adding, Inviting
<1>4. PlanWithin' /\ ReadWithin' /\ Room'
  BY <1>1, ProjectsKept DEF stores, history
<1>5. QED
  BY <1>2, <1>3, <1>4 DEF IInv

-----------------------------------------------------------------------------
LEMMA SubscribeInv ==
    ASSUME IInv, NEW to \in Plans, Subscribe(to) PROVE IInv'
<1>1. /\ plan' = to /\ best' = Higher(best, Limit[to])
      /\ UNCHANGED <<user, member, role, fresh, request, mails, lost>>
  BY DEF Subscribe
<1>2. Limit[to] \in (Nat \ {0}) \cup {-1} /\ best \in Nat \cup {-1}
  BY PlansAssumption DEF IInv, TypeOK
<1>3. /\ best' \in Nat \cup {-1}
      /\ best' # -1 => best # -1 /\ best <= best' /\ Limit[to] # -1 /\ Limit[to] <= best'
  BY <1>1, <1>2 DEF Higher
<1>4. TypeOK'
  BY <1>1, <1>3 DEF IInv, TypeOK
<1>5. Targets' /\ OneAdds'
  BY <1>1 DEF IInv, Targets, OneAdds
<1>6. InvitedOnce'
  <2>1. ASSUME NEW p \in People PROVE Mailing(p)' = Mailing(p)
    BY <1>1 DEF Mailing, InTheWay, At
  <2>2. QED
    BY <1>1, <2>1 DEF IInv, InvitedOnce
<1>7. PlanWithin'
  BY <1>1, <1>2, <1>3 DEF IInv, PlanWithin
<1>8. ReadWithin'
  <2>1. \A q \in Slots : request[q].quota \in Int
    BY DEF IInv, TypeOK, RequestType
  <2>2. QED
    BY <1>1, <1>2, <1>3, <2>1 DEF IInv, ReadWithin
<1>9. Room'
  <2>1. Counted' = Counted /\ Counted \in SUBSET Slots /\ fresh \in SUBSET Projects
    BY <1>1 DEF Counted, IInv, TypeOK
  <2>2. /\ Cardinality(Counted) \in Nat /\ Cardinality(fresh) \in Nat
        /\ Cardinality(Slots) \in Nat
    BY <2>1, FiniteSlots
  <2>3. QED
    BY <1>1, <1>2, <1>3, <2>1, <2>2 DEF IInv, Room
<1>10. QED
  BY <1>4, <1>5, <1>6, <1>7, <1>8, <1>9 DEF IInv

\* Whoever is under way belongs to last month and takes none of the new places.
LEMMA NextMonthInv ==
    ASSUME IInv, NextMonth PROVE IInv'
<1> DEFINE n == [q \in Slots |-> IF At(q, {"idle"}) THEN Idle
                                 ELSE [request[q] EXCEPT !.born = "last"]]
<1>1. ASSUME NEW q \in Slots
      PROVE  /\ n[q] \in RequestType
             /\ n[q].at = request[q].at /\ (n[q].at # "idle" => n[q].born = "last")
             /\ request[q].at # "idle" => n[q].on = request[q].on /\ n[q].role = request[q].role
  <2>1. request[q] \in RequestType
    BY DEF IInv, TypeOK
  <2>2. CASE At(q, {"idle"})
    BY <2>2, IdleType DEF At, Idle
  <2>3. CASE ~At(q, {"idle"})
    <3> DEFINE r == [request[q] EXCEPT !.born = "last"]
    <3>1. /\ r \in RequestType /\ r.at = request[q].at /\ r.born = "last"
          /\ r.on = request[q].on /\ r.role = request[q].role
      BY <2>1 DEF RequestType
    <3>2. n[q] = r
      BY <2>3
    <3> HIDE DEF r, n
    <3>3. QED
      BY <3>1, <3>2
  <2>4. QED
    BY <2>2, <2>3
<1>2. /\ request' = n /\ fresh' = {} /\ best' = Limit[plan]
      /\ UNCHANGED <<user, member, role, plan, mails, lost>>
  BY DEF NextMonth
<1>3. n = [q \in Slots |-> n[q]]
  OBVIOUS
<1> HIDE DEF n
<1>4. /\ request' \in [Slots -> RequestType]
      /\ \A q \in Slots :
            /\ request'[q].at = request[q].at
            /\ request'[q].at # "idle" => request'[q].born = "last"
            /\ request[q].at # "idle" => /\ request'[q].on = request[q].on
                                         /\ request'[q].role = request[q].role
  BY <1>1, <1>2, <1>3
<1>5. Limit[plan] \in (Nat \ {0}) \cup {-1}
  BY PlansAssumption DEF IInv, TypeOK
<1>6. TypeOK'
  BY <1>2, <1>4, <1>5 DEF IInv, TypeOK
<1>7. Targets'
  BY <1>2, <1>4 DEF IInv, Targets, Inviting, Adding
<1>8. OneAdds'
  <2>1. \A q \in Slots : request'[q].at \in Adding =>
            request[q].at \in Adding /\ request'[q].on = request[q].on
    BY <1>4 DEF Adding
  <2>2. QED
    BY <1>2, <2>1 DEF IInv, OneAdds
<1>9. InvitedOnce'
  <2>1. ASSUME NEW p \in People PROVE Mailing(p)' = Mailing(p)
    BY <1>4 DEF Mailing, InTheWay, At
  <2>2. QED
    BY <1>2, <2>1 DEF IInv, InvitedOnce
<1>10. PlanWithin' /\ ReadWithin'
  BY <1>2, <1>4, <1>5 DEF PlanWithin, ReadWithin
<1>11. Room'
  <2>1. Counted' = {}
    BY <1>4 DEF Counted
  <2>2. Cardinality(Counted') = 0 /\ Cardinality(fresh') = 0
    BY <1>2, <2>1, FS_EmptySet
  <2>3. QED
    BY <1>2, <1>5, <2>2, FiniteSlots DEF Room
<1>12. QED
  BY <1>6, <1>7, <1>8, <1>9, <1>10, <1>11 DEF IInv

-----------------------------------------------------------------------------
LEMMA NextInv ==
    ASSUME IInv, [Next]_vars
    PROVE  IInv' /\ \A x \in People : member[x] = "removed" => member'[x] = "removed"
<1> DEFINE Stays == \A x \in People : member[x] = "removed" => member'[x] = "removed"
<1>1. ASSUME NEW q \in Slots, NEW p \in People, NEW r \in Roles, FindUser(q, p, r)
      PROVE  IInv' /\ Stays
  BY <1>1, FindUserInv DEF FindUser, stores
<1>2. ASSUME NEW q \in Slots,
             \/ StubUser(q) \/ FindMember(q) \/ AddMember(q) \/ Mail(q) \/ AbortInvite(q)
      PROVE  IInv' /\ Stays
  BY <1>2, StubUserInv, FindMemberInv, AddMemberInv, MailInv, AbortInviteInv
     DEF StubUser, FindMember, AddMember, Mail, AbortInvite, stores
<1>3. ASSUME NEW q \in Slots, CommitInvite(q) \/ Remove(q)
      PROVE  IInv' /\ Stays
  <2>1. CASE CommitInvite(q)
    BY <2>1, CommitInviteInv
  <2>2. CASE Remove(q)
    BY <2>2, RemoveInv
  <2>3. QED
    BY <1>3, <2>1, <2>2
<1>4. ASSUME NEW q \in Slots, NEW p \in People, Find(q, p, "changing") \/ Find(q, p, "removing")
      PROVE  IInv' /\ Stays
  BY <1>4, FindInv DEF Find, stores
<1>5. ASSUME NEW q \in Slots, NEW r \in Roles, ChangeRole(q, r)
      PROVE  IInv' /\ Stays
  BY <1>5, ChangeRoleInv DEF ChangeRole
<1>6. ASSUME NEW q \in Slots,
             ReadPlan(q) \/ Count(q) \/ CommitProject(q) \/ DeleteProject(q) \/ AbortOther(q)
      PROVE  IInv' /\ Stays
  BY <1>6, ReadPlanInv, CountInv, CommitProjectInv, DeleteProjectInv, AbortOtherInv
     DEF ReadPlan, Count, CommitProject, DeleteProject, AbortOther, stores
<1>7. ASSUME NEW q \in Slots, NEW x \in Projects, FindProject(q, x)
      PROVE  IInv' /\ Stays
  BY <1>7, FindProjectInv DEF FindProject, stores
<1>8. ASSUME NEW to \in Plans, Subscribe(to)
      PROVE  IInv' /\ Stays
  BY <1>8, SubscribeInv DEF Subscribe
<1>9. CASE NextMonth
  BY <1>9, NextMonthInv DEF NextMonth
<1>10. CASE UNCHANGED vars
  <2>1. /\ UNCHANGED <<user, member, role, fresh, plan, request, mails, lost, best>>
    BY <1>10 DEF vars, stores, history
  <2>2. \A p \in People : Mailing(p)' = Mailing(p)
    BY <2>1 DEF Mailing, InTheWay, At
  <2>3. InvitedOnce'
    BY <2>1, <2>2 DEF IInv, InvitedOnce
  <2>4. TypeOK' /\ Targets' /\ OneAdds'
    BY <2>1 DEF IInv, TypeOK, Targets, OneAdds
  <2>5. PlanWithin' /\ ReadWithin'
    BY <2>1 DEF IInv, PlanWithin, ReadWithin
  <2>6. Room'
    BY <2>1 DEF IInv, Room, Counted
  <2>7. QED
    BY <2>1, <2>3, <2>4, <2>5, <2>6 DEF IInv
<1>11. QED
  BY <1>1, <1>2, <1>3, <1>4, <1>5, <1>6, <1>7, <1>8, <1>9, <1>10 DEF Next

THEOREM Invariant == Spec => []IInv
<1>1. Init => IInv
  BY InitInv
<1>2. IInv /\ [Next]_vars => IInv'
  BY NextInv
<1>3. QED
  BY <1>1, <1>2, PTL DEF Spec

\* Every variable of Tenancy has its type.
THEOREM TypeCorrect == Spec => []TypeOK
<1>1. IInv => TypeOK
  BY DEF IInv
<1>2. QED
  BY <1>1, Invariant, PTL

\* However many invitations of a person run at once and fail where they may,
\* one email goes out for the membership and one for each that failed after it.
THEOREM InvitedOnceAlways == Spec => []InvitedOnce
<1>1. IInv => InvitedOnce
  BY DEF IInv
<1>2. QED
  BY <1>1, Invariant, PTL

\* No change of role and no invitation brings a removed member back.
THEOREM RemovalSticksAlways == Spec => RemovalSticks
<1>1. IInv /\ [Next]_vars =>
          [\A p \in People : member[p] = "removed" => member'[p] = "removed"]_vars
  BY NextInv
<1>2. QED
  BY <1>1, Invariant, PTL DEF Spec, RemovalSticks

\* Concurrent creations pass the monthly limit by less than the number of
\* requests served at a time.
THEOREM QuotaHoldsAlways == Spec => []QuotaHolds
<1>1. IInv => QuotaHolds
  <2>1. Counted \in SUBSET Slots
    BY DEF Counted
  <2>2. Cardinality(Counted) \in Nat
    BY <2>1, FiniteSlots
  <2>3. ASSUME IInv PROVE Cardinality(fresh) \in Nat /\ best \in Int
    BY <2>3, FiniteSlots DEF IInv, TypeOK
  <2>4. QED
    BY <2>2, <2>3, FiniteSlots DEF IInv, Room, QuotaHolds
<1>2. QED
  BY <1>1, Invariant, PTL

=============================================================================
