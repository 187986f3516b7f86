--------------------------- MODULE Guards_proofs ---------------------------
(***************************************************************************)
(* What decides who may do something: the entitlement that a subscription  *)
(* gives (Subscriptions) and the role check in front of the management     *)
(* routes (Access), for any number of requests, subscriptions and roles.   *)
(***************************************************************************)
EXTENDS Subscriptions, Access, FiniteSetTheorems, TLAPS

(***************************************************************************)
(* Subscriptions.                                                          *)
(***************************************************************************)
SubRow == [status : {"ACTIVE", "CANCELED"}, start : Nat, end : Nat]

\* A period that has begun.
Begun(row) == row \in SubRow /\ row.start < row.end /\ row.start <= clock

SubsShape ==
  /\ clock \in Nat
  /\ subs \in [SubId -> SubRow \cup {NoSub}]
  /\ DOMAIN call = Call
  /\ \A i \in SubId : subs[i] # NoSub => Begun(subs[i])

\* What a request will write: a subscription that begins, or the end of a recalled one.
CallsFit ==
  \A c \in Call : call[c] # NoSub =>
    \/ call[c].op = "insert" /\ Begun(call[c].row) /\ call[c].row.status = "ACTIVE"
    \/ call[c].op = "cancel" /\ Begun(call[c].row) /\ call[c].id \in recalled

OneActive == \A i, j \in SubId : Active(i) /\ Active(j) => i = j

\* Only a Cancel that has found a subscription ends it.
OnlyRecalledEnd == \A i \in SubId \ recalled : subs[i] # NoSub => subs[i].status = "ACTIVE"

SubsInv == SubsShape /\ CallsFit /\ OneActive /\ OnlyRecalledEnd

\* The period of a plan has a length.
LEMMA PlanHasLength ==
  ASSUME NEW plan \in Plan, NEW start \in Nat
  PROVE  PeriodEnd(plan, start) \in Nat /\ start < PeriodEnd(plan, start)
<1>1. plan.interval \in {"MONTH", "YEAR"}
  BY SubscriptionsAssumption
<1>2. Length[plan.interval] \in Nat \ {0}
  BY <1>1, SubscriptionsAssumption
<1> QED  BY <1>2 DEF PeriodEnd

LEMMA InitSubsInv ==
  SubscriptionInit => SubsInv
BY DEF SubscriptionInit, SubsInv, SubsShape, CallsFit, OneActive, OnlyRecalledEnd, Active

LEMMA ChoosePlanKeeps ==
  ASSUME SubsInv, NEW c \in Call, NEW plan \in Plan, ChoosePlan(c, plan)
  PROVE  SubsInv'
<1> DEFINE row == [status |-> "ACTIVE", start |-> clock, end |-> PeriodEnd(plan, clock)]
<1>1. UNCHANGED <<subs, clock, recalled>> /\ clock \in Nat
  BY DEF ChoosePlan, SubsInv, SubsShape
<1>2. PeriodEnd(plan, clock) \in Nat /\ clock < PeriodEnd(plan, clock)
  BY <1>1, PlanHasLength
<1>3. Begun(row) /\ row.status = "ACTIVE"
  BY <1>1, <1>2 DEF Begun, SubRow
<1>4. Begun(row)' /\ row'.status = "ACTIVE" /\ row' = row
  BY <1>1, <1>3 DEF Begun, PeriodEnd
<1>5. DOMAIN call' = Call /\ call'[c] = [op |-> "insert", row |-> row]
      /\ \A d \in Call \ {c} : call'[d] = call[d]
  BY DEF ChoosePlan, SubsInv, SubsShape
<1> HIDE DEF row
<1>6. SubsShape'
  BY <1>1, <1>5 DEF SubsInv, SubsShape, Begun
<1>7. CallsFit'
  BY <1>1, <1>3, <1>5 DEF SubsInv, CallsFit, Begun
<1>8. OneActive' /\ OnlyRecalledEnd'
  BY <1>1 DEF SubsInv, OneActive, OnlyRecalledEnd, Active
<1> QED  BY <1>6, <1>7, <1>8 DEF SubsInv

LEMMA InsertSubKeeps ==
  ASSUME SubsInv, NEW c \in Call, NEW i \in SubId, InsertSub(c, i)
  PROVE  SubsInv'
<1>1. UNCHANGED <<clock, recalled>>
  BY DEF InsertSub
<1>2. DOMAIN call' = Call /\ call'[c] = NoSub /\ \A d \in Call \ {c} : call'[d] = call[d]
  BY DEF InsertSub, SubsInv, SubsShape
<1>3. Begun(call[c].row) /\ call[c].row.status = "ACTIVE"
  BY DEF InsertSub, SubsInv, CallsFit
<1>4. CallsFit'
  BY <1>1, <1>2 DEF SubsInv, CallsFit, Begun
<1>5. CASE subs' = subs
  BY <1>1, <1>2, <1>4, <1>5 DEF SubsInv, SubsShape, OneActive, OnlyRecalledEnd, Active, Begun
<1>6. CASE ActiveSubs = {} /\ subs' = [subs EXCEPT ![i] = call[c].row]
  <2>1. subs' \in [SubId -> SubRow \cup {NoSub}]
    BY <1>3, <1>6 DEF SubsInv, SubsShape, Begun
  <2>2. subs'[i] = call[c].row /\ \A j \in SubId \ {i} : subs'[j] = subs[j] /\ ~Active(j)
    BY <1>6 DEF SubsInv, SubsShape, ActiveSubs
  <2>3. SubsShape'
    BY <1>1, <1>2, <1>3, <2>1, <2>2 DEF SubsInv, SubsShape, Begun
  <2>4. OneActive'
    BY <2>2 DEF OneActive, Active
  <2>5. OnlyRecalledEnd'
    BY <1>1, <1>3, <2>2 DEF SubsInv, OnlyRecalledEnd
  <2> QED  BY <1>4, <2>3, <2>4, <2>5 DEF SubsInv
<1> QED  BY <1>5, <1>6 DEF InsertSub

LEMMA FindSubKeeps ==
  ASSUME SubsInv, NEW c \in Call, FindSub(c)
  PROVE  SubsInv'
<1>1. PICK i \in ActiveSubs :
        /\ call' = [call EXCEPT ![c] = [op |-> "cancel", id |-> i, row |-> subs[i]]]
        /\ recalled' = recalled \cup {i}
  BY DEF FindSub
<1>2. UNCHANGED <<subs, clock>>
  BY DEF FindSub
<1>3. Begun(subs[i])
  BY DEF ActiveSubs, Active, SubsInv, SubsShape
<1>4. /\ DOMAIN call' = Call /\ call'[c] = [op |-> "cancel", id |-> i, row |-> subs[i]]
      /\ \A d \in Call \ {c} : call'[d] = call[d]
  BY <1>1 DEF SubsInv, SubsShape
<1>5. SubsShape'
  BY <1>2, <1>4 DEF SubsInv, SubsShape, Begun
<1>6. CallsFit'
  BY <1>1, <1>2, <1>3, <1>4 DEF SubsInv, CallsFit, Begun
<1>7. OneActive' /\ OnlyRecalledEnd'
  BY <1>1, <1>2 DEF SubsInv, OneActive, OnlyRecalledEnd, Active
<1> QED  BY <1>5, <1>6, <1>7 DEF SubsInv

LEMMA CancelSubKeeps ==
  ASSUME SubsInv, NEW c \in Call, CancelSub(c)
  PROVE  SubsInv'
<1> PICK i, row, done :
      i = call[c].id /\ row = call[c].row /\ done = [row EXCEPT !.status = "CANCELED"]
  OBVIOUS
<1>1. UNCHANGED <<clock, recalled>>
  BY DEF CancelSub
<1>2. DOMAIN call' = Call /\ call'[c] = NoSub /\ \A d \in Call \ {c} : call'[d] = call[d]
  BY DEF CancelSub, SubsInv, SubsShape
<1>3. Begun(row) /\ i \in recalled
  BY DEF CancelSub, SubsInv, CallsFit
<1>4. done.status = "CANCELED" /\ Begun(done)
  BY <1>3 DEF Begun, SubRow
<1>5. /\ subs' \in [SubId -> SubRow \cup {NoSub}]
      /\ \A j \in SubId : subs'[j] = IF j = i THEN done ELSE subs[j]
  BY <1>4 DEF CancelSub, SubsInv, SubsShape, Begun
<1>6. SubsShape'
  BY <1>1, <1>2, <1>4, <1>5 DEF SubsInv, SubsShape, Begun
<1>7. CallsFit'
  BY <1>1, <1>2 DEF SubsInv, CallsFit, Begun
<1>8. OneActive'
  <2>1. \A j \in SubId : Active(j)' => Active(j)
    BY <1>4, <1>5 DEF Active
  <2> QED  BY <2>1 DEF SubsInv, OneActive
<1>9. OnlyRecalledEnd'
  BY <1>1, <1>3, <1>5 DEF SubsInv, OnlyRecalledEnd
<1> QED  BY <1>6, <1>7, <1>8, <1>9 DEF SubsInv

LEMMA StepKeepsSubsInv ==
  SubsInv /\ [SubscriptionNext]_subscriptionVars => SubsInv'
<1> SUFFICES ASSUME SubsInv, [SubscriptionNext]_subscriptionVars
             PROVE  SubsInv'
  OBVIOUS
<1>1. ASSUME NEW c \in Call, CallStops(c)
      PROVE  SubsInv'
  <2>1. DOMAIN call' = Call /\ call'[c] = NoSub /\ \A d \in Call \ {c} : call'[d] = call[d]
    BY <1>1 DEF CallStops, SubsInv, SubsShape
  <2>2. UNCHANGED <<subs, clock, recalled>>
    BY <1>1 DEF CallStops
  <2> QED  BY <2>1, <2>2
           DEF SubsInv, SubsShape, CallsFit, OneActive, OnlyRecalledEnd, Active, Begun
<1>2. CASE Tick
  <2>1. clock' = clock + 1 /\ clock \in Nat /\ UNCHANGED <<subs, call, recalled>>
    BY <1>2 DEF Tick, SubsInv, SubsShape
  <2>2. \A row : Begun(row) => Begun(row)'
    BY <2>1 DEF Begun, SubRow
  <2>3. SubsShape' /\ CallsFit'
    BY <2>1, <2>2 DEF SubsInv, SubsShape, CallsFit
  <2>4. OneActive' /\ OnlyRecalledEnd'
    BY <2>1 DEF SubsInv, OneActive, OnlyRecalledEnd, Active
  <2> QED  BY <2>3, <2>4 DEF SubsInv
<1>3. CASE UNCHANGED subscriptionVars
  BY <1>3 DEF subscriptionVars, SubsInv, SubsShape, CallsFit, OneActive, OnlyRecalledEnd, Active, Begun
<1> QED  BY <1>1, <1>2, <1>3, ChoosePlanKeeps, InsertSubKeeps, FindSubKeeps, CancelSubKeeps
         DEF SubscriptionNext

(***************************************************************************)
(* The inductive invariant of the subscriptions of a user.                 *)
(***************************************************************************)
THEOREM SubsInvHolds == SubscriptionSpec => []SubsInv
BY InitSubsInv, StepKeepsSubsInv, PTL DEF SubscriptionSpec

\* The rows keep their types, and a user has one ACTIVE subscription at most.
THEOREM OneSubscription == SubscriptionSpec => []SubscriptionTypeOK
<1>1. ASSUME SubsInv
      PROVE  SubscriptionTypeOK
  <2>1. \A i \in SubId : subs[i] # NoSub =>
          subs[i].status \in {"ACTIVE", "CANCELED"} /\ subs[i].start < subs[i].end
    BY <1>1 DEF SubsInv, SubsShape, Begun, SubRow
  <2>2. Cardinality(ActiveSubs) <= 1
    <3>1. CASE ActiveSubs = {}
      BY <3>1, FS_EmptySet
    <3>2. CASE ActiveSubs # {}
      <4>1. PICK i \in SubId : i \in ActiveSubs
        BY <3>2 DEF ActiveSubs
      <4>2. ActiveSubs = {i}
        BY <1>1, <4>1 DEF SubsInv, OneActive, ActiveSubs
      <4>3. Cardinality(ActiveSubs) = 1
        BY <4>2, FS_Singleton
      <4> QED  BY <4>3
    <3> QED  BY <3>1, <3>2
  <2> QED  BY <2>1, <2>2 DEF SubscriptionTypeOK
<1> QED  BY <1>1, SubsInvHolds, PTL

(***************************************************************************)
(* Access is what was bought: nobody has it outside a period, and nobody   *)
(* loses it within one except by a Cancel of that very subscription.       *)
(***************************************************************************)
THEOREM EntitlementFollowsPeriods == SubscriptionSpec => []AccessFollowsPeriods
<1>1. ASSUME SubsInv
      PROVE  AccessFollowsPeriods
  <2>1. ASSUME Entitled
        PROVE  \E i \in SubId : Covers(i)
    BY <1>1, <2>1 DEF Entitled, ActiveSubs, Active, IsEntitled, Covers, SubsInv, SubsShape, Begun
  <2>2. ASSUME NEW i \in SubId \ recalled, Covers(i)
        PROVE  Entitled
    BY <1>1, <2>2 DEF Entitled, ActiveSubs, Active, IsEntitled, Covers, SubsInv, OnlyRecalledEnd
  <2> QED  BY <2>1, <2>2 DEF AccessFollowsPeriods
<1> QED  BY <1>1, SubsInvHolds, PTL

-----------------------------------------------------------------------------
(***************************************************************************)
(* Access.                                                                 *)
(***************************************************************************)

\* An answer in hand is stored before its call times out.
InTime ==
  \A r \in Waiting : moment <= visit[r].until /\ visit[r].until <= moment + Timeout

\* entitled is this moment for who has an admitting role, and lies in the past for others.
EntitledIsPast == entitled <= moment /\ (standing \in Admitting => entitled = moment)

\* An admitting answer in hand was true at most a timeout ago ...
AnswersRecent ==
  \A r \in Waiting :
    visit[r].step = "store" /\ visit[r].role \in Admitting => visit[r].until <= entitled + Timeout

\* ... and one in the cache expires a ttl and a timeout after it was true.
EntryRecent ==
  entry # NoEntry /\ entry.role \in Admitting => entry.expiresAt <= entitled + Ttl + Timeout

AccessInv == AccessTypeOK /\ InTime /\ EntitledIsPast /\ AnswersRecent /\ EntryRecent

LEMMA InitAccessInv ==
  AccessInit => AccessInv
<1> SUFFICES ASSUME AccessInit PROVE AccessInv
  OBVIOUS
<1>1. AccessTypeOK
  BY AccessAssumption DEF AccessInit, AccessTypeOK, Moment
<1>2. Waiting = {}
  BY DEF AccessInit, Waiting
<1>3. EntitledIsPast /\ EntryRecent
  BY AccessAssumption DEF AccessInit, EntitledIsPast, EntryRecent, LongAgo
<1> QED  BY <1>1, <1>2, <1>3 DEF AccessInv, InTime, AnswersRecent

\* Numbers: what the type invariant says of times.
LEMMA AccessTimes ==
  ASSUME AccessTypeOK
  PROVE  /\ moment \in Nat /\ moment <= MaxMoment /\ entitled \in Int
         /\ Ttl \in Nat \ {0} /\ Timeout \in Nat /\ MaxMoment \in Nat
         /\ \A r \in Waiting : visit[r].until \in Nat
         /\ entry # NoEntry => entry.expiresAt \in Nat
<1>1. moment \in Nat /\ moment <= MaxMoment /\ entitled \in Int
  BY AccessAssumption DEF AccessTypeOK, Moment, LongAgo
<1>2. ASSUME NEW r \in Waiting
      PROVE  visit[r].until \in Nat
  <2>1. visit[r] \in Visiting
    BY DEF AccessTypeOK, Waiting
  <2>2. visit[r].step \in {"fetch", "store"}
    BY DEF Waiting
  <2> QED  BY <2>1, <2>2, AccessAssumption DEF Visiting
<1>3. entry # NoEntry => entry.expiresAt \in Nat
  BY AccessAssumption DEF AccessTypeOK, Entry
<1> QED  BY <1>1, <1>2, <1>3, AccessAssumption

\* A request moves on; the clock, the role and the cache stay as they are.
LEMMA VisitMovesOn ==
  ASSUME AccessInv, NEW r \in Visit, NEW v \in Visiting \cup {NoVisit},
         visit' = [visit EXCEPT ![r] = v], UNCHANGED <<moment, standing, entitled>>,
         admitted' \subseteq admitted \cup {r},
         (entry' \in Entry \cup {NoEntry}) /\ EntryRecent',
         r \in admitted' => v = [step |-> "serve"],
         v # NoVisit /\ v.step \in {"fetch", "store"} =>
           /\ moment <= v.until /\ v.until <= moment + Timeout
           /\ v.step = "store" /\ v.role \in Admitting => v.until <= entitled + Timeout
  PROVE  AccessInv'
<1>1. /\ visit' \in [Visit -> Visiting \cup {NoVisit}]
      /\ visit'[r] = v /\ \A q \in Visit \ {r} : visit'[q] = visit[q]
  BY DEF AccessInv, AccessTypeOK
<1>2. AccessTypeOK'
  BY <1>1 DEF AccessInv, AccessTypeOK, Moment, LongAgo
<1>3. ASSUME NEW q \in Waiting'
      PROVE  /\ moment' <= visit'[q].until /\ visit'[q].until <= moment' + Timeout
             /\ visit'[q].step = "store" /\ visit'[q].role \in Admitting
                  => visit'[q].until <= entitled' + Timeout
  <2>1. q \in Visit /\ visit'[q] # NoVisit /\ visit'[q].step \in {"fetch", "store"}
    BY DEF Waiting
  <2>2. CASE q = r
    BY <1>1, <2>1, <2>2
  <2>3. CASE q # r
    <3>1. q \in Waiting /\ visit'[q] = visit[q]
      BY <1>1, <2>1, <2>3 DEF Waiting
    <3> QED  BY <3>1 DEF AccessInv, InTime, AnswersRecent
  <2> QED  BY <2>2, <2>3
<1>4. InTime' /\ AnswersRecent'
  BY <1>3 DEF InTime, AnswersRecent
<1>5. EntitledIsPast'
  BY DEF AccessInv, EntitledIsPast
<1> QED  BY <1>2, <1>4, <1>5 DEF AccessInv

\* Who is not being served is not admitted.
LEMMA OthersAreNotAdmitted ==
  ASSUME AccessTypeOK, NEW r \in Visit,
         visit[r] = NoVisit \/ visit[r].step \in {"cache", "fetch", "store"}
  PROVE  r \notin admitted
<1>1. [step |-> "serve"] # NoVisit
  BY AccessAssumption
<1> QED  BY <1>1 DEF AccessTypeOK

\* RequireTenantRole ends in the handler or with an answer.
LEMMA RoleIsChecked ==
  ASSUME AccessInv, NEW r \in Visit, NEW role, RequireTenantRole(r, role),
         UNCHANGED <<moment, standing, entitled>>, entry' \in Entry \cup {NoEntry}, EntryRecent'
  PROVE  AccessInv'
<1> DEFINE v == IF role \in Admitting THEN [step |-> "serve"] ELSE NoVisit
<1>1. v \in Visiting \cup {NoVisit} /\ visit' = [visit EXCEPT ![r] = v]
  BY DEF RequireTenantRole, Leaves, Visiting
<1>2. admitted' \subseteq admitted \cup {r} /\ (r \in admitted' => v = [step |-> "serve"])
  BY DEF RequireTenantRole, Leaves
<1>3. v # NoVisit => v.step = "serve"
  OBVIOUS
<1> HIDE DEF v
<1> QED  BY <1>1, <1>2, <1>3, VisitMovesOn

LEMMA AuthenticatedKeeps ==
  ASSUME AccessInv, NEW r \in Visit, Authenticated(r) \/ SuperAdmin(r) \/ Serve(r)
  PROVE  AccessInv'
<1>1. entry' \in Entry \cup {NoEntry} /\ EntryRecent' /\ UNCHANGED <<moment, standing, entitled>>
  BY DEF AccessInv, AccessTypeOK, EntryRecent, Authenticated, SuperAdmin, Serve, Entry
<1>2. ASSUME NEW v \in {[step |-> "cache"], [step |-> "serve"]},
             visit[r] = NoVisit, visit' = [visit EXCEPT ![r] = v], admitted' = admitted
      PROVE  AccessInv'
  <2>1. v \in Visiting \cup {NoVisit} /\ v.step \in {"cache", "serve"}
    BY DEF Visiting
  <2>2. r \notin admitted
    BY <1>2, OthersAreNotAdmitted DEF AccessInv
  <2> QED  BY <1>1, <1>2, <2>1, <2>2, VisitMovesOn
<1>3. CASE Authenticated(r)
  BY <1>2, <1>3 DEF Authenticated
<1>4. CASE SuperAdmin(r)
  BY <1>2, <1>4 DEF SuperAdmin
<1>5. CASE Serve(r)
  BY <1>1, <1>5, VisitMovesOn DEF Serve, Leaves
<1> QED  BY <1>3, <1>4, <1>5

LEMMA LookUpKeeps ==
  ASSUME AccessInv, NEW r \in Visit, LookUp(r)
  PROVE  AccessInv'
<1>1. UNCHANGED <<moment, standing, entitled, entry>>
  BY DEF LookUp, EntryKept
<1>2. entry' \in Entry \cup {NoEntry} /\ EntryRecent'
  BY <1>1 DEF AccessInv, AccessTypeOK, EntryRecent, Entry
<1>3. CASE Fresh
  BY <1>1, <1>2, <1>3, RoleIsChecked DEF LookUp
<1>4. CASE ~Fresh
  <2> DEFINE v == [step |-> "fetch", until |-> moment + Timeout]
  <2>1. visit' = [visit EXCEPT ![r] = v] /\ admitted' = admitted
    BY <1>4 DEF LookUp
  <2>2. /\ moment \in Nat /\ moment <= MaxMoment /\ Timeout \in Nat /\ MaxMoment \in Nat
    BY AccessTimes DEF AccessInv
  <2>3. moment + Timeout \in 0 .. MaxMoment + Timeout
    BY <2>2
  <2>4. v \in Visiting \cup {NoVisit} /\ v.step = "fetch" /\ v.until = moment + Timeout
    BY <2>3 DEF Visiting
  <2>5. moment <= v.until /\ v.until <= moment + Timeout
    BY <2>2, <2>4
  <2>6. r \notin admitted
    BY OthersAreNotAdmitted DEF AccessInv, LookUp
  <2> HIDE DEF v
  <2> QED  BY <1>1, <1>2, <2>1, <2>4, <2>5, <2>6, VisitMovesOn
<1> QED  BY <1>3, <1>4

LEMMA FetchKeeps ==
  ASSUME AccessInv, NEW r \in Visit, FetchMemberships(r)
  PROVE  AccessInv'
<1>1. UNCHANGED <<moment, standing, entitled, entry>>
  BY DEF FetchMemberships
<1>2. entry' \in Entry \cup {NoEntry} /\ EntryRecent'
  BY <1>1 DEF AccessInv, AccessTypeOK, EntryRecent, Entry
<1>3. CASE Leaves(r)
  BY <1>1, <1>2, <1>3, VisitMovesOn DEF Leaves
<1>4. CASE ~Leaves(r)
  <2> DEFINE v == [step |-> "store", until |-> visit[r].until, role |-> standing]
  <2>1. visit' = [visit EXCEPT ![r] = v] /\ admitted' = admitted /\ standing # SessionOver
    BY <1>4 DEF FetchMemberships
  <2>2. r \in Waiting /\ visit[r] # NoVisit /\ visit[r].step = "fetch"
    BY DEF FetchMemberships, Waiting
  <2>3. moment <= visit[r].until /\ visit[r].until <= moment + Timeout
    BY <2>2 DEF AccessInv, InTime
  <2>4. visit[r].until \in 0 .. MaxMoment + Timeout /\ standing \in Standing \ {SessionOver}
    BY <2>1, <2>2 DEF AccessInv, AccessTypeOK, Visiting
  <2>5. v \in Visiting \cup {NoVisit} /\ v.until = visit[r].until /\ v.role = standing
    BY <2>4 DEF Visiting
  <2>6. v.role \in Admitting => v.until <= entitled + Timeout
    BY <2>3, <2>5 DEF AccessInv, EntitledIsPast
  <2>7. r \notin admitted
    BY <2>2, OthersAreNotAdmitted DEF AccessInv
  <2> HIDE DEF v
  <2> QED  BY <1>1, <1>2, <2>1, <2>3, <2>5, <2>6, <2>7, VisitMovesOn
<1> QED  BY <1>3, <1>4

LEMMA StoreKeeps ==
  ASSUME AccessInv, NEW r \in Visit, Store(r)
  PROVE  AccessInv'
<1> DEFINE e == [role |-> visit[r].role, expiresAt |-> moment + Ttl]
<1>1. UNCHANGED <<moment, standing, entitled>> /\ entry' = e
  BY DEF Store
<1>2. r \in Waiting /\ visit[r] # NoVisit /\ visit[r].step = "store"
  BY DEF Store, Waiting
<1>3. visit[r].role \in Standing \ {SessionOver} /\ visit[r].until \in Nat
  BY <1>2, AccessTimes DEF AccessInv, AccessTypeOK, Visiting
<1>4. /\ moment \in Nat /\ moment <= MaxMoment /\ entitled \in Int
      /\ Ttl \in Nat \ {0} /\ Timeout \in Nat /\ MaxMoment \in Nat
  BY AccessTimes DEF AccessInv
<1>5. moment + Ttl \in 0 .. MaxMoment + Ttl
  BY <1>4
<1>6. e \in Entry /\ e.role = visit[r].role /\ e.expiresAt = moment + Ttl
  BY <1>3, <1>5 DEF Entry
<1>7. visit[r].role \in Admitting => moment <= entitled + Timeout
  BY <1>2, <1>3, <1>4 DEF AccessInv, InTime, AnswersRecent
<1>8. EntryRecent'
  BY <1>1, <1>4, <1>6, <1>7 DEF EntryRecent
<1> HIDE DEF e
<1> QED  BY <1>1, <1>6, <1>8, RoleIsChecked DEF Store

\* Time passes or the role changes: what was true recently still was, counted from now.
LEMMA WorldMovesOn ==
  ASSUME AccessInv, UNCHANGED <<entry, visit, admitted>>, moment' \in Moment,
         standing' \in Standing, entitled' \in {entitled, moment'},
         moment <= moment', standing' \in Admitting => entitled' = moment',
         \A r \in Waiting : moment' <= visit[r].until
  PROVE  AccessInv'
<1>1. AccessTypeOK'
  BY DEF AccessInv, AccessTypeOK, Moment, LongAgo, Entry, Visiting
<1>2. /\ moment \in Nat /\ moment' \in Nat /\ entitled \in Int /\ entitled' \in Int
      /\ Ttl \in Nat /\ Timeout \in Nat
      /\ \A r \in Waiting : visit[r].until \in Nat
      /\ entry # NoEntry => entry.expiresAt \in Nat
  BY <1>1, AccessTimes DEF AccessInv, Moment
<1>3. entitled <= entitled' /\ entitled' <= moment'
  BY <1>2 DEF AccessInv, EntitledIsPast
<1>4. Waiting' = Waiting
  BY DEF Waiting
<1>5. InTime'
  BY <1>2, <1>4 DEF AccessInv, InTime
<1>6. AnswersRecent'
  BY <1>2, <1>3, <1>4 DEF AccessInv, AnswersRecent
<1>7. EntryRecent'
  BY <1>2, <1>3 DEF AccessInv, EntryRecent
<1>8. EntitledIsPast'
  BY <1>3 DEF EntitledIsPast
<1> QED  BY <1>1, <1>5, <1>6, <1>7, <1>8 DEF AccessInv

LEMMA StepKeepsAccessInv ==
  AccessInv /\ [AccessNext]_accessVars => AccessInv'
<1> SUFFICES ASSUME AccessInv, [AccessNext]_accessVars
             PROVE  AccessInv'
  OBVIOUS
<1>0. moment \in Nat /\ moment <= MaxMoment /\ MaxMoment \in Nat /\ moment \in Moment
      /\ \A r \in Waiting : visit[r].until \in Nat
  BY AccessTimes DEF AccessInv, AccessTypeOK
<1>1. ASSUME NEW s \in Standing, ChangeStanding(s)
      PROVE  AccessInv'
  <2>1. \A r \in Waiting : moment <= visit[r].until
    BY DEF AccessInv, InTime
  <2> QED  BY <1>0, <1>1, <2>1, WorldMovesOn DEF ChangeStanding
<1>2. CASE TimeFlows
  <2>1. moment' \in Moment /\ moment <= moment' /\ moment' = moment + 1
    BY <1>0, <1>2 DEF TimeFlows, Moment
  <2>2. \A r \in Waiting : moment' <= visit[r].until
    BY <1>0, <1>2, <2>1 DEF TimeFlows
  <2>3. standing' = standing /\ standing \in Standing
    BY <1>2 DEF TimeFlows, AccessInv, AccessTypeOK
  <2> QED  BY <1>2, <2>1, <2>2, <2>3, WorldMovesOn DEF TimeFlows
<1>3. CASE UNCHANGED accessVars
  BY <1>3 DEF accessVars, AccessInv, AccessTypeOK, InTime, EntitledIsPast, AnswersRecent,
              EntryRecent, Waiting
<1> QED  BY <1>1, <1>2, <1>3, AuthenticatedKeeps, LookUpKeeps, FetchKeeps, StoreKeeps
         DEF AccessNext

(***************************************************************************)
(* The inductive invariant of the guard: an admitting role in the cache or *)
(* in hand was the caller's not long ago.                                  *)
(***************************************************************************)
THEOREM AccessInvHolds == AccessSpec => []AccessInv
BY InitAccessInv, StepKeepsAccessInv, PTL DEF AccessSpec

\* The variables of the guard keep their types, and only who is served was admitted.
THEOREM AccessTypesHold == AccessSpec => []AccessTypeOK
<1>1. AccessInv => AccessTypeOK
  BY DEF AccessInv
<1> QED  BY <1>1, AccessInvHolds, PTL

(***************************************************************************)
(* Whoever lost the role is let through by it for less than a ttl and a    *)
(* timeout, however the requests with one token overtake each other.       *)
(***************************************************************************)
THEOREM StaleRolesExpire == AccessSpec => OnlyRecentRolesAdmit
<1>1. ASSUME AccessInv, AccessNext, ~(admitted' \subseteq admitted)
      PROVE  moment < entitled + Ttl + Timeout
  <2>0. /\ moment \in Nat /\ entitled \in Int /\ Ttl \in Nat \ {0} /\ Timeout \in Nat
        /\ \A r \in Waiting : visit[r].until \in Nat
        /\ entry # NoEntry => entry.expiresAt \in Nat
    BY <1>1, AccessTimes DEF AccessInv
  <2>1. PICK r \in Visit : LookUp(r) \/ Store(r)
    BY <1>1 DEF AccessNext, Authenticated, SuperAdmin, FetchMemberships, Serve, Leaves,
                ChangeStanding, TimeFlows
  <2>2. CASE LookUp(r)
    <3>1. Fresh /\ RequireTenantRole(r, entry.role)
      BY <1>1, <2>2 DEF LookUp
    <3>2. entry.role \in Admitting
      BY <1>1, <3>1 DEF RequireTenantRole, Leaves
    <3>3. entry # NoEntry /\ moment < entry.expiresAt
      BY <3>1 DEF Fresh
    <3>4. entry.expiresAt <= entitled + Ttl + Timeout
      BY <1>1, <3>2, <3>3 DEF AccessInv, EntryRecent
    <3> QED  BY <2>0, <3>3, <3>4
  <2>3. CASE Store(r)
    <3>1. r \in Waiting /\ visit[r].step = "store" /\ RequireTenantRole(r, visit[r].role)
      BY <2>3 DEF Store, Waiting
    <3>2. visit[r].role \in Admitting
      BY <1>1, <3>1 DEF RequireTenantRole, Leaves
    <3>3. moment <= visit[r].until /\ visit[r].until <= entitled + Timeout
      BY <1>1, <3>1, <3>2 DEF AccessInv, InTime, AnswersRecent
    <3> QED  BY <2>0, <3>1, <3>3
  <2> QED  BY <2>1, <2>2, <2>3
<1>2. AccessInv /\ [AccessNext]_accessVars =>
        [admitted' \subseteq admitted
           \/ standing \in Admitting
           \/ moment < entitled + Ttl + Timeout]_accessVars
  BY <1>1
<1> QED  BY <1>2, AccessInvHolds, PTL DEF AccessSpec, OnlyRecentRolesAdmit
=============================================================================
