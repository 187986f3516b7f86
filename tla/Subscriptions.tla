--------------------------- MODULE Subscriptions ---------------------------
(***************************************************************************)
(* payment-service, package billing: the subscriptions of one user to      *)
(* plans (billing/services/service.go).  user-management asks Status       *)
(* before it lets the user create a store.  Subscribing is one INSERT,     *)
(* cancelling is a read and a later UPDATE by id; nothing ever sets a      *)
(* subscription EXPIRED when its period is over.                           *)
(***************************************************************************)
EXTENDS Integers, FiniteSets

CONSTANTS
  Plan,        \* table plans: records [interval, active]
  Length,      \* function from the intervals "MONTH" and "YEAR" to a number of ticks
  SubId,       \* subscriptions over time
  Call,        \* requests that may be in progress at the same time
  MaxTime,     \* bound: the last tick
  NoSub        \* no such row, and no request

ASSUME SubscriptionsAssumption ==
  /\ Plan \subseteq [interval : {"MONTH", "YEAR"}, active : BOOLEAN]
  /\ Length \in [{"MONTH", "YEAR"} -> Nat \ {0}]
  /\ MaxTime \in Nat

VARIABLES
  subs,        \* table subscriptions
  clock,       \* the time
  call,        \* call[c]: the request c
  recalled     \* subscriptions a Cancel has found and means to cancel

subscriptionVars == <<subs, clock, call, recalled>>

SubscriptionInit ==
  /\ subs = [i \in SubId |-> NoSub]
  /\ clock = 0
  /\ call = [c \in Call |-> NoSub]
  /\ recalled = {}

-----------------------------------------------------------------------------
Active(i) == subs[i] # NoSub /\ subs[i].status = "ACTIVE"

\* GetActiveByUser: the subscriptions_one_active_per_user index allows one at most.
ActiveSubs == {i \in SubId : Active(i)}

\* Interval.AddTo.
PeriodEnd(plan, start) == start + Length[plan.interval]

\* Subscription.IsEntitled.
IsEntitled(s) == s.status = "ACTIVE" /\ clock < s.end

\* Status, the entitlement check.
Entitled == \E i \in ActiveSubs : IsEntitled(subs[i])

\* Subscribe reads the plan and the time ...
ChoosePlan(c, plan) ==
  /\ call[c] = NoSub
  /\ plan.active
  /\ call' = [call EXCEPT ![c] =
       [op |-> "insert", row |-> [status |-> "ACTIVE", start |-> clock, end |-> PeriodEnd(plan, clock)]]]
  /\ UNCHANGED <<subs, clock, recalled>>

\* ... and inserts, or answers ErrAlreadySubscribed.
InsertSub(c, i) ==
  /\ call[c] # NoSub /\ call[c].op = "insert"
  /\ subs[i] = NoSub
  /\ subs' = IF ActiveSubs = {} THEN [subs EXCEPT ![i] = call[c].row] ELSE subs
  /\ call' = [call EXCEPT ![c] = NoSub]
  /\ UNCHANGED <<clock, recalled>>

FindSub(c) ==
  /\ call[c] = NoSub
  /\ \E i \in ActiveSubs :
       /\ call' = [call EXCEPT ![c] = [op |-> "cancel", id |-> i, row |-> subs[i]]]
       /\ recalled' = recalled \cup {i}
  /\ UNCHANGED <<subs, clock>>

CancelWhateverIsActive(c) ==
  /\ call[c] # NoSub /\ call[c].op = "cancel"
  /\ subs' = [i \in SubId |-> IF Active(i) THEN [subs[i] EXCEPT !.status = "CANCELED"] ELSE subs[i]]
  /\ call' = [call EXCEPT ![c] = NoSub]
  /\ UNCHANGED <<clock, recalled>>

\* UPDATE ... WHERE id, with the period as it was read.
CancelSub(c) ==
  /\ call[c] # NoSub /\ call[c].op = "cancel"
  /\ subs' = [subs EXCEPT ![call[c].id] = [call[c].row EXCEPT !.status = "CANCELED"]]
  /\ call' = [call EXCEPT ![c] = NoSub]
  /\ UNCHANGED <<clock, recalled>>

CallStops(c) ==
  /\ call[c] # NoSub
  /\ call' = [call EXCEPT ![c] = NoSub]
  /\ UNCHANGED <<subs, clock, recalled>>

Tick ==
  /\ clock < MaxTime
  /\ clock' = clock + 1
  /\ UNCHANGED <<subs, call, recalled>>

SubscriptionNext ==
  \/ \E c \in Call :
       \/ \E plan \in Plan : ChoosePlan(c, plan)
       \/ \E i \in SubId : InsertSub(c, i)
       \/ FindSub(c)
       \/ CancelSub(c)
       \/ CallStops(c)
  \/ Tick

SubscriptionSpec == SubscriptionInit /\ [][SubscriptionNext]_subscriptionVars

-----------------------------------------------------------------------------
(***************************************************************************)
(* Properties.                                                             *)
(***************************************************************************)

\* The rows have their types; there is one ACTIVE subscription at most.
SubscriptionTypeOK ==
  /\ \A i \in SubId : subs[i] # NoSub =>
       subs[i].status \in {"ACTIVE", "CANCELED"} /\ subs[i].start < subs[i].end
  /\ Cardinality(ActiveSubs) <= 1

Covers(i) == subs[i] # NoSub /\ subs[i].start <= clock /\ clock < subs[i].end

(***************************************************************************)
(* IsEntitled, "whether the subscription currently grants access": nobody  *)
(* has access outside a period that was bought, and whoever bought one has *)
(* access throughout unless a Cancel found that very subscription; another *)
(* Cancel that is still on its way never takes a later one away.           *)
(***************************************************************************)
AccessFollowsPeriods ==
  /\ Entitled => \E i \in SubId : Covers(i)
  /\ \A i \in SubId \ recalled : Covers(i) => Entitled
=============================================================================
