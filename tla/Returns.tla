------------------------------ MODULE Returns ------------------------------
(***************************************************************************)
(* Returns of one FULFILLED order: order-service's Request and Resolve     *)
(* (returns/services/service.go) composed with payment-service's Refund    *)
(* and inventory-service's bulk restock, which Resolve calls before it     *)
(* writes the status of the return.  Managers work on returns at the same  *)
(* time; a resolution stops anywhere, and an answer may get lost after the *)
(* other service has done its part.                                        *)
(***************************************************************************)
EXTENDS Integers, Sequences, SequencesExt

CONSTANTS
  Ordered,     \* order_items: a function from SKUs to records [units, price]
  Captured,    \* cents the payment of the order has captured
  ReturnId,    \* returns the customer requests over time
  Desk,        \* resolutions that may be in progress at the same time
  MaxReturned, \* bound: lines of a return request
  MaxRestocks, \* bound: times a return is restocked
  Refunds,     \* values for refund_cents in a resolution
  Nothing      \* NULL, and a row or request that is not there

InputLine == [sku : DOMAIN Ordered, units : 1 .. 2]

ReturnRow == [status : {"REQUESTED", "COMPLETED", "REJECTED"}, items : Seq(InputLine),
              refund : Nat, restocked : BOOLEAN]

PaymentRow == [status : {"CAPTURED", "REFUNDED"}, refunded : Nat]

\* A resolution in progress: what its manager decided, and the payment it has read.
Work ==
  [step : {"ask", "stripe", "book", "mirror", "restock", "complete"}, of : ReturnId,
   refund : Nat, restock : BOOLEAN, row : PaymentRow \cup {Nothing}, restocked : BOOLEAN]
  \cup [step : {"reject"}, of : ReturnId]

ASSUME ReturnsAssumption ==
  /\ \A s \in DOMAIN Ordered : Ordered[s] \in [units : Nat \ {0}, price : Nat]
  /\ Captured \in Nat \ {0}
  /\ MaxReturned \in Nat /\ MaxRestocks \in Nat
  /\ Refunds \subseteq Nat
  /\ Nothing \notin ReturnRow \cup Work \cup PaymentRow \cup {"CARD", "COD"}

VARIABLES
  returned,    \* tables order_returns and order_return_items
  method,      \* the order's payment: "CARD", "COD", or Nothing without one
  mirror,      \* orders.payment_status
  payment,     \* payments.refunded_cents and status in payment-service
  paidBack,    \* Stripe's refunds, oldest first: for which return, and how many cents
  restocks,    \* restocks[r]: RECEIVE movements whose reference is return r
  desk,        \* desk[d]: the resolution in progress
  contested    \* returns two resolutions of which overlapped, or one of which stopped halfway

returnVars == <<returned, method, mirror, payment, paidBack, restocks, desk, contested>>

ReturnInit ==
  /\ returned = [r \in ReturnId |-> Nothing]
  /\ method \in {"CARD", "COD", Nothing}
  /\ mirror = IF method = Nothing THEN "UNPAID" ELSE "PAID"
  /\ payment = [status |-> "CAPTURED", refunded |-> 0]
  /\ paidBack = << >>
  /\ restocks = [r \in ReturnId |-> 0]
  /\ desk = [d \in Desk |-> Nothing]
  /\ contested = {}

-----------------------------------------------------------------------------
(***************************************************************************)
(* The customer.                                                           *)
(***************************************************************************)
AnyLine(l) == TRUE

\* bySKU: the order has a line for the SKU, with at least that quantity.
Returnable(l) == l.units <= Ordered[l.sku].units

LineValue(l) == l.units * Ordered[l.sku].price

Total(cents) ==
  LET upTo[n \in 0 .. Len(cents)] == IF n = 0 THEN 0 ELSE upTo[n - 1] + cents[n]
  IN  upTo[Len(cents)]

Suggested(items) == Total([i \in DOMAIN items |-> LineValue(items[i])])

\* RequestReturn: rows of both tables in one transaction.
RequestReturn(r, items) ==
  /\ returned[r] = Nothing
  /\ items # << >>
  /\ \A i \in DOMAIN items : Returnable(items[i])
  /\ returned' = [returned EXCEPT ![r] =
       [status |-> "REQUESTED", items |-> items, refund |-> Suggested(items), restocked |-> FALSE]]
  /\ UNCHANGED <<method, mirror, payment, paidBack, restocks, desk, contested>>

-----------------------------------------------------------------------------
(***************************************************************************)
(* Resolve, step by step.                                                  *)
(***************************************************************************)
\* A resolution may override the refund and decline to restock.
Resolution ==
  [approve : {FALSE}] \cup [approve : {TRUE}, refund : Refunds \cup {Nothing}, restock : BOOLEAN]

Resolving(d, step) == desk[d] # Nothing /\ desk[d].step = step

RefundOf(r, body) == IF body.refund = Nothing THEN returned[r].refund ELSE body.refund

PaysBack(refund) == method # Nothing /\ refund > 0

\* The manager's role, the return and its items are read.
ResolveAlways(d, r, body) ==
  /\ desk[d] = Nothing
  /\ returned[r] # Nothing
  /\ contested' = IF \E e \in Desk : desk[e] # Nothing /\ desk[e].of = r THEN contested \cup {r} ELSE contested
  /\ desk' = [desk EXCEPT ![d] =
       IF body.approve
         THEN [step |-> IF PaysBack(RefundOf(r, body)) THEN "ask" ELSE "restock",
               of |-> r, refund |-> RefundOf(r, body), restock |-> body.restock,
               row |-> Nothing, restocked |-> FALSE]
         ELSE [step |-> "reject", of |-> r]]
  /\ UNCHANGED <<returned, method, mirror, payment, paidBack, restocks>>

Resolve(d, r, body) ==
  /\ returned[r] # Nothing /\ returned[r].status = "REQUESTED"
  /\ ResolveAlways(d, r, body)

Idle(d) == desk' = [desk EXCEPT ![d] = Nothing]

\* payment-service's Refund reads the payment; it refuses what is not refundable.
AskRefund(d) ==
  /\ Resolving(d, "ask")
  /\ IF payment.status = "CAPTURED" /\ desk[d].refund <= Captured - payment.refunded
       THEN desk' = [desk EXCEPT ![d].step = IF method = "CARD" THEN "stripe" ELSE "book",
                                 ![d].row = payment]
       ELSE Idle(d)
  /\ UNCHANGED <<returned, method, mirror, payment, paidBack, restocks, contested>>

AllPaidBack == Total([i \in DOMAIN paidBack |-> paidBack[i].cents])

\* Stripe never pays back more than the customer has paid.
StripeRefund(d) ==
  /\ Resolving(d, "stripe")
  /\ IF AllPaidBack + desk[d].refund <= Captured
       THEN /\ paidBack' = Append(paidBack, [of |-> desk[d].of, cents |-> desk[d].refund])
            /\ desk' = [desk EXCEPT ![d].step = "book"]
       ELSE Idle(d) /\ UNCHANGED paidBack
  /\ UNCHANGED <<returned, method, mirror, payment, restocks, contested>>

BookRefund(d) ==
  /\ Resolving(d, "book")
  /\ LET sum == desk[d].row.refunded + desk[d].refund
     IN  payment' = [status |-> IF sum >= Captured THEN "REFUNDED" ELSE "CAPTURED", refunded |-> sum]
  /\ desk' = [desk EXCEPT ![d].step = "mirror", ![d].row = Nothing]
  /\ UNCHANGED <<returned, method, mirror, paidBack, restocks, contested>>

\* MarkPaymentRefunded, whose error is ignored.
MirrorRefund(d) ==
  /\ Resolving(d, "mirror")
  /\ mirror' \in {mirror, IF mirror = "PAID" THEN "REFUNDED" ELSE mirror}
  /\ desk' = [desk EXCEPT ![d].step = "restock"]
  /\ UNCHANGED <<returned, method, payment, paidBack, restocks, contested>>

RestockUnheard(d) ==
  /\ Resolving(d, "restock")
  /\ desk' = [desk EXCEPT ![d].step = "complete", ![d].restocked = desk[d].restock]
  /\ restocks' \in {restocks, [restocks EXCEPT ![desk[d].of] = @ + 1]}
  /\ UNCHANGED <<returned, method, mirror, payment, paidBack, contested>>

\* Restock: restocked records whether inventory-service has answered that it did.
RestockReturn(d) ==
  /\ Resolving(d, "restock")
  /\ \/ /\ desk[d].restock
        /\ restocks[desk[d].of] < MaxRestocks
        /\ restocks' = [restocks EXCEPT ![desk[d].of] = @ + 1]
        /\ \E answered \in BOOLEAN :
             desk' = [desk EXCEPT ![d].step = "complete", ![d].restocked = answered]
     \/ /\ desk' = [desk EXCEPT ![d].step = "complete"]
        /\ UNCHANGED restocks
  /\ UNCHANGED <<returned, method, mirror, payment, paidBack, contested>>

Requested(r) == returned[r].status = "REQUESTED"

\* Repository.Resolve: UPDATE ... WHERE status = 'REQUESTED'.
CompleteReturn(d) ==
  /\ Resolving(d, "complete")
  /\ LET r == desk[d].of
     IN  returned' = IF Requested(r)
                       THEN [returned EXCEPT ![r].status = "COMPLETED", ![r].refund = desk[d].refund,
                                             ![r].restocked = desk[d].restocked]
                       ELSE returned
  /\ Idle(d)
  /\ UNCHANGED <<method, mirror, payment, paidBack, restocks, contested>>

RejectReturn(d) ==
  /\ Resolving(d, "reject")
  /\ LET r == desk[d].of
     IN  returned' = IF Requested(r)
                       THEN [returned EXCEPT ![r].status = "REJECTED", ![r].refund = 0]
                       ELSE returned
  /\ Idle(d)
  /\ UNCHANGED <<method, mirror, payment, paidBack, restocks, contested>>

\* A crash, a database error, or an answer of payment-service that does not arrive.
ResolveStops(d) ==
  /\ desk[d] # Nothing
  /\ Idle(d)
  /\ contested' = contested \cup {desk[d].of}
  /\ UNCHANGED <<returned, method, mirror, payment, paidBack, restocks>>

-----------------------------------------------------------------------------
ResolveStep(d) ==
  \/ AskRefund(d)
  \/ StripeRefund(d)
  \/ BookRefund(d)
  \/ MirrorRefund(d)
  \/ RestockReturn(d)
  \/ CompleteReturn(d)
  \/ RejectReturn(d)

ReturnNext ==
  \/ \E r \in ReturnId, items \in BoundedSeq(InputLine, MaxReturned) : RequestReturn(r, items)
  \/ \E d \in Desk, r \in ReturnId, body \in Resolution : Resolve(d, r, body)
  \/ \E d \in Desk : ResolveStep(d)
  \/ \E d \in Desk : ResolveStops(d)

ReturnSpec == ReturnInit /\ [][ReturnNext]_returnVars

-----------------------------------------------------------------------------
(***************************************************************************)
(* Properties.                                                             *)
(***************************************************************************)

\* The tables have their types; no line of a return exceeds the line of the order.
ReturnTypeOK ==
  /\ \A r \in ReturnId : returned[r] # Nothing =>
       /\ returned[r].status \in {"REQUESTED", "COMPLETED", "REJECTED"}
       /\ returned[r].refund \in Nat /\ returned[r].restocked \in BOOLEAN
       /\ \A i \in DOMAIN returned[r].items : returned[r].items[i].units <= Ordered[returned[r].items[i].sku].units
  /\ payment.refunded \in 0 .. Captured
  /\ mirror \in {"UNPAID", "PAID", "REFUNDED"}

PaidFor(r) == {i \in DOMAIN paidBack : paidBack[i].of = r}

(***************************************************************************)
(* Resolve checks "ret.Status != StatusRequested" first and tests it again *)
(* only in its last statement, after money and goods have moved: a return  *)
(* is refunded or restocked a second time only by a resolution that        *)
(* overlaps another one, or follows one that stopped halfway.              *)
(***************************************************************************)
OnlyOverlapsRepeatReturns ==
  [][\A r \in ReturnId \ contested :
       /\ PaidFor(r) # {} => PaidFor(r)' = PaidFor(r)
       /\ restocks[r] > 0 => restocks'[r] = restocks[r]]_returnVars

(***************************************************************************)
(* StatusCompleted, "approved - refunded (+ optionally restocked)": a      *)
(* COMPLETED return has its refund paid and, when it says so, its units    *)
(* back on the shelf; the order says REFUNDED only if money went back; and *)
(* all returns of an order, whatever quantities they add up to, never get  *)
(* more than was captured.                                                 *)
(***************************************************************************)
CompletedReturnsAreDone ==
  /\ \A r \in ReturnId : returned[r] # Nothing /\ returned[r].status = "COMPLETED" =>
       /\ method = "CARD" /\ returned[r].refund > 0
            => \E i \in PaidFor(r) : paidBack[i].cents = returned[r].refund
       /\ returned[r].restocked => restocks[r] > 0
  /\ mirror = "REFUNDED" => payment.refunded > 0
  /\ payment.refunded > 0 /\ method = "CARD" => payment.refunded <= AllPaidBack
  /\ AllPaidBack <= Captured
=============================================================================
