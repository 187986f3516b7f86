------------------------------- MODULE Orders -------------------------------
(***************************************************************************)
(* order-service: the handlers of POST /orders, /pay, /fulfil and /cancel  *)
(* (order/services/service.go) for the orders of one tenant, and what the  *)
(* acceptance of a return (returns/services/service.go) does to the order  *)
(* it belongs to; the return itself is in Returns.  A handler is a         *)
(* goroutine; it is cut into steps at every statement it sends to its      *)
(* database and at every call to another service, because another request  *)
(* may run between any two of them.  The steps of different handlers       *)
(* interleave freely: the code holds no lock across steps.                 *)
(*                                                                         *)
(* Every order asks for the same lines: Lines units of one SKU, which      *)
(* stands for a bulk call (Stock shows that a bulk call is all or          *)
(* nothing).  inventory-service is represented by the levels of that SKU   *)
(* and by the movements that reference each order; payment-service by the  *)
(* answers it may give and by the refunds it has made.  A Key stands for a *)
(* pair (customer, value of the Idempotency-Key header), which is what the *)
(* unique index is about.                                                  *)
(***************************************************************************)
EXTENDS StockOps, FiniteSets

CONSTANTS
  Order,           \* order ids
  Key,             \* values of the Idempotency-Key header
  Handler,         \* requests that may be in progress at the same time
  Lines,           \* units an order reserves
  OnHand0,         \* units on the shelf at first
  Reserved0,       \* units among them that others hold, through POST /inventory/:sku/reserve
  Correction,      \* what a manager may add to on_hand with ADJUST
  MaxRedemptions,  \* max_redemptions of the tenant's coupon
  Coupons,         \* whether checkouts carry the coupon: a subset of BOOLEAN
  Requests,        \* the requests clients send: a subset of RequestKinds
  Faults,          \* what may go wrong: a subset of {"stop", "call"}
  NoOrder,         \* no order chosen yet
  NoRow,           \* an order id without a row in table orders
  NoKey            \* a checkout without an Idempotency-Key

OrderStatus == {"PENDING_PAYMENT", "CONFIRMED", "FULFILLED", "CANCELLED"}

PaymentStatus == {"PENDING", "PAID", "REFUNDED"}

RequestKinds == {"checkout", "pay", "fulfil", "cancel", "return"}

\* Why payment-service refunds the payment of an order: its cancellation, or a return.
RefundKinds == {"cancel", "return"}

\* What Pay learns: still waiting for a card, cash on delivery, or captured.
PayAnswers == {"WAITING", "COD", "CAPTURED"}

\* payment says whether payment_id is set, coupon whether a discount was given.
Row == [status : OrderStatus, pay : PaymentStatus, payment : BOOLEAN,
        key : Key \cup {NoKey}, coupon : BOOLEAN]

ASSUME OrdersAssumption ==
  /\ Lines \in Nat \ {0}
  /\ OnHand0 \in 0 .. MaxInt
  /\ Reserved0 \in 0 .. OnHand0
  /\ Correction \subseteq Int
  /\ MaxRedemptions \in Nat \ {0}
  /\ Coupons \subseteq BOOLEAN
  /\ Requests \subseteq RequestKinds
  /\ Faults \subseteq {"stop", "call"}
  /\ NoOrder \notin Order
  /\ NoKey \notin Key
  /\ NoRow \notin Row

OrderMovement == {"RESERVE", "RELEASE", "SHIP"}

EventType == {"order.placed", "order.confirmed", "order.shipped", "order.cancelled"}

\* Where a handler is; it returns to "idle" when it has answered.
Step == {"idle",
         "cart", "quote", "reserve", "create", "compensate", "redeem", "clear", "tellPlaced",
         "pay", "attach", "advance", "paid", "reread", "tellConfirmed",
         "fulfil", "ship", "settle", "settled", "tellShipped",
         "cancel", "release", "refund", "refunded", "tellCancelled",
         "return", "returned", "restock"}

VARIABLES
  row,       \* table orders
  redeemed,  \* redeemed_count of the coupon
  cart,      \* whether the customer's active cart has items
  level,     \* inventory-service: on_hand and reserved of the SKU
  moves,     \* moves[o][t]: movements of type t that reference order o
  refunds,   \* payment-service: refunds[o], the kinds of refunds made for order o
  told,      \* told[o][e]: events e published for o, counted up to 2
  pc,        \* pc[h]: the next step of handler h
  ord,       \* the order h works on
  key,       \* the Idempotency-Key of h's checkout
  coupon,    \* whether h's checkout carries the coupon
  seen,      \* the row h has loaded
  answer     \* what payment-service told h

store == <<row, redeemed, cart>>
services == <<level, moves, refunds>>
request == <<ord, key, coupon, seen, answer>>
vars == <<row, redeemed, cart, level, moves, refunds, told, pc, ord, key, coupon, seen, answer>>

-----------------------------------------------------------------------------
Init ==
  /\ row = [o \in Order |-> NoRow]
  /\ redeemed = 0
  /\ cart = FALSE
  /\ level = [onHand |-> OnHand0, reserved |-> Reserved0]
  /\ moves = [o \in Order |-> [t \in OrderMovement |-> 0]]
  /\ refunds = [o \in Order |-> {}]
  /\ told = [o \in Order |-> [e \in EventType |-> 0]]
  /\ pc = [h \in Handler |-> "idle"]
  /\ ord = [h \in Handler |-> NoOrder]
  /\ key = [h \in Handler |-> NoKey]
  /\ coupon = [h \in Handler |-> FALSE]
  /\ seen = [h \in Handler |-> NoRow]
  /\ answer = [h \in Handler |-> "WAITING"]

Goto(h, step) == pc' = [pc EXCEPT ![h] = step]

Continue(h, step) == Goto(h, step) /\ UNCHANGED request

\* The handler answers its client, with success or with an error.
Return(h) ==
  /\ Goto(h, "idle")
  /\ ord' = [ord EXCEPT ![h] = NoOrder]
  /\ key' = [key EXCEPT ![h] = NoKey]
  /\ coupon' = [coupon EXCEPT ![h] = FALSE]
  /\ seen' = [seen EXCEPT ![h] = NoRow]
  /\ answer' = [answer EXCEPT ![h] = "WAITING"]

\* A call of the handler h whose error the code ignores may fail.
CallMayFail == "call" \in Faults

\* inventory-service applies a bulk movement for order o, or refuses it.
Accepts(type) == Allowed(type, level, Lines)

StockCall(type, o) ==
  /\ Accepts(type)
  /\ level' = Apply(type, level, Lines)
  /\ moves' = [moves EXCEPT ![o][type] = @ + 1]
  /\ UNCHANGED refunds

Tell(o, event) == told' = [told EXCEPT ![o][event] = IF @ < 2 THEN @ + 1 ELSE 2]

\* Handler h publishes its last event; a failure is logged and ignored.
Publish(h, step, event) ==
  /\ pc[h] = step
  /\ \/ Tell(ord[h], event)
     \/ CallMayFail /\ UNCHANGED told
  /\ Return(h)
  /\ UNCHANGED <<store, services>>

-----------------------------------------------------------------------------
\* Around the handlers: the customer fills or empties the cart, a manager counts stock.
ChangeCart ==
  /\ cart' = ~cart
  /\ UNCHANGED <<row, redeemed, services, told, pc, request>>

AdjustStock(q) ==
  /\ Allowed("ADJUST", level, q)
  /\ level' = Apply("ADJUST", level, q)
  /\ UNCHANGED <<store, moves, refunds, told, pc, request>>

-----------------------------------------------------------------------------
(***************************************************************************)
(* Checkout.                                                               *)
(***************************************************************************)

\* GetByIdempotencyKey, and the unique index orders_idempotency_key.
KeyTaken(k) == k # NoKey /\ \E o \in Order : row[o] # NoRow /\ row[o].key = k

\* An id nobody has used: uuid.New().
Fresh(o) ==
  /\ row[o] = NoRow
  /\ \A t \in OrderMovement : moves[o][t] = 0
  /\ \A h \in Handler : ord[h] # o

\* Bound: a checkout starts only if an unused id is left for it.
IdLeft ==
  LET choosing == {h \in Handler : pc[h] \in {"cart", "quote", "reserve"}}
  IN  Cardinality(choosing) < Cardinality({o \in Order : Fresh(o)})

\* A key that is taken is answered with its order and changes nothing.
StartCheckout(h, k, c) ==
  /\ pc[h] = "idle"
  /\ ~KeyTaken(k)
  /\ IdLeft
  /\ Goto(h, "cart")
  /\ key' = [key EXCEPT ![h] = k]
  /\ coupon' = [coupon EXCEPT ![h] = c]
  /\ UNCHANGED <<store, services, told, ord, seen, answer>>

ReadCart(h) ==
  /\ pc[h] = "cart"
  /\ IF cart THEN Continue(h, "quote") ELSE Return(h)
  /\ UNCHANGED <<store, services, told>>

\* QuoteFor looks the coupon up and refuses one that is exhausted.
QuoteIgnoresLimit(h) ==
  /\ pc[h] = "quote"
  /\ Continue(h, "reserve")
  /\ UNCHANGED <<store, services, told>>

Quote(h) ==
  /\ pc[h] = "quote"
  /\ IF coupon[h] => redeemed < MaxRedemptions THEN Continue(h, "reserve") ELSE Return(h)
  /\ UNCHANGED <<store, services, told>>

Reserve(h, o) ==
  /\ pc[h] = "reserve"
  /\ Fresh(o)
  /\ StockCall("RESERVE", o)
  /\ ord' = [ord EXCEPT ![h] = o]
  /\ Goto(h, "create")
  /\ UNCHANGED <<store, told, key, coupon, seen, answer>>

ReserveRefused(h) ==
  /\ pc[h] = "reserve"
  /\ ~Accepts("RESERVE")
  /\ Return(h)
  /\ UNCHANGED <<store, services, told>>

NewRow(h) == [status |-> "PENDING_PAYMENT", pay |-> "PENDING", payment |-> FALSE,
              key |-> key[h], coupon |-> coupon[h]]

Create(h) ==
  /\ pc[h] = "create"
  /\ ~KeyTaken(key[h])
  /\ row' = [row EXCEPT ![ord[h]] = NewRow(h)]
  /\ Continue(h, IF coupon[h] THEN "redeem" ELSE "clear")
  /\ UNCHANGED <<redeemed, cart, services, told>>

\* Another checkout with this key was faster, or the database fails.
CreateFails(h) ==
  /\ pc[h] = "create"
  /\ KeyTaken(key[h]) \/ CallMayFail
  /\ Continue(h, "compensate")
  /\ UNCHANGED <<store, services, told>>

CompensateForgetsClash(h) ==
  /\ pc[h] = "compensate"
  /\ IF KeyTaken(key[h]) THEN UNCHANGED services ELSE StockCall("RELEASE", ord[h])
  /\ Return(h)
  /\ UNCHANGED <<store, told>>

\* The result of Release is ignored; the client gets the other order or the error.
Compensate(h) ==
  /\ pc[h] = "compensate"
  /\ \/ StockCall("RELEASE", ord[h])
     \/ (CallMayFail \/ ~Accepts("RELEASE")) /\ UNCHANGED services
  /\ Return(h)
  /\ UNCHANGED <<store, told>>

\* RedeemCoupon: no row is updated when the limit was reached since the quote.
Redeem(h) ==
  /\ pc[h] = "redeem"
  /\ \/ redeemed' = IF redeemed < MaxRedemptions THEN redeemed + 1 ELSE redeemed
     \/ CallMayFail /\ UNCHANGED redeemed
  /\ Continue(h, "clear")
  /\ UNCHANGED <<row, cart, services, told>>

ClearCart(h) ==
  /\ pc[h] = "clear"
  /\ \/ cart' = FALSE
     \/ CallMayFail /\ UNCHANGED cart
  /\ Continue(h, "tellPlaced")
  /\ UNCHANGED <<row, redeemed, services, told>>

PublishPlaced(h) == Publish(h, "tellPlaced", "order.placed")

-----------------------------------------------------------------------------
(***************************************************************************)
(* Pay.  The decisions of the handler rest on the row it loaded first.     *)
(***************************************************************************)

Load(h, o, step) ==
  /\ pc[h] = "idle"
  /\ row[o] # NoRow
  /\ Goto(h, step)
  /\ ord' = [ord EXCEPT ![h] = o]
  /\ seen' = [seen EXCEPT ![h] = row[o]]
  /\ UNCHANGED <<store, services, told, key, coupon, answer>>

StartPay(h, o) ==
  /\ row[o] # NoRow => row[o].status \notin {"FULFILLED", "CANCELLED"}
  /\ Load(h, o, "pay")

\* Payment Create or Sync returns.
PayAnswered(h, a) ==
  /\ pc[h] = "pay"
  /\ answer' = [answer EXCEPT ![h] = a]
  /\ Goto(h, IF seen[h].payment THEN "advance" ELSE "attach")
  /\ UNCHANGED <<store, services, told, ord, key, coupon, seen>>

\* payment-service rejects the call or cannot be reached.
PayRefused(h) ==
  /\ pc[h] = "pay"
  /\ Return(h)
  /\ UNCHANGED <<store, services, told>>

AttachPayment(h) ==
  /\ pc[h] = "attach"
  /\ row' = [row EXCEPT ![ord[h]].payment = TRUE]
  /\ Continue(h, "advance")
  /\ UNCHANGED <<redeemed, cart, services, told>>

\* advanceToConfirmed looks at the loaded row, MarkConfirmed at the stored one.
MustConfirm(h) == answer[h] # "WAITING" /\ seen[h].status = "PENDING_PAYMENT"

ConfirmableAnytime(o) == row[o].status # "CONFIRMED"

Confirmable(o) == row[o].status = "PENDING_PAYMENT"

AfterAdvance(h) == IF answer[h] = "CAPTURED" THEN "paid" ELSE "reread"

Advance(h) ==
  /\ pc[h] = "advance"
  /\ \/ /\ MustConfirm(h)
        /\ Confirmable(ord[h])
        /\ row' = [row EXCEPT ![ord[h]].status = "CONFIRMED"]
        /\ Continue(h, AfterAdvance(h))
     \/ /\ MustConfirm(h)
        /\ ~Confirmable(ord[h])
        /\ Return(h)
        /\ UNCHANGED row
     \/ /\ ~MustConfirm(h)
        /\ Continue(h, AfterAdvance(h))
        /\ UNCHANGED row
  /\ UNCHANGED <<redeemed, cart, services, told>>

MarkPaymentCopies(h, from, to) ==
  /\ row' = [row EXCEPT ![ord[h]].pay = answer[h]]
  /\ UNCHANGED <<redeemed, cart, services, told>>

MarkPaymentInsists(h, from, to) ==
  /\ row[ord[h]].pay = from
  /\ row' = [row EXCEPT ![ord[h]].pay = to]
  /\ UNCHANGED <<redeemed, cart, services, told>>

\* A conditional update of the payment mirror whose failure the code ignores.
MarkPayment(h, from, to) ==
  /\ \/ row' = IF row[ord[h]].pay = from THEN [row EXCEPT ![ord[h]].pay = to] ELSE row
     \/ CallMayFail /\ UNCHANGED row
  /\ UNCHANGED <<redeemed, cart, services, told>>

MarkPaid(h) ==
  /\ pc[h] = "paid"
  /\ MarkPayment(h, "PENDING", "PAID")
  /\ Continue(h, "reread")

RereadSkipsTest(h) ==
  /\ pc[h] = "reread"
  /\ Continue(h, "tellConfirmed")
  /\ UNCHANGED <<store, services, told>>

\* order.confirmed is published if the order, loaded again, is CONFIRMED.
Reread(h) ==
  /\ pc[h] = "reread"
  /\ IF row[ord[h]].status = "CONFIRMED" THEN Continue(h, "tellConfirmed") ELSE Return(h)
  /\ UNCHANGED <<store, services, told>>

PublishConfirmed(h) == Publish(h, "tellConfirmed", "order.confirmed")

-----------------------------------------------------------------------------
(***************************************************************************)
(* Fulfil.                                                                 *)
(***************************************************************************)

StartFulfil(h, o) == Load(h, o, "fulfil")

MarkFulfilled(h) ==
  /\ pc[h] = "fulfil"
  /\ IF row[ord[h]].status = "CONFIRMED"
       THEN /\ row' = [row EXCEPT ![ord[h]].status = "FULFILLED"]
            /\ Continue(h, "ship")
       ELSE Return(h) /\ UNCHANGED row
  /\ UNCHANGED <<redeemed, cart, services, told>>

AfterShip(h) == IF seen[h].payment /\ seen[h].pay = "PENDING" THEN "settle" ELSE "tellShipped"

ShipOnlyPaid(h) ==
  /\ pc[h] = "ship"
  /\ IF seen[h].pay = "PAID"
       THEN StockCall("SHIP", ord[h]) /\ Continue(h, AfterShip(h))
       ELSE Return(h) /\ UNCHANGED services
  /\ UNCHANGED <<store, told>>

Ship(h) ==
  /\ pc[h] = "ship"
  /\ IF Accepts("SHIP")
       THEN StockCall("SHIP", ord[h]) /\ Continue(h, AfterShip(h))
       ELSE Return(h) /\ UNCHANGED services
  /\ UNCHANGED <<store, told>>

\* Settle succeeds or not; only its success is mirrored in the order.
Settle(h) ==
  /\ pc[h] = "settle"
  /\ \E next \in {"settled", "tellShipped"} : Continue(h, next)
  /\ UNCHANGED <<store, services, told>>

MarkSettled(h) ==
  /\ pc[h] = "settled"
  /\ MarkPayment(h, "PENDING", "PAID")
  /\ Continue(h, "tellShipped")

PublishShipped(h) == Publish(h, "tellShipped", "order.shipped")

-----------------------------------------------------------------------------
(***************************************************************************)
(* Cancel.                                                                 *)
(***************************************************************************)

StartCancel(h, o) == Load(h, o, "cancel")

CancellableAnytime(o) == TRUE

Cancellable(o) == row[o].status \in {"PENDING_PAYMENT", "CONFIRMED"}

MarkCancelled(h) ==
  /\ pc[h] = "cancel"
  /\ IF Cancellable(ord[h])
       THEN /\ row' = [row EXCEPT ![ord[h]].status = "CANCELLED"]
            /\ Continue(h, "release")
       ELSE Return(h) /\ UNCHANGED row
  /\ UNCHANGED <<redeemed, cart, services, told>>

AfterRelease(h) == IF seen[h].payment /\ seen[h].pay = "PAID" THEN "refund" ELSE "tellCancelled"

ReleaseOnlyPaid(h) ==
  /\ pc[h] = "release"
  /\ IF seen[h].pay = "PAID"
       THEN StockCall("RELEASE", ord[h]) /\ Continue(h, AfterRelease(h))
       ELSE Return(h) /\ UNCHANGED services
  /\ UNCHANGED <<store, told>>

Release(h) ==
  /\ pc[h] = "release"
  /\ IF Accepts("RELEASE")
       THEN StockCall("RELEASE", ord[h]) /\ Continue(h, AfterRelease(h))
       ELSE Return(h) /\ UNCHANGED services
  /\ UNCHANGED <<store, told>>

\* payment-service makes the refund of h's order.
PayBack(h, kind) == refunds' = [refunds EXCEPT ![ord[h]] = @ \cup {kind}]

RefundUnheard(h) ==
  /\ pc[h] = "refund"
  /\ PayBack(h, "cancel") \/ UNCHANGED refunds
  /\ Continue(h, "refunded")
  /\ UNCHANGED <<store, level, moves, told>>

\* An error of payment-service is ignored; only a success is mirrored in the order.
Refund(h) ==
  /\ pc[h] = "refund"
  /\ \/ PayBack(h, "cancel") /\ Continue(h, "refunded")
     \/ CallMayFail /\ PayBack(h, "cancel") /\ Continue(h, "tellCancelled")
     \/ UNCHANGED refunds /\ Continue(h, "tellCancelled")
  /\ UNCHANGED <<store, level, moves, told>>

MarkRefunded(h) ==
  /\ pc[h] = "refunded"
  /\ MarkPayment(h, "PAID", "REFUNDED")
  /\ Continue(h, "tellCancelled")

PublishCancelled(h) == Publish(h, "tellCancelled", "order.cancelled")

-----------------------------------------------------------------------------
(***************************************************************************)
(* The acceptance of a return.  A return exists only for a FULFILLED       *)
(* order; an order may have several.  What is restocked references the     *)
(* return, so no movement of the order is counted.                         *)
(***************************************************************************)

\* The order is loaded; without a payment, or with nothing to pay back, no refund is asked for.
StartReturn(h, o) ==
  \E step \in {"return", "restock"} :
    /\ Load(h, o, step)
    /\ row[o].status = "FULFILLED"
    /\ step = "return" => row[o].payment

\* An error of payment-service ends the request.
RefundReturn(h) ==
  /\ pc[h] = "return"
  /\ \/ PayBack(h, "return") /\ Continue(h, "returned")
     \/ UNCHANGED refunds /\ Return(h)
  /\ UNCHANGED <<store, level, moves, told>>

MarkReturned(h) ==
  /\ pc[h] = "returned"
  /\ MarkPayment(h, "PAID", "REFUNDED")
  /\ Continue(h, "restock")

\* What came back is received, or it is not: nobody asked, or the call failed.
Restock(h) ==
  /\ pc[h] = "restock"
  /\ \/ \E q \in 1 .. Lines : /\ Allowed("RECEIVE", level, q)
                               /\ level' = Apply("RECEIVE", level, q)
     \/ UNCHANGED level
  /\ Return(h)
  /\ UNCHANGED <<store, moves, refunds, told>>

-----------------------------------------------------------------------------
(***************************************************************************)
(* A handler stops half way: the process crashes, the client disconnects   *)
(* (its context cancels every later call), or a call whose error the code  *)
(* returns fails, with or without having had its effect.                   *)
(***************************************************************************)
Abandon(h) ==
  /\ "stop" \in Faults
  /\ pc[h] # "idle"
  /\ Return(h)
  /\ UNCHANGED <<store, services, told>>

Start(h) ==
  \/ "checkout" \in Requests /\ \E k \in Key \cup {NoKey}, c \in Coupons : StartCheckout(h, k, c)
  \/ "pay" \in Requests /\ \E o \in Order : StartPay(h, o)
  \/ "fulfil" \in Requests /\ \E o \in Order : StartFulfil(h, o)
  \/ "cancel" \in Requests /\ \E o \in Order : StartCancel(h, o)
  \/ "return" \in Requests /\ \E o \in Order : StartReturn(h, o)

Proceed(h) ==
  \/ ReadCart(h)
  \/ Quote(h)
  \/ \E o \in Order : Reserve(h, o)
  \/ ReserveRefused(h)
  \/ Create(h)
  \/ CreateFails(h)
  \/ Compensate(h)
  \/ Redeem(h)
  \/ ClearCart(h)
  \/ PublishPlaced(h)
  \/ \E a \in PayAnswers : PayAnswered(h, a)
  \/ PayRefused(h)
  \/ AttachPayment(h)
  \/ Advance(h)
  \/ MarkPaid(h)
  \/ Reread(h)
  \/ PublishConfirmed(h)
  \/ MarkFulfilled(h)
  \/ Ship(h)
  \/ Settle(h)
  \/ MarkSettled(h)
  \/ PublishShipped(h)
  \/ MarkCancelled(h)
  \/ Release(h)
  \/ Refund(h)
  \/ MarkRefunded(h)
  \/ PublishCancelled(h)
  \/ RefundReturn(h)
  \/ MarkReturned(h)
  \/ Restock(h)

Next ==
  \/ ChangeCart
  \/ \E q \in Correction : AdjustStock(q)
  \/ \E h \in Handler : Start(h) \/ Proceed(h) \/ Abandon(h)

Spec == Init /\ [][Next]_vars

\* Every call has a timeout, so a handler that has started goes on.
FairSpec == Spec /\ \A h \in Handler : WF_vars(Proceed(h))

-----------------------------------------------------------------------------
(***************************************************************************)
(* Properties.                                                             *)
(***************************************************************************)

\* The variables have their types.
TypeOK ==
  /\ row \in [Order -> Row \cup {NoRow}]
  /\ redeemed \in 0 .. MaxRedemptions
  /\ cart \in BOOLEAN
  /\ level \in [onHand : Int, reserved : Int]
  /\ moves \in [Order -> [OrderMovement -> Nat]]
  /\ refunds \in [Order -> SUBSET RefundKinds]
  /\ told \in [Order -> [EventType -> 0 .. 2]]
  /\ pc \in [Handler -> Step]
  /\ ord \in [Handler -> Order \cup {NoOrder}]
  /\ key \in [Handler -> Key \cup {NoKey}]
  /\ coupon \in [Handler -> BOOLEAN]
  /\ seen \in [Handler -> Row \cup {NoRow}]
  /\ answer \in [Handler -> PayAnswers]

\* Handlers that work on order o.
Working(o) == {h \in Handler : ord[h] = o}

Status(o) == IF row[o] = NoRow THEN "none" ELSE row[o].status

\* Units reserved for o are its reservations less what was released or shipped.
Held(o) == moves[o]["RESERVE"] - moves[o]["RELEASE"] - moves[o]["SHIP"]

HeldOrders == {o \in Order : Held(o) = 1}

(***************************************************************************)
(* README of order-service: a double pay or cancel is "not a double stock  *)
(* movement".  However many requests race on an order and wherever they    *)
(* stop, its stock is reserved once, and released or shipped at most once, *)
(* never both.                                                             *)
(***************************************************************************)
OneStockOutcome ==
  \A o \in Order : /\ moves[o]["RESERVE"] <= 1
                   /\ moves[o]["RELEASE"] + moves[o]["SHIP"] <= moves[o]["RESERVE"]

(***************************************************************************)
(* domain.Status: an order that is neither shipped nor cancelled has its   *)
(* stock reserved, whatever its other requests, the checkouts it raced and *)
(* the failed calls did.                                                   *)
(***************************************************************************)
LiveOrdersHoldStock ==
  \A o \in Order : Status(o) \in {"PENDING_PAYMENT", "CONFIRMED"} => Held(o) = 1

(***************************************************************************)
(* inventory-service never refuses to ship or to release what an order     *)
(* holds: its reserved column is what orders and others hold, no more.     *)
(***************************************************************************)
InventoryAgrees ==
  /\ level.reserved = Reserved0 + Lines * Cardinality(HeldOrders)
  /\ LevelsInBounds(level)
  /\ \A h \in Handler : /\ pc[h] = "ship" => Accepts("SHIP")
                        /\ pc[h] = "release" => Accepts("RELEASE")

(***************************************************************************)
(* The events other services act on are true: order.placed, order.shipped  *)
(* and order.cancelled are published at most once; order.shipped follows   *)
(* the shipment, order.cancelled the release, order.confirmed (which may   *)
(* be repeated) the confirmation.                                          *)
(***************************************************************************)
EventsAreTrue ==
  \A o \in Order :
    /\ \A e \in EventType \ {"order.confirmed"} : told[o][e] <= 1
    /\ told[o]["order.placed"] > 0 => row[o] # NoRow
    /\ told[o]["order.confirmed"] > 0 => Status(o) \in {"CONFIRMED", "FULFILLED", "CANCELLED"}
    /\ told[o]["order.shipped"] > 0 => Status(o) = "FULFILLED" /\ moves[o]["SHIP"] = 1
    /\ told[o]["order.cancelled"] > 0 => Status(o) = "CANCELLED" /\ moves[o]["RELEASE"] = 1

(***************************************************************************)
(* The payment mirror against the refunds payment-service has made: an     *)
(* order counts as paid only if it has a payment, and as refunded only if  *)
(* a refund was made.  The refund of a cancellation is made after the      *)
(* stock of the cancelled order went back, and never by two handlers; that *)
(* of a return only for a FULFILLED order.                                 *)
(***************************************************************************)
Refunding == {"refund", "refunded"}

MirrorFollowsRefunds ==
  /\ \A o \in Order :
       /\ row[o] # NoRow /\ row[o].pay = "REFUNDED" => refunds[o] # {}
       /\ "cancel" \in refunds[o] => Status(o) = "CANCELLED" /\ moves[o]["RELEASE"] = 1
       /\ "return" \in refunds[o] => Status(o) = "FULFILLED"
  /\ \A h \in Handler : /\ pc[h] = "refunded" => "cancel" \in refunds[ord[h]]
                        /\ pc[h] = "returned" => "return" \in refunds[ord[h]]

RefundsFollowRelease ==
  /\ MirrorFollowsRefunds
  /\ \A o \in Order : row[o] # NoRow /\ row[o].pay # "PENDING" => row[o].payment
  /\ \A h \in Handler : pc[h] \in Refunding =>
       /\ Status(ord[h]) = "CANCELLED" /\ moves[ord[h]]["RELEASE"] = 1
       /\ \A g \in Handler : pc[g] \in Refunding /\ ord[g] = ord[h] => g = h

(***************************************************************************)
(* The inductive invariant behind the properties above: what the status of *)
(* an order says about its movements and events, what the step of a        *)
(* handler says about its order, and which steps only one handler at a     *)
(* time can be at for one order.                                           *)
(***************************************************************************)
Moved(m, reserved, released, shipped) ==
  m["RESERVE"] = reserved /\ m["RELEASE"] = released /\ m["SHIP"] = shipped

\* An order with row r, movements m and events e.
OrderAt(r, m, e) ==
  \/ /\ r = NoRow
     /\ Moved(m, 0, 0, 0) \/ Moved(m, 1, 0, 0) \/ Moved(m, 1, 1, 0)
     /\ \A type \in EventType : e[type] = 0
  \/ /\ r # NoRow
     /\ r.pay # "PENDING" => r.payment
     /\ e["order.placed"] <= 1
     /\ \/ /\ r.status \in {"PENDING_PAYMENT", "CONFIRMED"}
           /\ r.pay # "REFUNDED"
           /\ Moved(m, 1, 0, 0)
           /\ e["order.confirmed"] = 0 \/ r.status = "CONFIRMED"
           /\ e["order.shipped"] = 0 /\ e["order.cancelled"] = 0
        \/ /\ r.status = "FULFILLED"
           /\ \/ Moved(m, 1, 0, 0) /\ e["order.shipped"] = 0
              \/ Moved(m, 1, 0, 1) /\ e["order.shipped"] <= 1
           /\ e["order.cancelled"] = 0
        \/ /\ r.status = "CANCELLED"
           /\ \/ Moved(m, 1, 0, 0) /\ e["order.cancelled"] = 0 /\ r.pay # "REFUNDED"
              \/ Moved(m, 1, 1, 0) /\ e["order.cancelled"] <= 1
           /\ e["order.shipped"] = 0

\* The steps, by what a handler at them knows of its order.
Unassigned == {"idle", "cart", "quote", "reserve"}
Unwritten  == {"create", "compensate"}
Placed     == {"redeem", "clear", "tellPlaced"}
Shipped    == {"settle", "settled", "tellShipped"}
Released   == Refunding \cup {"tellCancelled"}
Attached   == {"advance", "paid", "settle", "settled"}
Resolving  == {"return", "returned", "restock"}

\* A handler at step p that has loaded the row s of an order as above.
HandlerAt(p, s, r, m, e) ==
  /\ p \in Unwritten => r = NoRow /\ Moved(m, 1, 0, 0)
  /\ p \notin Unwritten => r # NoRow
  /\ p \notin Unwritten \cup Placed => s # NoRow /\ (s.payment => r.payment)
  /\ p \in Placed => e["order.placed"] = 0
  /\ p \in Attached => r.payment
  /\ p = "tellConfirmed" => r.status # "PENDING_PAYMENT"
  /\ p = "ship" => r.status = "FULFILLED" /\ Moved(m, 1, 0, 0)
  /\ p \in Shipped => r.status = "FULFILLED" /\ Moved(m, 1, 0, 1) /\ e["order.shipped"] = 0
  /\ p \in Resolving => r.status = "FULFILLED"
  /\ p = "release" => r.status = "CANCELLED" /\ Moved(m, 1, 0, 0)
  /\ p \in Released => r.status = "CANCELLED" /\ Moved(m, 1, 1, 0) /\ e["order.cancelled"] = 0

\* Two handlers are never both in one of these groups for the same order.
Exclusive == {Unwritten \cup Placed, {"ship"} \cup Shipped, {"release"} \cup Released}

Compatible(p, q) == \A steps \in Exclusive : p \notin steps \/ q \notin steps

OrderPhases ==
  /\ \A o \in Order : OrderAt(row[o], moves[o], told[o])
  /\ \A h \in Handler :
       IF pc[h] \in Unassigned
         THEN ord[h] = NoOrder
         ELSE /\ ord[h] \in Order
              /\ HandlerAt(pc[h], seen[h], row[ord[h]], moves[ord[h]], told[ord[h]])
  /\ \A g, h \in Handler :
       g # h /\ ord[g] = ord[h] /\ ord[h] # NoOrder => Compatible(pc[g], pc[h])

(***************************************************************************)
(* Without failures nothing is lost: stock is held only for a live order   *)
(* or for one a handler is working on.  In particular a checkout that      *)
(* loses the race for its Idempotency-Key gives its reservation back.      *)
(***************************************************************************)
NothingLeaks ==
  \A o \in Order : Held(o) = 1 /\ Working(o) = {} => Status(o) \in {"PENDING_PAYMENT", "CONFIRMED"}

(***************************************************************************)
(* max_redemptions is checked by the quote and counted after the order is  *)
(* written.  Checkouts that overlap can exceed it, but without failures by *)
(* no more than the other checkouts that were under way.                   *)
(***************************************************************************)
CouponOverrunBounded ==
  Cardinality({o \in Order : row[o] # NoRow /\ row[o].coupon})
    <= MaxRedemptions + Cardinality(Handler) - 1

\* Without failures every order that is cancelled or fulfilled settles its stock.
CancelReleases ==
  \A o \in Order : Status(o) = "CANCELLED" ~> moves[o]["RELEASE"] = 1

FulfilShips ==
  \A o \in Order : Status(o) = "FULFILLED" ~> moves[o]["SHIP"] = 1

\* Every request is answered.
RequestsEnd == \A h \in Handler : pc[h] # "idle" ~> pc[h] = "idle"

-----------------------------------------------------------------------------
(***************************************************************************)
(* README of order-service: "if the order row cannot be written after      *)
(* stock was reserved, the reservation is released before returning the    *)
(* error".                                                                 *)
(***************************************************************************)
UnwrittenOrdersHoldNothing ==
  \A o \in Order : row[o] = NoRow /\ Working(o) = {} => Held(o) = 0

(***************************************************************************)
(* domain.Status: FULFILLED is "shipped - reserved stock removed from      *)
(* on-hand"; so it is once no handler works on the order any more.         *)
(***************************************************************************)
FulfilledIsShipped ==
  \A o \in Order : Status(o) = "FULFILLED" /\ Working(o) = {} => moves[o]["SHIP"] = 1
=============================================================================
