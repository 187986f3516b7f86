------------------------------ MODULE Payments ------------------------------
(***************************************************************************)
(* payment-service: the payments of one tenant's orders                    *)
(* (payment/services/service.go) and the card gateway behind them          *)
(* (gateway/gateway.go).  A request is a goroutine that reads a payment    *)
(* row with one statement, may call the gateway, and writes the whole row  *)
(* back with another: no transaction or lock spans the steps, so requests  *)
(* and webhook deliveries interleave at each of them.                      *)
(*                                                                         *)
(* Stripe is the environment.  An intent is paid or declined by a customer *)
(* who holds its client secret; Stripe delivers its events any number of   *)
(* times and in any order.  All orders cost Amount.                        *)
(***************************************************************************)
EXTENDS Integers

CONSTANTS
  Order,      \* orders that are paid for
  Intent,     \* bound: PaymentIntents Stripe can create
  Handler,    \* requests that may be in progress at the same time
  Amount,     \* amount_cents of a payment
  Gateways,   \* configurations to consider: a subset of {"stripe", "stub"}
  Faults,     \* what may go wrong: a subset of {"stop"}
  NoRow,      \* an order without a row in table payments
  NoIntent,   \* gateway_ref of a cash payment
  NoOrder     \* the order of an intent that does not exist yet

Method == {"CARD", "COD"}

Status == {"PENDING", "CAPTURED", "FAILED", "REFUNDED"}

Payment == [method : Method, status : Status, refunded : 0 .. Amount,
            intent : Intent \cup {NoIntent}]

ASSUME PaymentsAssumption ==
  /\ Amount \in Nat \ {0}
  /\ Gateways \subseteq {"stripe", "stub"}
  /\ Faults \subseteq {"stop"}
  /\ NoRow \notin Payment
  /\ NoIntent \notin Intent
  /\ NoOrder \notin Order

\* The events HandleWebhook acts on.
WebhookEvent == {"succeeded", "payment_failed", "canceled"}

\* What Stripe knows of an intent; a declined card leaves it open.
StripeIntent == [order : Order \cup {NoOrder}, status : {"unused", "open", "succeeded", "canceled"},
                 refunded : 0 .. Amount]

EventType == {"payment.captured", "payment.refunded"}

Step == {"idle", "intent", "insert", "answer", "get", "refund", "save", "tell"}

VARIABLES
  row,        \* table payments, by order
  gateway,    \* the configured gateway
  stripe,     \* stripe[i]: intent i at the gateway
  sent,       \* sent[i]: events Stripe has sent, and may send again
  disclosed,  \* intents whose client secret a customer has
  told,       \* told[o]: types of the events published for o
  pc,         \* pc[h]: the next step of handler h
  ord,        \* the order h works on
  seen,       \* the row h has read
  mine,       \* the payment h will write
  amt,        \* the amount h refunds
  event       \* the event h publishes once it has written

request == <<ord, seen, mine, amt, event>>
vars == <<row, gateway, stripe, sent, disclosed, told, pc, ord, seen, mine, amt, event>>

-----------------------------------------------------------------------------
Init ==
  /\ row = [o \in Order |-> NoRow]
  /\ gateway \in Gateways
  /\ stripe = [i \in Intent |-> [order |-> NoOrder, status |-> "unused", refunded |-> 0]]
  /\ sent = [i \in Intent |-> {}]
  /\ disclosed = {}
  /\ told = [o \in Order |-> {}]
  /\ pc = [h \in Handler |-> "idle"]
  /\ ord = [h \in Handler |-> NoOrder]
  /\ seen = [h \in Handler |-> NoRow]
  /\ mine = [h \in Handler |-> NoRow]
  /\ amt = [h \in Handler |-> 0]
  /\ event = [h \in Handler |-> "none"]

Goto(h, step) == pc' = [pc EXCEPT ![h] = step]

\* The handler answers its caller, with success or with an error.
Return(h) ==
  /\ Goto(h, "idle")
  /\ ord' = [ord EXCEPT ![h] = NoOrder]
  /\ seen' = [seen EXCEPT ![h] = NoRow]
  /\ mine' = [mine EXCEPT ![h] = NoRow]
  /\ amt' = [amt EXCEPT ![h] = 0]
  /\ event' = [event EXCEPT ![h] = "none"]

\* An idle handler starts work on o with payment p in memory.
Begin(h, o, p, step) ==
  /\ pc[h] = "idle"
  /\ Goto(h, step)
  /\ ord' = [ord EXCEPT ![h] = o]
  /\ seen' = [seen EXCEPT ![h] = row[o]]
  /\ mine' = [mine EXCEPT ![h] = p]

\* Handler h is to write p and then to publish e.
WillSave(h, p, e) ==
  /\ Goto(h, "save")
  /\ mine' = [mine EXCEPT ![h] = p]
  /\ event' = [event EXCEPT ![h] = e]

CapturedForgets(p) == p

Captured(p) == [p EXCEPT !.status = "CAPTURED"]

Failed(p) == [p EXCEPT !.status = "FAILED"]

RefundableForgets(p) == Amount

Refundable(p) == Amount - p.refunded

ApplyRefund(p, a) ==
  [p EXCEPT !.refunded = @ + a,
            !.status = IF p.refunded + a >= Amount THEN "REFUNDED" ELSE @]

-----------------------------------------------------------------------------
(***************************************************************************)
(* Stripe and the customer.                                                *)
(***************************************************************************)
Stripe == <<row, gateway, told, pc, request>>

CustomerPays(i) ==
  /\ i \in disclosed
  /\ stripe[i].status = "open"
  /\ stripe' = [stripe EXCEPT ![i].status = "succeeded"]
  /\ sent' = [sent EXCEPT ![i] = @ \cup {"succeeded"}]
  /\ UNCHANGED <<disclosed, Stripe>>

CardDeclined(i) ==
  /\ i \in disclosed
  /\ stripe[i].status = "open"
  /\ sent' = [sent EXCEPT ![i] = @ \cup {"payment_failed"}]
  /\ UNCHANGED <<stripe, disclosed, Stripe>>

\* Somebody cancels an unpaid intent at Stripe.
IntentCanceled(i) ==
  /\ gateway = "stripe"
  /\ stripe[i].status = "open"
  /\ stripe' = [stripe EXCEPT ![i].status = "canceled"]
  /\ sent' = [sent EXCEPT ![i] = @ \cup {"canceled"}]
  /\ UNCHANGED <<disclosed, Stripe>>

-----------------------------------------------------------------------------
(***************************************************************************)
(* CreateForOrder.                                                         *)
(***************************************************************************)
NewPayment(m) == [method |-> m, status |-> "PENDING", refunded |-> 0, intent |-> NoIntent]

StartCreate(h, o, m) ==
  /\ row[o] = NoRow
  /\ Begin(h, o, NewPayment(m), IF m = "CARD" THEN "intent" ELSE "insert")
  /\ UNCHANGED <<row, gateway, stripe, sent, disclosed, told, amt, event>>

\* The order has a payment: it is the answer, with its client secret.
CreateAgain(o) ==
  /\ row[o] # NoRow
  /\ disclosed' = disclosed \cup ({row[o].intent} \ {NoIntent})
  /\ UNCHANGED <<row, gateway, stripe, sent, told, pc, request>>

\* Stripe opens an intent; the stub gateway has it paid at once.
CreateIntent(h, i) ==
  /\ pc[h] = "intent"
  /\ stripe[i].status = "unused"
  /\ LET paid == gateway = "stub"
         p == [mine[h] EXCEPT !.intent = i]
     IN  /\ stripe' = [stripe EXCEPT ![i].order = ord[h],
                                     ![i].status = IF paid THEN "succeeded" ELSE "open"]
         /\ mine' = [mine EXCEPT ![h] = IF paid THEN Captured(p) ELSE p]
         /\ event' = [event EXCEPT ![h] = IF paid THEN "payment.captured" ELSE "none"]
  /\ Goto(h, "insert")
  /\ UNCHANGED <<row, gateway, sent, disclosed, told, ord, seen, amt>>

\* The gateway fails, or its intents are used up (bound).
NoIntentOpened(h) ==
  /\ pc[h] = "intent"
  /\ Return(h)
  /\ UNCHANGED <<row, gateway, stripe, sent, disclosed, told>>

Insert(h) ==
  /\ pc[h] = "insert"
  /\ row[ord[h]] = NoRow
  /\ row' = [row EXCEPT ![ord[h]] = mine[h]]
  /\ Goto(h, IF event[h] = "none" THEN "answer" ELSE "tell")
  /\ UNCHANGED <<gateway, stripe, sent, disclosed, told, request>>

\* payments_tenant_order_key: another request was faster, its payment is read.
ClashAnswersOwn(h) ==
  /\ pc[h] = "insert"
  /\ row[ord[h]] # NoRow
  /\ Goto(h, "answer")
  /\ UNCHANGED <<row, gateway, stripe, sent, disclosed, told, request>>

InsertClashes(h) ==
  /\ pc[h] = "insert"
  /\ row[ord[h]] # NoRow
  /\ mine' = [mine EXCEPT ![h] = row[ord[h]]]
  /\ Goto(h, "answer")
  /\ UNCHANGED <<row, gateway, stripe, sent, disclosed, told, ord, seen, amt, event>>

\* Only the answer to a create carries the client secret.
Answer(h) ==
  /\ pc[h] = "answer"
  /\ disclosed' = disclosed \cup ({mine[h].intent} \ {NoIntent})
  /\ Return(h)
  /\ UNCHANGED <<row, gateway, stripe, sent, told>>

-----------------------------------------------------------------------------
(***************************************************************************)
(* Sync, Settle, Refund and HandleWebhook.  A request for which the row    *)
(* has the wrong status changes nothing and needs no action.               *)
(***************************************************************************)
StartSync(h, o) ==
  /\ row[o] # NoRow
  /\ row[o].method = "CARD" /\ row[o].status = "PENDING"
  /\ Begin(h, o, row[o], "get")
  /\ UNCHANGED <<row, gateway, stripe, sent, disclosed, told, amt, event>>

OpenIsPaid(h) ==
  /\ pc[h] = "get"
  /\ IF stripe[mine[h].intent].status = "canceled"
       THEN WillSave(h, Failed(mine[h]), "none")
       ELSE WillSave(h, Captured(mine[h]), "payment.captured")
  /\ UNCHANGED <<ord, seen, amt>>
  /\ UNCHANGED <<row, gateway, stripe, sent, disclosed, told>>

GetIntent(h) ==
  /\ pc[h] = "get"
  /\ LET status == stripe[mine[h].intent].status
     IN  \/ /\ status = "succeeded"
            /\ WillSave(h, Captured(mine[h]), "payment.captured")
            /\ UNCHANGED <<ord, seen, amt>>
         \/ /\ status = "canceled"
            /\ WillSave(h, Failed(mine[h]), "none")
            /\ UNCHANGED <<ord, seen, amt>>
         \/ status = "open" /\ Return(h)
  /\ UNCHANGED <<row, gateway, stripe, sent, disclosed, told>>

Settle(h, o) ==
  /\ row[o] # NoRow
  /\ row[o].method = "COD" /\ row[o].status = "PENDING"
  /\ Begin(h, o, Captured(row[o]), "save")
  /\ event' = [event EXCEPT ![h] = "payment.captured"]
  /\ UNCHANGED <<row, gateway, stripe, sent, disclosed, told, amt>>

\* A full refund asks for Refundable, a return for less; cash needs no gateway.
StartRefund(h, o, a) ==
  /\ row[o] # NoRow
  /\ row[o].status = "CAPTURED"
  /\ a \in 1 .. Refundable(row[o])
  /\ amt' = [amt EXCEPT ![h] = a]
  /\ \/ /\ row[o].method = "CARD"
        /\ Begin(h, o, row[o], "refund")
        /\ UNCHANGED event
     \/ /\ row[o].method = "COD"
        /\ Begin(h, o, ApplyRefund(row[o], a), "save")
        /\ event' = [event EXCEPT ![h] = "payment.refunded"]
  /\ UNCHANGED <<row, gateway, stripe, sent, disclosed, told>>

\* Stripe refunds no more than was paid; the stub accepts everything.
RefundAccepted(i, a) ==
  gateway = "stripe" => stripe[i].refunded + a <= Amount

Refund(h) ==
  /\ pc[h] = "refund"
  /\ LET i == mine[h].intent
     IN  IF RefundAccepted(i, amt[h])
           THEN /\ stripe' = IF gateway = "stub" THEN stripe
                             ELSE [stripe EXCEPT ![i].refunded = @ + amt[h]]
                /\ WillSave(h, ApplyRefund(mine[h], amt[h]), "payment.refunded")
                /\ UNCHANGED <<ord, seen, amt>>
           ELSE Return(h) /\ UNCHANGED stripe
  /\ UNCHANGED <<row, gateway, sent, disclosed, told>>

\* HandleWebhook ignores an intent it does not know and a payment that is settled.
AnyStatus(o) == TRUE

Awaiting(o) == row[o].status = "PENDING"

Webhook(h, o, i, e) ==
  /\ e \in sent[i]
  /\ row[o] # NoRow
  /\ row[o].intent = i
  /\ Awaiting(o)
  /\ \/ /\ e = "succeeded"
        /\ Begin(h, o, Captured(row[o]), "save")
        /\ event' = [event EXCEPT ![h] = "payment.captured"]
     \/ /\ e # "succeeded"
        /\ Begin(h, o, Failed(row[o]), "save")
        /\ UNCHANGED event
  /\ UNCHANGED <<row, gateway, stripe, sent, disclosed, told, amt>>

\* repository.Update writes status and refunded_cents whatever the row has become.
Save(h) ==
  /\ pc[h] = "save"
  /\ row' = [row EXCEPT ![ord[h]] = mine[h]]
  /\ IF event[h] = "none"
       THEN Return(h)
       ELSE Goto(h, "tell") /\ UNCHANGED request
  /\ UNCHANGED <<gateway, stripe, sent, disclosed, told>>

\* A failure to publish is logged and ignored.
Tell(h) ==
  /\ pc[h] = "tell"
  /\ \/ told' = [told EXCEPT ![ord[h]] = @ \cup {event[h]}]
     \/ UNCHANGED told
  /\ Return(h)
  /\ UNCHANGED <<row, gateway, stripe, sent, disclosed>>

\* The process crashes, the caller gives up, or a call fails with or without effect.
Abandon(h) ==
  /\ "stop" \in Faults
  /\ pc[h] # "idle"
  /\ Return(h)
  /\ UNCHANGED <<row, gateway, stripe, sent, disclosed, told>>

-----------------------------------------------------------------------------
Environment(i) == CustomerPays(i) \/ CardDeclined(i) \/ IntentCanceled(i)

Start(h, o) ==
  \/ \E m \in Method : StartCreate(h, o, m)
  \/ StartSync(h, o)
  \/ Settle(h, o)
  \/ \E a \in 1 .. Amount : StartRefund(h, o, a)
  \/ \E i \in Intent, e \in WebhookEvent : Webhook(h, o, i, e)

Proceed(h) ==
  \/ \E i \in Intent : CreateIntent(h, i)
  \/ NoIntentOpened(h)
  \/ Insert(h)
  \/ InsertClashes(h)
  \/ Answer(h)
  \/ GetIntent(h)
  \/ Refund(h)
  \/ Save(h)
  \/ Tell(h)

Next ==
  \/ \E i \in Intent : Environment(i)
  \/ \E o \in Order : CreateAgain(o)
  \/ \E h \in Handler : (\E o \in Order : Start(h, o)) \/ Proceed(h) \/ Abandon(h)

Spec == Init /\ [][Next]_vars

(***************************************************************************)
(* Calls have timeouts, so a handler goes on.  Stripe delivers an event    *)
(* again until it is acknowledged, and not every attempt meets a crash.    *)
(***************************************************************************)
FairSpec ==
  /\ Spec
  /\ \A h \in Handler : WF_vars(Proceed(h)) /\ SF_vars(Save(h))
  /\ \A o \in Order, i \in Intent : SF_vars(\E h \in Handler : Webhook(h, o, i, "succeeded"))

-----------------------------------------------------------------------------
(***************************************************************************)
(* Properties.                                                             *)
(***************************************************************************)

\* The variables have their types; in particular no refund exceeds the amount.
TypeOK ==
  /\ row \in [Order -> Payment \cup {NoRow}]
  /\ gateway \in {"stripe", "stub"}
  /\ stripe \in [Intent -> StripeIntent]
  /\ sent \in [Intent -> SUBSET WebhookEvent]
  /\ disclosed \in SUBSET Intent
  /\ told \in [Order -> SUBSET EventType]
  /\ pc \in [Handler -> Step]
  /\ ord \in [Handler -> Order \cup {NoOrder}]
  /\ seen \in [Handler -> Payment \cup {NoRow}]
  /\ mine \in [Handler -> Payment \cup {NoRow}]
  /\ amt \in [Handler -> 0 .. Amount]
  /\ event \in [Handler -> EventType \cup {"none"}]

(***************************************************************************)
(* "CreateForOrder is idempotent on (tenant, order)": several creates of   *)
(* one order may each open an intent, but the customer can pay only the    *)
(* one the payment row keeps, so no order is paid twice.                   *)
(***************************************************************************)
NeverChargedTwice ==
  gateway = "stripe" =>
    \A i \in Intent : stripe[i].status = "succeeded" =>
      LET o == stripe[i].order
      IN  o \in Order /\ row[o] # NoRow /\ row[o].intent = i

(***************************************************************************)
(* What the row and the published events say of a card payment has         *)
(* happened at Stripe, however stale the snapshot a request wrote: money   *)
(* counted as received was paid, refunds counted were made, a FAILED       *)
(* payment was declined or canceled.                                       *)
(***************************************************************************)
Backed(p, i, events) ==
  /\ p.status \in {"CAPTURED", "REFUNDED"} => stripe[i].status = "succeeded"
  /\ p.status = "FAILED" => stripe[i].status = "canceled" \/ "payment_failed" \in sent[i]
  /\ p.refunded <= stripe[i].refunded
  /\ "payment.captured" \in events => stripe[i].status = "succeeded"
  /\ "payment.refunded" \in events => stripe[i].refunded > 0

MoneyBacked ==
  /\ \A o \in Order : row[o] # NoRow => (row[o].status = "REFUNDED" <=> row[o].refunded = Amount)
  /\ gateway = "stripe" =>
       \A o \in Order : row[o] # NoRow /\ row[o].method = "CARD" =>
         Backed(row[o], row[o].intent, told[o])

(***************************************************************************)
(* The inductive invariant behind the two properties above: what an intent *)
(* can be, what is true of every payment a request may write, and what the *)
(* step of a request says about its order.                                 *)
(***************************************************************************)
IntentPhase(i) ==
  /\ stripe[i].status # "unused" => stripe[i].order \in Order
  /\ gateway = "stripe" /\ stripe[i].status = "succeeded" => i \in disclosed
  /\ i \in disclosed => /\ stripe[i].status # "unused"
                        /\ row[stripe[i].order] # NoRow
                        /\ row[stripe[i].order].intent = i
  /\ "succeeded" \in sent[i] => stripe[i].status = "succeeded"
  /\ "canceled" \in sent[i] => stripe[i].status = "canceled"

\* Payment p of order o is well formed, and backed by Stripe.
Sound(o, p) ==
  /\ p.status = "REFUNDED" <=> p.refunded = Amount
  /\ IF p.method = "COD"
       THEN p.intent = NoIntent
       ELSE /\ p.intent \in Intent
            /\ stripe[p.intent].status # "unused"
            /\ stripe[p.intent].order = o
            /\ gateway = "stripe" => Backed(p, p.intent, {})

\* Event e about order o, whose payment is p, is true.
TrueEvent(p, e) ==
  gateway = "stripe" /\ p.method = "CARD" =>
    /\ e = "payment.captured" => stripe[p.intent].status = "succeeded"
    /\ e = "payment.refunded" => stripe[p.intent].refunded > 0

RowPhase(o) ==
  /\ row[o] # NoRow => Sound(o, row[o]) /\ \A e \in told[o] : TrueEvent(row[o], e)
  /\ row[o] = NoRow => told[o] = {}

\* p is another version of the payment of order o.
SamePayment(o, p) == row[o] # NoRow /\ p.method = row[o].method /\ p.intent = row[o].intent

\* A request at step q for order o, holding payment p, amount a and event e.
HandlerAt(q, o, p, a, e) ==
  /\ q = "idle" => e = "none"
  /\ q # "idle" => o \in Order /\ p # NoRow
  /\ q = "intent" => p = NewPayment("CARD") /\ e = "none"
  /\ q = "insert" => Sound(o, p) /\ TrueEvent(p, e)
  /\ q \in {"answer", "get", "refund", "save", "tell"} => SamePayment(o, p)
  /\ q \in {"get", "refund", "save"} => Sound(o, p)
  /\ q = "get" => p.method = "CARD" /\ p.status = "PENDING"
  /\ q = "refund" => p.method = "CARD" /\ p.status = "CAPTURED" /\ a \in 1 .. Refundable(p)
  /\ q = "tell" => e # "none"
  /\ q \in {"save", "tell"} => TrueEvent(p, e)

HandlerPhase(h) == HandlerAt(pc[h], ord[h], mine[h], amt[h], event[h])

PaymentPhases ==
  /\ \A i \in Intent : IntentPhase(i)
  /\ \A o \in Order : RowPhase(o)
  /\ \A h \in Handler : HandlerPhase(h)

(***************************************************************************)
(* The payment lifecycle: PENDING to CAPTURED or FAILED, CAPTURED to       *)
(* REFUNDED, refunded_cents rising.  The code has no lock or condition to  *)
(* enforce it; it does guarantee that a step off this path comes from a    *)
(* request whose snapshot another request has overtaken.                   *)
(***************************************************************************)
Follows(p, q) ==
  \/ q = p
  \/ p.status = "PENDING" /\ q \in {Captured(p), Failed(p)}
  \/ p.status = "CAPTURED" /\ \E a \in 1 .. Refundable(p) : q = ApplyRefund(p, a)

OnlyStaleWritesRegress ==
  [][\A o \in Order : row[o] # NoRow /\ ~Follows(row[o], row'[o]) =>
       \E h \in Handler : pc[h] = "save" /\ ord[h] = o /\ seen[h] # row[o]]_vars

(***************************************************************************)
(* A payment the customer made at the first attempt is noticed, even if    *)
(* nobody calls Sync and whatever requests stop: its row is CAPTURED, or   *)
(* later REFUNDED, for good.  An intent that was declined once and paid    *)
(* then is excepted: HandleWebhook has marked the payment FAILED and       *)
(* ignores the success (service.go:194).                                   *)
(***************************************************************************)
PaidIsNoticed ==
  \A i \in Intent :
    gateway = "stripe" /\ stripe[i].status = "succeeded" /\ "payment_failed" \notin sent[i]
      ~> [](\E o \in Order : /\ row[o] # NoRow /\ row[o].intent = i
                             /\ row[o].status \in {"CAPTURED", "REFUNDED"})

(***************************************************************************)
(* Migration 4 of payment-service: refunded_cents is there to "track how   *)
(* much of a payment has been refunded".  When no request works on the     *)
(* order, it is what Stripe has paid back.                                 *)
(***************************************************************************)
RefundsTracked ==
  \A o \in Order :
    gateway = "stripe" /\ row[o] # NoRow /\ row[o].intent # NoIntent
      /\ (\A h \in Handler : ord[h] # o)
    => row[o].refunded = stripe[row[o].intent].refunded
=============================================================================
