-------------------------- MODULE Payments_proofs ---------------------------
(***************************************************************************)
(* What payment-service guarantees for any number of orders, intents and   *)
(* requests in progress, wherever requests stop: no order is paid twice,   *)
(* and what a payment row says happened at Stripe did happen.              *)
(***************************************************************************)
EXTENDS Payments, TLAPS

Inv == TypeOK /\ PaymentPhases

-----------------------------------------------------------------------------
(***************************************************************************)
(* The updates a request makes to the payment it holds.                    *)
(***************************************************************************)
LEMMA StatusUpdate ==
  ASSUME NEW p \in Payment
  PROVE  /\ \A s \in Status : [p EXCEPT !.status = s] \in Payment
         /\ Captured(p).status = "CAPTURED" /\ Failed(p).status = "FAILED"
         /\ \A q \in {Captured(p), Failed(p)} :
              q \in Payment /\ q.method = p.method /\ q.intent = p.intent /\ q.refunded = p.refunded
BY DEF Payment, Status, Captured, Failed

LEMMA IntentUpdate ==
  ASSUME NEW p \in Payment, NEW i \in Intent
  PROVE  LET q == [p EXCEPT !.intent = i]
         IN  /\ q \in Payment /\ q.method = p.method /\ q.status = p.status
             /\ q.refunded = p.refunded /\ q.intent = i
BY DEF Payment

LEMMA RefundUpdate ==
  ASSUME NEW p \in Payment, NEW a \in 1 .. Refundable(p)
  PROVE  LET q == ApplyRefund(p, a)
         IN  /\ q \in Payment /\ q.method = p.method /\ q.intent = p.intent
             /\ q.refunded = p.refunded + a
             /\ q.status = IF p.refunded + a >= Amount THEN "REFUNDED" ELSE p.status
<1>1. \A r \in 0 .. Amount, s \in Status :
        LET q == [p EXCEPT !.refunded = r, !.status = s]
        IN  /\ q \in Payment /\ q.method = p.method /\ q.intent = p.intent
            /\ q.refunded = r /\ q.status = s
  BY DEF Payment
<1>2. p.refunded \in 0 .. Amount /\ p.status \in Status
  BY DEF Payment
<1>3. p.refunded + a \in 0 .. Amount
  BY <1>2, PaymentsAssumption DEF Refundable
<1>4. (IF p.refunded + a >= Amount THEN "REFUNDED" ELSE p.status) \in Status
  BY <1>2 DEF Status
<1> QED  BY <1>1, <1>3, <1>4 DEF ApplyRefund

LEMMA NewPaymentType ==
  ASSUME NEW m \in Method
  PROVE  /\ NewPayment(m) \in Payment
         /\ NewPayment(m).method = m /\ NewPayment(m).status = "PENDING"
         /\ NewPayment(m).refunded = 0 /\ NewPayment(m).intent = NoIntent
BY PaymentsAssumption DEF NewPayment, Payment, Status

\* An update of an intent keeps its other fields.
LEMMA StripeRefunded ==
  ASSUME NEW s \in StripeIntent, NEW r \in 0 .. Amount
  PROVE  LET t == [s EXCEPT !.refunded = r]
         IN  t \in StripeIntent /\ t.status = s.status /\ t.order = s.order /\ t.refunded = r
BY DEF StripeIntent

-----------------------------------------------------------------------------
(***************************************************************************)
(* Stripe only moves forward, so what was backed by it stays backed.       *)
(***************************************************************************)
Grows ==
  /\ gateway' = gateway
  /\ \A i \in Intent :
       /\ stripe[i].status # "unused" =>
            stripe'[i].status # "unused" /\ stripe'[i].order = stripe[i].order
       /\ stripe[i].status = "succeeded" => stripe'[i].status = "succeeded"
       /\ stripe[i].status = "canceled" => stripe'[i].status = "canceled"
       /\ stripe[i].refunded <= stripe'[i].refunded
       /\ sent[i] \subseteq sent'[i]

LEMMA StaysSound ==
  ASSUME TypeOK, TypeOK', Grows, NEW o, NEW p \in Payment, Sound(o, p)
  PROVE  Sound(o, p)'
<1>1. CASE p.method = "COD"
  BY <1>1 DEF Sound
<1>2. CASE p.method # "COD"
  <2>1. p.intent \in Intent /\ stripe'[p.intent].status # "unused" /\ stripe'[p.intent].order = o
    BY <1>2 DEF Sound, Grows
  <2>2. /\ stripe[p.intent].refunded \in Int /\ stripe'[p.intent].refunded \in Int
        /\ p.refunded \in Int
    BY <2>1 DEF TypeOK, StripeIntent, Payment
  <2>3. ASSUME gateway' = "stripe"
        PROVE  Backed(p, p.intent, {})'
    <3>1. Backed(p, p.intent, {})
      BY <1>2, <2>3 DEF Sound, Grows
    <3> QED  BY <2>1, <2>2, <3>1 DEF Grows, Backed
  <2> QED  BY <1>2, <2>1, <2>3 DEF Sound
<1> QED  BY <1>1, <1>2

LEMMA StaysTrue ==
  ASSUME TypeOK, TypeOK', Grows, NEW o, NEW p \in Payment, NEW e, Sound(o, p), TrueEvent(p, e)
  PROVE  TrueEvent(p, e)'
<1>1. CASE gateway = "stripe" /\ p.method = "CARD"
  <2>1. p.intent \in Intent
    BY <1>1 DEF Sound
  <2>2. stripe[p.intent].refunded \in Int /\ stripe'[p.intent].refunded \in Int
    BY <2>1 DEF TypeOK, StripeIntent
  <2> QED  BY <1>1, <2>1, <2>2 DEF TrueEvent, Grows
<1> QED  BY <1>1 DEF TrueEvent, Grows

-----------------------------------------------------------------------------
(***************************************************************************)
(* Framing: what a step of handler h leaves as it is.                      *)
(***************************************************************************)
Keeps(g) == /\ pc'[g] = pc[g] /\ ord'[g] = ord[g] /\ mine'[g] = mine[g]
            /\ amt'[g] = amt[g] /\ event'[g] = event[g]

OthersKeep(h) == \A g \in Handler \ {h} : Keeps(g)

RowsKeep ==
  \A o \in Order : row[o] # NoRow =>
    row'[o] # NoRow /\ row'[o].method = row[o].method /\ row'[o].intent = row[o].intent

Shared == <<row, gateway, stripe, sent, disclosed, told>>

LEMMA Facts ==
  ASSUME Inv
  PROVE  /\ \A i \in Intent : stripe[i] \in StripeIntent /\ IntentPhase(i)
         /\ \A o \in Order : /\ RowPhase(o)
                             /\ row[o] # NoRow => row[o] \in Payment
         /\ \A h \in Handler : /\ HandlerPhase(h)
                               /\ mine[h] # NoRow => mine[h] \in Payment
BY DEF Inv, TypeOK, PaymentPhases

LEMMA StaysAt ==
  ASSUME Inv, TypeOK', Grows, RowsKeep,
         NEW q, NEW o, NEW p, NEW a, NEW e,
         p \in Payment \/ p = NoRow,
         HandlerAt(q, o, p, a, e)
  PROVE  HandlerAt(q, o, p, a, e)'
<1>1. CASE q = "idle"
  BY <1>1 DEF HandlerAt
<1>2. CASE q # "idle"
  <2>1. o \in Order /\ p # NoRow /\ p \in Payment
    BY <1>2 DEF HandlerAt
  <2>2. SamePayment(o, p) => SamePayment(o, p)'
    BY <2>1 DEF SamePayment, RowsKeep
  <2>3. Sound(o, p) => Sound(o, p)'
    BY <2>1, StaysSound DEF Inv
  <2>4. Sound(o, p) /\ TrueEvent(p, e) => TrueEvent(p, e)'
    BY <2>1, StaysTrue DEF Inv
  <2>5. SamePayment(o, p) /\ TrueEvent(p, e) => TrueEvent(p, e)'
    <3>1. SamePayment(o, p) /\ p.method = "CARD" => p.intent \in Intent
      BY <2>1, Facts DEF SamePayment, RowPhase, Sound
    <3>2. \A i \in Intent : stripe[i].refunded \in Int /\ stripe'[i].refunded \in Int
      BY DEF Inv, TypeOK, StripeIntent
    <3> QED  BY <3>1, <3>2 DEF TrueEvent, Grows
  <2> QED  BY <1>2, <2>1, <2>2, <2>3, <2>4, <2>5 DEF HandlerAt
<1> QED  BY <1>1, <1>2

LEMMA OtherHandler ==
  ASSUME Inv, TypeOK', Grows, RowsKeep, NEW g \in Handler, Keeps(g)
  PROVE  HandlerPhase(g)'
<1>1. HandlerAt(pc[g], ord[g], mine[g], amt[g], event[g])
  BY Facts DEF HandlerPhase
<1>2. mine[g] \in Payment \/ mine[g] = NoRow
  BY DEF Inv, TypeOK
<1> QED  BY <1>1, <1>2, StaysAt DEF HandlerPhase, Keeps

LEMMA OtherRow ==
  ASSUME Inv, TypeOK', Grows, NEW o \in Order, row'[o] = row[o], told'[o] = told[o]
  PROVE  RowPhase(o)'
<1>1. ASSUME NEW p, NEW events, p \in Payment, Sound(o, p), \A e \in events : TrueEvent(p, e)
      PROVE  Sound(o, p)' /\ \A e \in events : TrueEvent(p, e)'
  BY <1>1, StaysSound, StaysTrue DEF Inv
<1>2. CASE row[o] = NoRow
  BY <1>2, Facts DEF RowPhase
<1>3. CASE row[o] # NoRow
  <2>1. row[o] \in Payment /\ Sound(o, row[o]) /\ \A e \in told[o] : TrueEvent(row[o], e)
    BY <1>3, Facts DEF RowPhase
  <2> QED  BY <1>1, <1>3, <2>1 DEF RowPhase
<1> QED  BY <1>2, <1>3

LEMMA OtherIntent ==
  ASSUME Inv, Grows, RowsKeep, NEW i \in Intent,
         stripe'[i] = stripe[i], sent'[i] = sent[i], i \in disclosed' <=> i \in disclosed
  PROVE  IntentPhase(i)'
<1>1. IntentPhase(i)
  BY Facts
<1>2. i \in disclosed => stripe[i].order \in Order
  BY <1>1 DEF IntentPhase
<1> QED  BY <1>1, <1>2 DEF IntentPhase, Grows, RowsKeep

HandlersTyped ==
  /\ pc \in [Handler -> Step]
  /\ ord \in [Handler -> Order \cup {NoOrder}]
  /\ seen \in [Handler -> Payment \cup {NoRow}]
  /\ mine \in [Handler -> Payment \cup {NoRow}]
  /\ amt \in [Handler -> 0 .. Amount]
  /\ event \in [Handler -> EventType \cup {"none"}]

SharedTyped ==
  /\ row \in [Order -> Payment \cup {NoRow}]
  /\ gateway \in {"stripe", "stub"}
  /\ stripe \in [Intent -> StripeIntent]
  /\ sent \in [Intent -> SUBSET WebhookEvent]
  /\ disclosed \in SUBSET Intent
  /\ told \in [Order -> SUBSET EventType]

LEMMA Typed == TypeOK <=> HandlersTyped /\ SharedTyped
BY DEF TypeOK, HandlersTyped, SharedTyped

LEMMA TypedNext == TypeOK' <=> HandlersTyped' /\ SharedTyped'
BY DEF TypeOK, HandlersTyped, SharedTyped

LEMMA Frame ==
  ASSUME Inv, TypeOK', Grows, RowsKeep, NEW h \in Handler, OthersKeep(h), HandlerPhase(h)',
         \A i \in Intent : IntentPhase(i)',
         \A o \in Order : RowPhase(o)'
  PROVE  Inv'
<1>1. \A g \in Handler \ {h} : HandlerPhase(g)'
  BY OtherHandler DEF OthersKeep
<1>2. \A g \in Handler : HandlerPhase(g)'
  BY <1>1
<1> QED  BY <1>2 DEF Inv, PaymentPhases

\* A step that changes nothing but the state of h.
LEMMA Quiet ==
  ASSUME Inv, UNCHANGED Shared, HandlersTyped',
         NEW h \in Handler, OthersKeep(h), HandlerPhase(h)'
  PROVE  Inv'
<1>1. TypeOK'
  BY TypedNext DEF Inv, TypeOK, SharedTyped, Shared
<1>2. Grows
  <2>1. \A i \in Intent : stripe[i].refunded \in Int
    BY DEF Inv, TypeOK, StripeIntent
  <2> QED  BY <2>1 DEF Grows, Shared
<1>3. RowsKeep
  BY DEF RowsKeep, Shared
<1>4. \A i \in Intent : IntentPhase(i)'
  BY <1>2, <1>3, OtherIntent DEF Shared
<1>5. \A o \in Order : RowPhase(o)'
  BY <1>1, <1>2, OtherRow DEF Shared
<1> QED  BY <1>1, <1>2, <1>3, <1>4, <1>5, Frame

LEMMA Returned ==
  ASSUME TypeOK, NEW h \in Handler, Return(h)
  PROVE  OthersKeep(h) /\ HandlersTyped' /\ HandlerPhase(h)'
<1>1. HandlersTyped'
  BY PaymentsAssumption DEF TypeOK, HandlersTyped, Return, Goto, Step
<1>2. OthersKeep(h)
  BY DEF TypeOK, OthersKeep, Keeps, Return, Goto
<1>3. pc'[h] = "idle" /\ event'[h] = "none"
  BY DEF TypeOK, Return, Goto
<1> QED  BY <1>1, <1>2, <1>3 DEF HandlerPhase, HandlerAt

-----------------------------------------------------------------------------
(***************************************************************************)
(* Each action preserves the invariant.  First the steps of Stripe, its    *)
(* customers and the repeated create, which no handler takes.              *)
(***************************************************************************)
LEMMA NoHandler ==
  ASSUME Inv, SharedTyped', Grows, UNCHANGED <<row, told, pc, request>>,
         \A i \in Intent : IntentPhase(i)'
  PROVE  Inv'
<1>1. TypeOK'
  BY TypedNext DEF Inv, TypeOK, HandlersTyped, request
<1>2. RowsKeep
  BY DEF RowsKeep
<1>3. \A g \in Handler : Keeps(g)
  BY DEF Keeps, request
<1>4. \A g \in Handler : HandlerPhase(g)'
  BY <1>1, <1>2, <1>3, OtherHandler
<1>5. \A o \in Order : RowPhase(o)'
  BY <1>1, OtherRow
<1> QED  BY <1>1, <1>4, <1>5 DEF Inv, PaymentPhases

LEMMA EnvironmentStep ==
  ASSUME Inv, NEW i \in Intent, Environment(i)
  PROVE  Inv'
<1> DEFINE s == stripe[i]
<1>1. s \in StripeIntent /\ IntentPhase(i) /\ sent[i] \in SUBSET WebhookEvent
  BY Facts DEF Inv, TypeOK
<1>2. stripe[i].status = "open" /\ UNCHANGED <<row, told, pc, request, gateway, disclosed>>
  BY DEF Environment, CustomerPays, CardDeclined, IntentCanceled, Stripe
<1>3. \A j \in Intent \ {i} : stripe'[j] = stripe[j] /\ sent'[j] = sent[j]
  BY DEF Environment, CustomerPays, CardDeclined, IntentCanceled, Inv, TypeOK
<1>4. \E st \in {"open", "succeeded", "canceled"}, e \in WebhookEvent :
        /\ stripe' = [stripe EXCEPT ![i].status = st]
        /\ sent' = [sent EXCEPT ![i] = @ \cup {e}]
        /\ st = "succeeded" => i \in disclosed /\ e = "succeeded"
        /\ st = "canceled" => e = "canceled"
        /\ st = "open" => e = "payment_failed"
  <2>1. CASE CustomerPays(i)
    BY <2>1 DEF CustomerPays, WebhookEvent
  <2>2. CASE CardDeclined(i)
    <3>1. [stripe EXCEPT ![i].status = "open"] = stripe
      <4>1. [s EXCEPT !.status = "open"] = s
        BY <1>1, <1>2 DEF StripeIntent
      <4> QED  BY <4>1 DEF Inv, TypeOK
    <3> QED  BY <2>2, <3>1 DEF CardDeclined, WebhookEvent
  <2>3. CASE IntentCanceled(i)
    BY <2>3 DEF IntentCanceled, WebhookEvent
  <2> QED  BY <2>1, <2>2, <2>3 DEF Environment
<1>5. PICK st \in {"open", "succeeded", "canceled"}, e \in WebhookEvent :
        /\ stripe' = [stripe EXCEPT ![i].status = st]
        /\ sent' = [sent EXCEPT ![i] = @ \cup {e}]
        /\ st = "succeeded" => i \in disclosed /\ e = "succeeded"
        /\ st = "canceled" => e = "canceled"
        /\ st = "open" => e = "payment_failed"
  BY <1>4
<1>6. stripe'[i] = [s EXCEPT !.status = st] /\ sent'[i] = sent[i] \cup {e}
  BY <1>5 DEF Inv, TypeOK
<1>7. stripe'[i] \in StripeIntent /\ stripe'[i].status = st
      /\ stripe'[i].order = s.order /\ stripe'[i].refunded = s.refunded
  <2>1. ASSUME NEW r \in StripeIntent
        PROVE  LET t == [r EXCEPT !.status = st]
               IN  t \in StripeIntent /\ t.status = st /\ t.order = r.order /\ t.refunded = r.refunded
    BY DEF StripeIntent
  <2> QED  BY <1>1, <1>6, <2>1
<1>8. SharedTyped'
  BY <1>2, <1>5, <1>6, <1>7 DEF Inv, TypeOK, SharedTyped
<1>9. Grows
  <2>1. \A j \in Intent : stripe[j].refunded \in Int
    BY DEF Inv, TypeOK, StripeIntent
  <2> QED  BY <1>2, <1>3, <1>5, <1>6, <1>7, <2>1 DEF Grows
<1>10. \A j \in Intent \ {i} : IntentPhase(j)'
  BY <1>2, <1>3, <1>9, OtherIntent DEF RowsKeep
<1>11. IntentPhase(i)'
  BY <1>1, <1>2, <1>5, <1>6, <1>7 DEF IntentPhase
<1> QED  BY <1>2, <1>8, <1>9, <1>10, <1>11, NoHandler

LEMMA CreateAgainStep ==
  ASSUME Inv, NEW o \in Order, CreateAgain(o)
  PROVE  Inv'
<1>1. row[o] # NoRow /\ disclosed' = disclosed \cup ({row[o].intent} \ {NoIntent})
      /\ UNCHANGED <<row, gateway, stripe, sent, told, pc, request>>
  BY DEF CreateAgain
<1>2. row[o] \in Payment /\ Sound(o, row[o])
  BY <1>1, Facts DEF RowPhase
<1>3. SharedTyped'
  BY <1>1, <1>2 DEF Inv, TypeOK, SharedTyped, Payment
<1>4. Grows
  <2>1. \A j \in Intent : stripe[j].refunded \in Int
    BY DEF Inv, TypeOK, StripeIntent
  <2> QED  BY <1>1, <2>1 DEF Grows
<1>5. ASSUME NEW i \in Intent
      PROVE  IntentPhase(i)'
  <2>1. IntentPhase(i)
    BY Facts
  <2>2. i = row[o].intent => /\ stripe[i].status # "unused"
                             /\ stripe[i].order = o
    <3>1. row[o].method = "COD" => row[o].intent = NoIntent
      BY <1>2 DEF Sound
    <3> QED  BY <1>2, <3>1, PaymentsAssumption DEF Sound
  <2> QED  BY <1>1, <2>1, <2>2 DEF IntentPhase
<1> QED  BY <1>1, <1>3, <1>4, <1>5, NoHandler

-----------------------------------------------------------------------------
(***************************************************************************)
(* A request starts: only its own state changes.                           *)
(***************************************************************************)
LEMMA Begun ==
  ASSUME Inv, NEW h \in Handler, NEW o \in Order, NEW p \in Payment, NEW step \in Step,
         Begin(h, o, p, step), UNCHANGED Shared,
         NEW a \in 0 .. Amount, NEW e \in EventType \cup {"none"},
         amt' = [amt EXCEPT ![h] = a], event' = [event EXCEPT ![h] = e],
         HandlerAt(step, o, p, a, e)'
  PROVE  Inv'
<1>1. /\ pc'[h] = step /\ ord'[h] = o /\ mine'[h] = p /\ amt'[h] = a /\ event'[h] = e
      /\ OthersKeep(h)
  BY DEF Begin, Goto, Inv, TypeOK, OthersKeep, Keeps
<1>2. HandlersTyped'
  BY DEF Begin, Goto, Inv, TypeOK, HandlersTyped
<1>3. HandlerPhase(h)'
  BY <1>1 DEF HandlerPhase
<1> QED  BY <1>1, <1>2, <1>3, Quiet

\* An idle handler has no amount and no event of an earlier request that matter.
LEMMA AsBefore ==
  ASSUME Inv, NEW h \in Handler
  PROVE  /\ amt' = amt => amt' = [amt EXCEPT ![h] = amt[h]] /\ amt[h] \in 0 .. Amount
         /\ event' = event => /\ event' = [event EXCEPT ![h] = event[h]]
                              /\ event[h] \in EventType \cup {"none"}
         /\ pc[h] = "idle" => event[h] = "none"
BY Facts DEF Inv, TypeOK, HandlerPhase, HandlerAt

LEMMA StartCreateStep ==
  ASSUME Inv, NEW h \in Handler, NEW o \in Order, NEW m \in Method, StartCreate(h, o, m)
  PROVE  Inv'
<1> DEFINE p == NewPayment(m)
           step == IF m = "CARD" THEN "intent" ELSE "insert"
<1>1. Begin(h, o, p, step) /\ UNCHANGED Shared /\ UNCHANGED <<amt, event>> /\ pc[h] = "idle"
  BY DEF StartCreate, Shared, Begin
<1>2. p \in Payment /\ step \in Step
  BY NewPaymentType DEF Step
<1>3. HandlerAt(step, o, p, amt[h], "none")'
  <2>1. p # NoRow
    BY <1>2, PaymentsAssumption
  <2>2. CASE m = "CARD"
    BY <2>1, <2>2 DEF HandlerAt
  <2>3. CASE m # "CARD"
    <3>1. m = "COD"
      BY <2>3 DEF Method
    <3>2. p.method = "COD" /\ p.intent = NoIntent /\ p.status = "PENDING" /\ p.refunded = 0
      BY <3>1, NewPaymentType
    <3>3. Amount # 0
      BY PaymentsAssumption
    <3>4. Sound(o, p)' /\ TrueEvent(p, "none")'
      BY <3>2, <3>3 DEF Sound, TrueEvent
    <3> QED  BY <2>1, <2>3, <3>4 DEF HandlerAt
  <2> QED  BY <2>2, <2>3
<1>4. /\ amt' = [amt EXCEPT ![h] = amt[h]] /\ amt[h] \in 0 .. Amount
      /\ event' = [event EXCEPT ![h] = "none"]
  BY <1>1, AsBefore
<1> HIDE DEF p, step
<1> QED  BY <1>1, <1>2, <1>3, <1>4, Begun

\* A request that holds another version p of the row it has read.
LEMMA BegunOnRow ==
  ASSUME Inv, NEW o \in Order, NEW p \in Payment, row[o] # NoRow, UNCHANGED Shared,
         NEW r, r = row[o]
  PROVE  /\ r \in Payment /\ Sound(o, r) /\ p # NoRow
         /\ p.method = r.method /\ p.intent = r.intent => SamePayment(o, p)'
         /\ Sound(o, p) => Sound(o, p)'
         /\ \A e : TrueEvent(p, e) => TrueEvent(p, e)'
BY Facts, PaymentsAssumption DEF RowPhase, Shared, Sound, Backed, SamePayment, TrueEvent

LEMMA StartSyncStep ==
  ASSUME Inv, NEW h \in Handler, NEW o \in Order, StartSync(h, o)
  PROVE  Inv'
<1>1. row[o] # NoRow /\ UNCHANGED Shared /\ UNCHANGED <<amt, event>> /\ pc[h] = "idle"
  BY DEF StartSync, Shared, Begin
<1> SUFFICES ASSUME NEW p, p = row[o]
             PROVE  Inv'
  OBVIOUS
<1>2. /\ Begin(h, o, p, "get") /\ p.method = "CARD" /\ p.status = "PENDING"
  BY DEF StartSync
<1>3. p \in Payment /\ Sound(o, p)
  BY <1>1, Facts DEF RowPhase
<1>4. HandlerAt("get", o, p, amt[h], "none")'
  BY <1>1, <1>2, <1>3, BegunOnRow DEF HandlerAt
<1>5. /\ amt' = [amt EXCEPT ![h] = amt[h]] /\ amt[h] \in 0 .. Amount
      /\ event' = [event EXCEPT ![h] = "none"]
  BY <1>1, AsBefore
<1>6. "get" \in Step /\ "none" \in EventType \cup {"none"}
  BY DEF Step
<1> QED  BY <1>1, <1>2, <1>3, <1>4, <1>5, <1>6, Begun

\* The status changes HandleWebhook, Sync and Settle make keep a payment sound.
LEMMA CapturedIsSound ==
  ASSUME NEW o \in Order, NEW p \in Payment, Sound(o, p), p.status = "PENDING",
         p.method = "CARD" /\ gateway = "stripe" => stripe[p.intent].status = "succeeded"
  PROVE  LET q == Captured(p)
         IN  /\ q \in Payment /\ q.method = p.method /\ q.intent = p.intent
             /\ Sound(o, q) /\ TrueEvent(q, "payment.captured")
<1>1. /\ Captured(p) \in Payment /\ Captured(p).status = "CAPTURED"
      /\ Captured(p).method = p.method /\ Captured(p).intent = p.intent
      /\ Captured(p).refunded = p.refunded
  BY StatusUpdate
<1> DEFINE q == Captured(p)
<1> HIDE DEF q
<1>2. q \in Payment /\ q.status = "CAPTURED" /\ q.method = p.method /\ q.intent = p.intent
      /\ q.refunded = p.refunded
  BY <1>1 DEF q
<1>3. p.method \in {"CARD", "COD"}
  BY DEF Payment, Method
<1>4. Sound(o, q) /\ TrueEvent(q, "payment.captured")
  BY <1>2, <1>3 DEF Sound, Backed, TrueEvent
<1> QED  BY <1>2, <1>4 DEF q

LEMMA FailedIsSound ==
  ASSUME NEW o \in Order, NEW p \in Payment, Sound(o, p), p.status = "PENDING",
         p.method = "CARD" /\ gateway = "stripe" =>
           stripe[p.intent].status = "canceled" \/ "payment_failed" \in sent[p.intent]
  PROVE  LET q == Failed(p)
         IN  /\ q \in Payment /\ q.method = p.method /\ q.intent = p.intent
             /\ Sound(o, q) /\ TrueEvent(q, "none")
<1>1. /\ Failed(p) \in Payment /\ Failed(p).status = "FAILED"
      /\ Failed(p).method = p.method /\ Failed(p).intent = p.intent
      /\ Failed(p).refunded = p.refunded
  BY StatusUpdate
<1> DEFINE q == Failed(p)
<1> HIDE DEF q
<1>2. q \in Payment /\ q.status = "FAILED" /\ q.method = p.method /\ q.intent = p.intent
      /\ q.refunded = p.refunded
  BY <1>1 DEF q
<1>3. p.method \in {"CARD", "COD"}
  BY DEF Payment, Method
<1>4. Sound(o, q) /\ TrueEvent(q, "none")
  BY <1>2, <1>3 DEF Sound, Backed, TrueEvent
<1> QED  BY <1>2, <1>4 DEF q

LEMMA SettleStep ==
  ASSUME Inv, NEW h \in Handler, NEW o \in Order, Settle(h, o)
  PROVE  Inv'
<1>1. row[o] # NoRow /\ UNCHANGED Shared /\ UNCHANGED amt /\ pc[h] = "idle"
      /\ event' = [event EXCEPT ![h] = "payment.captured"]
  BY DEF Settle, Shared, Begin
<1> SUFFICES ASSUME NEW r, r = row[o], NEW p, p = Captured(r)
             PROVE  Inv'
  OBVIOUS
<1>2. Begin(h, o, p, "save") /\ r.method = "COD" /\ r.status = "PENDING"
  BY DEF Settle
<1>3. r \in Payment /\ Sound(o, r)
  BY <1>1, Facts DEF RowPhase
<1>4. /\ p \in Payment /\ p.method = r.method /\ p.intent = r.intent
      /\ Sound(o, p) /\ TrueEvent(p, "payment.captured")
  BY <1>2, <1>3, CapturedIsSound
<1>5. HandlerAt("save", o, p, amt[h], "payment.captured")'
  BY <1>1, <1>4, BegunOnRow DEF HandlerAt
<1>6. amt' = [amt EXCEPT ![h] = amt[h]] /\ amt[h] \in 0 .. Amount
  BY <1>1, AsBefore
<1> QED  BY <1>1, <1>2, <1>4, <1>5, <1>6, Begun DEF Step, EventType

\* A request that holds payment p of a row writes it, with a as the amount.
LEMMA RefundedIsSound ==
  ASSUME NEW o \in Order, NEW p \in Payment, NEW a \in 1 .. Refundable(p),
         Sound(o, p), p.status = "CAPTURED", TypeOK,
         p.method = "CARD" /\ gateway = "stripe" => p.refunded + a <= stripe[p.intent].refunded
  PROVE  LET q == ApplyRefund(p, a)
         IN  /\ q \in Payment /\ q.method = p.method /\ q.intent = p.intent
             /\ Sound(o, q) /\ TrueEvent(q, "payment.refunded")
<1> DEFINE q == ApplyRefund(p, a)
<1>1. /\ q \in Payment /\ q.method = p.method /\ q.intent = p.intent
      /\ q.refunded = p.refunded + a
      /\ q.status = IF p.refunded + a >= Amount THEN "REFUNDED" ELSE p.status
  BY RefundUpdate
<1> HIDE DEF q
<1>2. p.refunded \in 0 .. Amount /\ p.method \in {"CARD", "COD"} /\ Amount \in Nat \ {0}
  BY PaymentsAssumption DEF Payment, Method
<1>3. q.refunded \in 1 .. Amount
  BY <1>1, <1>2 DEF Refundable
<1>4. q.status = "REFUNDED" <=> q.refunded = Amount
  BY <1>1, <1>2, <1>3
<1>5. p.method = "CARD" => p.intent \in Intent /\ stripe[p.intent].refunded \in Int
  BY DEF Sound, TypeOK, StripeIntent
<1>6. q.method = "CARD" /\ gateway = "stripe" => Backed(q, q.intent, {})
  <2>1. SUFFICES ASSUME p.method = "CARD", gateway = "stripe"
                 PROVE  Backed(q, q.intent, {})
    BY <1>1
  <2>2. stripe[p.intent].status = "succeeded"
    BY <2>1 DEF Sound, Backed
  <2> QED  BY <1>1, <1>2, <1>3, <1>5, <2>1, <2>2 DEF Backed
<1>7. Sound(o, q)
  BY <1>1, <1>2, <1>4, <1>6 DEF Sound
<1>8. TrueEvent(q, "payment.refunded")
  BY <1>1, <1>2, <1>3, <1>5 DEF TrueEvent
<1> QED  BY <1>1, <1>7, <1>8 DEF q

LEMMA StartRefundStep ==
  ASSUME Inv, NEW h \in Handler, NEW o \in Order, NEW a \in 1 .. Amount, StartRefund(h, o, a)
  PROVE  Inv'
<1>1. row[o] # NoRow /\ UNCHANGED Shared /\ amt' = [amt EXCEPT ![h] = a] /\ pc[h] = "idle"
  BY DEF StartRefund, Shared, Begin
<1> SUFFICES ASSUME NEW r, r = row[o]
             PROVE  Inv'
  OBVIOUS
<1>2. r.status = "CAPTURED" /\ a \in 1 .. Refundable(r)
  BY DEF StartRefund
<1>3. r \in Payment /\ Sound(o, r)
  BY <1>1, Facts DEF RowPhase
<1>4. a \in 0 .. Amount /\ {"refund", "save"} \subseteq Step
      /\ {"none", "payment.refunded"} \subseteq EventType \cup {"none"}
  BY PaymentsAssumption DEF Step, EventType
<1>5. CASE r.method = "CARD" /\ Begin(h, o, r, "refund") /\ UNCHANGED event
  <2>1. HandlerAt("refund", o, r, a, "none")'
    BY <1>1, <1>2, <1>3, <1>5, BegunOnRow DEF HandlerAt
  <2>2. event' = [event EXCEPT ![h] = "none"]
    BY <1>1, <1>5, AsBefore
  <2> QED  BY <1>1, <1>3, <1>4, <1>5, <2>1, <2>2, Begun
<1>6. CASE /\ r.method = "COD" /\ Begin(h, o, ApplyRefund(r, a), "save")
           /\ event' = [event EXCEPT ![h] = "payment.refunded"]
  <2> SUFFICES ASSUME NEW p, p = ApplyRefund(r, a)
               PROVE  Inv'
    OBVIOUS
  <2>1. /\ p \in Payment /\ p.method = r.method /\ p.intent = r.intent
        /\ Sound(o, p) /\ TrueEvent(p, "payment.refunded")
    BY <1>2, <1>3, <1>6, RefundedIsSound DEF Inv
  <2>2. HandlerAt("save", o, p, a, "payment.refunded")'
    BY <1>1, <2>1, BegunOnRow DEF HandlerAt
  <2> QED  BY <1>1, <1>4, <1>6, <2>1, <2>2, Begun
<1> QED  BY <1>5, <1>6 DEF StartRefund

LEMMA WebhookStep ==
  ASSUME Inv, NEW h \in Handler, NEW o \in Order, NEW i \in Intent, NEW e \in WebhookEvent,
         Webhook(h, o, i, e)
  PROVE  Inv'
<1>1. row[o] # NoRow /\ UNCHANGED Shared /\ UNCHANGED amt /\ pc[h] = "idle"
      /\ e \in sent[i]
  BY DEF Webhook, Shared, Begin
<1> SUFFICES ASSUME NEW r, r = row[o]
             PROVE  Inv'
  OBVIOUS
<1>2. r.status = "PENDING" /\ r.intent = i
  BY DEF Webhook, Awaiting
<1>3. r \in Payment /\ Sound(o, r)
  BY <1>1, Facts DEF RowPhase
<1>4. {"save"} \subseteq Step /\ {"none", "payment.captured"} \subseteq EventType \cup {"none"}
  BY DEF Step, EventType
<1>5. amt' = [amt EXCEPT ![h] = amt[h]] /\ amt[h] \in 0 .. Amount
  BY <1>1, AsBefore
<1>6. IntentPhase(i)
  BY Facts
<1>7. CASE /\ e = "succeeded" /\ Begin(h, o, Captured(r), "save")
           /\ event' = [event EXCEPT ![h] = "payment.captured"]
  <2> SUFFICES ASSUME NEW p, p = Captured(r)
               PROVE  Inv'
    OBVIOUS
  <2>1. stripe[i].status = "succeeded"
    BY <1>1, <1>6, <1>7 DEF IntentPhase
  <2>2. /\ p \in Payment /\ p.method = r.method /\ p.intent = r.intent
        /\ Sound(o, p) /\ TrueEvent(p, "payment.captured")
    BY <1>2, <1>3, <2>1, CapturedIsSound
  <2>3. HandlerAt("save", o, p, amt[h], "payment.captured")'
    BY <1>1, <2>2, BegunOnRow DEF HandlerAt
  <2> QED  BY <1>1, <1>4, <1>5, <1>7, <2>2, <2>3, Begun
<1>8. CASE e # "succeeded" /\ Begin(h, o, Failed(r), "save") /\ UNCHANGED event
  <2> SUFFICES ASSUME NEW p, p = Failed(r)
               PROVE  Inv'
    OBVIOUS
  <2>1. stripe[i].status = "canceled" \/ "payment_failed" \in sent[i]
    BY <1>1, <1>6, <1>8 DEF IntentPhase, WebhookEvent
  <2>2. /\ p \in Payment /\ p.method = r.method /\ p.intent = r.intent
        /\ Sound(o, p) /\ TrueEvent(p, "none")
    BY <1>2, <1>3, <2>1, FailedIsSound
  <2>3. HandlerAt("save", o, p, amt[h], "none")'
    BY <1>1, <2>2, BegunOnRow DEF HandlerAt
  <2>4. event' = [event EXCEPT ![h] = "none"]
    BY <1>1, <1>8, AsBefore
  <2> QED  BY <1>1, <1>4, <1>5, <1>8, <2>2, <2>3, <2>4, Begun
<1> QED  BY <1>7, <1>8 DEF Webhook

LEMMA StartStep ==
  ASSUME Inv, NEW h \in Handler, NEW o \in Order, Start(h, o)
  PROVE  Inv'
BY StartCreateStep, StartSyncStep, SettleStep, StartRefundStep, WebhookStep DEF Start

-----------------------------------------------------------------------------
(***************************************************************************)
(* A request goes on.                                                      *)
(***************************************************************************)
LEMMA Moved ==
  ASSUME TypeOK, NEW h \in Handler, NEW q \in Step, NEW p \in Payment \cup {NoRow},
         NEW e \in EventType \cup {"none"}, NEW o, o = ord[h], NEW a, a = amt[h],
         Goto(h, q), mine' = [mine EXCEPT ![h] = p], event' = [event EXCEPT ![h] = e],
         UNCHANGED <<ord, seen, amt>>,
         HandlerAt(q, o, p, a, e)'
  PROVE  OthersKeep(h) /\ HandlersTyped' /\ HandlerPhase(h)'
<1>1. HandlersTyped'
  BY DEF TypeOK, HandlersTyped, Goto
<1>2. OthersKeep(h)
  BY DEF TypeOK, OthersKeep, Keeps, Goto
<1>3. pc'[h] = q /\ ord'[h] = o /\ mine'[h] = p /\ amt'[h] = a /\ event'[h] = e
  BY DEF TypeOK, Goto
<1> QED  BY <1>1, <1>2, <1>3 DEF HandlerPhase

\* What a handler at work holds.
LEMMA AtWork ==
  ASSUME Inv, NEW h \in Handler, pc[h] # "idle",
         NEW o, o = ord[h], NEW p, p = mine[h], NEW a, a = amt[h], NEW e, e = event[h]
  PROVE  /\ o \in Order /\ p \in Payment /\ p # NoRow /\ a \in 0 .. Amount
         /\ e \in EventType \cup {"none"}
         /\ HandlerAt(pc[h], o, p, a, e)
         /\ mine = [mine EXCEPT ![h] = p] /\ event = [event EXCEPT ![h] = e]
<1>1. HandlerAt(pc[h], o, p, a, e)
  BY Facts DEF HandlerPhase
<1>2. o \in Order /\ p # NoRow
  BY <1>1 DEF HandlerAt
<1> QED  BY <1>1, <1>2 DEF Inv, TypeOK

LEMMA CreateIntentStep ==
  ASSUME Inv, NEW h \in Handler, NEW i \in Intent, CreateIntent(h, i)
  PROVE  Inv'
<1>1. SUFFICES ASSUME NEW o, o = ord[h], NEW p, p = mine[h], NEW a, a = amt[h],
                      NEW st, st = IF gateway = "stub" THEN "succeeded" ELSE "open",
                      NEW e, e = IF gateway = "stub" THEN "payment.captured" ELSE "none",
                      NEW q, q = [p EXCEPT !.intent = i],
                      NEW r, r = IF gateway = "stub" THEN Captured(q) ELSE q
               PROVE  Inv'
  OBVIOUS
<1>2. /\ pc[h] = "intent" /\ stripe[i].status = "unused" /\ Goto(h, "insert")
      /\ stripe' = [stripe EXCEPT ![i].order = o, ![i].status = st]
      /\ mine' = [mine EXCEPT ![h] = r] /\ event' = [event EXCEPT ![h] = e]
      /\ UNCHANGED <<row, gateway, sent, disclosed, told, ord, seen, amt>>
  BY <1>1 DEF CreateIntent
<1>3. o \in Order /\ p = NewPayment("CARD")
  BY <1>1, <1>2, AtWork DEF HandlerAt
<1>4. p \in Payment /\ p.method = "CARD" /\ p.status = "PENDING" /\ p.refunded = 0
  BY <1>3, NewPaymentType DEF Method
<1>5. q \in Payment /\ q.method = "CARD" /\ q.status = "PENDING" /\ q.refunded = 0 /\ q.intent = i
  BY <1>1, <1>4, IntentUpdate
<1>6. /\ r \in Payment /\ r.method = "CARD" /\ r.refunded = 0 /\ r.intent = i
      /\ r.status = IF gateway = "stub" THEN "CAPTURED" ELSE "PENDING"
  BY <1>1, <1>5, StatusUpdate
<1>7. stripe[i] \in StripeIntent /\ IntentPhase(i)
  BY Facts
<1>8. /\ stripe'[i] \in StripeIntent /\ stripe'[i].status = st /\ stripe'[i].order = o
      /\ stripe'[i].refunded = stripe[i].refunded
  <2>1. stripe'[i] = [stripe[i] EXCEPT !.order = o, !.status = st]
    BY <1>2 DEF Inv, TypeOK
  <2>2. st \in {"unused", "open", "succeeded", "canceled"}
    BY <1>1
  <2>3. ASSUME NEW s \in StripeIntent
        PROVE  LET t == [s EXCEPT !.order = o, !.status = st]
               IN  t \in StripeIntent /\ t.status = st /\ t.order = o /\ t.refunded = s.refunded
    BY <1>3, <2>2 DEF StripeIntent
  <2> QED  BY <1>7, <2>1, <2>3
<1>9. \A j \in Intent \ {i} : stripe'[j] = stripe[j]
  BY <1>2 DEF Inv, TypeOK
<1>10. SharedTyped'
  BY <1>2, <1>8 DEF Inv, TypeOK, SharedTyped
<1>11. Grows /\ RowsKeep
  <2>1. \A j \in Intent : stripe[j].refunded \in Int
    BY DEF Inv, TypeOK, StripeIntent
  <2>2. ASSUME NEW j \in Intent
        PROVE  /\ stripe[j].status # "unused" => stripe'[j] = stripe[j]
               /\ stripe[j].refunded = stripe'[j].refunded
    BY <1>2, <1>8, <1>9
  <2>3. gateway' = gateway /\ sent' = sent /\ row' = row
    BY <1>2
  <2> QED  BY <2>1, <2>2, <2>3 DEF Grows, RowsKeep
<1>12. HandlerAt("insert", o, r, a, e)'
  <2>1. r # NoRow /\ Amount # 0
    BY <1>6, PaymentsAssumption
  <2>2. stripe'[i].refunded \in Nat
    BY <1>8 DEF StripeIntent
  <2>3. gateway' = "stripe" => Backed(r, i, {})'
    BY <1>2, <1>6, <2>2 DEF Backed
  <2>4. st # "unused"
    BY <1>1
  <2>5. Sound(o, r)'
    BY <1>6, <1>8, <2>1, <2>3, <2>4 DEF Sound
  <2>6. TrueEvent(r, e)'
    BY <1>1, <1>2 DEF TrueEvent
  <2> QED  BY <1>3, <2>1, <2>5, <2>6 DEF HandlerAt
<1>13. OthersKeep(h) /\ HandlersTyped' /\ HandlerPhase(h)'
  <2>1. "insert" \in Step /\ e \in EventType \cup {"none"}
    BY <1>1 DEF Step, EventType
  <2> QED  BY <1>1, <1>2, <1>6, <1>12, <2>1, Moved DEF Inv
<1>14. TypeOK'
  BY <1>10, <1>13, TypedNext
<1>15. \A j \in Intent : IntentPhase(j)'
  <2>1. \A j \in Intent \ {i} : IntentPhase(j)'
    BY <1>2, <1>9, <1>11, OtherIntent
  <2>2. IntentPhase(i)'
    BY <1>1, <1>2, <1>3, <1>7, <1>8 DEF IntentPhase
  <2> QED  BY <2>1, <2>2
<1>16. \A x \in Order : RowPhase(x)'
  BY <1>2, <1>11, <1>14, OtherRow
<1> QED  BY <1>11, <1>13, <1>14, <1>15, <1>16, Frame

LEMMA GivesUpStep ==
  ASSUME Inv, NEW h \in Handler, NoIntentOpened(h) \/ Abandon(h)
  PROVE  Inv'
<1>1. Return(h) /\ UNCHANGED Shared
  BY DEF NoIntentOpened, Abandon, Shared
<1> QED  BY <1>1, Returned, Quiet DEF Inv

\* Only the row of o changes, to a sound version of its payment.
LEMMA Written ==
  ASSUME Inv, TypeOK', NEW h \in Handler, OthersKeep(h), HandlerPhase(h)',
         NEW o \in Order, NEW p \in Payment, Sound(o, p),
         row[o] # NoRow => SamePayment(o, p),
         row' = [row EXCEPT ![o] = p], UNCHANGED <<gateway, stripe, sent, disclosed, told>>
  PROVE  Inv'
<1>1. row'[o] = p /\ p # NoRow /\ \A x \in Order \ {o} : row'[x] = row[x]
  BY PaymentsAssumption DEF Inv, TypeOK
<1>2. Grows
  <2>1. \A j \in Intent : stripe[j].refunded \in Int
    BY DEF Inv, TypeOK, StripeIntent
  <2> QED  BY <2>1 DEF Grows
<1>3. RowsKeep
  BY <1>1 DEF RowsKeep, SamePayment
<1>4. \A i \in Intent : IntentPhase(i)'
  BY <1>2, <1>3, OtherIntent
<1>5. \A x \in Order \ {o} : RowPhase(x)'
  BY <1>1, <1>2, OtherRow
<1>6. RowPhase(o)'
  <2>1. Sound(o, p)'
    BY <1>2, StaysSound DEF Inv
  <2>2. ASSUME NEW e \in told[o]
        PROVE  TrueEvent(p, e)'
    <3>1. row[o] # NoRow /\ TrueEvent(row[o], e)
      BY Facts DEF RowPhase
    <3>2. TrueEvent(p, e)
      BY <3>1 DEF SamePayment, TrueEvent
    <3> QED  BY <1>2, <3>2, StaysTrue DEF Inv
  <2> QED  BY <1>1, <2>1, <2>2 DEF RowPhase
<1> QED  BY <1>2, <1>3, <1>4, <1>5, <1>6, Frame

LEMMA InsertStep ==
  ASSUME Inv, NEW h \in Handler, Insert(h)
  PROVE  Inv'
<1> SUFFICES ASSUME NEW o, o = ord[h], NEW p, p = mine[h], NEW a, a = amt[h], NEW e, e = event[h],
                    NEW q, q = IF e = "none" THEN "answer" ELSE "tell"
             PROVE  Inv'
  OBVIOUS
<1>1. /\ pc[h] = "insert" /\ row[o] = NoRow /\ row' = [row EXCEPT ![o] = p] /\ Goto(h, q)
      /\ UNCHANGED <<gateway, stripe, sent, disclosed, told, request>>
  BY DEF Insert
<1>2. /\ o \in Order /\ p \in Payment /\ p # NoRow /\ e \in EventType \cup {"none"}
      /\ HandlerAt("insert", o, p, a, e)
      /\ mine' = [mine EXCEPT ![h] = p] /\ event' = [event EXCEPT ![h] = e]
  BY <1>1, AtWork DEF request
<1>3. Sound(o, p) /\ TrueEvent(p, e)
  BY <1>2 DEF HandlerAt
<1>4. row'[o] = p
  BY <1>1, <1>2 DEF Inv, TypeOK
<1>5. HandlerAt(q, o, p, a, e)'
  <2>1. SamePayment(o, p)' /\ TrueEvent(p, e)'
    BY <1>1, <1>2, <1>3, <1>4 DEF SamePayment, TrueEvent
  <2> QED  BY <1>2, <2>1 DEF HandlerAt
<1>6. OthersKeep(h) /\ HandlersTyped' /\ HandlerPhase(h)'
  <2>1. q \in Step
    BY DEF Step
  <2> QED  BY <1>1, <1>2, <1>5, <2>1, Moved DEF Inv, request
<1>7. SharedTyped'
  BY <1>1, <1>2 DEF Inv, TypeOK, SharedTyped
<1>8. TypeOK'
  BY <1>6, <1>7, TypedNext
<1> QED  BY <1>1, <1>2, <1>3, <1>6, <1>8, Written

LEMMA InsertClashesStep ==
  ASSUME Inv, NEW h \in Handler, InsertClashes(h)
  PROVE  Inv'
<1> SUFFICES ASSUME NEW o, o = ord[h], NEW r, r = row[ord[h]], NEW a, a = amt[h], NEW e, e = event[h]
             PROVE  Inv'
  OBVIOUS
<1>1. /\ pc[h] = "insert" /\ r # NoRow /\ mine' = [mine EXCEPT ![h] = r] /\ Goto(h, "answer")
      /\ UNCHANGED Shared /\ UNCHANGED <<ord, seen, amt, event>>
  BY DEF InsertClashes, Shared
<1>2. /\ o \in Order /\ e \in EventType \cup {"none"} /\ event' = [event EXCEPT ![h] = e]
  BY <1>1, AtWork
<1>3. r \in Payment
  BY <1>1, <1>2, Facts
<1>4. HandlerAt("answer", o, r, a, e)'
  BY <1>1, <1>2 DEF HandlerAt, SamePayment, Shared
<1>5. OthersKeep(h) /\ HandlersTyped' /\ HandlerPhase(h)'
  <2>1. "answer" \in Step
    BY DEF Step
  <2> QED  BY <1>1, <1>2, <1>3, <1>4, <2>1, Moved DEF Inv
<1> QED  BY <1>1, <1>5, Quiet

LEMMA AnswerStep ==
  ASSUME Inv, NEW h \in Handler, Answer(h)
  PROVE  Inv'
<1> SUFFICES ASSUME NEW o, o = ord[h], NEW p, p = mine[h]
             PROVE  Inv'
  OBVIOUS
<1>1. /\ pc[h] = "answer" /\ Return(h) /\ disclosed' = disclosed \cup ({p.intent} \ {NoIntent})
      /\ UNCHANGED <<row, gateway, stripe, sent, told>>
  BY DEF Answer
<1>2. o \in Order /\ p \in Payment /\ HandlerAt("answer", o, p, amt[h], event[h])
  BY <1>1, AtWork
<1>3. row[o] # NoRow /\ p.intent = row[o].intent
  BY <1>2 DEF HandlerAt, SamePayment
<1>4. row[o] \in Payment /\ Sound(o, row[o])
  BY <1>2, <1>3, Facts DEF RowPhase
<1>5. OthersKeep(h) /\ HandlersTyped' /\ HandlerPhase(h)'
  BY <1>1, Returned DEF Inv
<1>6. SharedTyped'
  BY <1>1, <1>2 DEF Inv, TypeOK, SharedTyped, Payment
<1>7. TypeOK'
  BY <1>5, <1>6, TypedNext
<1>8. Grows /\ RowsKeep
  <2>1. \A j \in Intent : stripe[j].refunded \in Int
    BY DEF Inv, TypeOK, StripeIntent
  <2> QED  BY <1>1, <2>1 DEF Grows, RowsKeep
<1>9. ASSUME NEW i \in Intent
      PROVE  IntentPhase(i)'
  <2>1. IntentPhase(i)
    BY Facts
  <2>2. i = row[o].intent => stripe[i].status # "unused" /\ stripe[i].order = o
    <3>1. row[o].method = "COD" => row[o].intent = NoIntent
      BY <1>4 DEF Sound
    <3> QED  BY <1>4, <3>1, PaymentsAssumption DEF Sound
  <2> QED  BY <1>1, <1>3, <2>1, <2>2 DEF IntentPhase
<1>10. \A x \in Order : RowPhase(x)'
  BY <1>1, <1>7, <1>8, OtherRow
<1> QED  BY <1>5, <1>7, <1>8, <1>9, <1>10, Frame

LEMMA GetIntentStep ==
  ASSUME Inv, NEW h \in Handler, GetIntent(h)
  PROVE  Inv'
<1> SUFFICES ASSUME NEW o, o = ord[h], NEW p, p = mine[h], NEW a, a = amt[h], NEW i, i = mine[h].intent
             PROVE  Inv'
  OBVIOUS
<1>1. pc[h] = "get" /\ UNCHANGED Shared
  BY DEF GetIntent, Shared
<1>2. o \in Order /\ p \in Payment /\ HandlerAt("get", o, p, a, event[h])
  BY <1>1, AtWork
<1>3. Sound(o, p) /\ SamePayment(o, p) /\ p.status = "PENDING" /\ p.intent = i
  BY <1>2 DEF HandlerAt
<1>4. ASSUME NEW q \in Payment, NEW e \in EventType \cup {"none"}, WillSave(h, q, e),
             UNCHANGED <<ord, seen, amt>>,
             q.method = p.method, q.intent = p.intent, Sound(o, q), TrueEvent(q, e)
      PROVE  Inv'
  <2>1. SamePayment(o, q)' /\ Sound(o, q)' /\ TrueEvent(q, e)'
    BY <1>1, <1>3, <1>4 DEF Shared, SamePayment, Sound, Backed, TrueEvent
  <2>2. q # NoRow
    BY PaymentsAssumption
  <2>3. HandlerAt("save", o, q, a, e)'
    BY <1>2, <2>1, <2>2 DEF HandlerAt
  <2>4. Goto(h, "save") /\ mine' = [mine EXCEPT ![h] = q] /\ event' = [event EXCEPT ![h] = e]
    BY <1>4 DEF WillSave
  <2>5. "save" \in Step
    BY DEF Step
  <2>6. OthersKeep(h) /\ HandlersTyped' /\ HandlerPhase(h)'
    BY <1>4, <2>3, <2>4, <2>5, Moved DEF Inv
  <2> QED  BY <1>1, <2>6, Quiet
<1>5. CASE /\ stripe[i].status = "succeeded" /\ WillSave(h, Captured(p), "payment.captured")
           /\ UNCHANGED <<ord, seen, amt>>
  <2>1. "payment.captured" \in EventType \cup {"none"}
    BY DEF EventType
  <2> SUFFICES ASSUME NEW q, q = Captured(p)
               PROVE  Inv'
    OBVIOUS
  <2>2. /\ q \in Payment /\ q.method = p.method /\ q.intent = p.intent
        /\ Sound(o, q) /\ TrueEvent(q, "payment.captured")
    BY <1>2, <1>3, <1>5, CapturedIsSound
  <2> QED  BY <1>4, <1>5, <2>1, <2>2
<1>6. CASE /\ stripe[i].status = "canceled" /\ WillSave(h, Failed(p), "none")
           /\ UNCHANGED <<ord, seen, amt>>
  <2> SUFFICES ASSUME NEW q, q = Failed(p)
               PROVE  Inv'
    OBVIOUS
  <2>1. /\ q \in Payment /\ q.method = p.method /\ q.intent = p.intent
        /\ Sound(o, q) /\ TrueEvent(q, "none")
    BY <1>2, <1>3, <1>6, FailedIsSound
  <2> QED  BY <1>4, <1>6, <2>1
<1>7. CASE Return(h)
  BY <1>1, <1>7, Returned, Quiet DEF Inv
<1> QED  BY <1>5, <1>6, <1>7 DEF GetIntent

LEMMA RefundStep ==
  ASSUME Inv, NEW h \in Handler, Refund(h)
  PROVE  Inv'
<1> SUFFICES ASSUME NEW o, o = ord[h], NEW p, p = mine[h], NEW a, a = amt[h], NEW i, i = mine[h].intent
             PROVE  Inv'
  OBVIOUS
<1>1. pc[h] = "refund" /\ UNCHANGED <<row, gateway, sent, disclosed, told>>
  BY DEF Refund
<1>2. o \in Order /\ p \in Payment /\ HandlerAt("refund", o, p, a, event[h])
  BY <1>1, AtWork
<1>3. /\ Sound(o, p) /\ SamePayment(o, p) /\ p.intent = i
      /\ p.method = "CARD" /\ p.status = "CAPTURED" /\ a \in 1 .. Refundable(p)
  BY <1>2 DEF HandlerAt
<1>4. i \in Intent
  BY <1>3 DEF Sound
<1>5. stripe[i] \in StripeIntent /\ IntentPhase(i) /\ p.refunded \in 0 .. Amount
  BY <1>2, <1>4, Facts DEF Payment
<1>6. a \in 1 .. Amount
  BY <1>3, <1>5, PaymentsAssumption DEF Refundable
<1>7. CASE RefundAccepted(i, a)
  <2> SUFFICES ASSUME NEW q, q = ApplyRefund(p, a),
                      NEW r, r = IF gateway = "stub" THEN stripe[i].refunded
                                 ELSE stripe[i].refunded + a
               PROVE  Inv'
    OBVIOUS
  <2>1. /\ stripe' = IF gateway = "stub" THEN stripe
                     ELSE [stripe EXCEPT ![i].refunded = @ + a]
        /\ Goto(h, "save") /\ mine' = [mine EXCEPT ![h] = q]
        /\ event' = [event EXCEPT ![h] = "payment.refunded"]
        /\ UNCHANGED <<ord, seen, amt>>
    BY <1>7 DEF Refund, WillSave
  <2>2. stripe[i].refunded \in 0 .. Amount /\ gateway \in {"stub", "stripe"}
    BY <1>5 DEF StripeIntent, Inv, TypeOK
  <2>3. r \in 0 .. Amount /\ r >= stripe[i].refunded
    BY <1>6, <1>7, <2>2 DEF RefundAccepted
  <2>4. stripe'[i] \in StripeIntent /\ stripe'[i].status = stripe[i].status
        /\ stripe'[i].order = stripe[i].order /\ stripe'[i].refunded = r
    <3>1. CASE gateway = "stub"
      BY <1>5, <2>1, <3>1
    <3>2. CASE gateway # "stub"
      <4>1. stripe'[i] = [stripe[i] EXCEPT !.refunded = r]
        BY <1>4, <2>1, <3>2 DEF Inv, TypeOK
      <4> QED  BY <1>5, <2>3, <4>1, StripeRefunded
    <3> QED  BY <3>1, <3>2
  <2>5. \A j \in Intent \ {i} : stripe'[j] = stripe[j]
    BY <2>1 DEF Inv, TypeOK
  <2>6. stripe' \in [Intent -> StripeIntent]
    BY <2>1, <2>4 DEF Inv, TypeOK
  <2>7. SharedTyped'
    BY <1>1, <2>6 DEF Inv, TypeOK, SharedTyped
  <2>8. Grows
    <3>1. \A j \in Intent : stripe[j].refunded \in Int
      BY DEF Inv, TypeOK, StripeIntent
    <3>2. \A j \in Intent : /\ stripe'[j].status = stripe[j].status
                            /\ stripe'[j].order = stripe[j].order
                            /\ stripe[j].refunded <= stripe'[j].refunded
      BY <2>3, <2>4, <2>5, <3>1
    <3> QED  BY <1>1, <3>2 DEF Grows
  <2>9. RowsKeep
    BY <1>1 DEF RowsKeep
  <2>10. Sound(o, q)' /\ TrueEvent(q, "payment.refunded")' /\ SamePayment(o, q)'
         /\ q \in Payment
    <3>1. /\ q \in Payment /\ q.method = p.method /\ q.intent = p.intent
          /\ q.refunded = p.refunded + a
          /\ q.status = IF p.refunded + a >= Amount THEN "REFUNDED" ELSE p.status
      BY <1>2, <1>3, RefundUpdate
    <3>2. q.status = "REFUNDED" <=> q.refunded = Amount
      <4>1. q.refunded <= Amount /\ p.refunded + a \in Int /\ Amount \in Int
        BY <1>3, <1>5, <1>6, <3>1, PaymentsAssumption DEF Refundable
      <4> QED  BY <1>3, <3>1, <4>1
    <3>3. SamePayment(o, q)'
      BY <1>1, <1>3, <3>1 DEF SamePayment
    <3>4. ASSUME gateway = "stripe"
          PROVE  Backed(q, i, {})' /\ stripe'[i].refunded > 0
      <4>1. stripe[i].status = "succeeded" /\ p.refunded <= stripe[i].refunded
        BY <1>3, <3>4 DEF Sound, Backed
      <4>2. stripe'[i].refunded = stripe[i].refunded + a /\ stripe'[i].status = "succeeded"
        BY <2>4, <3>4, <4>1
      <4>3. q.status # "FAILED"
        BY <1>3, <3>1
      <4> QED  BY <1>5, <1>6, <2>2, <3>1, <4>1, <4>2, <4>3 DEF Backed
    <3>5. stripe'[i].status # "unused" /\ stripe'[i].order = o
      BY <1>3, <2>4 DEF Sound
    <3>6. Sound(o, q)'
      BY <1>1, <1>3, <1>4, <3>1, <3>2, <3>4, <3>5 DEF Sound
    <3>7. TrueEvent(q, "payment.refunded")'
      BY <1>1, <1>3, <3>1, <3>4 DEF TrueEvent
    <3> QED  BY <3>1, <3>3, <3>6, <3>7
  <2>11. HandlerAt("save", o, q, a, "payment.refunded")'
    <3>1. q # NoRow
      BY <2>10, PaymentsAssumption
    <3> QED  BY <1>2, <2>10, <3>1 DEF HandlerAt
  <2>12. OthersKeep(h) /\ HandlersTyped' /\ HandlerPhase(h)'
    <3>1. "save" \in Step /\ "payment.refunded" \in EventType \cup {"none"}
      BY DEF Step, EventType
    <3> QED  BY <2>1, <2>10, <2>11, <3>1, Moved DEF Inv
  <2>13. TypeOK'
    BY <2>7, <2>12, TypedNext
  <2>14. \A j \in Intent : IntentPhase(j)'
    <3>1. \A j \in Intent \ {i} : IntentPhase(j)'
      BY <1>1, <2>5, <2>8, <2>9, OtherIntent
    <3>2. IntentPhase(i)'
      BY <1>1, <1>5, <2>4 DEF IntentPhase
    <3> QED  BY <3>1, <3>2
  <2>15. \A x \in Order : RowPhase(x)'
    BY <1>1, <2>8, <2>13, OtherRow
  <2> QED  BY <2>8, <2>9, <2>12, <2>13, <2>14, <2>15, Frame
<1>8. CASE ~RefundAccepted(i, a)
  <2>1. Return(h) /\ UNCHANGED Shared
    BY <1>1, <1>8 DEF Refund, Shared
  <2> QED  BY <2>1, Returned, Quiet DEF Inv
<1> QED  BY <1>7, <1>8

LEMMA SaveStep ==
  ASSUME Inv, NEW h \in Handler, Save(h)
  PROVE  Inv'
<1> SUFFICES ASSUME NEW o, o = ord[h], NEW p, p = mine[h], NEW a, a = amt[h], NEW e, e = event[h]
             PROVE  Inv'
  OBVIOUS
<1>1. /\ pc[h] = "save" /\ row' = [row EXCEPT ![o] = p]
      /\ UNCHANGED <<gateway, stripe, sent, disclosed, told>>
  BY DEF Save
<1>2. /\ o \in Order /\ p \in Payment /\ p # NoRow /\ e \in EventType \cup {"none"}
      /\ HandlerAt("save", o, p, a, e)
      /\ mine = [mine EXCEPT ![h] = p] /\ event = [event EXCEPT ![h] = e]
  BY <1>1, AtWork
<1>3. Sound(o, p) /\ SamePayment(o, p) /\ TrueEvent(p, e)
  BY <1>2 DEF HandlerAt
<1>4. row'[o] = p
  BY <1>1, <1>2 DEF Inv, TypeOK
<1>5. OthersKeep(h) /\ HandlersTyped' /\ HandlerPhase(h)'
  <2>1. CASE Return(h)
    BY <2>1, Returned DEF Inv
  <2>2. CASE e # "none" /\ Goto(h, "tell") /\ UNCHANGED request
    <3>1. SamePayment(o, p)' /\ TrueEvent(p, e)'
      BY <1>1, <1>2, <1>3, <1>4 DEF SamePayment, TrueEvent
    <3>2. HandlerAt("tell", o, p, a, e)'
      BY <1>2, <2>2, <3>1 DEF HandlerAt
    <3>3. "tell" \in Step
      BY DEF Step
    <3>4. mine' = [mine EXCEPT ![h] = p] /\ event' = [event EXCEPT ![h] = e]
          /\ UNCHANGED <<ord, seen, amt>>
      BY <1>2, <2>2 DEF request
    <3> QED  BY <1>2, <2>2, <3>2, <3>3, <3>4, Moved DEF Inv
  <2> QED  BY <2>1, <2>2 DEF Save
<1>6. SharedTyped'
  BY <1>1, <1>2 DEF Inv, TypeOK, SharedTyped
<1>7. TypeOK'
  BY <1>5, <1>6, TypedNext
<1> QED  BY <1>1, <1>2, <1>3, <1>5, <1>7, Written

LEMMA TellStep ==
  ASSUME Inv, NEW h \in Handler, Tell(h)
  PROVE  Inv'
<1> SUFFICES ASSUME NEW o, o = ord[h], NEW p, p = mine[h], NEW e, e = event[h]
             PROVE  Inv'
  OBVIOUS
<1>1. /\ pc[h] = "tell" /\ Return(h) /\ UNCHANGED <<row, gateway, stripe, sent, disclosed>>
      /\ told' = [told EXCEPT ![o] = @ \cup {e}] \/ told' = told
  BY DEF Tell
<1>2. o \in Order /\ p \in Payment /\ e \in EventType \cup {"none"}
      /\ HandlerAt("tell", o, p, amt[h], e)
  BY <1>1, AtWork
<1>3. SamePayment(o, p) /\ TrueEvent(p, e) /\ e \in EventType
  BY <1>2 DEF HandlerAt
<1>4. OthersKeep(h) /\ HandlersTyped' /\ HandlerPhase(h)'
  BY <1>1, Returned DEF Inv
<1>5. SharedTyped'
  BY <1>1, <1>3 DEF Inv, TypeOK, SharedTyped
<1>6. TypeOK'
  BY <1>4, <1>5, TypedNext
<1>7. Grows /\ RowsKeep
  <2>1. \A j \in Intent : stripe[j].refunded \in Int
    BY DEF Inv, TypeOK, StripeIntent
  <2> QED  BY <1>1, <2>1 DEF Grows, RowsKeep
<1>8. \A i \in Intent : IntentPhase(i)'
  BY <1>1, <1>7, OtherIntent
<1>9. \A x \in Order \ {o} : told'[x] = told[x]
  BY <1>1 DEF Inv, TypeOK
<1>10. \A x \in Order \ {o} : RowPhase(x)'
  BY <1>1, <1>6, <1>7, <1>9, OtherRow
<1>11. RowPhase(o)'
  <2>1. row[o] # NoRow /\ row[o] \in Payment /\ Sound(o, row[o])
        /\ \A f \in told[o] : TrueEvent(row[o], f)
    BY <1>2, <1>3, Facts DEF SamePayment, RowPhase
  <2>2. TrueEvent(row[o], e)
    BY <1>3 DEF SamePayment, TrueEvent
  <2>3. told'[o] \subseteq told[o] \cup {e}
    BY <1>1, <1>2 DEF Inv, TypeOK
  <2>4. SUFFICES ASSUME NEW r, r = row[o]
                 PROVE  RowPhase(o)'
    OBVIOUS
  <2>5. Sound(o, r)' /\ \A f \in told'[o] : TrueEvent(r, f)'
    BY <1>6, <1>7, <2>1, <2>2, <2>3, <2>4, StaysSound, StaysTrue DEF Inv
  <2> QED  BY <1>1, <2>1, <2>4, <2>5 DEF RowPhase
<1> QED  BY <1>4, <1>6, <1>7, <1>8, <1>10, <1>11, Frame

-----------------------------------------------------------------------------
LEMMA InitHolds ==
  ASSUME Init
  PROVE  Inv
<1>1. TypeOK
  BY PaymentsAssumption DEF Init, TypeOK, StripeIntent, Step
<1>2. \A i \in Intent : IntentPhase(i)
  BY DEF Init, IntentPhase
<1>3. \A o \in Order : RowPhase(o)
  BY DEF Init, RowPhase
<1>4. \A h \in Handler : HandlerPhase(h)
  BY DEF Init, HandlerPhase, HandlerAt
<1> QED  BY <1>1, <1>2, <1>3, <1>4 DEF Inv, PaymentPhases

LEMMA NextHolds ==
  ASSUME Inv, [Next]_vars
  PROVE  Inv'
<1>1. CASE UNCHANGED vars
  BY <1>1 DEF vars, Inv, TypeOK, PaymentPhases, IntentPhase, RowPhase, HandlerPhase, HandlerAt,
              Sound, Backed, TrueEvent, SamePayment
<1>2. ASSUME NEW i \in Intent, Environment(i)
      PROVE  Inv'
  BY <1>2, EnvironmentStep
<1>3. ASSUME NEW o \in Order, CreateAgain(o)
      PROVE  Inv'
  BY <1>3, CreateAgainStep
<1>4. ASSUME NEW h \in Handler, NEW o \in Order, Start(h, o)
      PROVE  Inv'
  BY <1>4, StartStep
<1>5. ASSUME NEW h \in Handler, Proceed(h)
      PROVE  Inv'
  <2>1. CASE \E i \in Intent : CreateIntent(h, i)
    BY <2>1, CreateIntentStep
  <2>2. CASE NoIntentOpened(h)
    BY <2>2, GivesUpStep
  <2>3. CASE Insert(h)
    BY <2>3, InsertStep
  <2>4. CASE InsertClashes(h)
    BY <2>4, InsertClashesStep
  <2>5. CASE Answer(h)
    BY <2>5, AnswerStep
  <2>6. CASE GetIntent(h)
    BY <2>6, GetIntentStep
  <2>7. CASE Refund(h)
    BY <2>7, RefundStep
  <2>8. CASE Save(h)
    BY <2>8, SaveStep
  <2>9. CASE Tell(h)
    BY <2>9, TellStep
  <2> QED  BY <1>5, <2>1, <2>2, <2>3, <2>4, <2>5, <2>6, <2>7, <2>8, <2>9 DEF Proceed
<1>6. ASSUME NEW h \in Handler, Abandon(h)
      PROVE  Inv'
  BY <1>6, GivesUpStep
<1> QED  BY <1>1, <1>2, <1>3, <1>4, <1>5, <1>6 DEF Next

\* The phases of intents, rows and requests hold in every reachable state.
THEOREM PaymentPhasesHold == Spec => []Inv
<1>1. Init => Inv
  BY InitHolds
<1>2. Inv /\ [Next]_vars => Inv'
  BY NextHolds
<1> QED  BY <1>1, <1>2, PTL DEF Spec

\* No refund, event or status leaves its range, whatever requests overlap.
THEOREM PaymentTypesHold == Spec => []TypeOK
<1>1. Inv => TypeOK
  BY DEF Inv
<1> QED  BY <1>1, PaymentPhasesHold, PTL

\* A customer can only pay the intent the payment row keeps.
THEOREM NoOrderIsChargedTwice == Spec => []NeverChargedTwice
<1>1. ASSUME Inv
      PROVE  NeverChargedTwice
  BY <1>1, Facts DEF NeverChargedTwice, IntentPhase
<1> QED  BY <1>1, PaymentPhasesHold, PTL

\* A row and the events about it claim nothing that Stripe does not know.
THEOREM MoneyIsBacked == Spec => []MoneyBacked
<1>1. ASSUME Inv
      PROVE  MoneyBacked
  <2>1. ASSUME NEW o \in Order, row[o] # NoRow
        PROVE  /\ row[o].status = "REFUNDED" <=> row[o].refunded = Amount
               /\ gateway = "stripe" /\ row[o].method = "CARD" =>
                    Backed(row[o], row[o].intent, told[o])
    <3>1. Sound(o, row[o]) /\ \A e \in told[o] : TrueEvent(row[o], e)
      BY <1>1, <2>1, Facts DEF RowPhase
    <3> QED  BY <3>1 DEF Sound, Backed, TrueEvent
  <2> QED  BY <2>1 DEF MoneyBacked
<1> QED  BY <1>1, PaymentPhasesHold, PTL

-----------------------------------------------------------------------------
(***************************************************************************)
(* Rows leave the payment lifecycle only through a stale snapshot: what a  *)
(* request writes follows the row it has read.                             *)
(***************************************************************************)
SnapshotAt(q, s, p) ==
  /\ q \in {"get", "refund"} => p = s
  /\ q = "save" => Follows(s, p)

Snapshots == \A h \in Handler : SnapshotAt(pc[h], seen[h], mine[h])

Lifecycle ==
  \A o \in Order : row[o] # NoRow /\ ~Follows(row[o], row'[o]) =>
    \E h \in Handler : pc[h] = "save" /\ ord[h] = o /\ seen[h] # row[o]

LEMMA NothingWritten ==
  ASSUME row' = row
  PROVE  Lifecycle
BY DEF Lifecycle, Follows

\* An idle handler starts with payment p in memory.
LEMMA BegunFollows ==
  ASSUME TypeOK, Snapshots, NEW h \in Handler, NEW o \in Order, NEW step, NEW p, NEW s, s = row[o],
         Begin(h, o, p, step), SnapshotAt(step, s, p)
  PROVE  Snapshots'
<1>1. pc'[h] = step /\ seen'[h] = s /\ mine'[h] = p
  BY DEF Begin, Goto, TypeOK
<1>2. \A g \in Handler \ {h} : pc'[g] = pc[g] /\ seen'[g] = seen[g] /\ mine'[g] = mine[g]
  BY DEF Begin, Goto, TypeOK
<1> QED  BY <1>1, <1>2 DEF Snapshots

\* A handler at work goes to step q with payment p, or back to idle.
LEMMA MovedFollows ==
  ASSUME TypeOK, Snapshots, NEW h \in Handler, NEW q, Goto(h, q), NEW s, s = seen[h], NEW p,
         seen' = seen, mine' = [mine EXCEPT ![h] = p], SnapshotAt(q, s, p)
  PROVE  Snapshots'
<1>1. pc'[h] = q /\ seen'[h] = s /\ mine'[h] = p
  BY DEF Goto, TypeOK
<1>2. \A g \in Handler \ {h} : pc'[g] = pc[g] /\ seen'[g] = seen[g] /\ mine'[g] = mine[g]
  BY DEF Goto, TypeOK
<1> QED  BY <1>1, <1>2 DEF Snapshots

LEMMA ReturnedFollows ==
  ASSUME TypeOK, Snapshots, NEW h \in Handler, Return(h)
  PROVE  Snapshots'
<1>1. pc'[h] = "idle"
  BY DEF Return, Goto, TypeOK
<1>2. \A g \in Handler \ {h} : pc'[g] = pc[g] /\ seen'[g] = seen[g] /\ mine'[g] = mine[g]
  BY DEF Return, Goto, TypeOK
<1> QED  BY <1>1, <1>2 DEF Snapshots, SnapshotAt

LEMMA StartFollows ==
  ASSUME Inv, Snapshots, NEW h \in Handler, NEW o \in Order, Start(h, o)
  PROVE  Snapshots' /\ row' = row
<1> SUFFICES ASSUME NEW r, r = row[o]
             PROVE  Snapshots' /\ row' = row
  OBVIOUS
<1>1. row' = row
  BY DEF Start, StartCreate, StartSync, Settle, StartRefund, Webhook
<1>2. \E p, step : Begin(h, o, p, step) /\ SnapshotAt(step, r, p)
  <2>1. ASSUME NEW m \in Method, StartCreate(h, o, m)
        PROVE  \E p, step : Begin(h, o, p, step) /\ SnapshotAt(step, r, p)
    <3>1. /\ Begin(h, o, NewPayment(m), IF m = "CARD" THEN "intent" ELSE "insert")
          /\ SnapshotAt(IF m = "CARD" THEN "intent" ELSE "insert", r, NewPayment(m))
      BY <2>1 DEF StartCreate, SnapshotAt
    <3> QED  BY <3>1
  <2>2. CASE StartSync(h, o)
    <3>1. Begin(h, o, r, "get") /\ SnapshotAt("get", r, r)
      BY <2>2 DEF StartSync, SnapshotAt
    <3> QED  BY <3>1
  <2>3. CASE Settle(h, o)
    <3>1. Begin(h, o, Captured(r), "save") /\ SnapshotAt("save", r, Captured(r))
      BY <2>3 DEF Settle, SnapshotAt, Follows
    <3> QED  BY <3>1
  <2>4. ASSUME NEW a \in 1 .. Amount, StartRefund(h, o, a)
        PROVE  \E p, step : Begin(h, o, p, step) /\ SnapshotAt(step, r, p)
    <3>1. CASE Begin(h, o, r, "refund")
      BY <3>1 DEF SnapshotAt
    <3>2. CASE Begin(h, o, ApplyRefund(r, a), "save")
      <4>1. SnapshotAt("save", r, ApplyRefund(r, a))
        BY <2>4 DEF StartRefund, SnapshotAt, Follows
      <4> QED  BY <3>2, <4>1
    <3> QED  BY <2>4, <3>1, <3>2 DEF StartRefund
  <2>5. ASSUME NEW i \in Intent, NEW e \in WebhookEvent, Webhook(h, o, i, e)
        PROVE  \E p, step : Begin(h, o, p, step) /\ SnapshotAt(step, r, p)
    <3>1. SnapshotAt("save", r, Captured(r)) /\ SnapshotAt("save", r, Failed(r))
      BY <2>5 DEF Webhook, Awaiting, SnapshotAt, Follows
    <3> QED  BY <2>5, <3>1 DEF Webhook
  <2> QED  BY <2>1, <2>2, <2>3, <2>4, <2>5 DEF Start
<1> QED  BY <1>1, <1>2, BegunFollows DEF Inv

LEMMA ProceedFollows ==
  ASSUME Inv, Snapshots, NEW h \in Handler, Proceed(h)
  PROVE  Snapshots' /\ Lifecycle
<1> SUFFICES ASSUME NEW p, p = mine[h], NEW s, s = seen[h], NEW o, o = ord[h], NEW a, a = amt[h]
             PROVE  Snapshots' /\ Lifecycle
  OBVIOUS
<1>1. mine = [mine EXCEPT ![h] = p] /\ SnapshotAt(pc[h], s, p) /\ TypeOK
  BY DEF Inv, TypeOK, Snapshots
<1>2. ASSUME NEW i \in Intent, CreateIntent(h, i)
      PROVE  Snapshots' /\ Lifecycle
  <2>1. \E q : mine' = [mine EXCEPT ![h] = q]
    BY <1>2 DEF CreateIntent
  <2>2. Goto(h, "insert") /\ seen' = seen /\ row' = row
    BY <1>2 DEF CreateIntent
  <2>3. \A q : SnapshotAt("insert", s, q)
    BY DEF SnapshotAt
  <2> QED  BY <1>1, <2>1, <2>2, <2>3, MovedFollows, NothingWritten
<1>3. CASE NoIntentOpened(h) \/ Answer(h) \/ Tell(h)
  BY <1>1, <1>3, ReturnedFollows, NothingWritten DEF NoIntentOpened, Answer, Tell
<1>4. CASE Insert(h)
  <2>1. \E q \in {"answer", "tell"} : Goto(h, q)
    BY <1>4 DEF Insert
  <2>2. \A q \in {"answer", "tell"} : SnapshotAt(q, s, p)
    BY DEF SnapshotAt
  <2>3. seen' = seen /\ mine' = [mine EXCEPT ![h] = p]
    BY <1>1, <1>4 DEF Insert, request
  <2>4. row[o] = NoRow /\ row' = [row EXCEPT ![o] = p]
    BY <1>4 DEF Insert
  <2>5. Lifecycle
    BY <1>1, <2>4 DEF Lifecycle, Follows, TypeOK
  <2> QED  BY <1>1, <2>1, <2>2, <2>3, <2>5, MovedFollows
<1>5. CASE InsertClashes(h)
  <2>1. \E q : mine' = [mine EXCEPT ![h] = q]
    BY <1>5 DEF InsertClashes
  <2>2. Goto(h, "answer") /\ seen' = seen /\ row' = row
    BY <1>5 DEF InsertClashes
  <2>3. \A q : SnapshotAt("answer", s, q)
    BY DEF SnapshotAt
  <2> QED  BY <1>1, <2>1, <2>2, <2>3, MovedFollows, NothingWritten
<1>6. ASSUME pc[h] \in {"get", "refund"}, NEW q, NEW e, WillSave(h, q, e), seen' = seen, row' = row,
             Follows(p, q)
      PROVE  Snapshots' /\ Lifecycle
  <2>1. SnapshotAt("save", s, q)
    BY <1>1, <1>6 DEF SnapshotAt
  <2> QED  BY <1>1, <1>6, <2>1, MovedFollows, NothingWritten DEF WillSave
<1>7. HandlerAt(pc[h], o, p, a, event[h])
  BY Facts DEF HandlerPhase
<1>8. CASE GetIntent(h)
  <2>1. pc[h] = "get" /\ row' = row
    BY <1>8 DEF GetIntent
  <2>2. Follows(p, Captured(p)) /\ Follows(p, Failed(p))
    BY <1>7, <2>1 DEF HandlerAt, Follows
  <2>3. CASE Return(h)
    BY <1>1, <2>1, <2>3, ReturnedFollows, NothingWritten
  <2>4. CASE WillSave(h, Captured(p), "payment.captured") /\ seen' = seen
    BY <1>6, <2>1, <2>2, <2>4
  <2>5. CASE WillSave(h, Failed(p), "none") /\ seen' = seen
    BY <1>6, <2>1, <2>2, <2>5
  <2> QED  BY <1>8, <2>3, <2>4, <2>5 DEF GetIntent
<1>9. CASE Refund(h)
  <2>1. pc[h] = "refund" /\ row' = row
    BY <1>9 DEF Refund
  <2>2. Follows(p, ApplyRefund(p, a))
    BY <1>7, <2>1 DEF HandlerAt, Follows
  <2>3. CASE Return(h)
    BY <1>1, <2>1, <2>3, ReturnedFollows, NothingWritten
  <2>4. CASE WillSave(h, ApplyRefund(p, a), "payment.refunded") /\ seen' = seen
    BY <1>6, <2>1, <2>2, <2>4
  <2> QED  BY <1>9, <2>3, <2>4 DEF Refund
<1>10. CASE Save(h)
  <2>1. pc[h] = "save" /\ row' = [row EXCEPT ![o] = p]
    BY <1>10 DEF Save
  <2>2. Follows(s, p)
    BY <1>1, <2>1 DEF SnapshotAt
  <2>3. \A x \in Order \ {o} : row'[x] = row[x]
    BY <1>1, <2>1 DEF TypeOK
  <2>4. o \in Order => row'[o] = p
    BY <1>1, <2>1 DEF TypeOK
  <2>5. Lifecycle
    <3>1. \A x \in Order \ {o} : Follows(row[x], row'[x])
      BY <2>3 DEF Follows
    <3>2. o \in Order /\ ~Follows(row[o], row'[o]) => seen[h] # row[o]
      BY <2>2, <2>4
    <3> QED  BY <2>1, <3>1, <3>2 DEF Lifecycle
  <2>6. CASE Return(h)
    BY <1>1, <2>5, <2>6, ReturnedFollows
  <2>7. CASE Goto(h, "tell") /\ UNCHANGED request
    <3>1. SnapshotAt("tell", s, p) /\ seen' = seen /\ mine' = [mine EXCEPT ![h] = p]
      BY <1>1, <2>7 DEF SnapshotAt, request
    <3> QED  BY <1>1, <2>5, <2>7, <3>1, MovedFollows
  <2> QED  BY <1>10, <2>5, <2>6, <2>7 DEF Save
<1> QED  BY <1>2, <1>3, <1>4, <1>5, <1>8, <1>9, <1>10 DEF Proceed

LEMMA NextFollows ==
  ASSUME Inv, Snapshots, [Next]_vars
  PROVE  Snapshots' /\ [Lifecycle]_vars
<1>1. CASE UNCHANGED vars
  BY <1>1 DEF vars, Snapshots
<1>2. ASSUME UNCHANGED <<row, pc, request>>
      PROVE  Snapshots' /\ Lifecycle
  BY <1>2, NothingWritten DEF Snapshots, request
<1>3. ASSUME NEW i \in Intent, Environment(i)
      PROVE  Snapshots' /\ Lifecycle
  BY <1>2, <1>3 DEF Environment, CustomerPays, CardDeclined, IntentCanceled, Stripe
<1>4. ASSUME NEW o \in Order, CreateAgain(o)
      PROVE  Snapshots' /\ Lifecycle
  BY <1>2, <1>4 DEF CreateAgain
<1>5. ASSUME NEW h \in Handler, NEW o \in Order, Start(h, o)
      PROVE  Snapshots' /\ Lifecycle
  BY <1>5, StartFollows, NothingWritten
<1>6. ASSUME NEW h \in Handler, Abandon(h)
      PROVE  Snapshots' /\ Lifecycle
  BY <1>6, ReturnedFollows, NothingWritten DEF Abandon, Inv
<1> QED  BY <1>1, <1>3, <1>4, <1>5, <1>6, ProceedFollows DEF Next

\* A payment leaves its lifecycle only when a request overwrites a row it read too early.
THEOREM OnlyStaleRequestsRegress == Spec => OnlyStaleWritesRegress
<1>1. Init => Snapshots
  BY DEF Init, Snapshots, SnapshotAt
<1>2. Inv /\ Snapshots /\ [Next]_vars => Snapshots' /\ [Lifecycle]_vars
  BY NextFollows
<1>3. Spec => [][Lifecycle]_vars
  BY <1>1, <1>2, PaymentPhasesHold, PTL DEF Spec
<1> QED  BY <1>3 DEF Lifecycle, OnlyStaleWritesRegress
=============================================================================
