--------------------------- MODULE Orders_proofs ----------------------------
(***************************************************************************)
(* What order-service guarantees for any number of orders, of requests in  *)
(* progress and of units, whichever requests stop half way and whichever   *)
(* ignored calls fail.                                                     *)
(***************************************************************************)
EXTENDS Orders, FiniteSetTheorems, TLAPS

Inv == TypeOK /\ OrderPhases

Level == [onHand : Int, reserved : Int]

-----------------------------------------------------------------------------
(***************************************************************************)
(* Updates of one row and of the two quantities.                           *)
(***************************************************************************)

LEMMA ApplyLevel ==
  ASSUME NEW type \in MovementType, NEW lv \in Level, NEW q \in Int
  PROVE  /\ OnHandDelta(type, q) \in Int
         /\ ReservedDelta(type, q) \in Int
         /\ Apply(type, lv, q) \in Level
         /\ Apply(type, lv, q).onHand = lv.onHand + OnHandDelta(type, q)
         /\ Apply(type, lv, q).reserved = lv.reserved + ReservedDelta(type, q)
<1>1. OnHandDelta(type, q) \in Int /\ ReservedDelta(type, q) \in Int
  BY DEF OnHandDelta, ReservedDelta, MovementType
<1>2. \A x, y \in Int : LET lw == [lv EXCEPT !.onHand = x, !.reserved = y]
                        IN  lw \in Level /\ lw.onHand = x /\ lw.reserved = y
  BY DEF Level
<1>3. lv.onHand \in Int /\ lv.reserved \in Int
  BY DEF Level
<1>4. lv.onHand + OnHandDelta(type, q) \in Int /\ lv.reserved + ReservedDelta(type, q) \in Int
  BY <1>1, <1>3
<1> QED  BY <1>1, <1>2, <1>4 DEF Apply

\* An update of one column leaves the others as they are.
LEMMA StatusUpdate ==
  ASSUME NEW r \in Row, NEW st \in OrderStatus
  PROVE  LET w == [r EXCEPT !.status = st] IN
         w \in Row /\ w.status = st /\ w.pay = r.pay /\ w.payment = r.payment
BY DEF Row

LEMMA PayUpdate ==
  ASSUME NEW r \in Row, NEW to \in PaymentStatus
  PROVE  LET w == [r EXCEPT !.pay = to] IN
         w \in Row /\ w.status = r.status /\ w.pay = to /\ w.payment = r.payment
BY DEF Row

LEMMA PaymentUpdate ==
  ASSUME NEW r \in Row
  PROVE  LET w == [r EXCEPT !.payment = TRUE] IN
         w \in Row /\ w.status = r.status /\ w.pay = r.pay /\ w.payment = TRUE
BY DEF Row

-----------------------------------------------------------------------------
(***************************************************************************)
(* Framing: a step of handler h changes at most the order o.               *)
(***************************************************************************)
LEMMA OneHandlerOneOrder ==
  ASSUME Inv, NEW h \in Handler, NEW o \in Order,
         \A p \in Order \ {o} : row'[p] = row[p] /\ moves'[p] = moves[p] /\ told'[p] = told[p],
         \A g \in Handler \ {h} : pc'[g] = pc[g] /\ ord'[g] = ord[g] /\ seen'[g] = seen[g],
         OrderAt(row'[o], moves'[o], told'[o]),
         IF pc'[h] \in Unassigned
           THEN ord'[h] = NoOrder
           ELSE ord'[h] = o /\ HandlerAt(pc'[h], seen'[h], row'[o], moves'[o], told'[o]),
         \A g \in Handler \ {h} : ord[g] = o =>
           /\ HandlerAt(pc[g], seen[g], row'[o], moves'[o], told'[o])
           /\ pc'[h] \notin Unassigned => Compatible(pc[g], pc'[h])
  PROVE  OrderPhases'
<1>1. \A p \in Order : OrderAt(row'[p], moves'[p], told'[p])
  BY DEF Inv, OrderPhases
<1>2. ASSUME NEW g \in Handler
      PROVE  IF pc'[g] \in Unassigned
               THEN ord'[g] = NoOrder
               ELSE /\ ord'[g] \in Order
                    /\ HandlerAt(pc'[g], seen'[g], row'[ord'[g]], moves'[ord'[g]], told'[ord'[g]])
  <2>1. CASE g = h
    BY <2>1
  <2>2. CASE g # h
    BY <2>2 DEF Inv, OrderPhases
  <2> QED  BY <2>1, <2>2
<1>3. ASSUME NEW f \in Handler, NEW g \in Handler,
             f # g, ord'[f] = ord'[g], ord'[g] # NoOrder
      PROVE  Compatible(pc'[f], pc'[g])
  <2>1. \A p, q : Compatible(p, q) => Compatible(q, p)
    BY DEF Compatible
  <2>2. CASE f = h
    BY <1>3, <2>1, <2>2 DEF Inv, OrderPhases
  <2>3. CASE g = h
    BY <1>3, <2>1, <2>3 DEF Inv, OrderPhases
  <2>4. CASE f # h /\ g # h
    BY <1>3, <2>4 DEF Inv, OrderPhases
  <2> QED  BY <2>2, <2>3, <2>4
<1> QED  BY <1>1, <1>2, <1>3 DEF OrderPhases

\* A step that touches no order and leaves h without one.
LEMMA NoOrderTouched ==
  ASSUME Inv, NEW h \in Handler, UNCHANGED <<row, moves, told>>,
         \A g \in Handler \ {h} : pc'[g] = pc[g] /\ ord'[g] = ord[g] /\ seen'[g] = seen[g],
         pc'[h] \in Unassigned, ord'[h] = NoOrder
  PROVE  OrderPhases'
<1>1. \A o \in Order : OrderAt(row'[o], moves'[o], told'[o])
  BY DEF Inv, OrderPhases
<1>2. ASSUME NEW g \in Handler
      PROVE  IF pc'[g] \in Unassigned
               THEN ord'[g] = NoOrder
               ELSE /\ ord'[g] \in Order
                    /\ HandlerAt(pc'[g], seen'[g], row'[ord'[g]], moves'[ord'[g]], told'[ord'[g]])
  <2>1. CASE g = h
    BY <2>1
  <2>2. CASE g # h
    BY <2>2 DEF Inv, OrderPhases
  <2> QED  BY <2>1, <2>2
<1>3. ASSUME NEW f \in Handler, NEW g \in Handler,
             f # g, ord'[f] = ord'[g], ord'[g] # NoOrder
      PROVE  Compatible(pc'[f], pc'[g])
  BY <1>3 DEF Inv, OrderPhases
<1> QED  BY <1>1, <1>2, <1>3 DEF OrderPhases

\* A step of h to step p that changes neither its order nor any other.
LEMMA OnlyTheStep ==
  ASSUME Inv, NEW h \in Handler, NEW p \in Step,
         pc[h] \notin Unassigned, p \notin Unassigned,
         pc' = [pc EXCEPT ![h] = p],
         UNCHANGED <<row, moves, told, ord, seen>>,
         HandlerAt(p, seen[h], row[ord[h]], moves[ord[h]], told[ord[h]]),
         \A steps \in Exclusive : p \in steps => pc[h] \in steps
  PROVE  OrderPhases'
<1> DEFINE o == ord[h]
<1>1. o \in Order
  BY DEF Inv, OrderPhases
<1>2. pc'[h] = p /\ \A g \in Handler \ {h} : pc'[g] = pc[g]
  BY DEF Inv, TypeOK
<1>3. \A g \in Handler \ {h} : ord[g] = o =>
        /\ HandlerAt(pc[g], seen[g], row'[o], moves'[o], told'[o])
        /\ Compatible(pc[g], p)
  <2> SUFFICES ASSUME NEW g \in Handler \ {h}, ord[g] = o
               PROVE  /\ HandlerAt(pc[g], seen[g], row'[o], moves'[o], told'[o])
                      /\ Compatible(pc[g], p)
    OBVIOUS
  <2>1. o # NoOrder
    BY <1>1, OrdersAssumption
  <2>2. HandlerAt(pc[g], seen[g], row[o], moves[o], told[o])
    BY <2>1 DEF Inv, OrderPhases
  <2>3. Compatible(pc[g], pc[h])
    BY <2>1 DEF Inv, OrderPhases
  <2> QED  BY <2>2, <2>3 DEF Compatible
<1>4. OrderAt(row'[o], moves'[o], told'[o])
  BY <1>1 DEF Inv, OrderPhases
<1> QED  BY <1>1, <1>2, <1>3, <1>4, OneHandlerOneOrder

-----------------------------------------------------------------------------
(***************************************************************************)
(* The two ways a handler moves: Return and Continue.                      *)
(***************************************************************************)
DataTypes ==
  /\ row \in [Order -> Row \cup {NoRow}]
  /\ redeemed \in 0 .. MaxRedemptions
  /\ cart \in BOOLEAN
  /\ level \in Level
  /\ moves \in [Order -> [OrderMovement -> Nat]]
  /\ refunds \in [Order -> SUBSET RefundKinds]
  /\ told \in [Order -> [EventType -> 0 .. 2]]

RequestTypes ==
  /\ pc \in [Handler -> Step]
  /\ ord \in [Handler -> Order \cup {NoOrder}]
  /\ key \in [Handler -> Key \cup {NoKey}]
  /\ coupon \in [Handler -> BOOLEAN]
  /\ seen \in [Handler -> Row \cup {NoRow}]
  /\ answer \in [Handler -> PayAnswers]

LEMMA TypeParts == TypeOK <=> DataTypes /\ RequestTypes
BY DEF TypeOK, DataTypes, RequestTypes, Level

LEMMA TypePartsNext == TypeOK' <=> DataTypes' /\ RequestTypes'
BY DEF TypeOK, DataTypes, RequestTypes, Level

LEMMA Returning ==
  ASSUME RequestTypes, NEW h \in Handler, Return(h)
  PROVE  /\ RequestTypes'
         /\ pc'[h] = "idle" /\ pc'[h] \in Unassigned /\ ord'[h] = NoOrder
         /\ \A g \in Handler \ {h} : pc'[g] = pc[g] /\ ord'[g] = ord[g] /\ seen'[g] = seen[g]
BY DEF RequestTypes, Return, Goto, Step, PayAnswers, Unassigned

LEMMA Continuing ==
  ASSUME RequestTypes, NEW h \in Handler, NEW p \in Step, Continue(h, p)
  PROVE  /\ RequestTypes'
         /\ pc' = [pc EXCEPT ![h] = p] /\ pc'[h] = p
         /\ UNCHANGED <<ord, key, coupon, seen, answer>>
         /\ \A g \in Handler \ {h} : pc'[g] = pc[g]
BY DEF RequestTypes, Continue, Goto, request

LEMMA QuietData ==
  ASSUME DataTypes, UNCHANGED <<store, services, told>>
  PROVE  DataTypes' /\ UNCHANGED <<row, redeemed, cart, level, moves, refunds, told>>
BY DEF DataTypes, store, services

LEMMA QuietReturn ==
  ASSUME Inv, NEW h \in Handler, Return(h), UNCHANGED <<store, services, told>>
  PROVE  Inv'
<1>1. DataTypes /\ RequestTypes
  BY TypeParts DEF Inv
<1>2. OrderPhases'
  BY <1>1, Returning, QuietData, NoOrderTouched
<1> QED  BY <1>1, <1>2, Returning, QuietData, TypePartsNext DEF Inv

LEMMA QuietStep ==
  ASSUME Inv, NEW h \in Handler, NEW p \in Step,
         pc[h] \notin Unassigned, p \notin Unassigned,
         Continue(h, p), UNCHANGED <<store, services, told>>,
         HandlerAt(p, seen[h], row[ord[h]], moves[ord[h]], told[ord[h]]),
         \A steps \in Exclusive : p \in steps => pc[h] \in steps
  PROVE  Inv'
<1>1. DataTypes /\ RequestTypes
  BY TypeParts DEF Inv
<1>2. OrderPhases'
  BY <1>1, Continuing, QuietData, OnlyTheStep
<1> QED  BY <1>1, <1>2, Continuing, QuietData, TypePartsNext DEF Inv

(***************************************************************************)
(* A call of payment-service: refunds is only typed in Inv.                *)
(***************************************************************************)
LEMMA PayBackTypes ==
  ASSUME Inv, NEW h \in Handler, pc[h] \notin Unassigned, UNCHANGED <<store, level, moves, told>>,
         NEW kind \in RefundKinds, PayBack(h, kind) \/ UNCHANGED refunds
  PROVE  DataTypes'
<1>1. DataTypes /\ ord[h] \in Order
  BY TypeParts DEF Inv, OrderPhases
<1>2. refunds' \in [Order -> SUBSET RefundKinds]
  BY <1>1 DEF DataTypes, PayBack
<1> QED  BY <1>1, <1>2 DEF DataTypes, store

LEMMA CallStep ==
  ASSUME Inv, NEW h \in Handler, NEW p \in Step,
         pc[h] \notin Unassigned, p \notin Unassigned,
         Continue(h, p), UNCHANGED <<row, moves, told>>, DataTypes',
         HandlerAt(p, seen[h], row[ord[h]], moves[ord[h]], told[ord[h]]),
         \A steps \in Exclusive : p \in steps => pc[h] \in steps
  PROVE  Inv'
<1>1. DataTypes /\ RequestTypes
  BY TypeParts DEF Inv
<1>2. OrderPhases'
  BY <1>1, Continuing, OnlyTheStep
<1> QED  BY <1>1, <1>2, Continuing, TypePartsNext DEF Inv

LEMMA CallReturn ==
  ASSUME Inv, NEW h \in Handler, Return(h), UNCHANGED <<row, moves, told>>, DataTypes'
  PROVE  Inv'
<1>1. RequestTypes
  BY TypeParts DEF Inv
<1>2. OrderPhases'
  BY <1>1, Returning, NoOrderTouched
<1> QED  BY <1>1, <1>2, Returning, TypePartsNext DEF Inv

LEMMA QuietUnassigned ==
  ASSUME Inv, NEW h \in Handler, NEW p \in Unassigned,
         pc[h] \in Unassigned, Continue(h, p), UNCHANGED <<store, services, told>>
  PROVE  Inv'
<1>1. DataTypes /\ RequestTypes
  BY TypeParts DEF Inv
<1>2. p \in Step /\ ord[h] = NoOrder
  BY DEF Unassigned, Step, Inv, OrderPhases
<1>3. OrderPhases'
  BY <1>1, <1>2, Continuing, QuietData, NoOrderTouched
<1> QED  BY <1>1, <1>2, <1>3, Continuing, QuietData, TypePartsNext DEF Inv

\* What is known of a handler that has an order.
LEMMA Assigned ==
  ASSUME Inv, NEW h \in Handler, pc[h] \notin Unassigned
  PROVE  /\ ord[h] \in Order /\ ord[h] # NoOrder
         /\ row[ord[h]] \in Row \cup {NoRow}
         /\ HandlerAt(pc[h], seen[h], row[ord[h]], moves[ord[h]], told[ord[h]])
         /\ OrderAt(row[ord[h]], moves[ord[h]], told[ord[h]])
BY OrdersAssumption DEF Inv, TypeOK, OrderPhases

(***************************************************************************)
(* Every other handler on the order of h is at a step compatible with that *)
(* of h; so what holds of all such steps after an update of the order      *)
(* holds of the other handlers.                                            *)
(***************************************************************************)
LEMMA OrderUpdated ==
  ASSUME Inv, NEW h \in Handler, pc[h] \notin Unassigned,
         NEW w, NEW m, NEW e,
         row'   = [row EXCEPT ![ord[h]] = w],
         moves' = [moves EXCEPT ![ord[h]] = m],
         told'  = [told EXCEPT ![ord[h]] = e],
         OrderAt(w, m, e),
         \A g \in Handler \ {h} : pc'[g] = pc[g] /\ ord'[g] = ord[g] /\ seen'[g] = seen[g],
         IF pc'[h] \in Unassigned
           THEN ord'[h] = NoOrder
           ELSE ord'[h] = ord[h] /\ HandlerAt(pc'[h], seen'[h], w, m, e),
         \A q \in Step, s \in Row \cup {NoRow} :
           /\ HandlerAt(q, s, row[ord[h]], moves[ord[h]], told[ord[h]])
           /\ Compatible(q, pc[h])
           => /\ HandlerAt(q, s, w, m, e)
              /\ pc'[h] \notin Unassigned => Compatible(q, pc'[h])
  PROVE  OrderPhases'
<1> DEFINE o == ord[h]
<1>1. o \in Order /\ o # NoOrder
  BY Assigned
<1>2. /\ row'[o] = w /\ moves'[o] = m /\ told'[o] = e
      /\ \A p \in Order \ {o} : row'[p] = row[p] /\ moves'[p] = moves[p] /\ told'[p] = told[p]
  BY <1>1 DEF Inv, TypeOK
<1>3. ASSUME NEW g \in Handler \ {h}, ord[g] = o
      PROVE  /\ HandlerAt(pc[g], seen[g], row'[o], moves'[o], told'[o])
             /\ pc'[h] \notin Unassigned => Compatible(pc[g], pc'[h])
  <2>1. pc[g] \in Step /\ seen[g] \in Row \cup {NoRow}
    BY DEF Inv, TypeOK
  <2>2. HandlerAt(pc[g], seen[g], row[o], moves[o], told[o]) /\ Compatible(pc[g], pc[h])
    BY <1>1, <1>3 DEF Inv, OrderPhases
  <2> QED  BY <1>2, <2>1, <2>2
<1> QED  BY <1>1, <1>2, <1>3, OneHandlerOneOrder

\* What the other handlers on an order need: their knowledge survives an update
\* (r, m, e) of the order by a handler that goes from step p to step n.
Survives(p, n, r, m, e, rr, mm, ee) ==
  \A q \in Step, s \in Row \cup {NoRow} :
    HandlerAt(q, s, r, m, e) /\ Compatible(q, p)
    => HandlerAt(q, s, rr, mm, ee) /\ (n \notin Unassigned => Compatible(q, n))

LEMMA RowWritten ==
  ASSUME Inv, NEW h \in Handler, pc[h] \notin Unassigned, NEW p \in Step, p \notin Unassigned,
         NEW w \in Row, row' = [row EXCEPT ![ord[h]] = w],
         UNCHANGED <<redeemed, cart, services, told>>, Continue(h, p),
         OrderAt(w, moves[ord[h]], told[ord[h]]),
         HandlerAt(p, seen[h], w, moves[ord[h]], told[ord[h]]),
         Survives(pc[h], p, row[ord[h]], moves[ord[h]], told[ord[h]],
                  w, moves[ord[h]], told[ord[h]])
  PROVE  Inv'
<1>1. DataTypes /\ RequestTypes
  BY TypeParts DEF Inv
<1>2. /\ RequestTypes' /\ pc'[h] = p /\ ord' = ord /\ seen' = seen
      /\ \A g \in Handler \ {h} : pc'[g] = pc[g]
  BY <1>1, Continuing
<1>3. DataTypes'
  BY <1>1, Assigned DEF DataTypes, services
<1>4. /\ moves' = [moves EXCEPT ![ord[h]] = moves[ord[h]]]
      /\ told' = [told EXCEPT ![ord[h]] = told[ord[h]]]
  BY <1>1 DEF DataTypes, services
<1>5. OrderPhases'
  BY <1>2, <1>4, OrderUpdated DEF Survives
<1> QED  BY <1>2, <1>3, <1>5, TypePartsNext DEF Inv

\* One more movement of one type.
LEMMA MovedOnce ==
  ASSUME NEW m \in [OrderMovement -> Nat], NEW type \in OrderMovement
  PROVE  LET mm == [m EXCEPT ![type] = @ + 1] IN
         /\ mm \in [OrderMovement -> Nat]
         /\ mm[type] = m[type] + 1
         /\ \A t \in OrderMovement \ {type} : mm[t] = m[t]
OBVIOUS

LEMMA StockCallTypes ==
  ASSUME DataTypes, NEW type \in OrderMovement, NEW o \in Order, StockCall(type, o),
         UNCHANGED <<store, told>>
  PROVE  /\ DataTypes' /\ row' = row
         /\ moves' = [moves EXCEPT ![o] = [moves[o] EXCEPT ![type] = @ + 1]]
<1>1. type \in MovementType /\ Lines \in Int
  BY OrdersAssumption DEF OrderMovement, MovementType
<1>2. level' \in Level
  BY <1>1, ApplyLevel DEF DataTypes, StockCall
<1>3. moves' \in [Order -> [OrderMovement -> Nat]]
  BY MovedOnce DEF DataTypes, StockCall
<1>4. moves' = [moves EXCEPT ![o] = [moves[o] EXCEPT ![type] = @ + 1]] /\ UNCHANGED refunds
  BY DEF StockCall
<1> QED  BY <1>2, <1>3, <1>4 DEF DataTypes, store

LEMMA StockMoved ==
  ASSUME Inv, NEW h \in Handler, pc[h] \notin Unassigned, NEW p \in Step,
         NEW type \in OrderMovement, StockCall(type, ord[h]), UNCHANGED <<store, told>>,
         \/ Return(h) /\ p = "idle"
         \/ Continue(h, p) /\ p \notin Unassigned,
         \A mm \in [OrderMovement -> Nat] :
           /\ mm[type] = moves[ord[h]][type] + 1
           /\ \A t \in OrderMovement \ {type} : mm[t] = moves[ord[h]][t]
           => /\ OrderAt(row[ord[h]], mm, told[ord[h]])
              /\ p # "idle" => HandlerAt(p, seen[h], row[ord[h]], mm, told[ord[h]])
              /\ Survives(pc[h], p, row[ord[h]], moves[ord[h]], told[ord[h]],
                          row[ord[h]], mm, told[ord[h]])
  PROVE  Inv'
<1> DEFINE o == ord[h]
           mm == [moves[o] EXCEPT ![type] = @ + 1]
<1>1. DataTypes /\ RequestTypes /\ o \in Order
  BY TypeParts, Assigned DEF Inv
<1>2. DataTypes' /\ row' = row /\ moves' = [moves EXCEPT ![o] = mm] /\ told' = told
  BY <1>1, StockCallTypes
<1>3. /\ mm \in [OrderMovement -> Nat]
      /\ mm[type] = moves[o][type] + 1
      /\ \A t \in OrderMovement \ {type} : mm[t] = moves[o][t]
  BY <1>1, MovedOnce DEF DataTypes
<1>4. /\ RequestTypes' /\ pc'[h] = p
      /\ \A g \in Handler \ {h} : pc'[g] = pc[g] /\ ord'[g] = ord[g] /\ seen'[g] = seen[g]
      /\ IF p = "idle" THEN ord'[h] = NoOrder
                       ELSE p \notin Unassigned /\ ord'[h] = o /\ seen'[h] = seen[h]
  BY <1>1, Returning, Continuing DEF Unassigned
<1>5. row' = [row EXCEPT ![o] = row[o]] /\ told' = [told EXCEPT ![o] = told[o]]
  BY <1>1, <1>2 DEF DataTypes
<1> HIDE DEF mm
<1>6. OrderPhases'
  BY <1>2, <1>3, <1>4, <1>5, OrderUpdated DEF Survives, Unassigned
<1> QED  BY <1>2, <1>4, <1>6, TypePartsNext DEF Inv

\* One more event of one kind, counted up to two.
LEMMA ToldOnce ==
  ASSUME NEW e \in [EventType -> 0 .. 2], NEW event \in EventType
  PROVE  LET ee == [e EXCEPT ![event] = IF @ < 2 THEN @ + 1 ELSE 2] IN
         /\ ee \in [EventType -> 0 .. 2]
         /\ ee[event] = IF e[event] < 2 THEN e[event] + 1 ELSE 2
         /\ \A f \in EventType \ {event} : ee[f] = e[f]
OBVIOUS

LEMMA EventAdded ==
  ASSUME Inv, NEW h \in Handler, pc[h] \notin Unassigned,
         NEW ee \in [EventType -> 0 .. 2], told' = [told EXCEPT ![ord[h]] = ee],
         Return(h), UNCHANGED <<store, services>>,
         OrderAt(row[ord[h]], moves[ord[h]], ee),
         Survives(pc[h], "idle", row[ord[h]], moves[ord[h]], told[ord[h]],
                  row[ord[h]], moves[ord[h]], ee)
  PROVE  Inv'
<1> DEFINE o == ord[h]
<1>1. DataTypes /\ RequestTypes /\ o \in Order
  BY TypeParts, Assigned DEF Inv
<1>2. /\ RequestTypes' /\ pc'[h] = "idle" /\ pc'[h] \in Unassigned /\ ord'[h] = NoOrder
      /\ \A g \in Handler \ {h} : pc'[g] = pc[g] /\ ord'[g] = ord[g] /\ seen'[g] = seen[g]
  BY <1>1, Returning
<1>3. /\ row' = [row EXCEPT ![o] = row[o]] /\ moves' = [moves EXCEPT ![o] = moves[o]]
      /\ DataTypes'
  BY <1>1 DEF DataTypes, store, services
<1>4. \A q \in Step, s \in Row \cup {NoRow} :
        HandlerAt(q, s, row[o], moves[o], told[o]) /\ Compatible(q, pc[h])
        => HandlerAt(q, s, row[o], moves[o], ee)
  BY DEF Survives
<1>5. OrderPhases'
  BY <1>2, <1>3, <1>4, OrderUpdated
<1> QED  BY <1>2, <1>3, <1>5, TypePartsNext DEF Inv

LEMMA Published ==
  ASSUME Inv, NEW h \in Handler, NEW step \in Step, step \notin Unassigned,
         NEW event \in EventType, Publish(h, step, event),
         \A ee \in [EventType -> 0 .. 2] :
           /\ ee[event] = IF told[ord[h]][event] < 2 THEN told[ord[h]][event] + 1 ELSE 2
           /\ \A f \in EventType \ {event} : ee[f] = told[ord[h]][f]
           => /\ OrderAt(row[ord[h]], moves[ord[h]], ee)
              /\ Survives(step, "idle", row[ord[h]], moves[ord[h]], told[ord[h]],
                          row[ord[h]], moves[ord[h]], ee)
  PROVE  Inv'
<1> DEFINE o == ord[h]
           ee == [told[o] EXCEPT ![event] = IF @ < 2 THEN @ + 1 ELSE 2]
<1>1. DataTypes /\ o \in Order /\ pc[h] = step
  BY TypeParts, Assigned DEF Inv, Publish
<1>2. CASE UNCHANGED told
  BY <1>2, QuietReturn DEF Publish
<1>3. CASE Tell(ord[h], event)
  <2>1. /\ ee \in [EventType -> 0 .. 2]
        /\ ee[event] = IF told[o][event] < 2 THEN told[o][event] + 1 ELSE 2
        /\ \A f \in EventType \ {event} : ee[f] = told[o][f]
    BY <1>1, ToldOnce DEF DataTypes
  <2>2. told' = [told EXCEPT ![o] = ee]
    BY <1>1, <1>3 DEF Tell
  <2>3. Return(h) /\ UNCHANGED <<store, services>>
    BY DEF Publish
  <2> HIDE DEF ee
  <2>4. /\ OrderAt(row[o], moves[o], ee)
        /\ Survives(pc[h], "idle", row[o], moves[o], told[o], row[o], moves[o], ee)
    BY <1>1, <2>1
  <2> QED  BY <1>1, <2>1, <2>2, <2>3, <2>4, EventAdded
<1> QED  BY <1>2, <1>3 DEF Publish

-----------------------------------------------------------------------------
(***************************************************************************)
(* One lemma per action: it preserves Inv.  First those that only move the *)
(* handler, or change variables the invariant does not relate to orders.   *)
(***************************************************************************)

LEMMA AroundHandlers ==
  ASSUME Inv, ChangeCart \/ \E q \in Correction : AdjustStock(q)
  PROVE  Inv'
<1>1. UNCHANGED <<row, redeemed, moves, refunds, told, pc, ord, key, coupon, seen, answer>>
  BY DEF ChangeCart, AdjustStock, store, services, request
<1>2. CASE ChangeCart
  <2>1. cart' \in BOOLEAN /\ level' = level
    BY <1>2 DEF ChangeCart, services
  <2> QED  BY <1>1, <2>1 DEF Inv, OrderPhases, TypeOK
<1>3. ASSUME NEW q \in Correction, AdjustStock(q)
      PROVE  Inv'
  <2>1. "ADJUST" \in MovementType /\ q \in Int /\ level \in Level
    BY OrdersAssumption DEF MovementType, Inv, TypeOK, Level
  <2>2. level' \in Level /\ cart' = cart
    BY <1>3, <2>1, ApplyLevel DEF AdjustStock, store
  <2> QED  BY <1>1, <2>2 DEF Inv, OrderPhases, TypeOK, Level
<1> QED  BY <1>2, <1>3

LEMMA StartCheckoutInv ==
  ASSUME Inv, NEW h \in Handler, NEW k \in Key \cup {NoKey}, NEW c \in Coupons, StartCheckout(h, k, c)
  PROVE  Inv'
<1>1. DataTypes /\ RequestTypes /\ DataTypes' /\ UNCHANGED <<row, moves, told, ord, seen>>
  BY TypeParts, QuietData DEF Inv, StartCheckout
<1>2. RequestTypes'
  BY <1>1, OrdersAssumption DEF RequestTypes, StartCheckout, Goto, Step
<1>3. /\ pc'[h] = "cart" /\ \A g \in Handler \ {h} : pc'[g] = pc[g]
      /\ ord[h] = NoOrder
  BY <1>1 DEF StartCheckout, Goto, RequestTypes, Inv, OrderPhases, Unassigned
<1>4. OrderPhases'
  BY <1>1, <1>3, NoOrderTouched DEF Unassigned
<1> QED  BY <1>1, <1>2, <1>4, TypePartsNext DEF Inv

LEMMA LoadInv ==
  ASSUME Inv, NEW h \in Handler, NEW o \in Order, NEW p \in {"pay", "fulfil", "cancel", "return", "restock"},
         Load(h, o, p), p \in Resolving => row[o].status = "FULFILLED"
  PROVE  Inv'
<1>1. DataTypes /\ RequestTypes /\ DataTypes' /\ UNCHANGED <<row, moves, told>>
  BY TypeParts, QuietData DEF Inv, Load
<1>2. RequestTypes'
  BY <1>1 DEF RequestTypes, DataTypes, Load, Goto, Step
<1>3. /\ pc'[h] = p /\ ord'[h] = o /\ seen'[h] = row[o] /\ row[o] # NoRow
      /\ \A g \in Handler \ {h} : pc'[g] = pc[g] /\ ord'[g] = ord[g] /\ seen'[g] = seen[g]
  BY <1>1 DEF Load, Goto, RequestTypes
<1>4. /\ HandlerAt(p, row[o], row[o], moves[o], told[o])
      /\ \A q : Compatible(q, p)
  BY <1>3 DEF HandlerAt, Unwritten, Placed, Attached, Shipped, Released, Refunding, Resolving,
              Compatible, Exclusive
<1>5. OrderAt(row'[o], moves'[o], told'[o])
  BY <1>1 DEF Inv, OrderPhases
<1>6. \A g \in Handler \ {h} : ord[g] = o => HandlerAt(pc[g], seen[g], row'[o], moves'[o], told'[o])
  BY <1>1, OrdersAssumption DEF Inv, OrderPhases
<1>7. p \notin Unassigned
  BY DEF Unassigned
<1>8. OrderPhases'
  BY <1>1, <1>3, <1>4, <1>5, <1>6, <1>7, OneHandlerOneOrder
<1> QED  BY <1>1, <1>2, <1>8, TypePartsNext DEF Inv

LEMMA ChoosingInv ==
  ASSUME Inv, NEW h \in Handler,
         ReadCart(h) \/ Quote(h) \/ ReserveRefused(h) \/ PayRefused(h) \/ Abandon(h)
  PROVE  Inv'
<1>1. CASE ReadCart(h) \/ Quote(h)
  BY <1>1, QuietUnassigned, QuietReturn DEF ReadCart, Quote, Unassigned
<1>2. CASE ReserveRefused(h) \/ PayRefused(h) \/ Abandon(h)
  BY <1>2, QuietReturn DEF ReserveRefused, PayRefused, Abandon
<1> QED  BY <1>1, <1>2

\* Steps between steps that know the same of the order.
LEMMA CreateFailsInv ==
  ASSUME Inv, NEW h \in Handler, CreateFails(h)
  PROVE  Inv'
<1>1. pc[h] = "create" /\ Continue(h, "compensate") /\ UNCHANGED <<store, services, told>>
  BY DEF CreateFails
<1>2. HandlerAt("create", seen[h], row[ord[h]], moves[ord[h]], told[ord[h]])
  BY <1>1, Assigned DEF Unassigned
<1>3. HandlerAt("compensate", seen[h], row[ord[h]], moves[ord[h]], told[ord[h]])
  BY <1>2 DEF HandlerAt, Unwritten, Placed, Attached, Shipped, Released, Refunding, Resolving
<1>4. \A steps \in Exclusive : "compensate" \in steps => "create" \in steps
  BY DEF Exclusive, Unwritten, Placed, Shipped, Released, Refunding
<1> QED  BY <1>1, <1>3, <1>4, QuietStep DEF Unassigned, Step

LEMMA RedeemInv ==
  ASSUME Inv, NEW h \in Handler, Redeem(h)
  PROVE  Inv'
<1>1. /\ pc[h] = "redeem" /\ Continue(h, "clear")
      /\ UNCHANGED <<row, cart, level, moves, refunds, told>>
  BY DEF Redeem, services
<1>2. redeemed' \in 0 .. MaxRedemptions
  BY OrdersAssumption DEF Redeem, Inv, TypeOK
<1>3. DataTypes /\ RequestTypes /\ DataTypes'
  BY <1>1, <1>2, TypeParts DEF Inv, DataTypes
<1>4. HandlerAt("redeem", seen[h], row[ord[h]], moves[ord[h]], told[ord[h]])
  BY <1>1, Assigned DEF Unassigned
<1>5. HandlerAt("clear", seen[h], row[ord[h]], moves[ord[h]], told[ord[h]])
  BY <1>4 DEF HandlerAt, Unwritten, Placed, Attached, Shipped, Released, Refunding, Resolving
<1>6. \A steps \in Exclusive : "clear" \in steps => "redeem" \in steps
  BY DEF Exclusive, Unwritten, Placed, Shipped, Released, Refunding
<1>7. RequestTypes' /\ UNCHANGED <<ord, seen>> /\ pc' = [pc EXCEPT ![h] = "clear"]
  BY <1>1, <1>3, Continuing DEF Step
<1>8. OrderPhases'
  BY <1>1, <1>5, <1>6, <1>7, OnlyTheStep DEF Unassigned, Step
<1> QED  BY <1>3, <1>7, <1>8, TypePartsNext DEF Inv

LEMMA ClearCartInv ==
  ASSUME Inv, NEW h \in Handler, ClearCart(h)
  PROVE  Inv'
<1>1. /\ pc[h] = "clear" /\ Continue(h, "tellPlaced")
      /\ UNCHANGED <<row, redeemed, level, moves, refunds, told>> /\ cart' \in BOOLEAN
  BY DEF ClearCart, services, Inv, TypeOK
<1>2. DataTypes /\ RequestTypes /\ DataTypes'
  BY <1>1, TypeParts DEF Inv, DataTypes
<1>3. HandlerAt("clear", seen[h], row[ord[h]], moves[ord[h]], told[ord[h]])
  BY <1>1, Assigned DEF Unassigned
<1>4. HandlerAt("tellPlaced", seen[h], row[ord[h]], moves[ord[h]], told[ord[h]])
  BY <1>3 DEF HandlerAt, Unwritten, Placed, Attached, Shipped, Released, Refunding, Resolving
<1>5. \A steps \in Exclusive : "tellPlaced" \in steps => "clear" \in steps
  BY DEF Exclusive, Unwritten, Placed, Shipped, Released, Refunding
<1>6. RequestTypes' /\ UNCHANGED <<ord, seen>> /\ pc' = [pc EXCEPT ![h] = "tellPlaced"]
  BY <1>1, <1>2, Continuing DEF Step
<1>7. OrderPhases'
  BY <1>1, <1>4, <1>5, <1>6, OnlyTheStep DEF Unassigned, Step
<1> QED  BY <1>2, <1>6, <1>7, TypePartsNext DEF Inv

LEMMA PayAnsweredInv ==
  ASSUME Inv, NEW h \in Handler, NEW a \in PayAnswers, PayAnswered(h, a)
  PROVE  Inv'
<1> DEFINE p == IF seen[h].payment THEN "advance" ELSE "attach"
<1>1. /\ pc[h] = "pay" /\ p \in {"advance", "attach"} /\ pc' = [pc EXCEPT ![h] = p]
      /\ UNCHANGED <<store, services, told, ord, key, coupon, seen>>
      /\ answer' = [answer EXCEPT ![h] = a]
  BY DEF PayAnswered, Goto
<1>2. DataTypes /\ RequestTypes /\ DataTypes' /\ UNCHANGED <<row, moves, told, ord, seen>>
  BY <1>1, TypeParts, QuietData DEF Inv
<1>3. RequestTypes'
  BY <1>1, <1>2 DEF RequestTypes, Step
<1>4. HandlerAt("pay", seen[h], row[ord[h]], moves[ord[h]], told[ord[h]])
  BY <1>1, Assigned DEF Unassigned
<1>5. HandlerAt(p, seen[h], row[ord[h]], moves[ord[h]], told[ord[h]])
  BY <1>4 DEF HandlerAt, Unwritten, Placed, Attached, Shipped, Released, Refunding, Resolving
<1>6. \A steps \in Exclusive : p \notin steps
  BY DEF Exclusive, Unwritten, Placed, Shipped, Released, Refunding
<1>7. p \in Step /\ p \notin Unassigned /\ pc[h] \notin Unassigned
  BY <1>1 DEF Step, Unassigned
<1> HIDE DEF p
<1>8. OrderPhases'
  BY <1>1, <1>2, <1>5, <1>6, <1>7, OnlyTheStep
<1> QED  BY <1>2, <1>3, <1>8, TypePartsNext DEF Inv

LEMMA RereadInv ==
  ASSUME Inv, NEW h \in Handler, Reread(h)
  PROVE  Inv'
<1>1. pc[h] = "reread" /\ UNCHANGED <<store, services, told>>
  BY DEF Reread
<1>2. CASE Continue(h, "tellConfirmed") /\ row[ord[h]].status = "CONFIRMED"
  <2>1. HandlerAt("reread", seen[h], row[ord[h]], moves[ord[h]], told[ord[h]])
    BY <1>1, Assigned DEF Unassigned
  <2>2. HandlerAt("tellConfirmed", seen[h], row[ord[h]], moves[ord[h]], told[ord[h]])
    BY <1>2, <2>1 DEF HandlerAt, Unwritten, Placed, Attached, Shipped, Released, Refunding, Resolving
  <2>3. \A steps \in Exclusive : "tellConfirmed" \notin steps
    BY DEF Exclusive, Unwritten, Placed, Shipped, Released, Refunding
  <2> QED  BY <1>1, <1>2, <2>2, <2>3, QuietStep DEF Unassigned, Step
<1>3. CASE Return(h)
  BY <1>1, <1>3, QuietReturn
<1> QED  BY <1>2, <1>3 DEF Reread

LEMMA SettleInv ==
  ASSUME Inv, NEW h \in Handler, Settle(h)
  PROVE  Inv'
<1>1. PICK p \in {"settled", "tellShipped"} : Continue(h, p)
  BY DEF Settle
<1>2. pc[h] = "settle" /\ UNCHANGED <<store, services, told>>
  BY DEF Settle
<1>3. HandlerAt("settle", seen[h], row[ord[h]], moves[ord[h]], told[ord[h]])
  BY <1>2, Assigned DEF Unassigned
<1>4. HandlerAt(p, seen[h], row[ord[h]], moves[ord[h]], told[ord[h]])
  BY <1>3 DEF HandlerAt, Unwritten, Placed, Attached, Shipped, Released, Refunding, Resolving
<1>5. \A steps \in Exclusive : p \in steps => "settle" \in steps
  BY DEF Exclusive, Unwritten, Placed, Shipped, Released, Refunding
<1> QED  BY <1>1, <1>2, <1>4, <1>5, QuietStep DEF Unassigned, Step

LEMMA RefundInv ==
  ASSUME Inv, NEW h \in Handler, Refund(h)
  PROVE  Inv'
<1>1. PICK p \in {"refunded", "tellCancelled"} : Continue(h, p)
  BY DEF Refund
<1>2. /\ pc[h] = "refund" /\ UNCHANGED <<store, level, moves, told>>
      /\ PayBack(h, "cancel") \/ UNCHANGED refunds
  BY DEF Refund
<1>3. HandlerAt("refund", seen[h], row[ord[h]], moves[ord[h]], told[ord[h]])
  BY <1>2, Assigned DEF Unassigned
<1>4. HandlerAt(p, seen[h], row[ord[h]], moves[ord[h]], told[ord[h]])
  BY <1>3 DEF HandlerAt, Unwritten, Placed, Attached, Shipped, Released, Refunding, Resolving
<1>5. \A steps \in Exclusive : p \in steps => "refund" \in steps
  BY DEF Exclusive, Unwritten, Placed, Shipped, Released, Refunding
<1>6. DataTypes' /\ UNCHANGED row
  BY <1>2, PayBackTypes DEF Unassigned, RefundKinds, store
<1> QED  BY <1>1, <1>2, <1>4, <1>5, <1>6, CallStep DEF Unassigned, Step

LEMMA RefundReturnInv ==
  ASSUME Inv, NEW h \in Handler, RefundReturn(h)
  PROVE  Inv'
<1>1. /\ pc[h] = "return" /\ UNCHANGED <<store, level, moves, told>>
      /\ PayBack(h, "return") \/ UNCHANGED refunds
      /\ Continue(h, "returned") \/ Return(h)
  BY DEF RefundReturn
<1>2. DataTypes' /\ UNCHANGED row
  BY <1>1, PayBackTypes DEF Unassigned, RefundKinds, store
<1>3. CASE Return(h)
  BY <1>1, <1>2, <1>3, CallReturn
<1>4. CASE Continue(h, "returned")
  <2>1. HandlerAt("return", seen[h], row[ord[h]], moves[ord[h]], told[ord[h]])
    BY <1>1, Assigned DEF Unassigned
  <2>2. HandlerAt("returned", seen[h], row[ord[h]], moves[ord[h]], told[ord[h]])
    BY <2>1 DEF HandlerAt, Unwritten, Placed, Attached, Shipped, Released, Refunding, Resolving
  <2>3. \A steps \in Exclusive : "returned" \notin steps
    BY DEF Exclusive, Unwritten, Placed, Shipped, Released, Refunding
  <2> QED  BY <1>1, <1>2, <1>4, <2>2, <2>3, CallStep DEF Unassigned, Step
<1> QED  BY <1>1, <1>3, <1>4

LEMMA RestockInv ==
  ASSUME Inv, NEW h \in Handler, Restock(h)
  PROVE  Inv'
<1>1. Return(h) /\ UNCHANGED <<store, moves, refunds, told>> /\ DataTypes
  BY TypeParts DEF Restock, Inv
<1>2. level' \in Level
  <2>1. CASE UNCHANGED level
    BY <1>1, <2>1 DEF DataTypes
  <2>2. ASSUME NEW q \in 1 .. Lines, level' = Apply("RECEIVE", level, q)
        PROVE  level' \in Level
    <3>1. q \in Int /\ "RECEIVE" \in MovementType /\ level \in Level
      BY <1>1, OrdersAssumption DEF MovementType, DataTypes
    <3> QED  BY <2>2, <3>1, ApplyLevel
  <2> QED  BY <2>1, <2>2 DEF Restock
<1>3. DataTypes' /\ UNCHANGED row
  BY <1>1, <1>2 DEF DataTypes, store
<1> QED  BY <1>1, <1>3, CallReturn

-----------------------------------------------------------------------------
(***************************************************************************)
(* The actions that write the row of their order.                          *)
(***************************************************************************)
LEMMA CreateInv ==
  ASSUME Inv, NEW h \in Handler, Create(h)
  PROVE  Inv'
<1> DEFINE o == ord[h]
           w == NewRow(h)
           p == IF coupon[h] THEN "redeem" ELSE "clear"
<1>1. /\ pc[h] = "create" /\ row' = [row EXCEPT ![o] = w] /\ Continue(h, p)
      /\ UNCHANGED <<redeemed, cart, services, told>>
  BY DEF Create
<1>2. /\ HandlerAt("create", seen[h], row[o], moves[o], told[o])
      /\ OrderAt(row[o], moves[o], told[o])
  BY <1>1, Assigned DEF Unassigned
<1>3. /\ w \in Row /\ w # NoRow
      /\ w.status = "PENDING_PAYMENT" /\ w.pay = "PENDING"
  <2>1. key[h] \in Key \cup {NoKey} /\ coupon[h] \in BOOLEAN
    BY DEF Inv, TypeOK
  <2>2. w \in Row
    BY <2>1 DEF NewRow, Row, OrderStatus, PaymentStatus
  <2> QED  BY <2>2, OrdersAssumption DEF NewRow
<1>4. row[o] = NoRow /\ Moved(moves[o], 1, 0, 0)
  BY <1>2 DEF HandlerAt, Unwritten
<1>5. \A e \in EventType : told[o][e] = 0
  BY <1>2, <1>4 DEF OrderAt
<1>6. p \in {"redeem", "clear"}
  OBVIOUS
<1> HIDE DEF p, w
<1>7. OrderAt(w, moves[o], told[o])
  BY <1>3, <1>4, <1>5 DEF OrderAt, EventType
<1>8. HandlerAt(p, seen[h], w, moves[o], told[o])
  BY <1>3, <1>5, <1>6
  DEF HandlerAt, Unwritten, Placed, Attached, Shipped, Released, Refunding, Resolving, EventType
<1>9. Survives(pc[h], p, row[o], moves[o], told[o], w, moves[o], told[o])
  BY <1>1, <1>4 DEF Survives, HandlerAt, Compatible, Exclusive, Unwritten
<1>10. pc[h] \notin Unassigned /\ p \in Step /\ p \notin Unassigned
  BY <1>1, <1>6 DEF Unassigned, Step
<1>11. row' = [row EXCEPT ![ord[h]] = w]
  BY <1>1
<1> QED  BY <1>1, <1>3, <1>7, <1>8, <1>9, <1>10, <1>11, RowWritten

\* The status stays, payment_id is not cleared: other handlers notice nothing.
LEMMA SameStatus ==
  ASSUME NEW r \in Row, NEW w \in Row, w.status = r.status, r.payment => w.payment,
         NEW m, NEW e, NEW p \in Step, NEW n \in Step,
         \A steps \in Exclusive : n \in steps => p \in steps
  PROVE  Survives(p, n, r, m, e, w, m, e)
<1>1. w # NoRow /\ r.payment \in BOOLEAN /\ w.payment \in BOOLEAN
  BY OrdersAssumption DEF Row
<1>2. ASSUME NEW q \in Step, NEW s \in Row \cup {NoRow}, HandlerAt(q, s, r, m, e)
      PROVE  HandlerAt(q, s, w, m, e)
  <2>1. r.payment = TRUE => w.payment = TRUE
    BY <1>1
  <2>2. q \notin Unwritten
    BY <1>2, OrdersAssumption DEF HandlerAt
  <2>3. q \notin Unwritten \cup Placed => s # NoRow /\ (s.payment => w.payment)
    BY <1>1, <1>2, <2>1 DEF HandlerAt
  <2>4. q \in Attached => w.payment
    BY <1>1, <1>2, <2>1 DEF HandlerAt
  <2> QED  BY <1>1, <1>2, <2>2, <2>3, <2>4 DEF HandlerAt
<1>3. \A q : Compatible(q, p) => Compatible(q, n)
  BY DEF Compatible
<1> QED  BY <1>2, <1>3 DEF Survives

LEMMA AttachPaymentInv ==
  ASSUME Inv, NEW h \in Handler, AttachPayment(h)
  PROVE  Inv'
<1> DEFINE o == ord[h]
           r == row[o]
           w == [r EXCEPT !.payment = TRUE]
<1>1. /\ pc[h] = "attach" /\ row' = [row EXCEPT ![o] = w] /\ Continue(h, "advance")
      /\ UNCHANGED <<redeemed, cart, services, told>>
  BY DEF AttachPayment
<1>2. /\ HandlerAt("attach", seen[h], r, moves[o], told[o])
      /\ OrderAt(r, moves[o], told[o]) /\ r \in Row \cup {NoRow}
  BY <1>1, Assigned DEF Unassigned
<1>3. r \in Row
  BY <1>2 DEF HandlerAt, Unwritten
<1>4. w \in Row /\ w # NoRow /\ w.status = r.status /\ w.pay = r.pay /\ w.payment = TRUE
  BY <1>3, PaymentUpdate, OrdersAssumption
<1> HIDE DEF w, r
<1>5. OrderAt(w, moves[o], told[o])
  BY <1>2, <1>3, <1>4, OrdersAssumption DEF OrderAt
<1>6. HandlerAt("advance", seen[h], w, moves[o], told[o])
  BY <1>2, <1>4 DEF HandlerAt, Unwritten, Placed, Attached, Shipped, Released, Refunding, Resolving
<1>7. \A steps \in Exclusive : "advance" \notin steps
  BY DEF Exclusive, Unwritten, Placed, Shipped, Released, Refunding
<1>8. Survives(pc[h], "advance", r, moves[o], told[o], w, moves[o], told[o])
  BY <1>1, <1>3, <1>4, <1>7, SameStatus DEF Step
<1> QED  BY <1>1, <1>4, <1>5, <1>6, <1>8, RowWritten DEF Unassigned, Step, r

LEMMA MarkPaymentInv ==
  ASSUME Inv, NEW h \in Handler, pc[h] \notin Unassigned,
         NEW from \in PaymentStatus, NEW to \in PaymentStatus, NEW p \in Step, p \notin Unassigned,
         MarkPayment(h, from, to), Continue(h, p),
         HandlerAt(p, seen[h], row[ord[h]], moves[ord[h]], told[ord[h]]),
         \A steps \in Exclusive : p \in steps => pc[h] \in steps,
         row[ord[h]] # NoRow,
         row[ord[h]].pay = from => row[ord[h]].payment,
         to = "REFUNDED" => \/ row[ord[h]].status = "CANCELLED" /\ Moved(moves[ord[h]], 1, 1, 0)
                            \/ row[ord[h]].status = "FULFILLED"
  PROVE  Inv'
<1> DEFINE o == ord[h]
           r == row[o]
           w == [r EXCEPT !.pay = to]
<1>1. /\ row' = row \/ (r.pay = from /\ row' = [row EXCEPT ![o] = w])
      /\ UNCHANGED <<redeemed, cart, services, told>>
  BY DEF MarkPayment
<1>2. OrderAt(r, moves[o], told[o]) /\ r \in Row
  BY Assigned
<1>3. CASE row' = row
  BY <1>1, <1>3, QuietStep DEF store
<1>4. CASE r.pay = from /\ row' = [row EXCEPT ![o] = w]
  <2>1. w \in Row /\ w # NoRow /\ w.status = r.status /\ w.pay = to /\ w.payment = r.payment
    BY <1>2, PayUpdate, OrdersAssumption
  <2>2. r.payment
    BY <1>4
  <2> HIDE DEF w, r
  <2>3. OrderAt(w, moves[o], told[o])
    BY <1>2, <2>1, <2>2, OrdersAssumption DEF OrderAt, Moved, r
  <2>4. Survives(pc[h], p, r, moves[o], told[o], w, moves[o], told[o])
    BY <1>2, <2>1, SameStatus DEF Inv, TypeOK
  <2>5. HandlerAt(p, seen[h], w, moves[o], told[o])
    BY <2>1, <2>2 DEF HandlerAt, r
  <2> QED  BY <1>1, <1>4, <2>1, <2>3, <2>4, <2>5, RowWritten DEF r
<1> QED  BY <1>1, <1>3, <1>4

LEMMA MarkPaidInv ==
  ASSUME Inv, NEW h \in Handler, MarkPaid(h) \/ MarkSettled(h) \/ MarkRefunded(h) \/ MarkReturned(h)
  PROVE  Inv'
<1> DEFINE o == ord[h]
<1>1. ASSUME NEW p, NEW n, <<p, n>> \in {<<"paid", "reread">>, <<"settled", "tellShipped">>,
                                         <<"refunded", "tellCancelled">>, <<"returned", "restock">>}
      PROVE  /\ p \in Step /\ p \notin Unassigned /\ n \in Step /\ n \notin Unassigned
             /\ \A steps \in Exclusive : n \in steps => p \in steps
             /\ \A s, r, m, e : HandlerAt(p, s, r, m, e) => HandlerAt(n, s, r, m, e) /\ r # NoRow
  BY <1>1 DEF Step, Unassigned, Exclusive, HandlerAt, Unwritten, Placed, Attached, Shipped,
              Released, Refunding, Resolving
<1>2. pc[h] \notin Unassigned => /\ HandlerAt(pc[h], seen[h], row[o], moves[o], told[o])
                                 /\ OrderAt(row[o], moves[o], told[o])
  BY Assigned
<1>3. CASE MarkPaid(h) \/ MarkSettled(h)
  <2>1. PICK n \in {"reread", "tellShipped"} :
          Continue(h, n) /\ MarkPayment(h, "PENDING", "PAID")
          /\ <<pc[h], n>> \in {<<"paid", "reread">>, <<"settled", "tellShipped">>}
    BY <1>3 DEF MarkPaid, MarkSettled
  <2>2. row[o].payment
    BY <1>1, <1>2, <2>1 DEF HandlerAt, Attached
  <2> QED  BY <1>1, <1>2, <2>1, <2>2, MarkPaymentInv DEF PaymentStatus
<1>4. CASE MarkRefunded(h) \/ MarkReturned(h)
  <2>1. PICK n \in {"tellCancelled", "restock"} :
          Continue(h, n) /\ MarkPayment(h, "PAID", "REFUNDED")
          /\ <<pc[h], n>> \in {<<"refunded", "tellCancelled">>, <<"returned", "restock">>}
    BY <1>4 DEF MarkRefunded, MarkReturned
  <2>2. /\ row[o].pay = "PAID" => row[o].payment
        /\ \/ row[o].status = "CANCELLED" /\ Moved(moves[o], 1, 1, 0)
           \/ row[o].status = "FULFILLED"
    BY <1>1, <1>2, <2>1 DEF HandlerAt, OrderAt, Released, Refunding, Resolving
  <2> QED  BY <1>1, <1>2, <2>1, <2>2, MarkPaymentInv DEF PaymentStatus
<1> QED  BY <1>3, <1>4

\* The status of an order that is neither shipped nor cancelled changes.  Steps
\* that need a later status are at no handler; so nobody else is at the next step.
LEMMA StatusWritten ==
  ASSUME Inv, NEW h \in Handler, pc[h] \in {"advance", "fulfil", "cancel"},
         NEW st \in {"CONFIRMED", "FULFILLED", "CANCELLED"},
         NEW p \in {"paid", "reread", "ship", "release"},
         row' = [row EXCEPT ![ord[h]].status = st],
         UNCHANGED <<redeemed, cart, services, told>>, Continue(h, p),
         row[ord[h]].status \in {"PENDING_PAYMENT", "CONFIRMED"},
         st = "CONFIRMED" => p \in {"paid", "reread"} /\ pc[h] = "advance",
         st = "FULFILLED" => p = "ship" /\ row[ord[h]].status = "CONFIRMED",
         st = "CANCELLED" => p = "release"
  PROVE  Inv'
<1> DEFINE o == ord[h]
           r == row[o]
           m == moves[o]
           e == told[o]
           w == [r EXCEPT !.status = st]
<1>1. row' = [row EXCEPT ![o] = w] /\ p \in Step /\ p \notin Unassigned /\ pc[h] \notin Unassigned
  BY DEF Step, Unassigned
<1>2. /\ HandlerAt(pc[h], seen[h], r, m, e) /\ OrderAt(r, m, e) /\ r \in Row \cup {NoRow}
  BY <1>1, Assigned
<1>3. r \in Row /\ r # NoRow
  BY <1>2, OrdersAssumption DEF HandlerAt, Unwritten
<1>4. w \in Row /\ w # NoRow /\ w.status = st /\ w.pay = r.pay /\ w.payment = r.payment
  <2>1. st \in OrderStatus
    BY DEF OrderStatus
  <2> QED  BY <1>3, <2>1, StatusUpdate, OrdersAssumption
<1> HIDE DEF w, r, m, e
<1>5. row[ord[h]].status = r.status
  BY DEF r
<1>6. OrderAt(w, m, e)
  BY <1>2, <1>3, <1>4, <1>5 DEF OrderAt
<1>7. Moved(m, 1, 0, 0) /\ e["order.shipped"] = 0 /\ e["order.cancelled"] = 0
  BY <1>2, <1>3, <1>5 DEF OrderAt
<1>8. /\ seen[h] # NoRow /\ (seen[h].payment => w.payment)
      /\ pc[h] = "advance" => w.payment
  BY <1>2, <1>4 DEF HandlerAt, Unwritten, Placed, Attached
<1>9. HandlerAt(p, seen[h], w, m, e)
  <2>1. p = "paid" => w.payment
    BY <1>8
  <2> QED  BY <1>4, <1>7, <1>8, <2>1
           DEF HandlerAt, Unwritten, Placed, Attached, Shipped, Released, Refunding, Resolving
<1>10. Survives(pc[h], p, r, m, e, w, m, e)
  <2> SUFFICES ASSUME NEW q \in Step, NEW s \in Row \cup {NoRow}, HandlerAt(q, s, r, m, e)
               PROVE  HandlerAt(q, s, w, m, e) /\ Compatible(q, p)
    BY DEF Survives
  <2>1. q \notin {"ship", "release"} \cup Shipped \cup Released \cup Resolving
    BY <1>5 DEF HandlerAt
  <2>2. r.status = "PENDING_PAYMENT" => q # "tellConfirmed"
    BY DEF HandlerAt
  <2>3. HandlerAt(q, s, w, m, e)
    <3>1. q \notin Unwritten
      BY <1>3 DEF HandlerAt
    <3>2. q \notin Unwritten \cup Placed => s # NoRow /\ (s.payment => w.payment)
      BY <1>4 DEF HandlerAt
    <3>3. q \in Attached => w.payment
      BY <1>4 DEF HandlerAt
    <3> QED  BY <1>4, <2>1, <3>1, <3>2, <3>3 DEF HandlerAt
  <2>4. Compatible(q, p)
    BY <2>1 DEF Compatible, Exclusive, Unwritten, Placed, Shipped, Released, Refunding
  <2> QED  BY <2>3, <2>4
<1> QED  BY <1>1, <1>4, <1>6, <1>9, <1>10, RowWritten DEF r, m, e

LEMMA AdvanceInv ==
  ASSUME Inv, NEW h \in Handler, Advance(h)
  PROVE  Inv'
<1> DEFINE o == ord[h]
<1>1. /\ pc[h] = "advance" /\ UNCHANGED <<redeemed, cart, services, told>>
      /\ AfterAdvance(h) \in {"paid", "reread"}
  BY DEF Advance, AfterAdvance
<1>2. CASE MustConfirm(h) /\ Confirmable(o)
  BY <1>1, <1>2, StatusWritten DEF Advance, Confirmable
<1>3. CASE MustConfirm(h) /\ ~Confirmable(o)
  BY <1>1, <1>3, QuietReturn DEF Advance, store
<1>4. CASE ~MustConfirm(h)
  <2>1. Continue(h, AfterAdvance(h)) /\ UNCHANGED <<store, services, told>>
    BY <1>1, <1>4 DEF Advance, store
  <2>2. HandlerAt("advance", seen[h], row[o], moves[o], told[o])
    BY <1>1, Assigned DEF Unassigned
  <2>3. HandlerAt(AfterAdvance(h), seen[h], row[o], moves[o], told[o])
    BY <1>1, <2>2 DEF HandlerAt, Unwritten, Placed, Attached, Shipped, Released, Refunding, Resolving
  <2>4. \A steps \in Exclusive : AfterAdvance(h) \notin steps
    BY <1>1 DEF Exclusive, Unwritten, Placed, Shipped, Released, Refunding
  <2>5. AfterAdvance(h) \in Step /\ AfterAdvance(h) \notin Unassigned /\ pc[h] \notin Unassigned
    BY <1>1 DEF Step, Unassigned
  <2> QED  BY <2>1, <2>3, <2>4, <2>5, QuietStep
<1> QED  BY <1>2, <1>3, <1>4

LEMMA MarkFulfilledInv ==
  ASSUME Inv, NEW h \in Handler, MarkFulfilled(h)
  PROVE  Inv'
<1>1. pc[h] = "fulfil" /\ UNCHANGED <<redeemed, cart, services, told>>
  BY DEF MarkFulfilled
<1>2. CASE row[ord[h]].status = "CONFIRMED"
  BY <1>1, <1>2, StatusWritten DEF MarkFulfilled
<1>3. CASE row[ord[h]].status # "CONFIRMED"
  BY <1>1, <1>3, QuietReturn DEF MarkFulfilled, store
<1> QED  BY <1>2, <1>3

LEMMA MarkCancelledInv ==
  ASSUME Inv, NEW h \in Handler, MarkCancelled(h)
  PROVE  Inv'
<1>1. pc[h] = "cancel" /\ UNCHANGED <<redeemed, cart, services, told>>
  BY DEF MarkCancelled
<1>2. CASE Cancellable(ord[h])
  BY <1>1, <1>2, StatusWritten DEF MarkCancelled, Cancellable
<1>3. CASE ~Cancellable(ord[h])
  BY <1>1, <1>3, QuietReturn DEF MarkCancelled, store
<1> QED  BY <1>2, <1>3

-----------------------------------------------------------------------------
(***************************************************************************)
(* The actions that move stock.                                            *)
(***************************************************************************)
LEMMA ReserveInv ==
  ASSUME Inv, NEW h \in Handler, NEW o \in Order, Reserve(h, o)
  PROVE  Inv'
<1> DEFINE mm == [moves[o] EXCEPT !["RESERVE"] = @ + 1]
<1>1. DataTypes /\ RequestTypes
  BY TypeParts DEF Inv
<1>2. /\ pc[h] = "reserve" /\ Fresh(o) /\ StockCall("RESERVE", o)
      /\ ord' = [ord EXCEPT ![h] = o] /\ pc' = [pc EXCEPT ![h] = "create"]
      /\ UNCHANGED <<store, told, key, coupon, seen, answer>>
  BY DEF Reserve, Goto
<1>3. DataTypes' /\ row' = row /\ moves' = [moves EXCEPT ![o] = mm] /\ told' = told
  BY <1>1, <1>2, StockCallTypes DEF OrderMovement
<1>4. RequestTypes'
  BY <1>1, <1>2 DEF RequestTypes, Step
<1>5. /\ mm \in [OrderMovement -> Nat]
      /\ mm["RESERVE"] = moves[o]["RESERVE"] + 1
      /\ \A t \in OrderMovement \ {"RESERVE"} : mm[t] = moves[o][t]
  BY <1>1, MovedOnce DEF DataTypes, OrderMovement
<1> HIDE DEF mm
<1>6. row[o] = NoRow /\ Moved(mm, 1, 0, 0) /\ \A g \in Handler : ord[g] # o
  BY <1>2, <1>5 DEF Fresh, Moved, OrderMovement
<1>7. /\ row'[o] = NoRow /\ moves'[o] = mm /\ told'[o] = told[o]
      /\ \A q \in Order \ {o} : row'[q] = row[q] /\ moves'[q] = moves[q] /\ told'[q] = told[q]
  BY <1>1, <1>3, <1>6 DEF DataTypes
<1>8. /\ pc'[h] = "create" /\ ord'[h] = o
      /\ \A g \in Handler \ {h} : pc'[g] = pc[g] /\ ord'[g] = ord[g] /\ seen'[g] = seen[g]
  BY <1>1, <1>2 DEF RequestTypes
<1>9. OrderAt(row'[o], moves'[o], told'[o])
  BY <1>6, <1>7 DEF Inv, OrderPhases, OrderAt
<1>10. HandlerAt("create", seen'[h], row'[o], moves'[o], told'[o])
  BY <1>6, <1>7 DEF HandlerAt, Unwritten, Placed, Attached, Shipped, Released, Refunding, Resolving
<1>11. OrderPhases'
  BY <1>6, <1>7, <1>8, <1>9, <1>10, OneHandlerOneOrder DEF Unassigned
<1> QED  BY <1>3, <1>4, <1>11, TypePartsNext DEF Inv

\* A release or a shipment of stock that the order holds; only one handler is at
\* a step that knows the stock to be held, so nobody's knowledge is lost.
HoldingSteps == Unwritten \cup {"ship", "release"}

LEMMA HeldStockMoved ==
  ASSUME Inv, NEW h \in Handler, pc[h] \in {"compensate", "ship", "release"},
         NEW type \in {"RELEASE", "SHIP"}, type = "SHIP" <=> pc[h] = "ship",
         StockCall(type, ord[h]), UNCHANGED <<store, told>>,
         NEW p \in {"idle"} \cup {"settle", "tellShipped"} \cup {"refund", "tellCancelled"},
         \/ Return(h) /\ p = "idle"
         \/ Continue(h, p) /\ p # "idle",
         pc[h] = "compensate" => p = "idle",
         pc[h] = "ship" => p \in {"settle", "tellShipped"},
         pc[h] = "release" => p \in {"refund", "tellCancelled"},
         p = "settle" => seen[h].payment
  PROVE  Inv'
<1> DEFINE o == ord[h]
           r == row[o]
           m == moves[o]
           e == told[o]
<1>1. /\ HandlerAt(pc[h], seen[h], r, m, e) /\ OrderAt(r, m, e) /\ r \in Row \cup {NoRow}
      /\ pc[h] \in Step /\ pc[h] \notin Unassigned /\ p \in Step /\ type \in OrderMovement
  BY Assigned DEF Step, Unassigned, OrderMovement
<1> SUFFICES ASSUME NEW mm \in [OrderMovement -> Nat], mm[type] = m[type] + 1,
                    \A t \in OrderMovement \ {type} : mm[t] = m[t]
             PROVE  /\ OrderAt(r, mm, e)
                    /\ p # "idle" => HandlerAt(p, seen[h], r, mm, e)
                    /\ Survives(pc[h], p, r, m, e, r, mm, e)
  BY <1>1, StockMoved DEF Unassigned
<1> HIDE DEF r, m, e
<1>2. Moved(m, 1, 0, 0) /\ (IF type = "SHIP" THEN Moved(mm, 1, 0, 1) ELSE Moved(mm, 1, 1, 0))
  <2>1. Moved(m, 1, 0, 0)
    BY <1>1 DEF HandlerAt, Unwritten
  <2> QED  BY <2>1 DEF Moved, OrderMovement
<1>3. /\ pc[h] = "compensate" => r = NoRow
      /\ pc[h] # "compensate" => r # NoRow /\ seen[h] # NoRow /\ (seen[h].payment => r.payment)
      /\ pc[h] = "ship" => r.status = "FULFILLED" /\ e["order.shipped"] = 0
      /\ pc[h] = "release" => r.status = "CANCELLED" /\ e["order.cancelled"] = 0
  BY <1>1, <1>2 DEF HandlerAt, OrderAt, Unwritten, Placed, Moved
<1>4. OrderAt(r, mm, e)
  BY <1>1, <1>2, <1>3 DEF OrderAt
<1>5. ASSUME p # "idle"
      PROVE  HandlerAt(p, seen[h], r, mm, e)
  <2>1. p = "settle" => r.payment
    BY <1>3, <1>5
  <2> QED  BY <1>2, <1>3, <1>5, <2>1
           DEF HandlerAt, Unwritten, Placed, Attached, Shipped, Released, Refunding, Resolving
<1>6. Survives(pc[h], p, r, m, e, r, mm, e)
  <2> SUFFICES ASSUME NEW q \in Step, NEW s \in Row \cup {NoRow}, HandlerAt(q, s, r, m, e),
                      Compatible(q, pc[h])
               PROVE  /\ HandlerAt(q, s, r, mm, e)
                      /\ p \notin Unassigned => Compatible(q, p)
    BY DEF Survives
  <2>1. q \notin Shipped \cup Released
    BY <1>2 DEF HandlerAt, Moved
  <2>2. q \notin HoldingSteps
    BY <1>3 DEF HandlerAt, HoldingSteps, Compatible, Exclusive, Unwritten, Placed, Shipped,
                Released, Refunding
  <2>3. HandlerAt(q, s, r, mm, e)
    BY <2>1, <2>2 DEF HandlerAt, HoldingSteps
  <2>4. p \notin Unassigned => Compatible(q, p)
    BY DEF Compatible, Exclusive, Unassigned, Unwritten, Placed, Shipped, Released, Refunding
  <2> QED  BY <2>3, <2>4
<1> QED  BY <1>4, <1>5, <1>6

LEMMA CompensateInv ==
  ASSUME Inv, NEW h \in Handler, Compensate(h)
  PROVE  Inv'
<1>1. pc[h] = "compensate" /\ Return(h) /\ UNCHANGED <<store, told>>
  BY DEF Compensate
<1>2. CASE StockCall("RELEASE", ord[h])
  BY <1>1, <1>2, HeldStockMoved
<1>3. CASE UNCHANGED services
  BY <1>1, <1>3, QuietReturn
<1> QED  BY <1>2, <1>3 DEF Compensate

LEMMA ShipInv ==
  ASSUME Inv, NEW h \in Handler, Ship(h)
  PROVE  Inv'
<1>1. pc[h] = "ship" /\ UNCHANGED <<store, told>>
  BY DEF Ship
<1>2. CASE Accepts("SHIP")
  <2>1. StockCall("SHIP", ord[h]) /\ Continue(h, AfterShip(h))
    BY <1>2 DEF Ship
  <2>2. /\ AfterShip(h) \in {"settle", "tellShipped"}
        /\ AfterShip(h) = "settle" => seen[h].payment
    BY DEF AfterShip
  <2> QED  BY <1>1, <2>1, <2>2, HeldStockMoved
<1>3. CASE ~Accepts("SHIP")
  BY <1>1, <1>3, QuietReturn DEF Ship
<1> QED  BY <1>2, <1>3

LEMMA ReleaseInv ==
  ASSUME Inv, NEW h \in Handler, Release(h)
  PROVE  Inv'
<1>1. pc[h] = "release" /\ UNCHANGED <<store, told>>
  BY DEF Release
<1>2. CASE Accepts("RELEASE")
  <2>1. StockCall("RELEASE", ord[h]) /\ Continue(h, AfterRelease(h))
    BY <1>2 DEF Release
  <2>2. AfterRelease(h) \in {"refund", "tellCancelled"}
    BY DEF AfterRelease
  <2> QED  BY <1>1, <2>1, <2>2, HeldStockMoved
<1>3. CASE ~Accepts("RELEASE")
  BY <1>1, <1>3, QuietReturn DEF Release
<1> QED  BY <1>2, <1>3

-----------------------------------------------------------------------------
(***************************************************************************)
(* The actions that publish.                                               *)
(***************************************************************************)
LEMMA PublishInv ==
  ASSUME Inv, NEW h \in Handler,
         NEW step, NEW event,
         <<step, event>> \in {<<"tellPlaced", "order.placed">>,
                              <<"tellConfirmed", "order.confirmed">>,
                              <<"tellShipped", "order.shipped">>,
                              <<"tellCancelled", "order.cancelled">>},
         Publish(h, step, event)
  PROVE  Inv'
<1> DEFINE o == ord[h]
           r == row[o]
           m == moves[o]
           e == told[o]
<1>1. step \in Step /\ step \notin Unassigned /\ event \in EventType /\ pc[h] = step
  BY DEF Step, Unassigned, EventType, Publish
<1>2. HandlerAt(step, seen[h], r, m, e) /\ OrderAt(r, m, e)
  BY <1>1, Assigned
<1> SUFFICES ASSUME NEW ee \in [EventType -> 0 .. 2],
                    ee[event] = IF e[event] < 2 THEN e[event] + 1 ELSE 2,
                    \A f \in EventType \ {event} : ee[f] = e[f]
             PROVE  /\ OrderAt(r, m, ee)
                    /\ Survives(step, "idle", r, m, e, r, m, ee)
  BY <1>1, Published
<1> HIDE DEF r, m, e
<1>3. r # NoRow /\ (step # "tellConfirmed" => e[event] = 0)
  BY <1>2 DEF HandlerAt, Unwritten, Placed, Shipped, Released
<1>4. step = "tellConfirmed" => r.status # "PENDING_PAYMENT"
  BY <1>2 DEF HandlerAt
<1>5. /\ step = "tellShipped" => r.status = "FULFILLED" /\ Moved(m, 1, 0, 1)
      /\ step = "tellCancelled" => r.status = "CANCELLED" /\ Moved(m, 1, 1, 0)
  BY <1>2 DEF HandlerAt, Shipped, Released
<1>6. OrderAt(r, m, ee)
  BY <1>2, <1>3, <1>4, <1>5 DEF OrderAt, EventType, Moved
<1>7. Survives(step, "idle", r, m, e, r, m, ee)
  <2> SUFFICES ASSUME NEW q \in Step, NEW s \in Row \cup {NoRow}, HandlerAt(q, s, r, m, e),
                      Compatible(q, step)
               PROVE  HandlerAt(q, s, r, m, ee)
    BY DEF Survives, Unassigned
  <2>1. /\ step = "tellPlaced" => q \notin Placed
        /\ step = "tellShipped" => q \notin Shipped
        /\ step = "tellCancelled" => q \notin Released
    BY DEF Compatible, Exclusive, Unwritten, Placed, Shipped, Released, Refunding
  <2>2. /\ q \in Placed => ee["order.placed"] = 0
        /\ q \in Shipped => ee["order.shipped"] = 0
        /\ q \in Released => ee["order.cancelled"] = 0
    BY <2>1 DEF HandlerAt, EventType
  <2> QED  BY <2>2 DEF HandlerAt
<1> QED  BY <1>6, <1>7

-----------------------------------------------------------------------------
(***************************************************************************)
(* The invariant.                                                          *)
(***************************************************************************)
LEMMA InitInv == Init => Inv
<1> SUFFICES ASSUME Init
             PROVE  Inv
  OBVIOUS
<1>1. DataTypes
  <2>1. level \in Level
    BY OrdersAssumption, MaxIntAssumption DEF Init, Level
  <2>2. redeemed \in 0 .. MaxRedemptions
    BY OrdersAssumption DEF Init
  <2>3. /\ row \in [Order -> Row \cup {NoRow}]
        /\ cart \in BOOLEAN
    BY DEF Init
  <2>4. moves \in [Order -> [OrderMovement -> Nat]]
    BY DEF Init
  <2>5. told \in [Order -> [EventType -> 0 .. 2]]
    BY DEF Init
  <2>6. refunds \in [Order -> SUBSET RefundKinds]
    BY DEF Init
  <2> QED  BY <2>1, <2>2, <2>3, <2>4, <2>5, <2>6 DEF DataTypes
<1>2. OrderPhases
  BY DEF Init, OrderPhases, OrderAt, Moved, OrderMovement, EventType, Unassigned
<1>3. RequestTypes
  BY DEF Init, RequestTypes, PayAnswers, Step
<1> QED  BY <1>1, <1>2, <1>3, TypeParts DEF Inv

LEMMA StartInv ==
  ASSUME Inv, NEW h \in Handler, Start(h)
  PROVE  Inv'
BY StartCheckoutInv, LoadInv DEF Start, StartPay, StartFulfil, StartCancel, StartReturn, Resolving

LEMMA ProceedInv ==
  ASSUME Inv, NEW h \in Handler, Proceed(h)
  PROVE  Inv'
<1>1. CASE ReadCart(h) \/ Quote(h) \/ ReserveRefused(h) \/ PayRefused(h)
  BY <1>1, ChoosingInv
<1>2. CASE (\E o \in Order : Reserve(h, o)) \/ Create(h) \/ CreateFails(h) \/ Compensate(h)
  BY <1>2, ReserveInv, CreateInv, CreateFailsInv, CompensateInv
<1>3. CASE Redeem(h) \/ ClearCart(h)
  BY <1>3, RedeemInv, ClearCartInv
<1>4. CASE (\E a \in PayAnswers : PayAnswered(h, a)) \/ AttachPayment(h) \/ Advance(h) \/ Reread(h)
  BY <1>4, PayAnsweredInv, AttachPaymentInv, AdvanceInv, RereadInv
<1>5. CASE MarkPaid(h) \/ MarkSettled(h) \/ MarkRefunded(h) \/ MarkReturned(h)
  BY <1>5, MarkPaidInv
<1>6. CASE MarkFulfilled(h) \/ Ship(h) \/ Settle(h)
  BY <1>6, MarkFulfilledInv, ShipInv, SettleInv
<1>7. CASE MarkCancelled(h) \/ Release(h) \/ Refund(h)
  BY <1>7, MarkCancelledInv, ReleaseInv, RefundInv
<1>8. CASE \/ PublishPlaced(h) \/ PublishConfirmed(h) \/ PublishShipped(h)
           \/ PublishCancelled(h)
  BY <1>8, PublishInv DEF PublishPlaced, PublishConfirmed, PublishShipped, PublishCancelled
<1>9. CASE RefundReturn(h) \/ Restock(h)
  BY <1>9, RefundReturnInv, RestockInv
<1> QED  BY <1>1, <1>2, <1>3, <1>4, <1>5, <1>6, <1>7, <1>8, <1>9 DEF Proceed

\* The phases of an order and what each handler knows of it hold in every state.
THEOREM OrderPhasesHold == Spec => []Inv
<1>1. Init => Inv
  BY InitInv
<1>2. Inv /\ [Next]_vars => Inv'
  <2> SUFFICES ASSUME Inv, [Next]_vars
               PROVE  Inv'
    OBVIOUS
  <2>1. CASE Next
    BY <2>1, AroundHandlers, StartInv, ProceedInv, ChoosingInv DEF Next
  <2>2. CASE UNCHANGED vars
    BY <2>2 DEF vars, Inv, TypeOK, OrderPhases
  <2> QED  BY <2>1, <2>2
<1> QED  BY <1>1, <1>2, PTL DEF Spec

\* The types hold.
THEOREM TypesHold == Spec => []TypeOK
<1>1. Inv => TypeOK
  BY DEF Inv
<1> QED  BY <1>1, OrderPhasesHold, PTL

\* The phases themselves, as the runs check them.
THEOREM PhasesHold == Spec => []OrderPhases
<1>1. Inv => OrderPhases
  BY DEF Inv
<1> QED  BY <1>1, OrderPhasesHold, PTL

\* What the phases say of one order.
LEMMA PhaseFacts ==
  ASSUME Inv, NEW o \in Order
  PROVE  OrderAt(row[o], moves[o], told[o]) /\ moves[o] \in [OrderMovement -> Nat]
BY DEF Inv, TypeOK, OrderPhases

\* However requests race and wherever they stop, the stock of an order is reserved
\* once, and released or shipped at most once, never both.
THEOREM StockMovesOnce == Spec => []OneStockOutcome
<1>1. Inv => OneStockOutcome
  BY PhaseFacts DEF OneStockOutcome, OrderAt, Moved, OrderMovement
<1> QED  BY <1>1, OrderPhasesHold, PTL

\* An order that is neither shipped nor cancelled has its stock reserved.
THEOREM LiveOrdersKeepStock == Spec => []LiveOrdersHoldStock
<1>1. Inv => LiveOrdersHoldStock
  BY PhaseFacts DEF LiveOrdersHoldStock, Status, Held, OrderAt, Moved, OrderMovement
<1> QED  BY <1>1, OrderPhasesHold, PTL

\* Published events tell the truth about orders and their stock.
THEOREM PublishedEventsAreTrue == Spec => []EventsAreTrue
<1>1. ASSUME Inv, NEW o \in Order
      PROVE  /\ \A e \in EventType \ {"order.confirmed"} : told[o][e] <= 1
             /\ told[o]["order.placed"] > 0 => row[o] # NoRow
             /\ told[o]["order.confirmed"] > 0 => Status(o) \in {"CONFIRMED", "FULFILLED", "CANCELLED"}
             /\ told[o]["order.shipped"] > 0 => Status(o) = "FULFILLED" /\ moves[o]["SHIP"] = 1
             /\ told[o]["order.cancelled"] > 0 => Status(o) = "CANCELLED" /\ moves[o]["RELEASE"] = 1
  <2>1. OrderAt(row[o], moves[o], told[o])
    BY <1>1, PhaseFacts
  <2>2. told[o] \in [EventType -> 0 .. 2]
    BY <1>1 DEF Inv, TypeOK
  <2>3. CASE row[o] = NoRow
    BY <2>1, <2>2, <2>3 DEF OrderAt, EventType
  <2>4. CASE row[o] # NoRow
    BY <2>1, <2>2, <2>4 DEF OrderAt, EventType, Status, Moved
  <2> QED  BY <2>3, <2>4
<1>2. Inv => EventsAreTrue
  BY <1>1 DEF EventsAreTrue
<1> QED  BY <1>2, OrderPhasesHold, PTL

-----------------------------------------------------------------------------
(***************************************************************************)
(* inventory-service and order-service agree on what is reserved.          *)
(***************************************************************************)
Agreement ==
  /\ level.reserved = Reserved0 + Lines * Cardinality(HeldOrders)
  /\ LevelsInBounds(level)

AgreeingInv == Inv /\ Agreement

\* Set operators of FiniteSets, for a set that gains or loses one element.
LEMMA OneMore ==
  ASSUME NEW S, IsFiniteSet(S), NEW x
  PROVE  /\ Cardinality(S) \in Nat
         /\ x \notin S => Cardinality(S \cup {x}) = Cardinality(S) + 1
         /\ x \in S => Cardinality(S \ {x}) = Cardinality(S) - 1 /\ Cardinality(S) > 0
<1>1. Cardinality(S) \in Nat
  BY FS_CardinalityType
<1>2. ASSUME x \notin S
      PROVE  Cardinality(S \cup {x}) = Cardinality(S) + 1
  BY <1>2, FS_AddElement
<1>3. ASSUME x \in S
      PROVE  Cardinality(S \ {x}) = Cardinality(S) - 1 /\ Cardinality(S) > 0
  <2>1. Cardinality(S) # 0
    BY <1>3, FS_EmptySet
  <2> QED  BY <1>1, <1>3, <2>1, FS_RemoveElement
<1> QED  BY <1>1, <1>2, <1>3

LEMMA HeldOrdersFinite ==
  ASSUME IsFiniteSet(Order)
  PROVE  IsFiniteSet(HeldOrders) /\ Cardinality(HeldOrders) \in Nat
BY FS_Subset, FS_CardinalityType DEF HeldOrders

\* Steps that call inventory-service on behalf of an order.
LEMMA AgreementMoves ==
  ASSUME Inv, Inv', Agreement, IsFiniteSet(Order), NEW o \in Order,
         NEW type \in OrderMovement, StockCall(type, o),
         IF type = "RESERVE" THEN Moved(moves[o], 0, 0, 0) ELSE Moved(moves[o], 1, 0, 0)
  PROVE  Agreement'
<1>1. /\ level \in Level /\ level' = Apply(type, level, Lines) /\ Allowed(type, level, Lines)
      /\ Lines \in Nat \ {0} /\ type \in MovementType /\ Reserved0 \in Nat /\ OnHand0 \in Nat
  BY OrdersAssumption, MaxIntAssumption
  DEF StockCall, Accepts, Inv, TypeOK, Level, OrderMovement, MovementType
<1>2. /\ level.onHand \in Int /\ level.reserved \in Int
      /\ level'.onHand = level.onHand + OnHandDelta(type, Lines)
      /\ level'.reserved = level.reserved + ReservedDelta(type, Lines)
  BY <1>1, ApplyLevel DEF Level
<1>3. /\ moves'[o][type] = moves[o][type] + 1
      /\ \A t \in OrderMovement \ {type} : moves'[o][t] = moves[o][t]
      /\ \A p \in Order \ {o} : moves'[p] = moves[p]
  BY DEF StockCall, Inv, TypeOK
<1>4. IsFiniteSet(HeldOrders) /\ Cardinality(HeldOrders) \in Nat
  BY HeldOrdersFinite
<1>5. CASE type = "RESERVE"
  <2>1. o \notin HeldOrders /\ HeldOrders' = HeldOrders \cup {o}
    BY <1>3, <1>5 DEF HeldOrders, Held, Moved, OrderMovement
  <2>2. Cardinality(HeldOrders') = Cardinality(HeldOrders) + 1
    BY <1>4, <2>1, OneMore
  <2>3. level'.onHand = level.onHand /\ level'.reserved = level.reserved + Lines
    BY <1>1, <1>2, <1>5 DEF OnHandDelta, ReservedDelta
  <2>4. Lines * (Cardinality(HeldOrders) + 1) = Lines * Cardinality(HeldOrders) + Lines
    BY <1>1, <1>4
  <2>5. LevelsInBounds(level')
    BY <1>1, <1>2, <1>5, <2>3, MaxIntAssumption DEF LevelsInBounds, Allowed, Available, Agreement
  <2> QED  BY <1>1, <1>2, <1>4, <2>2, <2>3, <2>4, <2>5 DEF Agreement
<1>6. CASE type # "RESERVE"
  <2>1. o \in HeldOrders /\ HeldOrders' = HeldOrders \ {o}
    BY <1>3, <1>6 DEF HeldOrders, Held, Moved, OrderMovement
  <2>2. Cardinality(HeldOrders') = Cardinality(HeldOrders) - 1
    BY <1>4, <2>1, OneMore
  <2>3. /\ level'.onHand = level.onHand - (IF type = "SHIP" THEN Lines ELSE 0)
        /\ level'.reserved = level.reserved - Lines
    <3>1. type \in {"RELEASE", "SHIP"}
      BY <1>6 DEF OrderMovement
    <3>2. /\ OnHandDelta(type, Lines) = IF type = "SHIP" THEN -Lines ELSE 0
          /\ ReservedDelta(type, Lines) = -Lines
      BY <3>1 DEF OnHandDelta, ReservedDelta
    <3> QED  BY <1>1, <1>2, <3>2
  <2>4. Lines * (Cardinality(HeldOrders) - 1) = Lines * Cardinality(HeldOrders) - Lines
    BY <1>1, <1>4
  <2>5. LevelsInBounds(level')
    BY <1>1, <1>2, <1>6, <2>3, MaxIntAssumption
    DEF LevelsInBounds, Allowed, Agreement, OrderMovement
  <2> QED  BY <1>1, <1>2, <1>4, <2>2, <2>3, <2>4, <2>5 DEF Agreement
<1> QED  BY <1>5, <1>6

LEMMA AgreementAdjusts ==
  ASSUME Inv, Agreement, NEW q \in Correction, AdjustStock(q)
  PROVE  Agreement'
<1>1. /\ level \in Level /\ q \in Int /\ level' = Apply("ADJUST", level, q)
      /\ Allowed("ADJUST", level, q) /\ moves' = moves /\ "ADJUST" \in MovementType
  BY OrdersAssumption DEF AdjustStock, Inv, TypeOK, Level, MovementType
<1>2. /\ level.onHand \in Int /\ level.reserved \in Int
      /\ level'.onHand = level.onHand + q /\ level'.reserved = level.reserved + 0
      /\ level'.onHand <= MaxInt /\ level.onHand + q >= level.reserved
  BY <1>1, ApplyLevel DEF Level, OnHandDelta, ReservedDelta, Allowed
<1>3. level'.reserved = level.reserved
  BY <1>2
<1>4. HeldOrders' = HeldOrders
  BY <1>1 DEF HeldOrders, Held
<1> QED  BY <1>2, <1>3, <1>4 DEF Agreement, LevelsInBounds

LEMMA AgreementRestocks ==
  ASSUME Inv, Agreement, NEW h \in Handler, Restock(h)
  PROVE  Agreement'
<1>1. HeldOrders' = HeldOrders
  BY DEF Restock, HeldOrders, Held
<1>2. CASE UNCHANGED level
  BY <1>1, <1>2 DEF Agreement
<1>3. ASSUME NEW q \in 1 .. Lines, Allowed("RECEIVE", level, q), level' = Apply("RECEIVE", level, q)
      PROVE  Agreement'
  <2>1. level \in Level /\ q \in Nat /\ q > 0 /\ "RECEIVE" \in MovementType /\ MaxInt \in Nat
    BY OrdersAssumption, MaxIntAssumption DEF Inv, TypeOK, Level, MovementType
  <2>2. /\ level.onHand \in Int /\ level.reserved \in Int
        /\ level'.onHand = level.onHand + q /\ level'.reserved = level.reserved + 0
        /\ level'.onHand <= MaxInt
    BY <1>3, <2>1, ApplyLevel DEF Level, OnHandDelta, ReservedDelta, Allowed
  <2>3. level'.reserved = level.reserved
    BY <2>2
  <2> QED  BY <1>1, <2>1, <2>2, <2>3 DEF Agreement, LevelsInBounds
<1> QED  BY <1>2, <1>3 DEF Restock

LEMMA AgreementQuiet ==
  ASSUME Agreement, UNCHANGED <<level, moves>>
  PROVE  Agreement'
BY DEF Agreement, HeldOrders, Held

LEMMA AgreementProceeds ==
  ASSUME Inv, Inv', Agreement, IsFiniteSet(Order), NEW h \in Handler, Proceed(h)
  PROVE  Agreement'
<1>1. ASSUME NEW o \in Order, Reserve(h, o)
      PROVE  Agreement'
  <2>1. Moved(moves[o], 0, 0, 0) /\ StockCall("RESERVE", o) /\ "RESERVE" \in OrderMovement
    BY <1>1 DEF Reserve, Fresh, Moved, OrderMovement
  <2> QED  BY <2>1, AgreementMoves
<1>2. ASSUME NEW type \in {"RELEASE", "SHIP"}, pc[h] \in {"compensate", "ship", "release"},
             StockCall(type, ord[h])
      PROVE  Agreement'
  <2>1. pc[h] \notin Unassigned
    BY <1>2 DEF Unassigned
  <2>2. ord[h] \in Order /\ HandlerAt(pc[h], seen[h], row[ord[h]], moves[ord[h]], told[ord[h]])
    BY <2>1, Assigned
  <2>3. Moved(moves[ord[h]], 1, 0, 0)
    BY <1>2, <2>2 DEF HandlerAt, Unwritten
  <2>4. type # "RESERVE" /\ type \in OrderMovement
    BY DEF OrderMovement
  <2> QED  BY <1>2, <2>2, <2>3, <2>4, AgreementMoves
<1>3. CASE Compensate(h) \/ Ship(h) \/ Release(h)
  BY <1>2, <1>3, AgreementQuiet DEF Compensate, Ship, Release, services
<1>4. CASE /\ ~(Compensate(h) \/ Ship(h) \/ Release(h) \/ Restock(h))
           /\ ~ \E o \in Order : Reserve(h, o)
  <2>1. UNCHANGED <<level, moves>>
    BY <1>4
    DEF Proceed, ReadCart, Quote, ReserveRefused, Create, CreateFails, Redeem, ClearCart,
        PublishPlaced, PayAnswered, PayRefused, AttachPayment, Advance, MarkPaid, Reread,
        PublishConfirmed, MarkFulfilled, Settle, MarkSettled, PublishShipped, MarkCancelled,
        Refund, MarkRefunded, PublishCancelled, Publish, MarkPayment, RefundReturn, MarkReturned,
        services
  <2> QED  BY <2>1, AgreementQuiet
<1> QED  BY <1>1, <1>3, <1>4, AgreementRestocks

LEMMA AgreementStep ==
  ASSUME Inv, Inv', Agreement, IsFiniteSet(Order), [Next]_vars
  PROVE  Agreement'
<1>1. CASE \E h \in Handler : Start(h) \/ Abandon(h)
  <2>1. UNCHANGED <<level, moves>>
    BY <1>1
    DEF Start, StartCheckout, StartPay, StartFulfil, StartCancel, StartReturn, Load, Abandon, services
  <2> QED  BY <2>1, AgreementQuiet
<1>2. CASE ChangeCart \/ UNCHANGED vars
  BY <1>2, AgreementQuiet DEF ChangeCart, vars, services
<1> QED  BY <1>1, <1>2, AgreementAdjusts, AgreementProceeds DEF Next

\* inventory-service lets an order ship or release what it holds.
LEMMA HeldIsAccepted ==
  ASSUME Inv, Agreement, IsFiniteSet(Order), NEW o \in HeldOrders, NEW type \in {"SHIP", "RELEASE"}
  PROVE  Accepts(type)
<1>1. IsFiniteSet(HeldOrders) /\ Cardinality(HeldOrders) \in Nat \ {0}
  <2>1. IsFiniteSet(HeldOrders) /\ Cardinality(HeldOrders) \in Nat
    BY HeldOrdersFinite
  <2>2. Cardinality(HeldOrders) # 0
    BY <2>1, FS_EmptySet
  <2> QED  BY <2>1, <2>2
<1>2. /\ Lines \in Nat \ {0} /\ Reserved0 \in Nat /\ level.reserved \in Int /\ level.onHand \in Int
      /\ level \in Level /\ MaxInt \in Nat /\ type \in MovementType
  BY OrdersAssumption, MaxIntAssumption DEF Inv, TypeOK, Level, MovementType
<1>3. Lines * Cardinality(HeldOrders) >= Lines
  BY <1>1, <1>2
<1>4. level.reserved >= Lines /\ level.onHand >= Lines /\ level.onHand <= MaxInt
  BY <1>1, <1>2, <1>3 DEF Agreement, LevelsInBounds
<1>5. Apply(type, level, Lines).onHand = level.onHand + OnHandDelta(type, Lines)
  BY <1>2, ApplyLevel
<1>6. level.onHand + OnHandDelta(type, Lines) <= MaxInt
  BY <1>2, <1>4 DEF OnHandDelta
<1> QED  BY <1>2, <1>4, <1>5, <1>6 DEF Accepts, Allowed

\* A handler that is about to ship, to release or to compensate holds its order's stock.
LEMMA HoldingStepHolds ==
  ASSUME Inv, NEW h \in Handler, pc[h] \in HoldingSteps
  PROVE  ord[h] \in HeldOrders
<1>1. pc[h] \notin Unassigned
  BY DEF Unassigned, HoldingSteps, Unwritten
<1>2. ord[h] \in Order /\ HandlerAt(pc[h], seen[h], row[ord[h]], moves[ord[h]], told[ord[h]])
  BY <1>1, Assigned
<1> QED  BY <1>2 DEF HandlerAt, HoldingSteps, Moved, HeldOrders, Held

LEMMA AgreementHolds ==
  ASSUME IsFiniteSet(Order)
  PROVE  Spec => []Agreement
<1>1. Init => Agreement
  <2> SUFFICES ASSUME Init
               PROVE  Agreement
    OBVIOUS
  <2>1. HeldOrders = {}
    BY DEF Init, HeldOrders, Held, OrderMovement
  <2>2. Cardinality(HeldOrders) = 0
    BY <2>1, FS_EmptySet
  <2>3. Reserved0 \in Nat /\ Reserved0 <= OnHand0 /\ OnHand0 <= MaxInt /\ OnHand0 \in Nat /\ Lines \in Nat
    BY OrdersAssumption, MaxIntAssumption
  <2> QED  BY <2>2, <2>3, MaxIntAssumption DEF Init, Agreement, LevelsInBounds
<1>2. Inv /\ Inv' /\ Agreement /\ [Next]_vars => Agreement'
  BY AgreementStep
<1> QED  BY <1>1, <1>2, OrderPhasesHold, PTL DEF Spec

\* The reserved column is what orders and others hold, the quantities stay within
\* their bounds, and no order is ever refused its shipment or its release.
THEOREM OrdersAndInventoryAgree ==
  ASSUME IsFiniteSet(Order)
  PROVE  Spec => []InventoryAgrees
<1>1. Inv /\ Agreement => InventoryAgrees
  <2> SUFFICES ASSUME Inv, Agreement, NEW h \in Handler, pc[h] \in {"ship", "release"},
                      NEW type \in {"SHIP", "RELEASE"}
               PROVE  Accepts(type)
    BY DEF InventoryAgrees, Agreement
  <2>1. ord[h] \in HeldOrders
    BY HoldingStepHolds DEF HoldingSteps
  <2> QED  BY <2>1, HeldIsAccepted
<1> QED  BY <1>1, OrderPhasesHold, AgreementHolds, PTL

-----------------------------------------------------------------------------
(***************************************************************************)
(* Without failures: no stock leaks, and the coupon is overrun by the      *)
(* checkouts under way at most.                                            *)
(***************************************************************************)
Live(o) == Status(o) \in {"PENDING_PAYMENT", "CONFIRMED"}

\* Held stock has an owner: a live order, or a handler that is about to settle it.
Owned(o) == Live(o) \/ \E h \in Handler : ord[h] = o /\ pc[h] \in HoldingSteps

LeakFree == \A o \in Order : Held(o) = 1 => Owned(o)

\* Steps that move no stock, end no order and keep h at its holding step.
LEMMA LeakFreeQuiet ==
  ASSUME LeakFree, NEW h \in Handler, UNCHANGED moves,
         \A o \in Order : Live(o) => Live(o)',
         \A g \in Handler \ {h} : pc'[g] = pc[g] /\ ord'[g] = ord[g],
         pc[h] \in HoldingSteps => pc'[h] \in HoldingSteps /\ ord'[h] = ord[h]
  PROVE  LeakFree'
<1> SUFFICES ASSUME NEW o \in Order, Held(o)'= 1
             PROVE  Owned(o)'
  BY DEF LeakFree
<1>1. Owned(o)
  BY DEF LeakFree, Held
<1>2. CASE Live(o)
  BY <1>2 DEF Owned
<1>3. ASSUME NEW g \in Handler, ord[g] = o, pc[g] \in HoldingSteps
      PROVE  Owned(o)'
  BY <1>3 DEF Owned
<1> QED  BY <1>1, <1>2, <1>3 DEF Owned

\* Steps about one order, that is left without stock or with an owner.
LEMMA LeakFreeOne ==
  ASSUME LeakFree, NEW h \in Handler, NEW o \in Order,
         \A p \in Order \ {o} : moves'[p] = moves[p] /\ row'[p] = row[p],
         \A g \in Handler \ {h} : pc'[g] = pc[g] /\ ord'[g] = ord[g],
         pc[h] \in HoldingSteps => ord[h] = o,
         Held(o)' # 1 \/ Live(o)' \/ (ord'[h] = o /\ pc'[h] \in HoldingSteps)
  PROVE  LeakFree'
<1> SUFFICES ASSUME NEW p \in Order, Held(p)' = 1
             PROVE  Owned(p)'
  BY DEF LeakFree
<1>1. CASE p = o
  BY <1>1 DEF Owned
<1>2. CASE p # o
  <2>1. Owned(p) /\ (Live(p) => Live(p)')
    BY <1>2 DEF LeakFree, Held, Live, Status
  <2>2. ASSUME NEW g \in Handler, ord[g] = p, pc[g] \in HoldingSteps
        PROVE  Owned(p)'
    BY <1>2, <2>2 DEF Owned
  <2> QED  BY <2>1, <2>2 DEF Owned
<1> QED  BY <1>1, <1>2

\* A handler's step sets its own program counter and order only.
LEMMA OtherHandlers ==
  ASSUME Inv, NEW h \in Handler, Start(h) \/ Proceed(h) \/ Abandon(h)
  PROVE  \A g \in Handler \ {h} : pc'[g] = pc[g] /\ ord'[g] = ord[g]
<1>1. pc \in [Handler -> Step] /\ ord \in [Handler -> Order \cup {NoOrder}]
  BY DEF Inv, TypeOK
<1>2. ASSUME NEW step, Goto(h, step), UNCHANGED ord \/ \E o : ord' = [ord EXCEPT ![h] = o]
      PROVE  \A g \in Handler \ {h} : pc'[g] = pc[g] /\ ord'[g] = ord[g]
  BY <1>1, <1>2 DEF Goto
<1>3. Return(h) => \A g \in Handler \ {h} : pc'[g] = pc[g] /\ ord'[g] = ord[g]
  BY <1>2 DEF Return
<1>4. ASSUME NEW step, Continue(h, step)
      PROVE  \A g \in Handler \ {h} : pc'[g] = pc[g] /\ ord'[g] = ord[g]
  BY <1>2, <1>4 DEF Continue, request
<1>5. CASE Start(h)
  BY <1>2, <1>5 DEF Start, StartCheckout, StartPay, StartFulfil, StartCancel, StartReturn, Load
<1>6. CASE Abandon(h)
  BY <1>3, <1>6 DEF Abandon
<1>7. CASE Proceed(h)
  <2>1. CASE (\E o \in Order : Reserve(h, o)) \/ \E a \in PayAnswers : PayAnswered(h, a)
    BY <1>2, <2>1 DEF Reserve, PayAnswered
  <2>2. CASE ~((\E o \in Order : Reserve(h, o)) \/ \E a \in PayAnswers : PayAnswered(h, a))
    <3>1. Return(h) \/ \E step : Continue(h, step)
      BY <1>7, <2>2
      DEF Proceed, ReadCart, Quote, ReserveRefused, Create, CreateFails, Compensate, Redeem, ClearCart,
          PublishPlaced, PayRefused, AttachPayment, Advance, MarkPaid, Reread,
          PublishConfirmed, MarkFulfilled, Ship, Settle, MarkSettled, PublishShipped, MarkCancelled,
          Release, Refund, MarkRefunded, PublishCancelled, Publish, RefundReturn, MarkReturned,
          Restock
    <3> QED  BY <1>3, <1>4, <3>1
  <2> QED  BY <2>1, <2>2
<1> QED  BY <1>5, <1>6, <1>7

\* The steps that settle stock: the handler's order holds none afterwards.
LEMMA SettledStock ==
  ASSUME Inv, LeakFree, NEW h \in Handler, pc[h] \in HoldingSteps,
         NEW type \in {"SHIP", "RELEASE"}, StockCall(type, ord[h]), UNCHANGED row,
         \A g \in Handler \ {h} : pc'[g] = pc[g] /\ ord'[g] = ord[g]
  PROVE  LeakFree'
<1>1. PICK o \in Order : o = ord[h] /\ Held(o) = 1
  BY HoldingStepHolds DEF HeldOrders
<1>2. moves \in [Order -> [OrderMovement -> Nat]] /\ type \in OrderMovement
  BY DEF Inv, TypeOK, OrderMovement
<1>3. /\ \A p \in Order \ {o} : moves'[p] = moves[p]
      /\ moves'[o] = [moves[o] EXCEPT ![type] = moves[o][type] + 1]
  BY <1>1, <1>2 DEF StockCall
<1>4. Held(o)' = 0
  BY <1>1, <1>2, <1>3 DEF Held, OrderMovement
<1> QED  BY <1>1, <1>3, <1>4, LeakFreeOne

\* Writing a row or marking it ended: the order is live, or its handler goes on to settle.
LEMMA MarkedStock ==
  ASSUME Inv, LeakFree, NEW h \in Handler, pc[h] \in {"create", "fulfil", "cancel"}, UNCHANGED moves,
         NEW w \in Row, row' = [row EXCEPT ![ord[h]] = w],
         \A g \in Handler \ {h} : pc'[g] = pc[g] /\ ord'[g] = ord[g],
         \/ w.status \in {"PENDING_PAYMENT", "CONFIRMED"}
         \/ ord'[h] = ord[h] /\ pc'[h] \in HoldingSteps
  PROVE  LeakFree'
<1>1. PICK o : o = ord[h]
  OBVIOUS
<1>2. o \in Order
  BY <1>1, Assigned DEF Unassigned
<1>3. row'[o] = w /\ \A p \in Order \ {o} : row'[p] = row[p]
  BY <1>1, <1>2 DEF Inv, TypeOK
<1>4. w # NoRow
  BY OrdersAssumption
<1> QED  BY <1>1, <1>2, <1>3, <1>4, LeakFreeOne DEF Live, Status

LEMMA LeakFreeProceeds ==
  ASSUME Faults = {}, IsFiniteSet(Order), Inv, Inv', Agreement, LeakFree,
         NEW h \in Handler, Proceed(h)
  PROVE  LeakFree'
<1>1. \A g \in Handler \ {h} : pc'[g] = pc[g] /\ ord'[g] = ord[g]
  BY OtherHandlers
<1>2. /\ pc \in [Handler -> Step] /\ ord \in [Handler -> Order \cup {NoOrder}]
      /\ row \in [Order -> Row \cup {NoRow}] /\ NoRow \notin Row
      /\ key \in [Handler -> Key \cup {NoKey}] /\ coupon \in [Handler -> BOOLEAN]
  BY OrdersAssumption DEF Inv, TypeOK
<1>3. ~CallMayFail
  BY DEF CallMayFail
<1>4. ASSUME NEW o \in Order, Reserve(h, o)
      PROVE  LeakFree'
  <2>1. /\ pc[h] \notin HoldingSteps /\ pc'[h] \in HoldingSteps /\ ord'[h] = o /\ UNCHANGED row
        /\ \A p \in Order \ {o} : moves'[p] = moves[p]
    BY <1>2, <1>4 DEF Reserve, Goto, StockCall, store, HoldingSteps, Unwritten, Inv, TypeOK
  <2> QED  BY <1>1, <2>1, LeakFreeOne
<1>5. CASE Create(h)
  <2>1. NewRow(h) \in Row /\ NewRow(h).status = "PENDING_PAYMENT"
    BY <1>2 DEF NewRow, Row, OrderStatus, PaymentStatus
  <2>2. pc[h] = "create" /\ row' = [row EXCEPT ![ord[h]] = NewRow(h)] /\ UNCHANGED moves
    BY <1>5 DEF Create, services
  <2> QED  BY <1>1, <2>1, <2>2, MarkedStock
<1>6. CASE CreateFails(h)
  <2>1. pc'[h] \in HoldingSteps /\ UNCHANGED <<row, moves, ord>>
    BY <1>2, <1>6 DEF CreateFails, Continue, Goto, request, store, services, HoldingSteps, Unwritten
  <2>2. \A o \in Order : Live(o) => Live(o)'
    BY <2>1 DEF Live, Status
  <2> QED  BY <1>1, <2>1, <2>2, LeakFreeQuiet
<1>7. CASE Compensate(h) \/ Ship(h) \/ Release(h)
  <2>1. pc[h] \in HoldingSteps /\ UNCHANGED row
    BY <1>7 DEF Compensate, Ship, Release, HoldingSteps, Unwritten, store
  <2>2. Accepts("SHIP") /\ Accepts("RELEASE")
    BY <2>1, HoldingStepHolds, HeldIsAccepted
  <2>3. StockCall("SHIP", ord[h]) \/ StockCall("RELEASE", ord[h])
    BY <1>3, <1>7, <2>2 DEF Compensate, Ship, Release
  <2> QED  BY <1>1, <2>1, <2>3, SettledStock
<1>8. CASE MarkFulfilled(h) \/ MarkCancelled(h)
  <2>1. pc[h] \in {"fulfil", "cancel"} /\ UNCHANGED moves
    BY <1>8 DEF MarkFulfilled, MarkCancelled, services
  <2>2. ord[h] \in Order /\ row[ord[h]] # NoRow
    BY <2>1, Assigned DEF Unassigned, HandlerAt, Unwritten
  <2>3. CASE UNCHANGED row
    <3>1. \A o \in Order : Live(o) => Live(o)'
      BY <2>3 DEF Live, Status
    <3> QED  BY <1>1, <2>1, <3>1, LeakFreeQuiet DEF HoldingSteps, Unwritten
  <2>4. ASSUME NEW st \in OrderStatus, row' = [row EXCEPT ![ord[h]].status = st],
               Continue(h, "ship") \/ Continue(h, "release")
        PROVE  LeakFree'
    <3>1. [row[ord[h]] EXCEPT !.status = st] \in Row
      BY <1>2, <2>2 DEF Row
    <3>2. row' = [row EXCEPT ![ord[h]] = [row[ord[h]] EXCEPT !.status = st]]
      BY <2>4
    <3>3. pc'[h] \in HoldingSteps /\ ord'[h] = ord[h]
      BY <1>2, <2>4 DEF Continue, Goto, request, HoldingSteps
    <3> QED  BY <1>1, <2>1, <3>1, <3>2, <3>3, MarkedStock
  <2> QED  BY <1>8, <2>3, <2>4 DEF MarkFulfilled, MarkCancelled, OrderStatus
<1>9. CASE Advance(h)
  <2>1. pc[h] = "advance" /\ UNCHANGED moves
    BY <1>9 DEF Advance, services
  <2>2. ord[h] \in Order
    BY <2>1, Assigned DEF Unassigned
  <2>3. \A o \in Order : Live(o) => Live(o)'
    <3>1. CASE UNCHANGED row
      BY <3>1 DEF Live, Status
    <3>2. CASE Confirmable(ord[h]) /\ row' = [row EXCEPT ![ord[h]].status = "CONFIRMED"]
      <4>1. row[ord[h]] # NoRow
        BY <2>1, Assigned DEF Unassigned, HandlerAt, Unwritten
      <4>2. row[ord[h]] \in Row
        BY <1>2, <2>2, <4>1
      <4>3. PICK w : w = [row[ord[h]] EXCEPT !.status = "CONFIRMED"]
        OBVIOUS
      <4>4. w \in Row /\ w.status = "CONFIRMED"
        BY <4>2, <4>3 DEF Row, OrderStatus
      <4>5. \A o \in Order : row'[o] = IF o = ord[h] THEN w ELSE row[o]
        BY <1>2, <2>2, <3>2, <4>3
      <4> QED  BY <1>2, <4>4, <4>5 DEF Live, Status
    <3> QED  BY <1>9, <3>1, <3>2 DEF Advance
  <2> QED  BY <1>1, <2>1, <2>3, LeakFreeQuiet DEF HoldingSteps, Unwritten
<1>10. CASE AttachPayment(h) \/ MarkPaid(h) \/ MarkSettled(h) \/ MarkRefunded(h) \/ MarkReturned(h)
  <2>1. pc[h] \in {"attach", "paid", "settled", "refunded", "returned"} /\ UNCHANGED moves
    BY <1>10
    DEF AttachPayment, MarkPaid, MarkSettled, MarkRefunded, MarkReturned, MarkPayment, services
  <2>2. ord[h] \in Order /\ row[ord[h]] # NoRow
    BY <2>1, Assigned DEF Unassigned, HandlerAt, Unwritten
  <2>3. row[ord[h]] \in Row
    BY <1>2, <2>2
  <2>4. \A o \in Order : Status(o)' = Status(o)
    <3>1. CASE UNCHANGED row
      BY <3>1 DEF Status
    <3>2. ASSUME NEW w \in Row, w.status = row[ord[h]].status, row' = [row EXCEPT ![ord[h]] = w]
          PROVE  \A o \in Order : Status(o)' = Status(o)
      <4>1. \A o \in Order : row'[o] = IF o = ord[h] THEN w ELSE row[o]
        BY <1>2, <2>2, <3>2
      <4> QED  BY <1>2, <2>2, <3>2, <4>1 DEF Status
    <3>3. CASE row' = [row EXCEPT ![ord[h]].payment = TRUE]
      BY <2>3, <3>2, <3>3, PaymentUpdate
    <3>4. ASSUME NEW to \in PaymentStatus, row' = [row EXCEPT ![ord[h]].pay = to]
          PROVE  \A o \in Order : Status(o)' = Status(o)
      BY <2>3, <3>2, <3>4, PayUpdate
    <3> QED
      BY <1>10, <3>1, <3>3, <3>4 DEF AttachPayment, MarkPaid, MarkSettled, MarkRefunded,
         MarkReturned, MarkPayment, PaymentStatus
  <2> QED  BY <1>1, <2>1, <2>4, LeakFreeQuiet DEF Live, HoldingSteps, Unwritten
<1>11. CASE \/ ReadCart(h) \/ Quote(h) \/ ReserveRefused(h) \/ Redeem(h) \/ ClearCart(h)
            \/ (\E a \in PayAnswers : PayAnswered(h, a)) \/ PayRefused(h) \/ Reread(h)
            \/ Settle(h) \/ Refund(h) \/ PublishPlaced(h) \/ PublishConfirmed(h)
            \/ PublishShipped(h) \/ PublishCancelled(h) \/ RefundReturn(h) \/ Restock(h)
  <2>1. pc[h] \notin HoldingSteps /\ UNCHANGED <<row, moves>>
    BY <1>11
    DEF ReadCart, Quote, ReserveRefused, Redeem, ClearCart, PayAnswered, PayRefused, Reread, Settle,
        Refund, PublishPlaced, PublishConfirmed, PublishShipped, PublishCancelled, Publish,
        RefundReturn, Restock, HoldingSteps, Unwritten, store, services
  <2> QED  BY <1>1, <2>1, LeakFreeQuiet DEF Live, Status
<1> QED
  BY <1>4, <1>5, <1>6, <1>7, <1>8, <1>9, <1>10, <1>11 DEF Proceed

\* Without failures stock is held only for a live order or one a handler works on.
THEOREM NoStockLeaks ==
  ASSUME Faults = {}, IsFiniteSet(Order)
  PROVE  Spec => []NothingLeaks
<1>1. Init => LeakFree
  BY DEF Init, LeakFree, Held, OrderMovement
<1>2. Inv /\ Inv' /\ Agreement /\ LeakFree /\ [Next]_vars => LeakFree'
  <2> SUFFICES ASSUME Inv, Inv', Agreement, LeakFree, [Next]_vars
               PROVE  LeakFree'
    OBVIOUS
  <2>1. ASSUME NEW h \in Handler, Start(h)
        PROVE  LeakFree'
    <3>1. pc[h] = "idle" /\ UNCHANGED <<row, moves>>
      BY <2>1 DEF Start, StartCheckout, StartPay, StartFulfil, StartCancel, StartReturn, Load, store, services
    <3>2. \A g \in Handler \ {h} : pc'[g] = pc[g] /\ ord'[g] = ord[g]
      BY <2>1, OtherHandlers
    <3> QED  BY <3>1, <3>2, LeakFreeQuiet DEF Live, Status, HoldingSteps, Unwritten
  <2>2. CASE ChangeCart \/ (\E q \in Correction : AdjustStock(q)) \/ UNCHANGED vars
    <3>1. UNCHANGED <<row, moves, pc, ord>>
      BY <2>2 DEF ChangeCart, AdjustStock, vars, store, services, request
    <3> QED  BY <3>1 DEF LeakFree, Owned, Live, Status, Held
  <2> QED  BY <2>1, <2>2, LeakFreeProceeds DEF Next, Abandon
<1>3. Inv /\ LeakFree => NothingLeaks
  BY DEF LeakFree, NothingLeaks, Owned, Live, Working
<1> QED  BY <1>1, <1>2, <1>3, OrderPhasesHold, AgreementHolds, PTL DEF Spec

-----------------------------------------------------------------------------
(***************************************************************************)
(* The payment mirror and the refunds payment-service has made.  An order  *)
(* that has ended stays as it ended, so a refund, once made for a reason,  *)
(* keeps it; the mirror is written only after its own refund.              *)
(***************************************************************************)
AfterRefund == {"refunded", "returned"}

\* A step that writes no row and makes no refund; a release that was made stays made.
LEMMA MirrorQuiet ==
  ASSUME MirrorFollowsRefunds, NEW h \in Handler, UNCHANGED <<row, refunds>>,
         \A o \in Order : moves[o]["RELEASE"] = 1 /\ Status(o) = "CANCELLED" => moves'[o]["RELEASE"] = 1,
         \A g \in Handler \ {h} : pc'[g] = pc[g] /\ ord'[g] = ord[g],
         pc'[h] \notin AfterRefund
  PROVE  MirrorFollowsRefunds'
<1>1. \A o \in Order : Status(o)' = Status(o)
  BY DEF Status
<1> QED  BY <1>1 DEF MirrorFollowsRefunds, AfterRefund

\* A step that writes the row of its order: it revives no order that has ended, and sets
\* the mirror to REFUNDED only after a refund.
LEMMA MirrorRow ==
  ASSUME Inv, MirrorFollowsRefunds, NEW h \in Handler, NEW o \in Order, UNCHANGED <<moves, refunds>>,
         \A g \in Handler \ {h} : pc'[g] = pc[g] /\ ord'[g] = ord[g],
         pc'[h] \notin AfterRefund,
         NEW w \in Row, row' = [row EXCEPT ![o] = w],
         Status(o) \in {"CANCELLED", "FULFILLED"} => w.status = Status(o),
         w.pay = "REFUNDED" => \/ row[o] # NoRow /\ row[o].pay = "REFUNDED"
                               \/ refunds[o] # {}
  PROVE  MirrorFollowsRefunds'
<1>1. \A p \in Order : row'[p] = IF p = o THEN w ELSE row[p]
  BY DEF Inv, TypeOK
<1>2. w # NoRow
  BY OrdersAssumption
<1>3. \A p \in Order : Status(p) \in {"CANCELLED", "FULFILLED"} => Status(p)' = Status(p)
  BY <1>1, <1>2 DEF Status
<1>4. \A p \in Order : row'[p] # NoRow /\ row'[p].pay = "REFUNDED" => refunds'[p] # {}
  BY <1>1 DEF MirrorFollowsRefunds
<1>5. \A p \in Order : /\ "cancel" \in refunds'[p] => Status(p)' = "CANCELLED" /\ moves'[p]["RELEASE"] = 1
                       /\ "return" \in refunds'[p] => Status(p)' = "FULFILLED"
  BY <1>3 DEF MirrorFollowsRefunds
<1>6. \A g \in Handler : /\ pc'[g] = "refunded" => "cancel" \in refunds'[ord'[g]]
                         /\ pc'[g] = "returned" => "return" \in refunds'[ord'[g]]
  BY DEF MirrorFollowsRefunds, AfterRefund
<1> QED  BY <1>4, <1>5, <1>6 DEF MirrorFollowsRefunds

LEMMA MirrorCalls ==
  ASSUME Inv, MirrorFollowsRefunds, NEW h \in Handler, Refund(h) \/ RefundReturn(h)
  PROVE  MirrorFollowsRefunds'
<1>1. PICK o : o = ord[h]
  OBVIOUS
<1>2. /\ pc \in [Handler -> Step] /\ ord \in [Handler -> Order \cup {NoOrder}]
      /\ refunds \in [Order -> SUBSET RefundKinds]
  BY DEF Inv, TypeOK
<1>3. \A g \in Handler \ {h} : pc'[g] = pc[g] /\ ord'[g] = ord[g]
  BY OtherHandlers DEF Proceed
<1>4. /\ UNCHANGED <<row, moves>> /\ pc[h] \in {"refund", "return"}
  BY DEF Refund, RefundReturn, store
<1>5. o \in Order /\ HandlerAt(pc[h], seen[h], row[o], moves[o], told[o])
  BY <1>1, <1>4, Assigned DEF Unassigned
<1>6. \A p \in Order : Status(p)' = Status(p)
  BY <1>4 DEF Status
<1>7. CASE UNCHANGED refunds /\ (Continue(h, "tellCancelled") \/ Return(h))
  <2>1. pc'[h] \notin AfterRefund
    BY <1>2, <1>7 DEF Continue, Return, Goto, AfterRefund
  <2> QED  BY <1>3, <1>4, <1>7, <2>1, MirrorQuiet
<1>8. ASSUME NEW kind \in RefundKinds, PayBack(h, kind), pc[h] = IF kind = "cancel" THEN "refund" ELSE "return",
             pc'[h] \in AfterRefund => /\ ord'[h] = o
                                       /\ pc'[h] = IF kind = "cancel" THEN "refunded" ELSE "returned"
      PROVE  MirrorFollowsRefunds'
  <2>1. \A p \in Order : refunds'[p] = IF p = o THEN refunds[o] \cup {kind} ELSE refunds[p]
    BY <1>1, <1>2, <1>5, <1>8 DEF PayBack
  <2>2. /\ kind = "cancel" => Status(o) = "CANCELLED" /\ moves[o]["RELEASE"] = 1
        /\ kind = "return" => Status(o) = "FULFILLED"
    BY <1>5, <1>8 DEF HandlerAt, Released, Refunding, Resolving, Unwritten, Moved, Status
  <2>3. \A p \in Order : refunds[p] \subseteq refunds'[p]
    BY <2>1
  <2>4. \A p \in Order : row'[p] # NoRow /\ row'[p].pay = "REFUNDED" => refunds'[p] # {}
    BY <1>4, <2>3 DEF MirrorFollowsRefunds
  <2>5. \A p \in Order : /\ "cancel" \in refunds'[p] => Status(p)' = "CANCELLED" /\ moves'[p]["RELEASE"] = 1
                         /\ "return" \in refunds'[p] => Status(p)' = "FULFILLED"
    BY <1>4, <1>6, <2>1, <2>2 DEF MirrorFollowsRefunds
  <2>6. ASSUME NEW g \in Handler
        PROVE  /\ pc'[g] = "refunded" => "cancel" \in refunds'[ord'[g]]
               /\ pc'[g] = "returned" => "return" \in refunds'[ord'[g]]
    <3>1. CASE g = h
      BY <1>5, <1>8, <2>1, <3>1 DEF AfterRefund, RefundKinds
    <3>2. CASE g # h
      <4>1. pc[g] \in AfterRefund => ord[g] \in Order
        BY Assigned DEF AfterRefund, Unassigned
      <4> QED  BY <1>3, <2>3, <3>2, <4>1 DEF MirrorFollowsRefunds, AfterRefund
    <3> QED  BY <3>1, <3>2
  <2> QED  BY <2>4, <2>5, <2>6 DEF MirrorFollowsRefunds
<1>9. \A step : Continue(h, step) => pc'[h] = step /\ ord'[h] = o
  BY <1>1, <1>2 DEF Continue, Goto, request
<1>10. CASE Refund(h) /\ PayBack(h, "cancel")
  BY <1>8, <1>9, <1>10 DEF Refund, RefundKinds, AfterRefund
<1>11. CASE RefundReturn(h) /\ PayBack(h, "return") /\ Continue(h, "returned")
  BY <1>8, <1>9, <1>11 DEF RefundReturn, RefundKinds, AfterRefund
<1> QED  BY <1>7, <1>10, <1>11 DEF Refund, RefundReturn

\* A stock movement takes no release back.
LEMMA MirrorMoves ==
  ASSUME Inv, Inv', MirrorFollowsRefunds, NEW h \in Handler,
         NEW o \in Order, NEW type \in OrderMovement, StockCall(type, o), UNCHANGED row,
         \A g \in Handler \ {h} : pc'[g] = pc[g] /\ ord'[g] = ord[g],
         pc'[h] \notin AfterRefund
  PROVE  MirrorFollowsRefunds'
<1>1. \A p \in Order : /\ moves[p]["RELEASE"] \in Nat
                       /\ moves'[p]["RELEASE"] \in {moves[p]["RELEASE"], moves[p]["RELEASE"] + 1}
  BY DEF StockCall, Inv, TypeOK, OrderMovement
<1>2. \A p \in Order : moves'[p]["RELEASE"] \in {0, 1}
  BY DEF Inv, OrderPhases, OrderAt, Moved
<1>3. \A p \in Order : moves[p]["RELEASE"] = 1 => moves'[p]["RELEASE"] = 1
  BY <1>1, <1>2
<1> QED  BY <1>3, MirrorQuiet DEF StockCall

LEMMA MirrorProceeds ==
  ASSUME Inv, Inv', MirrorFollowsRefunds, NEW h \in Handler, Proceed(h)
  PROVE  MirrorFollowsRefunds'
<1>1. \A g \in Handler \ {h} : pc'[g] = pc[g] /\ ord'[g] = ord[g]
  BY OtherHandlers
<1>2. /\ pc \in [Handler -> Step] /\ ord \in [Handler -> Order \cup {NoOrder}]
      /\ row \in [Order -> Row \cup {NoRow}] /\ NoRow \notin Row
      /\ key \in [Handler -> Key \cup {NoKey}] /\ coupon \in [Handler -> BOOLEAN]
  BY OrdersAssumption DEF Inv, TypeOK
<1>3. \A step : Continue(h, step) \/ Goto(h, step) => pc'[h] = step
  BY <1>2 DEF Continue, Goto
<1>4. Return(h) => pc'[h] = "idle"
  BY <1>3 DEF Return
<1>5. CASE \/ ReadCart(h) \/ Quote(h) \/ ReserveRefused(h) \/ CreateFails(h) \/ Redeem(h) \/ ClearCart(h)
           \/ (\E a \in PayAnswers : PayAnswered(h, a)) \/ PayRefused(h) \/ Reread(h) \/ Settle(h)
           \/ PublishPlaced(h) \/ PublishConfirmed(h) \/ PublishShipped(h) \/ PublishCancelled(h)
           \/ Restock(h)
  <2>1. UNCHANGED <<row, moves, refunds>>
    BY <1>5
    DEF ReadCart, Quote, ReserveRefused, CreateFails, Redeem, ClearCart, PayAnswered, PayRefused,
        Reread, Settle, PublishPlaced, PublishConfirmed, PublishShipped, PublishCancelled, Publish,
        Restock, store, services
  <2>2. pc'[h] \notin AfterRefund
    <3>1. CASE \E a \in PayAnswers : PayAnswered(h, a)
      BY <1>3, <3>1 DEF PayAnswered, AfterRefund
    <3>2. CASE ~ \E a \in PayAnswers : PayAnswered(h, a)
      BY <1>3, <1>4, <1>5, <3>2
      DEF ReadCart, Quote, ReserveRefused, CreateFails, Redeem, ClearCart, PayRefused, Reread, Settle,
          PublishPlaced, PublishConfirmed, PublishShipped, PublishCancelled, Publish, Restock, AfterRefund
    <3> QED  BY <3>1, <3>2
  <2> QED  BY <1>1, <2>1, <2>2, MirrorQuiet
<1>6. ASSUME NEW o \in Order, Reserve(h, o)
      PROVE  MirrorFollowsRefunds'
  <2>1. /\ StockCall("RESERVE", o) /\ UNCHANGED row /\ "RESERVE" \in OrderMovement
        /\ pc'[h] \notin AfterRefund
    BY <1>3, <1>6 DEF Reserve, store, OrderMovement, AfterRefund
  <2> QED  BY <1>1, <2>1, MirrorMoves
<1>7. CASE Compensate(h) \/ Ship(h) \/ Release(h)
  <2>1. UNCHANGED row /\ pc[h] \in {"compensate", "ship", "release"} /\ pc'[h] \notin AfterRefund
    BY <1>3, <1>4, <1>7
    DEF Compensate, Ship, Release, AfterShip, AfterRelease, store, AfterRefund
  <2>2. ord[h] \in Order
    BY <2>1, Assigned DEF Unassigned
  <2>3. UNCHANGED services \/ StockCall("SHIP", ord[h]) \/ StockCall("RELEASE", ord[h])
    BY <1>7 DEF Compensate, Ship, Release
  <2>4. CASE UNCHANGED services
    BY <1>1, <2>1, <2>4, MirrorQuiet DEF services
  <2> QED  BY <1>1, <2>1, <2>2, <2>3, <2>4, MirrorMoves DEF OrderMovement
<1>8. CASE Create(h)
  <2>1. NewRow(h) \in Row /\ NewRow(h).pay = "PENDING"
    BY <1>2 DEF NewRow, Row, OrderStatus, PaymentStatus
  <2>2. /\ pc[h] = "create" /\ row' = [row EXCEPT ![ord[h]] = NewRow(h)]
        /\ UNCHANGED <<moves, refunds>> /\ pc'[h] \notin AfterRefund
    BY <1>3, <1>8 DEF Create, services, AfterRefund
  <2>3. ord[h] \in Order /\ row[ord[h]] = NoRow
    BY <2>2, Assigned DEF Unassigned, HandlerAt, Unwritten
  <2>4. Status(ord[h]) = "none"
    BY <2>3 DEF Status
  <2> QED  BY <1>1, <2>1, <2>2, <2>3, <2>4, MirrorRow
<1>9. CASE \/ AttachPayment(h) \/ Advance(h) \/ MarkPaid(h) \/ MarkFulfilled(h) \/ MarkSettled(h)
           \/ MarkCancelled(h) \/ MarkRefunded(h) \/ MarkReturned(h)
  <2>1. PICK o : o = ord[h]
    OBVIOUS
  <2>2. /\ UNCHANGED <<moves, refunds>>
        /\ pc[h] \in {"attach", "advance", "paid", "fulfil", "settled", "cancel", "refunded", "returned"}
    BY <1>9 DEF AttachPayment, Advance, MarkPaid, MarkFulfilled, MarkSettled, MarkCancelled,
       MarkRefunded, MarkReturned, MarkPayment, services
  <2>3. pc'[h] \notin AfterRefund
    BY <1>3, <1>4, <1>9 DEF AttachPayment, Advance, AfterAdvance, MarkPaid, MarkFulfilled, MarkSettled,
       MarkCancelled, MarkRefunded, MarkReturned, AfterRefund
  <2>4. o \in Order /\ row[o] # NoRow
    BY <2>1, <2>2, Assigned DEF Unassigned, HandlerAt, Unwritten
  <2>5. row[o] \in Row /\ Status(o) = row[o].status
    BY <1>2, <2>4 DEF Status
  <2>6. CASE UNCHANGED row
    BY <1>1, <2>2, <2>3, <2>6, MirrorQuiet
  <2>7. CASE row' = [row EXCEPT ![o].payment = TRUE]
    <3>1. PICK w : w = [row[o] EXCEPT !.payment = TRUE]
      OBVIOUS
    <3>2. w \in Row /\ w.status = row[o].status /\ w.pay = row[o].pay
      BY <2>5, <3>1, PaymentUpdate
    <3>3. row' = [row EXCEPT ![o] = w]
      BY <2>7, <3>1
    <3> QED  BY <1>1, <2>2, <2>3, <2>4, <2>5, <3>2, <3>3, MirrorRow
  <2>8. ASSUME NEW st \in OrderStatus, row' = [row EXCEPT ![o].status = st],
               row[o].status \in {"PENDING_PAYMENT", "CONFIRMED"}
        PROVE  MirrorFollowsRefunds'
    <3>1. PICK w : w = [row[o] EXCEPT !.status = st]
      OBVIOUS
    <3>2. w \in Row /\ w.pay = row[o].pay
      BY <2>5, <3>1, StatusUpdate
    <3>3. row' = [row EXCEPT ![o] = w]
      BY <2>8, <3>1
    <3>4. Status(o) \in {"CANCELLED", "FULFILLED"} => w.status = Status(o)
      BY <2>5, <2>8
    <3>5. w.pay = "REFUNDED" => row[o] # NoRow /\ row[o].pay = "REFUNDED"
      BY <2>4, <3>2
    <3> QED  BY <1>1, <2>2, <2>3, <2>4, <3>2, <3>3, <3>4, <3>5, MirrorRow
  <2>9. ASSUME NEW to \in PaymentStatus, row' = [row EXCEPT ![o].pay = to],
               to = "REFUNDED" => refunds[o] # {}
        PROVE  MirrorFollowsRefunds'
    <3>1. PICK w : w = [row[o] EXCEPT !.pay = to]
      OBVIOUS
    <3>2. w \in Row /\ w.status = row[o].status /\ w.pay = to
      BY <2>5, <3>1, PayUpdate
    <3>3. row' = [row EXCEPT ![o] = w]
      BY <2>9, <3>1
    <3>4. Status(o) \in {"CANCELLED", "FULFILLED"} => w.status = Status(o)
      BY <2>5, <3>2
    <3>5. w.pay = "REFUNDED" => refunds[o] # {}
      BY <2>9, <3>2
    <3> QED  BY <1>1, <2>2, <2>3, <2>4, <3>2, <3>3, <3>4, <3>5, MirrorRow
  <2>10. CASE AttachPayment(h)
    BY <2>1, <2>7, <2>10 DEF AttachPayment
  <2>11. CASE Advance(h) \/ MarkFulfilled(h) \/ MarkCancelled(h)
    BY <2>1, <2>6, <2>8, <2>11
    DEF Advance, Confirmable, MarkFulfilled, MarkCancelled, Cancellable, OrderStatus
  <2>12. CASE MarkPaid(h) \/ MarkSettled(h)
    BY <2>1, <2>6, <2>9, <2>12 DEF MarkPaid, MarkSettled, MarkPayment, PaymentStatus
  <2>13. CASE MarkRefunded(h) \/ MarkReturned(h)
    <3>1. pc[h] \in AfterRefund
      BY <2>13 DEF MarkRefunded, MarkReturned, AfterRefund
    <3>2. refunds[o] # {}
      BY <2>1, <3>1 DEF MirrorFollowsRefunds, AfterRefund
    <3> QED  BY <2>1, <2>6, <2>9, <2>13, <3>2 DEF MarkRefunded, MarkReturned, MarkPayment, PaymentStatus
  <2> QED  BY <1>9, <2>10, <2>11, <2>12, <2>13
<1> QED
  BY <1>5, <1>6, <1>7, <1>8, <1>9, MirrorCalls DEF Proceed

LEMMA MirrorStep ==
  ASSUME Inv, Inv', MirrorFollowsRefunds, [Next]_vars
  PROVE  MirrorFollowsRefunds'
<1>1. ASSUME NEW h \in Handler, Start(h) \/ Abandon(h)
      PROVE  MirrorFollowsRefunds'
  <2>1. UNCHANGED <<row, moves, refunds>>
    BY <1>1
    DEF Start, StartCheckout, StartPay, StartFulfil, StartCancel, StartReturn, Load, Abandon, store,
        services
  <2>2. pc \in [Handler -> Step]
    BY DEF Inv, TypeOK
  <2>3. pc'[h] \notin AfterRefund
    BY <1>1, <2>2
    DEF Start, StartCheckout, StartPay, StartFulfil, StartCancel, StartReturn, Load, Goto, Abandon,
        Return, AfterRefund
  <2>4. \A g \in Handler \ {h} : pc'[g] = pc[g] /\ ord'[g] = ord[g]
    BY <1>1, OtherHandlers
  <2> QED  BY <2>1, <2>3, <2>4, MirrorQuiet
<1>2. CASE ChangeCart \/ (\E q \in Correction : AdjustStock(q)) \/ UNCHANGED vars
  <2>1. UNCHANGED <<row, moves, refunds, pc, ord>>
    BY <1>2 DEF ChangeCart, AdjustStock, vars, store, services, request
  <2> QED  BY <2>1 DEF MirrorFollowsRefunds, Status
<1> QED  BY <1>1, <1>2, MirrorProceeds DEF Next

\* Orders count as paid only with a payment and as refunded only after a refund; the refund
\* of a cancellation follows the release of the stock and is made by one handler, that of a
\* return is made for a FULFILLED order only.
THEOREM RefundsComeAfterRelease == Spec => []RefundsFollowRelease
<1>1. ASSUME Inv, NEW o \in Order, row[o] # NoRow
      PROVE  row[o].pay # "PENDING" => row[o].payment
  BY <1>1, PhaseFacts DEF OrderAt
<1>2. ASSUME Inv, NEW h \in Handler, pc[h] \in Refunding
      PROVE  /\ Status(ord[h]) = "CANCELLED" /\ moves[ord[h]]["RELEASE"] = 1
             /\ \A g \in Handler : pc[g] \in Refunding /\ ord[g] = ord[h] => g = h
  <2>1. pc[h] \notin Unassigned
    BY <1>2 DEF Refunding, Unassigned
  <2>2. HandlerAt(pc[h], seen[h], row[ord[h]], moves[ord[h]], told[ord[h]]) /\ ord[h] # NoOrder
    BY <1>2, <2>1, Assigned
  <2>3. Status(ord[h]) = "CANCELLED" /\ moves[ord[h]]["RELEASE"] = 1
    BY <1>2, <2>2 DEF HandlerAt, Released, Refunding, Unwritten, Status, Moved
  <2>4. \A p, q : p \in Refunding /\ q \in Refunding => ~Compatible(p, q)
    BY DEF Compatible, Exclusive, Released
  <2>5. \A g \in Handler : pc[g] \in Refunding /\ ord[g] = ord[h] => g = h
    BY <1>2, <2>2, <2>4 DEF Inv, OrderPhases
  <2> QED  BY <2>3, <2>5
<1>3. Inv /\ MirrorFollowsRefunds => RefundsFollowRelease
  BY <1>1, <1>2 DEF RefundsFollowRelease
<1>4. Init => MirrorFollowsRefunds
  BY DEF Init, MirrorFollowsRefunds
<1>5. Inv /\ Inv' /\ MirrorFollowsRefunds /\ [Next]_vars => MirrorFollowsRefunds'
  BY MirrorStep
<1> QED  BY <1>3, <1>4, <1>5, OrderPhasesHold, PTL DEF Spec

-----------------------------------------------------------------------------
CouponOrders == {o \in Order : row[o] # NoRow /\ row[o].coupon}

\* Checkouts whose quote was given the coupon and whose order is still to be written.
Entitled == {h \in Handler : coupon[h] /\ pc[h] \in {"reserve", "create"}}

\* Checkouts that have written their order and are about to count it.
Redeeming == {h \in Handler : pc[h] = "redeem"}

\* As long as the limit is not reached every order with the coupon is counted or about to
\* be; from then on no more checkouts become entitled.
CouponInv ==
  /\ IsFiniteSet(CouponOrders)
  /\ IF redeemed < MaxRedemptions
       THEN Cardinality(CouponOrders) = redeemed + Cardinality(Redeeming)
       ELSE Cardinality(CouponOrders) + Cardinality(Entitled) <= MaxRedemptions + Cardinality(Handler) - 1

\* A handler is entitled or redeeming, not both.
LEMMA CheckoutsUnderWay ==
  ASSUME IsFiniteSet(Handler)
  PROVE  /\ IsFiniteSet(Entitled) /\ IsFiniteSet(Redeeming)
         /\ Cardinality(Entitled) \in Nat /\ Cardinality(Redeeming) \in Nat
         /\ Cardinality(Handler) \in Nat
         /\ Cardinality(Entitled) + Cardinality(Redeeming) <= Cardinality(Handler)
<1>1. Entitled \subseteq Handler /\ Redeeming \subseteq Handler
  BY DEF Entitled, Redeeming
<1>2. /\ IsFiniteSet(Entitled) /\ IsFiniteSet(Redeeming)
      /\ Cardinality(Entitled) \in Nat /\ Cardinality(Redeeming) \in Nat
      /\ Cardinality(Handler) \in Nat
  BY <1>1, FS_Subset, FS_CardinalityType
<1>3. Cardinality(Entitled \cap Redeeming) = 0
  <2>1. Entitled \cap Redeeming = {}
    BY DEF Entitled, Redeeming
  <2> QED  BY <2>1, FS_EmptySet
<1>4. Cardinality(Entitled \cup Redeeming) = Cardinality(Entitled) + Cardinality(Redeeming)
  <2>1. Cardinality(Entitled \cup Redeeming)
          = Cardinality(Entitled) + Cardinality(Redeeming) - Cardinality(Entitled \cap Redeeming)
    BY <1>2, FS_Union
  <2> QED  BY <1>2, <1>3, <2>1
<1>5. Cardinality(Entitled \cup Redeeming) <= Cardinality(Handler)
  BY <1>1, FS_Subset
<1> QED  BY <1>2, <1>4, <1>5

\* Steps that write no order and count none; only while coupons are left may the handler
\* become entitled.
LEMMA CouponQuiet ==
  ASSUME CouponInv, TypeOK, IsFiniteSet(Handler), NEW h \in Handler,
         CouponOrders' = CouponOrders, UNCHANGED redeemed,
         \A g \in Handler \ {h} : pc'[g] = pc[g] /\ coupon'[g] = coupon[g],
         pc'[h] = "redeem" <=> pc[h] = "redeem",
         coupon'[h] /\ pc'[h] \in {"reserve", "create"} => h \in Entitled \/ redeemed < MaxRedemptions
  PROVE  CouponInv'
<1>1. Redeeming' = Redeeming
  BY DEF Redeeming
<1>2. CASE redeemed < MaxRedemptions
  BY <1>1, <1>2 DEF CouponInv
<1>3. CASE ~(redeemed < MaxRedemptions)
  <2>1. Entitled' \subseteq Entitled
    BY <1>3 DEF Entitled
  <2>2. Cardinality(Entitled') <= Cardinality(Entitled) /\ Cardinality(Entitled') \in Nat
    BY <2>1, CheckoutsUnderWay, FS_Subset, FS_CardinalityType
  <2>3. Cardinality(CouponOrders) \in Nat
    BY FS_CardinalityType DEF CouponInv
  <2>4. MaxRedemptions \in Nat
    BY OrdersAssumption
  <2> QED  BY <1>3, <2>2, <2>3, <2>4, CheckoutsUnderWay DEF CouponInv
<1> QED  BY <1>2, <1>3

\* A step of h leaves the coupons of other checkouts alone.
LEMMA OtherCoupons ==
  ASSUME Inv, NEW h \in Handler, Start(h) \/ Proceed(h) \/ Abandon(h)
  PROVE  \A g \in Handler \ {h} : coupon'[g] = coupon[g]
<1>1. coupon \in [Handler -> BOOLEAN]
  BY DEF Inv, TypeOK
<1>2. Return(h) => \A g \in Handler \ {h} : coupon'[g] = coupon[g]
  BY <1>1 DEF Return
<1>3. (\E step : Continue(h, step)) => UNCHANGED coupon
  BY DEF Continue, request
<1>4. CASE Start(h)
  BY <1>1, <1>4 DEF Start, StartCheckout, StartPay, StartFulfil, StartCancel, StartReturn, Load
<1>5. CASE Abandon(h)
  BY <1>2, <1>5 DEF Abandon
<1>6. CASE Proceed(h)
  <2>1. CASE (\E o \in Order : Reserve(h, o)) \/ \E a \in PayAnswers : PayAnswered(h, a)
    BY <2>1 DEF Reserve, PayAnswered
  <2>2. CASE ~((\E o \in Order : Reserve(h, o)) \/ \E a \in PayAnswers : PayAnswered(h, a))
    <3>1. Return(h) \/ \E step : Continue(h, step)
      BY <1>6, <2>2
      DEF Proceed, ReadCart, Quote, ReserveRefused, Create, CreateFails, Compensate, Redeem, ClearCart,
          PublishPlaced, PayRefused, AttachPayment, Advance, MarkPaid, Reread,
          PublishConfirmed, MarkFulfilled, Ship, Settle, MarkSettled, PublishShipped, MarkCancelled,
          Release, Refund, MarkRefunded, PublishCancelled, Publish, RefundReturn, MarkReturned,
          Restock
    <3> QED  BY <1>2, <1>3, <3>1
  <2> QED  BY <2>1, <2>2
<1> QED  BY <1>4, <1>5, <1>6

\* Updates of an order never touch the discount it was given.
LEMMA CouponKept ==
  ASSUME Inv, NEW h \in Handler, pc[h] \notin Unassigned \cup Unwritten,
         \/ UNCHANGED row
         \/ \E st \in OrderStatus : row' = [row EXCEPT ![ord[h]].status = st]
         \/ \E to \in PaymentStatus : row' = [row EXCEPT ![ord[h]].pay = to]
         \/ row' = [row EXCEPT ![ord[h]].payment = TRUE]
  PROVE  CouponOrders' = CouponOrders
<1>1. PICK o : o = ord[h]
  OBVIOUS
<1>2. o \in Order /\ row[o] # NoRow
  BY <1>1, Assigned DEF HandlerAt
<1>3. row \in [Order -> Row \cup {NoRow}] /\ NoRow \notin Row /\ row[o] \in Row
  BY <1>2, OrdersAssumption DEF Inv, TypeOK
<1>4. ASSUME NEW w \in Row, w.coupon = row[o].coupon, row' = [row EXCEPT ![o] = w]
      PROVE  CouponOrders' = CouponOrders
  <2>1. \A p \in Order : row'[p] = IF p = o THEN w ELSE row[p]
    BY <1>3, <1>4
  <2> QED  BY <1>2, <1>3, <1>4, <2>1 DEF CouponOrders
<1>5. CASE UNCHANGED row
  BY <1>5 DEF CouponOrders
<1>6. ASSUME NEW st \in OrderStatus, row' = [row EXCEPT ![o].status = st]
      PROVE  CouponOrders' = CouponOrders
  <2>1. PICK w : w = [row[o] EXCEPT !.status = st]
    OBVIOUS
  <2>2. w \in Row /\ w.coupon = row[o].coupon
    BY <1>3, <2>1 DEF Row
  <2> QED  BY <1>4, <1>6, <2>1, <2>2
<1>7. ASSUME NEW to \in PaymentStatus, row' = [row EXCEPT ![o].pay = to]
      PROVE  CouponOrders' = CouponOrders
  <2>1. PICK w : w = [row[o] EXCEPT !.pay = to]
    OBVIOUS
  <2>2. w \in Row /\ w.coupon = row[o].coupon
    BY <1>3, <2>1 DEF Row
  <2> QED  BY <1>4, <1>7, <2>1, <2>2
<1>8. CASE row' = [row EXCEPT ![o].payment = TRUE]
  <2>1. PICK w : w = [row[o] EXCEPT !.payment = TRUE]
    OBVIOUS
  <2>2. w \in Row /\ w.coupon = row[o].coupon
    BY <1>3, <2>1 DEF Row
  <2> QED  BY <1>4, <1>8, <2>1, <2>2
<1> QED  BY <1>1, <1>5, <1>6, <1>7, <1>8

\* The order is written: with a coupon, its checkout goes on to count it.
LEMMA CouponCreate ==
  ASSUME Inv, CouponInv, IsFiniteSet(Handler), NEW h \in Handler, Create(h)
  PROVE  CouponInv'
<1>1. PICK o, w : o = ord[h] /\ w = NewRow(h)
  OBVIOUS
<1>2. /\ pc[h] = "create" /\ row' = [row EXCEPT ![o] = w] /\ UNCHANGED <<redeemed, coupon>>
      /\ pc' = [pc EXCEPT ![h] = IF coupon[h] THEN "redeem" ELSE "clear"]
  BY <1>1 DEF Create, Continue, Goto, request
<1>3. /\ o \in Order /\ row[o] = NoRow /\ row \in [Order -> Row \cup {NoRow}] /\ NoRow \notin Row
      /\ pc \in [Handler -> Step] /\ coupon \in [Handler -> BOOLEAN] /\ TypeOK
      /\ key \in [Handler -> Key \cup {NoKey}]
  BY <1>1, <1>2, Assigned, OrdersAssumption DEF Unassigned, HandlerAt, Unwritten, Inv, TypeOK
<1>4. w \in Row /\ w.coupon = coupon[h] /\ w # NoRow
  <2>1. PICK k, c : k = key[h] /\ c = coupon[h] /\ k \in Key \cup {NoKey} /\ c \in BOOLEAN
    BY <1>3
  <2>2. w = [status |-> "PENDING_PAYMENT", pay |-> "PENDING", payment |-> FALSE, key |-> k, coupon |-> c]
    BY <1>1, <2>1 DEF NewRow
  <2>3. w \in Row
    BY <2>1, <2>2 DEF Row, OrderStatus, PaymentStatus
  <2>4. w.coupon = c
    BY <2>2
  <2> QED  BY <1>3, <2>1, <2>3, <2>4
<1>5. \A p \in Order : row'[p] = IF p = o THEN w ELSE row[p]
  BY <1>2, <1>3
<1>6. \A g \in Handler \ {h} : pc'[g] = pc[g] /\ coupon'[g] = coupon[g]
  BY <1>2, <1>3
<1>7. CASE ~coupon[h]
  <2>1. CouponOrders' = CouponOrders
    BY <1>3, <1>4, <1>5, <1>7 DEF CouponOrders
  <2>2. pc'[h] = "clear"
    BY <1>2, <1>3, <1>7
  <2> QED  BY <1>2, <1>3, <1>6, <2>1, <2>2, CouponQuiet
<1>8. CASE coupon[h]
  <2>1. o \notin CouponOrders /\ CouponOrders' = CouponOrders \cup {o}
    BY <1>3, <1>4, <1>5, <1>8 DEF CouponOrders
  <2>2. pc'[h] = "redeem"
    BY <1>2, <1>3, <1>8
  <2>3. h \notin Redeeming /\ Redeeming' = Redeeming \cup {h}
    BY <1>2, <1>6, <2>2 DEF Redeeming
  <2>4. h \in Entitled /\ Entitled' = Entitled \ {h}
    BY <1>2, <1>6, <1>8, <2>2 DEF Entitled
  <2>5. /\ Cardinality(CouponOrders') = Cardinality(CouponOrders) + 1
        /\ Cardinality(CouponOrders) \in Nat /\ IsFiniteSet(CouponOrders')
    BY <2>1, OneMore, FS_AddElement DEF CouponInv
  <2>6. Cardinality(Redeeming') = Cardinality(Redeeming) + 1 /\ Cardinality(Redeeming) \in Nat
    BY <2>3, OneMore, CheckoutsUnderWay
  <2>7. Cardinality(Entitled') = Cardinality(Entitled) - 1 /\ Cardinality(Entitled) \in Nat
    BY <2>4, OneMore, CheckoutsUnderWay
  <2>8. redeemed \in Nat /\ redeemed' = redeemed /\ MaxRedemptions \in Nat /\ Cardinality(Handler) \in Nat
    BY <1>2, <1>3, OrdersAssumption, CheckoutsUnderWay DEF TypeOK
  <2> QED  BY <2>5, <2>6, <2>7, <2>8 DEF CouponInv
<1> QED  BY <1>3, <1>7, <1>8

\* The order is counted; when that reaches the limit, the others under way are what remains.
LEMMA CouponRedeem ==
  ASSUME Faults = {}, Inv, CouponInv, IsFiniteSet(Handler), NEW h \in Handler, Redeem(h)
  PROVE  CouponInv'
<1>1. /\ pc[h] = "redeem" /\ UNCHANGED <<row, coupon>> /\ pc' = [pc EXCEPT ![h] = "clear"]
      /\ redeemed' = IF redeemed < MaxRedemptions THEN redeemed + 1 ELSE redeemed
  BY DEF Redeem, Continue, Goto, request, CallMayFail
<1>2. pc \in [Handler -> Step] /\ TypeOK
  BY DEF Inv, TypeOK
<1>3. pc'[h] = "clear" /\ \A g \in Handler \ {h} : pc'[g] = pc[g]
  BY <1>1, <1>2
<1>4. CouponOrders' = CouponOrders
  BY <1>1 DEF CouponOrders
<1>5. h \in Redeeming /\ Redeeming' = Redeeming \ {h}
  BY <1>1, <1>3 DEF Redeeming
<1>6. Entitled' = Entitled
  BY <1>1, <1>3 DEF Entitled
<1>7. Cardinality(Redeeming') = Cardinality(Redeeming) - 1 /\ Cardinality(Redeeming) \in Nat
  BY <1>5, OneMore, CheckoutsUnderWay
<1>8. /\ redeemed \in 0 .. MaxRedemptions /\ MaxRedemptions \in Nat
      /\ Cardinality(CouponOrders) \in Nat
  BY <1>2, OrdersAssumption, FS_CardinalityType DEF CouponInv, TypeOK
<1>9. /\ Cardinality(Entitled) \in Nat /\ Cardinality(Handler) \in Nat
      /\ Cardinality(Entitled) + Cardinality(Redeeming) <= Cardinality(Handler)
  BY CheckoutsUnderWay
<1>10. CASE redeemed < MaxRedemptions
  <2>1. Cardinality(CouponOrders) = redeemed + Cardinality(Redeeming) /\ redeemed' = redeemed + 1
    BY <1>1, <1>10 DEF CouponInv
  <2>2. CASE redeemed + 1 < MaxRedemptions
    BY <1>4, <1>7, <1>8, <2>1, <2>2 DEF CouponInv
  <2>3. CASE ~(redeemed + 1 < MaxRedemptions)
    <3>1. Cardinality(CouponOrders) + Cardinality(Entitled) <= MaxRedemptions + Cardinality(Handler) - 1
      BY <1>7, <1>8, <1>9, <1>10, <2>1, <2>3
    <3> QED  BY <1>4, <1>6, <2>1, <2>3, <3>1 DEF CouponInv
  <2> QED  BY <2>2, <2>3
<1>11. CASE ~(redeemed < MaxRedemptions)
  BY <1>1, <1>4, <1>6, <1>11 DEF CouponInv
<1> QED  BY <1>10, <1>11

LEMMA CouponProceeds ==
  ASSUME Faults = {}, Inv, CouponInv, IsFiniteSet(Handler), NEW h \in Handler, Proceed(h)
  PROVE  CouponInv'
<1>1. \A g \in Handler \ {h} : pc'[g] = pc[g] /\ coupon'[g] = coupon[g]
  BY OtherHandlers, OtherCoupons
<1>2. /\ pc \in [Handler -> Step] /\ coupon \in [Handler -> BOOLEAN] /\ TypeOK
  BY DEF Inv, TypeOK
<1>3. \A step : Continue(h, step) => pc'[h] = step /\ UNCHANGED coupon
  BY <1>2 DEF Continue, Goto, request
<1>4. Return(h) => pc'[h] = "idle"
  BY <1>2 DEF Return, Goto
<1>5. CASE Quote(h)
  <2>1. /\ pc[h] = "quote" /\ UNCHANGED <<row, redeemed>> /\ pc'[h] \in {"reserve", "idle"}
        /\ pc'[h] = "reserve" /\ coupon'[h] => redeemed < MaxRedemptions
    BY <1>3, <1>4, <1>5 DEF Quote, store
  <2>2. CouponOrders' = CouponOrders
    BY <2>1 DEF CouponOrders
  <2> QED  BY <1>1, <1>2, <2>1, <2>2, CouponQuiet
<1>6. ASSUME NEW o \in Order, Reserve(h, o)
      PROVE  CouponInv'
  <2>1. pc[h] = "reserve" /\ UNCHANGED <<row, redeemed, coupon>> /\ pc'[h] = "create"
    BY <1>2, <1>6 DEF Reserve, Goto, store
  <2>2. CouponOrders' = CouponOrders
    BY <2>1 DEF CouponOrders
  <2>3. coupon'[h] => h \in Entitled
    BY <2>1 DEF Entitled
  <2> QED  BY <1>1, <1>2, <2>1, <2>2, <2>3, CouponQuiet
<1>7. CASE \/ ReadCart(h) \/ ReserveRefused(h) \/ CreateFails(h) \/ Compensate(h) \/ ClearCart(h)
           \/ (\E a \in PayAnswers : PayAnswered(h, a)) \/ PayRefused(h) \/ Reread(h)
           \/ Ship(h) \/ Release(h)
           \/ Settle(h) \/ Refund(h) \/ PublishPlaced(h) \/ PublishConfirmed(h)
           \/ PublishShipped(h) \/ PublishCancelled(h) \/ RefundReturn(h) \/ Restock(h)
  <2>1. UNCHANGED <<row, redeemed>>
    BY <1>7
    DEF ReadCart, ReserveRefused, CreateFails, Compensate, ClearCart, PayAnswered, PayRefused, Reread,
        Ship, Release, Settle, Refund, PublishPlaced, PublishConfirmed, PublishShipped,
        PublishCancelled, Publish, RefundReturn, Restock, store
  <2>2. pc[h] # "redeem" /\ pc'[h] \notin {"redeem", "reserve", "create"}
    <3>1. CASE \E a \in PayAnswers : PayAnswered(h, a)
      BY <1>2, <3>1 DEF PayAnswered, Goto
    <3>2. CASE ~ \E a \in PayAnswers : PayAnswered(h, a)
      BY <1>3, <1>4, <1>7, <3>2
      DEF ReadCart, ReserveRefused, CreateFails, Compensate, ClearCart, PayRefused, Reread,
          Ship, Release, AfterShip, AfterRelease, Settle, Refund, PublishPlaced, PublishConfirmed,
          PublishShipped, PublishCancelled, Publish, RefundReturn, Restock
    <3> QED  BY <3>1, <3>2
  <2>3. CouponOrders' = CouponOrders
    BY <2>1 DEF CouponOrders
  <2> QED  BY <1>1, <1>2, <2>1, <2>2, <2>3, CouponQuiet
<1>8. CASE \/ AttachPayment(h) \/ Advance(h) \/ MarkPaid(h) \/ MarkFulfilled(h) \/ MarkSettled(h)
           \/ MarkCancelled(h) \/ MarkRefunded(h) \/ MarkReturned(h)
  <2>1. /\ UNCHANGED redeemed
        /\ pc[h] \in {"attach", "advance", "paid", "fulfil", "settled", "cancel", "refunded", "returned"}
    BY <1>8 DEF AttachPayment, Advance, MarkPaid, MarkFulfilled, MarkSettled, MarkCancelled,
       MarkRefunded, MarkReturned, MarkPayment
  <2>2. pc'[h] \notin {"redeem", "reserve", "create"}
    BY <1>3, <1>4, <1>8 DEF AttachPayment, Advance, AfterAdvance, MarkPaid, MarkFulfilled, MarkSettled,
       MarkCancelled, MarkRefunded, MarkReturned
  <2>3. \/ UNCHANGED row
        \/ \E st \in OrderStatus : row' = [row EXCEPT ![ord[h]].status = st]
        \/ \E to \in PaymentStatus : row' = [row EXCEPT ![ord[h]].pay = to]
        \/ row' = [row EXCEPT ![ord[h]].payment = TRUE]
    BY <1>8 DEF AttachPayment, Advance, MarkPaid, MarkFulfilled, MarkSettled, MarkCancelled,
       MarkRefunded, MarkReturned, MarkPayment, OrderStatus, PaymentStatus
  <2>4. CouponOrders' = CouponOrders
    BY <2>1, <2>3, CouponKept DEF Unassigned, Unwritten
  <2> QED  BY <1>1, <1>2, <2>1, <2>2, <2>4, CouponQuiet
<1> QED
  BY <1>5, <1>6, <1>7, <1>8, CouponCreate, CouponRedeem DEF Proceed

\* Checkouts that overlap exceed the limit of a coupon by the other checkouts under way
\* at most, if nothing fails.
THEOREM CouponOverrunIsBounded ==
  ASSUME Faults = {}, IsFiniteSet(Handler)
  PROVE  Spec => []CouponOverrunBounded
<1>1. Init => CouponInv
  <2> SUFFICES ASSUME Init
               PROVE  CouponInv
    OBVIOUS
  <2>1. CouponOrders = {} /\ Redeeming = {}
    BY DEF Init, CouponOrders, Redeeming
  <2>2. IsFiniteSet({}) /\ Cardinality({}) = 0
    BY FS_EmptySet
  <2> QED  BY <2>1, <2>2, OrdersAssumption DEF Init, CouponInv
<1>2. Inv /\ CouponInv /\ [Next]_vars => CouponInv'
  <2> SUFFICES ASSUME Inv, CouponInv, [Next]_vars
               PROVE  CouponInv'
    OBVIOUS
  <2>1. ASSUME NEW h \in Handler, Start(h)
        PROVE  CouponInv'
    <3>1. pc \in [Handler -> Step] /\ TypeOK
      BY DEF Inv, TypeOK
    <3>2. /\ pc[h] = "idle" /\ UNCHANGED <<row, redeemed>>
          /\ pc'[h] \in {"cart", "pay", "fulfil", "cancel", "return", "restock"}
      BY <2>1, <3>1
      DEF Start, StartCheckout, StartPay, StartFulfil, StartCancel, StartReturn, Load, Goto, store
    <3>3. \A g \in Handler \ {h} : pc'[g] = pc[g] /\ coupon'[g] = coupon[g]
      BY <2>1, OtherHandlers, OtherCoupons
    <3>4. CouponOrders' = CouponOrders
      BY <3>2 DEF CouponOrders
    <3> QED  BY <3>1, <3>2, <3>3, <3>4, CouponQuiet
  <2>2. CASE ChangeCart \/ (\E q \in Correction : AdjustStock(q)) \/ UNCHANGED vars
    <3>1. UNCHANGED <<row, redeemed, pc, coupon>>
      BY <2>2 DEF ChangeCart, AdjustStock, vars, store, services, request
    <3> QED  BY <3>1 DEF CouponInv, CouponOrders, Redeeming, Entitled
  <2> QED  BY <2>1, <2>2, CouponProceeds DEF Next, Abandon
<1>3. Inv /\ CouponInv => CouponOverrunBounded
  <2> SUFFICES ASSUME Inv, CouponInv
               PROVE  Cardinality(CouponOrders) <= MaxRedemptions + Cardinality(Handler) - 1
    BY DEF CouponOverrunBounded, CouponOrders
  <2>1. /\ redeemed \in Nat /\ MaxRedemptions \in Nat
        /\ Cardinality(CouponOrders) \in Nat
    BY OrdersAssumption, FS_CardinalityType DEF Inv, TypeOK, CouponInv
  <2>2. /\ Cardinality(Entitled) \in Nat /\ Cardinality(Redeeming) \in Nat
        /\ Cardinality(Handler) \in Nat
        /\ Cardinality(Entitled) + Cardinality(Redeeming) <= Cardinality(Handler)
    BY CheckoutsUnderWay
  <2> QED  BY <2>1, <2>2 DEF CouponInv
<1> QED  BY <1>1, <1>2, <1>3, OrderPhasesHold, PTL DEF Spec
=============================================================================
