------------------------------- MODULE Stock --------------------------------
(***************************************************************************)
(* inventory-service: the stock_items rows and the stock_movements ledger  *)
(* of one tenant.  Every quantity operation locks its rows (SELECT ... FOR *)
(* UPDATE) until its transaction commits, so one transaction is one action *)
(* here.  PATCH /inventory/:sku takes no lock: it reads the whole row with *)
(* one statement and writes the whole row back with another, so it is two  *)
(* actions and anything may happen between them.                           *)
(***************************************************************************)
EXTENDS StockOps, Sequences

CONSTANTS
  SKU,         \* the SKUs a tenant may track
  Manager,     \* concurrent PATCH requests
  Reorder,     \* reorder levels; stand for all row metadata (location too)
  Quantity,    \* quantities a request may ask for
  MaxMoves,    \* bound: ledger entries per SKU
  Absent       \* marks a SKU with no row, and a PATCH not in progress

Row == [onHand : Int, reserved : Int, reorder : Reorder]

ASSUME StockAssumption ==
  /\ Quantity \subseteq Int
  /\ MaxMoves \in Nat
  /\ Absent \notin Row

VARIABLES
  item,        \* item[s]: the stock_items row of s, or Absent
  ledger,      \* ledger[s]: the stock_movements rows of s, oldest first
  patch        \* patch[m]: what PATCH request m has read, or Absent

vars == <<item, ledger, patch>>

Movement == [type : MovementType, quantity : Int,
             onHandAfter : Int, reservedAfter : Int]

-----------------------------------------------------------------------------
Init ==
  /\ item = [s \in SKU |-> Absent]
  /\ ledger = [s \in SKU |-> << >>]
  /\ patch = [m \in Manager |-> Absent]

\* POST /inventory: the row starts with the column defaults 0 and 0.
Create(s, r) ==
  /\ item[s] = Absent
  /\ item' = [item EXCEPT ![s] = [onHand |-> 0, reserved |-> 0, reorder |-> r]]
  /\ UNCHANGED <<ledger, patch>>

\* The stock_movements row written in the transaction that set lv.
Entry(type, q, lv) ==
  [type |-> type, quantity |-> q, onHandAfter |-> lv.onHand, reservedAfter |-> lv.reserved]

(***************************************************************************)
(* mutate and mutateBulk: lines gives the merged quantity of each SKU of   *)
(* the request.  All lines are applied and recorded, or the transaction    *)
(* rolls back and nothing changes (a step that changes nothing needs no    *)
(* action).                                                                *)
(***************************************************************************)
MoveForgetsLedger(type, lines) ==
  /\ \A s \in DOMAIN lines : item[s] # Absent /\ Allowed(type, item[s], lines[s])
  /\ \A s \in DOMAIN lines : Len(ledger[s]) < MaxMoves
  /\ item' = [s \in SKU |-> IF s \in DOMAIN lines
                              THEN Apply(type, item[s], lines[s]) ELSE item[s]]
  /\ UNCHANGED <<ledger, patch>>

MoveIgnoresGuards(type, lines) ==
  /\ \A s \in DOMAIN lines : item[s] # Absent
  /\ \A s \in DOMAIN lines : Len(ledger[s]) < MaxMoves
  /\ item' = [s \in SKU |-> IF s \in DOMAIN lines
                              THEN Apply(type, item[s], lines[s]) ELSE item[s]]
  /\ ledger' = [s \in SKU |-> IF s \in DOMAIN lines
                  THEN Append(ledger[s], Entry(type, lines[s], Apply(type, item[s], lines[s])))
                  ELSE ledger[s]]
  /\ UNCHANGED patch

Move(type, lines) ==
  /\ \A s \in DOMAIN lines : item[s] # Absent /\ Allowed(type, item[s], lines[s])
  /\ \A s \in DOMAIN lines : Len(ledger[s]) < MaxMoves
  /\ item' = [s \in SKU |-> IF s \in DOMAIN lines
                              THEN Apply(type, item[s], lines[s]) ELSE item[s]]
  /\ ledger' = [s \in SKU |-> IF s \in DOMAIN lines
                  THEN Append(ledger[s], Entry(type, lines[s], Apply(type, item[s], lines[s])))
                  ELSE ledger[s]]
  /\ UNCHANGED patch

Line(s, q) == [t \in {s} |-> q]

Receive(s, q) == Move("RECEIVE", Line(s, q))
Adjust(s, q)  == Move("ADJUST", Line(s, q))
Reserve(s, q) == Move("RESERVE", Line(s, q))
Release(s, q) == Move("RELEASE", Line(s, q))
Ship(s, q)    == Move("SHIP", Line(s, q))

\* A bulk request names at least one SKU.
Lines == UNION {[S -> Quantity] : S \in (SUBSET SKU) \ {{}}}

ReserveBulk(lines) == Move("RESERVE", lines)
ReleaseBulk(lines) == Move("RELEASE", lines)
ShipBulk(lines)    == Move("SHIP", lines)
RestockBulk(lines) == Move("RECEIVE", lines)

(***************************************************************************)
(* PATCH /inventory/:sku, Service.Update: GetBySKU takes no lock, and      *)
(* repository.Update writes on_hand and reserved back with the metadata.   *)
(***************************************************************************)
PatchRead(m, s) ==
  /\ patch[m] = Absent
  /\ item[s] # Absent
  /\ patch' = [patch EXCEPT ![m] = [sku |-> s, row |-> item[s]]]
  /\ UNCHANGED <<item, ledger>>

\* The UPDATE finds no row when the SKU was deleted meanwhile.
PatchWrite(m, r) ==
  /\ patch[m] # Absent
  /\ LET s == patch[m].sku IN
       item' = IF item[s] = Absent THEN item
               ELSE [item EXCEPT ![s] = [patch[m].row EXCEPT !.reorder = r]]
  /\ patch' = [patch EXCEPT ![m] = Absent]
  /\ UNCHANGED ledger

\* DELETE /inventory/:sku: the movements go with the row (ON DELETE CASCADE).
DeleteKeepsLedger(s) ==
  /\ item[s] # Absent
  /\ item' = [item EXCEPT ![s] = Absent]
  /\ UNCHANGED <<ledger, patch>>

Delete(s) ==
  /\ item[s] # Absent
  /\ item' = [item EXCEPT ![s] = Absent]
  /\ ledger' = [ledger EXCEPT ![s] = << >>]
  /\ UNCHANGED patch

Next ==
  \/ \E s \in SKU, r \in Reorder : Create(s, r)
  \/ \E s \in SKU, q \in Quantity :
       \/ Receive(s, q)
       \/ Adjust(s, q)
       \/ Reserve(s, q)
       \/ Release(s, q)
       \/ Ship(s, q)
  \/ \E lines \in Lines :
       \/ ReserveBulk(lines)
       \/ ReleaseBulk(lines)
       \/ ShipBulk(lines)
       \/ RestockBulk(lines)
  \/ \E m \in Manager, s \in SKU : PatchRead(m, s)
  \/ \E m \in Manager, r \in Reorder : PatchWrite(m, r)
  \/ \E s \in SKU : Delete(s)

Spec == Init /\ [][Next]_vars

-----------------------------------------------------------------------------
\* The variables have their types; only tracked SKUs have movements.
TypeOK ==
  /\ item \in [SKU -> Row \cup {Absent}]
  /\ ledger \in [SKU -> Seq(Movement)]
  /\ patch \in [Manager -> [sku : SKU, row : Row] \cup {Absent}]
  /\ \A s \in SKU : item[s] = Absent => ledger[s] = << >>

(***************************************************************************)
(* "Invariant: reserved <= on_hand" (StockItem), with both at least zero   *)
(* and within the column width, for the stored rows and for the rows a     *)
(* PATCH request is about to write back, whatever ran in between.          *)
(***************************************************************************)
StockInvariant ==
  /\ \A s \in SKU : item[s] # Absent => LevelsInBounds(item[s])
  /\ \A m \in Manager : patch[m] # Absent => LevelsInBounds(patch[m].row)

\* The quantities recorded by the i-th movement; all zero before the first.
After(L, i) ==
  IF i = 0 THEN [onHand |-> 0, reserved |-> 0]
           ELSE [onHand |-> L[i].onHandAfter, reserved |-> L[i].reservedAfter]

Levels(row) == [onHand |-> row.onHand, reserved |-> row.reserved]

(***************************************************************************)
(* The ledger explains the stock level: each movement's snapshot is the    *)
(* previous snapshot plus what that movement does, and the last snapshot   *)
(* is the row.  It holds as long as no PATCH request is served: see        *)
(* QuantityChangesAreMovements for what PATCH does to it.                  *)
(***************************************************************************)
LedgerExplainsLevels ==
  \A s \in SKU :
    /\ \A i \in 1 .. Len(ledger[s]) :
         After(ledger[s], i) = Apply(ledger[s][i].type, After(ledger[s], i - 1), ledger[s][i].quantity)
    /\ item[s] # Absent => Levels(item[s]) = After(ledger[s], Len(ledger[s]))

\* Step by step: the row of s stays and its quantities change.
QuantityChange(s) ==
  item[s] # Absent /\ item'[s] # Absent /\ Levels(item[s]) # Levels(item'[s])

Recorded(s) ==
  /\ Len(ledger'[s]) = Len(ledger[s]) + 1
  /\ After(ledger'[s], Len(ledger'[s])) = Levels(item'[s])

\* A PATCH request writes the quantities it read earlier back to s.
PatchOverwrites(s) ==
  \E m \in Manager : /\ patch[m] # Absent
                     /\ patch[m].sku = s
                     /\ patch'[m] = Absent
                     /\ Levels(item'[s]) = Levels(patch[m].row)
                     /\ ledger'[s] = ledger[s]

(***************************************************************************)
(* README of inventory-service: "Every quantity change writes one movement *)
(* ... with a snapshot of on_hand / reserved afterwards."                  *)
(***************************************************************************)
QuantityChangesAreMovements ==
  [][\A s \in SKU : QuantityChange(s) => Recorded(s)]_vars

(***************************************************************************)
(* What the code does guarantee with PATCH requests about: a quantity      *)
(* change that no movement records is a PATCH writing back a snapshot that *)
(* a movement (or a delete and a new row) has overtaken.                   *)
(***************************************************************************)
OnlyStalePatchSkipsLedger ==
  [][\A s \in SKU : QuantityChange(s) => Recorded(s) \/ PatchOverwrites(s)]_vars
=============================================================================
