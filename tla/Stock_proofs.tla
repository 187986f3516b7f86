---------------------------- MODULE Stock_proofs ----------------------------
(***************************************************************************)
(* What inventory-service guarantees whatever the number of SKUs, of PATCH *)
(* requests and of movements: the types, reserved <= on_hand, and, when no *)
(* PATCH request is served, that the ledger explains the rows.             *)
(***************************************************************************)
EXTENDS Stock, TLAPS, SequenceTheorems

\* A movement changes the two quantities of a row by its deltas and nothing else.
LEMMA ApplyRow ==
  ASSUME NEW type \in MovementType, NEW lv \in Row, NEW q \in Int
  PROVE  /\ OnHandDelta(type, q) \in Int
         /\ ReservedDelta(type, q) \in Int
         /\ Apply(type, lv, q) \in Row
         /\ Apply(type, lv, q).onHand = lv.onHand + OnHandDelta(type, q)
         /\ Apply(type, lv, q).reserved = lv.reserved + ReservedDelta(type, q)
<1>1. OnHandDelta(type, q) \in Int /\ ReservedDelta(type, q) \in Int
  BY DEF OnHandDelta, ReservedDelta, MovementType
<1>2. \A x, y \in Int : LET lw == [lv EXCEPT !.onHand = x, !.reserved = y]
                        IN  lw \in Row /\ lw.onHand = x /\ lw.reserved = y
  BY DEF Row
<1>3. lv.onHand \in Int /\ lv.reserved \in Int
  BY DEF Row
<1>4. lv.onHand + OnHandDelta(type, q) \in Int /\ lv.reserved + ReservedDelta(type, q) \in Int
  BY <1>1, <1>3
<1> QED  BY <1>1, <1>2, <1>4 DEF Apply

\* An allowed movement keeps 0 <= reserved <= on_hand <= MaxInt.
LEMMA AllowedKeepsBounds ==
  ASSUME NEW type \in MovementType, NEW lv \in Row, NEW q \in Int,
         LevelsInBounds(lv), Allowed(type, lv, q)
  PROVE  LevelsInBounds(Apply(type, lv, q))
<1> DEFINE lw == Apply(type, lv, q)
<1>1. lw.onHand = lv.onHand + OnHandDelta(type, q) /\ lw.reserved = lv.reserved + ReservedDelta(type, q)
  BY ApplyRow
<1>2. lw.onHand <= MaxInt
  BY DEF Allowed
<1>3. CASE type = "RECEIVE"
  BY <1>1, <1>2, <1>3, MaxIntAssumption
     DEF Row, OnHandDelta, ReservedDelta, LevelsInBounds, Allowed
<1>4. CASE type = "SHIP"
  BY <1>1, <1>2, <1>4, MaxIntAssumption
     DEF Row, OnHandDelta, ReservedDelta, LevelsInBounds, Allowed
<1>5. CASE type = "ADJUST"
  BY <1>1, <1>2, <1>5, MaxIntAssumption
     DEF Row, OnHandDelta, ReservedDelta, LevelsInBounds, Allowed
<1>6. CASE type = "RESERVE"
  BY <1>1, <1>2, <1>6, MaxIntAssumption
     DEF Row, OnHandDelta, ReservedDelta, LevelsInBounds, Allowed, Available
<1>7. CASE type = "RELEASE"
  BY <1>1, <1>2, <1>7, MaxIntAssumption
     DEF Row, OnHandDelta, ReservedDelta, LevelsInBounds, Allowed
<1> QED  BY <1>3, <1>4, <1>5, <1>6, <1>7 DEF MovementType

\* Every quantity operation of the service is a Move over integer quantities.
LEMMA QuantityOperations ==
  ASSUME Next
  PROVE  \/ \E s \in SKU, r \in Reorder : Create(s, r)
         \/ \E type \in MovementType, S \in SUBSET SKU : \E lines \in [S -> Int] : Move(type, lines)
         \/ \E m \in Manager, s \in SKU : PatchRead(m, s)
         \/ \E m \in Manager, r \in Reorder : PatchWrite(m, r)
         \/ \E s \in SKU : Delete(s)
<1> DEFINE IsMove == \E type \in MovementType, S \in SUBSET SKU : \E lines \in [S -> Int] : Move(type, lines)
<1>1. ASSUME NEW s \in SKU, NEW q \in Quantity, NEW type \in MovementType, Move(type, Line(s, q))
      PROVE  IsMove
  <2>1. Line(s, q) \in [{s} -> Int] /\ {s} \in SUBSET SKU
    BY StockAssumption DEF Line
  <2> QED  BY <1>1, <2>1
<1>2. ASSUME NEW lines \in Lines, NEW type \in MovementType, Move(type, lines)
      PROVE  IsMove
  <2>1. PICK S \in SUBSET SKU : lines \in [S -> Quantity]
    BY DEF Lines
  <2>2. lines \in [S -> Int]
    BY <2>1, StockAssumption
  <2> QED  BY <1>2, <2>2
<1>3. ASSUME NEW s \in SKU, NEW q \in Quantity,
             Receive(s, q) \/ Adjust(s, q) \/ Reserve(s, q) \/ Release(s, q) \/ Ship(s, q)
      PROVE  IsMove
  BY <1>1, <1>3 DEF Receive, Adjust, Reserve, Release, Ship, MovementType
<1>4. ASSUME NEW lines \in Lines,
             ReserveBulk(lines) \/ ReleaseBulk(lines) \/ ShipBulk(lines) \/ RestockBulk(lines)
      PROVE  IsMove
  BY <1>2, <1>4 DEF ReserveBulk, ReleaseBulk, ShipBulk, RestockBulk, MovementType
<1> QED  BY <1>3, <1>4 DEF Next

-----------------------------------------------------------------------------
(***************************************************************************)
(* Type correctness.                                                       *)
(***************************************************************************)

\* A movement leaves rows and ledger entries of their types.
LEMMA MoveTypes ==
  ASSUME TypeOK, NEW type \in MovementType, NEW S \in SUBSET SKU, NEW lines \in [S -> Int],
         Move(type, lines)
  PROVE  TypeOK'
<1>1. DOMAIN lines = S
  OBVIOUS
<1>2. \A s \in S : /\ item[s] \in Row
                   /\ Apply(type, item[s], lines[s]) \in Row
  BY <1>1, ApplyRow DEF TypeOK, Move
<1>3. item' \in [SKU -> Row \cup {Absent}]
  BY <1>1, <1>2 DEF TypeOK, Move
<1>4. \A s \in S : Entry(type, lines[s], Apply(type, item[s], lines[s])) \in Movement
  <2> TAKE s \in S
  <2> DEFINE lw == Apply(type, item[s], lines[s])
  <2>1. lw.onHand \in Int /\ lw.reserved \in Int
    BY <1>2 DEF Row
  <2>2. lines[s] \in Int
    OBVIOUS
  <2> HIDE DEF lw
  <2>3. Entry(type, lines[s], lw) \in Movement
    BY <2>1, <2>2 DEF Entry, Movement
  <2> QED  BY <2>3 DEF lw
<1>5. ASSUME NEW s \in SKU
      PROVE  ledger'[s] \in Seq(Movement)
  <2>1. ledger[s] \in Seq(Movement)
    BY DEF TypeOK
  <2>2. CASE s \in S
    BY <1>1, <1>4, <2>1, <2>2, AppendProperties DEF Move
  <2>3. CASE s \notin S
    BY <1>1, <2>1, <2>3 DEF Move
  <2> QED  BY <2>2, <2>3
<1>6. ledger' \in [SKU -> Seq(Movement)]
  BY <1>5 DEF Move
<1>7. ASSUME NEW s \in SKU, item'[s] = Absent
      PROVE  ledger'[s] = << >>
  <2>1. CASE s \in S
    BY <1>1, <1>2, <1>7, <2>1, StockAssumption DEF Move, TypeOK
  <2>2. CASE s \notin S
    BY <1>1, <1>7, <2>2 DEF Move, TypeOK
  <2> QED  BY <2>1, <2>2
<1> QED  BY <1>3, <1>6, <1>7 DEF Move, TypeOK

LEMMA PatchTypes ==
  ASSUME TypeOK, NEW m \in Manager
  PROVE  /\ \A s \in SKU : PatchRead(m, s) => TypeOK'
         /\ \A r \in Reorder : PatchWrite(m, r) => TypeOK'
<1>1. ASSUME NEW s \in SKU, PatchRead(m, s)
      PROVE  TypeOK'
  <2>1. [sku |-> s, row |-> item[s]] \in [sku : SKU, row : Row]
    BY <1>1 DEF PatchRead, TypeOK
  <2> QED  BY <1>1, <2>1 DEF PatchRead, TypeOK
<1>2. ASSUME NEW r \in Reorder, PatchWrite(m, r)
      PROVE  TypeOK'
  <2>1. patch[m].sku \in SKU /\ patch[m].row \in Row
    BY <1>2 DEF PatchWrite, TypeOK
  <2>2. [patch[m].row EXCEPT !.reorder = r] \in Row
    BY <2>1 DEF Row
  <2>3. item' \in [SKU -> Row \cup {Absent}]
    BY <1>2, <2>1, <2>2 DEF PatchWrite, TypeOK
  <2>4. \A s \in SKU : item'[s] = Absent => item[s] = Absent
    BY <1>2, <2>1, <2>2, StockAssumption DEF PatchWrite, TypeOK
  <2> QED  BY <1>2, <2>3, <2>4 DEF PatchWrite, TypeOK
<1> QED  BY <1>1, <1>2

LEMMA CreateTypes ==
  ASSUME TypeOK, NEW s \in SKU, NEW r \in Reorder, Create(s, r)
  PROVE  TypeOK'
<1>1. [onHand |-> 0, reserved |-> 0, reorder |-> r] \in Row
  BY DEF Row
<1> QED  BY <1>1, StockAssumption DEF Create, TypeOK

LEMMA DeleteTypes ==
  ASSUME TypeOK, NEW s \in SKU, Delete(s)
  PROVE  TypeOK'
<1>1. << >> \in Seq(Movement)
  BY EmptySeq
<1> QED  BY <1>1 DEF Delete, TypeOK

(***************************************************************************)
(* The rows, the ledgers and the snapshots of PATCH requests always have   *)
(* their types, and a SKU without a row has no movements.                  *)
(***************************************************************************)
THEOREM TypeCorrect == Spec => []TypeOK
<1>1. Init => TypeOK
  <2>1. << >> \in Seq(Movement)
    BY EmptySeq
  <2> QED  BY <2>1 DEF Init, TypeOK
<1>2. TypeOK /\ [Next]_vars => TypeOK'
  <2> SUFFICES ASSUME TypeOK, [Next]_vars
               PROVE  TypeOK'
    OBVIOUS
  <2>1. CASE Next
    BY <2>1, QuantityOperations, MoveTypes, CreateTypes, PatchTypes, DeleteTypes
  <2>2. CASE UNCHANGED vars
    BY <2>2 DEF vars, TypeOK
  <2> QED  BY <2>1, <2>2
<1> QED  BY <1>1, <1>2, PTL DEF Spec

-----------------------------------------------------------------------------
(***************************************************************************)
(* reserved <= on_hand.  The invariant covers the snapshots that PATCH     *)
(* requests hold, without which it is not inductive: PATCH writes one back.*)
(***************************************************************************)

LEMMA StockInvariantStep ==
  ASSUME TypeOK, StockInvariant, [Next]_vars
  PROVE  StockInvariant'
<1>1. ASSUME NEW s \in SKU, NEW r \in Reorder, Create(s, r)
      PROVE  StockInvariant'
  BY <1>1, MaxIntAssumption DEF Create, StockInvariant, LevelsInBounds, TypeOK
<1>2. ASSUME NEW type \in MovementType, NEW S \in SUBSET SKU, NEW lines \in [S -> Int],
             Move(type, lines)
      PROVE  StockInvariant'
  <2>1. DOMAIN lines = S
    OBVIOUS
  <2>2. \A s \in S : LevelsInBounds(Apply(type, item[s], lines[s]))
    BY <1>2, <2>1, AllowedKeepsBounds DEF Move, TypeOK, StockInvariant
  <2>3. \A s \in SKU : item'[s] = IF s \in S THEN Apply(type, item[s], lines[s]) ELSE item[s]
    BY <1>2, <2>1 DEF Move
  <2>4. patch' = patch
    BY <1>2 DEF Move
  <2> QED  BY <2>2, <2>3, <2>4 DEF StockInvariant
<1>3. ASSUME NEW m \in Manager, NEW s \in SKU, PatchRead(m, s)
      PROVE  StockInvariant'
  BY <1>3 DEF PatchRead, StockInvariant, TypeOK
<1>4. ASSUME NEW m \in Manager, NEW r \in Reorder, PatchWrite(m, r)
      PROVE  StockInvariant'
  <2> DEFINE back == [patch[m].row EXCEPT !.reorder = r]
  <2>1. patch[m].sku \in SKU /\ patch[m].row \in Row /\ LevelsInBounds(patch[m].row)
    BY <1>4 DEF PatchWrite, TypeOK, StockInvariant
  <2>2. back.onHand = patch[m].row.onHand /\ back.reserved = patch[m].row.reserved
    BY <2>1 DEF Row
  <2>3. LevelsInBounds(back)
    BY <2>1, <2>2 DEF LevelsInBounds
  <2> HIDE DEF back
  <2>4. \A s \in SKU : item'[s] = item[s] \/ item'[s] = back
    BY <1>4 DEF PatchWrite, TypeOK, back
  <2>5. \A n \in Manager : patch'[n] = patch[n] \/ patch'[n] = Absent
    BY <1>4 DEF PatchWrite, TypeOK
  <2> QED  BY <2>3, <2>4, <2>5 DEF StockInvariant
<1>5. ASSUME NEW s \in SKU, Delete(s)
      PROVE  StockInvariant'
  BY <1>5 DEF Delete, StockInvariant, TypeOK
<1>6. CASE UNCHANGED vars
  BY <1>6 DEF vars, StockInvariant
<1> QED  BY <1>1, <1>2, <1>3, <1>4, <1>5, <1>6, QuantityOperations

(***************************************************************************)
(* 0 <= reserved <= on_hand <= MaxInt for every stored row, and for every  *)
(* row a PATCH request may still write back.                               *)
(***************************************************************************)
THEOREM ReservedNeverExceedsOnHand == Spec => []StockInvariant
<1>1. Init => StockInvariant
  BY DEF Init, StockInvariant
<1> QED  BY <1>1, TypeCorrect, StockInvariantStep, PTL DEF Spec

-----------------------------------------------------------------------------
(***************************************************************************)
(* The ledger.                                                             *)
(***************************************************************************)

Pair == [onHand : Int, reserved : Int]

\* A movement does to a row what it does to the bare pair of quantities.
LEMMA ApplyLevels ==
  ASSUME NEW type \in MovementType, NEW lv \in Row, NEW q \in Int
  PROVE  Levels(Apply(type, lv, q)) = Apply(type, Levels(lv), q)
<1> DEFINE a == OnHandDelta(type, q)
           b == ReservedDelta(type, q)
           w == Levels(lv)
<1>1. a \in Int /\ b \in Int
  BY ApplyRow
<1>2. w \in Pair /\ w.onHand = lv.onHand /\ w.reserved = lv.reserved
  BY DEF Row, Pair, Levels
<1> HIDE DEF w
<1>3. \A x, y \in Int : LET v == [w EXCEPT !.onHand = x, !.reserved = y]
                        IN  v \in Pair /\ v.onHand = x /\ v.reserved = y
  BY <1>2 DEF Pair
<1>4. w.onHand + a \in Int /\ w.reserved + b \in Int
  BY <1>1, <1>2 DEF Pair
<1>5. /\ Apply(type, w, q) \in Pair
      /\ Apply(type, w, q).onHand = w.onHand + a
      /\ Apply(type, w, q).reserved = w.reserved + b
  BY <1>3, <1>4 DEF Apply
<1>6. /\ Levels(Apply(type, lv, q)) \in Pair
      /\ Levels(Apply(type, lv, q)).onHand = lv.onHand + a
      /\ Levels(Apply(type, lv, q)).reserved = lv.reserved + b
  BY ApplyRow DEF Levels, Pair, Row
<1>7. \A v1, v2 \in Pair : v1.onHand = v2.onHand /\ v1.reserved = v2.reserved => v1 = v2
  BY DEF Pair
<1> QED  BY <1>2, <1>5, <1>6, <1>7 DEF w

\* The ledger of s gains one entry, which records the new row.
OneEntry(type, q, s) ==
  /\ Len(ledger[s]) \in Nat /\ item[s] \in Row /\ q \in Int
  /\ item'[s] = Apply(type, item[s], q)
  /\ Len(ledger'[s]) = Len(ledger[s]) + 1
  /\ \A i \in 0 .. Len(ledger[s]) : After(ledger'[s], i) = After(ledger[s], i)
  /\ \A i \in 1 .. Len(ledger[s]) : ledger'[s][i] = ledger[s][i]
  /\ ledger'[s][Len(ledger[s]) + 1].type = type
  /\ ledger'[s][Len(ledger[s]) + 1].quantity = q
  /\ After(ledger'[s], Len(ledger[s]) + 1) = Levels(item'[s])

LEMMA MoveRecords ==
  ASSUME TypeOK, NEW type \in MovementType, NEW S \in SUBSET SKU, NEW lines \in [S -> Int],
         Move(type, lines), NEW s \in S
  PROVE  OneEntry(type, lines[s], s)
<1> DEFINE L == ledger[s]
           n == Len(L)
           row == Apply(type, item[s], lines[s])
           e == Entry(type, lines[s], row)
<1>1. /\ L \in Seq(Movement) /\ n \in Nat
      /\ item[s] \in Row /\ lines[s] \in Int
      /\ item'[s] = row
      /\ ledger'[s] = Append(L, e)
  BY LenProperties DEF Move, TypeOK
<1>2. /\ e.type = type /\ e.quantity = lines[s]
      /\ e.onHandAfter = row.onHand /\ e.reservedAfter = row.reserved
  BY DEF Entry
<1> HIDE DEF L, e, row
<1>3. \A S1 : \A L1 \in Seq(S1) : \A e1 :
        /\ Len(Append(L1, e1)) = Len(L1) + 1
        /\ \A i \in 1 .. Len(L1) : Append(L1, e1)[i] = L1[i]
        /\ Append(L1, e1)[Len(L1) + 1] = e1
  OBVIOUS
<1>4. /\ Len(ledger'[s]) = n + 1
      /\ \A i \in 1 .. n : ledger'[s][i] = L[i]
      /\ ledger'[s][n + 1] = e
  BY <1>1, <1>3
<1>5. \A i \in 0 .. n : After(ledger'[s], i) = After(L, i)
  BY <1>1, <1>4 DEF After
<1>6. After(ledger'[s], n + 1) = Levels(row)
  BY <1>1, <1>2, <1>4 DEF After, Levels
<1> QED  BY <1>1, <1>2, <1>4, <1>5, <1>6 DEF L, row, OneEntry

\* One SKU's share of LedgerExplainsLevels.
Explained(L, row) ==
  /\ \A i \in 1 .. Len(L) : After(L, i) = Apply(L[i].type, After(L, i - 1), L[i].quantity)
  /\ row # Absent => Levels(row) = After(L, Len(L))

LEMMA LedgerStep ==
  ASSUME TypeOK, LedgerExplainsLevels, Manager = {}, [Next]_vars
  PROVE  LedgerExplainsLevels'
<1>0. \A s \in SKU : Explained(ledger[s], item[s])
  BY DEF LedgerExplainsLevels, Explained
<1> SUFFICES ASSUME NEW s \in SKU
             PROVE  Explained(ledger'[s], item'[s])
  BY DEF LedgerExplainsLevels, Explained
<1>1. ASSUME NEW t \in SKU, NEW r \in Reorder, Create(t, r)
      PROVE  Explained(ledger'[s], item'[s])
  <2>1. CASE t = s
    <3>1. /\ ledger'[s] = << >>
          /\ item'[s] = [onHand |-> 0, reserved |-> 0, reorder |-> r]
      BY <1>1, <2>1 DEF Create, TypeOK
    <3> QED  BY <3>1 DEF Explained, After, Levels
  <2>2. CASE t # s
    BY <1>0, <1>1, <2>2 DEF Create, TypeOK
  <2> QED  BY <2>1, <2>2
<1>2. ASSUME NEW type \in MovementType, NEW S \in SUBSET SKU, NEW lines \in [S -> Int],
             Move(type, lines)
      PROVE  Explained(ledger'[s], item'[s])
  <2>1. CASE s \in S
    <3> DEFINE L == ledger[s]
               M == ledger'[s]
               n == Len(L)
               q == lines[s]
    <3>1. /\ n \in Nat /\ item[s] \in Row /\ q \in Int
          /\ item'[s] = Apply(type, item[s], q)
          /\ Len(M) = n + 1
          /\ \A i \in 0 .. n : After(M, i) = After(L, i)
          /\ \A i \in 1 .. n : M[i] = L[i]
          /\ M[n + 1].type = type /\ M[n + 1].quantity = q
          /\ After(M, n + 1) = Levels(item'[s])
      <4>1. OneEntry(type, q, s)
        BY <1>2, <2>1, MoveRecords
      <4> QED  BY <4>1 DEF OneEntry
    <3>2. Levels(item[s]) = After(L, n)
      BY <1>0, <3>1, StockAssumption DEF Explained
    <3>3. After(M, n + 1) = Apply(type, After(M, n), q)
      BY <3>1, <3>2, ApplyLevels
    <3>4. ASSUME NEW i \in 1 .. n
          PROVE  After(M, i) = Apply(M[i].type, After(M, i - 1), M[i].quantity)
      <4>1. After(L, i) = Apply(L[i].type, After(L, i - 1), L[i].quantity)
        BY <1>0, <3>1 DEF Explained
      <4>2. i - 1 \in 0 .. n /\ i \in 0 .. n
        BY <3>1
      <4> QED  BY <3>1, <4>1, <4>2
    <3> HIDE DEF L, M, n, q
    <3>5. \A i \in 1 .. Len(M) : i \in 1 .. n \/ (i = n + 1 /\ i - 1 = n)
      BY <3>1
    <3> QED  BY <3>1, <3>3, <3>4, <3>5 DEF Explained, M
  <2>2. CASE s \notin S
    BY <1>0, <1>2, <2>2 DEF Move, TypeOK
  <2> QED  BY <2>1, <2>2
<1>3. ASSUME NEW t \in SKU, Delete(t)
      PROVE  Explained(ledger'[s], item'[s])
  <2>1. CASE t = s
    <3>1. ledger'[s] = << >> /\ item'[s] = Absent
      BY <1>3, <2>1 DEF Delete, TypeOK
    <3> QED  BY <3>1 DEF Explained
  <2>2. CASE t # s
    BY <1>0, <1>3, <2>2 DEF Delete, TypeOK
  <2> QED  BY <2>1, <2>2
<1>4. CASE UNCHANGED vars
  BY <1>0, <1>4 DEF vars
<1> QED  BY <1>1, <1>2, <1>3, <1>4, QuantityOperations

(***************************************************************************)
(* When no PATCH request is served, every row's quantities are what its    *)
(* movements, applied in order to an empty row, lead to.                   *)
(***************************************************************************)
THEOREM LedgerIsComplete == ASSUME Manager = {} PROVE Spec => []LedgerExplainsLevels
<1>1. Init => LedgerExplainsLevels
  BY DEF Init, LedgerExplainsLevels
<1>2. TypeOK /\ LedgerExplainsLevels /\ [Next]_vars => LedgerExplainsLevels'
  BY LedgerStep
<1> QED  BY <1>1, <1>2, TypeCorrect, PTL DEF Spec

(***************************************************************************)
(* The only quantity change the ledger misses is a PATCH writing back the  *)
(* quantities it read.                                                     *)
(***************************************************************************)
THEOREM OnlyPatchSkipsTheLedger == Spec => OnlyStalePatchSkipsLedger
<1> DEFINE Step == \A s \in SKU : QuantityChange(s) => Recorded(s) \/ PatchOverwrites(s)
<1>1. ASSUME TypeOK, [Next]_vars
      PROVE  Step
  <2> SUFFICES ASSUME TypeOK, [Next]_vars, NEW s \in SKU, QuantityChange(s)
               PROVE  Recorded(s) \/ PatchOverwrites(s)
    BY <1>1
  <2>1. ASSUME NEW t \in SKU, NEW r \in Reorder, Create(t, r)
        PROVE  FALSE
    BY <2>1 DEF Create, QuantityChange, TypeOK
  <2>2. ASSUME NEW type \in MovementType, NEW S \in SUBSET SKU, NEW lines \in [S -> Int],
               Move(type, lines)
        PROVE  Recorded(s)
    <3>1. s \in S
      BY <2>2 DEF Move, QuantityChange, TypeOK
    <3>2. OneEntry(type, lines[s], s)
      BY <2>2, <3>1, MoveRecords
    <3> QED  BY <3>2 DEF OneEntry, Recorded
  <2>3. ASSUME NEW m \in Manager, NEW t \in SKU, PatchRead(m, t)
        PROVE  FALSE
    BY <2>3 DEF PatchRead, QuantityChange
  <2>4. ASSUME NEW m \in Manager, NEW r \in Reorder, PatchWrite(m, r)
        PROVE  PatchOverwrites(s)
    <3> DEFINE back == [patch[m].row EXCEPT !.reorder = r]
    <3>1. patch[m].sku \in SKU /\ patch[m].row \in Row /\ patch[m] # Absent
      BY <2>4 DEF PatchWrite, TypeOK
    <3>2. Levels(back) = Levels(patch[m].row)
      BY <3>1 DEF Row, Levels
    <3> HIDE DEF back
    <3>3. s = patch[m].sku /\ item'[s] = back
      BY <2>4, <3>1 DEF PatchWrite, QuantityChange, TypeOK, back
    <3>4. patch'[m] = Absent /\ ledger'[s] = ledger[s]
      BY <2>4 DEF PatchWrite, TypeOK
    <3> QED  BY <3>1, <3>2, <3>3, <3>4 DEF PatchOverwrites
  <2>5. ASSUME NEW t \in SKU, Delete(t)
        PROVE  FALSE
    BY <2>5 DEF Delete, QuantityChange, TypeOK
  <2>6. CASE UNCHANGED vars
    BY <2>6 DEF vars, QuantityChange
  <2> QED  BY <2>1, <2>2, <2>3, <2>4, <2>5, <2>6, QuantityOperations
<1>2. TypeOK /\ [Next]_vars => [Step]_vars
  BY <1>1
<1> QED  BY <1>2, TypeCorrect, PTL DEF Spec, OnlyStalePatchSkipsLedger
=============================================================================
