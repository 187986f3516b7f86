------------------------- MODULE StockLocks_proofs -------------------------
(***************************************************************************)
(* The row locks of inventory-service, for any number of SKUs, movements   *)
(* and quantities: a movement of several lines is one atomic step of       *)
(* Stock, and a deadlock needs two spellings of one SKU.                   *)
(***************************************************************************)
EXTENDS StockLocks, WellFoundedInduction, SequenceTheorems, FiniteSetTheorems, TLAPS

\* A nonempty set of numbers has a least element.
LEMMA LeastNumber ==
  ASSUME NEW S, S \subseteq Nat, S # {}
  PROVE  \E m \in S : \A n \in S : m <= n
<1> DEFINE R == {p \in Nat \X Nat : p[1] < p[2]}
<1>1. IsWellFoundedOn(R, Nat)
  BY NatLessThanWellFounded DEF OpToRel
<1>2. PICK m \in S : \A n \in S : <<n, m>> \notin R
  BY <1>1, WFMin
<1>3. ASSUME NEW n \in S
      PROVE  m <= n
  <2>1. <<n, m>> \notin R
    BY <1>2
  <2>2. n \in Nat /\ m \in Nat
    OBVIOUS
  <2>3. ~(n < m)
    BY <2>1, <2>2
  <2> QED  BY <2>2, <2>3
<1> QED  BY <1>3

-----------------------------------------------------------------------------
(***************************************************************************)
(* The inductive invariant.                                                *)
(***************************************************************************)
TxRequest == [type : Types, lines : SpelledLines, todo : Seq(Spelling)]

LocksShape ==
  /\ item = [s \in SKU |-> item[s]]
  /\ ledger = [s \in SKU |-> ledger[s]]
  /\ lock \in [SKU -> Tx \cup {NoTx}]
  /\ tx \in [Tx -> TxRequest \cup {Absent}]
  /\ DOMAIN work = Tx

\* A movement has locked what it has written, and one that is over has locked nothing.
LocksHeld ==
  \A t \in Tx : /\ DOMAIN work[t] = {s \in SKU : lock[s] = t}
                /\ tx[t] = Absent => DOMAIN work[t] = {}

\* The lines to come are lines of the request, in lock order.
LinesToCome ==
  \A t \in Tx : tx[t] # Absent =>
    /\ Endpoint(tx[t].type, tx[t].lines)
    /\ InLockOrder(tx[t].todo)
    /\ \A i \in DOMAIN tx[t].todo : tx[t].todo[i] \in DOMAIN tx[t].lines

\* What t has written for the row s is the line a, applied to the committed row.
WrittenAs(t, s, a) ==
  LET row == Apply(tx[t].type, item[s], tx[t].lines[a])
  IN  /\ item[s] # Absent
      /\ Allowed(tx[t].type, item[s], tx[t].lines[a])
      /\ Len(ledger[s]) < MaxMoves
      /\ work[t][s].row = row
      /\ work[t][s].moves = Append(ledger[s],
           [type |-> tx[t].type, quantity |-> tx[t].lines[a],
            onHandAfter |-> row.onHand, reservedAfter |-> row.reserved])

\* The versions a movement has written are current, and their lines precede those to come.
VersionsCurrent ==
  \A t \in Tx : \A s \in DOMAIN work[t] :
    \E a \in DOMAIN tx[t].lines :
      /\ a.sku = s
      /\ WrittenAs(t, s, a)
      /\ \A i \in DOMAIN tx[t].todo : Precedes(a, tx[t].todo[i])

LocksInv == LocksShape /\ LocksHeld /\ LinesToCome /\ VersionsCurrent

-----------------------------------------------------------------------------
(***************************************************************************)
(* Requests and their lines.                                               *)
(***************************************************************************)

\* The lines of a request spell different SKUs and name quantities.
LEMMA SpelledLinesFacts ==
  ASSUME NEW lines \in SpelledLines
  PROVE  /\ DOMAIN lines \subseteq Spelling
         /\ DOMAIN lines # {}
         /\ \A a, b \in DOMAIN lines : a.sku = b.sku => a = b
         /\ \A a \in DOMAIN lines : lines[a] \in Quantity /\ a.sku \in SKU
<1>1. PICK S \in (SUBSET Spelling) \ {{}} :
        lines \in [S -> Quantity] /\ \A a, b \in S : a.sku = b.sku => a = b
  BY DEF SpelledLines
<1> QED  BY <1>1 DEF Spelling

\* A lock order of the lines is a sequence of them.
LEMMA LockOrdersFacts ==
  ASSUME NEW S \in SUBSET Spelling, \A a, b \in S : a.sku = b.sku => a = b,
         NEW order \in LockOrders(S)
  PROVE  /\ order \in Seq(Spelling)
         /\ InLockOrder(order)
         /\ \A i \in DOMAIN order : order[i] \in S
<1>1. order \in [1 .. Cardinality(S) -> S] /\ InLockOrder(order)
  BY DEF LockOrders, SetToSeqs
<1>2. IsFiniteSet(S)
  <2> DEFINE skuOf == [a \in S |-> a.sku]
  <2>1. skuOf \in Injection(S, SKU)
    BY DEF Injection, IsInjective, Spelling
  <2> QED  BY <2>1, FS_Injection, StockLocksAssumption
<1>3. Cardinality(S) \in Nat
  BY <1>2, FS_CardinalityType
<1> QED  BY <1>1, <1>3
\* The line that a movement comes to, and what is left of the lines after it.
LEMMA NextLineFacts ==
  ASSUME NEW todo \in Seq(Spelling), todo # << >>, InLockOrder(todo)
  PROVE  /\ Head(todo) = todo[1] /\ 1 \in DOMAIN todo
         /\ Head(todo) \in Spelling
         /\ Tail(todo) \in Seq(Spelling)
         /\ InLockOrder(Tail(todo))
         /\ \A i \in DOMAIN Tail(todo) :
              /\ i + 1 \in DOMAIN todo /\ Tail(todo)[i] = todo[i + 1]
              /\ Precedes(Head(todo), Tail(todo)[i])
<1>1. /\ Head(todo) = todo[1] /\ Len(todo) \in Nat /\ Len(todo) # 0
      /\ DOMAIN todo = 1 .. Len(todo)
      /\ Tail(todo) \in Seq(Spelling)
      /\ Len(Tail(todo)) = Len(todo) - 1
      /\ DOMAIN Tail(todo) = 1 .. Len(Tail(todo))
      /\ \A i \in 1 .. Len(Tail(todo)) : Tail(todo)[i] = todo[i + 1]
  BY HeadTailProperties, LenProperties, EmptySeq
<1>2. \A i \in DOMAIN Tail(todo) :
        i \in Nat /\ i + 1 \in DOMAIN todo /\ Tail(todo)[i] = todo[i + 1] /\ 1 < i + 1
  BY <1>1
<1>3. 1 \in DOMAIN todo
  BY <1>1
<1>4. \A i \in DOMAIN Tail(todo) : Precedes(Head(todo), Tail(todo)[i])
  BY <1>1, <1>2, <1>3 DEF InLockOrder
<1>5. ASSUME NEW i \in DOMAIN Tail(todo), NEW j \in DOMAIN Tail(todo), i < j
      PROVE  Precedes(Tail(todo)[i], Tail(todo)[j])
  <2>1. i + 1 < j + 1
    BY <1>2, <1>5
  <2> QED  BY <1>2, <2>1 DEF InLockOrder
<1>6. InLockOrder(Tail(todo))
  BY <1>5 DEF InLockOrder
<1> QED  BY <1>1, <1>2, <1>3, <1>4, <1>6

-----------------------------------------------------------------------------
(***************************************************************************)
(* Every step keeps the invariant.                                         *)
(***************************************************************************)
LEMMA InitLocksInv ==
  LocksInit => LocksInv
<1> SUFFICES ASSUME LocksInit PROVE LocksInv
  OBVIOUS
<1>1. LocksShape
  BY DEF LocksInit, LocksShape
<1>2. \A t \in Tx : tx[t] = Absent /\ work[t] = << >>
  BY DEF LocksInit
<1>3. DOMAIN << >> = {}
  BY EmptySeq
<1>4. \A t \in Tx : {s \in SKU : lock[s] = t} = {}
  BY StockLocksAssumption DEF LocksInit
<1>5. LocksHeld
  BY <1>2, <1>3, <1>4 DEF LocksHeld
<1>6. LinesToCome
  BY <1>2 DEF LinesToCome
<1>7. VersionsCurrent
  BY <1>2, <1>3 DEF VersionsCurrent
<1> QED  BY <1>1, <1>5, <1>6, <1>7 DEF LocksInv

\* A request is not the mark of its absence.
LEMMA RequestIsPresent ==
  \A r \in TxRequest : r # Absent
<1>1. TxRequest \subseteq [type : MovementType, lines : SpelledLines, todo : Seq(Spelling)]
  BY StockLocksAssumption DEF TxRequest
<1> QED  BY <1>1, StockLocksAssumption

LEMMA BeginKeeps ==
  ASSUME LocksInv, NEW t \in Tx, NEW type \in Types, NEW merged \in SpelledLines,
         Begin(t, type, merged)
  PROVE  LocksInv'
<1>1. PICK order \in LockOrders(DOMAIN merged) :
        tx' = [tx EXCEPT ![t] = [type |-> type, lines |-> merged, todo |-> order]]
  BY DEF Begin
<1> DEFINE req == [type |-> type, lines |-> merged, todo |-> order]
<1>2. /\ order \in Seq(Spelling) /\ InLockOrder(order)
      /\ \A i \in DOMAIN order : order[i] \in DOMAIN merged
  BY SpelledLinesFacts, LockOrdersFacts
<1>3. req \in TxRequest
  BY <1>2 DEF TxRequest
<1>4. /\ tx[t] = Absent /\ Endpoint(type, merged)
      /\ UNCHANGED <<item, ledger, lock, work>>
  BY DEF Begin
<1>5. tx' \in [Tx -> TxRequest \cup {Absent}] /\ tx'[t] = req /\ \A u \in Tx \ {t} : tx'[u] = tx[u]
  BY <1>1, <1>3 DEF LocksInv, LocksShape
<1>6. DOMAIN work[t] = {}
  BY <1>4 DEF LocksInv, LocksHeld
<1>7. LocksShape'
  BY <1>4, <1>5 DEF LocksInv, LocksShape
<1>8. LocksHeld'
  BY <1>4, <1>5, <1>6 DEF LocksInv, LocksHeld
<1>9. LinesToCome'
  <2> SUFFICES ASSUME NEW u \in Tx, tx'[u] # Absent
               PROVE  /\ Endpoint(tx'[u].type, tx'[u].lines)
                      /\ InLockOrder(tx'[u].todo)
                      /\ \A i \in DOMAIN tx'[u].todo : tx'[u].todo[i] \in DOMAIN tx'[u].lines
    BY DEF LinesToCome
  <2>1. CASE u = t
    BY <1>2, <1>4, <1>5, <2>1
  <2>2. CASE u # t
    BY <1>5, <2>2 DEF LocksInv, LinesToCome
  <2> QED  BY <2>1, <2>2
<1>10. VersionsCurrent'
  <2> SUFFICES ASSUME NEW u \in Tx, NEW r \in DOMAIN work'[u]
               PROVE  \E b \in DOMAIN tx'[u].lines :
                        /\ b.sku = r
                        /\ WrittenAs(u, r, b)'
                        /\ \A i \in DOMAIN tx'[u].todo : Precedes(b, tx'[u].todo[i])
    BY DEF VersionsCurrent
  <2>1. u # t /\ r \in DOMAIN work[u]
    BY <1>4, <1>6
  <2>2. PICK b \in DOMAIN tx[u].lines :
          /\ b.sku = r
          /\ WrittenAs(u, r, b)
          /\ \A i \in DOMAIN tx[u].todo : Precedes(b, tx[u].todo[i])
    BY <2>1 DEF LocksInv, VersionsCurrent
  <2>3. WrittenAs(u, r, b)'
    BY <1>4, <1>5, <2>1, <2>2 DEF WrittenAs
  <2> QED  BY <1>5, <2>1, <2>2, <2>3
<1> QED  BY <1>7, <1>8, <1>9, <1>10 DEF LocksInv

LEMMA LockLineKeeps ==
  ASSUME LocksInv, NEW t \in Tx, LockLine(t)
  PROVE  LocksInv'
<1> DEFINE req == [tx[t] EXCEPT !.todo = Tail(@)]
<1>1. tx[t] \in TxRequest /\ tx[t].todo # << >>
  BY DEF LockLine, MoreLines, LocksInv, LocksShape
<1>2. /\ tx[t].todo \in Seq(Spelling) /\ tx[t].lines \in SpelledLines /\ tx[t].type \in Types
      /\ InLockOrder(tx[t].todo)
      /\ \A i \in DOMAIN tx[t].todo : tx[t].todo[i] \in DOMAIN tx[t].lines
  BY <1>1, RequestIsPresent DEF TxRequest, LocksInv, LinesToCome
<1> PICK s, a, ver : s = NextRow(t) /\ a = Head(tx[t].todo) /\ ver = Version(t)
  OBVIOUS
<1>3. /\ a \in DOMAIN tx[t].lines /\ a.sku = s /\ s \in SKU
      /\ Tail(tx[t].todo) \in Seq(Spelling)
      /\ InLockOrder(Tail(tx[t].todo))
      /\ \A i \in DOMAIN Tail(tx[t].todo) :
           /\ Tail(tx[t].todo)[i] \in DOMAIN tx[t].lines
           /\ Precedes(a, Tail(tx[t].todo)[i])
      /\ \A b \in Spelling : (\A i \in DOMAIN tx[t].todo : Precedes(b, tx[t].todo[i]))
             => \A i \in DOMAIN Tail(tx[t].todo) : Precedes(b, Tail(tx[t].todo)[i])
  <2>1. PICK todo \in Seq(Spelling) : todo = tx[t].todo
    BY <1>2
  <2>2. todo # << >> /\ InLockOrder(todo)
    BY <1>1, <1>2, <2>1
  <2>3. /\ Head(todo) = todo[1] /\ 1 \in DOMAIN todo
        /\ Head(todo) \in Spelling
        /\ Tail(todo) \in Seq(Spelling)
        /\ InLockOrder(Tail(todo))
        /\ \A i \in DOMAIN Tail(todo) :
             /\ i + 1 \in DOMAIN todo /\ Tail(todo)[i] = todo[i + 1]
             /\ Precedes(Head(todo), Tail(todo)[i])
    BY <2>2, NextLineFacts
  <2>4. s = Head(todo).sku /\ a = Head(todo) /\ s \in SKU
    BY <2>1, <2>3 DEF NextRow, Spelling
  <2>5. \A i \in DOMAIN todo : todo[i] \in DOMAIN tx[t].lines
    BY <1>2, <2>1
  <2>6. a \in DOMAIN tx[t].lines
        /\ \A i \in DOMAIN Tail(todo) :
             Tail(todo)[i] \in DOMAIN tx[t].lines /\ Precedes(a, Tail(todo)[i])
    BY <2>3, <2>4, <2>5
  <2>7. \A b \in Spelling : (\A i \in DOMAIN todo : Precedes(b, todo[i]))
             => \A i \in DOMAIN Tail(todo) : Precedes(b, Tail(todo)[i])
    BY <2>3
  <2> QED  BY <2>1, <2>3, <2>4, <2>6, <2>7
<1>4. /\ req \in TxRequest
      /\ req.type = tx[t].type /\ req.lines = tx[t].lines /\ req.todo = Tail(tx[t].todo)
  BY <1>1, <1>3 DEF TxRequest
<1>5. /\ tx' \in [Tx -> TxRequest \cup {Absent}]
      /\ tx'[t] = req /\ \A u \in Tx \ {t} : tx'[u] = tx[u]
  BY <1>4 DEF LockLine, LocksInv, LocksShape
<1>6. /\ lock[s] = NoTx
      /\ lock' \in [SKU -> Tx \cup {NoTx}]
      /\ lock'[s] = t /\ \A r \in SKU \ {s} : lock'[r] = lock[r]
  BY <1>3 DEF LockLine, LocksInv, LocksShape
<1>7. /\ DOMAIN work' = Tx
      /\ work'[t] = [r \in DOMAIN work[t] \cup {s} |-> IF r = s THEN ver ELSE work[t][r]]
      /\ \A u \in Tx \ {t} : work'[u] = work[u]
  BY DEF LockLine, LocksInv, LocksShape, Versions
<1>8. s \notin DOMAIN work[t]
  BY <1>6, StockLocksAssumption DEF LocksInv, LocksHeld
<1>9. /\ DOMAIN work'[t] = DOMAIN work[t] \cup {s}
      /\ work'[t][s] = ver
      /\ \A r \in DOMAIN work[t] : work'[t][r] = work[t][r]
  BY <1>7, <1>8
<1>10. UNCHANGED <<item, ledger>>
  BY DEF LockLine
<1> HIDE DEF req
<1>11. LocksShape'
  BY <1>5, <1>6, <1>7, <1>10 DEF LocksInv, LocksShape
<1>12. LocksHeld'
  <2> SUFFICES ASSUME NEW u \in Tx
               PROVE  /\ DOMAIN work'[u] = {r \in SKU : lock'[r] = u}
                      /\ tx'[u] = Absent => DOMAIN work'[u] = {}
    BY DEF LocksHeld
  <2>1. DOMAIN work[u] = {r \in SKU : lock[r] = u} /\ (tx[u] = Absent => DOMAIN work[u] = {})
    BY DEF LocksInv, LocksHeld
  <2>2. CASE u = t
    BY <1>3, <1>4, <1>5, <1>6, <1>9, <2>1, <2>2, RequestIsPresent
  <2>3. CASE u # t
    <3>1. \A r \in SKU : lock'[r] = u <=> lock[r] = u
      BY <1>6, <2>3, StockLocksAssumption
    <3> QED  BY <1>5, <1>7, <2>1, <2>3, <3>1
  <2> QED  BY <2>2, <2>3
<1>13. LinesToCome'
  <2> SUFFICES ASSUME NEW u \in Tx, tx'[u] # Absent
               PROVE  /\ Endpoint(tx'[u].type, tx'[u].lines)
                      /\ InLockOrder(tx'[u].todo)
                      /\ \A i \in DOMAIN tx'[u].todo : tx'[u].todo[i] \in DOMAIN tx'[u].lines
    BY DEF LinesToCome
  <2>1. CASE u = t
    BY <1>1, <1>3, <1>4, <1>5, <2>1, RequestIsPresent DEF LocksInv, LinesToCome
  <2>2. CASE u # t
    BY <1>5, <2>2 DEF LocksInv, LinesToCome
  <2> QED  BY <2>1, <2>2
<1>14. VersionsCurrent'
  <2> SUFFICES ASSUME NEW u \in Tx, NEW r \in DOMAIN work'[u]
               PROVE  \E b \in DOMAIN tx'[u].lines :
                        /\ b.sku = r
                        /\ WrittenAs(u, r, b)'
                        /\ \A i \in DOMAIN tx'[u].todo : Precedes(b, tx'[u].todo[i])
    BY DEF VersionsCurrent
  <2>1. CASE u # t
    <3>1. r \in DOMAIN work[u]
      BY <1>7, <2>1
    <3>2. PICK b \in DOMAIN tx[u].lines :
            /\ b.sku = r
            /\ WrittenAs(u, r, b)
            /\ \A i \in DOMAIN tx[u].todo : Precedes(b, tx[u].todo[i])
      BY <3>1 DEF LocksInv, VersionsCurrent
    <3>3. WrittenAs(u, r, b)'
      BY <1>5, <1>7, <1>10, <2>1, <3>2 DEF WrittenAs
    <3> QED  BY <1>5, <2>1, <3>2, <3>3
  <2>2. CASE u = t /\ r = s
    <3>1. PICK q, row : q = tx[t].lines[a] /\ row = Apply(tx[t].type, item[s], q)
      OBVIOUS
    <3>2. /\ item[s] # Absent /\ Allowed(tx[t].type, item[s], q) /\ Len(ledger[s]) < MaxMoves
          /\ ver = [row |-> row,
                     moves |-> Append(ledger[s],
                       [type |-> tx[t].type, quantity |-> q,
                        onHandAfter |-> row.onHand, reservedAfter |-> row.reserved])]
      BY <3>1 DEF LockLine, Applicable, Version, NextRow, NextQuantity
    <3>3. /\ work'[t][s] = ver /\ item'[s] = item[s] /\ ledger'[s] = ledger[s]
          /\ tx'[t].type = tx[t].type /\ tx'[t].lines[a] = q
          /\ Apply(tx'[t].type, item'[s], tx'[t].lines[a]) = row
      BY <1>4, <1>5, <1>9, <1>10, <3>1
    <3>4. ver.row = row /\ ver.moves = Append(ledger[s],
            [type |-> tx[t].type, quantity |-> q,
             onHandAfter |-> row.onHand, reservedAfter |-> row.reserved])
      BY <3>2
    <3>5. WrittenAs(t, s, a)'
      BY <3>2, <3>3, <3>4 DEF WrittenAs
    <3> QED  BY <1>3, <1>4, <1>5, <2>2, <3>5
  <2>3. CASE u = t /\ r # s
    <3>1. r \in DOMAIN work[t]
      BY <1>9, <2>3
    <3>2. PICK b \in DOMAIN tx[t].lines :
            /\ b.sku = r
            /\ WrittenAs(t, r, b)
            /\ \A i \in DOMAIN tx[t].todo : Precedes(b, tx[t].todo[i])
      BY <3>1 DEF LocksInv, VersionsCurrent
    <3>3. WrittenAs(t, r, b)'
      BY <1>4, <1>5, <1>9, <1>10, <3>1, <3>2 DEF WrittenAs
    <3>4. b \in Spelling
      BY <1>2, SpelledLinesFacts
    <3> QED  BY <1>3, <1>4, <1>5, <2>3, <3>2, <3>3, <3>4
  <2> QED  BY <2>1, <2>2, <2>3
<1> QED  BY <1>11, <1>12, <1>13, <1>14 DEF LocksInv

\* A movement that is over releases its rows; the rows of the others are as they were.
LEMMA EndKeeps ==
  ASSUME LocksInv, NEW t \in Tx, End(t), item' = [r \in SKU |-> item'[r]], ledger' = [r \in SKU |-> ledger'[r]],
         \A s \in SKU \ DOMAIN work[t] : item'[s] = item[s] /\ ledger'[s] = ledger[s]
  PROVE  LocksInv'
<1>0. \A u \in Tx : u # NoTx
  BY StockLocksAssumption
<1>1. /\ tx' \in [Tx -> TxRequest \cup {Absent}]
      /\ tx'[t] = Absent /\ \A u \in Tx \ {t} : tx'[u] = tx[u]
  BY DEF End, LocksInv, LocksShape
<1>2. /\ lock' \in [SKU -> Tx \cup {NoTx}]
      /\ \A s \in SKU : lock'[s] = IF lock[s] = t THEN NoTx ELSE lock[s]
  BY DEF End, LocksInv, LocksShape
<1>3. /\ DOMAIN work' = Tx
      /\ work'[t] = << >> /\ \A u \in Tx \ {t} : work'[u] = work[u]
  BY DEF End, LocksInv, LocksShape
<1>4. LocksShape'
  BY <1>1, <1>2, <1>3 DEF LocksShape
<1>5. LocksHeld'
  <2> SUFFICES ASSUME NEW u \in Tx
               PROVE  /\ DOMAIN work'[u] = {r \in SKU : lock'[r] = u}
                      /\ tx'[u] = Absent => DOMAIN work'[u] = {}
    BY DEF LocksHeld
  <2>1. DOMAIN work[u] = {r \in SKU : lock[r] = u} /\ (tx[u] = Absent => DOMAIN work[u] = {})
    BY DEF LocksInv, LocksHeld
  <2>2. CASE u = t
    <3>1. DOMAIN work'[t] = {}
      BY <1>3, EmptySeq
    <3>2. \A r \in SKU : lock'[r] # t
      BY <1>0, <1>2
    <3> QED  BY <2>2, <3>1, <3>2
  <2>3. CASE u # t
    <3>1. \A r \in SKU : lock'[r] = u <=> lock[r] = u
      BY <1>0, <1>2, <2>3
    <3> QED  BY <1>1, <1>3, <2>1, <2>3, <3>1
  <2> QED  BY <2>2, <2>3
<1>6. LinesToCome'
  BY <1>1 DEF LocksInv, LinesToCome
<1>7. VersionsCurrent'
  <2> SUFFICES ASSUME NEW u \in Tx, NEW r \in DOMAIN work'[u]
               PROVE  \E b \in DOMAIN tx'[u].lines :
                        /\ b.sku = r
                        /\ WrittenAs(u, r, b)'
                        /\ \A i \in DOMAIN tx'[u].todo : Precedes(b, tx'[u].todo[i])
    BY DEF VersionsCurrent
  <2>1. u # t /\ r \in DOMAIN work[u]
    BY <1>3, EmptySeq
  <2>2. PICK b \in DOMAIN tx[u].lines :
          /\ b.sku = r
          /\ WrittenAs(u, r, b)
          /\ \A i \in DOMAIN tx[u].todo : Precedes(b, tx[u].todo[i])
    BY <2>1 DEF LocksInv, VersionsCurrent
  <2>3. r \in SKU \ DOMAIN work[t]
    BY <2>1 DEF LocksInv, LocksHeld
  <2>4. item'[r] = item[r] /\ ledger'[r] = ledger[r]
    BY <2>3
  <2>5. WrittenAs(u, r, b)'
    BY <1>1, <1>3, <2>1, <2>2, <2>4 DEF WrittenAs
  <2> QED  BY <1>1, <2>1, <2>2, <2>5
<1> QED  BY <1>4, <1>5, <1>6, <1>7 DEF LocksInv

\* Rows come and go only where nobody has locked them.
LEMMA RowsComeAndGo ==
  ASSUME LocksInv, NEW s \in SKU, item[s] = Absent \/ lock[s] = NoTx,
         item' = [r \in SKU |-> item'[r]], ledger' = [r \in SKU |-> ledger'[r]], UNCHANGED transactions,
         \A r \in SKU \ {s} : item'[r] = item[r] /\ ledger'[r] = ledger[r]
  PROVE  LocksInv'
<1>1. UNCHANGED <<lock, tx, work>>
  BY DEF transactions
<1>2. LocksShape' /\ LocksHeld' /\ LinesToCome'
  BY <1>1 DEF LocksInv, LocksShape, LocksHeld, LinesToCome
<1>3. VersionsCurrent'
  <2> SUFFICES ASSUME NEW u \in Tx, NEW r \in DOMAIN work'[u]
               PROVE  \E b \in DOMAIN tx'[u].lines :
                        /\ b.sku = r
                        /\ WrittenAs(u, r, b)'
                        /\ \A i \in DOMAIN tx'[u].todo : Precedes(b, tx'[u].todo[i])
    BY DEF VersionsCurrent
  <2>1. PICK b \in DOMAIN tx[u].lines :
          /\ b.sku = r
          /\ WrittenAs(u, r, b)
          /\ \A i \in DOMAIN tx[u].todo : Precedes(b, tx[u].todo[i])
    BY <1>1 DEF LocksInv, VersionsCurrent
  <2>2. r \in SKU /\ lock[r] = u /\ item[r] # Absent
    BY <1>1, <2>1 DEF LocksInv, LocksHeld, WrittenAs
  <2>3. r # s
    BY <2>2, StockLocksAssumption
  <2>4. WrittenAs(u, r, b)'
    BY <1>1, <2>1, <2>2, <2>3 DEF WrittenAs
  <2> QED  BY <1>1, <2>1, <2>4
<1> QED  BY <1>2, <1>3 DEF LocksInv

\* What one step of one movement, or of the catalogue of rows, does to the invariant.
LEMMA StepKeepsLocksInv ==
  LocksInv /\ [LocksNext]_lockVars => LocksInv'
<1> SUFFICES ASSUME LocksInv, [LocksNext]_lockVars
             PROVE  LocksInv'
  OBVIOUS
<1>1. ASSUME NEW t \in Tx, NEW type \in Types, NEW merged \in SpelledLines, Begin(t, type, merged)
      PROVE  LocksInv'
  BY <1>1, BeginKeeps
<1>2. ASSUME NEW t \in Tx, LockLine(t)
      PROVE  LocksInv'
  BY <1>2, LockLineKeeps
<1>3. ASSUME NEW t \in Tx, Rollback(t)
      PROVE  LocksInv'
  BY <1>3, EndKeeps DEF Rollback, LocksInv, LocksShape
<1>4. ASSUME NEW t \in Tx, Commit(t)
      PROVE  LocksInv'
  BY <1>4, EndKeeps DEF Commit
<1>5. ASSUME NEW s \in SKU, NEW r \in Reorder, CreateRow(s, r)
      PROVE  LocksInv'
  BY <1>5, RowsComeAndGo DEF CreateRow, LocksInv, LocksShape
<1>6. ASSUME NEW s \in SKU, DeleteRow(s)
      PROVE  LocksInv'
  BY <1>6, RowsComeAndGo DEF DeleteRow, LocksInv, LocksShape
<1>7. CASE UNCHANGED lockVars
  <2>1. UNCHANGED <<item, ledger, lock, tx, work>>
    BY <1>7 DEF lockVars
  <2>2. LocksShape' /\ LocksHeld' /\ LinesToCome'
    BY <2>1 DEF LocksInv, LocksShape, LocksHeld, LinesToCome
  <2>3. \A u, r, b : WrittenAs(u, r, b)' <=> WrittenAs(u, r, b)
    BY <2>1 DEF WrittenAs
  <2>4. VersionsCurrent'
    BY <2>1, <2>3 DEF LocksInv, VersionsCurrent
  <2> QED  BY <2>2, <2>4 DEF LocksInv
<1>8. \A t \in Tx : LineFails(t) \/ DeadlockDetected(t) \/ TxStops(t) => Rollback(t)
  BY DEF LineFails, DeadlockDetected, TxStops
<1> QED  BY <1>1, <1>2, <1>3, <1>4, <1>5, <1>6, <1>7, <1>8 DEF LocksNext, Transaction

(***************************************************************************)
(* The inductive invariant: locks are held exactly on what a movement has  *)
(* written, its versions are those of the committed rows with its line     *)
(* applied, and its remaining lines come later in lock order.              *)
(***************************************************************************)
THEOREM LocksInvHolds == LocksSpec => []LocksInv
<1>1. LocksInit => LocksInv
  BY InitLocksInv
<1>2. LocksInv /\ [LocksNext]_lockVars => LocksInv'
  BY StepKeepsLocksInv
<1> QED  BY <1>1, <1>2, PTL DEF LocksSpec

\* The variables of the row locks keep their types; a movement has locked what it has written.
THEOREM LockTypesHold == LocksSpec => []LocksTypeOK
<1>1. LocksInv => LocksTypeOK
  BY RequestIsPresent DEF LocksInv, LocksShape, LocksHeld, LocksTypeOK, TxRequest
<1> QED  BY <1>1, LocksInvHolds, PTL

-----------------------------------------------------------------------------
(***************************************************************************)
(* Refinement of Stock, without PATCH requests.                            *)
(***************************************************************************)

\* What the rows t has written were asked for, in quantities of the request.
Asked(t) ==
  [s \in DOMAIN work[t] |-> tx[t].lines[CHOOSE a \in DOMAIN tx[t].lines : a.sku = s]]

\* For each row it has written, a movement that commits asks for what is still allowed.
LEMMA AskedFacts ==
  ASSUME LocksInv, NEW t \in Tx, tx[t] # Absent, NEW s \in DOMAIN work[t]
  PROVE  /\ s \in SKU /\ Asked(t)[s] \in Quantity
         /\ item[s] # Absent
         /\ Allowed(tx[t].type, item[s], Asked(t)[s])
         /\ Len(ledger[s]) < MaxMoves
         /\ work[t][s].row = Apply(tx[t].type, item[s], Asked(t)[s])
         /\ work[t][s].moves = Append(ledger[s],
              Service!Entry(tx[t].type, Asked(t)[s], Apply(tx[t].type, item[s], Asked(t)[s])))
<1>1. PICK a \in DOMAIN tx[t].lines : a.sku = s /\ WrittenAs(t, s, a)
  BY DEF LocksInv, VersionsCurrent
<1>2. tx[t].lines \in SpelledLines
  BY DEF LocksInv, LocksShape, TxRequest
<1>3. (CHOOSE b \in DOMAIN tx[t].lines : b.sku = s) = a
  BY <1>1, <1>2, SpelledLinesFacts
<1>4. Asked(t)[s] = tx[t].lines[a]
  BY <1>3 DEF Asked
<1>5. tx[t].lines[a] \in Quantity /\ s \in SKU
  BY <1>1, <1>2, SpelledLinesFacts
<1> QED  BY <1>1, <1>4, <1>5 DEF WrittenAs, Service!Entry

\* Both levels change a row in the same way.
LEMMA SameOperations ==
  \A type, lv, q : /\ Service!Apply(type, lv, q) = Apply(type, lv, q)
                   /\ Service!Allowed(type, lv, q) <=> Allowed(type, lv, q)
<1>1. \A type, lv, q : Service!Apply(type, lv, q) = Apply(type, lv, q)
  BY DEF Service!Apply, Apply, Service!OnHandDelta, OnHandDelta, Service!ReservedDelta, ReservedDelta
<1> QED  BY <1>1 DEF Service!Allowed, Allowed, Service!Available, Available

\* A transaction that commits is the movement Stock knows, of the rows it has written.
LEMMA CommitIsMove ==
  ASSUME LocksInv, NEW t \in Tx, Commit(t)
  PROVE  Service!Move(tx[t].type, Asked(t))
<1>1. tx[t] # Absent
  BY DEF Commit
<1>2. DOMAIN Asked(t) = DOMAIN work[t]
  BY DEF Asked
<1>3. \A s \in DOMAIN Asked(t) :
        /\ item[s] # Absent /\ Allowed(tx[t].type, item[s], Asked(t)[s])
        /\ Len(ledger[s]) < MaxMoves
  BY <1>1, <1>2, AskedFacts
<1>4. item' = [s \in SKU |-> IF s \in DOMAIN Asked(t)
                              THEN Apply(tx[t].type, item[s], Asked(t)[s]) ELSE item[s]]
  BY <1>1, <1>2, AskedFacts DEF Commit
<1>5. ledger' = [s \in SKU |-> IF s \in DOMAIN Asked(t)
         THEN Append(ledger[s],
                Service!Entry(tx[t].type, Asked(t)[s], Apply(tx[t].type, item[s], Asked(t)[s])))
         ELSE ledger[s]]
  BY <1>1, <1>2, AskedFacts DEF Commit
<1> QED  BY <1>3, <1>4, <1>5, SameOperations DEF Service!Move

\* Stock serves that movement at one of its endpoints, unless it moves nothing.
LEMMA CommitIsServed ==
  ASSUME LocksInv, NEW t \in Tx, Commit(t)
  PROVE  Service!Next \/ UNCHANGED <<item, ledger>>
<1>1. tx[t] # Absent /\ tx[t].type \in Types
  BY DEF Commit, LocksInv, LocksShape, TxRequest
<1>2. Service!Move(tx[t].type, Asked(t))
  BY CommitIsMove
<1>3. CASE DOMAIN work[t] = {}
  <2>1. item' = [s \in SKU |-> item[s]] /\ ledger' = [s \in SKU |-> ledger[s]]
    BY <1>3 DEF Commit
  <2> QED  BY <2>1 DEF LocksInv, LocksShape
<1>4. CASE DOMAIN work[t] # {} /\ tx[t].type = "ADJUST"
  <2>1. PICK b \in Spelling : DOMAIN tx[t].lines = {b}
    BY <1>1, <1>4 DEF LocksInv, LinesToCome, Endpoint
  <2>2. DOMAIN work[t] = {b.sku}
    BY <1>4, <2>1 DEF LocksInv, VersionsCurrent
  <2>3. Asked(t) = Service!Line(b.sku, Asked(t)[b.sku])
    BY <2>2 DEF Service!Line, Asked
  <2>4. b.sku \in SKU /\ Asked(t)[b.sku] \in Quantity
    BY <1>1, <2>2, AskedFacts
  <2>5. Service!Adjust(b.sku, Asked(t)[b.sku])
    BY <1>2, <1>4, <2>3 DEF Service!Adjust
  <2> QED  BY <2>4, <2>5 DEF Service!Next
<1>5. CASE DOMAIN work[t] # {} /\ tx[t].type # "ADJUST"
  <2>1. DOMAIN work[t] \subseteq SKU
    BY DEF LocksInv, LocksHeld
  <2>2. Asked(t) \in [DOMAIN work[t] -> Quantity]
    BY <1>1, AskedFacts DEF Asked
  <2>3. Asked(t) \in Service!Lines
    BY <1>5, <2>1, <2>2 DEF Service!Lines
  <2>4. tx[t].type \in {"RECEIVE", "SHIP", "RESERVE", "RELEASE"}
    BY <1>1, <1>5, StockLocksAssumption DEF MovementType
  <2>5. \/ Service!ReserveBulk(Asked(t)) \/ Service!ReleaseBulk(Asked(t))
        \/ Service!ShipBulk(Asked(t)) \/ Service!RestockBulk(Asked(t))
    BY <1>2, <2>4 DEF Service!ReserveBulk, Service!ReleaseBulk, Service!ShipBulk, Service!RestockBulk
  <2> QED  BY <2>3, <2>5 DEF Service!Next
<1> QED  BY <1>3, <1>4, <1>5

\* Every step is a step of Stock or leaves the committed rows alone.
LEMMA StepsRefine ==
  LocksInv /\ [LocksNext]_lockVars => Service!Next \/ UNCHANGED <<item, ledger>>
<1> SUFFICES ASSUME LocksInv, [LocksNext]_lockVars
             PROVE  Service!Next \/ UNCHANGED <<item, ledger>>
  OBVIOUS
<1>1. ASSUME NEW t \in Tx, Transaction(t) \/ TxStops(t)
      PROVE  Service!Next \/ UNCHANGED <<item, ledger>>
  <2>1. CASE Commit(t)
    BY <2>1, CommitIsServed
  <2>2. CASE ~Commit(t)
    BY <1>1, <2>2
       DEF Transaction, TxStops, LockLine, LineFails, DeadlockDetected, Rollback
  <2> QED  BY <2>1, <2>2
<1>2. ASSUME NEW t \in Tx, NEW type \in Types, NEW merged \in SpelledLines, Begin(t, type, merged)
      PROVE  UNCHANGED <<item, ledger>>
  BY <1>2 DEF Begin
<1>3. ASSUME NEW s \in SKU, NEW r \in Reorder, CreateRow(s, r)
      PROVE  Service!Next
  <2>1. Service!Create(s, r)
    BY <1>3 DEF CreateRow, Service!Create
  <2> QED  BY <2>1 DEF Service!Next
<1>4. ASSUME NEW s \in SKU, DeleteRow(s)
      PROVE  Service!Next
  <2>1. Service!Delete(s)
    BY <1>4 DEF DeleteRow, Service!Delete
  <2> QED  BY <2>1 DEF Service!Next
<1>5. CASE UNCHANGED lockVars
  BY <1>5 DEF lockVars
<1> QED  BY <1>1, <1>2, <1>3, <1>4, <1>5 DEF LocksNext

\* The initial rows are those of Stock.
LEMMA InitRefines ==
  LocksInit => Service!Init
<1>1. << >> = [m \in {} |-> Absent]
  OBVIOUS
<1> QED  BY <1>1 DEF LocksInit, Service!Init

(***************************************************************************)
(* mutateBulk's "single transaction": the committed rows change as Stock   *)
(* lets them change, one movement at a time, however the transactions      *)
(* interleave, block each other, are ended or stop.                        *)
(***************************************************************************)
THEOREM TransactionsAreAtomic == LocksSpec => LocksImplementStock
<1>1. LocksInit => Service!Init
  BY InitRefines
<1>2. LocksInv /\ [LocksNext]_lockVars
        => [<<item, ledger>>' # <<item, ledger>> => Service!Next]_lockVars
  BY StepsRefine
<1> QED  BY <1>1, <1>2, LocksInvHolds, PTL DEF LocksSpec, LocksImplementStock

\* The same as a refinement: StockLocks implements the specification of Stock.
THEOREM LocksRefineStock == LocksSpec => Service!Spec
<1>1. LocksInit => Service!Init
  BY InitRefines
<1>2. LocksInv /\ [LocksNext]_lockVars => [Service!Next]_(Service!vars)
  BY StepsRefine DEF Service!vars
<1> QED  BY <1>1, <1>2, LocksInvHolds, PTL DEF LocksSpec, Service!Spec

-----------------------------------------------------------------------------
(***************************************************************************)
(* No line is left out.                                                    *)
(***************************************************************************)

\* Every line of a request has been written or is still to come.
NothingSkipped ==
  \A t \in Tx : tx[t] # Absent =>
    \A a \in DOMAIN tx[t].lines :
      a.sku \in DOMAIN work[t] \/ \E i \in DOMAIN tx[t].todo : tx[t].todo[i] = a

\* A lock order contains all of the lines: it is as long as they are many.
LEMMA LockOrdersAreComplete ==
  ASSUME NEW S \in SUBSET Spelling, \A a, b \in S : a.sku = b.sku => a = b,
         NEW order \in LockOrders(S)
  PROVE  \A a \in S : \E i \in DOMAIN order : order[i] = a
<1>1. /\ order \in [1 .. Cardinality(S) -> S]
      /\ \A i, j \in 1 .. Cardinality(S) : i # j => order[i] # order[j]
  BY DEF LockOrders, SetToSeqs
<1>2. IsFiniteSet(S)
  <2> DEFINE skuOf == [a \in S |-> a.sku]
  <2>1. skuOf \in Injection(S, SKU)
    BY DEF Injection, IsInjective, Spelling
  <2> QED  BY <2>1, FS_Injection, StockLocksAssumption
<1>3. Cardinality(S) \in Nat
  BY <1>2, FS_CardinalityType
<1>4. order \in Injection(1 .. Cardinality(S), S)
  BY <1>1 DEF Injection, IsInjective
<1>5. Cardinality(1 .. Cardinality(S)) = Cardinality(S)
  BY <1>3, FS_Interval
<1>6. order \in Surjection(1 .. Cardinality(S), S)
  BY <1>2, <1>4, <1>5, FS_Injection
<1> QED  BY <1>1, <1>6 DEF Surjection

\* What is left of the lines once the first has been written.
LEMMA RestOfLines ==
  ASSUME NEW todo \in Seq(Spelling), todo # << >>, NEW i \in DOMAIN todo, todo[i] # Head(todo)
  PROVE  \E j \in DOMAIN Tail(todo) : Tail(todo)[j] = todo[i]
<1>1. /\ Head(todo) = todo[1] /\ Len(todo) \in Nat
      /\ DOMAIN todo = 1 .. Len(todo)
      /\ DOMAIN Tail(todo) = 1 .. Len(todo) - 1
      /\ \A j \in 1 .. Len(todo) - 1 : Tail(todo)[j] = todo[j + 1]
  BY HeadTailProperties, LenProperties, EmptySeq
<1>2. i - 1 \in DOMAIN Tail(todo)
  BY <1>1
<1>3. Tail(todo)[i - 1] = todo[i]
  BY <1>1, <1>2
<1> QED  BY <1>2, <1>3

LEMMA StepSkipsNothing ==
  LocksInv /\ NothingSkipped /\ [LocksNext]_lockVars => NothingSkipped'
<1> SUFFICES ASSUME LocksInv, NothingSkipped, [LocksNext]_lockVars,
                    NEW u \in Tx, tx'[u] # Absent, NEW a \in DOMAIN tx'[u].lines
             PROVE  a.sku \in DOMAIN work'[u] \/ \E i \in DOMAIN tx'[u].todo : tx'[u].todo[i] = a
  BY DEF NothingSkipped
<1>0. DOMAIN tx = Tx /\ DOMAIN work = Tx
  BY DEF LocksInv, LocksShape
<1>1. CASE UNCHANGED <<tx[u], work[u]>>
  BY <1>1 DEF NothingSkipped
<1>2. ASSUME NEW type \in Types, NEW merged \in SpelledLines, Begin(u, type, merged)
      PROVE  \E i \in DOMAIN tx'[u].todo : tx'[u].todo[i] = a
  <2>1. PICK order \in LockOrders(DOMAIN merged) :
          tx' = [tx EXCEPT ![u] = [type |-> type, lines |-> merged, todo |-> order]]
    BY <1>2 DEF Begin
  <2>2. tx'[u].lines = merged /\ tx'[u].todo = order
    BY <1>0, <2>1
  <2> QED  BY <2>2, SpelledLinesFacts, LockOrdersAreComplete
<1>3. ASSUME LockLine(u)
      PROVE  a.sku \in DOMAIN work'[u] \/ \E i \in DOMAIN tx'[u].todo : tx'[u].todo[i] = a
  <2>1. tx[u] # Absent /\ tx[u].todo # << >> /\ tx[u] \in TxRequest
    BY <1>3 DEF LockLine, MoreLines, LocksInv, LocksShape
  <2>2. PICK todo \in Seq(Spelling) : todo = tx[u].todo
    BY <2>1 DEF TxRequest
  <2>3. tx'[u].lines = tx[u].lines /\ tx'[u].todo = Tail(todo)
    BY <1>0, <1>3, <2>1, <2>2 DEF LockLine, TxRequest
  <2>4. DOMAIN work'[u] = DOMAIN work[u] \cup {Head(todo).sku}
    BY <1>0, <1>3, <2>2 DEF LockLine, Versions, NextRow
  <2>5. CASE a.sku \in DOMAIN work[u]
    BY <2>4, <2>5
  <2>6. CASE \E i \in DOMAIN todo : todo[i] = a
    BY <2>1, <2>2, <2>3, <2>4, <2>6, RestOfLines
  <2> QED  BY <2>1, <2>2, <2>3, <2>5, <2>6 DEF NothingSkipped
<1>4. ASSUME NEW t \in Tx, t # u, End(t) \/ LockLine(t)
                  \/ \E type \in Types, merged \in SpelledLines : Begin(t, type, merged)
      PROVE  UNCHANGED <<tx[u], work[u]>>
  BY <1>0, <1>4 DEF End, LockLine, Begin
<1>5. ~End(u)
  BY <1>0 DEF End
<1>6. \A t \in Tx : Transaction(t) \/ TxStops(t) => End(t) \/ LockLine(t)
  BY DEF Transaction, TxStops, LineFails, DeadlockDetected, Rollback, Commit
<1>7. ASSUME NEW s \in SKU, DeleteRow(s) \/ \E r \in Reorder : CreateRow(s, r)
      PROVE  UNCHANGED <<tx[u], work[u]>>
  BY <1>7 DEF CreateRow, DeleteRow, transactions
<1>8. CASE UNCHANGED lockVars
  BY <1>1, <1>8 DEF lockVars
<1> QED  BY <1>1, <1>2, <1>3, <1>4, <1>5, <1>6, <1>7, <1>8 DEF LocksNext

(***************************************************************************)
(* "Bulk operations (one transaction, all-or-nothing)": a transaction that *)
(* commits applies every line of its request to the level committed by     *)
(* then, which allows it, and changes no other row.  (LocksImplementStock  *)
(* alone would also admit a part of the lines.)                            *)
(***************************************************************************)
THEOREM MovementsAreWhole ==
  LocksSpec =>
    [][\A t \in Tx : Commit(t) =>
         /\ \A a \in DOMAIN tx[t].lines :
              /\ Allowed(tx[t].type, item[a.sku], tx[t].lines[a])
              /\ item'[a.sku] = Apply(tx[t].type, item[a.sku], tx[t].lines[a])
         /\ \A s \in SKU : item'[s] # item[s] => \E a \in DOMAIN tx[t].lines : a.sku = s]_lockVars
<1> DEFINE Whole ==
      \A t \in Tx : Commit(t) =>
        /\ \A a \in DOMAIN tx[t].lines :
             /\ Allowed(tx[t].type, item[a.sku], tx[t].lines[a])
             /\ item'[a.sku] = Apply(tx[t].type, item[a.sku], tx[t].lines[a])
        /\ \A s \in SKU : item'[s] # item[s] => \E a \in DOMAIN tx[t].lines : a.sku = s
<1>1. LocksInit => NothingSkipped
  BY DEF LocksInit, NothingSkipped
<1>2. ASSUME LocksInv, NothingSkipped, NEW t \in Tx, Commit(t)
      PROVE  /\ \A a \in DOMAIN tx[t].lines :
                  /\ Allowed(tx[t].type, item[a.sku], tx[t].lines[a])
                  /\ item'[a.sku] = Apply(tx[t].type, item[a.sku], tx[t].lines[a])
             /\ \A s \in SKU : item'[s] # item[s] => \E a \in DOMAIN tx[t].lines : a.sku = s
  <2>1. tx[t] # Absent /\ tx[t].todo = << >> /\ tx[t].lines \in SpelledLines
    BY <1>2 DEF Commit, LocksInv, LocksShape, TxRequest
  <2>2. ASSUME NEW a \in DOMAIN tx[t].lines
        PROVE  /\ Allowed(tx[t].type, item[a.sku], tx[t].lines[a])
               /\ item'[a.sku] = Apply(tx[t].type, item[a.sku], tx[t].lines[a])
    <3>1. a.sku \in SKU /\ a.sku \in DOMAIN work[t]
      BY <1>2, <2>1, SpelledLinesFacts, EmptySeq DEF NothingSkipped
    <3>2. PICK b \in DOMAIN tx[t].lines : b.sku = a.sku /\ WrittenAs(t, a.sku, b)
      BY <1>2, <3>1 DEF LocksInv, VersionsCurrent
    <3>3. b = a
      BY <2>1, <3>2, SpelledLinesFacts
    <3> QED  BY <1>2, <3>1, <3>2, <3>3 DEF WrittenAs, Commit
  <2>3. ASSUME NEW s \in SKU, item'[s] # item[s]
        PROVE  \E a \in DOMAIN tx[t].lines : a.sku = s
    <3>1. s \in DOMAIN work[t]
      BY <1>2, <2>3 DEF Commit
    <3> QED  BY <1>2, <3>1 DEF LocksInv, VersionsCurrent
  <2> QED  BY <2>2, <2>3
<1>3. LocksInv => Whole \/ ~NothingSkipped
  BY <1>2
<1> HIDE DEF Whole
<1>4. LocksInv /\ NothingSkipped /\ [LocksNext]_lockVars => [Whole]_lockVars
  BY <1>3
<1>5. LocksSpec => [][Whole]_lockVars
  BY <1>1, <1>4, StepSkipsNothing, LocksInvHolds, PTL DEF LocksSpec
<1> QED  BY <1>5 DEF Whole

-----------------------------------------------------------------------------
(***************************************************************************)
(* Deadlocks.                                                              *)
(***************************************************************************)

\* Some spelling in a set of them precedes all others: none precedes it.
LEMMA FirstSpelling ==
  ASSUME NEW K \in SUBSET Spelling, K # {}
  PROVE  \E k \in K : \A l \in K : ~Precedes(l, k)
<1>1. SKU \subseteq Nat
  BY StockLocksAssumption
<1>2. ASSUME NEW L \in SUBSET K, L # {}, \A k, l \in L : k.lower = l.lower,
             \A k \in L, l \in K \ L : ~Precedes(l, k)
      PROVE  \E k \in K : \A l \in K : ~Precedes(l, k)
  <2> DEFINE skus == {k.sku : k \in L}
  <2>1. skus \subseteq Nat /\ skus # {}
    BY <1>1, <1>2 DEF Spelling
  <2>2. PICK n \in skus : \A i \in skus : n <= i
    BY <2>1, LeastNumber
  <2>3. PICK k \in L : k.sku = n
    OBVIOUS
  <2>4. ASSUME NEW l \in L
        PROVE  ~Precedes(l, k)
    <3>1. n <= l.sku /\ n \in Nat /\ l.sku \in Nat
      BY <2>1, <2>2
    <3>2. ~(l.sku < k.sku)
      BY <2>3, <3>1
    <3>3. l.lower = k.lower /\ k.lower \in BOOLEAN
      BY <1>2 DEF Spelling
    <3> QED  BY <3>2, <3>3 DEF Precedes
  <2> QED  BY <1>2, <2>4
<1> DEFINE Upper == {k \in K : ~k.lower}
<1>3. \A k \in K : k.lower \in BOOLEAN
  BY DEF Spelling
<1>4. CASE Upper # {}
  <2>1. \A k \in Upper, l \in K \ Upper : ~Precedes(l, k)
    BY <1>3 DEF Precedes
  <2>2. \A k, l \in Upper : k.lower = l.lower
    BY <1>3
  <2> HIDE DEF Upper
  <2>3. Upper \in SUBSET K
    BY DEF Upper
  <2> QED  BY <1>2, <1>4, <2>1, <2>2, <2>3
<1>5. CASE Upper = {}
  <2>1. \A k, l \in K : k.lower = l.lower
    BY <1>3, <1>5
  <2> QED  BY <1>2, <2>1
<1> QED  BY <1>4, <1>5

\* A movement that waits comes to its line after the line by which it blocks another.
LEMMA BlockerIsAhead ==
  ASSUME LocksInv, NEW t \in Tx, NEW v \in Tx, WaitsFor(v, t), MoreLines(t),
         \A a \in DOMAIN tx[v].lines, b \in DOMAIN tx[t].lines : a.sku = b.sku => a = b
  PROVE  Precedes(Head(tx[v].todo), Head(tx[t].todo))
<1>1. \A u \in {t, v} : /\ tx[u].todo \in Seq(Spelling) /\ tx[u].todo # << >>
                        /\ InLockOrder(tx[u].todo)
                        /\ \A i \in DOMAIN tx[u].todo : tx[u].todo[i] \in DOMAIN tx[u].lines
  BY DEF WaitsFor, MoreLines, LocksInv, LocksShape, TxRequest, LinesToCome
<1>2. \A u \in {t, v} : /\ Head(tx[u].todo) = tx[u].todo[1] /\ 1 \in DOMAIN tx[u].todo
                        /\ Head(tx[u].todo) \in Spelling
  BY <1>1, NextLineFacts
<1> PICK s : s = NextRow(v)
  OBVIOUS
<1>3. s \in SKU /\ lock[s] = t /\ s = Head(tx[v].todo).sku
  BY <1>2 DEF WaitsFor, NextRow, Spelling
<1>4. PICK b \in DOMAIN tx[t].lines :
        b.sku = s /\ \A i \in DOMAIN tx[t].todo : Precedes(b, tx[t].todo[i])
  BY <1>3 DEF LocksInv, LocksHeld, VersionsCurrent
<1>5. Head(tx[v].todo) = b
  BY <1>1, <1>2, <1>3, <1>4
<1> QED  BY <1>2, <1>4, <1>5

(***************************************************************************)
(* "locks every affected row (in sku order, to avoid deadlocks)": however  *)
(* many movements wait for each other in a circle, two of them spell one   *)
(* SKU differently.                                                        *)
(***************************************************************************)
THEOREM OneSpellingOneOrder == LocksSpec => []DeadlocksAreRespellings
<1>1. ASSUME LocksInv, NEW C \in SUBSET Tx, Cycle(C),
             \A t, u \in C : \A a \in DOMAIN tx[t].lines, b \in DOMAIN tx[u].lines :
               a.sku = b.sku => a = b
      PROVE  FALSE
  <2> DEFINE next == {Head(tx[t].todo) : t \in C}
  <2>1. \A t \in C : MoreLines(t) /\ \E v \in C : WaitsFor(v, t)
    BY <1>1 DEF Cycle, WaitsFor
  <2>2. \A t \in C : tx[t].todo \in Seq(Spelling) /\ tx[t].todo # << >> /\ InLockOrder(tx[t].todo)
    BY <1>1, <2>1 DEF MoreLines, LocksInv, LocksShape, TxRequest, LinesToCome
  <2>3. \A t \in C : Head(tx[t].todo) \in Spelling
    BY <2>2, NextLineFacts
  <2>4. next \subseteq Spelling
    BY <2>3
  <2>5. PICK t0 \in C : TRUE
    BY <1>1 DEF Cycle
  <2>6. Head(tx[t0].todo) \in next
    BY <2>5
  <2>7. PICK k \in next : \A l \in next : ~Precedes(l, k)
    BY <2>4, <2>6, FirstSpelling
  <2>8. PICK t \in C : k = Head(tx[t].todo)
    OBVIOUS
  <2>9. PICK v \in C : WaitsFor(v, t)
    BY <2>1
  <2>10. Precedes(Head(tx[v].todo), k)
    BY <1>1, <2>1, <2>8, <2>9, BlockerIsAhead
  <2> QED  BY <2>7, <2>10
<1>2. LocksInv => DeadlocksAreRespellings
  BY <1>1 DEF DeadlocksAreRespellings
<1> QED  BY <1>2, LocksInvHolds, PTL
=============================================================================
