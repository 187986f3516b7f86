----------------------------- MODULE StockLocks -----------------------------
(***************************************************************************)
(* inventory-service once more, one level below Stock: a movement is a     *)
(* transaction that locks its rows one after the other (SELECT ... FOR     *)
(* UPDATE, mutate and mutateBulk of stock/services/service.go), works on   *)
(* its own versions of them and commits or rolls back.  What other         *)
(* statements read is the committed version, so item and ledger are those  *)
(* of Stock, and StockLocks implements Stock (without PATCH requests).     *)
(*                                                                         *)
(* The column sku is CITEXT: a SKU has one row and several spellings.      *)
(* Locks are taken in the byte order of the spellings (mergeLines), where  *)
(* all upper-case spellings precede the lower-case ones.  One request      *)
(* spells a SKU in one way, as the lines of a cart do (their sku is CITEXT *)
(* and unique), but two requests may spell it differently.                 *)
(***************************************************************************)
EXTENDS StockOps, Sequences, SequencesExt

CONSTANTS
  SKU,         \* as in Stock; here numbers, in the order of their spellings
  Reorder,     \* as in Stock
  Quantity,    \* as in Stock
  MaxMoves,    \* bound: as in Stock
  Absent,      \* as in Stock
  Types,       \* the types of movement to consider
  Tx,          \* movements that may be in progress at the same time
  NoTx         \* the holder of a row nobody has locked

Spelling == [sku : SKU, lower : BOOLEAN]

Precedes(a, b) ==
  \/ ~a.lower /\ b.lower
  \/ a.lower = b.lower /\ a.sku < b.sku

AnyOrder(S) == SetToSeqs(S)

InLockOrder(order) == \A i, j \in DOMAIN order : i < j => Precedes(order[i], order[j])

\* sort.Slice over the merged lines: the order is the only one there is.
LockOrders(S) == {order \in SetToSeqs(S) : InLockOrder(order)}

\* The merged lines of a request: spellings of different SKUs with quantities.
SpelledLines ==
  UNION {[S -> Quantity] : S \in {S \in (SUBSET Spelling) \ {{}} :
                                    \A a, b \in S : a.sku = b.sku => a = b}}

ASSUME StockLocksAssumption ==
  /\ SKU \subseteq Nat /\ IsFiniteSet(SKU)
  /\ Types \subseteq MovementType
  /\ NoTx \notin Tx
  /\ Absent \notin [type : MovementType, lines : SpelledLines, todo : Seq(Spelling)]

VARIABLES
  item,        \* the committed stock_items rows, as in Stock
  ledger,      \* the committed stock_movements rows, as in Stock
  lock,        \* lock[s]: the movement that has locked the row of s, or NoTx
  tx,          \* tx[t]: the request t works on, or Absent
  work         \* work[t]: the row and ledger versions t has written so far

lockVars == <<item, ledger, lock, tx, work>>

\* ADJUST has no bulk endpoint.
Endpoint(type, merged) == type # "ADJUST" \/ \E a \in Spelling : DOMAIN merged = {a}

LocksInit ==
  /\ item = [s \in SKU |-> Absent]
  /\ ledger = [s \in SKU |-> << >>]
  /\ lock = [s \in SKU |-> NoTx]
  /\ tx = [t \in Tx |-> Absent]
  /\ work = [t \in Tx |-> << >>]

-----------------------------------------------------------------------------
(***************************************************************************)
(* One transaction, RunInTx.                                               *)
(***************************************************************************)
Begin(t, type, merged) ==
  /\ tx[t] = Absent
  /\ Endpoint(type, merged)
  /\ \E order \in LockOrders(DOMAIN merged) :
       tx' = [tx EXCEPT ![t] = [type |-> type, lines |-> merged, todo |-> order]]
  /\ UNCHANGED <<item, ledger, lock, work>>

\* The row and the quantity of the line t comes to next.
NextRow(t) == Head(tx[t].todo).sku

NextQuantity(t) == tx[t].lines[Head(tx[t].todo)]

MoreLines(t) == tx[t] # Absent /\ tx[t].todo # << >>

WaitsFor(t, u) == t # u /\ MoreLines(t) /\ lock[NextRow(t)] = u

\* The line that t comes to can be applied (or the bound is reached).
Applicable(t) ==
  /\ item[NextRow(t)] # Absent
  /\ Allowed(tx[t].type, item[NextRow(t)], NextQuantity(t))
  /\ Len(ledger[NextRow(t)]) < MaxMoves

Version(t) ==
  LET row == Apply(tx[t].type, item[NextRow(t)], NextQuantity(t))
  IN  [row |-> row,
       moves |-> Append(ledger[NextRow(t)],
                        [type |-> tx[t].type, quantity |-> NextQuantity(t),
                         onHandAfter |-> row.onHand, reservedAfter |-> row.reserved])]

Versions(t) ==
  [s \in DOMAIN work[t] \cup {NextRow(t)} |-> IF s = NextRow(t) THEN Version(t) ELSE work[t][s]]

LineWithoutLock(t) ==
  /\ MoreLines(t)
  /\ Applicable(t)
  /\ work' = [work EXCEPT ![t] = Versions(t)]
  /\ tx' = [tx EXCEPT ![t].todo = Tail(@)]
  /\ UNCHANGED <<item, ledger, lock>>

\* LockBySKU, apply, Update and MovementRepository.Create for one line.
LockLine(t) ==
  /\ MoreLines(t)
  /\ lock[NextRow(t)] = NoTx
  /\ Applicable(t)
  /\ lock' = [lock EXCEPT ![NextRow(t)] = t]
  /\ work' = [work EXCEPT ![t] = Versions(t)]
  /\ tx' = [tx EXCEPT ![t].todo = Tail(@)]
  /\ UNCHANGED <<item, ledger>>

End(t) ==
  /\ lock' = [s \in SKU |-> IF lock[s] = t THEN NoTx ELSE lock[s]]
  /\ tx' = [tx EXCEPT ![t] = Absent]
  /\ work' = [work EXCEPT ![t] = << >>]

Commit(t) ==
  /\ tx[t] # Absent
  /\ tx[t].todo = << >>
  /\ item' = [s \in SKU |-> IF s \in DOMAIN work[t] THEN work[t][s].row ELSE item[s]]
  /\ ledger' = [s \in SKU |-> IF s \in DOMAIN work[t] THEN work[t][s].moves ELSE ledger[s]]
  /\ End(t)

Rollback(t) ==
  /\ End(t)
  /\ UNCHANGED <<item, ledger>>

\* No such row, a refused change, or a value the column cannot hold.
LineFails(t) ==
  /\ MoreLines(t)
  /\ lock[NextRow(t)] = NoTx
  /\ ~Applicable(t)
  /\ Rollback(t)

\* Every transaction of C waits for another one of C.
Cycle(C) == C # {} /\ \A t \in C : \E u, v \in C : WaitsFor(t, u) /\ WaitsFor(v, t)

\* PostgreSQL finds the cycle after deadlock_timeout and ends one of its transactions.
DeadlockDetected(t) ==
  /\ \E C \in SUBSET Tx : t \in C /\ Cycle(C)
  /\ Rollback(t)

\* The process crashes, the client goes away, or the database fails.
TxStops(t) ==
  /\ tx[t] # Absent
  /\ Rollback(t)

-----------------------------------------------------------------------------
(***************************************************************************)
(* Rows come and go; a DELETE waits until nobody has locked the row.       *)
(***************************************************************************)
transactions == <<lock, tx, work>>

CreateRow(s, r) ==
  /\ item[s] = Absent
  /\ item' = [item EXCEPT ![s] = [onHand |-> 0, reserved |-> 0, reorder |-> r]]
  /\ UNCHANGED <<ledger, transactions>>

DeleteRow(s) ==
  /\ item[s] # Absent
  /\ lock[s] = NoTx
  /\ item' = [item EXCEPT ![s] = Absent]
  /\ ledger' = [ledger EXCEPT ![s] = << >>]
  /\ UNCHANGED transactions

-----------------------------------------------------------------------------
Transaction(t) ==
  \/ LockLine(t)
  \/ LineFails(t)
  \/ Commit(t)
  \/ DeadlockDetected(t)

LocksNext ==
  \/ \E t \in Tx :
       \/ \E type \in Types, merged \in SpelledLines : Begin(t, type, merged)
       \/ Transaction(t)
       \/ TxStops(t)
  \/ \E s \in SKU, r \in Reorder : CreateRow(s, r)
  \/ \E s \in SKU : DeleteRow(s)

LocksSpec == LocksInit /\ [][LocksNext]_lockVars

-----------------------------------------------------------------------------
(***************************************************************************)
(* Properties.                                                             *)
(***************************************************************************)

\* The variables have their types; a movement has locked what it has written.
LocksTypeOK ==
  /\ lock \in [SKU -> Tx \cup {NoTx}]
  /\ \A t \in Tx :
       /\ tx[t] # Absent => tx[t].type \in Types /\ tx[t].lines \in SpelledLines
       /\ DOMAIN work[t] = {s \in SKU : lock[s] = t}

(***************************************************************************)
(* mutateBulk, "in a single transaction": the locks make every movement of *)
(* several lines the one atomic step that Stock takes it for, with the     *)
(* levels it finds when it commits, whatever other movements and deletions *)
(* run beside it and wherever it stops.  (This is Service!Spec: a step     *)
(* that leaves the committed rows alone is a stutter there.)               *)
(***************************************************************************)
Service == INSTANCE Stock WITH Manager <- {}, patch <- << >>

LocksImplementStock ==
  /\ Service!Init
  /\ [][<<item, ledger>>' # <<item, ledger>> => Service!Next]_lockVars

(***************************************************************************)
(* mutateBulk "locks every affected row (in sku order, to avoid            *)
(* deadlocks)": it does so among movements that spell their SKUs alike.    *)
(* In a deadlock two of them spell one SKU differently.                    *)
(***************************************************************************)
DeadlocksAreRespellings ==
  \A C \in SUBSET Tx : Cycle(C) =>
    \E t, u \in C : \E a \in DOMAIN tx[t].lines, b \in DOMAIN tx[u].lines :
      a.sku = b.sku /\ a # b
=============================================================================
