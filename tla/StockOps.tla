------------------------------ MODULE StockOps ------------------------------
(***************************************************************************)
(* What one stock movement does to the quantities of one stock_items row   *)
(* of inventory-service (stock/services/service.go).  A level is any       *)
(* record with the fields onHand and reserved.  The operators are shared   *)
(* by Stock, which models the service itself, and by Orders, which calls   *)
(* the service's bulk endpoints.                                           *)
(***************************************************************************)
EXTENDS Integers

CONSTANT MaxInt   \* largest value an INTEGER column of stock_items can hold

ASSUME MaxIntAssumption == MaxInt \in Nat

MovementType == {"RECEIVE", "SHIP", "ADJUST", "RESERVE", "RELEASE"}

Available(lv) == lv.onHand - lv.reserved

OnHandDelta(type, q) ==
  CASE type \in {"RECEIVE", "ADJUST"} -> q
    [] type = "SHIP"                  -> -q
    [] OTHER                          -> 0

ReservedDelta(type, q) ==
  CASE type = "RESERVE"              -> q
    [] type \in {"RELEASE", "SHIP"}  -> -q
    [] OTHER                         -> 0

Apply(type, lv, q) ==
  [lv EXCEPT !.onHand   = @ + OnHandDelta(type, q),
             !.reserved = @ + ReservedDelta(type, q)]

(***************************************************************************)
(* The guards of the apply closures.  The request structs refuse a         *)
(* quantity that is not positive, except for ADJUST, which refuses zero.   *)
(* The last conjunct is the width of the INTEGER columns: PostgreSQL fails *)
(* the UPDATE and the transaction rolls back.                              *)
(***************************************************************************)
Allowed(type, lv, q) ==
  /\ type # "ADJUST" => q > 0
  /\ type = "RESERVE" => Available(lv) >= q
  /\ type = "RELEASE" => lv.reserved >= q
  /\ type = "SHIP" => lv.reserved >= q /\ lv.onHand >= q
  /\ type = "ADJUST" => /\ q # 0
                        /\ lv.onHand + q >= 0
                        /\ lv.onHand + q >= lv.reserved
  /\ Apply(type, lv, q).onHand <= MaxInt

LevelsInBounds(lv) == 0 <= lv.reserved /\ lv.reserved <= lv.onHand /\ lv.onHand <= MaxInt
=============================================================================
