-------------------------------- MODULE Cart --------------------------------
(***************************************************************************)
(* cart-service: the active cart of one shopper in one tenant              *)
(* (cart/services/service.go).  A request runs one SQL statement after the *)
(* other without a transaction, and asks product-service and               *)
(* inventory-service in between, so two requests of the same shopper (two  *)
(* tabs, an impatient double click) interleave at every statement.         *)
(*                                                                         *)
(* Prices and stock change at any time, so what product-service and        *)
(* inventory-service answer is open at every call.                         *)
(***************************************************************************)
EXTENDS Integers

CONSTANTS
  Sku,         \* variants a shopper may put into the cart
  Offer,       \* prices: records [price, currency] a variant may be sold at
  Units,       \* quantities a request may name
  Stocked,     \* availabilities inventory-service may report
  Untracked,   \* its answer 404: the SKU is not tracked
  OffSale,     \* the variant of a request that has not looked it up
  Request,     \* requests of the shopper that may be in progress at the same time
  MaxLines,    \* bound: lines the cart gets over time
  MaxUnits,    \* bound: quantity of a line of an untracked SKU
  NoLine       \* GetBySKU finds no line

Op == {"get", "add", "set", "remove", "clear"}

VARIABLES
  active,      \* the row with status ACTIVE in table carts exists
  lines,       \* table cart_items of that cart
  added,       \* number of lines ever inserted: the next line's id, and its created_at
  at,          \* at[r]: the next step of request r
  req,         \* req[r]: what r asks for
  sold,        \* sold[r]: the variant as r has looked it up
  line,        \* line[r]: the line r has read, or NoLine
  listed       \* listed[r]: the cart as r has read it

cartTables == <<active, lines, added>>
cartVars == <<active, lines, added, at, req, sold, line, listed>>

NoRequest == [op |-> "none"]

Body == [op : {"get", "clear"}] \cup [op : {"remove"}, sku : Sku]
          \cup [op : {"add", "set"}, sku : Sku, units : Units]

Item == [id : 0 .. MaxLines - 1, sku : Sku, units : 1 .. MaxUnits, offer : Offer]

ASSUME CartAssumption ==
  /\ Units \subseteq Nat \ {0}
  /\ Stocked \subseteq Int
  /\ MaxLines \in Nat /\ MaxUnits \in Nat
  /\ Untracked \notin Stocked
  /\ OffSale \notin Offer
  /\ NoLine \notin Item

CartInit ==
  /\ active = FALSE
  /\ lines = {}
  /\ added = 0
  /\ at = [r \in Request |-> "idle"]
  /\ req = [r \in Request |-> NoRequest]
  /\ sold = [r \in Request |-> OffSale]
  /\ line = [r \in Request |-> NoLine]
  /\ listed = [r \in Request |-> {}]

-----------------------------------------------------------------------------
GoTo(r, step) == at' = [at EXCEPT ![r] = step]

\* The request is answered; the answer shows the cart as it is by then.
Answered(r) ==
  /\ GoTo(r, "idle")
  /\ req' = [req EXCEPT ![r] = NoRequest]
  /\ sold' = [sold EXCEPT ![r] = OffSale]
  /\ line' = [line EXCEPT ![r] = NoLine]
  /\ listed' = [listed EXCEPT ![r] = {}]

LineOf(L, s) == IF \E x \in L : x.sku = s THEN CHOOSE x \in L : x.sku = s ELSE NoLine

SetUnits(L, id, n) == {IF x.id = id THEN [x EXCEPT !.units = n] ELSE x : x \in L}

\* ListByCart's first line.
Oldest(L) == CHOOSE x \in L : \A y \in L : x.id <= y.id

Arrive(r, body) ==
  /\ at[r] = "idle"
  /\ req' = [req EXCEPT ![r] = body]
  /\ GoTo(r, IF body.op = "add" THEN "lookup" ELSE "cart")
  /\ UNCHANGED <<cartTables, sold, line, listed>>

\* catalog.Lookup: the variant by its SKU, if its product is ACTIVE.
LookupVariant(r) ==
  /\ at[r] = "lookup"
  /\ \/ \E offer \in Offer :
          /\ sold' = [sold EXCEPT ![r] = offer]
          /\ GoTo(r, "cart")
          /\ UNCHANGED <<req, line, listed>>
     \/ Answered(r)
  /\ UNCHANGED cartTables

AfterCart == [get |-> "detail", add |-> "find", set |-> "find", remove |-> "delete", clear |-> "delete"]

\* getOrCreateActiveCart reads the active cart, and inserts one if there is none.
GetActive(r) ==
  /\ at[r] = "cart"
  /\ GoTo(r, IF active THEN AfterCart[req[r].op] ELSE "create")
  /\ UNCHANGED <<cartTables, req, sold, line, listed>>

\* carts_one_active_per_customer: whoever loses the race reads the winner's cart.
CreateCart(r) ==
  /\ at[r] = "create"
  /\ active' = TRUE
  /\ GoTo(r, AfterCart[req[r].op])
  /\ UNCHANGED <<lines, added, req, sold, line, listed>>

\* GetBySKU; an add to a cart without the SKU goes on to checkCartCurrency.
FindLine(r) ==
  /\ at[r] = "find"
  /\ LET found == LineOf(lines, req[r].sku)
     IN  IF \/ found = NoLine /\ req[r].op = "set"
            \/ found # NoLine /\ req[r].op = "add" /\ found.offer.currency # sold[r].currency
           THEN Answered(r)
           ELSE /\ line' = [line EXCEPT ![r] = found]
                /\ listed' = [listed EXCEPT ![r] = lines]
                /\ GoTo(r, IF found = NoLine THEN "currency" ELSE "stock")
                /\ UNCHANGED <<req, sold>>
  /\ UNCHANGED cartTables

\* checkCartCurrency compares with the oldest line.
SameCurrency(r) == lines = {} \/ Oldest(lines).offer.currency = sold[r].currency

CheckCurrency(r) ==
  /\ at[r] = "currency"
  /\ IF SameCurrency(r)
       THEN /\ listed' = [listed EXCEPT ![r] = lines]
            /\ GoTo(r, "stock")
            /\ UNCHANGED <<req, sold, line>>
       ELSE Answered(r)
  /\ UNCHANGED cartTables

WantedForgets(r) == req[r].units

Wanted(r) == IF req[r].op = "add" /\ line[r] # NoLine THEN line[r].units + req[r].units ELSE req[r].units

\* availability.Stock.Enough: what is not tracked is never short.
Enough(available, want) == available = Untracked \/ available >= want

CheckStock(r) ==
  /\ at[r] = "stock"
  /\ Wanted(r) <= MaxUnits
  /\ \E available \in Stocked \cup {Untracked} :
       IF Enough(available, Wanted(r))
         THEN GoTo(r, "write") /\ UNCHANGED <<req, sold, line, listed>>
         ELSE Answered(r)
  /\ UNCHANGED cartTables

\* ItemRepository.SetQuantity by id; no row is updated if the line is gone.
WriteUnits(r) ==
  /\ at[r] = "write"
  /\ line[r] # NoLine
  /\ lines' = SetUnits(lines, line[r].id, Wanted(r))
  /\ Answered(r)
  /\ UNCHANGED <<active, added>>

\* ItemRepository.Create; UNIQUE (cart_id, sku) refuses a second line for the SKU.
InsertLine(r) ==
  /\ at[r] = "write"
  /\ line[r] = NoLine
  /\ added < MaxLines
  /\ IF LineOf(lines, req[r].sku) = NoLine
       THEN /\ lines' = lines \cup {[id |-> added, sku |-> req[r].sku, units |-> Wanted(r),
                                   offer |-> sold[r]]}
            /\ added' = added + 1
       ELSE UNCHANGED <<lines, added>>
  /\ Answered(r)
  /\ UNCHANGED <<active>>

\* RemoveItem and Clear.
DeleteLines(r) ==
  /\ at[r] = "delete"
  /\ lines' = IF req[r].op = "clear" THEN {} ELSE {x \in lines : x.sku # req[r].sku}
  /\ Answered(r)
  /\ UNCHANGED <<active, added>>

ShowCart(r) ==
  /\ at[r] = "detail"
  /\ Answered(r)
  /\ UNCHANGED cartTables

\* A statement or a call fails, or the client goes away.
RequestStops(r) ==
  /\ at[r] # "idle"
  /\ Answered(r)
  /\ UNCHANGED cartTables

-----------------------------------------------------------------------------
CartStep(r) ==
  \/ LookupVariant(r)
  \/ GetActive(r)
  \/ CreateCart(r)
  \/ FindLine(r)
  \/ CheckCurrency(r)
  \/ CheckStock(r)
  \/ WriteUnits(r)
  \/ InsertLine(r)
  \/ DeleteLines(r)
  \/ ShowCart(r)

CartNext ==
  \E r \in Request :
    \/ \E body \in Body : Arrive(r, body)
    \/ CartStep(r)
    \/ RequestStops(r)

CartSpec == CartInit /\ [][CartNext]_cartVars

-----------------------------------------------------------------------------
(***************************************************************************)
(* Properties.                                                             *)
(***************************************************************************)

\* The variables have their types; a SKU has one line, and only a cart has lines.
CartTypeOK ==
  /\ active \in BOOLEAN
  /\ lines \subseteq Item /\ (lines # {} => active)
  /\ \A x, y \in lines : x.sku = y.sku => x = y
  /\ \A r \in Request :
       /\ req[r] \in Body \cup {NoRequest}
       /\ sold[r] \in Offer \cup {OffSale}
       /\ line[r] \in Item \cup {NoLine}

OneCurrency(L) == \A x, y \in L : x.offer.currency = y.offer.currency

UnitsOf(L, s) == LET found == LineOf(L, s) IN IF found = NoLine THEN 0 ELSE found.units

\* Request r writes its quantity in this step.
Writes(r) == at[r] = "write" /\ at'[r] = "idle" /\ lines' # lines

\* Another request has changed the cart since r read it.
Overtaken(r) == listed[r] # lines

(***************************************************************************)
(* ErrCurrencyMismatch: "every item in a cart must use the same currency". *)
(* The check and the INSERT are separate statements: a cart gets a second  *)
(* currency only when another request has inserted or removed a line       *)
(* between the two, and never through SetItemQuantity, RemoveItem or       *)
(* Clear.  (Checkout takes the currency of the oldest line for all.)       *)
(* AddItem: "If the line already exists its quantity is increased; the     *)
(* original price snapshot is kept."  An addition is lost, or added to a   *)
(* quantity that is no longer there, only when another request has changed *)
(* the cart since the line was read; a line that stays keeps its offer.    *)
(***************************************************************************)
OnlyOverlapsSpoilCarts ==
  [][/\ OneCurrency(lines) /\ ~OneCurrency(lines')
          => \E r \in Request : Writes(r) /\ req[r].op = "add" /\ Overtaken(r)
     /\ \A r \in Request :
          Writes(r) /\ req[r].op = "add" /\ ~Overtaken(r)
            => UnitsOf(lines', req[r].sku) = UnitsOf(lines, req[r].sku) + req[r].units
     /\ \A x \in lines, y \in lines' : x.id = y.id => x.offer = y.offer]_cartVars
=============================================================================
