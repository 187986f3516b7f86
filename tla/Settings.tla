------------------------------ MODULE Settings ------------------------------
(***************************************************************************)
(* order-service, package storeconfig: the tax configuration, shipping     *)
(* rates and coupons of one tenant, and the quote a checkout computes from *)
(* them (storeconfig/services/service.go).                                 *)
(*                                                                         *)
(* A PATCH reads the row and later writes it back with its own fields      *)
(* replaced; a quote reads the rate, the coupon and the tax configuration  *)
(* in three statements.  Managers and shoppers interleave at each of them. *)
(***************************************************************************)
EXTENDS Integers, FiniteSets

CONSTANTS
  Tax,         \* tax configurations managers may set: records [bps, inclusive]
  RateId,      \* shipping rates over time
  RateBody,    \* rows managers create: records [amount, freeOver, active]
  RatePatch,   \* PATCH bodies: functions from some fields of a rate to values
  CouponId,    \* coupons over time
  Code,        \* coupon codes; letter case does not matter (CITEXT)
  CouponBody,  \* rows managers create
  CouponPatch, \* PATCH bodies: functions from some fields of a coupon to values
  Unset,       \* NULL, and what is not there
  Gone,        \* a row that was deleted
  Day,         \* points in time
  Manager,     \* PATCH requests that may be in progress at the same time
  Shopper,     \* checkouts that may be in progress at the same time
  Subtotal,    \* cart values in cents
  MaxRedeemed  \* bound: redemptions of a coupon without a limit

\* Tax rates: hundredths of a per cent, at most 100 per cent.
BasisPoints == 0 .. 10000

RateFields == {"amount", "freeOver", "active"}

CouponFields == {"value", "minOrder", "max", "starts", "ends", "active"}

\* Binding tags and CHECK constraints of both kinds of rows.
RateRow ==
  [amount : Nat, freeOver : Nat \cup {Unset}, active : BOOLEAN]

CouponRow ==
  [code : Code, kind : {"PERCENT", "FIXED"}, value : Nat \ {0}, minOrder : Nat,
   max : (Nat \ {0}) \cup {Unset}, starts : Day \cup {Unset}, ends : Day \cup {Unset},
   active : BOOLEAN, redeemed : Nat]

\* What a PATCH may put into a field; none can be set back to NULL.
RateValues == [amount |-> Nat, freeOver |-> Nat, active |-> BOOLEAN]

CouponValues ==
  [value |-> Nat \ {0}, minOrder |-> Nat, max |-> Nat \ {0}, starts |-> Day, ends |-> Day,
   active |-> BOOLEAN]

CheckedCoupon(c) == c.kind = "PERCENT" => c.value <= 100

ASSUME SettingsAssumption ==
  /\ Tax \subseteq [bps : BasisPoints, inclusive : BOOLEAN]
  /\ RateBody \subseteq RateRow
  /\ \A p \in RatePatch : DOMAIN p # {} /\ DOMAIN p \subseteq RateFields
                          /\ \A f \in DOMAIN p : p[f] \in RateValues[f]
  /\ CouponBody \subseteq CouponRow /\ \A c \in CouponBody : c.redeemed = 0
  /\ \A p \in CouponPatch : DOMAIN p # {} /\ DOMAIN p \subseteq CouponFields
                            /\ \A f \in DOMAIN p : p[f] \in CouponValues[f]
  /\ Day \subseteq Nat /\ Subtotal \subseteq Nat /\ MaxRedeemed \in Nat
  /\ {Unset, Gone} \cap (RateRow \cup CouponRow) = {} /\ Unset # Gone

VARIABLES
  tax,         \* the row of order_config; without one, no tax
  rates,       \* table shipping_rates
  coupons,     \* table coupons
  now,         \* the time
  edit,        \* edit[m]: the PATCH request m, with the row it has read
  quote        \* quote[c]: the quote of checkout c, with the rows it has read

settingsVars == <<tax, rates, coupons, now, edit, quote>>

NoTax == [bps |-> 0, inclusive |-> FALSE]

SettingsInit ==
  /\ tax = NoTax
  /\ rates = [i \in RateId |-> Unset]
  /\ coupons = [i \in CouponId |-> Unset]
  /\ now = CHOOSE d \in Day : \A e \in Day : d <= e
  /\ edit = [m \in Manager |-> Unset]
  /\ quote = [c \in Shopper |-> Unset]

-----------------------------------------------------------------------------
(***************************************************************************)
(* The arithmetic of a quote, in cents.                                    *)
(***************************************************************************)
RoundDown(n, d) == n \div d

\* roundDiv: half a cent goes up.
RoundDiv(n, d) == (n + d \div 2) \div d

Smaller(a, b) == IF a < b THEN a ELSE b

\* Coupon.DiscountFor.
DiscountFor(c, subtotal) ==
  Smaller(IF c.kind = "PERCENT" THEN (subtotal * c.value) \div 100 ELSE c.value, subtotal)

\* ShippingRate.CostFor.
CostFor(r, worth) == IF r.freeOver # Unset /\ worth >= r.freeOver THEN 0 ELSE r.amount

\* Coupon.Redeemable.
Redeemable(c, subtotal) ==
  /\ c.active
  /\ c.starts # Unset => now >= c.starts
  /\ c.ends # Unset => now <= c.ends
  /\ c.max # Unset => c.redeemed < c.max
  /\ subtotal >= c.minOrder

TaxFor(t, worth) ==
  IF t.bps = 0 THEN 0
  ELSE IF t.inclusive THEN worth - RoundDiv(worth * 10000, 10000 + t.bps)
  ELSE RoundDiv(worth * t.bps, 10000)

-----------------------------------------------------------------------------
(***************************************************************************)
(* Managers.                                                               *)
(***************************************************************************)
Row(table, i) == table[i] \notin {Unset, Gone}

Existing(table) == {i \in DOMAIN table : Row(table, i)}

Patched(row, patch) == [f \in DOMAIN row |-> IF f \in DOMAIN patch THEN patch[f] ELSE row[f]]

SetTaxConfig(t) ==
  /\ tax' = t
  /\ UNCHANGED <<rates, coupons, now, edit, quote>>

CreateRate(i, body) ==
  /\ rates[i] = Unset
  /\ rates' = [rates EXCEPT ![i] = body]
  /\ UNCHANGED <<tax, coupons, now, edit, quote>>

\* UpdateShippingRate reads the row ...
ReadRate(m, i, patch) ==
  /\ edit[m] = Unset
  /\ i \in Existing(rates)
  /\ edit' = [edit EXCEPT ![m] = [of |-> "rate", id |-> i, patch |-> patch, row |-> rates[i]]]
  /\ UNCHANGED <<tax, rates, coupons, now, quote>>

\* ... and writes every column of it; no row is updated if it was deleted.
WriteRate(m) ==
  /\ edit[m] # Unset /\ edit[m].of = "rate"
  /\ rates' = IF Row(rates, edit[m].id)
                THEN [rates EXCEPT ![edit[m].id] = Patched(edit[m].row, edit[m].patch)]
                ELSE rates
  /\ edit' = [edit EXCEPT ![m] = Unset]
  /\ UNCHANGED <<tax, coupons, now, quote>>

DeleteRate(i) ==
  /\ i \in Existing(rates)
  /\ rates' = [rates EXCEPT ![i] = Gone]
  /\ UNCHANGED <<tax, coupons, now, edit, quote>>

\* coupons_tenant_code_key: a code belongs to one coupon (ErrCouponCodeTaken).
CreateCoupon(i, body) ==
  /\ coupons[i] = Unset
  /\ \A j \in Existing(coupons) : coupons[j].code # body.code
  /\ CheckedCoupon(body)
  /\ coupons' = [coupons EXCEPT ![i] = body]
  /\ UNCHANGED <<tax, rates, now, edit, quote>>

ReadCoupon(m, i, patch) ==
  /\ edit[m] = Unset
  /\ i \in Existing(coupons)
  /\ edit' = [edit EXCEPT ![m] = [of |-> "coupon", id |-> i, patch |-> patch, row |-> coupons[i]]]
  /\ UNCHANGED <<tax, rates, coupons, now, quote>>

WrittenWhole(stored, row) == row

\* The UPDATE names the columns of CouponFields: redeemed_count stays as it is.
Written(stored, row) == [row EXCEPT !.redeemed = stored.redeemed]

WriteCoupon(m) ==
  /\ edit[m] # Unset /\ edit[m].of = "coupon"
  /\ LET i == edit[m].id
         row == Patched(edit[m].row, edit[m].patch)
     IN  coupons' = IF Row(coupons, i) /\ CheckedCoupon(row)
                      THEN [coupons EXCEPT ![i] = Written(coupons[i], row)]
                      ELSE coupons
  /\ edit' = [edit EXCEPT ![m] = Unset]
  /\ UNCHANGED <<tax, rates, now, quote>>

DeleteCoupon(i) ==
  /\ i \in Existing(coupons)
  /\ coupons' = [coupons EXCEPT ![i] = Gone]
  /\ UNCHANGED <<tax, rates, now, edit, quote>>

TimePasses ==
  /\ \E d \in Day : d > now /\ now' = d
  /\ UNCHANGED <<tax, rates, coupons, edit, quote>>

-----------------------------------------------------------------------------
(***************************************************************************)
(* The quote of a checkout, statement by statement.                        *)
(***************************************************************************)
\* GetShippingRate; a rate that is not active is refused.
QuoteRate(c, subtotal, i, code) ==
  /\ quote[c] = Unset
  /\ i \in Existing(rates) /\ rates[i].active
  /\ quote' = [quote EXCEPT ![c] =
       [step |-> IF code = Unset THEN "tax" ELSE "coupon", subtotal |-> subtotal,
        rate |-> rates[i], code |-> code, coupon |-> Unset, row |-> Unset, discount |-> 0]]
  /\ UNCHANGED <<tax, rates, coupons, now, edit>>

\* CheckCoupon, and the same statements in QuoteFor: the coupon of a code, if it applies.
CheckCoupon(code, subtotal) ==
  {i \in Existing(coupons) : coupons[i].code = code /\ Redeemable(coupons[i], subtotal)}

QuoteCoupon(c) ==
  /\ quote[c] # Unset /\ quote[c].step = "coupon"
  /\ LET q == quote[c]
         found == CheckCoupon(q.code, q.subtotal)
     IN  quote' = [quote EXCEPT ![c] =
           IF found = {} THEN Unset
           ELSE LET i == CHOOSE i \in found : TRUE
                IN  [q EXCEPT !.step = "tax", !.coupon = i, !.row = coupons[i],
                              !.discount = DiscountFor(coupons[i], q.subtotal)]]
  /\ UNCHANGED <<tax, rates, coupons, now, edit>>

Priced(q, t) ==
  LET worth == q.subtotal - q.discount
      shipping == CostFor(q.rate, worth)
      due == TaxFor(t, worth)
  IN  [step |-> "priced", subtotal |-> q.subtotal, discount |-> q.discount,
       rate |-> q.rate, code |-> q.code, coupon |-> q.coupon, row |-> q.row,
       shipping |-> shipping, tax |-> due, config |-> t,
       total |-> worth + shipping + (IF t.inclusive THEN 0 ELSE due)]

\* GetTaxConfig, and the sums.
QuoteTax(c) ==
  /\ quote[c] # Unset /\ quote[c].step = "tax"
  /\ quote' = [quote EXCEPT ![c] = Priced(quote[c], tax)]
  /\ UNCHANGED <<tax, rates, coupons, now, edit>>

\* The order is written; RedeemCoupon counts unless the limit was reached meanwhile.
RedeemCoupon(c) ==
  /\ quote[c] # Unset /\ quote[c].step = "priced" /\ quote[c].coupon # Unset
  /\ LET i == quote[c].coupon
         counts == Row(coupons, i) /\ (coupons[i].max # Unset => coupons[i].redeemed < coupons[i].max)
     IN  /\ counts => coupons[i].redeemed < MaxRedeemed
         /\ coupons' = IF counts THEN [coupons EXCEPT ![i].redeemed = @ + 1] ELSE coupons
  /\ quote' = [quote EXCEPT ![c] = Unset]
  /\ UNCHANGED <<tax, rates, now, edit>>

\* Without a coupon there is nothing to redeem; a request may stop anywhere.
QuoteEnds(c) ==
  /\ quote[c] # Unset
  /\ quote' = [quote EXCEPT ![c] = Unset]
  /\ UNCHANGED <<tax, rates, coupons, now, edit>>

EditStops(m) ==
  /\ edit[m] # Unset
  /\ edit' = [edit EXCEPT ![m] = Unset]
  /\ UNCHANGED <<tax, rates, coupons, now, quote>>

-----------------------------------------------------------------------------
RateRequest ==
  \/ \E i \in RateId, body \in RateBody : CreateRate(i, body)
  \/ \E m \in Manager, i \in RateId, patch \in RatePatch : ReadRate(m, i, patch)
  \/ \E m \in Manager : WriteRate(m)
  \/ \E i \in RateId : DeleteRate(i)

CouponRequest ==
  \/ \E i \in CouponId, body \in CouponBody : CreateCoupon(i, body)
  \/ \E m \in Manager, i \in CouponId, patch \in CouponPatch : ReadCoupon(m, i, patch)
  \/ \E m \in Manager : WriteCoupon(m)
  \/ \E i \in CouponId : DeleteCoupon(i)

Checkout(c) ==
  \/ \E subtotal \in Subtotal, i \in RateId, code \in Code \cup {Unset} :
       QuoteRate(c, subtotal, i, code)
  \/ QuoteCoupon(c)
  \/ QuoteTax(c)
  \/ RedeemCoupon(c)
  \/ QuoteEnds(c)

SettingsNext ==
  \/ \E t \in Tax : SetTaxConfig(t)
  \/ RateRequest
  \/ CouponRequest
  \/ TimePasses
  \/ \E m \in Manager : EditStops(m)
  \/ \E c \in Shopper : Checkout(c)

SettingsSpec == SettingsInit /\ [][SettingsNext]_settingsVars

-----------------------------------------------------------------------------
(***************************************************************************)
(* Properties.                                                             *)
(***************************************************************************)

\* The tables hold rows that the CHECK constraints allow, with unique codes.
SettingsTypeOK ==
  /\ tax \in Tax \cup {NoTax}
  /\ \A i \in Existing(rates) : rates[i] \in RateRow
  /\ \A i \in Existing(coupons) :
       /\ coupons[i] \in CouponRow /\ CheckedCoupon(coupons[i])
       /\ \A j \in Existing(coupons) : coupons[i].code = coupons[j].code => i = j

Distance(a, b) == IF a < b THEN b - a ELSE a - b

(***************************************************************************)
(* Quote, "the computed money breakdown for an order": whatever changes    *)
(* between its three reads, the parts add up to the total, the discount is *)
(* never more than the cart is worth, shipping is free exactly from        *)
(* free_over_cents after the discount, and the tax is the exact one        *)
(* rounded to the nearest cent, on top of the prices or contained in them. *)
(***************************************************************************)
QuotesAddUp ==
  \A c \in Shopper : quote[c] # Unset /\ quote[c].step = "priced" =>
    LET q == quote[c]
        worth == q.subtotal - q.discount
        bps == q.config.bps
    IN  /\ q.discount \in 0 .. q.subtotal
        /\ q.row # Unset /\ q.row.kind = "PERCENT"
             => 100 * q.discount \in q.subtotal * q.row.value - 99 .. q.subtotal * q.row.value
        /\ q.shipping = 0 \/ q.rate.freeOver = Unset \/ worth < q.rate.freeOver
        /\ IF q.config.inclusive
             THEN /\ q.total = worth + q.shipping
                  /\ 2 * Distance((worth - q.tax) * (10000 + bps), worth * 10000) <= 10000 + bps
             ELSE /\ q.total = worth + q.shipping + q.tax
                  /\ 2 * Distance(q.tax * 10000, worth * bps) <= 10000

\* The write of request m in this step, if it is one of row i of a table.
WritesRow(m, of, i) ==
  edit[m] # Unset /\ edit'[m] = Unset /\ edit[m].of = of /\ edit[m].id = i

\* A field changes: the PATCH that is written names it, or has read an older row.
ChangedByPatch(of, i, field, row) ==
  \E m \in Manager :
    WritesRow(m, of, i) /\ (field \in DOMAIN edit[m].patch \/ edit[m].row # row)

(***************************************************************************)
(* UpdateCoupon and UpdateShippingRate "read, patch, write": a field that  *)
(* a PATCH does not name is put back to an older value only when another   *)
(* request has changed the row since it was read, and the number of        *)
(* redemptions, which checkouts count meanwhile, is never put back.        *)
(***************************************************************************)
OnlyOverlapsRevertSettings ==
  [][/\ \A i \in Existing(rates) : Row(rates', i) =>
          \A f \in RateFields :
            rates[i][f] # rates'[i][f] => ChangedByPatch("rate", i, f, rates[i])
     /\ \A i \in Existing(coupons) : Row(coupons', i) =>
          /\ coupons'[i].redeemed >= coupons[i].redeemed
          /\ \A f \in CouponFields :
               coupons[i][f] # coupons'[i][f] => ChangedByPatch("coupon", i, f, coupons[i])]_settingsVars
=============================================================================
