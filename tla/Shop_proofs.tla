---------------------------- MODULE Shop_proofs ----------------------------
(***************************************************************************)
(* Proofs about the components around the order that the run "shop" checks *)
(* side by side: the store settings and the quote (Settings), products and *)
(* variants (Products), the tree of categories (CategoryTree), attributes, *)
(* options and specs (Taxonomy), images and reviews (Showcase), the cart   *)
(* (Cart) and the migrator (Migrations), each for its own specification.   *)
(* The last part is about all eleven together: what MCShop follows is a    *)
(* behaviour of each of them, so that every theorem about one holds of it. *)
(***************************************************************************)
EXTENDS MCShop, StockLocks_proofs, Guards_proofs, Returns_proofs

-----------------------------------------------------------------------------
(***************************************************************************)
(* Settings: the arithmetic.                                               *)
(***************************************************************************)

LEMMA Quotient ==
  ASSUME NEW n \in Nat, NEW d \in Nat \ {0}
  PROVE  /\ n \div d \in Nat
         /\ (n \div d) * d <= n
         /\ n < (n \div d) * d + d
OBVIOUS

\* roundDiv is never off by more than half a cent.
LEMMA NearestCent ==
  ASSUME NEW n \in Nat, NEW d \in Nat \ {0}
  PROVE  RoundDiv(n, d) \in Nat /\ 2 * Distance(RoundDiv(n, d) * d, n) <= d
<1>1. PICK h \in Nat : h = d \div 2
  OBVIOUS
<1>2. 2 * h <= d /\ d <= 2 * h + 1
  BY <1>1
<1>3. PICK r \in Nat : r = (n + h) \div d
  BY Quotient
<1>4. r * d <= n + h /\ n + h < r * d + d
  BY <1>3, Quotient
<1>5. PICK m \in Nat : m = r * d
  OBVIOUS
<1>6. 2 * (m - n) <= d /\ 2 * (n - m) <= d
  BY <1>2, <1>4, <1>5
<1>7. 2 * Distance(m, n) <= d
  BY <1>6 DEF Distance
<1> QED  BY <1>1, <1>3, <1>5, <1>7 DEF RoundDiv

\* A percentage of the cart, in whole cents, rounded down.
LEMMA PercentOf ==
  ASSUME NEW s \in Nat, NEW v \in 0 .. 100
  PROVE  (s * v) \div 100 \in 0 .. s /\ 100 * ((s * v) \div 100) \in s * v - 99 .. s * v
<1>1. PICK n \in Nat : n = s * v
  OBVIOUS
<1>2. n <= 100 * s
  <2>1. s * v <= s * 100
    OBVIOUS
  <2> QED  BY <1>1, <2>1
<1>3. n \div 100 \in Nat /\ (n \div 100) * 100 <= n /\ n < (n \div 100) * 100 + 100
  BY Quotient
<1>4. PICK q \in Nat : q = n \div 100
  BY <1>3
<1>5. q \in 0 .. s /\ 100 * q \in n - 99 .. n
  BY <1>2, <1>3, <1>4
<1> QED  BY <1>1, <1>4, <1>5

\* What a coupon of 1 to 100 per cent, or of some cents, takes off.
LEMMA DiscountFits ==
  ASSUME NEW c \in CouponRow, CheckedCoupon(c), NEW s \in Nat
  PROVE  /\ DiscountFor(c, s) \in 0 .. s
         /\ c.kind = "PERCENT" => 100 * DiscountFor(c, s) \in s * c.value - 99 .. s * c.value
<1>1. c.value \in Nat \ {0} /\ c.kind \in {"PERCENT", "FIXED"}
  BY DEF CouponRow
<1>2. CASE c.kind = "PERCENT"
  <2>1. c.value \in 0 .. 100
    BY <1>1, <1>2 DEF CheckedCoupon
  <2>2. PICK d \in 0 .. s : d = (s * c.value) \div 100
    BY <2>1, PercentOf
  <2>3. DiscountFor(c, s) = d
    BY <1>2, <2>2 DEF DiscountFor, Smaller
  <2> QED  BY <2>1, <2>2, <2>3, PercentOf
<1>3. CASE c.kind # "PERCENT"
  BY <1>1, <1>3 DEF DiscountFor, Smaller
<1> QED  BY <1>2, <1>3

\* Tax on top of the price.
LEMMA TaxOnTop ==
  ASSUME NEW worth \in Nat, NEW bps \in Nat
  PROVE  2 * Distance(RoundDiv(worth * bps, 10000) * 10000, worth * bps) <= 10000
<1>1. PICK n \in Nat : n = worth * bps
  OBVIOUS
<1>2. 2 * Distance(RoundDiv(n, 10000) * 10000, n) <= 10000
  BY NearestCent
<1> QED  BY <1>1, <1>2

\* Tax contained in the price: the price less the tax, plus the tax, is the price.
LEMMA TaxContained ==
  ASSUME NEW worth \in Nat, NEW bps \in Nat
  PROVE  LET due == worth - RoundDiv(worth * 10000, 10000 + bps)
         IN  2 * Distance((worth - due) * (10000 + bps), worth * 10000) <= 10000 + bps
<1>1. PICK d \in Nat \ {0} : d = 10000 + bps
  OBVIOUS
<1>2. PICK n \in Nat : n = worth * 10000
  OBVIOUS
<1>3. PICK r \in Nat : r = RoundDiv(n, d)
  BY NearestCent
<1>4. 2 * Distance(r * d, n) <= d
  BY <1>3, NearestCent
<1>5. worth - (worth - r) = r
  OBVIOUS
<1> QED  BY <1>1, <1>2, <1>3, <1>4, <1>5

\* A quote before its tax is known.
OpenQuote ==
  [step : {"coupon", "tax"}, subtotal : Nat, rate : RateRow, code : Code \cup {Unset},
   coupon : CouponId \cup {Unset}, row : CouponRow \cup {Unset}, discount : Nat]

Discounted(q) ==
  /\ q.discount \in 0 .. q.subtotal
  /\ q.row # Unset /\ q.row.kind = "PERCENT"
       => 100 * q.discount \in q.subtotal * q.row.value - 99 .. q.subtotal * q.row.value

\* What QuotesAddUp says of one quote.
AddsUp(q) ==
  LET worth == q.subtotal - q.discount
      bps == q.config.bps
  IN  /\ q.discount \in 0 .. q.subtotal
      /\ q.row # Unset /\ q.row.kind = "PERCENT"
           => 100 * q.discount \in q.subtotal * q.row.value - 99 .. q.subtotal * q.row.value
      /\ q.shipping = 0 \/ q.rate.freeOver = Unset \/ worth < q.rate.freeOver
      /\ IF q.config.inclusive
           THEN /\ q.total = worth + q.shipping
                /\ 2 * Distance((worth - q.tax) * (10000 + bps), worth * 10000) <= 10000 + bps
           ELSE /\ q.total = worth + q.shipping + q.tax
                /\ 2 * Distance(q.tax * 10000, worth * bps) <= 10000

LEMMA BasisPointsAreNumbers == BasisPoints \subseteq Nat
BY DEF BasisPoints

LEMMA PricedAddsUp ==
  ASSUME NEW q \in OpenQuote, Discounted(q), NEW t \in [bps : BasisPoints, inclusive : BOOLEAN]
  PROVE  AddsUp(Priced(q, t)) /\ Priced(q, t).step = "priced" /\ Priced(q, t).coupon = q.coupon
<1>1. PICK p : p = Priced(q, t)
  OBVIOUS
<1>2. q.subtotal \in Nat /\ q.discount \in 0 .. q.subtotal /\ q.rate \in RateRow
  BY DEF OpenQuote, Discounted
<1>3. PICK worth \in Nat : worth = q.subtotal - q.discount
  BY <1>2
<1>4. t.bps \in BasisPoints /\ t.inclusive \in BOOLEAN
  OBVIOUS
<1>5. PICK bps \in Nat : bps = t.bps
  BY <1>4, BasisPointsAreNumbers
<1>6. /\ p.step = "priced" /\ p.subtotal = q.subtotal /\ p.discount = q.discount
      /\ p.rate = q.rate /\ p.row = q.row /\ p.coupon = q.coupon /\ p.config = t
      /\ p.shipping = CostFor(q.rate, worth) /\ p.tax = TaxFor(t, worth)
      /\ p.total = worth + p.shipping + (IF t.inclusive THEN 0 ELSE p.tax)
  BY <1>1, <1>3 DEF Priced
<1>7. CostFor(q.rate, worth) \in Nat
      /\ (CostFor(q.rate, worth) = 0 \/ q.rate.freeOver = Unset \/ worth < q.rate.freeOver)
  <2>1. q.rate.amount \in Nat /\ q.rate.freeOver \in Nat \cup {Unset}
    BY <1>2 DEF RateRow
  <2> QED  BY <1>3, <2>1 DEF CostFor
<1>8. PICK due : due = p.tax
  OBVIOUS
<1>9. ASSUME t.inclusive
      PROVE  /\ p.total = worth + p.shipping
             /\ 2 * Distance((worth - due) * (10000 + bps), worth * 10000) <= 10000 + bps
  <2>1. p.total = worth + p.shipping
    BY <1>3, <1>6, <1>7, <1>9
  <2>2. CASE bps = 0
    <3>1. due = 0
      BY <1>5, <1>6, <1>8, <2>2 DEF TaxFor
    <3> QED  BY <1>3, <2>1, <2>2, <3>1 DEF Distance
  <2>3. CASE bps # 0
    <3>1. due = worth - RoundDiv(worth * 10000, 10000 + bps)
      BY <1>5, <1>6, <1>8, <1>9, <2>3 DEF TaxFor
    <3>2. 2 * Distance((worth - due) * (10000 + bps), worth * 10000) <= 10000 + bps
      BY ONLY <1>3, <1>5, <3>1, TaxContained
    <3> QED  BY <2>1, <3>2
  <2> QED  BY <2>2, <2>3
<1>10. ASSUME ~t.inclusive
       PROVE  /\ p.total = worth + p.shipping + due
              /\ 2 * Distance(due * 10000, worth * bps) <= 10000
  <2>1. p.total = worth + p.shipping + due
    BY <1>6, <1>8, <1>10
  <2>2. CASE bps = 0
    <3>1. due = 0
      BY <1>5, <1>6, <1>8, <2>2 DEF TaxFor
    <3>2. worth * bps = 0
      BY <2>2
    <3> QED  BY <2>1, <3>1, <3>2 DEF Distance
  <2>3. CASE bps # 0
    <3>1. due = RoundDiv(worth * bps, 10000)
      BY <1>5, <1>6, <1>8, <1>10, <2>3 DEF TaxFor
    <3>2. 2 * Distance(due * 10000, worth * bps) <= 10000
      BY ONLY <1>3, <1>5, <3>1, TaxOnTop
    <3> QED  BY <2>1, <3>2
  <2> QED  BY <2>2, <2>3
<1>11. AddsUp(p)
  <2>1. p.discount \in 0 .. p.subtotal
    BY <1>2, <1>6
  <2>2. p.row # Unset /\ p.row.kind = "PERCENT"
          => 100 * p.discount \in p.subtotal * p.row.value - 99 .. p.subtotal * p.row.value
    BY <1>6 DEF Discounted
  <2>3. p.shipping = 0 \/ p.rate.freeOver = Unset \/ p.subtotal - p.discount < p.rate.freeOver
    BY <1>3, <1>6, <1>7
  <2>4. worth = p.subtotal - p.discount /\ p.config.bps = bps /\ p.config.inclusive = t.inclusive
    BY <1>3, <1>5, <1>6
  <2> QED  BY <1>8, <1>9, <1>10, <2>1, <2>2, <2>3, <2>4 DEF AddsUp
<1> QED  BY <1>1, <1>6, <1>11

-----------------------------------------------------------------------------
(***************************************************************************)
(* Settings: the inductive invariant.                                      *)
(***************************************************************************)
RateEdit == [of : {"rate"}, id : RateId, patch : RatePatch, row : RateRow]

CouponEdit == [of : {"coupon"}, id : CouponId, patch : CouponPatch, row : CouponRow]

\* The tables: an absent or deleted row is told from a row.
SettingsTables ==
  /\ tax \in Tax \cup {NoTax}
  /\ rates \in [RateId -> RateRow \cup {Unset, Gone}]
  /\ coupons \in [CouponId -> CouponRow \cup {Unset, Gone}]
  /\ edit \in [Manager -> RateEdit \cup CouponEdit \cup {Unset}]
  /\ DOMAIN quote = Shopper

CouponsChecked ==
  \A i \in CouponId : Row(coupons, i) => CheckedCoupon(coupons[i])

CodesUnique ==
  \A i, j \in CouponId :
    Row(coupons, i) /\ Row(coupons, j) /\ coupons[i].code = coupons[j].code => i = j

\* The code of a coupon is never patched, and an id is never used again: the row a
\* request has read has the code of the row it will write.
CodesKept ==
  \A m \in Manager : edit[m] # Unset /\ edit[m].of = "coupon" =>
    /\ coupons[edit[m].id] # Unset
    /\ Row(coupons, edit[m].id) => coupons[edit[m].id].code = edit[m].row.code

SoundQuote(q) ==
  \/ q = Unset
  \/ q \in OpenQuote /\ Discounted(q)
  \/ q.step = "priced" /\ AddsUp(q) /\ q.coupon \in CouponId \cup {Unset}

QuotesSound == \A c \in Shopper : SoundQuote(quote[c])

SettingsInv == SettingsTables /\ CouponsChecked /\ CodesUnique /\ CodesKept /\ QuotesSound

\* A patched row is a row.
LEMMA PatchedRate ==
  ASSUME NEW row \in RateRow, NEW patch \in RatePatch
  PROVE  /\ Patched(row, patch) \in RateRow
         /\ \A f \in RateFields : f \notin DOMAIN patch => Patched(row, patch)[f] = row[f]
<1>1. DOMAIN row = {"amount", "freeOver", "active"}
  BY DEF RateRow
<1>2. row.amount \in Nat /\ row.freeOver \in Nat \cup {Unset} /\ row.active \in BOOLEAN
  BY DEF RateRow
<1>3. \A f \in DOMAIN patch : patch[f] \in RateValues[f]
  BY SettingsAssumption
<1>4. PICK new : new = [f \in {"amount", "freeOver", "active"} |->
                          IF f \in DOMAIN patch THEN patch[f] ELSE row[f]]
  OBVIOUS
<1>5. new = Patched(row, patch)
  BY <1>1, <1>4 DEF Patched
<1>6. new.amount \in Nat /\ new.freeOver \in Nat \cup {Unset} /\ new.active \in BOOLEAN
  BY <1>2, <1>3, <1>4 DEF RateValues
<1>7. new = [amount |-> new.amount, freeOver |-> new.freeOver, active |-> new.active]
  BY <1>4
<1>8. new \in RateRow
  BY <1>6, <1>7 DEF RateRow
<1>9. \A f \in RateFields : f \notin DOMAIN patch => new[f] = row[f]
  BY <1>4 DEF RateFields
<1> QED  BY <1>5, <1>8, <1>9

LEMMA PatchedCoupon ==
  ASSUME NEW row \in CouponRow, NEW patch \in CouponPatch
  PROVE  /\ Patched(row, patch) \in CouponRow
         /\ Patched(row, patch).code = row.code
         /\ \A f \in CouponFields : f \notin DOMAIN patch => Patched(row, patch)[f] = row[f]
<1> DEFINE all == {"code", "kind", "value", "minOrder", "max", "starts", "ends", "active", "redeemed"}
<1>1. DOMAIN row = all
  BY DEF CouponRow
<1>2. /\ row.code \in Code /\ row.kind \in {"PERCENT", "FIXED"}
      /\ row.value \in Nat \ {0} /\ row.minOrder \in Nat
      /\ row.max \in (Nat \ {0}) \cup {Unset} /\ row.starts \in Day \cup {Unset}
      /\ row.ends \in Day \cup {Unset} /\ row.active \in BOOLEAN /\ row.redeemed \in Nat
  BY DEF CouponRow
<1>3. DOMAIN patch \subseteq CouponFields /\ \A f \in DOMAIN patch : patch[f] \in CouponValues[f]
  BY SettingsAssumption
<1>4. PICK new : new = [f \in all |-> IF f \in DOMAIN patch THEN patch[f] ELSE row[f]]
  OBVIOUS
<1>5. new = Patched(row, patch)
  BY <1>1, <1>4 DEF Patched
<1>6. new.code = row.code /\ new.kind = row.kind /\ new.redeemed = row.redeemed
  BY <1>3, <1>4 DEF CouponFields
<1>7. /\ new.value \in Nat \ {0} /\ new.minOrder \in Nat
      /\ new.max \in (Nat \ {0}) \cup {Unset} /\ new.starts \in Day \cup {Unset}
      /\ new.ends \in Day \cup {Unset} /\ new.active \in BOOLEAN
  BY <1>2, <1>3, <1>4 DEF CouponValues
<1>8. new = [code |-> new.code, kind |-> new.kind, value |-> new.value,
             minOrder |-> new.minOrder, max |-> new.max, starts |-> new.starts,
             ends |-> new.ends, active |-> new.active, redeemed |-> new.redeemed]
  BY <1>4
<1>9. new \in CouponRow
  BY <1>2, <1>6, <1>7, <1>8 DEF CouponRow
<1>10. \A f \in CouponFields : f \notin DOMAIN patch => new[f] = row[f]
  BY <1>4 DEF CouponFields
<1> QED  BY <1>5, <1>6, <1>9, <1>10

\* Setting the number of redemptions of a row leaves its other columns as they are.
LEMMA RedeemedRow ==
  ASSUME NEW row \in CouponRow, NEW n \in Nat
  PROVE  LET new == [row EXCEPT !.redeemed = n]
         IN  /\ new \in CouponRow
             /\ new.redeemed = n /\ new.code = row.code
             /\ CheckedCoupon(row) => CheckedCoupon(new)
             /\ \A f \in CouponFields : new[f] = row[f]
<1>1. PICK new : new = [row EXCEPT !.redeemed = n]
  OBVIOUS
<1>2. /\ new.code = row.code /\ new.kind = row.kind /\ new.value = row.value
      /\ new.minOrder = row.minOrder /\ new.max = row.max /\ new.starts = row.starts
      /\ new.ends = row.ends /\ new.active = row.active /\ new.redeemed = n
  BY <1>1 DEF CouponRow
<1>3. new \in CouponRow
  BY <1>1 DEF CouponRow
<1>4. \A f \in CouponFields : new[f] = row[f]
  BY <1>1, <1>2 DEF CouponFields
<1>5. CheckedCoupon(row) => CheckedCoupon(new)
  BY <1>2 DEF CheckedCoupon
<1> QED  BY <1>1, <1>2, <1>3, <1>4, <1>5

\* A step that leaves coupons and quotes alone, as the steps of shipping rates do.
LEMMA RatesStep ==
  ASSUME SettingsInv,
         tax' \in Tax \cup {NoTax},
         rates' \in [RateId -> RateRow \cup {Unset, Gone}],
         edit' \in [Manager -> RateEdit \cup CouponEdit \cup {Unset}],
         \A m \in Manager : edit'[m] \in {Unset, edit[m]} \/ edit'[m].of = "rate",
         coupons' = coupons, quote' = quote
  PROVE  SettingsInv'
<1>1. SettingsTables'
  BY DEF SettingsInv, SettingsTables
<1>2. CouponsChecked' /\ CodesUnique'
  BY DEF SettingsInv, CouponsChecked, CodesUnique, Row
<1>3. CodesKept'
  BY DEF SettingsInv, CodesKept, Row
<1>4. QuotesSound'
  BY DEF SettingsInv, QuotesSound
<1> QED  BY <1>1, <1>2, <1>3, <1>4 DEF SettingsInv

\* A step of the coupons that gives no id a second code.
LEMMA CouponsStep ==
  ASSUME SettingsInv,
         tax' = tax, rates' = rates,
         coupons' \in [CouponId -> CouponRow \cup {Unset, Gone}],
         CouponsChecked', CodesUnique',
         \A i \in CouponId : coupons[i] # Unset =>
           /\ coupons'[i] # Unset
           /\ Row(coupons', i) => Row(coupons, i) /\ coupons'[i].code = coupons[i].code,
         edit' \in [Manager -> RateEdit \cup CouponEdit \cup {Unset}],
         \A m \in Manager : edit'[m] \in {Unset, edit[m]},
         DOMAIN quote' = Shopper, QuotesSound'
  PROVE  SettingsInv'
<1>1. SettingsTables'
  BY DEF SettingsInv, SettingsTables
<1>2. CodesKept'
  <2> SUFFICES ASSUME NEW m \in Manager, edit'[m] # Unset, edit'[m].of = "coupon"
               PROVE  /\ coupons'[edit'[m].id] # Unset
                      /\ Row(coupons', edit'[m].id)
                           => coupons'[edit'[m].id].code = edit'[m].row.code
    BY DEF CodesKept, Row
  <2>1. edit'[m] = edit[m]
    OBVIOUS
  <2>2. edit[m] \in CouponEdit
    BY <2>1 DEF RateEdit
  <2>3. edit[m].id \in CouponId
    BY <2>2 DEF CouponEdit
  <2> QED  BY <2>1, <2>3 DEF SettingsInv, CodesKept
<1> QED  BY <1>1, <1>2 DEF SettingsInv

\* A step that only changes quotes.
LEMMA QuotesStep ==
  ASSUME SettingsInv, NEW c \in Shopper, NEW q, SoundQuote(q),
         quote' = [quote EXCEPT ![c] = q],
         tax' = tax, rates' = rates, coupons' = coupons, edit' = edit
  PROVE  SettingsInv'
<1>1. /\ DOMAIN quote' = Shopper
      /\ quote'[c] = q /\ \A d \in Shopper \ {c} : quote'[d] = quote[d]
  BY DEF SettingsInv, SettingsTables
<1>2. QuotesSound'
  <2> SUFFICES ASSUME NEW d \in Shopper
               PROVE  SoundQuote(quote'[d])
    BY DEF QuotesSound
  <2> QED  BY <1>1 DEF SettingsInv, QuotesSound
<1>3. CouponsChecked' /\ CodesUnique' /\ CodesKept'
  BY DEF SettingsInv, CouponsChecked, CodesUnique, CodesKept, Row
<1>4. SettingsTables'
  BY <1>1 DEF SettingsInv, SettingsTables
<1> QED  BY <1>2, <1>3, <1>4 DEF SettingsInv

LEMMA RateKeeps ==
  ASSUME SettingsInv, RateRequest
  PROVE  SettingsInv'
<1>1. ASSUME NEW i \in RateId, NEW body \in RateBody, CreateRate(i, body)
      PROVE  SettingsInv'
  <2>1. body \in RateRow
    BY SettingsAssumption
  <2> QED  BY <1>1, <2>1, RatesStep DEF CreateRate, SettingsInv, SettingsTables
<1>2. ASSUME NEW m \in Manager, NEW i \in RateId, NEW patch \in RatePatch, ReadRate(m, i, patch)
      PROVE  SettingsInv'
  <2>1. rates[i] \in RateRow
    BY <1>2 DEF ReadRate, Existing, Row, SettingsInv, SettingsTables
  <2>2. PICK e : e = [of |-> "rate", id |-> i, patch |-> patch, row |-> rates[i]]
    OBVIOUS
  <2>3. e \in RateEdit /\ e.of = "rate"
    BY <2>1, <2>2 DEF RateEdit
  <2>4. edit' = [edit EXCEPT ![m] = e]
    BY <1>2, <2>2 DEF ReadRate
  <2>5. /\ edit' \in [Manager -> RateEdit \cup CouponEdit \cup {Unset}]
        /\ \A n \in Manager : edit'[n] \in {Unset, edit[n]} \/ edit'[n].of = "rate"
    BY <2>3, <2>4 DEF SettingsInv, SettingsTables
  <2> QED  BY <1>2, <2>5, RatesStep DEF ReadRate, SettingsInv, SettingsTables
<1>3. ASSUME NEW m \in Manager, WriteRate(m)
      PROVE  SettingsInv'
  <2>1. edit[m] \in RateEdit
    BY <1>3 DEF WriteRate, SettingsInv, SettingsTables, CouponEdit
  <2>2. edit[m].id \in RateId /\ edit[m].row \in RateRow /\ edit[m].patch \in RatePatch
    BY <2>1 DEF RateEdit
  <2>3. PICK row \in RateRow : row = Patched(edit[m].row, edit[m].patch)
    BY <2>2, PatchedRate
  <2>4. rates' \in [RateId -> RateRow \cup {Unset, Gone}]
    BY <1>3, <2>2, <2>3 DEF WriteRate, SettingsInv, SettingsTables
  <2>5. /\ edit' \in [Manager -> RateEdit \cup CouponEdit \cup {Unset}]
        /\ \A n \in Manager : edit'[n] \in {Unset, edit[n]}
    BY <1>3 DEF WriteRate, SettingsInv, SettingsTables
  <2> QED  BY <1>3, <2>4, <2>5, RatesStep DEF WriteRate, SettingsInv, SettingsTables
<1>4. ASSUME NEW i \in RateId, DeleteRate(i)
      PROVE  SettingsInv'
  BY <1>4, RatesStep DEF DeleteRate, SettingsInv, SettingsTables
<1> QED  BY <1>1, <1>2, <1>3, <1>4 DEF RateRequest

\* What may be read and written of the coupon of one id, while the others keep theirs.
LEMMA OneCouponStep ==
  ASSUME SettingsInv, NEW i \in CouponId, NEW new \in CouponRow,
         Row(coupons, i) /\ new.code = coupons[i].code /\ CheckedCoupon(new),
         coupons' = [coupons EXCEPT ![i] = new]
  PROVE  /\ coupons' \in [CouponId -> CouponRow \cup {Unset, Gone}]
         /\ CouponsChecked' /\ CodesUnique'
         /\ \A j \in CouponId : coupons[j] # Unset =>
              /\ coupons'[j] # Unset
              /\ Row(coupons', j) => Row(coupons, j) /\ coupons'[j].code = coupons[j].code
<1>1. new # Unset /\ new # Gone
  BY SettingsAssumption
<1>2. /\ coupons' \in [CouponId -> CouponRow \cup {Unset, Gone}]
      /\ coupons'[i] = new /\ \A j \in CouponId \ {i} : coupons'[j] = coupons[j]
  BY DEF SettingsInv, SettingsTables
<1>3. CouponsChecked'
  BY <1>2 DEF SettingsInv, CouponsChecked, Row
<1>4. \A j \in CouponId : Row(coupons', j) => Row(coupons, j) /\ coupons'[j].code = coupons[j].code
  BY <1>2 DEF Row
<1>5. CodesUnique'
  BY <1>4 DEF SettingsInv, CodesUnique, Row
<1>6. \A j \in CouponId : coupons[j] # Unset => coupons'[j] # Unset
  BY <1>1, <1>2
<1> QED  BY <1>2, <1>3, <1>4, <1>5, <1>6

LEMMA CouponKeeps ==
  ASSUME SettingsInv, CouponRequest
  PROVE  SettingsInv'
<1>1. ASSUME NEW i \in CouponId, NEW body \in CouponBody, CreateCoupon(i, body)
      PROVE  SettingsInv'
  <2>1. body \in CouponRow
    BY SettingsAssumption
  <2>2. body # Unset /\ body # Gone
    BY <2>1, SettingsAssumption
  <2>3. /\ coupons' \in [CouponId -> CouponRow \cup {Unset, Gone}]
        /\ coupons'[i] = body /\ \A j \in CouponId \ {i} : coupons'[j] = coupons[j]
    BY <1>1, <2>1 DEF CreateCoupon, SettingsInv, SettingsTables
  <2>4. CouponsChecked'
    BY <1>1, <2>3 DEF CreateCoupon, SettingsInv, CouponsChecked, Row
  <2>5. \A j \in CouponId \ {i} : Row(coupons', j) => Row(coupons, j) /\ coupons'[j].code # body.code
    BY <1>1, <2>3 DEF CreateCoupon, Existing, Row, SettingsInv, SettingsTables
  <2>6. CodesUnique'
    BY <2>3, <2>5 DEF SettingsInv, CodesUnique, Row
  <2>7. \A j \in CouponId : coupons[j] # Unset =>
          /\ coupons'[j] # Unset
          /\ Row(coupons', j) => Row(coupons, j) /\ coupons'[j].code = coupons[j].code
    BY <1>1, <2>3 DEF CreateCoupon, Row
  <2> QED  BY <1>1, <2>3, <2>4, <2>6, <2>7, CouponsStep
           DEF CreateCoupon, SettingsInv, SettingsTables, QuotesSound
<1>2. ASSUME NEW m \in Manager, NEW i \in CouponId, NEW patch \in CouponPatch,
             ReadCoupon(m, i, patch)
      PROVE  SettingsInv'
  <2>1. coupons[i] \in CouponRow /\ Row(coupons, i)
    BY <1>2 DEF ReadCoupon, Existing, Row, SettingsInv, SettingsTables
  <2>2. PICK e : e = [of |-> "coupon", id |-> i, patch |-> patch, row |-> coupons[i]]
    OBVIOUS
  <2>3. e \in CouponEdit /\ e.id = i /\ e.row = coupons[i]
    BY <2>1, <2>2 DEF CouponEdit
  <2>4. edit' = [edit EXCEPT ![m] = e]
    BY <1>2, <2>2 DEF ReadCoupon
  <2>5. /\ edit' \in [Manager -> RateEdit \cup CouponEdit \cup {Unset}]
        /\ edit'[m] = e /\ \A n \in Manager \ {m} : edit'[n] = edit[n]
    BY <2>3, <2>4 DEF SettingsInv, SettingsTables
  <2>6. UNCHANGED <<tax, rates, coupons, quote>>
    BY <1>2 DEF ReadCoupon
  <2>7. CodesKept'
    BY <2>1, <2>3, <2>5, <2>6 DEF SettingsInv, CodesKept, Row
  <2>8. CouponsChecked' /\ CodesUnique' /\ QuotesSound'
    BY <2>6 DEF SettingsInv, CouponsChecked, CodesUnique, QuotesSound, Row
  <2>9. SettingsTables'
    BY <2>5, <2>6 DEF SettingsInv, SettingsTables
  <2> QED  BY <2>7, <2>8, <2>9 DEF SettingsInv
<1>3. ASSUME NEW m \in Manager, WriteCoupon(m)
      PROVE  SettingsInv'
  <2>1. edit[m] \in CouponEdit /\ edit[m] # Unset /\ edit[m].of = "coupon"
    BY <1>3 DEF WriteCoupon, SettingsInv, SettingsTables, RateEdit
  <2>2. PICK i \in CouponId : i = edit[m].id
    BY <2>1 DEF CouponEdit
  <2>3. edit[m].row \in CouponRow /\ edit[m].patch \in CouponPatch
    BY <2>1 DEF CouponEdit
  <2>4. PICK row \in CouponRow : row = Patched(edit[m].row, edit[m].patch) /\ row.code = edit[m].row.code
    BY <2>3, PatchedCoupon
  <2>5. /\ edit' \in [Manager -> RateEdit \cup CouponEdit \cup {Unset}]
        /\ \A n \in Manager : edit'[n] \in {Unset, edit[n]}
    BY <1>3 DEF WriteCoupon, SettingsInv, SettingsTables
  <2>6. UNCHANGED <<tax, rates, quote>> /\ DOMAIN quote' = Shopper /\ QuotesSound'
    BY <1>3 DEF WriteCoupon, SettingsInv, SettingsTables, QuotesSound
  <2>7. CASE Row(coupons, i) /\ CheckedCoupon(row)
    <3>1. coupons[i] \in CouponRow /\ coupons[i].code = edit[m].row.code
      BY <2>1, <2>2, <2>7 DEF Row, SettingsInv, SettingsTables, CodesKept
    <3>2. PICK new : new = Written(coupons[i], row)
      OBVIOUS
    <3>3. coupons[i].redeemed \in Nat
      BY <3>1 DEF CouponRow
    <3>4. new \in CouponRow /\ new.code = row.code /\ CheckedCoupon(new)
      BY <2>7, <3>2, <3>3, RedeemedRow DEF Written
    <3>5. coupons' = [coupons EXCEPT ![i] = new]
      BY <1>3, <2>2, <2>4, <2>7, <3>2 DEF WriteCoupon
    <3> QED  BY <2>4, <2>5, <2>6, <2>7, <3>1, <3>4, <3>5, OneCouponStep, CouponsStep
  <2>8. CASE ~(Row(coupons, i) /\ CheckedCoupon(row))
    <3>1. coupons' = coupons
      BY <1>3, <2>2, <2>4, <2>8 DEF WriteCoupon
    <3> QED  BY <2>5, <2>6, <3>1, CouponsStep
             DEF SettingsInv, SettingsTables, CouponsChecked, CodesUnique, Row
  <2> QED  BY <2>7, <2>8
<1>4. ASSUME NEW i \in CouponId, DeleteCoupon(i)
      PROVE  SettingsInv'
  <2>1. /\ coupons' \in [CouponId -> CouponRow \cup {Unset, Gone}]
        /\ coupons'[i] = Gone /\ \A j \in CouponId \ {i} : coupons'[j] = coupons[j]
    BY <1>4 DEF DeleteCoupon, SettingsInv, SettingsTables
  <2>2. CouponsChecked' /\ CodesUnique'
    BY <2>1 DEF SettingsInv, CouponsChecked, CodesUnique, Row
  <2>3. \A j \in CouponId : coupons[j] # Unset =>
          /\ coupons'[j] # Unset
          /\ Row(coupons', j) => Row(coupons, j) /\ coupons'[j].code = coupons[j].code
    BY <2>1, SettingsAssumption DEF Row
  <2> QED  BY <1>4, <2>1, <2>2, <2>3, CouponsStep
           DEF DeleteCoupon, SettingsInv, SettingsTables, QuotesSound
<1> QED  BY <1>1, <1>2, <1>3, <1>4 DEF CouponRequest

LEMMA QuoteKeeps ==
  ASSUME SettingsInv, NEW c \in Shopper, Checkout(c)
  PROVE  SettingsInv'
<1>1. ASSUME NEW subtotal \in Subtotal, NEW i \in RateId, NEW code \in Code \cup {Unset},
             QuoteRate(c, subtotal, i, code)
      PROVE  SettingsInv'
  <2>1. rates[i] \in RateRow
    BY <1>1 DEF QuoteRate, Existing, Row, SettingsInv, SettingsTables
  <2>2. subtotal \in Nat
    BY SettingsAssumption
  <2>3. PICK q : q = [step |-> IF code = Unset THEN "tax" ELSE "coupon", subtotal |-> subtotal,
                      rate |-> rates[i], code |-> code, coupon |-> Unset, row |-> Unset, discount |-> 0]
    OBVIOUS
  <2>4. q \in OpenQuote
    BY <2>1, <2>2, <2>3 DEF OpenQuote
  <2>5. Discounted(q)
    BY <2>2, <2>3 DEF Discounted
  <2>6. quote' = [quote EXCEPT ![c] = q]
    BY <1>1, <2>3 DEF QuoteRate
  <2> QED  BY <1>1, <2>4, <2>5, <2>6, QuotesStep DEF QuoteRate, SoundQuote
<1>2. CASE QuoteCoupon(c)
  <2>1. PICK q : q = quote[c]
    OBVIOUS
  <2>2. q \in OpenQuote /\ Discounted(q)
    BY <1>2, <2>1 DEF QuoteCoupon, SettingsInv, QuotesSound, SoundQuote
  <2>3. PICK found : found = CheckCoupon(q.code, q.subtotal)
    OBVIOUS
  <2>4. CASE found = {}
    <3>1. quote' = [quote EXCEPT ![c] = Unset]
      BY <1>2, <2>1, <2>3, <2>4 DEF QuoteCoupon
    <3> QED  BY <1>2, <3>1, QuotesStep DEF QuoteCoupon, SoundQuote
  <2>5. CASE found # {}
    <3>1. PICK i \in found : i = CHOOSE j \in found : TRUE
      BY <2>5
    <3>2. i \in CouponId /\ Row(coupons, i) /\ coupons[i] \in CouponRow /\ CheckedCoupon(coupons[i])
      BY <2>3, <3>1 DEF CheckCoupon, Existing, Row, SettingsInv, SettingsTables, CouponsChecked
    <3>3. PICK row \in CouponRow : row = coupons[i] /\ CheckedCoupon(row)
      BY <3>2
    <3>4. q.subtotal \in Nat
      BY <2>2 DEF OpenQuote
    <3>5. PICK less \in Nat :
            /\ less = DiscountFor(row, q.subtotal) /\ less \in 0 .. q.subtotal
            /\ row.kind = "PERCENT"
                 => 100 * less \in q.subtotal * row.value - 99 .. q.subtotal * row.value
      BY <3>3, <3>4, DiscountFits
    <3>6. PICK p : p = [q EXCEPT !.step = "tax", !.coupon = i, !.row = row, !.discount = less]
      OBVIOUS
    <3>7. /\ p \in OpenQuote
          /\ p.subtotal = q.subtotal /\ p.row = row /\ p.discount = less
      BY <2>2, <3>2, <3>6 DEF OpenQuote
    <3>8. Discounted(p)
      BY <3>5, <3>7 DEF Discounted
    <3>9. quote' = [quote EXCEPT ![c] = p]
      BY <1>2, <2>1, <2>3, <2>5, <3>1, <3>3, <3>5, <3>6 DEF QuoteCoupon
    <3> QED  BY <1>2, <3>7, <3>8, <3>9, QuotesStep DEF QuoteCoupon, SoundQuote
  <2> QED  BY <2>4, <2>5
<1>3. CASE QuoteTax(c)
  <2>1. PICK q : q = quote[c]
    OBVIOUS
  <2>2. q \in OpenQuote /\ Discounted(q)
    BY <1>3, <2>1 DEF QuoteTax, SettingsInv, QuotesSound, SoundQuote
  <2>3. tax \in [bps : BasisPoints, inclusive : BOOLEAN]
    <3>1. 0 \in BasisPoints
      BY DEF BasisPoints
    <3>2. NoTax \in [bps : BasisPoints, inclusive : BOOLEAN]
      BY <3>1 DEF NoTax
    <3>3. Tax \subseteq [bps : BasisPoints, inclusive : BOOLEAN]
      BY SettingsAssumption
    <3> QED  BY <3>2, <3>3 DEF SettingsInv, SettingsTables
  <2>4. PICK p : p = Priced(q, tax)
    OBVIOUS
  <2>5. AddsUp(p) /\ p.step = "priced" /\ p.coupon = q.coupon
    BY <2>2, <2>3, <2>4, PricedAddsUp
  <2>6. p.coupon \in CouponId \cup {Unset}
    BY <2>2, <2>5 DEF OpenQuote
  <2>7. quote' = [quote EXCEPT ![c] = p]
    BY <1>3, <2>1, <2>4 DEF QuoteTax
  <2> QED  BY <1>3, <2>5, <2>6, <2>7, QuotesStep DEF QuoteTax, SoundQuote
<1>4. CASE RedeemCoupon(c)
  <2>1. PICK i : i = quote[c].coupon
    OBVIOUS
  <2>2. i \in CouponId
    BY <1>4, <2>1 DEF RedeemCoupon, SettingsInv, QuotesSound, SoundQuote, OpenQuote
  <2>3. DOMAIN quote' = Shopper /\ QuotesSound'
    BY <1>4 DEF RedeemCoupon, SettingsInv, SettingsTables, QuotesSound, SoundQuote
  <2>4. UNCHANGED <<tax, rates, edit>>
    BY <1>4 DEF RedeemCoupon
  <2>5. CASE coupons' = coupons
    BY <2>3, <2>4, <2>5, CouponsStep
       DEF SettingsInv, SettingsTables, CouponsChecked, CodesUnique, Row
  <2>6. CASE coupons' # coupons
    <3>1. Row(coupons, i) /\ coupons' = [coupons EXCEPT ![i].redeemed = coupons[i].redeemed + 1]
      BY <1>4, <2>1, <2>6 DEF RedeemCoupon
    <3>2. PICK row \in CouponRow : row = coupons[i] /\ CheckedCoupon(row)
      BY <2>2, <3>1 DEF Row, SettingsInv, SettingsTables, CouponsChecked
    <3>3. PICK n \in Nat : n = row.redeemed + 1
      BY DEF CouponRow
    <3>4. PICK new : new = [row EXCEPT !.redeemed = n]
      OBVIOUS
    <3>5. new \in CouponRow /\ new.code = row.code /\ CheckedCoupon(new)
      BY <3>2, <3>4, RedeemedRow
    <3>6. coupons' = [coupons EXCEPT ![i] = new]
      BY <3>1, <3>2, <3>3, <3>4
    <3> QED  BY <2>2, <2>3, <2>4, <3>1, <3>2, <3>5, <3>6, OneCouponStep, CouponsStep
             DEF SettingsInv, SettingsTables
  <2> QED  BY <2>5, <2>6
<1>5. CASE QuoteEnds(c)
  BY <1>5, QuotesStep DEF QuoteEnds, SoundQuote
<1> QED  BY <1>1, <1>2, <1>3, <1>4, <1>5 DEF Checkout

(***************************************************************************)
(* Whatever managers and shoppers do, and wherever their requests stop:    *)
(* the tables hold what the CHECK constraints allow, codes are unique, and *)
(* every quote follows from the rows it has read.                          *)
(***************************************************************************)
THEOREM SettingsInvHolds == SettingsSpec => []SettingsInv
<1>1. SettingsInit => SettingsInv
  BY DEF SettingsInit, SettingsInv, SettingsTables, CouponsChecked, CodesUnique, CodesKept,
         QuotesSound, SoundQuote, Row
<1>2. SettingsInv /\ [SettingsNext]_settingsVars => SettingsInv'
  <2> SUFFICES ASSUME SettingsInv, [SettingsNext]_settingsVars
               PROVE  SettingsInv'
    OBVIOUS
  <2>1. ASSUME NEW t \in Tax, SetTaxConfig(t)
        PROVE  SettingsInv'
    BY <2>1, RatesStep DEF SetTaxConfig, SettingsInv, SettingsTables
  <2>2. ASSUME NEW m \in Manager, EditStops(m)
        PROVE  SettingsInv'
    BY <2>2, RatesStep DEF EditStops, SettingsInv, SettingsTables
  <2>3. CASE TimePasses \/ UNCHANGED settingsVars
    BY <2>3, RatesStep DEF TimePasses, settingsVars, SettingsInv, SettingsTables
  <2> QED  BY <2>1, <2>2, <2>3, RateKeeps, CouponKeeps, QuoteKeeps DEF SettingsNext
<1> QED  BY <1>1, <1>2, PTL DEF SettingsSpec

(***************************************************************************)
(* The tables hold rows that the CHECK constraints allow, and no two       *)
(* coupons of the tenant share a code, although a PATCH writes back a row  *)
(* it read before others changed it (UpdateCoupon, UpdateShippingRate).    *)
(***************************************************************************)
THEOREM SettingsTypesHold == SettingsSpec => []SettingsTypeOK
<1>1. SettingsInv => SettingsTypeOK
  BY DEF SettingsInv, SettingsTables, CouponsChecked, CodesUnique, SettingsTypeOK, Existing, Row
<1> QED  BY <1>1, SettingsInvHolds, PTL

(***************************************************************************)
(* Every quote adds up, for any tax rate, price and coupon: QuoteFor reads *)
(* the rate, the coupon and the tax configuration one after another while  *)
(* managers change them, and still charges the nearest cent of the tax of  *)
(* the configuration it read, on the cart less the discount it read.       *)
(***************************************************************************)
THEOREM QuotesAlwaysAddUp == SettingsSpec => []QuotesAddUp
<1>1. SettingsInv => QuotesAddUp
  <2> SUFFICES ASSUME SettingsInv, NEW c \in Shopper, quote[c] # Unset, quote[c].step = "priced"
               PROVE  AddsUp(quote[c])
    BY DEF QuotesAddUp, AddsUp
  <2> QED  BY DEF SettingsInv, QuotesSound, SoundQuote, OpenQuote
<1> QED  BY <1>1, SettingsInvHolds, PTL

LEMMA RateRevertsOnlyByOverlap ==
  ASSUME SettingsInv, [SettingsNext]_settingsVars, NEW i \in RateId,
         Row(rates, i), Row(rates', i), NEW f \in RateFields, rates[i][f] # rates'[i][f]
  PROVE  ChangedByPatch("rate", i, f, rates[i])
<1>1. PICK m \in Manager : WriteRate(m)
  <2>1. rates'[i] # rates[i]
    OBVIOUS
  <2>2. ASSUME NEW j \in RateId, NEW body \in RateBody, CreateRate(j, body)
        PROVE  FALSE
    BY <2>1, <2>2 DEF CreateRate, Row, SettingsInv, SettingsTables
  <2>3. ASSUME NEW j \in RateId, DeleteRate(j)
        PROVE  FALSE
    BY <2>1, <2>3 DEF DeleteRate, Row, SettingsInv, SettingsTables
  <2>4. ~ \E t \in Tax : SetTaxConfig(t)
    BY <2>1 DEF SetTaxConfig
  <2>5. ~ CouponRequest
    BY <2>1 DEF CouponRequest, CreateCoupon, ReadCoupon, WriteCoupon, DeleteCoupon
  <2>6. ~ \E c \in Shopper : Checkout(c)
    BY <2>1 DEF Checkout, QuoteRate, QuoteCoupon, QuoteTax, RedeemCoupon, QuoteEnds
  <2>7. ~ (TimePasses \/ (\E m \in Manager : EditStops(m)) \/ UNCHANGED settingsVars)
    BY <2>1 DEF TimePasses, EditStops, settingsVars
  <2>8. RateRequest
    BY <2>4, <2>5, <2>6, <2>7 DEF SettingsNext
  <2> QED  BY <2>1, <2>2, <2>3, <2>8 DEF RateRequest, ReadRate
<1>2. edit[m] # Unset /\ edit[m].of = "rate" /\ edit[m] \in RateEdit
  BY <1>1 DEF WriteRate, SettingsInv, SettingsTables, CouponEdit
<1>3. edit[m].id \in RateId /\ edit[m].row \in RateRow /\ edit[m].patch \in RatePatch
  BY <1>2 DEF RateEdit
<1>4. edit[m].id = i /\ rates'[i] = Patched(edit[m].row, edit[m].patch)
  BY <1>1, <1>3 DEF WriteRate, Row, SettingsInv, SettingsTables
<1>5. edit'[m] = Unset
  BY <1>1 DEF WriteRate, SettingsInv, SettingsTables
<1>6. f \in DOMAIN edit[m].patch \/ edit[m].row # rates[i]
  BY <1>3, <1>4, PatchedRate
<1> QED  BY <1>2, <1>4, <1>5, <1>6 DEF ChangedByPatch, WritesRow

LEMMA CouponRevertsOnlyByOverlap ==
  ASSUME SettingsInv, [SettingsNext]_settingsVars, NEW i \in CouponId,
         Row(coupons, i), Row(coupons', i)
  PROVE  /\ coupons'[i].redeemed >= coupons[i].redeemed
         /\ \A f \in CouponFields :
              coupons[i][f] # coupons'[i][f] => ChangedByPatch("coupon", i, f, coupons[i])
<1>1. PICK row \in CouponRow : row = coupons[i]
  BY DEF Row, SettingsInv, SettingsTables
<1>2. row.redeemed \in Nat
  BY DEF CouponRow
<1>3. CASE coupons'[i] = coupons[i]
  BY <1>1, <1>2, <1>3
<1>4. ASSUME NEW m \in Manager, WriteCoupon(m), coupons'[i] # coupons[i]
      PROVE  /\ coupons'[i].redeemed >= coupons[i].redeemed
             /\ \A f \in CouponFields :
                  coupons[i][f] # coupons'[i][f] => ChangedByPatch("coupon", i, f, coupons[i])
  <2>1. edit[m] # Unset /\ edit[m].of = "coupon" /\ edit[m] \in CouponEdit
    BY <1>4 DEF WriteCoupon, SettingsInv, SettingsTables, RateEdit
  <2>2. edit[m].id \in CouponId /\ edit[m].row \in CouponRow /\ edit[m].patch \in CouponPatch
    BY <2>1 DEF CouponEdit
  <2>3. PICK read \in CouponRow, patch \in CouponPatch : read = edit[m].row /\ patch = edit[m].patch
    BY <2>2
  <2>4. PICK new \in CouponRow : new = Patched(read, patch)
    BY PatchedCoupon
  <2>5. PICK id : id = edit[m].id
    OBVIOUS
  <2>6. coupons' # coupons
    BY <1>4
  <2>7. coupons' = [coupons EXCEPT ![id] = Written(coupons[id], new)]
    BY <1>4, <2>3, <2>4, <2>5, <2>6 DEF WriteCoupon
  <2>8. id = i /\ coupons'[i] = Written(row, new)
    BY <1>1, <1>4, <2>2, <2>5, <2>7 DEF SettingsInv, SettingsTables
  <2>9. coupons'[i].redeemed = row.redeemed /\ \A f \in CouponFields : coupons'[i][f] = new[f]
    BY <1>2, <2>8, RedeemedRow DEF Written
  <2>10. edit'[m] = Unset
    BY <1>4 DEF WriteCoupon, SettingsInv, SettingsTables
  <2>11. ASSUME NEW f \in CouponFields, coupons[i][f] # coupons'[i][f]
         PROVE  ChangedByPatch("coupon", i, f, coupons[i])
    <3>1. f \in DOMAIN patch \/ read # row
      BY <1>1, <2>4, <2>9, <2>11, PatchedCoupon
    <3> QED  BY <1>1, <2>1, <2>3, <2>5, <2>8, <2>10, <3>1 DEF ChangedByPatch, WritesRow
  <2> QED  BY <1>1, <1>2, <2>9, <2>11
<1>5. ASSUME NEW c \in Shopper, RedeemCoupon(c), coupons'[i] # coupons[i]
      PROVE  /\ coupons'[i].redeemed >= coupons[i].redeemed
             /\ \A f \in CouponFields : coupons[i][f] = coupons'[i][f]
  <2>1. PICK id : id = quote[c].coupon
    OBVIOUS
  <2>2. coupons' = [coupons EXCEPT ![id].redeemed = coupons[id].redeemed + 1]
    BY <1>5, <2>1 DEF RedeemCoupon
  <2>3. PICK n \in Nat : n = row.redeemed + 1
    BY <1>2
  <2>4. coupons'[i] = [row EXCEPT !.redeemed = n]
    BY <1>1, <1>5, <2>2, <2>3 DEF SettingsInv, SettingsTables
  <2>5. coupons'[i].redeemed = n /\ \A f \in CouponFields : coupons'[i][f] = row[f]
    BY <2>4, RedeemedRow
  <2> QED  BY <1>1, <1>2, <2>3, <2>5
<1>6. CASE coupons'[i] # coupons[i]
  <2>1. ASSUME NEW j \in CouponId, NEW body \in CouponBody, CreateCoupon(j, body)
        PROVE  FALSE
    BY <1>6, <2>1 DEF CreateCoupon, Row, SettingsInv, SettingsTables
  <2>2. ASSUME NEW j \in CouponId, DeleteCoupon(j)
        PROVE  FALSE
    BY <1>6, <2>2 DEF DeleteCoupon, Row, SettingsInv, SettingsTables
  <2>3. ~ \E t \in Tax : SetTaxConfig(t)
    BY <1>6 DEF SetTaxConfig
  <2>4. ~ RateRequest
    BY <1>6 DEF RateRequest, CreateRate, ReadRate, WriteRate, DeleteRate
  <2>5. ~ (TimePasses \/ (\E m \in Manager : EditStops(m)) \/ UNCHANGED settingsVars)
    BY <1>6 DEF TimePasses, EditStops, settingsVars
  <2>6. (\E m \in Manager : WriteCoupon(m)) \/ (\E c \in Shopper : RedeemCoupon(c))
    BY <1>6, <2>1, <2>2, <2>3, <2>4, <2>5
       DEF SettingsNext, CouponRequest, ReadCoupon, Checkout, QuoteRate, QuoteCoupon, QuoteTax, QuoteEnds
  <2> QED  BY <1>4, <1>5, <1>6, <2>6
<1> QED  BY <1>3, <1>6

(***************************************************************************)
(* "Read, patch, write" (UpdateCoupon, UpdateShippingRate): a PATCH puts   *)
(* a field it does not name back to an older value only if the row was     *)
(* changed since it was read, and never the number of redemptions.         *)
(***************************************************************************)
THEOREM SettingsRevertOnlyByOverlap == SettingsSpec => OnlyOverlapsRevertSettings
<1> DEFINE Permitted ==
      /\ \A i \in Existing(rates) : Row(rates', i) =>
           \A f \in RateFields :
             rates[i][f] # rates'[i][f] => ChangedByPatch("rate", i, f, rates[i])
      /\ \A i \in Existing(coupons) : Row(coupons', i) =>
           /\ coupons'[i].redeemed >= coupons[i].redeemed
           /\ \A f \in CouponFields :
                coupons[i][f] # coupons'[i][f] => ChangedByPatch("coupon", i, f, coupons[i])
<1>1. SettingsInv /\ [SettingsNext]_settingsVars => Permitted
  <2> SUFFICES ASSUME SettingsInv, [SettingsNext]_settingsVars
               PROVE  Permitted
    OBVIOUS
  <2>1. Existing(rates) \subseteq RateId /\ Existing(coupons) \subseteq CouponId
    BY DEF Existing, SettingsInv, SettingsTables
  <2>2. (\A i \in Existing(rates) : Row(rates, i)) /\ (\A i \in Existing(coupons) : Row(coupons, i))
    BY DEF Existing
  <2> QED  BY <2>1, <2>2, RateRevertsOnlyByOverlap, CouponRevertsOnlyByOverlap
<1> HIDE DEF Permitted
<1>2. SettingsSpec => [][Permitted]_settingsVars
  BY <1>1, SettingsInvHolds, PTL DEF SettingsSpec
<1> QED  BY <1>2 DEF OnlyOverlapsRevertSettings, Permitted

-----------------------------------------------------------------------------
(***************************************************************************)
(* Products: the inductive invariant.                                      *)
(***************************************************************************)
ProductsShape ==
  /\ product \in [Product -> Status \cup {Unborn, Removed}]
  /\ variant \in [Variant -> VariantRow \cup {Unborn, Removed}]
  /\ editing \in [Editor -> Edit \cup {NoEdit}]
  /\ overlapped \subseteq {e \in Editor : editing[e] # NoEdit}

Owned == \A v \in Variant : variant[v] \in VariantRow => product[variant[v].product] \in Status

OneDefault(t) ==
  \A v, w \in Variant :
    /\ t[v] \in VariantRow /\ t[w] \in VariantRow /\ t[v].product = t[w].product
    /\ t[v].isDefault /\ t[w].isDefault
    => v = w

\* A variant under a PATCH stays with its product, unless it is deleted.
PatchesPlaced ==
  \A e \in Editor : editing[e] # NoEdit /\ editing[e].op = "patch" =>
    LET v == editing[e].variant
    IN  /\ variant[v] # Unborn
        /\ variant[v] \in VariantRow => variant[v].product = editing[e].product

\* Nothing has changed since a request that nobody overlapped has read: a product it
\* is about to show has a variant, or was shown already ...
FreshWrite(e) ==
  editing[e].op = "update" /\ editing[e].step = "write" /\ editing[e].status = "ACTIVE" =>
    HasVariant(editing[e].product) \/ product[editing[e].product] = "ACTIVE"

\* ... and the row it is about to patch is the one it read.
FreshPatch(e) ==
  editing[e].op = "patch" =>
    LET v == editing[e].variant
    IN  variant[v] \in VariantRow /\ variant[v].isDefault = editing[e].row

FreshEdits ==
  \A e \in Editor : editing[e] # NoEdit /\ e \notin overlapped => FreshWrite(e) /\ FreshPatch(e)

ProductsInv ==
  ProductsShape /\ Owned /\ OneDefault(variant) /\ PatchesPlaced /\ FreshEdits

\* No step moves a variant, gives its id away, or brings it back.
VariantsKept ==
  \A v \in Variant : variant[v] # Unborn =>
    /\ variant'[v] # Unborn
    /\ variant'[v] \in VariantRow =>
         variant[v] \in VariantRow /\ variant'[v].product = variant[v].product

LEMMA RowsAreRows ==
  ASSUME ProductsInv
  PROVE  /\ \A v : v \in Rows(variant) <=> v \in Variant /\ variant[v] \in VariantRow
         /\ \A p : p \in Rows(product) <=> p \in Product /\ product[p] \in Status
BY ProductsAssumption DEF Rows, ProductsInv, ProductsShape

\* A request reads, and begins or goes on.
LEMMA BeginStep ==
  ASSUME ProductsInv, NEW e \in Editor, NEW doing \in Edit, BeginEdit(e, doing),
         doing.op = "patch" =>
           /\ variant[doing.variant] \in VariantRow
           /\ variant[doing.variant].product = doing.product
           /\ variant[doing.variant].isDefault = doing.row,
         doing.op = "update" /\ doing.step = "write" /\ doing.status = "ACTIVE" =>
           HasVariant(doing.product) \/ product[doing.product] = "ACTIVE"
  PROVE  ProductsInv'
<1>1. /\ UNCHANGED <<product, variant, overlapped>>
      /\ editing'[e] = doing /\ \A f \in Editor \ {e} : editing'[f] = editing[f]
      /\ editing' \in [Editor -> Edit \cup {NoEdit}]
  BY DEF BeginEdit, ProductsInv, ProductsShape
<1>2. doing # NoEdit
  BY ProductsAssumption
<1>3. ProductsShape'
  BY <1>1, <1>2 DEF ProductsInv, ProductsShape
<1>4. Owned' /\ OneDefault(variant)'
  BY <1>1 DEF ProductsInv, Owned, OneDefault
<1>5. PatchesPlaced'
  <2> SUFFICES ASSUME NEW f \in Editor, editing'[f] # NoEdit, editing'[f].op = "patch"
               PROVE  /\ variant[editing'[f].variant] # Unborn
                      /\ variant[editing'[f].variant] \in VariantRow =>
                           variant[editing'[f].variant].product = editing'[f].product
    BY <1>1 DEF PatchesPlaced
  <2> QED  BY <1>1, ProductsAssumption DEF ProductsInv, PatchesPlaced
<1>6. FreshEdits'
  <2> SUFFICES ASSUME NEW f \in Editor, editing'[f] # NoEdit, f \notin overlapped
               PROVE  FreshWrite(f)' /\ FreshPatch(f)'
    BY <1>1 DEF FreshEdits
  <2>1. CASE f = e
    BY <1>1, <2>1 DEF FreshWrite, FreshPatch, HasVariant, ListByProduct, Rows
  <2>2. CASE f # e
    BY <1>1, <2>2 DEF FreshWrite, FreshPatch, HasVariant, ListByProduct, Rows, ProductsInv, FreshEdits
  <2> QED  BY <2>1, <2>2
<1> QED  BY <1>3, <1>4, <1>5, <1>6 DEF ProductsInv

LEMMA RefusedStep ==
  ASSUME ProductsInv, NEW e \in Editor, Refused(e)
  PROVE  ProductsInv'
<1>1. /\ UNCHANGED <<product, variant>>
      /\ editing'[e] = NoEdit /\ \A f \in Editor \ {e} : editing'[f] = editing[f]
      /\ editing' \in [Editor -> Edit \cup {NoEdit}]
      /\ overlapped' = overlapped \ {e}
  BY DEF Refused, ProductsInv, ProductsShape
<1>2. ProductsShape'
  BY <1>1 DEF ProductsInv, ProductsShape
<1>3. Owned' /\ OneDefault(variant)'
  BY <1>1 DEF ProductsInv, Owned, OneDefault
<1>4. PatchesPlaced'
  BY <1>1 DEF ProductsInv, PatchesPlaced
<1>5. FreshEdits'
  <2> SUFFICES ASSUME NEW f \in Editor, editing'[f] # NoEdit, f \notin overlapped'
               PROVE  FreshWrite(f)' /\ FreshPatch(f)'
    BY DEF FreshEdits
  <2> QED  BY <1>1 DEF FreshWrite, FreshPatch, HasVariant, ListByProduct, Rows, ProductsInv, FreshEdits
<1> QED  BY <1>2, <1>3, <1>4, <1>5 DEF ProductsInv

\* A request changes rows and ends; who else is at work is overlapped now.
LEMMA DoneStep ==
  ASSUME ProductsInv, NEW e \in Editor, Done(e),
         product' \in [Product -> Status \cup {Unborn, Removed}],
         variant' \in [Variant -> VariantRow \cup {Unborn, Removed}],
         Owned', OneDefault(variant'), VariantsKept
  PROVE  ProductsInv'
<1>1. /\ editing'[e] = NoEdit /\ \A f \in Editor \ {e} : editing'[f] = editing[f]
      /\ editing' \in [Editor -> Edit \cup {NoEdit}]
      /\ overlapped' = (overlapped \cup {f \in Editor : editing[f] # NoEdit}) \ {e}
  BY DEF Done, ProductsInv, ProductsShape
<1>2. ProductsShape'
  BY <1>1 DEF ProductsInv, ProductsShape
<1>3. PatchesPlaced'
  <2> SUFFICES ASSUME NEW f \in Editor, editing'[f] # NoEdit, editing'[f].op = "patch"
               PROVE  LET v == editing'[f].variant
                      IN  /\ variant'[v] # Unborn
                          /\ variant'[v] \in VariantRow => variant'[v].product = editing'[f].product
    BY DEF PatchesPlaced
  <2>1. editing'[f] = editing[f] /\ editing[f] \in Edit
    BY <1>1 DEF ProductsInv, ProductsShape
  <2>2. editing[f].variant \in Variant
    BY <2>1 DEF Edit
  <2> QED  BY <2>1, <2>2 DEF ProductsInv, PatchesPlaced, VariantsKept
<1>4. FreshEdits'
  BY <1>1 DEF FreshEdits
<1> QED  BY <1>2, <1>3, <1>4 DEF ProductsInv

LEMMA EditKinds ==
  ASSUME NEW d \in Edit
  PROVE  /\ d.op \in {"update", "add", "patch"} /\ d.product \in Product
         /\ d.op = "update" => d \in [op : {"update"}, step : {"count", "write"},
                                     product : Product, status : Status]
         /\ d.op = "add" => d.body.isDefault \in BOOLEAN
         /\ d.op = "patch" => /\ d.variant \in Variant /\ d.row \in BOOLEAN
                             /\ d.body.isDefault \in BOOLEAN \cup {Keep}
<1>1. CASE d \in [op : {"update"}, step : {"count", "write"}, product : Product, status : Status]
  BY <1>1
<1>2. CASE d \in [op : {"add"}, product : Product, body : CreateVariantRequest]
  BY <1>2 DEF CreateVariantRequest
<1>3. CASE d \in [op : {"patch"}, product : Product, variant : Variant,
                 row : BOOLEAN, body : UpdateVariantRequest]
  BY <1>3 DEF UpdateVariantRequest
<1> QED  BY <1>1, <1>2, <1>3 DEF Edit

\* Clearing the default of a product changes nothing else.
LEMMA ClearedRows ==
  ASSUME ProductsInv, NEW p, NEW others
  PROVE  LET t == ClearDefault(p, others)
         IN  /\ t \in [Variant -> VariantRow \cup {Unborn, Removed}]
             /\ \A v \in Variant :
                  /\ variant[v] \notin VariantRow => t[v] = variant[v]
                  /\ variant[v] \in VariantRow =>
                       /\ t[v] \in VariantRow /\ t[v].product = variant[v].product
                       /\ t[v].isDefault =
                            (variant[v].isDefault /\ ~(variant[v].product = p /\ v \notin others))
<1> PICK t : t = ClearDefault(p, others)
  OBVIOUS
<1>1. \A v \in Variant : t[v] = IF v \in ListByProduct(p) \ others
                                 THEN [variant[v] EXCEPT !.isDefault = FALSE] ELSE variant[v]
  BY DEF ClearDefault
<1>2. \A v \in Variant : v \in ListByProduct(p) <=> variant[v] \in VariantRow /\ variant[v].product = p
  BY RowsAreRows DEF ListByProduct
<1>3. ASSUME NEW row \in VariantRow
      PROVE  /\ [row EXCEPT !.isDefault = FALSE] \in VariantRow
             /\ [row EXCEPT !.isDefault = FALSE].product = row.product
             /\ [row EXCEPT !.isDefault = FALSE].isDefault = FALSE
             /\ row.isDefault \in BOOLEAN
  BY DEF VariantRow
<1>4. ASSUME NEW v \in Variant, variant[v] \in VariantRow
      PROVE  /\ t[v] \in VariantRow /\ t[v].product = variant[v].product
             /\ t[v].isDefault =
                  (variant[v].isDefault /\ ~(variant[v].product = p /\ v \notin others))
  <2>1. CASE v \in ListByProduct(p) \ others
    <3>1. variant[v].product = p /\ v \notin others
      BY <1>2, <2>1
    <3>2. PICK row \in VariantRow : row = variant[v]
      BY <1>4
    <3>3. t[v] = [row EXCEPT !.isDefault = FALSE]
      BY <1>1, <2>1, <3>2
    <3>4. t[v] \in VariantRow /\ t[v].product = row.product /\ t[v].isDefault = FALSE
      BY <1>3, <3>3
    <3> QED  BY <3>1, <3>2, <3>4
  <2>2. CASE v \notin ListByProduct(p) \ others
    BY <1>1, <1>2, <1>3, <1>4, <2>2
  <2> QED  BY <2>1, <2>2
<1>5. \A v \in Variant : variant[v] \notin VariantRow => t[v] = variant[v]
  BY <1>1, <1>2
<1>6. \A v \in Variant : t[v] \in VariantRow \cup {Unborn, Removed}
  BY <1>4, <1>5 DEF ProductsInv, ProductsShape
<1>7. t \in [Variant -> VariantRow \cup {Unborn, Removed}]
  BY <1>6 DEF ClearDefault
<1> QED  BY <1>4, <1>5, <1>7

LEMMA UpdateProductKeeps ==
  ASSUME ProductsInv, NEW e \in Editor, NEW p \in Product, NEW body \in UpdateProductRequest,
         UpdateProduct(e, p, body)
  PROVE  ProductsInv'
<1>1. product[p] \in Status
  BY RowsAreRows DEF UpdateProduct
<1>2. body.status \in Status \cup {Keep}
  BY DEF UpdateProductRequest
<1>3. PICK doing : doing = [op |-> "update", product |-> p,
                            step |-> IF body.status = "ACTIVE" THEN "count" ELSE "write",
                            status |-> IF body.status = Keep THEN product[p] ELSE body.status]
  OBVIOUS
<1>4. doing.op = "update" /\ doing \in Edit
  BY <1>1, <1>2, <1>3 DEF Edit
<1>5. doing.step = "write" /\ doing.status = "ACTIVE" => product[doing.product] = "ACTIVE"
  BY <1>3
<1> QED  BY <1>3, <1>4, <1>5, BeginStep DEF UpdateProduct

LEMMA CountKeeps ==
  ASSUME ProductsInv, NEW e \in Editor, CountByProduct(e)
  PROVE  ProductsInv'
<1>1. editing[e] \in [op : {"update"}, step : {"count", "write"}, product : Product, status : Status]
  BY EditKinds DEF CountByProduct, ProductsInv, ProductsShape
<1>2. CASE HasVariant(editing[e].product)
  <2>1. PICK doing : doing = [editing[e] EXCEPT !.step = "write"]
    OBVIOUS
  <2>2. doing \in Edit /\ doing.op = "update" /\ doing.product = editing[e].product
    BY <1>1, <2>1 DEF Edit
  <2> QED  BY <1>2, <2>1, <2>2, BeginStep DEF CountByProduct
<1>3. CASE ~HasVariant(editing[e].product)
  BY <1>3, RefusedStep DEF CountByProduct
<1> QED  BY <1>2, <1>3

\* Steps that change products and leave every variant as it is.
LEMMA ProductRowStep ==
  ASSUME ProductsInv, NEW e \in Editor, Done(e), NEW p \in Product, NEW status \in Status,
         product' = [product EXCEPT ![p] = status], UNCHANGED variant
  PROVE  ProductsInv'
<1>1. product' \in [Product -> Status \cup {Unborn, Removed}]
  BY DEF ProductsInv, ProductsShape
<1>2. Owned'
  <2> SUFFICES ASSUME NEW v \in Variant, variant[v] \in VariantRow
               PROVE  product'[variant[v].product] \in Status
    BY DEF Owned
  <2>1. variant[v].product \in Product
    BY DEF VariantRow
  <2> QED  BY <2>1 DEF ProductsInv, ProductsShape, Owned
<1>3. OneDefault(variant') /\ variant' \in [Variant -> VariantRow \cup {Unborn, Removed}]
  BY DEF ProductsInv, ProductsShape
<1>4. VariantsKept
  BY DEF VariantsKept
<1> QED  BY <1>1, <1>2, <1>3, <1>4, DoneStep

LEMMA DeleteProductKeeps ==
  ASSUME ProductsInv, NEW e \in Editor, NEW p \in Product, DeleteProduct(e, p)
  PROVE  ProductsInv' /\ VariantsKept
<1>1. \A v \in Variant : v \in ListByProduct(p) <=> variant[v] \in VariantRow /\ variant[v].product = p
  BY RowsAreRows DEF ListByProduct
<1>2. /\ product' \in [Product -> Status \cup {Unborn, Removed}]
      /\ \A q \in Product \ {p} : product'[q] = product[q]
  BY DEF DeleteProduct, ProductsInv, ProductsShape
<1>3. \A v \in Variant : variant'[v] = IF v \in ListByProduct(p) THEN Removed ELSE variant[v]
  BY DEF DeleteProduct
<1>4. variant' \in [Variant -> VariantRow \cup {Unborn, Removed}]
  BY <1>3 DEF DeleteProduct, ProductsInv, ProductsShape
<1>5. \A v \in Variant : variant'[v] \in VariantRow =>
        variant'[v] = variant[v] /\ variant[v].product \in Product \ {p}
  BY <1>1, <1>3, ProductsAssumption DEF VariantRow
<1>6. Owned'
  BY <1>2, <1>5 DEF ProductsInv, Owned
<1>7. OneDefault(variant')
  BY <1>5 DEF ProductsInv, OneDefault
<1>8. \A v \in Variant : variant[v] # Unborn => variant'[v] # Unborn
  BY <1>3, ProductsAssumption
<1>9. VariantsKept
  BY <1>5, <1>8 DEF VariantsKept
<1> QED  BY <1>2, <1>4, <1>6, <1>7, <1>9, DoneStep DEF DeleteProduct

LEMMA DeleteVariantKeeps ==
  ASSUME ProductsInv, NEW e \in Editor, NEW w \in Variant, DeleteVariant(e, w)
  PROVE  ProductsInv' /\ VariantsKept
<1>1. /\ variant' \in [Variant -> VariantRow \cup {Unborn, Removed}]
      /\ variant'[w] = Removed /\ \A v \in Variant \ {w} : variant'[v] = variant[v]
      /\ product' = product
  BY DEF DeleteVariant, ProductsInv, ProductsShape
<1>2. \A v \in Variant : variant'[v] \in VariantRow => variant'[v] = variant[v]
  BY <1>1, ProductsAssumption
<1>3. Owned' /\ OneDefault(variant')
  BY <1>1, <1>2 DEF ProductsInv, Owned, OneDefault
<1>4. \A v \in Variant : variant[v] # Unborn => variant'[v] # Unborn
  BY <1>1, ProductsAssumption
<1>5. product' \in [Product -> Status \cup {Unborn, Removed}]
  BY <1>1 DEF ProductsInv, ProductsShape
<1>6. VariantsKept
  BY <1>2, <1>4 DEF VariantsKept
<1> QED  BY <1>1, <1>3, <1>5, <1>6, DoneStep DEF DeleteVariant

LEMMA InsertKeeps ==
  ASSUME ProductsInv, NEW e \in Editor, NEW w \in Variant, InsertVariant(e, w)
  PROVE  ProductsInv' /\ VariantsKept
<1>1. editing[e].op = "add" /\ editing[e] \in Edit
  BY DEF InsertVariant, ProductsInv, ProductsShape
<1>2. editing[e].product \in Product /\ editing[e].body.isDefault \in BOOLEAN
  BY <1>1, EditKinds
<1>3. PICK p \in Product, dflt \in BOOLEAN : p = editing[e].product /\ dflt = editing[e].body.isDefault
  BY <1>2
<1>4. PICK row : row = [product |-> p, isDefault |-> dflt]
  OBVIOUS
<1>5. row \in VariantRow /\ row.product = p /\ row.isDefault = dflt
  BY <1>4 DEF VariantRow
<1>6. PICK t : t = IF dflt THEN ClearDefault(p, {}) ELSE variant
  OBVIOUS
<1>7. variant' = [t EXCEPT ![w] = row] /\ variant[w] = Unborn /\ product[p] \in Status /\ product' = product
  BY <1>3, <1>4, <1>5, <1>6, RowsAreRows DEF InsertVariant
<1>8. /\ t \in [Variant -> VariantRow \cup {Unborn, Removed}]
      /\ \A v \in Variant :
           /\ variant[v] \notin VariantRow => t[v] = variant[v]
           /\ variant[v] \in VariantRow =>
                /\ t[v] \in VariantRow /\ t[v].product = variant[v].product
                /\ t[v].isDefault => variant[v].isDefault /\ (dflt => variant[v].product # p)
  <2>1. CASE dflt
    <3>1. t = ClearDefault(p, {})
      BY <1>6, <2>1
    <3>2. /\ t \in [Variant -> VariantRow \cup {Unborn, Removed}]
          /\ \A v \in Variant :
               /\ variant[v] \notin VariantRow => t[v] = variant[v]
               /\ variant[v] \in VariantRow =>
                    /\ t[v] \in VariantRow /\ t[v].product = variant[v].product
                    /\ t[v].isDefault =
                         (variant[v].isDefault /\ ~(variant[v].product = p /\ v \notin {}))
      BY <3>1, ClearedRows
    <3> QED  BY <3>2
  <2>2. CASE ~dflt
    BY <1>6, <2>2 DEF ProductsInv, ProductsShape
  <2> QED  BY <2>1, <2>2
<1>9. /\ variant' \in [Variant -> VariantRow \cup {Unborn, Removed}]
      /\ variant'[w] = row /\ \A v \in Variant \ {w} : variant'[v] = t[v]
  BY <1>5, <1>7, <1>8
<1>10. \A v \in Variant \ {w} : variant'[v] \in VariantRow =>
         /\ variant[v] \in VariantRow /\ variant'[v].product = variant[v].product
         /\ variant'[v].isDefault => variant[v].isDefault /\ (dflt => variant[v].product # p)
  BY <1>8, <1>9
<1>11. Owned'
  <2> SUFFICES ASSUME NEW v \in Variant, variant'[v] \in VariantRow
               PROVE  product[variant'[v].product] \in Status
    BY <1>7 DEF Owned
  <2> QED  BY <1>5, <1>7, <1>9, <1>10 DEF ProductsInv, Owned
<1>12. OneDefault(variant')
  <2> SUFFICES ASSUME NEW v \in Variant, NEW u \in Variant,
                      variant'[v] \in VariantRow, variant'[u] \in VariantRow,
                      variant'[v].product = variant'[u].product,
                      variant'[v].isDefault, variant'[u].isDefault
               PROVE  v = u
    BY DEF OneDefault
  <2>1. CASE v # w /\ u # w
    BY <1>10, <2>1 DEF ProductsInv, OneDefault
  <2>2. CASE v = w \/ u = w
    BY <1>5, <1>9, <1>10, <2>2
  <2> QED  BY <2>1, <2>2
<1>13. VariantsKept
  <2> SUFFICES ASSUME NEW v \in Variant, variant[v] # Unborn
               PROVE  /\ variant'[v] # Unborn
                      /\ variant'[v] \in VariantRow =>
                           variant[v] \in VariantRow /\ variant'[v].product = variant[v].product
    BY DEF VariantsKept
  <2>1. v # w
    BY <1>7
  <2>2. variant'[v] # Unborn
    BY <1>8, <1>9, <2>1, ProductsAssumption
  <2> QED  BY <1>10, <2>1, <2>2
<1>14. product' \in [Product -> Status \cup {Unborn, Removed}]
  BY <1>7 DEF ProductsInv, ProductsShape
<1> QED  BY <1>9, <1>11, <1>12, <1>13, <1>14, DoneStep DEF InsertVariant

\* What the end of UpdateVariant makes of each variant.
LEMMA WrittenVariants ==
  ASSUME ProductsInv, NEW e \in Editor, WriteVariant(e)
  PROVE  LET w == editing[e].variant
             p == editing[e].product
             dflt == PatchedDefault(editing[e].row, editing[e].body)
         IN  /\ w \in Variant /\ variant[w] \in VariantRow /\ variant[w].product = p
             /\ dflt \in BOOLEAN /\ product' = product
             /\ variant' \in [Variant -> VariantRow \cup {Unborn, Removed}]
             /\ \A v \in Variant :
                  /\ variant[v] \notin VariantRow => variant'[v] = variant[v]
                  /\ variant[v] \in VariantRow =>
                       /\ variant'[v] \in VariantRow /\ variant'[v].product = variant[v].product
                       /\ v = w => variant'[v].isDefault = dflt
                       /\ v # w => variant'[v].isDefault =
                                    (variant[v].isDefault /\ ~(dflt /\ variant[v].product = p))
<1>1. editing[e].op = "patch" /\ editing[e] \in Edit /\ editing[e] # NoEdit
  BY DEF WriteVariant, ProductsInv, ProductsShape
<1>2. /\ editing[e].product \in Product /\ editing[e].variant \in Variant
      /\ editing[e].row \in BOOLEAN /\ editing[e].body.isDefault \in BOOLEAN \cup {Keep}
  BY <1>1, EditKinds
<1>3. PICK p \in Product, w \in Variant : p = editing[e].product /\ w = editing[e].variant
  BY <1>2
<1>4. variant[w] \in VariantRow /\ variant[w].product = p
  BY <1>1, <1>3, RowsAreRows DEF WriteVariant, ProductsInv, PatchesPlaced
<1>5. PICK dflt \in BOOLEAN : dflt = PatchedDefault(editing[e].row, editing[e].body)
  BY <1>2 DEF PatchedDefault
<1>6. PICK t : t = IF dflt THEN ClearDefault(p, {w}) ELSE variant
  OBVIOUS
<1>7. variant' = [t EXCEPT ![w].isDefault = dflt] /\ product' = product
  BY <1>3, <1>5, <1>6 DEF WriteVariant
<1>8. /\ t \in [Variant -> VariantRow \cup {Unborn, Removed}]
      /\ \A v \in Variant :
           /\ variant[v] \notin VariantRow => t[v] = variant[v]
           /\ variant[v] \in VariantRow =>
                /\ t[v] \in VariantRow /\ t[v].product = variant[v].product
                /\ v # w => t[v].isDefault =
                             (variant[v].isDefault /\ ~(dflt /\ variant[v].product = p))
  <2>1. CASE dflt
    <3>1. t = ClearDefault(p, {w})
      BY <1>6, <2>1
    <3>2. /\ t \in [Variant -> VariantRow \cup {Unborn, Removed}]
          /\ \A v \in Variant :
               /\ variant[v] \notin VariantRow => t[v] = variant[v]
               /\ variant[v] \in VariantRow =>
                    /\ t[v] \in VariantRow /\ t[v].product = variant[v].product
                    /\ t[v].isDefault =
                         (variant[v].isDefault /\ ~(variant[v].product = p /\ v \notin {w}))
      BY <3>1, ClearedRows
    <3> QED  BY <2>1, <3>2
  <2>2. CASE ~dflt
    <3>1. \A v \in Variant : variant[v] \in VariantRow => variant[v].isDefault \in BOOLEAN
      BY DEF VariantRow
    <3> QED  BY <1>6, <2>2, <3>1 DEF ProductsInv, ProductsShape
  <2> QED  BY <2>1, <2>2
<1>9. PICK row \in VariantRow : row = t[w] /\ row.product = p
  BY <1>4, <1>8
<1>10. PICK new : new = [row EXCEPT !.isDefault = dflt]
  OBVIOUS
<1>11. new \in VariantRow /\ new.product = p /\ new.isDefault = dflt
  BY <1>9, <1>10 DEF VariantRow
<1>12. /\ variant' \in [Variant -> VariantRow \cup {Unborn, Removed}]
       /\ variant'[w] = new /\ \A v \in Variant \ {w} : variant'[v] = t[v]
  BY <1>7, <1>8, <1>9, <1>10, <1>11
<1>13. \A v \in Variant \ {w} :
         /\ variant[v] \notin VariantRow => variant'[v] = variant[v]
         /\ variant[v] \in VariantRow =>
              /\ variant'[v] \in VariantRow /\ variant'[v].product = variant[v].product
              /\ variant'[v].isDefault = (variant[v].isDefault /\ ~(dflt /\ variant[v].product = p))
  BY <1>8, <1>12
<1> QED  BY <1>3, <1>4, <1>5, <1>7, <1>11, <1>12, <1>13

LEMMA WriteVariantKeeps ==
  ASSUME ProductsInv, NEW e \in Editor, WriteVariant(e)
  PROVE  ProductsInv' /\ VariantsKept
<1> PICK w, p, dflt : /\ w = editing[e].variant /\ p = editing[e].product
                      /\ dflt = PatchedDefault(editing[e].row, editing[e].body)
  OBVIOUS
<1>1. /\ w \in Variant /\ variant[w] \in VariantRow /\ variant[w].product = p
      /\ dflt \in BOOLEAN /\ product' = product
      /\ variant' \in [Variant -> VariantRow \cup {Unborn, Removed}]
  BY WrittenVariants
<1>2. \A v \in Variant :
        /\ variant[v] \notin VariantRow => variant'[v] = variant[v]
        /\ variant[v] \in VariantRow =>
             /\ variant'[v] \in VariantRow /\ variant'[v].product = variant[v].product
             /\ v = w => variant'[v].isDefault = dflt
             /\ v # w => variant'[v].isDefault =
                          (variant[v].isDefault /\ ~(dflt /\ variant[v].product = p))
  BY WrittenVariants
<1>3. Owned'
  BY <1>1, <1>2 DEF ProductsInv, Owned
<1>4. OneDefault(variant')
  <2> SUFFICES ASSUME NEW v \in Variant, NEW u \in Variant,
                      variant'[v] \in VariantRow, variant'[u] \in VariantRow,
                      variant'[v].product = variant'[u].product,
                      variant'[v].isDefault, variant'[u].isDefault
               PROVE  v = u
    BY DEF OneDefault
  <2>1. /\ variant[v] \in VariantRow /\ variant[u] \in VariantRow
        /\ variant[v].product = variant[u].product
    BY <1>2
  <2>2. CASE v # w /\ u # w
    BY <1>2, <2>1, <2>2 DEF ProductsInv, OneDefault
  <2>3. CASE v = w \/ u = w
    BY <1>1, <1>2, <2>1, <2>3
  <2> QED  BY <2>2, <2>3
<1>5. VariantsKept
  BY <1>1, <1>2, ProductsAssumption DEF VariantsKept
<1>6. product' \in [Product -> Status \cup {Unborn, Removed}]
  BY <1>1 DEF ProductsInv, ProductsShape
<1> QED  BY <1>1, <1>3, <1>4, <1>5, <1>6, DoneStep DEF WriteVariant

(***************************************************************************)
(* Whatever editors do at the same time: a variant belongs to a product    *)
(* that exists, a product has one default variant at most, and a request   *)
(* that nobody overlapped acts on the rows as they are.                    *)
(***************************************************************************)
THEOREM ProductsInvHolds == ProductsSpec => []ProductsInv
<1>1. ProductsInit => ProductsInv
  BY ProductsAssumption
     DEF ProductsInit, ProductsInv, ProductsShape, Owned, OneDefault, PatchesPlaced, FreshEdits
<1>2. ProductsInv /\ [ProductsNext]_productVars => ProductsInv'
  <2> SUFFICES ASSUME ProductsInv, [ProductsNext]_productVars
               PROVE  ProductsInv'
    OBVIOUS
  <2>1. CASE UNCHANGED productVars
    BY <2>1 DEF productVars, ProductsInv, ProductsShape, Owned, OneDefault, PatchesPlaced,
                FreshEdits, FreshWrite, FreshPatch, HasVariant, ListByProduct, Rows
  <2>2. ASSUME NEW e \in Editor, NEW p \in Product, CreateProduct(e, p)
        PROVE  ProductsInv'
    BY <2>2, ProductRowStep DEF CreateProduct, Status
  <2>3. ASSUME NEW e \in Editor, WriteProduct(e)
        PROVE  ProductsInv'
    <3>1. editing[e] \in [op : {"update"}, step : {"count", "write"}, product : Product, status : Status]
      BY <2>3, EditKinds DEF WriteProduct, ProductsInv, ProductsShape
    <3>2. editing[e].product \in Product /\ editing[e].status \in Status
      BY <3>1
    <3> QED  BY <2>3, <3>2, ProductRowStep DEF WriteProduct
  <2>4. ASSUME NEW e \in Editor, NEW p \in Product, NEW body \in CreateVariantRequest,
               AddVariant(e, p, body)
        PROVE  ProductsInv'
    <3>1. PICK doing : doing = [op |-> "add", product |-> p, body |-> body]
      OBVIOUS
    <3>2. doing \in Edit /\ doing.op = "add"
      BY <3>1 DEF Edit
    <3> QED  BY <2>4, <3>1, <3>2, BeginStep DEF AddVariant
  <2>5. ASSUME NEW e \in Editor, NEW v \in Variant, NEW body \in UpdateVariantRequest,
               UpdateVariant(e, v, body)
        PROVE  ProductsInv'
    <3>1. variant[v] \in VariantRow
      BY <2>5, RowsAreRows DEF UpdateVariant
    <3>2. variant[v].product \in Product /\ variant[v].isDefault \in BOOLEAN
      BY <3>1 DEF VariantRow
    <3>3. PICK doing : doing = [op |-> "patch", product |-> variant[v].product, variant |-> v,
                                row |-> variant[v].isDefault, body |-> body]
      OBVIOUS
    <3>4. /\ doing \in Edit /\ doing.op = "patch" /\ doing.variant = v
          /\ doing.product = variant[v].product /\ doing.row = variant[v].isDefault
      BY <3>2, <3>3 DEF Edit
    <3> QED  BY <2>5, <3>1, <3>3, <3>4, BeginStep DEF UpdateVariant
  <2>6. ASSUME NEW e \in Editor, EditingStops(e)
        PROVE  ProductsInv'
    BY <2>6, RefusedStep DEF EditingStops
  <2>7. CASE ProductsNext
    BY <2>2, <2>3, <2>4, <2>5, <2>6, <2>7, UpdateProductKeeps, CountKeeps, DeleteProductKeeps,
       DeleteVariantKeeps, InsertKeeps, WriteVariantKeeps
       DEF ProductsNext, ProductRequest, VariantRequest
  <2> QED  BY <2>1, <2>7
<1> QED  BY <1>1, <1>2, PTL DEF ProductsSpec

(***************************************************************************)
(* Types; every variant belongs to a product that exists, and a product    *)
(* has one default variant at most, whatever AddVariant, UpdateVariant and *)
(* DeleteProduct do at the same time.                                      *)
(***************************************************************************)
THEOREM ProductsTypesHold == ProductsSpec => []ProductsTypeOK
<1>1. ProductsInv => ProductsTypeOK
  <2> SUFFICES ASSUME ProductsInv
               PROVE  ProductsTypeOK
    OBVIOUS
  <2>1. \A v \in Rows(variant) : variant[v].product \in Rows(product)
    BY RowsAreRows DEF ProductsInv, Owned, VariantRow
  <2>2. ASSUME NEW p \in Product
        PROVE  Cardinality(DefaultsOf(p)) <= 1
    <3>1. \A v, w \in DefaultsOf(p) : v = w
      BY RowsAreRows DEF DefaultsOf, ListByProduct, ProductsInv, OneDefault
    <3>2. CASE DefaultsOf(p) = {}
      BY <3>2, FS_EmptySet
    <3>3. CASE DefaultsOf(p) # {}
      <4>1. PICK v : DefaultsOf(p) = {v}
        BY <3>1, <3>3
      <4>2. Cardinality({v}) = 1
        BY FS_Singleton
      <4> QED  BY <4>1, <4>2
    <3> QED  BY <3>2, <3>3
  <2> QED  BY <2>1, <2>2 DEF ProductsTypeOK, ProductsInv, ProductsShape
<1> QED  BY <1>1, ProductsInvHolds, PTL

\* What it takes to be bare, in this state and in the next one.
LEMMA BareMeans ==
  ASSUME ProductsInv, ProductsInv'
  PROVE  /\ \A p : p \in Bare <=> p \in Product /\ product[p] = "ACTIVE"
                     /\ \A v \in Variant : ~(variant[v] \in VariantRow /\ variant[v].product = p)
         /\ \A p : p \in Bare' <=> p \in Product /\ product'[p] = "ACTIVE"
                     /\ \A v \in Variant : ~(variant'[v] \in VariantRow /\ variant'[v].product = p)
<1>1. \A p : p \in Bare <=> p \in Product /\ product[p] = "ACTIVE" /\ ListByProduct(p) = {}
  BY RowsAreRows DEF Bare, Published, ListProducts, Detail, Status
<1>2. \A p : p \in Bare' <=> p \in Product /\ product'[p] = "ACTIVE" /\ ListByProduct(p)' = {}
  BY ProductsAssumption
     DEF Bare, Published, ListProducts, Detail, Status, Rows, ProductsInv, ProductsShape
<1>3. \A p, v : v \in ListByProduct(p) <=>
        v \in Variant /\ variant[v] \in VariantRow /\ variant[v].product = p
  BY RowsAreRows DEF ListByProduct
<1>4. \A p, v : v \in ListByProduct(p)' <=>
        v \in Variant /\ variant'[v] \in VariantRow /\ variant'[v].product = p
  BY ProductsAssumption DEF ListByProduct, Rows, ProductsInv, ProductsShape
<1> QED  BY <1>1, <1>2, <1>3, <1>4

LEMMA DefaultsMean ==
  ASSUME ProductsInv, ProductsInv', NEW p
  PROVE  /\ \A v : v \in DefaultsOf(p) <=> v \in Variant /\ variant[v] \in VariantRow
                     /\ variant[v].product = p /\ variant[v].isDefault
         /\ \A v : v \in DefaultsOf(p)' <=> v \in Variant /\ variant'[v] \in VariantRow
                     /\ variant'[v].product = p /\ variant'[v].isDefault
<1>1. \A v : v \in DefaultsOf(p) <=> v \in Variant /\ variant[v] \in VariantRow
                     /\ variant[v].product = p /\ variant[v].isDefault
  BY RowsAreRows DEF DefaultsOf, ListByProduct
<1>2. \A v : v \in DefaultsOf(p)' <=> v \in Variant /\ variant'[v] \in VariantRow
                     /\ variant'[v].product = p /\ variant'[v].isDefault
  BY ProductsAssumption DEF DefaultsOf, ListByProduct, Rows, ProductsInv, ProductsShape
<1> QED  BY <1>1, <1>2

\* Which rows a step can change.
LEMMA RowChanges ==
  ASSUME ProductsInv, [ProductsNext]_productVars
  PROVE  /\ \/ UNCHANGED <<product, variant>>
            \/ \E e \in Editor :
                 \/ \E p \in Product : CreateProduct(e, p) \/ DeleteProduct(e, p)
                 \/ \E v \in Variant : InsertVariant(e, v) \/ DeleteVariant(e, v)
                 \/ WriteProduct(e) \/ WriteVariant(e)
         /\ VariantsKept
<1>1. CASE UNCHANGED <<product, variant>>
  BY <1>1 DEF VariantsKept
<1>2. CASE ~ UNCHANGED <<product, variant>>
  <2>1. ~ UNCHANGED productVars
    BY <1>2 DEF productVars
  <2>2. PICK e \in Editor :
          \/ \E p \in Product : CreateProduct(e, p) \/ DeleteProduct(e, p)
          \/ \E v \in Variant : InsertVariant(e, v) \/ DeleteVariant(e, v)
          \/ WriteProduct(e) \/ WriteVariant(e)
    BY <1>2, <2>1 DEF ProductsNext, ProductRequest, VariantRequest, UpdateProduct, AddVariant,
       UpdateVariant, CountByProduct, EditingStops, BeginEdit, Refused
  <2>3. VariantsKept
    <3>1. CASE UNCHANGED variant
      BY <3>1 DEF VariantsKept
    <3>2. CASE ~ UNCHANGED variant
      BY <2>2, <3>2, DeleteProductKeeps, DeleteVariantKeeps, InsertKeeps, WriteVariantKeeps
         DEF CreateProduct, WriteProduct
    <3> QED  BY <3>1, <3>2
  <2> QED  BY <2>2, <2>3
<1> QED  BY <1>1, <1>2

\* A product is bare from now on: a variant was deleted, or an overlapped request showed it.
LEMMA BareByOverlap ==
  ASSUME ProductsInv, ProductsInv', [ProductsNext]_productVars,
         \A v \in Variant : variant[v] \in VariantRow => variant'[v] # Removed,
         NEW p \in Product, p \in Bare', p \notin Bare
  PROVE  \E e \in overlapped : Changes(e)
<1>1. /\ product'[p] = "ACTIVE"
      /\ \A v \in Variant : ~(variant'[v] \in VariantRow /\ variant'[v].product = p)
  BY BareMeans
<1>2. \A v \in Variant : variant[v] \in VariantRow =>
        variant'[v] \in VariantRow /\ variant'[v].product = variant[v].product
  BY RowChanges, ProductsAssumption DEF VariantsKept, ProductsInv, ProductsShape
<1>3. \A v \in Variant : ~(variant[v] \in VariantRow /\ variant[v].product = p)
  BY <1>1, <1>2
<1>4. product[p] # "ACTIVE"
  BY <1>3, BareMeans
<1>5. PICK e \in Editor : WriteProduct(e)
  <2>1. product' # product
    BY <1>1, <1>4
  <2>2. ASSUME NEW e \in Editor, NEW q \in Product, CreateProduct(e, q)
        PROVE  FALSE
    BY <1>1, <1>4, <2>2 DEF CreateProduct, ProductsInv, ProductsShape
  <2>3. ASSUME NEW e \in Editor, NEW q \in Product, DeleteProduct(e, q)
        PROVE  FALSE
    BY <1>1, <1>4, <2>3, ProductsAssumption DEF DeleteProduct, ProductsInv, ProductsShape, Status
  <2> QED  BY <2>1, <2>2, <2>3, RowChanges DEF InsertVariant, DeleteVariant, WriteVariant
<1>6. editing[e] # NoEdit /\ editing[e].product = p /\ editing[e].status = "ACTIVE"
  BY <1>1, <1>4, <1>5 DEF WriteProduct, ProductsInv, ProductsShape
<1>7. e \in overlapped
  <2> SUFFICES ASSUME e \notin overlapped
               PROVE  FALSE
    OBVIOUS
  <2>1. FreshWrite(e)
    BY <1>6 DEF ProductsInv, FreshEdits
  <2>2. HasVariant(p)
    BY <1>4, <1>5, <1>6, <2>1 DEF FreshWrite, WriteProduct
  <2> QED  BY <1>3, <2>2, RowsAreRows DEF HasVariant, ListByProduct
<1>8. editing'[e] = NoEdit
  BY <1>5 DEF WriteProduct, Done, ProductsInv, ProductsShape
<1> QED  BY <1>1, <1>4, <1>6, <1>7, <1>8 DEF Changes

\* The default moves: a variant was deleted, or a request named the default or was overlapped.
LEMMA DefaultByName ==
  ASSUME ProductsInv, ProductsInv', [ProductsNext]_productVars,
         \A v \in Variant : variant[v] \in VariantRow => variant'[v] # Removed,
         NEW p \in Product, DefaultsOf(p)' # DefaultsOf(p)
  PROVE  \E e \in Editor : Changes(e) /\ (e \in overlapped \/ NamesDefault(e))
<1>1. variant' # variant
  BY DEF DefaultsOf, ListByProduct, Rows
<1>2. PICK e \in Editor : (\E v \in Variant : InsertVariant(e, v)) \/ WriteVariant(e)
  <2>1. ASSUME NEW e \in Editor, NEW q \in Product, DeleteProduct(e, q)
        PROVE  FALSE
    <3>1. \A v \in Variant : variant'[v] = IF v \in ListByProduct(q) THEN Removed ELSE variant[v]
      BY <2>1 DEF DeleteProduct
    <3>2. \A v \in ListByProduct(q) : v \in Variant /\ variant[v] \in VariantRow
      BY RowsAreRows DEF ListByProduct
    <3>3. \A v \in Variant : variant'[v] = variant[v]
      BY <3>1, <3>2
    <3>4. variant' = variant
      BY <2>1, <3>3 DEF DeleteProduct, ProductsInv, ProductsShape
    <3> QED  BY <1>1, <3>4
  <2>2. ASSUME NEW e \in Editor, NEW v \in Variant, DeleteVariant(e, v)
        PROVE  FALSE
    <3>1. variant[v] \in VariantRow
      BY <2>2, RowsAreRows DEF DeleteVariant
    <3>2. variant'[v] = Removed
      BY <2>2 DEF DeleteVariant, ProductsInv, ProductsShape
    <3> QED  BY <3>1, <3>2
  <2> QED  BY <1>1, <2>1, <2>2, RowChanges DEF CreateProduct, WriteProduct
<1>3. editing[e] # NoEdit /\ editing[e] \in Edit /\ editing[e].op \in {"add", "patch"}
  BY <1>2 DEF InsertVariant, WriteVariant, ProductsInv, ProductsShape
<1>4. Changes(e)
  <2>1. editing'[e] = NoEdit
    BY <1>2 DEF InsertVariant, WriteVariant, Done, ProductsInv, ProductsShape
  <2> QED  BY <1>1, <1>3, <2>1 DEF Changes
<1>5. CASE editing[e].op = "add"
  <2>1. editing[e].body.isDefault # Keep
    BY <1>3, <1>5, EditKinds, ProductsAssumption
  <2> QED  BY <1>4, <1>5, <2>1 DEF NamesDefault
<1>6. CASE editing[e].op = "patch" /\ e \notin overlapped /\ editing[e].body.isDefault = Keep
  <2>1. WriteVariant(e)
    BY <1>2, <1>6 DEF InsertVariant
  <2> PICK w, q, dflt : /\ w = editing[e].variant /\ q = editing[e].product
                        /\ dflt = PatchedDefault(editing[e].row, editing[e].body)
    OBVIOUS
  <2>2. w \in Variant /\ variant[w] \in VariantRow /\ variant[w].product = q
    BY <2>1, WrittenVariants
  <2>3. dflt = variant[w].isDefault
    BY <1>3, <1>6 DEF PatchedDefault, ProductsInv, FreshEdits, FreshPatch
  <2>4. \A v \in Variant :
          /\ variant[v] \notin VariantRow => variant'[v] = variant[v]
          /\ variant[v] \in VariantRow =>
               /\ variant'[v] \in VariantRow /\ variant'[v].product = variant[v].product
               /\ v = w => variant'[v].isDefault = dflt
               /\ v # w => variant'[v].isDefault =
                            (variant[v].isDefault /\ ~(dflt /\ variant[v].product = q))
    BY <2>1, WrittenVariants
  <2>5. ASSUME NEW v \in Variant, variant[v] \in VariantRow
        PROVE  variant'[v].isDefault <=> variant[v].isDefault
    <3>1. CASE v = w
      BY <2>3, <2>4, <2>5, <3>1
    <3>2. CASE v # w /\ variant[v].isDefault
      <4>1. ~(dflt /\ variant[v].product = q)
        BY <2>2, <2>3, <2>5, <3>2 DEF ProductsInv, OneDefault
      <4> QED  BY <2>4, <2>5, <3>2, <4>1
    <3>3. CASE v # w /\ ~variant[v].isDefault
      BY <2>4, <2>5, <3>3
    <3> QED  BY <3>1, <3>2, <3>3
  <2>6. \A v : v \in DefaultsOf(p)' <=> v \in DefaultsOf(p)
    BY <2>4, <2>5, DefaultsMean
  <2>7. DefaultsOf(p)' = DefaultsOf(p)
    BY <2>6
  <2> QED  BY <2>7
<1> QED  BY <1>3, <1>4, <1>5, <1>6 DEF NamesDefault

(***************************************************************************)
(* ErrActivateNeedsVariant and the default variant: UpdateProduct counts   *)
(* the variants and UpdateVariant reads the row in an earlier statement,   *)
(* so only a request overlapped by another one, or the deletion of a       *)
(* variant, can leave a product on sale with nothing to buy, and only such *)
(* a request can move the default without naming it.                       *)
(***************************************************************************)
THEOREM ProductsSpoiltOnlyByOverlap == ProductsSpec => OnlyOverlapsSpoilProducts
<1> DEFINE Permitted ==
      /\ Bare' \subseteq Bare \/ VariantsDeleted # {} \/ \E e \in overlapped : Changes(e)
      /\ \A p \in Product : DefaultsOf(p)' # DefaultsOf(p)
           => \/ VariantsDeleted # {}
              \/ \E e \in Editor : Changes(e) /\ (e \in overlapped \/ NamesDefault(e))
<1>1. ProductsInv /\ ProductsInv' /\ [ProductsNext]_productVars => Permitted
  <2> SUFFICES ASSUME ProductsInv, ProductsInv', [ProductsNext]_productVars,
                      VariantsDeleted = {}
               PROVE  /\ Bare' \subseteq Bare \/ \E e \in overlapped : Changes(e)
                      /\ \A p \in Product : DefaultsOf(p)' # DefaultsOf(p)
                           => \E e \in Editor : Changes(e) /\ (e \in overlapped \/ NamesDefault(e))
    OBVIOUS
  <2>1. \A v \in Variant : variant[v] \in VariantRow => variant'[v] # Removed
    BY RowsAreRows DEF VariantsDeleted
  <2>2. \A p \in Bare' : p \in Product
    BY BareMeans
  <2>3. Bare' \subseteq Bare \/ \E e \in overlapped : Changes(e)
    BY <2>1, <2>2, BareByOverlap
  <2>4. \A p \in Product : DefaultsOf(p)' # DefaultsOf(p)
          => \E e \in Editor : Changes(e) /\ (e \in overlapped \/ NamesDefault(e))
    BY <2>1, DefaultByName
  <2> QED  BY <2>3, <2>4
<1> HIDE DEF Permitted
<1>2. ProductsSpec => [][Permitted]_productVars
  BY <1>1, ProductsInvHolds, PTL DEF ProductsSpec
<1> QED  BY <1>2 DEF OnlyOverlapsSpoilProducts, Permitted

-----------------------------------------------------------------------------
(***************************************************************************)
(* CategoryTree: the inductive invariant.                                  *)
(***************************************************************************)

\* What a request is about to write: never the category itself, the parent that was
\* asked for, or the one the row has had since nobody else has changed the table.
MovesSound ==
  \A k \in Curator : move[k] # NoMove =>
    /\ move[k].parent # move[k].category
    /\ move[k].asked \in Node => move[k].parent = move[k].asked
    /\ move[k].asked \notin Node /\ k \notin outdated => parent[move[k].category] = move[k].parent

TreeInv == TreeTypeOK /\ MovesSound

LEMMA TreeRows ==
  ASSUME TreeInv
  PROVE  /\ InTree \subseteq Node
         /\ \A c \in Node : c \in InTree <=> parent[c] \in Node \cup {Root}
         /\ \A c \in InTree : parent[c] \in (InTree \ {c}) \cup {Root}
BY TreeAssumption DEF TreeInv, TreeTypeOK, InTree

\* A request that changes the table outdates the others.
LEMMA FinishStep ==
  ASSUME TreeInv, NEW k \in Curator, Finish(k),
         parent' \in [Node -> Node \cup {Root, Blank, Dropped}],
         \A c \in InTree' : parent'[c] \in (InTree' \ {c}) \cup {Root}
  PROVE  TreeInv'
<1>1. /\ move'[k] = NoMove /\ \A j \in Curator \ {k} : move'[j] = move[j]
      /\ move' \in [Curator -> Move \cup {NoMove}]
      /\ outdated' = (outdated \cup {j \in Curator : move[j] # NoMove}) \ {k}
  BY DEF Finish, TreeInv, TreeTypeOK
<1>2. TreeTypeOK'
  BY <1>1 DEF TreeInv, TreeTypeOK
<1>3. MovesSound'
  BY <1>1 DEF TreeInv, MovesSound
<1> QED  BY <1>2, <1>3 DEF TreeInv

LEMMA CreateBelowKeeps ==
  ASSUME TreeInv, NEW k \in Curator, NEW c \in Node, NEW p \in Node \cup {Root}, CreateBelow(k, c, p)
  PROVE  TreeInv' /\ InTree' = InTree \cup {c}
<1>1. /\ parent' \in [Node -> Node \cup {Root, Blank, Dropped}]
      /\ parent'[c] = p /\ \A d \in Node \ {c} : parent'[d] = parent[d]
  BY DEF CreateBelow, TreeInv, TreeTypeOK
<1>2. c \notin InTree /\ p \in InTree \cup {Root}
  BY DEF CreateBelow, InTree
<1>3. InTree' = InTree \cup {c}
  BY <1>1, <1>2, TreeAssumption DEF InTree
<1>4. \A d \in InTree' : parent'[d] \in (InTree' \ {d}) \cup {Root}
  BY <1>1, <1>2, <1>3, TreeRows
<1> QED  BY <1>1, <1>3, <1>4, FinishStep DEF CreateBelow

LEMMA DeleteBelowKeeps ==
  ASSUME TreeInv, NEW k \in Curator, NEW c \in Node, DeleteBelow(k, c)
  PROVE  TreeInv' /\ InTree' = InTree \ {c}
<1>1. \A d \in Node : parent'[d] = IF d = c THEN Dropped ELSE IF parent[d] = c THEN Root ELSE parent[d]
  BY DEF DeleteBelow
<1>2. parent' \in [Node -> Node \cup {Root, Blank, Dropped}]
  BY <1>1 DEF DeleteBelow, TreeInv, TreeTypeOK
<1>3. InTree' = InTree \ {c}
  BY <1>1, TreeAssumption DEF InTree
<1>4. \A d \in InTree' : parent'[d] \in (InTree' \ {d}) \cup {Root}
  BY <1>1, <1>3, TreeRows
<1> QED  BY <1>2, <1>3, <1>4, FinishStep DEF DeleteBelow

LEMMA WriteParentKeeps ==
  ASSUME TreeInv, NEW k \in Curator, WriteParent(k)
  PROVE  TreeInv' /\ InTree' = InTree
<1>1. move[k] \in Move /\ move[k] # NoMove
  BY DEF WriteParent, TreeInv, TreeTypeOK
<1> PICK c, p : c = move[k].category /\ p = move[k].parent
  OBVIOUS
<1>2. c \in InTree /\ p \in InTree \cup {Root} /\ c # p /\ c \in Node
  BY <1>1 DEF WriteParent, TreeInv, MovesSound, InTree
<1>3. /\ parent' \in [Node -> Node \cup {Root, Blank, Dropped}]
      /\ parent'[c] = p /\ \A d \in Node \ {c} : parent'[d] = parent[d]
  BY <1>2, TreeRows DEF WriteParent, TreeInv, TreeTypeOK
<1>4. InTree' = InTree
  BY <1>2, <1>3, TreeAssumption DEF InTree
<1>5. \A d \in InTree' : parent'[d] \in (InTree' \ {d}) \cup {Root}
  BY <1>2, <1>3, <1>4, TreeRows
<1> QED  BY <1>3, <1>4, <1>5, FinishStep DEF WriteParent

LEMMA UpdateCategoryKeeps ==
  ASSUME TreeInv, NEW k \in Curator, NEW c \in Node, NEW p \in Node \cup {Omitted},
         UpdateCategory(k, c, p)
  PROVE  TreeInv'
<1>1. PICK m : m = [category |-> c, asked |-> p, parent |-> IF p = Omitted THEN parent[c] ELSE p]
  OBVIOUS
<1>2. c \in InTree /\ c # p /\ parent[c] \in (InTree \ {c}) \cup {Root}
  BY TreeRows DEF UpdateCategory, NotItself
<1>3. /\ m \in Move /\ m.category = c /\ m.asked = p
      /\ m.parent = IF p = Omitted THEN parent[c] ELSE p
  BY <1>1, <1>2, TreeRows DEF Move
<1>4. m # NoMove
  BY <1>3, TreeAssumption
<1>5. /\ move'[k] = m /\ \A j \in Curator \ {k} : move'[j] = move[j]
      /\ move' \in [Curator -> Move \cup {NoMove}]
      /\ UNCHANGED <<parent, outdated>>
  BY <1>1, <1>3 DEF UpdateCategory, TreeInv, TreeTypeOK
<1>6. TreeTypeOK'
  BY <1>4, <1>5 DEF TreeInv, TreeTypeOK, InTree
<1>7. MovesSound'
  BY <1>2, <1>3, <1>5, TreeAssumption DEF TreeInv, MovesSound
<1> QED  BY <1>6, <1>7 DEF TreeInv

LEMMA MoveStopsKeeps ==
  ASSUME TreeInv, NEW k \in Curator, MoveStops(k)
  PROVE  TreeInv'
<1>1. /\ move'[k] = NoMove /\ \A j \in Curator \ {k} : move'[j] = move[j]
      /\ move' \in [Curator -> Move \cup {NoMove}]
      /\ parent' = parent /\ outdated' = outdated \ {k}
  BY DEF MoveStops, TreeInv, TreeTypeOK
<1>2. TreeTypeOK'
  BY <1>1 DEF TreeInv, TreeTypeOK, InTree
<1>3. MovesSound'
  BY <1>1 DEF TreeInv, MovesSound
<1> QED  BY <1>2, <1>3 DEF TreeInv

(***************************************************************************)
(* Parents have rows, no category is its own parent, and a request that    *)
(* was not outdated writes what it was asked for, or what is there.        *)
(***************************************************************************)
THEOREM TreeInvHolds == TreeSpec => []TreeInv
<1>1. TreeInit => TreeInv
  BY TreeAssumption DEF TreeInit, TreeInv, TreeTypeOK, MovesSound, InTree
<1>2. TreeInv /\ [TreeNext]_treeVars => TreeInv'
  <2>1. TreeInv /\ UNCHANGED treeVars => TreeInv'
    BY DEF treeVars, TreeInv, TreeTypeOK, MovesSound, InTree
  <2>2. TreeInv /\ TreeNext => TreeInv'
    BY CreateBelowKeeps, DeleteBelowKeeps, WriteParentKeeps, UpdateCategoryKeeps, MoveStopsKeeps
       DEF TreeNext
  <2> QED  BY <2>1, <2>2
<1> QED  BY <1>1, <1>2, PTL DEF TreeSpec

(***************************************************************************)
(* Every parent_id has a row, whatever Create, Update and Delete do at the *)
(* same time, and ErrParentCycle holds for the smallest circle: no         *)
(* category is its own parent.                                             *)
(***************************************************************************)
THEOREM TreeTypesHold == TreeSpec => []TreeTypeOK
<1>1. TreeInv => TreeTypeOK
  BY DEF TreeInv
<1> QED  BY <1>1, TreeInvHolds, PTL

-----------------------------------------------------------------------------
(***************************************************************************)
(* CategoryTree: circles.  Above(c) is the smallest set with the parent of *)
(* c that is closed under parent.                                          *)
(***************************************************************************)

\* S holds the parent of c and, with a category, its parent.
ClosedAbove(S, c) == \A d \in S \cup {c} : parent[d] \in InTree => parent[d] \in S

LEMMA AboveIsLeast ==
  ASSUME NEW c, NEW S, S \subseteq InTree, ClosedAbove(S, c)
  PROVE  Above(c) \subseteq S
BY DEF Above, ClosedAbove

LEMMA AboveIsClosed ==
  ASSUME NEW c
  PROVE  Above(c) \subseteq InTree /\ ClosedAbove(Above(c), c)
<1>1. Above(c) \subseteq InTree
  BY DEF Above
<1>2. ASSUME NEW d \in Above(c) \cup {c}, parent[d] \in InTree,
             NEW S \in SUBSET InTree, ClosedAbove(S, c)
      PROVE  parent[d] \in S
  <2>1. d \in S \cup {c}
    BY <1>2, AboveIsLeast
  <2> QED  BY <1>2, <2>1 DEF ClosedAbove
<1>3. ClosedAbove(Above(c), c)
  <2> SUFFICES ASSUME NEW d \in Above(c) \cup {c}, parent[d] \in InTree
               PROVE  parent[d] \in Above(c)
    BY DEF ClosedAbove
  <2> QED  BY <1>2 DEF Above, ClosedAbove
<1> QED  BY <1>1, <1>3

\* A category is on no circle if a closed set leaves it out.
LEMMA OnCircle ==
  ASSUME NEW c
  PROVE  c \in Circular <=>
           c \in InTree /\ \A S \in SUBSET InTree : ClosedAbove(S, c) => c \in S
BY DEF Circular, Above, ClosedAbove

LEMMA OnNextCircle ==
  ASSUME NEW c
  PROVE  c \in Circular' <=>
           c \in InTree' /\ \A S \in SUBSET InTree' : ClosedAbove(S, c)' => c \in S
BY DEF Circular, Above, ClosedAbove

\* A category that is created closes no circle: nothing lies below it yet.
LEMMA CreatingClosesNone ==
  ASSUME TreeInv, NEW k \in Curator, NEW c \in Node, NEW p \in Node \cup {Root}, CreateBelow(k, c, p)
  PROVE  Circular' \subseteq Circular
<1>1. /\ InTree' = InTree \cup {c} /\ c \notin InTree /\ p \in InTree \cup {Root}
      /\ parent'[c] = p /\ \A d \in Node \ {c} : parent'[d] = parent[d]
  <2>1. InTree' = InTree \cup {c}
    BY CreateBelowKeeps
  <2>2. parent' = [parent EXCEPT ![c] = p] /\ parent[c] = Blank /\ p \in InTree \cup {Root}
    BY DEF CreateBelow
  <2>3. parent'[c] = p /\ \A d \in Node \ {c} : parent'[d] = parent[d]
    BY <2>2 DEF TreeInv, TreeTypeOK
  <2>4. c \notin InTree
    BY <2>2 DEF InTree
  <2> QED  BY <2>1, <2>2, <2>3, <2>4
<1>2. \A d \in InTree : parent'[d] = parent[d] /\ parent[d] \in InTree \cup {Root}
  BY <1>1, TreeRows
<1>3. Root \notin InTree'
  BY TreeAssumption DEF InTree
<1>4. c \notin Circular'
  <2>1. PICK tree : tree = InTree
    OBVIOUS
  <2>2. ClosedAbove(tree, c)'
    BY <1>1, <1>2, <1>3, <2>1 DEF ClosedAbove
  <2> QED  BY <1>1, <2>1, <2>2, OnNextCircle
<1>5. ASSUME NEW d \in Circular', NEW S \in SUBSET InTree, ClosedAbove(S, d)
      PROVE  d \in S
  <2>1. d \in InTree
    BY <1>1, <1>4, OnNextCircle
  <2>2. ClosedAbove(S, d)'
    BY <1>1, <1>2, <1>3, <1>5, <2>1 DEF ClosedAbove
  <2> QED  BY <1>1, <1>5, <2>2, OnNextCircle
<1> QED  BY <1>1, <1>4, <1>5, OnCircle, OnNextCircle

\* Deleting a category closes no circle: what lay below it is a root now.
LEMMA DeletingClosesNone ==
  ASSUME TreeInv, NEW k \in Curator, NEW c \in Node, DeleteBelow(k, c)
  PROVE  Circular' \subseteq Circular
<1>1. InTree' = InTree \ {c}
  BY DeleteBelowKeeps
<1>2. \A d \in InTree' : parent'[d] = IF parent[d] = c THEN Root ELSE parent[d]
  BY <1>1 DEF DeleteBelow, InTree
<1>3. Root \notin InTree'
  BY TreeAssumption DEF InTree
<1>4. ASSUME NEW d \in Circular', NEW S \in SUBSET InTree, ClosedAbove(S, d)
      PROVE  d \in S
  <2>1. d \in InTree'
    BY OnNextCircle
  <2>2. PICK T : T = S \ {c}
    OBVIOUS
  <2>3. T \in SUBSET InTree'
    BY <1>1, <2>2
  <2>4. ClosedAbove(T, d)'
    BY <1>1, <1>2, <1>3, <1>4, <2>1, <2>2, <2>3 DEF ClosedAbove
  <2> QED  BY <2>2, <2>3, <2>4, OnNextCircle
<1> QED  BY <1>1, <1>4, OnCircle, OnNextCircle

\* A category that becomes a root, or moves below one that does not lie below it.
LEMMA MovingClosesNone ==
  ASSUME TreeInv, NEW c \in InTree, NEW p \in InTree \cup {Root},
         p \in InTree => p # c /\ c \notin Above(p),
         InTree' = InTree, parent'[c] = p, \A d \in InTree \ {c} : parent'[d] = parent[d]
  PROVE  Circular' \subseteq Circular
<1>1. Root \notin InTree
  BY TreeAssumption DEF InTree
<1> SUFFICES ASSUME NEW d \in Circular', NEW S \in SUBSET InTree, ClosedAbove(S, d)
             PROVE  d \in S
  BY OnCircle, OnNextCircle
<1>2. d \in InTree
  BY OnNextCircle
<1>3. CASE p = Root
  <2>1. ClosedAbove(S, d)'
    BY <1>1, <1>2, <1>3 DEF ClosedAbove
  <2> QED  BY <2>1, OnNextCircle
<1>4. CASE p \in InTree
  \* What p and the categories above it are, before and after.
  <2>1. PICK A : A = Above(p) \cup {p}
    OBVIOUS
  <2>2. A \in SUBSET InTree /\ c \notin A /\ p \in A
    BY <1>4, <2>1, AboveIsClosed
  <2>3. \A a \in A : parent[a] \in InTree => parent[a] \in A
    BY <2>1, AboveIsClosed DEF ClosedAbove
  <2>4. \A a \in A : parent'[a] = parent[a]
    BY <2>2
  <2>5. CASE d \in A
    <3>1. PICK T : T = S \cap A
      OBVIOUS
    <3>2. ClosedAbove(T, d)'
      BY <2>2, <2>3, <2>4, <2>5, <3>1 DEF ClosedAbove
    <3> QED  BY <3>1, <3>2, OnNextCircle
  <2>6. CASE d \notin A
    <3>1. PICK T : T = S \cup A
      OBVIOUS
    <3>2. T \in SUBSET InTree
      BY <2>2, <3>1
    <3>3. ClosedAbove(T, d)'
      <4> SUFFICES ASSUME NEW e \in T \cup {d}, parent'[e] \in InTree
                   PROVE  parent'[e] \in T
        BY DEF ClosedAbove
      <4>1. CASE e = c
        BY <2>2, <3>1, <4>1
      <4>2. CASE e \in A
        BY <2>3, <2>4, <3>1, <4>2
      <4>3. CASE e # c /\ e \notin A
        BY <1>2, <3>1, <3>2, <4>3 DEF ClosedAbove
      <4> QED  BY <4>1, <4>2, <4>3
    <3> QED  BY <2>6, <3>1, <3>2, <3>3, OnNextCircle
  <2> QED  BY <2>5, <2>6
<1> QED  BY <1>3, <1>4

LEMMA CirclesClosed ==
  ASSUME TreeInv, [TreeNext]_treeVars, ~(Circular' \subseteq Circular)
  PROVE  \E k \in Curator :
           /\ move[k] # NoMove /\ move'[k] = NoMove
           /\ \/ move[k].asked \in Node /\ move[k].category \in Above(move[k].asked)
              \/ move[k].asked = Omitted /\ k \in outdated
<1>1. parent' # parent
  BY DEF Circular, Above, InTree
<1>2. PICK k \in Curator : WriteParent(k)
  BY <1>1, CreatingClosesNone, DeletingClosesNone
     DEF TreeNext, treeVars, UpdateCategory, MoveStops
<1>3. move[k] # NoMove /\ move'[k] = NoMove /\ move[k] \in Move
  BY <1>2 DEF WriteParent, Finish, TreeInv, TreeTypeOK
<1>4. PICK c, p, asked : c = move[k].category /\ p = move[k].parent /\ asked = move[k].asked
  OBVIOUS
<1>5. c \in InTree /\ p \in InTree \cup {Root} /\ c # p /\ asked \in Node \cup {Omitted}
  BY <1>2, <1>3, <1>4 DEF WriteParent, TreeInv, MovesSound, Move
<1>6. InTree' = InTree
  BY <1>2, WriteParentKeeps
<1>7. parent' = [parent EXCEPT ![c] = p]
  BY <1>2, <1>4 DEF WriteParent
<1>8. parent'[c] = p /\ \A d \in InTree \ {c} : parent'[d] = parent[d]
  BY <1>5, <1>7, TreeRows DEF TreeInv, TreeTypeOK
<1>9. p \in InTree /\ c \in Above(p)
  BY <1>5, <1>6, <1>8, MovingClosesNone
<1>10. CASE asked \in Node
  <2>1. p = asked
    BY <1>3, <1>4, <1>10 DEF TreeInv, MovesSound
  <2> QED  BY <1>3, <1>4, <1>9, <1>10, <2>1
<1>11. CASE asked \notin Node
  <2>1. k \in outdated
    <3> SUFFICES ASSUME k \notin outdated
                 PROVE  FALSE
      OBVIOUS
    <3>1. parent[c] = p
      BY <1>3, <1>4, <1>11 DEF TreeInv, MovesSound
    <3>2. parent' = parent
      BY <1>5, <1>7, <3>1, TreeRows DEF TreeInv, TreeTypeOK
    <3> QED  BY <1>1, <3>2
  <2> QED  BY <1>3, <1>4, <1>5, <1>11, <2>1
<1> QED  BY <1>10, <1>11

(***************************************************************************)
(* "A category cannot be its own ancestor": ErrParentCycle keeps this but  *)
(* for a move below a descendant, which it does not look for, and for a    *)
(* request that writes back a parent it read before another one changed    *)
(* the tree.                                                               *)
(***************************************************************************)
THEOREM CirclesOnlyByDescendants == TreeSpec => OnlyDescendantsCloseCircles
<1> DEFINE Permitted ==
      \/ Circular' \subseteq Circular
      \/ \E k \in Curator :
           /\ move[k] # NoMove /\ move'[k] = NoMove
           /\ \/ move[k].asked \in Node /\ move[k].category \in Above(move[k].asked)
              \/ move[k].asked = Omitted /\ k \in outdated
<1>1. TreeInv /\ [TreeNext]_treeVars => Permitted
  BY CirclesClosed
<1> HIDE DEF Permitted
<1>2. TreeSpec => [][Permitted]_treeVars
  BY <1>1, TreeInvHolds, PTL DEF TreeSpec
<1> QED  BY <1>2 DEF OnlyDescendantsCloseCircles, Permitted

-----------------------------------------------------------------------------
(***************************************************************************)
(* Taxonomy: the inductive invariant.                                      *)
(***************************************************************************)
TaxonomyTables ==
  /\ category \in [Category -> {"row", New, Erased}]
  /\ attribute \in [Attribute -> AttributeRow \cup {New, Erased}]
  /\ value \in [Value -> Attribute \cup {New, Erased}]
  /\ options \in [ProductVariant -> OptionSets]

\* The foreign keys.
References ==
  /\ links \subseteq Alive(category)
  /\ \A a \in Alive(attribute) : attribute[a].category \in Alive(category)
  /\ \A x \in Alive(value) : value[x] \in Alive(attribute)
  /\ \A v \in ProductVariant : \A o \in options[v] : value[o[2]] = o[1]
  /\ specs \subseteq Alive(attribute)

TaskTypes == task \in [Clerk -> Task \cup {NoTask}] /\ disturbed \subseteq Busy

\* What a request has checked or done still stands.
FreshTask(t) ==
  /\ t.op = "categories" /\ t.step = "insert" => links = {}
  /\ t.op = "options" => {o[1] : o \in t.set} \subseteq WithRole("VARIANT")
  /\ t.op = "specs" => t.set \subseteq WithRole("SPEC")

FreshTasks == \A k \in Clerk : task[k] # NoTask /\ k \notin disturbed => FreshTask(task[k])

TaxonomyInv == TaxonomyTables /\ References /\ TaskTypes /\ FreshTasks

LEMMA AliveRows ==
  ASSUME TaxonomyTables
  PROVE  /\ \A c : c \in Alive(category) <=> c \in Category /\ category[c] = "row"
         /\ \A a : a \in Alive(attribute) <=> a \in Attribute /\ attribute[a] \in AttributeRow
         /\ \A x : x \in Alive(value) <=> x \in Value /\ value[x] \in Attribute
BY TaxonomyAssumption DEF TaxonomyTables, Alive

LEMMA AliveRowsNext ==
  ASSUME TaxonomyTables'
  PROVE  /\ \A c : c \in Alive(category)' <=> c \in Category /\ category'[c] = "row"
         /\ \A a : a \in Alive(attribute)' <=> a \in Attribute /\ attribute'[a] \in AttributeRow
         /\ \A x : x \in Alive(value)' <=> x \in Value /\ value'[x] \in Attribute
BY TaxonomyAssumption DEF TaxonomyTables, Alive

\* A request reads, and begins.
LEMMA ReadingStep ==
  ASSUME TaxonomyInv, NEW k \in Clerk, NEW t \in Task, Reading(k, t), FreshTask(t)
  PROVE  TaxonomyInv'
<1>1. /\ task'[k] = t /\ \A j \in Clerk \ {k} : task'[j] = task[j]
      /\ task' \in [Clerk -> Task \cup {NoTask}]
      /\ UNCHANGED <<category, attribute, value, links, options, specs, disturbed>>
  BY DEF Reading, rows, TaxonomyInv, TaskTypes
<1>2. t # NoTask
  BY TaxonomyAssumption
<1>3. TaxonomyTables' /\ References'
  BY <1>1 DEF TaxonomyInv, TaxonomyTables, References, Alive
<1>4. TaskTypes'
  BY <1>1, <1>2 DEF TaxonomyInv, TaskTypes, Busy
<1>5. FreshTasks'
  <2> SUFFICES ASSUME NEW j \in Clerk, task'[j] # NoTask, j \notin disturbed
               PROVE  FreshTask(task[j])'
    BY <1>1 DEF FreshTasks
  <2>1. PICK d : d = task'[j]
    OBVIOUS
  <2>2. FreshTask(d)
    BY <1>1, <2>1 DEF TaxonomyInv, FreshTasks
  <2>3. FreshTask(d)'
    BY <1>1, <2>2 DEF FreshTask, WithRole, ListByCategories, Alive
  <2> QED  BY <2>1, <2>3 DEF FreshTask
<1> QED  BY <1>3, <1>4, <1>5 DEF TaxonomyInv

LEMMA TaskStopsKeeps ==
  ASSUME TaxonomyInv, NEW k \in Clerk, TaskStops(k)
  PROVE  TaxonomyInv'
<1>1. /\ task'[k] = NoTask /\ \A j \in Clerk \ {k} : task'[j] = task[j]
      /\ task' \in [Clerk -> Task \cup {NoTask}]
      /\ disturbed' = disturbed \ {k}
      /\ UNCHANGED <<category, attribute, value, links, options, specs>>
  BY DEF TaskStops, rows, TaxonomyInv, TaskTypes
<1>2. TaxonomyTables' /\ References'
  BY <1>1 DEF TaxonomyInv, TaxonomyTables, References, Alive
<1>3. TaskTypes'
  BY <1>1 DEF TaxonomyInv, TaskTypes, Busy
<1>4. FreshTasks'
  <2> SUFFICES ASSUME NEW j \in Clerk, task'[j] # NoTask, j \notin disturbed'
               PROVE  FreshTask(task[j])'
    BY <1>1 DEF FreshTasks
  <2>1. PICK d : d = task'[j]
    OBVIOUS
  <2>2. FreshTask(d)
    BY <1>1, <2>1 DEF TaxonomyInv, FreshTasks
  <2>3. FreshTask(d)'
    BY <1>1, <2>2 DEF FreshTask, WithRole, ListByCategories, Alive
  <2> QED  BY <2>1, <2>3 DEF FreshTask
<1> QED  BY <1>2, <1>3, <1>4 DEF TaxonomyInv

\* A request changes rows, and disturbs the others.
LEMMA WritingStep ==
  ASSUME TaxonomyInv, NEW k \in Clerk, NEW t \in Task \cup {NoTask}, Writing(k, t),
         TaxonomyTables', References',
         t # NoTask => t.op = "categories" /\ links' = {}
  PROVE  TaxonomyInv'
<1>1. /\ task'[k] = t /\ \A j \in Clerk \ {k} : task'[j] = task[j]
      /\ task' \in [Clerk -> Task \cup {NoTask}]
      /\ disturbed' = (disturbed \cup (Busy \ {k})) \cap {j \in Clerk : task'[j] # NoTask}
  BY DEF Writing, TaxonomyInv, TaskTypes
<1>2. TaskTypes'
  BY <1>1 DEF TaskTypes, Busy
<1>3. FreshTasks'
  <2> SUFFICES ASSUME NEW j \in Clerk, task'[j] # NoTask, j \notin disturbed'
               PROVE  FreshTask(task[j])'
    BY <1>1 DEF FreshTasks
  <2>1. j = k
    BY <1>1 DEF Busy
  <2> QED  BY <1>1, <2>1 DEF FreshTask
<1> QED  BY <1>2, <1>3 DEF TaxonomyInv

LEMMA Cascades ==
  ASSUME TaxonomyInv, NEW attrs, NEW values, Cascade(attrs, values), attrs \subseteq Attribute,
         category' \in [Category -> {"row", New, Erased}],
         links' \subseteq Alive(category'),
         \A a \in Alive(attribute) \ attrs : attribute[a].category \in Alive(category')
  PROVE  TaxonomyTables' /\ References'
<1>1. /\ \A a \in Attribute : attribute'[a] = IF a \in attrs THEN Erased ELSE attribute[a]
      /\ attribute' \in [Attribute -> AttributeRow \cup {New, Erased}]
  BY DEF Cascade, TaxonomyInv, TaxonomyTables
<1>2. /\ \A x \in Value : value'[x] = IF x \in values \/ value[x] \in attrs THEN Erased ELSE value[x]
      /\ value' \in [Value -> Attribute \cup {New, Erased}]
  BY DEF Cascade, TaxonomyInv, TaxonomyTables
<1>3. \A v \in ProductVariant : options'[v] = {o \in options[v] : o[1] \notin attrs /\ o[2] \notin values}
  BY DEF Cascade
<1>4. options' \in [ProductVariant -> OptionSets]
  <2>1. \A v \in ProductVariant : options[v] \in OptionSets
    BY DEF TaxonomyInv, TaxonomyTables
  <2>2. \A v \in ProductVariant : options'[v] \in OptionSets
    BY <1>3, <2>1 DEF OptionSets
  <2> QED  BY <2>2 DEF Cascade
<1>5. TaxonomyTables'
  BY <1>1, <1>2, <1>4 DEF TaxonomyTables
<1>6. \A a : a \in Alive(attribute)' <=> a \in Alive(attribute) \ attrs
  BY <1>1, <1>5, AliveRows, AliveRowsNext, TaxonomyAssumption DEF TaxonomyInv
<1>7. \A a \in Alive(attribute)' : attribute'[a].category \in Alive(category)'
  BY <1>1, <1>6, AliveRows DEF TaxonomyInv
<1>8. \A x \in Alive(value)' : value'[x] \in Alive(attribute)'
  BY <1>2, <1>5, <1>6, AliveRows, AliveRowsNext, TaxonomyAssumption DEF TaxonomyInv, References
<1>9. ASSUME NEW v \in ProductVariant, NEW o \in options'[v]
      PROVE  value'[o[2]] = o[1]
  <2>1. o \in options[v] /\ o[1] \notin attrs /\ o[2] \notin values
    BY <1>3
  <2>2. options[v] \in OptionSets
    BY DEF TaxonomyInv, TaxonomyTables
  <2>3. o[2] \in Value
    BY <2>1, <2>2 DEF OptionSets
  <2>4. value[o[2]] = o[1]
    BY <2>1 DEF TaxonomyInv, References
  <2> QED  BY <1>2, <2>1, <2>3, <2>4
<1>10. specs' \subseteq Alive(attribute)'
  BY <1>6 DEF Cascade, TaxonomyInv, References
<1> QED  BY <1>5, <1>7, <1>8, <1>9, <1>10 DEF References

LEMMA TableStepsKeep ==
  ASSUME TaxonomyInv, NEW k \in Clerk, task[k] = NoTask
  PROVE  /\ \A c \in Category : CreateCategory(k, c) => TaxonomyInv'
         /\ \A c \in Category : DeleteCategory(k, c) => TaxonomyInv'
         /\ \A a \in Attribute, row \in AttributeRow : CreateAttribute(k, a, row) => TaxonomyInv'
         /\ \A a \in Attribute : DeleteAttribute(k, a) => TaxonomyInv'
         /\ \A x \in Value, a \in Attribute : AddValue(k, x, a) => TaxonomyInv'
         /\ \A x \in Value : DeleteValue(k, x) => TaxonomyInv'
<1>1. ASSUME NEW c \in Category, CreateCategory(k, c)
      PROVE  TaxonomyInv'
  <2>1. /\ category' = [category EXCEPT ![c] = "row"]
        /\ UNCHANGED <<attribute, value, links, options, specs>>
    BY <1>1 DEF CreateCategory
  <2>2. TaxonomyTables'
    BY <2>1 DEF TaxonomyInv, TaxonomyTables
  <2>3. Alive(category) \subseteq Alive(category')
    BY <2>1, <2>2, AliveRows, AliveRowsNext DEF TaxonomyInv, TaxonomyTables
  <2>4. References'
    BY <2>1, <2>3 DEF TaxonomyInv, References, Alive
  <2> QED  BY <1>1, <2>2, <2>4, WritingStep DEF CreateCategory
<1>2. ASSUME NEW c \in Category, DeleteCategory(k, c)
      PROVE  TaxonomyInv'
  <2>1. /\ category' = [category EXCEPT ![c] = Erased] /\ links' = links \ {c}
        /\ Cascade(ListByCategories({c}), {})
    BY <1>2 DEF DeleteCategory
  <2>2. category' \in [Category -> {"row", New, Erased}]
    BY <2>1 DEF TaxonomyInv, TaxonomyTables
  <2>3. \A d \in Alive(category) \ {c} : d \in Alive(category')
    BY <2>1, <2>2 DEF Alive, TaxonomyInv, TaxonomyTables
  <2>4. links' \subseteq Alive(category')
    BY <2>1, <2>3 DEF TaxonomyInv, References
  <2>5. PICK attrs : attrs = ListByCategories({c})
    OBVIOUS
  <2>6. attrs \subseteq Attribute
        /\ \A a \in Alive(attribute) \ attrs : attribute[a].category # c
    BY <2>5, AliveRows DEF ListByCategories, TaxonomyInv
  <2>7. \A a \in Alive(attribute) \ attrs : attribute[a].category \in Alive(category')
    BY <2>3, <2>6 DEF TaxonomyInv, References
  <2>8. TaxonomyTables' /\ References'
    BY <2>1, <2>2, <2>4, <2>5, <2>6, <2>7, Cascades
  <2> QED  BY <1>2, <2>8, WritingStep DEF DeleteCategory
<1>3. ASSUME NEW a \in Attribute, NEW row \in AttributeRow, CreateAttribute(k, a, row)
      PROVE  TaxonomyInv'
  <2>1. /\ attribute[a] = New /\ row.category \in Alive(category)
        /\ attribute' = [attribute EXCEPT ![a] = row]
        /\ UNCHANGED <<category, value, links, options, specs>>
    BY <1>3 DEF CreateAttribute
  <2>2. TaxonomyTables' /\ attribute'[a] = row /\ \A b \in Attribute \ {a} : attribute'[b] = attribute[b]
    BY <2>1 DEF TaxonomyInv, TaxonomyTables
  <2>3. \A b \in Alive(attribute)' : b = a \/ (b \in Alive(attribute) /\ attribute'[b] = attribute[b])
    BY <2>2, AliveRows, AliveRowsNext DEF TaxonomyInv
  <2>4. Alive(attribute) \subseteq Alive(attribute')
    BY <2>2, AliveRows, AliveRowsNext DEF TaxonomyInv
  <2>5. \A b \in Alive(attribute)' : attribute'[b].category \in Alive(category)
    BY <2>1, <2>2, <2>3 DEF TaxonomyInv, References
  <2>6. References'
    BY <2>1, <2>4, <2>5 DEF TaxonomyInv, References, Alive
  <2> QED  BY <1>3, <2>2, <2>6, WritingStep DEF CreateAttribute
<1>4. ASSUME NEW a \in Attribute, DeleteAttribute(k, a)
      PROVE  TaxonomyInv'
  <2>1. Cascade({a}, {}) /\ category' = category /\ links' = links
    BY <1>4 DEF DeleteAttribute
  <2>2. TaxonomyTables' /\ References'
    BY <2>1, Cascades DEF TaxonomyInv, TaxonomyTables, References
  <2> QED  BY <1>4, <2>2, WritingStep DEF DeleteAttribute
<1>5. ASSUME NEW x \in Value, NEW a \in Attribute, AddValue(k, x, a)
      PROVE  TaxonomyInv'
  <2>1. /\ value[x] = New /\ a \in Alive(attribute)
        /\ value' = [value EXCEPT ![x] = a]
        /\ UNCHANGED <<category, attribute, links, options, specs>>
    BY <1>5 DEF AddValue
  <2>2. TaxonomyTables' /\ value'[x] = a /\ \A y \in Value \ {x} : value'[y] = value[y]
    BY <2>1 DEF TaxonomyInv, TaxonomyTables
  <2>3. \A y \in Alive(value)' : y = x \/ (y \in Alive(value) /\ value'[y] = value[y])
    BY <2>2, AliveRows, AliveRowsNext DEF TaxonomyInv
  <2>4. ASSUME NEW v \in ProductVariant, NEW o \in options[v]
        PROVE  value'[o[2]] = o[1]
    <3>1. options[v] \in OptionSets
      BY DEF TaxonomyInv, TaxonomyTables
    <3>2. o[1] \in Attribute /\ o[2] \in Value /\ value[o[2]] = o[1]
      BY <3>1 DEF OptionSets, TaxonomyInv, References
    <3>3. o[2] # x
      BY <2>1, <3>2, TaxonomyAssumption
    <3> QED  BY <2>2, <3>2, <3>3
  <2>5. \A y \in Alive(value)' : value'[y] \in Alive(attribute)
    BY <2>1, <2>2, <2>3 DEF TaxonomyInv, References
  <2>6. References'
    BY <2>1, <2>4, <2>5 DEF TaxonomyInv, References, Alive
  <2> QED  BY <1>5, <2>2, <2>6, WritingStep DEF AddValue
<1>6. ASSUME NEW x \in Value, DeleteValue(k, x)
      PROVE  TaxonomyInv'
  <2>1. Cascade({}, {x}) /\ category' = category /\ links' = links
    BY <1>6 DEF DeleteValue
  <2>2. TaxonomyTables' /\ References'
    BY <2>1, Cascades DEF TaxonomyInv, TaxonomyTables, References
  <2> QED  BY <1>6, <2>2, WritingStep DEF DeleteValue
<1> QED  BY <1>1, <1>2, <1>3, <1>4, <1>5, <1>6

LEMMA ReadingStepsKeep ==
  ASSUME TaxonomyInv, NEW k \in Clerk
  PROVE  /\ \A a \in Attribute, role \in Role : UpdateAttribute(k, a, role) => TaxonomyInv'
         /\ \A ids \in SUBSET Category : SetCategories(k, ids) => TaxonomyInv'
         /\ \A v \in ProductVariant, set \in OptionSets : ResolveOptions(k, v, set) => TaxonomyInv'
         /\ \A set \in SUBSET Attribute : SetSpecs(k, set) => TaxonomyInv'
<1>1. ASSUME NEW a \in Attribute, NEW role \in Role, UpdateAttribute(k, a, role)
      PROVE  TaxonomyInv'
  <2>1. PICK row \in AttributeRow : row = attribute[a]
    BY <1>1, AliveRows DEF UpdateAttribute, TaxonomyInv
  <2>2. PICK new : new = [row EXCEPT !.role = role]
    OBVIOUS
  <2>3. new \in AttributeRow
    BY <2>2 DEF AttributeRow
  <2>4. PICK t : t = [op |-> "attribute", id |-> a, row |-> new]
    OBVIOUS
  <2>5. t \in Task /\ FreshTask(t)
    BY <2>3, <2>4 DEF Task, FreshTask
  <2>6. Reading(k, t)
    BY <1>1, <2>1, <2>2, <2>4 DEF UpdateAttribute
  <2> QED  BY <2>5, <2>6, ReadingStep
<1>2. ASSUME NEW ids \in SUBSET Category, SetCategories(k, ids)
      PROVE  TaxonomyInv'
  <2>1. PICK t : t = [op |-> "categories", step |-> "delete", ids |-> ids]
    OBVIOUS
  <2>2. t \in Task /\ FreshTask(t)
    BY <2>1 DEF Task, FreshTask
  <2> QED  BY <1>2, <2>1, <2>2, ReadingStep DEF SetCategories
<1>3. ASSUME NEW v \in ProductVariant, NEW set \in OptionSets, ResolveOptions(k, v, set)
      PROVE  TaxonomyInv'
  <2>1. PICK t : t = [op |-> "options", variant |-> v, set |-> set]
    OBVIOUS
  <2>2. t \in Task /\ FreshTask(t)
    BY <1>3, <2>1 DEF Task, FreshTask, ResolveOptions
  <2> QED  BY <1>3, <2>1, <2>2, ReadingStep DEF ResolveOptions
<1>4. ASSUME NEW set \in SUBSET Attribute, SetSpecs(k, set)
      PROVE  TaxonomyInv'
  <2>1. PICK t : t = [op |-> "specs", set |-> set]
    OBVIOUS
  <2>2. t \in Task /\ FreshTask(t)
    BY <1>4, <2>1 DEF Task, FreshTask, SetSpecs, SpecAttributes
  <2> QED  BY <1>4, <2>1, <2>2, ReadingStep DEF SetSpecs
<1> QED  BY <1>1, <1>2, <1>3, <1>4

LEMMA TaskKinds ==
  ASSUME NEW t \in Task
  PROVE  /\ t.op = "categories" => t \in [op : {"categories"}, step : {"delete", "insert"}, ids : SUBSET Category]
         /\ t.op = "options" => t.variant \in ProductVariant /\ t.set \in OptionSets
         /\ t.op = "specs" => t.set \in SUBSET Attribute
         /\ t.op = "attribute" => t.id \in Attribute /\ t.row \in AttributeRow
<1>1. CASE t \in [op : {"categories"}, step : {"delete", "insert"}, ids : SUBSET Category]
  BY <1>1
<1>2. CASE t \in [op : {"options"}, variant : ProductVariant, set : OptionSets]
  BY <1>2
<1>3. CASE t \in [op : {"specs"}, set : SUBSET Attribute]
  BY <1>3
<1>4. CASE t \in [op : {"attribute"}, id : Attribute, row : AttributeRow]
  BY <1>4
<1> QED  BY <1>1, <1>2, <1>3, <1>4 DEF Task

LEMMA TaskStepsKeep ==
  ASSUME TaxonomyInv, NEW k \in Clerk, TaskStep(k)
  PROVE  TaxonomyInv'
<1> PICK t : t = task[k]
  OBVIOUS
<1>1. t # NoTask => t \in Task
  BY DEF TaxonomyInv, TaskTypes
<1>2. CASE WriteAttribute(k)
  <2>1. t.id \in Attribute /\ t.row \in AttributeRow /\ t.id \in Alive(attribute)
    BY <1>1, <1>2, TaskKinds DEF WriteAttribute
  <2>2. PICK a, role : a = t.id /\ role = t.row.role
    OBVIOUS
  <2>3. a \in Attribute /\ role \in Role
    BY <2>1, <2>2 DEF AttributeRow
  <2>4. PICK row \in AttributeRow : row = attribute[a]
    BY <2>1, <2>2, AliveRows DEF TaxonomyInv
  <2>5. PICK new : new = [row EXCEPT !.role = role]
    OBVIOUS
  <2>6. new \in AttributeRow /\ new.category = row.category
    BY <2>3, <2>5 DEF AttributeRow
  <2>7. /\ attribute' = [attribute EXCEPT ![a] = new]
        /\ UNCHANGED <<category, value, links, options, specs>>
    BY <1>2, <2>2, <2>4, <2>5 DEF WriteAttribute
  <2>8. /\ TaxonomyTables' /\ attribute'[a] = new
        /\ \A b \in Attribute \ {a} : attribute'[b] = attribute[b]
    BY <2>3, <2>6, <2>7 DEF TaxonomyInv, TaxonomyTables
  <2>9. \A b : b \in Alive(attribute)' <=> b \in Alive(attribute)
    BY <2>3, <2>4, <2>6, <2>8, AliveRows, AliveRowsNext DEF TaxonomyInv
  <2>10. \A b \in Alive(attribute)' : attribute'[b].category \in Alive(category)
    BY <2>4, <2>6, <2>8, <2>9, AliveRows DEF TaxonomyInv, References
  <2>11. References'
    BY <2>7, <2>9, <2>10 DEF TaxonomyInv, References, Alive
  <2> QED  BY <1>2, <2>8, <2>11, WritingStep DEF WriteAttribute
<1>3. CASE UnlinkAll(k)
  <2>1. t \in [op : {"categories"}, step : {"delete", "insert"}, ids : SUBSET Category]
    BY <1>1, <1>3, TaskKinds DEF UnlinkAll
  <2>2. PICK next : next = IF t.ids = {} THEN NoTask ELSE [t EXCEPT !.step = "insert"]
    OBVIOUS
  <2>3. next \in Task \cup {NoTask} /\ (next # NoTask => next.op = "categories")
    BY <2>1, <2>2 DEF Task
  <2>4. Writing(k, next) /\ links' = {} /\ UNCHANGED <<category, attribute, value, options, specs>>
    BY <1>3, <2>2 DEF UnlinkAll
  <2>5. TaxonomyTables' /\ References'
    BY <2>4 DEF TaxonomyInv, TaxonomyTables, References, Alive
  <2> QED  BY <2>3, <2>4, <2>5, WritingStep
<1>4. CASE LinkEach(k)
  <2>1. TaxonomyTables' /\ References'
    BY <1>4 DEF LinkEach, TaxonomyInv, TaxonomyTables, References, Alive
  <2> QED  BY <1>4, <2>1, WritingStep DEF LinkEach
<1>5. CASE WriteOptions(k)
  <2>1. t.variant \in ProductVariant /\ t.set \in OptionSets
    BY <1>1, <1>5, TaskKinds DEF WriteOptions
  <2>2. /\ options' = [options EXCEPT ![t.variant] = t.set]
        /\ \A o \in t.set : value[o[2]] = o[1]
        /\ UNCHANGED <<category, attribute, value, links, specs>>
    BY <1>5 DEF WriteOptions
  <2>3. TaxonomyTables'
    BY <2>1, <2>2 DEF TaxonomyInv, TaxonomyTables
  <2>4. \A v \in ProductVariant : \A o \in options'[v] : value[o[2]] = o[1]
    BY <2>1, <2>2 DEF TaxonomyInv, TaxonomyTables, References
  <2>5. References'
    BY <2>2, <2>4 DEF TaxonomyInv, References, Alive
  <2> QED  BY <1>5, <2>3, <2>5, WritingStep DEF WriteOptions
<1>6. CASE ReplaceSpecs(k)
  <2>1. TaxonomyTables' /\ References'
    BY <1>6 DEF ReplaceSpecs, TaxonomyInv, TaxonomyTables, References, Alive
  <2> QED  BY <1>6, <2>1, WritingStep DEF ReplaceSpecs
<1>7. CASE TaskStops(k)
  BY <1>7, TaskStopsKeeps
<1> QED  BY <1>2, <1>3, <1>4, <1>5, <1>6, <1>7 DEF TaskStep

(***************************************************************************)
(* Every stored reference has its row, however requests overlap; and what  *)
(* a request that nobody disturbed has checked or done still stands.       *)
(***************************************************************************)
THEOREM TaxonomyInvHolds == TaxonomySpec => []TaxonomyInv
<1>1. TaxonomyInit => TaxonomyInv
  <2> SUFFICES ASSUME TaxonomyInit
               PROVE  TaxonomyInv
    OBVIOUS
  <2>1. TaxonomyTables
    BY DEF TaxonomyInit, TaxonomyTables, OptionSets
  <2>2. References
    BY <2>1, AliveRows, TaxonomyAssumption DEF TaxonomyInit, References
  <2> QED  BY <2>1, <2>2 DEF TaxonomyInit, TaxonomyInv, TaskTypes, FreshTasks
<1>2. TaxonomyInv /\ [TaxonomyNext]_taxonomyVars => TaxonomyInv'
  <2>1. TaxonomyInv /\ UNCHANGED taxonomyVars => TaxonomyInv'
    <3> SUFFICES ASSUME TaxonomyInv, UNCHANGED taxonomyVars
                 PROVE  TaxonomyInv'
      OBVIOUS
    <3>1. UNCHANGED <<category, attribute, value, links, options, specs, task, disturbed>>
      BY DEF taxonomyVars, rows
    <3>2. TaxonomyTables' /\ References' /\ TaskTypes'
      BY <3>1 DEF TaxonomyInv, TaxonomyTables, References, TaskTypes, Alive, Busy
    <3>3. FreshTasks'
      BY <3>1 DEF TaxonomyInv, FreshTasks, FreshTask, WithRole, ListByCategories, Alive
    <3> QED  BY <3>2, <3>3 DEF TaxonomyInv
  <2>2. TaxonomyInv /\ TaxonomyNext => TaxonomyInv'
    <3> SUFFICES ASSUME TaxonomyInv, NEW k \in Clerk,
                        \/ /\ task[k] = NoTask
                           /\ \/ CategoryRequest(k)
                              \/ AttributeRequest(k)
                              \/ \E x \in Value : DeleteValue(k, x)
                              \/ CatalogRequest(k)
                        \/ TaskStep(k)
                 PROVE  TaxonomyInv'
      BY DEF TaxonomyNext
    <3> QED  BY TableStepsKeep, ReadingStepsKeep, TaskStepsKeep
             DEF CategoryRequest, AttributeRequest, CatalogRequest
  <2> QED  BY <2>1, <2>2
<1> QED  BY <1>1, <1>2, PTL DEF TaxonomySpec

(***************************************************************************)
(* Types and foreign keys: links, attributes, values, options and specs    *)
(* refer to rows that exist, and an option to a value of its attribute.    *)
(***************************************************************************)
THEOREM TaxonomyTypesHold == TaxonomySpec => []TaxonomyTypeOK
<1>1. TaxonomyInv => TaxonomyTypeOK
  BY DEF TaxonomyInv, TaxonomyTables, References, TaskTypes, TaxonomyTypeOK
<1> QED  BY <1>1, TaxonomyInvHolds, PTL

\* The step with which an undisturbed request answers.
LEMMA AnswerSteps ==
  ASSUME TaxonomyInv, [TaxonomyNext]_taxonomyVars, NEW k \in Clerk,
         task[k] # NoTask, task'[k] = NoTask, rows' # rows
  PROVE  WriteAttribute(k) \/ UnlinkAll(k) \/ LinkEach(k) \/ WriteOptions(k) \/ ReplaceSpecs(k)
<1>1. ~ UNCHANGED taxonomyVars
  BY DEF taxonomyVars
<1>2. PICK j \in Clerk :
        \/ /\ task[j] = NoTask
           /\ \/ CategoryRequest(j)
              \/ AttributeRequest(j)
              \/ \E x \in Value : DeleteValue(j, x)
              \/ CatalogRequest(j)
        \/ TaskStep(j)
  BY <1>1 DEF TaxonomyNext
<1>3. \A i \in Clerk \ {j} : task'[i] = task[i]
  BY <1>2 DEF CategoryRequest, AttributeRequest, CatalogRequest, TaskStep, CreateCategory,
     DeleteCategory, CreateAttribute, UpdateAttribute, WriteAttribute, DeleteAttribute, AddValue,
     DeleteValue, SetCategories, UnlinkAll, LinkEach, ResolveOptions, WriteOptions, SetSpecs,
     ReplaceSpecs, TaskStops, Reading, Writing, TaxonomyInv, TaskTypes
<1>4. j = k
  BY <1>3
<1>5. TaskStep(k) /\ ~ TaskStops(k)
  BY <1>2, <1>4 DEF TaskStops
<1> QED  BY <1>5 DEF TaskStep

LEMMA AnswersFit ==
  ASSUME TaxonomyInv, [TaxonomyNext]_taxonomyVars, NEW k \in Clerk, k \notin disturbed
  PROVE  /\ Answers(k, "categories") => links' = task[k].ids
         /\ Answers(k, "options") =>
              \A v \in ProductVariant : v = task[k].variant =>
                /\ Shown(v)'.options = task[k].set
                /\ {o[1] : o \in options'[v]} \subseteq Shown(v)'.axes
         /\ Answers(k, "specs") =>
              \A v \in ProductVariant :
                /\ Shown(v)'.specs = task[k].set
                /\ specs' \cap Shown(v)'.axes = {}
<1>1. ASSUME Answers(k, "categories")
      PROVE  links' = task[k].ids
  <2>1. FreshTask(task[k])
    BY <1>1 DEF Answers, TaxonomyInv, FreshTasks
  <2>2. UnlinkAll(k) \/ LinkEach(k)
    BY <1>1, AnswerSteps DEF Answers, WriteAttribute, WriteOptions, ReplaceSpecs
  <2>3. CASE LinkEach(k)
    BY <1>1, <2>1, <2>3 DEF Answers, LinkEach, FreshTask
  <2>4. CASE UnlinkAll(k)
    <3>1. task[k] \in Task
      BY <1>1 DEF Answers, TaxonomyInv, TaskTypes
    <3>2. task[k] \in [op : {"categories"}, step : {"delete", "insert"}, ids : SUBSET Category]
      BY <1>1, <3>1, TaskKinds DEF Answers
    <3>3. [task[k] EXCEPT !.step = "insert"] \in Task
      BY <3>2 DEF Task
    <3>4. task[k].ids = {}
      BY <1>1, <2>4, <3>3, TaxonomyAssumption DEF Answers, UnlinkAll, Writing, TaxonomyInv, TaskTypes
    <3> QED  BY <2>4, <3>4 DEF UnlinkAll
  <2> QED  BY <2>2, <2>3, <2>4
<1>2. ASSUME Answers(k, "options"), NEW v \in ProductVariant, v = task[k].variant
      PROVE  /\ Shown(v)'.options = task[k].set
             /\ {o[1] : o \in options'[v]} \subseteq Shown(v)'.axes
  <2>1. FreshTask(task[k])
    BY <1>2 DEF Answers, TaxonomyInv, FreshTasks
  <2>2. WriteOptions(k)
    BY <1>2, AnswerSteps DEF Answers, WriteAttribute, UnlinkAll, LinkEach, ReplaceSpecs
  <2>3. /\ options'[v] = task[k].set
        /\ UNCHANGED <<attribute, links>>
    BY <1>2, <2>2 DEF WriteOptions, TaxonomyInv, TaxonomyTables
  <2>4. {o[1] : o \in task[k].set} \subseteq WithRole("VARIANT")
    BY <1>2, <2>1 DEF Answers, FreshTask
  <2>5. /\ WithRole("VARIANT")' = WithRole("VARIANT")
        /\ ListByCategories(links)' = ListByCategories(links)
    BY <2>3 DEF WithRole, ListByCategories, Alive
  <2>6. WithRole("VARIANT") \subseteq ListByCategories(links)
    BY DEF WithRole
  <2>7. /\ Shown(v)'.axes = WithRole("VARIANT")
        /\ Shown(v)'.options = {o \in options'[v] : o[1] \in ListByCategories(links)}
    BY <2>5 DEF Shown
  <2>8. {o[1] : o \in options'[v]} \subseteq Shown(v)'.axes
    BY <2>3, <2>4, <2>7
  <2>9. \A o \in task[k].set : o[1] \in ListByCategories(links)
    BY <2>4, <2>6
  <2> QED  BY <2>3, <2>7, <2>8, <2>9
<1>3. ASSUME Answers(k, "specs"), NEW v \in ProductVariant
      PROVE  /\ Shown(v)'.specs = task[k].set
             /\ specs' \cap Shown(v)'.axes = {}
  <2>1. FreshTask(task[k])
    BY <1>3 DEF Answers, TaxonomyInv, FreshTasks
  <2>2. ReplaceSpecs(k)
    BY <1>3, AnswerSteps DEF Answers, WriteAttribute, UnlinkAll, LinkEach, WriteOptions
  <2>3. /\ specs' = task[k].set
        /\ UNCHANGED <<attribute, links>>
    BY <2>2 DEF ReplaceSpecs
  <2>4. task[k].set \subseteq WithRole("SPEC")
    BY <1>3, <2>1 DEF Answers, FreshTask
  <2>5. /\ WithRole("VARIANT")' = WithRole("VARIANT")
        /\ ListByCategories(links)' = ListByCategories(links)
    BY <2>3 DEF WithRole, ListByCategories, Alive
  <2>6. /\ WithRole("SPEC") \subseteq ListByCategories(links)
        /\ WithRole("SPEC") \cap WithRole("VARIANT") = {}
    BY DEF WithRole
  <2>7. /\ Shown(v)'.axes = WithRole("VARIANT")
        /\ Shown(v)'.specs = specs' \cap ListByCategories(links)
    BY <2>5 DEF Shown
  <2> QED  BY <2>3, <2>4, <2>6, <2>7
<1> QED  BY <1>1, <1>2, <1>3

(***************************************************************************)
(* SetForProduct, SetForVariant and Replace do what they say, and the      *)
(* product's page shows all of it, unless another request changed a table  *)
(* since the request began: nothing else comes between a check and the     *)
(* write it is for.                                                        *)
(***************************************************************************)
THEOREM MisplacedOnlyByOverlap == TaxonomySpec => OnlyOverlapsMisplaceProducts
<1> DEFINE Permitted ==
      \A k \in Clerk \ disturbed :
        /\ Answers(k, "categories") => links' = task[k].ids
        /\ Answers(k, "options") =>
             \A v \in ProductVariant : v = task[k].variant =>
               /\ Shown(v)'.options = task[k].set
               /\ {o[1] : o \in options'[v]} \subseteq Shown(v)'.axes
        /\ Answers(k, "specs") =>
             \A v \in ProductVariant :
               /\ Shown(v)'.specs = task[k].set
               /\ specs' \cap Shown(v)'.axes = {}
<1>1. TaxonomyInv /\ [TaxonomyNext]_taxonomyVars => Permitted
  BY AnswersFit
<1> HIDE DEF Permitted
<1>2. TaxonomySpec => [][Permitted]_taxonomyVars
  BY <1>1, TaxonomyInvHolds, PTL DEF TaxonomySpec
<1> QED  BY <1>2 DEF OnlyOverlapsMisplaceProducts, Permitted

-----------------------------------------------------------------------------
(***************************************************************************)
(* Showcase: the inductive invariant.                                      *)
(***************************************************************************)
Occupied == {w \in Worker : job[w] # NoJob}

StoresOK ==
  /\ onFile \in BOOLEAN
  /\ images \subseteq tickets /\ bucket \subseteq tickets /\ tickets \subseteq ImageKey
  /\ position \in [ImageKey -> Position] /\ \A key \in ImageKey \ images : position[key] = First
  /\ reviews \in [Customer -> Rating \cup {Unrated}]
  /\ ~onFile => images = {} /\ \A u \in Customer : reviews[u] = Unrated

JobsOK == job \in [Worker -> Job \cup {NoJob}] /\ crossed \subseteq Occupied

\* What holds all the time: the object's key was handed out with an upload URL.
KeyKnown(j) == j.op \in {"confirm", "update", "remove"} => j.key \in tickets

\* What a request has seen or done still stands.
FreshJob(j) ==
  /\ j.op = "confirm" => j.key \in bucket
  /\ j.op = "update" => j.position = IF j.asked = Same THEN position[j.key] ELSE j.asked
  /\ j.op = "remove" /\ j.step = "object" => j.key \notin images

JobsSound ==
  /\ \A w \in Occupied : KeyKnown(job[w])
  /\ \A w \in Occupied \ crossed : FreshJob(job[w])

ShowcaseInv == StoresOK /\ JobsOK /\ JobsSound

LEMMA JobFields ==
  ASSUME NEW j \in Job
  PROVE  /\ j.op = "confirm" => /\ j.step = "insert" /\ j.key \in ImageKey
                                /\ j.position \in Position
         /\ j.op = "update" => /\ j.step = "write" /\ j.key \in ImageKey
                               /\ j.asked \in Position \cup {Same} /\ j.position \in Position
         /\ j.op = "remove" => j.step \in {"row", "object"} /\ j.key \in ImageKey
         /\ j.op = "review" => /\ j.step = "upsert" /\ j.customer \in Customer
                               /\ j.rating \in Rating
BY DEF Job

\* A request that changes no store begins ...
LEMMA StartsSound ==
  ASSUME ShowcaseInv, NEW w \in Worker, job[w] = NoJob, NEW d \in Job,
         StartJob(w, d), KeyKnown(d), FreshJob(d)
  PROVE  ShowcaseInv'
<1>1. \A v \in Worker : job'[v] = IF v = w THEN d ELSE job[v]
  BY DEF StartJob, ShowcaseInv, JobsOK
<1>2. d # NoJob
  BY ShowcaseAssumption
<1>3. UNCHANGED <<onFile, tickets, bucket, images, position, reviews, crossed>>
  BY DEF StartJob, stores
<1>4. Occupied' = Occupied \cup {w} /\ w \notin Occupied
  BY <1>1, <1>2 DEF Occupied
<1>5. StoresOK'
  BY <1>3 DEF ShowcaseInv, StoresOK
<1>6. JobsOK'
  BY <1>3, <1>4 DEF ShowcaseInv, JobsOK, StartJob
<1>7. ASSUME NEW v \in Occupied'
      PROVE  KeyKnown(job[v])' /\ (v \notin crossed' => FreshJob(job[v])')
  <2>1. CASE v = w
    BY <1>1, <1>3, <2>1 DEF KeyKnown, FreshJob
  <2>2. CASE v # w
    <3>1. v \in Occupied /\ job'[v] = job[v] /\ crossed' = crossed
      BY <1>1, <1>3, <1>4, <2>2 DEF Occupied
    <3> QED  BY <1>3, <3>1 DEF ShowcaseInv, JobsSound, KeyKnown, FreshJob
  <2> QED  BY <2>1, <2>2
<1> QED  BY <1>5, <1>6, <1>7 DEF ShowcaseInv, JobsSound

\* ... and one that stops, or whose last call fails, is gone.
LEMMA StopsSound ==
  ASSUME ShowcaseInv, NEW w \in Worker, JobStops(w)
  PROVE  ShowcaseInv'
<1>1. \A v \in Worker : job'[v] = IF v = w THEN NoJob ELSE job[v]
  BY DEF JobStops, ShowcaseInv, JobsOK
<1>2. UNCHANGED <<onFile, tickets, bucket, images, position, reviews>> /\ crossed' = crossed \ {w}
  BY DEF JobStops, stores
<1>3. Occupied' = Occupied \ {w}
  BY <1>1 DEF Occupied
<1>4. StoresOK'
  BY <1>2 DEF ShowcaseInv, StoresOK
<1>5. JobsOK'
  BY <1>2, <1>3 DEF ShowcaseInv, JobsOK, JobStops
<1>6. \A v \in Occupied' : job'[v] = job[v] /\ v \in Occupied /\ (v \notin crossed' => v \notin crossed)
  BY <1>1, <1>2, <1>3 DEF Occupied
<1> QED  BY <1>2, <1>4, <1>5, <1>6 DEF ShowcaseInv, JobsSound, KeyKnown, FreshJob

\* A step that changes a store: everybody else at work is crossed from now on.
LEMMA StepCrosses ==
  ASSUME ShowcaseInv, NEW w \in Worker, NEW d \in Job \cup {NoJob}, Step(w, d),
         d # NoJob => w \in Occupied
  PROVE  /\ \A v \in Worker : job'[v] = IF v = w THEN d ELSE job[v]
         /\ JobsOK'
         /\ Occupied' \ {w} \subseteq crossed'
         /\ \A v \in Occupied' \ {w} : v \in Occupied /\ job'[v] = job[v]
         /\ w \in crossed => w \in crossed' \/ d = NoJob
         /\ w \in Occupied' => d # NoJob
<1>1. \A v \in Worker : job'[v] = IF v = w THEN d ELSE job[v]
  BY DEF Step, ShowcaseInv, JobsOK
<1>2. crossed' = ((Occupied \ {w}) \cup crossed) \cap Occupied'
  BY DEF Step, Occupied
<1>3. JobsOK'
  BY <1>2 DEF ShowcaseInv, JobsOK, Step
<1> QED  BY <1>1, <1>2, <1>3 DEF Occupied

LEMMA StepSound ==
  ASSUME ShowcaseInv, NEW w \in Worker, NEW d \in Job \cup {NoJob}, Step(w, d),
         d # NoJob => w \in Occupied,
         StoresOK', tickets' = tickets,
         d # NoJob => KeyKnown(d) /\ FreshJob(d)'
  PROVE  ShowcaseInv'
<1>1. \A v \in Occupied' \ {w} : v \in Occupied /\ job'[v] = job[v] /\ v \in crossed'
  BY StepCrosses
<1>2. w \in Occupied' => d # NoJob /\ job'[w] = d
  BY StepCrosses
<1>3. \A v \in Occupied' : KeyKnown(job[v])' 
  BY <1>1, <1>2 DEF ShowcaseInv, JobsSound, KeyKnown
<1>4. \A v \in Occupied' \ crossed' : FreshJob(job[v])'
  BY <1>1, <1>2 DEF FreshJob
<1> QED  BY <1>3, <1>4, StepCrosses DEF ShowcaseInv, JobsSound

LEMMA ShowcaseInvInit == ShowcaseInit => ShowcaseInv
BY ShowcaseAssumption
   DEF ShowcaseInit, ShowcaseInv, StoresOK, JobsOK, JobsSound, Occupied

LEMMA UploadUrlSound ==
  ASSUME ShowcaseInv, NEW w \in Worker, NEW key \in ImageKey, CreateImageUploadURL(w, key)
  PROVE  ShowcaseInv'
<1>1. UNCHANGED <<onFile, bucket, images, position, reviews, job, crossed>> /\ tickets \subseteq tickets'
  BY DEF CreateImageUploadURL
<1>2. tickets' \subseteq ImageKey
  BY DEF CreateImageUploadURL, ShowcaseInv, StoresOK
<1> QED  BY <1>1, <1>2
            DEF ShowcaseInv, StoresOK, JobsOK, JobsSound, Occupied, KeyKnown, FreshJob

LEMMA UploadSound ==
  ASSUME ShowcaseInv, NEW key \in ImageKey, Upload(key)
  PROVE  ShowcaseInv'
<1>1. UNCHANGED <<onFile, tickets, images, position, reviews, job, crossed>>
      /\ bucket \subseteq bucket' /\ bucket' \subseteq tickets
  BY DEF Upload, ShowcaseInv, StoresOK
<1> QED  BY <1>1 DEF ShowcaseInv, StoresOK, JobsOK, JobsSound, Occupied, KeyKnown, FreshJob

LEMMA ConfirmSound ==
  ASSUME ShowcaseInv, NEW w \in Worker, job[w] = NoJob, NEW key \in ImageKey,
         NEW place \in Position, ConfirmImage(w, key, place)
  PROVE  ShowcaseInv'
<1>1. PICK d : d = [op |-> "confirm", step |-> "insert", key |-> key, position |-> place]
  OBVIOUS
<1>2. d \in Job
  BY <1>1 DEF Job
<1>3. KeyKnown(d) /\ FreshJob(d)
  BY <1>1 DEF ConfirmImage, Uploaded, KeyKnown, FreshJob, ShowcaseInv, StoresOK
<1> QED  BY <1>1, <1>2, <1>3, StartsSound DEF ConfirmImage

LEMMA UpdateSound ==
  ASSUME ShowcaseInv, NEW w \in Worker, job[w] = NoJob, NEW key \in ImageKey,
         NEW asked \in Position \cup {Same}, UpdateImage(w, key, asked)
  PROVE  ShowcaseInv'
<1>1. PICK p : p = IF asked = Same THEN position[key] ELSE asked
  OBVIOUS
<1>2. PICK d : d = [op |-> "update", step |-> "write", key |-> key, asked |-> asked, position |-> p]
  OBVIOUS
<1>3. p \in Position
  BY <1>1 DEF ShowcaseInv, StoresOK
<1>4. d \in Job
  BY <1>2, <1>3 DEF Job
<1>5. KeyKnown(d) /\ FreshJob(d)
  BY <1>1, <1>2 DEF UpdateImage, KeyKnown, FreshJob, ShowcaseInv, StoresOK
<1> QED  BY <1>1, <1>2, <1>4, <1>5, StartsSound DEF UpdateImage

LEMMA DeleteSound ==
  ASSUME ShowcaseInv, NEW w \in Worker, job[w] = NoJob, NEW key \in ImageKey,
         DeleteImage(w, key)
  PROVE  ShowcaseInv'
<1>1. PICK d : d = [op |-> "remove", step |-> "row", key |-> key]
  OBVIOUS
<1>2. d \in Job
  BY <1>1 DEF Job
<1>3. KeyKnown(d) /\ FreshJob(d)
  BY <1>1 DEF DeleteImage, KeyKnown, FreshJob, ShowcaseInv, StoresOK
<1> QED  BY <1>1, <1>2, <1>3, StartsSound DEF DeleteImage

LEMMA CreateReviewSound ==
  ASSUME ShowcaseInv, NEW w \in Worker, job[w] = NoJob, NEW u \in Customer,
         NEW rating \in Rating, CreateReview(w, u, rating)
  PROVE  ShowcaseInv'
<1>1. PICK d : d = [op |-> "review", step |-> "upsert", customer |-> u, rating |-> rating]
  OBVIOUS
<1>2. d \in Job
  BY <1>1 DEF Job
<1>3. KeyKnown(d) /\ FreshJob(d)
  BY <1>1 DEF KeyKnown, FreshJob
<1> QED  BY <1>1, <1>2, <1>3, StartsSound DEF CreateReview

LEMMA InsertImageSound ==
  ASSUME ShowcaseInv, NEW w \in Worker, InsertImage(w)
  PROVE  ShowcaseInv'
<1>1. job[w] \in Job /\ w \in Occupied /\ job[w].key \in ImageKey /\ job[w].position \in Position
  BY JobFields DEF InsertImage, ShowcaseInv, JobsOK, Occupied
<1>2. job[w].key \in tickets
  BY <1>1 DEF InsertImage, ShowcaseInv, JobsSound, KeyKnown
<1>3. StoresOK'
  BY <1>1, <1>2 DEF InsertImage, ShowcaseInv, StoresOK
<1>4. Step(w, NoJob) /\ tickets' = tickets
  BY DEF InsertImage
<1> QED  BY <1>3, <1>4, StepSound

LEMMA WriteImageSound ==
  ASSUME ShowcaseInv, NEW w \in Worker, WriteImage(w)
  PROVE  ShowcaseInv'
<1>1. job[w] \in Job /\ w \in Occupied /\ job[w].key \in ImageKey /\ job[w].position \in Position
  BY JobFields DEF WriteImage, ShowcaseInv, JobsOK, Occupied
<1>2. StoresOK'
  BY <1>1 DEF WriteImage, ShowcaseInv, StoresOK
<1>3. Step(w, NoJob) /\ tickets' = tickets
  BY DEF WriteImage
<1> QED  BY <1>2, <1>3, StepSound

LEMMA DeleteImageRowSound ==
  ASSUME ShowcaseInv, NEW w \in Worker, DeleteImageRow(w)
  PROVE  ShowcaseInv'
<1>1. job[w] \in Job /\ w \in Occupied /\ job[w].key \in ImageKey
  BY JobFields DEF DeleteImageRow, ShowcaseInv, JobsOK, Occupied
<1>2. PICK d : d = [job[w] EXCEPT !.step = "object"]
  OBVIOUS
<1>3. job[w] \in [op : {"remove"}, step : {"row", "object"}, key : ImageKey]
  BY <1>1 DEF DeleteImageRow, Job
<1>4. /\ d \in Job
      /\ d.op = "remove" /\ d.step = "object" /\ d.key = job[w].key
  BY <1>2, <1>3 DEF Job
<1>5. job[w].key \in tickets
  BY <1>1 DEF DeleteImageRow, ShowcaseInv, JobsSound, KeyKnown
<1>6. StoresOK'
  BY <1>1, ShowcaseAssumption DEF DeleteImageRow, ShowcaseInv, StoresOK
<1>7. Step(w, d) /\ tickets' = tickets /\ job[w].key \notin images'
  BY <1>2 DEF DeleteImageRow
<1>8. KeyKnown(d) /\ FreshJob(d)'
  BY <1>4, <1>5, <1>7 DEF KeyKnown, FreshJob
<1> QED  BY <1>1, <1>4, <1>6, <1>7, <1>8, StepSound

LEMMA DeleteObjectSound ==
  ASSUME ShowcaseInv, NEW w \in Worker, DeleteObject(w)
  PROVE  ShowcaseInv'
<1>1. StoresOK'
  BY DEF DeleteObject, ShowcaseInv, StoresOK
<1>2. Step(w, NoJob) /\ tickets' = tickets
  BY DEF DeleteObject
<1> QED  BY <1>1, <1>2, StepSound

LEMMA DropProductSound ==
  ASSUME ShowcaseInv, NEW w \in Worker, DropProduct(w)
  PROVE  ShowcaseInv'
<1>1. StoresOK'
  BY ShowcaseAssumption DEF DropProduct, ShowcaseInv, StoresOK
<1>2. Step(w, NoJob) /\ tickets' = tickets
  BY DEF DropProduct
<1> QED  BY <1>1, <1>2, StepSound

LEMMA UpsertSound ==
  ASSUME ShowcaseInv, NEW w \in Worker, Upsert(w)
  PROVE  ShowcaseInv'
<1>1. job[w] \in Job /\ job[w].customer \in Customer /\ job[w].rating \in Rating
  BY JobFields DEF Upsert, ShowcaseInv, JobsOK
<1>2. StoresOK'
  BY <1>1 DEF Upsert, ShowcaseInv, StoresOK
<1>3. Step(w, NoJob) /\ tickets' = tickets
  BY DEF Upsert
<1> QED  BY <1>2, <1>3, StepSound

LEMMA DeleteReviewSound ==
  ASSUME ShowcaseInv, NEW w \in Worker, NEW u \in Customer, DeleteReview(w, u)
  PROVE  ShowcaseInv'
<1>1. StoresOK'
  BY DEF DeleteReview, ShowcaseInv, StoresOK
<1>2. Step(w, NoJob) /\ tickets' = tickets
  BY DEF DeleteReview
<1> QED  BY <1>1, <1>2, StepSound

\* One case for each step of a request.
LEMMA ShowcaseSteps ==
  ASSUME ShowcaseInv, ShowcaseNext
  PROVE  ShowcaseInv'
<1>1. ASSUME NEW key \in ImageKey, Upload(key)
      PROVE  ShowcaseInv'
  BY <1>1, UploadSound
<1>2. ASSUME NEW w \in Worker, job[w] = NoJob, ImageRequest(w)
      PROVE  ShowcaseInv'
  BY <1>2, UploadUrlSound, ConfirmSound, UpdateSound, DeleteSound DEF ImageRequest
<1>3. ASSUME NEW w \in Worker, job[w] = NoJob, ReviewRequest(w)
      PROVE  ShowcaseInv'
  BY <1>3, CreateReviewSound, DeleteReviewSound DEF ReviewRequest
<1>4. ASSUME NEW w \in Worker,
             DropProduct(w) \/ InsertImage(w) \/ WriteImage(w) \/ DeleteImageRow(w)
               \/ DeleteObject(w) \/ Upsert(w) \/ JobStops(w)
      PROVE  ShowcaseInv'
  BY <1>4, DropProductSound, InsertImageSound, WriteImageSound, DeleteImageRowSound,
     DeleteObjectSound, UpsertSound, StopsSound
<1> QED  BY <1>1, <1>2, <1>3, <1>4 DEF ShowcaseNext

LEMMA ShowcaseStutters ==
  ASSUME ShowcaseInv, UNCHANGED showcaseVars
  PROVE  ShowcaseInv'
BY DEF ShowcaseInv, StoresOK, JobsOK, JobsSound, Occupied, KeyKnown, FreshJob, showcaseVars, stores

(***************************************************************************)
(* product_images, the bucket and the reviews hold what was handed out and *)
(* sent; nothing is left of the rows of a deleted product; and a request   *)
(* that nobody has overtaken still finds what it has read or done.         *)
(***************************************************************************)
THEOREM ShowcaseInvHolds == ShowcaseSpec => []ShowcaseInv
<1>1. ShowcaseInv /\ [ShowcaseNext]_showcaseVars => ShowcaseInv'
  BY ShowcaseSteps, ShowcaseStutters
<1> QED  BY <1>1, ShowcaseInvInit, PTL DEF ShowcaseSpec

\* Without reviews there is nothing to sum up.
LEMMA NothingToSum ==
  ASSUME \A u \in Customer : reviews[u] = Unrated
  PROVE  Summary = [sum |-> 0, count |-> 0]
<1>1. {u \in Customer : reviews[u] # Unrated} = {}
  OBVIOUS
<1>2. Cardinality({}) = 0
  BY FS_EmptySet
<1>3. MapThenSumSet(LAMBDA u : reviews[u], {}) = 0
  BY DEF MapThenSumSet, MapThenFoldSet
<1> QED  BY <1>1, <1>2, <1>3 DEF Summary

\* The variables of Showcase have their types, and a deleted product has no reviews.
THEOREM ShowcaseTypesHold == ShowcaseSpec => []ShowcaseTypeOK
<1>1. ShowcaseInv => ShowcaseTypeOK
  BY NothingToSum DEF ShowcaseInv, StoresOK, JobsOK, Occupied, ShowcaseTypeOK
<1> QED  BY <1>1, ShowcaseInvHolds, PTL

-----------------------------------------------------------------------------
\* The first half of OnlyOverlapsBreakImages: the rows without their object.
BrokenByOverlap ==
  \/ (images' \ bucket') \subseteq (images \ bucket)
  \/ \E w \in crossed : /\ job[w].op \in {"confirm", "remove"}
                        /\ job'[w] = NoJob
                        /\ job[w].key \in images' \ bucket'

\* The second half: positions that no request has named.
MovedByOverlap ==
  \A key \in images \cap images' : position'[key] # position[key] =>
     \E w \in Worker : /\ job[w] # NoJob /\ job[w].op = "update" /\ job[w].key = key
                       /\ job[w].asked = position'[key] \/ w \in crossed

LEMMA InsertOverlaps ==
  ASSUME ShowcaseInv, NEW w \in Worker, InsertImage(w)
  PROVE  BrokenByOverlap /\ MovedByOverlap
<1>1. w \in Occupied /\ job[w].key \in ImageKey
  BY JobFields DEF InsertImage, ShowcaseInv, JobsOK, Occupied
<1>2. job'[w] = NoJob /\ bucket' = bucket /\ images' = images \cup {job[w].key}
  BY DEF InsertImage, Step, ShowcaseInv, JobsOK
<1>3. w \notin crossed => job[w].key \in bucket
  BY <1>1 DEF InsertImage, ShowcaseInv, JobsSound, FreshJob
<1>4. BrokenByOverlap
  BY <1>1, <1>2, <1>3 DEF BrokenByOverlap, InsertImage
<1>5. MovedByOverlap
  BY <1>1 DEF MovedByOverlap, InsertImage, ShowcaseInv, StoresOK
<1> QED  BY <1>4, <1>5

LEMMA DeleteObjectOverlaps ==
  ASSUME ShowcaseInv, NEW w \in Worker, DeleteObject(w)
  PROVE  BrokenByOverlap /\ MovedByOverlap
<1>1. w \in Occupied
  BY DEF DeleteObject, Occupied
<1>2. job'[w] = NoJob /\ bucket' = bucket \ {job[w].key} /\ images' = images /\ position' = position
  BY DEF DeleteObject, Step, ShowcaseInv, JobsOK
<1>3. w \notin crossed => job[w].key \notin images
  BY <1>1 DEF DeleteObject, ShowcaseInv, JobsSound, FreshJob
<1>4. BrokenByOverlap
  BY <1>1, <1>2, <1>3 DEF BrokenByOverlap, DeleteObject
<1> QED  BY <1>2, <1>4 DEF MovedByOverlap

LEMMA WriteImageOverlaps ==
  ASSUME ShowcaseInv, NEW w \in Worker, WriteImage(w)
  PROVE  BrokenByOverlap /\ MovedByOverlap
<1>1. w \in Occupied /\ job[w].key \in ImageKey
  BY JobFields DEF WriteImage, ShowcaseInv, JobsOK, Occupied
<1>2. BrokenByOverlap
  BY DEF BrokenByOverlap, WriteImage
<1>3. \A key \in images : position'[key] = IF key = job[w].key THEN job[w].position ELSE position[key]
  BY DEF WriteImage, ShowcaseInv, StoresOK
<1>4. w \notin crossed => job[w].position = IF job[w].asked = Same THEN position[job[w].key] ELSE job[w].asked
  BY <1>1 DEF WriteImage, ShowcaseInv, JobsSound, FreshJob
<1>5. MovedByOverlap
  BY <1>1, <1>3, <1>4 DEF MovedByOverlap, WriteImage
<1> QED  BY <1>2, <1>5

\* No other step takes an object from a row, or moves an image that stays.
LEMMA OthersBreakNothing ==
  ASSUME ShowcaseInv,
         \/ \E key \in ImageKey : Upload(key)
         \/ \E w \in Worker :
              \/ ImageRequest(w) \/ ReviewRequest(w) \/ DropProduct(w)
              \/ DeleteImageRow(w) \/ Upsert(w) \/ JobStops(w)
         \/ UNCHANGED showcaseVars
  PROVE  BrokenByOverlap /\ MovedByOverlap
<1>1. /\ images' \subseteq images /\ bucket \subseteq bucket'
      /\ \A key \in images' : position'[key] = position[key]
  <2>1. ASSUME NEW key \in ImageKey, Upload(key)
        PROVE  images' = images /\ bucket \subseteq bucket' /\ position' = position
    BY <2>1 DEF Upload
  <2>2. ASSUME NEW w \in Worker, ImageRequest(w) \/ ReviewRequest(w) \/ Upsert(w) \/ JobStops(w)
        PROVE  images' = images /\ bucket' = bucket /\ position' = position
    BY <2>2 DEF ImageRequest, ReviewRequest, CreateImageUploadURL, ConfirmImage, UpdateImage,
                DeleteImage, CreateReview, DeleteReview, StartJob, Upsert, JobStops, stores
  <2>3. ASSUME NEW w \in Worker, DropProduct(w)
        PROVE  images' = {} /\ bucket' = bucket
    BY <2>3 DEF DropProduct
  <2>4. ASSUME NEW w \in Worker, DeleteImageRow(w)
        PROVE  /\ images' \subseteq images /\ bucket' = bucket
               /\ \A key \in images' : position'[key] = position[key]
    BY <2>4 DEF DeleteImageRow, ShowcaseInv, StoresOK
  <2>5. CASE UNCHANGED showcaseVars
    BY <2>5 DEF showcaseVars, stores
  <2> QED  BY <2>1, <2>2, <2>3, <2>4, <2>5
<1> QED  BY <1>1 DEF BrokenByOverlap, MovedByOverlap

(***************************************************************************)
(* A row of product_images is without its object, or has a position nobody *)
(* asked for, only after two requests for the same image have overlapped:  *)
(* ConfirmImage and DeleteImage in the first case, UpdateImage in the      *)
(* second.                                                                 *)
(***************************************************************************)
THEOREM ImagesBrokenOnlyByOverlap == ShowcaseSpec => OnlyOverlapsBreakImages
<1> DEFINE Permitted ==
      /\ (images' \ bucket') \subseteq (images \ bucket)
           \/ \E w \in crossed : /\ job[w].op \in {"confirm", "remove"}
                                 /\ job'[w] = NoJob
                                 /\ job[w].key \in images' \ bucket'
      /\ \A key \in images \cap images' : position'[key] # position[key] =>
           \E w \in Worker : /\ job[w] # NoJob /\ job[w].op = "update" /\ job[w].key = key
                             /\ job[w].asked = position'[key] \/ w \in crossed
<1>1. ShowcaseInv /\ [ShowcaseNext]_showcaseVars => BrokenByOverlap /\ MovedByOverlap
  BY InsertOverlaps, DeleteObjectOverlaps, WriteImageOverlaps, OthersBreakNothing DEF ShowcaseNext
<1>2. ShowcaseInv /\ [ShowcaseNext]_showcaseVars => Permitted
  BY <1>1 DEF BrokenByOverlap, MovedByOverlap
<1> HIDE DEF Permitted
<1>3. ShowcaseSpec => [][Permitted]_showcaseVars
  BY <1>2, ShowcaseInvHolds, PTL DEF ShowcaseSpec
<1> QED  BY <1>3 DEF OnlyOverlapsBreakImages, Permitted

-----------------------------------------------------------------------------
(***************************************************************************)
(* Cart: the inductive invariant.                                          *)
(***************************************************************************)
InCart == {"detail", "find", "currency", "stock", "write", "delete"}

CartRows ==
  /\ active \in BOOLEAN
  /\ lines \subseteq Item /\ (lines # {} => active)
  /\ \A x, y \in lines : (x.sku = y.sku => x = y) /\ (x.id = y.id => x = y)
  /\ added \in 0 .. MaxLines /\ \A x \in lines : x.id < added

RequestTypes ==
  /\ at \in [Request -> {"idle", "lookup", "cart", "create"} \cup InCart]
  /\ req \in [Request -> Body \cup {NoRequest}]
  /\ sold \in [Request -> Offer \cup {OffSale}]
  /\ line \in [Request -> Item \cup {NoLine}]
  /\ listed \in [Request -> SUBSET Item]

\* What request r has asked for, looked up and read by its step.
Knows(r) ==
  /\ at[r] # "idle" => req[r] \in Body
  /\ at[r] \in InCart => active
  /\ at[r] \in {"lookup", "currency"} => req[r].op = "add"
  /\ at[r] \in {"find", "currency", "stock", "write"} => req[r].op \in {"add", "set"}
  /\ at[r] \notin {"idle", "lookup"} /\ req[r].op = "add" => sold[r] \in Offer
  /\ at[r] = "currency" => line[r] = NoLine
  /\ at[r] \in {"stock", "write"} /\ line[r] # NoLine => line[r] = LineOf(listed[r], req[r].sku)
  /\ at[r] \in {"stock", "write"} /\ line[r] = NoLine
       => /\ req[r].op = "add"
          /\ listed[r] = {} \/ Oldest(listed[r]).offer.currency = sold[r].currency
  /\ at[r] = "write" => Wanted(r) <= MaxUnits

CartInv == CartRows /\ RequestTypes /\ \A r \in Request : Knows(r)

LEMMA BodyFields ==
  ASSUME NEW b \in Body
  PROVE  /\ b.op \in Op
         /\ b.op \in {"add", "set"} => b.sku \in Sku /\ b.units \in Units
BY DEF Body, Op

LEMMA ItemFields ==
  ASSUME NEW x \in Item
  PROVE  /\ x.id \in 0 .. MaxLines - 1 /\ x.sku \in Sku /\ x.units \in 1 .. MaxUnits
         /\ x.offer \in Offer
         /\ x.id \in Nat /\ x.units \in Nat /\ x.units >= 1
BY CartAssumption DEF Item

\* GetBySKU returns a line of that SKU, if there is one.
LEMMA LineFound ==
  ASSUME NEW L \in SUBSET Item, NEW s
  PROVE  /\ LineOf(L, s) # NoLine => LineOf(L, s) \in L /\ LineOf(L, s).sku = s
         /\ LineOf(L, s) = NoLine <=> \A x \in L : x.sku # s
<1>1. NoLine \notin L
  BY CartAssumption
<1>2. CASE \E x \in L : x.sku = s
  <2>1. PICK f : f = CHOOSE x \in L : x.sku = s
    OBVIOUS
  <2>2. f \in L /\ f.sku = s
    BY <1>2, <2>1
  <2>3. LineOf(L, s) = f
    BY <1>2, <2>1 DEF LineOf
  <2> QED  BY <1>1, <1>2, <2>2, <2>3
<1>3. CASE ~\E x \in L : x.sku = s
  BY <1>3 DEF LineOf
<1> QED  BY <1>2, <1>3

\* The oldest line is one of them.
LEMMA OldestIsThere ==
  ASSUME NEW L \in SUBSET Item, L # {}
  PROVE  Oldest(L) \in L
<1> DEFINE ids == {x.id : x \in L}
<1>1. ids \in SUBSET Nat /\ ids # {}
  BY ItemFields
<1>2. PICK m \in ids : \A n \in ids : m <= n
  <2> HIDE DEF ids
  <2> QED  BY <1>1, LeastNumber
<1>3. PICK x \in L : x.id = m
  BY <1>2
<1>4. \A y \in L : x.id <= y.id
  BY <1>2, <1>3
<1> QED  BY <1>4 DEF Oldest

\* A step of request r leaves the other requests what they know.
Alone(r) == \A q \in Request \ {r} :
              /\ at'[q] = at[q] /\ req'[q] = req[q] /\ sold'[q] = sold[q]
              /\ line'[q] = line[q] /\ listed'[q] = listed[q]

LEMMA RequestMoves ==
  ASSUME CartInv, NEW r \in Request, Alone(r), RequestTypes', CartRows', active => active', Knows(r)'
  PROVE  CartInv'
<1>1. ASSUME NEW q \in Request, q # r
      PROVE  Knows(q)'
  <2>1. /\ at'[q] = at[q] /\ req'[q] = req[q] /\ sold'[q] = sold[q]
        /\ line'[q] = line[q] /\ listed'[q] = listed[q]
    BY <1>1 DEF Alone
  <2>2. Knows(q)
    BY DEF CartInv
  <2> QED  BY <2>1, <2>2 DEF Knows, Wanted
<1> QED  BY <1>1 DEF CartInv

LEMMA AnswerSound ==
  ASSUME CartInv, NEW r \in Request, Answered(r)
  PROVE  Alone(r) /\ RequestTypes' /\ Knows(r)'
<1>1. at'[r] = "idle"
  BY DEF Answered, GoTo, CartInv, RequestTypes
<1>2. Alone(r)
  BY DEF Answered, GoTo, Alone, CartInv, RequestTypes
<1>3. RequestTypes'
  BY DEF Answered, GoTo, CartInv, RequestTypes
<1>4. Knows(r)'
  BY <1>1 DEF Knows, InCart
<1> QED  BY <1>2, <1>3, <1>4

LEMMA TablesStay ==
  ASSUME CartInv, UNCHANGED cartTables
  PROVE  CartRows' /\ (active => active')
BY DEF CartInv, CartRows, cartTables

LEMMA ArriveSound ==
  ASSUME CartInv, NEW r \in Request, NEW body \in Body, Arrive(r, body)
  PROVE  CartInv'
<1>1. /\ at'[r] = (IF body.op = "add" THEN "lookup" ELSE "cart") /\ req'[r] = body
      /\ UNCHANGED cartTables /\ UNCHANGED <<sold, line, listed>>
  BY DEF Arrive, GoTo, CartInv, RequestTypes
<1>2. Alone(r)
  BY DEF Arrive, GoTo, Alone, CartInv, RequestTypes
<1>3. RequestTypes'
  BY DEF Arrive, GoTo, CartInv, RequestTypes
<1>4. Knows(r)'
  BY <1>1 DEF Knows, InCart
<1> QED  BY <1>1, <1>2, <1>3, <1>4, TablesStay, RequestMoves

LEMMA LookupSound ==
  ASSUME CartInv, NEW r \in Request, LookupVariant(r)
  PROVE  CartInv'
<1>1. UNCHANGED cartTables
  BY DEF LookupVariant
<1>2. CASE Answered(r)
  BY <1>1, <1>2, AnswerSound, TablesStay, RequestMoves
<1>3. ASSUME NEW offer \in Offer,
             sold' = [sold EXCEPT ![r] = offer], GoTo(r, "cart"), UNCHANGED <<req, line, listed>>
      PROVE  CartInv'
  <2>1. at'[r] = "cart" /\ sold'[r] \in Offer /\ req'[r] = req[r]
    BY <1>3 DEF GoTo, CartInv, RequestTypes
  <2>2. Alone(r)
    BY <1>3 DEF GoTo, Alone, CartInv, RequestTypes
  <2>3. RequestTypes'
    BY <1>3 DEF GoTo, CartInv, RequestTypes
  <2>4. req[r] \in Body
    BY DEF CartInv, Knows, LookupVariant
  <2>5. Knows(r)'
    BY <2>1, <2>4 DEF Knows, InCart
  <2> QED  BY <1>1, <2>2, <2>3, <2>5, TablesStay, RequestMoves
<1> QED  BY <1>2, <1>3 DEF LookupVariant

\* The step after the cart has been found or created.
LEMMA AfterCartSound ==
  ASSUME CartInv, NEW r \in Request, at[r] \in {"cart", "create"},
         GoTo(r, AfterCart[req[r].op]), UNCHANGED <<lines, added, req, sold, line, listed>>,
         active' = TRUE
  PROVE  CartInv'
<1>1. req[r] \in Body /\ (req[r].op = "add" => sold[r] \in Offer)
  BY DEF CartInv, Knows
<1>2. PICK o \in Op : o = req[r].op
  BY <1>1, BodyFields
<1>3. PICK step : step = AfterCart[o]
  OBVIOUS
<1>4. /\ o = "get" => step = "detail"
      /\ o \in {"add", "set"} => step = "find"
      /\ o \in {"remove", "clear"} => step = "delete"
  BY <1>3 DEF AfterCart
<1>5. step \in {"detail", "find", "delete"}
  BY <1>4 DEF Op
<1>6. at' = [at EXCEPT ![r] = step]
  BY <1>2, <1>3 DEF GoTo
<1>7. at'[r] = step
  BY <1>6 DEF CartInv, RequestTypes
<1>8. Alone(r)
  BY <1>6 DEF Alone, CartInv, RequestTypes
<1>9. RequestTypes'
  BY <1>5, <1>6 DEF CartInv, RequestTypes, InCart
<1>10. CartRows'
  BY DEF CartInv, CartRows
<1>11. step = "find" => req[r].op \in {"add", "set"}
  BY <1>2, <1>4 DEF Op
<1>12. Knows(r)'
  BY <1>1, <1>5, <1>7, <1>11 DEF Knows, InCart
<1> QED  BY <1>8, <1>9, <1>10, <1>12, RequestMoves

LEMMA GetActiveSound ==
  ASSUME CartInv, NEW r \in Request, GetActive(r)
  PROVE  CartInv'
<1>1. CASE active
  <2>1. active = TRUE
    BY <1>1 DEF CartInv, CartRows
  <2> QED  BY <1>1, <2>1, AfterCartSound DEF GetActive, cartTables
<1>2. CASE ~active
  <2>1. at' = [at EXCEPT ![r] = "create"] /\ UNCHANGED <<cartTables, req, sold, line, listed>>
    BY <1>2 DEF GetActive, GoTo
  <2>2. Alone(r)
    BY <2>1 DEF Alone, CartInv, RequestTypes
  <2>3. RequestTypes'
    BY <2>1 DEF CartInv, RequestTypes
  <2>4. Knows(r) /\ at[r] = "cart" /\ at'[r] = "create"
    BY <2>1 DEF GetActive, CartInv, RequestTypes
  <2>5. Knows(r)'
    BY <2>1, <2>4 DEF Knows, InCart
  <2> QED  BY <2>1, <2>2, <2>3, <2>5, TablesStay, RequestMoves
<1> QED  BY <1>1, <1>2

LEMMA CreateCartSound ==
  ASSUME CartInv, NEW r \in Request, CreateCart(r)
  PROVE  CartInv'
BY AfterCartSound DEF CreateCart

LEMMA FindLineSound ==
  ASSUME CartInv, NEW r \in Request, FindLine(r)
  PROVE  CartInv'
<1>1. UNCHANGED cartTables
  BY DEF FindLine
<1>2. CASE Answered(r)
  BY <1>1, <1>2, AnswerSound, TablesStay, RequestMoves
<1>3. CASE ~Answered(r)
  <2>1. PICK found : found = LineOf(lines, req[r].sku)
    OBVIOUS
  <2>2. PICK step : step = IF found = NoLine THEN "currency" ELSE "stock"
    OBVIOUS
  <2>3. /\ at[r] = "find"
        /\ line' = [line EXCEPT ![r] = found] /\ listed' = [listed EXCEPT ![r] = lines]
        /\ at' = [at EXCEPT ![r] = step]
        /\ UNCHANGED <<req, sold>>
        /\ ~(found = NoLine /\ req[r].op = "set")
    BY <1>3, <2>1, <2>2 DEF FindLine, GoTo
  <2>4. lines \subseteq Item
    BY DEF CartInv, CartRows
  <2>5. found \in Item \cup {NoLine}
    BY <2>1, <2>4, LineFound
  <2>6. Alone(r)
    BY <2>3 DEF Alone, CartInv, RequestTypes
  <2>7. RequestTypes'
    BY <2>2, <2>3, <2>4, <2>5 DEF CartInv, RequestTypes, InCart
  <2>8. at'[r] = step /\ line'[r] = found /\ listed'[r] = lines /\ req'[r] = req[r] /\ sold'[r] = sold[r]
    BY <2>3 DEF CartInv, RequestTypes
  <2>9. Knows(r) /\ active' = active
    BY <1>1 DEF CartInv, cartTables
  <2>10. Knows(r)'
    BY <2>1, <2>2, <2>3, <2>8, <2>9 DEF Knows, InCart
  <2> QED  BY <1>1, <2>6, <2>7, <2>10, TablesStay, RequestMoves
<1> QED  BY <1>2, <1>3

LEMMA CheckCurrencySound ==
  ASSUME CartInv, NEW r \in Request, CheckCurrency(r)
  PROVE  CartInv'
<1>1. UNCHANGED cartTables
  BY DEF CheckCurrency
<1>2. CASE Answered(r)
  BY <1>1, <1>2, AnswerSound, TablesStay, RequestMoves
<1>3. CASE ~Answered(r)
  <2>1. /\ at[r] = "currency" /\ SameCurrency(r)
        /\ listed' = [listed EXCEPT ![r] = lines] /\ at' = [at EXCEPT ![r] = "stock"]
        /\ UNCHANGED <<req, sold, line>>
    BY <1>3 DEF CheckCurrency, GoTo
  <2>2. lines \subseteq Item
    BY DEF CartInv, CartRows
  <2>3. Alone(r)
    BY <2>1 DEF Alone, CartInv, RequestTypes
  <2>4. RequestTypes'
    BY <2>1, <2>2 DEF CartInv, RequestTypes, InCart
  <2>5. /\ at'[r] = "stock" /\ line'[r] = line[r] /\ listed'[r] = lines
        /\ req'[r] = req[r] /\ sold'[r] = sold[r]
    BY <2>1 DEF CartInv, RequestTypes
  <2>6. Knows(r) /\ active' = active
    BY <1>1 DEF CartInv, cartTables
  <2>7. Knows(r)'
    BY <2>1, <2>5, <2>6 DEF Knows, InCart, SameCurrency
  <2> QED  BY <1>1, <2>3, <2>4, <2>7, TablesStay, RequestMoves
<1> QED  BY <1>2, <1>3

LEMMA CheckStockSound ==
  ASSUME CartInv, NEW r \in Request, CheckStock(r)
  PROVE  CartInv'
<1>1. UNCHANGED cartTables
  BY DEF CheckStock
<1>2. CASE Answered(r)
  BY <1>1, <1>2, AnswerSound, TablesStay, RequestMoves
<1>3. CASE ~Answered(r)
  <2>1. /\ at[r] = "stock" /\ Wanted(r) <= MaxUnits /\ at' = [at EXCEPT ![r] = "write"]
        /\ UNCHANGED <<req, sold, line, listed>>
    BY <1>3 DEF CheckStock, GoTo
  <2>2. Alone(r)
    BY <2>1 DEF Alone, CartInv, RequestTypes
  <2>3. RequestTypes'
    BY <2>1 DEF CartInv, RequestTypes, InCart
  <2>4. at'[r] = "write"
    BY <2>1 DEF CartInv, RequestTypes
  <2>5. Knows(r) /\ active' = active
    BY <1>1 DEF CartInv, cartTables
  <2>6. Knows(r)'
    BY <2>1, <2>4, <2>5 DEF Knows, InCart, Wanted
  <2> QED  BY <1>1, <2>2, <2>3, <2>6, TablesStay, RequestMoves
<1> QED  BY <1>2, <1>3

\* A request that writes asks for a quantity a line may have.
LEMMA WantedUnits ==
  ASSUME CartInv, NEW r \in Request, at[r] = "write"
  PROVE  /\ req[r] \in Body /\ req[r].op \in {"add", "set"}
         /\ req[r].sku \in Sku /\ req[r].units \in Nat /\ req[r].units >= 1
         /\ Wanted(r) \in 1 .. MaxUnits
<1>1. Knows(r) /\ line[r] \in Item \cup {NoLine}
  BY DEF CartInv, RequestTypes
<1>2. req[r] \in Body /\ req[r].op \in {"add", "set"} /\ Wanted(r) <= MaxUnits
  BY <1>1 DEF Knows
<1>3. req[r].sku \in Sku /\ req[r].units \in Units
  BY <1>2, BodyFields
<1>4. req[r].units \in Nat /\ req[r].units >= 1
  <2>1. PICK u : u = req[r].units
    OBVIOUS
  <2>2. u \in Nat /\ u # 0
    BY <1>3, <2>1, CartAssumption
  <2> QED  BY <2>1, <2>2
<1>5. line[r] # NoLine => line[r].units \in Nat
  BY <1>1, ItemFields
<1>6. Wanted(r) \in Nat /\ Wanted(r) >= 1
  BY <1>4, <1>5 DEF Wanted
<1> QED  BY <1>2, <1>3, <1>4, <1>6, CartAssumption

\* SetQuantity changes the quantity of one line and nothing else.
LEMMA SetUnitsRows ==
  ASSUME NEW L \in SUBSET Item, NEW id, NEW n \in 1 .. MaxUnits
  PROVE  /\ SetUnits(L, id, n) \subseteq Item
         /\ \A y \in SetUnits(L, id, n) : \E x \in L :
              /\ x.id = y.id /\ x.sku = y.sku /\ x.offer = y.offer
              /\ y.units = IF x.id = id THEN n ELSE x.units
         /\ \A x \in L : \E y \in SetUnits(L, id, n) : 
              /\ x.id = y.id /\ x.sku = y.sku /\ x.offer = y.offer
              /\ y.units = IF x.id = id THEN n ELSE x.units
<1> DEFINE new(x) == IF x.id = id THEN [x EXCEPT !.units = n] ELSE x
<1>1. ASSUME NEW x \in L
      PROVE  /\ new(x) \in Item
             /\ new(x).id = x.id /\ new(x).sku = x.sku /\ new(x).offer = x.offer
             /\ new(x).units = IF x.id = id THEN n ELSE x.units
  <2>1. x \in Item
    OBVIOUS
  <2>2. PICK w : w = [x EXCEPT !.units = n]
    OBVIOUS
  <2>3. w \in Item /\ w.id = x.id /\ w.sku = x.sku /\ w.offer = x.offer /\ w.units = n
    BY <2>1, <2>2 DEF Item
  <2>4. new(x) = IF x.id = id THEN w ELSE x
    BY <2>2
  <2> HIDE DEF new
  <2> QED  BY <2>1, <2>3, <2>4
<1>2. SetUnits(L, id, n) = {new(x) : x \in L}
  BY DEF SetUnits
<1> HIDE DEF new
<1> QED  BY <1>1, <1>2

LEMMA RowsEqual ==
  ASSUME NEW x \in Item, NEW y \in Item,
         x.id = y.id, x.sku = y.sku, x.units = y.units, x.offer = y.offer
  PROVE  x = y
BY DEF Item

LEMMA WriteUnitsSound ==
  ASSUME CartInv, NEW r \in Request, WriteUnits(r)
  PROVE  CartInv'
<1>1. PICK n \in 1 .. MaxUnits : n = Wanted(r)
  BY WantedUnits DEF WriteUnits
<1>2. PICK id : id = line[r].id
  OBVIOUS
<1>3. lines \in SUBSET Item /\ active' = active /\ added' = added
  BY DEF CartInv, CartRows, WriteUnits
<1>4. lines' = SetUnits(lines, id, n)
  BY <1>1, <1>2 DEF WriteUnits
<1>5. /\ lines' \subseteq Item
      /\ \A y \in lines' : \E x \in lines :
           /\ x.id = y.id /\ x.sku = y.sku /\ x.offer = y.offer
           /\ y.units = IF x.id = id THEN n ELSE x.units
  BY <1>3, <1>4, SetUnitsRows
<1>6. ASSUME NEW y \in lines', NEW z \in lines', y.sku = z.sku \/ y.id = z.id
      PROVE  y = z
  <2>1. PICK x \in lines : /\ x.id = y.id /\ x.sku = y.sku /\ x.offer = y.offer
                           /\ y.units = IF x.id = id THEN n ELSE x.units
    BY <1>5
  <2>2. PICK w \in lines : /\ w.id = z.id /\ w.sku = z.sku /\ w.offer = z.offer
                           /\ z.units = IF w.id = id THEN n ELSE w.units
    BY <1>5
  <2>3. x = w
    BY <1>6, <2>1, <2>2 DEF CartInv, CartRows
  <2> QED  BY <1>5, <2>1, <2>2, <2>3, RowsEqual
<1>7. \A y \in lines' : y.id < added
  BY <1>5 DEF CartInv, CartRows
<1>8. lines' # {} => lines # {}
  BY <1>5
<1>9. CartRows'
  BY <1>3, <1>5, <1>6, <1>7, <1>8 DEF CartInv, CartRows
<1>10. Answered(r)
  BY DEF WriteUnits
<1> QED  BY <1>3, <1>9, <1>10, AnswerSound, RequestMoves

LEMMA InsertLineSound ==
  ASSUME CartInv, NEW r \in Request, InsertLine(r)
  PROVE  CartInv'
<1>1. Answered(r) /\ active' = active
  BY DEF InsertLine
<1>2. CASE UNCHANGED <<lines, added>>
  <2>1. UNCHANGED cartTables
    BY <1>1, <1>2 DEF cartTables
  <2> QED  BY <1>1, <2>1, AnswerSound, TablesStay, RequestMoves
<1>3. CASE ~UNCHANGED <<lines, added>>
  <2>1. PICK x : x = [id |-> added, sku |-> req[r].sku, units |-> Wanted(r), offer |-> sold[r]]
    OBVIOUS
  <2>2. /\ at[r] = "write" /\ line[r] = NoLine /\ added < MaxLines
        /\ LineOf(lines, req[r].sku) = NoLine
        /\ lines' = lines \cup {x} /\ added' = added + 1
    BY <1>3, <2>1 DEF InsertLine
  <2>3. Knows(r) /\ CartRows
    BY DEF CartInv
  <2>4. sold[r] \in Offer /\ active
    BY <2>2, <2>3 DEF Knows, InCart
  <2>5. added \in Nat /\ added \in 0 .. MaxLines - 1
    BY <2>2, <2>3, CartAssumption DEF CartRows
  <2>6. x \in Item /\ x.id = added /\ x.sku = req[r].sku
    BY <2>1, <2>2, <2>4, <2>5, WantedUnits DEF Item
  <2>7. \A y \in lines : y.sku # x.sku
    BY <2>2, <2>3, <2>6, LineFound DEF CartRows
  <2>8. \A y \in lines : y.id \in Nat /\ y.id < added
    BY <2>3, ItemFields DEF CartRows
  <2>9. \A y \in lines' : y.id < added'
    BY <2>2, <2>5, <2>6, <2>8
  <2>10. \A y, z \in lines' : (y.sku = z.sku => y = z) /\ (y.id = z.id => y = z)
    BY <2>2, <2>3, <2>5, <2>6, <2>7, <2>8 DEF CartRows
  <2>11. CartRows'
    BY <1>1, <2>2, <2>3, <2>4, <2>5, <2>6, <2>9, <2>10, CartAssumption DEF CartRows
  <2> QED  BY <1>1, <2>11, AnswerSound, RequestMoves
<1> QED  BY <1>2, <1>3

LEMMA DeleteLinesSound ==
  ASSUME CartInv, NEW r \in Request, DeleteLines(r)
  PROVE  CartInv'
<1>1. Answered(r) /\ active' = active /\ added' = added /\ lines' \subseteq lines
  BY DEF DeleteLines
<1>2. CartRows'
  BY <1>1 DEF CartInv, CartRows
<1> QED  BY <1>1, <1>2, AnswerSound, RequestMoves

LEMMA AnswersSound ==
  ASSUME CartInv, NEW r \in Request, ShowCart(r) \/ RequestStops(r)
  PROVE  CartInv'
BY AnswerSound, TablesStay, RequestMoves DEF ShowCart, RequestStops

\* One case for each step of a request.
LEMMA CartSteps ==
  ASSUME CartInv, [CartNext]_cartVars
  PROVE  CartInv'
<1>1. ASSUME NEW r \in Request, CartStep(r)
      PROVE  CartInv'
  BY <1>1, LookupSound, GetActiveSound, CreateCartSound, FindLineSound, CheckCurrencySound,
     CheckStockSound, WriteUnitsSound, InsertLineSound, DeleteLinesSound, AnswersSound
     DEF CartStep
<1>2. CASE CartNext
  BY <1>1, <1>2, ArriveSound, AnswersSound DEF CartNext
<1>3. CASE UNCHANGED cartVars
  BY <1>3 DEF cartVars, CartInv, CartRows, RequestTypes, Knows, Wanted
<1> QED  BY <1>2, <1>3

(***************************************************************************)
(* cart_items holds one line per SKU of a cart that exists; and what a     *)
(* request is about to write follows from the line and the lines it has    *)
(* read (AddItem, SetItemQuantity), however many of them interleave.       *)
(***************************************************************************)
THEOREM CartInvHolds == CartSpec => []CartInv
<1>1. CartInit => CartInv
  <2> SUFFICES ASSUME CartInit
               PROVE  CartInv
    OBVIOUS
  <2>1. CartRows
    <3>1. active = FALSE /\ lines = {} /\ added = 0
      BY DEF CartInit
    <3>2. added \in 0 .. MaxLines
      BY <3>1, CartAssumption
    <3> QED  BY <3>1, <3>2 DEF CartRows
  <2>2. RequestTypes
    BY DEF CartInit, RequestTypes
  <2>3. \A r \in Request : Knows(r)
    BY DEF CartInit, Knows, InCart
  <2> QED  BY <2>1, <2>2, <2>3 DEF CartInv
<1> QED  BY <1>1, CartSteps, PTL DEF CartSpec

\* The variables of Cart have their types.
THEOREM CartTypesHold == CartSpec => []CartTypeOK
<1>1. CartInv => CartTypeOK
  BY DEF CartInv, CartTypeOK, CartRows, RequestTypes
<1> QED  BY <1>1, CartInvHolds, PTL

-----------------------------------------------------------------------------
\* The three parts of OnlyOverlapsSpoilCarts, for the step of one request.
CurrencyKept == OneCurrency(lines) /\ ~OneCurrency(lines')
                  => \E r \in Request : Writes(r) /\ req[r].op = "add" /\ Overtaken(r)

UnitsAdded == \A r \in Request :
                Writes(r) /\ req[r].op = "add" /\ ~Overtaken(r)
                  => UnitsOf(lines', req[r].sku) = UnitsOf(lines, req[r].sku) + req[r].units

OffersKept == \A x \in lines, y \in lines' : x.id = y.id => x.offer = y.offer

\* The one line of a SKU is the one that is found.
LEMMA OneLineFound ==
  ASSUME NEW L \in SUBSET Item, \A x, y \in L : x.sku = y.sku => x = y, NEW x \in L
  PROVE  LineOf(L, x.sku) = x
<1>1. LineOf(L, x.sku) # NoLine
  BY LineFound
<1> QED  BY <1>1, LineFound

\* Only the request that takes the step writes.
LEMMA OnlyItWrites ==
  ASSUME CartInv, NEW r \in Request, Alone(r), NEW q \in Request, Writes(q)
  PROVE  q = r
BY DEF Writes, Alone

LEMMA WriteUnitsKeeps ==
  ASSUME CartInv, CartInv', NEW r \in Request, WriteUnits(r)
  PROVE  CurrencyKept /\ UnitsAdded /\ OffersKept
<1>1. PICK n \in 1 .. MaxUnits : n = Wanted(r)
  BY WantedUnits DEF WriteUnits
<1>2. PICK id : id = line[r].id
  OBVIOUS
<1>3. lines \in SUBSET Item /\ lines' \in SUBSET Item
  BY DEF CartInv, CartRows
<1>4. lines' = SetUnits(lines, id, n)
  BY <1>1, <1>2 DEF WriteUnits
<1>5. /\ \A y \in lines' : \E x \in lines :
           /\ x.id = y.id /\ x.sku = y.sku /\ x.offer = y.offer
           /\ y.units = IF x.id = id THEN n ELSE x.units
      /\ \A x \in lines : \E y \in lines' :
           /\ x.id = y.id /\ x.sku = y.sku /\ x.offer = y.offer
           /\ y.units = IF x.id = id THEN n ELSE x.units
  BY <1>3, <1>4, SetUnitsRows
<1>6. \A x, y \in lines : (x.sku = y.sku => x = y) /\ (x.id = y.id => x = y)
  BY DEF CartInv, CartRows
<1>7. \A x, y \in lines' : (x.sku = y.sku => x = y) /\ (x.id = y.id => x = y)
  BY DEF CartInv, CartRows
<1>8. OffersKept
  BY <1>5, <1>6 DEF OffersKept
<1>9. CurrencyKept
  BY <1>5 DEF CurrencyKept, OneCurrency
<1>10. ASSUME NEW q \in Request, Writes(q), req[q].op = "add", ~Overtaken(q)
       PROVE  UnitsOf(lines', req[q].sku) = UnitsOf(lines, req[q].sku) + req[q].units
  <2>1. q = r
    BY <1>10, AnswerSound, OnlyItWrites DEF WriteUnits
  <2>2. Knows(r) /\ at[r] = "write" /\ line[r] # NoLine
    BY DEF CartInv, WriteUnits
  <2>3. PICK s : s = req[r].sku
    OBVIOUS
  <2>4. line[r] = LineOf(lines, s)
    BY <1>10, <2>1, <2>2, <2>3 DEF Knows, Overtaken
  <2>5. PICK x \in lines : x = line[r] /\ x.sku = s
    BY <1>3, <2>2, <2>4, LineFound
  <2>6. PICK y \in lines' : /\ x.id = y.id /\ x.sku = y.sku /\ x.offer = y.offer
                            /\ y.units = IF x.id = id THEN n ELSE x.units
    BY <1>5
  <2>7. y.units = n /\ y.sku = s
    BY <1>2, <2>5, <2>6
  <2>8. LineOf(lines', s) = y
    BY <1>3, <1>7, <2>7, OneLineFound
  <2>9. y # NoLine
    BY <1>3, CartAssumption
  <2>10. UnitsOf(lines', s) = n
    BY <2>7, <2>8, <2>9 DEF UnitsOf
  <2>11. UnitsOf(lines, s) = line[r].units
    BY <2>2, <2>4 DEF UnitsOf
  <2>12. n = line[r].units + req[r].units
    BY <1>1, <1>10, <2>1, <2>2 DEF Wanted
  <2> QED  BY <2>1, <2>3, <2>10, <2>11, <2>12
<1> QED  BY <1>8, <1>9, <1>10 DEF UnitsAdded

LEMMA InsertLineKeeps ==
  ASSUME CartInv, CartInv', NEW r \in Request, InsertLine(r), lines' # lines
  PROVE  CurrencyKept /\ UnitsAdded /\ OffersKept
<1>1. PICK x : x = [id |-> added, sku |-> req[r].sku, units |-> Wanted(r), offer |-> sold[r]]
  OBVIOUS
<1>2. /\ at[r] = "write" /\ line[r] = NoLine
      /\ LineOf(lines, req[r].sku) = NoLine
      /\ lines' = lines \cup {x}
  BY <1>1 DEF InsertLine
<1>3. Knows(r) /\ lines \in SUBSET Item /\ lines' \in SUBSET Item
  BY DEF CartInv, CartRows
<1>4. /\ req[r].op = "add"
      /\ listed[r] = {} \/ Oldest(listed[r]).offer.currency = sold[r].currency
  BY <1>2, <1>3 DEF Knows
<1>5. Writes(r)
  BY <1>2 DEF Writes, InsertLine, Answered, GoTo, CartInv, RequestTypes
<1>6. x.id = added /\ x.sku = req[r].sku /\ x.offer = sold[r] /\ x.units = Wanted(r)
  BY <1>1
<1>7. CurrencyKept
  <2>1. CASE Overtaken(r)
    BY <1>4, <1>5, <2>1 DEF CurrencyKept
  <2>2. CASE ~Overtaken(r)
    <3> SUFFICES ASSUME OneCurrency(lines)
                 PROVE  OneCurrency(lines')
      BY DEF CurrencyKept
    <3>1. lines = {} \/ Oldest(lines).offer.currency = x.offer.currency
      BY <1>4, <1>6, <2>2 DEF Overtaken
    <3>2. \A y \in lines : y.offer.currency = x.offer.currency
      BY <1>3, <3>1, OldestIsThere DEF OneCurrency
    <3> QED  BY <1>2, <3>2 DEF OneCurrency
  <2> QED  BY <2>1, <2>2
<1>8. OffersKept
  <2>1. \A y \in lines : y.id \in Nat /\ y.id < added
    BY <1>3, ItemFields DEF CartInv, CartRows
  <2>2. added \in Nat
    BY CartAssumption DEF CartInv, CartRows
  <2>3. \A y \in lines : y.id # x.id
    BY <1>6, <2>1, <2>2
  <2>4. \A y, z \in lines : y.id = z.id => y = z
    BY DEF CartInv, CartRows
  <2> QED  BY <1>2, <2>3, <2>4 DEF OffersKept
<1>9. ASSUME NEW q \in Request, Writes(q)
      PROVE  UnitsOf(lines', req[q].sku) = UnitsOf(lines, req[q].sku) + req[q].units
  <2>1. q = r
    BY <1>9, AnswerSound, OnlyItWrites DEF InsertLine
  <2>2. UnitsOf(lines, req[r].sku) = 0
    BY <1>2 DEF UnitsOf
  <2>3. \A y, z \in lines' : y.sku = z.sku => y = z
    BY DEF CartInv, CartRows
  <2>4. x \in lines' /\ x # NoLine
    BY <1>2, <1>3, CartAssumption
  <2>5. LineOf(lines', req[r].sku) = x
    BY <1>3, <1>6, <2>3, <2>4, OneLineFound
  <2>6. UnitsOf(lines', req[r].sku) = req[r].units
    BY <1>2, <1>6, <2>4, <2>5 DEF UnitsOf, Wanted
  <2>7. req[r].units \in Nat
    BY <1>2, WantedUnits
  <2> QED  BY <2>1, <2>2, <2>6, <2>7
<1> QED  BY <1>7, <1>8, <1>9 DEF UnitsAdded

\* The other steps add no line, and none of them writes a quantity.
LEMMA OthersKeep ==
  ASSUME CartInv, lines' \subseteq lines, \A r \in Request : ~Writes(r)
  PROVE  CurrencyKept /\ UnitsAdded /\ OffersKept
<1>1. \A x, y \in lines : x.id = y.id => x = y
  BY DEF CartInv, CartRows
<1> QED  BY <1>1 DEF CurrencyKept, UnitsAdded, OffersKept, OneCurrency

(***************************************************************************)
(* "every item in a cart must use the same currency", and an addition adds *)
(* to the quantity of the line, unless another request has changed the     *)
(* cart since the line was read; the price a line was put in at stays.     *)
(***************************************************************************)
THEOREM CartsSpoiltOnlyByOverlap == CartSpec => OnlyOverlapsSpoilCarts
<1> DEFINE Permitted ==
      /\ OneCurrency(lines) /\ ~OneCurrency(lines')
           => \E r \in Request : Writes(r) /\ req[r].op = "add" /\ Overtaken(r)
      /\ \A r \in Request :
           Writes(r) /\ req[r].op = "add" /\ ~Overtaken(r)
             => UnitsOf(lines', req[r].sku) = UnitsOf(lines, req[r].sku) + req[r].units
      /\ \A x \in lines, y \in lines' : x.id = y.id => x.offer = y.offer
<1>1. CartInv /\ CartInv' /\ [CartNext]_cartVars => CurrencyKept /\ UnitsAdded /\ OffersKept
  <2> SUFFICES ASSUME CartInv, CartInv', [CartNext]_cartVars
               PROVE  CurrencyKept /\ UnitsAdded /\ OffersKept
    OBVIOUS
  <2>1. ASSUME lines' = lines
        PROVE  CurrencyKept /\ UnitsAdded /\ OffersKept
    BY <2>1, OthersKeep DEF Writes
  <2>2. ASSUME NEW r \in Request, DeleteLines(r)
        PROVE  CurrencyKept /\ UnitsAdded /\ OffersKept
    <3>1. lines' \subseteq lines /\ at[r] = "delete" /\ Alone(r)
      BY <2>2, AnswerSound DEF DeleteLines
    <3>2. \A q \in Request : ~Writes(q)
      BY <3>1, OnlyItWrites DEF Writes
    <3> QED  BY <3>1, <3>2, OthersKeep
  <2>3. ASSUME NEW r \in Request, WriteUnits(r) \/ InsertLine(r)
        PROVE  CurrencyKept /\ UnitsAdded /\ OffersKept
    BY <2>1, <2>3, WriteUnitsKeeps, InsertLineKeeps
  <2>4. ASSUME NEW r \in Request, RequestStops(r) \/ \E body \in Body : Arrive(r, body)
        PROVE  lines' = lines
    BY <2>4 DEF RequestStops, Arrive, cartTables
  <2>5. ASSUME NEW r \in Request,
               \/ LookupVariant(r) \/ GetActive(r) \/ CreateCart(r) \/ FindLine(r)
               \/ CheckCurrency(r) \/ CheckStock(r) \/ ShowCart(r)
        PROVE  lines' = lines
    BY <2>5 DEF LookupVariant, GetActive, CreateCart, FindLine, CheckCurrency, CheckStock,
                ShowCart, cartTables
  <2>6. CASE UNCHANGED cartVars
    BY <2>1, <2>6 DEF cartVars
  <2> QED  BY <2>1, <2>2, <2>3, <2>4, <2>5, <2>6 DEF CartNext, CartStep
<1>2. CartInv /\ CartInv' /\ [CartNext]_cartVars => Permitted
  BY <1>1 DEF CurrencyKept, UnitsAdded, OffersKept
<1> HIDE DEF Permitted
<1>3. CartSpec => [][Permitted]_cartVars
  BY <1>2, CartInvHolds, PTL DEF CartSpec
<1> QED  BY <1>3 DEF OnlyOverlapsSpoilCarts, Permitted

-----------------------------------------------------------------------------
(***************************************************************************)
(* Migrations: the order of the versions.                                  *)
(***************************************************************************)
LEMMA LeastVersion ==
  ASSUME NEW S \in SUBSET Nat, S # {}
  PROVE  Min(S) \in S /\ \A n \in S : Min(S) <= n
BY LeastNumber DEF Min

\* Of a finite set: the one with the fewest above it.
LEMMA GreatestVersion ==
  ASSUME NEW S \in SUBSET Nat, S # {}, IsFiniteSet(S)
  PROVE  Max(S) \in S /\ \A n \in S : n <= Max(S)
<1> DEFINE higher(v) == {w \in S : w > v}
           counts == {Cardinality(higher(v)) : v \in S}
<1>1. \A v \in S : IsFiniteSet(higher(v)) /\ Cardinality(higher(v)) \in Nat
  BY FS_Subset, FS_CardinalityType
<1>2. counts \in SUBSET Nat /\ counts # {}
  BY <1>1
<1>3. PICK v \in S : \A w \in S : Cardinality(higher(v)) <= Cardinality(higher(w))
  <2> HIDE DEF counts
  <2>1. Min(counts) \in counts /\ \A n \in counts : Min(counts) <= n
    BY <1>2, LeastVersion
  <2> QED  BY <2>1 DEF counts
<1>4. ASSUME NEW w \in S, w > v
      PROVE  FALSE
  <2>1. higher(w) \in SUBSET higher(v) /\ w \in higher(v) /\ w \notin higher(w)
    <3>1. v \in Nat /\ w \in Nat /\ ~(w > w)
      OBVIOUS
    <3>2. \A x \in S : x \in Nat /\ (x > w => x > v)
      BY <1>4, <3>1
    <3> QED  BY <1>4, <3>1, <3>2
  <2>2. Cardinality(higher(w)) <= Cardinality(higher(v))
        /\ (Cardinality(higher(v)) = Cardinality(higher(w)) => higher(v) = higher(w))
    BY <1>1, <2>1, FS_Subset
  <2>3. Cardinality(higher(v)) <= Cardinality(higher(w))
    BY <1>3
  <2> HIDE DEF higher
  <2>4. Cardinality(higher(v)) \in Nat /\ Cardinality(higher(w)) \in Nat
    BY <1>1
  <2> QED  BY <2>1, <2>2, <2>3, <2>4
<1>5. \A w \in S : v >= w
  BY <1>4
<1> QED  BY <1>5 DEF Max

-----------------------------------------------------------------------------
(***************************************************************************)
(* Migrations: the inductive invariant.                                    *)
(***************************************************************************)
Going == {u \in Operator : running[u] # NoRun}

\* What a run has still to do is what schema_migrations says is to be done.
FreshRun(r) ==
  /\ r.cmd = "up" => r.todo = File \ recorded
  /\ r.cmd = "down" => r.todo \subseteq recorded /\ \A v \in r.todo, w \in recorded : w > v => w \in r.todo

MigrationsInv ==
  /\ recorded \subseteq File /\ schema = recorded
  /\ running \in [Operator -> Run \cup {NoRun}]
  /\ interleaved \subseteq Going
  /\ \A u \in Going \ interleaved : FreshRun(running[u])

LEMMA FilesFinite ==
  ASSUME NEW V \in SUBSET File
  PROVE  IsFiniteSet(V) /\ V \in SUBSET Nat
BY MigrationsAssumption, FS_Subset

LEMMA NextIsForemost ==
  ASSUME MigrationsInv, NEW u \in Operator, AtWork(u)
  PROVE  /\ u \in Going /\ running[u] \in Run
         /\ NextFile(u) \in running[u].todo /\ NextFile(u) \in File
         /\ running[u].cmd = "up" => \A v \in running[u].todo : NextFile(u) <= v
         /\ running[u].cmd = "down" => \A v \in running[u].todo : v <= NextFile(u)
<1>1. u \in Going /\ running[u] \in Run
  BY DEF AtWork, Going, MigrationsInv
<1>2. PICK V : V = running[u].todo
  OBVIOUS
<1>3. V \in SUBSET File /\ V # {} /\ running[u].cmd \in {"up", "down"}
  BY <1>1, <1>2 DEF Run, AtWork
<1>4. IsFiniteSet(V) /\ V \in SUBSET Nat
  BY <1>3, FilesFinite
<1>5. /\ Min(V) \in V /\ \A n \in V : Min(V) <= n
      /\ Max(V) \in V /\ \A n \in V : n <= Max(V)
  BY <1>3, <1>4, LeastVersion, GreatestVersion
<1>6. NextFile(u) = IF running[u].cmd = "up" THEN Min(V) ELSE Max(V)
  BY <1>2 DEF NextFile, Foremost
<1> QED  BY <1>1, <1>2, <1>3, <1>5, <1>6

LEMMA MostRecentIsTop ==
  ASSUME MigrationsInv, NEW steps \in Nat
  PROVE  /\ MostRecent(steps) \subseteq recorded
         /\ \A v \in MostRecent(steps), w \in recorded : w > v => w \in MostRecent(steps)
<1> DEFINE higher(v) == {x \in recorded : x > v}
<1>1. MostRecent(steps) = {v \in recorded : Cardinality(higher(v)) < steps}
  BY DEF MostRecent
<1>2. recorded \subseteq Nat /\ IsFiniteSet(recorded)
  BY FilesFinite DEF MigrationsInv
<1>3. ASSUME NEW v \in recorded, NEW w \in recorded, w > v, Cardinality(higher(v)) < steps
      PROVE  Cardinality(higher(w)) < steps
  <2>1. higher(w) \in SUBSET higher(v)
    <3>1. v \in Nat /\ w \in Nat
      BY <1>2
    <3>2. \A x \in recorded : x \in Nat /\ (x > w => x > v)
      BY <1>2, <1>3, <3>1
    <3> QED  BY <3>2
  <2>2. IsFiniteSet(higher(v))
    BY <1>2, FS_Subset
  <2>3. Cardinality(higher(w)) <= Cardinality(higher(v)) /\ IsFiniteSet(higher(w))
    BY <2>1, <2>2, FS_Subset
  <2>4. Cardinality(higher(v)) \in Nat /\ Cardinality(higher(w)) \in Nat
    BY <2>2, <2>3, FS_CardinalityType
  <2> HIDE DEF higher
  <2> QED  BY <1>3, <2>3, <2>4
<1> QED  BY <1>1, <1>3

LEMMA StartRunSound ==
  ASSUME MigrationsInv, NEW u \in Operator, NEW cmd \in {"up", "down"}, NEW todo \in SUBSET File,
         StartRun(u, cmd, todo),
         cmd = "up" => todo = File \ recorded,
         cmd = "down" => todo \subseteq recorded /\ \A v \in todo, w \in recorded : w > v => w \in todo
  PROVE  MigrationsInv'
<1>1. PICK r : r = [cmd |-> cmd, todo |-> todo, wrote |-> FALSE]
  OBVIOUS
<1>2. r \in Run /\ r # NoRun /\ FreshRun(r)
  <2>1. r \in Run
    BY <1>1 DEF Run
  <2>2. r.cmd = cmd /\ r.todo = todo
    BY <1>1
  <2> QED  BY <2>1, <2>2, MigrationsAssumption DEF FreshRun
<1>3. \A v \in Operator : running'[v] = IF v = u THEN r ELSE running[v]
  BY <1>1 DEF StartRun, MigrationsInv
<1>4. running' \in [Operator -> Run \cup {NoRun}]
  BY <1>1, <1>2 DEF StartRun, MigrationsInv
<1>5. UNCHANGED <<schema, recorded, interleaved>> /\ running[u] = NoRun
  BY DEF StartRun
<1>6. Going' = Going \cup {u} /\ u \notin Going
  BY <1>2, <1>3, <1>5 DEF Going
<1>7. ASSUME NEW v \in Going' \ interleaved'
      PROVE  FreshRun(running[v])'
  <2>1. CASE v = u
    BY <1>2, <1>3, <1>5, <2>1 DEF FreshRun
  <2>2. CASE v # u
    <3>1. v \in Going \ interleaved /\ running'[v] = running[v]
      BY <1>3, <1>5, <1>6, <2>2 DEF Going
    <3> QED  BY <1>5, <3>1 DEF FreshRun, MigrationsInv
  <2> QED  BY <2>1, <2>2
<1> QED  BY <1>4, <1>5, <1>6, <1>7 DEF MigrationsInv

LEMMA StartsFresh ==
  ASSUME MigrationsInv, NEW u \in Operator, RunUp(u) \/ \E steps \in 1 .. Cardinality(File) : RunDown(u, steps)
  PROVE  MigrationsInv'
<1>1. CASE RunUp(u)
  BY <1>1, StartRunSound DEF RunUp
<1>2. ASSUME NEW steps \in 1 .. Cardinality(File), RunDown(u, steps)
      PROVE  MigrationsInv'
  <2>1. steps \in Nat
    OBVIOUS
  <2>2. MostRecent(steps) \in SUBSET File
    BY <2>1, MostRecentIsTop DEF MigrationsInv
  <2> QED  BY <1>2, <2>1, <2>2, MostRecentIsTop, StartRunSound DEF RunDown
<1> QED  BY <1>1, <1>2

LEMMA ScriptSound ==
  ASSUME MigrationsInv, NEW u \in Operator, Script(u)
  PROVE  MigrationsInv'
<1>1. u \in Going /\ running[u] \in Run
  BY NextIsForemost DEF Script
<1>2. PICK r : r = [running[u] EXCEPT !.wrote = TRUE]
  OBVIOUS
<1>3. r \in Run /\ r.cmd = running[u].cmd /\ r.todo = running[u].todo
  BY <1>1, <1>2 DEF Run
<1>4. \A v \in Operator : running'[v] = IF v = u THEN r ELSE running[v]
  BY <1>2 DEF Script, MigrationsInv
<1>5. running' \in [Operator -> Run \cup {NoRun}]
  BY <1>2, <1>3 DEF Script, MigrationsInv
<1>6. UNCHANGED <<schema, recorded, interleaved>>
  BY DEF Script
<1>7. Going' = Going
  BY <1>1, <1>3, <1>4, MigrationsAssumption DEF Going
<1>8. ASSUME NEW v \in Going' \ interleaved'
      PROVE  FreshRun(running[v])'
  <2>1. v \in Going \ interleaved /\ v \in Operator
    BY <1>6, <1>7 DEF Going
  <2>2. running'[v].cmd = running[v].cmd /\ running'[v].todo = running[v].todo
    BY <1>3, <1>4, <2>1
  <2>3. FreshRun(running[v])
    BY <2>1 DEF MigrationsInv
  <2> QED  BY <1>6, <2>2, <2>3 DEF FreshRun
<1> QED  BY <1>5, <1>6, <1>7, <1>8 DEF MigrationsInv

\* A migration commits: only the run it belongs to still knows what there is to do.
LEMMA RecordSound ==
  ASSUME MigrationsInv, NEW u \in Operator, Record(u)
  PROVE  /\ MigrationsInv'
         /\ running'[u] # running[u]
         /\ u \notin interleaved /\ Gapless(recorded) => Gapless(recorded')
<1> DEFINE n == NextFile(u)
<1>1. /\ u \in Going /\ running[u] \in Run
      /\ n \in running[u].todo /\ n \in File
      /\ running[u].cmd = "up" => \A v \in running[u].todo : n <= v
      /\ running[u].cmd = "down" => \A v \in running[u].todo : v <= n
  BY NextIsForemost DEF Record
<1>2. PICK r : r = [running[u] EXCEPT !.todo = @ \ {n}, !.wrote = FALSE]
  OBVIOUS
<1>3. r \in Run /\ r.cmd = running[u].cmd /\ r.todo = running[u].todo \ {n}
  BY <1>1, <1>2 DEF Run
<1>4. \A v \in Operator : running'[v] = IF v = u THEN r ELSE running[v]
  BY <1>2 DEF Record, MigrationsInv
<1>5. running' \in [Operator -> Run \cup {NoRun}]
  BY <1>2, <1>3 DEF Record, MigrationsInv
<1>6. /\ running[u].cmd = "up" => recorded' = recorded \cup {n}
      /\ running[u].cmd = "down" => recorded' = recorded \ {n}
      /\ running[u].cmd \in {"up", "down"}
      /\ schema' = recorded'
  BY <1>1 DEF Record, MigrationsInv, Run
<1>7. recorded' \subseteq File
  BY <1>1, <1>6 DEF MigrationsInv
<1>8. Going' = Going
  BY <1>1, <1>3, <1>4, MigrationsAssumption DEF Going
<1>9. interleaved' = interleaved \cup (Going \ {u})
  BY DEF Record, Going
<1>10. ASSUME u \notin interleaved
       PROVE  FreshRun(r)' /\ (Gapless(recorded) => Gapless(recorded'))
  <2> HIDE DEF n
  <2>1. FreshRun(running[u])
    BY <1>1, <1>10 DEF MigrationsInv
  <2>2. recorded \subseteq File /\ File \subseteq Nat
    BY MigrationsAssumption DEF MigrationsInv
  <2>3. CASE running[u].cmd = "up"
    <3>1. running[u].todo = File \ recorded /\ recorded' = recorded \cup {n} /\ r.todo = running[u].todo \ {n}
      BY <1>3, <1>6, <2>1, <2>3 DEF FreshRun
    <3>2. r.todo = File \ recorded' /\ r.cmd = "up"
      BY <1>3, <2>3, <3>1
    <3>3. Gapless(recorded) => Gapless(recorded')
      BY <1>1, <2>2, <2>3, <3>1 DEF Gapless
    <3> QED  BY <3>2, <3>3 DEF FreshRun
  <2>4. CASE running[u].cmd = "down"
    <3>1. /\ running[u].todo \subseteq recorded
          /\ \A v \in running[u].todo, w \in recorded : w > v => w \in running[u].todo
          /\ recorded' = recorded \ {n} /\ r.todo = running[u].todo \ {n} /\ r.cmd = "down"
      BY <1>3, <1>6, <2>1, <2>4 DEF FreshRun
    <3>2. \A w \in recorded : w <= n
      BY <1>1, <2>2, <2>4, <3>1
    <3>3. Gapless(recorded) => Gapless(recorded')
      BY <1>1, <2>2, <3>1, <3>2 DEF Gapless
    <3>4. r.todo \subseteq recorded' /\ \A v \in r.todo, w \in recorded' : w > v => w \in r.todo
      BY <3>1
    <3> QED  BY <3>1, <3>3, <3>4 DEF FreshRun
  <2> QED  BY <1>6, <2>3, <2>4
<1>11. ASSUME NEW v \in Going' \ interleaved'
       PROVE  FreshRun(running[v])'
  <2>1. v = u /\ u \notin interleaved /\ running'[v] = r
    BY <1>1, <1>4, <1>8, <1>9, <1>11
  <2>2. FreshRun(r)'
    BY <1>10, <2>1
  <2> QED  BY <2>1, <2>2 DEF FreshRun
<1>12. interleaved' \subseteq Going'
  BY <1>8, <1>9 DEF MigrationsInv
<1>13. running'[u] # running[u]
  BY <1>1, <1>3, <1>4
<1> QED  BY <1>5, <1>6, <1>7, <1>10, <1>11, <1>12, <1>13 DEF MigrationsInv

LEMMA RunEndsSound ==
  ASSUME MigrationsInv, NEW u \in Operator, RunEnds(u)
  PROVE  MigrationsInv'
<1>1. \A v \in Operator : running'[v] = IF v = u THEN NoRun ELSE running[v]
  BY DEF RunEnds, MigrationsInv
<1>2. UNCHANGED <<schema, recorded>> /\ interleaved' = interleaved \ {u}
  BY DEF RunEnds
<1>3. running' \in [Operator -> Run \cup {NoRun}]
  BY DEF RunEnds, MigrationsInv
<1>4. Going' = Going \ {u}
  BY <1>1 DEF Going
<1>5. ASSUME NEW v \in Going' \ interleaved'
      PROVE  FreshRun(running[v])'
  <2>1. v \in Going \ interleaved /\ running'[v] = running[v]
    BY <1>1, <1>2, <1>4 DEF Going
  <2> QED  BY <1>2, <2>1 DEF FreshRun, MigrationsInv
<1> QED  BY <1>2, <1>3, <1>4, <1>5 DEF MigrationsInv

(***************************************************************************)
(* schema_migrations says what is in effect, whatever runs overlap and     *)
(* wherever they stop, and a run during which no other one has committed a *)
(* migration has still to do what the table says is to be done.            *)
(***************************************************************************)
THEOREM MigrationsInvHolds == MigrationsSpec => []MigrationsInv
<1>1. MigrationsInit => MigrationsInv
  BY DEF MigrationsInit, MigrationsInv, Going
<1>2. MigrationsInv /\ [MigrationsNext]_migrationVars => MigrationsInv'
  <2> SUFFICES ASSUME MigrationsInv, [MigrationsNext]_migrationVars
               PROVE  MigrationsInv'
    OBVIOUS
  <2>1. CASE MigrationsNext
    BY <2>1, StartsFresh, ScriptSound, RecordSound, RunEndsSound DEF MigrationsNext
  <2>2. CASE UNCHANGED migrationVars
    BY <2>2 DEF migrationVars, MigrationsInv, Going, FreshRun
  <2> QED  BY <2>1, <2>2
<1> QED  BY <1>1, <1>2, PTL DEF MigrationsSpec

\* The variables of Migrations have their types.
THEOREM MigrationsTypesHold == MigrationsSpec => []MigrationsTypeOK
<1>1. MigrationsInv => MigrationsTypeOK
  BY DEF MigrationsInv, MigrationsTypeOK, Going
<1> QED  BY <1>1, MigrationsInvHolds, PTL

(***************************************************************************)
(* Every version below one in effect is in effect, unless two runs of the  *)
(* migrator have overlapped; and the table and the schema change together. *)
(***************************************************************************)
THEOREM GapsOnlyByOverlap == MigrationsSpec => OnlyOverlapsLeaveGaps
<1> DEFINE Permitted ==
      /\ recorded' = schema'
      /\ Gapless(recorded) => \/ Gapless(recorded')
                              \/ \E u \in interleaved : running'[u] # running[u]
<1>1. MigrationsInv /\ MigrationsInv' /\ [MigrationsNext]_migrationVars => Permitted
  <2> SUFFICES ASSUME MigrationsInv, MigrationsInv', [MigrationsNext]_migrationVars
               PROVE  Permitted
    OBVIOUS
  <2>1. recorded' = schema'
    BY DEF MigrationsInv
  <2>2. ASSUME NEW u \in Operator, Record(u)
        PROVE  Permitted
    BY <2>1, <2>2, RecordSound
  <2>3. ASSUME recorded' = recorded
        PROVE  Permitted
    BY <2>1, <2>3
  <2>4. ASSUME NEW u \in Operator,
               RunUp(u) \/ (\E steps \in 1 .. Cardinality(File) : RunDown(u, steps)) \/ Script(u) \/ RunEnds(u)
        PROVE  recorded' = recorded
    BY <2>4 DEF RunUp, RunDown, StartRun, Script, RunEnds
  <2> QED  BY <2>2, <2>3, <2>4 DEF MigrationsNext, migrationVars
<1> HIDE DEF Permitted
<1>2. MigrationsSpec => [][Permitted]_migrationVars
  BY <1>1, MigrationsInvHolds, PTL DEF MigrationsSpec
<1> QED  BY <1>2 DEF OnlyOverlapsLeaveGaps, Permitted

-----------------------------------------------------------------------------
(***************************************************************************)
(* MCShop: all eleven components.                                          *)
(***************************************************************************)
Parts == {"locks", "cart", "settings", "returns", "subscriptions",
          "products", "taxonomy", "tree", "showcase", "access", "migrations"}

\* A step is one of a component, or leaves that component's tables alone.
LEMMA ShopSteps ==
  ASSUME [ShopNext]_shopVars
  PROVE  /\ [LocksNext]_lockVars /\ [CartNext]_cartVars /\ [SettingsNext]_settingsVars
         /\ [ReturnNext]_returnVars /\ [SubscriptionNext]_subscriptionVars
         /\ [ProductsNext]_productVars /\ [TaxonomyNext]_taxonomyVars /\ [TreeNext]_treeVars
         /\ [ShowcaseNext]_showcaseVars /\ [AccessNext]_accessVars
         /\ [MigrationsNext]_migrationVars
         /\ part' = part
<1>1. CASE UNCHANGED shopVars
  BY <1>1 DEF shopVars
<1>2. CASE ShopNext
  BY <1>2 DEF ShopNext, Follow
<1> QED  BY <1>1, <1>2

(***************************************************************************)
(* The components share no table: whichever of them a behaviour follows,   *)
(* it is a behaviour of every one.                                         *)
(***************************************************************************)
THEOREM ShopFollowsEach ==
  ShopSpec => /\ LocksSpec /\ CartSpec /\ SettingsSpec /\ ReturnSpec /\ SubscriptionSpec
              /\ ProductsSpec /\ TaxonomySpec /\ TreeSpec /\ ShowcaseSpec /\ AccessSpec
              /\ MigrationsSpec
              /\ [](part \in Parts)
<1>1. ShopInit => /\ LocksInit /\ CartInit /\ SettingsInit /\ ReturnInit /\ SubscriptionInit
                  /\ ProductsInit /\ TaxonomyInit /\ TreeInit /\ ShowcaseInit /\ AccessInit
                  /\ MigrationsInit
                  /\ part \in Parts
  BY DEF ShopInit, Parts
<1>2. part \in Parts /\ [ShopNext]_shopVars => (part \in Parts)'
  BY ShopSteps
<1> QED
  BY <1>1, <1>2, ShopSteps, PTL
     DEF ShopSpec, LocksSpec, CartSpec, SettingsSpec, ReturnSpec, SubscriptionSpec, ProductsSpec,
         TaxonomySpec, TreeSpec, ShowcaseSpec, AccessSpec, MigrationsSpec

(***************************************************************************)
(* Every component keeps its types, with what they say of its tables: one  *)
(* line per SKU in the cart, one coupon per code, references to rows that  *)
(* exist, at most one default variant, no return beyond its order.         *)
(***************************************************************************)
THEOREM ShopTypesHold == ShopSpec => []ShopTypeOK
<1>1. /\ part \in Parts /\ LocksTypeOK /\ CartTypeOK /\ SettingsTypeOK /\ ReturnTypeOK
      /\ SubscriptionTypeOK /\ ProductsTypeOK /\ TaxonomyTypeOK /\ ShowcaseTypeOK /\ AccessTypeOK
      /\ MigrationsTypeOK /\ TreeTypeOK
      => ShopTypeOK
  BY DEF Parts, ShopTypeOK
<1> QED
  BY <1>1, ShopFollowsEach, LockTypesHold, CartTypesHold, SettingsTypesHold, ReturnTypesHold,
     OneSubscription, ProductsTypesHold, TaxonomyTypesHold, TreeTypesHold,
     ShowcaseTypesHold, AccessTypesHold, MigrationsTypesHold, PTL

=============================================================================
