--------------------------- MODULE Returns_proofs ---------------------------
(***************************************************************************)
(* Proofs about returns: whatever managers do at the same time and         *)
(* wherever their requests stop, what is paid back stays within what was   *)
(* captured, completed returns are done, and only overlaps repeat one.     *)
(***************************************************************************)
EXTENDS Returns, WellFoundedInduction, TLAPS

-----------------------------------------------------------------------------
(***************************************************************************)
(* Totals.                                                                 *)
(***************************************************************************)

\* Induction over a set: it contains every number if it contains 0 and all successors.
LEMMA EveryNumber ==
  ASSUME NEW S, 0 \in S, \A n \in Nat : n \in S => n + 1 \in S
  PROVE  \A n \in Nat : n \in S
<1> SUFFICES ASSUME Nat \ S # {}
             PROVE  FALSE
  OBVIOUS
<1> DEFINE R == {p \in Nat \X Nat : p[1] < p[2]}
<1>1. IsWellFoundedOn(R, Nat)
  BY NatLessThanWellFounded DEF OpToRel
<1>2. PICK m \in Nat \ S : \A n \in Nat \ S : <<n, m>> \notin R
  BY <1>1, WFMin
<1>3. m - 1 \in Nat
  BY <1>2
<1>4. <<m - 1, m>> \in R
  BY <1>2, <1>3
<1>5. m - 1 \in S
  BY <1>2, <1>3, <1>4
<1>6. (m - 1) + 1 \in S /\ (m - 1) + 1 = m
  BY <1>2, <1>3, <1>5
<1> QED  BY <1>2, <1>6

\* f[n] is the sum of the first n entries of c, for n up to N.
Sums(f, c, N) == f = [n \in 0 .. N |-> IF n = 0 THEN 0 ELSE f[n - 1] + c[n]]

LEMMA SumsExist ==
  ASSUME NEW c
  PROVE  \A N \in Nat : \E f : Sums(f, c, N)
<1> DEFINE Summed == {N \in Nat : \E f : Sums(f, c, N)}
<1>1. 0 \in Summed
  <2>1. PICK f : f = [n \in 0 .. 0 |-> 0]
    OBVIOUS
  <2>2. Sums(f, c, 0)
    BY <2>1 DEF Sums
  <2> QED  BY <2>2
<1>2. ASSUME NEW N \in Nat, N \in Summed
      PROVE  N + 1 \in Summed
  <2>1. PICK f : Sums(f, c, N)
    BY <1>2
  <2>2. PICK g : g = [n \in 0 .. N + 1 |-> IF n = N + 1 THEN f[N] + c[N + 1] ELSE f[n]]
    OBVIOUS
  <2>3. \A n \in 0 .. N + 1 : g[n] = IF n = 0 THEN 0 ELSE g[n - 1] + c[n]
    <3> SUFFICES ASSUME NEW n \in 0 .. N + 1
                 PROVE  g[n] = IF n = 0 THEN 0 ELSE g[n - 1] + c[n]
      OBVIOUS
    <3>1. CASE n = N + 1
      BY <2>2, <3>1
    <3>2. CASE n # N + 1
      <4>1. n \in 0 .. N /\ g[n] = f[n] /\ (n # 0 => n - 1 \in 0 .. N + 1 /\ g[n - 1] = f[n - 1])
        BY <2>2, <3>2
      <4>2. f[n] = IF n = 0 THEN 0 ELSE f[n - 1] + c[n]
        BY <2>1, <4>1 DEF Sums
      <4> QED  BY <4>1, <4>2
    <3> QED  BY <3>1, <3>2
  <2>4. Sums(g, c, N + 1)
    BY <2>2, <2>3 DEF Sums
  <2> QED  BY <2>4
<1> HIDE DEF Summed
<1>3. \A n \in Nat : n \in Summed
  BY <1>1, <1>2, EveryNumber
<1> QED  BY <1>3 DEF Summed

\* Total is the last of such sums.
LEMMA TotalIsASum ==
  ASSUME NEW c, Len(c) \in Nat
  PROVE  \E f : Sums(f, c, Len(c)) /\ Total(c) = f[Len(c)]
<1> DEFINE upTo == CHOOSE f : f = [n \in 0 .. Len(c) |-> IF n = 0 THEN 0 ELSE f[n - 1] + c[n]]
<1>1. \E f : Sums(f, c, Len(c))
  BY SumsExist
<1>2. Sums(upTo, c, Len(c))
  BY <1>1 DEF Sums
<1>3. Total(c) = upTo[Len(c)]
  BY DEF Total
<1> QED  BY <1>2, <1>3

LEMMA SumsAreNaturals ==
  ASSUME NEW c, NEW N \in Nat, \A n \in 1 .. N : c[n] \in Nat, NEW f, Sums(f, c, N)
  PROVE  \A n \in 0 .. N : f[n] \in Nat
<1> DEFINE Natural == {n \in Nat : n <= N => f[n] \in Nat}
<1>1. 0 \in Natural
  BY DEF Sums
<1>2. ASSUME NEW n \in Nat, n \in Natural
      PROVE  n + 1 \in Natural
  <2>1. CASE n + 1 <= N
    <3>1. f[n + 1] = f[n] + c[n + 1]
      BY <2>1 DEF Sums
    <3> QED  BY <1>2, <2>1, <3>1
  <2>2. CASE ~(n + 1 <= N)
    BY <2>2
  <2> QED  BY <2>1, <2>2
<1> HIDE DEF Natural
<1>3. \A n \in Nat : n \in Natural
  BY <1>1, <1>2, EveryNumber
<1> QED  BY <1>3 DEF Natural

\* c and e have the same first N entries.
SameUpTo(c, e, N) == \A n \in 1 .. N : c[n] = e[n]

\* The first sums depend on the first entries only.
LEMMA SumsAgree ==
  ASSUME NEW c, NEW e, NEW N \in Nat, NEW M \in Nat, NEW f, NEW g,
         N <= M, SameUpTo(c, e, N), Sums(f, c, N), Sums(g, e, M)
  PROVE  f[N] = g[N]
<1> DEFINE Same == {n \in Nat : n <= N => f[n] = g[n]}
<1>1. 0 \in Same
  BY DEF Sums
<1>2. ASSUME NEW n \in Nat, n \in Same
      PROVE  n + 1 \in Same
  <2>1. CASE n + 1 <= N
    <3>1. f[n + 1] = f[n] + c[n + 1]
      BY <2>1 DEF Sums
    <3>2. g[n + 1] = g[n] + e[n + 1]
      BY <2>1 DEF Sums
    <3> QED  BY <1>2, <2>1, <3>1, <3>2 DEF SameUpTo
  <2>2. CASE ~(n + 1 <= N)
    BY <2>2
  <2> QED  BY <2>1, <2>2
<1> HIDE DEF Same
<1>3. \A n \in Nat : n \in Same
  BY <1>1, <1>2, EveryNumber
<1>4. N \in Same
  BY <1>3
<1> QED  BY <1>4 DEF Same

\* A total of natural numbers is one.
LEMMA TotalIsNatural ==
  ASSUME NEW c \in Seq(Nat)
  PROVE  Total(c) \in Nat
<1>1. PICK f : Sums(f, c, Len(c)) /\ Total(c) = f[Len(c)]
  BY TotalIsASum
<1>2. \A n \in 1 .. Len(c) : c[n] \in Nat
  OBVIOUS
<1> QED  BY <1>1, <1>2, SumsAreNaturals

LEMMA TotalOfNothing == Total(<< >>) = 0
<1>1. PICK f : Sums(f, << >>, Len(<< >>)) /\ Total(<< >>) = f[Len(<< >>)]
  BY TotalIsASum
<1>2. Len(<< >>) = 0
  OBVIOUS
<1> QED  BY <1>1, <1>2 DEF Sums

\* One more entry adds itself.
LEMMA TotalOfOneMore ==
  ASSUME NEW c, NEW e, Len(c) \in Nat, Len(e) = Len(c) + 1,
         \A n \in 1 .. Len(c) : e[n] = c[n]
  PROVE  Total(e) = Total(c) + e[Len(e)]
<1>1. PICK f : Sums(f, c, Len(c)) /\ Total(c) = f[Len(c)]
  BY TotalIsASum
<1>2. PICK g : Sums(g, e, Len(e)) /\ Total(e) = g[Len(e)]
  BY TotalIsASum
<1>3. f[Len(c)] = g[Len(c)]
  <2>1. Len(c) \in Nat /\ Len(e) \in Nat /\ Len(c) <= Len(e)
    OBVIOUS
  <2>2. SameUpTo(c, e, Len(c))
    BY DEF SameUpTo
  <2> QED  BY <1>1, <1>2, <2>1, <2>2, SumsAgree
<1>4. g[Len(e)] = g[Len(e) - 1] + e[Len(e)]
  BY <1>2 DEF Sums
<1> QED  BY <1>1, <1>2, <1>3, <1>4

-----------------------------------------------------------------------------
(***************************************************************************)
(* The inductive invariant.                                                *)
(***************************************************************************)
RowsInv ==
  /\ returned \in [ReturnId -> ReturnRow \cup {Nothing}]
  /\ method \in {"CARD", "COD", Nothing}
  /\ mirror \in {"UNPAID", "PAID", "REFUNDED"}
  /\ payment \in PaymentRow
  /\ paidBack \in Seq([of : ReturnId, cents : Nat])
  /\ restocks \in [ReturnId -> Nat]
  /\ desk \in [Desk -> Work \cup {Nothing}]

\* Only what the order contains is returned.
LinesInv ==
  \A r \in ReturnId : returned[r] # Nothing =>
    \A i \in DOMAIN returned[r].items : Returnable(returned[r].items[i])

\* The books never say more than Stripe has paid back, and neither exceeds the capture.
MoneyInv ==
  /\ payment.refunded <= Captured
  /\ AllPaidBack <= Captured
  /\ method = "CARD" => payment.refunded <= AllPaidBack
  /\ mirror = "REFUNDED" => payment.refunded > 0

Paid(r, refund) == \E i \in PaidFor(r) : paidBack[i].cents = refund

\* What a resolution knows once it has reached a step.
WorkInv(w) ==
  /\ w.step \in {"ask", "stripe", "book", "mirror"} => method # Nothing /\ w.refund > 0
  /\ w.step \in {"stripe", "book"} => w.row \in PaymentRow /\ w.row.refunded + w.refund <= Captured
  /\ w.step = "stripe" => method = "CARD" /\ w.row.refunded <= AllPaidBack
  /\ w.step = "book" /\ method = "CARD" => w.row.refunded + w.refund <= AllPaidBack
  /\ w.step = "mirror" => payment.refunded > 0
  /\ w.step \in {"book", "mirror", "restock", "complete"} /\ method = "CARD" /\ w.refund > 0
       => Paid(w.of, w.refund)
  /\ w.step \in {"ask", "stripe", "book", "mirror", "restock"} => ~w.restocked
  /\ w.step = "complete" /\ w.restocked => restocks[w.of] > 0

DeskInv == \A d \in Desk : desk[d] # Nothing => WorkInv(desk[d])

DoneInv ==
  \A r \in ReturnId : returned[r] # Nothing /\ returned[r].status = "COMPLETED" =>
    /\ method = "CARD" /\ returned[r].refund > 0 => Paid(r, returned[r].refund)
    /\ returned[r].restocked => restocks[r] > 0

\* A resolution of r has reached one of the steps.
Reached(r, steps) == \E d \in Desk : desk[d] # Nothing /\ desk[d].of = r /\ desk[d].step \in steps

Open(r) == returned[r] = Nothing \/ returned[r].status = "REQUESTED"

\* What is known of a return no two resolutions of which have overlapped.
OnceInv ==
  /\ \A d \in Desk : desk[d] # Nothing => returned[desk[d].of] # Nothing
  /\ \A d \in Desk : desk[d] # Nothing /\ desk[d].of \notin contested => Open(desk[d].of)
  /\ \A d, e \in Desk : desk[d] # Nothing /\ desk[e] # Nothing /\ desk[d].of = desk[e].of /\ d # e
       => desk[d].of \in contested
  /\ \A r \in ReturnId \ contested :
       Open(r) /\ ~Reached(r, {"book", "mirror", "restock", "complete"}) => PaidFor(r) = {}
  /\ \A r \in ReturnId \ contested : Open(r) /\ ~Reached(r, {"complete"}) => restocks[r] = 0

ReturnsInv == RowsInv /\ LinesInv /\ MoneyInv /\ DeskInv /\ DoneInv /\ OnceInv


-----------------------------------------------------------------------------
(***************************************************************************)
(* What steps of the resolutions have in common.                           *)
(***************************************************************************)

\* What resolutions rely on and steps only add to.
Grew ==
  /\ method' = method
  /\ AllPaidBack <= AllPaidBack'
  /\ \A r \in ReturnId, cents \in Nat : Paid(r, cents) => Paid(r, cents)'
  /\ payment.refunded > 0 => payment'.refunded > 0
  /\ \A r \in ReturnId : restocks[r] > 0 => restocks'[r] > 0

LEMMA SequenceEntry ==
  ASSUME NEW S, NEW s \in Seq(S), NEW i \in 1 .. Len(s)
  PROVE  s[i] \in S
OBVIOUS

LEMMA CentsAreNatural ==
  ASSUME NEW refunds \in Seq([of : ReturnId, cents : Nat])
  PROVE  /\ [i \in DOMAIN refunds |-> refunds[i].cents] \in Seq(Nat)
         /\ Len([i \in DOMAIN refunds |-> refunds[i].cents]) = Len(refunds)
<1>1. PICK n \in Nat : n = Len(refunds) /\ DOMAIN refunds = 1 .. n
  OBVIOUS
<1>2. PICK cents : cents = [i \in 1 .. n |-> refunds[i].cents]
  OBVIOUS
<1>3. cents \in [1 .. n -> Nat]
  <2>1. \A i \in 1 .. n : refunds[i] \in [of : ReturnId, cents : Nat]
    BY <1>1, SequenceEntry
  <2> QED  BY <1>2, <2>1
<1>4. cents \in Seq(Nat) /\ Len(cents) = n
  BY <1>3
<1> QED  BY <1>1, <1>2, <1>4

LEMMA PaidBackIsNatural ==
  ASSUME paidBack \in Seq([of : ReturnId, cents : Nat])
  PROVE  AllPaidBack \in Nat
<1>1. [i \in DOMAIN paidBack |-> paidBack[i].cents] \in Seq(Nat)
  BY CentsAreNatural
<1> QED  BY <1>1, TotalIsNatural DEF AllPaidBack

LEMMA NothingMoved ==
  ASSUME RowsInv, UNCHANGED <<method, payment, paidBack, restocks>>
  PROVE  Grew /\ AllPaidBack' = AllPaidBack /\ \A r : PaidFor(r)' = PaidFor(r)
<1>1. AllPaidBack \in Nat
  BY PaidBackIsNatural DEF RowsInv
<1>2. AllPaidBack' = AllPaidBack /\ \A r : PaidFor(r)' = PaidFor(r)
  BY DEF AllPaidBack, PaidFor
<1>3. \A r \in ReturnId, cents \in Nat : Paid(r, cents)' <=> Paid(r, cents)
  BY <1>2 DEF Paid
<1> QED  BY <1>1, <1>2, <1>3 DEF Grew

\* One more refund of Stripe's.
LEMMA OneMoreRefund ==
  ASSUME RowsInv, UNCHANGED <<method, payment, restocks>>,
         NEW r0 \in ReturnId, NEW c0 \in Nat, paidBack' = Append(paidBack, [of |-> r0, cents |-> c0])
  PROVE  /\ Grew
         /\ AllPaidBack' = AllPaidBack + c0
         /\ Paid(r0, c0)'
         /\ \A r \in ReturnId \ {r0} : PaidFor(r)' = PaidFor(r)
         /\ paidBack' \in Seq([of : ReturnId, cents : Nat])
<1> DEFINE old == [i \in DOMAIN paidBack |-> paidBack[i].cents]
           new == [i \in DOMAIN paidBack' |-> paidBack'[i].cents]
<1>1. paidBack \in Seq([of : ReturnId, cents : Nat])
  BY DEF RowsInv
<1>2. /\ paidBack' \in Seq([of : ReturnId, cents : Nat])
      /\ DOMAIN paidBack' = 1 .. Len(paidBack) + 1
      /\ DOMAIN paidBack = 1 .. Len(paidBack)
      /\ Len(paidBack) \in Nat
  BY <1>1
<1>3. /\ \A i \in DOMAIN paidBack : paidBack'[i] = paidBack[i]
      /\ paidBack'[Len(paidBack) + 1] = [of |-> r0, cents |-> c0]
  BY <1>1
<1>4. old \in Seq(Nat) /\ Len(old) = Len(paidBack)
  BY <1>1, CentsAreNatural
<1>5. new \in Seq(Nat) /\ Len(new) = Len(paidBack) + 1
  <2>1. PICK refunds : refunds = paidBack'
    OBVIOUS
  <2>2. refunds \in Seq([of : ReturnId, cents : Nat]) /\ Len(refunds) = Len(paidBack) + 1
    BY <1>1, <2>1
  <2> QED  BY <2>1, <2>2, CentsAreNatural
<1>6. /\ \A n \in 1 .. Len(old) : new[n] = old[n]
      /\ new[Len(new)] = c0
  BY <1>2, <1>3, <1>4, <1>5
<1>7. AllPaidBack' = AllPaidBack + c0
  <2> HIDE DEF old, new
  <2>1. Total(new) = Total(old) + c0
    BY <1>4, <1>5, <1>6, TotalOfOneMore
  <2> QED  BY <2>1 DEF old, new, AllPaidBack
<1>8. AllPaidBack \in Nat
  BY <1>1, PaidBackIsNatural
<1>9. Len(paidBack) + 1 \in PaidFor(r0)' /\ \A r \in ReturnId : PaidFor(r) \subseteq PaidFor(r)'
  BY <1>2, <1>3 DEF PaidFor
<1>10. \A r \in ReturnId \ {r0} : PaidFor(r)' = PaidFor(r)
  BY <1>2, <1>3 DEF PaidFor
<1>11. Paid(r0, c0)'
  BY <1>3, <1>9 DEF Paid
<1>12. \A r \in ReturnId, cents \in Nat : Paid(r, cents) => Paid(r, cents)'
  BY <1>3, <1>9 DEF Paid, PaidFor
<1>13. Grew
  BY <1>7, <1>8, <1>12 DEF Grew
<1> QED  BY <1>2, <1>7, <1>10, <1>11, <1>13

LEMMA WorkStays ==
  ASSUME NEW w \in Work, WorkInv(w), RowsInv, Grew, AllPaidBack' \in Nat
  PROVE  WorkInv(w)'
<1>1. AllPaidBack \in Nat
  BY PaidBackIsNatural DEF RowsInv
<1>2. w.step # "reject" => w.refund \in Nat /\ w.of \in ReturnId
  BY DEF Work
<1>3. w.step \in {"stripe", "book"} => w.row.refunded \in Nat /\ w.refund \in Nat
  BY <1>2 DEF WorkInv, PaymentRow
<1>4. w.step = "stripe" => w.row.refunded <= AllPaidBack'
  BY <1>1, <1>3 DEF WorkInv, Grew
<1>5. w.step = "book" /\ method = "CARD" => w.row.refunded + w.refund <= AllPaidBack'
  BY <1>1, <1>3 DEF WorkInv, Grew
<1> QED  BY <1>2, <1>4, <1>5 DEF WorkInv, Grew

\* A step that writes only one entry of desk.
LEMMA DeskStays ==
  ASSUME RowsInv, DeskInv, Grew, AllPaidBack' \in Nat,
         NEW d \in Desk, NEW w, desk' = [desk EXCEPT ![d] = w], w # Nothing => WorkInv(w)'
  PROVE  DeskInv'
<1> SUFFICES ASSUME NEW e \in Desk, desk'[e] # Nothing
             PROVE  WorkInv(desk[e])'
  BY DEF DeskInv
<1>1. PICK u : u = desk'[e]
  OBVIOUS
<1>2. WorkInv(u)'
  <2>1. CASE e = d
    BY <1>1, <2>1 DEF RowsInv
  <2>2. CASE e # d
    <3>1. u = desk[e] /\ u # Nothing /\ u \in Work
      BY <1>1, <2>2 DEF RowsInv
    <3>2. WorkInv(u)
      BY <3>1 DEF DeskInv
    <3> QED  BY <3>1, <3>2, WorkStays
  <2> QED  BY <2>1, <2>2
<1> QED  BY <1>1, <1>2 DEF WorkInv

\* A step that writes no return.
LEMMA DoneStays ==
  ASSUME RowsInv, DoneInv, Grew, returned' = returned
  PROVE  DoneInv'
<1> SUFFICES ASSUME NEW r \in ReturnId, returned[r] # Nothing, returned[r].status = "COMPLETED"
             PROVE  /\ method' = "CARD" /\ returned[r].refund > 0 => Paid(r, returned[r].refund)'
                    /\ returned[r].restocked => restocks'[r] > 0
  BY DEF DoneInv, Paid
<1>1. PICK cents : cents = returned[r].refund
  OBVIOUS
<1>2. cents \in Nat
  BY <1>1 DEF RowsInv, ReturnRow
<1>3. method' = "CARD" /\ cents > 0 => Paid(r, cents)'
  BY <1>1, <1>2 DEF DoneInv, Grew
<1>4. returned[r].restocked => restocks'[r] > 0
  BY DEF DoneInv, Grew
<1> QED  BY <1>1, <1>3, <1>4 DEF Paid


Paying == {"book", "mirror", "restock", "complete"}

\* A resolution of v.of moves on, or ends while its return stays open.
LEMMA OnceAdvances ==
  ASSUME RowsInv, OnceInv,
         NEW d \in Desk, NEW v \in Work, NEW w \in Work \cup {Nothing}, v = desk[d],
         w # Nothing => w.of = v.of,
         desk' = [desk EXCEPT ![d] = w],
         returned' = returned, contested \subseteq contested',
         \A r \in ReturnId : r # v.of => PaidFor(r)' = PaidFor(r) /\ restocks'[r] = restocks[r],
         v.of \notin contested' =>
           /\ \/ w # Nothing /\ w.step \in Paying
              \/ v.step \notin Paying /\ PaidFor(v.of)' = PaidFor(v.of)
           /\ \/ w # Nothing /\ w.step = "complete"
              \/ v.step # "complete" /\ restocks'[v.of] = restocks[v.of]
  PROVE  OnceInv'
<1>1. v # Nothing /\ v.of \in ReturnId
  BY ReturnsAssumption DEF Work
<1>2. \A e \in Desk : desk'[e] = IF e = d THEN w ELSE desk[e]
  BY DEF RowsInv
<1>3. \A r \in ReturnId : Open(r)' <=> Open(r)
  BY DEF Open
<1>4. ASSUME NEW e \in Desk, desk'[e] # Nothing
      PROVE  returned'[desk'[e].of] # Nothing /\ (desk'[e].of \notin contested' => Open(desk[e].of)')
  <2>1. desk[e] # Nothing /\ desk'[e].of = desk[e].of
    BY <1>1, <1>2, <1>4
  <2> QED  BY <2>1, <1>4 DEF OnceInv, Open
<1>5. ASSUME NEW e \in Desk, NEW o \in Desk, desk'[e] # Nothing, desk'[o] # Nothing,
             desk'[e].of = desk'[o].of, e # o
      PROVE  desk'[e].of \in contested'
  <2>1. desk[e] # Nothing /\ desk'[e].of = desk[e].of /\ desk[o] # Nothing /\ desk'[o].of = desk[o].of
    BY <1>1, <1>2, <1>5
  <2> QED  BY <2>1, <1>5 DEF OnceInv
<1>6. ASSUME NEW r \in ReturnId \ contested', NEW steps,
             ~Reached(r, steps)', r = v.of => v.step \notin steps
      PROVE  ~Reached(r, steps)
  <2> SUFFICES ASSUME NEW e \in Desk, desk[e] # Nothing, desk[e].of = r, desk[e].step \in steps
               PROVE  FALSE
    BY DEF Reached
  <2>1. e # d
    BY <1>6
  <2> QED  BY <1>2, <1>6, <2>1 DEF Reached
<1>7. ASSUME NEW r \in ReturnId \ contested', Open(r)', ~Reached(r, Paying)'
      PROVE  PaidFor(r)' = {}
  <2>1. r = v.of => v.step \notin Paying /\ PaidFor(r)' = PaidFor(r)
    <3>1. r = v.of => ~(w # Nothing /\ w.step \in Paying)
      BY <1>2, <1>7 DEF Reached
    <3> QED  BY <3>1
  <2>2. ~Reached(r, Paying)
    BY <1>6, <1>7, <2>1
  <2>3. PaidFor(r) = {}
    BY <1>3, <1>7, <2>2 DEF OnceInv, Paying
  <2> QED  BY <2>1, <2>3
<1>8. ASSUME NEW r \in ReturnId \ contested', Open(r)', ~Reached(r, {"complete"})'
      PROVE  restocks'[r] = 0
  <2>1. r = v.of => v.step # "complete" /\ restocks'[r] = restocks[r]
    <3>1. r = v.of => ~(w # Nothing /\ w.step = "complete")
      BY <1>2, <1>8 DEF Reached
    <3> QED  BY <3>1
  <2>2. ~Reached(r, {"complete"})
    BY <1>6, <1>8, <2>1
  <2>3. restocks[r] = 0
    BY <1>3, <1>8, <2>2 DEF OnceInv
  <2> QED  BY <2>1, <2>3
<1> QED  BY <1>4, <1>5, <1>7, <1>8 DEF OnceInv, Paying, Open

\* A resolution closes its return, or finds it closed.
LEMMA OnceCloses ==
  ASSUME RowsInv, OnceInv, UNCHANGED <<paidBack, restocks, contested>>,
         NEW d \in Desk, NEW v \in Work, v = desk[d],
         desk' = [desk EXCEPT ![d] = Nothing],
         returned' \in [ReturnId -> ReturnRow \cup {Nothing}],
         \A r \in ReturnId \ {v.of} : returned'[r] = returned[r],
         returned'[v.of] # Nothing, returned'[v.of].status # "REQUESTED"
  PROVE  OnceInv'
<1>1. v # Nothing /\ v.of \in ReturnId
  BY ReturnsAssumption DEF Work
<1>2. \A e \in Desk : desk'[e] = IF e = d THEN Nothing ELSE desk[e]
  BY DEF RowsInv
<1>3. ~Open(v.of)' /\ \A r \in ReturnId \ {v.of} : Open(r)' <=> Open(r)
  BY DEF Open
<1>4. ASSUME NEW e \in Desk, desk'[e] # Nothing
      PROVE  returned'[desk'[e].of] # Nothing /\ (desk'[e].of \notin contested' => Open(desk[e].of)')
  <2>1. e # d /\ desk[e] # Nothing /\ desk'[e] = desk[e]
    BY <1>2, <1>4
  <2>2. desk[e].of \in ReturnId
    BY <2>1 DEF RowsInv, Work
  <2>3. CASE desk[e].of = v.of
    <3>1. desk[e].of \in contested
      BY <1>1, <2>1, <2>3 DEF OnceInv
    <3> QED  BY <2>1, <2>3, <3>1
  <2>4. CASE desk[e].of # v.of
    BY <1>3, <2>1, <2>2, <2>4 DEF OnceInv, Open
  <2> QED  BY <2>3, <2>4
<1>5. ASSUME NEW e \in Desk, NEW o \in Desk, desk'[e] # Nothing, desk'[o] # Nothing,
             desk'[e].of = desk'[o].of, e # o
      PROVE  desk'[e].of \in contested'
  <2>1. desk[e] # Nothing /\ desk'[e] = desk[e] /\ desk[o] # Nothing /\ desk'[o] = desk[o]
    BY <1>2, <1>5
  <2> QED  BY <2>1, <1>5 DEF OnceInv
<1>6. ASSUME NEW r \in ReturnId, r # v.of, NEW steps
      PROVE  Reached(r, steps)' <=> Reached(r, steps)
  BY <1>2, <1>6 DEF Reached
<1>7. \A r \in ReturnId : PaidFor(r)' = PaidFor(r)
  BY DEF PaidFor
<1>8. ASSUME NEW r \in ReturnId \ contested', Open(r)'
      PROVE  /\ ~Reached(r, {"book", "mirror", "restock", "complete"})' => PaidFor(r)' = {}
             /\ ~Reached(r, {"complete"})' => restocks'[r] = 0
  <2>1. r # v.of /\ Open(r)
    BY <1>3, <1>8
  <2> QED  BY <1>6, <1>7, <2>1 DEF OnceInv
<1> QED  BY <1>4, <1>5, <1>8 DEF OnceInv, Open


-----------------------------------------------------------------------------
(***************************************************************************)
(* Every step keeps the invariant.                                         *)
(***************************************************************************)

LEMMA InitHolds ==
  ASSUME ReturnInit
  PROVE  ReturnsInv
<1>1. paidBack = << >> /\ \A r : PaidFor(r) = {}
  BY DEF ReturnInit, PaidFor
<1>2. AllPaidBack = 0
  <2>1. PICK cents : cents = [i \in DOMAIN paidBack |-> paidBack[i].cents]
    OBVIOUS
  <2>2. cents = << >>
    BY <1>1, <2>1
  <2> QED  BY <2>1, <2>2, TotalOfNothing DEF AllPaidBack
<1>3. RowsInv
  BY DEF RowsInv, ReturnInit, PaymentRow
<1>4. LinesInv
  BY DEF LinesInv, ReturnInit
<1>5. MoneyInv
  BY <1>2, ReturnsAssumption DEF MoneyInv, ReturnInit
<1>6. DeskInv /\ DoneInv
  BY DEF DeskInv, DoneInv, ReturnInit
<1>7. OnceInv
  BY <1>1 DEF OnceInv, ReturnInit
<1> QED  BY <1>3, <1>4, <1>5, <1>6, <1>7 DEF ReturnsInv

\* The suggested refund is a number of cents.
LEMMA SuggestedIsNatural ==
  ASSUME NEW items \in Seq(InputLine)
  PROVE  Suggested(items) \in Nat
<1>1. PICK n \in Nat : n = Len(items) /\ DOMAIN items = 1 .. n
  OBVIOUS
<1>2. PICK cents : cents = [i \in 1 .. n |-> LineValue(items[i])]
  OBVIOUS
<1>3. ASSUME NEW i \in 1 .. n
      PROVE  LineValue(items[i]) \in Nat
  <2>1. items[i] \in InputLine
    BY <1>1, SequenceEntry
  <2>2. items[i].units \in Nat /\ items[i].sku \in DOMAIN Ordered
    BY <2>1 DEF InputLine
  <2>3. Ordered[items[i].sku].price \in Nat
    BY <2>2, ReturnsAssumption
  <2>4. \A x, y \in Nat : x * y \in Nat
    OBVIOUS
  <2> QED  BY <2>2, <2>3, <2>4 DEF LineValue
<1>4. cents \in [1 .. n -> Nat]
  BY <1>2, <1>3
<1>5. cents \in Seq(Nat)
  BY <1>4
<1> QED  BY <1>1, <1>2, <1>5, TotalIsNatural DEF Suggested

LEMMA RequestKeeps ==
  ASSUME ReturnsInv, NEW r0 \in ReturnId, NEW items \in Seq(InputLine), RequestReturn(r0, items)
  PROVE  ReturnsInv'
<1> USE DEF ReturnsInv
<1>1. PICK row : row = [status |-> "REQUESTED", items |-> items, refund |-> Suggested(items),
                        restocked |-> FALSE]
  OBVIOUS
<1>2. row \in ReturnRow /\ row.status = "REQUESTED" /\ row.items = items /\ row # Nothing
  <2>1. PICK refund \in Nat : refund = Suggested(items)
    BY SuggestedIsNatural
  <2>2. row = [status |-> "REQUESTED", items |-> items, refund |-> refund, restocked |-> FALSE]
    BY <1>1, <2>1
  <2>3. row \in ReturnRow
    BY <2>1, <2>2 DEF ReturnRow
  <2>4. row # Nothing
    BY <2>3, ReturnsAssumption
  <2> QED  BY <2>2, <2>3, <2>4
<1>3. returned' = [returned EXCEPT ![r0] = row] /\ returned[r0] = Nothing
  BY <1>1 DEF RequestReturn
<1>4. \A r \in ReturnId : returned'[r] = IF r = r0 THEN row ELSE returned[r]
  BY <1>3 DEF RowsInv
<1>5. UNCHANGED <<method, mirror, payment, paidBack, restocks, desk, contested>>
  BY DEF RequestReturn
<1>6. Grew /\ AllPaidBack' = AllPaidBack /\ \A r : PaidFor(r)' = PaidFor(r)
  BY <1>5, NothingMoved
<1>7. RowsInv'
  BY <1>2, <1>3, <1>5 DEF RowsInv
<1>8. LinesInv'
  <2>1. \A i \in DOMAIN items : Returnable(items[i])
    BY DEF RequestReturn
  <2> QED  BY <1>2, <1>4, <2>1 DEF LinesInv
<1>9. MoneyInv'
  BY <1>5, <1>6 DEF MoneyInv
<1>10. DeskInv'
  BY <1>5, <1>6 DEF DeskInv, WorkInv, Paid
<1>11. DoneInv'
  BY <1>2, <1>4, <1>5, <1>6 DEF DoneInv, Paid
<1>12. OnceInv'
  <2>1. \A e \in Desk : desk[e] # Nothing => desk[e].of # r0 /\ desk[e].of \in ReturnId
    BY <1>3 DEF OnceInv, RowsInv, Work
  <2>2. \A r \in ReturnId : Open(r)' <=> Open(r)
    BY <1>2, <1>3, <1>4 DEF Open
  <2>3. \A r, steps : Reached(r, steps)' <=> Reached(r, steps)
    BY <1>5 DEF Reached
  <2>4. \A e \in Desk : desk[e] # Nothing => returned'[desk[e].of] = returned[desk[e].of]
    BY <1>4, <2>1
  <2> QED  BY <1>5, <1>6, <2>1, <2>2, <2>3, <2>4 DEF OnceInv, Open
<1> QED  BY <1>7, <1>8, <1>9, <1>10, <1>11, <1>12

LEMMA ResolveKeeps ==
  ASSUME ReturnsInv, NEW d \in Desk, NEW r0 \in ReturnId, NEW body \in Resolution, Resolve(d, r0, body)
  PROVE  ReturnsInv'
<1> USE DEF ReturnsInv
<1>1. PICK refund : refund = RefundOf(r0, body)
  OBVIOUS
<1>2. PICK w : w = IF body.approve
                     THEN [step |-> IF PaysBack(refund) THEN "ask" ELSE "restock",
                           of |-> r0, refund |-> refund, restock |-> body.restock,
                           row |-> Nothing, restocked |-> FALSE]
                     ELSE [step |-> "reject", of |-> r0]
  OBVIOUS
<1>3. /\ desk[d] = Nothing
      /\ returned[r0] # Nothing /\ returned[r0].status = "REQUESTED"
      /\ desk' = [desk EXCEPT ![d] = w]
      /\ contested' = IF \E e \in Desk : desk[e] # Nothing /\ desk[e].of = r0
                        THEN contested \cup {r0} ELSE contested
      /\ UNCHANGED <<returned, method, mirror, payment, paidBack, restocks>>
  BY <1>1, <1>2 DEF Resolve, ResolveAlways
<1>4. Grew /\ AllPaidBack' = AllPaidBack /\ \A r : PaidFor(r)' = PaidFor(r)
  BY <1>3, NothingMoved
<1>5. AllPaidBack' \in Nat
  BY <1>4, PaidBackIsNatural DEF RowsInv
<1>6. w \in Work /\ WorkInv(w)' /\ w.of = r0 /\ w.step \in {"ask", "restock", "reject"}
  <2>1. CASE body.approve
    <3>1. body.restock \in BOOLEAN /\ body.refund \in Refunds \cup {Nothing}
      BY <2>1 DEF Resolution
    <3>2. refund \in Nat
      BY <1>1, <1>3, <3>1, ReturnsAssumption DEF RefundOf, RowsInv, ReturnRow
    <3>3. PICK step : step = IF PaysBack(refund) THEN "ask" ELSE "restock"
      OBVIOUS
    <3>4. w = [step |-> step, of |-> r0, refund |-> refund, restock |-> body.restock,
               row |-> Nothing, restocked |-> FALSE]
      BY <1>2, <2>1, <3>3
    <3>5. step \in {"ask", "restock"}
      BY <3>3
    <3>6. w \in Work
      BY <3>1, <3>2, <3>4, <3>5 DEF Work
    <3>7. step = "ask" => method # Nothing /\ refund > 0
      BY <3>3 DEF PaysBack
    <3>8. step = "restock" => ~(method = "CARD" /\ refund > 0)
      BY <3>3, ReturnsAssumption DEF PaysBack
    <3> QED  BY <1>3, <3>4, <3>5, <3>6, <3>7, <3>8 DEF WorkInv
  <2>2. CASE ~body.approve
    BY <1>2, <2>2 DEF Work, WorkInv
  <2> QED  BY <2>1, <2>2
<1>7. w # Nothing
  BY <1>6, ReturnsAssumption
<1>8. RowsInv'
  BY <1>3, <1>6 DEF RowsInv
<1>9. LinesInv'
  BY <1>3 DEF LinesInv
<1>10. MoneyInv'
  BY <1>3, <1>4 DEF MoneyInv
<1>11. DeskInv'
  BY <1>3, <1>4, <1>5, <1>6, DeskStays
<1>12. DoneInv'
  BY <1>3, <1>4, DoneStays
<1>13. OnceInv'
  <2>1. \A e \in Desk : desk'[e] = IF e = d THEN w ELSE desk[e]
    BY <1>3 DEF RowsInv
  <2>2. \A e \in Desk : desk[e] # Nothing /\ desk[e].of = r0 => r0 \in contested'
    BY <1>3
  <2>3. contested \subseteq contested'
    BY <1>3
  <2>4. \A r : Open(r)' <=> Open(r)
    BY <1>3 DEF Open
  <2>5. \A r, steps : Reached(r, steps) => Reached(r, steps)'
    BY <1>3, <2>1 DEF Reached
  <2>6. \A e \in Desk : desk'[e] # Nothing => returned'[desk'[e].of] # Nothing
    BY <1>3, <1>6, <2>1 DEF OnceInv
  <2>7. ASSUME NEW e \in Desk, desk'[e] # Nothing, desk'[e].of \notin contested'
        PROVE  Open(desk[e].of)'
    BY <1>3, <1>6, <2>1, <2>3, <2>7 DEF OnceInv, Open
  <2>8. ASSUME NEW e \in Desk, NEW o \in Desk, desk'[e] # Nothing, desk'[o] # Nothing,
               desk'[e].of = desk'[o].of, e # o
        PROVE  desk'[e].of \in contested'
    <3>1. CASE e = d
      BY <1>3, <1>6, <2>1, <2>2, <2>8, <3>1
    <3>2. CASE o = d
      BY <1>3, <1>6, <2>1, <2>2, <2>8, <3>2
    <3>3. CASE e # d /\ o # d
      BY <2>1, <2>3, <2>8, <3>3 DEF OnceInv
    <3> QED  BY <3>1, <3>2, <3>3
  <2> QED  BY <1>3, <1>4, <2>3, <2>4, <2>5, <2>6, <2>7, <2>8 DEF OnceInv
<1> QED  BY <1>8, <1>9, <1>10, <1>11, <1>12, <1>13


\* A resolution asks payment-service for the refund.
LEMMA AskKeeps ==
  ASSUME ReturnsInv, NEW d \in Desk, AskRefund(d)
  PROVE  ReturnsInv'
<1> USE DEF ReturnsInv
<1>1. PICK v : v = desk[d]
  OBVIOUS
<1>2. v \in Work /\ v # Nothing /\ v.step = "ask" /\ WorkInv(v)
  BY <1>1 DEF AskRefund, Resolving, RowsInv, DeskInv
<1>3. v.refund \in Nat /\ v.of \in ReturnId /\ v.restock \in BOOLEAN /\ ~v.restocked /\ v.refund > 0
      /\ method # Nothing
  BY <1>2 DEF Work, WorkInv
<1>4. UNCHANGED <<returned, method, mirror, payment, paidBack, restocks, contested>>
  BY DEF AskRefund
<1>5. Grew /\ AllPaidBack' = AllPaidBack /\ \A r : PaidFor(r)' = PaidFor(r)
  BY <1>4, NothingMoved
<1>6. AllPaidBack' \in Nat
  BY <1>5, PaidBackIsNatural DEF RowsInv
<1>7. PICK w \in Work \cup {Nothing} :
        /\ desk' = [desk EXCEPT ![d] = w]
        /\ w # Nothing => w.of = v.of /\ WorkInv(w)'
  <2>1. CASE payment.status = "CAPTURED" /\ v.refund <= Captured - payment.refunded
    <3>1. PICK step : step = IF method = "CARD" THEN "stripe" ELSE "book"
      OBVIOUS
    <3>2. PICK u : u = [v EXCEPT !.step = step, !.row = payment]
      OBVIOUS
    <3>3. /\ u.step = step /\ u.of = v.of /\ u.refund = v.refund /\ u.restock = v.restock
          /\ u.row = payment /\ u.restocked = v.restocked
      BY <1>2, <3>2 DEF Work
    <3>5. desk' = [desk EXCEPT ![d] = u]
      BY <1>1, <2>1, <3>1, <3>2 DEF AskRefund
    <3>6. payment \in PaymentRow /\ payment.refunded \in Nat /\ Captured \in Nat
      BY ReturnsAssumption DEF RowsInv, PaymentRow
    <3>7. step \in {"stripe", "book"}
      BY <3>1
    <3>8. u \in Work
      BY <1>2, <3>2, <3>6, <3>7 DEF Work
    <3>9. payment.refunded + v.refund <= Captured
      BY <1>3, <2>1, <3>6
    <3>10. step = "stripe" => method = "CARD" /\ payment.refunded <= AllPaidBack
      BY <3>1 DEF MoneyInv
    <3>11. step = "book" => method # "CARD"
      BY <3>1
    <3>12. WorkInv(u)'
      BY <1>3, <1>4, <1>5, <3>3, <3>6, <3>7, <3>9, <3>10, <3>11 DEF WorkInv
    <3> QED  BY <3>3, <3>5, <3>8, <3>12
  <2>2. CASE ~(payment.status = "CAPTURED" /\ v.refund <= Captured - payment.refunded)
    BY <1>1, <2>2 DEF AskRefund, Idle
  <2> QED  BY <2>1, <2>2
<1>8. RowsInv'
  BY <1>4, <1>7 DEF RowsInv
<1>9. LinesInv' /\ MoneyInv'
  BY <1>4, <1>5 DEF LinesInv, MoneyInv
<1>10. DeskInv'
  BY <1>5, <1>6, <1>7, DeskStays
<1>11. DoneInv'
  BY <1>4, <1>5, DoneStays
<1>12. OnceInv'
  <2>1. v.step \notin Paying /\ v.step # "complete"
    BY <1>2 DEF Paying
  <2> QED  BY <1>1, <1>2, <1>4, <1>5, <1>7, <2>1, OnceAdvances
<1> QED  BY <1>8, <1>9, <1>10, <1>11, <1>12

LEMMA StripeKeeps ==
  ASSUME ReturnsInv, NEW d \in Desk, StripeRefund(d)
  PROVE  ReturnsInv'
<1> USE DEF ReturnsInv
<1>1. PICK v : v = desk[d]
  OBVIOUS
<1>2. v \in Work /\ v # Nothing /\ v.step = "stripe" /\ WorkInv(v)
  BY <1>1 DEF StripeRefund, Resolving, RowsInv, DeskInv
<1>3. v.refund \in Nat /\ v.of \in ReturnId /\ v.restock \in BOOLEAN /\ ~v.restocked /\ v.refund > 0
      /\ method # Nothing
  BY <1>2 DEF Work, WorkInv
<1>4. UNCHANGED <<returned, method, mirror, payment, restocks, contested>>
  BY DEF StripeRefund
<1>5. AllPaidBack \in Nat
  BY PaidBackIsNatural DEF RowsInv
<1>6. v.step \notin Paying /\ v.step # "complete"
  BY <1>2 DEF Paying
<1>7. CASE AllPaidBack + v.refund <= Captured
  <2>1. paidBack' = Append(paidBack, [of |-> v.of, cents |-> v.refund])
    BY <1>1, <1>7 DEF StripeRefund
  <2>2. /\ Grew
        /\ AllPaidBack' = AllPaidBack + v.refund
        /\ Paid(v.of, v.refund)'
        /\ \A r \in ReturnId \ {v.of} : PaidFor(r)' = PaidFor(r)
        /\ paidBack' \in Seq([of : ReturnId, cents : Nat])
    <3>1. PICK r0 \in ReturnId : r0 = v.of
      BY <1>3
    <3>2. PICK c0 \in Nat : c0 = v.refund
      BY <1>3
    <3>3. paidBack' = Append(paidBack, [of |-> r0, cents |-> c0])
      BY <2>1, <3>1, <3>2
    <3>4. /\ Grew
          /\ AllPaidBack' = AllPaidBack + c0
          /\ Paid(r0, c0)'
          /\ \A r \in ReturnId \ {r0} : PaidFor(r)' = PaidFor(r)
          /\ paidBack' \in Seq([of : ReturnId, cents : Nat])
      BY <1>4, <3>1, <3>2, <3>3, OneMoreRefund
    <3> QED  BY <3>1, <3>2, <3>4
  <2>3. PICK w : w = [v EXCEPT !.step = "book"]
    OBVIOUS
  <2>4. /\ w.step = "book" /\ w.of = v.of /\ w.refund = v.refund /\ w.restock = v.restock
        /\ w.row = v.row /\ w.restocked = v.restocked
    BY <1>2, <2>3 DEF Work
  <2>6. desk' = [desk EXCEPT ![d] = w]
    BY <1>1, <1>7, <2>3 DEF StripeRefund
  <2>7. /\ v.row \in PaymentRow /\ v.row.refunded \in Nat
        /\ v.row.refunded + v.refund <= Captured /\ v.row.refunded <= AllPaidBack
    BY <1>2 DEF WorkInv, PaymentRow
  <2>8. w \in Work
    BY <1>2, <2>3 DEF Work
  <2>9. v.row.refunded + v.refund <= AllPaidBack'
    BY <1>3, <1>5, <2>2, <2>7
  <2>10. WorkInv(w)'
    BY <1>3, <1>4, <2>2, <2>4, <2>7, <2>9 DEF WorkInv
  <2>11. AllPaidBack' \in Nat /\ AllPaidBack' <= Captured
    BY <1>3, <1>5, <1>7, <2>2
  <2>12. RowsInv'
    BY <1>4, <2>2, <2>6, <2>8 DEF RowsInv
  <2>13. LinesInv'
    BY <1>4 DEF LinesInv
  <2>14. MoneyInv'
    <3>1. payment.refunded \in Nat
      BY DEF RowsInv, PaymentRow
    <3>2. method' = "CARD" => payment'.refunded <= AllPaidBack'
      BY <1>3, <1>4, <1>5, <2>2, <3>1 DEF MoneyInv
    <3> QED  BY <1>4, <2>11, <3>2 DEF MoneyInv
  <2>15. DeskInv'
    BY <2>2, <2>6, <2>10, <2>11, DeskStays
  <2>16. DoneInv'
    BY <1>4, <2>2, DoneStays
  <2>17. OnceInv'
    <3>1. w.of = v.of /\ w.step \in Paying /\ w # Nothing
      BY <2>4, <2>8, ReturnsAssumption DEF Paying
    <3>2. \A r \in ReturnId : r # v.of => PaidFor(r)' = PaidFor(r) /\ restocks'[r] = restocks[r]
      BY <1>4, <2>2
    <3>3. v.of \notin contested' =>
            /\ \/ w # Nothing /\ w.step \in Paying
               \/ v.step \notin Paying /\ PaidFor(v.of)' = PaidFor(v.of)
            /\ \/ w # Nothing /\ w.step = "complete"
               \/ v.step # "complete" /\ restocks'[v.of] = restocks[v.of]
      BY <1>4, <1>6, <3>1
    <3>4. w # Nothing => w.of = v.of
      BY <3>1
    <3>5. returned' = returned /\ contested \subseteq contested' /\ RowsInv /\ OnceInv
      BY <1>4
    <3> HIDE DEF ReturnsInv
    <3> QED  BY <1>1, <1>2, <2>6, <2>8, <3>2, <3>3, <3>4, <3>5, OnceAdvances
  <2> QED  BY <2>12, <2>13, <2>14, <2>15, <2>16, <2>17
<1>8. CASE ~(AllPaidBack + v.refund <= Captured)
  <2>1. desk' = [desk EXCEPT ![d] = Nothing] /\ paidBack' = paidBack
    BY <1>1, <1>8 DEF StripeRefund, Idle
  <2>2. Grew /\ AllPaidBack' = AllPaidBack /\ \A r : PaidFor(r)' = PaidFor(r)
    BY <1>4, <2>1, NothingMoved
  <2>3. RowsInv'
    BY <1>4, <2>1 DEF RowsInv
  <2>4. LinesInv' /\ MoneyInv'
    BY <1>4, <2>2 DEF LinesInv, MoneyInv
  <2>5. DeskInv'
    BY <1>5, <2>1, <2>2, DeskStays
  <2>6. DoneInv'
    BY <1>4, <2>2, DoneStays
  <2>7. OnceInv'
    BY <1>1, <1>2, <1>4, <1>6, <2>1, <2>2, OnceAdvances
  <2> QED  BY <2>3, <2>4, <2>5, <2>6, <2>7
<1> QED  BY <1>7, <1>8

LEMMA BookKeeps ==
  ASSUME ReturnsInv, NEW d \in Desk, BookRefund(d)
  PROVE  ReturnsInv'
<1> USE DEF ReturnsInv
<1>1. PICK v : v = desk[d]
  OBVIOUS
<1>2. v \in Work /\ v # Nothing /\ v.step = "book" /\ WorkInv(v)
  BY <1>1 DEF BookRefund, Resolving, RowsInv, DeskInv
<1>3. v.refund \in Nat /\ v.of \in ReturnId /\ v.restock \in BOOLEAN /\ ~v.restocked /\ v.refund > 0
      /\ method # Nothing
  BY <1>2 DEF Work, WorkInv
<1>4. UNCHANGED <<returned, method, mirror, paidBack, restocks, contested>>
  BY DEF BookRefund
<1>5. AllPaidBack \in Nat /\ AllPaidBack' = AllPaidBack /\ \A r : PaidFor(r)' = PaidFor(r)
  BY <1>4, PaidBackIsNatural DEF RowsInv, AllPaidBack, PaidFor
<1>6. v.row.refunded \in Nat /\ v.row.refunded + v.refund <= Captured
      /\ (method = "CARD" => v.row.refunded + v.refund <= AllPaidBack)
  BY <1>2 DEF WorkInv, PaymentRow
<1>7. PICK sum : sum = v.row.refunded + v.refund
  OBVIOUS
<1>8. payment' = [status |-> IF sum >= Captured THEN "REFUNDED" ELSE "CAPTURED", refunded |-> sum]
  BY <1>1, <1>7 DEF BookRefund
<1>9. sum \in Nat /\ sum > 0 /\ sum <= Captured
  BY <1>3, <1>6, <1>7
<1>10. payment' \in PaymentRow /\ payment'.refunded = sum
  BY <1>8, <1>9 DEF PaymentRow
<1>11. Grew
  BY <1>4, <1>5, <1>9, <1>10 DEF Grew, Paid
<1>12. PICK w : w = [v EXCEPT !.step = "mirror", !.row = Nothing]
  OBVIOUS
<1>13. /\ w.step = "mirror" /\ w.of = v.of /\ w.refund = v.refund /\ w.restock = v.restock
       /\ w.row = Nothing /\ w.restocked = v.restocked
  BY <1>2, <1>12 DEF Work
<1>15. desk' = [desk EXCEPT ![d] = w]
  BY <1>1, <1>12 DEF BookRefund
<1>16. w \in Work
  BY <1>2, <1>12 DEF Work
<1>17. method = "CARD" => Paid(v.of, v.refund)'
  BY <1>2, <1>3, <1>4, <1>5 DEF WorkInv, Paid
<1>18. WorkInv(w)'
  BY <1>3, <1>4, <1>9, <1>10, <1>13, <1>17 DEF WorkInv
<1>19. RowsInv'
  BY <1>4, <1>10, <1>15, <1>16 DEF RowsInv
<1>20. LinesInv'
  BY <1>4 DEF LinesInv
<1>21. MoneyInv'
  BY <1>4, <1>5, <1>6, <1>7, <1>9, <1>10 DEF MoneyInv
<1>22. DeskInv'
  BY <1>5, <1>11, <1>15, <1>18, DeskStays
<1>23. DoneInv'
  BY <1>4, <1>11, DoneStays
<1>24. OnceInv'
  <2>1. w.of = v.of /\ w.step \in Paying /\ w # Nothing /\ v.step # "complete"
    BY <1>2, <1>13, <1>16, ReturnsAssumption DEF Paying
  <2> QED  BY <1>1, <1>2, <1>4, <1>5, <1>15, <1>16, <2>1, OnceAdvances
<1> QED  BY <1>19, <1>20, <1>21, <1>22, <1>23, <1>24


LEMMA MirrorKeeps ==
  ASSUME ReturnsInv, NEW d \in Desk, MirrorRefund(d)
  PROVE  ReturnsInv'
<1> USE DEF ReturnsInv
<1>1. PICK v : v = desk[d]
  OBVIOUS
<1>2. v \in Work /\ v # Nothing /\ v.step = "mirror" /\ WorkInv(v)
  BY <1>1 DEF MirrorRefund, Resolving, RowsInv, DeskInv
<1>3. v.refund \in Nat /\ v.of \in ReturnId /\ ~v.restocked /\ payment.refunded > 0
  BY <1>2 DEF Work, WorkInv
<1>4. UNCHANGED <<returned, method, payment, paidBack, restocks, contested>>
  BY DEF MirrorRefund
<1>5. Grew /\ AllPaidBack' = AllPaidBack /\ \A r : PaidFor(r)' = PaidFor(r)
  BY <1>4, NothingMoved
<1>6. AllPaidBack' \in Nat
  BY <1>5, PaidBackIsNatural DEF RowsInv
<1>7. PICK w : w = [v EXCEPT !.step = "restock"]
  OBVIOUS
<1>8. w.step = "restock" /\ w.of = v.of /\ w.refund = v.refund /\ w.restocked = v.restocked
  BY <1>2, <1>7 DEF Work
<1>9. w \in Work
  BY <1>2, <1>7 DEF Work
<1>10. desk' = [desk EXCEPT ![d] = w]
  BY <1>1, <1>7 DEF MirrorRefund
<1>11. WorkInv(w)'
  <2>1. method' = "CARD" /\ v.refund > 0 => Paid(v.of, v.refund)'
    BY <1>2, <1>3, <1>4, <1>5 DEF WorkInv, Grew
  <2> QED  BY <1>3, <1>8, <2>1 DEF WorkInv
<1>12. RowsInv'
  BY <1>4, <1>9, <1>10 DEF RowsInv, MirrorRefund
<1>13. LinesInv'
  BY <1>4 DEF LinesInv
<1>14. MoneyInv'
  BY <1>3, <1>4, <1>5 DEF MoneyInv
<1>15. DeskInv'
  BY <1>5, <1>6, <1>10, <1>11, DeskStays
<1>16. DoneInv'
  BY <1>4, <1>5, DoneStays
<1>17. OnceInv'
  <2>1. w.of = v.of /\ w.step \in Paying /\ w # Nothing /\ v.step # "complete"
    BY <1>2, <1>8, <1>9, ReturnsAssumption DEF Paying
  <2> QED  BY <1>1, <1>2, <1>4, <1>5, <1>9, <1>10, <2>1, OnceAdvances
<1> QED  BY <1>12, <1>13, <1>14, <1>15, <1>16, <1>17

LEMMA RestockKeeps ==
  ASSUME ReturnsInv, NEW d \in Desk, RestockReturn(d)
  PROVE  ReturnsInv'
<1> USE DEF ReturnsInv
<1>1. PICK v : v = desk[d]
  OBVIOUS
<1>2. v \in Work /\ v # Nothing /\ v.step = "restock" /\ WorkInv(v)
  BY <1>1 DEF RestockReturn, Resolving, RowsInv, DeskInv
<1>3. v.refund \in Nat /\ v.of \in ReturnId /\ v.restocked \in BOOLEAN /\ ~v.restocked
  BY <1>2 DEF Work, WorkInv
<1>4. UNCHANGED <<returned, method, mirror, payment, paidBack, contested>>
  BY DEF RestockReturn
<1>5. AllPaidBack' = AllPaidBack /\ AllPaidBack \in Nat /\ \A r : PaidFor(r)' = PaidFor(r)
  BY <1>4, PaidBackIsNatural DEF AllPaidBack, PaidFor, RowsInv
<1>6. PICK answered \in BOOLEAN :
        /\ desk' = [desk EXCEPT ![d] = [v EXCEPT !.step = "complete", !.restocked = answered]]
        /\ \/ restocks' = [restocks EXCEPT ![v.of] = @ + 1]
           \/ restocks' = restocks /\ ~answered
  <2>1. CASE \E answered \in BOOLEAN :
               /\ desk' = [desk EXCEPT ![d].step = "complete", ![d].restocked = answered]
               /\ restocks' = [restocks EXCEPT ![desk[d].of] = @ + 1]
    BY <1>1, <2>1
  <2>2. CASE desk' = [desk EXCEPT ![d].step = "complete"] /\ restocks' = restocks
    <3>1. [v EXCEPT !.step = "complete", !.restocked = FALSE] = [v EXCEPT !.step = "complete"]
      BY <1>2, <1>3 DEF Work
    <3> QED  BY <1>1, <2>2, <3>1
  <2> QED  BY <2>1, <2>2 DEF RestockReturn
<1>7. PICK w : w = [v EXCEPT !.step = "complete", !.restocked = answered]
  OBVIOUS
<1>8. w.step = "complete" /\ w.of = v.of /\ w.refund = v.refund /\ w.restocked = answered
  BY <1>2, <1>7 DEF Work
<1>9. w \in Work
  BY <1>2, <1>7 DEF Work
<1>10. desk' = [desk EXCEPT ![d] = w]
  BY <1>6, <1>7
<1>11. /\ restocks' \in [ReturnId -> Nat]
       /\ \A r \in ReturnId : restocks[r] <= restocks'[r] /\ (r # v.of => restocks'[r] = restocks[r])
       /\ answered => restocks'[v.of] > 0
  <2>1. restocks \in [ReturnId -> Nat]
    BY DEF RowsInv
  <2> QED  BY <1>3, <1>6, <2>1
<1>12. Grew
  <2>1. restocks \in [ReturnId -> Nat]
    BY DEF RowsInv
  <2> QED  BY <1>4, <1>5, <1>11, <2>1 DEF Grew, Paid
<1>13. WorkInv(w)'
  <2>1. method' = "CARD" /\ v.refund > 0 => Paid(v.of, v.refund)'
    BY <1>2, <1>3, <1>4, <1>12 DEF WorkInv, Grew
  <2> QED  BY <1>8, <1>11, <2>1 DEF WorkInv
<1>14. RowsInv'
  BY <1>4, <1>9, <1>10, <1>11 DEF RowsInv
<1>15. LinesInv' /\ MoneyInv'
  BY <1>4, <1>5 DEF LinesInv, MoneyInv
<1>16. DeskInv'
  BY <1>5, <1>10, <1>12, <1>13, DeskStays
<1>17. DoneInv'
  BY <1>4, <1>12, DoneStays
<1>18. OnceInv'
  <2>1. w.of = v.of /\ w.step \in Paying /\ w.step = "complete" /\ w # Nothing
    BY <1>8, <1>9, ReturnsAssumption DEF Paying
  <2>2. \A r \in ReturnId : r # v.of => PaidFor(r)' = PaidFor(r) /\ restocks'[r] = restocks[r]
    BY <1>5, <1>11
  <2>3. v.of \notin contested' =>
          /\ \/ w # Nothing /\ w.step \in Paying
             \/ v.step \notin Paying /\ PaidFor(v.of)' = PaidFor(v.of)
          /\ \/ w # Nothing /\ w.step = "complete"
             \/ v.step # "complete" /\ restocks'[v.of] = restocks[v.of]
    BY <2>1
  <2>4. w # Nothing => w.of = v.of
    BY <2>1
  <2>5. returned' = returned /\ contested \subseteq contested' /\ RowsInv /\ OnceInv
    BY <1>4
  <2> HIDE DEF ReturnsInv
  <2> QED  BY <1>1, <1>2, <1>9, <1>10, <2>2, <2>3, <2>4, <2>5, OnceAdvances
<1> QED  BY <1>14, <1>15, <1>16, <1>17, <1>18

LEMMA StopKeeps ==
  ASSUME ReturnsInv, NEW d \in Desk, ResolveStops(d)
  PROVE  ReturnsInv'
<1> USE DEF ReturnsInv
<1>1. PICK v : v = desk[d]
  OBVIOUS
<1>2. v \in Work /\ v # Nothing
  BY <1>1 DEF ResolveStops, RowsInv
<1>3. UNCHANGED <<returned, method, mirror, payment, paidBack, restocks>>
      /\ contested' = contested \cup {v.of} /\ desk' = [desk EXCEPT ![d] = Nothing]
  BY <1>1 DEF ResolveStops, Idle
<1>4. Grew /\ AllPaidBack' = AllPaidBack /\ \A r : PaidFor(r)' = PaidFor(r)
  BY <1>3, NothingMoved
<1>5. AllPaidBack' \in Nat
  BY <1>4, PaidBackIsNatural DEF RowsInv
<1>6. RowsInv'
  BY <1>3 DEF RowsInv
<1>7. LinesInv' /\ MoneyInv'
  BY <1>3, <1>4 DEF LinesInv, MoneyInv
<1>8. DeskInv'
  BY <1>3, <1>4, <1>5, DeskStays
<1>9. DoneInv'
  BY <1>3, <1>4, DoneStays
<1>10. OnceInv'
  <2>1. v.of \in contested' /\ contested \subseteq contested'
    BY <1>3
  <2> QED  BY <1>1, <1>2, <1>3, <1>4, <2>1, OnceAdvances
<1> QED  BY <1>6, <1>7, <1>8, <1>9, <1>10

\* Completing and rejecting write the same row.
LEMMA CloseKeeps ==
  ASSUME ReturnsInv, NEW d \in Desk, NEW v \in Work, v = desk[d],
         UNCHANGED <<method, mirror, payment, paidBack, restocks, contested>>,
         desk' = [desk EXCEPT ![d] = Nothing],
         NEW row \in ReturnRow, row.items = returned[v.of].items, row.status # "REQUESTED",
         row.status = "COMPLETED" =>
           /\ method = "CARD" /\ row.refund > 0 => Paid(v.of, row.refund)
           /\ row.restocked => restocks[v.of] > 0,
         returned' = IF Requested(v.of) THEN [returned EXCEPT ![v.of] = row] ELSE returned
  PROVE  ReturnsInv'
<1> USE DEF ReturnsInv
<1>1. v.of \in ReturnId /\ v # Nothing /\ row # Nothing
  BY ReturnsAssumption DEF Work
<1>2. returned[v.of] # Nothing
  BY <1>1 DEF OnceInv
<1>3. Grew /\ AllPaidBack' = AllPaidBack /\ \A r : PaidFor(r)' = PaidFor(r)
  BY NothingMoved
<1>4. AllPaidBack' \in Nat
  BY <1>3, PaidBackIsNatural DEF RowsInv
<1>5. /\ returned' \in [ReturnId -> ReturnRow \cup {Nothing}]
      /\ \A r \in ReturnId \ {v.of} : returned'[r] = returned[r]
      /\ returned'[v.of] # Nothing /\ returned'[v.of].status # "REQUESTED"
      /\ returned'[v.of] \in {row, returned[v.of]}
  <2>1. returned \in [ReturnId -> ReturnRow \cup {Nothing}]
    BY DEF RowsInv
  <2>2. CASE Requested(v.of)
    BY <1>1, <2>1, <2>2
  <2>3. CASE ~Requested(v.of)
    BY <1>1, <1>2, <2>1, <2>3 DEF Requested
  <2> QED  BY <2>2, <2>3
<1>6. RowsInv'
  BY <1>5 DEF RowsInv
<1>7. LinesInv'
  <2> SUFFICES ASSUME NEW r \in ReturnId, returned'[r] # Nothing, NEW i \in DOMAIN returned'[r].items
               PROVE  Returnable(returned'[r].items[i])
    BY DEF LinesInv, Returnable
  <2>1. returned[r] # Nothing /\ returned'[r].items = returned[r].items
    BY <1>2, <1>5
  <2> QED  BY <2>1 DEF LinesInv
<1>8. MoneyInv'
  BY <1>3 DEF MoneyInv
<1>9. DeskInv'
  BY <1>3, <1>4, DeskStays
<1>10. DoneInv'
  <2> SUFFICES ASSUME NEW r \in ReturnId, returned'[r] # Nothing, returned'[r].status = "COMPLETED"
               PROVE  /\ method = "CARD" /\ returned'[r].refund > 0 => Paid(r, returned[r].refund)'
                      /\ returned'[r].restocked => restocks[r] > 0
    BY DEF DoneInv
  <2>1. CASE returned'[r] = returned[r]
    BY <1>3, <2>1 DEF DoneInv, Paid
  <2>2. CASE returned'[r] # returned[r]
    <3>1. r = v.of /\ returned'[r] = row
      BY <1>5, <2>2
    <3> QED  BY <1>3, <3>1 DEF Paid
  <2> QED  BY <2>1, <2>2
<1>11. OnceInv'
  BY <1>5, OnceCloses
<1> QED  BY <1>6, <1>7, <1>8, <1>9, <1>10, <1>11

LEMMA CompleteKeeps ==
  ASSUME ReturnsInv, NEW d \in Desk, CompleteReturn(d)
  PROVE  ReturnsInv'
<1> USE DEF ReturnsInv
<1>1. PICK v : v = desk[d]
  OBVIOUS
<1>2. v \in Work /\ v # Nothing /\ v.step = "complete" /\ WorkInv(v)
  BY <1>1 DEF CompleteReturn, Resolving, RowsInv, DeskInv
<1>3. v.refund \in Nat /\ v.of \in ReturnId /\ v.restocked \in BOOLEAN
  BY <1>2 DEF Work
<1>4. PICK old \in ReturnRow : old = returned[v.of]
  BY <1>1, <1>2, <1>3 DEF OnceInv, RowsInv
<1>5. PICK row : row = [old EXCEPT !.status = "COMPLETED", !.refund = v.refund, !.restocked = v.restocked]
  OBVIOUS
<1>6. /\ row \in ReturnRow /\ row.items = old.items /\ row.status = "COMPLETED"
      /\ row.refund = v.refund /\ row.restocked = v.restocked
  BY <1>3, <1>5 DEF ReturnRow
<1>7. returned' = IF Requested(v.of) THEN [returned EXCEPT ![v.of] = row] ELSE returned
  BY <1>1, <1>4, <1>5 DEF CompleteReturn
<1>8. UNCHANGED <<method, mirror, payment, paidBack, restocks, contested>>
      /\ desk' = [desk EXCEPT ![d] = Nothing]
  BY DEF CompleteReturn, Idle
<1>9. /\ method = "CARD" /\ row.refund > 0 => Paid(v.of, row.refund)
      /\ row.restocked => restocks[v.of] > 0
  BY <1>2, <1>6 DEF WorkInv
<1> QED  BY <1>1, <1>2, <1>4, <1>6, <1>7, <1>8, <1>9, CloseKeeps

LEMMA RejectKeeps ==
  ASSUME ReturnsInv, NEW d \in Desk, RejectReturn(d)
  PROVE  ReturnsInv'
<1> USE DEF ReturnsInv
<1>1. PICK v : v = desk[d]
  OBVIOUS
<1>2. v \in Work /\ v # Nothing /\ v.of \in ReturnId
  BY <1>1 DEF RejectReturn, Resolving, RowsInv, Work
<1>3. PICK old \in ReturnRow : old = returned[v.of]
  BY <1>1, <1>2 DEF OnceInv, RowsInv
<1>4. PICK row : row = [old EXCEPT !.status = "REJECTED", !.refund = 0]
  OBVIOUS
<1>5. row \in ReturnRow /\ row.items = old.items /\ row.status = "REJECTED"
  BY <1>4 DEF ReturnRow
<1>6. returned' = IF Requested(v.of) THEN [returned EXCEPT ![v.of] = row] ELSE returned
  BY <1>1, <1>3, <1>4 DEF RejectReturn
<1>7. UNCHANGED <<method, mirror, payment, paidBack, restocks, contested>>
      /\ desk' = [desk EXCEPT ![d] = Nothing]
  BY DEF RejectReturn, Idle
<1> QED  BY <1>1, <1>2, <1>3, <1>5, <1>6, <1>7, CloseKeeps

LEMMA StutterKeeps ==
  ASSUME ReturnsInv, UNCHANGED returnVars
  PROVE  ReturnsInv'
<1>1. AllPaidBack' = AllPaidBack /\ \A r : PaidFor(r)' = PaidFor(r)
  BY DEF AllPaidBack, PaidFor, returnVars
<1>2. \A r, cents : Paid(r, cents)' <=> Paid(r, cents)
  BY <1>1 DEF Paid, returnVars
<1>3. \A w : WorkInv(w)' <=> WorkInv(w)
  BY <1>1, <1>2 DEF WorkInv, returnVars
<1>4. \A r, steps : (Reached(r, steps)' <=> Reached(r, steps)) /\ (Open(r)' <=> Open(r))
  BY DEF Reached, Open, returnVars
<1>5. RowsInv' /\ LinesInv' /\ MoneyInv'
  BY <1>1 DEF ReturnsInv, RowsInv, LinesInv, MoneyInv, returnVars
<1>6. DeskInv' /\ DoneInv'
  BY <1>2, <1>3 DEF ReturnsInv, DeskInv, DoneInv, WorkInv, Paid, PaidFor, AllPaidBack, returnVars
<1>7. OnceInv'
  BY <1>1, <1>4 DEF ReturnsInv, OnceInv, Open, returnVars
<1> QED  BY <1>5, <1>6, <1>7 DEF ReturnsInv


LEMMA NextKeeps ==
  ASSUME ReturnsInv, ReturnNext
  PROVE  ReturnsInv'
<1>1. ASSUME NEW r \in ReturnId, NEW items \in BoundedSeq(InputLine, MaxReturned), RequestReturn(r, items)
      PROVE  ReturnsInv'
  <2>1. items \in Seq(InputLine)
    BY ReturnsAssumption DEF BoundedSeq, SeqOf
  <2> QED  BY <1>1, <2>1, RequestKeeps
<1>2. ASSUME NEW d \in Desk, ResolveStep(d)
      PROVE  ReturnsInv'
  <2>1. CASE AskRefund(d)
    BY <2>1, AskKeeps
  <2>2. CASE StripeRefund(d)
    BY <2>2, StripeKeeps
  <2>3. CASE BookRefund(d)
    BY <2>3, BookKeeps
  <2>4. CASE MirrorRefund(d)
    BY <2>4, MirrorKeeps
  <2>5. CASE RestockReturn(d)
    BY <2>5, RestockKeeps
  <2>6. CASE CompleteReturn(d)
    BY <2>6, CompleteKeeps
  <2>7. CASE RejectReturn(d)
    BY <2>7, RejectKeeps
  <2> QED  BY <1>2, <2>1, <2>2, <2>3, <2>4, <2>5, <2>6, <2>7 DEF ResolveStep
<1> QED  BY <1>1, <1>2, ResolveKeeps, StopKeeps DEF ReturnNext

\* The invariant holds of every behaviour, whatever managers, crashes and lost answers do.
THEOREM ReturnsInvHolds == ReturnSpec => []ReturnsInv
<1>1. ReturnInit => ReturnsInv
  BY InitHolds
<1>2. ReturnsInv /\ [ReturnNext]_returnVars => ReturnsInv'
  BY NextKeeps, StutterKeeps
<1> QED  BY <1>1, <1>2, PTL DEF ReturnSpec

-----------------------------------------------------------------------------
(***************************************************************************)
(* What follows.                                                           *)
(***************************************************************************)

\* The tables keep their types, a return never names more units than were
\* ordered, and payment-service never books more refunds than the capture.
THEOREM ReturnTypesHold == ReturnSpec => []ReturnTypeOK
<1>1. ASSUME ReturnsInv
      PROVE  ReturnTypeOK
  <2>1. \A r \in ReturnId : returned[r] # Nothing =>
          /\ returned[r].status \in {"REQUESTED", "COMPLETED", "REJECTED"}
          /\ returned[r].refund \in Nat /\ returned[r].restocked \in BOOLEAN
    BY <1>1 DEF ReturnsInv, RowsInv, ReturnRow
  <2>2. payment.refunded \in 0 .. Captured
    BY <1>1, ReturnsAssumption DEF ReturnsInv, RowsInv, MoneyInv, PaymentRow
  <2> QED  BY <1>1, <2>1, <2>2 DEF ReturnTypeOK, ReturnsInv, RowsInv, LinesInv, Returnable
<1> QED  BY <1>1, ReturnsInvHolds, PTL

\* A return that says COMPLETED has its refund paid and its units back, and all
\* the refunds of an order together stay within what it captured.
THEOREM CompletionIsEarned == ReturnSpec => []CompletedReturnsAreDone
<1>1. ASSUME ReturnsInv
      PROVE  CompletedReturnsAreDone
  BY <1>1 DEF CompletedReturnsAreDone, ReturnsInv, MoneyInv, DoneInv, Paid
<1> QED  BY <1>1, ReturnsInvHolds, PTL

\* A resolution that still has a step of these ahead finds it not done yet.
LEMMA FirstTime ==
  ASSUME ReturnsInv, NEW d \in Desk, desk[d] # Nothing, desk[d].of \in ReturnId \ contested
  PROVE  /\ desk[d].step = "stripe" => PaidFor(desk[d].of) = {}
         /\ desk[d].step = "restock" => restocks[desk[d].of] = 0
<1> DEFINE r == desk[d].of
<1>1. \A e \in Desk : desk[e] # Nothing /\ desk[e].of = r => e = d
  BY DEF ReturnsInv, OnceInv
<1>2. Open(r)
  BY DEF ReturnsInv, OnceInv
<1>3. desk[d].step = "stripe" => ~Reached(r, {"book", "mirror", "restock", "complete"})
  BY <1>1 DEF Reached
<1>4. desk[d].step = "restock" => ~Reached(r, {"complete"})
  BY <1>1 DEF Reached
<1> QED  BY <1>2, <1>3, <1>4 DEF ReturnsInv, OnceInv

\* Only a return whose resolutions overlapped, or stopped halfway, is ever
\* refunded or restocked a second time.
THEOREM RepeatsNeedOverlaps == ReturnSpec => OnlyOverlapsRepeatReturns
<1> DEFINE Allowed ==
      \A r \in ReturnId \ contested :
        /\ PaidFor(r) # {} => PaidFor(r)' = PaidFor(r)
        /\ restocks[r] > 0 => restocks'[r] = restocks[r]
<1>1. ASSUME ReturnsInv, ReturnNext
      PROVE  Allowed
  <2>1. ASSUME UNCHANGED <<paidBack, restocks>>
        PROVE  Allowed
    BY <2>1 DEF PaidFor
  <2>2. ASSUME NEW d \in Desk, StripeRefund(d)
        PROVE  Allowed
    <3>1. PICK v : v = desk[d]
      OBVIOUS
    <3>2. v \in Work /\ v # Nothing /\ v.step = "stripe"
      BY <1>1, <2>2, <3>1 DEF StripeRefund, Resolving, ReturnsInv, RowsInv
    <3>3. v.of \in ReturnId /\ v.refund \in Nat
      BY <3>2 DEF Work
    <3>4. restocks' = restocks
      BY <2>2 DEF StripeRefund
    <3>5. CASE paidBack' = paidBack
      BY <2>1, <3>4, <3>5
    <3>6. CASE paidBack' = Append(paidBack, [of |-> v.of, cents |-> v.refund])
      <4>1. \A r \in ReturnId \ {v.of} : PaidFor(r)' = PaidFor(r)
        <5>1. PICK r0 \in ReturnId : r0 = v.of
          BY <3>3
        <5>2. PICK c0 \in Nat : c0 = v.refund
          BY <3>3
        <5>3. UNCHANGED <<method, payment, restocks>> /\ paidBack' = Append(paidBack, [of |-> r0, cents |-> c0])
          BY <2>2, <3>6, <5>1, <5>2 DEF StripeRefund
        <5> QED  BY <1>1, <5>1, <5>2, <5>3, OneMoreRefund DEF ReturnsInv
      <4>2. v.of \notin contested => PaidFor(v.of) = {}
        BY <1>1, <3>1, <3>2, <3>3, FirstTime
      <4> QED  BY <3>4, <4>1, <4>2
    <3> QED  BY <2>2, <3>1, <3>5, <3>6 DEF StripeRefund
  <2>3. ASSUME NEW d \in Desk, RestockReturn(d)
        PROVE  Allowed
    <3>1. PICK v : v = desk[d]
      OBVIOUS
    <3>2. v \in Work /\ v # Nothing /\ v.step = "restock"
      BY <1>1, <2>3, <3>1 DEF RestockReturn, Resolving, ReturnsInv, RowsInv
    <3>3. v.of \in ReturnId
      BY <3>2 DEF Work
    <3>4. \A r : PaidFor(r)' = PaidFor(r)
      BY <2>3 DEF RestockReturn, PaidFor
    <3>5. restocks' \in {restocks, [restocks EXCEPT ![v.of] = @ + 1]}
      BY <2>3, <3>1 DEF RestockReturn
    <3>6. \A r \in ReturnId \ {v.of} : restocks'[r] = restocks[r]
      BY <1>1, <3>5 DEF ReturnsInv, RowsInv
    <3>7. v.of \notin contested => ~(restocks[v.of] > 0)
      BY <1>1, <3>1, <3>2, <3>3, FirstTime
    <3> QED  BY <3>4, <3>6, <3>7
  <2>4. ASSUME NEW d \in Desk, ResolveStep(d)
        PROVE  Allowed
    BY <2>1, <2>2, <2>3, <2>4
       DEF ResolveStep, AskRefund, BookRefund, MirrorRefund, CompleteReturn, RejectReturn
  <2>5. ASSUME NEW r \in ReturnId, NEW items \in BoundedSeq(InputLine, MaxReturned), RequestReturn(r, items)
        PROVE  Allowed
    BY <2>1, <2>5 DEF RequestReturn
  <2>6. ASSUME NEW d \in Desk, NEW r \in ReturnId, NEW body \in Resolution, Resolve(d, r, body)
        PROVE  Allowed
    BY <2>1, <2>6 DEF Resolve, ResolveAlways
  <2>7. ASSUME NEW d \in Desk, ResolveStops(d)
        PROVE  Allowed
    BY <2>1, <2>7 DEF ResolveStops
  <2> HIDE DEF Allowed
  <2> QED  BY <1>1, <2>4, <2>5, <2>6, <2>7 DEF ReturnNext
<1>2. ReturnsInv /\ [ReturnNext]_returnVars => [Allowed]_returnVars
  BY <1>1
<1> HIDE DEF Allowed
<1>3. ReturnSpec => [][Allowed]_returnVars
  BY <1>2, ReturnsInvHolds, PTL DEF ReturnSpec
<1> QED  BY <1>3 DEF OnlyOverlapsRepeatReturns, Allowed

=============================================================================
