-------------------------- MODULE Delivery_proofs --------------------------
(***************************************************************************)
(* Proofs about the consumer side of the events (Delivery): its invariants *)
(* and the finality of a commit, for any topics, any messages in them and  *)
(* any number of crashes, shutdowns and attempts.                          *)
(***************************************************************************)
EXTENDS Delivery, TLAPS

\* A table or an inbox: how many times it contains each of its entries.
Table(B) == B = [e \in DOMAIN B |-> B[e]] /\ \A e \in DOMAIN B : B[e] \in Nat \ {0}

TypesInv ==
  /\ topic \in [Topic -> Seq(Event)]
  /\ \A t \in Topic : Len(topic[t]) <= Len(Published[t])
  /\ committed \in [Topic -> Nat]
  /\ fetched \in [Topic -> Nat]
  /\ \A t \in Topic : committed[t] <= fetched[t] /\ fetched[t] <= Len(topic[t])
  /\ up \in BOOLEAN
  /\ stops \in Nat
  /\ Table(rows) /\ Table(unread) /\ Table(mails) /\ Table(inbox)
  /\ unread \sqsubseteq rows

\* The message in hand is the one fetched last, and lies behind the committed offset.
HandInv ==
  msg # NoMessage =>
    /\ up
    /\ msg \in Message
    /\ msg.offset = fetched[msg.topic]
    /\ committed[msg.topic] < msg.offset

\* What has been reported was published; before the first stop it was also fetched.
ReachInv ==
  \A t \in Topic : \A i \in Nat \ {0} :
    Handled(t, i) => i <= Len(topic[t]) /\ (stops = 0 => i <= fetched[t])

\* Everything fetched since the last start is over, but for the message in hand.
OverInv ==
  /\ \A t \in Topic : \A i \in Nat \ {0} :
       /\ i <= committed[t] => Over(t, i)
       /\ Past(t, i) => Over(t, i)
  /\ msg # NoMessage /\ msg.step = "commit" => Over(msg.topic, msg.offset)

\* Events are handled in the order of their topic.
OrderInv ==
  \A t \in Topic : \A i \in 1 .. Len(topic[t]) :
    Handled(t, i) => \A j \in 1 .. i : Over(t, j)

\* With a relay, a SENT row stands for a mail that it took; before the row is written,
\* there is one mail more than there are rows.
SentInv ==
  live =>
    /\ \A t \in Topic : \A i \in Nat \ {0} :
         Copies(Logged(t, i, "SENT"), mails) <= Entries(inbox, t, i)
    /\ msg # NoMessage /\ msg.step = "log" =>
         Copies(Logged(msg.topic, msg.offset, "SENT"), mails) < Entries(inbox, msg.topic, msg.offset)

\* The steps before the report: the stub's only trace is the row in the log.
Before == {"insert", "lookup", "send"} \cup IF live THEN {} ELSE {"log"}

\* On the first attempt and without a stop before it, nothing has been reported yet.
FreshInv ==
  msg # NoMessage /\ stops = 0 /\ msg.attempt = 1 /\ msg.step \in Before =>
    ~Handled(msg.topic, msg.offset)

\* A process that is down has stopped.
StoppedInv == ~up => stops > 0

DeliveryInv ==
  /\ TypesInv
  /\ HandInv
  /\ ReachInv
  /\ OverInv
  /\ OrderInv
  /\ SentInv
  /\ FreshInv
  /\ StoppedInv

-----------------------------------------------------------------------------
(***************************************************************************)
(* Tables and inboxes.                                                     *)
(***************************************************************************)

\* A table contains every entry a natural number of times.
LEMMA CopiesAreNaturals ==
  ASSUME NEW B, Table(B), NEW e
  PROVE  Copies(e, B) \in Nat
BY DEF Table, Copies

\* One more row: its entry is there once more, and the others as before.
LEMMA OneMore ==
  ASSUME NEW B, Table(B), NEW x
  PROVE  /\ Table(BagAdd(B, x))
         /\ Copies(x, BagAdd(B, x)) = Copies(x, B) + 1
         /\ \A e : e # x => Copies(e, BagAdd(B, x)) = Copies(e, B)
         /\ \A e : Copies(e, BagAdd(B, x)) >= Copies(e, B)
<1>1. CASE x \in DOMAIN B
  <2>1. BagAdd(B, x) = [e \in DOMAIN B |-> IF e = x THEN B[e] + 1 ELSE B[e]]
    BY <1>1 DEF BagAdd
  <2>. QED
    BY <1>1, <2>1 DEF Table, Copies
<1>2. CASE x \notin DOMAIN B
  <2>1. BagAdd(B, x) = [e \in DOMAIN B \cup {x} |-> IF e = x THEN 1 ELSE B[e]]
    BY <1>2 DEF BagAdd
  <2>. QED
    BY <1>2, <2>1 DEF Table, Copies
<1>. QED
  BY <1>1, <1>2

\* What is added to both stays contained.
LEMMA OneMoreInBoth ==
  ASSUME NEW A, NEW B, Table(A), Table(B), A \sqsubseteq B, NEW x
  PROVE  BagAdd(A, x) \sqsubseteq BagAdd(B, x)
<1>1. DOMAIN A \subseteq DOMAIN B /\ \A e \in DOMAIN A : A[e] <= B[e]
  BY DEF \sqsubseteq
<1>2. CASE x \in DOMAIN A
  BY <1>1, <1>2 DEF BagAdd, \sqsubseteq, Table
<1>3. CASE x \notin DOMAIN A /\ x \in DOMAIN B
  BY <1>1, <1>3 DEF BagAdd, \sqsubseteq, Table
<1>4. CASE x \notin DOMAIN A /\ x \notin DOMAIN B
  BY <1>1, <1>4 DEF BagAdd, \sqsubseteq, Table
<1>. QED
  BY <1>1, <1>2, <1>3, <1>4

\* What is left after one removal is a table, and stays contained.
LEMMA OneLess ==
  ASSUME NEW A, NEW B, Table(A), Table(B), A \sqsubseteq B, NEW x \in DOMAIN A
  PROVE  Table(BagRemove(A, x)) /\ BagRemove(A, x) \sqsubseteq B
<1>1. DOMAIN A \subseteq DOMAIN B /\ \A e \in DOMAIN A : A[e] <= B[e]
  BY DEF \sqsubseteq
<1>2. CASE A[x] = 1
  BY <1>1, <1>2 DEF BagRemove, \sqsubseteq, Table
<1>3. CASE A[x] # 1
  <2>1. BagRemove(A, x) = [e \in DOMAIN A |-> IF e = x THEN A[e] - 1 ELSE A[e]]
    BY <1>3 DEF BagRemove
  <2>. QED
    BY <1>1, <1>3, <2>1 DEF \sqsubseteq, Table
<1>. QED
  BY <1>2, <1>3

\* The empty table.
LEMMA NoRows ==
  /\ Table(EmptyBag)
  /\ \A e : Copies(e, EmptyBag) = 0
  /\ \A B : EmptyBag \sqsubseteq B
BY DEF EmptyBag, SetToBag, Table, Copies, \sqsubseteq

\* Entries and rows of different events, or of different status, are different.
LEMMA EventsDiffer ==
  ASSUME NEW t, NEW i, NEW u, NEW j
  PROVE  /\ Of(t, i) = Of(u, j) <=> t = u /\ i = j
         /\ Logged(t, i, "SENT") = Logged(u, j, "SENT") <=> t = u /\ i = j
         /\ Logged(t, i, "SENT") # Logged(u, j, "FAILED")
<1>1. Of(t, i).topic = t /\ Of(t, i).offset = i /\ Of(u, j).topic = u /\ Of(u, j).offset = j
  BY DEF Of
<1>2. /\ Logged(t, i, "SENT").topic = t /\ Logged(t, i, "SENT").offset = i
      /\ Logged(u, j, "SENT").topic = u /\ Logged(u, j, "SENT").offset = j
      /\ Logged(t, i, "SENT").status = "SENT" /\ Logged(u, j, "FAILED").status = "FAILED"
  BY DEF Logged
<1>3. (t = u /\ i = j) => Of(t, i) = Of(u, j) /\ Logged(t, i, "SENT") = Logged(u, j, "SENT")
  OBVIOUS
<1>. QED
  BY <1>1, <1>2, <1>3

\* One more row in the mail log: a FAILED one adds nothing to the SENT ones, and a
\* SENT one is counted for its own event only.
LEMMA OneMoreMail ==
  ASSUME NEW B, Table(B), NEW t, NEW i
  PROVE  /\ Table(BagAdd(B, Logged(t, i, "SENT"))) /\ Table(BagAdd(B, Logged(t, i, "FAILED")))
         /\ Copies(Logged(t, i, "SENT"), BagAdd(B, Logged(t, i, "SENT"))) = Copies(Logged(t, i, "SENT"), B) + 1
         /\ \A u, j : u # t \/ j # i =>
              Copies(Logged(u, j, "SENT"), BagAdd(B, Logged(t, i, "SENT"))) = Copies(Logged(u, j, "SENT"), B)
         /\ \A u, j :
              Copies(Logged(u, j, "SENT"), BagAdd(B, Logged(t, i, "FAILED"))) = Copies(Logged(u, j, "SENT"), B)
<1>1. PICK x, y : x = Logged(t, i, "SENT") /\ y = Logged(t, i, "FAILED")
  OBVIOUS
<1>2. /\ Table(BagAdd(B, x)) /\ Table(BagAdd(B, y))
      /\ Copies(x, BagAdd(B, x)) = Copies(x, B) + 1
      /\ \A e : e # x => Copies(e, BagAdd(B, x)) = Copies(e, B)
      /\ \A e : e # y => Copies(e, BagAdd(B, y)) = Copies(e, B)
  BY OneMore
<1>3. \A u, j : (u # t \/ j # i => Logged(u, j, "SENT") # x) /\ Logged(u, j, "SENT") # y
  BY <1>1, EventsDiffer
<1>. QED
  BY <1>1, <1>2, <1>3

-----------------------------------------------------------------------------
(***************************************************************************)
(* What the steps of a handler have in common: only the message in hand    *)
(* moves on, and only rows and mails about it are added.                   *)
(***************************************************************************)
HandlerStep ==
  /\ up /\ msg # NoMessage
  /\ UNCHANGED <<config, topic, committed, up, fetched, stops>>
  /\ msg' \in Message /\ msg'.topic = msg.topic /\ msg'.offset = msg.offset
  /\ skipped \subseteq skipped'
  /\ Table(rows)' /\ Table(unread)' /\ Table(mails)' /\ Table(inbox)' /\ (unread \sqsubseteq rows)'
  /\ \A t \in Topic : \A i \in Nat \ {0} :
       /\ Reports(t, i)' >= Reports(t, i)
       /\ t # msg.topic \/ i # msg.offset => Reports(t, i)' = Reports(t, i)
  /\ SentInv'
  /\ msg'.step = "commit" =>
       \/ Reports(msg.topic, msg.offset)' > 0
       \/ <<msg.topic, msg.offset>> \in skipped'
       \/ Unaddressed(topic[msg.topic][msg.offset])
  /\ stops = 0 /\ msg'.attempt = 1 /\ msg'.step \in Before => Reports(msg.topic, msg.offset)' = 0

\* What the tables say of an event, and what was reported of it.
LEMMA ReportsGrow ==
  ASSUME Table(rows), Table(inbox), Table(mails), Table(rows'), Table(inbox'), Table(mails'),
         live' = live, NEW t, NEW i,
         Entries(rows', t, i) >= Entries(rows, t, i),
         Entries(inbox', t, i) >= Entries(inbox, t, i),
         Copies(Logged(t, i, "SENT"), mails') >= Copies(Logged(t, i, "SENT"), mails)
  PROVE  /\ Reports(t, i) \in Nat /\ Reports(t, i)' \in Nat
         /\ Reports(t, i)' >= Reports(t, i)
         /\ /\ Entries(rows', t, i) = Entries(rows, t, i)
            /\ live => Entries(inbox', t, i) = Entries(inbox, t, i)
            /\ ~live => Copies(Logged(t, i, "SENT"), mails') = Copies(Logged(t, i, "SENT"), mails)
            => Reports(t, i)' = Reports(t, i)
         /\ Entries(rows', t, i) > 0 => Reports(t, i)' > 0
         /\ live /\ Entries(inbox', t, i) > 0 => Reports(t, i)' > 0
         /\ ~live /\ Copies(Logged(t, i, "SENT"), mails') > 0 => Reports(t, i)' > 0
<1>1. /\ Entries(rows, t, i) \in Nat /\ Entries(rows', t, i) \in Nat
      /\ Entries(inbox, t, i) \in Nat /\ Entries(inbox', t, i) \in Nat
      /\ Copies(Logged(t, i, "SENT"), mails) \in Nat /\ Copies(Logged(t, i, "SENT"), mails') \in Nat
  BY CopiesAreNaturals DEF Entries
<1>2. /\ Reports(t, i) = Entries(rows, t, i) +
           IF live THEN Entries(inbox, t, i) ELSE Copies(Logged(t, i, "SENT"), mails)
      /\ Reports(t, i)' = Entries(rows', t, i) +
           IF live THEN Entries(inbox', t, i) ELSE Copies(Logged(t, i, "SENT"), mails')
  BY DEF Reports, Entries
<1>. QED
  BY <1>1, <1>2

\* The message that HandlerFails or GoesTo leaves behind.
LEMMA NextAttempt ==
  ASSUME msg \in Message, HandlerFails
  PROVE  /\ msg' \in Message /\ msg'.topic = msg.topic /\ msg'.offset = msg.offset
         /\ skipped \subseteq skipped'
         /\ msg'.step # "log"
         /\ msg'.step = "commit" => <<msg.topic, msg.offset>> \in skipped'
         /\ msg'.step # "commit" => msg'.attempt # 1
<1>1. CASE msg.attempt < retryAttempts
  <2>1. msg' = [msg EXCEPT !.attempt = msg.attempt + 1, !.step = FirstStep] /\ skipped' = skipped
    BY <1>1 DEF HandlerFails
  <2>2. FirstStep \in {"lookup", "insert"}
    BY DEF FirstStep
  <2>3. msg.attempt + 1 \in 1 .. retryAttempts /\ msg.attempt + 1 # 1
    BY <1>1 DEF Message, retryAttempts
  <2>. QED
    BY <2>1, <2>2, <2>3 DEF Message
<1>2. CASE ~(msg.attempt < retryAttempts)
  <2>1. msg' = [msg EXCEPT !.step = "commit"] /\ skipped' = skipped \cup {<<msg.topic, msg.offset>>}
    BY <1>2 DEF HandlerFails
  <2>. QED
    BY <2>1 DEF Message
<1>. QED
  BY <1>1, <1>2

LEMMA NextStep ==
  ASSUME msg \in Message, NEW step \in {"send", "log", "commit"}, GoesTo(step)
  PROVE  /\ msg' \in Message /\ msg'.topic = msg.topic /\ msg'.offset = msg.offset
         /\ msg'.attempt = msg.attempt /\ msg'.step = step
         /\ skipped' = skipped
BY DEF GoesTo, Message

\* The steps of the two handlers are such steps.
\* What every step of a handler starts from.
LEMMA InHandNow ==
  ASSUME DeliveryInv, NEW t, NEW i, msg # NoMessage, t = msg.topic, i = msg.offset
  PROVE  /\ msg \in Message /\ t \in Topic /\ i \in Nat \ {0} /\ stops \in Nat
         /\ Table(rows) /\ Table(unread) /\ Table(mails) /\ Table(inbox) /\ unread \sqsubseteq rows
         /\ \A u \in Topic : \A j \in Nat \ {0} :
              /\ Entries(rows, u, j) \in Nat /\ Entries(inbox, u, j) \in Nat
              /\ Copies(Logged(u, j, "SENT"), mails) \in Nat
              /\ Reports(u, j) \in Nat
         /\ stops = 0 /\ msg.attempt = 1 /\ msg.step \in Before => Reports(t, i) = 0
<1>1. /\ msg \in Message /\ t \in Topic /\ i \in Nat \ {0} /\ stops \in Nat
      /\ Table(rows) /\ Table(unread) /\ Table(mails) /\ Table(inbox) /\ unread \sqsubseteq rows
  BY DEF DeliveryInv, HandInv, TypesInv, Message
<1>2. \A u \in Topic : \A j \in Nat \ {0} :
        /\ Entries(rows, u, j) \in Nat /\ Entries(inbox, u, j) \in Nat
        /\ Copies(Logged(u, j, "SENT"), mails) \in Nat
  BY <1>1, CopiesAreNaturals DEF Entries
<1>3. \A u \in Topic : \A j \in Nat \ {0} : Reports(u, j) \in Nat
  BY <1>2 DEF Reports
<1>4. stops = 0 /\ msg.attempt = 1 /\ msg.step \in Before => Reports(t, i) = 0
  BY <1>1, <1>3 DEF DeliveryInv, FreshInv, Handled
<1>. QED
  BY <1>1, <1>2, <1>3, <1>4

\* An attempt fails and nothing was written.
LEMMA QuietStep ==
  ASSUME DeliveryInv, up, msg # NoMessage,
         UNCHANGED <<config, topic, committed, up, fetched, stops, rows, unread, mails, inbox>>,
         \/ HandlerFails
         \/ GoesTo("send") /\ msg.step = "lookup"
         \/ GoesTo("commit") /\ Unaddressed(topic[msg.topic][msg.offset])
         \/ GoesTo("log") /\ msg.step = "send" /\ ~live
  PROVE  HandlerStep
<1>1. PICK t, i : t = msg.topic /\ i = msg.offset
  OBVIOUS
<1>2. /\ msg \in Message /\ t \in Topic /\ i \in Nat \ {0}
      /\ Table(rows) /\ Table(unread) /\ Table(mails) /\ Table(inbox) /\ unread \sqsubseteq rows
      /\ \A u \in Topic : \A j \in Nat \ {0} : Reports(u, j) \in Nat
      /\ stops = 0 /\ msg.attempt = 1 /\ msg.step \in Before => Reports(t, i) = 0
  BY <1>1, InHandNow
<1>3. /\ live' = live /\ Before' = Before
      /\ \A u, j : Reports(u, j)' = Reports(u, j)
  BY DEF config, Before, Reports, Entries
<1>4. /\ msg' \in Message /\ msg'.topic = t /\ msg'.offset = i /\ skipped \subseteq skipped'
      /\ msg'.step = "log" => ~live
      /\ msg'.step = "commit" => <<t, i>> \in skipped' \/ Unaddressed(topic[t][i])
      /\ msg'.attempt = 1 /\ msg'.step \in Before => msg.attempt = 1 /\ msg.step \in Before
  <2>1. CASE HandlerFails
    <3>1. msg'.step # "log" /\ (msg'.step # "commit" => msg'.attempt # 1)
      BY <1>2, <2>1, NextAttempt
    <3>2. "commit" \notin Before
      BY DEF Before
    <3>. QED
      BY <1>1, <1>2, <2>1, <3>1, <3>2, NextAttempt
  <2>2. CASE GoesTo("send") /\ msg.step = "lookup"
    BY <1>1, <1>2, <2>2, NextStep DEF Before
  <2>3. CASE GoesTo("commit") /\ Unaddressed(topic[msg.topic][msg.offset])
    BY <1>1, <1>2, <2>3, NextStep DEF Before
  <2>4. CASE GoesTo("log") /\ msg.step = "send" /\ ~live
    BY <1>1, <1>2, <2>4, NextStep DEF Before
  <2>. QED
    BY <2>1, <2>2, <2>3, <2>4
<1>5. SentInv'
  BY <1>3, <1>4 DEF DeliveryInv, SentInv, Entries
<1>. QED
  BY <1>1, <1>2, <1>3, <1>4, <1>5 DEF HandlerStep

LEMMA InsertIsHandlerStep ==
  ASSUME DeliveryInv, InsertNotification
  PROVE  HandlerStep
<1>0. /\ msg # NoMessage /\ up /\ msg.step = "insert"
      /\ UNCHANGED <<config, topic, committed, up, fetched, mails, inbox, stops>>
  BY DEF InsertNotification, InHand
<1>1. PICK t, i : t = msg.topic /\ i = msg.offset
  OBVIOUS
<1>2. /\ msg \in Message /\ t \in Topic /\ i \in Nat \ {0}
      /\ Table(rows) /\ Table(unread) /\ Table(mails) /\ Table(inbox) /\ unread \sqsubseteq rows
      /\ \A u \in Topic : \A j \in Nat \ {0} :
           Entries(rows, u, j) \in Nat /\ Entries(inbox, u, j) \in Nat
           /\ Copies(Logged(u, j, "SENT"), mails) \in Nat
  BY <1>0, <1>1, InHandNow
<1>3. live' = live /\ Before' = Before
  BY <1>0 DEF config, Before
<1>4. CASE /\ rows' = BagAdd(rows, Of(t, i)) /\ unread' = BagAdd(unread, Of(t, i))
           /\ GoesTo("commit") \/ HandlerFails
  <2>1. Table(rows') /\ Table(unread') /\ unread' \sqsubseteq rows'
    BY <1>2, <1>4, OneMore, OneMoreInBoth
  <2>2. /\ Entries(rows', t, i) = Entries(rows, t, i) + 1
        /\ \A u \in Topic : \A j \in Nat \ {0} : u # t \/ j # i => Entries(rows', u, j) = Entries(rows, u, j)
    BY <1>2, <1>4, OneMore, EventsDiffer DEF Entries
  <2>3. /\ \A u \in Topic : \A j \in Nat \ {0} : Entries(rows', u, j) >= Entries(rows, u, j)
        /\ Entries(rows', t, i) > 0
    BY <1>2, <2>2
  <2>4. /\ \A u \in Topic : \A j \in Nat \ {0} :
             /\ Reports(u, j)' >= Reports(u, j)
             /\ u # t \/ j # i => Reports(u, j)' = Reports(u, j)
        /\ Reports(t, i)' > 0
    BY <1>0, <1>2, <1>3, <2>1, <2>2, <2>3, ReportsGrow
  <2>5. /\ msg' \in Message /\ msg'.topic = t /\ msg'.offset = i /\ skipped \subseteq skipped'
        /\ msg'.step # "log"
        /\ msg'.step # "commit" => msg'.attempt # 1
    BY <1>1, <1>2, <1>4, NextAttempt, NextStep
  <2>6. SentInv'
    BY <1>0, <1>3, <2>5 DEF DeliveryInv, SentInv, Entries
  <2>7. "commit" \notin Before
    BY DEF Before
  <2>. QED
    BY <1>0, <1>1, <1>2, <1>3, <2>1, <2>4, <2>5, <2>6, <2>7 DEF HandlerStep
<1>5. CASE HandlerFails /\ UNCHANGED <<rows, unread>>
  BY <1>0, <1>5, QuietStep
<1>. QED
  BY <1>1, <1>4, <1>5 DEF InsertNotification

LEMMA LookupIsHandlerStep ==
  ASSUME DeliveryInv, LookupRecipient
  PROVE  HandlerStep
<1>1. /\ msg # NoMessage /\ up /\ msg.step = "lookup"
      /\ UNCHANGED <<config, topic, committed, up, fetched, rows, unread, mails, inbox, stops>>
      /\ \/ GoesTo("commit") /\ Unaddressed(topic[msg.topic][msg.offset])
         \/ GoesTo("send") \/ HandlerFails
  BY DEF LookupRecipient, InHand, Current, effects
<1>. QED
  BY <1>1, QuietStep

LEMMA SendIsHandlerStep ==
  ASSUME DeliveryInv, SendMail
  PROVE  HandlerStep
<1>0. /\ msg # NoMessage /\ up /\ msg.step = "send"
      /\ UNCHANGED <<config, topic, committed, up, fetched, rows, unread, stops>>
  BY DEF SendMail, InHand
<1>1. PICK t, i : t = msg.topic /\ i = msg.offset
  OBVIOUS
<1>2. /\ msg \in Message /\ t \in Topic /\ i \in Nat \ {0}
      /\ Table(rows) /\ Table(unread) /\ Table(mails) /\ Table(inbox) /\ unread \sqsubseteq rows
      /\ \A u \in Topic : \A j \in Nat \ {0} :
           Entries(rows, u, j) \in Nat /\ Entries(inbox, u, j) \in Nat
           /\ Copies(Logged(u, j, "SENT"), mails) \in Nat
  BY <1>0, <1>1, InHandNow
<1>3. live' = live /\ Before' = Before
  BY <1>0 DEF config, Before
<1>4. /\ Table(BagAdd(inbox, Of(t, i)))
      /\ Entries(BagAdd(inbox, Of(t, i)), t, i) = Entries(inbox, t, i) + 1
      /\ \A u \in Topic : \A j \in Nat \ {0} :
           u # t \/ j # i => Entries(BagAdd(inbox, Of(t, i)), u, j) = Entries(inbox, u, j)
  BY <1>2, OneMore, EventsDiffer DEF Entries
<1>5. /\ Table(BagAdd(mails, Logged(t, i, "FAILED")))
      /\ \A u \in Topic : \A j \in Nat \ {0} :
           Copies(Logged(u, j, "SENT"), BagAdd(mails, Logged(t, i, "FAILED")))
             = Copies(Logged(u, j, "SENT"), mails)
  BY <1>2, OneMoreMail
<1>6. CASE live /\ inbox' = BagAdd(inbox, Of(t, i)) /\ GoesTo("log") /\ UNCHANGED mails
  <2>1. \A u \in Topic : \A j \in Nat \ {0} : Entries(inbox', u, j) >= Entries(inbox, u, j)
    BY <1>2, <1>4, <1>6
  <2>2. \A u \in Topic : \A j \in Nat \ {0} :
          /\ Reports(u, j)' >= Reports(u, j)
          /\ u # t \/ j # i => Reports(u, j)' = Reports(u, j)
    BY <1>0, <1>2, <1>3, <1>4, <1>6, <2>1, ReportsGrow
  <2>3. /\ msg' \in Message /\ msg'.topic = t /\ msg'.offset = i /\ skipped \subseteq skipped'
        /\ msg'.step = "log"
    BY <1>1, <1>2, <1>6, NextStep
  <2>4. SentInv'
    <3>1. Copies(Logged(t, i, "SENT"), mails) <= Entries(inbox, t, i)
      BY <1>2, <1>6 DEF DeliveryInv, SentInv
    <3>2. Copies(Logged(t, i, "SENT"), mails') < Entries(inbox', t, i)
      BY <1>2, <1>4, <1>6, <3>1
    <3>3. \A u \in Topic : \A j \in Nat \ {0} :
            Copies(Logged(u, j, "SENT"), mails') <= Entries(inbox', u, j)
      <4>. SUFFICES ASSUME NEW u \in Topic, NEW j \in Nat \ {0}
                    PROVE  Copies(Logged(u, j, "SENT"), mails') <= Entries(inbox', u, j)
        OBVIOUS
      <4>1. /\ Copies(Logged(u, j, "SENT"), mails) \in Nat
            /\ Entries(inbox, u, j) \in Nat /\ Entries(inbox', u, j) \in Nat
        BY <1>2, <1>4, <1>6, CopiesAreNaturals DEF Entries
      <4>2. Copies(Logged(u, j, "SENT"), mails) <= Entries(inbox, u, j)
        BY <1>6 DEF DeliveryInv, SentInv
      <4>. QED
        BY <1>6, <2>1, <4>1, <4>2
    <3>. QED
      BY <2>3, <3>2, <3>3 DEF SentInv, Entries
  <2>5. "log" \notin Before
    BY <1>6 DEF Before
  <2>. QED
    BY <1>0, <1>1, <1>2, <1>3, <1>4, <1>6, <2>2, <2>3, <2>4, <2>5 DEF HandlerStep
<1>7. CASE ~live /\ inbox' = inbox /\ GoesTo("log") /\ UNCHANGED mails
  BY <1>0, <1>7, QuietStep
<1>8. CASE /\ live
           /\ inbox' \in {inbox, BagAdd(inbox, Of(t, i))}
           /\ mails' \in {mails, BagAdd(mails, Logged(t, i, "FAILED"))}
           /\ HandlerFails
  <2>1. /\ msg' \in Message /\ msg'.topic = t /\ msg'.offset = i /\ skipped \subseteq skipped'
        /\ msg'.step # "log"
        /\ msg'.step = "commit" => <<t, i>> \in skipped'
        /\ msg'.step # "commit" => msg'.attempt # 1
    BY <1>1, <1>2, <1>8, NextAttempt
  <2>2. /\ Table(inbox')
        /\ \A u \in Topic : \A j \in Nat \ {0} :
             /\ Entries(inbox', u, j) >= Entries(inbox, u, j)
             /\ Entries(inbox', u, j) \in Nat
             /\ u # t \/ j # i => Entries(inbox', u, j) = Entries(inbox, u, j)
    <3>1. CASE inbox' = inbox
      BY <1>2, <3>1
    <3>2. CASE inbox' = BagAdd(inbox, Of(t, i))
      BY <1>2, <1>4, <3>2, CopiesAreNaturals DEF Entries
    <3>. QED
      BY <1>8, <3>1, <3>2
  <2>3. /\ Table(mails')
        /\ \A u \in Topic : \A j \in Nat \ {0} :
             Copies(Logged(u, j, "SENT"), mails') = Copies(Logged(u, j, "SENT"), mails)
    BY <1>2, <1>5, <1>8
  <2>4. \A u \in Topic : \A j \in Nat \ {0} :
          /\ Reports(u, j)' >= Reports(u, j)
          /\ u # t \/ j # i => Reports(u, j)' = Reports(u, j)
    BY <1>0, <1>2, <1>3, <2>2, <2>3, ReportsGrow
  <2>5. SentInv'
    <3>1. \A u \in Topic : \A j \in Nat \ {0} :
            Copies(Logged(u, j, "SENT"), mails) <= Entries(inbox, u, j)
      BY <1>8 DEF DeliveryInv, SentInv
    <3>2. \A u \in Topic : \A j \in Nat \ {0} :
            Copies(Logged(u, j, "SENT"), mails') <= Entries(inbox', u, j)
      BY <1>2, <2>2, <2>3, <3>1
    <3>. QED
      BY <2>1, <3>2 DEF SentInv, Entries
  <2>6. "commit" \notin Before
    BY DEF Before
  <2>. QED
    BY <1>0, <1>1, <1>2, <1>3, <2>1, <2>2, <2>3, <2>4, <2>5, <2>6 DEF HandlerStep
<1>. QED
  BY <1>1, <1>6, <1>7, <1>8 DEF SendMail

LEMMA LogIsHandlerStep ==
  ASSUME DeliveryInv, LogMail
  PROVE  HandlerStep
<1>0. /\ msg # NoMessage /\ up /\ msg.step = "log"
      /\ UNCHANGED <<config, topic, committed, up, fetched, rows, unread, inbox, stops>>
  BY DEF LogMail, InHand
<1>1. PICK t, i : t = msg.topic /\ i = msg.offset
  OBVIOUS
<1>2. /\ msg \in Message /\ t \in Topic /\ i \in Nat \ {0}
      /\ Table(rows) /\ Table(unread) /\ Table(mails) /\ Table(inbox) /\ unread \sqsubseteq rows
      /\ \A u \in Topic : \A j \in Nat \ {0} :
           Entries(rows, u, j) \in Nat /\ Entries(inbox, u, j) \in Nat
           /\ Copies(Logged(u, j, "SENT"), mails) \in Nat
  BY <1>0, <1>1, InHandNow
<1>3. live' = live /\ Before' = Before
  BY <1>0 DEF config, Before
<1>4. CASE mails' = BagAdd(mails, Logged(t, i, "SENT")) /\ (GoesTo("commit") \/ HandlerFails)
  <2>1. /\ Table(mails')
        /\ Copies(Logged(t, i, "SENT"), mails') = Copies(Logged(t, i, "SENT"), mails) + 1
        /\ \A u \in Topic : \A j \in Nat \ {0} :
             u # t \/ j # i => Copies(Logged(u, j, "SENT"), mails') = Copies(Logged(u, j, "SENT"), mails)
    BY <1>2, <1>4, OneMoreMail
  <2>2. /\ \A u \in Topic : \A j \in Nat \ {0} :
             Copies(Logged(u, j, "SENT"), mails') >= Copies(Logged(u, j, "SENT"), mails)
        /\ Copies(Logged(t, i, "SENT"), mails') > 0
    BY <1>2, <2>1
  <2>3. \A u \in Topic : \A j \in Nat \ {0} :
          /\ Reports(u, j)' >= Reports(u, j)
          /\ u # t \/ j # i => Reports(u, j)' = Reports(u, j)
    BY <1>0, <1>2, <1>3, <2>1, <2>2, ReportsGrow
  <2>4. Reports(t, i)' > 0
    <3>1. CASE live
      <4>1. Entries(inbox', t, i) > 0
        BY <1>0, <1>1, <1>2, <3>1 DEF DeliveryInv, SentInv
      <4>. QED
        BY <1>0, <1>2, <1>3, <2>1, <2>2, <3>1, <4>1, ReportsGrow
    <3>2. CASE ~live
      BY <1>0, <1>2, <1>3, <2>1, <2>2, <3>2, ReportsGrow
    <3>. QED
      BY <3>1, <3>2
  <2>5. /\ msg' \in Message /\ msg'.topic = t /\ msg'.offset = i /\ skipped \subseteq skipped'
        /\ msg'.step # "log"
        /\ msg'.step # "commit" => msg'.attempt # 1
    BY <1>1, <1>2, <1>4, NextAttempt, NextStep
  <2>6. SentInv'
    <3>. SUFFICES ASSUME live, NEW u \in Topic, NEW j \in Nat \ {0}
                  PROVE  Copies(Logged(u, j, "SENT"), mails') <= Entries(inbox, u, j)
      BY <1>0, <1>3, <2>5 DEF SentInv, Entries
    <3>1. CASE u = t /\ j = i
      BY <1>0, <1>1, <1>2, <2>1, <3>1 DEF DeliveryInv, SentInv
    <3>2. CASE u # t \/ j # i
      BY <2>1, <3>2 DEF DeliveryInv, SentInv
    <3>. QED
      BY <3>1, <3>2
  <2>7. "commit" \notin Before
    BY DEF Before
  <2>. QED
    BY <1>0, <1>1, <1>2, <1>3, <2>1, <2>3, <2>4, <2>5, <2>6, <2>7 DEF HandlerStep
<1>5. CASE HandlerFails /\ UNCHANGED mails
  BY <1>0, <1>5, QuietStep
<1>. QED
  BY <1>1, <1>4, <1>5 DEF LogMail

-----------------------------------------------------------------------------
(***************************************************************************)
(* The invariant holds.                                                    *)
(***************************************************************************)

\* What is over stays over while more is reported and more is given up.
LEMMA OverIsFinal ==
  ASSUME NEW t \in Topic, NEW i \in Nat \ {0}, Over(t, i),
         UNCHANGED config, topic'[t][i] = topic[t][i],
         Reports(t, i) \in Nat, Reports(t, i)' \in Nat, Reports(t, i)' >= Reports(t, i),
         skipped \subseteq skipped'
  PROVE  Over(t, i)'
BY DEF Over, Handled, Reportable, Relevant, Unaddressed, config

\* What is said of an event depends on the tables, the events given up, the event and the
\* configuration only.
LEMMA SameVerdict ==
  ASSUME UNCHANGED <<config, rows, mails, inbox, skipped>>, NEW t, NEW i, topic'[t][i] = topic[t][i]
  PROVE  /\ Reports(t, i)' = Reports(t, i)
         /\ Handled(t, i)' <=> Handled(t, i)
         /\ Over(t, i)' <=> Over(t, i)
BY DEF Over, Handled, Reports, Reportable, Relevant, Unaddressed, Entries, config

LEMMA InvInitially == DeliveryInit => DeliveryInv
<1>. SUFFICES ASSUME DeliveryInit PROVE DeliveryInv
  OBVIOUS
<1>1. TypesInv
  BY NoRows, DeliveryAssumption DEF DeliveryInit, TypesInv, Table
<1>2. \A t, i : /\ Entries(rows, t, i) = 0 /\ Entries(inbox, t, i) = 0
               /\ Copies(Logged(t, i, "SENT"), mails) = 0
  BY NoRows DEF DeliveryInit, Entries
<1>3. \A t, i : ~Handled(t, i)
  BY <1>2 DEF Handled, Reports
<1>4. HandInv /\ ReachInv /\ OverInv /\ OrderInv /\ FreshInv
  BY <1>3 DEF DeliveryInit, HandInv, ReachInv, OverInv, Past, OrderInv, FreshInv
<1>5. SentInv /\ StoppedInv
  BY <1>2 DEF DeliveryInit, SentInv, StoppedInv
<1>. QED
  BY <1>1, <1>4, <1>5 DEF DeliveryInv

\* What one step of a handler leaves behind.
LEMMA HandlerKeepsInv ==
  ASSUME DeliveryInv, HandlerStep
  PROVE  DeliveryInv'
<1>1. PICK t, i : t = msg.topic /\ i = msg.offset
  OBVIOUS
<1>2. /\ t \in Topic /\ i \in Nat \ {0} /\ msg \in Message
      /\ i = fetched[t] /\ committed[t] < i /\ i <= Len(topic[t])
  BY <1>1 DEF HandlerStep, DeliveryInv, HandInv, TypesInv, Message
<1>3. /\ msg' # NoMessage /\ msg' \in Message /\ msg'.topic = t /\ msg'.offset = i
      /\ UNCHANGED <<config, service, live, users, topic, committed, up, fetched, stops>> /\ up
      /\ Before' = Before
  BY <1>1, DeliveryAssumption DEF HandlerStep, config, Before
<1>4. \A u \in Topic : \A j \in Nat \ {0} :
        /\ Reports(u, j) \in Nat /\ Reports(u, j)' \in Nat
        /\ Reports(u, j)' >= Reports(u, j)
        /\ u # t \/ j # i => Reports(u, j)' = Reports(u, j)
  <2>1. \A u \in Topic : \A j \in Nat \ {0} :
          Entries(rows', u, j) \in Nat /\ Entries(inbox', u, j) \in Nat
          /\ Copies(Logged(u, j, "SENT"), mails') \in Nat
    BY CopiesAreNaturals DEF Entries, HandlerStep
  <2>2. \A u \in Topic : \A j \in Nat \ {0} : Reports(u, j)' \in Nat
    BY <1>3, <2>1 DEF Reports, Entries
  <2>. QED
    BY <1>1, <2>2, InHandNow DEF HandlerStep
<1>5. \A u \in Topic : \A j \in Nat \ {0} : Over(u, j) => Over(u, j)'
  BY <1>3, <1>4, OverIsFinal DEF HandlerStep
<1>6. TypesInv'
  BY <1>3 DEF HandlerStep, DeliveryInv, TypesInv
<1>7. HandInv'
  BY <1>2, <1>3 DEF HandInv
<1>8. ReachInv'
  <2>. SUFFICES ASSUME NEW u \in Topic, NEW j \in Nat \ {0}, Handled(u, j)'
                PROVE  j <= Len(topic[u]) /\ (stops = 0 => j <= fetched[u])
    BY <1>3 DEF ReachInv
  <2>1. CASE u = t /\ j = i
    BY <1>2, <2>1 DEF DeliveryInv, TypesInv
  <2>2. CASE u # t \/ j # i
    BY <1>4, <2>2 DEF DeliveryInv, ReachInv, Handled
  <2>. QED
    BY <2>1, <2>2
<1>9. OverInv'
  <2>1. \A u \in Topic : \A j \in Nat \ {0} : j <= committed[u] => Over(u, j)'
    BY <1>5 DEF DeliveryInv, OverInv
  <2>2. \A u \in Topic : \A j \in Nat \ {0} : Past(u, j)' => Over(u, j)'
    BY <1>1, <1>3, <1>5 DEF DeliveryInv, OverInv, Past
  <2>3. msg'.step = "commit" => Over(t, i)'
    BY <1>1, <1>2, <1>3 DEF HandlerStep, Over, Handled, Reportable, Unaddressed
  <2>. QED
    BY <1>2, <1>3, <2>1, <2>2, <2>3 DEF OverInv
<1>10. OrderInv'
  <2>. SUFFICES ASSUME NEW u \in Topic, NEW j \in 1 .. Len(topic[u]),
                       Handled(u, j)', NEW k \in 1 .. j
                PROVE  Over(u, k)'
    BY <1>3 DEF OrderInv
  <2>1. CASE u = t /\ j = i
    <3>1. CASE k = i
      BY <2>1, <3>1 DEF Over
    <3>2. CASE k # i
      <4>1. k \in Nat \ {0} /\ Past(t, k)
        BY <1>1, <1>2, <1>3, <2>1, <3>2 DEF Past
      <4>. QED
        BY <1>2, <1>5, <2>1, <4>1 DEF DeliveryInv, OverInv
    <3>. QED
      BY <3>1, <3>2
  <2>2. CASE u # t \/ j # i
    <3>1. Handled(u, j)
      BY <1>4, <2>2 DEF Handled
    <3>2. k \in Nat \ {0} /\ Over(u, k)
      BY <3>1 DEF DeliveryInv, OrderInv
    <3>. QED
      BY <1>5, <3>2
  <2>. QED
    BY <2>1, <2>2
<1>11. SentInv' /\ StoppedInv'
  BY <1>3 DEF HandlerStep, StoppedInv
<1>12. FreshInv'
  BY <1>1, <1>3 DEF HandlerStep, FreshInv, Handled
<1>. QED
  BY <1>6, <1>7, <1>8, <1>9, <1>10, <1>11, <1>12 DEF DeliveryInv

\* A message is published: it is the last of its topic, and nothing is known of it yet.
LEMMA PublishKeepsInv ==
  ASSUME DeliveryInv, NEW t \in Topic, Publish(t)
  PROVE  DeliveryInv'
<1>1. PICK n, e : n = Len(topic[t]) /\ e \in Published[t][n + 1] /\ topic' = [topic EXCEPT ![t] = Append(topic[t], e)]
  BY DEF Publish
<1>2. /\ UNCHANGED <<config, live, committed, up, fetched, msg, rows, unread, mails, inbox, skipped, stops>>
      /\ topic[t] \in Seq(Event) /\ n \in Nat /\ n < Len(Published[t])
  BY <1>1 DEF Publish, progress, effects, config, DeliveryInv, TypesInv
<1>3. e \in Event
  BY <1>1, <1>2, DeliveryAssumption
<1>4. /\ topic' \in [Topic -> Seq(Event)]
      /\ Len(topic'[t]) = n + 1
      /\ \A u \in Topic : /\ u # t => topic'[u] = topic[u]
                          /\ Len(topic[u]) \in Nat
                          /\ Len(topic[u]) <= Len(topic'[u])
                          /\ \A j \in 1 .. Len(topic[u]) : topic'[u][j] = topic[u][j]
  BY <1>1, <1>2, <1>3 DEF DeliveryInv, TypesInv
<1>5. TypesInv'
  BY <1>1, <1>2, <1>4, DeliveryAssumption DEF DeliveryInv, TypesInv
<1>6. HandInv'
  BY <1>2 DEF DeliveryInv, HandInv
<1>7. \A u, j : Reports(u, j)' = Reports(u, j) /\ (Handled(u, j)' <=> Handled(u, j))
  BY <1>2 DEF Reports, Handled, Entries
<1>8. ReachInv'
  <2>. SUFFICES ASSUME NEW u \in Topic, NEW j \in Nat \ {0}, Handled(u, j)
                PROVE  j <= Len(topic'[u]) /\ (stops = 0 => j <= fetched[u])
    BY <1>2, <1>7 DEF ReachInv
  <2>1. j <= Len(topic[u]) /\ (stops = 0 => j <= fetched[u])
    BY DEF DeliveryInv, ReachInv
  <2>2. Len(topic'[u]) \in Nat
    BY <1>4
  <2>. QED
    BY <1>4, <2>1, <2>2
<1>9. \A u \in Topic : \A j \in 1 .. Len(topic[u]) : Over(u, j)' <=> Over(u, j)
  BY <1>2, <1>4, SameVerdict
<1>10. \A u \in Topic : committed[u] \in Nat /\ fetched[u] \in Nat
                       /\ committed[u] <= Len(topic[u]) /\ fetched[u] <= Len(topic[u])
  BY <1>4 DEF DeliveryInv, TypesInv
<1>11. msg # NoMessage => /\ msg.topic \in Topic /\ msg.offset \in 1 .. Len(topic[msg.topic])
  BY <1>10 DEF DeliveryInv, HandInv, Message
<1>12. OverInv'
  <2>1. \A u \in Topic : \A j \in Nat \ {0} : j <= committed[u] => Over(u, j)'
    BY <1>4, <1>9, <1>10 DEF DeliveryInv, OverInv
  <2>2. \A u \in Topic : \A j \in Nat \ {0} : Past(u, j) => j \in 1 .. Len(topic[u]) /\ Over(u, j)
    BY <1>4, <1>10 DEF DeliveryInv, OverInv, Past
  <2>3. msg # NoMessage /\ msg.step = "commit" => Over(msg.topic, msg.offset)'
    <3>1. CASE msg # NoMessage /\ msg.step = "commit"
      BY <1>2, <1>9, <1>11, <3>1 DEF DeliveryInv, OverInv
    <3>. QED
      BY <3>1
  <2>. QED
    BY <1>2, <1>9, <2>1, <2>2, <2>3 DEF OverInv, Past
<1>13. OrderInv'
  <2>. SUFFICES ASSUME NEW u \in Topic, NEW j \in 1 .. Len(topic'[u]), Handled(u, j), NEW k \in 1 .. j
                PROVE  Over(u, k)'
    BY <1>7 DEF OrderInv
  <2>1. j \in 1 .. Len(topic[u])
    <3>1. j \in Nat \ {0}
      BY <1>4
    <3>. QED
      BY <1>4, <3>1 DEF DeliveryInv, ReachInv
  <2>2. k \in 1 .. Len(topic[u])
    BY <1>4, <2>1
  <2>. QED
    BY <1>9, <2>1, <2>2 DEF DeliveryInv, OrderInv
<1>14. SentInv'
  BY <1>2 DEF DeliveryInv, SentInv, Entries
<1>15. FreshInv' /\ StoppedInv'
  BY <1>2, <1>7 DEF DeliveryInv, FreshInv, StoppedInv, Before
<1>. QED
  BY <1>5, <1>6, <1>8, <1>12, <1>13, <1>14, <1>15 DEF DeliveryInv

\* The next message is fetched; before the first stop, nothing has been said about it.
LEMMA FetchKeepsInv ==
  ASSUME DeliveryInv, NEW t \in Topic, Fetch(t)
  PROVE  DeliveryInv'
<1>1. PICK i, first : /\ i = fetched[t] + 1
                      /\ first = (IF Relevant(topic[t][i]) THEN FirstStep ELSE "commit")
  OBVIOUS
<1>2. /\ up /\ msg = NoMessage
      /\ fetched[t] < Len(topic[t])
      /\ fetched' = [fetched EXCEPT ![t] = i]
      /\ msg' = [topic |-> t, offset |-> i, attempt |-> 1, step |-> first]
      /\ UNCHANGED <<config, live, topic, committed, up, rows, unread, mails, inbox, skipped, stops>>
  BY <1>1 DEF Fetch, effects, config
<1>3. /\ i \in Nat \ {0} /\ i <= Len(topic[t]) /\ committed[t] < i
      /\ fetched[t] \in Nat /\ Len(topic[t]) \in Nat /\ fetched'[t] = i
      /\ \A u \in Topic : u # t => fetched'[u] = fetched[u]
  BY <1>1, <1>2 DEF DeliveryInv, TypesInv
<1>4. /\ first \in {"insert", "lookup", "commit"}
      /\ first = "commit" => ~Relevant(topic[t][i])
  BY <1>1 DEF FirstStep
<1>5. /\ msg' \in Message /\ msg' # NoMessage
      /\ msg'.topic = t /\ msg'.offset = i /\ msg'.attempt = 1 /\ msg'.step = first
  BY <1>2, <1>3, <1>4, DeliveryAssumption DEF Message, retryAttempts
<1>6. TypesInv'
  BY <1>2, <1>3 DEF DeliveryInv, TypesInv
<1>7. HandInv'
  BY <1>2, <1>3, <1>5 DEF HandInv
<1>8. \A u, j : (Handled(u, j)' <=> Handled(u, j)) /\ (Over(u, j)' <=> Over(u, j))
  BY <1>2, SameVerdict
<1>9. ReachInv'
  BY <1>1, <1>2, <1>3, <1>8 DEF DeliveryInv, ReachInv, TypesInv
<1>10. OverInv'
  <2>1. \A u \in Topic : \A j \in Nat \ {0} : j <= committed[u] => Over(u, j)'
    BY <1>8 DEF DeliveryInv, OverInv
  <2>2. \A u \in Topic : \A j \in Nat \ {0} : Past(u, j)' => Past(u, j)
    BY <1>1, <1>2, <1>3, <1>5, <1>6 DEF Past, TypesInv
  <2>3. \A u \in Topic : \A j \in Nat \ {0} : Past(u, j)' => Over(u, j)'
    BY <1>8, <2>2 DEF DeliveryInv, OverInv
  <2>4. first = "commit" => Over(t, i)'
    BY <1>4, <1>8 DEF Over, Reportable
  <2>. QED
    BY <1>2, <1>5, <2>1, <2>3, <2>4 DEF OverInv
<1>11. OrderInv'
  BY <1>2, <1>8 DEF DeliveryInv, OrderInv
<1>12. SentInv' /\ StoppedInv'
  BY <1>2, <1>4, <1>5 DEF DeliveryInv, SentInv, StoppedInv, Entries
<1>13. FreshInv'
  <2>1. stops = 0 => ~Handled(t, i)
    BY <1>1, <1>3 DEF DeliveryInv, ReachInv
  <2>. QED
    BY <1>2, <1>5, <1>8, <2>1 DEF FreshInv
<1>. QED
  BY <1>6, <1>7, <1>9, <1>10, <1>11, <1>12, <1>13 DEF DeliveryInv

\* The reader is done with the message in hand, or gone; the offset that is committed, if
\* any, is that of an event that is over.
LEMMA LettingGoKeepsInv ==
  ASSUME DeliveryInv, NEW t, NEW i, msg # NoMessage => t = msg.topic /\ i = msg.offset,
         UNCHANGED <<config, topic, fetched, rows, unread, mails, inbox>>,
         msg' = NoMessage, up' \in BOOLEAN, stops' \in Nat, stops' = 0 => stops = 0, ~up' => stops' > 0,
         skipped \subseteq skipped',
         \/ committed' = committed
         \/ /\ msg # NoMessage
            /\ committed' = [committed EXCEPT ![msg.topic] = msg.offset]
            /\ up
            /\ Over(t, i)',
         up' => up /\ (msg # NoMessage => Over(t, i)')
  PROVE  DeliveryInv'
<1>0. live' = live
  BY DEF config
<1>1. \A u \in Topic : \A j \in Nat \ {0} : Over(u, j) => Over(u, j)'
  BY DEF Over, Handled, Reports, Reportable, Relevant, Unaddressed, Entries, config
<1>2. msg # NoMessage =>
        msg.topic \in Topic /\ msg.offset \in Nat \ {0} /\ msg.offset = fetched[msg.topic]
  BY DEF DeliveryInv, HandInv, Message
<1>3. TypesInv'
  <2>1. /\ committed' \in [Topic -> Nat]
        /\ \A u \in Topic : committed'[u] <= fetched[u] /\ fetched[u] <= Len(topic[u])
    <3>1. CASE committed' = committed
      BY <3>1 DEF DeliveryInv, TypesInv
    <3>2. CASE msg # NoMessage /\ committed' = [committed EXCEPT ![msg.topic] = msg.offset]
      BY <1>2, <3>2 DEF DeliveryInv, TypesInv
    <3>. QED
      BY <3>1, <3>2
  <2>. QED
    BY <2>1 DEF DeliveryInv, TypesInv
<1>4. HandInv' /\ FreshInv' /\ StoppedInv'
  BY DEF HandInv, FreshInv, StoppedInv
<1>5. ReachInv'
  BY <1>0 DEF DeliveryInv, ReachInv, Handled, Reports, Entries
<1>6. up => \A u \in Topic : \A j \in Nat \ {0} :
               j <= fetched[u] /\ (msg # NoMessage => msg.topic # u \/ msg.offset # j) => Over(u, j)'
  BY <1>1 DEF DeliveryInv, OverInv, Past
<1>7. OverInv'
  <2>1. \A u \in Topic : \A j \in Nat \ {0} : j <= committed'[u] => Over(u, j)'
    <3>1. CASE committed' = committed
      BY <1>1, <3>1 DEF DeliveryInv, OverInv
    <3>2. CASE /\ msg # NoMessage /\ up /\ Over(t, i)'
               /\ committed' = [committed EXCEPT ![msg.topic] = msg.offset]
      <4>. SUFFICES ASSUME NEW u \in Topic, NEW j \in Nat \ {0}, j <= committed'[u]
                    PROVE  Over(u, j)'
        OBVIOUS
      <4>1. j <= fetched[u]
        BY <1>3 DEF TypesInv
      <4>2. CASE u = msg.topic /\ j = msg.offset
        BY <3>2, <4>2
      <4>3. CASE u # msg.topic \/ j # msg.offset
        BY <1>6, <3>2, <4>1, <4>3
      <4>. QED
        BY <4>2, <4>3
    <3>. QED
      BY <3>1, <3>2
  <2>2. up' => \A u \in Topic : \A j \in Nat \ {0} : j <= fetched[u] => Over(u, j)'
    <3>. SUFFICES ASSUME up', NEW u \in Topic, NEW j \in Nat \ {0}, j <= fetched[u]
                  PROVE  Over(u, j)'
      OBVIOUS
    <3>1. CASE msg # NoMessage /\ u = msg.topic /\ j = msg.offset
      BY <3>1
    <3>2. CASE ~(msg # NoMessage /\ u = msg.topic /\ j = msg.offset)
      BY <1>6, <3>2
    <3>. QED
      BY <3>1, <3>2
  <2>. QED
    BY <2>1, <2>2 DEF OverInv, Past
<1>8. OrderInv'
  <2>1. \A u, j : Handled(u, j)' <=> Handled(u, j)
    BY <1>0 DEF Handled, Reports, Entries
  <2>. QED
    BY <1>1, <2>1 DEF DeliveryInv, OrderInv
<1>9. SentInv'
  BY <1>0 DEF DeliveryInv, SentInv, Entries
<1>. QED
  BY <1>3, <1>4, <1>5, <1>7, <1>8, <1>9 DEF DeliveryInv

LEMMA CommitKeepsInv ==
  ASSUME DeliveryInv, Commit
  PROVE  DeliveryInv'
<1>1. /\ up /\ msg # NoMessage /\ msg.step = "commit"
      /\ committed' \in {committed, [committed EXCEPT ![msg.topic] = msg.offset]}
      /\ msg' = NoMessage
      /\ UNCHANGED <<config, topic, up, fetched, rows, unread, mails, inbox, skipped, stops>>
  BY DEF Commit, InHand, effects
<1>2. PICK t, i : t = msg.topic /\ i = msg.offset
  OBVIOUS
<1>3. Over(t, i)
  BY <1>1, <1>2 DEF DeliveryInv, OverInv
<1>4. Over(t, i)'
  BY <1>1, <1>3, SameVerdict
<1>5. up' \in BOOLEAN /\ stops' \in Nat
  BY <1>1 DEF DeliveryInv, TypesInv
<1>. QED
  BY <1>1, <1>2, <1>4, <1>5, LettingGoKeepsInv DEF DeliveryInv, StoppedInv

LEMMA StopKeepsInv ==
  ASSUME DeliveryInv, Crash \/ Shutdown \/ Panic
  PROVE  DeliveryInv'
<1>1. /\ up /\ up' = FALSE /\ msg' = NoMessage
      /\ stops \in Nat /\ stops' \in Nat /\ stops' > 0
      /\ UNCHANGED <<config, topic, fetched, rows, unread, mails, inbox>>
  <2>1. stops \in Nat /\ MaxStops \in Nat
    BY DeliveryAssumption DEF DeliveryInv, TypesInv
  <2>2. CASE Crash \/ Shutdown
    BY <2>1, <2>2 DEF Crash, Shutdown, Stops, effects
  <2>3. CASE Panic
    BY <2>1, <2>3 DEF Panic, InHand, effects
  <2>. QED
    BY <2>2, <2>3
<1>2. PICK t, i : t = msg.topic /\ i = msg.offset
  OBVIOUS
<1>3. /\ skipped \subseteq skipped'
      /\ \/ committed' = committed
         \/ /\ msg # NoMessage
            /\ committed' = [committed EXCEPT ![msg.topic] = msg.offset]
            /\ Over(t, i)'
  <2>1. CASE UNCHANGED <<committed, skipped>>
    BY <2>1
  <2>2. CASE /\ msg # NoMessage
             /\ committed' = [committed EXCEPT ![msg.topic] = msg.offset]
             /\ skipped' = IF msg.step = "commit" THEN skipped
                           ELSE skipped \cup {<<msg.topic, msg.offset>>}
    <3>1. CASE msg.step = "commit"
      <4>1. Over(t, i) /\ skipped' = skipped
        BY <1>2, <2>2, <3>1 DEF DeliveryInv, OverInv
      <4>. QED
        BY <1>1, <2>2, <4>1, SameVerdict
    <3>2. CASE msg.step # "commit"
      BY <1>2, <2>2, <3>2 DEF Over
    <3>. QED
      BY <3>1, <3>2
  <2>. QED
    BY <2>1, <2>2 DEF Crash, Shutdown, Panic
<1>4. up' \in BOOLEAN
  BY <1>1
<1>. QED
  BY <1>1, <1>2, <1>3, <1>4, LettingGoKeepsInv

\* The process starts again at the committed offsets: everything before them is over.
LEMMA RestartKeepsInv ==
  ASSUME DeliveryInv, Restart
  PROVE  DeliveryInv'
<1>1. /\ ~up /\ up' = TRUE /\ fetched' = committed
      /\ UNCHANGED <<config, live, topic, committed, msg, rows, unread, mails, inbox, skipped, stops>>
  BY DEF Restart, Resume, effects, config
<1>2. msg = NoMessage
  BY <1>1 DEF DeliveryInv, HandInv
<1>3. \A u, j : (Handled(u, j)' <=> Handled(u, j)) /\ (Over(u, j)' <=> Over(u, j))
  BY <1>1, SameVerdict
<1>4. \A u \in Topic : committed[u] \in Nat /\ fetched[u] \in Nat /\ Len(topic[u]) \in Nat
                       /\ committed[u] <= Len(topic[u])
  BY DEF DeliveryInv, TypesInv
<1>5. TypesInv'
  BY <1>1, <1>4 DEF DeliveryInv, TypesInv
<1>6. HandInv' /\ FreshInv'
  BY <1>1, <1>2 DEF HandInv, FreshInv
<1>7. ReachInv'
  <2>1. stops # 0
    BY <1>1 DEF DeliveryInv, StoppedInv
  <2>. QED
    BY <1>1, <1>3, <2>1 DEF DeliveryInv, ReachInv
<1>8. OverInv'
  BY <1>1, <1>2, <1>3 DEF DeliveryInv, OverInv, Past
<1>9. OrderInv'
  BY <1>1, <1>3 DEF DeliveryInv, OrderInv
<1>10. SentInv' /\ StoppedInv'
  BY <1>1, <1>2 DEF DeliveryInv, SentInv, StoppedInv, Entries
<1>. QED
  BY <1>5, <1>6, <1>7, <1>8, <1>9, <1>10 DEF DeliveryInv

\* Reading notifications changes only which of them are unread.
LEMMA MarkReadKeepsInv ==
  ASSUME DeliveryInv, MarkRead
  PROVE  DeliveryInv'
<1>1. /\ unread' \in {EmptyBag} \cup {BagRemove(unread, x) : x \in DOMAIN unread}
      /\ UNCHANGED <<config, live, topic, committed, up, fetched, msg, rows, mails, inbox, skipped, stops>>
  BY DEF MarkRead, progress, config
<1>2. Table(unread') /\ unread' \sqsubseteq rows
  BY <1>1, NoRows, OneLess DEF DeliveryInv, TypesInv
<1>3. TypesInv'
  BY <1>1, <1>2 DEF DeliveryInv, TypesInv
<1>4. \A u, j : (Handled(u, j)' <=> Handled(u, j)) /\ (Over(u, j)' <=> Over(u, j))
  BY <1>1, SameVerdict
<1>5. HandInv' /\ ReachInv' /\ SentInv' /\ StoppedInv'
  BY <1>1, <1>4 DEF DeliveryInv, HandInv, ReachInv, SentInv, StoppedInv, Entries
<1>6. OverInv' /\ OrderInv' /\ FreshInv'
  <2>1. OverInv'
    <3>1. \A u \in Topic : \A j \in Nat \ {0} : j <= committed[u] => Over(u, j)'
      BY <1>4 DEF DeliveryInv, OverInv
    <3>2. \A u \in Topic : \A j \in Nat \ {0} : Past(u, j) => Over(u, j)'
      BY <1>4 DEF DeliveryInv, OverInv
    <3>3. PICK t, i : t = msg.topic /\ i = msg.offset
      OBVIOUS
    <3>4. msg # NoMessage /\ msg.step = "commit" => Over(t, i)'
      BY <1>4, <3>3 DEF DeliveryInv, OverInv
    <3>. QED
      BY <1>1, <3>1, <3>2, <3>3, <3>4 DEF OverInv, Past
  <2>2. OrderInv'
    BY <1>1, <1>4 DEF DeliveryInv, OrderInv
  <2>3. FreshInv'
    BY <1>1, <1>4 DEF DeliveryInv, FreshInv, Before
  <2>. QED
    BY <2>1, <2>2, <2>3
<1>. QED
  BY <1>3, <1>5, <1>6 DEF DeliveryInv

LEMMA StutterKeepsInv ==
  ASSUME DeliveryInv, UNCHANGED deliveryVars
  PROVE  DeliveryInv'
<1>1. UNCHANGED <<config, live, topic, committed, up, fetched, msg, rows, unread, mails, inbox, skipped, stops>>
  BY DEF deliveryVars, progress, effects, config
<1>2. \A u, j : (Handled(u, j)' <=> Handled(u, j)) /\ (Over(u, j)' <=> Over(u, j))
  BY <1>1, SameVerdict
<1>3. TypesInv' /\ HandInv' /\ ReachInv' /\ SentInv' /\ StoppedInv'
  BY <1>1, <1>2 DEF DeliveryInv, TypesInv, HandInv, ReachInv, SentInv, StoppedInv, Entries
<1>4. OverInv' /\ OrderInv' /\ FreshInv'
  <2>1. OrderInv' /\ FreshInv'
    BY <1>1, <1>2 DEF DeliveryInv, OrderInv, FreshInv, Before
  <2>2. \A u, j : Past(u, j)' <=> Past(u, j)
    BY <1>1 DEF Past
  <2>3. PICK t, i : t = msg.topic /\ i = msg.offset
    OBVIOUS
  <2>4. msg # NoMessage /\ msg.step = "commit" => Over(t, i)'
    BY <1>2, <2>3 DEF DeliveryInv, OverInv
  <2>5. OverInv'
    BY <1>1, <1>2, <2>2, <2>3, <2>4 DEF DeliveryInv, OverInv
  <2>. QED
    BY <2>1, <2>5
<1>. QED
  BY <1>3, <1>4 DEF DeliveryInv

\* The inductive invariant holds in every reachable state.
THEOREM DeliveryInvHolds == DeliverySpec => []DeliveryInv
<1>1. DeliveryInv /\ [DeliveryNext]_deliveryVars => DeliveryInv'
  <2>. SUFFICES ASSUME DeliveryInv, [DeliveryNext]_deliveryVars
                PROVE  DeliveryInv'
    OBVIOUS
  <2>1. CASE \E t \in Topic : Publish(t)
    BY <2>1, PublishKeepsInv
  <2>2. CASE ConsumerStep
    <3>1. CASE \E t \in Topic : Fetch(t)
      BY <3>1, FetchKeepsInv
    <3>2. CASE InsertNotification \/ LookupRecipient \/ SendMail \/ LogMail
      <4>1. HandlerStep
        BY <3>2, InsertIsHandlerStep, LookupIsHandlerStep, SendIsHandlerStep, LogIsHandlerStep
      <4>. QED
        BY <4>1, HandlerKeepsInv
    <3>3. CASE Commit
      BY <3>3, CommitKeepsInv
    <3>4. CASE Panic
      BY <3>4, StopKeepsInv
    <3>. QED
      BY <2>2, <3>1, <3>2, <3>3, <3>4 DEF ConsumerStep
  <2>3. CASE MarkRead
    BY <2>3, MarkReadKeepsInv
  <2>4. CASE Crash \/ Shutdown
    BY <2>4, StopKeepsInv
  <2>5. CASE Restart
    BY <2>5, RestartKeepsInv
  <2>6. CASE UNCHANGED deliveryVars
    BY <2>6, StutterKeepsInv
  <2>. QED
    BY <2>1, <2>2, <2>3, <2>4, <2>5, <2>6 DEF DeliveryNext
<1>. QED
  BY <1>1, InvInitially, PTL DEF DeliverySpec

\* The variables have their types; attempts are counted up to retryAttempts.
THEOREM DeliveryTypesHold == DeliverySpec => []DeliveryTypeOK
<1>1. DeliveryInv => DeliveryTypeOK
  BY DEF DeliveryInv, TypesInv, HandInv, DeliveryTypeOK, Message
<1>. QED
  BY <1>1, DeliveryInvHolds, PTL

\* Whatever crashes and whatever fails, the group never moves past an event that it reports
\* but has neither handled nor given up, and with a relay a SENT row stands for a mail sent.
THEOREM NoEventIsPassedOver == DeliverySpec => []NothingIsPassedOver
<1>1. DeliveryInv => NothingIsPassedOver
  BY DEF DeliveryInv, TypesInv, OverInv, OrderInv, SentInv, NothingIsPassedOver
<1>. QED
  BY <1>1, DeliveryInvHolds, PTL

\* A step that writes no table reports nothing.
LEMMA NothingNew ==
  ASSUME DeliveryInv, UNCHANGED <<config, rows, inbox, mails>>, NEW t \in Topic, NEW i \in Nat \ {0}
  PROVE  ~(Reports(t, i)' > Reports(t, i))
<1>1. /\ Entries(rows, t, i) \in Nat /\ Entries(inbox, t, i) \in Nat
      /\ Copies(Logged(t, i, "SENT"), mails) \in Nat
  BY CopiesAreNaturals DEF Entries, DeliveryInv, TypesInv
<1>2. Reports(t, i) \in Nat
  BY <1>1 DEF Reports
<1>3. Reports(t, i)' = Reports(t, i)
  BY DEF Reports, Entries, config
<1>. QED
  BY <1>2, <1>3

\* With a relay, the row in the mail log is not what counts as a report.
LEMMA LoggingReportsNothing ==
  ASSUME DeliveryInv, LogMail, live, NEW t \in Topic, NEW i \in Nat \ {0}
  PROVE  ~(Reports(t, i)' > Reports(t, i))
<1>1. Entries(rows, t, i) \in Nat /\ Entries(inbox, t, i) \in Nat
  BY CopiesAreNaturals DEF Entries, DeliveryInv, TypesInv
<1>2. Reports(t, i)' = Reports(t, i) /\ Reports(t, i) = Entries(rows, t, i) + Entries(inbox, t, i)
  BY DEF Reports, Entries, LogMail, config
<1>. QED
  BY <1>1, <1>2

\* Nothing is reported for a committed event, and nothing twice without a stop or an
\* attempt that failed.
THEOREM CommitsAreFinal == DeliverySpec => CommittedIsFinal
<1> DEFINE Allowed ==
             \A t \in Topic : \A i \in 1 .. Len(topic[t]) :
               Reports(t, i)' > Reports(t, i) =>
                 /\ committed[t] < i
                 /\ Handled(t, i) => stops > 0 \/ msg.attempt > 1
<1>1. ASSUME DeliveryInv, [DeliveryNext]_deliveryVars
      PROVE  Allowed
  <2>1. CASE InsertNotification \/ LookupRecipient \/ SendMail \/ LogMail
    <3>1. HandlerStep
      BY <1>1, <2>1, InsertIsHandlerStep, LookupIsHandlerStep, SendIsHandlerStep, LogIsHandlerStep
    <3>2. /\ msg # NoMessage /\ msg \in Message /\ committed[msg.topic] < msg.offset
          /\ stops \in Nat
      BY <1>1, <3>1 DEF HandlerStep, DeliveryInv, HandInv, TypesInv
    <3>3. \A u \in Topic : \A j \in 1 .. Len(topic[u]) : j \in Nat \ {0} /\ Reports(u, j) \in Nat
      <4>1. PICK t, i : t = msg.topic /\ i = msg.offset
        OBVIOUS
      <4>2. \A u \in Topic : \A j \in Nat \ {0} : Reports(u, j) \in Nat
        BY <1>1, <3>2, <4>1, InHandNow
      <4>3. \A u \in Topic : \A j \in 1 .. Len(topic[u]) : j \in Nat \ {0}
        BY <1>1 DEF DeliveryInv, TypesInv
      <4>. QED
        BY <4>2, <4>3
    <3>4. ASSUME NEW u \in Topic, NEW j \in 1 .. Len(topic[u]), Reports(u, j)' > Reports(u, j)
          PROVE  u = msg.topic /\ j = msg.offset
      BY <3>1, <3>3, <3>4 DEF HandlerStep
    <3>5. CASE LookupRecipient
      <4>1. UNCHANGED <<config, rows, inbox, mails>>
        BY <3>5 DEF LookupRecipient, effects
      <4>. QED
        BY <1>1, <3>3, <4>1, NothingNew
    <3>6. CASE LogMail /\ live
      BY <1>1, <3>3, <3>6, LoggingReportsNothing
    <3>7. CASE InsertNotification \/ SendMail \/ (LogMail /\ ~live)
      <4>1. msg.step \in Before
        BY <3>7 DEF InsertNotification, SendMail, LogMail, InHand, Before
      <4>2. Handled(msg.topic, msg.offset) => stops > 0 \/ msg.attempt > 1
        BY <1>1, <3>2, <4>1 DEF DeliveryInv, FreshInv, Message
      <4>. QED
        BY <3>2, <3>4, <4>2
    <3>. QED
      BY <2>1, <3>5, <3>6, <3>7
  <2>2. CASE UNCHANGED <<config, rows, inbox, mails>>
    <3>1. \A u \in Topic : \A j \in 1 .. Len(topic[u]) : j \in Nat \ {0}
      BY <1>1 DEF DeliveryInv, TypesInv
    <3>. QED
      BY <1>1, <2>2, <3>1, NothingNew
  <2>. QED
    BY <1>1, <2>1, <2>2 DEF DeliveryNext, ConsumerStep, Publish, Fetch, Commit, MarkRead, Crash,
       Shutdown, Panic, Stops, Restart, effects, deliveryVars
<1>2. DeliveryInv /\ [DeliveryNext]_deliveryVars => [Allowed]_deliveryVars
  BY <1>1
<1>3. DeliverySpec => [][Allowed]_deliveryVars
  BY <1>2, DeliveryInvHolds, PTL DEF DeliverySpec
<1>. QED
  BY <1>3 DEF CommittedIsFinal
=============================================================================
