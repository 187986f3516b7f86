------------------------------ MODULE Delivery ------------------------------
(***************************************************************************)
(* The consumer side of the events: notification-service and mail-service  *)
(* (events/events.go, notification/eventhandler.go, mail/eventhandler.go). *)
(* Each service is a consumer group of its own on both topics; the groups  *)
(* do not influence each other, so one of them is followed at a time, the  *)
(* one chosen in DeliveryInit.                                             *)
(*                                                                         *)
(* A topic stands for one of its partitions, within which Kafka keeps the  *)
(* order.  A message is fetched, tried up to retryAttempts times, and then *)
(* its offset is committed, whether it was handled, given up, or could not *)
(* be reported to anyone.  The process may crash or be shut down at any    *)
(* step, and panics on some events; it starts again from the committed     *)
(* offsets.                                                                *)
(***************************************************************************)
EXTENDS Integers, Sequences, Bags, BagsExt

CONSTANTS
  Published,   \* Published[t][n]: what may be published on t as its n-th message
  MaxStops,    \* bound: crashes and shutdowns
  MaxCopies,   \* bound: rows and mails per event
  NoMessage    \* the reader is about to fetch

Topic == DOMAIN Published

retryAttempts == 3

\* What a topic may contain.  A "good" event is one as order-service and payment-service
\* publish them.  The consumers also answer for the others: an envelope or a payload that
\* does not parse (or names no customer), and a tenant_id that is not a UUID.
Event == [type : STRING, form : {"good", "envelope", "payload", "tenant"}]

\* A message in the consumer's hands: where it is in Kafka, which attempt at it this is,
\* and what the handler does next.
Message ==
  [topic : Topic, offset : Nat \ {0}, attempt : 1 .. retryAttempts,
   step : {"insert", "lookup", "send", "log", "commit"}]

ASSUME DeliveryAssumption ==
  /\ \A t \in Topic : Published[t] \in Seq(SUBSET Event)
  /\ MaxStops \in Nat /\ MaxCopies \in Nat
  /\ NoMessage \notin Message

\* The types EventHandler of notification-service has a title for.
Surfaced ==
  {"order.placed", "order.confirmed", "order.shipped", "order.cancelled",
   "payment.captured", "payment.refunded"}

\* The types templateFor has an email for.
Emailed == {"order.placed", "order.shipped", "order.cancelled", "payment.captured"}

VARIABLES
  service,     \* whose consumer group it is
  live,        \* mail-service: an SMTP relay is configured, the sender is not the stub
  users,       \* mail-service: the URL of user-management is configured
  topic,       \* topic[t]: the messages in the topic, oldest first
  committed,   \* committed[t]: the group's offset, in Kafka
  up,          \* the process is running
  fetched,     \* fetched[t]: messages the reader has fetched since it started
  msg,         \* the message in hand, with the attempt and the next step
  rows,        \* table notifications, a bag of [topic, offset]
  unread,      \* those of them with read_at NULL
  mails,       \* table mails, a bag of [topic, offset, status]
  inbox,       \* the mails that have reached the shopper, a bag of [topic, offset]
  skipped,     \* events given up, as <<topic, offset>>
  stops        \* crashes and shutdowns so far

config == <<service, live, users>>
progress == <<committed, up, fetched, msg>>
effects == <<rows, unread, mails, inbox>>
deliveryVars == <<config, topic, progress, effects, skipped, stops>>

DeliveryInit ==
  /\ service \in {"notification", "mail"}
  /\ live \in BOOLEAN /\ users \in BOOLEAN
  /\ service = "notification" => live /\ users   \* which do not concern it
  /\ topic = [t \in Topic |-> << >>]
  /\ committed = [t \in Topic |-> 0]
  /\ up = TRUE
  /\ fetched = [t \in Topic |-> 0]
  /\ msg = NoMessage
  /\ rows = EmptyBag
  /\ unread = EmptyBag
  /\ mails = EmptyBag
  /\ inbox = EmptyBag
  /\ skipped = {}
  /\ stops = 0

-----------------------------------------------------------------------------
Of(t, i) == [topic |-> t, offset |-> i]

\* A row of the table mails.
Logged(t, i, status) == [topic |-> t, offset |-> i, status |-> status]

\* How often a row is in a table, or a mail in an inbox.
Copies(e, table) == IF e \in DOMAIN table THEN table[e] ELSE 0

Entries(table, t, i) == Copies(Of(t, i), table)

MailRows(table, t, i) ==
  Copies(Logged(t, i, "SENT"), table) + Copies(Logged(t, i, "FAILED"), table)

\* The handler of the service does something about the event.
Relevant(e) ==
  /\ e.form # "envelope"
  /\ e.type \in IF service = "mail" THEN Emailed ELSE Surfaced

\* mail-service's handler lets the event pass: the payload names no customer, or there
\* is no user-management to ask for the address.
Unaddressed(e) == service = "mail" /\ (e.form = "payload" \/ ~users)

FirstStep == IF service = "mail" THEN "lookup" ELSE "insert"

\* Publisher.Publish; whether an event gets here at all is Orders' and Payments' part.
Publish(t) ==
  /\ Len(topic[t]) < Len(Published[t])
  /\ \E e \in Published[t][Len(topic[t]) + 1] : topic' = [topic EXCEPT ![t] = Append(@, e)]
  /\ UNCHANGED <<config, progress, effects, skipped, stops>>

\* FetchMessage; a bad envelope is committed at once, and so is a type the service does
\* not know.
Fetch(t) ==
  /\ up /\ msg = NoMessage
  /\ fetched[t] < Len(topic[t])
  /\ LET i == fetched[t] + 1
     IN  /\ fetched' = [fetched EXCEPT ![t] = i]
         /\ msg' = [topic |-> t, offset |-> i, attempt |-> 1,
                    step |-> IF Relevant(topic[t][i]) THEN FirstStep ELSE "commit"]
  /\ UNCHANGED <<config, topic, committed, up, effects, skipped, stops>>

InHand(step) == up /\ msg # NoMessage /\ msg.step = step

\* The event of the message in hand.
Current == topic[msg.topic][msg.offset]

GoesTo(step) ==
  /\ msg' = [msg EXCEPT !.step = step]
  /\ UNCHANGED skipped

FailsForGood ==
  /\ msg' = [msg EXCEPT !.step = FirstStep]
  /\ UNCHANGED skipped

RetriesOnceMore ==
  IF msg.attempt <= retryAttempts
    THEN /\ msg' = [msg EXCEPT !.attempt = @ + 1, !.step = FirstStep]
         /\ UNCHANGED skipped
    ELSE /\ msg' = [msg EXCEPT !.step = "commit"]
         /\ skipped' = skipped \cup {<<msg.topic, msg.offset>>}

\* dispatch: the handler is called again after a pause, or the event is given up.
HandlerFails ==
  IF msg.attempt < retryAttempts
    THEN /\ msg' = [msg EXCEPT !.attempt = @ + 1, !.step = FirstStep]
         /\ UNCHANGED skipped
    ELSE /\ msg' = [msg EXCEPT !.step = "commit"]
         /\ skipped' = skipped \cup {<<msg.topic, msg.offset>>}

\* notification-service: Service.Create inserts the row, whose answer may get lost; an
\* unreadable payload or customer is an error.
InsertNotification ==
  /\ InHand("insert") /\ Current.form # "tenant"
  /\ \/ /\ Current.form # "payload"
        /\ Entries(rows, msg.topic, msg.offset) < MaxCopies
        /\ rows' = BagAdd(rows, Of(msg.topic, msg.offset))
        /\ unread' = BagAdd(unread, Of(msg.topic, msg.offset))
        /\ GoesTo("commit") \/ HandlerFails
     \/ HandlerFails /\ UNCHANGED <<rows, unread>>
  /\ UNCHANGED <<config, topic, committed, up, fetched, mails, inbox, stops>>

\* mail-service: userclient.Get, unless there is nobody to write to.
LookupRecipient ==
  /\ InHand("lookup")
  /\ IF Unaddressed(Current) THEN GoesTo("commit") ELSE GoesTo("send") \/ HandlerFails
  /\ UNCHANGED <<config, topic, committed, up, fetched, effects, stops>>

\* Sender.Send: the relay takes the mail, or an error is logged as a FAILED row, unless
\* that INSERT fails too; the mail may be on its way even then.  The stub sends nothing
\* and reports success.
SendMail ==
  /\ InHand("send")
  /\ \/ /\ inbox' = IF live THEN BagAdd(inbox, Of(msg.topic, msg.offset)) ELSE inbox
        /\ GoesTo("log")
        /\ UNCHANGED mails
     \/ /\ live
        /\ inbox' \in {inbox, BagAdd(inbox, Of(msg.topic, msg.offset))}
        /\ mails' \in {mails, BagAdd(mails, Logged(msg.topic, msg.offset, "FAILED"))}
        /\ HandlerFails
  /\ Entries(inbox', msg.topic, msg.offset) <= MaxCopies
  /\ MailRows(mails', msg.topic, msg.offset) <= MaxCopies
  /\ UNCHANGED <<config, topic, committed, up, fetched, rows, unread, stops>>

\* The SENT row; if the INSERT fails or its answer is lost, the handler has failed and
\* sends again.
LogMail ==
  /\ InHand("log")
  /\ \/ /\ MailRows(mails, msg.topic, msg.offset) < MaxCopies
        /\ mails' = BagAdd(mails, Logged(msg.topic, msg.offset, "SENT"))
        /\ GoesTo("commit") \/ HandlerFails
     \/ HandlerFails /\ UNCHANGED mails
  /\ UNCHANGED <<config, topic, committed, up, fetched, rows, unread, inbox, stops>>

\* commit: an error is logged and the next message is fetched.
Commit ==
  /\ InHand("commit")
  /\ committed' \in {committed, [committed EXCEPT ![msg.topic] = msg.offset]}
  /\ msg' = NoMessage
  /\ UNCHANGED <<config, topic, up, fetched, effects, skipped, stops>>

\* The shopper reads notifications: the given ones, or all.
MarkRead ==
  /\ service = "notification"
  /\ unread # EmptyBag
  /\ unread' \in {EmptyBag} \cup {BagRemove(unread, x) : x \in DOMAIN unread}
  /\ UNCHANGED <<config, topic, progress, rows, mails, inbox, skipped, stops>>

-----------------------------------------------------------------------------
Stops ==
  /\ up /\ stops < MaxStops
  /\ up' = FALSE
  /\ stops' = stops + 1
  /\ msg' = NoMessage
  /\ UNCHANGED <<config, topic, fetched, effects>>

\* notification-service: uuid.MustParse panics on the tenant_id, and nothing recovers in
\* the consumer's goroutine.  It may happen any number of times; stops counts no further
\* than it takes to rule out another Crash or Shutdown.
Panic ==
  /\ InHand("insert") /\ Current.form = "tenant"
  /\ up' = FALSE
  /\ stops' = IF stops > MaxStops THEN stops ELSE stops + 1
  /\ msg' = NoMessage
  /\ UNCHANGED <<config, topic, committed, fetched, effects, skipped>>

Crash ==
  /\ Stops
  /\ UNCHANGED <<committed, skipped>>

\* GracefulShutdown cancels the context: the handler is cut short, and whether the
\* commit that follows still goes out with the cancelled context is open.
Shutdown ==
  /\ Stops
  /\ \/ UNCHANGED <<committed, skipped>>
     \/ /\ msg # NoMessage
        /\ committed' = [committed EXCEPT ![msg.topic] = msg.offset]
        /\ skipped' = IF msg.step = "commit" THEN skipped
                      ELSE skipped \cup {<<msg.topic, msg.offset>>}

StartOver == fetched' = [t \in Topic |-> 0]

StartAtEnd == fetched' = [t \in Topic |-> Len(topic[t])]

\* The group's reader starts from the committed offsets.
Resume == fetched' = committed

Restart ==
  /\ ~up
  /\ up' = TRUE
  /\ Resume
  /\ UNCHANGED <<config, topic, committed, msg, effects, skipped, stops>>

-----------------------------------------------------------------------------
ConsumerStep ==
  \/ \E t \in Topic : Fetch(t)
  \/ InsertNotification
  \/ LookupRecipient
  \/ SendMail
  \/ LogMail
  \/ Commit
  \/ Panic

DeliveryNext ==
  \/ \E t \in Topic : Publish(t)
  \/ ConsumerStep
  \/ MarkRead
  \/ Crash
  \/ Shutdown
  \/ Restart

\* Steps that end by themselves: Kafka and the database answer or the connection breaks,
\* userclient gives up after 5 seconds.  smtp.SendMail has no deadline, so a relay that
\* holds the connection holds the consumer.
OwnStep == ConsumerStep /\ ~(live /\ InHand("send"))

\* The process goes on with what it does, and is started again when it is down.
DeliveryFairness == WF_deliveryVars(OwnStep) /\ WF_deliveryVars(Restart)

DeliverySpec == DeliveryInit /\ [][DeliveryNext]_deliveryVars /\ DeliveryFairness

-----------------------------------------------------------------------------
(***************************************************************************)
(* Properties.                                                             *)
(***************************************************************************)

\* The variables have their types; attempts are counted up to retryAttempts.
DeliveryTypeOK ==
  /\ unread \sqsubseteq rows
  /\ \A t \in Topic : /\ topic[t] \in Seq(Event)
                     /\ fetched[t] \in 0 .. Len(topic[t])
                     /\ committed[t] \in 0 .. Len(topic[t])
  /\ msg # NoMessage => /\ up
                        /\ msg.attempt \in 1 .. retryAttempts
                        /\ msg.offset = fetched[msg.topic]
                        /\ msg.step \in {"insert", "lookup", "send", "log", "commit"}

\* How often the shopper was told of the event: in the app, by a mail that arrived, or, with
\* the stub in place of a relay, by one that was only logged.
Reports(t, i) ==
  Entries(rows, t, i) + IF live THEN Entries(inbox, t, i) ELSE Copies(Logged(t, i, "SENT"), mails)

Handled(t, i) == Reports(t, i) > 0

\* There is someone to tell, and something to say.
Reportable(t, i) == Relevant(topic[t][i]) /\ ~Unaddressed(topic[t][i])

Over(t, i) == Reportable(t, i) => Handled(t, i) \/ <<t, i>> \in skipped

(***************************************************************************)
(* "Handlers are at-least-once: a failing handler is retried a few times,  *)
(* then logged and skipped."  The group never moves past an event that the *)
(* service reports but has neither handled nor given up: not by a commit,  *)
(* which covers all earlier offsets, and not by handling a later event of  *)
(* the topic first.  Only the third failure or a shutdown gives an event   *)
(* up; bad envelopes, types the service does not know, and for the mails   *)
(* payloads without a customer, or any event while user-management is not  *)
(* configured, are committed without a report.  With a relay, a SENT row   *)
(* in the mail log stands for a mail that the relay took.                  *)
(***************************************************************************)
NothingIsPassedOver ==
  /\ \A t \in Topic :
       /\ \A i \in 1 .. committed[t] : Over(t, i)
       /\ \A i \in 1 .. Len(topic[t]) : Handled(t, i) => \A j \in 1 .. i : Over(t, j)
  /\ live => \A t \in Topic : \A i \in 1 .. Len(topic[t]) :
               Copies(Logged(t, i, "SENT"), mails) <= Entries(inbox, t, i)

(***************************************************************************)
(* A commit is final ("committed offsets"): an event is reported only      *)
(* while its offset is not committed, and a second time only after the     *)
(* consumer was stopped, or after an attempt whose success it could not    *)
(* know or log.                                                            *)
(***************************************************************************)
CommittedIsFinal ==
  [][\A t \in Topic : \A i \in 1 .. Len(topic[t]) :
       Reports(t, i)' > Reports(t, i) =>
         /\ committed[t] < i
         /\ Handled(t, i) => stops > 0 \/ msg.attempt > 1]_deliveryVars

\* The reader has fetched the event and is done with it.
Past(t, i) ==
  up /\ fetched[t] >= i /\ (msg # NoMessage => msg.topic # t \/ msg.offset # i)

\* No send hangs for good.
RelayAnswers == []<>~InHand("send")

\* No event makes the handler panic.
NothingPanics == [](\A t \in Topic : \A i \in 1 .. Len(topic[t]) :
                      service = "notification" => topic[t][i].form # "tenant")

(***************************************************************************)
(* "so one poison message can't stall the group", "a consumer that's down  *)
(* catches up when it returns": in the end the group gets past every       *)
(* published event, which is then handled, given up or one that concerns   *)
(* nobody, if the process is started again and is stopped finitely often.  *)
(* The code needs two more things: that the mail relay answers, for the    *)
(* sender has no deadline, and that no tenant_id makes the handler panic,  *)
(* for such an event is fetched again after every restart.  Errors,        *)
(* unreadable payloads and bad envelopes never stall the group.            *)
(***************************************************************************)
EventsGetThrough ==
  RelayAnswers /\ NothingPanics =>
    \A t \in Topic : \A i \in 1 .. Len(Published[t]) :
      Len(topic[t]) >= i ~> Past(t, i) /\ Over(t, i)
=============================================================================
