----------------------------- MODULE MCDelivery -----------------------------
EXTENDS Delivery

In(form, type) == [type |-> type, form |-> form]

\* Both topics, and every form of an event; payment.refunded is a type mail-service has no
\* email for.
MCPublished ==
  [orders   |-> <<{In("good", "order.placed"), In("payload", "order.placed")},
                  {In("good", "order.shipped")}>>,
   payments |-> <<{In("envelope", "payment.refunded"), In("tenant", "payment.refunded")}>>]
=============================================================================
