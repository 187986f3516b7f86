----------------------------- MODULE MCPayments -----------------------------
(***************************************************************************)
(* Payments on a small instance: one order, two intents, two requests.     *)
(***************************************************************************)
EXTENDS Payments

BothGateways == {"stripe", "stub"}
=============================================================================
