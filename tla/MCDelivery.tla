----------------------------- MODULE MCDelivery -----------------------------
(* Delivery for TLC: every provider, and the push provider alone. *)
EXTENDS Delivery

AllProviders == Providers
PushOnly == {"web_push"}
=============================================================================
