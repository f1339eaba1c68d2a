------------------------ MODULE MCBilateralExchange ------------------------
(* Two handlers and as many keys as the longest negotiation has commands.   *)
EXTENDS BilateralExchange, TLC
=============================================================================
