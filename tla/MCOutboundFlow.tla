--------------------------- MODULE MCOutboundFlow ---------------------------
(* Outbound data on small instances: on channel a the producer p, the writer *)
(* u, the callbacks and both sides' closes; channel b, where q is parked and *)
(* whose peer stopped granting.                                              *)
EXTENDS OutboundFlow
CONSTANTS a, b, p, q, u
MCStuckBy == {<<b, q>>}
=============================================================================
