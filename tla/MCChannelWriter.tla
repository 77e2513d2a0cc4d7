-------------------------- MODULE MCChannelWriter --------------------------
(* Channel writers on small instances: a ChannelTx t and two calls, k and l. *)
EXTENDS ChannelWriter
CONSTANTS t, k, l
=============================================================================
