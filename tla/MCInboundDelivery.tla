------------------------- MODULE MCInboundDelivery -------------------------
(* Inbound delivery on small instances: a channel a, and a channel b. *)
EXTENDS InboundDelivery
CONSTANTS a, b

\* A server whose peer obeys its window, and a client whose peer does not.
MCEnds == {[side |-> "server", obeyed |-> TRUE, kinds |-> {"eof", "close", "request", "adjust"}],
           [side |-> "client", obeyed |-> FALSE, kinds |-> {"empty", "eof", "close"}]}
MCServer == {[side |-> "server", obeyed |-> TRUE, kinds |-> {}]}
MCRequests == {[side |-> "server", obeyed |-> TRUE, kinds |-> {"request"}]}
=============================================================================
