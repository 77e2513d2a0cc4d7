----------------------------- MODULE MCRunLoop -----------------------------
(* The run loop on small instances. *)
EXTENDS RunLoop
=============================================================================
