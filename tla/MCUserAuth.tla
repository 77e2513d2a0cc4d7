---------------------------- MODULE MCUserAuth ----------------------------
(* User authentication on small instances. *)
EXTENDS UserAuth

\* The lists of methods a Handler proceeds with: none at all, and one.
MCProceed == {{}, {"publickey"}}
=============================================================================
