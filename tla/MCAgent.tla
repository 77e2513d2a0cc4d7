------------------------------ MODULE MCAgent ------------------------------
(* The agent on small instances: clients a and b. *)
EXTENDS Agent
CONSTANTS a, b

\* a adds keys, signs and locks; b locks and unlocks, lists, removes and clears.  (A smartcard
\* call is refused like any request of a locked agent, an extension is framed
\* like remove_all.)
MCOps == [c \in {a, b} |-> IF c = a THEN {"add", "sign", "lock", "remove_all"}
                           ELSE {"lock", "unlock", "list", "remove", "clear"}]
MCPasses == {<<"p">>, <<"q">>}
MCConstraints == {<<>>, <<"lifetime">>, <<"lifetime", "extension">>}
=============================================================================
