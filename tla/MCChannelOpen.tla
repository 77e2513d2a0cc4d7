--------------------------- MODULE MCChannelOpen ---------------------------
(* Channel opens and global requests on small instances. *)
EXTENDS ChannelOpen
CONSTANTS c1, c2

\* Both roles of russh against russh and against other implementations.
MCEnds == {<<"client", "russh">>, <<"server", "russh">>, <<"client", "other">>,
           <<"server", "other">>, <<"other", "russh">>}
=============================================================================
