------------------------------ MODULE BytePipe ------------------------------
(***************************************************************************)
(* What one direction of a session's channels promises: a byte put in on   *)
(* one side comes out on the other, once and in order, as long as the      *)
(* channel is intact; when it breaks (closed by this side, given up by its *)
(* reader, over its cap) what is still inside may be cut off at one point, *)
(* and then what comes out is a prefix of what went in.  The bytes of a    *)
(* channel are numbered in the order in which they are put in.             *)
(***************************************************************************)
EXTENDS Integers

CONSTANT Chan

VARIABLES
  put,    \* bytes put in
  pipe,   \* the numbers of the bytes inside
  got,    \* bytes that came out
  broken  \* is the channel broken?

pipeVars == <<put, pipe, got, broken>>

Span(from, to) == from .. to - 1
Only(f, c) == f' = [f EXCEPT ![c] = f'[c]]

Init == \A c \in Chan : /\ got[c] <= put[c] /\ ~broken[c]
                        /\ pipe[c] = Span(got[c], put[c])

Put(c) ==
  /\ ~broken[c]
  /\ put'[c] > put[c] /\ Only(put, c)
  /\ pipe' = [pipe EXCEPT ![c] = @ \cup Span(put[c], put'[c])]
  /\ UNCHANGED <<got, broken>>

\* The bytes that come out are the next ones, and they were inside.
Get(c) ==
  /\ got'[c] > got[c] /\ Only(got, c)
  /\ Span(got[c], got'[c]) \subseteq pipe[c]
  /\ pipe' = [pipe EXCEPT ![c] = @ \ Span(got[c], got'[c])]
  /\ UNCHANGED <<put, broken>>

\* What is put in while it breaks, or afterwards, is cut off as well.
Break(c) ==
  /\ broken' = [broken EXCEPT ![c] = TRUE]
  /\ put'[c] >= put[c] /\ Only(put, c)
  /\ \E end \in got[c] .. put'[c] :
       pipe' = [pipe EXCEPT ![c] = {x \in @ \cup Span(put[c], put'[c]) : x < end}]
  /\ UNCHANGED got

Next == \E c \in Chan : Put(c) \/ Get(c) \/ Break(c)

Spec == Init /\ [][Next]_pipeVars
=============================================================================
