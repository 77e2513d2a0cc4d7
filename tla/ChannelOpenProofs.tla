------------------------- MODULE ChannelOpenProofs -------------------------
(***************************************************************************)
(* Proofs about opening channels and asking global requests.               *)
(***************************************************************************)
EXTENDS ChannelOpen, FiniteSetTheorems, SequenceTheorems, TLAPS

USE DEF openerVars, appVars, responderVars

-----------------------------------------------------------------------------
(* Sequences of packets of whatever shape, and the numbers of the requests *)
(* and answers among them.                                                 *)

IsSeq(s) == \E S : s \in Seq(S)

\* The numbers that the packets of kind m in s carry.
Nums(s, m) == {s[k].of : k \in {j \in 1 .. Len(s) : s[j].msg = m}}

\* Those packets are in the order of their numbers.
Sorted(s, m) == \A j, k \in 1 .. Len(s) : j < k /\ s[j].msg = m /\ s[k].msg = m => s[j].of < s[k].of

\* The entries of the queue of open requests, and its order.
Entries(f) == {f[k] : k \in 1 .. Len(f)}
Rising(f) == \A j, k \in 1 .. Len(f) : j < k => f[j] < f[k]

\* No packet of kind m.
Free(s, m) == \A k \in 1 .. Len(s) : s[k].msg # m

\* Two sequences put together are a sequence.
LEMMA ConcatIsSeq == ASSUME NEW s, NEW t, IsSeq(s), IsSeq(t) PROVE IsSeq(s \o t)
<1>1. PICK S : s \in Seq(S) BY DEF IsSeq
<1>2. PICK T : t \in Seq(T) BY DEF IsSeq
<1>3. s \in Seq(S \cup T) /\ t \in Seq(S \cup T) BY <1>1, <1>2
<1>4. s \o t \in Seq(S \cup T) BY <1>3
<1> QED BY <1>4 DEF IsSeq

\* So is what a sequence is without its head.
LEMMA TailIsSeq == ASSUME NEW s, IsSeq(s), s # <<>> PROVE IsSeq(Tail(s))
<1>1. PICK S : s \in Seq(S) BY DEF IsSeq
<1>2. Tail(s) \in Seq(S) BY <1>1
<1> QED BY <1>2 DEF IsSeq

\* One more packet.
LEMMA AppendSeq == ASSUME NEW s, NEW p, IsSeq(s) PROVE IsSeq(<<p>>) /\ Append(s, p) = s \o <<p>>
<1>1. PICK S : s \in Seq(S) BY DEF IsSeq
<1>2. s \in Seq(S \cup {p}) /\ p \in S \cup {p} BY <1>1
<1>3. <<p>> \in Seq(S \cup {p}) BY <1>2
<1>4. Append(s, p) = s \o <<p>> BY <1>2, AppendIsConcat
<1> QED BY <1>3, <1>4 DEF IsSeq

\* What s \o t is, place by place.
LEMMA ConcatAt ==
  ASSUME NEW s, NEW t, IsSeq(s), IsSeq(t)
  PROVE  /\ Len(s) \in Nat /\ Len(t) \in Nat /\ Len(s \o t) = Len(s) + Len(t)
         /\ \A k \in 1 .. Len(s) : (s \o t)[k] = s[k]
         /\ \A k \in 1 .. Len(t) : (s \o t)[Len(s) + k] = t[k]
         /\ \A k \in 1 .. Len(s \o t) : k \in 1 .. Len(s) \/ \E j \in 1 .. Len(t) : k = Len(s) + j
<1>1. PICK S : s \in Seq(S) BY DEF IsSeq
<1>2. PICK T : t \in Seq(T) BY DEF IsSeq
<1>3. s \in Seq(S \cup T) /\ t \in Seq(S \cup T) BY <1>1, <1>2
<1>4. Len(s) \in Nat /\ Len(t) \in Nat /\ Len(s \o t) = Len(s) + Len(t) BY <1>3
<1>5. \A k \in 1 .. Len(s) + Len(t) : (s \o t)[k] = IF k <= Len(s) THEN s[k] ELSE t[k - Len(s)]
  BY <1>3, ConcatProperties
<1>6. \A k \in 1 .. Len(s) : (s \o t)[k] = s[k] BY <1>4, <1>5
<1>7. ASSUME NEW k \in 1 .. Len(t) PROVE (s \o t)[Len(s) + k] = t[k]
  <2>1. Len(s) + k \in 1 .. Len(s) + Len(t) /\ ~(Len(s) + k <= Len(s)) /\ (Len(s) + k) - Len(s) = k BY <1>4
  <2> QED BY <1>5, <2>1
<1>8. ASSUME NEW k \in 1 .. Len(s \o t) PROVE k \in 1 .. Len(s) \/ \E j \in 1 .. Len(t) : k = Len(s) + j
  <2>1. CASE k <= Len(s) BY <2>1, <1>4
  <2>2. CASE ~(k <= Len(s))
    <3>1. k - Len(s) \in 1 .. Len(t) /\ k = Len(s) + (k - Len(s)) BY <1>4, <2>2
    <3> QED BY <3>1
  <2> QED BY <2>1, <2>2
<1> QED BY <1>4, <1>6, <1>7, <1>8

\* What the tail of s is, place by place.
LEMMA TailAt ==
  ASSUME NEW s, IsSeq(s), s # <<>>
  PROVE  /\ Len(s) \in Nat /\ Len(s) >= 1 /\ Len(Tail(s)) = Len(s) - 1 /\ Head(s) = s[1]
         /\ \A k \in 1 .. Len(Tail(s)) : k + 1 \in 1 .. Len(s) /\ Tail(s)[k] = s[k + 1]
         /\ \A k \in 1 .. Len(s) : k = 1 \/ (k - 1 \in 1 .. Len(Tail(s)) /\ s[k] = Tail(s)[k - 1])
<1>1. PICK S : s \in Seq(S) BY DEF IsSeq
<1>2. Len(s) \in Nat /\ Len(s) >= 1 BY <1>1, EmptySeq
<1>3. /\ Len(Tail(s)) = Len(s) - 1 /\ Head(s) = s[1]
      /\ \A k \in 1 .. Len(Tail(s)) : Tail(s)[k] = s[k + 1]
  BY <1>1, HeadTailProperties
<1>4. ASSUME NEW k \in 1 .. Len(Tail(s)) PROVE k + 1 \in 1 .. Len(s) BY <1>2, <1>3
<1>5. ASSUME NEW k \in 1 .. Len(s), k # 1 PROVE k - 1 \in 1 .. Len(Tail(s)) /\ s[k] = Tail(s)[k - 1]
  <2>1. k - 1 \in 1 .. Len(Tail(s)) /\ (k - 1) + 1 = k BY <1>2, <1>3, <1>5
  <2> QED BY <2>1, <1>3
<1> QED BY <1>2, <1>3, <1>4, <1>5

\* Packets without a number of kind m change neither the numbers nor their order.
LEMMA FreeConcat ==
  ASSUME NEW s, NEW t, NEW m, IsSeq(s), IsSeq(t), Free(t, m), Sorted(s, m)
  PROVE  Sorted(s \o t, m) /\ Nums(s \o t, m) = Nums(s, m)
<1> DEFINE u == s \o t
<1>1. /\ Len(s) \in Nat /\ Len(t) \in Nat /\ Len(u) = Len(s) + Len(t)
      /\ \A k \in 1 .. Len(s) : u[k] = s[k]
      /\ \A k \in 1 .. Len(t) : u[Len(s) + k] = t[k]
      /\ \A k \in 1 .. Len(u) : k \in 1 .. Len(s) \/ \E j \in 1 .. Len(t) : k = Len(s) + j
  BY ConcatAt
<1> HIDE DEF u
<1>2. ASSUME NEW k \in 1 .. Len(u), u[k].msg = m PROVE k \in 1 .. Len(s) /\ u[k] = s[k]
  BY <1>1, <1>2 DEF Free
<1>3. ASSUME NEW k \in 1 .. Len(s) PROVE k \in 1 .. Len(u) /\ u[k] = s[k]
  BY <1>1
<1>4. Sorted(u, m) BY <1>2 DEF Sorted
<1>5. Nums(u, m) = Nums(s, m) BY <1>2, <1>3 DEF Nums
<1> QED BY <1>4, <1>5 DEF u

\* A packet of kind m that is added carries the greatest number.
LEMMA AddNumber ==
  ASSUME NEW s, NEW p, NEW m, IsSeq(s), p.msg = m, Sorted(s, m), \A n \in Nums(s, m) : n < p.of
  PROVE  Sorted(s \o <<p>>, m) /\ Nums(s \o <<p>>, m) = Nums(s, m) \cup {p.of}
<1> DEFINE t == <<p>>
<1> DEFINE u == s \o t
<1>0. IsSeq(t) /\ Len(t) = 1 /\ t[1] = p BY AppendSeq
<1>1. /\ Len(s) \in Nat /\ Len(t) \in Nat /\ Len(u) = Len(s) + Len(t)
      /\ \A k \in 1 .. Len(s) : u[k] = s[k]
      /\ \A k \in 1 .. Len(t) : u[Len(s) + k] = t[k]
      /\ \A k \in 1 .. Len(u) : k \in 1 .. Len(s) \/ \E j \in 1 .. Len(t) : k = Len(s) + j
  BY <1>0, ConcatAt
<1> HIDE DEF t, u
<1>2. Len(u) = Len(s) + 1 /\ u[Len(s) + 1] = p /\ Len(s) + 1 \in 1 .. Len(u) BY <1>0, <1>1
<1>3. ASSUME NEW k \in 1 .. Len(u), k # Len(s) + 1 PROVE k \in 1 .. Len(s) /\ u[k] = s[k]
  BY <1>1, <1>2, <1>3
<1>4. ASSUME NEW k \in 1 .. Len(s) PROVE k \in 1 .. Len(u) /\ u[k] = s[k] BY <1>1, <1>2
<1>5. ASSUME NEW j \in 1 .. Len(u), NEW k \in 1 .. Len(u), j < k, u[j].msg = m, u[k].msg = m
      PROVE  u[j].of < u[k].of
  <2>1. j # Len(s) + 1 BY <1>1, <1>2, <1>5
  <2>2. j \in 1 .. Len(s) /\ u[j] = s[j] BY <2>1, <1>3
  <2>3. CASE k = Len(s) + 1
    <3>1. s[j].of \in Nums(s, m) BY <2>2, <1>5 DEF Nums
    <3> QED BY <3>1, <2>2, <2>3, <1>2
  <2>4. CASE k # Len(s) + 1 BY <2>2, <2>4, <1>3, <1>5 DEF Sorted
  <2> QED BY <2>3, <2>4
<1>6. Sorted(u, m) BY <1>5 DEF Sorted
<1>7. Nums(u, m) = Nums(s, m) \cup {p.of} BY <1>2, <1>3, <1>4 DEF Nums
<1> QED BY <1>6, <1>7 DEF t, u

\* Taking the head away: nothing happens to the numbers of kind m unless the
\* head is of that kind, and then its number is the least.
LEMMA TakeOther ==
  ASSUME NEW s, NEW m, IsSeq(s), s # <<>>, Sorted(s, m), Head(s).msg # m
  PROVE  Sorted(Tail(s), m) /\ Nums(Tail(s), m) = Nums(s, m)
<1> DEFINE t == Tail(s)
<1>1. /\ Len(s) \in Nat /\ Len(s) >= 1 /\ Len(t) = Len(s) - 1 /\ Head(s) = s[1]
      /\ \A k \in 1 .. Len(t) : k + 1 \in 1 .. Len(s) /\ t[k] = s[k + 1]
      /\ \A k \in 1 .. Len(s) : k = 1 \/ (k - 1 \in 1 .. Len(t) /\ s[k] = t[k - 1])
  BY TailAt
<1> HIDE DEF t
<1>2. Sorted(t, m)
  <2>1. ASSUME NEW j \in 1 .. Len(t), NEW k \in 1 .. Len(t), j < k, t[j].msg = m, t[k].msg = m
        PROVE  t[j].of < t[k].of
    <3>1. j + 1 \in 1 .. Len(s) /\ k + 1 \in 1 .. Len(s) /\ j + 1 < k + 1 BY <1>1, <2>1
    <3>2. t[j] = s[j + 1] /\ t[k] = s[k + 1] BY <1>1
    <3> QED BY <3>1, <3>2, <2>1 DEF Sorted
  <2> QED BY <2>1 DEF Sorted
<1>3. Nums(t, m) \subseteq Nums(s, m) BY <1>1 DEF Nums
<1>4. Nums(s, m) \subseteq Nums(t, m) BY <1>1 DEF Nums
<1> QED BY <1>2, <1>3, <1>4 DEF t

LEMMA TakeNumber ==
  ASSUME NEW s, NEW m, IsSeq(s), s # <<>>, Sorted(s, m), Head(s).msg = m
  PROVE  /\ Sorted(Tail(s), m) /\ Nums(s, m) = Nums(Tail(s), m) \cup {Head(s).of}
         /\ \A n \in Nums(Tail(s), m) : Head(s).of < n
<1> DEFINE t == Tail(s)
<1>1. /\ Len(s) \in Nat /\ Len(s) >= 1 /\ Len(t) = Len(s) - 1 /\ Head(s) = s[1]
      /\ \A k \in 1 .. Len(t) : k + 1 \in 1 .. Len(s) /\ t[k] = s[k + 1]
      /\ \A k \in 1 .. Len(s) : k = 1 \/ (k - 1 \in 1 .. Len(t) /\ s[k] = t[k - 1])
  BY TailAt
<1> HIDE DEF t
<1>2. Sorted(t, m)
  <2>1. ASSUME NEW j \in 1 .. Len(t), NEW k \in 1 .. Len(t), j < k, t[j].msg = m, t[k].msg = m
        PROVE  t[j].of < t[k].of
    <3>1. j + 1 \in 1 .. Len(s) /\ k + 1 \in 1 .. Len(s) /\ j + 1 < k + 1 BY <1>1, <2>1
    <3>2. t[j] = s[j + 1] /\ t[k] = s[k + 1] BY <1>1
    <3> QED BY <3>1, <3>2, <2>1 DEF Sorted
  <2> QED BY <2>1 DEF Sorted
<1>3. Nums(t, m) \subseteq Nums(s, m) BY <1>1 DEF Nums
<1>4. Head(s).of \in Nums(s, m) BY <1>1 DEF Nums
<1>5. Nums(s, m) \subseteq Nums(t, m) \cup {Head(s).of} BY <1>1 DEF Nums
<1>6. ASSUME NEW n \in Nums(t, m) PROVE Head(s).of < n
  <2>1. PICK k \in 1 .. Len(t) : t[k].msg = m /\ n = t[k].of BY DEF Nums
  <2>2. k + 1 \in 1 .. Len(s) /\ t[k] = s[k + 1] /\ 1 \in 1 .. Len(s) /\ 1 < k + 1 BY <1>1
  <2> QED BY <2>1, <2>2, <1>1 DEF Sorted
<1> QED BY <1>2, <1>3, <1>4, <1>5, <1>6 DEF t

\* The queue of open requests: adding a number greater than all of it.
LEMMA PushEntry ==
  ASSUME NEW f \in Seq(Nat), NEW n \in Nat
  PROVE  /\ Append(f, n) \in Seq(Nat) /\ Entries(Append(f, n)) = Entries(f) \cup {n}
         /\ Rising(f) /\ (\A e \in Entries(f) : e < n) => Rising(Append(f, n))
<1> DEFINE g == Append(f, n)
<1>1. /\ g \in Seq(Nat) /\ Len(f) \in Nat /\ Len(g) = Len(f) + 1 /\ g[Len(f) + 1] = n
      /\ \A k \in 1 .. Len(f) : g[k] = f[k]
  OBVIOUS
<1> HIDE DEF g
<1>2. \A k \in 1 .. Len(g) : k = Len(f) + 1 \/ k \in 1 .. Len(f) BY <1>1
<1>3. \A k \in 1 .. Len(f) : k \in 1 .. Len(g) BY <1>1
<1>4. Len(f) + 1 \in 1 .. Len(g) BY <1>1
<1>5. Entries(g) = Entries(f) \cup {n} BY <1>1, <1>2, <1>3, <1>4 DEF Entries
<1>6. ASSUME Rising(f), \A e \in Entries(f) : e < n PROVE Rising(g)
  <2>1. ASSUME NEW j \in 1 .. Len(g), NEW k \in 1 .. Len(g), j < k PROVE g[j] < g[k]
    <3>1. j \in 1 .. Len(f) BY <1>1, <2>1
    <3>2. CASE k = Len(f) + 1 BY <3>1, <3>2, <1>1, <1>6 DEF Entries
    <3>3. CASE k \in 1 .. Len(f) BY <3>1, <3>3, <1>1, <1>6, <2>1 DEF Rising
    <3> QED BY <3>2, <3>3, <1>2
  <2> QED BY <2>1 DEF Rising
<1> QED BY <1>1, <1>5, <1>6 DEF g

\* Taking its head, which is the least entry when the queue is rising.
LEMMA PopEntry ==
  ASSUME NEW f \in Seq(Nat), f # <<>>
  PROVE  /\ Tail(f) \in Seq(Nat) /\ Head(f) \in Nat /\ Entries(f) = Entries(Tail(f)) \cup {Head(f)}
         /\ Rising(f) => Rising(Tail(f)) /\ \A e \in Entries(Tail(f)) : Head(f) < e
<1> DEFINE t == Tail(f)
<1>0. t \in Seq(Nat) /\ Head(f) \in Nat /\ IsSeq(f) BY HeadTailProperties DEF IsSeq
<1>1. /\ Len(f) \in Nat /\ Len(f) >= 1 /\ Len(t) = Len(f) - 1 /\ Head(f) = f[1]
      /\ \A k \in 1 .. Len(t) : k + 1 \in 1 .. Len(f) /\ t[k] = f[k + 1]
      /\ \A k \in 1 .. Len(f) : k = 1 \/ (k - 1 \in 1 .. Len(t) /\ f[k] = t[k - 1])
  BY <1>0, TailAt
<1> HIDE DEF t
<1>2. Entries(t) \subseteq Entries(f) BY <1>1 DEF Entries
<1>3. Head(f) \in Entries(f) BY <1>1 DEF Entries
<1>4. Entries(f) \subseteq Entries(t) \cup {Head(f)} BY <1>1 DEF Entries
<1>5. ASSUME Rising(f) PROVE Rising(t) /\ \A e \in Entries(t) : Head(f) < e
  <2>1. ASSUME NEW j \in 1 .. Len(t), NEW k \in 1 .. Len(t), j < k PROVE t[j] < t[k]
    <3>1. j + 1 \in 1 .. Len(f) /\ k + 1 \in 1 .. Len(f) /\ j + 1 < k + 1 BY <1>1, <2>1
    <3> QED BY <3>1, <1>1, <1>5 DEF Rising
  <2>2. ASSUME NEW e \in Entries(t) PROVE Head(f) < e
    <3>1. PICK k \in 1 .. Len(t) : e = t[k] BY DEF Entries
    <3>2. k + 1 \in 1 .. Len(f) /\ t[k] = f[k + 1] /\ 1 \in 1 .. Len(f) /\ 1 < k + 1 BY <1>1
    <3> QED BY <3>1, <3>2, <1>1, <1>5 DEF Rising
  <2> QED BY <2>1, <2>2 DEF Rising
<1> QED BY <1>0, <1>2, <1>3, <1>4, <1>5 DEF t
-----------------------------------------------------------------------------
(* Answers to global requests.  They carry no number, so that the one who  *)
(* gets an answer is whoever is first in line.                             *)

\* Among the requests on their way the answerable ones are those in line.
Asked(s, F) == \A k \in 1 .. Len(s) : s[k].msg = "REQUEST" => (Answers(s[k].req) <=> s[k].of \in F)

\* The line of open requests is the answers on their way and, behind them, the
\* requests still to be read that will be answered.
Line ==
  /\ Rising(fifo) /\ Sorted(toO, "ANSWER") /\ Sorted(toR, "REQUEST")
  /\ Nums(toO, "ANSWER") \subseteq Entries(fifo)
  /\ Entries(fifo) \subseteq Nums(toO, "ANSWER") \cup Nums(toR, "REQUEST")
  /\ Nums(toR, "REQUEST") \subseteq 1 .. Len(requests)
  /\ \A a \in Nums(toO, "ANSWER"), r \in Nums(toR, "REQUEST") : a < r
  /\ Asked(toR, Entries(fifo))

LineInv ==
  /\ IsSeq(toO) /\ IsSeq(toR) /\ IsSeq(replies)
  /\ requests \in Seq({"waiting", "nobody", "own", "other's"})
  /\ fifo \in Seq(Nat) /\ Entries(fifo) \subseteq 1 .. Len(requests)
  /\ skewed \in BOOLEAN
  /\ opener = "other" => fifo = <<>>
  /\ AnswerToAsker
  /\ ~skewed => Line

\* The invariant holds at the start.
LEMMA LineInit == Init => LineInv
<1> SUFFICES ASSUME Init PROVE LineInv OBVIOUS
<1>1. toO = <<>> /\ toR = <<>> /\ replies = <<>> /\ requests = <<>> /\ fifo = <<>> /\ skewed = FALSE
  BY DEF Init
<1>2. <<>> \in Seq(Nat) /\ Len(<<>>) = 0 OBVIOUS
<1>3. IsSeq(<<>>) BY <1>2 DEF IsSeq
<1>4. requests \in Seq({"waiting", "nobody", "own", "other's"}) BY <1>1
<1>5. \A k \in 1 .. Len(<<>>) : FALSE BY <1>2
<1>6. Nums(<<>>, "ANSWER") = {} /\ Nums(<<>>, "REQUEST") = {} BY <1>5 DEF Nums
<1>7. Entries(<<>>) = {} BY <1>5 DEF Entries
<1>8. Rising(<<>>) BY <1>5 DEF Rising
<1>9. Sorted(<<>>, "ANSWER") /\ Sorted(<<>>, "REQUEST") BY <1>5 DEF Sorted
<1>10. Asked(<<>>, {}) BY <1>5 DEF Asked
<1>11. AnswerToAsker BY <1>1, <1>2 DEF AnswerToAsker
<1>12. Line BY <1>1, <1>6, <1>7, <1>8, <1>9, <1>10 DEF Line
<1> QED BY <1>1, <1>2, <1>3, <1>4, <1>7, <1>11, <1>12 DEF LineInv

LEMMA AskedConcat ==
  ASSUME NEW s, NEW t, NEW F, IsSeq(s), IsSeq(t), Free(t, "REQUEST"), Asked(s, F) PROVE Asked(s \o t, F)
<1> DEFINE u == s \o t
<1>1. /\ Len(s) \in Nat /\ Len(t) \in Nat /\ Len(u) = Len(s) + Len(t)
      /\ \A k \in 1 .. Len(s) : u[k] = s[k]
      /\ \A k \in 1 .. Len(t) : u[Len(s) + k] = t[k]
      /\ \A k \in 1 .. Len(u) : k \in 1 .. Len(s) \/ \E j \in 1 .. Len(t) : k = Len(s) + j
  BY ConcatAt
<1> HIDE DEF u
<1>2. ASSUME NEW k \in 1 .. Len(u), u[k].msg = "REQUEST" PROVE k \in 1 .. Len(s) /\ u[k] = s[k]
  BY <1>1, <1>2 DEF Free
<1>3. Asked(u, F) BY <1>2 DEF Asked
<1> QED BY <1>3 DEF u

LEMMA AskedTail ==
  ASSUME NEW s, NEW F, IsSeq(s), s # <<>>, Asked(s, F) PROVE Asked(Tail(s), F)
<1>1. \A k \in 1 .. Len(Tail(s)) : k + 1 \in 1 .. Len(s) /\ Tail(s)[k] = s[k + 1] BY TailAt
<1> QED BY <1>1 DEF Asked

\* Growing s to u leaves the numbers of kind m alone.
Grown(s, u, m) == \E t : IsSeq(t) /\ Free(t, m) /\ u = s \o t

\* A step that touches neither the line nor an answer nor a request.
LEMMA QuietStep ==
  ASSUME LineInv, IsSeq(replies'), opener' = opener, responder' = responder,
         requests' = requests, fifo' = fifo, skewed' = skewed,
         \/ toO' = toO
         \/ Grown(toO, toO', "ANSWER")
         \/ toO # <<>> /\ toO' = Tail(toO) /\ (Head(toO).msg # "ANSWER" \/ skewed),
         \/ toR' = toR
         \/ Grown(toR, toR', "REQUEST")
         \/ toR # <<>> /\ toR' = Tail(toR) /\ Head(toR).msg # "REQUEST"
  PROVE  LineInv'
<1>1. IsSeq(toO) /\ IsSeq(toR) /\ skewed \in BOOLEAN BY DEF LineInv
<1>2. IsSeq(toO')
  <2>1. CASE toO' = toO BY <2>1, <1>1
  <2>2. CASE Grown(toO, toO', "ANSWER") BY <2>2, <1>1, ConcatIsSeq DEF Grown
  <2>3. CASE toO # <<>> /\ toO' = Tail(toO) BY <2>3, <1>1, TailIsSeq
  <2> QED BY <2>1, <2>2, <2>3
<1>3. IsSeq(toR')
  <2>1. CASE toR' = toR BY <2>1, <1>1
  <2>2. CASE Grown(toR, toR', "REQUEST") BY <2>2, <1>1, ConcatIsSeq DEF Grown
  <2>3. CASE toR # <<>> /\ toR' = Tail(toR) BY <2>3, <1>1, TailIsSeq
  <2> QED BY <2>1, <2>2, <2>3
<1>4. ASSUME ~skewed PROVE Line'
  <2>1. Line BY <1>4 DEF LineInv
  <2>2. Sorted(toO', "ANSWER") /\ Nums(toO', "ANSWER") = Nums(toO, "ANSWER")
    <3>0. Sorted(toO, "ANSWER") BY <2>1 DEF Line
    <3>1. CASE toO' = toO BY <3>0, <3>1
    <3>2. CASE Grown(toO, toO', "ANSWER") BY <3>0, <3>2, <1>1, FreeConcat DEF Grown
    <3>3. CASE toO # <<>> /\ toO' = Tail(toO) /\ Head(toO).msg # "ANSWER" BY <3>0, <3>3, <1>1, TakeOther
    <3> QED BY <3>1, <3>2, <3>3, <1>4
  <2>3. Sorted(toR', "REQUEST") /\ Nums(toR', "REQUEST") = Nums(toR, "REQUEST")
    <3>0. Sorted(toR, "REQUEST") BY <2>1 DEF Line
    <3>1. CASE toR' = toR BY <3>0, <3>1
    <3>2. CASE Grown(toR, toR', "REQUEST") BY <3>0, <3>2, <1>1, FreeConcat DEF Grown
    <3>3. CASE toR # <<>> /\ toR' = Tail(toR) /\ Head(toR).msg # "REQUEST" BY <3>0, <3>3, <1>1, TakeOther
    <3> QED BY <3>1, <3>2, <3>3
  <2> DEFINE F == Entries(fifo)
  <2>4. Asked(toR', F)
    <3>0. Asked(toR, F) BY <2>1 DEF Line
    <3> HIDE DEF F
    <3>1. CASE toR' = toR BY <3>0, <3>1
    <3>2. CASE Grown(toR, toR', "REQUEST") BY <3>0, <3>2, <1>1, AskedConcat DEF Grown
    <3>3. CASE toR # <<>> /\ toR' = Tail(toR) BY <3>0, <3>3, <1>1, AskedTail
    <3> QED BY <3>1, <3>2, <3>3
  <2>5. Entries(fifo)' = Entries(fifo) BY DEF Entries
  <2>6. Rising(fifo)' BY <2>1 DEF Line
  <2>7. Asked(toR, Entries(fifo))' BY <2>4, <2>5 DEF Asked, Answers
  <2> QED BY <2>1, <2>2, <2>3, <2>5, <2>6, <2>7 DEF Line
<1>5. AnswerToAsker' BY DEF LineInv, AnswerToAsker
<1>6. Entries(fifo)' = Entries(fifo) BY DEF Entries
<1> QED BY <1>2, <1>3, <1>4, <1>5, <1>6 DEF LineInv

\* A request joins the line as its last entry.
LEMMA AskStep == ASSUME LineInv, NEW q \in Request, OpenerAsks(q) PROVE LineInv'
<1> DEFINE n == Len(requests) + 1
<1> DEFINE p == [msg |-> "REQUEST", of |-> n, req |-> q]
<1> DEFINE w == IF Waits(q) THEN "waiting" ELSE "nobody"
<1>1. /\ requests' = Append(requests, w)
      /\ fifo' = IF Pushes(q) THEN Append(fifo, n) ELSE fifo
      /\ toR' = Append(toR, p)
      /\ skewed' = (skewed \/ Pushes(q) # Answers(q))
      /\ UNCHANGED <<opener, responder, toO, replies>> /\ opener # "other"
  BY DEF OpenerAsks, Russh
<1>2. /\ IsSeq(toO) /\ IsSeq(toR) /\ IsSeq(replies)
      /\ requests \in Seq({"waiting", "nobody", "own", "other's"})
      /\ fifo \in Seq(Nat) /\ Entries(fifo) \subseteq 1 .. Len(requests)
      /\ skewed \in BOOLEAN /\ AnswerToAsker /\ (~skewed => Line)
  BY DEF LineInv
<1>3. p.msg = "REQUEST" /\ p.of = n /\ p.req = q OBVIOUS
<1>4. n \in Nat /\ Len(requests) \in Nat BY <1>2
<1>5. w \in {"waiting", "nobody"} OBVIOUS
<1> HIDE DEF p, w
<1>6. requests' \in Seq({"waiting", "nobody", "own", "other's"}) /\ Len(requests') = n BY <1>1, <1>2, <1>5
<1>7. \A k \in 1 .. Len(requests') : k = n \/ k \in 1 .. Len(requests) BY <1>4, <1>6
<1>8. requests'[n] = w /\ \A k \in 1 .. Len(requests) : requests'[k] = requests[k] BY <1>1, <1>2, <1>5
<1> HIDE DEF n
<1>9. AnswerToAsker'
  <2>1. ~skewed' => ~skewed BY <1>1, <1>2
  <2>2. DOMAIN requests = 1 .. Len(requests) /\ DOMAIN requests' = 1 .. Len(requests') BY <1>2, <1>6
  <2> QED BY <2>1, <2>2, <1>2, <1>5, <1>7, <1>8 DEF AnswerToAsker
<1>10. IsSeq(<<p>>) /\ toR' = toR \o <<p>> BY <1>1, <1>2, AppendSeq
<1>11. IsSeq(toR') BY <1>2, <1>10, ConcatIsSeq
<1>12. \A e \in Entries(fifo) : e < n /\ e \in 1 .. Len(requests') BY <1>2, <1>4, <1>6 DEF n
<1>13. /\ Append(fifo, n) \in Seq(Nat) /\ Entries(Append(fifo, n)) = Entries(fifo) \cup {n}
       /\ Rising(fifo) => Rising(Append(fifo, n))
  BY <1>2, <1>4, <1>12, PushEntry
<1>14. n \in 1 .. Len(requests') BY <1>4, <1>6 DEF n
<1>15. Entries(fifo') = Entries(fifo) \cup (IF Pushes(q) THEN {n} ELSE {}) BY <1>1, <1>13
<1>16. fifo' \in Seq(Nat) BY <1>1, <1>2, <1>13
<1>17. Entries(fifo') \subseteq 1 .. Len(requests') BY <1>12, <1>14, <1>15
<1>18. ASSUME ~skewed' PROVE Line'
  <2>1. ~skewed /\ (Pushes(q) <=> Answers(q))
    <3>1. Pushes(q) \in BOOLEAN /\ Answers(q) \in BOOLEAN BY DEF Pushes, Answers, Request
    <3> QED BY <1>1, <1>2, <1>18, <3>1
  <2>2. Line BY <2>1, <1>2
  <2>3. Rising(fifo') BY <1>1, <1>13, <2>2 DEF Line
  <2>4. \A r \in Nums(toR, "REQUEST") : r < n /\ r \in 1 .. Len(requests')
    BY <2>2, <1>4, <1>6 DEF Line, n
  <2>5. Sorted(toR', "REQUEST") /\ Nums(toR', "REQUEST") = Nums(toR, "REQUEST") \cup {n}
    BY <1>2, <1>3, <1>10, <2>2, <2>4, AddNumber DEF Line
  <2>6. \A a \in Nums(toO, "ANSWER") : a < n BY <2>2, <1>12 DEF Line
  <2>7. /\ Nums(toO, "ANSWER") \subseteq Entries(fifo')
        /\ Entries(fifo') \subseteq Nums(toO, "ANSWER") \cup Nums(toR', "REQUEST")
        /\ Nums(toR', "REQUEST") \subseteq 1 .. Len(requests')
        /\ \A a \in Nums(toO, "ANSWER"), r \in Nums(toR', "REQUEST") : a < r
    BY <2>2, <2>4, <2>5, <2>6, <1>14, <1>15 DEF Line
  <2>8. Asked(toR', Entries(fifo'))
    <3>1. SUFFICES ASSUME NEW k \in 1 .. Len(toR'), toR'[k].msg = "REQUEST"
                   PROVE  Answers(toR'[k].req) <=> toR'[k].of \in Entries(fifo')
      BY DEF Asked
    <3>2. /\ Len(toR) \in Nat /\ Len(<<p>>) = 1 /\ <<p>>[1] = p
          /\ \A j \in 1 .. Len(toR) : toR'[j] = toR[j]
          /\ \A j \in 1 .. Len(<<p>>) : toR'[Len(toR) + j] = <<p>>[j]
          /\ k \in 1 .. Len(toR) \/ \E j \in 1 .. Len(<<p>>) : k = Len(toR) + j
      BY <1>2, <1>10, ConcatAt
    <3>3. CASE k \in 1 .. Len(toR)
      <4>1. toR'[k] = toR[k] BY <3>2, <3>3
      <4>2. toR[k].of \in Nums(toR, "REQUEST") BY <3>1, <3>3, <4>1 DEF Nums
      <4>3. toR[k].of < n /\ toR[k].of \in Nat BY <4>2, <2>4, <2>2 DEF Line
      <4>4. toR[k].of # n BY <4>3, <1>4
      <4>5. Answers(toR[k].req) <=> toR[k].of \in Entries(fifo) BY <2>2, <3>1, <3>3, <4>1 DEF Line, Asked
      <4> QED BY <4>1, <4>4, <4>5, <1>15
    <3>4. CASE ~(k \in 1 .. Len(toR))
      <4>1. toR'[k] = p BY <3>2, <3>4
      <4>2. n \notin Entries(fifo) BY <1>2, <1>4, <1>12
      <4> QED BY <4>1, <4>2, <1>3, <1>15, <2>1
    <3> QED BY <3>3, <3>4
  <2>9. Asked(toR, Entries(fifo))' BY <2>8, <1>1 DEF Asked, Answers
  <2> QED BY <2>2, <2>3, <2>5, <2>7, <2>9, <1>1 DEF Line
<1> QED BY <1>1, <1>2, <1>6, <1>9, <1>11, <1>16, <1>17, <1>18 DEF LineInv

\* An answer goes to the head of the line, which is the one it was given for.
LEMMA AnswerStep ==
  ASSUME LineInv, OpenerReads, Head(toO).msg = "ANSWER" PROVE LineInv'
<1> DEFINE n == Head(toO).of
<1> DEFINE h == Head(fifo)
<1>1. /\ toO # <<>> /\ toO' = Tail(toO) /\ OpenerAnswered(n) /\ opener # "other"
      /\ UNCHANGED <<opener, responder, toR, replies, skewed>>
  BY DEF OpenerReads, Russh
<1>2. /\ IsSeq(toO) /\ IsSeq(toR) /\ IsSeq(replies)
      /\ requests \in Seq({"waiting", "nobody", "own", "other's"})
      /\ fifo \in Seq(Nat) /\ Entries(fifo) \subseteq 1 .. Len(requests)
      /\ skewed \in BOOLEAN /\ AnswerToAsker /\ (~skewed => Line)
  BY DEF LineInv
<1>3. /\ fifo' = IF fifo = <<>> THEN fifo ELSE Tail(fifo)
      /\ requests' = IF fifo = <<>> \/ requests[h] # "waiting" THEN requests
                     ELSE [requests EXCEPT ![h] = IF n = h THEN "own" ELSE "other's"]
  BY <1>1 DEF OpenerAnswered
<1> HIDE DEF n, h
<1>4. IsSeq(toO') BY <1>1, <1>2, TailIsSeq
<1>5. fifo # <<>> =>
        /\ Tail(fifo) \in Seq(Nat) /\ h \in Nat /\ Entries(fifo) = Entries(Tail(fifo)) \cup {h}
        /\ Rising(fifo) => Rising(Tail(fifo)) /\ \A e \in Entries(Tail(fifo)) : h < e
  BY <1>2, PopEntry DEF h
<1>6. fifo' \in Seq(Nat) /\ Entries(fifo') \subseteq Entries(fifo) BY <1>2, <1>3, <1>5
<1>7. requests' \in Seq({"waiting", "nobody", "own", "other's"}) /\ Len(requests') = Len(requests)
  <2> DEFINE W == {"waiting", "nobody", "own", "other's"}
  <2> DEFINE v == IF n = h THEN "own" ELSE "other's"
  <2>1. v \in W OBVIOUS
  <2>2. requests' = requests \/ requests' = [requests EXCEPT ![h] = v] BY <1>3
  <2>3. requests \in Seq(W) BY <1>2
  <2> HIDE DEF v, W
  <2>4. [requests EXCEPT ![h] = v] \in Seq(W) /\ Len([requests EXCEPT ![h] = v]) = Len(requests)
    <3>1. requests \in [1 .. Len(requests) -> W] /\ Len(requests) \in Nat BY <2>3
    <3>2. [requests EXCEPT ![h] = v] \in [1 .. Len(requests) -> W] BY <3>1, <2>1
    <3> QED BY <3>1, <3>2
  <2>5. requests' \in Seq(W) /\ Len(requests') = Len(requests) BY <2>2, <2>3, <2>4
  <2> QED BY <2>5 DEF W
<1>8. Entries(fifo') \subseteq 1 .. Len(requests') BY <1>2, <1>6, <1>7
<1>9. ASSUME ~skewed PROVE fifo # <<>> /\ h = n /\ Line'
  <2>1. Line BY <1>2, <1>9
  <2>2. /\ Sorted(toO', "ANSWER") /\ Nums(toO, "ANSWER") = Nums(toO', "ANSWER") \cup {n}
        /\ \A a \in Nums(toO', "ANSWER") : n < a
    BY <2>1, <1>1, <1>2, TakeNumber DEF Line, n
  <2>3. n \in Entries(fifo) /\ n \in Nat BY <2>1, <2>2, <1>2 DEF Line
  <2>4. fifo # <<>>
    <3>1. SUFFICES ASSUME fifo = <<>> PROVE FALSE OBVIOUS
    <3>2. Len(fifo) = 0 BY <3>1
    <3> QED BY <2>3, <3>2 DEF Entries
  <2>5. \A e \in Entries(fifo) : e = n \/ n < e
    <3>1. ASSUME NEW e \in Entries(fifo), e \in Nums(toR, "REQUEST") PROVE n < e
      BY <2>1, <2>2, <3>1 DEF Line
    <3> QED BY <2>1, <2>2, <3>1 DEF Line
  <2>6. h \in Entries(fifo) /\ h \in Nat BY <2>4, <1>5
  <2>7. n = h \/ h < n BY <2>3, <2>4, <2>1, <1>5 DEF Line
  <2>8. h = n BY <2>3, <2>5, <2>6, <2>7
  <2>9. fifo' = Tail(fifo) BY <1>3, <2>4
  <2>10. Rising(fifo') /\ \A e \in Entries(fifo') : n < e BY <2>1, <2>4, <2>8, <2>9, <1>5 DEF Line
  <2>11. Entries(fifo') \subseteq Nat BY <1>2, <1>6
  <2>12. Entries(fifo) = Entries(fifo') \cup {n} BY <2>4, <2>8, <2>9, <1>5
  <2>13. n \notin Entries(fifo') BY <2>3, <2>10, <2>11
  <2>14. Nums(toO', "ANSWER") \subseteq Nat BY <2>1, <2>2, <1>2 DEF Line
  <2>15. n \notin Nums(toO', "ANSWER") BY <2>2, <2>3, <2>14
  <2>16. Nums(toR, "REQUEST") \subseteq Nat /\ \A r \in Nums(toR, "REQUEST") : n < r
    BY <2>1, <2>2 DEF Line
  <2>17. n \notin Nums(toR, "REQUEST") BY <2>3, <2>16
  <2>18. /\ Nums(toO', "ANSWER") \subseteq Entries(fifo')
         /\ Entries(fifo') \subseteq Nums(toO', "ANSWER") \cup Nums(toR, "REQUEST")
         /\ Nums(toR, "REQUEST") \subseteq 1 .. Len(requests')
         /\ \A a \in Nums(toO', "ANSWER"), r \in Nums(toR, "REQUEST") : a < r
    BY <2>1, <2>2, <2>12, <2>13, <2>15, <1>7 DEF Line
  <2>19. Asked(toR, Entries(fifo'))
    <3>1. SUFFICES ASSUME NEW k \in 1 .. Len(toR), toR[k].msg = "REQUEST"
                   PROVE  Answers(toR[k].req) <=> toR[k].of \in Entries(fifo')
      BY DEF Asked
    <3>2. toR[k].of \in Nums(toR, "REQUEST") BY <3>1 DEF Nums
    <3>3. Answers(toR[k].req) <=> toR[k].of \in Entries(fifo) BY <2>1, <3>1 DEF Line, Asked
    <3> QED BY <3>2, <3>3, <2>12, <2>17
  <2>20. Asked(toR, Entries(fifo))' BY <2>19, <1>1 DEF Asked, Answers
  <2>21. Sorted(toR, "REQUEST") BY <2>1 DEF Line
  <2>22. Line' BY <2>2, <2>10, <2>18, <2>20, <2>21, <1>1 DEF Line
  <2> QED BY <2>4, <2>8, <2>22
<1>10. AnswerToAsker'
  <2>1. SUFFICES ASSUME ~skewed, NEW k \in DOMAIN requests' PROVE requests'[k] # "other's"
    BY <1>1 DEF AnswerToAsker
  <2>2. DOMAIN requests' = 1 .. Len(requests) /\ DOMAIN requests = 1 .. Len(requests) BY <1>2, <1>7
  <2>3. requests[k] # "other's" BY <2>1, <2>2, <1>2 DEF AnswerToAsker
  <2>4. h = n BY <1>9, <2>1
  <2> QED BY <2>2, <2>3, <2>4, <1>3
<1> QED BY <1>1, <1>2, <1>4, <1>6, <1>7, <1>8, <1>9, <1>10 DEF LineInv

\* A request that is read becomes the last answer on its way, if it is answered.
LEMMA AskedStep ==
  ASSUME LineInv, ResponderReads, Head(toR).msg = "REQUEST" PROVE LineInv'
<1> DEFINE p == Head(toR)
<1> DEFINE a == [msg |-> "ANSWER", of |-> p.of]
<1>1. /\ toR # <<>> /\ toR' = Tail(toR)
      /\ toO' = IF Answers(p.req) THEN Append(toO, a) ELSE toO
      /\ UNCHANGED <<opener, responder, requests, fifo, skewed, replies>>
  BY DEF ResponderReads, ResponderAsked
<1>2. /\ IsSeq(toO) /\ IsSeq(toR) /\ IsSeq(replies)
      /\ requests \in Seq({"waiting", "nobody", "own", "other's"})
      /\ fifo \in Seq(Nat) /\ Entries(fifo) \subseteq 1 .. Len(requests)
      /\ skewed \in BOOLEAN /\ AnswerToAsker /\ (~skewed => Line)
  BY DEF LineInv
<1>3. a.msg = "ANSWER" /\ a.of = p.of OBVIOUS
<1> HIDE DEF p, a
<1>4. IsSeq(toR') BY <1>1, <1>2, TailIsSeq
<1>5. IsSeq(<<a>>) /\ Append(toO, a) = toO \o <<a>> BY <1>2, AppendSeq
<1>6. IsSeq(toO') BY <1>1, <1>2, <1>5, ConcatIsSeq
<1>7. ASSUME ~skewed PROVE Line'
  <2>1. Line BY <1>2, <1>7
  <2>2. /\ Sorted(toR', "REQUEST") /\ Nums(toR, "REQUEST") = Nums(toR', "REQUEST") \cup {p.of}
        /\ \A r \in Nums(toR', "REQUEST") : p.of < r
    BY <2>1, <1>1, <1>2, TakeNumber DEF Line, p
  <2>3. Asked(toR', Entries(fifo))
    <3> DEFINE F == Entries(fifo)
    <3>1. Asked(toR, F) BY <2>1 DEF Line
    <3> HIDE DEF F
    <3>2. Asked(toR', F) BY <3>1, <1>1, <1>2, AskedTail
    <3> QED BY <3>2 DEF F
  <2>4. Answers(p.req) <=> p.of \in Entries(fifo)
    <3>1. Len(toR) \in Nat /\ Len(toR) >= 1 /\ p = toR[1] BY <1>1, <1>2, TailAt DEF p
    <3>2. 1 \in 1 .. Len(toR) /\ toR[1].msg = "REQUEST" BY <3>1 DEF p
    <3> QED BY <3>1, <3>2, <2>1 DEF Line, Asked
  <2>5. \A b \in Nums(toO, "ANSWER") : b < p.of BY <2>1, <2>2 DEF Line
  <2>6. /\ Sorted(toO \o <<a>>, "ANSWER")
        /\ Nums(toO \o <<a>>, "ANSWER") = Nums(toO, "ANSWER") \cup {p.of}
    BY <2>1, <2>5, <1>2, <1>3, AddNumber DEF Line
  <2>7. /\ Sorted(toO', "ANSWER")
        /\ Nums(toO', "ANSWER") = Nums(toO, "ANSWER") \cup (IF Answers(p.req) THEN {p.of} ELSE {})
    BY <2>1, <2>6, <1>1, <1>5 DEF Line
  <2>8. /\ Nums(toO', "ANSWER") \subseteq Entries(fifo)
        /\ Entries(fifo) \subseteq Nums(toO', "ANSWER") \cup Nums(toR', "REQUEST")
    BY <2>1, <2>2, <2>4, <2>7 DEF Line
  <2>9. /\ Nums(toR', "REQUEST") \subseteq 1 .. Len(requests)
        /\ \A b \in Nums(toO', "ANSWER"), r \in Nums(toR', "REQUEST") : b < r
    BY <2>1, <2>2, <2>7 DEF Line
  <2>10. Asked(toR, Entries(fifo))' BY <2>3, <1>1 DEF Asked, Answers, Entries
  <2> QED BY <2>1, <2>2, <2>7, <2>8, <2>9, <2>10, <1>1 DEF Line
<1>8. AnswerToAsker' BY <1>1, <1>2 DEF AnswerToAsker
<1> QED BY <1>1, <1>2, <1>4, <1>6, <1>7, <1>8 DEF LineInv

\* Two sequences without a packet of kind m.
LEMMA FreeBoth ==
  ASSUME NEW s, NEW t, NEW m, IsSeq(s), IsSeq(t), Free(s, m), Free(t, m) PROVE Free(s \o t, m)
<1>1. /\ \A k \in 1 .. Len(s) : (s \o t)[k] = s[k]
      /\ \A k \in 1 .. Len(t) : (s \o t)[Len(s) + k] = t[k]
      /\ \A k \in 1 .. Len(s \o t) : k \in 1 .. Len(s) \/ \E j \in 1 .. Len(t) : k = Len(s) + j
  BY ConcatAt
<1> QED BY <1>1 DEF Free

\* The packets for queued answers to CHANNEL_OPEN answer no request.
LEMMA DrainedFree ==
  ASSUME IsSeq(replies) PROVE IsSeq(Drained) /\ Free(Drained, "ANSWER") /\ Len(Drained) = Len(replies)
<1> DEFINE N == Len(replies)
<1> DEFINE T == {Finalized(replies[k]) : k \in 1 .. N}
<1>1. PICK S : replies \in Seq(S) BY DEF IsSeq
<1>2. N \in Nat /\ DOMAIN replies = 1 .. N BY <1>1
<1>3. Drained = [k \in 1 .. N |-> Finalized(replies[k])] BY <1>2 DEF Drained
<1>4. Drained \in [1 .. N -> T] BY <1>3
<1> HIDE DEF N, T
<1>5. Drained \in Seq(T) /\ Len(Drained) = N BY <1>2, <1>4
<1>6. ASSUME NEW k \in 1 .. Len(Drained) PROVE Drained[k].msg # "ANSWER"
  <2>1. Drained[k] = Finalized(replies[k]) BY <1>3, <1>5
  <2>2. Finalized(replies[k]).msg # "ANSWER" BY DEF Finalized
  <2> QED BY <2>1, <2>2
<1> QED BY <1>5, <1>6 DEF IsSeq, Free, N

\* Every step keeps the line.
LEMMA LineStep == LineInv /\ [Next]_vars => LineInv'
<1> SUFFICES ASSUME LineInv, [Next]_vars PROVE LineInv' OBVIOUS
<1>0. IsSeq(toO) /\ IsSeq(toR) /\ IsSeq(replies) BY DEF LineInv
<1>a. ASSUME NEW p, p.msg # "ANSWER" PROVE Grown(toO, Append(toO, p), "ANSWER")
  <2>1. IsSeq(<<p>>) /\ Append(toO, p) = toO \o <<p>> BY <1>0, AppendSeq
  <2>2. Free(<<p>>, "ANSWER") BY <1>a DEF Free
  <2> QED BY <2>1, <2>2 DEF Grown
<1>b. ASSUME NEW p, p.msg # "REQUEST" PROVE Grown(toR, Append(toR, p), "REQUEST")
  <2>1. IsSeq(<<p>>) /\ Append(toR, p) = toR \o <<p>> BY <1>0, AppendSeq
  <2>2. Free(<<p>>, "REQUEST") BY <1>b DEF Free
  <2> QED BY <2>1, <2>2 DEF Grown
<1>c. ASSUME NEW r PROVE IsSeq(Append(replies, r))
  <2>1. IsSeq(<<r>>) /\ Append(replies, r) = replies \o <<r>> BY <1>0, AppendSeq
  <2> QED BY <2>1, <1>0, ConcatIsSeq
<1>d. IsSeq(<<>>)
  <2>1. <<>> \in Seq({}) OBVIOUS
  <2> QED BY <2>1 DEF IsSeq
<1>e. Grown(toO, toO \o Drained, "ANSWER") BY <1>0, DrainedFree DEF Grown
<1>1. ASSUME NEW c \in Calls, AppOpens(c) \/ AppDrops(c) \/ AppReads(c) \/ AppDisconnected(c) PROVE LineInv'
  <2>1. UNCHANGED <<opener, responder, requests, fifo, skewed, toR, toO, replies>>
    BY <1>1 DEF AppOpens, AppDrops, AppReads, AppDisconnected
  <2> QED BY <2>1, <1>0, QuietStep
<1>2. ASSUME NEW q \in Request, OpenerAsks(q) PROVE LineInv' BY <1>2, AskStep
<1>3. CASE OpenerDispatches
  <2> DEFINE p == [msg |-> "OPEN", id |-> lastId', of |-> Head(queue), served |-> TRUE]
  <2>1. toR' = Append(toR, p) /\ UNCHANGED <<opener, responder, requests, fifo, skewed, toO, replies>>
    BY <1>3 DEF OpenerDispatches, channel_open_generic
  <2>2. p.msg # "REQUEST" OBVIOUS
  <2> HIDE DEF p
  <2>3. Grown(toR, toR', "REQUEST") BY <2>1, <2>2, <1>b
  <2> QED BY <2>1, <2>3, <1>0, QuietStep
<1>4. CASE OpenerReads
  <2>1. CASE Head(toO).msg = "ANSWER" BY <1>4, <2>1, AnswerStep
  <2>2. CASE Head(toO).msg # "ANSWER"
    <3>1. /\ toO # <<>> /\ toO' = Tail(toO)
          /\ UNCHANGED <<opener, responder, requests, fifo, skewed, toR, replies>>
      BY <1>4, <2>2 DEF OpenerReads
    <3> QED BY <2>2, <3>1, <1>0, QuietStep
  <2> QED BY <2>1, <2>2
<1>5. ASSUME NEW c \in Calls, NEW served \in BOOLEAN, PeerOpens(c, served) PROVE LineInv'
  <2> DEFINE p == [msg |-> "OPEN", id |-> lastId + 1, of |-> c, served |-> served]
  <2>1. toR' = Append(toR, p) /\ UNCHANGED <<opener, responder, requests, fifo, skewed, toO, replies>>
    BY <1>5 DEF PeerOpens
  <2>2. p.msg # "REQUEST" OBVIOUS
  <2> HIDE DEF p
  <2>3. Grown(toR, toR', "REQUEST") BY <2>1, <2>2, <1>b
  <2> QED BY <2>1, <2>3, <1>0, QuietStep
<1>6. CASE PeerReads
  <2>1. /\ opener = "other" /\ toO # <<>> /\ toO' = Tail(toO)
        /\ UNCHANGED <<opener, responder, requests, fifo, skewed, toR, replies>>
    BY <1>6 DEF PeerReads
  <2>2. ASSUME ~skewed PROVE Head(toO).msg # "ANSWER"
    <3>1. SUFFICES ASSUME Head(toO).msg = "ANSWER" PROVE FALSE OBVIOUS
    <3>2. Len(toO) \in Nat /\ Len(toO) >= 1 /\ Head(toO) = toO[1] BY <2>1, <1>0, TailAt
    <3>3. toO[1].of \in Nums(toO, "ANSWER") BY <3>1, <3>2 DEF Nums
    <3>4. toO[1].of \in Entries(fifo) BY <3>3, <2>2 DEF LineInv, Line
    <3>5. fifo = <<>> BY <2>1 DEF LineInv
    <3>6. Len(fifo) = 0 BY <3>5
    <3> QED BY <3>4, <3>6 DEF Entries
  <2> QED BY <2>1, <2>2, <1>0, QuietStep
<1>7. CASE ResponderReads
  <2>1. CASE Head(toR).msg = "REQUEST" BY <1>7, <2>1, AskedStep
  <2>2. CASE Head(toR).msg # "REQUEST"
    <3> DEFINE p == [msg |-> "REFUSE", id |-> Head(toR).id]
    <3>1. /\ toR # <<>> /\ toR' = Tail(toR) /\ ResponderOpened(Head(toR))
          /\ UNCHANGED <<opener, responder, requests, fifo, skewed>>
      BY <1>7, <2>2 DEF ResponderReads
    <3>2. \/ toO' = toO /\ replies' = replies
          \/ toO' = Append(toO, p) /\ \E r : replies' = Append(replies, r)
      BY <3>1 DEF ResponderOpened
    <3>3. p.msg # "ANSWER" OBVIOUS
    <3> HIDE DEF p
    <3>4. toO' = toO \/ Grown(toO, toO', "ANSWER") BY <3>2, <3>3, <1>a
    <3>5. IsSeq(replies') BY <3>2, <1>0, <1>c
    <3> QED BY <3>1, <3>4, <3>5, <2>2, QuietStep
  <2> QED BY <2>1, <2>2
<1>8. CASE ResponderDrains
  <2>1. toO' = toO \o Drained /\ replies' = <<>> /\ UNCHANGED <<opener, responder, requests, fifo, skewed, toR>>
    BY <1>8 DEF ResponderDrains
  <2> QED BY <2>1, <1>d, <1>e, QuietStep
<1>9. CASE ResponderDispatches
  <2> DEFINE known == Head(writes) \in DOMAIN Registered
  <2> DEFINE t == IF known THEN <<[msg |-> "DATA", id |-> handles[Head(writes)].peer]>> ELSE <<>>
  <2>1. /\ toO' = toO \o Drained \o t /\ replies' = <<>>
        /\ UNCHANGED <<opener, responder, requests, fifo, skewed, toR>>
    BY <1>9 DEF ResponderDispatches
  <2>2. IsSeq(t) /\ Free(t, "ANSWER")
    <3> DEFINE d == [msg |-> "DATA", id |-> handles[Head(writes)].peer]
    <3>1. d.msg # "ANSWER" OBVIOUS
    <3>2. t = <<d>> \/ t = <<>> OBVIOUS
    <3> HIDE DEF d, t
    <3>3. IsSeq(<<d>>) BY <1>0, AppendSeq
    <3>4. Free(<<d>>, "ANSWER") BY <3>1 DEF Free
    <3>5. Len(<<>>) = 0 OBVIOUS
    <3>6. Free(<<>>, "ANSWER") BY <3>5 DEF Free
    <3> QED BY <3>2, <3>3, <3>4, <3>6, <1>d
  <2> HIDE DEF t, known
  <2>3. IsSeq(Drained \o t) /\ Free(Drained \o t, "ANSWER")
    <3>1. IsSeq(Drained) /\ Free(Drained, "ANSWER") BY <1>0, DrainedFree
    <3>3. Free(Drained \o t, "ANSWER") BY <3>1, <2>2, FreeBoth
    <3> QED BY <3>1, <3>3, <2>2, ConcatIsSeq
  <2>4. toO' = toO \o (Drained \o t)
    <3>1. PICK S : toO \in Seq(S) BY <1>0 DEF IsSeq
    <3>2. PICK D : Drained \in Seq(D) BY <1>0, DrainedFree DEF IsSeq
    <3>3. PICK T : t \in Seq(T) BY <2>2 DEF IsSeq
    <3>4. toO \in Seq(S \cup D \cup T) /\ Drained \in Seq(S \cup D \cup T) /\ t \in Seq(S \cup D \cup T)
      BY <3>1, <3>2, <3>3
    <3> QED BY <3>4, <2>1, ConcatAssociative
  <2>5. Grown(toO, toO', "ANSWER") BY <2>3, <2>4 DEF Grown
  <2> QED BY <2>1, <2>5, <1>d, QuietStep
<1>10. ASSUME NEW i \in Ids, NEW ok \in BOOLEAN, HandlerDecides(i, ok) PROVE LineInv'
  <2>1. UNCHANGED <<opener, responder, requests, fifo, skewed, toR, toO>> BY <1>10 DEF HandlerDecides
  <2>2. IsSeq(replies') BY <1>10, <1>c DEF HandlerDecides
  <2> QED BY <2>1, <2>2, QuietStep
<1>11. ASSUME NEW i \in Ids, TaskWrites(i) PROVE LineInv'
  <2>1. UNCHANGED <<opener, responder, requests, fifo, skewed, toR, toO, replies>> BY <1>11 DEF TaskWrites
  <2> QED BY <2>1, <1>0, QuietStep
<1>12. ASSUME NEW i \in Ids, PeerGrants(i) PROVE LineInv'
  <2> DEFINE p == [msg |-> "ADJUST", id |-> rChans[i]]
  <2>1. toO' = Append(toO, p) /\ UNCHANGED <<opener, responder, requests, fifo, skewed, toR, replies>>
    BY <1>12 DEF PeerGrants
  <2>2. p.msg # "ANSWER" OBVIOUS
  <2> HIDE DEF p
  <2>3. Grown(toO, toO', "ANSWER") BY <2>1, <2>2, <1>a
  <2> QED BY <2>1, <2>3, <1>0, QuietStep
<1>13. CASE UNCHANGED vars
  <2>1. UNCHANGED <<opener, responder, requests, fifo, skewed, toR, toO, replies>> BY <1>13 DEF vars
  <2> QED BY <2>1, <1>0, QuietStep
<1> QED BY <1>1, <1>2, <1>3, <1>4, <1>5, <1>6, <1>7, <1>8, <1>9, <1>10, <1>11, <1>12, <1>13 DEF Next

\* Every answer to a global request reaches whoever asked it, as long as each
\* end has answered exactly the requests the other keeps an entry for.
THEOREM AnswerAlwaysToAsker == Spec => []AnswerToAsker
<1>1. LineInv => AnswerToAsker BY DEF LineInv
<1> QED BY <1>1, LineInit, LineStep, PTL DEF Spec
-----------------------------------------------------------------------------
(* Opening channels.                                                       *)

\* The members of a sequence, and sequences without duplicates of one kind.
Members(s) == {s[k] : k \in 1 .. Len(s)}
OpensIn(s) == {p \in Members(s) : p.msg = "OPEN"}
ConfirmsIn(s) == {p \in Members(s) : p.msg = "CONFIRM"}
RefusalsIn(s) == {p \in Members(s) : p.msg = "REFUSE"}

CallsApart(s) == \A j, k \in 1 .. Len(s) : j # k => s[j] # s[k]
OpensApart(s) == \A j, k \in 1 .. Len(s) : j # k /\ s[j].msg = "OPEN" /\ s[k].msg = "OPEN" =>
                   s[j].id # s[k].id /\ s[j].of # s[k].of
RepliesApart(s) == \A j, k \in 1 .. Len(s) : j # k => s[j].chan # s[k].chan
ConfirmsApart(s) == \A j, k \in 1 .. Len(s) : j # k /\ s[j].msg = "CONFIRM" /\ s[k].msg = "CONFIRM" =>
                      s[j].from # s[k].from

\* The sequences, functions and records that the steps update, and the numbers.
OpenShape ==
  /\ IsSeq(toO) /\ IsSeq(toR) /\ IsSeq(replies) /\ IsSeq(queue) /\ IsSeq(writes)
  /\ DOMAIN call = Calls /\ DOMAIN buf = Calls /\ DOMAIN shared = Calls /\ DOMAIN got = Calls
  /\ \A c \in Calls : IsSeq(buf[c])
  /\ answers \in [Calls -> Nat]
  /\ lastId \in Nat /\ rLast \in Nat
  /\ DOMAIN params \subseteq 1 .. lastId /\ DOMAIN refs = DOMAIN params
  /\ \A i \in DOMAIN params : params[i] \in [confirmed : BOOLEAN, to : Nat, window : Nat] /\ refs[i] \in Calls
  /\ DOMAIN handles \subseteq 1 .. rLast
  /\ \A j \in DOMAIN handles :
       handles[j] \in [peer : 1 .. lastId, of : Calls, served : BOOLEAN, state : {"held", "accepted", "rejected"}]
  /\ \A p \in OpensIn(toR) : p.id \in 1 .. lastId /\ p.of \in Calls /\ p.served \in BOOLEAN
  /\ Members(queue) \subseteq Calls

\* A call is in one place only: idle, queued, in a CHANNEL_OPEN or in a handle.
OnePlaceEach ==
  /\ CallsApart(queue) /\ OpensApart(toR)
  /\ \A j, k \in DOMAIN handles : j # k =>
       handles[j].peer # handles[k].peer /\ handles[j].of # handles[k].of
  /\ \A p \in OpensIn(toR), j \in DOMAIN handles : p.id # handles[j].peer /\ p.of # handles[j].of
  /\ \A i, j \in DOMAIN refs : i # j => refs[i] # refs[j]
  /\ \A c \in Members(queue) :
       /\ call[c] # "idle"
       /\ \A p \in OpensIn(toR) : p.of # c
       /\ \A j \in DOMAIN handles : handles[j].of # c
       /\ \A i \in DOMAIN refs : refs[i] # c
  /\ \A p \in OpensIn(toR) : call[p.of] # "idle"
  /\ \A j \in DOMAIN handles : call[handles[j].of] # "idle"
  /\ \A i \in DOMAIN refs : call[refs[i]] # "idle"

\* The opener keeps what was opened until it is refused; another
\* implementation keeps its own tables.
KeptByOpener ==
  /\ opener = "other" => DOMAIN refs = {}
  /\ opener # "other" =>
       /\ \A p \in OpensIn(toR) : p.id \in DOMAIN refs /\ refs[p.id] = p.of
       /\ \A j \in DOMAIN handles : handles[j].state # "rejected" =>
            handles[j].peer \in DOMAIN refs /\ refs[handles[j].peer] = handles[j].of

\* An answer says what the handler decided, once, on its way from the queue
\* over the wire to the opener's table.
OneDecision ==
  /\ RepliesApart(replies) /\ ConfirmsApart(toO)
  /\ \A r \in Members(replies) :
       /\ r.chan \in DOMAIN handles /\ r.chan \notin DOMAIN rChans /\ r.ok \in BOOLEAN
       /\ handles[r.chan].state = IF r.ok THEN "accepted" ELSE "rejected"
  /\ \A j \in DOMAIN handles : handles[j].state = "accepted" =>
       j \in DOMAIN rChans \/ \E r \in Members(replies) : r.chan = j
  /\ \A j \in DOMAIN rChans :
       j \in DOMAIN handles /\ handles[j].state = "accepted" /\ rChans[j] = handles[j].peer
  /\ \A p \in ConfirmsIn(toO) :
       /\ p.from \in DOMAIN rChans /\ rChans[p.from] = p.id
       /\ p.id \in DOMAIN params => ~params[p.id].confirmed
  /\ \A p \in RefusalsIn(toO) : \E j \in DOMAIN handles : handles[j].state = "rejected" /\ handles[j].peer = p.id
  /\ \A i \in DOMAIN params : params[i].confirmed => params[i].to \in DOMAIN rChans /\ rChans[params[i].to] = i

\* Whoever waits for a channel, or has it, sees the opener's entry.
CallerInformed ==
  /\ \A c \in Calls : \A b \in Members(buf[c]) : b.msg = "Open" =>
       /\ b.id \in DOMAIN params /\ refs[b.id] = c /\ params[b.id].confirmed
       /\ call[c] = "waiting" /\ c \notin early => params[b.id].window = b.window
  /\ \A c \in Calls : call[c] = "open" =>
       /\ got[c] \in DOMAIN params /\ refs[got[c]] = c /\ params[got[c]].confirmed
       /\ c \notin early => shared[c] = params[got[c]].window

\* Only accepted channels are written to.
WritesAccepted ==
  /\ \A i \in Members(writes) : i \in DOMAIN handles /\ handles[i].state = "accepted"
  /\ discarded = 0

\* How often a call has been answered.
Counted ==
  /\ \A c \in Calls : call[c] = "idle" \/ c \in Members(queue) \/ (\E p \in OpensIn(toR) : p.of = c) => answers[c] = 0
  /\ \A j \in DOMAIN handles : handles[j].served =>
       answers[handles[j].of] = IF handles[j].state = "held" \/ (\E r \in Members(replies) : r.chan = j) THEN 0 ELSE 1

OpenInv ==
  OpenShape /\ OnePlaceEach /\ KeptByOpener /\ OneDecision /\ CallerInformed /\ WritesAccepted /\ Counted

\* Members of what sequences are put together from and taken apart to.
LEMMA MembersConcat == ASSUME NEW s, NEW t, IsSeq(s), IsSeq(t) PROVE Members(s \o t) = Members(s) \cup Members(t)
<1> DEFINE u == s \o t
<1>1. /\ Len(s) \in Nat /\ Len(t) \in Nat /\ Len(u) = Len(s) + Len(t)
      /\ \A k \in 1 .. Len(s) : u[k] = s[k]
      /\ \A k \in 1 .. Len(t) : u[Len(s) + k] = t[k]
      /\ \A k \in 1 .. Len(u) : k \in 1 .. Len(s) \/ \E j \in 1 .. Len(t) : k = Len(s) + j
  BY ConcatAt
<1> HIDE DEF u
<1>2. Members(u) \subseteq Members(s) \cup Members(t)
  <2>1. SUFFICES ASSUME NEW k \in 1 .. Len(u) PROVE u[k] \in Members(s) \cup Members(t) BY DEF Members
  <2>2. CASE k \in 1 .. Len(s) BY <2>2, <1>1 DEF Members
  <2>3. ASSUME NEW j \in 1 .. Len(t), k = Len(s) + j PROVE u[k] \in Members(t) BY <2>3, <1>1 DEF Members
  <2> QED BY <2>2, <2>3, <1>1
<1>3. \A k \in 1 .. Len(s) : k \in 1 .. Len(u) BY <1>1
<1>4. \A k \in 1 .. Len(t) : Len(s) + k \in 1 .. Len(u) BY <1>1
<1>5. Members(s) \cup Members(t) \subseteq Members(u) BY <1>1, <1>3, <1>4 DEF Members
<1> QED BY <1>2, <1>5 DEF u

LEMMA MembersOne == ASSUME NEW p PROVE IsSeq(<<p>>) /\ Members(<<p>>) = {p}
<1>1. IsSeq(<<p>>)
  <2>1. <<p>> \in Seq({p}) OBVIOUS
  <2> QED BY <2>1 DEF IsSeq
<1>2. Len(<<p>>) = 1 /\ <<p>>[1] = p OBVIOUS
<1> QED BY <1>1, <1>2 DEF Members

LEMMA MembersAppend ==
  ASSUME NEW s, NEW p, IsSeq(s) PROVE IsSeq(Append(s, p)) /\ Members(Append(s, p)) = Members(s) \cup {p}
<1>1. IsSeq(<<p>>) /\ Append(s, p) = s \o <<p>> BY AppendSeq
<1> QED BY <1>1, ConcatIsSeq, MembersConcat, MembersOne

LEMMA MembersTail ==
  ASSUME NEW s, IsSeq(s), s # <<>>
  PROVE  IsSeq(Tail(s)) /\ Head(s) \in Members(s) /\ Members(Tail(s)) \subseteq Members(s)
<1> DEFINE t == Tail(s)
<1>1. /\ Len(s) \in Nat /\ Len(s) >= 1 /\ Head(s) = s[1]
      /\ \A k \in 1 .. Len(t) : k + 1 \in 1 .. Len(s) /\ t[k] = s[k + 1]
  BY TailAt
<1>2. IsSeq(t) BY TailIsSeq
<1> HIDE DEF t
<1>3. Members(t) \subseteq Members(s) BY <1>1 DEF Members
<1>4. Head(s) \in Members(s) BY <1>1 DEF Members
<1> QED BY <1>2, <1>3, <1>4 DEF t

LEMMA MembersNone == IsSeq(<<>>) /\ Members(<<>>) = {}
<1>1. <<>> \in Seq({}) /\ Len(<<>>) = 0 OBVIOUS
<1> QED BY <1>1 DEF IsSeq, Members

\* Each place of s \o t is a place of s or one of t; of Append(s, p), one of s
\* or the last.
LEMMA AppendAt ==
  ASSUME NEW s, NEW p, IsSeq(s)
  PROVE  /\ Len(s) \in Nat /\ Len(Append(s, p)) = Len(s) + 1 /\ Append(s, p)[Len(s) + 1] = p
         /\ \A k \in 1 .. Len(s) : Append(s, p)[k] = s[k]
         /\ \A k \in 1 .. Len(Append(s, p)) : k \in 1 .. Len(s) \/ k = Len(s) + 1
<1>1. PICK S : s \in Seq(S) BY DEF IsSeq
<1>2. s \in Seq(S \cup {p}) /\ p \in S \cup {p} BY <1>1
<1> QED BY <1>2

\* Calls in the queue.
LEMMA CallsAppend ==
  ASSUME NEW s, NEW p, IsSeq(s), CallsApart(s), p \notin Members(s) PROVE CallsApart(Append(s, p))
<1> DEFINE u == Append(s, p)
<1>1. /\ Len(s) \in Nat /\ Len(u) = Len(s) + 1 /\ u[Len(s) + 1] = p
      /\ \A k \in 1 .. Len(s) : u[k] = s[k]
      /\ \A k \in 1 .. Len(u) : k \in 1 .. Len(s) \/ k = Len(s) + 1
  BY AppendAt
<1> HIDE DEF u
<1>2. \A k \in 1 .. Len(s) : s[k] # p BY DEF Members
<1>3. CallsApart(u) BY <1>1, <1>2 DEF CallsApart
<1> QED BY <1>3 DEF u

LEMMA CallsTail ==
  ASSUME NEW s, IsSeq(s), s # <<>>, CallsApart(s) PROVE CallsApart(Tail(s)) /\ Head(s) \notin Members(Tail(s))
<1> DEFINE t == Tail(s)
<1>1. /\ Len(s) \in Nat /\ Len(s) >= 1 /\ Head(s) = s[1]
      /\ \A k \in 1 .. Len(t) : k + 1 \in 1 .. Len(s) /\ t[k] = s[k + 1]
  BY TailAt
<1> HIDE DEF t
<1>2. 1 \in 1 .. Len(s) BY <1>1
<1>3. ASSUME NEW j \in 1 .. Len(t), NEW k \in 1 .. Len(t), j # k PROVE t[j] # t[k]
  <2>1. j + 1 # k + 1 BY <1>3
  <2> QED BY <2>1, <1>1 DEF CallsApart
<1>4. ASSUME NEW k \in 1 .. Len(t) PROVE t[k] # Head(s)
  <2>1. k + 1 # 1 OBVIOUS
  <2> QED BY <2>1, <1>1, <1>2 DEF CallsApart
<1> QED BY <1>3, <1>4 DEF t, CallsApart, Members

\* CHANNEL_OPENs.
LEMMA OpensAppend ==
  ASSUME NEW s, NEW p, IsSeq(s), OpensApart(s),
         p.msg = "OPEN" => \A q \in OpensIn(s) : q.id # p.id /\ q.of # p.of
  PROVE  OpensApart(Append(s, p))
<1> DEFINE u == Append(s, p)
<1>1. /\ Len(s) \in Nat /\ Len(u) = Len(s) + 1 /\ u[Len(s) + 1] = p
      /\ \A k \in 1 .. Len(s) : u[k] = s[k]
      /\ \A k \in 1 .. Len(u) : k \in 1 .. Len(s) \/ k = Len(s) + 1
  BY AppendAt
<1> HIDE DEF u
<1>2. \A k \in 1 .. Len(s) : s[k].msg = "OPEN" /\ p.msg = "OPEN" => s[k].id # p.id /\ s[k].of # p.of
  BY DEF Members, OpensIn
<1>3. OpensApart(u) BY <1>1, <1>2 DEF OpensApart
<1> QED BY <1>3 DEF u

LEMMA OpensTail ==
  ASSUME NEW s, IsSeq(s), s # <<>>, OpensApart(s)
  PROVE  /\ OpensApart(Tail(s))
         /\ Head(s).msg = "OPEN" => \A q \in OpensIn(Tail(s)) : q.id # Head(s).id /\ q.of # Head(s).of
<1> DEFINE t == Tail(s)
<1>1. /\ Len(s) \in Nat /\ Len(s) >= 1 /\ Head(s) = s[1]
      /\ \A k \in 1 .. Len(t) : k + 1 \in 1 .. Len(s) /\ t[k] = s[k + 1]
  BY TailAt
<1> HIDE DEF t
<1>2. 1 \in 1 .. Len(s) BY <1>1
<1>3. ASSUME NEW j \in 1 .. Len(t), NEW k \in 1 .. Len(t), j # k, t[j].msg = "OPEN", t[k].msg = "OPEN"
      PROVE  t[j].id # t[k].id /\ t[j].of # t[k].of
  <2>1. j + 1 # k + 1 BY <1>3
  <2> QED BY <2>1, <1>1, <1>3 DEF OpensApart
<1>4. ASSUME Head(s).msg = "OPEN", NEW k \in 1 .. Len(t), t[k].msg = "OPEN"
      PROVE  t[k].id # Head(s).id /\ t[k].of # Head(s).of
  <2>1. k + 1 # 1 OBVIOUS
  <2> QED BY <2>1, <1>1, <1>2, <1>4 DEF OpensApart
<1> QED BY <1>3, <1>4 DEF t, OpensApart, OpensIn, Members

\* Queued answers.
LEMMA RepliesAppend ==
  ASSUME NEW s, NEW p, IsSeq(s), RepliesApart(s), \A q \in Members(s) : q.chan # p.chan
  PROVE  RepliesApart(Append(s, p))
<1> DEFINE u == Append(s, p)
<1>1. /\ Len(s) \in Nat /\ Len(u) = Len(s) + 1 /\ u[Len(s) + 1] = p
      /\ \A k \in 1 .. Len(s) : u[k] = s[k]
      /\ \A k \in 1 .. Len(u) : k \in 1 .. Len(s) \/ k = Len(s) + 1
  BY AppendAt
<1> HIDE DEF u
<1>2. \A k \in 1 .. Len(s) : s[k].chan # p.chan BY DEF Members
<1>3. RepliesApart(u) BY <1>1, <1>2 DEF RepliesApart
<1> QED BY <1>3 DEF u

\* CHANNEL_OPEN_CONFIRMATIONs.
LEMMA ConfirmsConcat ==
  ASSUME NEW s, NEW t, IsSeq(s), IsSeq(t), ConfirmsApart(s), ConfirmsApart(t),
         \A p \in ConfirmsIn(s), q \in ConfirmsIn(t) : p.from # q.from
  PROVE  ConfirmsApart(s \o t)
<1> DEFINE u == s \o t
<1>1. /\ Len(s) \in Nat /\ Len(t) \in Nat
      /\ \A k \in 1 .. Len(s) : u[k] = s[k]
      /\ \A k \in 1 .. Len(t) : u[Len(s) + k] = t[k]
      /\ \A k \in 1 .. Len(u) : k \in 1 .. Len(s) \/ \E j \in 1 .. Len(t) : k = Len(s) + j
  BY ConcatAt
<1> HIDE DEF u
<1>2. \A j \in 1 .. Len(s), k \in 1 .. Len(t) :
        s[j].msg = "CONFIRM" /\ t[k].msg = "CONFIRM" => s[j].from # t[k].from
  BY DEF ConfirmsIn, Members
<1>3. ASSUME NEW j \in 1 .. Len(u), NEW k \in 1 .. Len(u), j # k, u[j].msg = "CONFIRM", u[k].msg = "CONFIRM"
      PROVE  u[j].from # u[k].from
  <2>1. CASE j \in 1 .. Len(s) /\ k \in 1 .. Len(s) BY <2>1, <1>1, <1>3 DEF ConfirmsApart
  <2>2. ASSUME j \in 1 .. Len(s), NEW l \in 1 .. Len(t), k = Len(s) + l PROVE u[j].from # u[k].from
    BY <2>2, <1>1, <1>2, <1>3
  <2>3. ASSUME k \in 1 .. Len(s), NEW l \in 1 .. Len(t), j = Len(s) + l PROVE u[j].from # u[k].from
    BY <2>3, <1>1, <1>2, <1>3
  <2>4. ASSUME NEW l \in 1 .. Len(t), NEW m \in 1 .. Len(t), j = Len(s) + l, k = Len(s) + m
        PROVE  u[j].from # u[k].from
    <3>1. l # m BY <2>4, <1>3
    <3>2. u[j] = t[l] /\ u[k] = t[m] BY <2>4, <1>1
    <3> QED BY <3>1, <3>2, <1>3 DEF ConfirmsApart
  <2> QED BY <2>1, <2>2, <2>3, <2>4, <1>1
<1>4. ConfirmsApart(u) BY <1>3 DEF ConfirmsApart
<1> QED BY <1>4 DEF u

LEMMA ConfirmsAppend ==
  ASSUME NEW s, NEW p, IsSeq(s), ConfirmsApart(s), p.msg # "CONFIRM" PROVE ConfirmsApart(Append(s, p))
<1> DEFINE u == Append(s, p)
<1>1. /\ Len(s) \in Nat /\ Len(u) = Len(s) + 1 /\ u[Len(s) + 1] = p
      /\ \A k \in 1 .. Len(s) : u[k] = s[k]
      /\ \A k \in 1 .. Len(u) : k \in 1 .. Len(s) \/ k = Len(s) + 1
  BY AppendAt
<1> HIDE DEF u
<1>2. ConfirmsApart(u) BY <1>1 DEF ConfirmsApart
<1> QED BY <1>2 DEF u

LEMMA ConfirmsTail ==
  ASSUME NEW s, IsSeq(s), s # <<>>, ConfirmsApart(s)
  PROVE  /\ ConfirmsApart(Tail(s))
         /\ Head(s).msg = "CONFIRM" => \A q \in ConfirmsIn(Tail(s)) : q.from # Head(s).from
<1> DEFINE t == Tail(s)
<1>1. /\ Len(s) \in Nat /\ Len(s) >= 1 /\ Head(s) = s[1]
      /\ \A k \in 1 .. Len(t) : k + 1 \in 1 .. Len(s) /\ t[k] = s[k + 1]
  BY TailAt
<1> HIDE DEF t
<1>2. 1 \in 1 .. Len(s) BY <1>1
<1>3. ASSUME NEW j \in 1 .. Len(t), NEW k \in 1 .. Len(t), j # k, t[j].msg = "CONFIRM", t[k].msg = "CONFIRM"
      PROVE  t[j].from # t[k].from
  <2>1. j + 1 # k + 1 BY <1>3
  <2> QED BY <2>1, <1>1, <1>3 DEF ConfirmsApart
<1>4. ASSUME Head(s).msg = "CONFIRM", NEW k \in 1 .. Len(t), t[k].msg = "CONFIRM" PROVE t[k].from # Head(s).from
  <2>1. k + 1 # 1 OBVIOUS
  <2> QED BY <2>1, <1>1, <1>2, <1>4 DEF ConfirmsApart
<1> QED BY <1>3, <1>4 DEF t, ConfirmsApart, ConfirmsIn, Members

\* The invariant holds at the start.
LEMMA OpenInit == Init => OpenInv
<1> SUFFICES ASSUME Init PROVE OpenInv OBVIOUS
<1>1. /\ toO = <<>> /\ toR = <<>> /\ replies = <<>> /\ queue = <<>> /\ writes = <<>>
      /\ call = [c \in Calls |-> "idle"] /\ buf = [c \in Calls |-> <<>>]
      /\ shared = [c \in Calls |-> 0] /\ got = [c \in Calls |-> 0]
      /\ params = <<>> /\ refs = <<>> /\ handles = <<>> /\ rChans = <<>>
      /\ lastId = 0 /\ rLast = FirstId /\ answers = [c \in Calls |-> 0] /\ discarded = 0
  BY DEF Init
<1>2. FirstId \in Nat BY ChannelOpenAssumption
<1>3. DOMAIN <<>> = {} /\ Len(<<>>) = 0 OBVIOUS
<1>4. OpensIn(<<>>) = {} /\ ConfirmsIn(<<>>) = {} /\ RefusalsIn(<<>>) = {}
  BY MembersNone DEF OpensIn, ConfirmsIn, RefusalsIn
<1>5. CallsApart(<<>>) /\ OpensApart(<<>>) /\ RepliesApart(<<>>) /\ ConfirmsApart(<<>>)
  BY <1>3 DEF CallsApart, OpensApart, RepliesApart, ConfirmsApart
<1>6. \A c \in Calls : buf[c] = <<>> /\ call[c] = "idle" /\ answers[c] = 0 BY <1>1
<1>7. OpenShape
  <2>1. \A c \in Calls : IsSeq(buf[c]) BY <1>6, MembersNone
  <2>2. answers \in [Calls -> Nat] BY <1>1
  <2>3. DOMAIN call = Calls /\ DOMAIN buf = Calls /\ DOMAIN shared = Calls /\ DOMAIN got = Calls BY <1>1
  <2> QED BY <1>1, <1>2, <1>3, <1>4, <2>1, <2>2, <2>3, MembersNone DEF OpenShape
<1>8. OnePlaceEach BY <1>1, <1>3, <1>4, <1>5, MembersNone DEF OnePlaceEach
<1>9. KeptByOpener BY <1>1, <1>3, <1>4 DEF KeptByOpener
<1>10. OneDecision BY <1>1, <1>3, <1>4, <1>5, MembersNone DEF OneDecision
<1>11. CallerInformed BY <1>6, MembersNone DEF CallerInformed
<1>12. WritesAccepted BY <1>1, MembersNone DEF WritesAccepted
<1>13. Counted BY <1>1, <1>3, <1>6 DEF Counted
<1> QED BY <1>7, <1>8, <1>9, <1>10, <1>11, <1>12, <1>13 DEF OpenInv

\* What the tables of both ends hold.
Tables == <<opener, call, queue, lastId, params, refs, buf, shared, got, early,
            rLast, handles, replies, rChans, answers, discarded>>

\* A step that leaves the tables alone, takes packets away or adds others than
\* opens and their answers, or queues a write for an accepted channel.
LEMMA IdleStep ==
  ASSUME OpenInv, UNCHANGED Tables, IsSeq(toO'), IsSeq(toR'), IsSeq(writes'),
         ConfirmsApart(toO'), OpensApart(toR'),
         ConfirmsIn(toO') \subseteq ConfirmsIn(toO), RefusalsIn(toO') \subseteq RefusalsIn(toO),
         OpensIn(toR') \subseteq OpensIn(toR),
         \A i \in Members(writes') : i \in DOMAIN handles /\ handles[i].state = "accepted"
  PROVE  OpenInv'
<1> USE DEF Tables
<1>1. OpenShape' BY DEF OpenInv, OpenShape
<1>2. OnePlaceEach' BY DEF OpenInv, OnePlaceEach
<1>3. KeptByOpener' BY DEF OpenInv, KeptByOpener
<1>4. OneDecision' BY DEF OpenInv, OneDecision
<1>5. CallerInformed' BY DEF OpenInv, CallerInformed
<1>6. WritesAccepted' BY DEF OpenInv, WritesAccepted
<1>7. Counted' BY DEF OpenInv, Counted
<1> QED BY <1>1, <1>2, <1>3, <1>4, <1>5, <1>6, <1>7 DEF OpenInv

\* A call joins the queue.
LEMMA AppOpensStep == ASSUME OpenInv, NEW c \in Calls, AppOpens(c) PROVE OpenInv'
<1> USE DEF OpenInv
<1>1. /\ call[c] = "idle" /\ call' = [call EXCEPT ![c] = "waiting"] /\ queue' = Append(queue, c)
      /\ UNCHANGED <<opener, lastId, params, refs, early, buf, shared, got, toR, toO, responderVars>>
  BY DEF AppOpens
<1>2. IsSeq(queue') /\ Members(queue') = Members(queue) \cup {c} BY <1>1, MembersAppend DEF OpenShape
<1>3. \A d \in Calls : call'[d] = IF d = c THEN "waiting" ELSE call[d] BY <1>1 DEF OpenShape
<1>4. c \notin Members(queue) BY <1>1 DEF OnePlaceEach
<1>5. CallsApart(queue') BY <1>1, <1>4, CallsAppend DEF OpenShape, OnePlaceEach
<1>6. OpenShape' BY <1>1, <1>2 DEF OpenShape
<1>7. OnePlaceEach'
  <2>1. \A d \in Calls : call[d] # "idle" => call'[d] # "idle" BY <1>3
  <2>2. \A p \in OpensIn(toR) : p.of \in Calls /\ p.of # c BY <1>1 DEF OpenShape, OnePlaceEach
  <2>3. \A j \in DOMAIN handles : handles[j].of \in Calls /\ handles[j].of # c BY <1>1 DEF OpenShape, OnePlaceEach
  <2>4. \A i \in DOMAIN refs : refs[i] \in Calls /\ refs[i] # c BY <1>1 DEF OpenShape, OnePlaceEach
  <2>5. Members(queue) \subseteq Calls /\ call'[c] # "idle" BY <1>3 DEF OpenShape
  <2> QED BY <1>1, <1>2, <1>5, <2>1, <2>2, <2>3, <2>4, <2>5 DEF OnePlaceEach
<1>8. KeptByOpener' BY <1>1 DEF KeptByOpener
<1>9. OneDecision' BY <1>1 DEF OneDecision
<1>10. CallerInformed'
  <2>1. ASSUME NEW b \in Members(buf[c]) PROVE b.msg # "Open"
    BY <1>1 DEF CallerInformed, OnePlaceEach, OpenShape
  <2> QED BY <1>1, <1>3, <2>1 DEF CallerInformed
<1>11. WritesAccepted' BY <1>1 DEF WritesAccepted
<1>12. Counted' BY <1>1, <1>2, <1>3 DEF Counted
<1> QED BY <1>6, <1>7, <1>8, <1>9, <1>10, <1>11, <1>12

\* A call is dropped, comes back with the answer, or finds the session gone.
LEMMA AppEndsStep ==
  ASSUME OpenInv, NEW c \in Calls, AppDrops(c) \/ AppReads(c) \/ AppDisconnected(c) PROVE OpenInv'
<1> USE DEF OpenInv
<1>1. /\ call[c] = "waiting"
      /\ \E v \in {"dropped", "disconnected", "refused", "open"} : call' = [call EXCEPT ![c] = v]
      /\ UNCHANGED <<opener, queue, lastId, params, refs, early, toR, toO, responderVars>>
  BY DEF AppDrops, AppReads, AppDisconnected
<1>2. \A d \in Calls : d # c => call'[d] = call[d] BY <1>1 DEF OpenShape
<1>3. \A d \in Calls : call'[d] = "idle" <=> call[d] = "idle" BY <1>1, <1>2 DEF OpenShape
<1>4. /\ DOMAIN buf' = Calls /\ DOMAIN shared' = Calls /\ DOMAIN got' = Calls /\ DOMAIN call' = Calls
      /\ \A d \in Calls : d # c => buf'[d] = buf[d] /\ shared'[d] = shared[d] /\ got'[d] = got[d]
      /\ buf'[c] = <<>> \/ buf'[c] = buf[c] \/ (buf[c] # <<>> /\ buf'[c] = Tail(buf[c]))
  <2>1. DOMAIN call = Calls /\ DOMAIN buf = Calls /\ DOMAIN shared = Calls /\ DOMAIN got = Calls BY DEF OpenShape
  <2>2. CASE AppDrops(c) BY <2>1, <2>2 DEF AppDrops
  <2>3. CASE AppReads(c)
    <3>1. buf[c] # <<>> /\ buf' = [buf EXCEPT ![c] = Tail(buf[c])] BY <2>3 DEF AppReads
    <3>2. \/ shared' = [shared EXCEPT ![c] = Head(buf[c]).window] /\ got' = [got EXCEPT ![c] = Head(buf[c]).id]
          \/ UNCHANGED <<shared, got>>
      BY <2>3 DEF AppReads
    <3> QED BY <2>1, <1>1, <3>1, <3>2
  <2>4. CASE AppDisconnected(c) BY <2>1, <2>4 DEF AppDisconnected
  <2> QED BY <2>2, <2>3, <2>4
<1>5. IsSeq(buf'[c]) /\ Members(buf'[c]) \subseteq Members(buf[c])
  <2> DEFINE b == buf[c]
  <2> DEFINE d == buf'[c]
  <2>1. IsSeq(b) BY DEF OpenShape
  <2>2. d = <<>> \/ d = b \/ (b # <<>> /\ d = Tail(b)) BY <1>4
  <2> HIDE DEF b, d
  <2>3. IsSeq(d) /\ Members(d) \subseteq Members(b) BY <2>1, <2>2, MembersNone, MembersTail
  <2> QED BY <2>3 DEF b, d
<1>6. OpenShape' BY <1>1, <1>4, <1>5 DEF OpenShape
<1>7. OnePlaceEach'
  <2>1. Members(queue) \subseteq Calls BY DEF OpenShape
  <2>2. \A p \in OpensIn(toR) : p.of \in Calls BY DEF OpenShape
  <2>3. \A j \in DOMAIN handles : handles[j].of \in Calls BY DEF OpenShape
  <2>4. \A i \in DOMAIN refs : refs[i] \in Calls BY DEF OpenShape
  <2> QED BY <1>1, <1>3, <2>1, <2>2, <2>3, <2>4 DEF OnePlaceEach
<1>8. KeptByOpener' BY <1>1 DEF KeptByOpener
<1>9. OneDecision' BY <1>1 DEF OneDecision
<1>10. CallerInformed'
  <2>1. call'[c] # "waiting" BY <1>1 DEF OpenShape
  <2>2. ASSUME NEW d \in Calls, NEW b \in Members(buf'[d]), b.msg = "Open"
        PROVE  /\ b.id \in DOMAIN params /\ refs[b.id] = d /\ params[b.id].confirmed
               /\ call'[d] = "waiting" /\ d \notin early => params[b.id].window = b.window
    <3>1. b \in Members(buf[d]) BY <1>4, <1>5
    <3> QED BY <3>1, <2>1, <2>2, <1>2 DEF CallerInformed
  <2>3. ASSUME NEW d \in Calls, call'[d] = "open"
        PROVE  /\ got'[d] \in DOMAIN params /\ refs[got'[d]] = d /\ params[got'[d]].confirmed
               /\ d \notin early => shared'[d] = params[got'[d]].window
    <3>1. CASE d # c BY <3>1, <2>3, <1>2, <1>4 DEF CallerInformed
    <3>2. CASE d = c
      <4>1. AppReads(c) BY <2>3, <3>2 DEF AppDrops, AppReads, AppDisconnected, OpenShape
      <4>2. /\ buf[c] # <<>> /\ Head(buf[c]).msg = "Open"
            /\ shared' = [shared EXCEPT ![c] = Head(buf[c]).window]
            /\ got' = [got EXCEPT ![c] = Head(buf[c]).id]
        BY <4>1, <2>3, <3>2 DEF AppReads, OpenShape
      <4>3. shared'[c] = Head(buf[c]).window /\ got'[c] = Head(buf[c]).id BY <4>2 DEF OpenShape
      <4>4. Head(buf[c]) \in Members(buf[c]) BY <4>2, MembersTail DEF OpenShape
      <4> QED BY <3>2, <4>2, <4>3, <4>4, <1>1 DEF CallerInformed
    <3> QED BY <3>1, <3>2
  <2> QED BY <1>1, <2>2, <2>3 DEF CallerInformed
<1>11. WritesAccepted' BY <1>1 DEF WritesAccepted
<1>12. Counted' BY <1>1, <1>3 DEF Counted
<1> QED BY <1>6, <1>7, <1>8, <1>9, <1>10, <1>11, <1>12

\* While no number above the last one is in use, the next one is fresh.
LEMMA FreshIsNext ==
  ASSUME NEW last \in Nat, NEW used, used \subseteq 1 .. last PROVE FreshId(last, used) = last + 1
<1>1. IsFiniteSet(used)
  <2>1. IsFiniteSet(1 .. last) BY FS_Interval
  <2> QED BY <2>1, FS_Subset
<1>2. Cardinality(used) \in Nat BY <1>1, FS_CardinalityType
<1> DEFINE n == Cardinality(used)
<1> DEFINE Fits(i) == i \notin used /\ \A j \in last + 1 .. i - 1 : j \in used
<1> DEFINE R == last + 1 .. last + n + 1
<1>3. FreshId(last, used) = CHOOSE i \in R : Fits(i) BY DEF FreshId
<1> HIDE DEF n
<1>4. last + 1 \in R BY <1>2 DEF n
<1>5. last + 1 \notin used /\ \A j \in last + 1 .. (last + 1) - 1 : j \in used OBVIOUS
<1>6. Fits(last + 1) BY <1>5
<1>7. ASSUME NEW i \in R, Fits(i) PROVE i = last + 1
  <2>1. i \in Int /\ i >= last + 1 BY <1>2 DEF n
  <2>2. SUFFICES ASSUME i # last + 1 PROVE FALSE OBVIOUS
  <2>3. last + 1 \in last + 1 .. i - 1 BY <2>1, <2>2
  <2>4. last + 1 \in used BY <1>7, <2>3
  <2> QED BY <2>4, <1>5
<1> HIDE DEF Fits, R
<1> QED BY <1>3, <1>4, <1>6, <1>7

\* An open is sent: by the opener's session, or by another implementation.
LEMMA OpenSent ==
  ASSUME OpenInv, NEW c \in Calls, NEW p, p.msg = "OPEN", p.id = lastId + 1, p.of = c, p.served \in BOOLEAN,
         toR' = Append(toR, p), lastId' = lastId + 1, DOMAIN call' = Calls,
         \A d \in Calls : call[d] # "idle" => call'[d] = call[d],
         \A d \in Calls : d # c => call'[d] = call[d], call'[c] \notin {"idle", "open"},
         IsSeq(queue'), Members(queue') \subseteq Members(queue), CallsApart(queue'), c \notin Members(queue'),
         call[c] = "idle" \/ c \in Members(queue), answers[c] = 0,
         \/ opener = "other" /\ UNCHANGED <<params, refs>>
         \/ /\ opener # "other"
            /\ params' = With(params, lastId + 1, [confirmed |-> FALSE, to |-> 0, window |-> 0])
            /\ refs' = With(refs, lastId + 1, c),
         UNCHANGED <<opener, early, buf, shared, got, toO, responderVars>>
  PROVE  OpenInv'
<1> USE DEF OpenInv
<1> DEFINE i == lastId + 1
<1>1. IsSeq(toR') /\ Members(toR') = Members(toR) \cup {p} BY MembersAppend DEF OpenShape
<1>2. OpensIn(toR') = OpensIn(toR) \cup {p} BY <1>1 DEF OpensIn
<1>3. lastId \in Nat /\ i \in 1 .. lastId' /\ i \notin 1 .. lastId /\ \A j \in 1 .. lastId : j \in 1 .. lastId'
  BY DEF OpenShape
<1> HIDE DEF i
<1>4. /\ \A q \in OpensIn(toR) : q.id # i /\ q.of # c
      /\ \A j \in DOMAIN handles : handles[j].peer # i /\ handles[j].of # c
      /\ \A j \in DOMAIN refs : refs[j] # c /\ j # i
  <2>1. \A q \in OpensIn(toR) : q.id # i BY <1>3 DEF OpenShape
  <2>2. \A q \in OpensIn(toR) : q.of # c BY DEF OnePlaceEach
  <2>3. \A j \in DOMAIN handles : handles[j].peer # i BY <1>3 DEF OpenShape
  <2>4. \A j \in DOMAIN handles : handles[j].of # c BY DEF OnePlaceEach
  <2>5. \A j \in DOMAIN refs : refs[j] # c BY DEF OnePlaceEach
  <2>6. \A j \in DOMAIN refs : j # i BY <1>3 DEF OpenShape
  <2> QED BY <2>1, <2>2, <2>3, <2>4, <2>5, <2>6
<1>5. OpensApart(toR') BY <1>4, OpensAppend DEF OpenShape, OnePlaceEach, i
<1>6. /\ DOMAIN refs' = DOMAIN params' /\ DOMAIN params \subseteq DOMAIN params'
      /\ \A j \in DOMAIN params' : j = i \/ j \in DOMAIN params
      /\ \A j \in DOMAIN params : params'[j] = params[j] /\ refs'[j] = refs[j]
      /\ i \in DOMAIN params' <=> opener # "other"
      /\ i \in DOMAIN params' => refs'[i] = c /\ params'[i] = [confirmed |-> FALSE, to |-> 0, window |-> 0]
  <2>0. DOMAIN refs = DOMAIN params /\ i \notin DOMAIN params BY <1>4 DEF OpenShape
  <2>1. CASE opener = "other" /\ UNCHANGED <<params, refs>> BY <2>0, <2>1
  <2> DEFINE v == [confirmed |-> FALSE, to |-> 0, window |-> 0]
  <2> HIDE DEF v
  <2>2. CASE opener # "other" /\ params' = With(params, i, v) /\ refs' = With(refs, i, c)
    BY <2>0, <2>2 DEF With, v
  <2> QED BY <2>1, <2>2 DEF i, v
<1>7. OpenShape'
  <2>1. DOMAIN params' \subseteq 1 .. lastId' BY <1>3, <1>6 DEF OpenShape
  <2>2. \A j \in DOMAIN params' :
          params'[j] \in [confirmed : BOOLEAN, to : Nat, window : Nat] /\ refs'[j] \in Calls
    <3>1. [confirmed |-> FALSE, to |-> 0, window |-> 0] \in [confirmed : BOOLEAN, to : Nat, window : Nat] OBVIOUS
    <3> QED BY <1>6, <3>1 DEF OpenShape
  <2>3. ASSUME NEW j \in DOMAIN handles'
        PROVE  handles'[j] \in [peer : 1 .. lastId', of : Calls, served : BOOLEAN,
                                state : {"held", "accepted", "rejected"}]
    <3>1. handles' = handles OBVIOUS
    <3>2. handles[j] \in [peer : 1 .. lastId, of : Calls, served : BOOLEAN, state : {"held", "accepted", "rejected"}]
      BY <3>1 DEF OpenShape
    <3> QED BY <3>1, <3>2, <1>3
  <2>4. \A q \in OpensIn(toR') : q.id \in 1 .. lastId' /\ q.of \in Calls /\ q.served \in BOOLEAN
    BY <1>2, <1>3 DEF OpenShape, i
  <2>5. lastId' \in Nat /\ Members(queue') \subseteq Calls BY <1>3 DEF OpenShape
  <2> QED BY <1>1, <1>6, <2>1, <2>2, <2>3, <2>4, <2>5 DEF OpenShape
<1>8. OnePlaceEach'
  <2>1. \A d \in Calls : call[d] # "idle" => call'[d] # "idle" OBVIOUS
  <2>2. \A q \in OpensIn(toR), j \in DOMAIN handles : q.id # handles[j].peer /\ q.of # handles[j].of
    BY DEF OnePlaceEach
  <2>3. \A q \in OpensIn(toR'), j \in DOMAIN handles : q.id # handles[j].peer /\ q.of # handles[j].of
    BY <1>2, <1>4, <2>2 DEF i
  <2>4. \A j, k \in DOMAIN refs' : j # k => refs'[j] # refs'[k] BY <1>4, <1>6 DEF OpenShape, OnePlaceEach
  <2>5. ASSUME NEW d \in Members(queue')
        PROVE  /\ call'[d] # "idle"
               /\ \A q \in OpensIn(toR') : q.of # d
               /\ \A j \in DOMAIN handles : handles[j].of # d
               /\ \A j \in DOMAIN refs' : refs'[j] # d
    <3>1. d \in Members(queue) /\ d \in Calls /\ d # c BY DEF OpenShape
    <3> QED BY <3>1, <1>2, <1>6, <2>1 DEF OpenShape, OnePlaceEach
  <2>6. \A q \in OpensIn(toR') : call'[q.of] # "idle" BY <1>2, <2>1 DEF OpenShape, OnePlaceEach
  <2>7. \A j \in DOMAIN handles : call'[handles[j].of] # "idle" BY <2>1 DEF OpenShape, OnePlaceEach
  <2>8. \A j \in DOMAIN refs' : call'[refs'[j]] # "idle" BY <1>6, <2>1 DEF OpenShape, OnePlaceEach
  <2> QED BY <1>5, <2>3, <2>4, <2>5, <2>6, <2>7, <2>8 DEF OnePlaceEach
<1>9. KeptByOpener' BY <1>2, <1>6 DEF KeptByOpener, OpenShape, i
<1>10. OneDecision'
  <2>1. \A q \in ConfirmsIn(toO) : q.id # i
    <3>1. \A q \in ConfirmsIn(toO) : \E j \in DOMAIN handles : handles[j].peer = q.id BY DEF OneDecision
    <3> QED BY <3>1, <1>4
  <2> QED BY <1>6, <2>1 DEF OneDecision
<1>11. CallerInformed'
  <2>0. DOMAIN refs = DOMAIN params BY DEF OpenShape
  <2>1. ASSUME NEW d \in Calls, NEW b \in Members(buf[d]), b.msg = "Open"
        PROVE  /\ b.id \in DOMAIN params' /\ refs'[b.id] = d /\ params'[b.id].confirmed
               /\ call'[d] = "waiting" /\ d \notin early => params'[b.id].window = b.window
    <3>1. /\ b.id \in DOMAIN params /\ refs[b.id] = d /\ params[b.id].confirmed
          /\ call[d] = "waiting" /\ d \notin early => params[b.id].window = b.window
      BY <2>1 DEF CallerInformed
    <3>2. d # c BY <3>1, <2>0, <1>4
    <3> QED BY <3>1, <3>2, <1>6
  <2>2. ASSUME NEW d \in Calls, call'[d] = "open"
        PROVE  /\ got[d] \in DOMAIN params' /\ refs'[got[d]] = d /\ params'[got[d]].confirmed
               /\ d \notin early => shared[d] = params'[got[d]].window
    <3>1. call[d] = "open" BY <2>2
    <3> QED BY <3>1, <1>6 DEF CallerInformed
  <2> QED BY <2>1, <2>2 DEF CallerInformed
<1>12. WritesAccepted' BY DEF WritesAccepted
<1>13. Counted'
  <2>1. ASSUME NEW d \in Calls, call'[d] = "idle" \/ d \in Members(queue') \/ (\E q \in OpensIn(toR') : q.of = d)
        PROVE  answers[d] = 0
    <3>1. CASE d = c BY <3>1
    <3>2. CASE d # c BY <3>2, <2>1, <1>2 DEF Counted
    <3> QED BY <3>1, <3>2
  <2> QED BY <2>1 DEF Counted
<1> QED BY <1>7, <1>8, <1>9, <1>10, <1>11, <1>12, <1>13

LEMMA DispatchStep == ASSUME OpenInv, OpenerDispatches PROVE OpenInv'
<1> USE DEF OpenInv
<1> DEFINE c == Head(queue)
<1> DEFINE p == [msg |-> "OPEN", id |-> lastId + 1, of |-> c, served |-> TRUE]
<1>1. queue # <<>> /\ queue' = Tail(queue) BY DEF OpenerDispatches
<1>2. lastId' = lastId + 1 BY FreshIsNext DEF OpenerDispatches, OpenShape
<1>3. /\ opener # "other" /\ params' = With(params, lastId + 1, [confirmed |-> FALSE, to |-> 0, window |-> 0])
      /\ toR' = Append(toR, p) /\ refs' = With(refs, lastId + 1, c)
      /\ UNCHANGED <<opener, call, early, buf, shared, got, toO, responderVars>>
  BY <1>2 DEF OpenerDispatches, channel_open_generic, Russh
<1>4. p.msg = "OPEN" /\ p.id = lastId + 1 /\ p.of = c /\ p.served \in BOOLEAN OBVIOUS
<1>5. c \in Members(queue) /\ IsSeq(queue') /\ Members(queue') \subseteq Members(queue)
  BY <1>1, MembersTail DEF OpenShape
<1>6. CallsApart(queue') /\ c \notin Members(queue') BY <1>1, CallsTail DEF OpenShape, OnePlaceEach
<1>7. c \in Calls /\ call[c] # "idle" /\ answers[c] = 0 BY <1>5 DEF OpenShape, OnePlaceEach, Counted
<1>8. call[c] # "open" BY <1>5, <1>7 DEF CallerInformed, OnePlaceEach, OpenShape
<1>9. DOMAIN call' = Calls BY <1>3 DEF OpenShape
<1> HIDE DEF p, c
<1> QED BY <1>2, <1>3, <1>4, <1>5, <1>6, <1>7, <1>8, <1>9, OpenSent

LEMMA PeerOpensStep ==
  ASSUME OpenInv, NEW c \in Calls, NEW served \in BOOLEAN, PeerOpens(c, served) PROVE OpenInv'
<1> USE DEF OpenInv
<1> DEFINE p == [msg |-> "OPEN", id |-> lastId + 1, of |-> c, served |-> served]
<1>1. /\ opener = "other" /\ call[c] = "idle" /\ call' = [call EXCEPT ![c] = "dropped"]
      /\ lastId' = lastId + 1 /\ toR' = Append(toR, p)
      /\ UNCHANGED <<opener, queue, params, refs, early, buf, shared, got, toO, responderVars>>
  BY DEF PeerOpens
<1>2. p.msg = "OPEN" /\ p.id = lastId + 1 /\ p.of = c /\ p.served \in BOOLEAN OBVIOUS
<1> HIDE DEF p
<1>3. DOMAIN call' = Calls /\ call'[c] = "dropped" /\ \A d \in Calls : d # c => call'[d] = call[d]
  BY <1>1 DEF OpenShape
<1>4. IsSeq(queue') /\ Members(queue') = Members(queue) /\ CallsApart(queue') BY <1>1 DEF OpenShape, OnePlaceEach
<1>5. c \notin Members(queue) /\ answers[c] = 0 BY <1>1 DEF OnePlaceEach, Counted
<1> QED BY <1>1, <1>2, <1>3, <1>4, <1>5, OpenSent

\* What a packet taken from the wire leaves behind.
LEMMA Taken ==
  ASSUME OpenInv, toO # <<>>, toO' = Tail(toO)
  PROVE  /\ IsSeq(toO') /\ Head(toO) \in Members(toO) /\ ConfirmsApart(toO')
         /\ ConfirmsIn(toO') \subseteq ConfirmsIn(toO) /\ RefusalsIn(toO') \subseteq RefusalsIn(toO)
         /\ Head(toO).msg = "CONFIRM" => Head(toO) \in ConfirmsIn(toO) /\ \A q \in ConfirmsIn(toO') : q.from # Head(toO).from
         /\ Head(toO).msg = "REFUSE" => Head(toO) \in RefusalsIn(toO)
<1>1. IsSeq(toO') /\ Head(toO) \in Members(toO) /\ Members(toO') \subseteq Members(toO)
  BY MembersTail DEF OpenInv, OpenShape
<1>2. /\ ConfirmsApart(toO')
      /\ Head(toO).msg = "CONFIRM" => \A q \in ConfirmsIn(toO') : q.from # Head(toO).from
  BY ConfirmsTail DEF OpenInv, OpenShape, OneDecision
<1> QED BY <1>1, <1>2 DEF ConfirmsIn, RefusalsIn

\* CHANNEL_OPEN_CONFIRMATION.
LEMMA ConfirmStep ==
  ASSUME OpenInv, OpenerReads, Head(toO).msg = "CONFIRM" PROVE OpenInv'
<1> USE DEF OpenInv
<1> DEFINE p == Head(toO)
<1> DEFINE i == p.id
<1> DEFINE entry == [confirmed |-> TRUE, to |-> p.from, window |-> InitWindow]
<1> DEFINE told == [msg |-> "Open", id |-> i, window |-> InitWindow]
<1>1. /\ opener # "other" /\ toO # <<>> /\ toO' = Tail(toO) /\ OpenerConfirmed(i, p.from)
      /\ UNCHANGED <<opener, queue, lastId, call, got, toR, responderVars>>
  BY DEF OpenerReads, Russh
<1>2. /\ IsSeq(toO') /\ ConfirmsApart(toO')
      /\ ConfirmsIn(toO') \subseteq ConfirmsIn(toO) /\ RefusalsIn(toO') \subseteq RefusalsIn(toO)
      /\ p \in ConfirmsIn(toO) /\ \A q \in ConfirmsIn(toO') : q.from # p.from
  BY <1>1, Taken
<1>3. p.from \in DOMAIN rChans /\ rChans[p.from] = i /\ (i \in DOMAIN params => ~params[i].confirmed)
  BY <1>2 DEF OneDecision
<1>4. p.from \in DOMAIN handles /\ handles[p.from].state = "accepted" /\ handles[p.from].peer = i
  BY <1>3 DEF OneDecision
<1>5. DOMAIN refs = DOMAIN params BY DEF OpenShape
<1>6. i \in DOMAIN params BY <1>1, <1>4, <1>5 DEF KeptByOpener
<1>7. /\ params' = [params EXCEPT ![i] = entry]
      /\ buf' = IF i \in DOMAIN refs /\ call[refs[i]] = "waiting"
                THEN [buf EXCEPT ![refs[i]] = Append(buf[refs[i]], told)] ELSE buf
      /\ UNCHANGED <<refs, shared, early>>
  BY <1>1, <1>6 DEF OpenerConfirmed
<1>8. told.msg = "Open" /\ told.id = i /\ told.window = InitWindow OBVIOUS
<1>9. entry.confirmed /\ entry.to = p.from /\ entry.window = InitWindow OBVIOUS
<1>10. p.from \in Nat /\ InitWindow \in Nat BY <1>4, ChannelOpenAssumption DEF OpenShape
<1>11. entry \in [confirmed : BOOLEAN, to : Nat, window : Nat] BY <1>10
<1> HIDE DEF entry, told, i, p
<1>12. DOMAIN params' = DOMAIN params /\ params'[i] = entry /\ \A j \in DOMAIN params : j # i => params'[j] = params[j]
  BY <1>6, <1>7
<1>13. refs[i] \in Calls BY <1>6 DEF OpenShape
<1>14. /\ DOMAIN buf' = Calls
       /\ \A d \in Calls : IsSeq(buf'[d])
       /\ \A d \in Calls : \A b \in Members(buf'[d]) : b \in Members(buf[d]) \/ (b = told /\ d = refs[i])
  <2> DEFINE e == refs[i]
  <2> DEFINE new == Append(buf[e], told)
  <2>1. DOMAIN buf = Calls /\ \A d \in Calls : IsSeq(buf[d]) BY DEF OpenShape
  <2>2. IsSeq(new) /\ Members(new) = Members(buf[e]) \cup {told}
    <3> DEFINE s == buf[e]
    <3>1. IsSeq(s) BY <2>1, <1>13
    <3> HIDE DEF s
    <3>2. IsSeq(Append(s, told)) /\ Members(Append(s, told)) = Members(s) \cup {told} BY <3>1, MembersAppend
    <3> QED BY <3>2 DEF s
  <2>3. buf' = buf \/ buf' = [buf EXCEPT ![e] = new] BY <1>7
  <2> HIDE DEF new
  <2>4. CASE buf' = buf BY <2>1, <2>4
  <2>5. CASE buf' = [buf EXCEPT ![e] = new] BY <2>1, <2>2, <2>5, <1>13
  <2> QED BY <2>3, <2>4, <2>5
<1>15. OpenShape'
  <2>1. \A j \in DOMAIN params' :
          params'[j] \in [confirmed : BOOLEAN, to : Nat, window : Nat] /\ refs'[j] \in Calls
    BY <1>7, <1>11, <1>12 DEF OpenShape
  <2> QED BY <1>1, <1>2, <1>7, <1>12, <1>14, <2>1 DEF OpenShape
<1>16. OnePlaceEach' BY <1>1, <1>7 DEF OnePlaceEach
<1>17. KeptByOpener' BY <1>1, <1>7 DEF KeptByOpener
<1>18. OneDecision'
  <2>1. ASSUME NEW q \in ConfirmsIn(toO'), q.id \in DOMAIN params' PROVE ~params'[q.id].confirmed
    <3>1. q \in ConfirmsIn(toO) /\ q.from # p.from BY <1>2
    <3>2. q.from \in DOMAIN rChans /\ rChans[q.from] = q.id BY <3>1 DEF OneDecision
    <3>3. q.from \in DOMAIN handles /\ handles[q.from].peer = q.id BY <3>2 DEF OneDecision
    <3>4. q.id # i BY <3>1, <3>3, <1>4 DEF OnePlaceEach
    <3> QED BY <2>1, <3>1, <3>4, <1>12 DEF OneDecision
  <2>2. \A j \in DOMAIN params' : params'[j].confirmed =>
          params'[j].to \in DOMAIN rChans /\ rChans[params'[j].to] = j
    BY <1>3, <1>9, <1>12 DEF OneDecision
  <2> QED BY <1>1, <1>2, <2>1, <2>2 DEF OneDecision
<1>19. CallerInformed'
  <2>1. ASSUME NEW d \in Calls, NEW b \in Members(buf'[d]), b.msg = "Open"
        PROVE  /\ b.id \in DOMAIN params' /\ refs[b.id] = d /\ params'[b.id].confirmed
               /\ call[d] = "waiting" /\ d \notin early => params'[b.id].window = b.window
    <3>1. CASE b \in Members(buf[d])
      <4>1. /\ b.id \in DOMAIN params /\ refs[b.id] = d /\ params[b.id].confirmed
            /\ call[d] = "waiting" /\ d \notin early => params[b.id].window = b.window
        BY <2>1, <3>1 DEF CallerInformed
      <4>2. b.id # i BY <4>1, <1>3
      <4> QED BY <4>1, <4>2, <1>12
    <3>2. CASE b = told /\ d = refs[i] BY <3>2, <1>6, <1>8, <1>9, <1>12
    <3> QED BY <3>1, <3>2, <1>14
  <2>2. ASSUME NEW d \in Calls, call[d] = "open"
        PROVE  /\ got[d] \in DOMAIN params' /\ refs[got[d]] = d /\ params'[got[d]].confirmed
               /\ d \notin early => shared[d] = params'[got[d]].window
    <3>1. /\ got[d] \in DOMAIN params /\ refs[got[d]] = d /\ params[got[d]].confirmed
          /\ d \notin early => shared[d] = params[got[d]].window
      BY <2>2 DEF CallerInformed
    <3>2. got[d] # i BY <3>1, <1>3
    <3> QED BY <3>1, <3>2, <1>12
  <2> QED BY <1>1, <1>7, <2>1, <2>2 DEF CallerInformed
<1>20. WritesAccepted' BY <1>1 DEF WritesAccepted
<1>21. Counted' BY <1>1 DEF Counted
<1> QED BY <1>15, <1>16, <1>17, <1>18, <1>19, <1>20, <1>21

\* CHANNEL_OPEN_FAILURE: nobody has been told of the channel.
LEMMA RefuseStep ==
  ASSUME OpenInv, OpenerReads, Head(toO).msg = "REFUSE" PROVE OpenInv'
<1> USE DEF OpenInv
<1> DEFINE i == Head(toO).id
<1> DEFINE told == [msg |-> "OpenFailure"]
<1>1. /\ toO # <<>> /\ toO' = Tail(toO) /\ OpenerRefused(i)
      /\ UNCHANGED <<opener, queue, lastId, call, got, toR, responderVars>>
  BY DEF OpenerReads
<1>2. /\ IsSeq(toO') /\ ConfirmsApart(toO')
      /\ ConfirmsIn(toO') \subseteq ConfirmsIn(toO) /\ RefusalsIn(toO') \subseteq RefusalsIn(toO)
      /\ Head(toO) \in RefusalsIn(toO)
  BY <1>1, Taken
<1>3. PICK j \in DOMAIN handles : handles[j].state = "rejected" /\ handles[j].peer = i BY <1>2 DEF OneDecision
<1>4. /\ params' = Without(params, i) /\ refs' = Without(refs, i)
      /\ buf' = IF i \in DOMAIN refs /\ call[refs[i]] = "waiting"
                THEN [buf EXCEPT ![refs[i]] = Append(buf[refs[i]], told)] ELSE buf
      /\ UNCHANGED <<shared, early>>
  BY <1>1 DEF OpenerRefused
<1>5. told.msg # "Open" OBVIOUS
<1> HIDE DEF told, i
<1>6. DOMAIN refs = DOMAIN params BY DEF OpenShape
<1>7. /\ DOMAIN params' = DOMAIN params \ {i} /\ DOMAIN refs' = DOMAIN params'
      /\ \A k \in DOMAIN params' : params'[k] = params[k] /\ refs'[k] = refs[k]
  BY <1>4, <1>6 DEF Without, Restrict
<1>8. /\ \A k \in DOMAIN handles : handles[k].peer = i => k = j
      /\ \A p \in OpensIn(toR) : p.id # i
  BY <1>3 DEF OnePlaceEach
<1>9. i \in DOMAIN params => ~params[i].confirmed
  <2>1. SUFFICES ASSUME i \in DOMAIN params, params[i].confirmed PROVE FALSE OBVIOUS
  <2>2. params[i].to \in DOMAIN rChans /\ rChans[params[i].to] = i BY <2>1 DEF OneDecision
  <2>3. /\ params[i].to \in DOMAIN handles /\ handles[params[i].to].state = "accepted"
        /\ handles[params[i].to].peer = i
    BY <2>2 DEF OneDecision
  <2>4. params[i].to = j BY <2>3, <1>8
  <2> QED BY <2>3, <2>4, <1>3
<1>10. /\ DOMAIN buf' = Calls
       /\ \A d \in Calls : IsSeq(buf'[d])
       /\ \A d \in Calls : \A b \in Members(buf'[d]) : b \in Members(buf[d]) \/ b = told
  <2>1. DOMAIN buf = Calls /\ \A d \in Calls : IsSeq(buf[d]) BY DEF OpenShape
  <2>2. CASE buf' = buf BY <2>1, <2>2
  <2> DEFINE e == refs[i]
  <2> DEFINE new == Append(buf[e], told)
  <2>3. CASE i \in DOMAIN refs /\ buf' = [buf EXCEPT ![e] = new]
    <3>0. e \in Calls BY <2>3, <1>6 DEF OpenShape
    <3>1. IsSeq(new) /\ Members(new) = Members(buf[e]) \cup {told}
      <4> DEFINE s == buf[e]
      <4>1. IsSeq(s) BY <2>1, <3>0
      <4> HIDE DEF s
      <4>2. IsSeq(Append(s, told)) /\ Members(Append(s, told)) = Members(s) \cup {told} BY <4>1, MembersAppend
      <4> QED BY <4>2 DEF s
    <3>2. buf' = [buf EXCEPT ![e] = new] BY <2>3
    <3> HIDE DEF new, e
    <3> QED BY <2>1, <3>0, <3>1, <3>2
  <2> QED BY <2>2, <2>3, <1>4
<1>11. OpenShape'
  <2>1. \A k \in DOMAIN params' :
          params'[k] \in [confirmed : BOOLEAN, to : Nat, window : Nat] /\ refs'[k] \in Calls
    BY <1>7 DEF OpenShape
  <2>2. DOMAIN params' \subseteq 1 .. lastId BY <1>7 DEF OpenShape
  <2> QED BY <1>1, <1>2, <1>4, <1>7, <1>10, <2>1, <2>2 DEF OpenShape
<1>12. OnePlaceEach'
  <2>1. \A k \in DOMAIN refs' : k \in DOMAIN refs /\ refs'[k] = refs[k] BY <1>6, <1>7
  <2> QED BY <1>1, <2>1 DEF OnePlaceEach
<1>13. KeptByOpener'
  <2>1. ASSUME opener # "other", NEW p \in OpensIn(toR) PROVE p.id \in DOMAIN refs' /\ refs'[p.id] = p.of
    BY <2>1, <1>6, <1>7, <1>8 DEF KeptByOpener
  <2>2. ASSUME opener # "other", NEW k \in DOMAIN handles, handles[k].state # "rejected"
        PROVE  handles[k].peer \in DOMAIN refs' /\ refs'[handles[k].peer] = handles[k].of
    <3>1. handles[k].peer # i BY <2>2, <1>3, <1>8
    <3> QED BY <2>2, <3>1, <1>6, <1>7 DEF KeptByOpener
  <2>3. opener = "other" => DOMAIN refs' = {} BY <1>6, <1>7 DEF KeptByOpener
  <2> QED BY <1>1, <2>1, <2>2, <2>3 DEF KeptByOpener
<1>14. OneDecision' BY <1>1, <1>2, <1>7 DEF OneDecision
<1>15. CallerInformed'
  <2>1. ASSUME NEW d \in Calls, NEW b \in Members(buf'[d]), b.msg = "Open"
        PROVE  /\ b.id \in DOMAIN params' /\ refs'[b.id] = d /\ params'[b.id].confirmed
               /\ call[d] = "waiting" /\ d \notin early => params'[b.id].window = b.window
    <3>1. b \in Members(buf[d]) BY <2>1, <1>5, <1>10
    <3>2. /\ b.id \in DOMAIN params /\ refs[b.id] = d /\ params[b.id].confirmed
          /\ call[d] = "waiting" /\ d \notin early => params[b.id].window = b.window
      BY <2>1, <3>1 DEF CallerInformed
    <3>3. b.id # i BY <3>2, <1>9
    <3> QED BY <3>2, <3>3, <1>7
  <2>2. ASSUME NEW d \in Calls, call[d] = "open"
        PROVE  /\ got[d] \in DOMAIN params' /\ refs'[got[d]] = d /\ params'[got[d]].confirmed
               /\ d \notin early => shared[d] = params'[got[d]].window
    <3>1. /\ got[d] \in DOMAIN params /\ refs[got[d]] = d /\ params[got[d]].confirmed
          /\ d \notin early => shared[d] = params[got[d]].window
      BY <2>2 DEF CallerInformed
    <3>2. got[d] # i BY <3>1, <1>9
    <3> QED BY <3>1, <3>2, <1>7
  <2> QED BY <1>1, <1>4, <2>1, <2>2 DEF CallerInformed
<1>16. WritesAccepted' BY <1>1 DEF WritesAccepted
<1>17. Counted' BY <1>1 DEF Counted
<1> QED BY <1>11, <1>12, <1>13, <1>14, <1>15, <1>16, <1>17

\* CHANNEL_WINDOW_ADJUST.
LEMMA AdjustStep ==
  ASSUME OpenInv, OpenerReads, Head(toO).msg = "ADJUST" PROVE OpenInv'
<1> USE DEF OpenInv
<1> DEFINE i == Head(toO).id
<1>1. /\ toO # <<>> /\ toO' = Tail(toO) /\ OpenerAdjusted(i)
      /\ UNCHANGED <<opener, queue, lastId, call, got, toR, responderVars>>
  BY DEF OpenerReads
<1>2. /\ IsSeq(toO') /\ ConfirmsApart(toO')
      /\ ConfirmsIn(toO') \subseteq ConfirmsIn(toO) /\ RefusalsIn(toO') \subseteq RefusalsIn(toO)
  BY <1>1, Taken
<1>3. /\ params' = IF i \in DOMAIN params THEN [params EXCEPT ![i].window = @ + 1] ELSE params
      /\ shared' = IF i \in DOMAIN params \cap DOMAIN refs
                   THEN [shared EXCEPT ![refs[i]] = params[i].window + 1] ELSE shared
      /\ early' = IF i \in DOMAIN refs /\ call[refs[i]] = "waiting" THEN early \cup {refs[i]} ELSE early
      /\ UNCHANGED <<refs, buf>>
  BY <1>1 DEF OpenerAdjusted
<1> HIDE DEF i
<1>4. DOMAIN refs = DOMAIN params BY DEF OpenShape
<1>5. /\ DOMAIN params' = DOMAIN params
      /\ \A k \in DOMAIN params : k # i => params'[k] = params[k]
      /\ i \in DOMAIN params =>
           /\ params[i] \in [confirmed : BOOLEAN, to : Nat, window : Nat]
           /\ params'[i] = [params[i] EXCEPT !.window = @ + 1]
  BY <1>3 DEF OpenShape
<1>6. i \in DOMAIN params =>
        /\ params'[i] \in [confirmed : BOOLEAN, to : Nat, window : Nat]
        /\ params'[i].confirmed = params[i].confirmed /\ params'[i].to = params[i].to
        /\ params'[i].window = params[i].window + 1
  BY <1>5
<1>7. \A k \in DOMAIN params : params'[k].confirmed = params[k].confirmed /\ params'[k].to = params[k].to
  BY <1>5, <1>6
<1>8. OpenShape'
  <2>1. \A k \in DOMAIN params' :
          params'[k] \in [confirmed : BOOLEAN, to : Nat, window : Nat] /\ refs'[k] \in Calls
    BY <1>3, <1>5, <1>6 DEF OpenShape
  <2>2. DOMAIN shared' = Calls BY <1>3 DEF OpenShape
  <2> QED BY <1>1, <1>2, <1>3, <1>5, <2>1, <2>2 DEF OpenShape
<1>9. OnePlaceEach' BY <1>1, <1>3 DEF OnePlaceEach
<1>10. KeptByOpener' BY <1>1, <1>3 DEF KeptByOpener
<1>11. OneDecision' BY <1>1, <1>2, <1>5, <1>7 DEF OneDecision
<1>12. CallerInformed'
  <2>0. early \subseteq early' BY <1>3
  <2>1. ASSUME NEW d \in Calls, NEW b \in Members(buf[d]), b.msg = "Open"
        PROVE  /\ b.id \in DOMAIN params' /\ refs[b.id] = d /\ params'[b.id].confirmed
               /\ call[d] = "waiting" /\ d \notin early' => params'[b.id].window = b.window
    <3>1. /\ b.id \in DOMAIN params /\ refs[b.id] = d /\ params[b.id].confirmed
          /\ call[d] = "waiting" /\ d \notin early => params[b.id].window = b.window
      BY <2>1 DEF CallerInformed
    <3>2. CASE b.id = i
      <4>1. call[d] = "waiting" => d \in early' BY <3>1, <3>2, <1>3, <1>4
      <4> QED BY <3>1, <4>1, <1>5, <1>7
    <3>3. CASE b.id # i BY <3>1, <3>3, <2>0, <1>5
    <3> QED BY <3>2, <3>3
  <2>2. ASSUME NEW d \in Calls, call[d] = "open"
        PROVE  /\ got[d] \in DOMAIN params' /\ refs[got[d]] = d /\ params'[got[d]].confirmed
               /\ d \notin early' => shared'[d] = params'[got[d]].window
    <3>1. /\ got[d] \in DOMAIN params /\ refs[got[d]] = d /\ params[got[d]].confirmed
          /\ d \notin early => shared[d] = params[got[d]].window
      BY <2>2 DEF CallerInformed
    <3>2. CASE got[d] = i
      <4>1. shared'[d] = params[i].window + 1 BY <3>1, <3>2, <1>3, <1>4 DEF OpenShape
      <4> QED BY <3>1, <3>2, <4>1, <1>5, <1>6
    <3>3. CASE got[d] # i
      <4>1. i \in DOMAIN refs => refs[i] # d BY <3>1, <3>3, <1>4 DEF OnePlaceEach
      <4>2. shared'[d] = shared[d] BY <4>1, <1>3 DEF OpenShape
      <4> QED BY <3>1, <3>3, <4>2, <2>0, <1>5
    <3> QED BY <3>2, <3>3
  <2> QED BY <1>1, <1>3, <2>1, <2>2 DEF CallerInformed
<1>13. WritesAccepted' BY <1>1 DEF WritesAccepted
<1>14. Counted' BY <1>1 DEF Counted
<1> QED BY <1>8, <1>9, <1>10, <1>11, <1>12, <1>13, <1>14

\* A CHANNEL_OPEN reaches the responder: a handle for it, or a refusal.
LEMMA OpenedStep ==
  ASSUME OpenInv, ResponderReads, Head(toR).msg = "OPEN" PROVE OpenInv'
<1> USE DEF OpenInv
<1> DEFINE p == Head(toR)
<1> DEFINE i == rLast + 1
<1> DEFINE h == [peer |-> p.id, of |-> p.of, served |-> p.served,
                 state |-> IF p.served THEN "held" ELSE "rejected"]
<1> DEFINE no == [msg |-> "REFUSE", id |-> p.id]
<1> DEFINE r == [chan |-> i, ok |-> FALSE]
<1>1. /\ toR # <<>> /\ toR' = Tail(toR) /\ ResponderOpened(p)
      /\ UNCHANGED <<opener, queue, lastId, params, refs, early, call, buf, shared, got, rChans, writes, discarded>>
  BY DEF ResponderReads
<1>2. rLast \in Nat /\ DOMAIN handles \subseteq 1 .. rLast /\ DOMAIN rChans \subseteq DOMAIN handles
  BY DEF OpenShape, OneDecision
<1>3. FreshId(rLast, DOMAIN rChans) = i BY <1>2, FreshIsNext
<1>4. rLast' = i /\ handles' = With(handles, i, h) BY <1>1, <1>3 DEF ResponderOpened
<1>5. \/ p.served /\ UNCHANGED <<toO, replies, answers>>
      \/ /\ ~p.served /\ toO' = Append(toO, no) /\ replies' = Append(replies, r)
         /\ answers' = [answers EXCEPT ![p.of] = @ + 1]
  BY <1>1, <1>3 DEF ResponderOpened
<1>6. /\ IsSeq(toR') /\ OpensIn(toR') \subseteq OpensIn(toR) /\ p \in OpensIn(toR)
      /\ OpensApart(toR') /\ \A q \in OpensIn(toR') : q.id # p.id /\ q.of # p.of
  <2>1. IsSeq(toR') /\ p \in Members(toR) /\ Members(toR') \subseteq Members(toR)
    BY <1>1, MembersTail DEF OpenShape
  <2>2. OpensApart(toR') /\ \A q \in OpensIn(toR') : q.id # p.id /\ q.of # p.of
    BY <1>1, OpensTail DEF OpenShape, OnePlaceEach
  <2> QED BY <2>1, <2>2 DEF OpensIn
<1>7. p.id \in 1 .. lastId /\ p.of \in Calls /\ p.served \in BOOLEAN BY <1>6 DEF OpenShape
<1>8. /\ h.peer = p.id /\ h.of = p.of /\ h.served = p.served
      /\ h.state = IF p.served THEN "held" ELSE "rejected"
      /\ h \in [peer : 1 .. lastId, of : Calls, served : BOOLEAN, state : {"held", "accepted", "rejected"}]
  BY <1>7
<1>9. no.msg = "REFUSE" /\ no.id = p.id /\ r.chan = i /\ r.ok = FALSE OBVIOUS
<1>10. i \in Nat /\ i \notin 1 .. rLast /\ i \in 1 .. i /\ \A k \in 1 .. rLast : k \in 1 .. i BY <1>2
<1> HIDE DEF h, i, no, r, p
<1>11. /\ DOMAIN handles' = DOMAIN handles \cup {i} /\ i \notin DOMAIN handles /\ handles'[i] = h
       /\ \A k \in DOMAIN handles : handles'[k] = handles[k]
  BY <1>2, <1>4, <1>10 DEF With
<1>12. /\ IsSeq(toO') /\ ConfirmsApart(toO') /\ ConfirmsIn(toO') = ConfirmsIn(toO)
       /\ \A q \in RefusalsIn(toO') : q \in RefusalsIn(toO) \/ (q = no /\ ~p.served)
  <2>1. CASE toO' = toO BY <2>1 DEF OpenShape, OneDecision
  <2>2. CASE ~p.served /\ toO' = Append(toO, no)
    <3>1. IsSeq(toO') /\ Members(toO') = Members(toO) \cup {no} BY <2>2, MembersAppend DEF OpenShape
    <3>2. ConfirmsApart(toO') BY <2>2, <1>9, ConfirmsAppend DEF OpenShape, OneDecision
    <3> QED BY <2>2, <3>1, <3>2, <1>9 DEF ConfirmsIn, RefusalsIn
  <2> QED BY <2>1, <2>2, <1>5
<1>13. /\ IsSeq(replies') /\ RepliesApart(replies') /\ Members(replies) \subseteq Members(replies')
       /\ \A q \in Members(replies') : q \in Members(replies) \/ (q = r /\ ~p.served)
  <2>1. CASE replies' = replies BY <2>1 DEF OpenShape, OneDecision
  <2>2. CASE ~p.served /\ replies' = Append(replies, r)
    <3>1. IsSeq(replies') /\ Members(replies') = Members(replies) \cup {r} BY <2>2, MembersAppend DEF OpenShape
    <3>2. \A q \in Members(replies) : q.chan # r.chan BY <1>9, <1>11 DEF OneDecision
    <3>3. RepliesApart(replies') BY <2>2, <3>2, RepliesAppend DEF OpenShape, OneDecision
    <3> QED BY <2>2, <3>1, <3>3
  <2> QED BY <2>1, <2>2, <1>5
<1>14. answers' \in [Calls -> Nat] /\ \A c \in Calls : c # p.of \/ p.served => answers'[c] = answers[c]
  BY <1>5, <1>7 DEF OpenShape
<1>15. OpenShape'
  <2>1. DOMAIN handles' \subseteq 1 .. rLast' BY <1>2, <1>4, <1>10, <1>11
  <2>2. \A k \in DOMAIN handles' : handles'[k] \in
          [peer : 1 .. lastId, of : Calls, served : BOOLEAN, state : {"held", "accepted", "rejected"}]
    BY <1>8, <1>11 DEF OpenShape
  <2>3. \A q \in OpensIn(toR') : q.id \in 1 .. lastId /\ q.of \in Calls /\ q.served \in BOOLEAN
    BY <1>6 DEF OpenShape
  <2> QED BY <1>1, <1>4, <1>6, <1>10, <1>12, <1>13, <1>14, <2>1, <2>2, <2>3 DEF OpenShape
<1>16. \A k \in DOMAIN handles : handles[k].peer # p.id /\ handles[k].of # p.of BY <1>6 DEF OnePlaceEach
<1>17. OnePlaceEach'
  <2>1. \A j, k \in DOMAIN handles' : j # k =>
          handles'[j].peer # handles'[k].peer /\ handles'[j].of # handles'[k].of
    BY <1>8, <1>11, <1>16 DEF OnePlaceEach
  <2>2. \A q \in OpensIn(toR'), k \in DOMAIN handles' : q.id # handles'[k].peer /\ q.of # handles'[k].of
    BY <1>6, <1>8, <1>11 DEF OnePlaceEach
  <2>3. ASSUME NEW c \in Members(queue)
        PROVE  (\A q \in OpensIn(toR') : q.of # c) /\ (\A k \in DOMAIN handles' : handles'[k].of # c)
    BY <1>6, <1>8, <1>11 DEF OnePlaceEach
  <2>4. \A k \in DOMAIN handles' : call[handles'[k].of] # "idle" BY <1>6, <1>8, <1>11 DEF OnePlaceEach
  <2> QED BY <1>1, <1>6, <2>1, <2>2, <2>3, <2>4 DEF OnePlaceEach
<1>18. KeptByOpener'
  <2>1. ASSUME opener # "other", NEW k \in DOMAIN handles', handles'[k].state # "rejected"
        PROVE  handles'[k].peer \in DOMAIN refs /\ refs[handles'[k].peer] = handles'[k].of
    BY <2>1, <1>6, <1>8, <1>11 DEF KeptByOpener
  <2> QED BY <1>1, <1>6, <2>1 DEF KeptByOpener
<1>19. OneDecision'
  <2>1. ASSUME NEW q \in Members(replies')
        PROVE  /\ q.chan \in DOMAIN handles' /\ q.chan \notin DOMAIN rChans /\ q.ok \in BOOLEAN
               /\ handles'[q.chan].state = IF q.ok THEN "accepted" ELSE "rejected"
    <3>1. CASE q \in Members(replies) BY <3>1, <1>11 DEF OneDecision
    <3>2. CASE q = r /\ ~p.served BY <3>2, <1>2, <1>8, <1>9, <1>11
    <3> QED BY <3>1, <3>2, <1>13
  <2>2. \A k \in DOMAIN handles' : handles'[k].state = "accepted" =>
          k \in DOMAIN rChans \/ \E q \in Members(replies') : q.chan = k
    BY <1>8, <1>11, <1>13 DEF OneDecision
  <2>3. \A k \in DOMAIN rChans :
          k \in DOMAIN handles' /\ handles'[k].state = "accepted" /\ rChans[k] = handles'[k].peer
    BY <1>11 DEF OneDecision
  <2>4. ASSUME NEW q \in RefusalsIn(toO')
        PROVE  \E k \in DOMAIN handles' : handles'[k].state = "rejected" /\ handles'[k].peer = q.id
    <3>1. CASE q \in RefusalsIn(toO) BY <3>1, <1>11 DEF OneDecision
    <3>2. CASE q = no /\ ~p.served BY <3>2, <1>8, <1>9, <1>11
    <3> QED BY <3>1, <3>2, <1>12
  <2> QED BY <1>1, <1>12, <1>13, <2>1, <2>2, <2>3, <2>4 DEF OneDecision
<1>20. CallerInformed' BY <1>1 DEF CallerInformed
<1>21. WritesAccepted' BY <1>1, <1>11 DEF WritesAccepted
<1>22. Counted'
  <2>1. ASSUME NEW c \in Calls, call[c] = "idle" \/ c \in Members(queue) \/ (\E q \in OpensIn(toR') : q.of = c)
        PROVE  answers'[c] = 0
    <3>1. c # p.of BY <2>1, <1>6 DEF OnePlaceEach
    <3> QED BY <2>1, <3>1, <1>6, <1>14 DEF Counted
  <2>2. ASSUME NEW k \in DOMAIN handles', handles'[k].served
        PROVE  answers'[handles'[k].of] =
                 IF handles'[k].state = "held" \/ (\E q \in Members(replies') : q.chan = k) THEN 0 ELSE 1
    <3>1. CASE k = i
      <4>1. answers[p.of] = 0 BY <1>6, <1>7 DEF Counted
      <4> QED BY <2>2, <3>1, <4>1, <1>7, <1>8, <1>11, <1>14
    <3>2. CASE k # i
      <4>1. k \in DOMAIN handles /\ handles'[k] = handles[k] /\ handles[k].of \in Calls BY <3>2, <1>11 DEF OpenShape
      <4>2. answers'[handles[k].of] = answers[handles[k].of] BY <4>1, <1>14, <1>16
      <4>3. (\E q \in Members(replies') : q.chan = k) <=> (\E q \in Members(replies) : q.chan = k)
        BY <3>2, <1>9, <1>13
      <4> QED BY <2>2, <4>1, <4>2, <4>3 DEF Counted
    <3> QED BY <3>1, <3>2
  <2> QED BY <1>1, <2>1, <2>2 DEF Counted
<1> QED BY <1>15, <1>17, <1>18, <1>19, <1>20, <1>21, <1>22

\* The handler accepts, rejects or drops a handle.
LEMMA DecideStep ==
  ASSUME OpenInv, NEW i, NEW ok \in BOOLEAN, HandlerDecides(i, ok) PROVE OpenInv'
<1> USE DEF OpenInv
<1> DEFINE v == IF ok THEN "accepted" ELSE "rejected"
<1> DEFINE r == [chan |-> i, ok |-> ok]
<1>1. /\ i \in DOMAIN handles /\ handles[i].state = "held"
      /\ handles' = [handles EXCEPT ![i].state = v] /\ replies' = Append(replies, r)
      /\ UNCHANGED <<opener, queue, lastId, params, refs, early, call, buf, shared, got, toR, toO,
                     rLast, rChans, writes, answers, discarded>>
  BY DEF HandlerDecides
<1>2. v \in {"accepted", "rejected"} OBVIOUS
<1>3. r.chan = i /\ r.ok = ok OBVIOUS
<1>v. v = IF ok THEN "accepted" ELSE "rejected" OBVIOUS
<1> HIDE DEF v, r
<1>4. /\ DOMAIN handles' = DOMAIN handles /\ \A k \in DOMAIN handles : k # i => handles'[k] = handles[k]
      /\ handles'[i] = [handles[i] EXCEPT !.state = v]
  BY <1>1
<1>5. handles[i] \in [peer : 1 .. lastId, of : Calls, served : BOOLEAN, state : {"held", "accepted", "rejected"}]
  BY <1>1 DEF OpenShape
<1>6. /\ handles'[i] \in [peer : 1 .. lastId, of : Calls, served : BOOLEAN, state : {"held", "accepted", "rejected"}]
      /\ handles'[i].peer = handles[i].peer /\ handles'[i].of = handles[i].of
      /\ handles'[i].served = handles[i].served /\ handles'[i].state = v
  BY <1>2, <1>4, <1>5
<1>7. \A k \in DOMAIN handles : /\ handles'[k].peer = handles[k].peer /\ handles'[k].of = handles[k].of
                                /\ handles'[k].served = handles[k].served
  BY <1>4, <1>6
<1>8. i \notin DOMAIN rChans /\ \A q \in Members(replies) : q.chan # i BY <1>1 DEF OneDecision
<1>9. IsSeq(replies') /\ Members(replies') = Members(replies) \cup {r} BY <1>1, MembersAppend DEF OpenShape
<1>10. RepliesApart(replies')
  <2>1. IsSeq(replies) /\ RepliesApart(replies) BY DEF OpenShape, OneDecision
  <2>2. \A q \in Members(replies) : q.chan # r.chan BY <1>3, <1>8
  <2> QED BY <2>1, <2>2, <1>1, RepliesAppend
<1>11. OpenShape'
  <2>1. \A k \in DOMAIN handles' : handles'[k] \in
          [peer : 1 .. lastId, of : Calls, served : BOOLEAN, state : {"held", "accepted", "rejected"}]
    BY <1>4, <1>6 DEF OpenShape
  <2> QED BY <1>1, <1>4, <1>9, <2>1 DEF OpenShape
<1>12. OnePlaceEach' BY <1>1, <1>4, <1>7 DEF OnePlaceEach
<1>13. KeptByOpener'
  <2>1. \A k \in DOMAIN handles : handles'[k].state # "rejected" => handles[k].state # "rejected" BY <1>1, <1>4
  <2> QED BY <1>1, <1>4, <1>7, <2>1 DEF KeptByOpener
<1>14. OneDecision'
  <2>1. ASSUME NEW q \in Members(replies')
        PROVE  /\ q.chan \in DOMAIN handles' /\ q.chan \notin DOMAIN rChans /\ q.ok \in BOOLEAN
               /\ handles'[q.chan].state = IF q.ok THEN "accepted" ELSE "rejected"
    <3>1. CASE q \in Members(replies) BY <3>1, <1>4, <1>8 DEF OneDecision
    <3>2. CASE q = r BY <3>2, <1>1, <1>3, <1>v, <1>4, <1>6, <1>8
    <3> QED BY <3>1, <3>2, <1>9
  <2>2. \A k \in DOMAIN handles' : handles'[k].state = "accepted" =>
          k \in DOMAIN rChans \/ \E q \in Members(replies') : q.chan = k
    BY <1>3, <1>4, <1>9 DEF OneDecision
  <2>3. \A k \in DOMAIN rChans :
          k \in DOMAIN handles' /\ handles'[k].state = "accepted" /\ rChans[k] = handles'[k].peer
    BY <1>4, <1>8 DEF OneDecision
  <2>4. \A q \in RefusalsIn(toO) : \E k \in DOMAIN handles' : handles'[k].state = "rejected" /\ handles'[k].peer = q.id
    BY <1>1, <1>4 DEF OneDecision
  <2> QED BY <1>1, <1>10, <2>1, <2>2, <2>3, <2>4 DEF OneDecision
<1>15. CallerInformed' BY <1>1 DEF CallerInformed
<1>16. WritesAccepted' BY <1>1, <1>4 DEF WritesAccepted
<1>17. Counted'
  <2>1. ASSUME NEW k \in DOMAIN handles', handles'[k].served
        PROVE  answers[handles'[k].of] =
                 IF handles'[k].state = "held" \/ (\E q \in Members(replies') : q.chan = k) THEN 0 ELSE 1
    <3>1. CASE k = i
      <4>1. answers[handles[i].of] = 0 BY <1>1, <1>6, <2>1, <3>1 DEF Counted
      <4> QED BY <3>1, <4>1, <1>3, <1>6, <1>9
    <3>2. CASE k # i
      <4>1. (\E q \in Members(replies') : q.chan = k) <=> (\E q \in Members(replies) : q.chan = k)
        BY <3>2, <1>3, <1>9
      <4> QED BY <2>1, <3>2, <4>1, <1>4 DEF Counted
    <3> QED BY <3>1, <3>2
  <2> QED BY <1>1, <2>1 DEF Counted
<1> QED BY <1>11, <1>12, <1>13, <1>14, <1>15, <1>16, <1>17

\* The packets for queued answers.
LEMMA DrainedPackets ==
  ASSUME OpenInv
  PROVE  /\ IsSeq(Drained) /\ ConfirmsApart(Drained)
         /\ \A p \in ConfirmsIn(Drained) : /\ p.from \in Accepted /\ p.from \in DOMAIN handles
                                           /\ p.from \notin DOMAIN rChans /\ p.id = handles[p.from].peer
         /\ \A p \in RefusalsIn(Drained) :
              \E j \in DOMAIN handles : handles[j].state = "rejected" /\ handles[j].peer = p.id
         /\ Accepted = {j \in DOMAIN handles : handles[j].state = "accepted" /\ \E r \in Members(replies) : r.chan = j}
<1> USE DEF OpenInv
<1>1. IsSeq(replies) BY DEF OpenShape
<1>2. PICK S : replies \in Seq(S) BY <1>1 DEF IsSeq
<1>3. Len(replies) \in Nat /\ DOMAIN replies = 1 .. Len(replies) BY <1>2
<1>4. IsSeq(Drained) /\ Len(Drained) = Len(replies) BY <1>1, DrainedFree
<1>5. \A k \in 1 .. Len(Drained) : Drained[k] = Finalized(replies[k]) /\ replies[k] \in Members(replies)
  BY <1>3, <1>4 DEF Drained, Members
<1>6. ASSUME NEW r \in Members(replies)
      PROVE  /\ r.chan \in DOMAIN handles /\ r.chan \notin DOMAIN rChans /\ r.ok \in BOOLEAN
             /\ handles[r.chan].state = IF r.ok THEN "accepted" ELSE "rejected"
             /\ r.ok => /\ Finalized(r).msg = "CONFIRM" /\ Finalized(r).from = r.chan
                        /\ Finalized(r).id = handles[r.chan].peer
             /\ ~r.ok => Finalized(r).msg = "REFUSE" /\ Finalized(r).id = handles[r.chan].peer
  <2>1. /\ r.chan \in DOMAIN handles /\ r.chan \notin DOMAIN rChans /\ r.ok \in BOOLEAN
        /\ handles[r.chan].state = IF r.ok THEN "accepted" ELSE "rejected"
    BY DEF OneDecision
  <2>2. r.ok => Finalized(r) = [msg |-> "CONFIRM", id |-> handles[r.chan].peer, from |-> r.chan]
    BY DEF Finalized
  <2>3. ~r.ok => Finalized(r) = [msg |-> "REFUSE", id |-> handles[r.chan].peer] BY DEF Finalized
  <2> QED BY <2>1, <2>2, <2>3
<1>7. Accepted = {j \in DOMAIN handles : handles[j].state = "accepted" /\ \E r \in Members(replies) : r.chan = j}
  <2>1. \A j \in Accepted : j \in DOMAIN handles /\ handles[j].state = "accepted" /\ \E r \in Members(replies) : r.chan = j
    <3>1. SUFFICES ASSUME NEW k \in DOMAIN replies, replies[k].ok
                   PROVE  /\ replies[k].chan \in DOMAIN handles /\ handles[replies[k].chan].state = "accepted"
                          /\ \E r \in Members(replies) : r.chan = replies[k].chan
      BY DEF Accepted
    <3>2. replies[k] \in Members(replies) BY <1>3 DEF Members
    <3> QED BY <3>1, <3>2, <1>6
  <2>2. ASSUME NEW j \in DOMAIN handles, handles[j].state = "accepted", NEW r \in Members(replies), r.chan = j
        PROVE  j \in Accepted
    <3>1. PICK k \in 1 .. Len(replies) : r = replies[k] BY DEF Members
    <3>2. r.ok BY <2>2, <1>6
    <3> QED BY <2>2, <3>1, <3>2, <1>3 DEF Accepted
  <2> QED BY <2>1, <2>2
<1>8. ASSUME NEW j \in 1 .. Len(Drained), NEW k \in 1 .. Len(Drained), j # k,
             Drained[j].msg = "CONFIRM", Drained[k].msg = "CONFIRM"
      PROVE  Drained[j].from # Drained[k].from
  <2>1. replies[j].ok /\ replies[k].ok BY <1>5, <1>6, <1>8
  <2>2. Drained[j].from = replies[j].chan /\ Drained[k].from = replies[k].chan BY <2>1, <1>5, <1>6
  <2>3. replies[j].chan # replies[k].chan BY <1>4, <1>8 DEF OneDecision, RepliesApart
  <2> QED BY <2>2, <2>3
<1>9. ConfirmsApart(Drained) BY <1>8 DEF ConfirmsApart
<1>10. ASSUME NEW p \in ConfirmsIn(Drained)
       PROVE  /\ p.from \in Accepted /\ p.from \in DOMAIN handles
              /\ p.from \notin DOMAIN rChans /\ p.id = handles[p.from].peer
  <2>1. PICK k \in 1 .. Len(Drained) : p = Drained[k] BY DEF ConfirmsIn, Members
  <2>2. p.msg = "CONFIRM" BY DEF ConfirmsIn
  <2>3. replies[k] \in Members(replies) /\ p = Finalized(replies[k]) BY <2>1, <1>5
  <2>4. replies[k].ok BY <2>2, <2>3, <1>6
  <2>5. p.from = replies[k].chan /\ p.id = handles[p.from].peer BY <2>3, <2>4, <1>6
  <2>6. p.from \in DOMAIN handles /\ p.from \notin DOMAIN rChans /\ handles[p.from].state = "accepted"
    BY <2>3, <2>4, <2>5, <1>6
  <2> QED BY <2>3, <2>5, <2>6, <1>7
<1>11. ASSUME NEW p \in RefusalsIn(Drained)
       PROVE  \E j \in DOMAIN handles : handles[j].state = "rejected" /\ handles[j].peer = p.id
  <2>1. PICK k \in 1 .. Len(Drained) : p = Drained[k] BY DEF RefusalsIn, Members
  <2>2. p.msg = "REFUSE" BY DEF RefusalsIn
  <2>3. replies[k] \in Members(replies) /\ p = Finalized(replies[k]) BY <2>1, <1>5
  <2>4. ~replies[k].ok BY <2>2, <2>3, <1>6
  <2> QED BY <2>3, <2>4, <1>6
<1> QED BY <1>4, <1>7, <1>9, <1>10, <1>11

\* How often a call is answered in one go.
LEMMA DrainedCounts ==
  ASSUME OpenInv
  PROVE  /\ NewAnswers \in [Calls -> Nat]
         /\ \A c \in Calls : (\A j \in DOMAIN handles : handles[j].of # c) => NewAnswers[c] = answers[c]
         /\ \A j \in DOMAIN handles :
              NewAnswers[handles[j].of] = answers[handles[j].of]
                                            + (IF \E r \in Members(replies) : r.chan = j THEN 1 ELSE 0)
<1> USE DEF OpenInv
<1> DEFINE K(c) == {k \in DOMAIN replies : handles[replies[k].chan].of = c}
<1>1. PICK S : replies \in Seq(S) BY DEF OpenShape, IsSeq
<1>2. Len(replies) \in Nat /\ DOMAIN replies = 1 .. Len(replies) BY <1>1
<1>3. NewAnswers = [c \in Calls |-> answers[c] + Cardinality(K(c))] BY DEF NewAnswers
<1>4. \A k \in DOMAIN replies : replies[k] \in Members(replies) /\ replies[k].chan \in DOMAIN handles
  BY <1>2 DEF Members, OneDecision
<1>5. ASSUME NEW c PROVE Cardinality(K(c)) \in Nat
  <2>1. IsFiniteSet(1 .. Len(replies)) BY <1>2, FS_Interval
  <2>2. K(c) \in SUBSET (1 .. Len(replies)) BY <1>2
  <2> HIDE DEF K
  <2>3. IsFiniteSet(K(c)) BY <2>1, <2>2, FS_Subset
  <2> QED BY <2>3, FS_CardinalityType
<1>6. ASSUME NEW c \in Calls, \A j \in DOMAIN handles : handles[j].of # c PROVE Cardinality(K(c)) = 0
  <2>1. K(c) = {} BY <1>4, <1>6
  <2> QED BY <2>1, FS_EmptySet
<1>7. ASSUME NEW j \in DOMAIN handles
      PROVE  Cardinality(K(handles[j].of)) = IF \E r \in Members(replies) : r.chan = j THEN 1 ELSE 0
  <2>1. ASSUME NEW k \in DOMAIN replies PROVE k \in K(handles[j].of) <=> replies[k].chan = j
    BY <1>4 DEF OnePlaceEach
  <2>2. CASE \E r \in Members(replies) : r.chan = j
    <3>1. PICK k \in DOMAIN replies : replies[k].chan = j BY <2>2, <1>2 DEF Members
    <3>2. \A l \in DOMAIN replies : replies[l].chan = j => l = k
      BY <3>1, <1>2 DEF OneDecision, RepliesApart
    <3>3. K(handles[j].of) = {k} BY <2>1, <3>1, <3>2
    <3> QED BY <2>2, <3>3, FS_Singleton
  <2>3. CASE ~\E r \in Members(replies) : r.chan = j
    <3>1. K(handles[j].of) = {} BY <2>1, <2>3, <1>4
    <3> QED BY <2>3, <3>1, FS_EmptySet
  <2> QED BY <2>2, <2>3
<1> HIDE DEF K
<1>8. answers \in [Calls -> Nat] /\ \A j \in DOMAIN handles : handles[j].of \in Calls BY DEF OpenShape
<1>9. NewAnswers \in [Calls -> Nat] BY <1>3, <1>5, <1>8
<1>10. ASSUME NEW c \in Calls, \A j \in DOMAIN handles : handles[j].of # c PROVE NewAnswers[c] = answers[c]
  <2>1. NewAnswers[c] = answers[c] + 0 BY <1>3, <1>6, <1>10
  <2>2. answers[c] \in Nat BY <1>8
  <2> QED BY <2>1, <2>2
<1>11. ASSUME NEW j \in DOMAIN handles
       PROVE  NewAnswers[handles[j].of] = answers[handles[j].of]
                                            + (IF \E r \in Members(replies) : r.chan = j THEN 1 ELSE 0)
  <2>1. NewAnswers[handles[j].of] = answers[handles[j].of] + Cardinality(K(handles[j].of)) BY <1>3, <1>8
  <2> QED BY <2>1, <1>7
<1> QED BY <1>9, <1>10, <1>11

\* The queued answers are sent, by themselves or before a write is dispatched.
LEMMA DrainStep ==
  ASSUME OpenInv, NEW t, IsSeq(t), ConfirmsIn(t) = {}, RefusalsIn(t) = {},
         toO' = toO \o (Drained \o t), rChans' = Registered, answers' = NewAnswers, replies' = <<>>,
         IsSeq(writes'), Members(writes') \subseteq Members(writes), discarded' = 0,
         UNCHANGED <<opener, queue, lastId, params, refs, early, call, buf, shared, got, toR, rLast, handles>>
  PROVE  OpenInv'
<1> USE DEF OpenInv
<1>1. /\ IsSeq(Drained) /\ ConfirmsApart(Drained)
      /\ \A p \in ConfirmsIn(Drained) : /\ p.from \in Accepted /\ p.from \in DOMAIN handles
                                        /\ p.from \notin DOMAIN rChans /\ p.id = handles[p.from].peer
      /\ \A p \in RefusalsIn(Drained) :
           \E j \in DOMAIN handles : handles[j].state = "rejected" /\ handles[j].peer = p.id
      /\ Accepted = {j \in DOMAIN handles : handles[j].state = "accepted" /\ \E r \in Members(replies) : r.chan = j}
  BY DrainedPackets
<1> DEFINE d == Drained \o t
<1>2. IsSeq(d) /\ Members(d) = Members(Drained) \cup Members(t) BY <1>1, ConcatIsSeq, MembersConcat
<1>3. ConfirmsIn(d) = ConfirmsIn(Drained) /\ RefusalsIn(d) = RefusalsIn(Drained)
  BY <1>2 DEF ConfirmsIn, RefusalsIn
<1>4. ConfirmsApart(t)
  <2>1. \A k \in 1 .. Len(t) : t[k].msg # "CONFIRM" BY DEF ConfirmsIn, Members
  <2> QED BY <2>1 DEF ConfirmsApart
<1>5. ConfirmsApart(d) BY <1>1, <1>4, ConfirmsConcat
<1> HIDE DEF d
<1>6. IsSeq(toO) /\ ConfirmsApart(toO) /\ toO' = toO \o d BY DEF OpenShape, OneDecision, d
<1>7. IsSeq(toO') /\ Members(toO') = Members(toO) \cup Members(d) BY <1>2, <1>6, ConcatIsSeq, MembersConcat
<1>8. /\ ConfirmsIn(toO') = ConfirmsIn(toO) \cup ConfirmsIn(d)
      /\ RefusalsIn(toO') = RefusalsIn(toO) \cup RefusalsIn(d)
  BY <1>7 DEF ConfirmsIn, RefusalsIn
<1>9. \A p \in ConfirmsIn(toO), q \in ConfirmsIn(d) : p.from # q.from BY <1>1, <1>3 DEF OneDecision
<1>10. ConfirmsApart(toO') BY <1>2, <1>5, <1>6, <1>9, ConfirmsConcat
<1>11. DOMAIN rChans' = DOMAIN rChans \cup Accepted /\ \A j \in DOMAIN rChans' : rChans'[j] = handles[j].peer
  BY DEF Registered
<1>12. DOMAIN rChans' = {j \in DOMAIN handles : handles[j].state = "accepted"}
  <2>1. \A j \in DOMAIN rChans' : j \in DOMAIN handles /\ handles[j].state = "accepted"
    BY <1>1, <1>11 DEF OneDecision
  <2>2. ASSUME NEW j \in DOMAIN handles, handles[j].state = "accepted" PROVE j \in DOMAIN rChans'
    BY <2>2, <1>1, <1>11 DEF OneDecision
  <2> QED BY <2>1, <2>2
<1>13. /\ NewAnswers \in [Calls -> Nat]
       /\ \A c \in Calls : (\A j \in DOMAIN handles : handles[j].of # c) => NewAnswers[c] = answers[c]
       /\ \A j \in DOMAIN handles :
            NewAnswers[handles[j].of] = answers[handles[j].of]
                                          + (IF \E r \in Members(replies) : r.chan = j THEN 1 ELSE 0)
  BY DrainedCounts
<1>14. OpenShape' BY <1>7, <1>13, MembersNone DEF OpenShape
<1>15. OnePlaceEach' BY DEF OnePlaceEach
<1>16. KeptByOpener' BY DEF KeptByOpener
<1>17. OneDecision'
  <2>1. RepliesApart(replies') /\ Members(replies') = {}
    <3>1. Len(<<>>) = 0 OBVIOUS
    <3> QED BY <3>1, MembersNone DEF RepliesApart
  <2>2. ASSUME NEW p \in ConfirmsIn(toO')
        PROVE  /\ p.from \in DOMAIN rChans' /\ rChans'[p.from] = p.id
               /\ p.id \in DOMAIN params => ~params[p.id].confirmed
    <3>1. CASE p \in ConfirmsIn(toO)
      <4>1. /\ p.from \in DOMAIN rChans /\ rChans[p.from] = p.id /\ (p.id \in DOMAIN params => ~params[p.id].confirmed)
            /\ handles[p.from].peer = p.id
        BY <3>1 DEF OneDecision
      <4> QED BY <4>1, <1>11
    <3>2. CASE p \in ConfirmsIn(d)
      <4>1. /\ p.from \in Accepted /\ p.from \in DOMAIN handles
            /\ p.from \notin DOMAIN rChans /\ p.id = handles[p.from].peer
        BY <3>2, <1>1, <1>3
      <4>2. ASSUME p.id \in DOMAIN params, params[p.id].confirmed PROVE FALSE
        <5>1. params[p.id].to \in DOMAIN rChans /\ rChans[params[p.id].to] = p.id BY <4>2 DEF OneDecision
        <5>2. params[p.id].to \in DOMAIN handles /\ handles[params[p.id].to].peer = p.id BY <5>1 DEF OneDecision
        <5>3. params[p.id].to = p.from BY <5>2, <4>1 DEF OnePlaceEach
        <5> QED BY <5>1, <5>3, <4>1
      <4> QED BY <4>1, <4>2, <1>11
    <3> QED BY <3>1, <3>2, <1>8
  <2>3. \A p \in RefusalsIn(toO') :
          \E j \in DOMAIN handles : handles[j].state = "rejected" /\ handles[j].peer = p.id
    BY <1>1, <1>3, <1>8 DEF OneDecision
  <2>4. ASSUME NEW i \in DOMAIN params, params[i].confirmed
        PROVE  params[i].to \in DOMAIN rChans' /\ rChans'[params[i].to] = i
    <3>1. params[i].to \in DOMAIN rChans /\ rChans[params[i].to] = i BY <2>4 DEF OneDecision
    <3>2. handles[params[i].to].peer = i BY <3>1 DEF OneDecision
    <3> QED BY <3>1, <3>2, <1>11
  <2> QED BY <1>10, <1>11, <1>12, <2>1, <2>2, <2>3, <2>4 DEF OneDecision
<1>18. CallerInformed' BY DEF CallerInformed
<1>19. WritesAccepted' BY DEF WritesAccepted
<1>20. Counted'
  <2>1. ASSUME NEW c \in Calls, call[c] = "idle" \/ c \in Members(queue) \/ (\E p \in OpensIn(toR) : p.of = c)
        PROVE  NewAnswers[c] = 0
    <3>1. \A j \in DOMAIN handles : handles[j].of # c BY <2>1 DEF OnePlaceEach
    <3> QED BY <2>1, <3>1, <1>13 DEF Counted
  <2>2. ASSUME NEW j \in DOMAIN handles, handles[j].served
        PROVE  NewAnswers[handles[j].of] = IF handles[j].state = "held" THEN 0 ELSE 1
    <3>1. NewAnswers[handles[j].of] = answers[handles[j].of]
                                        + (IF \E r \in Members(replies) : r.chan = j THEN 1 ELSE 0)
      BY <1>13
    <3>2. answers[handles[j].of] =
            IF handles[j].state = "held" \/ (\E r \in Members(replies) : r.chan = j) THEN 0 ELSE 1
      BY <2>2 DEF Counted
    <3>3. (\E r \in Members(replies) : r.chan = j) => handles[j].state # "held" BY DEF OneDecision
    <3> QED BY <3>1, <3>2, <3>3
  <2> QED BY <2>1, <2>2, MembersNone DEF Counted
<1> QED BY <1>14, <1>15, <1>16, <1>17, <1>18, <1>19, <1>20

\* Every step keeps the invariant.
LEMMA OpenStep == OpenInv /\ [Next]_vars => OpenInv'
<1> SUFFICES ASSUME OpenInv, [Next]_vars PROVE OpenInv' OBVIOUS
<1>a. /\ IsSeq(toO) /\ IsSeq(toR) /\ IsSeq(writes) /\ IsSeq(replies)
      /\ ConfirmsApart(toO) /\ OpensApart(toR) /\ discarded = 0
      /\ \A i \in Members(writes) : i \in DOMAIN handles /\ handles[i].state = "accepted"
  BY DEF OpenInv, OpenShape, OneDecision, OnePlaceEach, WritesAccepted
<1>b. ASSUME NEW p, p.msg \notin {"CONFIRM", "REFUSE"}
      PROVE  /\ IsSeq(Append(toO, p)) /\ ConfirmsApart(Append(toO, p))
             /\ ConfirmsIn(Append(toO, p)) \subseteq ConfirmsIn(toO)
             /\ RefusalsIn(Append(toO, p)) \subseteq RefusalsIn(toO)
  <2>1. IsSeq(Append(toO, p)) /\ Members(Append(toO, p)) = Members(toO) \cup {p} BY <1>a, MembersAppend
  <2>2. ConfirmsApart(Append(toO, p)) BY <1>a, <1>b, ConfirmsAppend
  <2> QED BY <2>1, <2>2, <1>b DEF ConfirmsIn, RefusalsIn
<1>1. ASSUME NEW c \in Calls, AppOpens(c) \/ AppDrops(c) \/ AppReads(c) \/ AppDisconnected(c) PROVE OpenInv'
  BY <1>1, AppOpensStep, AppEndsStep
<1>2. ASSUME NEW q \in Request, OpenerAsks(q) PROVE OpenInv'
  <2> DEFINE p == [msg |-> "REQUEST", of |-> Len(requests) + 1, req |-> q]
  <2>1. toR' = Append(toR, p) /\ UNCHANGED Tables /\ UNCHANGED <<toO, writes>>
    BY <1>2 DEF OpenerAsks, Tables
  <2>2. p.msg = "REQUEST" OBVIOUS
  <2> HIDE DEF p
  <2>3. IsSeq(toR') /\ Members(toR') = Members(toR) \cup {p} BY <2>1, <1>a, MembersAppend
  <2>4. OpensApart(toR') BY <2>1, <2>2, <1>a, OpensAppend
  <2>5. OpensIn(toR') \subseteq OpensIn(toR) BY <2>2, <2>3 DEF OpensIn
  <2> QED BY <2>1, <2>3, <2>4, <2>5, <1>a, IdleStep
<1>3. CASE OpenerDispatches BY <1>3, DispatchStep
<1>4. CASE OpenerReads
  <2>1. CASE Head(toO).msg = "CONFIRM" BY <1>4, <2>1, ConfirmStep
  <2>2. CASE Head(toO).msg = "REFUSE" BY <1>4, <2>2, RefuseStep
  <2>3. CASE Head(toO).msg = "ADJUST" BY <1>4, <2>3, AdjustStep
  <2>4. CASE Head(toO).msg \notin {"CONFIRM", "REFUSE", "ADJUST"}
    <3>1. /\ toO # <<>> /\ toO' = Tail(toO) /\ UNCHANGED Tables /\ UNCHANGED <<toR, writes>>
      BY <1>4, <2>4 DEF OpenerReads, Tables
    <3> QED BY <3>1, <1>a, Taken, IdleStep
  <2> QED BY <2>1, <2>2, <2>3, <2>4
<1>5. ASSUME NEW c \in Calls, NEW served \in BOOLEAN, PeerOpens(c, served) PROVE OpenInv' BY <1>5, PeerOpensStep
<1>6. CASE PeerReads
  <2>1. /\ toO # <<>> /\ toO' = Tail(toO) /\ UNCHANGED Tables /\ UNCHANGED <<toR, writes>>
    BY <1>6 DEF PeerReads, Tables
  <2> QED BY <2>1, <1>a, Taken, IdleStep
<1>7. CASE ResponderReads
  <2>1. CASE Head(toR).msg = "OPEN" BY <1>7, <2>1, OpenedStep
  <2>2. CASE Head(toR).msg # "OPEN"
    <3> DEFINE p == [msg |-> "ANSWER", of |-> Head(toR).of]
    <3>1. /\ toR # <<>> /\ toR' = Tail(toR) /\ (toO' = toO \/ toO' = Append(toO, p))
          /\ UNCHANGED Tables /\ UNCHANGED writes
      BY <1>7, <2>2 DEF ResponderReads, ResponderAsked, Tables
    <3>2. p.msg = "ANSWER" OBVIOUS
    <3> HIDE DEF p
    <3>3. /\ IsSeq(toO') /\ ConfirmsApart(toO') /\ ConfirmsIn(toO') \subseteq ConfirmsIn(toO)
          /\ RefusalsIn(toO') \subseteq RefusalsIn(toO)
      BY <3>1, <3>2, <1>a, <1>b
    <3>4. IsSeq(toR') /\ Members(toR') \subseteq Members(toR) BY <3>1, <1>a, MembersTail
    <3>5. OpensApart(toR') BY <3>1, <1>a, OpensTail
    <3>6. OpensIn(toR') \subseteq OpensIn(toR) BY <3>4 DEF OpensIn
    <3> QED BY <3>1, <3>3, <3>4, <3>5, <3>6, <1>a, IdleStep
  <2> QED BY <2>1, <2>2
<1>8. CASE ResponderDrains
  <2>1. /\ toO' = toO \o Drained /\ rChans' = Registered /\ answers' = NewAnswers /\ replies' = <<>>
        /\ UNCHANGED <<opener, queue, lastId, params, refs, early, call, buf, shared, got, toR, rLast, handles,
                       writes, discarded>>
    BY <1>8 DEF ResponderDrains
  <2>2. IsSeq(<<>>) /\ ConfirmsIn(<<>>) = {} /\ RefusalsIn(<<>>) = {} BY MembersNone DEF ConfirmsIn, RefusalsIn
  <2>3. Drained \o <<>> = Drained
    <3>1. PICK S : Drained \in Seq(S) BY DrainedPackets DEF IsSeq
    <3> QED BY <3>1, ConcatEmptySeq
  <2>4. toO' = toO \o (Drained \o <<>>) BY <2>1, <2>3
  <2> QED BY <2>1, <2>2, <2>4, <1>a, DrainStep
<1>9. CASE ResponderDispatches
  <2> DEFINE i == Head(writes)
  <2> DEFINE p == [msg |-> "DATA", id |-> handles[i].peer]
  <2>1. writes # <<>> /\ writes' = Tail(writes) BY <1>9 DEF ResponderDispatches
  <2>2. i \in Members(writes) /\ IsSeq(writes') /\ Members(writes') \subseteq Members(writes)
    BY <2>1, <1>a, MembersTail
  <2>3. i \in DOMAIN Registered
    <3>1. i \in DOMAIN handles /\ handles[i].state = "accepted" BY <2>2, <1>a
    <3>2. i \in DOMAIN rChans \/ i \in Accepted BY <3>1, DrainedPackets DEF OpenInv, OneDecision
    <3> QED BY <3>2 DEF Registered
  <2>4. /\ toO' = toO \o Drained \o <<p>> /\ discarded' = discarded
        /\ rChans' = Registered /\ answers' = NewAnswers /\ replies' = <<>>
        /\ UNCHANGED <<opener, queue, lastId, params, refs, early, call, buf, shared, got, toR, rLast, handles>>
    BY <1>9, <2>3 DEF ResponderDispatches
  <2>5. p.msg = "DATA" OBVIOUS
  <2> HIDE DEF p, i
  <2>6. IsSeq(<<p>>) /\ ConfirmsIn(<<p>>) = {} /\ RefusalsIn(<<p>>) = {}
    BY <2>5, MembersOne DEF ConfirmsIn, RefusalsIn
  <2>7. toO' = toO \o (Drained \o <<p>>)
    <3> DEFINE t == <<p>>
    <3> HIDE DEF t
    <3>1. PICK S : toO \in Seq(S) BY <1>a DEF IsSeq
    <3>2. PICK D : Drained \in Seq(D) BY DrainedPackets DEF IsSeq
    <3>3. PICK T : t \in Seq(T) BY <2>6 DEF IsSeq, t
    <3>4. toO \in Seq(S \cup D \cup T) /\ Drained \in Seq(S \cup D \cup T) /\ t \in Seq(S \cup D \cup T)
      BY <3>1, <3>2, <3>3
    <3>5. toO' = (toO \o Drained) \o t BY <2>4 DEF t
    <3>6. toO' = toO \o (Drained \o t) BY <3>4, <3>5, ConcatAssociative
    <3> QED BY <3>6 DEF t
  <2> QED BY <2>2, <2>4, <2>6, <2>7, <1>a, DrainStep
<1>10. ASSUME NEW i \in Ids, NEW ok \in BOOLEAN, HandlerDecides(i, ok) PROVE OpenInv' BY <1>10, DecideStep
<1>11. ASSUME NEW i \in Ids, TaskWrites(i) PROVE OpenInv'
  <2>1. /\ i \in DOMAIN handles /\ handles[i].state = "accepted" /\ writes' = Append(writes, i)
        /\ UNCHANGED Tables /\ UNCHANGED <<toO, toR>>
    BY <1>11 DEF TaskWrites, Tables
  <2>2. IsSeq(writes') /\ Members(writes') = Members(writes) \cup {i} BY <2>1, <1>a, MembersAppend
  <2> QED BY <2>1, <2>2, <1>a, IdleStep
<1>12. ASSUME NEW i \in Ids, PeerGrants(i) PROVE OpenInv'
  <2> DEFINE p == [msg |-> "ADJUST", id |-> rChans[i]]
  <2>1. toO' = Append(toO, p) /\ UNCHANGED Tables /\ UNCHANGED <<toR, writes>> BY <1>12 DEF PeerGrants, Tables
  <2>2. p.msg = "ADJUST" OBVIOUS
  <2> HIDE DEF p
  <2> QED BY <2>1, <2>2, <1>a, <1>b, IdleStep
<1>13. CASE UNCHANGED vars
  <2>1. UNCHANGED Tables /\ UNCHANGED <<toO, toR, writes>> BY <1>13 DEF vars, Tables
  <2> QED BY <2>1, <1>a, IdleStep
<1> QED BY <1>1, <1>2, <1>3, <1>4, <1>5, <1>6, <1>7, <1>8, <1>9, <1>10, <1>11, <1>12, <1>13 DEF Next

\* A call that returns a channel has the one the responder's handler accepted
\* for that very call, and both ends name each other's number.
THEOREM ChannelAlwaysMatchesCall == Spec => []ChannelMatchesCall
<1>1. OpenInv => ChannelMatchesCall
  <2>1. SUFFICES ASSUME OpenInv, NEW c \in Calls, call[c] = "open"
                 PROVE  /\ got[c] \in DOMAIN params /\ refs[got[c]] = c
                        /\ params[got[c]].to \in DOMAIN rChans
                        /\ handles[params[got[c]].to].of = c /\ rChans[params[got[c]].to] = got[c]
    BY DEF ChannelMatchesCall
  <2> DEFINE i == got[c]
  <2> DEFINE j == params[i].to
  <2>2. i \in DOMAIN params /\ refs[i] = c /\ params[i].confirmed BY <2>1 DEF OpenInv, CallerInformed
  <2>3. j \in DOMAIN rChans /\ rChans[j] = i BY <2>1, <2>2 DEF OpenInv, OneDecision
  <2>4. j \in DOMAIN handles /\ handles[j].state = "accepted" /\ handles[j].peer = i
    BY <2>1, <2>3 DEF OpenInv, OneDecision
  <2>5. DOMAIN refs = DOMAIN params BY <2>1 DEF OpenInv, OpenShape
  <2>6. opener # "other" BY <2>1, <2>2, <2>5 DEF OpenInv, KeptByOpener
  <2>7. handles[j].of = c BY <2>1, <2>2, <2>4, <2>6 DEF OpenInv, KeptByOpener
  <2> QED BY <2>2, <2>3, <2>7
<1> QED BY <1>1, OpenInit, OpenStep, PTL DEF Spec

\* An open that reaches the handler is answered at most once, and exactly once
\* when its handle is used up and the queue of answers is empty.
THEOREM AlwaysAnsweredOnce == Spec => []AnsweredOnce
<1>1. OpenInv => AnsweredOnce
  <2>1. SUFFICES ASSUME OpenInv, NEW i \in DOMAIN handles, handles[i].served
                 PROVE  /\ answers[handles[i].of] <= 1
                        /\ handles[i].state # "held" /\ replies = <<>> => answers[handles[i].of] = 1
    BY DEF AnsweredOnce
  <2>2. answers[handles[i].of] =
          IF handles[i].state = "held" \/ (\E r \in Members(replies) : r.chan = i) THEN 0 ELSE 1
    BY <2>1 DEF OpenInv, Counted
  <2> QED BY <2>2, MembersNone
<1> QED BY <1>1, OpenInit, OpenStep, PTL DEF Spec

\* A channel can be written to as soon as its task has it: no write after
\* accept() is thrown away, and the opener's writer knows its window.
THEOREM AlwaysWritableFromTheStart == Spec => []WritableFromTheStart
<1>1. OpenInv => WritableFromTheStart
  BY DEF OpenInv, WritesAccepted, CallerInformed, WritableFromTheStart, OpenWindowKnown
<1> QED BY <1>1, OpenInit, OpenStep, PTL DEF Spec
=============================================================================
