------------------------ MODULE OutboundFlowProofs ------------------------
(***************************************************************************)
(* Proofs about OutboundFlow, for any channels, producers, writers, window *)
(* and cap: the stream is intact, the windows agree, an acknowledgement    *)
(* means that the bytes were sent, and the whole implements a byte pipe.   *)
(***************************************************************************)
EXTENDS OutboundFlow, FiniteSetTheorems, SequenceTheorems, WellFoundedInduction, TLAPS

\* A set of naturals has a least element: what stands in for induction here.
LEMMA LeastElement ==
  ASSUME NEW T \in SUBSET Nat, T # {}
  PROVE  \E x \in T : \A y \in T : x <= y
<1> DEFINE R == OpToRel(<, Nat)
<1>1. IsWellFoundedOn(R, Nat)
  BY NatLessThanWellFounded
<1>2. \A x, y \in Nat : x < y => <<x, y>> \in R
  BY DEF OpToRel
<1> HIDE DEF R
<1>3. PICK x \in T : \A y \in T : ~(<<y, x>> \in R)
  BY <1>1, WFMin
<1>4. ASSUME NEW y \in T PROVE x <= y
  <2>1. x \in Nat /\ y \in Nat
    OBVIOUS
  <2>2. ~(y < x)
    BY <1>2, <1>3, <2>1
  <2> QED BY <2>1, <2>2
<1> QED BY <1>4
-----------------------------------------------------------------------------
(* Sequences of ranges. *)

\* Contiguous in a form that a proof can use without induction over the
\* sequence: every item lies within the bounds, and before the later ones.
Chain(s, lo, hi) ==
  /\ lo \in Nat /\ hi \in Nat /\ lo <= hi
  /\ Contiguous(s, lo, hi)
  /\ \A i \in 1 .. Len(s) : lo <= s[i].from /\ s[i].from <= s[i].to /\ s[i].to <= hi
  /\ \A i, j \in 1 .. Len(s) : i < j => s[i].to <= s[j].from

\* A set of items that have a start and an end.
Items(S) == \A x \in S : x.from \in Nat /\ x.to \in Nat

LEMMA ItemSets == Items(Packet) /\ Items(ByteRange)
BY DEF Items, Packet, ByteRange

\* The empty sequence is a chain of length zero.
LEMMA ChainEmpty ==
  ASSUME NEW lo \in Nat
  PROVE  Chain(<<>>, lo, lo)
BY DEF Chain, Contiguous

LEMMA ChainOfNone ==
  ASSUME NEW lo, NEW hi, Chain(<<>>, lo, hi)
  PROVE  lo = hi
BY DEF Chain, Contiguous

\* One item is a chain.
LEMMA ChainOne ==
  ASSUME NEW x, x.from \in Nat, x.to \in Nat, x.from <= x.to
  PROVE  Chain(<<x>>, x.from, x.to)
<1>1. Len(<<x>>) = 1 /\ <<x>>[1] = x /\ <<x>> # <<>>
  OBVIOUS
<1> QED BY <1>1 DEF Chain, Contiguous

\* Chains that meet make a chain.
LEMMA ChainConcat ==
  ASSUME NEW S, Items(S), NEW s \in Seq(S), NEW t \in Seq(S), NEW lo, NEW mid, NEW hi,
         Chain(s, lo, mid), Chain(t, mid, hi)
  PROVE  Chain(s \o t, lo, hi)
<1> DEFINE u == s \o t
<1>1. /\ Len(u) = Len(s) + Len(t) /\ Len(s) \in Nat /\ Len(t) \in Nat
      /\ \A i \in 1 .. Len(s) : u[i] = s[i]
      /\ \A i \in 1 .. Len(t) : u[Len(s) + i] = t[i]
      /\ u \in Seq(S)
  BY ConcatProperties
<1>2. /\ \A i \in 1 .. Len(s) : s[i] \in S /\ s[i].from \in Nat /\ s[i].to \in Nat
      /\ \A i \in 1 .. Len(t) : t[i] \in S /\ t[i].from \in Nat /\ t[i].to \in Nat
  BY DEF Items
<1>3. /\ lo \in Nat /\ mid \in Nat /\ hi \in Nat /\ lo <= mid /\ mid <= hi
  BY DEF Chain
<1> HIDE DEF u
<1>4. ASSUME NEW i \in 1 .. Len(u), i > Len(s)
      PROVE  i - Len(s) \in 1 .. Len(t) /\ u[i] = t[i - Len(s)]
  <2>1. i - Len(s) \in 1 .. Len(t) /\ i = Len(s) + (i - Len(s))
    BY <1>1, <1>4
  <2> QED BY <1>1, <2>1
<1>5. \A i \in 1 .. Len(u) : lo <= u[i].from /\ u[i].from <= u[i].to /\ u[i].to <= hi
  <2> TAKE i \in 1 .. Len(u)
  <2>1. CASE i <= Len(s)
    <3>1. i \in 1 .. Len(s) /\ u[i] = s[i]
      BY <1>1, <2>1
    <3>2. lo <= s[i].from /\ s[i].from <= s[i].to /\ s[i].to <= mid
      BY <3>1 DEF Chain
    <3> QED BY <3>1, <3>2, <1>2, <1>3
  <2>2. CASE i > Len(s)
    <3> DEFINE j == i - Len(s)
    <3>1. j \in 1 .. Len(t) /\ u[i] = t[j]
      BY <1>4, <2>2
    <3> HIDE DEF j
    <3>2. mid <= t[j].from /\ t[j].from <= t[j].to /\ t[j].to <= hi
      BY <3>1 DEF Chain
    <3> QED BY <3>1, <3>2, <1>2, <1>3
  <2> QED BY <2>1, <2>2, <1>1
<1>6. \A i, j \in 1 .. Len(u) : i < j => u[i].to <= u[j].from
  <2> TAKE i, j \in 1 .. Len(u)
  <2> HAVE i < j
  <2>1. CASE j <= Len(s)
    <3>1. i \in 1 .. Len(s) /\ j \in 1 .. Len(s) /\ u[i] = s[i] /\ u[j] = s[j]
      BY <1>1, <2>1
    <3> QED BY <3>1 DEF Chain
  <2>2. CASE i > Len(s)
    <3> DEFINE x == i - Len(s)
               y == j - Len(s)
    <3>1. x \in 1 .. Len(t) /\ u[i] = t[x] /\ y \in 1 .. Len(t) /\ u[j] = t[y] /\ x < y
      BY <1>4, <1>1, <2>2
    <3> HIDE DEF x, y
    <3> QED BY <3>1 DEF Chain
  <2>3. CASE i <= Len(s) /\ j > Len(s)
    <3> DEFINE y == j - Len(s)
    <3>1. i \in 1 .. Len(s) /\ u[i] = s[i] /\ y \in 1 .. Len(t) /\ u[j] = t[y]
      BY <1>4, <1>1, <2>3
    <3> HIDE DEF y
    <3>2. s[i].to <= mid /\ mid <= t[y].from
      BY <3>1 DEF Chain
    <3> QED BY <3>1, <3>2, <1>2, <1>3
  <2> QED BY <2>1, <2>2, <2>3, <1>1
<1>7. Contiguous(u, lo, hi)
  <2>1. CASE s = <<>>
    <3>1. lo = mid /\ u = t
      BY <2>1, ChainOfNone DEF u
    <3> QED BY <3>1 DEF Chain
  <2>2. CASE t = <<>>
    <3>1. mid = hi /\ u = s
      BY <2>2, ChainOfNone DEF u
    <3> QED BY <3>1 DEF Chain
  <2>3. CASE s # <<>> /\ t # <<>>
    <3>1. Len(s) > 0 /\ Len(t) > 0 /\ u # <<>>
      BY <2>3, <1>1, EmptySeq
    <3>2. u[1] = s[1] /\ u[Len(u)] = t[Len(t)]
      BY <3>1, <1>1
    <3>3. /\ s[1].from = lo /\ s[Len(s)].to = mid /\ t[1].from = mid /\ t[Len(t)].to = hi
          /\ \A i \in 1 .. Len(s) - 1 : s[i].to = s[i + 1].from
          /\ \A i \in 1 .. Len(t) - 1 : t[i].to = t[i + 1].from
      BY <2>3 DEF Chain, Contiguous
    <3>4. ASSUME NEW i \in 1 .. Len(u) - 1 PROVE u[i].to = u[i + 1].from
      <4>1. CASE i < Len(s)
        <5>1. i \in 1 .. Len(s) - 1 /\ i \in 1 .. Len(s) /\ i + 1 \in 1 .. Len(s)
          BY <1>1, <4>1
        <5>2. u[i] = s[i] /\ u[i + 1] = s[i + 1]
          BY <1>1, <5>1
        <5> QED BY <5>1, <5>2, <3>3
      <4>2. CASE i = Len(s)
        <5>1. u[i] = s[Len(s)] /\ u[i + 1] = t[1]
          BY <1>1, <4>2, <3>1
        <5> QED BY <5>1, <3>3
      <4>3. CASE i > Len(s)
        <5> DEFINE x == i - Len(s)
        <5>1. x \in 1 .. Len(t) - 1 /\ u[i] = t[x]
          BY <1>4, <1>1, <4>3
        <5>2. i + 1 \in 1 .. Len(u) /\ i + 1 > Len(s) /\ (i + 1) - Len(s) = x + 1
          BY <1>1, <4>3
        <5>3. u[i + 1] = t[x + 1]
          BY <5>2, <1>4
        <5> HIDE DEF x
        <5> QED BY <5>1, <5>3, <3>3
      <4> QED BY <4>1, <4>2, <4>3, <1>1
    <3> QED BY <3>1, <3>2, <3>3, <3>4 DEF Contiguous
  <2> QED BY <2>1, <2>2, <2>3
<1>8. lo <= hi
  BY <1>3
<1> QED BY <1>3, <1>5, <1>6, <1>7, <1>8 DEF Chain, u

\* What is left of a chain when its first item is taken off.
LEMMA ChainTail ==
  ASSUME NEW S, Items(S), NEW s \in Seq(S), s # <<>>, NEW lo, NEW hi, Chain(s, lo, hi)
  PROVE  /\ s[1].from = lo /\ s[1].from <= s[1].to /\ s[1].to <= hi /\ s[1].to \in Nat
         /\ Tail(s) \in Seq(S) /\ Chain(Tail(s), s[1].to, hi)
<1> DEFINE t == Tail(s)
<1>1. /\ t \in Seq(S) /\ Len(t) = Len(s) - 1 /\ Len(s) \in Nat /\ Len(s) > 0
      /\ \A i \in 1 .. Len(t) : t[i] = s[i + 1]
  BY EmptySeq, HeadTailProperties
<1>2. /\ \A i \in 1 .. Len(s) : s[i] \in S /\ s[i].from \in Nat /\ s[i].to \in Nat
      /\ 1 \in 1 .. Len(s) /\ Len(s) \in 1 .. Len(s)
  BY <1>1 DEF Items
<1>3. /\ lo \in Nat /\ hi \in Nat
      /\ s[1].from = lo /\ s[Len(s)].to = hi
      /\ \A i \in 1 .. Len(s) - 1 : s[i].to = s[i + 1].from
      /\ \A i \in 1 .. Len(s) : lo <= s[i].from /\ s[i].from <= s[i].to /\ s[i].to <= hi
      /\ \A i, j \in 1 .. Len(s) : i < j => s[i].to <= s[j].from
  BY DEF Chain, Contiguous
<1> HIDE DEF t
<1>4. s[1].to \in Nat /\ s[1].to <= hi /\ s[1].from <= s[1].to
  BY <1>2, <1>3
<1>5. \A i \in 1 .. Len(t) : i + 1 \in 1 .. Len(s) /\ 1 < i + 1
  BY <1>1
<1>6. \A i \in 1 .. Len(t) : s[1].to <= t[i].from /\ t[i].from <= t[i].to /\ t[i].to <= hi
  BY <1>1, <1>2, <1>3, <1>5
<1>7. \A i, j \in 1 .. Len(t) : i < j => t[i].to <= t[j].from
  <2> TAKE i, j \in 1 .. Len(t)
  <2> HAVE i < j
  <2>1. i + 1 < j + 1 /\ i + 1 \in 1 .. Len(s) /\ j + 1 \in 1 .. Len(s)
    BY <1>5, <1>1
  <2> QED BY <2>1, <1>3, <1>1
<1>8. Contiguous(t, s[1].to, hi)
  <2>1. CASE t = <<>>
    <3>1. Len(t) = 0
      BY <2>1
    <3>2. Len(s) = 1
      BY <3>1, <1>1
    <3> QED BY <2>1, <3>1, <3>2, <1>3 DEF Contiguous
  <2>2. CASE t # <<>>
    <3>1. Len(t) > 0
      BY <2>2, <1>1, EmptySeq
    <3>2. t[1] = s[2] /\ t[Len(t)] = s[Len(s)] /\ 1 \in 1 .. Len(s) - 1
      BY <3>1, <1>1
    <3>3. s[1].to = s[2].from
      BY <3>2, <1>3
    <3>4. ASSUME NEW i \in 1 .. Len(t) - 1 PROVE t[i].to = t[i + 1].from
      <4>1. i \in 1 .. Len(t) /\ i + 1 \in 1 .. Len(t) /\ i + 1 \in 1 .. Len(s) - 1
        BY <1>1
      <4>2. t[i] = s[i + 1] /\ t[i + 1] = s[(i + 1) + 1]
        BY <4>1, <1>1
      <4> QED BY <4>1, <4>2, <1>3
    <3> QED BY <2>2, <3>2, <3>3, <3>4, <1>3 DEF Contiguous
  <2> QED BY <2>1, <2>2
<1>9. Chain(t, s[1].to, hi)
  BY <1>3, <1>4, <1>6, <1>7, <1>8 DEF Chain
<1> QED BY <1>1, <1>3, <1>4, <1>9 DEF t

\* What is left of a chain behind its first k items.
LEMMA ChainSuffix ==
  ASSUME NEW S, Items(S), NEW s \in Seq(S), NEW lo, NEW hi, Chain(s, lo, hi),
         NEW k \in 0 .. Len(s) - 1
  PROVE  LET t == SubSeq(s, k + 1, Len(s))
         IN  /\ t \in Seq(S) /\ t # <<>> /\ t[1] = s[k + 1]
             /\ Chain(t, s[k + 1].from, hi)
<1> DEFINE t == SubSeq(s, k + 1, Len(s))
<1>0. Len(s) \in Nat /\ k \in Nat /\ k + 1 \in 1 .. Len(s)
  OBVIOUS
<1>1. /\ t \in Seq(S) /\ Len(t) = Len(s) - k
      /\ \A i \in 1 .. Len(t) : t[i] = s[k + i]
  <2>1. /\ t \in Seq(S)
        /\ Len(t) = IF k + 1 <= Len(s) THEN Len(s) - (k + 1) + 1 ELSE 0
        /\ \A i \in 1 .. Len(s) - (k + 1) + 1 : t[i] = s[(k + 1) + i - 1]
    BY <1>0, SubSeqProperties
  <2>2. Len(t) = Len(s) - k /\ Len(s) - (k + 1) + 1 = Len(s) - k
    BY <2>1, <1>0
  <2> QED BY <2>1, <2>2, <1>0
<1>2. \A i \in 1 .. Len(s) : s[i] \in S /\ s[i].from \in Nat /\ s[i].to \in Nat
  BY DEF Items
<1>3. /\ hi \in Nat /\ s # <<>>
      /\ s[Len(s)].to = hi
      /\ \A i \in 1 .. Len(s) - 1 : s[i].to = s[i + 1].from
      /\ \A i \in 1 .. Len(s) : lo <= s[i].from /\ s[i].from <= s[i].to /\ s[i].to <= hi
      /\ \A i, j \in 1 .. Len(s) : i < j => s[i].to <= s[j].from
  <2>1. s # <<>>
    BY <1>0
  <2> QED BY <2>1 DEF Chain, Contiguous
<1> HIDE DEF t
<1>4. Len(t) > 0 /\ t # <<>>
  BY <1>1, <1>0
<1>5. 1 \in 1 .. Len(t) /\ t[1] = s[k + 1] /\ Len(t) \in 1 .. Len(t) /\ t[Len(t)] = s[Len(s)]
  BY <1>0, <1>1, <1>4
<1>6. s[k + 1].from \in Nat /\ s[k + 1].from <= hi
  BY <1>0, <1>2, <1>3
<1>7. \A i \in 1 .. Len(t) : k + i \in 1 .. Len(s) /\ (i > 1 => k + 1 < k + i)
  BY <1>0, <1>1
<1>8. ASSUME NEW i \in 1 .. Len(t)
      PROVE  s[k + 1].from <= t[i].from /\ t[i].from <= t[i].to /\ t[i].to <= hi
  <2>1. t[i] = s[k + i] /\ k + i \in 1 .. Len(s)
    BY <1>1, <1>7
  <2>2. CASE i = 1
    BY <2>1, <2>2, <1>2, <1>3, <1>0
  <2>3. CASE i > 1
    <3>1. s[k + 1].to <= s[k + i].from /\ s[k + 1].from <= s[k + 1].to
      BY <2>3, <1>7, <1>3, <1>0
    <3> QED BY <3>1, <2>1, <1>2, <1>3, <1>0
  <2> QED BY <2>2, <2>3
<1>9. \A i, j \in 1 .. Len(t) : i < j => t[i].to <= t[j].from
  <2> TAKE i, j \in 1 .. Len(t)
  <2> HAVE i < j
  <2>1. k + i < k + j /\ k + i \in 1 .. Len(s) /\ k + j \in 1 .. Len(s)
    BY <1>7, <1>0
  <2> QED BY <2>1, <1>3, <1>1
<1>10. ASSUME NEW i \in 1 .. Len(t) - 1 PROVE t[i].to = t[i + 1].from
  <2>1. i \in 1 .. Len(t) /\ i + 1 \in 1 .. Len(t) /\ k + i \in 1 .. Len(s) - 1
    BY <1>1, <1>0
  <2>2. t[i] = s[k + i] /\ t[i + 1] = s[k + (i + 1)] /\ k + (i + 1) = (k + i) + 1
    BY <2>1, <1>1, <1>0
  <2> QED BY <2>1, <2>2, <1>3
<1>11. Contiguous(t, s[k + 1].from, hi)
  BY <1>4, <1>5, <1>3, <1>10 DEF Contiguous
<1>12. Chain(t, s[k + 1].from, hi)
  BY <1>3, <1>6, <1>8, <1>9, <1>11 DEF Chain
<1> QED BY <1>1, <1>4, <1>5, <1>12 DEF t

\* The bytes of a chain are all the bytes between its ends.
LEMMA ChainBytes ==
  ASSUME NEW S, Items(S), NEW s \in Seq(S), NEW lo, NEW hi, Chain(s, lo, hi)
  PROVE  BytesIn(s) = lo .. hi - 1
<1>1. /\ lo \in Nat /\ hi \in Nat /\ Len(s) \in Nat
      /\ \A i \in 1 .. Len(s) : s[i].from \in Nat /\ s[i].to \in Nat
      /\ \A i \in 1 .. Len(s) : lo <= s[i].from /\ s[i].from <= s[i].to /\ s[i].to <= hi
      /\ \A i \in 1 .. Len(s) - 1 : s[i].to = s[i + 1].from
      /\ s = <<>> => lo = hi
      /\ s # <<>> => s[1].from = lo /\ s[Len(s)].to = hi
  BY DEF Chain, Contiguous, Items
<1>2. ASSUME NEW i \in 1 .. Len(s), NEW x \in s[i].from .. s[i].to - 1
      PROVE  x \in lo .. hi - 1
  BY <1>1
<1>3. ASSUME NEW x \in lo .. hi - 1
      PROVE  \E i \in 1 .. Len(s) : x \in s[i].from .. s[i].to - 1
  <2>1. s # <<>> /\ Len(s) > 0
    BY <1>1, EmptySeq
  <2> DEFINE T == {i \in 1 .. Len(s) : s[i].to > x}
  <2>2. T \in SUBSET Nat
    OBVIOUS
  <2>3. Len(s) \in T
    BY <2>1, <1>1
  <2>4. PICK i \in T : \A j \in T : i <= j
    BY <2>2, <2>3, LeastElement
  <2>5. i \in 1 .. Len(s) /\ s[i].to > x /\ \A j \in 1 .. Len(s) : s[j].to > x => i <= j
    BY <2>4
  <2> HIDE DEF T
  <2>6. CASE i = 1
    BY <2>5, <2>6, <2>1, <1>1
  <2>7. CASE i > 1
    <3>1. i - 1 \in 1 .. Len(s) /\ i - 1 \in 1 .. Len(s) - 1 /\ (i - 1) + 1 = i /\ ~(i <= i - 1)
      BY <2>5, <2>7, <1>1
    <3>2. ~(s[i - 1].to > x) /\ s[i - 1].to = s[i].from
      BY <3>1, <2>5, <1>1
    <3> QED BY <3>1, <3>2, <2>5, <1>1
  <2> QED BY <2>5, <2>6, <2>7
<1> QED BY <1>2, <1>3 DEF BytesIn
-----------------------------------------------------------------------------
(* Counting. *)

LEMMA SameSize ==
  ASSUME NEW A, NEW B, IsFiniteSet(A), NEW f \in [A -> B],
         \A x, y \in A : f[x] = f[y] => x = y, \A y \in B : \E x \in A : f[x] = y
  PROVE  IsFiniteSet(B) /\ Cardinality(B) = Cardinality(A)
<1>1. f \in Bijection(A, B)
  BY DEF Bijection, Injection, Surjection, IsInjective
<1> QED BY <1>1, FS_Bijection DEF ExistsBijection

LEMMA DisjointUnion ==
  ASSUME NEW A, NEW B, IsFiniteSet(A), IsFiniteSet(B), A \cap B = {}
  PROVE  IsFiniteSet(A \cup B) /\ Cardinality(A \cup B) = Cardinality(A) + Cardinality(B)
<1>1. Cardinality(A) \in Nat /\ Cardinality(B) \in Nat
  BY FS_CardinalityType
<1>2. /\ IsFiniteSet(A \cup B)
      /\ Cardinality(A \cup B) = Cardinality(A) + Cardinality(B) - Cardinality(A \cap B)
  BY FS_Union
<1>3. Cardinality(A \cap B) = 0
  BY FS_EmptySet
<1> QED BY <1>1, <1>2, <1>3

ClosesAt(s) == {i \in 1 .. Len(s) : s[i].kind \in {"close", "abort"}}

LEMMA ClosesType ==
  ASSUME NEW s \in Seq(Packet)
  PROVE  IsFiniteSet(ClosesAt(s)) /\ Closes(s) = Cardinality(ClosesAt(s)) /\ Closes(s) \in Nat
<1>1. IsFiniteSet(1 .. Len(s))
  BY FS_Interval
<1>2. IsFiniteSet(ClosesAt(s))
  BY <1>1, FS_Subset DEF ClosesAt
<1>3. Closes(s) = Cardinality(ClosesAt(s))
  BY DEF Closes, ClosesAt
<1> QED BY <1>2, <1>3, FS_CardinalityType

LEMMA ClosesConcat ==
  ASSUME NEW s \in Seq(Packet), NEW t \in Seq(Packet)
  PROVE  Closes(s \o t) = Closes(s) + Closes(t)
<1> DEFINE u == s \o t
           A == ClosesAt(s)
           B == ClosesAt(t)
           U == ClosesAt(u)
           C == {i \in U : i > Len(s)}
           f == [i \in B |-> Len(s) + i]
<1>1. /\ Len(u) = Len(s) + Len(t) /\ Len(s) \in Nat /\ Len(t) \in Nat
      /\ \A i \in 1 .. Len(s) : u[i] = s[i]
      /\ \A i \in 1 .. Len(t) : u[Len(s) + i] = t[i]
      /\ u \in Seq(Packet)
  BY ConcatProperties
<1>2. /\ IsFiniteSet(A) /\ IsFiniteSet(B) /\ Closes(s) = Cardinality(A) /\ Closes(t) = Cardinality(B)
      /\ Closes(u) = Cardinality(U)
  BY <1>1, ClosesType
<1>3. A = {i \in U : i <= Len(s)}
  BY <1>1 DEF ClosesAt
<1>4. /\ B \subseteq 1 .. Len(t) /\ C \subseteq 1 .. Len(u)
      /\ \A i \in B : Len(s) + i \in C
      /\ \A i \in C : i - Len(s) \in B /\ Len(s) + (i - Len(s)) = i
  <2> HIDE DEF u
  <2>1. B \subseteq 1 .. Len(t) /\ C \subseteq 1 .. Len(u)
    BY DEF ClosesAt
  <2>2. ASSUME NEW i \in B PROVE Len(s) + i \in C
    <3>1. i \in 1 .. Len(t) /\ t[i].kind \in {"close", "abort"}
      BY DEF ClosesAt
    <3>2. Len(s) + i \in 1 .. Len(u) /\ Len(s) + i > Len(s) /\ u[Len(s) + i] = t[i]
      BY <3>1, <1>1
    <3> QED BY <3>1, <3>2 DEF ClosesAt
  <2>3. ASSUME NEW i \in C PROVE i - Len(s) \in B /\ Len(s) + (i - Len(s)) = i
    <3>1. i \in 1 .. Len(u) /\ u[i].kind \in {"close", "abort"} /\ i > Len(s)
      BY DEF ClosesAt
    <3>2. i - Len(s) \in 1 .. Len(t) /\ Len(s) + (i - Len(s)) = i
      BY <3>1, <1>1
    <3>3. u[i] = t[i - Len(s)]
      BY <3>2, <1>1
    <3> QED BY <3>1, <3>2, <3>3 DEF ClosesAt
  <2> QED BY <2>1, <2>2, <2>3
<1>5. U = A \cup C /\ A \cap C = {}
  BY <1>3, <1>1 DEF ClosesAt
<1> HIDE DEF A, B, C, U, u
<1>6. f \in [B -> C] /\ \A i \in B : f[i] = Len(s) + i
  BY <1>4
<1>7. \A x, y \in B : f[x] = f[y] => x = y
  BY <1>4, <1>6, <1>1
<1>8. \A y \in C : \E x \in B : f[x] = y
  BY <1>4, <1>6
<1> HIDE DEF f
<1>9. IsFiniteSet(C) /\ Cardinality(C) = Cardinality(B)
  BY <1>2, <1>6, <1>7, <1>8, SameSize
<1>10. Cardinality(A \cup C) = Cardinality(A) + Cardinality(C)
  BY <1>2, <1>5, <1>9, DisjointUnion
<1> QED BY <1>2, <1>5, <1>9, <1>10 DEF u

LEMMA ClosesOfOne ==
  ASSUME NEW x \in Packet
  PROVE  Closes(<<x>>) = IF x.kind \in {"close", "abort"} THEN 1 ELSE 0
<1>1. Len(<<x>>) = 1 /\ <<x>>[1] = x
  OBVIOUS
<1>2. ClosesAt(<<x>>) = IF x.kind \in {"close", "abort"} THEN {1} ELSE {}
  BY <1>1 DEF ClosesAt
<1>3. Closes(<<x>>) = Cardinality(ClosesAt(<<x>>))
  BY DEF Closes, ClosesAt
<1> QED BY <1>2, <1>3, FS_Singleton, FS_EmptySet

LEMMA ClosesOfNone == Closes(<<>>) = 0
<1>1. ClosesAt(<<>>) = {}
  BY DEF ClosesAt
<1> QED BY <1>1, FS_EmptySet DEF Closes, ClosesAt
-----------------------------------------------------------------------------
(* The stream of a channel. *)

\* What is on its way from Encrypted to the peer.
Out(c) == sealed[c] \o staged[c]

EncOK ==
  /\ est \in [Chan -> BOOLEAN] /\ rwin \in [Chan -> Nat] /\ pending \in [Chan -> Seq(ByteRange)]
  /\ peof \in [Chan -> BOOLEAN] /\ pclose \in [Chan -> BOOLEAN]
  /\ accepted \in [Chan -> Nat] /\ sentTo \in [Chan -> Nat]
  /\ staged \in [Chan -> Seq(Packet)] /\ sealed \in [Chan -> Seq(Packet)]
  /\ got \in [Chan -> Nat] /\ gotClose \in [Chan -> Nat]

\* The inductive form of OutStreamIntact for one channel.
ChanOK(c) ==
  /\ Chain(Out(c), got[c], sentTo[c])
  /\ sentTo[c] <= accepted[c]
  /\ est[c] => Chain(pending[c], sentTo[c], accepted[c])
  /\ ~est[c] => pending[c] = <<>>
  /\ gotClose[c] + Closes(Out(c)) = IF est[c] THEN 0 ELSE 1

LEMMA OutType ==
  ASSUME EncOK, NEW c \in Chan
  PROVE  Out(c) \in Seq(Packet)
<1>1. sealed[c] \in Seq(Packet) /\ staged[c] \in Seq(Packet)
  BY DEF EncOK
<1> QED BY <1>1, ConcatProperties DEF Out

LEMMA PacketAssoc ==
  \A s, t, u \in Seq(Packet) : (s \o t) \o u = s \o (t \o u)
<1> TAKE s, t, u \in Seq(Packet)
<1> DEFINE S == Packet
<1>1. s \in Seq(S) /\ t \in Seq(S) /\ u \in Seq(S)
  OBVIOUS
<1> HIDE DEF S
<1> QED BY <1>1, ConcatAssociative

\* What Emit adds to the stream.
LEMMA EmitFacts ==
  ASSUME EncOK, NEW c \in Chan, NEW data \in Seq(Packet), NEW controls \in Seq(Packet),
         Emit(c, data, controls)
  PROVE  /\ staged' \in [Chan -> Seq(Packet)] /\ sealed' \in [Chan -> Seq(Packet)]
         /\ Out(c)' = Out(c) \o (data \o controls)
         /\ \A d \in Chan \ {c} : Out(d)' = Out(d)
<1>0. staged \in [Chan -> Seq(Packet)] /\ sealed \in [Chan -> Seq(Packet)]
  BY DEF EncOK
<1>1. /\ sealed[c] \in Seq(Packet) /\ staged[c] \in Seq(Packet)
      /\ data \o controls \in Seq(Packet) /\ sealed[c] \o data \in Seq(Packet)
      /\ staged[c] \o controls \in Seq(Packet)
  BY <1>0, ConcatProperties
<1>2. staged[c] \o (data \o controls) \in Seq(Packet)
  BY <1>1, ConcatProperties
<1>3. CASE Direct
  <2>1. /\ sealed' = [sealed EXCEPT ![c] = sealed[c] \o data]
        /\ staged' = [staged EXCEPT ![c] = staged[c] \o controls]
        /\ staged[c] = <<>>
    BY <1>3 DEF Emit, Direct
  <2>2. staged[c] \o controls = controls /\ sealed[c] \o <<>> = sealed[c]
    BY <2>1, <1>1, ConcatEmptySeq
  <2>3. (sealed[c] \o data) \o controls = sealed[c] \o (data \o controls)
    <3> DEFINE s == sealed[c]
    <3>1. s \in Seq(Packet)
      BY <1>1
    <3> HIDE DEF s
    <3>2. (s \o data) \o controls = s \o (data \o controls)
      BY <3>1, PacketAssoc
    <3> QED BY <3>2 DEF s
  <2>4. Out(c) = sealed[c]
    BY <2>1, <2>2 DEF Out
  <2>5. Out(c)' = (sealed[c] \o data) \o controls
    BY <2>1, <2>2, <1>0 DEF Out
  <2>6. staged' \in [Chan -> Seq(Packet)] /\ sealed' \in [Chan -> Seq(Packet)]
    BY <2>1, <1>0, <1>1
  <2>7. \A d \in Chan \ {c} : Out(d)' = Out(d)
    BY <2>1, <1>0 DEF Out
  <2> QED BY <2>3, <2>4, <2>5, <2>6, <2>7
<1>4. CASE ~Direct
  <2>1. /\ sealed' = sealed
        /\ staged' = [staged EXCEPT ![c] = staged[c] \o (data \o controls)]
    BY <1>4 DEF Emit
  <2>2. (sealed[c] \o staged[c]) \o (data \o controls) = sealed[c] \o (staged[c] \o (data \o controls))
    <3> DEFINE s == sealed[c]
               t == staged[c]
               u == data \o controls
    <3>1. s \in Seq(Packet) /\ t \in Seq(Packet) /\ u \in Seq(Packet)
      BY <1>1
    <3> HIDE DEF s, t, u
    <3>2. (s \o t) \o u = s \o (t \o u)
      BY <3>1, PacketAssoc
    <3> QED BY <3>2 DEF s, t, u
  <2>3. Out(c)' = sealed[c] \o (staged[c] \o (data \o controls))
    BY <2>1, <1>0 DEF Out
  <2>4. staged' \in [Chan -> Seq(Packet)] /\ sealed' \in [Chan -> Seq(Packet)]
    BY <2>1, <1>0, <1>2
  <2>5. \A d \in Chan \ {c} : Out(d)' = Out(d)
    BY <2>1, <1>0 DEF Out
  <2> QED BY <2>2, <2>3, <2>4, <2>5 DEF Out
<1> QED BY <1>3, <1>4

\* A run of data from a to b, and a control at a, as chains.
LEMMA RunFacts ==
  ASSUME NEW a \in Nat, NEW b \in Nat, a <= b
  PROVE  LET r == Run("data", a, b)
         IN  r \in Seq(Packet) /\ Chain(r, a, b) /\ Closes(r) = 0
<1> DEFINE x == [kind |-> "data", from |-> a, to |-> b]
<1>1. x \in Packet /\ x.from = a /\ x.to = b /\ x.kind = "data"
  BY DEF Packet
<1>2. CASE a < b
  <2>1. Run("data", a, b) = <<x>>
    BY <1>2 DEF Run
  <2> HIDE DEF x
  <2>2. <<x>> \in Seq(Packet)
    BY <1>1
  <2>3. Closes(<<x>>) = 0
    BY <1>1, ClosesOfOne
  <2>4. Chain(<<x>>, a, b)
    BY <1>1, ChainOne
  <2> QED BY <2>1, <2>2, <2>3, <2>4
<1>3. CASE a = b
  <2>1. Run("data", a, b) = <<>>
    BY <1>3 DEF Run
  <2>2. <<>> \in Seq(Packet)
    OBVIOUS
  <2> QED BY <2>1, <2>2, <1>3, ChainEmpty, ClosesOfNone
<1> QED BY <1>2, <1>3

LEMMA ControlFacts ==
  ASSUME NEW k \in {"eof", "close", "abort"}, NEW a \in Nat
  PROVE  LET r == Control(k, a)
         IN  r \in Seq(Packet) /\ Chain(r, a, a) /\ Closes(r) = IF k = "eof" THEN 0 ELSE 1
<1> DEFINE x == [kind |-> k, from |-> a, to |-> a]
<1>1. x \in Packet /\ x.from = a /\ x.to = a /\ x.kind = k
  BY DEF Packet
<1>2. Control(k, a) = <<x>>
  BY DEF Control
<1> HIDE DEF x
<1>3. <<x>> \in Seq(Packet)
  BY <1>1
<1>4. Closes(<<x>>) = IF k = "eof" THEN 0 ELSE 1
  <2>1. Closes(<<x>>) = IF x.kind \in {"close", "abort"} THEN 1 ELSE 0
    BY <1>1, ClosesOfOne
  <2>2. x.kind \in {"close", "abort"} <=> k # "eof"
    BY <1>1
  <2> QED BY <2>1, <2>2
<1>5. Chain(<<x>>, a, a)
  BY <1>1, ChainOne
<1> QED BY <1>2, <1>3, <1>4, <1>5

\* Two chains of packets that meet, and what they close.
LEMMA PacketConcat ==
  ASSUME NEW s \in Seq(Packet), NEW t \in Seq(Packet), NEW lo, NEW mid, NEW hi,
         Chain(s, lo, mid), Chain(t, mid, hi)
  PROVE  s \o t \in Seq(Packet) /\ Chain(s \o t, lo, hi) /\ Closes(s \o t) = Closes(s) + Closes(t)
<1>1. Chain(s \o t, lo, hi)
  BY ItemSets, ChainConcat
<1>2. s \o t \in Seq(Packet)
  BY ConcatProperties
<1> QED BY <1>1, <1>2, ClosesConcat

LEMMA ControlsFacts ==
  ASSUME EncOK, NEW c \in Chan
  PROVE  /\ Controls(c) \in Seq(Packet) /\ Chain(Controls(c), accepted[c], accepted[c])
         /\ Closes(Controls(c)) = IF pclose[c] THEN 1 ELSE 0
<1> DEFINE x == IF peof[c] THEN Control("eof", accepted[c]) ELSE <<>>
           y == IF pclose[c] THEN Control("close", accepted[c]) ELSE <<>>
           a == accepted[c]
<1>1. a \in Nat /\ peof[c] \in BOOLEAN /\ pclose[c] \in BOOLEAN
  BY DEF EncOK
<1>2. <<>> \in Seq(Packet) /\ Chain(<<>>, a, a) /\ Closes(<<>>) = 0
  BY <1>1, ChainEmpty, ClosesOfNone
<1>3. x \in Seq(Packet) /\ Chain(x, a, a) /\ Closes(x) = 0
  <2>1. Control("eof", a) \in Seq(Packet) /\ Chain(Control("eof", a), a, a) /\ Closes(Control("eof", a)) = 0
    BY <1>1, ControlFacts
  <2> QED BY <2>1, <1>2
<1>4. y \in Seq(Packet) /\ Chain(y, a, a) /\ Closes(y) = IF pclose[c] THEN 1 ELSE 0
  <2>1. Control("close", a) \in Seq(Packet) /\ Chain(Control("close", a), a, a) /\ Closes(Control("close", a)) = 1
    BY <1>1, ControlFacts
  <2> QED BY <2>1, <1>2
<1>5. Controls(c) = x \o y
  BY DEF Controls
<1> HIDE DEF x, y
<1> QED BY <1>3, <1>4, <1>5, PacketConcat

LEMMA RangeType ==
  ASSUME NEW a \in Nat, NEW b \in Nat
  PROVE  LET r == [from |-> a, to |-> b]
         IN  r \in ByteRange /\ r.from = a /\ r.to = b /\ <<r>> \in Seq(ByteRange)
<1> DEFINE r == [from |-> a, to |-> b]
<1>1. r \in ByteRange /\ r.from = a /\ r.to = b
  BY DEF ByteRange
<1> HIDE DEF r
<1>2. <<r>> \in Seq(ByteRange)
  BY <1>1
<1> QED BY <1>1, <1>2 DEF r

\* The backlog of a chain is its span.
LEMMA BytesOfChain ==
  ASSUME NEW q \in Seq(ByteRange), NEW lo, NEW hi, Chain(q, lo, hi)
  PROVE  Bytes(q) = hi - lo
<1>1. lo \in Nat /\ hi \in Nat
  BY DEF Chain
<1>2. CASE q = <<>>
  BY <1>1, <1>2 DEF Bytes, Chain, Contiguous
<1>3. CASE q # <<>>
  BY <1>1, <1>3 DEF Bytes, Chain, Contiguous
<1> QED BY <1>2, <1>3

\* What data_with_writer emits and parks.
LEMMA DataFacts ==
  ASSUME EncOK, NEW c \in Chan, ChanOK(c), est[c], NEW n \in Nat \ {0}
  PROVE  LET t == Taken(c, n)
             r == Run("data", accepted[c], accepted[c] + t)
         IN  /\ t \in 0 .. n /\ t <= rwin[c]
             /\ r \in Seq(Packet) /\ Closes(r) = 0 /\ Chain(r, sentTo[c], sentTo[c] + t)
             /\ Parked(c, n) \in Seq(ByteRange)
             /\ Chain(Parked(c, n), sentTo[c] + t, accepted[c] + n)
             /\ sentTo[c] + t <= accepted[c] + n
<1> DEFINE t == Taken(c, n)
           r == Run("data", accepted[c], accepted[c] + t)
           a == accepted[c]
           s == sentTo[c]
           q == pending[c]
<1>1. /\ a \in Nat /\ s \in Nat /\ q \in Seq(ByteRange) /\ rwin[c] \in Nat
      /\ s <= a /\ Chain(q, s, a)
  BY DEF EncOK, ChanOK
<1>2. t \in 0 .. n /\ t <= rwin[c] /\ (t > 0 => q = <<>>)
  BY <1>1 DEF Taken, Least
<1>3. t > 0 => s = a
  BY <1>1, <1>2, ChainOfNone
<1>4. Parked(c, n) = IF t = n THEN q ELSE Append(q, [from |-> a + t, to |-> a + n])
  BY DEF Parked
<1> HIDE DEF t, a, s, q
<1>5. s + t <= a + n /\ s + t \in Nat /\ a + t \in Nat /\ a + n \in Nat /\ a + t <= a + n
      /\ a <= a + t
  BY <1>1, <1>2, <1>3
<1>6. Run("data", a, a + t) \in Seq(Packet) /\ Chain(Run("data", a, a + t), a, a + t)
      /\ Closes(Run("data", a, a + t)) = 0
  BY <1>1, <1>2, <1>5, RunFacts
<1>7. Chain(Run("data", a, a + t), s, s + t)
  <2>1. CASE t > 0
    BY <2>1, <1>3, <1>6
  <2>2. CASE t = 0
    <3>1. ~(a < a + t) /\ s + t = s
      BY <2>2, <1>1
    <3>2. Run("data", a, a + t) = <<>>
      BY <3>1 DEF Run
    <3> QED BY <3>1, <3>2, <1>1, ChainEmpty
  <2> QED BY <2>1, <2>2, <1>2
<1>8. Chain(q, s + t, a + t)
  <2>1. CASE t > 0
    BY <2>1, <1>2, <1>3, <1>5, ChainEmpty
  <2>2. CASE t = 0
    <3>1. s + t = s /\ a + t = a
      BY <2>2, <1>1
    <3> QED BY <3>1, <1>1
  <2> QED BY <2>1, <2>2, <1>2
<1>9. Parked(c, n) \in Seq(ByteRange) /\ Chain(Parked(c, n), s + t, a + n)
  <2>1. CASE t = n
    BY <2>1, <1>4, <1>1, <1>8
  <2>2. CASE t # n
    <3> DEFINE x == [from |-> a + t, to |-> a + n]
    <3>1. x \in ByteRange /\ x.from = a + t /\ x.to = a + n /\ <<x>> \in Seq(ByteRange)
      BY <1>5, RangeType
    <3>2. Parked(c, n) = Append(q, x)
      BY <2>2, <1>4
    <3> HIDE DEF x
    <3>3. Append(q, x) = q \o <<x>>
      BY <1>1, <3>1, AppendIsConcat
    <3>4. Chain(<<x>>, a + t, a + n)
      BY <3>1, <1>5, ChainOne
    <3>5. Chain(q \o <<x>>, s + t, a + n)
      BY <1>1, <1>8, <3>1, <3>4, ItemSets, ChainConcat
    <3>6. Append(q, x) \in Seq(ByteRange)
      BY <1>1, <3>1, AppendProperties
    <3> QED BY <3>2, <3>3, <3>5, <3>6
  <2> QED BY <2>1, <2>2
<1> QED BY <1>2, <1>5, <1>6, <1>7, <1>9 DEF t, a, s, q

\* How many ranges fit a limit is well defined.
LEMMA CutFacts ==
  ASSUME NEW q \in Seq(ByteRange), NEW limit \in Nat
  PROVE  LET k == Cut(q, limit)
         IN  /\ k \in 0 .. Len(q)
             /\ \A i \in 1 .. k : q[i].to <= limit
             /\ k < Len(q) => q[k + 1].to > limit
<1> DEFINE P(k) == /\ \A i \in 1 .. k : q[i].to <= limit
                   /\ k < Len(q) => q[k + 1].to > limit
           T == {k \in 0 .. Len(q) : k < Len(q) => q[k + 1].to > limit}
<1>0. Len(q) \in Nat /\ \A i \in 1 .. Len(q) : q[i] \in ByteRange
  OBVIOUS
<1>1. T \in SUBSET Nat /\ Len(q) \in T
  BY <1>0
<1>2. PICK k \in T : \A j \in T : k <= j
  BY <1>1, LeastElement
<1>3. k \in 0 .. Len(q) /\ (k < Len(q) => q[k + 1].to > limit)
  BY <1>2
<1>4. ASSUME NEW i \in 1 .. k PROVE q[i].to <= limit
  <2>1. i - 1 \in 0 .. Len(q) /\ ~(k <= i - 1) /\ (i - 1) + 1 = i /\ i \in 1 .. Len(q)
    BY <1>3, <1>0
  <2>2. ~(i - 1 \in T)
    BY <2>1, <1>2
  <2>3. ~(q[i].to > limit)
    BY <2>1, <2>2
  <2>4. q[i].to \in Nat
    BY <2>1, <1>0 DEF ByteRange
  <2> QED BY <2>3, <2>4
<1>5. \E j \in 0 .. Len(q) : P(j)
  BY <1>3, <1>4
<1>6. Cut(q, limit) = CHOOSE j \in 0 .. Len(q) : P(j)
  BY DEF Cut
<1> HIDE DEF P
<1>7. Cut(q, limit) \in 0 .. Len(q) /\ P(Cut(q, limit))
  BY <1>5, <1>6
<1> QED BY <1>7 DEF P
-----------------------------------------------------------------------------
(* The operations of Encrypted, each on one channel. *)

\* Nothing happens to the stream of d.
SameChan(d) ==
  /\ est'[d] = est[d] /\ rwin'[d] = rwin[d] /\ pending'[d] = pending[d]
  /\ accepted'[d] = accepted[d] /\ sentTo'[d] = sentTo[d] /\ Out(d)' = Out(d)

LEMMA SameChanOK ==
  ASSUME NEW d \in Chan, ChanOK(d), SameChan(d), got'[d] = got[d], gotClose'[d] = gotClose[d]
  PROVE  ChanOK(d)'
BY DEF ChanOK, SameChan

\* The stream of c is kept and only grows; the others are left alone.
StreamStep(c) ==
  /\ EncOK' /\ ChanOK(c)' /\ \A d \in Chan \ {c} : SameChan(d)
  /\ sentTo[c] <= sentTo'[c] /\ accepted[c] <= accepted'[c] /\ (est'[c] => est[c])

\* What flush_pending leaves in the backlog and emits.
LEMMA FlushSplit ==
  ASSUME NEW q \in Seq(ByteRange), NEW lo, NEW hi, Chain(q, lo, hi), NEW limit \in lo .. hi
  PROVE  LET left == SubSeq(q, Cut(q, limit) + 1, Len(q))
             rest == IF left = <<>> THEN <<>> ELSE <<[from |-> limit, to |-> left[1].to]>> \o Tail(left)
         IN  /\ rest \in Seq(ByteRange) /\ Chain(rest, limit, hi)
             /\ left = <<>> => limit = hi
<1> DEFINE k == Cut(q, limit)
           left == SubSeq(q, k + 1, Len(q))
           rest == IF left = <<>> THEN <<>> ELSE <<[from |-> limit, to |-> left[1].to]>> \o Tail(left)
<1>0. /\ lo \in Nat /\ hi \in Nat /\ limit \in Nat /\ limit <= hi /\ Len(q) \in Nat
      /\ \A i \in 1 .. Len(q) : q[i] \in ByteRange /\ q[i].to \in Nat
  <2>1. lo \in Nat /\ hi \in Nat
    BY DEF Chain
  <2>2. \A i \in 1 .. Len(q) : q[i] \in ByteRange
    OBVIOUS
  <2>3. \A x \in ByteRange : x.to \in Nat
    BY DEF ByteRange
  <2> QED BY <2>1, <2>2, <2>3
<1>1. /\ k \in 0 .. Len(q)
      /\ \A i \in 1 .. k : q[i].to <= limit
      /\ k < Len(q) => q[k + 1].to > limit
  BY <1>0, CutFacts
<1>2. CASE k = Len(q)
  <2>1. left = <<>>
    BY <1>0, <1>2, SubSeqEmpty
  <2>2. limit = hi
    <3>1. CASE q = <<>>
      BY <3>1, <1>0, ChainOfNone
    <3>2. CASE q # <<>>
      <4>1. Len(q) > 0 /\ Len(q) \in 1 .. k /\ Len(q) \in 1 .. Len(q)
        BY <3>2, <1>2, <1>0, EmptySeq
      <4>2. q[Len(q)].to = hi
        BY <3>2 DEF Chain, Contiguous
      <4> QED BY <4>1, <4>2, <1>1, <1>0
    <3> QED BY <3>1, <3>2
  <2>3. <<>> \in Seq(ByteRange)
    OBVIOUS
  <2> QED BY <2>1, <2>2, <2>3, <1>0, ChainEmpty
<1>3. CASE k < Len(q)
  <2>0. k \in 0 .. Len(q) - 1 /\ k + 1 \in 1 .. Len(q)
    BY <1>0, <1>1, <1>3
  <2>1. left \in Seq(ByteRange) /\ left # <<>> /\ left[1] = q[k + 1] /\ Chain(left, q[k + 1].from, hi)
    BY <2>0, ItemSets, ChainSuffix
  <2> HIDE DEF left
  <2>2. /\ Tail(left) \in Seq(ByteRange) /\ Chain(Tail(left), left[1].to, hi)
        /\ left[1].to \in Nat
    BY <2>1, ItemSets, ChainTail
  <2>3. left[1].to > limit
    BY <1>1, <1>3, <2>1
  <2> DEFINE x == [from |-> limit, to |-> left[1].to]
             y == Tail(left)
             m == left[1].to
  <2>4. x \in ByteRange /\ x.from = limit /\ x.to = m /\ <<x>> \in Seq(ByteRange)
    BY <1>0, <2>2, RangeType
  <2>5. rest = <<x>> \o y
    BY <2>1
  <2>6. m \in Nat /\ limit <= m /\ y \in Seq(ByteRange) /\ Chain(y, m, hi)
    BY <2>2, <2>3, <1>0
  <2> HIDE DEF x, y, m
  <2>7. Chain(<<x>>, limit, m)
    BY <2>4, <2>6, <1>0, ChainOne
  <2>8. Chain(<<x>> \o y, limit, hi) /\ <<x>> \o y \in Seq(ByteRange)
    BY <2>4, <2>6, <2>7, ItemSets, ChainConcat, ConcatProperties
  <2>9. rest \in Seq(ByteRange) /\ Chain(rest, limit, hi) /\ left # <<>>
    BY <2>1, <2>5, <2>8
  <2> QED BY <2>9 DEF left
<1>4. k = Len(q) \/ k < Len(q)
  BY <1>0, <1>1
<1> QED BY <1>2, <1>3, <1>4

\* flush_pending keeps the stream: what was emitted comes before what is left.
LEMMA FlushStep ==
  ASSUME EncOK, NEW c \in Chan, ChanOK(c), est[c], NEW win \in Nat, FlushPending(c, win),
         got' = got, gotClose' = gotClose
  PROVE  /\ StreamStep(c) /\ accepted' = accepted /\ sentTo'[c] + rwin'[c] = sentTo[c] + win
         /\ ~est'[c] => sentTo'[c] = accepted[c]
<1> DEFINE q == pending[c]
           a == accepted[c]
           s == sentTo[c]
           limit == Least(s + win, s + Bytes(q))
           left == SubSeq(q, Cut(q, limit) + 1, Len(q))
           rest == IF left = <<>> THEN <<>> ELSE <<[from |-> limit, to |-> left[1].to]>> \o Tail(left)
           all == left = <<>>
           data == Run("data", IF q = <<>> THEN limit ELSE q[1].from, limit)
           controls == IF all THEN Controls(c) ELSE <<>>
<1>0. /\ rwin' = [rwin EXCEPT ![c] = win - (limit - s)]
      /\ sentTo' = [sentTo EXCEPT ![c] = limit]
      /\ pending' = [pending EXCEPT ![c] = rest]
      /\ Emit(c, data, controls)
      /\ est' = [est EXCEPT ![c] = ~(all /\ pclose[c])]
      /\ peof' = [peof EXCEPT ![c] = peof[c] /\ ~all]
      /\ pclose' = [pclose EXCEPT ![c] = pclose[c] /\ ~all]
      /\ accepted' = accepted
  BY DEF FlushPending
<1>1. /\ a \in Nat /\ s \in Nat /\ q \in Seq(ByteRange) /\ s <= a /\ Chain(q, s, a)
      /\ Chain(Out(c), got[c], s) /\ gotClose[c] + Closes(Out(c)) = 0 /\ Out(c) \in Seq(Packet)
      /\ gotClose[c] \in Nat /\ peof[c] \in BOOLEAN /\ pclose[c] \in BOOLEAN /\ all \in BOOLEAN
  BY OutType DEF EncOK, ChanOK
<1>2. Bytes(q) = a - s
  BY <1>1, BytesOfChain
<1>3. limit \in s .. a /\ limit \in Nat /\ limit <= s + win
  BY <1>1, <1>2 DEF Least
<1> HIDE DEF limit
<1>4. rest \in Seq(ByteRange) /\ Chain(rest, limit, a) /\ (all => limit = a)
  BY <1>1, <1>3, FlushSplit
<1> HIDE DEF rest, left
<1>5. data = Run("data", s, limit)
  <2>1. CASE q = <<>>
    BY <2>1, <1>1, <1>3, ChainOfNone
  <2>2. CASE q # <<>>
    BY <2>2, <1>1 DEF Chain, Contiguous
  <2> QED BY <2>1, <2>2
<1>6. data \in Seq(Packet) /\ Chain(data, s, limit) /\ Closes(data) = 0
  <2>1. s <= limit
    BY <1>1, <1>3
  <2> QED BY <1>1, <1>3, <1>5, <2>1, RunFacts
<1>7. controls \in Seq(Packet) /\ Chain(controls, limit, limit)
      /\ Closes(controls) = IF all /\ pclose[c] THEN 1 ELSE 0
  <2>1. CASE all
    BY <2>1, <1>4, ControlsFacts
  <2>2. CASE ~all
    BY <2>2, <1>3, ChainEmpty, ClosesOfNone
  <2> QED BY <2>1, <2>2
<1> HIDE DEF data, controls
<1>8. /\ staged' \in [Chan -> Seq(Packet)] /\ sealed' \in [Chan -> Seq(Packet)]
      /\ Out(c)' = Out(c) \o (data \o controls)
      /\ \A d \in Chan \ {c} : Out(d)' = Out(d)
  BY <1>0, <1>6, <1>7, EmitFacts
<1>9. /\ data \o controls \in Seq(Packet) /\ Chain(data \o controls, s, limit)
      /\ Closes(data \o controls) = IF all /\ pclose[c] THEN 1 ELSE 0
  <2>1. Closes(data \o controls) = Closes(data) + Closes(controls)
        /\ data \o controls \in Seq(Packet) /\ Chain(data \o controls, s, limit)
    BY <1>6, <1>7, PacketConcat
  <2> QED BY <2>1, <1>6, <1>7
<1> DEFINE o == Out(c)
           e == data \o controls
<1> HIDE DEF o, e
<1>10. /\ Chain(o \o e, got[c], limit)
       /\ Closes(o \o e) = Closes(o) + Closes(e)
  BY <1>1, <1>9, PacketConcat DEF o, e
<1>11. /\ Chain(Out(c)', got'[c], limit)
       /\ gotClose'[c] + Closes(Out(c)') = IF all /\ pclose[c] THEN 1 ELSE 0
  <2>1. Closes(o) \in Nat
    BY <1>1, ClosesType DEF o
  <2> QED BY <1>1, <1>8, <1>9, <1>10, <2>1 DEF o, e
<1>12. /\ rwin'[c] = win - (limit - s) /\ sentTo'[c] = limit /\ pending'[c] = rest
       /\ est'[c] = ~(all /\ pclose[c]) /\ accepted'[c] = a
       /\ \A d \in Chan \ {c} : /\ rwin'[d] = rwin[d] /\ sentTo'[d] = sentTo[d]
                                /\ pending'[d] = pending[d] /\ est'[d] = est[d]
                                /\ accepted'[d] = accepted[d]
  BY <1>0 DEF EncOK
<1>13. rwin'[c] \in Nat /\ sentTo'[c] + rwin'[c] = s + win
  BY <1>1, <1>3, <1>12
<1>14. EncOK'
  <2>1. rwin' \in [Chan -> Nat]
    BY <1>0, <1>12, <1>13 DEF EncOK
  <2>2. sentTo' \in [Chan -> Nat] /\ pending' \in [Chan -> Seq(ByteRange)]
    BY <1>0, <1>3, <1>4 DEF EncOK
  <2>3. est' \in [Chan -> BOOLEAN] /\ peof' \in [Chan -> BOOLEAN] /\ pclose' \in [Chan -> BOOLEAN]
    BY <1>0, <1>1 DEF EncOK
  <2> QED BY <2>1, <2>2, <2>3, <1>0, <1>8 DEF EncOK
<1>15. ChanOK(c)'
  <2>1. limit <= a
    BY <1>1, <1>3
  <2>2. est'[c] => Chain(pending'[c], sentTo'[c], accepted'[c])
    BY <1>4, <1>12
  <2>3. ~est'[c] => pending'[c] = <<>>
    BY <1>1, <1>12 DEF rest
  <2>4. gotClose'[c] + Closes(Out(c)') = IF est'[c] THEN 0 ELSE 1
    BY <1>11, <1>12, <1>1
  <2>5. Chain(Out(c)', got'[c], sentTo'[c]) /\ sentTo'[c] <= accepted'[c]
    BY <1>11, <1>12, <2>1
  <2> QED BY <2>2, <2>3, <2>4, <2>5 DEF ChanOK
<1>16. ~est'[c] => sentTo'[c] = a
  BY <1>12, <1>4, <1>1
<1>17. s <= limit /\ a <= a
  BY <1>1, <1>3
<1>18. \A d \in Chan \ {c} : SameChan(d)
  BY <1>8, <1>12 DEF SameChan
<1>19. StreamStep(c)
  BY <1>12, <1>14, <1>15, <1>17, <1>18 DEF StreamStep
<1> QED BY <1>0, <1>13, <1>16, <1>19

\* What a channel's stream is when e is emitted behind it.
LEMMA Extend ==
  ASSUME EncOK, NEW c \in Chan, ChanOK(c), NEW e \in Seq(Packet), NEW hi, Chain(e, sentTo[c], hi)
  PROVE  /\ Chain(Out(c) \o e, got[c], hi)
         /\ Closes(Out(c) \o e) = Closes(Out(c)) + Closes(e)
         /\ Closes(Out(c)) \in Nat /\ Closes(e) \in Nat
<1> DEFINE o == Out(c)
<1>1. o \in Seq(Packet) /\ Chain(o, got[c], sentTo[c])
  BY OutType DEF ChanOK
<1> HIDE DEF o
<1>2. Chain(o \o e, got[c], hi) /\ Closes(o \o e) = Closes(o) + Closes(e)
  BY <1>1, PacketConcat
<1>3. Closes(o) \in Nat /\ Closes(e) \in Nat
  BY <1>1, ClosesType
<1> QED BY <1>2, <1>3 DEF o

\* close_discarding_pending, after data was emitted up to position to.
LEMMA DiscardStep ==
  ASSUME EncOK, NEW c \in Chan, ChanOK(c), est[c], NEW data \in Seq(Packet), NEW to \in Nat,
         Chain(data, sentTo[c], to), Closes(data) = 0, Discard(c, data, to),
         to <= accepted'[c], sentTo'[c] = to, accepted' \in [Chan -> Nat], sentTo' \in [Chan -> Nat],
         rwin' \in [Chan -> Nat], accepted[c] <= accepted'[c],
         \A d \in Chan \ {c} : /\ accepted'[d] = accepted[d] /\ sentTo'[d] = sentTo[d]
                               /\ rwin'[d] = rwin[d],
         got' = got, gotClose' = gotClose
  PROVE  StreamStep(c) /\ ~est'[c]
<1> DEFINE x == Control("abort", to)
           e == data \o x
<1>0. /\ est' = [est EXCEPT ![c] = FALSE] /\ pending' = [pending EXCEPT ![c] = <<>>]
      /\ peof' = [peof EXCEPT ![c] = FALSE] /\ pclose' = [pclose EXCEPT ![c] = FALSE]
      /\ Emit(c, data, x)
  BY DEF Discard
<1>1. x \in Seq(Packet) /\ Chain(x, to, to) /\ Closes(x) = 1
  BY ControlFacts
<1>2. e \in Seq(Packet) /\ Chain(e, sentTo[c], to) /\ Closes(e) = 1
  <2>1. e \in Seq(Packet) /\ Chain(e, sentTo[c], to) /\ Closes(e) = Closes(data) + Closes(x)
    BY <1>1, PacketConcat
  <2> QED BY <2>1, <1>1
<1>3. /\ staged' \in [Chan -> Seq(Packet)] /\ sealed' \in [Chan -> Seq(Packet)]
      /\ Out(c)' = Out(c) \o e
      /\ \A d \in Chan \ {c} : Out(d)' = Out(d)
  BY <1>0, <1>1, EmitFacts
<1> HIDE DEF e
<1>4. /\ Chain(Out(c)', got'[c], to) /\ gotClose'[c] + Closes(Out(c)') = 1
  <2>1. gotClose[c] + Closes(Out(c)) = 0 /\ gotClose[c] \in Nat
    BY DEF ChanOK, EncOK
  <2>2. /\ Chain(Out(c) \o e, got[c], to) /\ Closes(Out(c) \o e) = Closes(Out(c)) + Closes(e)
        /\ Closes(Out(c)) \in Nat
    BY <1>2, Extend
  <2> QED BY <1>2, <1>3, <2>1, <2>2
<1>5. /\ est'[c] = FALSE /\ pending'[c] = <<>>
      /\ \A d \in Chan \ {c} : est'[d] = est[d] /\ pending'[d] = pending[d]
  BY <1>0 DEF EncOK
<1>6. EncOK'
  <2>1. <<>> \in Seq(ByteRange)
    OBVIOUS
  <2>2. /\ est' \in [Chan -> BOOLEAN] /\ pending' \in [Chan -> Seq(ByteRange)]
        /\ peof' \in [Chan -> BOOLEAN] /\ pclose' \in [Chan -> BOOLEAN]
    BY <1>0, <2>1 DEF EncOK
  <2> QED BY <2>2, <1>3 DEF EncOK
<1>7. ChanOK(c)'
  BY <1>4, <1>5 DEF ChanOK
<1>8. \A d \in Chan \ {c} : SameChan(d)
  BY <1>3, <1>5 DEF SameChan
<1>9. sentTo[c] <= sentTo'[c]
  BY DEF Chain
<1> QED BY <1>5, <1>6, <1>7, <1>8, <1>9 DEF StreamStep

\* Session::data keeps the stream, whether it fits, is parked or overflows.
LEMMA DataStep ==
  ASSUME EncOK, NEW c \in Chan, ChanOK(c), est[c], NEW n \in Nat \ {0}, NEW who,
         SessionData(c, n, who), got' = got, gotClose' = gotClose
  PROVE  /\ StreamStep(c) /\ accepted'[c] = accepted[c] + n
         /\ sentTo'[c] + rwin'[c] = sentTo[c] + rwin[c]
<1> DEFINE t == Taken(c, n)
           a == accepted[c]
           s == sentTo[c]
           r == Run("data", a, a + t)
<1>0. /\ accepted' = [accepted EXCEPT ![c] = a + n]
      /\ sentTo' = [sentTo EXCEPT ![c] = s + t]
      /\ rwin' = [rwin EXCEPT ![c] = rwin[c] - t]
      /\ \/ /\ pending' = [pending EXCEPT ![c] = Parked(c, n)]
            /\ Emit(c, r, <<>>)
            /\ est' = est /\ peof' = peof /\ pclose' = pclose
         \/ Discard(c, r, s + t)
  BY DEF SessionData
<1>1. a \in Nat /\ s \in Nat /\ rwin[c] \in Nat
  BY DEF EncOK
<1>2. /\ t \in 0 .. n /\ t <= rwin[c]
      /\ r \in Seq(Packet) /\ Closes(r) = 0 /\ Chain(r, s, s + t)
      /\ Parked(c, n) \in Seq(ByteRange)
      /\ Chain(Parked(c, n), s + t, a + n)
      /\ s + t <= a + n
  BY DataFacts
<1> HIDE DEF r, t
<1>3. s + t \in Nat /\ a + n \in Nat /\ rwin[c] - t \in Nat /\ s <= s + t /\ a <= a + n
      /\ (s + t) + (rwin[c] - t) = s + rwin[c]
  <2> DEFINE w == rwin[c]
  <2>1. a \in Nat /\ s \in Nat /\ w \in Nat /\ t \in Nat /\ t <= w
    BY <1>1, <1>2
  <2> HIDE DEF a, s, w
  <2>2. s + t \in Nat /\ a + n \in Nat /\ w - t \in Nat /\ s <= s + t /\ a <= a + n
    BY <2>1
  <2>3. (s + t) + (w - t) = s + w
    BY <2>1
  <2> QED BY <2>2, <2>3 DEF a, s, w
<1>4. /\ accepted'[c] = a + n /\ sentTo'[c] = s + t /\ rwin'[c] = rwin[c] - t
      /\ \A d \in Chan \ {c} : /\ accepted'[d] = accepted[d] /\ sentTo'[d] = sentTo[d]
                               /\ rwin'[d] = rwin[d]
  BY <1>0 DEF EncOK
<1>5. accepted' \in [Chan -> Nat] /\ sentTo' \in [Chan -> Nat] /\ rwin' \in [Chan -> Nat]
  BY <1>0, <1>3 DEF EncOK
<1>6. StreamStep(c)
  <2>1. CASE Discard(c, r, s + t)
    BY <2>1, <1>2, <1>3, <1>4, <1>5, DiscardStep
  <2>2. CASE /\ pending' = [pending EXCEPT ![c] = Parked(c, n)]
             /\ Emit(c, r, <<>>)
             /\ est' = est /\ peof' = peof /\ pclose' = pclose
    <3>1. <<>> \in Seq(Packet) /\ r \o <<>> = r
      BY <1>2, ConcatEmptySeq
    <3>2. /\ staged' \in [Chan -> Seq(Packet)] /\ sealed' \in [Chan -> Seq(Packet)]
          /\ Out(c)' = Out(c) \o r
          /\ \A d \in Chan \ {c} : Out(d)' = Out(d)
      <4> DEFINE z == r \o <<>>
      <4>1. /\ Out(c)' = Out(c) \o z
            /\ \A d \in Chan \ {c} : Out(d)' = Out(d)
            /\ staged' \in [Chan -> Seq(Packet)] /\ sealed' \in [Chan -> Seq(Packet)]
        BY <2>2, <3>1, <1>2, EmitFacts
      <4>2. z = r
        BY <3>1
      <4> HIDE DEF z
      <4> QED BY <4>1, <4>2
    <3>3. /\ Chain(Out(c)', got'[c], s + t) /\ gotClose'[c] + Closes(Out(c)') = 0
      <4>1. gotClose[c] + Closes(Out(c)) = 0 /\ gotClose[c] \in Nat
        BY DEF ChanOK, EncOK
      <4>2. /\ Chain(Out(c) \o r, got[c], s + t) /\ Closes(Out(c) \o r) = Closes(Out(c)) + Closes(r)
            /\ Closes(Out(c)) \in Nat
        BY <1>2, Extend
      <4> QED BY <1>2, <3>2, <4>1, <4>2
    <3>4. pending'[c] = Parked(c, n) /\ \A d \in Chan \ {c} : pending'[d] = pending[d]
      BY <2>2 DEF EncOK
    <3>5. pending' \in [Chan -> Seq(ByteRange)]
      BY <2>2, <1>2 DEF EncOK
    <3>6. EncOK'
      BY <2>2, <3>2, <3>5, <1>5 DEF EncOK
    <3>7. ChanOK(c)'
      BY <2>2, <3>3, <3>4, <1>2, <1>4 DEF ChanOK
    <3>8. \A d \in Chan \ {c} : SameChan(d)
      BY <2>2, <3>2, <3>4, <1>4 DEF SameChan
    <3> QED BY <3>6, <3>7, <3>8, <1>3, <1>4, <2>2 DEF StreamStep
  <2> QED BY <1>0, <2>1, <2>2
<1> QED BY <1>3, <1>4, <1>6

\* Session::eof and Session::close, which stage a control behind the stream.
LEMMA StageStep ==
  ASSUME EncOK, NEW c \in Chan, ChanOK(c), est[c], pending[c] = <<>>,
         NEW k \in {"eof", "close"},
         staged' = [staged EXCEPT ![c] = staged[c] \o Control(k, accepted[c])], sealed' = sealed,
         est' = [est EXCEPT ![c] = (k = "eof")],
         UNCHANGED <<rwin, pending, peof, pclose, accepted, sentTo, got, gotClose>>
  PROVE  StreamStep(c) /\ sentTo[c] = accepted[c]
<1> DEFINE x == Control(k, accepted[c])
           p == sealed[c]
           q == staged[c]
<1>1. /\ accepted[c] \in Nat /\ sentTo[c] \in Nat /\ p \in Seq(Packet) /\ q \in Seq(Packet)
      /\ gotClose[c] \in Nat /\ gotClose[c] + Closes(Out(c)) = 0
      /\ Out(c) = p \o q
  BY DEF EncOK, ChanOK, Out
<1>2. sentTo[c] = accepted[c]
  BY ChainOfNone DEF ChanOK
<1>3. x \in Seq(Packet) /\ Chain(x, sentTo[c], sentTo[c]) /\ Closes(x) = IF k = "eof" THEN 0 ELSE 1
  BY <1>1, <1>2, ControlFacts
<1>4. /\ staged' = [staged EXCEPT ![c] = q \o x]
  OBVIOUS
<1> HIDE DEF x, p, q
<1>5. (p \o q) \o x = p \o (q \o x) /\ q \o x \in Seq(Packet)
  BY <1>1, <1>3, PacketAssoc, ConcatProperties
<1>6. staged' \in [Chan -> Seq(Packet)] /\ staged'[c] = q \o x
      /\ \A d \in Chan \ {c} : staged'[d] = staged[d]
  BY <1>4, <1>5 DEF EncOK
<1>7. /\ Out(c)' = p \o (q \o x)
      /\ \A d \in Chan \ {c} : Out(d)' = Out(d)
  BY <1>6 DEF Out, p
<1>8. Out(c)' = Out(c) \o x
  BY <1>1, <1>5, <1>7
<1>9. /\ Chain(Out(c)', got'[c], sentTo[c])
      /\ gotClose'[c] + Closes(Out(c)') = IF k = "eof" THEN 0 ELSE 1
  <2>1. /\ Chain(Out(c) \o x, got[c], sentTo[c]) /\ Closes(Out(c) \o x) = Closes(Out(c)) + Closes(x)
        /\ Closes(Out(c)) \in Nat
    BY <1>3, Extend
  <2> QED BY <2>1, <1>1, <1>3, <1>8
<1>10. /\ est'[c] = (k = "eof") /\ est' \in [Chan -> BOOLEAN]
       /\ \A d \in Chan \ {c} : est'[d] = est[d]
  BY DEF EncOK
<1>11. EncOK'
  BY <1>6, <1>10 DEF EncOK
<1>12. ChanOK(c)'
  BY <1>9, <1>10 DEF ChanOK
<1>13. \A d \in Chan \ {c} : SameChan(d)
  BY <1>7, <1>10 DEF SameChan
<1> QED BY <1>1, <1>2, <1>11, <1>12, <1>13 DEF StreamStep

\* Nothing happens to any stream.
LEMMA StillStep ==
  ASSUME EncOK, NEW c \in Chan, ChanOK(c), UNCHANGED encVars, got' = got, gotClose' = gotClose
  PROVE  StreamStep(c) /\ SameChan(c)
<1>1. /\ est' = est /\ rwin' = rwin /\ pending' = pending /\ peof' = peof /\ pclose' = pclose
      /\ accepted' = accepted /\ sentTo' = sentTo /\ staged' = staged /\ sealed' = sealed
  BY DEF encVars
<1>2. \A d \in Chan : SameChan(d)
  BY <1>1 DEF SameChan, Out
<1>3. EncOK'
  BY <1>1 DEF EncOK
<1>4. ChanOK(c)'
  BY <1>2, SameChanOK
<1>5. sentTo[c] \in Nat /\ accepted[c] \in Nat
  BY DEF EncOK
<1> QED BY <1>1, <1>2, <1>3, <1>4, <1>5 DEF StreamStep

LEMMA EofStep ==
  ASSUME EncOK, NEW c \in Chan, ChanOK(c), SessionEof(c), got' = got, gotClose' = gotClose
  PROVE  /\ StreamStep(c)
         /\ rwin' = rwin /\ accepted' = accepted /\ sentTo' = sentTo /\ est' = est /\ pending' = pending
<1>0. /\ UNCHANGED <<est, rwin, pending, pclose, accepted, sentTo, sealed>>
      /\ \/ est[c] /\ peof' = [peof EXCEPT ![c] = TRUE] /\ staged' = staged
         \/ /\ est[c] /\ pending[c] = <<>> /\ peof' = peof
            /\ staged' = [staged EXCEPT ![c] = staged[c] \o Control("eof", accepted[c])]
         \/ peof' = peof /\ staged' = staged
  BY DEF SessionEof
<1>1. CASE est[c] /\ peof' = [peof EXCEPT ![c] = TRUE] /\ staged' = staged
  <2>1. \A d \in Chan : SameChan(d)
    BY <1>0, <1>1 DEF SameChan, Out
  <2>2. EncOK'
    <3>1. peof' \in [Chan -> BOOLEAN]
      BY <1>1 DEF EncOK
    <3> QED BY <1>0, <1>1, <3>1 DEF EncOK
  <2>3. ChanOK(c)'
    BY <2>1, SameChanOK
  <2>4. sentTo[c] \in Nat /\ accepted[c] \in Nat
    BY DEF EncOK
  <2> QED BY <1>0, <2>1, <2>2, <2>3, <2>4 DEF StreamStep
<1>2. CASE /\ est[c] /\ pending[c] = <<>> /\ peof' = peof
           /\ staged' = [staged EXCEPT ![c] = staged[c] \o Control("eof", accepted[c])]
  <2>1. est' = [est EXCEPT ![c] = ("eof" = "eof")]
    BY <1>0, <1>2 DEF EncOK
  <2>2. StreamStep(c)
    BY <1>0, <1>2, <2>1, StageStep
  <2> QED BY <1>0, <2>2
<1>3. CASE peof' = peof /\ staged' = staged
  <2>1. UNCHANGED encVars
    BY <1>0, <1>3 DEF encVars
  <2>2. StreamStep(c)
    BY <2>1, StillStep
  <2> QED BY <1>0, <2>2
<1> QED BY <1>0, <1>1, <1>2, <1>3

LEMMA CloseStep ==
  ASSUME EncOK, NEW c \in Chan, ChanOK(c), SessionClose(c), got' = got, gotClose' = gotClose
  PROVE  /\ StreamStep(c)
         /\ rwin' = rwin /\ accepted' = accepted /\ sentTo' = sentTo /\ pending' = pending
         /\ est[c] /\ ~est'[c] => sentTo[c] = accepted[c]
<1>0. /\ UNCHANGED <<rwin, pending, peof, accepted, sentTo, sealed>>
      /\ \/ /\ est[c] /\ est' = est /\ pclose' = [pclose EXCEPT ![c] = TRUE] /\ staged' = staged
         \/ /\ est[c] /\ pending[c] = <<>> /\ pclose' = pclose
            /\ est' = [est EXCEPT ![c] = FALSE]
            /\ staged' = [staged EXCEPT ![c] = staged[c] \o Control("close", accepted[c])]
         \/ /\ ~est[c] /\ est' = [est EXCEPT ![c] = FALSE] /\ pclose' = pclose
            /\ staged' = [staged EXCEPT ![c] = staged[c]]
  BY DEF SessionClose
<1>1. CASE est[c] /\ est' = est /\ pclose' = [pclose EXCEPT ![c] = TRUE] /\ staged' = staged
  <2>1. \A d \in Chan : SameChan(d)
    BY <1>0, <1>1 DEF SameChan, Out
  <2>2. EncOK'
    <3>1. pclose' \in [Chan -> BOOLEAN]
      BY <1>1 DEF EncOK
    <3> QED BY <1>0, <1>1, <3>1 DEF EncOK
  <2>3. ChanOK(c)'
    BY <2>1, SameChanOK
  <2>4. sentTo[c] \in Nat /\ accepted[c] \in Nat
    BY DEF EncOK
  <2> QED BY <1>0, <1>1, <2>1, <2>2, <2>3, <2>4 DEF StreamStep
<1>2. CASE /\ est[c] /\ pending[c] = <<>> /\ pclose' = pclose
           /\ est' = [est EXCEPT ![c] = FALSE]
           /\ staged' = [staged EXCEPT ![c] = staged[c] \o Control("close", accepted[c])]
  <2>1. est' = [est EXCEPT ![c] = ("close" = "eof")]
    BY <1>2
  <2>2. StreamStep(c) /\ sentTo[c] = accepted[c]
    BY <1>0, <1>2, <2>1, StageStep
  <2> QED BY <1>0, <2>2
<1>3. CASE /\ ~est[c] /\ est' = [est EXCEPT ![c] = FALSE] /\ pclose' = pclose
           /\ staged' = [staged EXCEPT ![c] = staged[c]]
  <2>1. est' = est /\ staged' = staged
    BY <1>3 DEF EncOK
  <2>2. UNCHANGED encVars
    BY <1>0, <1>3, <2>1 DEF encVars
  <2>3. StreamStep(c)
    BY <2>2, StillStep
  <2> QED BY <1>0, <1>3, <2>3
<1> QED BY <1>0, <1>1, <1>2, <1>3

\* Encrypted::flush moves what is staged behind what is sealed.
LEMMA SealStep ==
  ASSUME EncOK, Flush,
         UNCHANGED <<est, rwin, pending, peof, pclose, accepted, sentTo, got, gotClose>>
  PROVE  EncOK' /\ \A d \in Chan : SameChan(d)
<1>1. /\ sealed' = [c \in Chan |-> sealed[c] \o staged[c]] /\ staged' = [c \in Chan |-> <<>>]
      /\ \A d \in Chan : sealed[d] \in Seq(Packet) /\ staged[d] \in Seq(Packet)
  BY DEF Flush, EncOK
<1>2. ASSUME NEW d \in Chan
      PROVE  /\ sealed[d] \o staged[d] \in Seq(Packet)
             /\ (sealed[d] \o staged[d]) \o <<>> = sealed[d] \o staged[d]
  <2> DEFINE s == sealed[d]
             t == staged[d]
  <2>1. s \in Seq(Packet) /\ t \in Seq(Packet)
    BY <1>1
  <2> HIDE DEF s, t
  <2>2. s \o t \in Seq(Packet)
    BY <2>1, ConcatProperties
  <2>3. (s \o t) \o <<>> = s \o t
    BY <2>2, ConcatEmptySeq
  <2> QED BY <2>2, <2>3 DEF s, t
<1>3. sealed' \in [Chan -> Seq(Packet)] /\ staged' \in [Chan -> Seq(Packet)]
  <2>1. <<>> \in Seq(Packet)
    OBVIOUS
  <2> QED BY <1>1, <1>2, <2>1
<1>4. EncOK'
  BY <1>3 DEF EncOK
<1>5. \A d \in Chan : Out(d)' = Out(d)
  BY <1>1, <1>2 DEF Out
<1> QED BY <1>4, <1>5 DEF SameChan

\* The peer receives the first sealed packet.
LEMMA DeliverStep ==
  ASSUME EncOK, NEW c \in Chan, ChanOK(c), FlushInto(c)
  PROVE  /\ EncOK' /\ ChanOK(c)'
         /\ \A d \in Chan \ {c} : SameChan(d) /\ got'[d] = got[d] /\ gotClose'[d] = gotClose[d]
         /\ got[c] <= got'[c] /\ got'[c] <= sentTo[c]
         /\ UNCHANGED <<est, rwin, pending, accepted, sentTo>>
<1> DEFINE s == sealed[c]
           t == staged[c]
           o == s \o t
           h == Head(s)
<1>0. /\ s # <<>> /\ got' = [got EXCEPT ![c] = h.to]
      /\ gotClose' = [gotClose EXCEPT ![c] = gotClose[c] + Closes(<<h>>)]
      /\ sealed' = [sealed EXCEPT ![c] = Tail(s)]
      /\ UNCHANGED <<est, rwin, pending, peof, pclose, accepted, sentTo, staged>>
  BY DEF FlushInto
<1>1. /\ s \in Seq(Packet) /\ t \in Seq(Packet) /\ Chain(o, got[c], sentTo[c])
      /\ gotClose[c] + Closes(o) = IF est[c] THEN 0 ELSE 1
      /\ gotClose[c] \in Nat /\ got[c] \in Nat /\ sentTo[c] \in Nat
  BY DEF EncOK, ChanOK, Out
<1> HIDE DEF s, t
<1>2. h \in Packet /\ h = s[1] /\ Tail(s) \in Seq(Packet) /\ Len(s) \in Nat /\ Len(s) > 0
  BY <1>0, <1>1, HeadTailProperties, EmptySeq
<1>3. o \in Seq(Packet) /\ o # <<>> /\ o[1] = h /\ Len(o) = Len(s) + Len(t)
  <2>1. o \in Seq(Packet) /\ Len(o) = Len(s) + Len(t) /\ Len(t) \in Nat
        /\ \A i \in 1 .. Len(s) : o[i] = s[i]
    BY <1>1, ConcatProperties
  <2> QED BY <2>1, <1>2
<1>4. Tail(o) = Tail(s) \o t
  <2>1. /\ Tail(o) \in Seq(Packet) /\ Len(Tail(o)) = Len(o) - 1
        /\ \A i \in 1 .. Len(Tail(o)) : Tail(o)[i] = o[i + 1]
    BY <1>3, HeadTailProperties
  <2>2. /\ Len(Tail(s)) = Len(s) - 1 /\ Len(t) \in Nat
        /\ \A i \in 1 .. Len(Tail(s)) : Tail(s)[i] = s[i + 1]
    BY <1>0, <1>1, HeadTailProperties
  <2>3. /\ Tail(s) \o t \in Seq(Packet)
        /\ Len(Tail(s) \o t) = Len(Tail(s)) + Len(t)
        /\ \A i \in 1 .. Len(Tail(s)) + Len(t) : (Tail(s) \o t)[i] =
             IF i <= Len(Tail(s)) THEN Tail(s)[i] ELSE t[i - Len(Tail(s))]
    BY <1>1, <1>2, ConcatProperties
  <2>4. \A i \in 1 .. Len(s) + Len(t) : o[i] = IF i <= Len(s) THEN s[i] ELSE t[i - Len(s)]
    BY <1>1, ConcatProperties
  <2> DEFINE u == Tail(o)
             v == Tail(s) \o t
  <2>5. Len(u) = Len(v)
    BY <2>1, <2>2, <2>3, <1>2, <1>3
  <2>6. ASSUME NEW i \in 1 .. Len(u) PROVE u[i] = v[i]
    <3>1. i + 1 \in 1 .. Len(s) + Len(t) /\ i \in 1 .. Len(Tail(s)) + Len(t)
      BY <2>1, <2>2, <1>2, <1>3
    <3>2. u[i] = IF i + 1 <= Len(s) THEN s[i + 1] ELSE t[(i + 1) - Len(s)]
      BY <3>1, <2>1, <2>4
    <3>3. v[i] = IF i <= Len(s) - 1 THEN Tail(s)[i] ELSE t[i - (Len(s) - 1)]
      BY <3>1, <2>2, <2>3
    <3>4. CASE i + 1 <= Len(s)
      <4>1. i <= Len(s) - 1 /\ i \in 1 .. Len(Tail(s))
        BY <3>4, <1>2, <2>2
      <4> QED BY <3>2, <3>3, <3>4, <4>1, <2>2
    <3>5. CASE ~(i + 1 <= Len(s))
      <4>1. ~(i <= Len(s) - 1) /\ (i + 1) - Len(s) = i - (Len(s) - 1)
        BY <3>5, <1>2
      <4> QED BY <3>2, <3>3, <3>5, <4>1
    <3> QED BY <3>4, <3>5
  <2>7. u \in Seq(Packet) /\ v \in Seq(Packet)
    BY <2>1, <2>3
  <2> HIDE DEF u, v
  <2>8. u = v
    BY <2>5, <2>6, <2>7, SeqEqual
  <2> QED BY <2>8 DEF u, v
<1> HIDE DEF o
<1>5. /\ o[1].from = got[c] /\ o[1].from <= o[1].to /\ o[1].to <= sentTo[c] /\ o[1].to \in Nat
      /\ Tail(o) \in Seq(Packet) /\ Chain(Tail(o), o[1].to, sentTo[c])
  BY <1>1, <1>3, ItemSets, ChainTail
<1>6. Closes(o) = Closes(<<h>>) + Closes(Tail(o)) /\ Closes(<<h>>) \in Nat /\ Closes(Tail(o)) \in Nat
  <2> DEFINE a == <<h>>
             b == Tail(o)
  <2>1. a \in Seq(Packet) /\ b \in Seq(Packet)
    BY <1>2, <1>5
  <2>2. o = a \o b
    <3> DEFINE w == a \o b
    <3>1. Len(a) = 1 /\ a[1] = h
      OBVIOUS
    <3>2. Len(b) = Len(o) - 1 /\ \A i \in 1 .. Len(b) : b[i] = o[i + 1]
      BY <1>3, HeadTailProperties
    <3> HIDE DEF a, b, h
    <3>3. /\ w \in Seq(Packet) /\ Len(w) = Len(a) + Len(b)
          /\ \A i \in 1 .. Len(a) + Len(b) : w[i] = IF i <= Len(a) THEN a[i] ELSE b[i - Len(a)]
      BY <2>1, ConcatProperties
    <3>4. Len(o) \in Nat /\ Len(o) = Len(w)
      BY <3>1, <3>2, <3>3, <1>3
    <3>5. ASSUME NEW i \in 1 .. Len(o) PROVE o[i] = w[i]
      <4>1. CASE i = 1
        BY <4>1, <3>1, <3>3, <3>4, <1>3
      <4>2. CASE i > 1
        <5>1. i - 1 \in 1 .. Len(b) /\ (i - 1) + 1 = i /\ ~(i <= 1) /\ i \in 1 .. 1 + Len(b)
          BY <4>2, <3>2, <3>4
        <5> QED BY <5>1, <3>1, <3>2, <3>3
      <4> QED BY <4>1, <4>2, <3>4
    <3> HIDE DEF w
    <3>6. o = w
      BY <3>3, <3>4, <3>5, <1>3, SeqEqual
    <3> QED BY <3>6 DEF w
  <2> HIDE DEF a, b
  <2>3. Closes(a \o b) = Closes(a) + Closes(b) /\ Closes(a) \in Nat /\ Closes(b) \in Nat
    BY <2>1, ClosesConcat, ClosesType
  <2> QED BY <2>2, <2>3 DEF a, b
<1>7. /\ got'[c] = h.to /\ gotClose'[c] = gotClose[c] + Closes(<<h>>) /\ sealed'[c] = Tail(s)
      /\ \A d \in Chan \ {c} : /\ got'[d] = got[d] /\ gotClose'[d] = gotClose[d]
                               /\ sealed'[d] = sealed[d]
  BY <1>0 DEF EncOK
<1>8. EncOK'
  <2>1. h.to \in Nat /\ gotClose[c] + Closes(<<h>>) \in Nat
    BY <1>1, <1>3, <1>5, <1>6
  <2>2. sealed' \in [Chan -> Seq(Packet)] /\ got' \in [Chan -> Nat] /\ gotClose' \in [Chan -> Nat]
    BY <2>1, <1>0, <1>2 DEF EncOK
  <2> QED BY <2>2, <1>0 DEF EncOK
<1>9. Out(c)' = Tail(o)
  BY <1>0, <1>4, <1>7 DEF Out, t
<1>10. ChanOK(c)'
  <2>1. Chain(Out(c)', got'[c], sentTo'[c])
    BY <1>0, <1>3, <1>5, <1>7, <1>9
  <2>2. gotClose'[c] + Closes(Out(c)') = IF est'[c] THEN 0 ELSE 1
    BY <1>0, <1>1, <1>6, <1>7, <1>9
  <2> QED BY <2>1, <2>2, <1>0 DEF ChanOK
<1>11. \A d \in Chan \ {c} : SameChan(d)
  BY <1>0, <1>7 DEF SameChan, Out
<1>12. got[c] <= got'[c] /\ got'[c] <= sentTo[c]
  BY <1>3, <1>5, <1>7
<1> QED BY <1>0, <1>7, <1>8, <1>10, <1>11, <1>12
-----------------------------------------------------------------------------
(* Session::receiver. *)

\* Data messages are not empty.
InboxOK ==
  /\ inbox \in Seq(Message)
  /\ \A i \in 1 .. Len(inbox) : inbox[i].op = "data" => inbox[i].len > 0

LEMMA InboxHead ==
  ASSUME InboxOK, inbox # <<>>
  PROVE  /\ Head(inbox) \in Message /\ Head(inbox) = inbox[1] /\ 1 \in 1 .. Len(inbox)
         /\ Head(inbox).op = "data" => Head(inbox).len \in Nat \ {0}
         /\ Head(inbox).chan \in Chan /\ Head(inbox).ack \in SUBSET Producers
<1>1. Head(inbox) \in Message /\ Len(inbox) > 0 /\ Len(inbox) \in Nat /\ Head(inbox) = inbox[1]
  BY HeadTailProperties, EmptySeq DEF InboxOK
<1>2. 1 \in 1 .. Len(inbox)
  BY <1>1
<1>3. Head(inbox).op = "data" => Head(inbox).len > 0
  BY <1>1, <1>2 DEF InboxOK
<1>4. Head(inbox).len \in Nat /\ Head(inbox).chan \in Chan /\ Head(inbox).ack \in SUBSET Producers
  BY <1>1 DEF Message
<1> QED BY <1>1, <1>2, <1>3, <1>4

LEMMA InboxTail ==
  ASSUME InboxOK, inbox # <<>>, inbox' = Tail(inbox)
  PROVE  /\ InboxOK' /\ Len(inbox') = Len(inbox) - 1 /\ Len(inbox) \in Nat
         /\ \A i \in 1 .. Len(inbox') : i + 1 \in 1 .. Len(inbox) /\ inbox'[i] = inbox[i + 1]
<1>1. /\ inbox' \in Seq(Message) /\ Len(inbox') = Len(inbox) - 1 /\ Len(inbox) \in Nat
      /\ \A i \in 1 .. Len(inbox') : inbox'[i] = inbox[i + 1]
  BY HeadTailProperties DEF InboxOK
<1>2. \A i \in 1 .. Len(inbox') : i + 1 \in 1 .. Len(inbox)
  BY <1>1
<1> QED BY <1>1, <1>2 DEF InboxOK

LEMMA InboxPost ==
  ASSUME InboxOK, NEW op \in {"data", "eof", "close"}, NEW c \in Chan, NEW n \in Nat,
         NEW who \in SUBSET Producers, Post(op, c, n, who), op = "data" => n > 0
  PROVE  LET m == [op |-> op, chan |-> c, len |-> n, ack |-> who]
         IN  /\ InboxOK' /\ Len(inbox') = Len(inbox) + 1 /\ Len(inbox) \in Nat
             /\ \A i \in 1 .. Len(inbox) : inbox'[i] = inbox[i]
             /\ inbox'[Len(inbox) + 1] = m
<1> DEFINE m == [op |-> op, chan |-> c, len |-> n, ack |-> who]
<1>1. m \in Message /\ m.op = op /\ m.len = n
  BY DEF Message
<1>2. inbox' = Append(inbox, m)
  BY DEF Post
<1> HIDE DEF m
<1>3. /\ inbox' \in Seq(Message) /\ Len(inbox') = Len(inbox) + 1 /\ Len(inbox) \in Nat
      /\ \A i \in 1 .. Len(inbox) : inbox'[i] = inbox[i]
      /\ inbox'[Len(inbox) + 1] = m
  BY <1>1, <1>2, AppendProperties DEF InboxOK
<1>4. \A i \in 1 .. Len(inbox') : i \in 1 .. Len(inbox) \/ i = Len(inbox) + 1
  BY <1>3
<1>5. \A i \in 1 .. Len(inbox') : inbox'[i].op = "data" => inbox'[i].len > 0
  BY <1>1, <1>3, <1>4 DEF InboxOK
<1> QED BY <1>3, <1>5 DEF InboxOK, m
-----------------------------------------------------------------------------
(* The stream is intact. *)

PeerOK == granted \in [Chan -> Nat] /\ adj \in [Chan -> Nat]

\* Reservations are not empty.
WritersOK == wr \in [Writers -> {<<>>} \cup (Chan \X (Nat \ {0}))]

\* flush_all_pending only has channels to visit that are still there.
TodoOK == todo \subseteq Chan /\ (phase = "flushall" => \A c \in todo : est[c])

StreamInv == EncOK /\ (\A c \in Chan : ChanOK(c)) /\ InboxOK /\ PeerOK /\ WritersOK /\ TodoOK

LEMMA AllChanOK ==
  ASSUME \A d \in Chan : ChanOK(d), NEW c \in Chan, StreamStep(c), got' = got, gotClose' = gotClose
  PROVE  EncOK' /\ \A d \in Chan : ChanOK(d)'
<1>1. EncOK' /\ ChanOK(c)' /\ \A d \in Chan \ {c} : SameChan(d)
  BY DEF StreamStep
<1>2. ASSUME NEW d \in Chan \ {c} PROVE ChanOK(d)'
  <2>1. SameChan(d) /\ got'[d] = got[d] /\ gotClose'[d] = gotClose[d] /\ ChanOK(d)
    BY <1>1
  <2> QED BY <2>1, SameChanOK
<1> QED BY <1>1, <1>2

LEMMA AllStill ==
  ASSUME EncOK, \A d \in Chan : ChanOK(d), UNCHANGED encVars, got' = got, gotClose' = gotClose
  PROVE  EncOK' /\ (\A d \in Chan : ChanOK(d)') /\ est' = est
<1>1. /\ est' = est /\ rwin' = rwin /\ pending' = pending /\ peof' = peof /\ pclose' = pclose
      /\ accepted' = accepted /\ sentTo' = sentTo /\ staged' = staged /\ sealed' = sealed
  BY DEF encVars
<1>2. EncOK'
  BY <1>1 DEF EncOK
<1>3. \A d \in Chan : SameChan(d)
  BY <1>1 DEF SameChan, Out
<1>4. ASSUME NEW d \in Chan PROVE ChanOK(d)'
  <2>1. SameChan(d) /\ got'[d] = got[d] /\ gotClose'[d] = gotClose[d] /\ ChanOK(d)
    BY <1>3
  <2> QED BY <2>1, SameChanOK
<1> QED BY <1>1, <1>2, <1>4

\* An operation that a message or a callback requests.
SessionOp(c) ==
  \/ \E n \in Nat \ {0}, who \in SUBSET Producers : SessionData(c, n, who)
  \/ SessionEof(c)
  \/ SessionClose(c)

LEMMA SessionStep ==
  ASSUME EncOK, NEW c \in Chan, ChanOK(c), SessionOp(c), got' = got, gotClose' = gotClose
  PROVE  /\ StreamStep(c)
         /\ sentTo'[c] + rwin'[c] = sentTo[c] + rwin[c]
<1>0. sentTo[c] \in Nat /\ rwin[c] \in Nat
  BY DEF EncOK
<1>1. ASSUME NEW n \in Nat \ {0}, NEW who \in SUBSET Producers, SessionData(c, n, who)
      PROVE  StreamStep(c) /\ sentTo'[c] + rwin'[c] = sentTo[c] + rwin[c]
  <2>1. CASE est[c]
    BY <2>1, <1>1, DataStep
  <2>2. CASE ~est[c]
    <3>1. UNCHANGED encVars
      BY <2>2, <1>1 DEF SessionData
    <3>2. StreamStep(c) /\ SameChan(c)
      BY <3>1, StillStep
    <3> QED BY <3>2, <1>0 DEF SameChan
  <2> QED BY <2>1, <2>2
<1>2. CASE SessionEof(c)
  <2>1. StreamStep(c) /\ rwin' = rwin /\ sentTo' = sentTo
    BY <1>2, EofStep
  <2> QED BY <2>1
<1>3. CASE SessionClose(c)
  <2>1. StreamStep(c) /\ rwin' = rwin /\ sentTo' = sentTo
    BY <1>3, CloseStep
  <2> QED BY <2>1
<1> QED BY <1>1, <1>2, <1>3 DEF SessionOp

\* A dispatched message is an operation on the channel it names.
LEMMA DispatchIsOp ==
  ASSUME InboxOK, dispatch_msg
  PROVE  /\ inbox # <<>> /\ inbox' = Tail(inbox) /\ Head(inbox).chan \in Chan
         /\ SessionOp(Head(inbox).chan)
         /\ UNCHANGED <<kexVars, peerVars, shared, wr, gate, asked>>
<1>1. /\ inbox # <<>> /\ inbox' = Tail(inbox)
      /\ \/ Head(inbox).op = "data" /\ SessionData(Head(inbox).chan, Head(inbox).len, Head(inbox).ack)
         \/ SessionEof(Head(inbox).chan)
         \/ SessionClose(Head(inbox).chan)
      /\ UNCHANGED <<kexVars, peerVars, shared, wr, gate, asked>>
  BY DEF dispatch_msg
<1>2. /\ Head(inbox).op = "data" => Head(inbox).len \in Nat \ {0}
      /\ Head(inbox).chan \in Chan /\ Head(inbox).ack \in SUBSET Producers
  BY <1>1, InboxHead
<1> QED BY <1>1, <1>2 DEF SessionOp

LEMMA CallbackIsOp ==
  ASSUME NEW c \in Chan, CallbackOp(c)
  PROVE  /\ SessionOp(c) /\ phase = "callback"
         /\ UNCHANGED <<peerVars, writerVars, inbox, kexVars, phase, gate>>
<1>1. /\ phase = "callback"
      /\ \/ \E n \in 1 .. MaxLen : SessionData(c, n, {})
         \/ SessionEof(c)
         \/ SessionClose(c)
      /\ UNCHANGED <<peerVars, writerVars, inbox, kexVars, phase, gate>>
  BY DEF CallbackOp
<1>2. \A n \in 1 .. MaxLen : n \in Nat \ {0}
  OBVIOUS
<1>3. {} \in SUBSET Producers
  OBVIOUS
<1> QED BY <1>1, <1>2, <1>3 DEF SessionOp

LEMMA StreamDispatch ==
  ASSUME StreamInv, dispatch_msg, phase' \in {"drained", "end"}
  PROVE  StreamInv'
<1>1. /\ inbox # <<>> /\ inbox' = Tail(inbox) /\ Head(inbox).chan \in Chan
      /\ SessionOp(Head(inbox).chan)
      /\ UNCHANGED <<kexVars, peerVars>> /\ wr' = wr
  BY DispatchIsOp DEF StreamInv
<1>2. got' = got /\ gotClose' = gotClose /\ granted' = granted /\ adj' = adj /\ todo' = todo
  BY <1>1 DEF peerVars, kexVars
<1> DEFINE c == Head(inbox).chan
<1>3. c \in Chan /\ SessionOp(c)
  BY <1>1
<1> HIDE DEF c
<1>4. StreamStep(c)
  BY <1>2, <1>3, SessionStep DEF StreamInv
<1>5. EncOK' /\ \A d \in Chan : ChanOK(d)'
  BY <1>2, <1>3, <1>4, AllChanOK DEF StreamInv
<1>6. InboxOK'
  BY <1>1, InboxTail DEF StreamInv
<1>7. PeerOK' /\ WritersOK' /\ TodoOK'
  BY <1>1, <1>2 DEF StreamInv, PeerOK, WritersOK, TodoOK
<1> QED BY <1>5, <1>6, <1>7 DEF StreamInv

LEMMA StreamCallback ==
  ASSUME StreamInv, NEW c \in Chan, CallbackOp(c)
  PROVE  StreamInv'
<1>1. /\ SessionOp(c) /\ phase = "callback" /\ UNCHANGED <<peerVars, inbox, kexVars, phase>>
      /\ wr' = wr
  BY CallbackIsOp DEF writerVars
<1>2. got' = got /\ gotClose' = gotClose /\ granted' = granted /\ adj' = adj /\ todo' = todo
      /\ inbox' = inbox /\ phase' = "callback"
  BY <1>1 DEF peerVars, kexVars
<1>3. StreamStep(c)
  BY <1>1, <1>2, SessionStep DEF StreamInv
<1>4. EncOK' /\ \A d \in Chan : ChanOK(d)'
  BY <1>2, <1>3, AllChanOK DEF StreamInv
<1>5. InboxOK' /\ PeerOK' /\ WritersOK' /\ TodoOK'
  BY <1>1, <1>2 DEF StreamInv, InboxOK, PeerOK, WritersOK, TodoOK
<1> QED BY <1>4, <1>5 DEF StreamInv

LEMMA StreamFlushes ==
  ASSUME StreamInv, NEW c \in Chan, RecvWindowAdjust(c) \/ FlushAll(c)
  PROVE  StreamInv'
<1>0. EncOK /\ ChanOK(c) /\ rwin[c] \in Nat /\ adj[c] \in Nat /\ adj \in [Chan -> Nat]
  BY DEF StreamInv, EncOK, PeerOK
<1>1. CASE RecvWindowAdjust(c) /\ est[c]
  <2>1. /\ FlushPending(c, rwin[c] + adj[c]) /\ phase' = "callback" /\ adj' = [adj EXCEPT ![c] = 0]
        /\ got' = got /\ gotClose' = gotClose /\ granted' = granted /\ todo' = todo /\ inbox' = inbox
        /\ wr' = wr
    BY <1>1 DEF RecvWindowAdjust, kexVars
  <2>2. rwin[c] + adj[c] \in Nat
    BY <1>0
  <2>3. StreamStep(c)
    BY <1>0, <1>1, <2>1, <2>2, FlushStep
  <2>4. EncOK' /\ \A d \in Chan : ChanOK(d)'
    BY <2>1, <2>3, AllChanOK DEF StreamInv
  <2>5. InboxOK' /\ PeerOK' /\ WritersOK' /\ TodoOK'
    BY <2>1, <1>0 DEF StreamInv, InboxOK, PeerOK, WritersOK, TodoOK
  <2> QED BY <2>4, <2>5 DEF StreamInv
<1>2. CASE RecvWindowAdjust(c) /\ ~est[c]
  <2>1. /\ UNCHANGED encVars /\ phase' = "end" /\ adj' = [adj EXCEPT ![c] = 0]
        /\ got' = got /\ gotClose' = gotClose /\ granted' = granted /\ todo' = todo /\ inbox' = inbox
        /\ wr' = wr
    BY <1>2 DEF RecvWindowAdjust, kexVars
  <2>2. EncOK' /\ \A d \in Chan : ChanOK(d)'
    BY <2>1, AllStill DEF StreamInv
  <2>3. InboxOK' /\ PeerOK' /\ WritersOK' /\ TodoOK'
    BY <2>1, <1>0 DEF StreamInv, InboxOK, PeerOK, WritersOK, TodoOK
  <2> QED BY <2>2, <2>3 DEF StreamInv
<1>3. CASE FlushAll(c)
  <2>1. /\ FlushPending(c, rwin[c]) /\ phase = "flushall" /\ phase' = phase /\ c \in todo
        /\ todo' = todo \ {c} /\ inbox' = inbox
        /\ got' = got /\ gotClose' = gotClose /\ granted' = granted /\ adj' = adj
        /\ wr' = wr
    BY <1>3 DEF FlushAll, peerVars, writerVars
  <2>2. est[c] /\ \A d \in todo : est[d]
    BY <2>1 DEF StreamInv, TodoOK
  <2>3. StreamStep(c)
    BY <1>0, <2>1, <2>2, FlushStep
  <2>4. EncOK' /\ \A d \in Chan : ChanOK(d)'
    BY <2>1, <2>3, AllChanOK DEF StreamInv
  <2>5. \A d \in Chan \ {c} : est'[d] = est[d]
    BY <2>3 DEF StreamStep, SameChan
  <2>6. TodoOK'
    BY <2>1, <2>2, <2>5 DEF StreamInv, TodoOK
  <2>7. InboxOK' /\ PeerOK' /\ WritersOK'
    BY <2>1 DEF StreamInv, InboxOK, PeerOK, WritersOK
  <2> QED BY <2>4, <2>6, <2>7 DEF StreamInv
<1> QED BY <1>1, <1>2, <1>3

LEMMA StreamSeal ==
  ASSUME StreamInv, DrainDone \/ KexDone \/ EndIteration
  PROVE  StreamInv' /\ \A d \in Chan : SameChan(d)
<1>1. /\ UNCHANGED <<est, rwin, pending, peof, pclose, accepted, sentTo, got, gotClose>>
      /\ granted' = granted /\ adj' = adj /\ inbox' = inbox /\ todo' = todo
      /\ wr' = wr /\ phase' # "flushall"
      /\ Flush \/ UNCHANGED <<staged, sealed>>
  BY DEF DrainDone, KexDone, EndIteration, MaybeRekey, BeginRekey, kexVars, peerVars, writerVars
<1>2. EncOK' /\ \A d \in Chan : SameChan(d)
  <2>1. CASE Flush
    BY <2>1, <1>1, SealStep DEF StreamInv
  <2>2. CASE UNCHANGED <<staged, sealed>>
    BY <2>2, <1>1 DEF StreamInv, EncOK, SameChan, Out
  <2> QED BY <1>1, <2>1, <2>2
<1>3. ASSUME NEW d \in Chan PROVE ChanOK(d)'
  <2>1. SameChan(d) /\ got'[d] = got[d] /\ gotClose'[d] = gotClose[d] /\ ChanOK(d)
    BY <1>1, <1>2 DEF StreamInv
  <2> QED BY <2>1, SameChanOK
<1>4. InboxOK' /\ PeerOK' /\ WritersOK' /\ TodoOK'
  BY <1>1 DEF StreamInv, InboxOK, PeerOK, WritersOK, TodoOK
<1> QED BY <1>2, <1>3, <1>4 DEF StreamInv

LEMMA RecvCloseStep ==
  ASSUME StreamInv, NEW c \in Chan, RecvClose(c)
  PROVE  StreamStep(c) /\ ~est'[c] /\ est[c]
<1>1. /\ est[c] /\ Discard(c, <<>>, sentTo[c])
      /\ rwin' = rwin /\ accepted' = accepted /\ sentTo' = sentTo
      /\ got' = got /\ gotClose' = gotClose
  BY DEF RecvClose, peerVars
<1>2. /\ EncOK /\ ChanOK(c) /\ sentTo[c] \in Nat /\ sentTo[c] <= accepted[c] /\ accepted[c] \in Nat
      /\ accepted \in [Chan -> Nat] /\ sentTo \in [Chan -> Nat] /\ rwin \in [Chan -> Nat]
  BY DEF StreamInv, EncOK, ChanOK
<1>3. <<>> \in Seq(Packet) /\ Chain(<<>>, sentTo[c], sentTo[c]) /\ Closes(<<>>) = 0
  BY <1>2, ChainEmpty, ClosesOfNone
<1>4. accepted[c] <= accepted'[c]
  BY <1>1, <1>2
<1> QED BY <1>1, <1>2, <1>3, <1>4, DiscardStep

LEMMA StreamRecvClose ==
  ASSUME StreamInv, NEW c \in Chan, RecvClose(c)
  PROVE  StreamInv'
<1>1. /\ phase' = "callback" /\ todo' = todo /\ inbox' = inbox /\ wr' = wr
      /\ got' = got /\ gotClose' = gotClose /\ granted' = granted /\ adj' = adj
  BY DEF RecvClose, peerVars, kexVars, writerVars
<1>2. StreamStep(c)
  BY RecvCloseStep
<1>3. EncOK' /\ \A d \in Chan : ChanOK(d)'
  BY <1>1, <1>2, AllChanOK DEF StreamInv
<1>4. InboxOK' /\ PeerOK' /\ WritersOK' /\ TodoOK'
  BY <1>1 DEF StreamInv, InboxOK, PeerOK, WritersOK, TodoOK
<1> QED BY <1>3, <1>4 DEF StreamInv

LEMMA StreamDeliver ==
  ASSUME StreamInv, NEW c \in Chan, FlushInto(c)
  PROVE  StreamInv'
<1>1. phase' = "end" /\ todo' = todo /\ inbox' = inbox /\ granted' = granted /\ adj' = adj
      /\ wr' = wr
  BY DEF FlushInto, kexVars, writerVars
<1>2. /\ EncOK' /\ ChanOK(c)'
      /\ \A d \in Chan \ {c} : SameChan(d) /\ got'[d] = got[d] /\ gotClose'[d] = gotClose[d]
  BY DeliverStep DEF StreamInv
<1>3. ASSUME NEW d \in Chan \ {c} PROVE ChanOK(d)'
  <2>1. SameChan(d) /\ got'[d] = got[d] /\ gotClose'[d] = gotClose[d] /\ ChanOK(d)
    BY <1>2 DEF StreamInv
  <2> QED BY <2>1, SameChanOK
<1>4. InboxOK' /\ PeerOK' /\ WritersOK' /\ TodoOK'
  BY <1>1 DEF StreamInv, InboxOK, PeerOK, WritersOK, TodoOK
<1> QED BY <1>2, <1>3, <1>4 DEF StreamInv

\* The steps of the loop that leave the channels' streams alone.
Quiet ==
  \/ RecvOther \/ RecvKexInit \/ RecvNewKeys \/ Tick
  \/ \E c \in Chan : FinalizeClose(c)

LEMMA StreamQuiet ==
  ASSUME StreamInv, Quiet
  PROVE  StreamInv' /\ UNCHANGED encVars /\ UNCHANGED peerVars
<1>1. /\ UNCHANGED encVars /\ UNCHANGED peerVars /\ inbox' = inbox /\ wr' = wr
      /\ \/ todo' = todo /\ phase' # "flushall"
         \/ todo' = {c \in Chan : est[c]}
  BY DEF Quiet, RecvOther, RecvKexInit, RecvNewKeys, Tick, FinalizeClose, BeginRekey, kexVars, writerVars
<1>2. got' = got /\ gotClose' = gotClose /\ granted' = granted /\ adj' = adj
  BY <1>1 DEF peerVars
<1>3. EncOK' /\ (\A d \in Chan : ChanOK(d)') /\ est' = est
  BY <1>1, <1>2, AllStill DEF StreamInv
<1>4. InboxOK' /\ PeerOK' /\ WritersOK' /\ TodoOK'
  BY <1>1, <1>2, <1>3 DEF StreamInv, InboxOK, PeerOK, WritersOK, TodoOK
<1> QED BY <1>1, <1>3, <1>4 DEF StreamInv

LEMMA StreamTask ==
  ASSUME StreamInv, Task
  PROVE  StreamInv' /\ UNCHANGED encVars /\ UNCHANGED peerVars
<1>1. /\ UNCHANGED encVars /\ UNCHANGED peerVars /\ todo' = todo /\ phase' = phase
  BY DEF Task, ProducerSend, WriterReserve, WriterSend, WriterCancel, TaskControl, kexVars
<1>2. got' = got /\ gotClose' = gotClose /\ granted' = granted /\ adj' = adj
  BY <1>1 DEF peerVars
<1>3. EncOK' /\ (\A d \in Chan : ChanOK(d)') /\ est' = est
  BY <1>1, <1>2, AllStill DEF StreamInv
<1>4. PeerOK' /\ TodoOK'
  BY <1>1, <1>2, <1>3 DEF StreamInv, PeerOK, TodoOK
<1>5. InboxOK'
  <2>1. ASSUME NEW p \in Producers, NEW c \in Chan, NEW n \in 1 .. MaxLen, ProducerSend(p, c, n)
        PROVE  InboxOK'
    <3>1. Post("data", c, n, {p}) /\ n \in Nat /\ n > 0 /\ {p} \in SUBSET Producers
      BY <2>1 DEF ProducerSend
    <3> QED BY <3>1, InboxPost DEF StreamInv
  <2>2. ASSUME NEW w \in Writers, WriterSend(w) PROVE InboxOK'
    <3>1. wr[w] # <<>> /\ Post("data", wr[w][1], wr[w][2], {})
      BY <2>2 DEF WriterSend
    <3>2. wr[w][1] \in Chan /\ wr[w][2] \in Nat /\ wr[w][2] > 0 /\ {} \in SUBSET Producers
      BY <3>1 DEF StreamInv, WritersOK
    <3> QED BY <3>1, <3>2, InboxPost DEF StreamInv
  <2>3. ASSUME NEW op \in TaskOps, NEW c \in Chan, TaskControl(op, c) PROVE InboxOK'
    <3>1. Post(op, c, 0, {}) /\ op \in {"eof", "close"} /\ {} \in SUBSET Producers
      BY <2>3, OutboundAssumption DEF TaskControl
    <3> QED BY <3>1, InboxPost DEF StreamInv
  <2>4. CASE inbox' = inbox
    BY <2>4 DEF StreamInv, InboxOK
  <2> QED BY <2>1, <2>2, <2>3, <2>4 DEF Task, WriterReserve, WriterCancel
<1>6. WritersOK'
  <2>1. ASSUME NEW w \in Writers, NEW c \in Chan, NEW n \in 1 .. MaxLen, WriterReserve(w, c, n)
        PROVE  WritersOK'
    <3>1. wr' = [wr EXCEPT ![w] = <<c, n>>] /\ <<c, n>> \in Chan \X (Nat \ {0})
      BY <2>1 DEF WriterReserve
    <3> QED BY <3>1 DEF StreamInv, WritersOK
  <2>2. ASSUME NEW w \in Writers, wr' = [wr EXCEPT ![w] = <<>>] PROVE WritersOK'
    BY <2>2 DEF StreamInv, WritersOK
  <2>3. CASE wr' = wr
    BY <2>3 DEF StreamInv, WritersOK
  <2> QED BY <2>1, <2>2, <2>3 DEF Task, WriterSend, WriterCancel, ProducerSend, TaskControl, writerVars
<1> QED BY <1>1, <1>3, <1>4, <1>5, <1>6 DEF StreamInv

LEMMA StreamGrant ==
  ASSUME StreamInv, NEW c \in Chan, PeerGrant(c)
  PROVE  StreamInv' /\ UNCHANGED encVars /\ got' = got
<1>1. PICK n \in 1 .. got[c] - granted[c] :
        /\ granted' = [granted EXCEPT ![c] = @ + n] /\ adj' = [adj EXCEPT ![c] = @ + n]
  BY DEF PeerGrant
<1>2. /\ UNCHANGED encVars /\ todo' = todo /\ phase' = phase /\ inbox' = inbox /\ wr' = wr
      /\ got' = got /\ gotClose' = gotClose
  BY DEF PeerGrant, kexVars, writerVars
<1>3. EncOK' /\ (\A d \in Chan : ChanOK(d)') /\ est' = est
  BY <1>2, AllStill DEF StreamInv
<1>4. PeerOK'
  <2>1. n \in Nat /\ granted \in [Chan -> Nat] /\ adj \in [Chan -> Nat]
    BY DEF StreamInv, PeerOK
  <2>2. granted[c] + n \in Nat /\ adj[c] + n \in Nat
    BY <2>1
  <2> QED BY <1>1, <2>1, <2>2 DEF PeerOK
<1>5. InboxOK' /\ WritersOK' /\ TodoOK'
  BY <1>2, <1>3 DEF StreamInv, InboxOK, WritersOK, TodoOK
<1> QED BY <1>2, <1>3, <1>4, <1>5 DEF StreamInv

LEMMA StreamNext ==
  ASSUME StreamInv, [Next]_vars
  PROVE  StreamInv'
<1>1. CASE Task
  BY <1>1, StreamTask
<1>2. CASE DrainMsg \/ SelectMsg
  BY <1>2, StreamDispatch DEF DrainMsg, SelectMsg
<1>3. CASE DrainDone \/ KexDone \/ EndIteration
  BY <1>3, StreamSeal
<1>4. CASE Quiet
  BY <1>4, StreamQuiet
<1>5. ASSUME NEW c \in Chan, RecvWindowAdjust(c) \/ FlushAll(c) PROVE StreamInv'
  BY <1>5, StreamFlushes
<1>6. ASSUME NEW c \in Chan, RecvClose(c) PROVE StreamInv'
  BY <1>6, StreamRecvClose
<1>7. ASSUME NEW c \in Chan, CallbackOp(c) PROVE StreamInv'
  BY <1>7, StreamCallback
<1>8. ASSUME NEW c \in Chan, FlushInto(c) PROVE StreamInv'
  BY <1>8, StreamDeliver
<1>9. ASSUME NEW c \in Chan, PeerGrant(c) PROVE StreamInv'
  BY <1>9, StreamGrant
<1>10. CASE UNCHANGED vars
  <2>1. /\ UNCHANGED encVars /\ todo' = todo /\ phase' = phase /\ inbox' = inbox /\ wr' = wr
        /\ got' = got /\ gotClose' = gotClose /\ granted' = granted /\ adj' = adj
    BY <1>10 DEF vars, kexVars, peerVars, writerVars
  <2>2. EncOK' /\ (\A d \in Chan : ChanOK(d)') /\ est' = est
    BY <2>1, AllStill DEF StreamInv
  <2>3. InboxOK' /\ PeerOK' /\ WritersOK' /\ TodoOK'
    BY <2>1, <2>2 DEF StreamInv, InboxOK, PeerOK, WritersOK, TodoOK
  <2> QED BY <2>2, <2>3 DEF StreamInv
<1> QED BY <1>1, <1>2, <1>3, <1>4, <1>5, <1>6, <1>7, <1>8, <1>9, <1>10 DEF Next, Loop, Quiet

LEMMA StreamInit == Init => StreamInv
<1> SUFFICES ASSUME Init PROVE StreamInv
  OBVIOUS
<1>0. InitWindow \in Nat /\ MaxAsked \in Nat /\ InitWindow + 1 \in Nat
  BY OutboundAssumption
<1> DEFINE x == [from |-> InitWindow, to |-> InitWindow + 1]
<1>1. x \in ByteRange /\ x.from = InitWindow /\ x.to = InitWindow + 1 /\ <<x>> \in Seq(ByteRange)
  BY <1>0, RangeType
<1>2. <<>> \in Seq(ByteRange) /\ <<>> \in Seq(Packet) /\ <<>> \in Seq(Message) /\ Len(<<>>) = 0
  OBVIOUS
<1>3. pending = [c \in Chan |-> IF c \in Stuck THEN <<x>> ELSE <<>>]
  BY DEF Init
<1> HIDE DEF x
<1>4. Chain(<<x>>, InitWindow, InitWindow + 1)
  <2>1. InitWindow <= InitWindow + 1
    BY <1>0
  <2> QED BY <1>0, <1>1, <2>1, ChainOne
<1>5. \A c \in Chan : Before(c, InitWindow) \in Nat /\ Before(c, InitWindow + 1) \in Nat
                      /\ InitWindow - Before(c, InitWindow) \in Nat
  BY <1>0 DEF Before
<1>6. EncOK
  <2>1. pending \in [Chan -> Seq(ByteRange)]
    BY <1>1, <1>2, <1>3
  <2>2. rwin \in [Chan -> Nat] /\ accepted \in [Chan -> Nat] /\ sentTo \in [Chan -> Nat]
        /\ got \in [Chan -> Nat] /\ gotClose \in [Chan -> Nat]
    BY <1>5 DEF Init
  <2>3. staged \in [Chan -> Seq(Packet)] /\ sealed \in [Chan -> Seq(Packet)]
    BY <1>2 DEF Init
  <2>4. est \in [Chan -> BOOLEAN] /\ peof \in [Chan -> BOOLEAN] /\ pclose \in [Chan -> BOOLEAN]
    BY DEF Init
  <2> QED BY <2>1, <2>2, <2>3, <2>4 DEF EncOK
<1>7. ASSUME NEW c \in Chan PROVE ChanOK(c)
  <2>1. Out(c) = <<>>
    BY <1>2, ConcatEmptySeq DEF Out, Init
  <2>2. /\ est[c] = TRUE /\ gotClose[c] = 0 /\ got[c] = sentTo[c]
        /\ sentTo[c] = Before(c, InitWindow) /\ accepted[c] = Before(c, InitWindow + 1)
        /\ pending[c] = IF c \in Stuck THEN <<x>> ELSE <<>>
    BY <1>3 DEF Init
  <2>3. Chain(Out(c), got[c], sentTo[c])
    BY <2>1, <2>2, <1>5, ChainEmpty
  <2>4. Closes(Out(c)) = 0
    BY <2>1, ClosesOfNone
  <2>5. Chain(pending[c], sentTo[c], accepted[c]) /\ sentTo[c] <= accepted[c]
    <3>1. CASE c \in Stuck
      BY <3>1, <2>2, <1>0, <1>4 DEF Before
    <3>2. CASE c \notin Stuck
      BY <3>2, <2>2, ChainEmpty DEF Before
    <3> QED BY <3>1, <3>2
  <2> QED BY <2>2, <2>3, <2>4, <2>5 DEF ChanOK
<1>8. InboxOK
  BY <1>2 DEF Init, InboxOK
<1>9. PeerOK /\ WritersOK /\ TodoOK
  BY DEF Init, PeerOK, WritersOK, TodoOK
<1> QED BY <1>6, <1>7, <1>8, <1>9 DEF StreamInv

LEMMA StreamAlways == Spec => []StreamInv
<1>1. StreamInv /\ [Next]_vars => StreamInv'
  BY StreamNext
<1> QED BY StreamInit, <1>1, PTL DEF Spec

\* What the peer received, the PacketWriter, Encrypted::write and pending_data
\* are always, in this order, the stream that Encrypted::data accepted, closed
\* by exactly one CHANNEL_CLOSE: for any channels, tasks, windows and cap, and
\* whatever the order of flushes, key exchanges, closes and overflows.
THEOREM StreamAlwaysIntact == Spec => []OutStreamIntact
<1>1. StreamInv => OutStreamIntact
  BY DEF StreamInv, ChanOK, Chain, OutStreamIntact, Out
<1> QED BY StreamAlways, <1>1, PTL
-----------------------------------------------------------------------------
(* The parked producers. *)

ProdsOK ==
  /\ acks \in [Chan -> SUBSET Producers]
  /\ prod \in [Producers -> {"idle", "waiting", "ok", "err"}]
  /\ claim \in [Producers -> {<<>>} \cup (Chan \X Nat)]

\* A parked producer waits for bytes of that channel that were accepted.
ParkedOK ==
  \A c \in Chan : \A p \in acks[c] :
    /\ prod[p] = "waiting" /\ claim[p] # <<>>
    /\ claim[p][1] = c /\ claim[p][2] <= accepted[c]

\* A channel that closed with producers parked on it was emitted in full.
ClosedOK == \A c \in Chan : ~est[c] /\ acks[c] # {} => sentTo[c] = accepted[c]

ParkInv == ProdsOK /\ ParkedOK /\ ClosedOK /\ AckMeansSent

\* A producer whose message is still queued.
Fresh(p) == prod[p] = "waiting" /\ claim[p] = <<>>

\* The producers of the queued messages wait, each for one message.
QueuedOK ==
  /\ \A i \in 1 .. Len(inbox) : \A p \in inbox[i].ack : Fresh(p)
  /\ \A i, j \in 1 .. Len(inbox) : i # j => inbox[i].ack \cap inbox[j].ack = {}

LEMMA ClaimType ==
  ASSUME ProdsOK, NEW p \in Producers, claim[p] # <<>>
  PROVE  claim[p][1] \in Chan /\ claim[p][2] \in Nat
BY DEF ProdsOK

\* The streams only grow, and the producers are left alone.
Grows ==
  \A d \in Chan : /\ sentTo[d] <= sentTo'[d] /\ accepted[d] <= accepted'[d]
                  /\ est'[d] => est[d]
                  /\ ~est[d] => sentTo'[d] = sentTo[d] /\ accepted'[d] = accepted[d]

LEMMA ParkGrows ==
  ASSUME EncOK, EncOK', ParkInv, Grows, UNCHANGED prodVars,
         \A d \in Chan : est[d] /\ ~est'[d] /\ acks[d] # {} => sentTo'[d] = accepted'[d]
  PROVE  ParkInv'
<1>1. acks' = acks /\ prod' = prod /\ claim' = claim
  BY DEF prodVars
<1>2. \A d \in Chan : /\ sentTo[d] \in Nat /\ sentTo'[d] \in Nat /\ accepted[d] \in Nat
                      /\ accepted'[d] \in Nat /\ est[d] \in BOOLEAN /\ est'[d] \in BOOLEAN
  BY DEF EncOK
<1>3. ProdsOK'
  BY <1>1 DEF ParkInv, ProdsOK
<1>4. ParkedOK'
  <2> SUFFICES ASSUME NEW c \in Chan, NEW p \in acks[c]
               PROVE  /\ prod[p] = "waiting" /\ claim[p] # <<>>
                      /\ claim[p][1] = c /\ claim[p][2] <= accepted'[c]
    BY <1>1 DEF ParkedOK
  <2>1. p \in Producers
    BY DEF ParkInv, ProdsOK
  <2>2. /\ prod[p] = "waiting" /\ claim[p] # <<>> /\ claim[p][1] = c /\ claim[p][2] <= accepted[c]
    BY DEF ParkInv, ParkedOK
  <2>3. claim[p][2] \in Nat
    BY <2>1, <2>2, ClaimType DEF ParkInv
  <2>4. accepted[c] <= accepted'[c]
    BY DEF Grows
  <2> QED BY <2>2, <2>3, <2>4, <1>2
<1>5. ClosedOK'
  BY <1>1, <1>2 DEF ParkInv, ClosedOK, Grows
<1>6. AckMeansSent'
  <2> SUFFICES ASSUME NEW p \in Producers, prod[p] = "ok"
               PROVE  claim[p] # <<>> /\ claim[p][2] <= sentTo'[claim[p][1]]
    BY <1>1 DEF AckMeansSent
  <2>1. claim[p] # <<>> /\ claim[p][2] <= sentTo[claim[p][1]]
    BY DEF ParkInv, AckMeansSent
  <2>2. claim[p][1] \in Chan /\ claim[p][2] \in Nat
    BY <2>1, ClaimType DEF ParkInv
  <2>3. sentTo[claim[p][1]] <= sentTo'[claim[p][1]]
    BY <2>2 DEF Grows
  <2> QED BY <2>1, <2>2, <2>3, <1>2
<1> QED BY <1>3, <1>4, <1>5, <1>6 DEF ParkInv

\* The producers parked on c, if any, are dropped and learn it.
LEMMA ParkDropped ==
  ASSUME EncOK, EncOK', ParkInv, Grows, NEW c \in Chan, AcksDropped(c, {}), claim' = claim,
         \A d \in Chan \ {c} : est'[d] = est[d]
  PROVE  ParkInv' /\ \A p \in Producers : Fresh(p) => Fresh(p)'
<1>1. /\ acks' = [acks EXCEPT ![c] = {}]
      /\ prod' = [p \in Producers |-> IF p \in acks[c] THEN "err" ELSE prod[p]]
  BY DEF AcksDropped, Fail
<1>2. \A d \in Chan : /\ sentTo[d] \in Nat /\ sentTo'[d] \in Nat /\ accepted[d] \in Nat
                      /\ accepted'[d] \in Nat /\ est[d] \in BOOLEAN /\ est'[d] \in BOOLEAN
  BY DEF EncOK
<1>3. acks'[c] = {} /\ \A d \in Chan \ {c} : acks'[d] = acks[d]
  BY <1>1 DEF ParkInv, ProdsOK
<1>4. \A p \in Producers : prod'[p] = IF p \in acks[c] THEN "err" ELSE prod[p]
  BY <1>1
<1>5. ProdsOK'
  <2>1. acks' \in [Chan -> SUBSET Producers]
    BY <1>1 DEF ParkInv, ProdsOK
  <2>2. prod' \in [Producers -> {"idle", "waiting", "ok", "err"}]
    BY <1>1 DEF ParkInv, ProdsOK
  <2> QED BY <2>1, <2>2 DEF ParkInv, ProdsOK
<1>6. ParkedOK'
  <2> SUFFICES ASSUME NEW d \in Chan, NEW p \in acks'[d]
               PROVE  /\ prod'[p] = "waiting" /\ claim[p] # <<>>
                      /\ claim[p][1] = d /\ claim[p][2] <= accepted'[d]
    BY DEF ParkedOK
  <2>1. d # c /\ p \in acks[d] /\ p \in Producers
    BY <1>3 DEF ParkInv, ProdsOK
  <2>2. /\ prod[p] = "waiting" /\ claim[p] # <<>> /\ claim[p][1] = d /\ claim[p][2] <= accepted[d]
    BY <2>1 DEF ParkInv, ParkedOK
  <2>3. p \notin acks[c]
    BY <2>1, <2>2 DEF ParkInv, ParkedOK
  <2>4. claim[p][2] \in Nat
    BY <2>1, <2>2, ClaimType DEF ParkInv
  <2>5. accepted[d] <= accepted'[d]
    BY DEF Grows
  <2> QED BY <2>1, <2>2, <2>3, <2>4, <2>5, <1>2, <1>4
<1>7. ClosedOK'
  BY <1>2, <1>3 DEF ParkInv, ClosedOK, Grows
<1>8. AckMeansSent'
  <2> SUFFICES ASSUME NEW p \in Producers, prod'[p] = "ok"
               PROVE  claim[p] # <<>> /\ claim[p][2] <= sentTo'[claim[p][1]]
    BY DEF AckMeansSent
  <2>0. prod[p] = "ok"
    BY <1>4
  <2>1. claim[p] # <<>> /\ claim[p][2] <= sentTo[claim[p][1]]
    BY <2>0 DEF ParkInv, AckMeansSent
  <2>2. claim[p][1] \in Chan /\ claim[p][2] \in Nat
    BY <2>1, ClaimType DEF ParkInv
  <2>3. sentTo[claim[p][1]] <= sentTo'[claim[p][1]]
    BY <2>2 DEF Grows
  <2> QED BY <2>1, <2>2, <2>3, <1>2
<1>9. \A p \in Producers : Fresh(p) => Fresh(p)'
  <2> SUFFICES ASSUME NEW p \in Producers, Fresh(p) PROVE Fresh(p)'
    OBVIOUS
  <2>1. p \notin acks[c]
    BY DEF ParkInv, ParkedOK, Fresh
  <2> QED BY <2>1, <1>4 DEF Fresh
<1> QED BY <1>5, <1>6, <1>7, <1>8, <1>9 DEF ParkInv

LEMMA StepGrows ==
  ASSUME EncOK, NEW c \in Chan, StreamStep(c),
         ~est[c] => sentTo'[c] = sentTo[c] /\ accepted'[c] = accepted[c]
  PROVE  Grows /\ EncOK' /\ \A d \in Chan \ {c} : est'[d] = est[d]
<1>1. \A d \in Chan : sentTo[d] \in Nat /\ accepted[d] \in Nat
  BY DEF EncOK
<1>2. /\ EncOK' /\ \A d \in Chan \ {c} : SameChan(d)
      /\ sentTo[c] <= sentTo'[c] /\ accepted[c] <= accepted'[c] /\ (est'[c] => est[c])
  BY DEF StreamStep
<1>3. \A d \in Chan \ {c} : /\ sentTo'[d] = sentTo[d] /\ accepted'[d] = accepted[d]
                            /\ est'[d] = est[d]
  BY <1>2 DEF SameChan
<1>4. Grows
  BY <1>1, <1>2, <1>3 DEF Grows
<1> QED BY <1>2, <1>3, <1>4

LEMMA StillGrows ==
  ASSUME EncOK, UNCHANGED <<est, accepted, sentTo>>
  PROVE  Grows
<1>1. \A d \in Chan : sentTo[d] \in Nat /\ accepted[d] \in Nat
  BY DEF EncOK
<1> QED BY <1>1 DEF Grows

\* Session::data for the producers of who, which are not parked anywhere.
LEMMA ParkData ==
  ASSUME EncOK, NEW c \in Chan, ChanOK(c), ParkInv, NEW n \in Nat \ {0},
         NEW who \in SUBSET Producers, \A p \in who : Fresh(p),
         SessionData(c, n, who), got' = got, gotClose' = gotClose
  PROVE  ParkInv' /\ \A p \in Producers \ who : Fresh(p) => Fresh(p)'
<1>0. \A p \in Producers : Fresh(p) => \A d \in Chan : p \notin acks[d]
  BY DEF Fresh, ParkInv, ParkedOK
<1>1. CASE ~est[c]
  <2>1. /\ prod' = [p \in Producers |-> IF p \in who THEN "err" ELSE prod[p]]
        /\ acks' = acks /\ claim' = claim /\ accepted' = accepted /\ sentTo' = sentTo /\ est' = est
    BY <1>1 DEF SessionData, Fail, encVars
  <2>2. \A d \in Chan : \A p \in acks[d] : p \in Producers /\ p \notin who
    BY <1>0 DEF ParkInv, ProdsOK
  <2>3. \A p \in Producers : prod'[p] = IF p \in who THEN "err" ELSE prod[p]
    BY <2>1
  <2>4. ProdsOK'
    <3>1. prod' \in [Producers -> {"idle", "waiting", "ok", "err"}]
      BY <2>1 DEF ParkInv, ProdsOK
    <3> QED BY <3>1, <2>1 DEF ParkInv, ProdsOK
  <2>5. ParkedOK' /\ ClosedOK'
    BY <2>1, <2>2, <2>3 DEF ParkInv, ParkedOK, ClosedOK
  <2>6. AckMeansSent'
    BY <2>1, <2>3 DEF ParkInv, AckMeansSent
  <2>7. \A p \in Producers \ who : Fresh(p) => Fresh(p)'
    BY <2>1, <2>3 DEF Fresh
  <2> QED BY <2>4, <2>5, <2>6, <2>7 DEF ParkInv
<1>2. CASE est[c]
  <2>1. StreamStep(c) /\ accepted'[c] = accepted[c] + n
    BY <1>2, DataStep
  <2>2. Grows /\ EncOK' /\ ChanOK(c)' /\ \A d \in Chan \ {c} : est'[d] = est[d]
    BY <1>2, <2>1, StepGrows DEF StreamStep
  <2>3. /\ claim' = [p \in Producers |-> IF p \in who THEN <<c, accepted[c] + n>> ELSE claim[p]]
        /\ \/ /\ Parked(c, n) = <<>> /\ pending' = [pending EXCEPT ![c] = Parked(c, n)]
              /\ prod' = [p \in Producers |-> IF p \in who THEN "ok" ELSE prod[p]]
              /\ acks' = acks /\ est' = est
           \/ /\ acks' = [acks EXCEPT ![c] = acks[c] \cup who] /\ prod' = prod /\ est' = est
           \/ /\ acks' = [acks EXCEPT ![c] = {}]
              /\ prod' = [p \in Producers |-> IF p \in acks[c] \cup who THEN "err" ELSE prod[p]]
    BY <1>2 DEF SessionData, Succeed, AcksDropped, Fail
  <2>4. \A d \in Chan : /\ sentTo[d] \in Nat /\ sentTo'[d] \in Nat /\ accepted[d] \in Nat
                        /\ accepted'[d] \in Nat /\ est[d] \in BOOLEAN /\ est'[d] \in BOOLEAN
    BY <2>2 DEF EncOK
  <2>5. claim' \in [Producers -> {<<>>} \cup (Chan \X Nat)]
    <3>1. <<c, accepted[c] + n>> \in Chan \X Nat
      BY <2>4
    <3> QED BY <2>3, <3>1 DEF ParkInv, ProdsOK
  <2>6. \A p \in Producers : claim'[p] = IF p \in who THEN <<c, accepted[c] + n>> ELSE claim[p]
    BY <2>3
  <2>7. ASSUME NEW d \in Chan, NEW p \in acks[d]
        PROVE  /\ p \in Producers /\ p \notin who /\ prod[p] = "waiting"
               /\ claim'[p] # <<>> /\ claim'[p][1] = d /\ claim'[p][2] <= accepted'[d]
    <3>1. p \in Producers /\ p \notin who
      BY <1>0 DEF ParkInv, ProdsOK
    <3>2. prod[p] = "waiting" /\ claim[p] # <<>> /\ claim[p][1] = d /\ claim[p][2] <= accepted[d]
      BY DEF ParkInv, ParkedOK
    <3>3. claim[p][2] \in Nat
      BY <3>1, <3>2, ClaimType DEF ParkInv
    <3>4. accepted[d] <= accepted'[d]
      BY <2>2 DEF Grows
    <3> QED BY <3>1, <3>2, <3>3, <3>4, <2>4, <2>6
  <2>8. ASSUME NEW p \in Producers \ who, prod[p] = "ok"
        PROVE  claim'[p] # <<>> /\ claim'[p][2] <= sentTo'[claim'[p][1]]
    <3>1. claim[p] # <<>> /\ claim[p][2] <= sentTo[claim[p][1]]
      BY <2>8 DEF ParkInv, AckMeansSent
    <3>2. claim[p][1] \in Chan /\ claim[p][2] \in Nat
      BY <3>1, ClaimType DEF ParkInv
    <3>3. sentTo[claim[p][1]] <= sentTo'[claim[p][1]]
      BY <3>2, <2>2 DEF Grows
    <3>4. claim'[p] = claim[p]
      BY <2>6
    <3> QED BY <3>1, <3>2, <3>3, <3>4, <2>4
  <2>9. CASE /\ Parked(c, n) = <<>> /\ pending' = [pending EXCEPT ![c] = Parked(c, n)]
             /\ prod' = [p \in Producers |-> IF p \in who THEN "ok" ELSE prod[p]]
             /\ acks' = acks /\ est' = est
    <3>1. sentTo'[c] = accepted[c] + n
      <4>1. pending'[c] = <<>> /\ est'[c]
        BY <2>9, <1>2 DEF EncOK
      <4>2. sentTo'[c] = accepted'[c]
        BY <4>1, <2>2, ChainOfNone DEF ChanOK
      <4> QED BY <4>2, <2>1
    <3>2. \A p \in Producers : prod'[p] = IF p \in who THEN "ok" ELSE prod[p]
      BY <2>9
    <3>3. ProdsOK'
      <4>1. prod' \in [Producers -> {"idle", "waiting", "ok", "err"}]
        BY <2>9 DEF ParkInv, ProdsOK
      <4> QED BY <4>1, <2>5, <2>9 DEF ParkInv, ProdsOK
    <3>4. ParkedOK'
      BY <2>7, <2>9, <3>2 DEF ParkedOK
    <3>5. ClosedOK'
      BY <2>4, <2>9, <2>2 DEF ParkInv, ClosedOK, Grows
    <3>6. ASSUME NEW p \in Producers, prod'[p] = "ok"
          PROVE  claim'[p] # <<>> /\ claim'[p][2] <= sentTo'[claim'[p][1]]
      <4>1. CASE p \in who
        <5>1. claim'[p] = <<c, accepted[c] + n>>
          BY <4>1, <2>6
        <5>2. claim'[p][1] = c /\ claim'[p][2] = accepted[c] + n /\ claim'[p] # <<>>
          BY <5>1
        <5> QED BY <5>2, <3>1, <2>4
      <4>2. CASE p \notin who
        BY <4>2, <3>2, <3>6, <2>8
      <4> QED BY <4>1, <4>2
    <3>7. \A p \in Producers \ who : Fresh(p) => Fresh(p)'
      BY <3>2, <2>6 DEF Fresh
    <3> QED BY <3>3, <3>4, <3>5, <3>6, <3>7 DEF ParkInv, AckMeansSent
  <2>10. CASE acks' = [acks EXCEPT ![c] = acks[c] \cup who] /\ prod' = prod /\ est' = est
    <3>1. acks'[c] = acks[c] \cup who /\ \A d \in Chan \ {c} : acks'[d] = acks[d]
      BY <2>10 DEF ParkInv, ProdsOK
    <3>2. ProdsOK'
      <4>1. acks' \in [Chan -> SUBSET Producers]
        BY <2>10 DEF ParkInv, ProdsOK
      <4> QED BY <4>1, <2>5, <2>10 DEF ParkInv, ProdsOK
    <3>3. ASSUME NEW d \in Chan, NEW p \in acks'[d]
          PROVE  /\ prod'[p] = "waiting"
                 /\ claim'[p] # <<>> /\ claim'[p][1] = d /\ claim'[p][2] <= accepted'[d]
      <4>1. CASE p \in acks[d]
        BY <4>1, <2>7, <2>10
      <4>2. CASE p \notin acks[d]
        <5>1. d = c /\ p \in who /\ p \in Producers
          BY <4>2, <3>1
        <5>2. claim'[p] = <<c, accepted[c] + n>> /\ prod[p] = "waiting"
          BY <5>1, <2>6 DEF Fresh
        <5>3. claim'[p] # <<>> /\ claim'[p][1] = c /\ claim'[p][2] = accepted'[c]
          BY <5>2, <2>1
        <5> QED BY <5>1, <5>2, <5>3, <2>4, <2>10
      <4> QED BY <4>1, <4>2
    <3>4. ClosedOK'
      BY <1>2, <3>1, <2>4, <2>10, <2>2 DEF ParkInv, ClosedOK, Grows
    <3>5. ASSUME NEW p \in Producers, prod'[p] = "ok"
          PROVE  claim'[p] # <<>> /\ claim'[p][2] <= sentTo'[claim'[p][1]]
      <4>1. p \notin who /\ prod[p] = "ok"
        BY <3>5, <2>10 DEF Fresh
      <4> QED BY <4>1, <2>8
    <3>6. \A p \in Producers \ who : Fresh(p) => Fresh(p)'
      BY <2>10, <2>6 DEF Fresh
    <3> QED BY <3>2, <3>3, <3>4, <3>5, <3>6 DEF ParkInv, AckMeansSent, ParkedOK
  <2>11. CASE /\ acks' = [acks EXCEPT ![c] = {}]
              /\ prod' = [p \in Producers |-> IF p \in acks[c] \cup who THEN "err" ELSE prod[p]]
    <3>1. acks'[c] = {} /\ \A d \in Chan \ {c} : acks'[d] = acks[d]
      BY <2>11 DEF ParkInv, ProdsOK
    <3>2. \A p \in Producers : prod'[p] = IF p \in acks[c] \cup who THEN "err" ELSE prod[p]
      BY <2>11
    <3>3. ProdsOK'
      <4>1. acks' \in [Chan -> SUBSET Producers]
        BY <2>11 DEF ParkInv, ProdsOK
      <4>2. prod' \in [Producers -> {"idle", "waiting", "ok", "err"}]
        BY <2>11 DEF ParkInv, ProdsOK
      <4> QED BY <4>1, <4>2, <2>5 DEF ParkInv, ProdsOK
    <3>4. ASSUME NEW d \in Chan, NEW p \in acks'[d]
          PROVE  /\ prod'[p] = "waiting"
                 /\ claim'[p] # <<>> /\ claim'[p][1] = d /\ claim'[p][2] <= accepted'[d]
      <4>1. d # c /\ p \in acks[d]
        BY <3>1
      <4>2. p \notin acks[c]
        BY <4>1 DEF ParkInv, ParkedOK
      <4> QED BY <4>1, <4>2, <2>7, <3>2
    <3>5. ClosedOK'
      BY <3>1, <2>4, <2>2 DEF ParkInv, ClosedOK, Grows
    <3>6. ASSUME NEW p \in Producers, prod'[p] = "ok"
          PROVE  claim'[p] # <<>> /\ claim'[p][2] <= sentTo'[claim'[p][1]]
      BY <3>2, <3>6, <2>8
    <3>7. \A p \in Producers \ who : Fresh(p) => Fresh(p)'
      BY <1>0, <3>2, <2>6 DEF Fresh
    <3> QED BY <3>3, <3>4, <3>5, <3>6, <3>7 DEF ParkInv, AckMeansSent, ParkedOK
  <2> QED BY <2>3, <2>9, <2>10, <2>11
<1> QED BY <1>1, <1>2

\* Session::eof and Session::close.
LEMMA ParkControl ==
  ASSUME EncOK, NEW c \in Chan, ChanOK(c), ParkInv, SessionEof(c) \/ SessionClose(c),
         got' = got, gotClose' = gotClose
  PROVE  ParkInv' /\ \A p \in Producers : Fresh(p) => Fresh(p)'
<1>1. StreamStep(c) /\ accepted' = accepted /\ sentTo' = sentTo
      /\ (est[c] /\ ~est'[c] => sentTo[c] = accepted[c])
  BY EofStep, CloseStep
<1>2. Grows /\ EncOK' /\ \A d \in Chan \ {c} : est'[d] = est[d]
  BY <1>1, StepGrows
<1>3. \/ UNCHANGED prodVars
      \/ AcksDropped(c, {}) /\ claim' = claim
  BY DEF SessionEof, SessionClose, prodVars
<1>4. CASE UNCHANGED prodVars
  <2>1. \A d \in Chan : est[d] /\ ~est'[d] /\ acks[d] # {} => sentTo'[d] = accepted'[d]
    BY <1>1, <1>2
  <2>2. ParkInv'
    BY <1>2, <1>4, <2>1, ParkGrows
  <2> QED BY <1>4, <2>2 DEF Fresh, prodVars
<1>5. CASE AcksDropped(c, {}) /\ claim' = claim
  BY <1>2, <1>5, ParkDropped
<1> QED BY <1>3, <1>4, <1>5

LEMMA QueuedKept ==
  ASSUME InboxOK, QueuedOK, inbox' = inbox, \A p \in Producers : Fresh(p) => Fresh(p)'
  PROVE  QueuedOK'
<1>1. \A i \in 1 .. Len(inbox) : inbox[i] \in Message
  BY DEF InboxOK
<1>2. \A i \in 1 .. Len(inbox) : inbox[i].ack \in SUBSET Producers
  BY <1>1 DEF Message
<1>3. \A i \in 1 .. Len(inbox) : \A p \in inbox[i].ack : Fresh(p)'
  BY <1>2 DEF QueuedOK
<1> QED BY <1>3 DEF QueuedOK

LEMMA QueuedTail ==
  ASSUME InboxOK, QueuedOK, inbox # <<>>, inbox' = Tail(inbox),
         \A p \in Producers \ inbox[1].ack : Fresh(p) => Fresh(p)'
  PROVE  QueuedOK'
<1>1. /\ Len(inbox') = Len(inbox) - 1 /\ Len(inbox) \in Nat
      /\ \A i \in 1 .. Len(inbox') : i + 1 \in 1 .. Len(inbox) /\ inbox'[i] = inbox[i + 1]
  BY InboxTail
<1>2. \A i \in 1 .. Len(inbox) : inbox[i] \in Message
  BY DEF InboxOK
<1>3. \A i \in 1 .. Len(inbox) : inbox[i].ack \in SUBSET Producers
  BY <1>2 DEF Message
<1>4. 1 \in 1 .. Len(inbox)
  BY InboxHead
<1>5. ASSUME NEW i \in 1 .. Len(inbox'), NEW p \in inbox'[i].ack PROVE Fresh(p)'
  <2>1. i + 1 \in 1 .. Len(inbox) /\ inbox'[i] = inbox[i + 1] /\ i + 1 # 1
    BY <1>1
  <2>2. p \in Producers /\ Fresh(p)
    BY <2>1, <1>3 DEF QueuedOK
  <2>3. p \notin inbox[1].ack
    BY <2>1, <1>4 DEF QueuedOK
  <2> QED BY <2>2, <2>3
<1>6. ASSUME NEW i \in 1 .. Len(inbox'), NEW j \in 1 .. Len(inbox'), i # j
      PROVE  inbox'[i].ack \cap inbox'[j].ack = {}
  <2>1. i + 1 # j + 1
    BY <1>1, <1>6
  <2> QED BY <2>1, <1>1 DEF QueuedOK
<1> QED BY <1>5, <1>6 DEF QueuedOK

LEMMA ParkDispatch ==
  ASSUME StreamInv, ParkInv, QueuedOK, dispatch_msg
  PROVE  ParkInv' /\ QueuedOK'
<1> DEFINE m == Head(inbox)
<1>1. /\ inbox # <<>> /\ inbox' = Tail(inbox)
      /\ \/ m.op = "data" /\ SessionData(m.chan, m.len, m.ack)
         \/ SessionEof(m.chan)
         \/ SessionClose(m.chan)
      /\ got' = got /\ gotClose' = gotClose
  BY DEF dispatch_msg, peerVars
<1>2. /\ m = inbox[1] /\ 1 \in 1 .. Len(inbox)
      /\ m.op = "data" => m.len \in Nat \ {0}
      /\ m.chan \in Chan /\ m.ack \in SUBSET Producers
  BY <1>1, InboxHead DEF StreamInv
<1>3. EncOK /\ ChanOK(m.chan) /\ InboxOK
  BY <1>2 DEF StreamInv
<1>4. \A p \in m.ack : Fresh(p)
  BY <1>2 DEF QueuedOK
<1> DEFINE c == m.chan
           n == m.len
           who == m.ack
<1>5. /\ c \in Chan /\ who \in SUBSET Producers /\ ChanOK(c) /\ (\A p \in who : Fresh(p))
      /\ who = inbox[1].ack
      /\ \/ n \in Nat \ {0} /\ SessionData(c, n, who)
         \/ SessionEof(c) \/ SessionClose(c)
  BY <1>1, <1>2, <1>3, <1>4
<1> HIDE DEF c, n, who, m
<1>6. ParkInv' /\ \A p \in Producers \ who : Fresh(p) => Fresh(p)'
  <2>1. CASE n \in Nat \ {0} /\ SessionData(c, n, who)
    BY <2>1, <1>1, <1>3, <1>5, ParkData
  <2>2. CASE SessionEof(c) \/ SessionClose(c)
    BY <2>2, <1>1, <1>3, <1>5, ParkControl
  <2> QED BY <1>5, <2>1, <2>2
<1>7. QueuedOK'
  BY <1>1, <1>3, <1>5, <1>6, QueuedTail
<1> QED BY <1>6, <1>7

LEMMA ParkCallback ==
  ASSUME StreamInv, ParkInv, QueuedOK, NEW c \in Chan, CallbackOp(c)
  PROVE  ParkInv' /\ QueuedOK'
<1>1. /\ \/ \E n \in 1 .. MaxLen : SessionData(c, n, {})
         \/ SessionEof(c) \/ SessionClose(c)
      /\ got' = got /\ gotClose' = gotClose /\ inbox' = inbox
  BY DEF CallbackOp, peerVars
<1>2. EncOK /\ ChanOK(c) /\ InboxOK
  BY DEF StreamInv
<1>3. ParkInv' /\ \A p \in Producers : Fresh(p) => Fresh(p)'
  <2>1. ASSUME NEW n \in 1 .. MaxLen, SessionData(c, n, {})
        PROVE  ParkInv' /\ \A p \in Producers : Fresh(p) => Fresh(p)'
    <3>1. n \in Nat \ {0} /\ {} \in SUBSET Producers /\ \A p \in {} : Fresh(p)
      OBVIOUS
    <3>2. ParkInv' /\ \A p \in Producers \ {} : Fresh(p) => Fresh(p)'
      BY <3>1, <2>1, <1>1, <1>2, ParkData
    <3> QED BY <3>2
  <2>2. CASE SessionEof(c) \/ SessionClose(c)
    BY <2>2, <1>1, <1>2, ParkControl
  <2> QED BY <1>1, <2>1, <2>2
<1>4. QueuedOK'
  BY <1>1, <1>2, <1>3, QueuedKept
<1> QED BY <1>3, <1>4

\* The steps that leave the producers and the channels' offsets alone.
LEMMA ParkStill ==
  ASSUME EncOK, EncOK', InboxOK, ParkInv, QueuedOK, UNCHANGED <<est, accepted, sentTo>>,
         UNCHANGED prodVars
  PROVE  ParkInv' /\ (inbox' = inbox => QueuedOK')
<1>1. Grows
  BY StillGrows
<1>2. \A d \in Chan : est[d] /\ ~est'[d] /\ acks[d] # {} => sentTo'[d] = accepted'[d]
  OBVIOUS
<1>3. ParkInv'
  BY <1>1, <1>2, ParkGrows
<1>4. \A p \in Producers : Fresh(p) => Fresh(p)'
  BY DEF Fresh, prodVars
<1> QED BY <1>3, <1>4, QueuedKept

\* The flushes: producers stay parked, and a channel that closes is emitted.
LEMMA ParkFlushes ==
  ASSUME StreamInv, ParkInv, QueuedOK, NEW c \in Chan, RecvWindowAdjust(c) \/ FlushAll(c)
  PROVE  ParkInv' /\ QueuedOK'
<1>1. EncOK /\ ChanOK(c) /\ InboxOK /\ rwin[c] \in Nat /\ adj[c] \in Nat
  BY DEF StreamInv, EncOK, PeerOK
<1>2. /\ UNCHANGED prodVars /\ inbox' = inbox /\ got' = got /\ gotClose' = gotClose
      /\ \/ est[c] /\ FlushPending(c, rwin[c] + adj[c])
         \/ est[c] /\ FlushPending(c, rwin[c])
         \/ UNCHANGED encVars
  BY DEF RecvWindowAdjust, FlushAll, peerVars, StreamInv, TodoOK
<1>3. \A p \in Producers : Fresh(p) => Fresh(p)'
  BY <1>2 DEF Fresh, prodVars
<1>4. QueuedOK'
  BY <1>1, <1>2, <1>3, QueuedKept
<1>5. ASSUME NEW win \in Nat, est[c], FlushPending(c, win) PROVE ParkInv'
  <2>1. StreamStep(c) /\ accepted' = accepted /\ (~est'[c] => sentTo'[c] = accepted[c])
    BY <1>1, <1>2, <1>5, FlushStep
  <2>2. Grows /\ EncOK' /\ \A d \in Chan \ {c} : est'[d] = est[d]
    BY <1>1, <1>5, <2>1, StepGrows
  <2>3. \A d \in Chan : est[d] /\ ~est'[d] /\ acks[d] # {} => sentTo'[d] = accepted'[d]
    BY <2>1, <2>2
  <2> QED BY <1>1, <1>2, <2>2, <2>3, ParkGrows
<1>6. CASE UNCHANGED encVars
  <2>1. est' = est /\ accepted' = accepted /\ sentTo' = sentTo
    BY <1>6 DEF encVars
  <2>2. EncOK'
    BY <1>2, <1>6, AllStill DEF StreamInv
  <2> QED BY <1>1, <1>2, <2>1, <2>2, ParkStill
<1>7. rwin[c] + adj[c] \in Nat
  BY <1>1
<1> QED BY <1>1, <1>2, <1>4, <1>5, <1>6, <1>7

\* RecvClose and FinalizeClose drop the producers parked on the channel.
LEMMA ParkCloses ==
  ASSUME StreamInv, ParkInv, QueuedOK, NEW c \in Chan, RecvClose(c) \/ FinalizeClose(c)
  PROVE  ParkInv' /\ QueuedOK'
<1>1. EncOK /\ InboxOK /\ ChanOK(c)
  BY DEF StreamInv
<1>2. AcksDropped(c, {}) /\ claim' = claim /\ inbox' = inbox
  BY DEF RecvClose, FinalizeClose
<1>3. Grows /\ EncOK' /\ \A d \in Chan \ {c} : est'[d] = est[d]
  <2>1. CASE RecvClose(c)
    <3>1. StreamStep(c) /\ est[c]
      BY <2>1, RecvCloseStep
    <3> QED BY <1>1, <3>1, StepGrows
  <2>2. CASE FinalizeClose(c)
    <3>1. UNCHANGED encVars /\ got' = got /\ gotClose' = gotClose
      BY <2>2 DEF FinalizeClose, peerVars
    <3>2. EncOK' /\ est' = est
      BY <3>1, AllStill DEF StreamInv
    <3>3. UNCHANGED <<est, accepted, sentTo>>
      BY <3>1 DEF encVars
    <3> QED BY <1>1, <3>2, <3>3, StillGrows
  <2> QED BY <2>1, <2>2
<1>4. ParkInv' /\ \A p \in Producers : Fresh(p) => Fresh(p)'
  BY <1>1, <1>2, <1>3, ParkDropped
<1>5. QueuedOK'
  BY <1>1, <1>2, <1>4, QueuedKept
<1> QED BY <1>4, <1>5

\* release_outbound_acks answers Ok only on channels that have no backlog.
LEMMA ParkRelease ==
  ASSUME StreamInv, ParkInv, QueuedOK, EndIteration
  PROVE  ParkInv' /\ QueuedOK'
<1> DEFINE drained == {c \in Chan : Drained(c)}
           gone == UNION {acks[c] : c \in drained}
<1>1. /\ prod' = [p \in Producers |-> IF p \in gone THEN "ok" ELSE prod[p]]
      /\ acks' = [c \in Chan |-> IF c \in drained THEN {} ELSE acks[c]]
      /\ est' = est /\ accepted' = accepted /\ sentTo' = sentTo /\ claim' = claim
      /\ inbox' = inbox
  BY DEF EndIteration, Succeed
<1>2. InboxOK /\ \A c \in Chan : sentTo[c] \in Nat /\ accepted[c] \in Nat
  BY DEF StreamInv, EncOK
<1>3. ASSUME NEW c \in drained, acks[c] # {} PROVE sentTo[c] = accepted[c]
  <2>1. c \in Chan /\ ChanOK(c) /\ (~est[c] \/ pending[c] = <<>>)
    BY DEF StreamInv, Drained
  <2>2. CASE ~est[c]
    BY <1>3, <2>1, <2>2 DEF ParkInv, ClosedOK
  <2>3. CASE est[c] /\ pending[c] = <<>>
    BY <2>1, <2>3, ChainOfNone DEF ChanOK
  <2> QED BY <2>1, <2>2, <2>3
<1>4. /\ \A p \in Producers : prod'[p] = IF p \in gone THEN "ok" ELSE prod[p]
      /\ \A c \in Chan : acks'[c] = IF c \in drained THEN {} ELSE acks[c]
  BY <1>1
<1>5. ASSUME NEW c \in Chan \ drained, NEW p \in acks[c] PROVE p \notin gone
  BY DEF ParkInv, ParkedOK
<1>6. ProdsOK'
  <2>1. prod' \in [Producers -> {"idle", "waiting", "ok", "err"}]
    BY <1>1 DEF ParkInv, ProdsOK
  <2>2. acks' \in [Chan -> SUBSET Producers]
    BY <1>1 DEF ParkInv, ProdsOK
  <2> QED BY <1>1, <2>1, <2>2 DEF ParkInv, ProdsOK
<1>7. ParkedOK'
  <2> SUFFICES ASSUME NEW c \in Chan, NEW p \in acks'[c]
               PROVE  /\ prod'[p] = "waiting" /\ claim[p] # <<>>
                      /\ claim[p][1] = c /\ claim[p][2] <= accepted[c]
    BY <1>1 DEF ParkedOK
  <2>1. c \notin drained /\ p \in acks[c] /\ p \in Producers
    BY <1>4 DEF ParkInv, ProdsOK
  <2>2. p \notin gone
    BY <2>1, <1>5
  <2> HIDE DEF gone, drained
  <2> QED BY <2>1, <2>2, <1>4 DEF ParkInv, ParkedOK
<1>8. ClosedOK'
  BY <1>1, <1>4 DEF ParkInv, ClosedOK
<1>9. ASSUME NEW p \in Producers, prod'[p] = "ok"
      PROVE  claim[p] # <<>> /\ claim[p][2] <= sentTo[claim[p][1]]
  <2>1. CASE p \in gone
    <3>1. PICK c \in drained : p \in acks[c]
      BY <2>1
    <3>2. claim[p] # <<>> /\ claim[p][1] = c /\ claim[p][2] <= accepted[c]
      BY <3>1 DEF ParkInv, ParkedOK
    <3>3. sentTo[c] = accepted[c]
      BY <3>1, <1>3
    <3> QED BY <3>2, <3>3
  <2>2. CASE p \notin gone
    BY <2>2, <1>4, <1>9 DEF ParkInv, AckMeansSent
  <2> QED BY <2>1, <2>2
<1>10. AckMeansSent'
  BY <1>1, <1>9 DEF AckMeansSent
<1>11. \A p \in Producers : Fresh(p) => Fresh(p)'
  <2> SUFFICES ASSUME NEW p \in Producers, Fresh(p) PROVE Fresh(p)'
    OBVIOUS
  <2>1. p \notin gone
    BY DEF Fresh, ParkInv, ParkedOK
  <2> HIDE DEF gone
  <2> QED BY <2>1, <1>1, <1>4 DEF Fresh
<1>12. QueuedOK'
  BY <1>1, <1>2, <1>11, QueuedKept
<1> QED BY <1>6, <1>7, <1>8, <1>10, <1>12 DEF ParkInv

\* Handle::data: the producer's answer to an earlier call is gone.
LEMMA ParkSend ==
  ASSUME StreamInv, ParkInv, QueuedOK, NEW p \in Producers, NEW c \in Chan, NEW n \in 1 .. MaxLen,
         ProducerSend(p, c, n)
  PROVE  ParkInv' /\ QueuedOK'
<1>1. /\ prod[p] # "waiting" /\ Post("data", c, n, {p})
      /\ prod' = [prod EXCEPT ![p] = "waiting"] /\ claim' = [claim EXCEPT ![p] = <<>>]
      /\ acks' = acks /\ est' = est /\ accepted' = accepted /\ sentTo' = sentTo
  BY DEF ProducerSend, encVars
<1>2. /\ prod'[p] = "waiting" /\ claim'[p] = <<>>
      /\ \A q \in Producers \ {p} : prod'[q] = prod[q] /\ claim'[q] = claim[q]
  BY <1>1 DEF ParkInv, ProdsOK
<1>3. ProdsOK'
  <2>1. prod' \in [Producers -> {"idle", "waiting", "ok", "err"}]
    BY <1>1 DEF ParkInv, ProdsOK
  <2>2. claim' \in [Producers -> {<<>>} \cup (Chan \X Nat)]
    BY <1>1 DEF ParkInv, ProdsOK
  <2> QED BY <1>1, <2>1, <2>2 DEF ParkInv, ProdsOK
<1>4. \A d \in Chan : \A q \in acks[d] : q \in Producers \ {p}
  BY <1>1 DEF ParkInv, ParkedOK, ProdsOK
<1>5. ParkedOK' /\ ClosedOK'
  BY <1>1, <1>2, <1>4 DEF ParkInv, ParkedOK, ClosedOK
<1>6. AckMeansSent'
  BY <1>1, <1>2 DEF ParkInv, AckMeansSent
<1>7. ASSUME NEW i \in 1 .. Len(inbox), NEW q \in inbox[i].ack
      PROVE  q \in Producers /\ q # p /\ Fresh(q)'
  <2>1. inbox[i] \in Message
    BY DEF StreamInv, InboxOK
  <2>2. q \in Producers /\ Fresh(q)
    BY <2>1 DEF Message, QueuedOK
  <2>3. q # p
    BY <2>2, <1>1 DEF Fresh
  <2> QED BY <2>2, <2>3, <1>2 DEF Fresh
<1> DEFINE m == [op |-> "data", chan |-> c, len |-> n, ack |-> {p}]
<1>8. /\ Len(inbox') = Len(inbox) + 1 /\ Len(inbox) \in Nat
      /\ \A i \in 1 .. Len(inbox) : inbox'[i] = inbox[i]
      /\ inbox'[Len(inbox) + 1] = m
  <2>1. n \in Nat /\ n > 0 /\ {p} \in SUBSET Producers
    OBVIOUS
  <2> QED BY <1>1, <2>1, InboxPost DEF StreamInv
<1>9. m.ack = {p}
  OBVIOUS
<1> HIDE DEF m
<1>10. \A i \in 1 .. Len(inbox') : i \in 1 .. Len(inbox) \/ i = Len(inbox) + 1
  BY <1>8
<1>11. \A i \in 1 .. Len(inbox') : \A q \in inbox'[i].ack : Fresh(q)'
  BY <1>2, <1>7, <1>8, <1>9, <1>10 DEF Fresh
<1>12. ASSUME NEW i \in 1 .. Len(inbox'), NEW j \in 1 .. Len(inbox'), i # j
       PROVE  inbox'[i].ack \cap inbox'[j].ack = {}
  <2>1. CASE i \in 1 .. Len(inbox) /\ j \in 1 .. Len(inbox)
    BY <2>1, <1>8, <1>12 DEF QueuedOK
  <2>2. CASE i \in 1 .. Len(inbox) /\ j = Len(inbox) + 1
    BY <2>2, <1>7, <1>8, <1>9
  <2>3. CASE j \in 1 .. Len(inbox) /\ i = Len(inbox) + 1
    BY <2>3, <1>7, <1>8, <1>9
  <2> QED BY <2>1, <2>2, <2>3, <1>10, <1>12
<1>13. QueuedOK'
  BY <1>11, <1>12 DEF QueuedOK
<1> QED BY <1>3, <1>5, <1>6, <1>13 DEF ParkInv

\* The other messages carry no producer.
LEMMA QueuedPost ==
  ASSUME StreamInv, QueuedOK, UNCHANGED prodVars, NEW op \in {"data", "eof", "close"},
         NEW c \in Chan, NEW n \in Nat, Post(op, c, n, {}), op = "data" => n > 0
  PROVE  QueuedOK'
<1> DEFINE m == [op |-> op, chan |-> c, len |-> n, ack |-> {}]
<1>1. /\ Len(inbox') = Len(inbox) + 1 /\ Len(inbox) \in Nat
      /\ \A i \in 1 .. Len(inbox) : inbox'[i] = inbox[i]
      /\ inbox'[Len(inbox) + 1] = m
  <2>1. {} \in SUBSET Producers
    OBVIOUS
  <2> QED BY <2>1, InboxPost DEF StreamInv
<1>2. m.ack = {}
  OBVIOUS
<1> HIDE DEF m
<1>3. \A i \in 1 .. Len(inbox') : i \in 1 .. Len(inbox) \/ i = Len(inbox) + 1
  BY <1>1
<1>4. \A i \in 1 .. Len(inbox) : \A p \in inbox[i].ack : Fresh(p)'
  BY DEF QueuedOK, Fresh, prodVars
<1>5. \A i \in 1 .. Len(inbox') : \A q \in inbox'[i].ack : Fresh(q)'
  BY <1>1, <1>2, <1>3, <1>4
<1>6. ASSUME NEW i \in 1 .. Len(inbox'), NEW j \in 1 .. Len(inbox'), i # j
      PROVE  inbox'[i].ack \cap inbox'[j].ack = {}
  <2>1. CASE i \in 1 .. Len(inbox) /\ j \in 1 .. Len(inbox)
    BY <2>1, <1>1, <1>6 DEF QueuedOK
  <2>2. CASE i = Len(inbox) + 1 \/ j = Len(inbox) + 1
    BY <2>2, <1>1, <1>2
  <2> QED BY <2>1, <2>2, <1>3
<1> QED BY <1>5, <1>6 DEF QueuedOK

AckInv == StreamInv /\ ParkInv /\ QueuedOK

LEMMA AckTask ==
  ASSUME AckInv, Task
  PROVE  ParkInv' /\ QueuedOK'
<1>0. StreamInv /\ ParkInv /\ QueuedOK
  BY DEF AckInv
<1>1. StreamInv' /\ UNCHANGED encVars
  BY <1>0, StreamTask
<1>2. EncOK /\ EncOK' /\ InboxOK /\ UNCHANGED <<est, accepted, sentTo>>
  BY <1>0, <1>1 DEF StreamInv, encVars
<1>3. ASSUME UNCHANGED prodVars PROVE ParkInv' /\ (inbox' = inbox => QueuedOK')
  BY <1>0, <1>2, <1>3, ParkStill
<1>4. ASSUME NEW p \in Producers, NEW c \in Chan, NEW n \in 1 .. MaxLen, ProducerSend(p, c, n)
      PROVE  ParkInv' /\ QueuedOK'
  BY <1>0, <1>4, ParkSend
<1>5. ASSUME NEW w \in Writers, WriterSend(w) PROVE ParkInv' /\ QueuedOK'
  <2>1. wr[w] # <<>> /\ Post("data", wr[w][1], wr[w][2], {}) /\ UNCHANGED prodVars
    BY <1>5 DEF WriterSend
  <2>2. wr[w][1] \in Chan /\ wr[w][2] \in Nat /\ wr[w][2] > 0
    BY <2>1, <1>0 DEF StreamInv, WritersOK
  <2> QED BY <1>0, <1>3, <2>1, <2>2, QueuedPost
<1>6. ASSUME NEW op \in TaskOps, NEW c \in Chan, TaskControl(op, c) PROVE ParkInv' /\ QueuedOK'
  <2>1. Post(op, c, 0, {}) /\ op \in {"eof", "close"} /\ UNCHANGED prodVars
    BY <1>6, OutboundAssumption DEF TaskControl
  <2> QED BY <1>0, <1>3, <2>1, QueuedPost
<1>7. ASSUME NEW w \in Writers, WriterCancel(w) \/ \E c \in Chan, n \in 1 .. MaxLen : WriterReserve(w, c, n)
      PROVE  ParkInv' /\ QueuedOK'
  <2>1. UNCHANGED prodVars /\ inbox' = inbox
    BY <1>7 DEF WriterCancel, WriterReserve
  <2> QED BY <1>3, <2>1
<1> QED BY <1>4, <1>5, <1>6, <1>7 DEF Task

LEMMA AckNext ==
  ASSUME AckInv, [Next]_vars
  PROVE  AckInv'
<1>0. StreamInv /\ ParkInv /\ QueuedOK /\ StreamInv'
  BY StreamNext DEF AckInv
<1>s. ASSUME UNCHANGED <<est, accepted, sentTo>>, UNCHANGED prodVars, inbox' = inbox
      PROVE  ParkInv' /\ QueuedOK'
  BY <1>0, <1>s, ParkStill DEF StreamInv
<1>1. CASE Task
  BY <1>0, <1>1, AckTask DEF AckInv
<1>2. CASE DrainMsg \/ SelectMsg
  BY <1>0, <1>2, ParkDispatch DEF DrainMsg, SelectMsg, AckInv
<1>3. CASE EndIteration
  BY <1>0, <1>3, ParkRelease DEF AckInv
<1>4. CASE DrainDone \/ KexDone \/ RecvOther \/ RecvKexInit \/ RecvNewKeys \/ Tick
  <2>1. UNCHANGED <<est, accepted, sentTo>> /\ UNCHANGED prodVars /\ inbox' = inbox
    BY <1>4 DEF DrainDone, KexDone, RecvOther, RecvKexInit, RecvNewKeys, Tick, encVars
  <2> QED BY <1>0, <1>s, <2>1 DEF AckInv
<1>5. ASSUME NEW c \in Chan, RecvWindowAdjust(c) \/ FlushAll(c) PROVE AckInv'
  BY <1>0, <1>5, ParkFlushes DEF AckInv
<1>6. ASSUME NEW c \in Chan, RecvClose(c) \/ FinalizeClose(c) PROVE AckInv'
  BY <1>0, <1>6, ParkCloses DEF AckInv
<1>7. ASSUME NEW c \in Chan, CallbackOp(c) PROVE AckInv'
  BY <1>0, <1>7, ParkCallback DEF AckInv
<1>8. ASSUME NEW c \in Chan, FlushInto(c) \/ PeerGrant(c) PROVE AckInv'
  <2>1. UNCHANGED <<est, accepted, sentTo>> /\ UNCHANGED prodVars /\ inbox' = inbox
    BY <1>8 DEF FlushInto, PeerGrant, encVars
  <2> QED BY <1>0, <1>s, <2>1 DEF AckInv
<1>9. CASE UNCHANGED vars
  <2>1. UNCHANGED <<est, accepted, sentTo>> /\ UNCHANGED prodVars /\ inbox' = inbox
    BY <1>9 DEF vars, encVars
  <2> QED BY <1>0, <1>s, <2>1 DEF AckInv
<1> QED BY <1>1, <1>2, <1>3, <1>4, <1>5, <1>6, <1>7, <1>8, <1>9 DEF Next, Loop

LEMMA AckInit == Init => AckInv
<1> SUFFICES ASSUME Init PROVE AckInv
  OBVIOUS
<1>0. /\ InitWindow \in Nat /\ InitWindow + 1 \in Nat /\ StuckBy \subseteq Chan \X Producers
      /\ \A x, y \in StuckBy : x[2] = y[2] => x = y
  BY OutboundAssumption
<1> DEFINE home(q) == CHOOSE c \in Chan : <<c, q>> \in StuckBy
<1>1. ASSUME NEW q \in StuckProducers
      PROVE  home(q) \in Chan /\ <<home(q), q>> \in StuckBy
  <2>1. \E c \in Chan : <<c, q>> \in StuckBy
    <3>1. PICK x \in StuckBy : q = x[2]
      BY DEF StuckProducers
    <3>2. x = <<x[1], x[2]>> /\ x[1] \in Chan
      BY <1>0
    <3> QED BY <3>1, <3>2
  <2> QED BY <2>1
<1>2. ASSUME NEW c \in Chan, NEW q, <<c, q>> \in StuckBy
      PROVE  q \in StuckProducers /\ home(q) = c /\ c \in Stuck /\ q \in Producers
  <2>1. <<c, q>>[1] = c /\ <<c, q>>[2] = q
    OBVIOUS
  <2>2. q \in StuckProducers /\ c \in Stuck
    BY <1>2, <2>1 DEF StuckProducers, Stuck
  <2>3. <<home(q), q>> \in StuckBy /\ <<home(q), q>>[2] = q
    BY <2>2, <1>1
  <2>4. <<home(q), q>> = <<c, q>>
    BY <1>0, <1>2, <2>1, <2>3
  <2>5. q \in Producers
    BY <1>0, <1>2
  <2> QED BY <2>2, <2>4, <2>5
<1>3. /\ acks = [c \in Chan |-> {q \in Producers : <<c, q>> \in StuckBy}]
      /\ prod = [q \in Producers |-> IF q \in StuckProducers THEN "waiting" ELSE "idle"]
      /\ claim = [q \in Producers |-> IF q \in StuckProducers
                                      THEN <<home(q), InitWindow + 1>> ELSE <<>>]
      /\ inbox = <<>> /\ est = [c \in Chan |-> TRUE]
      /\ accepted = [c \in Chan |-> Before(c, InitWindow + 1)]
  BY DEF Init
<1> HIDE DEF home
<1>4. ProdsOK
  <2>1. acks \in [Chan -> SUBSET Producers]
    BY <1>3
  <2>2. prod \in [Producers -> {"idle", "waiting", "ok", "err"}]
    BY <1>3
  <2>3. \A q \in StuckProducers : <<home(q), InitWindow + 1>> \in Chan \X Nat
    BY <1>0, <1>1
  <2>4. claim \in [Producers -> {<<>>} \cup (Chan \X Nat)]
    BY <1>3, <2>3
  <2> QED BY <2>1, <2>2, <2>4 DEF ProdsOK
<1>5. ParkedOK
  <2> SUFFICES ASSUME NEW c \in Chan, NEW p \in acks[c]
               PROVE  /\ prod[p] = "waiting" /\ claim[p] # <<>>
                      /\ claim[p][1] = c /\ claim[p][2] <= accepted[c]
    BY DEF ParkedOK
  <2>1. p \in Producers /\ <<c, p>> \in StuckBy
    BY <1>3
  <2>2. p \in StuckProducers /\ home(p) = c /\ c \in Stuck
    BY <2>1, <1>2
  <2>3. prod[p] = "waiting" /\ claim[p] = <<c, InitWindow + 1>>
    BY <2>1, <2>2, <1>3
  <2>4. accepted[c] = InitWindow + 1
    BY <2>2, <1>3 DEF Before
  <2>5. claim[p] # <<>> /\ claim[p][1] = c /\ claim[p][2] = InitWindow + 1
    BY <2>3
  <2> QED BY <2>3, <2>4, <2>5, <1>0
<1>6. ClosedOK /\ AckMeansSent
  BY <1>3 DEF ClosedOK, AckMeansSent
<1>7. QueuedOK
  BY <1>3 DEF QueuedOK
<1> QED BY <1>4, <1>5, <1>6, <1>7, StreamInit DEF AckInv, ParkInv

\* Handle::data never answers Ok for bytes that were not emitted: not while they
\* are parked, and not for bytes that a close, the peer or the cap discarded,
\* whichever order the producers, the flushes and the closes come in.
THEOREM AckAlwaysMeansSent == Spec => []AckMeansSent
<1>1. AckInv /\ [Next]_vars => AckInv'
  BY AckNext
<1>2. AckInv => AckMeansSent
  BY DEF AckInv, ParkInv
<1> QED BY AckInit, <1>1, <1>2, PTL DEF Spec
-----------------------------------------------------------------------------
(* The windows.  WindowSizeRef is overwritten when the peer grants window, so   *)
(* SharedNotStranded needs that flying is never negative: it counts at least    *)
(* the bytes that writers hold and the bytes of their messages in the queue.    *)

\* The bytes that writers reserved on c and did not send, and those of their
\* queued messages for c: pairs of the holder and the number of the byte.
HeldBy(c) ==
  {x \in Writers \X Nat : /\ wr[x[1]] # <<>> /\ wr[x[1]][1] = c
                          /\ x[2] \in 1 .. wr[x[1]][2]}
QueuedFor(c) ==
  {x \in (1 .. Len(inbox)) \X Nat :
     /\ inbox[x[1]].op = "data" /\ inbox[x[1]].ack = {} /\ inbox[x[1]].chan = c
     /\ x[2] \in 1 .. inbox[x[1]].len}

Covered(c) ==
  /\ IsFiniteSet(HeldBy(c)) /\ IsFiniteSet(QueuedFor(c))
  /\ flying[c] >= Cardinality(HeldBy(c)) + Cardinality(QueuedFor(c))

WriterInv ==
  /\ shared \in [Chan -> Nat] /\ flying \in [Chan -> Int] /\ chan \in [Chan -> BOOLEAN]
  /\ \A c \in Chan : Covered(c)

\* WindowsAgree, with the backlog as the difference of the offsets.
WinOK(c) ==
  /\ sentTo[c] + rwin[c] + adj[c] <= InitWindow + granted[c]
  /\ est[c] /\ chan[c] => shared[c] + flying[c] + accepted[c] >= sentTo[c] + rwin[c]
WinInv == StreamInv /\ WriterInv /\ \A c \in Chan : WinOK(c)

LEMMA RowSize ==
  ASSUME NEW x, NEW n \in Nat
  PROVE  IsFiniteSet({x} \X (1 .. n)) /\ Cardinality({x} \X (1 .. n)) = n
<1> DEFINE A == 1 .. n
           B == {x} \X (1 .. n)
           f == [i \in A |-> <<x, i>>]
<1>1. IsFiniteSet(A) /\ Cardinality(A) = n
  BY FS_Interval
<1>2. f \in [A -> B] /\ (\A i, j \in A : f[i] = f[j] => i = j) /\ \A y \in B : \E i \in A : f[i] = y
  OBVIOUS
<1> HIDE DEF A, B, f
<1>3. IsFiniteSet(B) /\ Cardinality(B) = Cardinality(A)
  BY <1>1, <1>2, SameSize
<1> QED BY <1>1, <1>3 DEF B

\* The head of the queue is taken off: the others move up.
LEMMA QueuedShift ==
  ASSUME InboxOK, inbox # <<>>, inbox' = Tail(inbox), NEW c \in Chan, IsFiniteSet(QueuedFor(c))
  PROVE  LET rest == {x \in QueuedFor(c) : x[1] > 1}
         IN  /\ IsFiniteSet(rest) /\ IsFiniteSet(QueuedFor(c)')
             /\ Cardinality(QueuedFor(c)') = Cardinality(rest)
<1> DEFINE R == {x \in QueuedFor(c) : x[1] > 1}
           Q == QueuedFor(c)'
           g == [x \in R |-> <<x[1] - 1, x[2]>>]
<1>1. /\ Len(inbox') = Len(inbox) - 1 /\ Len(inbox) \in Nat
      /\ \A i \in 1 .. Len(inbox') : i + 1 \in 1 .. Len(inbox) /\ inbox'[i] = inbox[i + 1]
  BY InboxTail
<1>2. IsFiniteSet(R)
  BY FS_Subset
<1>3. Q = {x \in (1 .. Len(inbox')) \X Nat :
             /\ inbox'[x[1]].op = "data" /\ inbox'[x[1]].ack = {} /\ inbox'[x[1]].chan = c
             /\ x[2] \in 1 .. inbox'[x[1]].len}
  BY DEF QueuedFor
<1> HIDE DEF Q
<1>4. ASSUME NEW x \in R PROVE <<x[1] - 1, x[2]>> \in Q
  <2>1. /\ x[1] \in 1 .. Len(inbox) /\ x[1] > 1 /\ x[2] \in Nat
        /\ inbox[x[1]].op = "data" /\ inbox[x[1]].ack = {} /\ inbox[x[1]].chan = c
        /\ x[2] \in 1 .. inbox[x[1]].len
    BY DEF QueuedFor
  <2> DEFINE j == x[1] - 1
  <2>2. j \in 1 .. Len(inbox') /\ j + 1 = x[1]
    BY <2>1, <1>1
  <2> HIDE DEF j
  <2>3. inbox'[j] = inbox[x[1]]
    BY <2>2, <1>1
  <2>4. <<j, x[2]>> \in Q
    BY <2>1, <2>2, <2>3, <1>3
  <2> QED BY <2>4 DEF j
<1>5. g \in [R -> Q]
  BY <1>4
<1>6. \A x, y \in R : g[x] = g[y] => x = y
  <2> TAKE x, y \in R
  <2> HAVE g[x] = g[y]
  <2>1. x = <<x[1], x[2]>> /\ y = <<y[1], y[2]>> /\ x[1] \in Int /\ y[1] \in Int
    BY DEF QueuedFor
  <2>2. x[1] - 1 = y[1] - 1 /\ x[2] = y[2]
    OBVIOUS
  <2>3. x[1] = y[1]
    BY <2>1, <2>2
  <2> QED BY <2>1, <2>2, <2>3
<1>7. \A y \in Q : \E x \in R : g[x] = y
  <2> TAKE y \in Q
  <2>1. /\ y[1] \in 1 .. Len(inbox') /\ y[2] \in Nat /\ y = <<y[1], y[2]>>
        /\ inbox'[y[1]].op = "data" /\ inbox'[y[1]].ack = {} /\ inbox'[y[1]].chan = c
        /\ y[2] \in 1 .. inbox'[y[1]].len
    BY <1>3
  <2> DEFINE x == <<y[1] + 1, y[2]>>
  <2>2. x[1] = y[1] + 1 /\ x[2] = y[2] /\ x[1] - 1 = y[1] /\ x[1] > 1 /\ x[1] \in 1 .. Len(inbox)
    BY <2>1, <1>1
  <2>3. inbox[x[1]] = inbox'[y[1]]
    BY <2>1, <2>2, <1>1
  <2>4. x \in (1 .. Len(inbox)) \X Nat
    BY <2>1, <2>2
  <2> HIDE DEF x
  <2>5. x \in R
    BY <2>1, <2>2, <2>3, <2>4 DEF QueuedFor
  <2>6. g[x] = y
    BY <2>1, <2>2, <2>5
  <2> QED BY <2>5, <2>6
<1> HIDE DEF R, g
<1>8. IsFiniteSet(Q) /\ Cardinality(Q) = Cardinality(R)
  BY <1>2, <1>5, <1>6, <1>7, SameSize
<1> QED BY <1>2, <1>8 DEF R, Q

LEMMA HeldStill == ASSUME wr' = wr, NEW c PROVE HeldBy(c)' = HeldBy(c)
BY DEF HeldBy

LEMMA QueuedStill == ASSUME inbox' = inbox, NEW c PROVE QueuedFor(c)' = QueuedFor(c)
BY DEF QueuedFor

LEMMA CoveredTypes ==
  ASSUME NEW c \in Chan, Covered(c)
  PROVE  Cardinality(HeldBy(c)) \in Nat /\ Cardinality(QueuedFor(c)) \in Nat
BY FS_CardinalityType DEF Covered

\* The bytes of a dispatched message of a writer are no longer in flight.
LEMMA CoveredDispatch ==
  ASSUME InboxOK, flying \in [Chan -> Int], \A c \in Chan : Covered(c), dispatch_msg
  PROVE  flying' \in [Chan -> Int] /\ \A c \in Chan : Covered(c)'
<1> DEFINE m == Head(inbox)
           paid == m.op = "data" /\ m.ack = {}
<1>1. /\ inbox # <<>> /\ inbox' = Tail(inbox) /\ wr' = wr
      /\ flying' = IF paid THEN [flying EXCEPT ![m.chan] = flying[m.chan] - m.len] ELSE flying
  BY DEF dispatch_msg
<1>2. /\ m = inbox[1] /\ 1 \in 1 .. Len(inbox)
      /\ (m.op = "data" => m.len \in Nat \ {0}) /\ m.chan \in Chan
  BY <1>1, InboxHead
<1>3. flying' \in [Chan -> Int]
  <2>1. CASE paid
    BY <2>1, <1>1, <1>2
  <2>2. CASE ~paid
    BY <2>2, <1>1
  <2> QED BY <2>1, <2>2
<1>4. ASSUME NEW c \in Chan PROVE Covered(c)'
  <2> DEFINE R == {x \in QueuedFor(c) : x[1] > 1}
  <2>1. IsFiniteSet(HeldBy(c)) /\ IsFiniteSet(QueuedFor(c)) /\ HeldBy(c)' = HeldBy(c)
        /\ flying[c] >= Cardinality(HeldBy(c)) + Cardinality(QueuedFor(c)) /\ flying[c] \in Int
        /\ Cardinality(HeldBy(c)) \in Nat /\ Cardinality(QueuedFor(c)) \in Nat
    BY <1>1, HeldStill, CoveredTypes DEF Covered
  <2>2. IsFiniteSet(R) /\ IsFiniteSet(QueuedFor(c)') /\ Cardinality(QueuedFor(c)') = Cardinality(R)
    BY <1>1, <2>1, QueuedShift
  <2>3. Cardinality(R) \in Nat
    BY <2>2, FS_CardinalityType
  <2>4. CASE paid /\ c = m.chan
    <3> DEFINE n == m.len
               H == {1} \X (1 .. n)
    <3>1. n \in Nat /\ flying'[c] = flying[c] - n
      BY <2>4, <1>1, <1>2
    <3>2. IsFiniteSet(H) /\ Cardinality(H) = n
      BY <3>1, RowSize
    <3>3. H \cup R = QueuedFor(c) /\ H \cap R = {}
      <4>1. \A x \in QueuedFor(c) : x[1] \in 1 .. Len(inbox) /\ x = <<x[1], x[2]>>
        BY DEF QueuedFor
      <4>2. ASSUME NEW x \in QueuedFor(c), ~(x[1] > 1) PROVE x \in H
        <5>1. x[1] = 1
          BY <4>1, <4>2
        <5>2. x[2] \in 1 .. inbox[1].len /\ x = <<1, x[2]>>
          BY <4>1, <5>1 DEF QueuedFor
        <5> QED BY <5>2, <1>2
      <4>3. ASSUME NEW x \in H PROVE x \in QueuedFor(c) /\ ~(x[1] > 1)
        <5>1. x[1] = 1 /\ x[2] \in 1 .. n /\ x = <<x[1], x[2]>> /\ x[2] \in Nat
          OBVIOUS
        <5> HIDE DEF H
        <5>2. x \in (1 .. Len(inbox)) \X Nat
          BY <5>1, <1>2
        <5> QED BY <5>1, <5>2, <1>2, <2>4 DEF QueuedFor
      <4> QED BY <4>2, <4>3
    <3> HIDE DEF H, R
    <3>4. Cardinality(QueuedFor(c)) = n + Cardinality(R)
      BY <3>2, <3>3, <2>2, DisjointUnion
    <3> HIDE DEF n, m
    <3> QED BY <2>1, <2>2, <2>3, <3>1, <3>4 DEF Covered
  <2>5. CASE ~(paid /\ c = m.chan)
    <3>1. flying'[c] = flying[c]
      BY <2>5, <1>1, <1>2
    <3>2. Cardinality(R) <= Cardinality(QueuedFor(c))
      BY <2>1, FS_Subset
    <3> HIDE DEF R
    <3> QED BY <2>1, <2>2, <2>3, <3>1, <3>2 DEF Covered
  <2> QED BY <2>4, <2>5
<1> QED BY <1>3, <1>4

\* The bytes of a queued message.
LEMMA QueuedPosted ==
  ASSUME InboxOK, NEW op \in {"data", "eof", "close"}, NEW c \in Chan, NEW n \in Nat,
         NEW who \in SUBSET Producers, Post(op, c, n, who), op = "data" => n > 0, NEW d \in Chan
  PROVE  LET row == {Len(inbox) + 1} \X (1 .. n)
         IN  /\ QueuedFor(d) \cap row = {}
             /\ QueuedFor(d)' = IF op = "data" /\ who = {} /\ d = c
                                THEN QueuedFor(d) \cup row ELSE QueuedFor(d)
<1> DEFINE m == [op |-> op, chan |-> c, len |-> n, ack |-> who]
           k == Len(inbox) + 1
           row == {k} \X (1 .. n)
           hit == op = "data" /\ who = {} /\ d = c
<1>1. /\ Len(inbox') = Len(inbox) + 1 /\ Len(inbox) \in Nat
      /\ \A i \in 1 .. Len(inbox) : inbox'[i] = inbox[i]
      /\ inbox'[k] = m
  BY InboxPost
<1>2. m.op = op /\ m.chan = c /\ m.len = n /\ m.ack = who
  OBVIOUS
<1> HIDE DEF m
<1>3. ASSUME NEW x \in QueuedFor(d) PROVE x \in QueuedFor(d)' /\ x \notin row
  <2>1. x[1] \in 1 .. Len(inbox) /\ x \in (1 .. Len(inbox)) \X Nat
    BY DEF QueuedFor
  <2>2. x[1] # k /\ x \in (1 .. Len(inbox')) \X Nat /\ inbox'[x[1]] = inbox[x[1]]
    BY <2>1, <1>1
  <2> QED BY <2>1, <2>2 DEF QueuedFor
<1>4. ASSUME NEW x \in QueuedFor(d)' PROVE x \in QueuedFor(d) \/ (hit /\ x \in row)
  <2>1. /\ x \in (1 .. Len(inbox')) \X Nat
        /\ inbox'[x[1]].op = "data" /\ inbox'[x[1]].ack = {} /\ inbox'[x[1]].chan = d
        /\ x[2] \in 1 .. inbox'[x[1]].len
    BY DEF QueuedFor
  <2>2. x = <<x[1], x[2]>> /\ x[2] \in Nat /\ x[1] \in 1 .. Len(inbox')
    BY <2>1
  <2>3. CASE x[1] \in 1 .. Len(inbox)
    <3>1. x \in (1 .. Len(inbox)) \X Nat /\ inbox'[x[1]] = inbox[x[1]]
      BY <2>2, <2>3, <1>1
    <3> QED BY <2>1, <3>1 DEF QueuedFor
  <2>4. CASE x[1] = k
    <3>1. inbox'[x[1]] = m
      BY <2>4, <1>1
    <3>2. hit /\ x[2] \in 1 .. n
      BY <2>1, <3>1, <1>2
    <3> QED BY <2>2, <2>4, <3>2
  <2>5. x[1] \in 1 .. Len(inbox) \/ x[1] = k
    BY <2>2, <1>1
  <2> QED BY <2>3, <2>4, <2>5
<1>5. ASSUME NEW x \in row, hit PROVE x \in QueuedFor(d)'
  <2>1. x[1] = k /\ x[2] \in 1 .. n /\ x = <<x[1], x[2]>> /\ x[2] \in Nat
    OBVIOUS
  <2>2. inbox'[x[1]] = m /\ x[1] \in 1 .. Len(inbox')
    BY <2>1, <1>1
  <2>3. x \in (1 .. Len(inbox')) \X Nat
    BY <2>1, <2>2
  <2> QED BY <2>1, <2>2, <2>3, <1>2, <1>5 DEF QueuedFor
<1> HIDE DEF row
<1>6. QueuedFor(d) \cap row = {}
  BY <1>3
<1>7. QueuedFor(d)' = IF hit THEN QueuedFor(d) \cup row ELSE QueuedFor(d)
  BY <1>3, <1>4, <1>5
<1> QED BY <1>6, <1>7 DEF row

\* A reservation is taken or given up by the writer w.
LEMMA HeldSplit ==
  ASSUME WritersOK, WritersOK', NEW w \in Writers, NEW d \in Chan,
         \A v \in Writers \ {w} : wr'[v] = wr[v], wr'[w] = <<>>, wr[w] # <<>>
  PROVE  LET row == {w} \X (1 .. wr[w][2])
         IN  /\ HeldBy(d)' \cap row = {}
             /\ HeldBy(d) = IF d = wr[w][1] THEN HeldBy(d)' \cup row ELSE HeldBy(d)'
<1> DEFINE row == {w} \X (1 .. wr[w][2])
<1>0. wr[w][2] \in Nat
  BY DEF WritersOK
<1>1. ASSUME NEW x \in HeldBy(d)' PROVE x \notin row /\ x \in HeldBy(d)
  <2>1. x \in Writers \X Nat /\ wr'[x[1]] # <<>> /\ wr'[x[1]][1] = d /\ x[2] \in 1 .. wr'[x[1]][2]
    BY DEF HeldBy
  <2>2. x[1] \in Writers /\ x[1] # w
    BY <2>1
  <2>3. wr'[x[1]] = wr[x[1]]
    BY <2>2
  <2> QED BY <2>1, <2>2, <2>3 DEF HeldBy
<1>2. ASSUME NEW x \in HeldBy(d) PROVE x \in HeldBy(d)' \/ (d = wr[w][1] /\ x \in row)
  <2>1. /\ x \in Writers \X Nat /\ wr[x[1]] # <<>> /\ wr[x[1]][1] = d /\ x[2] \in 1 .. wr[x[1]][2]
        /\ x = <<x[1], x[2]>> /\ x[1] \in Writers
    BY DEF HeldBy
  <2>2. CASE x[1] = w
    BY <2>1, <2>2
  <2>3. CASE x[1] # w
    <3>1. wr'[x[1]] = wr[x[1]]
      BY <2>1, <2>3
    <3> QED BY <2>1, <3>1 DEF HeldBy
  <2> QED BY <2>2, <2>3
<1>3. ASSUME NEW x \in row, d = wr[w][1] PROVE x \in HeldBy(d)
  <2>1. x[1] = w /\ x[2] \in 1 .. wr[w][2] /\ x = <<x[1], x[2]>> /\ x[2] \in Nat
    BY <1>0
  <2>2. x \in Writers \X Nat
    BY <2>1
  <2> QED BY <2>1, <2>2, <1>3 DEF HeldBy
<1> HIDE DEF row
<1>4. HeldBy(d)' \cap row = {}
  BY <1>1
<1>5. HeldBy(d) = IF d = wr[w][1] THEN HeldBy(d)' \cup row ELSE HeldBy(d)'
  BY <1>1, <1>2, <1>3
<1> QED BY <1>4, <1>5 DEF row

LEMMA HeldJoin ==
  ASSUME WritersOK, NEW w \in Writers, NEW c \in Chan, NEW n \in Nat, NEW d \in Chan,
         wr[w] = <<>>, wr' = [wr EXCEPT ![w] = <<c, n>>]
  PROVE  LET row == {w} \X (1 .. n)
         IN  /\ HeldBy(d) \cap row = {}
             /\ HeldBy(d)' = IF d = c THEN HeldBy(d) \cup row ELSE HeldBy(d)
<1> DEFINE row == {w} \X (1 .. n)
<1>0. /\ wr'[w] = <<c, n>> /\ wr'[w][1] = c /\ wr'[w][2] = n /\ wr'[w] # <<>>
      /\ \A v \in Writers \ {w} : wr'[v] = wr[v]
  BY DEF WritersOK
<1>1. ASSUME NEW x \in HeldBy(d) PROVE x \notin row /\ x \in HeldBy(d)'
  <2>1. x \in Writers \X Nat /\ wr[x[1]] # <<>> /\ wr[x[1]][1] = d /\ x[2] \in 1 .. wr[x[1]][2]
    BY DEF HeldBy
  <2>2. x[1] \in Writers /\ x[1] # w
    BY <2>1
  <2>3. wr'[x[1]] = wr[x[1]]
    BY <2>2, <1>0
  <2> QED BY <2>1, <2>2, <2>3 DEF HeldBy
<1>2. ASSUME NEW x \in HeldBy(d)' PROVE x \in HeldBy(d) \/ (d = c /\ x \in row)
  <2>1. /\ x \in Writers \X Nat /\ wr'[x[1]] # <<>> /\ wr'[x[1]][1] = d /\ x[2] \in 1 .. wr'[x[1]][2]
        /\ x = <<x[1], x[2]>> /\ x[1] \in Writers
    BY DEF HeldBy
  <2>2. CASE x[1] = w
    BY <2>1, <2>2, <1>0
  <2>3. CASE x[1] # w
    <3>1. wr'[x[1]] = wr[x[1]]
      BY <2>1, <2>3, <1>0
    <3> QED BY <2>1, <3>1 DEF HeldBy
  <2> QED BY <2>2, <2>3
<1>3. ASSUME NEW x \in row, d = c PROVE x \in HeldBy(d)'
  <2>1. x[1] = w /\ x[2] \in 1 .. n /\ x = <<x[1], x[2]>> /\ x[2] \in Nat
    OBVIOUS
  <2>2. x \in Writers \X Nat
    BY <2>1
  <2> QED BY <2>1, <2>2, <1>0, <1>3 DEF HeldBy
<1> HIDE DEF row
<1>4. HeldBy(d) \cap row = {}
  BY <1>1
<1>5. HeldBy(d)' = IF d = c THEN HeldBy(d) \cup row ELSE HeldBy(d)
  BY <1>1, <1>2, <1>3
<1> QED BY <1>4, <1>5 DEF row

LEMMA CoveredReserve ==
  ASSUME StreamInv, WriterInv, NEW w \in Writers, NEW c \in Chan, NEW n \in 1 .. MaxLen,
         WriterReserve(w, c, n)
  PROVE  WriterInv'
<1>0. n \in Nat
  OBVIOUS
<1>1. /\ wr[w] = <<>> /\ n <= shared[c] /\ wr' = [wr EXCEPT ![w] = <<c, n>>]
      /\ shared' = [shared EXCEPT ![c] = shared[c] - n]
      /\ flying' = [flying EXCEPT ![c] = flying[c] + n] /\ inbox' = inbox /\ chan' = chan
  BY DEF WriterReserve, Writable
<1>2. shared' \in [Chan -> Nat] /\ flying' \in [Chan -> Int] /\ chan' \in [Chan -> BOOLEAN]
  <2>1. shared[c] - n \in Nat /\ flying[c] + n \in Int
    BY <1>1 DEF WriterInv
  <2> QED BY <2>1, <1>1 DEF WriterInv
<1>3. ASSUME NEW d \in Chan PROVE Covered(d)'
  <2> DEFINE row == {w} \X (1 .. n)
             H == HeldBy(d)
  <2>1. /\ IsFiniteSet(H) /\ IsFiniteSet(QueuedFor(d)) /\ flying[d] \in Int
        /\ flying[d] >= Cardinality(H) + Cardinality(QueuedFor(d))
        /\ Cardinality(H) \in Nat /\ Cardinality(QueuedFor(d)) \in Nat
        /\ QueuedFor(d)' = QueuedFor(d)
    BY <1>1, CoveredTypes, QueuedStill DEF WriterInv, Covered
  <2>2. IsFiniteSet(row) /\ Cardinality(row) = n
    BY <1>0, RowSize
  <2>3. H \cap row = {} /\ HeldBy(d)' = IF d = c THEN H \cup row ELSE H
    BY <1>0, <1>1, HeldJoin DEF StreamInv
  <2> HIDE DEF row, H
  <2>4. CASE d = c
    <3>1. IsFiniteSet(H \cup row) /\ Cardinality(H \cup row) = Cardinality(H) + n
      BY <2>1, <2>2, <2>3, DisjointUnion
    <3>2. flying'[d] = flying[d] + n
      BY <1>1, <2>4 DEF WriterInv
    <3> QED BY <2>1, <2>3, <2>4, <3>1, <3>2 DEF Covered
  <2>5. CASE d # c
    <3>1. flying'[d] = flying[d]
      BY <1>1, <2>5 DEF WriterInv
    <3> QED BY <2>1, <2>3, <2>5, <3>1 DEF Covered
  <2> QED BY <2>4, <2>5
<1> QED BY <1>2, <1>3 DEF WriterInv

LEMMA CoveredSend ==
  ASSUME StreamInv, StreamInv', WriterInv, NEW w \in Writers, WriterSend(w) \/ WriterCancel(w)
  PROVE  WriterInv'
<1> DEFINE c == wr[w][1]
           n == wr[w][2]
<1>1. /\ wr[w] # <<>> /\ wr' = [wr EXCEPT ![w] = <<>>]
      /\ shared' = shared /\ flying' = flying /\ chan' = chan
      /\ inbox' = inbox \/ Post("data", c, n, {})
  BY DEF WriterSend, WriterCancel
<1>2. c \in Chan /\ n \in Nat /\ n > 0 /\ WritersOK /\ WritersOK' /\ InboxOK
  BY <1>1 DEF StreamInv, WritersOK
<1>3. wr'[w] = <<>> /\ \A v \in Writers \ {w} : wr'[v] = wr[v]
  BY <1>1, <1>2 DEF WritersOK
<1>4. ASSUME NEW d \in Chan PROVE Covered(d)'
  <2> DEFINE row == {w} \X (1 .. n)
             raw == {Len(inbox) + 1} \X (1 .. n)
             H == HeldBy(d)
             J == HeldBy(d)'
             Q == QueuedFor(d)
  <2>1. /\ IsFiniteSet(H) /\ IsFiniteSet(Q) /\ flying[d] \in Int /\ flying'[d] = flying[d]
        /\ flying[d] >= Cardinality(H) + Cardinality(Q)
        /\ Cardinality(H) \in Nat /\ Cardinality(Q) \in Nat
    BY <1>1, CoveredTypes DEF WriterInv, Covered
  <2>2. /\ IsFiniteSet(row) /\ Cardinality(row) = n
        /\ IsFiniteSet(raw) /\ Cardinality(raw) = n
    BY <1>2, RowSize
  <2>3. J \cap row = {} /\ H = IF d = c THEN J \cup row ELSE J
    BY <1>1, <1>2, <1>3, HeldSplit
  <2>4. \/ QueuedFor(d)' = Q
        \/ d = c /\ Q \cap raw = {} /\ QueuedFor(d)' = Q \cup raw
    <3>1. CASE inbox' = inbox
      BY <3>1, QueuedStill
    <3>2. CASE Post("data", c, n, {})
      <4>1. {} \in SUBSET Producers /\ "data" \in {"data", "eof", "close"}
        OBVIOUS
      <4> HIDE DEF c, n
      <4>2. Q \cap raw = {} /\ QueuedFor(d)' = IF "data" = "data" /\ {} = {} /\ d = c
                                               THEN Q \cup raw ELSE Q
        BY <3>2, <4>1, <1>2, QueuedPosted
      <4> QED BY <4>2
    <3> QED BY <1>1, <3>1, <3>2
  <2>5. J \subseteq H
    BY <2>3
  <2> DEFINE P == QueuedFor(d)'
  <2> HIDE DEF H, J, Q, P, row, raw, c, n
  <2>6. IsFiniteSet(J) /\ Cardinality(J) \in Nat /\ Cardinality(J) <= Cardinality(H)
    BY <2>1, <2>5, FS_Subset, FS_CardinalityType
  <2>7. d = c => Cardinality(H) = Cardinality(J) + n
    BY <2>2, <2>3, <2>6, DisjointUnion
  <2>8. d = c /\ Q \cap raw = {} => /\ IsFiniteSet(Q \cup raw)
                                    /\ Cardinality(Q \cup raw) = Cardinality(Q) + n
    BY <2>1, <2>2, DisjointUnion
  <2>9. IsFiniteSet(J) /\ IsFiniteSet(P) /\ flying'[d] >= Cardinality(J) + Cardinality(P)
    <3>1. CASE P = Q
      BY <3>1, <2>1, <2>6
    <3>2. CASE d = c /\ Q \cap raw = {} /\ P = Q \cup raw
      BY <3>2, <2>1, <2>6, <2>7, <2>8, <1>2
    <3> QED BY <2>4, <3>1, <3>2 DEF P
  <2> QED BY <2>9 DEF Covered, J, P
<1> QED BY <1>1, <1>4 DEF WriterInv

\* An entry of Session::channels is only ever removed.
ChanFalls == chan' \in [Chan -> BOOLEAN] /\ \A d \in Chan : chan'[d] => chan[d]

LEMMA ChanFell ==
  ASSUME chan \in [Chan -> BOOLEAN], NEW c \in Chan,
         chan' = chan \/ chan' = [chan EXCEPT ![c] = FALSE]
  PROVE  ChanFalls
BY DEF ChanFalls

LEMMA SessionChan ==
  ASSUME NEW c \in Chan, SessionOp(c)
  PROVE  chan' = chan \/ chan' = [chan EXCEPT ![c] = FALSE]
BY DEF SessionOp, SessionData, SessionEof, SessionClose

LEMMA CoveredStill ==
  ASSUME WriterInv, wr' = wr, inbox' = inbox, flying' = flying,
         shared' \in [Chan -> Nat], chan' \in [Chan -> BOOLEAN]
  PROVE  WriterInv'
<1>1. ASSUME NEW c \in Chan PROVE Covered(c)'
  <2>1. HeldBy(c)' = HeldBy(c) /\ QueuedFor(c)' = QueuedFor(c)
    BY HeldStill, QueuedStill
  <2> QED BY <2>1 DEF WriterInv, Covered
<1> QED BY <1>1 DEF WriterInv

\* A message that no writer sent covers nothing.
LEMMA CoveredOther ==
  ASSUME StreamInv, WriterInv, NEW op \in {"data", "eof", "close"}, NEW c \in Chan, NEW n \in Nat,
         NEW who \in SUBSET Producers, Post(op, c, n, who), op = "data" => n > 0 /\ who # {},
         UNCHANGED writerVars, chan' = chan
  PROVE  WriterInv'
<1>1. wr' = wr /\ flying' = flying /\ shared' = shared
  BY DEF writerVars
<1>2. ASSUME NEW d \in Chan PROVE Covered(d)'
  <2>1. QueuedFor(d)' = QueuedFor(d)
    BY QueuedPosted DEF StreamInv
  <2>2. HeldBy(d)' = HeldBy(d)
    BY <1>1, HeldStill
  <2> QED BY <1>1, <2>1, <2>2 DEF WriterInv, Covered
<1> QED BY <1>1, <1>2 DEF WriterInv

\* Nothing is in flight that was not reserved.
LEMMA FlyingNat ==
  ASSUME WriterInv, NEW c \in Chan
  PROVE  flying[c] \in Nat
<1>1. Covered(c) /\ flying[c] \in Int
  BY DEF WriterInv
<1>2. Cardinality(HeldBy(c)) \in Nat /\ Cardinality(QueuedFor(c)) \in Nat
  BY <1>1, CoveredTypes
<1> QED BY <1>1, <1>2 DEF Covered

\* What keeps the windows of d in agreement.
WinStep(d) ==
  /\ granted'[d] = granted[d] /\ adj'[d] = adj[d]
  /\ sentTo'[d] + rwin'[d] = sentTo[d] + rwin[d]
  /\ est'[d] /\ chan'[d] => /\ est[d] /\ chan[d]
                            /\ shared'[d] + flying'[d] + accepted'[d]
                               >= shared[d] + flying[d] + accepted[d]

LEMMA WinTypes ==
  ASSUME StreamInv, WriterInv, NEW d \in Chan
  PROVE  /\ sentTo[d] \in Nat /\ rwin[d] \in Nat /\ adj[d] \in Nat /\ granted[d] \in Nat
         /\ accepted[d] \in Nat /\ shared[d] \in Nat /\ flying[d] \in Nat /\ sentTo[d] <= accepted[d]
BY FlyingNat DEF StreamInv, EncOK, PeerOK, WriterInv, ChanOK

LEMMA WinKept ==
  ASSUME StreamInv, StreamInv', WriterInv, WriterInv', NEW d \in Chan, WinOK(d), WinStep(d)
  PROVE  WinOK(d)'
<1>0. InitWindow \in Nat
  BY OutboundAssumption
<1>1. /\ sentTo[d] \in Nat /\ rwin[d] \in Nat /\ adj[d] \in Nat /\ granted[d] \in Nat
      /\ accepted[d] \in Nat /\ shared[d] \in Nat /\ flying[d] \in Nat
  BY WinTypes
<1>2. /\ sentTo'[d] \in Nat /\ rwin'[d] \in Nat /\ adj'[d] \in Nat /\ granted'[d] \in Nat
      /\ accepted'[d] \in Nat /\ shared'[d] \in Nat /\ flying'[d] \in Int
  BY DEF StreamInv, EncOK, PeerOK, WriterInv
<1> QED BY <1>0, <1>1, <1>2 DEF WinOK, WinStep

LEMMA WinAll ==
  ASSUME WinInv, StreamInv', WriterInv', \A d \in Chan : WinStep(d)
  PROVE  WinInv'
<1>1. ASSUME NEW d \in Chan PROVE WinOK(d)'
  BY WinKept DEF WinInv
<1> QED BY <1>1 DEF WinInv

\* A step that does not touch the channels, the grants or the tasks' window.
LEMMA WinStill ==
  ASSUME WinInv, StreamInv', WriterInv',
         UNCHANGED <<est, rwin, accepted, sentTo, granted, adj, shared, flying>>,
         \A d \in Chan : chan'[d] => chan[d]
  PROVE  WinInv'
<1>1. ASSUME NEW d \in Chan PROVE WinStep(d)
  <2>1. /\ sentTo[d] \in Nat /\ rwin[d] \in Nat
        /\ accepted[d] \in Nat /\ shared[d] \in Nat /\ flying[d] \in Nat
    BY WinTypes DEF WinInv
  <2> QED BY <2>1 DEF WinStep
<1> QED BY <1>1, WinAll

\* A channel that the step does not touch.
LEMMA WinSame ==
  ASSUME WinInv, NEW d \in Chan, SameChan(d), granted'[d] = granted[d], adj'[d] = adj[d],
         shared'[d] = shared[d], flying'[d] = flying[d], chan'[d] => chan[d]
  PROVE  WinStep(d)
<1>1. /\ sentTo[d] \in Nat /\ rwin[d] \in Nat
      /\ accepted[d] \in Nat /\ shared[d] \in Nat /\ flying[d] \in Nat
  BY WinTypes DEF WinInv
<1> QED BY <1>1 DEF WinStep, SameChan

LEMMA WinDispatch ==
  ASSUME WinInv, StreamInv', dispatch_msg
  PROVE  WinInv'
<1> DEFINE m == Head(inbox)
           c == m.chan
           paid == m.op = "data" /\ m.ack = {}
<1>1. /\ inbox # <<>> /\ inbox' = Tail(inbox) /\ wr' = wr /\ shared' = shared
      /\ c \in Chan /\ SessionOp(c) /\ UNCHANGED peerVars
  BY DispatchIsOp DEF WinInv, StreamInv
<1>2. flying' = IF paid THEN [flying EXCEPT ![c] = flying[c] - m.len] ELSE flying
  BY DEF dispatch_msg
<1>3. m.op = "data" => m.len \in Nat \ {0} /\ SessionData(c, m.len, m.ack)
  <2>1. m.op = "data" => m.len \in Nat \ {0}
    BY <1>1, InboxHead DEF WinInv, StreamInv
  <2> QED BY <2>1 DEF dispatch_msg
<1>4. got' = got /\ gotClose' = gotClose /\ granted' = granted /\ adj' = adj
  BY <1>1 DEF peerVars
<1>5. ChanFalls
  BY <1>1, SessionChan, ChanFell DEF WinInv, WriterInv
<1>6. WriterInv'
  <2>1. flying' \in [Chan -> Int] /\ \A d \in Chan : Covered(d)'
    BY CoveredDispatch DEF WinInv, StreamInv, WriterInv
  <2> QED BY <2>1, <1>1, <1>5 DEF WriterInv, ChanFalls, WinInv
<1>7. StreamStep(c) /\ sentTo'[c] + rwin'[c] = sentTo[c] + rwin[c]
  <2> HIDE DEF c
  <2> QED BY <1>1, <1>4, SessionStep DEF WinInv, StreamInv
<1>8. flying \in [Chan -> Int] /\ shared[c] \in Nat /\ flying[c] \in Nat /\ accepted[c] \in Nat
  BY <1>1, WinTypes DEF WinInv, WriterInv
<1>9. ASSUME NEW d \in Chan \ {c} PROVE WinStep(d)
  <2>1. SameChan(d) /\ flying'[d] = flying[d]
    BY <1>2, <1>7, <1>8 DEF StreamStep
  <2> QED BY <2>1, <1>1, <1>4, <1>5, WinSame DEF ChanFalls
<1>10. WinStep(c)
  <2>1. accepted'[c] \in Nat /\ accepted[c] <= accepted'[c] /\ (est'[c] => est[c])
    BY <1>1, <1>7 DEF StreamStep, EncOK
  <2>2. CASE paid /\ est[c]
    <3> DEFINE n == m.len
               who == m.ack
    <3>1. n \in Nat \ {0} /\ SessionData(c, n, who) /\ flying'[c] = flying[c] - n
      BY <1>1, <1>2, <1>3, <1>8, <2>2
    <3> HIDE DEF n, who, c
    <3>2. accepted'[c] = accepted[c] + n
      BY <1>1, <1>4, <2>2, <3>1, DataStep DEF WinInv, StreamInv
    <3>3. shared'[c] + flying'[c] + accepted'[c] = shared[c] + flying[c] + accepted[c]
      BY <1>1, <1>8, <3>1, <3>2
    <3>4. shared'[c] + flying'[c] + accepted'[c] >= shared[c] + flying[c] + accepted[c]
      BY <3>3, <1>8
    <3> QED BY <3>4, <2>1, <1>1, <1>4, <1>5, <1>7 DEF WinStep, ChanFalls
  <2>3. CASE ~paid
    <3>1. flying'[c] = flying[c]
      BY <1>2, <2>3
    <3> HIDE DEF c, paid
    <3>2. shared'[c] + flying'[c] + accepted'[c] >= shared[c] + flying[c] + accepted[c]
      BY <3>1, <2>1, <1>1, <1>8
    <3> QED BY <3>2, <2>1, <1>1, <1>4, <1>5, <1>7 DEF WinStep, ChanFalls
  <2>4. CASE ~est[c]
    BY <2>4, <2>1, <1>1, <1>4, <1>7 DEF WinStep
  <2> QED BY <2>2, <2>3, <2>4
<1> HIDE DEF c
<1>11. \A d \in Chan : WinStep(d)
  BY <1>9, <1>10
<1> QED BY <1>6, <1>11, WinAll

LEMMA WinCallback ==
  ASSUME WinInv, StreamInv', NEW c \in Chan, CallbackOp(c)
  PROVE  WinInv'
<1>1. SessionOp(c) /\ UNCHANGED <<peerVars, writerVars>> /\ inbox' = inbox
  BY CallbackIsOp
<1>2. /\ got' = got /\ gotClose' = gotClose /\ granted' = granted /\ adj' = adj
      /\ shared' = shared /\ flying' = flying /\ wr' = wr
  BY <1>1 DEF peerVars, writerVars
<1>3. ChanFalls
  BY <1>1, SessionChan, ChanFell DEF WinInv, WriterInv
<1>4. WriterInv'
  BY <1>1, <1>2, <1>3, CoveredStill DEF WinInv, WriterInv, ChanFalls
<1>5. StreamStep(c) /\ sentTo'[c] + rwin'[c] = sentTo[c] + rwin[c]
  BY <1>1, <1>2, SessionStep DEF WinInv, StreamInv
<1>6. ASSUME NEW d \in Chan \ {c} PROVE WinStep(d)
  BY <1>2, <1>3, <1>5, WinSame DEF StreamStep, ChanFalls
<1>7. WinStep(c)
  <2>1. accepted'[c] \in Nat /\ accepted[c] <= accepted'[c] /\ (est'[c] => est[c])
    BY <1>5 DEF StreamStep, EncOK
  <2>2. shared[c] \in Nat /\ flying[c] \in Nat /\ accepted[c] \in Nat
    BY WinTypes DEF WinInv
  <2>3. shared'[c] + flying'[c] + accepted'[c] >= shared[c] + flying[c] + accepted[c]
    BY <1>2, <2>1, <2>2
  <2> QED BY <1>2, <1>3, <1>5, <2>1, <2>3 DEF WinStep, ChanFalls
<1> QED BY <1>4, <1>6, <1>7, WinAll

\* CHANNEL_WINDOW_ADJUST moves what was granted into the window, and publishes
\* what the flush left of it.
LEMMA WinAdjust ==
  ASSUME WinInv, StreamInv', NEW c \in Chan, RecvWindowAdjust(c)
  PROVE  WinInv'
<1>0. /\ sentTo[c] \in Nat /\ rwin[c] \in Nat /\ adj[c] \in Nat /\ granted[c] \in Nat
      /\ accepted[c] \in Nat /\ shared[c] \in Nat /\ flying[c] \in Nat
      /\ adj \in [Chan -> Nat] /\ shared \in [Chan -> Nat] /\ InitWindow \in Nat
  BY WinTypes, OutboundAssumption DEF WinInv, StreamInv, PeerOK, WriterInv
<1>1. /\ adj' = [adj EXCEPT ![c] = 0] /\ got' = got /\ gotClose' = gotClose /\ granted' = granted
      /\ chan' = chan /\ flying' = flying /\ wr' = wr /\ inbox' = inbox
  BY DEF RecvWindowAdjust
<1>2. CASE est[c]
  <2>1. /\ FlushPending(c, rwin[c] + adj[c]) /\ rwin[c] + adj[c] \in Nat
        /\ shared' = IF chan[c] THEN [shared EXCEPT ![c] = rwin'[c]] ELSE shared
    BY <1>0, <1>2 DEF RecvWindowAdjust, window_size_update
  <2>2. StreamStep(c) /\ sentTo'[c] + rwin'[c] = sentTo[c] + (rwin[c] + adj[c])
    BY <1>1, <1>2, <2>1, FlushStep DEF WinInv, StreamInv
  <2>3. rwin'[c] \in Nat /\ sentTo'[c] \in Nat /\ accepted'[c] \in Nat /\ sentTo'[c] <= accepted'[c]
    BY DEF StreamInv, EncOK, ChanOK
  <2>4. shared' \in [Chan -> Nat]
    BY <1>0, <2>1, <2>3
  <2>5. WriterInv'
    BY <1>1, <2>4, CoveredStill DEF WinInv, WriterInv
  <2>6. ASSUME NEW d \in Chan \ {c} PROVE WinOK(d)'
    <3>1. SameChan(d) /\ adj'[d] = adj[d] /\ shared'[d] = shared[d]
      BY <1>0, <1>1, <2>1, <2>2 DEF StreamStep
    <3>2. WinStep(d)
      BY <1>1, <3>1, WinSame
    <3> QED BY <2>5, <3>2, WinKept DEF WinInv
  <2>7. WinOK(c)'
    <3>1. adj'[c] = 0 /\ granted'[c] = granted[c] /\ chan'[c] = chan[c] /\ flying'[c] = flying[c]
      BY <1>0, <1>1
    <3>2. sentTo'[c] + rwin'[c] + adj'[c] <= InitWindow + granted'[c]
      <4>1. sentTo[c] + rwin[c] + adj[c] <= InitWindow + granted[c]
        BY DEF WinInv, WinOK
      <4> QED BY <1>0, <2>2, <2>3, <3>1, <4>1
    <3>3. chan'[c] => shared'[c] = rwin'[c]
      BY <1>0, <2>1, <3>1
    <3>4. chan'[c] => shared'[c] + flying'[c] + accepted'[c] >= sentTo'[c] + rwin'[c]
      BY <1>0, <2>3, <3>1, <3>3
    <3> QED BY <3>2, <3>4 DEF WinOK
  <2> QED BY <2>5, <2>6, <2>7 DEF WinInv
<1>3. CASE ~est[c]
  <2>1. UNCHANGED encVars /\ shared' = shared
    BY <1>3 DEF RecvWindowAdjust
  <2>2. est' = est /\ rwin' = rwin /\ accepted' = accepted /\ sentTo' = sentTo
    BY <2>1 DEF encVars
  <2>3. WriterInv'
    BY <1>1, <2>1, CoveredStill DEF WinInv, WriterInv
  <2>4. ASSUME NEW d \in Chan PROVE WinOK(d)'
    <3>1. /\ WinOK(d) /\ adj'[d] \in Nat /\ adj'[d] <= adj[d] /\ adj[d] \in Nat
          /\ sentTo[d] \in Nat /\ rwin[d] \in Nat /\ granted[d] \in Nat
      BY <1>0, <1>1, WinTypes DEF WinInv
    <3> QED BY <1>0, <1>1, <2>1, <2>2, <3>1 DEF WinOK
  <2> QED BY <2>3, <2>4 DEF WinInv
<1> QED BY <1>2, <1>3

LEMMA WinFlushAll ==
  ASSUME WinInv, StreamInv', NEW c \in Chan, FlushAll(c)
  PROVE  WinInv'
<1>1. /\ FlushPending(c, rwin[c]) /\ c \in todo /\ phase = "flushall"
      /\ UNCHANGED <<peerVars, writerVars>> /\ chan' = chan /\ inbox' = inbox
  BY DEF FlushAll
<1>2. /\ got' = got /\ gotClose' = gotClose /\ granted' = granted /\ adj' = adj
      /\ shared' = shared /\ flying' = flying /\ wr' = wr
  BY <1>1 DEF peerVars, writerVars
<1>3. est[c] /\ rwin[c] \in Nat
  BY <1>1 DEF WinInv, StreamInv, TodoOK, EncOK
<1>4. StreamStep(c) /\ accepted' = accepted /\ sentTo'[c] + rwin'[c] = sentTo[c] + rwin[c]
  BY <1>1, <1>2, <1>3, FlushStep DEF WinInv, StreamInv
<1>5. WriterInv'
  BY <1>1, <1>2, CoveredStill DEF WinInv, WriterInv
<1>6. ASSUME NEW d \in Chan \ {c} PROVE WinStep(d)
  BY <1>1, <1>2, <1>4, WinSame DEF StreamStep
<1>7. WinStep(c)
  <2>1. shared[c] \in Nat /\ flying[c] \in Nat /\ accepted[c] \in Nat
    BY WinTypes DEF WinInv
  <2>2. shared'[c] + flying'[c] + accepted'[c] >= shared[c] + flying[c] + accepted[c]
    BY <1>2, <1>4, <2>1
  <2> QED BY <1>1, <1>2, <1>3, <1>4, <2>2 DEF WinStep
<1> QED BY <1>5, <1>6, <1>7, WinAll

LEMMA WinRecvClose ==
  ASSUME WinInv, StreamInv', NEW c \in Chan, RecvClose(c)
  PROVE  WinInv'
<1>1. /\ chan' = chan \/ chan' = [chan EXCEPT ![c] = FALSE]
      /\ rwin' = rwin /\ sentTo' = sentTo /\ UNCHANGED <<peerVars, writerVars>> /\ inbox' = inbox
  BY DEF RecvClose
<1>2. /\ got' = got /\ gotClose' = gotClose /\ granted' = granted /\ adj' = adj
      /\ shared' = shared /\ flying' = flying /\ wr' = wr
  BY <1>1 DEF peerVars, writerVars
<1>3. ChanFalls
  BY <1>1, ChanFell DEF WinInv, WriterInv
<1>4. WriterInv'
  BY <1>1, <1>2, <1>3, CoveredStill DEF WinInv, WriterInv, ChanFalls
<1>5. StreamStep(c) /\ ~est'[c]
  BY RecvCloseStep DEF WinInv
<1>6. ASSUME NEW d \in Chan \ {c} PROVE WinStep(d)
  BY <1>2, <1>3, <1>5, WinSame DEF StreamStep, ChanFalls
<1>7. WinStep(c)
  BY <1>1, <1>2, <1>5 DEF WinStep
<1> QED BY <1>4, <1>6, <1>7, WinAll

\* The steps of the loop that neither accept nor emit.
LEMMA WinLoop ==
  ASSUME WinInv, StreamInv',
         DrainDone \/ KexDone \/ EndIteration \/ Quiet \/ \E c \in Chan : FlushInto(c)
  PROVE  WinInv'
<1>1. /\ UNCHANGED <<est, rwin, accepted, sentTo, granted, adj, shared, flying>>
      /\ wr' = wr /\ inbox' = inbox
      /\ \/ chan' = chan
         \/ \E c \in Chan : chan' = [chan EXCEPT ![c] = FALSE]
  BY DEF DrainDone, KexDone, EndIteration, Quiet, RecvOther, RecvKexInit, RecvNewKeys, Tick,
         FinalizeClose, FlushInto, encVars, peerVars, writerVars
<1>2. ChanFalls
  BY <1>1, ChanFell DEF WinInv, WriterInv, ChanFalls
<1>3. WriterInv'
  BY <1>1, <1>2, CoveredStill DEF WinInv, WriterInv, ChanFalls
<1> QED BY <1>1, <1>2, <1>3, WinStill DEF ChanFalls

LEMMA WinTask ==
  ASSUME WinInv, StreamInv', Task
  PROVE  WinInv'
<1>1. UNCHANGED encVars /\ UNCHANGED peerVars /\ chan' = chan
  BY StreamTask DEF WinInv, Task, ProducerSend, WriterReserve, WriterSend, WriterCancel, TaskControl
<1>2. /\ est' = est /\ rwin' = rwin /\ accepted' = accepted /\ sentTo' = sentTo
      /\ granted' = granted /\ adj' = adj
  BY <1>1 DEF encVars, peerVars
<1>3. ASSUME NEW p \in Producers, NEW c \in Chan, NEW n \in 1 .. MaxLen, ProducerSend(p, c, n)
      PROVE  WriterInv' /\ shared' = shared /\ flying' = flying
  <2>1. Post("data", c, n, {p}) /\ n \in Nat /\ n > 0 /\ {p} \in SUBSET Producers /\ {p} # {}
        /\ UNCHANGED writerVars
    BY <1>3 DEF ProducerSend
  <2>2. WriterInv'
    BY <1>1, <2>1, CoveredOther DEF WinInv
  <2> QED BY <2>1, <2>2 DEF writerVars
<1>4. ASSUME NEW op \in TaskOps, NEW c \in Chan, TaskControl(op, c)
      PROVE  WriterInv' /\ shared' = shared /\ flying' = flying
  <2>1. Post(op, c, 0, {}) /\ op \in {"eof", "close"} /\ {} \in SUBSET Producers
        /\ UNCHANGED writerVars
    BY <1>4, OutboundAssumption DEF TaskControl
  <2>2. WriterInv'
    BY <1>1, <2>1, CoveredOther DEF WinInv
  <2> QED BY <2>1, <2>2 DEF writerVars
<1>5. ASSUME NEW w \in Writers, WriterSend(w) \/ WriterCancel(w)
      PROVE  WriterInv' /\ shared' = shared /\ flying' = flying
  <2>1. shared' = shared /\ flying' = flying
    BY <1>5 DEF WriterSend, WriterCancel
  <2> QED BY <1>5, <2>1, CoveredSend DEF WinInv
<1>6. CASE WriterInv' /\ shared' = shared /\ flying' = flying
  BY <1>1, <1>2, <1>6, WinStill
<1>7. ASSUME NEW w \in Writers, NEW c \in Chan, NEW n \in 1 .. MaxLen, WriterReserve(w, c, n)
      PROVE  WinInv'
  <2>1. WriterInv'
    BY <1>7, CoveredReserve DEF WinInv
  <2>2. /\ shared' = [shared EXCEPT ![c] = shared[c] - n] /\ n \in Nat
        /\ flying' = [flying EXCEPT ![c] = flying[c] + n]
    BY <1>7 DEF WriterReserve
  <2>3. ASSUME NEW d \in Chan PROVE WinStep(d)
    <3>1. /\ sentTo[d] \in Nat /\ rwin[d] \in Nat
          /\ accepted[d] \in Nat /\ shared[d] \in Nat /\ flying[d] \in Nat
      BY WinTypes DEF WinInv
    <3>2. shared'[d] + flying'[d] = shared[d] + flying[d]
      BY <2>2, <3>1 DEF WinInv, WriterInv
    <3>3. shared'[d] \in Int /\ flying'[d] \in Int
      BY <2>1 DEF WriterInv
    <3> QED BY <1>1, <1>2, <3>1, <3>2, <3>3 DEF WinStep
  <2> QED BY <2>1, <2>3, WinAll
<1> QED BY <1>3, <1>4, <1>5, <1>6, <1>7 DEF Task

LEMMA WinGrant ==
  ASSUME WinInv, StreamInv', NEW c \in Chan, PeerGrant(c)
  PROVE  WinInv'
<1>1. PICK n \in 1 .. got[c] - granted[c] :
        /\ granted' = [granted EXCEPT ![c] = granted[c] + n] /\ adj' = [adj EXCEPT ![c] = adj[c] + n]
  BY DEF PeerGrant
<1>2. /\ UNCHANGED encVars /\ UNCHANGED writerVars /\ chan' = chan /\ inbox' = inbox
  BY DEF PeerGrant
<1>3. /\ est' = est /\ rwin' = rwin /\ accepted' = accepted /\ sentTo' = sentTo
      /\ shared' = shared /\ flying' = flying /\ wr' = wr
  BY <1>2 DEF encVars, writerVars
<1>4. WriterInv'
  BY <1>2, <1>3, CoveredStill DEF WinInv, WriterInv
<1>5. ASSUME NEW d \in Chan PROVE WinOK(d)'
  <2>0. n \in Int /\ InitWindow \in Nat
    BY OutboundAssumption DEF WinInv, StreamInv, EncOK, PeerOK
  <2>1. /\ sentTo[d] \in Nat /\ rwin[d] \in Nat /\ adj[d] \in Nat /\ granted[d] \in Nat
        /\ accepted[d] \in Nat /\ shared[d] \in Nat /\ flying[d] \in Nat
        /\ granted \in [Chan -> Nat] /\ adj \in [Chan -> Nat]
    BY WinTypes DEF WinInv, StreamInv, PeerOK
  <2>2. \/ granted'[d] = granted[d] /\ adj'[d] = adj[d]
        \/ granted'[d] = granted[d] + n /\ adj'[d] = adj[d] + n
    BY <1>1, <2>1
  <2>3. WinOK(d)
    BY DEF WinInv
  <2>4. sentTo'[d] + rwin'[d] + adj'[d] <= InitWindow + granted'[d]
    BY <1>3, <2>0, <2>1, <2>2, <2>3 DEF WinOK
  <2> QED BY <1>2, <1>3, <2>3, <2>4 DEF WinOK
<1> QED BY <1>4, <1>5 DEF WinInv

LEMMA WinNext ==
  ASSUME WinInv, [Next]_vars
  PROVE  WinInv'
<1>0. StreamInv'
  BY StreamNext DEF WinInv
<1>1. CASE Task
  BY <1>0, <1>1, WinTask
<1>2. CASE DrainMsg \/ SelectMsg
  BY <1>0, <1>2, WinDispatch DEF DrainMsg, SelectMsg
<1>3. CASE DrainDone \/ KexDone \/ EndIteration \/ Quiet \/ \E c \in Chan : FlushInto(c)
  BY <1>0, <1>3, WinLoop
<1>4. ASSUME NEW c \in Chan, RecvWindowAdjust(c) PROVE WinInv'
  BY <1>0, <1>4, WinAdjust
<1>5. ASSUME NEW c \in Chan, FlushAll(c) PROVE WinInv'
  BY <1>0, <1>5, WinFlushAll
<1>6. ASSUME NEW c \in Chan, RecvClose(c) PROVE WinInv'
  BY <1>0, <1>6, WinRecvClose
<1>7. ASSUME NEW c \in Chan, CallbackOp(c) PROVE WinInv'
  BY <1>0, <1>7, WinCallback
<1>8. ASSUME NEW c \in Chan, PeerGrant(c) PROVE WinInv'
  BY <1>0, <1>8, WinGrant
<1>9. CASE UNCHANGED vars
  <2>1. /\ UNCHANGED <<est, rwin, accepted, sentTo, granted, adj, shared, flying>>
        /\ wr' = wr /\ inbox' = inbox /\ chan' = chan
    BY <1>9 DEF vars, encVars, peerVars, writerVars
  <2>2. WriterInv'
    BY <2>1, CoveredStill DEF WinInv, WriterInv
  <2> QED BY <1>0, <2>1, <2>2, WinStill
<1> QED BY <1>1, <1>2, <1>3, <1>4, <1>5, <1>6, <1>7, <1>8, <1>9 DEF Next, Loop, Quiet

LEMMA WinInit == Init => WinInv
<1> SUFFICES ASSUME Init PROVE WinInv
  OBVIOUS
<1>0. InitWindow \in Nat
  BY OutboundAssumption
<1>1. /\ shared \in [Chan -> Nat] /\ flying \in [Chan -> Int] /\ chan \in [Chan -> BOOLEAN]
      /\ inbox = <<>> /\ wr = [w \in Writers |-> <<>>] /\ flying = [c \in Chan |-> 0]
  BY <1>0 DEF Init
<1>2. ASSUME NEW c \in Chan PROVE Covered(c)
  <2>1. HeldBy(c) = {}
    BY <1>1 DEF HeldBy
  <2>2. QueuedFor(c) = {}
    BY <1>1 DEF QueuedFor
  <2>3. IsFiniteSet({}) /\ Cardinality({}) = 0
    BY FS_EmptySet
  <2> QED BY <1>1, <2>1, <2>2, <2>3 DEF Covered
<1>3. ASSUME NEW c \in Chan PROVE WinOK(c)
  BY <1>0 DEF Init, WinOK, Before
<1> QED BY <1>1, <1>2, <1>3, StreamInit DEF WinInv, WriterInv

\* The session never emits more than the peer granted, and WindowSizeRef hides
\* no window from the writers but what they reserved and what is parked: for any
\* number of writers, whatever they cancel, and although every WINDOW_ADJUST
\* overwrites the value that reservations were taken from.
THEOREM WindowsAlwaysAgree == Spec => []WindowsAgree
<1>1. WinInv /\ [Next]_vars => WinInv'
  BY WinNext
<1>2. WinInv => WindowsAgree
  <2> SUFFICES ASSUME WinInv PROVE WindowsAgree
    OBVIOUS
  <2>1. ASSUME NEW c \in Chan
        PROVE  /\ rwin[c] >= 0
               /\ sentTo[c] + rwin[c] <= InitWindow + granted[c] - adj[c]
               /\ est[c] /\ chan[c] => shared[c] + flying[c] + Bytes(pending[c]) >= rwin[c]
    <3>1. /\ sentTo[c] \in Nat /\ rwin[c] \in Nat /\ adj[c] \in Nat /\ granted[c] \in Nat
          /\ accepted[c] \in Nat /\ shared[c] \in Nat /\ flying[c] \in Nat /\ InitWindow \in Nat
      BY WinTypes, OutboundAssumption DEF WinInv
    <3>2. est[c] => Bytes(pending[c]) = accepted[c] - sentTo[c]
      BY BytesOfChain DEF WinInv, StreamInv, EncOK, ChanOK
    <3>3. WinOK(c)
      BY DEF WinInv
    <3> QED BY <3>1, <3>2, <3>3 DEF WinOK
  <2> QED BY <2>1 DEF WindowsAgree, WindowRespected, SharedNotStranded
<1> QED BY WinInit, <1>1, <1>2, PTL DEF Spec
-----------------------------------------------------------------------------
(* The byte pipe. *)

\* The abstract state: the bytes inside, and whether the channel is broken.
Inside == [c \in Chan |-> BytesIn(sealed[c] \o staged[c])
                          \cup (IF est[c] THEN BytesIn(pending[c]) ELSE {})]
Broken == [c \in Chan |-> ~est[c]]

\* What is inside is what was accepted and not received; of a broken channel,
\* what was emitted before it broke.
PipeView ==
  \A c \in Chan :
    /\ Inside[c] = got[c] .. (IF est[c] THEN accepted[c] ELSE sentTo[c]) - 1
    /\ got[c] \in Nat /\ sentTo[c] \in Nat /\ accepted[c] \in Nat
    /\ got[c] <= sentTo[c] /\ sentTo[c] <= accepted[c]

LEMMA InsideIs == StreamInv => PipeView
<1> SUFFICES ASSUME StreamInv, NEW c \in Chan
             PROVE  /\ Inside[c] = got[c] .. (IF est[c] THEN accepted[c] ELSE sentTo[c]) - 1
                    /\ got[c] \in Nat /\ sentTo[c] \in Nat /\ accepted[c] \in Nat
                    /\ got[c] <= sentTo[c] /\ sentTo[c] <= accepted[c]
  BY DEF PipeView
<1>1. /\ got[c] \in Nat /\ sentTo[c] \in Nat /\ accepted[c] \in Nat
      /\ got[c] <= sentTo[c] /\ sentTo[c] <= accepted[c]
      /\ Chain(Out(c), got[c], sentTo[c]) /\ Out(c) \in Seq(Packet)
      /\ pending[c] \in Seq(ByteRange)
      /\ est[c] => Chain(pending[c], sentTo[c], accepted[c])
  BY OutType DEF StreamInv, EncOK, ChanOK, Chain
<1>2. BytesIn(Out(c)) = got[c] .. sentTo[c] - 1
  BY <1>1, ItemSets, ChainBytes
<1>3. est[c] => BytesIn(pending[c]) = sentTo[c] .. accepted[c] - 1
  BY <1>1, ItemSets, ChainBytes
<1>4. Inside[c] = BytesIn(Out(c)) \cup (IF est[c] THEN BytesIn(pending[c]) ELSE {})
  BY DEF Inside, Out
<1> QED BY <1>1, <1>2, <1>3, <1>4

LEMMA InsideNext == ASSUME StreamInv' PROVE PipeView'
BY InsideIs, PTL

\* One channel is changed.
LEMMA OneChanged ==
  ASSUME NEW S, NEW f, NEW g, f = [d \in S |-> f[d]], g = [d \in S |-> g[d]],
         NEW c \in S, \A d \in S \ {c} : g[d] = f[d]
  PROVE  g = [f EXCEPT ![c] = g[c]]
OBVIOUS

LEMMA PipeType ==
  /\ Inside = [d \in Chan |-> Inside[d]] /\ Broken = [d \in Chan |-> Broken[d]]
  /\ \A d \in Chan : Broken[d] = ~est[d]
BY DEF Inside, Broken

LEMMA PipeTypeNext ==
  /\ Inside' = [d \in Chan |-> Inside'[d]] /\ Broken' = [d \in Chan |-> Broken'[d]]
  /\ \A d \in Chan : Broken'[d] = ~est'[d]
BY DEF Inside, Broken

\* The operations of Encrypted on a channel, as steps of the pipe: bytes are put
\* in, or the channel breaks and what was parked is cut off, or nothing shows.
LEMMA PipeOp ==
  ASSUME StreamInv, StreamInv', NEW c \in Chan, StreamStep(c), got' = got,
         ~est[c] => accepted'[c] = accepted[c] /\ sentTo'[c] = sentTo[c]
  PROVE  [Pipe!Next]_(Pipe!pipeVars)
<1>1. PipeView /\ PipeView'
  BY InsideIs, InsideNext
<1>2. /\ \A d \in Chan \ {c} : est'[d] = est[d] /\ accepted'[d] = accepted[d] /\ sentTo'[d] = sentTo[d]
      /\ accepted[c] <= accepted'[c] /\ (est'[c] => est[c])
  BY DEF StreamStep, SameChan
<1>3. \A d \in Chan \ {c} : Inside'[d] = Inside[d] /\ Broken'[d] = Broken[d]
  BY <1>1, <1>2, PipeType, PipeTypeNext DEF PipeView
<1>4. Inside' = [Inside EXCEPT ![c] = Inside'[c]]
  BY <1>3, PipeType, PipeTypeNext, OneChanged
<1>5. Broken' = [Broken EXCEPT ![c] = Broken'[c]]
  BY <1>3, PipeType, PipeTypeNext, OneChanged
<1>6. accepted' = [accepted EXCEPT ![c] = accepted'[c]]
  BY <1>2 DEF StreamInv, EncOK
<1>7. CASE est[c] /\ est'[c] /\ accepted'[c] > accepted[c]
  <2>1. Inside'[c] = Inside[c] \cup (accepted[c] .. accepted'[c] - 1)
    BY <1>1, <1>7 DEF PipeView
  <2>2. Broken' = Broken /\ ~Broken[c]
    BY <1>5, <1>7, PipeType, PipeTypeNext
  <2>3. Inside' = [Inside EXCEPT ![c] = Inside[c] \cup (accepted[c] .. accepted'[c] - 1)]
    BY <2>1, <1>4
  <2>4. Pipe!Put(c)
    BY <1>6, <1>7, <2>2, <2>3 DEF Pipe!Put, Pipe!Only, Pipe!Span, Inside, Broken
  <2> QED BY <2>4 DEF Pipe!Next
<1>8. CASE est[c] /\ ~est'[c]
  <2> DEFINE end == sentTo'[c]
  <2>1. Inside'[c] = {x \in Inside[c] \cup (accepted[c] .. accepted'[c] - 1) : x < end}
    BY <1>1, <1>2, <1>8 DEF PipeView
  <2>2. Broken' = [Broken EXCEPT ![c] = TRUE]
    BY <1>5, <1>8, PipeTypeNext
  <2>3. end \in got[c] .. accepted'[c]
    BY <1>1 DEF PipeView
  <2>4. Inside' = [Inside EXCEPT ![c] =
                     {x \in Inside[c] \cup (accepted[c] .. accepted'[c] - 1) : x < end}]
    BY <2>1, <1>4
  <2>5. accepted'[c] >= accepted[c]
    BY <1>1, <1>2 DEF PipeView
  <2>6. Pipe!Break(c)
    BY <1>6, <2>2, <2>3, <2>4, <2>5 DEF Pipe!Break, Pipe!Only, Pipe!Span, Inside, Broken
  <2> QED BY <2>6 DEF Pipe!Next
<1>9. CASE est'[c] = est[c] /\ accepted'[c] = accepted[c] /\ (~est[c] => sentTo'[c] = sentTo[c])
  <2>1. Inside'[c] = Inside[c] /\ Broken'[c] = Broken[c]
    BY <1>1, <1>9, PipeType, PipeTypeNext DEF PipeView
  <2>2. Inside' = Inside
    BY <2>1, <1>4, PipeType
  <2>3. Broken' = Broken
    BY <2>1, <1>5, PipeType
  <2>4. accepted' = accepted
    BY <1>6, <1>9 DEF StreamInv, EncOK
  <2> QED BY <2>2, <2>3, <2>4 DEF Pipe!pipeVars, Inside, Broken
<1>10. est[c] \in BOOLEAN /\ est'[c] \in BOOLEAN /\ accepted[c] \in Nat /\ accepted'[c] \in Nat
  BY DEF StreamInv, EncOK
<1> QED BY <1>2, <1>7, <1>8, <1>9, <1>10

\* The stream of no channel changes.
LEMMA PipeStill ==
  ASSUME StreamInv, StreamInv', \A d \in Chan : SameChan(d), got' = got
  PROVE  [Pipe!Next]_(Pipe!pipeVars)
<1>1. PipeView /\ PipeView'
  BY InsideIs, InsideNext
<1>2. \A d \in Chan : est'[d] = est[d] /\ accepted'[d] = accepted[d] /\ sentTo'[d] = sentTo[d]
  BY DEF SameChan
<1>3. \A d \in Chan : Inside'[d] = Inside[d] /\ Broken'[d] = Broken[d]
  BY <1>1, <1>2, PipeType, PipeTypeNext DEF PipeView
<1>4. Inside' = Inside
  BY <1>3, PipeType, PipeTypeNext
<1>5. Broken' = Broken
  BY <1>3, PipeType, PipeTypeNext
<1>6. accepted' = accepted
  BY <1>2 DEF StreamInv, EncOK
<1> QED BY <1>4, <1>5, <1>6 DEF Pipe!pipeVars, Inside, Broken

\* The peer receives the next bytes; a control shows nothing.
LEMMA PipeDeliver ==
  ASSUME StreamInv, StreamInv', NEW c \in Chan, FlushInto(c)
  PROVE  [Pipe!Next]_(Pipe!pipeVars)
<1>1. PipeView /\ PipeView'
  BY InsideIs, InsideNext
<1>2. /\ \A d \in Chan \ {c} : got'[d] = got[d]
      /\ got[c] <= got'[c] /\ got'[c] <= sentTo[c]
      /\ est' = est /\ accepted' = accepted /\ sentTo' = sentTo
  BY DeliverStep DEF StreamInv
<1>3. \A d \in Chan \ {c} : Inside'[d] = Inside[d]
  BY <1>1, <1>2 DEF PipeView
<1>4. Inside' = [Inside EXCEPT ![c] = Inside'[c]]
  BY <1>3, PipeType, PipeTypeNext, OneChanged
<1>5. Broken' = Broken
  BY <1>2 DEF Broken
<1>6. got' = [got EXCEPT ![c] = got'[c]]
  BY <1>2 DEF StreamInv, EncOK
<1>7. CASE got'[c] > got[c]
  <2> DEFINE top == IF est[c] THEN accepted[c] ELSE sentTo[c]
  <2>0. /\ Inside[c] = got[c] .. top - 1 /\ Inside'[c] = got'[c] .. top - 1
        /\ got[c] \in Nat /\ got'[c] \in Nat /\ top \in Nat /\ got'[c] <= top
    BY <1>1, <1>2 DEF PipeView
  <2>1. /\ Inside'[c] = Inside[c] \ (got[c] .. got'[c] - 1)
        /\ (got[c] .. got'[c] - 1) \subseteq Inside[c]
    <3> HIDE DEF top
    <3> QED BY <1>7, <2>0
  <2>2. Inside' = [Inside EXCEPT ![c] = Inside[c] \ (got[c] .. got'[c] - 1)]
    BY <1>4, <2>1
  <2>3. Pipe!Get(c)
    BY <1>2, <1>5, <1>6, <1>7, <2>1, <2>2 DEF Pipe!Get, Pipe!Only, Pipe!Span, Inside, Broken
  <2> QED BY <2>3 DEF Pipe!Next
<1>8. CASE got'[c] = got[c]
  <2>1. Inside'[c] = Inside[c]
    BY <1>1, <1>2, <1>8 DEF PipeView
  <2>2. Inside' = Inside
    BY <2>1, <1>4, PipeType
  <2>3. got' = got
    BY <1>6, <1>8 DEF StreamInv, EncOK
  <2> QED BY <1>2, <1>5, <2>2, <2>3 DEF Pipe!pipeVars, Inside, Broken
<1>9. got[c] \in Nat /\ got'[c] \in Nat
  BY DEF StreamInv, EncOK
<1> QED BY <1>2, <1>7, <1>8, <1>9

LEMMA SessionClosed ==
  ASSUME StreamInv, NEW c \in Chan, SessionOp(c), ~est[c]
  PROVE  accepted' = accepted /\ sentTo' = sentTo
BY DEF SessionOp, SessionData, SessionEof, SessionClose, encVars

LEMMA PipeSession ==
  ASSUME StreamInv, StreamInv', NEW c \in Chan, SessionOp(c), UNCHANGED peerVars
  PROVE  [Pipe!Next]_(Pipe!pipeVars)
<1>1. got' = got /\ gotClose' = gotClose
  BY DEF peerVars
<1>2. StreamStep(c)
  BY <1>1, SessionStep DEF StreamInv
<1>3. ~est[c] => accepted' = accepted /\ sentTo' = sentTo
  BY SessionClosed
<1> QED BY <1>1, <1>2, <1>3, PipeOp

LEMMA PipeNext ==
  ASSUME StreamInv, [Next]_vars
  PROVE  [Pipe!Next]_(Pipe!pipeVars)
<1>0. StreamInv'
  BY StreamNext
<1>1. CASE UNCHANGED encVars /\ got' = got
  <2>1. \A d \in Chan : SameChan(d)
    BY <1>1 DEF SameChan, Out, encVars
  <2> QED BY <1>0, <1>1, <2>1, PipeStill
<1>2. CASE Task \/ Quiet
  <2>1. UNCHANGED encVars /\ UNCHANGED peerVars
    BY <1>2, StreamTask, StreamQuiet
  <2> QED BY <1>1, <2>1 DEF peerVars
<1>3. ASSUME NEW c \in Chan, PeerGrant(c) PROVE [Pipe!Next]_(Pipe!pipeVars)
  BY <1>1, <1>3, StreamGrant
<1>4. CASE UNCHANGED vars
  BY <1>1, <1>4 DEF vars, peerVars
<1>5. CASE DrainMsg \/ SelectMsg
  <2>1. dispatch_msg
    BY <1>5 DEF DrainMsg, SelectMsg
  <2>2. Head(inbox).chan \in Chan /\ SessionOp(Head(inbox).chan) /\ UNCHANGED peerVars
    BY <2>1, DispatchIsOp DEF StreamInv
  <2> QED BY <1>0, <2>2, PipeSession
<1>6. ASSUME NEW c \in Chan, CallbackOp(c) PROVE [Pipe!Next]_(Pipe!pipeVars)
  <2>1. SessionOp(c) /\ UNCHANGED peerVars
    BY <1>6, CallbackIsOp
  <2> QED BY <1>0, <2>1, PipeSession
<1>7. CASE DrainDone \/ KexDone \/ EndIteration
  <2>1. \A d \in Chan : SameChan(d)
    BY <1>7, StreamSeal
  <2>2. got' = got
    BY <1>7 DEF DrainDone, KexDone, EndIteration, peerVars
  <2> QED BY <1>0, <2>1, <2>2, PipeStill
<1>8. ASSUME NEW c \in Chan, RecvWindowAdjust(c) PROVE [Pipe!Next]_(Pipe!pipeVars)
  <2>1. got' = got /\ gotClose' = gotClose
    BY <1>8 DEF RecvWindowAdjust
  <2>2. CASE est[c]
    <3>1. FlushPending(c, rwin[c] + adj[c]) /\ rwin[c] + adj[c] \in Nat
      BY <1>8, <2>2 DEF RecvWindowAdjust, StreamInv, EncOK, PeerOK
    <3>2. StreamStep(c)
      BY <2>1, <2>2, <3>1, FlushStep DEF StreamInv
    <3> QED BY <1>0, <2>1, <2>2, <3>2, PipeOp
  <2>3. CASE ~est[c]
    <3>1. UNCHANGED encVars
      BY <1>8, <2>3 DEF RecvWindowAdjust
    <3> QED BY <1>1, <2>1, <3>1
  <2> QED BY <2>2, <2>3
<1>9. ASSUME NEW c \in Chan, FlushAll(c) PROVE [Pipe!Next]_(Pipe!pipeVars)
  <2>1. /\ got' = got /\ gotClose' = gotClose /\ FlushPending(c, rwin[c]) /\ c \in todo
        /\ phase = "flushall"
    BY <1>9 DEF FlushAll, peerVars
  <2>2. est[c] /\ rwin[c] \in Nat
    BY <2>1 DEF StreamInv, TodoOK, EncOK
  <2>3. StreamStep(c)
    BY <2>1, <2>2, FlushStep DEF StreamInv
  <2> QED BY <1>0, <2>1, <2>2, <2>3, PipeOp
<1>10. ASSUME NEW c \in Chan, RecvClose(c) PROVE [Pipe!Next]_(Pipe!pipeVars)
  <2>1. StreamStep(c) /\ est[c]
    BY <1>10, RecvCloseStep
  <2>2. got' = got
    BY <1>10 DEF RecvClose, peerVars
  <2> QED BY <1>0, <2>1, <2>2, PipeOp
<1>11. ASSUME NEW c \in Chan, FlushInto(c) PROVE [Pipe!Next]_(Pipe!pipeVars)
  BY <1>0, <1>11, PipeDeliver
<1> QED BY <1>2, <1>3, <1>4, <1>5, <1>6, <1>7, <1>8, <1>9, <1>10, <1>11 DEF Next, Loop, Quiet

LEMMA PipeInit == Init => Pipe!Init
<1> SUFFICES ASSUME Init PROVE Pipe!Init
  OBVIOUS
<1>1. PipeView
  BY StreamInit, InsideIs
<1>2. \A c \in Chan : est[c]
  BY DEF Init
<1>3. ASSUME NEW c \in Chan
      PROVE  got[c] <= accepted[c] /\ ~Broken[c] /\ Inside[c] = got[c] .. accepted[c] - 1
  <2>1. est[c] /\ ~Broken[c]
    BY <1>2 DEF Broken
  <2>2. /\ Inside[c] = got[c] .. accepted[c] - 1 /\ got[c] \in Nat /\ accepted[c] \in Nat
        /\ sentTo[c] \in Nat /\ got[c] <= sentTo[c] /\ sentTo[c] <= accepted[c]
    BY <1>1, <2>1 DEF PipeView
  <2>3. got[c] <= accepted[c]
    BY <2>2
  <2> QED BY <2>1, <2>2, <2>3
<1> QED BY <1>3 DEF Pipe!Init, Pipe!Span, Inside, Broken

\* Encrypted, the parking, the flushes and the closes implement a byte pipe per
\* channel: every step of the session puts bytes in at the end, takes the next
\* ones out, breaks the channel (what is inside is then cut off at one point) or
\* does not show.
THEOREM ImplementsBytePipe == Spec => OutPipe
<1>1. StreamInv /\ [Next]_vars => [Pipe!Next]_(Pipe!pipeVars)
  BY PipeNext
<1> QED BY PipeInit, StreamAlways, <1>1, PTL DEF Spec, OutPipe, Pipe!Spec
=============================================================================
