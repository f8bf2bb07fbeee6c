---------------------------- MODULE FramerProofs ----------------------------
(* Proofs about Framer, for any payloads, fragments and limits.              *)
EXTENDS Framer, FiniteSetTheorems, SequenceTheorems, WellFoundedInduction, TLAPS

-----------------------------------------------------------------------------
(* Induction over the natural numbers, on sets of them.                      *)

LEMMA Induction ==
    ASSUME NEW S, 0 \in S, NEW N \in Nat, \A n \in 0..(N - 1) : n \in S => n + 1 \in S
    PROVE  0..N \subseteq S
<1> DEFINE T == {n \in 0..N : n \notin S}
           R == OpToRel(<, Nat)
<1> SUFFICES ASSUME T # {} PROVE FALSE
  OBVIOUS
<1>1. IsWellFoundedOn(R, Nat)
  BY NatLessThanWellFounded
<1>2. \A x, y \in Nat : x < y => <<x, y>> \in R
  BY DEF OpToRel
<1>3. T \in SUBSET Nat
  OBVIOUS
<1> HIDE DEF R
<1>4. PICK x \in T : \A y \in T : ~(<<y, x>> \in R)
  BY <1>1, <1>3, WFMin
<1>5. x \in 1..N /\ x \notin S
  OBVIOUS
<1>6. x - 1 \notin T
  <2>1. x - 1 \in Nat /\ x \in Nat /\ x - 1 < x
    BY <1>5
  <2>2. <<x - 1, x>> \in R
    BY <1>2, <2>1
  <2> QED BY <1>4, <2>2
<1>7. x - 1 \in S
  BY <1>5, <1>6
<1>8. x - 1 \in 0..(N - 1)
  BY <1>5
<1>9. x - 1 + 1 \in S
  BY <1>7, <1>8
<1> QED BY <1>5, <1>9

-----------------------------------------------------------------------------
(* Sequences.                                                                *)

LEMMA Joined ==
    ASSUME NEW S, NEW s \in Seq(S), NEW t \in Seq(S)
    PROVE  /\ s \o t \in Seq(S) /\ Len(s) \in Nat /\ Len(t) \in Nat
           /\ Len(s \o t) = Len(s) + Len(t)
           /\ \A m \in 1..Len(s) : (s \o t)[m] = s[m]
           /\ \A m \in 1..Len(t) : (s \o t)[Len(s) + m] = t[m]
<1>1. /\ s \o t \in Seq(S) /\ Len(s \o t) = Len(s) + Len(t)
      /\ \A i \in 1..(Len(s) + Len(t)) :
            (s \o t)[i] = IF i <= Len(s) THEN s[i] ELSE t[i - Len(s)]
  BY ConcatProperties
<1>2. Len(s) \in Nat /\ Len(t) \in Nat
  BY LenProperties
<1>3. ASSUME NEW m \in 1..Len(s) PROVE (s \o t)[m] = s[m]
  <2>1. m \in 1..(Len(s) + Len(t)) /\ m <= Len(s)
    BY <1>2
  <2> QED BY <1>1, <2>1
<1>4. ASSUME NEW m \in 1..Len(t) PROVE (s \o t)[Len(s) + m] = t[m]
  <2>1. /\ Len(s) + m \in 1..(Len(s) + Len(t)) /\ ~(Len(s) + m <= Len(s))
        /\ Len(s) + m - Len(s) = m
    BY <1>2
  <2> QED BY <1>1, <2>1
<1> QED BY <1>1, <1>2, <1>3, <1>4

\* The elements after the first a, up to the b-th.
LEMMA Part ==
    ASSUME NEW S, NEW s \in Seq(S), NEW a \in Nat, NEW b \in Nat, a <= b, b <= Len(s)
    PROVE  /\ SubSeq(s, a + 1, b) \in Seq(S) /\ Len(SubSeq(s, a + 1, b)) = b - a
           /\ b - a \in Nat
           /\ \A m \in 1..(b - a) : SubSeq(s, a + 1, b)[m] = s[a + m]
<1>1. Len(s) \in Nat /\ \A i \in 1..Len(s) : s[i] \in S
  BY LenProperties
<1>2. a + 1 \in Int /\ b \in Int /\ \A i \in (a + 1)..b : s[i] \in S
  BY <1>1
<1>3. /\ SubSeq(s, a + 1, b) \in Seq(S)
      /\ Len(SubSeq(s, a + 1, b)) = IF a + 1 <= b THEN b - (a + 1) + 1 ELSE 0
      /\ \A i \in 1..(b - (a + 1) + 1) : SubSeq(s, a + 1, b)[i] = s[a + 1 + i - 1]
  BY <1>2, SubSeqProperties
<1>4. b - (a + 1) + 1 = b - a /\ (a + 1 <= b \/ b - a = 0) /\ b - a \in Nat
  OBVIOUS
<1>5. ASSUME NEW m \in 1..(b - a) PROVE SubSeq(s, a + 1, b)[m] = s[a + m]
  <2>1. a + 1 + m - 1 = a + m
    OBVIOUS
  <2> QED BY <1>3, <1>4, <2>1
<1> QED BY <1>3, <1>4, <1>5

\* Equal sequences.
LEMMA Same ==
    ASSUME NEW S, NEW s \in Seq(S), NEW t \in Seq(S), Len(s) = Len(t),
           \A m \in 1..Len(s) : s[m] = t[m]
    PROVE  s = t
BY SeqEqual

-----------------------------------------------------------------------------
(* Push is the run of PushByte over the bytes of a fragment.                 *)

IsRun(after, b, f) ==
    after = [i \in 0..Len(f) |-> IF i = 0 THEN Idle(b) ELSE PushByte(after[i - 1], f[i])]

LEMMA RunExists ==
    ASSUME NEW b, NEW f, Len(f) \in Nat
    PROVE  \E after : IsRun(after, b, f)
<1> DEFINE Upto(m, a) == a = [i \in 0..m |-> IF i = 0 THEN Idle(b) ELSE PushByte(a[i - 1], f[i])]
           S == {m \in Nat : \E a : Upto(m, a)}
<1>1. 0 \in S
  <2>1. Upto(0, [i \in 0..0 |-> Idle(b)])
    OBVIOUS
  <2> QED BY <2>1
<1>2. ASSUME NEW m \in 0..(Len(f) - 1), m \in S PROVE m + 1 \in S
  <2>1. PICK a : Upto(m, a)
    BY <1>2
  <2> DEFINE c == [i \in 0..(m + 1) |-> IF i <= m THEN a[i] ELSE PushByte(a[m], f[m + 1])]
  <2>2. ASSUME NEW i \in 0..(m + 1)
        PROVE  c[i] = IF i = 0 THEN Idle(b) ELSE PushByte(c[i - 1], f[i])
    <3>1. CASE i = 0
      BY <2>1, <3>1
    <3>2. CASE i \in 1..m
      <4>1. c[i] = a[i] /\ c[i - 1] = a[i - 1]
        BY <3>2
      <4>2. a[i] = PushByte(a[i - 1], f[i])
        BY <2>1, <3>2
      <4> QED BY <3>2, <4>1, <4>2
    <3>3. CASE i = m + 1
      <4>1. c[i] = PushByte(a[m], f[m + 1]) /\ c[m] = a[m]
        BY <3>3
      <4> QED BY <3>3, <4>1
    <3> QED BY <3>1, <3>2, <3>3
  <2> HIDE DEF c
  <2>3. Upto(m + 1, c)
    BY <2>2 DEF c
  <2> QED BY <2>3
<1> HIDE DEF S
<1>3. 0..Len(f) \subseteq S
  BY <1>1, <1>2, Induction
<1>4. Len(f) \in S
  BY <1>3
<1> QED BY <1>4 DEF S, IsRun

LEMMA PushRuns ==
    ASSUME NEW b, NEW f, Len(f) \in Nat
    PROVE  \E after : IsRun(after, b, f) /\ Push(b, f) = after[Len(f)]
<1> DEFINE after == CHOOSE a : IsRun(a, b, f)
<1>1. IsRun(after, b, f)
  BY RunExists
<1>2. Push(b, f) = after[Len(f)]
  BY DEF Push, IsRun
<1> QED BY <1>1, <1>2

-----------------------------------------------------------------------------
(* A stream and the frames in it.                                            *)

Byte == 0..255

\* The bytes of s are those of the frames of q, one after the other; frame k ends
\* at g[k].
Cut(q, s, g) ==
    /\ g \in [0..Len(q) -> Nat] /\ g[0] = 0
    /\ s \in Seq(Byte) /\ Len(s) = g[Len(q)]
    /\ \A k \in 0..(Len(q) - 1) : /\ g[k + 1] = g[k] + Len(q[k + 1])
                                  /\ \A j \in 1..Len(q[k + 1]) : s[g[k] + j] = q[k + 1][j]

LEMMA CutTypes ==
    ASSUME NEW q \in Seq(Seq(Byte)), NEW s, NEW g, Cut(q, s, g)
    PROVE  /\ Len(q) \in Nat /\ \A k \in 0..Len(q) : g[k] \in Nat
           /\ g[0] = 0 /\ s \in Seq(Byte) /\ Len(s) \in Nat /\ Len(s) = g[Len(q)]
<1>1. Len(q) \in Nat
  OBVIOUS
<1>2. g \in [0..Len(q) -> Nat] /\ g[0] = 0 /\ s \in Seq(Byte) /\ Len(s) = g[Len(q)]
  BY DEF Cut
<1>3. \A k \in 0..Len(q) : g[k] \in Nat
  BY <1>2
<1>4. Len(s) \in Nat
  BY <1>2
<1> QED BY <1>1, <1>2, <1>3, <1>4

LEMMA CutStep ==
    ASSUME NEW q \in Seq(Seq(Byte)), NEW s, NEW g, Cut(q, s, g), NEW k \in 0..(Len(q) - 1)
    PROVE  /\ k \in 0..Len(q) /\ k + 1 \in 0..Len(q) /\ k + 1 \in 1..Len(q)
           /\ q[k + 1] \in Seq(Byte) /\ Len(q[k + 1]) \in Nat
           /\ g[k] \in Nat /\ g[k + 1] \in Nat /\ g[k + 1] = g[k] + Len(q[k + 1])
           /\ \A j \in 1..Len(q[k + 1]) : s[g[k] + j] = q[k + 1][j]
<1>1. Len(q) \in Nat /\ \A i \in 0..Len(q) : g[i] \in Nat
  BY CutTypes
<1>2. k \in 0..Len(q) /\ k + 1 \in 0..Len(q) /\ k + 1 \in 1..Len(q)
  BY <1>1
<1>3. q[k + 1] \in Seq(Byte)
  BY <1>2
<1>4. Len(q[k + 1]) \in Nat
  BY <1>3
<1>5. g[k] \in Nat /\ g[k + 1] \in Nat
  BY <1>1, <1>2
<1>6. /\ g[k + 1] = g[k] + Len(q[k + 1])
      /\ \A j \in 1..Len(q[k + 1]) : s[g[k] + j] = q[k + 1][j]
  BY DEF Cut
<1> QED BY <1>2, <1>3, <1>4, <1>5, <1>6

LEMMA CutNothing == Cut(<<>>, <<>>, [k \in 0..0 |-> 0])
BY DEF Cut

\* The ends are in order ...
LEMMA CutOrder ==
    ASSUME NEW q \in Seq(Seq(Byte)), NEW s, NEW g, Cut(q, s, g)
    PROVE  \A i, j \in 0..Len(q) : i <= j => g[i] <= g[j]
<1> SUFFICES ASSUME NEW i \in 0..Len(q) PROVE \A j \in 0..Len(q) : i <= j => g[i] <= g[j]
  OBVIOUS
<1> DEFINE S == {j \in 0..Len(q) : i <= j => g[i] <= g[j]}
<1>0. Len(q) \in Nat /\ \A k \in 0..Len(q) : g[k] \in Nat
  BY CutTypes
<1>1. 0 \in S
  BY <1>0
<1>2. ASSUME NEW n \in 0..(Len(q) - 1), n \in S PROVE n + 1 \in S
  <2>1. /\ n + 1 \in 0..Len(q) /\ g[n] \in Nat /\ g[n + 1] \in Nat /\ g[i] \in Nat
        /\ g[n + 1] = g[n] + Len(q[n + 1]) /\ Len(q[n + 1]) \in Nat
    BY <1>0, CutStep
  <2>2. g[n] <= g[n + 1]
    BY <2>1
  <2>3. CASE i <= n
    BY <1>2, <2>1, <2>2, <2>3
  <2>4. CASE i = n + 1
    BY <2>1, <2>4
  <2>5. CASE i > n + 1
    BY <2>1, <2>5
  <2> QED BY <2>1, <2>3, <2>4, <2>5
<1> HIDE DEF S
<1>3. 0..Len(q) \subseteq S
  BY <1>0, <1>1, <1>2, Induction
<1> QED BY <1>3 DEF S

\* ... and every byte is between two of them.
LEMMA CutCovers ==
    ASSUME NEW q \in Seq(Seq(Byte)), NEW s, NEW g, Cut(q, s, g), NEW m \in 1..Len(s)
    PROVE  \E k \in 0..(Len(q) - 1) : m \in (g[k] + 1)..g[k + 1]
<1> DEFINE S == {k \in 0..Len(q) : m <= g[k] => \E i \in 0..(k - 1) : m \in (g[i] + 1)..g[i + 1]}
<1>0. /\ Len(q) \in Nat /\ \A k \in 0..Len(q) : g[k] \in Nat
      /\ g[0] = 0 /\ Len(s) = g[Len(q)] /\ Len(s) \in Nat
  BY CutTypes
<1>1. 0 \in S
  BY <1>0
<1>2. ASSUME NEW n \in 0..(Len(q) - 1), n \in S PROVE n + 1 \in S
  <2>0. n \in 0..(n + 1 - 1) /\ n + 1 \in 0..Len(q) /\ g[n] \in Nat /\ g[n + 1] \in Nat /\ m \in Nat
    BY <1>0
  <2>1. CASE m <= g[n]
    <3>1. PICK i \in 0..(n - 1) : m \in (g[i] + 1)..g[i + 1]
      BY <1>2, <2>1
    <3>2. i \in 0..(n + 1 - 1)
      OBVIOUS
    <3> QED BY <2>0, <3>1, <3>2
  <2>2. CASE ~(m <= g[n])
    <3>1. ASSUME m <= g[n + 1] PROVE m \in (g[n] + 1)..g[n + 1]
      BY <2>0, <2>2, <3>1
    <3> QED BY <2>0, <3>1
  <2> QED BY <2>1, <2>2
<1> HIDE DEF S
<1>3. 0..Len(q) \subseteq S
  BY <1>0, <1>1, <1>2, Induction
<1>4. Len(q) \in S
  BY <1>0, <1>3
<1>5. m <= g[Len(q)]
  BY <1>0
<1> QED BY <1>4, <1>5 DEF S

\* The frames determine the ends and the bytes.
LEMMA CutUnique ==
    ASSUME NEW q \in Seq(Seq(Byte)), NEW s, NEW g, Cut(q, s, g), NEW t, NEW h, Cut(q, t, h)
    PROVE  s = t /\ g = h
<1>0. Len(q) \in Nat
  OBVIOUS
<1>1. g = h
  <2> DEFINE S == {k \in 0..Len(q) : g[k] = h[k]}
  <2>1. 0 \in S
    BY <1>0, CutTypes
  <2>2. ASSUME NEW n \in 0..(Len(q) - 1), n \in S PROVE n + 1 \in S
    <3>1. n + 1 \in 0..Len(q) /\ g[n + 1] = g[n] + Len(q[n + 1]) /\ h[n + 1] = h[n] + Len(q[n + 1])
      BY CutStep
    <3> QED BY <2>2, <3>1
  <2> HIDE DEF S
  <2>3. 0..Len(q) \subseteq S
    BY <1>0, <2>1, <2>2, Induction
  <2>4. \A k \in 0..Len(q) : g[k] = h[k]
    BY <2>3 DEF S
  <2>5. g \in [0..Len(q) -> Nat] /\ h \in [0..Len(q) -> Nat]
    BY DEF Cut
  <2> QED BY <2>4, <2>5
<1>2. s \in Seq(Byte) /\ t \in Seq(Byte) /\ Len(s) = Len(t)
  BY <1>1, CutTypes
<1>3. ASSUME NEW m \in 1..Len(s) PROVE s[m] = t[m]
  <2>1. PICK k \in 0..(Len(q) - 1) : m \in (g[k] + 1)..g[k + 1]
    BY CutCovers
  <2>2. /\ g[k] \in Nat /\ Len(q[k + 1]) \in Nat /\ g[k + 1] = g[k] + Len(q[k + 1])
        /\ \A j \in 1..Len(q[k + 1]) : s[g[k] + j] = q[k + 1][j]
        /\ \A j \in 1..Len(q[k + 1]) : t[h[k] + j] = q[k + 1][j]
    BY CutStep
  <2>3. m - g[k] \in 1..Len(q[k + 1]) /\ g[k] + (m - g[k]) = m
    BY <2>1, <2>2, SMTT(30)
  <2> QED BY <1>1, <2>2, <2>3
<1> QED BY <1>1, <1>2, <1>3

LEMMA PartFrames ==
    ASSUME NEW q \in Seq(Seq(Byte)), NEW a \in Nat, NEW b \in Nat, a <= b, b <= Len(q)
    PROVE  /\ SubSeq(q, a + 1, b) \in Seq(Seq(Byte)) /\ Len(SubSeq(q, a + 1, b)) = b - a
           /\ b - a \in Nat
           /\ \A m \in 1..(b - a) : SubSeq(q, a + 1, b)[m] = q[a + m]
<1>1. PICK S : S = Seq(Byte)
  OBVIOUS
<1>2. /\ SubSeq(q, a + 1, b) \in Seq(S) /\ Len(SubSeq(q, a + 1, b)) = b - a
      /\ b - a \in Nat
      /\ \A m \in 1..(b - a) : SubSeq(q, a + 1, b)[m] = q[a + m]
  <2>1. q \in Seq(S)
    BY <1>1
  <2> QED BY <2>1, Part
<1> QED BY <1>1, <1>2

LEMMA JoinedBytes ==
    ASSUME NEW s \in Seq(Byte), NEW t \in Seq(Byte)
    PROVE  /\ s \o t \in Seq(Byte) /\ Len(s) \in Nat /\ Len(t) \in Nat
           /\ Len(s \o t) = Len(s) + Len(t)
           /\ \A m \in 1..Len(s) : (s \o t)[m] = s[m]
           /\ \A m \in 1..Len(t) : (s \o t)[Len(s) + m] = t[m]
BY Joined

LEMMA Within ==
    ASSUME NEW a \in Nat, NEW l \in Nat, NEW b \in Nat, a + l <= b, NEW j \in 1..l
    PROVE  a + j \in 1..b
OBVIOUS

\* Another frame is sent.
LEMMA CutAppend ==
    ASSUME NEW q \in Seq(Seq(Byte)), NEW s, NEW g, Cut(q, s, g), NEW f \in Seq(Byte)
    PROVE  \E h : Cut(Append(q, f), s \o f, h) /\ \A k \in 0..Len(q) : h[k] = g[k]
<1>0. /\ Len(q) \in Nat /\ \A k \in 0..Len(q) : g[k] \in Nat
      /\ g[0] = 0 /\ s \in Seq(Byte) /\ Len(s) = g[Len(q)] /\ Len(s) \in Nat
  BY CutTypes
<1>O. \A i, j \in 0..Len(q) : i <= j => g[i] <= g[j]
  BY CutOrder
<1>2. /\ Len(Append(q, f)) = Len(q) + 1 /\ Append(q, f)[Len(q) + 1] = f
      /\ \A k \in 1..Len(q) : Append(q, f)[k] = q[k]
  BY AppendProperties
<1>3. /\ s \o f \in Seq(Byte) /\ Len(s \o f) = Len(s) + Len(f) /\ Len(f) \in Nat
      /\ \A m \in 1..Len(s) : (s \o f)[m] = s[m]
      /\ \A m \in 1..Len(f) : (s \o f)[Len(s) + m] = f[m]
  BY <1>0, JoinedBytes
<1>N. PICK N \in Nat : N = Len(q)
  BY <1>0
<1>r. PICK r : r = Append(q, f)
  OBVIOUS
<1>t. PICK t : t = s \o f
  OBVIOUS
<1> DEFINE h == [k \in 0..(N + 1) |-> IF k <= N THEN g[k] ELSE g[N] + Len(f)]
<1>4. (\A k \in 0..N : h[k] = g[k]) /\ h[N + 1] = g[N] + Len(f)
  OBVIOUS
<1>5. h \in [0..(N + 1) -> Nat]
  <2>1. g[N] \in Nat /\ g[N] + Len(f) \in Nat
    BY <1>0, <1>3, <1>N
  <2>2. \A k \in 0..(N + 1) : k <= N => g[k] \in Nat
    BY <1>0, <1>N
  <2> QED BY <2>1, <2>2
<1> HIDE DEF h
<1>6. ASSUME NEW k \in 0..N
      PROVE  /\ h[k + 1] = h[k] + Len(r[k + 1])
             /\ \A j \in 1..Len(r[k + 1]) : t[h[k] + j] = r[k + 1][j]
  <2>1. CASE k \in 0..(N - 1)
    <3>0. k \in 0..(Len(q) - 1)
      BY <2>1, <1>N
    <3>1. /\ k + 1 \in 0..N /\ k + 1 \in 1..N /\ g[k] \in Nat /\ g[k + 1] \in Nat
          /\ Len(q[k + 1]) \in Nat /\ g[k + 1] = g[k] + Len(q[k + 1])
          /\ \A j \in 1..Len(q[k + 1]) : s[g[k] + j] = q[k + 1][j]
      <4>1. /\ k + 1 \in 0..Len(q) /\ k + 1 \in 1..Len(q) /\ g[k] \in Nat /\ g[k + 1] \in Nat
            /\ Len(q[k + 1]) \in Nat /\ g[k + 1] = g[k] + Len(q[k + 1])
        BY <3>0, CutStep
      <4>2. \A j \in 1..Len(q[k + 1]) : s[g[k] + j] = q[k + 1][j]
        BY <3>0 DEF Cut
      <4> QED BY <4>1, <4>2, <1>N
    <3>2. g[k] + Len(q[k + 1]) <= Len(s)
      <4>2. N \in 0..N /\ k + 1 <= N
        BY <3>1
      <4>3. g[k + 1] <= g[N]
        BY <3>1, <1>O, <4>2, <1>N
      <4> QED BY <1>0, <1>N, <3>1, <4>3
    <3>3. r[k + 1] = q[k + 1] /\ h[k] = g[k] /\ h[k + 1] = g[k + 1]
      BY <1>2, <1>4, <1>r, <1>N, <3>1
    <3>4. ASSUME NEW j \in 1..Len(q[k + 1]) PROVE t[g[k] + j] = q[k + 1][j]
      <4>1. g[k] + j \in 1..Len(s)
        BY <1>0, <3>1, <3>2, Within
      <4> QED BY <1>3, <1>t, <3>1, <4>1
    <3> QED BY <3>1, <3>3, <3>4
  <2>2. CASE k = N
    <3>1. r[k + 1] = f /\ h[k] = g[N] /\ h[k + 1] = g[N] + Len(f)
      BY <1>2, <1>4, <1>r, <1>N, <2>2
    <3> QED BY <1>0, <1>3, <1>t, <1>N, <3>1
  <2>3. k \in 0..(N - 1) \/ k = N
    OBVIOUS
  <2> QED BY <2>1, <2>2, <2>3
<1>7. h[0] = 0
  BY <1>0, <1>4
<1>8. Cut(r, t, h)
  <2>1. Len(r) = N + 1 /\ Len(r) - 1 = N
    BY <1>2, <1>r, <1>N
  <2>2. t \in Seq(Byte) /\ Len(t) = h[N + 1]
    BY <1>0, <1>3, <1>4, <1>t, <1>N
  <2> QED BY <1>5, <1>6, <1>7, <2>1, <2>2 DEF Cut
<1> QED BY <1>4, <1>8, <1>N, <1>r, <1>t

\* What is left after the first n frames.
LEMMA CutDrop ==
    ASSUME NEW q \in Seq(Seq(Byte)), NEW s, NEW g, Cut(q, s, g), NEW n \in 0..Len(q)
    PROVE  \E h : Cut(SubSeq(q, n + 1, Len(q)), SubSeq(s, g[n] + 1, Len(s)), h)
<1>0. /\ Len(q) \in Nat /\ \A k \in 0..Len(q) : g[k] \in Nat
      /\ s \in Seq(Byte) /\ Len(s) = g[Len(q)] /\ Len(s) \in Nat
  BY CutTypes
<1>O. \A i, j \in 0..Len(q) : i <= j => g[i] <= g[j]
  BY CutOrder
<1>N. PICK N \in Nat : N = Len(q)
  BY <1>0
<1>e. PICK e \in Nat : e = g[n]
  BY <1>0
<1>L. PICK L \in Nat : n + L = N /\ L = N - n
  <2>1. N - n \in Nat /\ n + (N - n) = N
    BY <1>N
  <2> QED BY <2>1
<1>1. n \in 0..N /\ n \in Nat /\ n <= N /\ N \in 0..N
  BY <1>N
<1>5. e <= Len(s)
  BY <1>0, <1>O, <1>N, <1>e, <1>1
<1>3. /\ SubSeq(q, n + 1, N) \in Seq(Seq(Byte)) /\ Len(SubSeq(q, n + 1, N)) = L
      /\ \A k \in 1..L : SubSeq(q, n + 1, N)[k] = q[n + k]
  <2>1. /\ SubSeq(q, n + 1, N) \in Seq(Seq(Byte)) /\ Len(SubSeq(q, n + 1, N)) = N - n
        /\ \A k \in 1..(N - n) : SubSeq(q, n + 1, N)[k] = q[n + k]
    <3>1. N <= Len(q)
      BY <1>N
    <3> QED BY <1>1, <3>1, PartFrames
  <2> QED BY <1>L, <2>1
<1>6. /\ SubSeq(s, e + 1, Len(s)) \in Seq(Byte) /\ Len(SubSeq(s, e + 1, Len(s))) = Len(s) - e
      /\ \A m \in 1..(Len(s) - e) : SubSeq(s, e + 1, Len(s))[m] = s[e + m]
  BY <1>0, <1>5, Part
<1>r. PICK r : r = SubSeq(q, n + 1, N)
  OBVIOUS
<1>t. PICK t : t = SubSeq(s, e + 1, Len(s))
  OBVIOUS
<1> DEFINE h == [k \in 0..L |-> g[n + k] - e]
<1>9. \A k \in 0..L : h[k] = g[n + k] - e
  OBVIOUS
<1>7. ASSUME NEW k \in 0..L PROVE n + k \in 0..N /\ g[n + k] \in Nat /\ e <= g[n + k]
  <2>1. n + k \in 0..N /\ n <= n + k
    BY <1>1, <1>L
  <2> QED BY <1>0, <1>O, <1>1, <1>N, <1>e, <2>1
<1>10. h \in [0..L -> Nat]
  <2>1. ASSUME NEW k \in 0..L PROVE g[n + k] - e \in Nat
    <3>1. g[n + k] \in Nat /\ e <= g[n + k]
      BY <1>7
    <3> QED BY <3>1
  <2> QED BY <2>1
<1> HIDE DEF h
<1>11. h[0] = 0 /\ h[L] = Len(s) - e
  <2>1. 0 \in 0..L /\ L \in 0..L /\ n + 0 = n
    BY <1>1
  <2>2. h[0] = g[n] - e /\ h[L] = g[N] - e
    BY <1>9, <1>L, <2>1
  <2> QED BY <1>0, <1>N, <1>e, <2>2
<1>12. ASSUME NEW k \in 0..(L - 1)
       PROVE  /\ h[k + 1] = h[k] + Len(r[k + 1])
              /\ \A j \in 1..Len(r[k + 1]) : t[h[k] + j] = r[k + 1][j]
  <2>i. PICK i \in 0..(N - 1) : i = n + k /\ i + 1 = n + (k + 1)
    BY <1>1, <1>L
  <2>1. k \in 0..L /\ k + 1 \in 0..L /\ k + 1 \in 1..L
    OBVIOUS
  <2>2. /\ i + 1 \in 0..N /\ g[i] \in Nat /\ g[i + 1] \in Nat /\ Len(q[i + 1]) \in Nat
        /\ g[i + 1] = g[i] + Len(q[i + 1])
        /\ \A j \in 1..Len(q[i + 1]) : s[g[i] + j] = q[i + 1][j]
    <3>1. i \in 0..(Len(q) - 1)
      BY <1>N
    <3>2. /\ i + 1 \in 0..Len(q) /\ g[i] \in Nat /\ g[i + 1] \in Nat /\ Len(q[i + 1]) \in Nat
          /\ g[i + 1] = g[i] + Len(q[i + 1])
      BY <3>1, CutStep
    <3>3. \A j \in 1..Len(q[i + 1]) : s[g[i] + j] = q[i + 1][j]
      BY <3>1 DEF Cut
    <3> QED BY <3>2, <3>3, <1>N
  <2>3. r[k + 1] = q[i + 1] /\ h[k] = g[i] - e /\ h[k + 1] = g[i + 1] - e
    BY <1>3, <1>r, <1>9, <2>1, <2>i
  <2>4. e <= g[i]
    BY <1>7, <2>1, <2>i
  <2>5. g[i + 1] <= Len(s)
    <3>1. i + 1 <= N
      OBVIOUS
    <3> QED BY <1>0, <1>O, <1>1, <1>N, <2>2, <3>1
  <2>a. PICK a \in Nat : a = g[i]
    BY <2>2
  <2>l. PICK l \in Nat : l = Len(q[i + 1])
    BY <2>2
  <2>b. PICK b \in Nat : b = Len(s)
    BY <1>0
  <2>6. a + l <= b /\ e <= a
    BY <2>2, <2>4, <2>5, <2>a, <2>l, <2>b
  <2>7. ASSUME NEW j \in 1..Len(q[i + 1]) PROVE t[h[k] + j] = q[i + 1][j]
    <3>0. j \in 1..l
      BY <2>l
    <3>1. (a - e) + j \in 1..(b - e) /\ e + ((a - e) + j) = a + j
      BY <2>6, <3>0
    <3>2. t[(a - e) + j] = s[e + ((a - e) + j)]
      BY <1>6, <1>t, <2>b, <3>1
    <3>3. s[a + j] = q[i + 1][j]
      BY <2>2, <2>a
    <3>4. h[k] = a - e
      BY <2>3, <2>a
    <3> QED BY <3>1, <3>2, <3>3, <3>4
  <2>8. h[k + 1] = h[k] + Len(q[i + 1])
    BY <2>2, <2>3, SMTT(30)
  <2> QED BY <2>3, <2>7, <2>8
<1>13. Cut(r, t, h)
  <2>1. Len(r) = L /\ t \in Seq(Byte) /\ Len(t) = h[L]
    BY <1>3, <1>r, <1>6, <1>t, <1>11
  <2> QED BY <1>10, <1>11, <1>12, <2>1 DEF Cut
<1> QED BY <1>13, <1>r, <1>t, <1>N, <1>e

\* The first b elements.
LEMMA Beginning ==
    ASSUME NEW S, NEW s \in Seq(S), NEW b \in 0..Len(s)
    PROVE  /\ SubSeq(s, 1, b) \in Seq(S) /\ Len(SubSeq(s, 1, b)) = b
           /\ \A m \in 1..b : SubSeq(s, 1, b)[m] = s[m]
<1>1. Len(s) \in Nat /\ \A i \in 1..Len(s) : s[i] \in S
  BY LenProperties
<1>2. \A i \in 1..b : s[i] \in S
  BY <1>1
<1>3. /\ SubSeq(s, 1, b) \in Seq(S) /\ Len(SubSeq(s, 1, b)) = IF 1 <= b THEN b - 1 + 1 ELSE 0
      /\ \A i \in 1..(b - 1 + 1) : SubSeq(s, 1, b)[i] = s[1 + i - 1]
  BY <1>2, SubSeqProperties
<1>4. ASSUME NEW m \in 1..b PROVE SubSeq(s, 1, b)[m] = s[m]
  <2>1. m \in 1..(b - 1 + 1) /\ 1 + m - 1 = m
    OBVIOUS
  <2> QED BY <1>3, <2>1
<1> QED BY <1>1, <1>3, <1>4

LEMMA CutEnd ==
    ASSUME NEW q \in Seq(Seq(Byte)), NEW s, NEW g, Cut(q, s, g), NEW n \in 0..Len(q)
    PROVE  g[n] \in 0..Len(s)
<1>1. /\ Len(q) \in Nat /\ g[n] \in Nat /\ g[Len(q)] \in Nat /\ Len(s) = g[Len(q)] /\ Len(s) \in Nat
      /\ Len(q) \in 0..Len(q) /\ n <= Len(q)
  BY CutTypes
<1>2. g[n] <= g[Len(q)]
  BY <1>1, CutOrder
<1> QED BY <1>1, <1>2

\* The first n frames.
LEMMA CutTake ==
    ASSUME NEW q \in Seq(Seq(Byte)), NEW s, NEW g, Cut(q, s, g), NEW n \in 0..Len(q)
    PROVE  /\ Cut(SubSeq(q, 1, n), SubSeq(s, 1, g[n]), [k \in 0..n |-> g[k]])
           /\ SubSeq(q, 1, n) \in Seq(Seq(Byte))
<1>0. /\ Len(q) \in Nat /\ \A k \in 0..Len(q) : g[k] \in Nat
      /\ g[0] = 0 /\ s \in Seq(Byte) /\ Len(s) \in Nat
  BY CutTypes
<1>1. n \in Nat /\ \A k \in 0..n : k \in 0..Len(q)
  BY <1>0
<1>2. g[n] \in 0..Len(s)
  BY CutEnd
<1>3. /\ SubSeq(q, 1, n) \in Seq(Seq(Byte)) /\ Len(SubSeq(q, 1, n)) = n
      /\ \A m \in 1..n : SubSeq(q, 1, n)[m] = q[m]
  BY Beginning
<1>4. /\ SubSeq(s, 1, g[n]) \in Seq(Byte) /\ Len(SubSeq(s, 1, g[n])) = g[n]
      /\ \A m \in 1..g[n] : SubSeq(s, 1, g[n])[m] = s[m]
  BY <1>0, <1>2, Beginning
<1>h. PICK h : h = [k \in 0..n |-> g[k]]
  OBVIOUS
<1>r. PICK r : r = SubSeq(q, 1, n)
  OBVIOUS
<1>t. PICK t : t = SubSeq(s, 1, g[n])
  OBVIOUS
<1>5. h \in [0..n -> Nat] /\ \A k \in 0..n : h[k] = g[k]
  BY <1>0, <1>1, <1>h
<1>6. ASSUME NEW k \in 0..(n - 1)
      PROVE  /\ h[k + 1] = h[k] + Len(r[k + 1])
             /\ \A j \in 1..Len(r[k + 1]) : t[h[k] + j] = r[k + 1][j]
  <2>0. k \in 0..(Len(q) - 1) /\ k \in 0..n /\ k + 1 \in 0..n /\ k + 1 \in 1..n /\ k + 1 <= n
    BY <1>0, <1>1
  <2>1. /\ k + 1 \in 0..Len(q) /\ g[k] \in Nat /\ g[k + 1] \in Nat
        /\ Len(q[k + 1]) \in Nat /\ g[k + 1] = g[k] + Len(q[k + 1])
        /\ \A j \in 1..Len(q[k + 1]) : s[g[k] + j] = q[k + 1][j]
    BY <2>0, CutStep
  <2>2. g[k + 1] <= g[n] /\ g[n] \in Nat
    BY <1>0, <2>0, <2>1, CutOrder
  <2>3. r[k + 1] = q[k + 1] /\ h[k] = g[k] /\ h[k + 1] = g[k + 1]
    BY <1>3, <1>5, <1>r, <2>0
  <2>4. ASSUME NEW j \in 1..Len(q[k + 1]) PROVE t[g[k] + j] = q[k + 1][j]
    <3>0. g[k] + Len(q[k + 1]) <= g[n]
      BY <2>1, <2>2
    <3>1. g[k] + j \in 1..g[n]
      BY <2>1, <2>2, <3>0, Within
    <3> QED BY <1>4, <1>t, <2>1, <3>1
  <2> QED BY <2>1, <2>3, <2>4
<1>7. Cut(r, t, h)
  <2>1. Len(r) = n /\ t \in Seq(Byte) /\ Len(t) = h[n] /\ h[0] = 0
    BY <1>0, <1>1, <1>3, <1>4, <1>5, <1>r, <1>t
  <2> QED BY <1>5, <1>6, <2>1 DEF Cut
<1> QED BY <1>3, <1>7, <1>h, <1>r, <1>t

-----------------------------------------------------------------------------
(* FlattenSeq is the stream that is cut.                                     *)

IsFlat(fl, q) == fl = [i \in 1..Len(q) |-> IF i = 1 THEN q[i] ELSE fl[i - 1] \o q[i]]

LEMMA OneMore ==
    ASSUME NEW q \in Seq(Seq(Byte)), NEW s, NEW g, Cut(q, s, g), NEW k \in 0..(Len(q) - 1)
    PROVE  SubSeq(s, 1, g[k + 1]) = SubSeq(s, 1, g[k]) \o q[k + 1]
<1>0. k \in 0..Len(q) /\ k + 1 \in 0..Len(q) /\ q[k + 1] \in Seq(Byte)
  BY CutStep
<1>1. /\ Len(q[k + 1]) \in Nat
      /\ g[k] \in Nat /\ g[k + 1] \in Nat /\ g[k + 1] = g[k] + Len(q[k + 1])
  BY CutStep
<1>j. \A j \in 1..Len(q[k + 1]) : s[g[k] + j] = q[k + 1][j]
  BY DEF Cut
<1>2. s \in Seq(Byte) /\ g[k] \in 0..Len(s) /\ g[k + 1] \in 0..Len(s)
  BY <1>0, CutTypes, CutEnd
<1>a. PICK a \in Nat : a = g[k]
  BY <1>1
<1>b. PICK b \in Nat : b = g[k + 1]
  BY <1>1
<1>f. PICK f \in Seq(Byte) : f = q[k + 1]
  BY <1>0
<1>3. /\ SubSeq(s, 1, a) \in Seq(Byte) /\ Len(SubSeq(s, 1, a)) = a
      /\ \A m \in 1..a : SubSeq(s, 1, a)[m] = s[m]
  BY <1>2, <1>a, Beginning
<1>4. /\ SubSeq(s, 1, b) \in Seq(Byte) /\ Len(SubSeq(s, 1, b)) = b
      /\ \A m \in 1..b : SubSeq(s, 1, b)[m] = s[m]
  BY <1>2, <1>b, Beginning
<1>5. Len(f) \in Nat /\ b = a + Len(f) /\ \A j \in 1..Len(f) : s[a + j] = f[j]
  BY <1>1, <1>j, <1>a, <1>b, <1>f
<1>x. PICK x \in Seq(Byte) : x = SubSeq(s, 1, a)
  BY <1>3
<1>y. PICK y \in Seq(Byte) : y = SubSeq(s, 1, b)
  BY <1>4
<1>6. /\ x \o f \in Seq(Byte) /\ Len(x \o f) = Len(x) + Len(f)
      /\ \A m \in 1..Len(x) : (x \o f)[m] = x[m]
      /\ \A m \in 1..Len(f) : (x \o f)[Len(x) + m] = f[m]
  BY JoinedBytes
<1>7. Len(x) = a /\ Len(y) = b /\ Len(x \o f) = b
  BY <1>3, <1>4, <1>5, <1>6, <1>x, <1>y
<1>8. ASSUME NEW m \in 1..b PROVE y[m] = (x \o f)[m]
  <2>0. y[m] = s[m]
    BY <1>4, <1>y
  <2>1. CASE m \in 1..a
    BY <1>3, <1>x, <1>6, <1>7, <2>0, <2>1
  <2>2. CASE m > a
    <3>1. m - a \in 1..Len(f) /\ a + (m - a) = m
      BY <1>5, <2>2
    <3>2. s[m] = f[m - a] /\ (x \o f)[m] = f[m - a]
      BY <1>5, <1>6, <1>7, <3>1
    <3> QED BY <2>0, <3>2
  <2>3. m \in 1..a \/ m > a
    OBVIOUS
  <2> QED BY <2>1, <2>2, <2>3
<1>9. y = x \o f
  BY <1>6, <1>7, <1>8, Same
<1> QED BY <1>9, <1>x, <1>y, <1>a, <1>b, <1>f

LEMMA Flat ==
    ASSUME NEW q \in Seq(Seq(Byte)), NEW s, NEW g, Cut(q, s, g)
    PROVE  FlattenSeq(q) = s
<1>0. /\ Len(q) \in Nat /\ g[0] = 0 /\ s \in Seq(Byte) /\ Len(s) = g[Len(q)]
  BY CutTypes
<1>1. CASE Len(q) = 0
  <2>1. q = <<>> /\ s = <<>>
    BY <1>0, <1>1
  <2> QED BY <2>1 DEF FlattenSeq
<1>2. CASE Len(q) # 0
  <2> DEFINE F(i) == SubSeq(s, 1, g[i])
  <2>1. \A k \in 0..(Len(q) - 1) : F(k + 1) = F(k) \o q[k + 1]
    BY OneMore
  <2>2. F(1) = q[1]
    <3>1. F(0) = <<>>
      BY <1>0, SubSeqEmpty
    <3>2. 0 \in 0..(Len(q) - 1) /\ 0 + 1 = 1 /\ q[1] \in Seq(Byte)
      BY <1>0, <1>2
    <3>3. F(1) = F(0) \o q[1]
      BY <2>1, <3>2
    <3>4. <<>> \o q[1] = q[1]
      BY <3>2, ConcatEmptySeq
    <3> QED BY <3>1, <3>3, <3>4
  <2>n. F(Len(q)) = s
    BY <1>0, SubSeqFull
  <2> HIDE DEF F
  <2>3. ASSUME NEW i \in 1..Len(q), i # 1 PROVE F(i) = F(i - 1) \o q[i]
    <3>1. i - 1 \in 0..(Len(q) - 1) /\ i - 1 + 1 = i
      BY <1>0
    <3> QED BY <2>1, <3>1
  <2> DEFINE fl == [i \in 1..Len(q) |-> F(i)]
  <2>4. IsFlat(fl, q)
    <3>1. ASSUME NEW i \in 1..Len(q)
          PROVE  fl[i] = IF i = 1 THEN q[i] ELSE fl[i - 1] \o q[i]
      <4>1. CASE i = 1
        BY <2>2, <4>1
      <4>2. CASE i # 1
        <5>1. i - 1 \in 1..Len(q)
          BY <1>0, <4>2
        <5>2. fl[i] = F(i) /\ fl[i - 1] = F(i - 1)
          BY <5>1
        <5> QED BY <2>3, <4>2, <5>2
      <4> QED BY <4>1, <4>2
    <3>2. fl = [i \in 1..Len(q) |-> fl[i]]
      OBVIOUS
    <3> HIDE DEF fl
    <3>3. fl = [i \in 1..Len(q) |-> IF i = 1 THEN q[i] ELSE fl[i - 1] \o q[i]]
      BY <3>1, <3>2
    <3> QED BY <3>3 DEF IsFlat
  <2> HIDE DEF fl
  <2> DEFINE c == CHOOSE x : IsFlat(x, q)
  <2>5. IsFlat(c, q)
    BY <2>4
  <2>6. FlattenSeq(q) = c[Len(q)]
    BY <1>2 DEF FlattenSeq, IsFlat
  <2> HIDE DEF c
  <2>7. \A i \in 1..Len(q) : c[i] = IF i = 1 THEN q[i] ELSE c[i - 1] \o q[i]
    BY <2>5 DEF IsFlat
  <2> DEFINE S == {i \in 0..Len(q) : i # 0 => c[i] = F(i)}
  <2>8. 0 \in S
    BY <1>0
  <2>9. ASSUME NEW n \in 0..(Len(q) - 1), n \in S PROVE n + 1 \in S
    <3>1. n + 1 \in 1..Len(q) /\ n + 1 \in 0..Len(q) /\ n + 1 - 1 = n
      BY <1>0
    <3>2. CASE n = 0
      <4>1. c[n + 1] = F(n + 1)
        BY <2>2, <2>7, <3>1, <3>2
      <4> QED BY <3>1, <4>1
    <3>3. CASE n # 0
      <4>1. n + 1 # 1 /\ c[n] = F(n)
        BY <2>9, <3>3
      <4>i. PICK i \in 1..Len(q) : i = n + 1 /\ i # 1 /\ i - 1 = n
        BY <3>1, <4>1
      <4>0. c[i] = c[i - 1] \o q[i]
        BY <2>7, <4>i
      <4>2. c[n + 1] = c[n] \o q[n + 1]
        BY <4>0, <4>i
      <4>3. F(n + 1) = F(n) \o q[n + 1]
        BY <2>1
      <4> QED BY <3>1, <4>1, <4>2, <4>3
    <3> QED BY <3>2, <3>3
  <2> HIDE DEF S
  <2>10. 0..Len(q) \subseteq S
    BY <1>0, <2>8, <2>9, Induction
  <2>11. Len(q) \in S
    BY <1>0, <2>10
  <2>12. c[Len(q)] = F(Len(q))
    BY <1>2, <2>11 DEF S
  <2> QED BY <2>6, <2>12, <2>n
<1> QED BY <1>1, <1>2

-----------------------------------------------------------------------------
(* The parser on the bytes of a frame.                                       *)

\* A frame that its header describes and that the framer accepts.
IsFrame(f) ==
    /\ f \in Seq(Byte) /\ HeaderLen <= Len(f) /\ Len(f) <= MaxFrame
    /\ HeaderLen + PayloadLen(f) = Len(f)
    /\ kind = 3 => HandleOf(f) = Handle

\* What two bytes hold.
Word == {n \in Nat : n < 65536}

LEMMA HeaderLength ==
    ASSUME kind \in {2, 3, 4}
    PROVE  /\ HeaderLen \in Nat /\ HeaderLen >= 2
           /\ kind = 2 => HeaderLen = 4
           /\ kind = 3 => HeaderLen = 3
           /\ kind = 4 => HeaderLen = 2
BY DEF HeaderLen, HeaderOf

LEMMA LowByte ==
    ASSUME NEW n \in Int, 0 <= n, n < 65536
    PROVE  n % 256 \in 0..255
BY SMT

LEMMA HighByte ==
    ASSUME NEW n \in Int, 0 <= n, n < 65536
    PROVE  n \div 256 \in 0..255
<1>1. n \div 256 \in Int
  BY SMT
<1>2. n \div 256 >= 0
  BY SMT
<1>3. n \div 256 < 256
  BY SMT
<1> QED BY <1>1, <1>2, <1>3, SMT

LEMMA BothBytes ==
    ASSUME NEW n \in Int, 0 <= n, n < 65536
    PROVE  (n % 256) + 256 * (n \div 256) = n
BY SMT

\* from_le_bytes() on the two bytes of a number.
LEMMA Halves ==
    ASSUME NEW n \in Word
    PROVE  \E lo, hi \in Byte : lo = n % 256 /\ hi = n \div 256 /\ lo + 256 * hi = n
<1>0. n \in Int /\ 0 <= n /\ n < 65536
  BY SMT DEF Word
<1>1. n % 256 \in Byte /\ n \div 256 \in Byte
  BY <1>0, LowByte, HighByte, SMT DEF Byte
<1>2. (n % 256) + 256 * (n \div 256) = n
  BY <1>0, BothBytes, SMT
<1> QED BY <1>1, <1>2, ZenonT(60)

LEMMA HandleIsWord == Handle \in Word
<1>1. Handle \in 0..4095
  BY RadioAssumption
<1> QED BY <1>1, SMT DEF Word

LEMMA SmallWord ==
    ASSUME NEW n \in Nat, n < 65536
    PROVE  n \in Word
BY SMT DEF Word

LEMMA Masked ==
    ASSUME NEW n \in 0..4095
    PROVE  n % 4096 = n
BY SMT

LEMMA SmallByte ==
    ASSUME NEW n \in Nat, n < 256
    PROVE  n \in Byte
BY DEF Byte

LEMMA HeadOfFrame ==
    ASSUME NEW h \in Seq(Byte), NEW p \in Seq(Byte), NEW l \in Nat, l = Len(h)
    PROVE  /\ h \o p \in Seq(Byte) /\ Len(h \o p) = l + Len(p) /\ Len(p) \in Nat
           /\ \A m \in 1..l : (h \o p)[m] = h[m]
BY JoinedBytes, SMT

\* The radio sends frames.
LEMMA Encoded ==
    ASSUME kind \in Kinds, NEW p \in Payloads[kind]
    PROVE  IsFrame(Encode(p))
<1>0. kind \in {2, 3, 4} /\ MaxFrame \in Nat
  BY FramerAssumption
<1>1. /\ p \in Seq(Byte) /\ HeaderLen + Len(p) <= MaxFrame
      /\ kind = 2 => Len(p) < 65536
      /\ kind # 2 => Len(p) < 256
  BY RadioAssumption, SMT DEF HeaderLen, Byte
<1>p. p \in Seq(Byte)
  BY <1>1
<1>2. Len(p) \in Nat
  BY <1>p, LenProperties
<1>3. PICK a, b \in Byte : a = Handle % 256 /\ b = Handle \div 256 /\ a + 256 * b = Handle
  BY HandleIsWord, Halves, Zenon
<1>4. CASE kind = 2
  <2>1. PICK c, d \in Byte : c = Len(p) % 256 /\ d = Len(p) \div 256 /\ c + 256 * d = Len(p)
    <3>0. Len(p) < 65536
      BY <1>1, <1>4, SMT
    <3>1. Len(p) \in Word
      BY <1>2, <3>0, SmallWord, SMT
    <3> QED BY <3>1, Halves, Zenon
  <2>2. HeaderLen = 4
    BY <1>0, <1>4, HeaderLength
  <2> DEFINE h == <<a, b, c, d>>
  <2>3. h \in Seq(Byte) /\ Len(h) = 4 /\ h[3] = c /\ h[4] = d
    OBVIOUS
  <2>4. Encode(p) = h \o p
    BY <1>3, <1>4, <2>1, SMT DEF Encode
  <2> HIDE DEF h
  <2>5. /\ h \o p \in Seq(Byte) /\ Len(h \o p) = 4 + Len(p)
        /\ \A m \in 1..4 : (h \o p)[m] = h[m]
    <3>1. 4 \in Nat /\ 4 = Len(h) /\ h \in Seq(Byte)
      BY <2>3
    <3> QED BY <1>p, <3>1, HeadOfFrame, ZenonT(60)
  <2>6. (h \o p)[3] = c /\ (h \o p)[4] = d
    BY <2>3, <2>5
  <2>7. PayloadLen(h \o p) = Len(p)
    BY <1>4, <2>1, <2>6 DEF PayloadLen
  <2> QED BY <1>0, <1>1, <1>2, <1>4, <2>2, <2>4, <2>5, <2>7, SMT DEF IsFrame
<1>5. CASE kind = 3
  <2>1. Len(p) \in Byte
    <3>1. kind # 2
      BY <1>5
    <3>2. Len(p) < 256
      BY <1>1, <3>1
    <3> QED BY <1>2, <3>2, SmallByte
  <2>2. HeaderLen = 3
    BY <1>0, <1>5, HeaderLength
  <2> DEFINE h == <<a, b, Len(p)>>
  <2>3. h \in Seq(Byte) /\ Len(h) = 3 /\ h[1] = a /\ h[2] = b /\ h[3] = Len(p)
    BY <2>1
  <2>4. Encode(p) = h \o p
    BY <1>3, <1>5, SMT DEF Encode
  <2> HIDE DEF h
  <2>5. /\ h \o p \in Seq(Byte) /\ Len(h \o p) = 3 + Len(p)
        /\ \A m \in 1..3 : (h \o p)[m] = h[m]
    <3>1. 3 \in Nat /\ 3 = Len(h) /\ h \in Seq(Byte)
      BY <2>3
    <3> QED BY <1>p, <3>1, HeadOfFrame, Zenon
  <2>6. (h \o p)[1] = a /\ (h \o p)[2] = b /\ (h \o p)[3] = Len(p)
    BY <2>3, <2>5
  <2>7. PayloadLen(h \o p) = Len(p)
    BY <1>5, <2>6 DEF PayloadLen
  <2>8. HandleOf(h \o p) = Handle
    <3>1. HandleOf(h \o p) = Handle % 4096
      BY <1>3, <2>6, SMT DEF HandleOf
    <3>2. Handle \in 0..4095
      BY RadioAssumption
    <3> QED BY <3>1, <3>2, Masked, SMTT(30)
  <2> QED BY <1>0, <1>1, <1>2, <2>2, <2>4, <2>5, <2>7, <2>8, SMT DEF IsFrame
<1>6. CASE kind = 4
  <2>0. 14 \in Byte
    BY SmallByte
  <2>1. Len(p) \in Byte
    <3>1. kind # 2
      BY <1>6
    <3>2. Len(p) < 256
      BY <1>1, <3>1
    <3> QED BY <1>2, <3>2, SmallByte
  <2>2. HeaderLen = 2
    BY <1>0, <1>6, HeaderLength
  <2> DEFINE h == <<14, Len(p)>>
  <2>3. h \in Seq(Byte) /\ Len(h) = 2 /\ h[2] = Len(p)
    BY <2>0, <2>1
  <2>4. Encode(p) = h \o p
    BY <1>6, SMT DEF Encode
  <2> HIDE DEF h
  <2>5. /\ h \o p \in Seq(Byte) /\ Len(h \o p) = 2 + Len(p)
        /\ \A m \in 1..2 : (h \o p)[m] = h[m]
    <3>1. 2 \in Nat /\ 2 = Len(h) /\ h \in Seq(Byte)
      BY <2>3
    <3> QED BY <1>p, <3>1, HeadOfFrame, Zenon
  <2>6. (h \o p)[2] = Len(p)
    BY <2>3, <2>5
  <2>7. PayloadLen(h \o p) = Len(p)
    BY <1>6, <2>6 DEF PayloadLen
  <2> QED BY <1>0, <1>1, <1>2, <1>6, <2>2, <2>4, <2>5, <2>7, SMT DEF IsFrame
<1> QED BY <1>0, <1>4, <1>5, <1>6

\* The beginning of a frame grows by a byte.
LEMMA Grown ==
    ASSUME NEW S, NEW f \in Seq(S), NEW m \in 0..(Len(f) - 1)
    PROVE  Append(SubSeq(f, 1, m), f[m + 1]) = SubSeq(f, 1, m + 1)
<1>0. Len(f) \in Nat /\ m \in 0..Len(f) /\ m + 1 \in 0..Len(f) /\ m + 1 \in 1..Len(f) /\ f[m + 1] \in S
  BY LenProperties
<1>1. /\ SubSeq(f, 1, m) \in Seq(S) /\ Len(SubSeq(f, 1, m)) = m
      /\ \A i \in 1..m : SubSeq(f, 1, m)[i] = f[i]
  BY <1>0, Beginning
<1>2. /\ SubSeq(f, 1, m + 1) \in Seq(S) /\ Len(SubSeq(f, 1, m + 1)) = m + 1
      /\ \A i \in 1..(m + 1) : SubSeq(f, 1, m + 1)[i] = f[i]
  BY <1>0, Beginning
<1>x. PICK x \in Seq(S) : x = SubSeq(f, 1, m)
  BY <1>1
<1>y. PICK y \in Seq(S) : y = SubSeq(f, 1, m + 1)
  BY <1>2
<1>z. PICK z \in S : z = f[m + 1]
  BY <1>0
<1>3. /\ Append(x, z) \in Seq(S) /\ Len(Append(x, z)) = m + 1
      /\ \A i \in 1..m : Append(x, z)[i] = x[i]
      /\ Append(x, z)[m + 1] = z
  BY <1>1, <1>x, AppendProperties
<1>4. ASSUME NEW i \in 1..(m + 1) PROVE Append(x, z)[i] = y[i]
  <2>1. CASE i \in 1..m
    BY <1>1, <1>2, <1>3, <1>x, <1>y, <2>1
  <2>2. CASE i = m + 1
    BY <1>2, <1>3, <1>y, <1>z, <2>2
  <2>3. i \in 1..m \/ i = m + 1
    BY <1>0
  <2> QED BY <2>1, <2>2, <2>3
<1>5. Append(x, z) = y
  BY <1>2, <1>3, <1>4, <1>y, Same
<1> QED BY <1>5, <1>x, <1>y, <1>z

\* The states of the loop of push(), and those in which it has kept b and found fs.
LoopStates == [bytes : Seq(Byte), frames : Seq(Seq(Byte)), skip : BOOLEAN, err : BOOLEAN]

IsAt(st, b, fs) ==
    /\ st \in LoopStates /\ st.bytes = b /\ st.frames = fs /\ st.skip = FALSE /\ st.err = FALSE

LEMMA AtIdle ==
    ASSUME NEW b \in Seq(Byte)
    PROVE  IsAt(Idle(b), b, <<>>)
BY DEF IsAt, Idle, LoopStates

LEMMA AtKept ==
    ASSUME NEW st, NEW b, NEW fs, IsAt(st, b, fs), NEW c \in Seq(Byte)
    PROVE  IsAt([st EXCEPT !.bytes = c], c, fs)
BY DEF IsAt, LoopStates

LEMMA AtComplete ==
    ASSUME NEW st, NEW b, NEW fs \in Seq(Seq(Byte)), IsAt(st, b, fs), NEW f \in Seq(Byte)
    PROVE  IsAt(Complete(st, f), <<>>, Append(fs, f))
<1>1. st \in LoopStates /\ st.frames = fs /\ st.skip = FALSE /\ st.err = FALSE
  BY DEF IsAt
<1>2. Append(fs, f) \in Seq(Seq(Byte)) /\ <<>> \in Seq(Byte)
  BY AppendProperties
<1> DEFINE r == [st EXCEPT !.bytes = <<>>, !.frames = Append(fs, f)]
<1>3. /\ r \in LoopStates /\ r.bytes = <<>> /\ r.frames = Append(fs, f)
      /\ r.skip = FALSE /\ r.err = FALSE
  BY <1>1, <1>2 DEF LoopStates
<1>4. Complete(st, f) = r
  BY <1>1, Zenon DEF Complete
<1> QED BY <1>3, <1>4 DEF IsAt

\* A byte of a frame that the framer has begun ends it or is kept.
LEMMA ByteOfFrame ==
    ASSUME kind \in {2, 3, 4}, MaxFrame \in Nat, NEW f, IsFrame(f), NEW m \in 0..(Len(f) - 1),
           NEW fs \in Seq(Seq(Byte)), NEW st, IsAt(st, SubSeq(f, 1, m), fs)
    PROVE  /\ m + 1 = Len(f) => IsAt(PushByte(st, f[m + 1]), <<>>, Append(fs, f))
           /\ m + 1 # Len(f) => IsAt(PushByte(st, f[m + 1]), SubSeq(f, 1, m + 1), fs)
<1>0. /\ f \in Seq(Byte) /\ HeaderLen <= Len(f) /\ Len(f) <= MaxFrame
      /\ HeaderLen + PayloadLen(f) = Len(f) /\ (kind = 3 => HandleOf(f) = Handle)
  BY DEF IsFrame
<1>1. Len(f) \in Nat /\ m + 1 \in 0..Len(f)
  BY <1>0, LenProperties
<1>b. PICK b : b = SubSeq(f, 1, m + 1)
  OBVIOUS
<1>2. Append(st.bytes, f[m + 1]) = b
  BY <1>0, <1>b, Grown DEF IsAt
<1>3. b \in Seq(Byte) /\ Len(b) = m + 1 /\ \A i \in 1..(m + 1) : b[i] = f[i]
  BY <1>0, <1>1, <1>b, Beginning
<1>4. ~st.skip /\ ~st.err
  BY DEF IsAt
<1>k. IsAt([st EXCEPT !.bytes = b], b, fs)
  BY <1>3, AtKept
<1>5. PushByte(st, f[m + 1])
        = IF Len(b) < HeaderLen THEN [st EXCEPT !.bytes = b]
          ELSE IF IsForeign(b) THEN Foreign(st, b)
          ELSE IF Oversized(b) THEN [st EXCEPT !.bytes = <<>>, !.err = TRUE]
          ELSE IF Len(b) = HeaderLen + PayloadLen(b) THEN Complete(st, b)
          ELSE [st EXCEPT !.bytes = b]
  BY <1>2, <1>4, Zenon DEF PushByte
<1>6. HeaderLen \in Nat
  BY HeaderLength
<1>7. CASE m + 1 < HeaderLen
  <2>1. Len(b) < HeaderLen /\ m + 1 # Len(f)
    BY <1>0, <1>1, <1>3, <1>6, <1>7
  <2> QED BY <1>k, <1>5, <1>b, <2>1
<1>8. CASE ~(m + 1 < HeaderLen)
  <2>1. \A i \in 1..HeaderLen : b[i] = f[i]
    BY <1>3, <1>6, <1>8
  <2>2. PayloadLen(b) = PayloadLen(f) /\ (kind = 3 => HandleOf(b) = HandleOf(f))
    <3>1. CASE kind = 2
      <4>1. b[3] = f[3] /\ b[4] = f[4]
        BY <2>1, <3>1, HeaderLength
      <4> QED BY <3>1, <4>1 DEF PayloadLen
    <3>2. CASE kind = 3
      <4>1. b[1] = f[1] /\ b[2] = f[2] /\ b[3] = f[3]
        BY <2>1, <3>2, HeaderLength
      <4> QED BY <3>2, <4>1 DEF PayloadLen, HandleOf
    <3>3. CASE kind = 4
      <4>1. b[2] = f[2]
        BY <2>1, <3>3, HeaderLength
      <4> QED BY <3>3, <4>1 DEF PayloadLen
    <3> QED BY <3>1, <3>2, <3>3
  <2>3. ~IsForeign(b)
    BY <1>0, <2>2 DEF IsForeign
  <2>4. HeaderLen + PayloadLen(b) = Len(f)
    BY <1>0, <2>2
  <2>5. ~Oversized(b)
    BY <1>0, <1>1, <2>4 DEF Oversized
  <2>6. PushByte(st, f[m + 1]) = IF m + 1 = Len(f) THEN Complete(st, b) ELSE [st EXCEPT !.bytes = b]
    <3>1. ~(Len(b) < HeaderLen)
      BY <1>3, <1>8
    <3> QED BY <1>3, <1>5, <2>3, <2>4, <2>5, <3>1
  <2>7. CASE m + 1 = Len(f)
    <3>1. b = f
      BY <1>0, <1>b, <2>7, SubSeqFull
    <3>2. IsAt(Complete(st, f), <<>>, Append(fs, f))
      BY <1>0, AtComplete
    <3> QED BY <2>6, <2>7, <3>1, <3>2
  <2>8. CASE m + 1 # Len(f)
    BY <1>k, <1>b, <2>6, <2>8
  <2> QED BY <2>7, <2>8
<1> QED BY <1>7, <1>8

-----------------------------------------------------------------------------
(* The loop of push() over a fragment.                                       *)

\* The bytes of the stream in a frame of it.
LEMMA InFrame ==
    ASSUME NEW s \in Seq(Byte), NEW f \in Seq(Byte), NEW a \in Nat, a + Len(f) <= Len(s),
           \A j \in 1..Len(f) : s[a + j] = f[j], NEW m \in 0..Len(f), NEW e, e = a + m
    PROVE  SubSeq(s, a + 1, e) = SubSeq(f, 1, m)
<1>1. Len(s) \in Nat /\ Len(f) \in Nat
  BY LenProperties
<1>2. e \in Nat /\ a <= e /\ e <= Len(s) /\ e - a = m
  BY <1>1
<1>3. /\ SubSeq(s, a + 1, e) \in Seq(Byte) /\ Len(SubSeq(s, a + 1, e)) = e - a
      /\ \A i \in 1..(e - a) : SubSeq(s, a + 1, e)[i] = s[a + i]
  <2>1. e \in Nat /\ a <= e /\ e <= Len(s)
    BY <1>2
  <2> QED BY <2>1, Part
<1>4. /\ SubSeq(f, 1, m) \in Seq(Byte) /\ Len(SubSeq(f, 1, m)) = m
      /\ \A i \in 1..m : SubSeq(f, 1, m)[i] = f[i]
  BY Beginning
<1>5. ASSUME NEW i \in 1..m PROVE SubSeq(s, a + 1, e)[i] = SubSeq(f, 1, m)[i]
  <2>1. i \in 1..Len(f) /\ i \in 1..(e - a)
    BY <1>1, <1>2
  <2>2. s[a + i] = f[i]
    BY <2>1
  <2> QED BY <1>3, <1>4, <2>1, <2>2
<1> QED BY <1>2, <1>3, <1>4, <1>5, Same

\* After d bytes of the stream: k frames are found, the rest belongs to the next one.
Reached(q, s, g, d, st, k) ==
    /\ k \in 0..Len(q) /\ g[k] <= d /\ (k < Len(q) => d < g[k + 1])
    /\ IsAt(st, SubSeq(s, g[k] + 1, d), SubSeq(q, 1, k))

LEMMA LoopStep ==
    ASSUME kind \in {2, 3, 4}, MaxFrame \in Nat,
           NEW q \in Seq(Seq(Byte)), \A k \in 1..Len(q) : IsFrame(q[k]),
           NEW s, NEW g, Cut(q, s, g), NEW d \in Nat, d < Len(s),
           NEW st, NEW k, Reached(q, s, g, d, st, k)
    PROVE  \E l : Reached(q, s, g, d + 1, PushByte(st, s[d + 1]), l)
<1>0. /\ k \in 0..Len(q) /\ g[k] <= d /\ (k < Len(q) => d < g[k + 1])
      /\ IsAt(st, SubSeq(s, g[k] + 1, d), SubSeq(q, 1, k))
  BY DEF Reached
<1>1. Len(q) \in Nat /\ Len(s) = g[Len(q)] /\ Len(s) \in Nat
  BY CutTypes
<1>2. k \in 0..(Len(q) - 1) /\ k < Len(q)
  <2>1. k # Len(q)
    BY <1>0, <1>1
  <2> QED BY <1>0, <1>1, <2>1
<1>3. k + 1 \in 0..Len(q) /\ k + 1 \in 1..Len(q) /\ q[k + 1] \in Seq(Byte)
  BY <1>2, CutStep
<1>4. /\ Len(q[k + 1]) \in Nat
      /\ g[k] \in Nat /\ g[k + 1] \in Nat /\ g[k + 1] = g[k] + Len(q[k + 1])
  BY <1>2, CutStep
<1>5. \A j \in 1..Len(q[k + 1]) : s[g[k] + j] = q[k + 1][j]
  BY <1>2 DEF Cut
<1>a. PICK a \in Nat : a = g[k]
  BY <1>4
<1>f. PICK f \in Seq(Byte) : f = q[k + 1]
  BY <1>3
<1>m. PICK m \in Nat : m = d - a
  BY <1>0, <1>a
<1>fs. PICK fs : fs = SubSeq(q, 1, k)
  OBVIOUS
<1>6. m \in 0..(Len(f) - 1) /\ m + 1 \in 1..Len(f) /\ a + (m + 1) = d + 1
  <2>1. a <= d /\ d < a + Len(f) /\ Len(f) \in Nat
    BY <1>0, <1>2, <1>4, <1>a, <1>f
  <2> QED BY <2>1, <1>m
<1>j. \A j \in 1..Len(f) : s[a + j] = f[j]
  BY <1>5, <1>a, <1>f
<1>s. s \in Seq(Byte) /\ a + Len(f) <= Len(s)
  <2>1. s \in Seq(Byte) /\ g[k + 1] \in 0..Len(s)
    BY <1>3, CutTypes, CutEnd
  <2> QED BY <1>1, <1>4, <1>a, <1>f, <2>1
<1>7. IsFrame(f)
  BY <1>3, <1>f
<1>8. IsAt(st, SubSeq(f, 1, m), fs)
  <2>1. m \in 0..Len(f) /\ d = a + m
    BY <1>6, <1>m
  <2>2. SubSeq(s, a + 1, d) = SubSeq(f, 1, m)
    BY <1>s, <1>j, <2>1, InFrame
  <2>3. SubSeq(s, g[k] + 1, d) = SubSeq(f, 1, m)
    BY <2>2, <1>a
  <2> QED BY <1>0, <1>fs, <2>3
<1>9. s[d + 1] = f[m + 1]
  BY <1>5, <1>6, <1>a, <1>f
<1>10. fs \in Seq(Seq(Byte))
  BY <1>0, <1>fs, Beginning
<1>11. /\ m + 1 = Len(f) => IsAt(PushByte(st, f[m + 1]), <<>>, Append(fs, f))
       /\ m + 1 # Len(f) => IsAt(PushByte(st, f[m + 1]), SubSeq(f, 1, m + 1), fs)
  BY <1>6, <1>7, <1>8, <1>10, ByteOfFrame
<1>12. CASE m + 1 = Len(f)
  <2>1. g[k + 1] = d + 1
    BY <1>4, <1>6, <1>12, <1>a, <1>f
  <2>2. Append(fs, f) = SubSeq(q, 1, k + 1)
    BY <1>2, <1>f, <1>fs, Grown
  <2>3. SubSeq(s, g[k + 1] + 1, d + 1) = <<>>
    <3>1. g[k + 1] + 1 \in Int /\ d + 1 \in Int /\ d + 1 < g[k + 1] + 1
      BY <1>4, <2>1
    <3> QED BY <3>1, SubSeqEmpty
  <2>4. IsAt(PushByte(st, s[d + 1]), SubSeq(s, g[k + 1] + 1, d + 1), SubSeq(q, 1, k + 1))
    BY <1>9, <1>11, <1>12, <2>2, <2>3
  <2>5. ASSUME k + 1 < Len(q) PROVE d + 1 < g[(k + 1) + 1]
    <3>l. PICK l \in 0..(Len(q) - 1) : l = k + 1
      BY <1>1, <1>3, <2>5
    <3>1. g[l] \in Nat /\ g[l + 1] \in Nat /\ g[l + 1] = g[l] + Len(q[l + 1]) /\ Len(q[l + 1]) \in Nat
      BY CutStep
    <3>2. IsFrame(q[l + 1])
      BY <1>1
    <3>3. Len(q[l + 1]) >= 2
      BY <3>1, <3>2, HeaderLength DEF IsFrame
    <3>4. g[l] < g[l + 1]
      BY <3>1, <3>3
    <3> QED BY <2>1, <3>l, <3>4
  <2>6. g[k + 1] <= d + 1
    BY <2>1
  <2>7. Reached(q, s, g, d + 1, PushByte(st, s[d + 1]), k + 1)
    BY <1>3, <2>4, <2>5, <2>6 DEF Reached
  <2> QED BY <2>7
<1>13. CASE m + 1 # Len(f)
  <2>1. d + 1 < g[k + 1] /\ g[k] <= d + 1 /\ d + 1 \in Nat /\ d + 1 - a = m + 1
    <3>1. g[k + 1] = a + Len(f) /\ Len(f) \in Nat
      BY <1>4, <1>a, <1>f
    <3>2. d + 1 < a + Len(f) /\ a <= d + 1 /\ d + 1 - a = m + 1
      BY <1>6, <1>13, <1>m, <3>1
    <3> QED BY <1>a, <3>1, <3>2
  <2>2. SubSeq(s, a + 1, d + 1) = SubSeq(f, 1, m + 1)
    <3>1. d + 1 = a + (m + 1) /\ m + 1 \in 0..Len(f)
      BY <1>6
    <3> QED BY <1>s, <1>j, <3>1, InFrame
  <2>3. SubSeq(s, g[k] + 1, d + 1) = SubSeq(f, 1, m + 1)
    BY <2>2, <1>a
  <2>4. IsAt(PushByte(st, s[d + 1]), SubSeq(s, g[k] + 1, d + 1), SubSeq(q, 1, k))
    BY <1>9, <1>11, <1>13, <1>fs, <2>3
  <2>5. Reached(q, s, g, d + 1, PushByte(st, s[d + 1]), k)
    BY <1>0, <2>1, <2>4 DEF Reached
  <2> QED BY <2>5
<1> QED BY <1>12, <1>13

LEMMA Loop ==
    ASSUME kind \in {2, 3, 4}, MaxFrame \in Nat,
           NEW q \in Seq(Seq(Byte)), \A k \in 1..Len(q) : IsFrame(q[k]),
           NEW s, NEW g, Cut(q, s, g),
           NEW d \in Nat, NEW n \in Nat, d + n <= Len(s), Len(q) > 0 => d < g[1],
           NEW b, b = SubSeq(s, 1, d),
           NEW fr, Len(fr) = n, \A i \in 1..n : fr[i] = s[d + i]
    PROVE  \E k : Reached(q, s, g, d + n, Push(b, fr), k)
<1>0. Len(s) \in Nat /\ s \in Seq(Byte) /\ g[0] = 0 /\ Len(q) \in Nat
  BY CutTypes
<1>1. PICK after : IsRun(after, b, fr) /\ Push(b, fr) = after[n]
  BY PushRuns
<1>2. after[0] = Idle(b) /\ \A i \in 1..n : after[i] = PushByte(after[i - 1], fr[i])
  BY <1>1 DEF IsRun
<1> DEFINE S == {i \in 0..n : \E k : Reached(q, s, g, d + i, after[i], k)}
<1>3. 0 \in S
  <2>1. b \in Seq(Byte)
    BY <1>0, Beginning
  <2>2. IsAt(Idle(b), b, <<>>)
    BY <2>1, AtIdle
  <2>3. SubSeq(q, 1, 0) = <<>>
    BY SubSeqEmpty
  <2>4. IsAt(after[0], SubSeq(s, g[0] + 1, d), SubSeq(q, 1, 0))
    <3>1. g[0] + 1 = 1
      BY <1>0
    <3> QED BY <1>2, <2>2, <2>3, <3>1
  <2>5. 0 \in 0..Len(q) /\ g[0] <= d /\ (0 < Len(q) => d < g[0 + 1])
    BY <1>0
  <2>6. Reached(q, s, g, d, after[0], 0)
    BY <2>4, <2>5 DEF Reached
  <2>7. d + 0 = d /\ 0 \in 0..n
    OBVIOUS
  <2> QED BY <2>6, <2>7
<1>4. ASSUME NEW i \in 0..(n - 1), i \in S PROVE i + 1 \in S
  <2>1. PICK k : Reached(q, s, g, d + i, after[i], k)
    BY <1>4
  <2>2. d + i \in Nat /\ d + i < Len(s) /\ d + i + 1 = d + (i + 1) /\ i + 1 \in 1..n /\ i + 1 - 1 = i
    BY <1>0
  <2>3. PICK l : Reached(q, s, g, d + i + 1, PushByte(after[i], s[d + i + 1]), l)
    BY <2>1, <2>2, LoopStep
  <2>4. after[i + 1] = PushByte(after[i], s[d + i + 1])
    BY <1>2, <2>2
  <2>5. Reached(q, s, g, d + (i + 1), after[i + 1], l)
    BY <2>2, <2>3, <2>4
  <2>6. i + 1 \in 0..n
    OBVIOUS
  <2> QED BY <2>5, <2>6
<1> HIDE DEF S
<1>5. 0..n \subseteq S
  BY <1>3, <1>4, Induction
<1>6. n \in S
  BY <1>5
<1> QED BY <1>1, <1>6 DEF S

-----------------------------------------------------------------------------
(* The frames that end in a fragment.                                        *)

LEMMA TakenLength ==
    ASSUME NEW q \in Seq(Seq(Byte)), NEW s, NEW g, Cut(q, s, g), NEW j \in 0..Len(q)
    PROVE  Len(FlattenSeq(SubSeq(q, 1, j))) = g[j]
<1>1. /\ Cut(SubSeq(q, 1, j), SubSeq(s, 1, g[j]), [k \in 0..j |-> g[k]])
      /\ SubSeq(q, 1, j) \in Seq(Seq(Byte))
  BY CutTake
<1>2. FlattenSeq(SubSeq(q, 1, j)) = SubSeq(s, 1, g[j])
  BY <1>1, Flat
<1>3. g[j] \in 0..Len(s) /\ s \in Seq(Byte)
  BY CutEnd, CutTypes
<1> QED BY <1>2, <1>3, Beginning

LEMMA Counted ==
    ASSUME due \in Seq(Seq(Byte)), stream \in Seq(Byte),
           NEW s, NEW g, Cut(due, s, g), NEW d \in Nat, Len(s) = d + Len(stream),
           NEW n \in Nat, NEW k \in 0..Len(due), g[k] <= d + n, k < Len(due) => d + n < g[k + 1]
    PROVE  NumEnding(n) = k
<1>1. /\ Len(due) \in Nat /\ Len(s) \in Nat /\ Len(stream) \in Nat
      /\ \A j \in 0..Len(due) : g[j] \in Nat
  BY CutTypes, LenProperties
<1>2. Len(FlattenSeq(due)) - Len(stream) = d
  <2>1. FlattenSeq(due) = s
    BY Flat
  <2> QED BY <1>1, <2>1
<1>3. Ending(n) = {j \in 1..Len(due) : Len(FlattenSeq(SubSeq(due, 1, j))) - d <= n}
  BY <1>2 DEF Ending
<1>4. ASSUME NEW j \in 1..Len(due)
      PROVE  Len(FlattenSeq(SubSeq(due, 1, j))) - d <= n <=> j \in 1..k
  <2>1. j \in 0..Len(due) /\ k \in Nat /\ j \in Nat
    BY <1>1
  <2>2. Len(FlattenSeq(SubSeq(due, 1, j))) = g[j]
    BY <2>1, TakenLength
  <2>3. g[j] \in Nat /\ g[k] \in Nat
    BY <1>1, <2>1
  <2>4. CASE j <= k
    <3>1. g[j] <= g[k]
      BY <2>1, <2>4, CutOrder
    <3>2. g[j] - d <= n
      BY <2>3, <3>1
    <3> QED BY <2>1, <2>2, <2>4, <3>2
  <2>5. CASE k < j
    <3>1. k < Len(due) /\ k + 1 \in 0..Len(due) /\ k + 1 <= j
      BY <1>1, <2>1, <2>5
    <3>2. g[k + 1] <= g[j] /\ g[k + 1] \in Nat
      BY <1>1, <2>1, <3>1, CutOrder
    <3>3. ~(g[j] - d <= n)
      BY <2>3, <3>1, <3>2, SMTT(30)
    <3> QED BY <2>1, <2>2, <2>5, <3>3
  <2> QED BY <2>1, <2>4, <2>5
<1>5. Ending(n) = 1..k
  <2>1. 1..k \subseteq 1..Len(due)
    BY <1>1
  <2> QED BY <1>3, <1>4, <2>1
<1>6. Cardinality(1..k) = k
  <2>1. 1 \in Int /\ k \in Int /\ (IF 1 > k THEN 0 ELSE k - 1 + 1) = k
    BY <1>1
  <2> QED BY <2>1, FS_Interval
<1> QED BY <1>5, <1>6 DEF NumEnding

-----------------------------------------------------------------------------
(* Fragments leave no trace.                                                 *)

\* Until something is lost, the framer and the bus hold the frames that are due, of
\* which the framer has a part of the first.
Intact ==
    /\ err = FALSE /\ out = ended
    /\ due \in Seq(Seq(Byte)) /\ \A k \in 1..Len(due) : IsFrame(due[k])
    /\ buf \in Seq(Byte) /\ stream \in Seq(Byte)
    /\ \E g : Cut(due, buf \o stream, g)
    /\ IF due = <<>> THEN buf = <<>> ELSE Len(buf) < Len(due[1])

Inv == kind \in Kinds /\ losses \in Nat /\ (losses = 0 => Intact)

LEMMA InvInit == Init => Inv
<1> SUFFICES ASSUME Init PROVE Inv
  OBVIOUS
<1>1. /\ kind \in Kinds /\ losses = 0 /\ err = FALSE /\ out = ended
      /\ due = <<>> /\ buf = <<>> /\ stream = <<>>
  BY DEF Init
<1>2. buf \o stream = <<>> /\ due \in Seq(Seq(Byte)) /\ buf \in Seq(Byte) /\ stream \in Seq(Byte) /\ Len(due) = 0
  BY <1>1
<1>3. Cut(due, buf \o stream, [k \in 0..0 |-> 0])
  BY <1>1, <1>2, CutNothing
<1>4. Intact
  BY <1>1, <1>2, <1>3 DEF Intact
<1> QED BY <1>1, <1>4 DEF Inv

LEMMA SameFrames ==
    ASSUME kind' = kind, \A k \in 1..Len(due') : IsFrame(due'[k])
    PROVE  (\A k \in 1..Len(due) : IsFrame(due[k]))'
<1> SUFFICES ASSUME NEW k \in 1..Len(due') PROVE IsFrame(due[k])'
  OBVIOUS
<1>1. IsFrame(due'[k])
  OBVIOUS
<1>2. HeaderLen' = HeaderLen
  BY Zenon DEF HeaderLen
<1>3. PayloadLen(due[k])' = PayloadLen(due'[k])
  BY Zenon DEF PayloadLen
<1>4. HandleOf(due[k])' = HandleOf(due'[k])
  BY Zenon DEF HandleOf
<1> QED BY <1>1, <1>2, <1>3, <1>4 DEF IsFrame

LEMMA JoinedTwice ==
    ASSUME NEW x \in Seq(Byte), NEW y \in Seq(Byte), NEW z \in Seq(Byte)
    PROVE  (x \o y) \o z = x \o (y \o z)
BY ConcatAssociative

LEMMA IntactSend ==
    ASSUME kind \in Kinds, Intact, Send
    PROVE  Intact'
<1>1. PICK p \in Payloads[kind] : due' = Append(due, Encode(p)) /\ stream' = stream \o Encode(p)
  BY DEF Send
<1>2. kind' = kind /\ buf' = buf /\ err' = err /\ out' = out /\ ended' = ended
  BY DEF Send
<1>3. /\ err = FALSE /\ out = ended
      /\ due \in Seq(Seq(Byte)) /\ \A k \in 1..Len(due) : IsFrame(due[k])
      /\ buf \in Seq(Byte) /\ stream \in Seq(Byte)
      /\ IF due = <<>> THEN buf = <<>> ELSE Len(buf) < Len(due[1])
  BY DEF Intact
<1>g. PICK g : Cut(due, buf \o stream, g)
  BY DEF Intact
<1>f. PICK f : f = Encode(p)
  OBVIOUS
<1>4. IsFrame(f)
  BY <1>f, Encoded
<1>5. f \in Seq(Byte) /\ Len(f) >= 2 /\ Len(f) \in Nat
  <2>1. kind \in {2, 3, 4}
    BY FramerAssumption
  <2>2. f \in Seq(Byte) /\ HeaderLen <= Len(f)
    BY <1>4 DEF IsFrame
  <2>3. Len(f) \in Nat
    BY <2>2, LenProperties
  <2> QED BY <2>1, <2>2, <2>3, HeaderLength
<1>6. /\ Append(due, f) \in Seq(Seq(Byte)) /\ Len(Append(due, f)) = Len(due) + 1 /\ Len(due) \in Nat
      /\ (\A k \in 1..Len(due) : Append(due, f)[k] = due[k]) /\ Append(due, f)[Len(due) + 1] = f
      /\ Append(due, f) # <<>>
  BY <1>3, <1>5, AppendProperties, LenProperties
<1>7. \E h : Cut(Append(due, f), (buf \o stream) \o f, h)
  BY <1>3, <1>5, <1>g, CutAppend
<1>8. (buf \o stream) \o f = buf \o (stream \o f) /\ stream \o f \in Seq(Byte)
  <2>1. (buf \o stream) \o f = buf \o (stream \o f)
    <3>1. buf \in Seq(Byte) /\ stream \in Seq(Byte) /\ f \in Seq(Byte)
      BY <1>3, <1>5
    <3> QED BY <3>1, JoinedTwice
  <2>2. stream \o f \in Seq(Byte)
    BY <1>3, <1>5, JoinedBytes
  <2> QED BY <2>1, <2>2
<1>9. ASSUME NEW k \in 1..(Len(due) + 1) PROVE IsFrame(Append(due, f)[k])
  <2>1. CASE k \in 1..Len(due)
    BY <1>3, <1>6, <2>1
  <2>2. CASE k = Len(due) + 1
    BY <1>4, <1>6, <2>2
  <2>3. k \in 1..Len(due) \/ k = Len(due) + 1
    BY <1>6
  <2> QED BY <2>1, <2>2, <2>3
<1>10. (\A k \in 1..Len(due) : IsFrame(due[k]))'
  <2>1. due' = Append(due, f) /\ Len(due') = Len(due) + 1
    BY <1>1, <1>6, <1>f
  <2>2. \A k \in 1..Len(due') : IsFrame(due'[k])
    BY <1>9, <2>1
  <2> QED BY <1>2, <2>2, SameFrames
<1>11. IF due' = <<>> THEN buf' = <<>> ELSE Len(buf') < Len(due'[1])
  <2>1. due' = Append(due, f) /\ due' # <<>>
    BY <1>1, <1>6, <1>f
  <2>2. CASE due = <<>>
    <3>1. Len(buf) = 0 /\ Len(due) = 0 /\ Len(due) + 1 = 1
      BY <1>3, <2>2
    <3>2. due'[1] = f
      BY <1>6, <2>1, <3>1
    <3> QED BY <1>2, <1>5, <2>1, <3>1, <3>2
  <2>3. CASE due # <<>>
    <3>1. 1 \in 1..Len(due)
      BY <1>3, <1>6, <2>3
    <3> QED BY <1>2, <1>3, <1>6, <2>1, <2>3, <3>1
  <2> QED BY <2>2, <2>3
<1>12. \E h : Cut(due', buf' \o stream', h)
  BY <1>1, <1>2, <1>7, <1>8, <1>f
<1>13. due' \in Seq(Seq(Byte)) /\ buf' \in Seq(Byte) /\ stream' \in Seq(Byte) /\ err' = FALSE /\ out' = ended'
  BY <1>1, <1>2, <1>3, <1>6, <1>8, <1>f
<1> QED BY <1>10, <1>11, <1>12, <1>13 DEF Intact

\* u is a piece of s: l bytes, after the first a.
Piece(u, s, a, l) == u \in Seq(Byte) /\ Len(u) = l /\ \A m \in 1..l : u[m] = s[a + m]

LEMMA PartBytes ==
    ASSUME NEW s \in Seq(Byte), NEW a \in Nat, NEW b \in Nat, b <= Len(s),
           NEW l \in Nat, b = a + l, NEW u, u = SubSeq(s, a + 1, b)
    PROVE  u \in Seq(Byte) /\ Len(u) = l /\ \A m \in 1..l : u[m] = s[a + m]
<1>1. a <= b /\ b - a = l
  OBVIOUS
<1>2. /\ SubSeq(s, a + 1, b) \in Seq(Byte) /\ Len(SubSeq(s, a + 1, b)) = b - a
      /\ \A m \in 1..(b - a) : SubSeq(s, a + 1, b)[m] = s[a + m]
  <2>1. a <= b
    BY <1>1
  <2> QED BY <2>1, Part
<1> QED BY <1>1, <1>2

\* What is kept of the fragment and what is still to come.
LEMMA Rejoined ==
    ASSUME NEW s, NEW y, NEW u, NEW v, NEW w, NEW a \in Nat, NEW n \in Nat, NEW e \in Nat,
           NEW p \in Nat, NEW r \in Nat, a + n = e + p,
           Piece(u, s, e, p), Piece(v, y, n, r), Piece(w, s, e, p + r), Piece(y, s, a, n + r)
    PROVE  u \o v = w
<1>0. /\ u \in Seq(Byte) /\ Len(u) = p /\ (\A m \in 1..p : u[m] = s[e + m])
      /\ v \in Seq(Byte) /\ Len(v) = r /\ (\A m \in 1..r : v[m] = y[n + m])
      /\ w \in Seq(Byte) /\ Len(w) = p + r /\ (\A m \in 1..(p + r) : w[m] = s[e + m])
      /\ \A m \in 1..(n + r) : y[m] = s[a + m]
  BY DEF Piece
<1>1. /\ u \o v \in Seq(Byte) /\ Len(u \o v) = p + r
      /\ \A m \in 1..p : (u \o v)[m] = u[m]
      /\ \A m \in 1..r : (u \o v)[p + m] = v[m]
  BY <1>0, JoinedBytes, ZenonT(60)
<1>2. ASSUME NEW m \in 1..(p + r) PROVE (u \o v)[m] = w[m]
  <2>0. w[m] = s[e + m]
    BY <1>0
  <2>1. CASE m \in 1..p
    BY <1>0, <1>1, <2>0, <2>1
  <2>2. CASE m > p
    <3>i. PICK i \in 1..r : m = p + i
      <4>1. m - p \in 1..r /\ m = p + (m - p)
        BY <2>2
      <4> QED BY <4>1
    <3>1. (u \o v)[m] = y[n + i]
      BY <1>0, <1>1, <3>i
    <3>2. n + i \in 1..(n + r) /\ a + (n + i) = e + m
      BY <3>i
    <3>3. s[a + (n + i)] = y[n + i]
      BY <1>0, <3>2
    <3> QED BY <2>0, <3>1, <3>2, <3>3
  <2>3. m \in 1..p \/ m > p
    OBVIOUS
  <2> QED BY <2>1, <2>2, <2>3
<1> QED BY <1>0, <1>1, <1>2, Same

LEMMA IntactDeliver ==
    ASSUME kind \in Kinds, Intact, NEW n \in Nat, Deliver(n)
    PROVE  Intact'
<1>0. kind \in {2, 3, 4} /\ MaxFrame \in Nat
  BY FramerAssumption
<1>1. /\ due \in Seq(Seq(Byte)) /\ \A k \in 1..Len(due) : IsFrame(due[k])
      /\ buf \in Seq(Byte) /\ stream \in Seq(Byte)
      /\ IF due = <<>> THEN buf = <<>> ELSE Len(buf) < Len(due[1])
  BY DEF Intact
<1>g. PICK g : Cut(due, buf \o stream, g)
  BY DEF Intact
<1>2. /\ n <= Len(stream) /\ stream' = SubSeq(stream, n + 1, Len(stream))
      /\ ended' = SubSeq(due, 1, NumEnding(n))
      /\ due' = SubSeq(due, NumEnding(n) + 1, Len(due))
  BY DEF Deliver, Transfer
<1>fr. PICK fr : fr = SubSeq(stream, 1, n)
  OBVIOUS
<1>st. PICK st : st = Push(buf, fr)
  OBVIOUS
<1>3. kind' = kind /\ buf' = st.bytes /\ out' = st.frames /\ err' = st.err
  BY <1>fr, <1>st DEF Deliver
<1>s. PICK s : s = buf \o stream
  OBVIOUS
<1>d. PICK d : d = Len(buf)
  OBVIOUS
<1>4. /\ s \in Seq(Byte) /\ d \in Nat /\ Len(stream) \in Nat /\ Len(s) = d + Len(stream)
      /\ \A m \in 1..d : s[m] = buf[m]
      /\ \A m \in 1..Len(stream) : s[d + m] = stream[m]
  BY <1>1, <1>s, <1>d, JoinedBytes
<1>c. Cut(due, s, g)
  BY <1>g, <1>s
<1>5. Len(due) \in Nat /\ (\A k \in 0..Len(due) : g[k] \in Nat) /\ g[0] = 0 /\ Len(s) = g[Len(due)]
  BY <1>1, <1>c, CutTypes
<1>6. Len(fr) = n /\ \A i \in 1..n : fr[i] = s[d + i]
  <2>1. n \in 0..Len(stream)
    BY <1>2, <1>4
  <2>2. Len(fr) = n /\ \A i \in 1..n : fr[i] = stream[i]
    BY <1>1, <1>fr, <2>1, Beginning
  <2>3. \A i \in 1..n : i \in 1..Len(stream)
    BY <2>1, <1>4
  <2> QED BY <1>4, <2>2, <2>3
<1>7. buf = SubSeq(s, 1, d)
  <2>1. d \in 0..Len(s)
    BY <1>4
  <2>2. /\ SubSeq(s, 1, d) \in Seq(Byte) /\ Len(SubSeq(s, 1, d)) = d
        /\ \A m \in 1..d : SubSeq(s, 1, d)[m] = s[m]
    BY <1>4, <2>1, Beginning
  <2> QED BY <1>1, <1>4, <1>d, <2>2, Same
<1>8. d + n <= Len(s)
  BY <1>2, <1>4
<1>9. Len(due) > 0 => d < g[1]
  <2> SUFFICES ASSUME Len(due) > 0 PROVE d < g[1]
    OBVIOUS
  <2>0. 0 \in 0..(Len(due) - 1) /\ 0 + 1 = 1 /\ due # <<>>
    BY <1>1, <1>5
  <2>1. g[0 + 1] = g[0] + Len(due[0 + 1]) /\ Len(due[0 + 1]) \in Nat
    BY <1>1, <1>c, <2>0, CutStep
  <2>2. g[1] = Len(due[1])
    BY <1>5, <2>0, <2>1
  <2> QED BY <1>1, <1>d, <2>0, <2>2
<1>10. PICK k : Reached(due, s, g, d + n, st, k)
  BY <1>0, <1>1, <1>4, <1>c, <1>6, <1>7, <1>8, <1>9, <1>st, Loop
<1>11. /\ k \in 0..Len(due) /\ g[k] <= d + n /\ (k < Len(due) => d + n < g[k + 1])
       /\ st.bytes = SubSeq(s, g[k] + 1, d + n) /\ st.frames = SubSeq(due, 1, k) /\ st.err = FALSE
  BY <1>10 DEF Reached, IsAt
<1>12. NumEnding(n) = k
  BY <1>1, <1>4, <1>c, <1>11, Counted
<1>13. err' = FALSE /\ out' = ended'
  BY <1>2, <1>3, <1>11, <1>12
<1>e. PICK e \in Nat : e = g[k]
  BY <1>5, <1>11
<1>14. buf' = SubSeq(s, e + 1, d + n) /\ buf' \in Seq(Byte) /\ Len(buf') = d + n - e
  <2>1. buf' = SubSeq(s, e + 1, d + n)
    BY <1>3, <1>11, <1>e
  <2>2. d + n \in Nat /\ e <= d + n
    BY <1>4, <1>11, <1>e
  <2>3. SubSeq(s, e + 1, d + n) \in Seq(Byte) /\ Len(SubSeq(s, e + 1, d + n)) = d + n - e
    BY <1>4, <1>8, <2>2, Part
  <2> QED BY <2>1, <2>3
<1>15. stream' \in Seq(Byte)
  <2>1. SubSeq(stream, n + 1, Len(stream)) \in Seq(Byte)
    BY <1>1, <1>2, <1>4, Part
  <2> QED BY <1>2, <2>1
<1>16. buf' \o stream' = SubSeq(s, e + 1, Len(s))
  <2>c. PICK c \in Nat : c = d + n /\ e <= c /\ c <= Len(s)
    BY <1>4, <1>8, <1>11, <1>e
  <2>p. PICK p \in Nat : c = e + p
    <3>1. c - e \in Nat /\ c = e + (c - e)
      BY <2>c
    <3> QED BY <3>1
  <2>r. PICK r \in Nat : Len(stream) = n + r
    <3>1. Len(stream) - n \in Nat /\ Len(stream) = n + (Len(stream) - n)
      BY <1>2, <1>4
    <3> QED BY <3>1
  <2>t. PICK t \in Nat : t = p + r
    OBVIOUS
  <2>l. PICK l \in Nat : l = Len(s) /\ l = e + t
    BY <1>4, <2>c, <2>p, <2>r, <2>t
  <2>w. PICK w : w = SubSeq(s, e + 1, l)
    OBVIOUS
  <2>1. buf' \in Seq(Byte) /\ Len(buf') = p /\ \A m \in 1..p : buf'[m] = s[e + m]
    <3>1. buf' = SubSeq(s, e + 1, c)
      BY <1>14, <2>c
    <3> QED BY <1>4, <2>c, <2>p, <3>1, PartBytes
  <2>2. stream' \in Seq(Byte) /\ Len(stream') = r /\ \A m \in 1..r : stream'[m] = stream[n + m]
    <3>1. Len(stream) <= Len(stream)
      BY <1>4
    <3> QED BY <1>1, <1>2, <1>4, <2>r, <3>1, PartBytes
  <2>3. w \in Seq(Byte) /\ Len(w) = t /\ \A m \in 1..t : w[m] = s[e + m]
    <3>1. l <= Len(s)
      BY <2>l
    <3> QED BY <1>4, <2>l, <2>w, <3>1, PartBytes
  <2>4. d + n = e + p
    BY <2>c, <2>p
  <2>5. /\ Piece(buf', s, e, p) /\ Piece(stream', stream, n, r)
        /\ Piece(w, s, e, p + r) /\ Piece(stream, s, d, n + r)
    BY <1>1, <1>4, <2>r, <2>t, <2>1, <2>2, <2>3 DEF Piece
  <2>6. buf' \o stream' = w
    BY <1>4, <2>4, <2>5, Rejoined
  <2> QED BY <2>6, <2>l, <2>w
<1>17. due' = SubSeq(due, k + 1, Len(due))
  BY <1>2, <1>12
<1>18. \E h : Cut(due', buf' \o stream', h)
  <2>1. \E h : Cut(SubSeq(due, k + 1, Len(due)), SubSeq(s, g[k] + 1, Len(s)), h)
    BY <1>1, <1>c, <1>11, CutDrop
  <2> QED BY <1>16, <1>17, <1>e, <2>1
<1>19. /\ due' \in Seq(Seq(Byte)) /\ Len(due') = Len(due) - k
       /\ \A m \in 1..(Len(due) - k) : due'[m] = due[k + m]
  <2>1. k \in Nat /\ k <= Len(due)
    BY <1>5, <1>11
  <2>2. /\ SubSeq(due, k + 1, Len(due)) \in Seq(Seq(Byte))
        /\ Len(SubSeq(due, k + 1, Len(due))) = Len(due) - k
        /\ \A m \in 1..(Len(due) - k) : SubSeq(due, k + 1, Len(due))[m] = due[k + m]
    BY <1>1, <1>5, <2>1, PartFrames
  <2> QED BY <1>17, <2>2
<1>20. (\A m \in 1..Len(due) : IsFrame(due[m]))'
  <2>1. ASSUME NEW m \in 1..Len(due') PROVE IsFrame(due'[m])
    <3>1. m \in 1..(Len(due) - k) /\ k + m \in 1..Len(due)
      BY <1>5, <1>11, <1>19
    <3>2. due'[m] = due[k + m]
      BY <1>19, <3>1
    <3>3. IsFrame(due[k + m])
      BY <1>1, <3>1
    <3> QED BY <3>2, <3>3
  <2> QED BY <1>3, <2>1, SameFrames
<1>21. IF due' = <<>> THEN buf' = <<>> ELSE Len(buf') < Len(due'[1])
  <2>1. CASE k = Len(due)
    <3>1. due' = <<>>
      BY <1>5, <1>19, <2>1
    <3>2. Len(buf') = 0
      BY <1>4, <1>5, <1>8, <1>11, <1>14, <1>e, <2>1
    <3>3. buf' = <<>>
      BY <1>14, <3>2
    <3> QED BY <3>1, <3>3
  <2>2. CASE k # Len(due)
    <3>1. k \in 0..(Len(due) - 1) /\ k < Len(due) /\ 1 \in 1..(Len(due) - k)
      BY <1>5, <1>11, <2>2
    <3>2. due'[1] = due[k + 1] /\ due' # <<>>
      BY <1>19, <3>1
    <3>3. g[k + 1] = g[k] + Len(due[k + 1]) /\ Len(due[k + 1]) \in Nat
      BY <1>1, <1>c, <3>1, CutStep
    <3>4. d + n - e < Len(due[k + 1])
      <4>l. PICK l \in Nat : l = Len(due[k + 1])
        BY <3>3
      <4>1. d + n < e + l
        BY <1>11, <1>e, <3>1, <3>3, <4>l
      <4>2. d + n - e < l
        BY <1>4, <4>1
      <4> QED BY <4>l, <4>2
    <3> QED BY <1>14, <3>2, <3>4
  <2> QED BY <2>1, <2>2
<1> QED BY <1>13, <1>14, <1>15, <1>18, <1>19, <1>20, <1>21 DEF Intact

LEMMA InvNext == Inv /\ [Next]_vars => Inv'
<1> SUFFICES ASSUME Inv, [Next]_vars PROVE Inv'
  OBVIOUS
<1>0. kind \in Kinds /\ losses \in Nat /\ (losses = 0 => Intact)
  BY DEF Inv
<1>1. CASE Send
  <2>1. kind' = kind /\ losses' = losses
    BY <1>1 DEF Send
  <2> QED BY <1>0, <1>1, <2>1, IntactSend DEF Inv
<1>2. CASE Clear
  <2>1. kind' = kind /\ losses' = losses + 1
    BY <1>2 DEF Clear
  <2> QED BY <1>0, <2>1 DEF Inv
<1>3. ASSUME NEW n \in Cuts[kind], Deliver(n) PROVE Inv'
  <2>1. kind' = kind /\ losses' = losses
    BY <1>3 DEF Deliver
  <2>2. n \in Nat
    BY <1>0, FramerAssumption
  <2> QED BY <1>0, <1>3, <2>1, <2>2, IntactDeliver DEF Inv
<1>4. ASSUME NEW n \in Cuts[kind], Lose(n) PROVE Inv'
  <2>1. kind' = kind /\ losses' = losses + 1
    BY <1>4 DEF Lose
  <2> QED BY <1>0, <2>1 DEF Inv
<1>5. CASE UNCHANGED vars
  <2>1. /\ kind' = kind /\ losses' = losses /\ err' = err /\ out' = out /\ ended' = ended
        /\ due' = due /\ buf' = buf /\ stream' = stream
    BY <1>5 DEF vars
  <2>2. ASSUME Intact PROVE Intact'
    <3>1. (\A k \in 1..Len(due) : IsFrame(due[k]))'
      BY <2>1, <2>2, SameFrames DEF Intact
    <3> QED BY <2>1, <2>2, <3>1 DEF Intact
  <2> QED BY <1>0, <2>1, <2>2 DEF Inv
<1> QED BY <1>1, <1>2, <1>3, <1>4, <1>5 DEF Next

\* Without losses the framer returns the frames that end in a fragment, unchanged, and
\* keeps the beginning of the next one: for every packet type, all payloads that a
\* frame can hold, any fragments and any number of frames under way.
THEOREM FragmentsLeaveNoTrace == Spec => []FragmentsIgnored
<1>1. Inv => FragmentsIgnored
  <2> SUFFICES ASSUME Inv, losses = 0 PROVE ~err /\ out = ended /\ buf \o stream = FlattenSeq(due)
    BY DEF FragmentsIgnored
  <2>1. Intact
    BY DEF Inv
  <2>2. PICK g : Cut(due, buf \o stream, g)
    BY <2>1 DEF Intact
  <2>3. due \in Seq(Seq(Byte)) /\ err = FALSE /\ out = ended
    BY <2>1 DEF Intact
  <2>4. FlattenSeq(due) = buf \o stream
    BY <2>2, <2>3, Flat
  <2> QED BY <2>3, <2>4
<1> QED BY <1>1, InvInit, InvNext, PTL DEF Spec
=============================================================================
