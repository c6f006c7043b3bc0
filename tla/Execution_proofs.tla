--------------------------- MODULE Execution_proofs ---------------------------
(***************************************************************************)
(* Runs of any module and of the instrumented one, of any length.          *)
(***************************************************************************)
EXTENDS CallCounter, SequenceTheorems, FiniteSetTheorems, WellFoundedInduction,
        NaturalsInduction, TLAPS

(* Sequences *)

LEMMA SeqFacts ==
  ASSUME NEW s, IsSeq(s)
  PROVE  /\ Len(s) \in Nat /\ DOMAIN s = 1 .. Len(s)
         /\ \A k \in 1 .. Len(s) : s[k] \in ToSet(s)
BY LenProperties DEF IsSeq, ToSet

LEMMA SeqOver ==
  ASSUME NEW S, NEW s \in Seq(S)
  PROVE  IsSeq(s)
<1>1. /\ Len(s) \in Nat /\ DOMAIN s = 1 .. Len(s) /\ s \in [1 .. Len(s) -> S]
  BY LenProperties
<1>2. s \in [1 .. Len(s) -> ToSet(s)]
  BY <1>1 DEF ToSet
<1> QED
  BY <1>1, <1>2, SeqDef DEF IsSeq

LEMMA SeqAppend ==
  ASSUME NEW s, IsSeq(s), NEW e
  PROVE  /\ IsSeq(Append(s, e)) /\ Len(Append(s, e)) = Len(s) + 1
         /\ DOMAIN Append(s, e) = 1 .. Len(s) + 1
         /\ \A k \in 1 .. Len(s) : Append(s, e)[k] = s[k]
         /\ Append(s, e)[Len(s) + 1] = e
<1> DEFINE S == ToSet(s) \cup {e}
<1>1. s \in Seq(S)
  BY SeqMonotonic DEF IsSeq
<1>2. /\ Append(s, e) \in Seq(S) /\ Len(Append(s, e)) = Len(s) + 1
      /\ \A k \in 1 .. Len(s) : Append(s, e)[k] = s[k]
      /\ Append(s, e)[Len(s) + 1] = e
  BY <1>1, AppendProperties
<1>3. IsSeq(Append(s, e))
  BY <1>2, SeqOver
<1>4. DOMAIN Append(s, e) = 1 .. Len(Append(s, e))
  BY <1>2, LenProperties
<1> QED
  BY <1>2, <1>3, <1>4

LEMMA SeqConcat ==
  ASSUME NEW s, NEW t, IsSeq(s), IsSeq(t)
  PROVE  /\ IsSeq(s \o t) /\ Len(s \o t) = Len(s) + Len(t)
         /\ DOMAIN (s \o t) = 1 .. Len(s) + Len(t)
         /\ \A k \in 1 .. Len(s) : (s \o t)[k] = s[k]
         /\ \A k \in 1 .. Len(t) : (s \o t)[Len(s) + k] = t[k]
<1> DEFINE S == ToSet(s) \cup ToSet(t)
<1>1. s \in Seq(S) /\ t \in Seq(S)
  BY SeqMonotonic DEF IsSeq
<1>2. s \o t \in Seq(S)
  BY <1>1, ConcatProperties
<1>3. Len(s) \in Nat /\ Len(t) \in Nat
  BY SeqFacts
<1>4. /\ Len(s \o t) = Len(s) + Len(t)
      /\ \A i \in 1 .. Len(s) + Len(t) :
            (s \o t)[i] = IF i <= Len(s) THEN s[i] ELSE t[i - Len(s)]
  BY <1>1, ConcatProperties
<1>5. DOMAIN (s \o t) = 1 .. Len(s) + Len(t)
  BY <1>2, <1>4, LenProperties
<1>6. \A k \in 1 .. Len(s) : (s \o t)[k] = s[k]
  BY <1>3, <1>4
<1>7. \A k \in 1 .. Len(t) : (s \o t)[Len(s) + k] = t[k]
  <2> SUFFICES ASSUME NEW k \in 1 .. Len(t)
               PROVE  (s \o t)[Len(s) + k] = t[k]
    OBVIOUS
  <2>1. Len(s) + k \in 1 .. Len(s) + Len(t) /\ ~(Len(s) + k <= Len(s)) /\ (Len(s) + k) - Len(s) = k
    BY <1>3
  <2> QED
    BY <1>4, <2>1
<1> QED
  BY <1>2, <1>4, <1>5, <1>6, <1>7, SeqOver

LEMMA SeqSame ==
  ASSUME NEW s, NEW t, IsSeq(s), IsSeq(t), Len(s) = Len(t),
         \A k \in 1 .. Len(s) : s[k] = t[k]
  PROVE  s = t
<1> DEFINE S == ToSet(s) \cup ToSet(t)
<1>1. s \in Seq(S) /\ t \in Seq(S)
  BY SeqMonotonic DEF IsSeq
<1> QED
  BY <1>1, SeqEqual

LEMMA SeqFunction ==
  ASSUME NEW n \in Nat, NEW s, DOMAIN s = 1 .. n, s = [k \in 1 .. n |-> s[k]]
  PROVE  IsSeq(s) /\ Len(s) = n
<1>1. s \in [1 .. n -> ToSet(s)]
  BY DEF ToSet
<1>2. s \in Seq(ToSet(s))
  BY <1>1, SeqDef
<1> QED
  BY <1>2, LenProperties DEF IsSeq

LEMMA SeqOne ==
  ASSUME NEW e
  PROVE  IsSeq(<<e>>) /\ Len(<<e>>) = 1 /\ <<e>>[1] = e
<1>1. <<e>> \in Seq({e})
  OBVIOUS
<1> QED
  BY <1>1, SeqOver

LEMMA SeqEmpty ==
  IsSeq(<<>>) /\ Len(<<>>) = 0
<1>1. <<>> \in Seq({}) /\ Len(<<>>) = 0
  OBVIOUS
<1>2. IsSeq(<<>>)
  BY ONLY <1>1, SeqOver
<1> QED
  BY <1>1, <1>2

LEMMA SeqLast ==
  ASSUME NEW s, IsSeq(s), Len(s) > 0
  PROVE  /\ IsSeq(Front(s)) /\ Len(Front(s)) = Len(s) - 1
         /\ \A k \in 1 .. Len(s) - 1 : Front(s)[k] = s[k]
         /\ Last(s) = s[Len(s)]
<1>1. Len(s) \in Nat /\ \A k \in 1 .. Len(s) : s[k] \in ToSet(s)
  BY SeqFacts
<1>2. \A k \in 1 .. Len(s) - 1 : s[k] \in ToSet(s)
  BY <1>1
<1>3. /\ SubSeq(s, 1, Len(s) - 1) \in Seq(ToSet(s))
      /\ Len(SubSeq(s, 1, Len(s) - 1)) = IF 1 <= Len(s) - 1 THEN (Len(s) - 1) - 1 + 1 ELSE 0
      /\ \A i \in 1 .. (Len(s) - 1) - 1 + 1 : SubSeq(s, 1, Len(s) - 1)[i] = s[1 + i - 1]
  BY <1>1, <1>2, SubSeqProperties
<1>4. \A i \in 1 .. Len(s) - 1 : SubSeq(s, 1, Len(s) - 1)[i] = s[i]
  BY <1>1, <1>3
<1>5. Len(SubSeq(s, 1, Len(s) - 1)) = Len(s) - 1
  <2> DEFINE n == Len(SubSeq(s, 1, Len(s) - 1))
             m == Len(s)
  <2>1. n = IF 1 <= m - 1 THEN (m - 1) - 1 + 1 ELSE 0
    BY <1>3
  <2>2. m \in Nat /\ m > 0
    BY <1>1
  <2> HIDE DEF n, m
  <2>3. n = m - 1
    BY <2>1, <2>2
  <2> QED
    BY <2>3 DEF n, m
<1> QED
  BY <1>3, <1>4, <1>5, SeqOver DEF Front, Last


(* Induction, over a set: the numbers that have a property. *)
LEMMA NatInSet ==
  ASSUME NEW S, 0 \in S, \A n \in Nat : n \in S => n + 1 \in S
  PROVE  Nat \subseteq S
<1> DEFINE R == {ss \in Nat \X Nat : ss[1] < ss[2]}
           B == Nat \ S
<1>1. IsWellFoundedOn(R, Nat)
  BY NatLessThanWellFounded DEF OpToRel
<1> SUFFICES ASSUME B # {}
             PROVE  FALSE
  OBVIOUS
<1>2. PICK x \in B : \A y \in B : ~(<<y, x>> \in R)
  <2>1. B \subseteq Nat
    OBVIOUS
  <2> HIDE DEF R, B
  <2> QED
    BY <1>1, <2>1, WFMin
<1>3. x # 0 /\ x - 1 \in Nat
  OBVIOUS
<1>4. x - 1 \in B
  BY <1>3
<1>5. <<x - 1, x>> \in R
  BY <1>3
<1> QED
  BY <1>2, <1>4, <1>5

LEMMA LeastNatural ==
  ASSUME NEW S, S \subseteq Nat, S # {}
  PROVE  \E x \in S : \A y \in S : x <= y
<1> DEFINE R == {ss \in Nat \X Nat : ss[1] < ss[2]}
<1>1. IsWellFoundedOn(R, Nat)
  BY NatLessThanWellFounded DEF OpToRel
<1> HIDE DEF R
<1>2. PICK x \in S : \A y \in S : ~(<<y, x>> \in R)
  BY <1>1, WFMin
<1>3. ASSUME NEW y \in S
      PROVE  x <= y
  <2>1. x \in Nat /\ y \in Nat /\ ~(<<y, x>> \in R)
    BY <1>2
  <2>2. ~(y < x)
    BY <2>1 DEF R
  <2> QED
    BY <2>1, <2>2
<1> QED
  BY <1>3

LEMMA RangeInSet ==
  ASSUME NEW n \in Nat, NEW S, n > 0 => 1 \in S, \A k \in 1 .. n - 1 : k \in S => k + 1 \in S
  PROVE  1 .. n \subseteq S
<1> DEFINE T == {k \in Nat : k + 1 <= n => k + 1 \in S}
<1>1. 0 \in T
  OBVIOUS
<1>2. ASSUME NEW k \in Nat, k \in T
      PROVE  k + 1 \in T
  <2> SUFFICES ASSUME (k + 1) + 1 <= n
               PROVE  (k + 1) + 1 \in S
    OBVIOUS
  <2>1. k + 1 \in 1 .. n - 1 /\ k + 1 \in S
    BY <1>2
  <2> QED
    BY <2>1
<1>3. Nat \subseteq T
  <2> HIDE DEF T
  <2> QED
    BY <1>1, <1>2, NatInSet
<1>4. ASSUME NEW k \in 1 .. n
      PROVE  k \in S
  <2>1. k - 1 \in T /\ (k - 1) + 1 = k
    BY <1>3
  <2> QED
    BY <2>1
<1> QED
  BY <1>4

(* The prefixes of a concatenation. *)
Partials(ss, g) ==
    /\ DOMAIN g = 1 .. Len(ss) /\ g = [k \in 1 .. Len(ss) |-> g[k]]
    /\ \A k \in 1 .. Len(ss) : g[k] = IF k = 1 THEN ss[k] ELSE g[k - 1] \o ss[k]

LEMMA PartialsExist ==
  ASSUME NEW ss, IsSeq(ss)
  PROVE  \E g : Partials(ss, g)
<1> DEFINE D(n) == IF n <= Len(ss) THEN 1 .. n ELSE 1 .. Len(ss)
           To(n, g) == /\ DOMAIN g = D(n) /\ g = [k \in D(n) |-> g[k]]
                       /\ \A k \in D(n) : g[k] = IF k = 1 THEN ss[k] ELSE g[k - 1] \o ss[k]
           S == {n \in Nat : \E g : To(n, g)}
<1>0. Len(ss) \in Nat
  BY SeqFacts
<1>1. 0 \in S
  <2>1. D(0) = {}
    BY <1>0
  <2>2. To(0, [k \in D(0) |-> ss[k]])
    BY <2>1
  <2> QED
    BY <2>2
<1>2. ASSUME NEW n \in Nat, n \in S
      PROVE  n + 1 \in S
  <2>1. PICK g : To(n, g)
    BY <1>2
  <2> DEFINE h == [k \in D(n + 1) |-> IF k \in D(n) THEN g[k]
                                      ELSE IF k = 1 THEN ss[k] ELSE g[k - 1] \o ss[k]]
  <2>2. \A k \in D(n + 1) : k \in D(n) \/ k = n + 1
    BY <1>0
  <2>3. \A k \in D(n + 1) : k # 1 => k - 1 \in D(n)
    BY <1>0
  <2>4. D(n) \subseteq D(n + 1)
    BY <1>0
  <2> HIDE DEF D
  <2>5. \A k \in D(n + 1) : h[k] = IF k = 1 THEN ss[k] ELSE h[k - 1] \o ss[k]
    BY <2>1, <2>3, <2>4
  <2>6. To(n + 1, h)
    BY <2>5
  <2>7. n + 1 \in Nat
    OBVIOUS
  <2> QED
    BY <2>6, <2>7
<1>3. Nat \subseteq S
  <2> HIDE DEF S
  <2> QED
    BY <1>1, <1>2, NatInSet
<1>4. PICK g : To(Len(ss), g)
  BY <1>0, <1>3
<1>5. D(Len(ss)) = 1 .. Len(ss)
  BY <1>0
<1>6. Partials(ss, g)
  BY <1>4, <1>5 DEF Partials
<1> QED
  BY <1>6

LEMMA FlattenPartials ==
  ASSUME NEW ss, IsSeq(ss), Len(ss) > 0
  PROVE  \E g : Partials(ss, g) /\ FlattenSeq(ss) = g[Len(ss)]
<1> DEFINE Is(g) == g = [i \in 1 .. Len(ss) |-> IF i = 1 THEN ss[i] ELSE g[i - 1] \o ss[i]]
           flatten == CHOOSE g : Is(g)
<1>1. PICK g : Partials(ss, g)
  BY PartialsExist
<1>2. Is(g)
  BY <1>1 DEF Partials
<1>3. Is(flatten)
  BY <1>2
<1>4. FlattenSeq(ss) = flatten[Len(ss)]
  <2>1. Len(ss) # 0
    BY SeqFacts
  <2> QED
    BY <2>1 DEF FlattenSeq
<1>5. Partials(ss, flatten)
  <2> HIDE DEF flatten
  <2> QED
    BY <1>3 DEF Partials
<1> QED
  BY <1>4, <1>5


(* Where the parts of a concatenation end: off[k] elements belong to the   *)
(* first k parts.                                                          *)
Ends(ss, off) ==
    /\ off \in [0 .. Len(ss) -> Nat] /\ off[0] = 0
    /\ \A k \in 1 .. Len(ss) : off[k] = off[k - 1] + Len(ss[k])

Laid(ss, off, n, s) ==
    /\ IsSeq(s) /\ Len(s) = off[n]
    /\ \A k \in 1 .. n : \A j \in 1 .. Len(ss[k]) :
          off[k - 1] + j \in 1 .. off[n] /\ s[off[k - 1] + j] = ss[k][j]
    /\ \A p \in 1 .. off[n] : \E k \in 1 .. n : \E j \in 1 .. Len(ss[k]) : p = off[k - 1] + j

LEMMA LaidNext ==
  ASSUME NEW ss, NEW off, Ends(ss, off), NEW n \in 1 .. Len(ss), Len(ss) \in Nat,
         IsSeq(ss[n]), NEW s, Laid(ss, off, n - 1, s)
  PROVE  Laid(ss, off, n, s \o ss[n])
<1> DEFINE t == ss[n]
           a == off[n - 1]
<1>0. IsSeq(s) /\ IsSeq(t) /\ Len(s) = a
  BY DEF Laid
<1>1. a \in Nat /\ Len(t) \in Nat /\ off[n] = a + Len(t)
  BY <1>0, SeqFacts DEF Ends
<1> HIDE DEF t
<1>2. /\ IsSeq(s \o t) /\ Len(s \o t) = a + Len(t)
      /\ \A k \in 1 .. a : (s \o t)[k] = s[k]
      /\ \A k \in 1 .. Len(t) : (s \o t)[a + k] = t[k]
  BY ONLY <1>0, SeqConcat
<1> USE DEF t
<1>3. ASSUME NEW k \in 1 .. n, NEW j \in 1 .. Len(ss[k])
      PROVE  off[k - 1] + j \in 1 .. off[n] /\ (s \o t)[off[k - 1] + j] = ss[k][j]
  <2>1. CASE k = n
    BY <1>1, <1>2, <2>1
  <2>2. CASE k # n
    <3>1. k \in 1 .. n - 1
      BY <2>2
    <3>2. off[k - 1] + j \in 1 .. a /\ s[off[k - 1] + j] = ss[k][j]
      BY <3>1 DEF Laid
    <3>3. /\ off[k - 1] + j \in 1 .. off[n]
          /\ (s \o t)[off[k - 1] + j] = s[off[k - 1] + j]
      <4> DEFINE q == off[k - 1] + j
      <4>1. q \in 1 .. a
        BY <3>2
      <4> HIDE DEF q, t, a
      <4>2. q \in 1 .. off[n] /\ (s \o t)[q] = s[q]
        BY <1>1, <1>2, <4>1
      <4> QED
        BY <4>2 DEF q
    <3> QED
      BY <3>2, <3>3
  <2> QED
    BY <2>1, <2>2
<1>4. ASSUME NEW p \in 1 .. off[n]
      PROVE  \E k \in 1 .. n : \E j \in 1 .. Len(ss[k]) : p = off[k - 1] + j
  <2>1. CASE p <= a
    <3>1. p \in 1 .. a
      BY <1>1, <2>1
    <3>2. PICK k \in 1 .. n - 1 : \E j \in 1 .. Len(ss[k]) : p = off[k - 1] + j
      BY <3>1 DEF Laid
    <3>3. k \in 1 .. n
      OBVIOUS
    <3> QED
      BY <3>2, <3>3
  <2>2. CASE p > a
    <3>1. p - a \in 1 .. Len(t) /\ p = a + (p - a)
      BY <1>1, <2>2
    <3> QED
      BY <3>1
  <2> QED
    BY <1>1, <2>1, <2>2
<1> QED
  BY <1>1, <1>2, <1>3, <1>4 DEF Laid

LEMMA PartialStep ==
  ASSUME NEW ss, NEW g, Partials(ss, g), Len(ss) \in Nat
  PROVE  /\ Len(ss) > 0 => g[1] = ss[1] /\ 1 \in 1 .. Len(ss)
         /\ \A k \in 1 .. Len(ss) : k # 1 => g[k] = g[k - 1] \o ss[k]
<1>1. ASSUME NEW k \in 1 .. Len(ss)
      PROVE  g[k] = IF k = 1 THEN ss[k] ELSE g[k - 1] \o ss[k]
  BY DEF Partials
<1>2. Len(ss) > 0 => 1 \in 1 .. Len(ss)
  OBVIOUS
<1> QED
  BY <1>1, <1>2, Zenon

LEMMA PartialSeqs ==
  ASSUME NEW ss, IsSeq(ss), \A k \in 1 .. Len(ss) : IsSeq(ss[k]),
         NEW g, Partials(ss, g), NEW k \in 1 .. Len(ss)
  PROVE  IsSeq(g[k]) /\ Len(g[k]) \in Nat
<1> DEFINE S == {j \in 1 .. Len(ss) : IsSeq(g[j])}
<1>1. Len(ss) \in Nat
  BY SeqFacts
<1>2. 1 \in S
  <2>1. 1 \in 1 .. Len(ss) /\ Len(ss) > 0
    BY <1>1
  <2>2. g[1] = ss[1]
    BY <1>1, <2>1, PartialStep, Zenon
  <2> QED
    BY <2>1, <2>2, Zenon
<1>3. ASSUME NEW j \in 1 .. Len(ss) - 1, j \in S
      PROVE  j + 1 \in S
  <2>1. j + 1 \in 1 .. Len(ss) /\ j + 1 # 1 /\ (j + 1) - 1 = j
    BY <1>1
  <2>2. g[j + 1] = g[j] \o ss[j + 1]
    <3>1. g[j + 1] = g[(j + 1) - 1] \o ss[j + 1]
      BY <1>1, <2>1, PartialStep, Zenon
    <3> QED
      BY <2>1, <3>1, Zenon
  <2>3. IsSeq(g[j]) /\ IsSeq(ss[j + 1])
    BY <1>3, <2>1
  <2>4. IsSeq(g[j + 1])
    BY <2>2, <2>3, SeqConcat
  <2> QED
    BY <2>1, <2>4
<1>4. 1 .. Len(ss) \subseteq S
  <2> HIDE DEF S
  <2> QED
    BY <1>1, <1>2, <1>3, RangeInSet
<1>5. IsSeq(g[k])
  BY <1>4
<1> QED
  BY <1>5, SeqFacts

(* FlattenSeq lays the parts out one behind the other.                     *)
LEMMA FlattenLaid ==
  ASSUME NEW ss, IsSeq(ss), \A k \in 1 .. Len(ss) : IsSeq(ss[k])
  PROVE  \E off : Ends(ss, off) /\ Laid(ss, off, Len(ss), FlattenSeq(ss))
<1>0. Len(ss) \in Nat
  BY SeqFacts
<1>1. CASE Len(ss) = 0
  <2> DEFINE off == [k \in 0 .. Len(ss) |-> 0]
  <2>1. FlattenSeq(ss) = ss
    BY <1>1 DEF FlattenSeq
  <2>2. Ends(ss, off)
    BY <1>1 DEF Ends
  <2>3. Laid(ss, off, Len(ss), ss)
    BY <1>1 DEF Laid
  <2> QED
    BY <2>1, <2>2, <2>3
<1>2. CASE Len(ss) > 0
  <2>1. PICK g : Partials(ss, g) /\ FlattenSeq(ss) = g[Len(ss)]
    BY <1>2, FlattenPartials
  <2>2. \A k \in 1 .. Len(ss) : IsSeq(g[k]) /\ Len(g[k]) \in Nat
    BY <2>1, PartialSeqs
  <2>3. 1 \in 1 .. Len(ss) /\ g[1] = ss[1]
    BY <1>0, <1>2, <2>1, PartialStep, Zenon
  <2>4. \A k \in 2 .. Len(ss) : k - 1 \in 1 .. Len(ss) /\ g[k] = g[k - 1] \o ss[k]
    <3>1. \A k \in 2 .. Len(ss) : k - 1 \in 1 .. Len(ss) /\ k \in 1 .. Len(ss) /\ k # 1
      BY <1>0
    <3> QED
      BY <1>0, <2>1, <3>1, PartialStep, Zenon
  <2> DEFINE off == [k \in 0 .. Len(ss) |-> IF k = 0 THEN 0 ELSE Len(g[k])]
  <2>5. /\ off \in [0 .. Len(ss) -> Nat] /\ off[0] = 0
        /\ \A k \in 1 .. Len(ss) : off[k] = Len(g[k])
    BY <1>0, <2>2
  <2> HIDE DEF off
  <2>6. ASSUME NEW k \in 1 .. Len(ss)
        PROVE  off[k] = off[k - 1] + Len(ss[k])
    <3>1. Len(ss[k]) \in Nat
      BY SeqFacts
    <3>2. CASE k = 1
      BY <2>3, <2>5, <3>1, <3>2
    <3>3. CASE k # 1
      <4>1. k \in 2 .. Len(ss)
        BY <1>0, <3>3
      <4>2. IsSeq(g[k - 1]) /\ IsSeq(ss[k]) /\ g[k] = g[k - 1] \o ss[k]
        BY <2>2, <2>4, <4>1
      <4>3. Len(g[k]) = Len(g[k - 1]) + Len(ss[k])
        BY <4>2, SeqConcat
      <4> QED
        BY <2>4, <2>5, <4>1, <4>3
    <3> QED
      BY <3>2, <3>3
  <2>7. Ends(ss, off)
    BY <2>5, <2>6 DEF Ends
  <2> DEFINE S == {k \in 1 .. Len(ss) : Laid(ss, off, k, g[k])}
  <2>8. 1 \in S
    <3>1. Laid(ss, off, 1, g[1])
      <4>1. off[1 - 1] = 0 /\ off[1] = Len(ss[1]) /\ Len(ss[1]) \in Nat /\ IsSeq(ss[1])
        BY <2>2, <2>3, <2>5
      <4> QED
        BY <2>3, <4>1 DEF Laid
    <3> QED
      BY <2>3, <3>1
  <2>9. ASSUME NEW j \in 1 .. Len(ss) - 1, j \in S
        PROVE  j + 1 \in S
    <3>1. j + 1 \in 2 .. Len(ss) /\ j + 1 \in 1 .. Len(ss) /\ (j + 1) - 1 = j
      BY <1>0
    <3>2. Laid(ss, off, j, g[j])
      BY <2>9
    <3>3. g[j + 1] = g[j] \o ss[j + 1]
      BY <2>4, <3>1
    <3>4. Laid(ss, off, j + 1, g[j + 1])
      BY <1>0, <2>7, <3>1, <3>2, <3>3, LaidNext
    <3> QED
      BY <3>1, <3>4
  <2>10. 1 .. Len(ss) \subseteq S
    <3> HIDE DEF S
    <3> QED
      BY <1>0, <2>8, <2>9, RangeInSet
  <2>11. Laid(ss, off, Len(ss), g[Len(ss)])
    BY <1>0, <1>2, <2>10
  <2> QED
    BY <2>1, <2>7, <2>11
<1> QED
  BY <1>0, <1>1, <1>2

---------------------------------------------------------------------------
(* Runs, step by step *)

Advance(M, throws, m) == IF m.status = "running" THEN StepOf(M, throws, m) ELSE m

(* g is a run of n steps from m. *)
IsRun(M, throws, m, g, n) ==
    /\ g[0] = m
    /\ \A k \in 1 .. n : g[k] = Advance(M, throws, g[k - 1])

LEMMA BurstIsRun ==
  ASSUME NEW M, NEW throws, NEW m
  PROVE  \E g : IsRun(M, throws, m, g, Fuel) /\ Burst(M, throws, m) = g[Fuel]
<1> DEFINE Is(S) == S = [n \in 0 .. Fuel |->
                           IF n = 0 THEN m
                           ELSE LET s == S[n - 1]
                                IN  IF s.status = "running" THEN StepOf(M, throws, s) ELSE s]
           S == CHOOSE f : Is(f)
           T == {n \in 0 .. Fuel : \E g : g = [k \in 0 .. n |-> g[k]]
                                          /\ IsRun(M, throws, m, g, n)}
<1>0. Fuel \in Nat
  BY FuelOK
<1>1. 0 \in T
  <2>1. 0 \in 0 .. Fuel
    BY <1>0
  <2> DEFINE g == [k \in 0 .. 0 |-> m]
  <2>2. g = [k \in 0 .. 0 |-> g[k]] /\ g[0] = m
    OBVIOUS
  <2>3. IsRun(M, throws, m, g, 0)
    BY <2>2 DEF IsRun
  <2> QED
    BY <2>1, <2>2, <2>3
<1>2. ASSUME NEW n \in Nat, n + 1 <= Fuel, n \in T
      PROVE  n + 1 \in T
  <2>1. PICK g : IsRun(M, throws, m, g, n)
    BY <1>2
  <2> DEFINE h == [k \in 0 .. n + 1 |->
                     IF k <= n THEN g[k] ELSE Advance(M, throws, g[n])]
  <2>2. /\ h[0] = g[0] /\ h[n + 1] = Advance(M, throws, h[n])
        /\ \A k \in 1 .. n : h[k] = g[k] /\ h[k - 1] = g[k - 1]
    BY <1>2
  <2>3. h = [k \in 0 .. n + 1 |-> h[k]]
    OBVIOUS
  <2> HIDE DEF h
  <2>4. IsRun(M, throws, m, h, n + 1)
    <3>1. h[0] = m
      BY <2>1, <2>2 DEF IsRun
    <3>2. ASSUME NEW k \in 1 .. n + 1
          PROVE  h[k] = Advance(M, throws, h[k - 1])
      <4>1. CASE k = n + 1
        <5>1. k - 1 = n
          BY <1>2, <4>1
        <5> QED
          BY <2>2, <4>1, <5>1
      <4>2. CASE k # n + 1
        <5>1. k \in 1 .. n
          BY <1>2, <4>2
        <5> QED
          BY <2>1, <2>2, <5>1 DEF IsRun
      <4> QED
        BY <4>1, <4>2
    <3> QED
      BY <3>1, <3>2 DEF IsRun
  <2>5. n + 1 \in 0 .. Fuel
    BY <1>0, <1>2
  <2> QED
    BY <2>3, <2>4, <2>5
<1>3. Fuel \in T
  <2> DEFINE U == {n \in Nat : n <= Fuel => n \in T}
  <2>1. 0 \in U
    BY <1>1
  <2>2. \A n \in Nat : n \in U => n + 1 \in U
    <3> HIDE DEF T
    <3> QED
      BY <1>0, <1>2
  <2>3. Nat \subseteq U
    <3> HIDE DEF U
    <3> QED
      BY <2>1, <2>2, NatInSet
  <2> QED
    BY <1>0, <2>3
<1>4. PICK g : g = [k \in 0 .. Fuel |-> g[k]] /\ IsRun(M, throws, m, g, Fuel)
  BY <1>3
<1>5. Is(g)
  <2>1. \A n \in 0 .. Fuel :
          g[n] = IF n = 0 THEN m
                 ELSE IF g[n - 1].status = "running" THEN StepOf(M, throws, g[n - 1])
                      ELSE g[n - 1]
    <3> SUFFICES ASSUME NEW n \in 0 .. Fuel, n # 0
                 PROVE  g[n] = Advance(M, throws, g[n - 1])
      BY <1>4 DEF IsRun, Advance
    <3>1. n \in 1 .. Fuel
      BY <1>0
    <3> QED
      BY <1>4, <3>1 DEF IsRun
  <2> QED
    BY <1>4, <2>1
<1>6. Is(S)
  BY <1>5
<1>7. IsRun(M, throws, m, S, Fuel)
  <2> HIDE DEF S
  <2>1. S[0] = m
    BY <1>0, <1>6
  <2>2. ASSUME NEW n \in 1 .. Fuel
        PROVE  S[n] = Advance(M, throws, S[n - 1])
    <3>1. n \in 0 .. Fuel /\ n # 0
      BY <1>0
    <3> QED
      BY <1>6, <3>1 DEF Advance
  <2> QED
    BY <2>1, <2>2 DEF IsRun
<1>8. Burst(M, throws, m) = S[Fuel]
  BY DEF Burst
<1> QED
  BY <1>7, <1>8

(* A run that is no longer running stays where it is. *)
LEMMA RunStays ==
  ASSUME NEW M, NEW throws, NEW m, NEW g, NEW n \in Nat, IsRun(M, throws, m, g, n),
         NEW k \in 0 .. n, g[k].status # "running"
  PROVE  g[n] = g[k]
<1> DEFINE T == {j \in Nat : k + j <= n => g[k + j] = g[k]}
<1>1. 0 \in T
  OBVIOUS
<1>2. ASSUME NEW j \in Nat, j \in T
      PROVE  j + 1 \in T
  <2> SUFFICES ASSUME k + (j + 1) <= n
               PROVE  g[k + (j + 1)] = g[k]
    OBVIOUS
  <2>1. k + (j + 1) \in 1 .. n /\ k + (j + 1) - 1 = k + j
    OBVIOUS
  <2>2. g[k + (j + 1)] = Advance(M, throws, g[k + j])
    BY <2>1 DEF IsRun
  <2>3. g[k + j] = g[k]
    BY <1>2
  <2> QED
    BY <2>2, <2>3 DEF Advance
<1>3. Nat \subseteq T
  <2> HIDE DEF T
  <2> QED
    BY <1>1, <1>2, NatInSet
<1>4. n - k \in Nat /\ k + (n - k) = n
  OBVIOUS
<1> QED
  BY <1>3, <1>4

LEMMA RunsJoin ==
  ASSUME NEW M, NEW throws, NEW m, NEW a \in Nat, NEW b \in Nat, NEW g, NEW h,
         IsRun(M, throws, m, g, a), IsRun(M, throws, g[a], h, b)
  PROVE  \E j : IsRun(M, throws, m, j, a + b) /\ j[a + b] = h[b]
<1> DEFINE j == [k \in 0 .. a + b |-> IF k <= a THEN g[k] ELSE h[k - a]]
<1>1. j[0] = m
  BY DEF IsRun
<1>2. ASSUME NEW k \in 1 .. a + b
      PROVE  j[k] = Advance(M, throws, j[k - 1])
  <2>1. CASE k <= a
    <3>1. j[k] = g[k] /\ j[k - 1] = g[k - 1] /\ k \in 1 .. a
      BY <2>1
    <3> QED
      BY <3>1 DEF IsRun
  <2>2. CASE k > a
    <3>1. k - a \in 1 .. b /\ j[k] = h[k - a]
      BY <2>2
    <3>2. j[k - 1] = h[(k - a) - 1]
      <4>1. CASE k = a + 1
        BY <4>1 DEF IsRun
      <4>2. CASE k # a + 1
        <5>1. ~(k - 1 <= a) /\ k - 1 \in 0 .. a + b /\ (k - 1) - a = (k - a) - 1
          BY <2>2, <4>2
        <5> QED
          BY <5>1
      <4> QED
        BY <4>1, <4>2
    <3> HIDE DEF j
    <3>3. h[k - a] = Advance(M, throws, h[(k - a) - 1])
      BY <3>1 DEF IsRun
    <3> QED
      BY <3>1, <3>2, <3>3
  <2> QED
    BY <2>1, <2>2
<1>3. j[a + b] = h[b]
  <2>1. CASE b = 0
    BY <2>1 DEF IsRun
  <2>2. CASE b # 0
    <3>1. a + b \in 0 .. a + b /\ ~(a + b <= a) /\ (a + b) - a = b
      BY <2>2
    <3> QED
      BY <3>1
  <2> QED
    BY <2>1, <2>2
<1> HIDE DEF j
<1>4. IsRun(M, throws, m, j, a + b)
  BY <1>1, <1>2 DEF IsRun
<1> QED
  BY <1>3, <1>4

Bound == Fuel * Fuel

LEMMA RunIsRun ==
  ASSUME NEW M, NEW f, NEW vals, NEW throws
  PROVE  \E g : /\ IsRun(M, throws, Starting(M, f, vals), g, Bound)
                /\ Run(M, f, vals, throws) = g[Bound]
<1> DEFINE start == Starting(M, f, vals)
           Goes(m) == IF m.status = "running" THEN Burst(M, throws, m) ELSE m
           Is(R, d) == /\ R = [n \in 0 .. d |-> R[n]] /\ R[0] = start
                       /\ \A n \in 1 .. d : R[n] = Goes(R[n - 1])
           Def(R) == R = [n \in 0 .. Fuel |->
                            IF n = 0 THEN start
                            ELSE LET m == R[n - 1]
                                 IN  IF m.status = "running" THEN Burst(M, throws, m) ELSE m]
           R == CHOOSE r : Def(r)
<1>0. Fuel \in Nat
  BY FuelOK
<1> HIDE DEF start
<1>1. \E r : Is(r, Fuel)
  <2> DEFINE U == {n \in Nat : \E r : Is(r, n)}
  <2>1. 0 \in U
    <3> DEFINE r == [n \in 0 .. 0 |-> start]
    <3>1. Is(r, 0)
      OBVIOUS
    <3> QED
      BY <3>1
  <2>2. ASSUME NEW n \in Nat, n \in U
        PROVE  n + 1 \in U
    <3>1. PICK r : Is(r, n)
      BY <2>2
    <3> DEFINE q == [k \in 0 .. n + 1 |-> IF k <= n THEN r[k] ELSE Goes(r[n])]
    <3> HIDE DEF Goes
    <3>2. /\ q = [k \in 0 .. n + 1 |-> q[k]] /\ q[0] = r[0] /\ q[n + 1] = Goes(q[n])
          /\ \A k \in 1 .. n : q[k] = r[k] /\ q[k - 1] = r[k - 1]
      OBVIOUS
    <3> HIDE DEF q
    <3>3. ASSUME NEW k \in 1 .. n + 1
          PROVE  q[k] = Goes(q[k - 1])
      <4>1. CASE k = n + 1
        <5>1. k - 1 = n
          BY <4>1
        <5> QED
          BY <3>2, <4>1, <5>1
      <4>2. CASE k # n + 1
        <5>1. k \in 1 .. n
          BY <4>2
        <5> QED
          BY <3>1, <3>2, <5>1
      <4> QED
        BY <4>1, <4>2
    <3>4. Is(q, n + 1)
      BY <3>1, <3>2, <3>3
    <3>5. n + 1 \in Nat
      OBVIOUS
    <3> QED
      BY <3>4, <3>5
  <2>3. Nat \subseteq U
    <3> HIDE DEF U
    <3> QED
      BY <2>1, <2>2, NatInSet
  <2> QED
    BY <1>0, <2>3
<1>2. PICK r : Is(r, Fuel)
  BY <1>1
<1>3. Def(r)
  <2>1. \A n \in 0 .. Fuel : r[n] = IF n = 0 THEN start ELSE Goes(r[n - 1])
    <3> SUFFICES ASSUME NEW n \in 0 .. Fuel, n # 0
                 PROVE  r[n] = Goes(r[n - 1])
      BY <1>2
    <3>1. n \in 1 .. Fuel
      BY <1>0
    <3> HIDE DEF Goes
    <3> QED
      BY <1>2, <3>1
  <2> QED
    BY <1>2, <2>1
<1>4. Def(R)
  BY <1>3
<1>5. R[0] = start /\ \A n \in 1 .. Fuel : R[n] = Goes(R[n - 1])
  <2> HIDE DEF R
  <2>1. R[0] = start
    BY <1>0, <1>4
  <2>2. ASSUME NEW n \in 1 .. Fuel
        PROVE  R[n] = Goes(R[n - 1])
    <3>1. n \in 0 .. Fuel /\ n # 0
      BY <1>0
    <3> QED
      BY <1>4, <3>1
  <2> QED
    BY <2>1, <2>2
<1>6. Run(M, f, vals, throws) = R[Fuel]
  BY DEF Run, start
<1> HIDE DEF R
<1> DEFINE At(n) == \E g : IsRun(M, throws, start, g, n * Fuel) /\ R[n] = g[n * Fuel]
           T == {n \in Nat : n <= Fuel => At(n)}
<1>7. 0 \in T
  <2> DEFINE g == [k \in 0 .. 0 |-> start]
  <2>1. 0 * Fuel = 0
    BY <1>0
  <2>2. IsRun(M, throws, start, g, 0) /\ R[0] = g[0]
    BY <1>5 DEF IsRun
  <2>3. At(0)
    BY <2>1, <2>2
  <2> QED
    BY <2>3
<1>8. ASSUME NEW n \in Nat, n \in T
      PROVE  n + 1 \in T
  <2> SUFFICES ASSUME n + 1 <= Fuel
               PROVE  At(n + 1)
    OBVIOUS
  <2>1. PICK g : IsRun(M, throws, start, g, n * Fuel) /\ R[n] = g[n * Fuel]
    BY <1>0, <1>8
  <2> DEFINE a == n * Fuel
  <2>2. a \in Nat /\ (n + 1) * Fuel = a + Fuel
    BY <1>0
  <2>3. R[n + 1] = Goes(g[a])
    <3>1. n + 1 \in 1 .. Fuel /\ (n + 1) - 1 = n
      BY <1>0
    <3> HIDE DEF Goes
    <3> QED
      BY <1>5, <2>1, <3>1
  <2> HIDE DEF a
  <2>4. \E h : IsRun(M, throws, g[a], h, Fuel) /\ R[n + 1] = h[Fuel]
    <3>1. CASE g[a].status = "running"
      BY <2>3, <3>1, BurstIsRun
    <3>2. CASE g[a].status # "running"
      <4> DEFINE h == [k \in 0 .. Fuel |-> g[a]]
      <4>1. h[0] = g[a] /\ h[Fuel] = g[a]
        BY <1>0
      <4>2. \A k \in 1 .. Fuel : h[k] = g[a] /\ h[k - 1] = g[a]
        BY <1>0
      <4> HIDE DEF h
      <4>3. IsRun(M, throws, g[a], h, Fuel)
        BY <3>2, <4>1, <4>2 DEF IsRun, Advance
      <4> QED
        BY <2>3, <3>2, <4>1, <4>3
    <3> QED
      BY <3>1, <3>2
  <2>5. PICK h : IsRun(M, throws, g[a], h, Fuel) /\ R[n + 1] = h[Fuel]
    BY <2>4
  <2>6. IsRun(M, throws, start, g, a)
    BY <2>1 DEF a
  <2>7. \E j : IsRun(M, throws, start, j, a + Fuel) /\ j[a + Fuel] = h[Fuel]
    BY <1>0, <2>2, <2>5, <2>6, RunsJoin
  <2> QED
    BY <2>2, <2>5, <2>7
<1>9. At(Fuel)
  <2>1. Nat \subseteq T
    <3> HIDE DEF T
    <3> QED
      BY <1>7, <1>8, NatInSet
  <2> QED
    BY <1>0, <2>1
<1> QED
  BY <1>6, <1>9 DEF Bound, start

---------------------------------------------------------------------------
(* The code that instrumentation leaves *)

(* What the passes count on in a module of Toolchain's. *)
SourceOK(M) == ModuleOK(M) /\ {IncrCC, PrintFn} \cap ToSet(M.names) = {}

BlockOf(M, f, l) == M.fns[f].code[l]

LEMMA SourceParts ==
  ASSUME NEW M, SourceOK(M), NEW f \in DOMAIN M.fns
  PROVE  /\ FnOK(ToSet(M.names), M.fns[f]) /\ f \in ToSet(M.names)
         /\ M.fns[f].entry \in Labels(M.fns[f])
         /\ IncrCC \notin ToSet(M.names) /\ IncrCC \notin DOMAIN M.fns
BY DEF SourceOK, ModuleOK, FnOK

LEMMA BlockParts ==
  ASSUME NEW M, SourceOK(M), NEW f \in DOMAIN M.fns, NEW l \in Labels(M.fns[f])
  PROVE  /\ BlockOK(ToSet(M.names), Labels(M.fns[f]) \ {M.fns[f].entry}, BlockOf(M, f, l))
         /\ IsSeq(BlockOf(M, f, l).body) /\ Len(BlockOf(M, f, l).body) \in Nat
         /\ DOMAIN BlockOf(M, f, l).body = 1 .. Len(BlockOf(M, f, l).body)
<1>1. BlockOK(ToSet(M.names), Labels(M.fns[f]) \ {M.fns[f].entry}, BlockOf(M, f, l))
  BY SourceParts DEF FnOK, BlockOf
<1>2. IsSeq(BlockOf(M, f, l).body)
  BY <1>1 DEF BlockOK
<1> QED
  BY <1>1, <1>2, SeqFacts

(* The instruction at a position, and what it may be. *)
LEMMA InstrParts ==
  ASSUME NEW M, SourceOK(M), NEW f \in DOMAIN M.fns, NEW l \in Labels(M.fns[f]),
         NEW k \in Positions(BlockOf(M, f, l)), NEW i, i = InstrAt(BlockOf(M, f, l), k)
  PROVE  /\ i.op \in {"call", "icall", "invoke"} => i.callee \in ToSet(M.names)
         /\ k = Len(BlockOf(M, f, l).body) + 1 <=> i.op \in Terminators
         /\ i.op = "br" => /\ Len(i.to) \in {1, 2}
                           /\ \A t \in 1 .. Len(i.to) :
                                 i.to[t] \in Labels(M.fns[f]) \ {M.fns[f].entry}
         /\ i.op = "invoke" => \A t \in {1, 2} :
                                 i.to[t] \in Labels(M.fns[f]) \ {M.fns[f].entry}
<1> DEFINE b == BlockOf(M, f, l)
           T == Labels(M.fns[f]) \ {M.fns[f].entry}
<1>1. BlockOK(ToSet(M.names), T, b) /\ DOMAIN b.body = 1 .. Len(b.body) /\ Len(b.body) \in Nat
  BY BlockParts
<1> HIDE DEF b, T
<1>2. CASE k <= Len(b.body)
  <2>1. i = b.body[k] /\ k \in DOMAIN b.body
    BY <1>1, <1>2 DEF InstrAt, Positions, b
  <2>2. InstrOK(ToSet(M.names), i) /\ i.op \notin Terminators
    BY <1>1, <2>1 DEF BlockOK
  <2>3. k # Len(b.body) + 1
    BY <1>1, <1>2
  <2> QED
    BY <2>2, <2>3 DEF InstrOK, Terminators, b
<1>3. CASE ~(k <= Len(b.body))
  <2>1. i = b.term /\ k = Len(b.body) + 1
    BY <1>1, <1>3 DEF InstrAt, Positions, b
  <2>2. /\ InstrOK(ToSet(M.names), i) /\ i.op \in Terminators /\ i.to \in Seq(T)
        /\ i.op = "br" => Len(i.to) \in {1, 2}
        /\ i.op = "invoke" => Len(i.to) = 2
    BY <1>1, <2>1 DEF BlockOK
  <2>3. \A t \in 1 .. Len(i.to) : i.to[t] \in T
    BY <2>2, ElementOfSeq
  <2>4. i.op = "invoke" => \A t \in {1, 2} : i.to[t] \in T
    BY <2>2, <2>3
  <2>5. i.op \in {"call", "icall", "invoke"} => i.callee \in ToSet(M.names)
    BY <2>2 DEF InstrOK
  <2> QED
    BY <2>1, <2>2, <2>3, <2>4, <2>5 DEF T, b
<1> QED
  BY <1>2, <1>3

LEMMA InstrumentedFunction ==
  ASSUME NEW M, SourceOK(M)
  PROVE  /\ DOMAIN Instrumented(M).fns = DOMAIN M.fns
         /\ Instrumented(M).table = M.names
         /\ \A f \in DOMAIN M.fns :
              /\ Instrumented(M).fns[f].params = M.fns[f].params
              /\ Instrumented(M).fns[f].entry = M.fns[f].entry
              /\ Labels(Instrumented(M).fns[f]) = Labels(M.fns[f])
<1>1. DOMAIN Instrumented(M).fns = DOMAIN M.fns /\ Instrumented(M).table = M.names
  BY DEF Instrumented
<1>2. ASSUME NEW f \in DOMAIN M.fns
      PROVE  /\ Instrumented(M).fns[f].params = M.fns[f].params
             /\ Instrumented(M).fns[f].entry = M.fns[f].entry
             /\ Labels(Instrumented(M).fns[f]) = Labels(M.fns[f])
  <2>1. M.fns[f] = [params |-> M.fns[f].params, entry |-> M.fns[f].entry,
                    order |-> M.fns[f].order, code |-> M.fns[f].code]
    BY SourceParts DEF FnOK
  <2> QED
    BY <2>1 DEF Instrumented, Labels
<1> QED
  BY <1>1, <1>2

LEMMA InstrumentedBlock ==
  ASSUME NEW M, SourceOK(M), NEW f \in DOMAIN M.fns, NEW l \in Labels(M.fns[f]),
         NEW b, b = BlockOf(M, f, l), NEW c, c = BlockOf(Instrumented(M), f, l)
  PROVE  /\ c.phis = b.phis /\ c.term = b.term
         /\ c.body = (IF l = M.fns[f].entry THEN <<Incr(M, f)>> ELSE <<>>)
                       \o Front(WithCounts(M, b.body \o <<b.term>>))
<1>1. M.fns[f] = [params |-> M.fns[f].params, entry |-> M.fns[f].entry,
                  order |-> M.fns[f].order, code |-> M.fns[f].code]
  BY SourceParts DEF FnOK
<1>2. b = [phis |-> b.phis, body |-> b.body, term |-> b.term, pad |-> b.pad]
  BY BlockParts DEF BlockOK
<1>3. c = [b EXCEPT !.body = (IF l = M.fns[f].entry THEN <<Incr(M, f)>> ELSE <<>>)
                              \o Front(WithCounts(M, b.body \o <<b.term>>))]
  BY <1>1 DEF Instrumented, BlockOf, Labels
<1> QED
  BY <1>2, <1>3

(* Where the instructions is[1], is[2], ... are in counts, which has their *)
(* increments before them, and nothing else.                               *)
PlacedAs(M, is, n, counts, place) ==
    /\ place \in [1 .. n -> Nat]
    /\ \A k \in 1 .. n :
          /\ counts[place[k]] = is[k]
          /\ Counted(M, is[k]) => place[k] > 1 /\ counts[place[k] - 1] = Incr(M, is[k].callee)
          /\ place[k] > 0
    /\ place[1] = IF Counted(M, is[1]) THEN 2 ELSE 1
    /\ \A k \in 1 .. n - 1 :
          place[k + 1] = place[k] + (IF Counted(M, is[k + 1]) THEN 2 ELSE 1)

LEMMA WithCountsPlaced ==
  ASSUME NEW M, NEW is, IsSeq(is), Len(is) > 0
  PROVE  /\ IsSeq(WithCounts(M, is))
         /\ \E place : /\ PlacedAs(M, is, Len(is), WithCounts(M, is), place)
                       /\ Len(WithCounts(M, is)) = place[Len(is)]
<1> DEFINE ss == [k \in DOMAIN is |->
                    IF Counted(M, is[k]) THEN <<Incr(M, is[k].callee), is[k]>> ELSE <<is[k]>>]
           n == Len(is)
           C(k) == Counted(M, is[k])
<1>0. n \in Nat /\ n > 0 /\ DOMAIN is = 1 .. n
  BY SeqFacts
<1>1. IsSeq(ss) /\ Len(ss) = n
  <2>1. DOMAIN ss = 1 .. n /\ ss = [k \in 1 .. n |-> ss[k]]
    BY <1>0
  <2> HIDE DEF ss, n
  <2> QED
    BY <1>0, <2>1, SeqFunction
<1>2. ASSUME NEW k \in 1 .. n
      PROVE  /\ IsSeq(ss[k])
             /\ C(k) => Len(ss[k]) = 2 /\ ss[k][1] = Incr(M, is[k].callee) /\ ss[k][2] = is[k]
             /\ ~C(k) => Len(ss[k]) = 1 /\ ss[k][1] = is[k]
  <2>1. CASE C(k)
    <3> DEFINE x == Incr(M, is[k].callee)
               y == is[k]
    <3>1. ss[k] = <<x, y>>
      BY <1>0, <2>1
    <3> HIDE DEF x, y
    <3>2. <<x, y>> \in Seq({x, y})
      OBVIOUS
    <3>3. IsSeq(<<x, y>>)
      BY <3>2, SeqOver
    <3> HIDE DEF ss
    <3>4. IsSeq(ss[k]) /\ Len(ss[k]) = 2 /\ ss[k][1] = x /\ ss[k][2] = y
      BY <3>1, <3>3
    <3> QED
      BY <2>1, <3>4 DEF x, y
  <2>2. CASE ~C(k)
    <3>1. ss[k] = <<is[k]>>
      BY <1>0, <2>2
    <3> QED
      BY <2>2, <3>1, SeqOne
  <2> QED
    BY <2>1, <2>2
<1>3. WithCounts(M, is) = FlattenSeq(ss)
  BY DEF WithCounts
<1> DEFINE w == WithCounts(M, is)
<1> HIDE DEF ss, n, C, w
<1>4. PICK off : Ends(ss, off) /\ Laid(ss, off, n, w)
  BY <1>1, <1>2, <1>3, FlattenLaid DEF w
<1>5. /\ off \in [0 .. n -> Nat] /\ off[0] = 0
      /\ \A k \in 1 .. n : off[k] = off[k - 1] + Len(ss[k])
  BY <1>1, <1>4 DEF Ends
<1>6. /\ IsSeq(w) /\ Len(w) = off[n]
      /\ \A k \in 1 .. n : \A j \in 1 .. Len(ss[k]) : w[off[k - 1] + j] = ss[k][j]
  BY <1>4 DEF Laid
<1> DEFINE place == [k \in 1 .. n |-> off[k]]
<1>7. ASSUME NEW k \in 1 .. n
      PROVE  /\ place[k] = off[k - 1] + (IF C(k) THEN 2 ELSE 1) /\ off[k - 1] \in Nat
             /\ w[place[k]] = is[k]
             /\ C(k) => place[k] > 1 /\ w[place[k] - 1] = Incr(M, is[k].callee)
             /\ place[k] > 0
  <2> DEFINE a == off[k - 1]
  <2>1. a \in Nat /\ off[k] = a + Len(ss[k]) /\ \A j \in 1 .. Len(ss[k]) : w[a + j] = ss[k][j]
    <3>1. k - 1 \in 0 .. n
      BY <1>0
    <3>2. \A j \in 1 .. Len(ss[k]) : w[off[k - 1] + j] = ss[k][j]
      BY <1>6
    <3> QED
      BY <1>5, <3>1, <3>2
  <2> HIDE DEF a
  <2>2. place[k] = off[k]
    OBVIOUS
  <2> HIDE DEF place
  <2>3. CASE C(k)
    <3>1. Len(ss[k]) = 2 /\ ss[k][1] = Incr(M, is[k].callee) /\ ss[k][2] = is[k]
      BY <1>2, <2>3
    <3>2. place[k] = a + 2 /\ (a + 2) - 1 = a + 1 /\ w[a + 1] = ss[k][1] /\ w[a + 2] = ss[k][2]
      BY <2>1, <2>2, <3>1
    <3>3. place[k] > 1 /\ place[k] > 0
      BY <2>1, <3>2
    <3> QED
      BY <2>1, <2>3, <3>1, <3>2, <3>3 DEF a
  <2>4. CASE ~C(k)
    <3>1. Len(ss[k]) = 1 /\ ss[k][1] = is[k]
      BY <1>2, <2>4
    <3>2. place[k] = a + 1 /\ w[a + 1] = ss[k][1]
      BY <2>1, <2>2, <3>1
    <3>3. place[k] > 0
      BY <2>1, <3>2
    <3> QED
      BY <2>1, <2>4, <3>1, <3>2, <3>3 DEF a
  <2> QED
    BY <2>3, <2>4
<1>8. place[1] = IF C(1) THEN 2 ELSE 1
  BY <1>0, <1>5, <1>7
<1>9. ASSUME NEW k \in 1 .. n - 1
      PROVE  place[k + 1] = place[k] + (IF C(k + 1) THEN 2 ELSE 1)
  <2>1. k + 1 \in 1 .. n /\ (k + 1) - 1 = k /\ k \in 1 .. n
    BY <1>0
  <2>2. place[k] = off[k]
    BY <2>1
  <2> HIDE DEF place
  <2> QED
    BY <1>7, <2>1, <2>2
<1>10. place \in [1 .. n -> Nat] /\ place[n] = off[n]
  BY <1>0, <1>5
<1> HIDE DEF place
<1>11. PlacedAs(M, is, n, w, place)
  BY <1>7, <1>8, <1>9, <1>10 DEF PlacedAs, C
<1> QED
  BY <1>6, <1>10, <1>11 DEF n, w

(* Where the k-th instruction of a block is once the module is             *)
(* instrumented, and where a run of it begins.                             *)
FirstOf(M, b, place, k) == IF Counted(M, InstrAt(b, k)) THEN place[k] - 1 ELSE place[k]

Placed(M, f, l, place) ==
    LET b == BlockOf(M, f, l)
        c == BlockOf(Instrumented(M), f, l)
    IN  /\ \A k \in Positions(b) :
             /\ place[k] \in Positions(c) /\ InstrAt(c, place[k]) = InstrAt(b, k)
             /\ Counted(M, InstrAt(b, k)) =>
                   /\ place[k] - 1 \in Positions(c)
                   /\ InstrAt(c, place[k] - 1) = Incr(M, InstrAt(b, k).callee)
        /\ FirstOf(M, b, place, 1) = IF l = M.fns[f].entry THEN 2 ELSE 1
        /\ l = M.fns[f].entry => 1 \in Positions(c) /\ InstrAt(c, 1) = Incr(M, f)
        /\ \A k \in 1 .. Len(b.body) : FirstOf(M, b, place, k + 1) = place[k] + 1

LEMMA BlockPlaced ==
  ASSUME NEW M, SourceOK(M), NEW f \in DOMAIN M.fns, NEW l \in Labels(M.fns[f])
  PROVE  \E place : Placed(M, f, l, place)
<1> DEFINE b == BlockOf(M, f, l)
           c == BlockOf(Instrumented(M), f, l)
           is == b.body \o <<b.term>>
           n == Len(b.body) + 1
           w == WithCounts(M, is)
           head == IF l = M.fns[f].entry THEN <<Incr(M, f)>> ELSE <<>>
           d == IF l = M.fns[f].entry THEN 1 ELSE 0
<1>1. IsSeq(b.body) /\ Len(b.body) \in Nat
  BY BlockParts
<1>2. c.term = b.term /\ c.body = head \o Front(w)
  BY InstrumentedBlock
<1> HIDE DEF b, c, w, head
<1>3. IsSeq(<<b.term>>) /\ Len(<<b.term>>) = 1 /\ <<b.term>>[1] = b.term
  BY SeqOne
<1>4. /\ IsSeq(is) /\ Len(is) = n
      /\ \A k \in 1 .. Len(b.body) : is[k] = b.body[k]
      /\ \A k \in 1 .. 1 : is[Len(b.body) + k] = <<b.term>>[k]
  BY <1>1, <1>3, SeqConcat
<1>5. \A k \in 1 .. n : is[k] = InstrAt(b, k)
  BY <1>1, <1>3, <1>4 DEF InstrAt
<1> HIDE DEF is
<1>6. n \in Nat /\ n > 0
  BY <1>1
<1>7. /\ IsSeq(w)
      /\ \E p : PlacedAs(M, is, n, w, p) /\ Len(w) = p[n]
  BY <1>4, <1>6, WithCountsPlaced DEF w
<1>8. PICK p : PlacedAs(M, is, n, w, p) /\ Len(w) = p[n]
  BY <1>7
<1>9. p \in [1 .. n -> Nat] /\ p[1] = IF Counted(M, is[1]) THEN 2 ELSE 1
  BY <1>8 DEF PlacedAs
<1>10. ASSUME NEW k \in 1 .. n
       PROVE  /\ w[p[k]] = is[k] /\ p[k] > 0
              /\ Counted(M, is[k]) => p[k] > 1 /\ w[p[k] - 1] = Incr(M, is[k].callee)
  BY <1>8 DEF PlacedAs
<1>11. ASSUME NEW k \in 1 .. n - 1
       PROVE  p[k + 1] = p[k] + (IF Counted(M, is[k + 1]) THEN 2 ELSE 1)
  BY <1>8 DEF PlacedAs
<1>12. \A k \in 1 .. n : p[k] <= p[n]
  <2> DEFINE S == {j \in Nat : j < n => p[n - j] <= p[n]}
  <2>1. 0 \in S
    BY <1>6, <1>9
  <2>2. ASSUME NEW j \in Nat, j \in S
        PROVE  j + 1 \in S
    <3> SUFFICES ASSUME j + 1 < n
                 PROVE  p[n - (j + 1)] <= p[n]
      OBVIOUS
    <3>1. /\ n - (j + 1) \in 1 .. n - 1 /\ (n - (j + 1)) + 1 = n - j
          /\ n - (j + 1) \in 1 .. n /\ n - j \in 1 .. n /\ n \in 1 .. n
      BY <1>6
    <3>2. p[n - j] <= p[n]
      BY <1>6, <2>2
    <3>3. p[n - j] = p[n - (j + 1)] + (IF Counted(M, is[n - j]) THEN 2 ELSE 1)
      BY <1>11, <3>1
    <3>4. p[n - (j + 1)] \in Nat /\ p[n - j] \in Nat /\ p[n] \in Nat
      BY <1>9, <3>1
    <3> QED
      BY <3>2, <3>3, <3>4
  <2>3. Nat \subseteq S
    <3> HIDE DEF S
    <3> QED
      BY <2>1, <2>2, NatInSet
  <2>4. ASSUME NEW k \in 1 .. n
        PROVE  p[k] <= p[n]
    <3>1. n - k \in Nat /\ n - k < n /\ n - (n - k) = k
      BY <1>6
    <3> QED
      BY <2>3, <3>1
  <2> QED
    BY <2>4
<1>13. p[n] \in Nat /\ p[n] > 0 /\ w[p[n]] = b.term
  <2>1. n \in 1 .. n /\ is[n] = b.term
    BY <1>1, <1>5, <1>6 DEF InstrAt
  <2> QED
    BY <1>9, <1>10, <2>1
<1>14. /\ IsSeq(Front(w)) /\ Len(Front(w)) = p[n] - 1
       /\ \A k \in 1 .. p[n] - 1 : Front(w)[k] = w[k]
  BY <1>7, <1>8, <1>13, SeqLast
<1>15. IsSeq(head) /\ Len(head) = d /\ (d = 1 => head[1] = Incr(M, f))
  <2>1. CASE l = M.fns[f].entry
    BY <2>1, SeqOne DEF head
  <2>2. CASE l # M.fns[f].entry
    <3>1. head = <<>> /\ d = 0
      BY <2>2 DEF head
    <3> HIDE DEF d
    <3> QED
      BY <3>1, SeqEmpty
  <2> QED
    BY <2>1, <2>2
<1>16. /\ Len(c.body) = d + (p[n] - 1)
       /\ \A k \in 1 .. d : c.body[k] = head[k]
       /\ \A k \in 1 .. p[n] - 1 : c.body[d + k] = Front(w)[k]
  <2> DEFINE t == Front(w)
             h == c.body
  <2>1. h = head \o t /\ IsSeq(t) /\ IsSeq(head) /\ Len(t) = p[n] - 1 /\ Len(head) = d
    BY <1>2, <1>14, <1>15
  <2> HIDE DEF t, h, d
  <2>2. /\ Len(h) = Len(head) + Len(t)
        /\ \A k \in 1 .. Len(head) : h[k] = head[k]
        /\ \A k \in 1 .. Len(t) : h[Len(head) + k] = t[k]
    <3>1. /\ Len(head \o t) = Len(head) + Len(t)
          /\ \A k \in 1 .. Len(head) : (head \o t)[k] = head[k]
          /\ \A k \in 1 .. Len(t) : (head \o t)[Len(head) + k] = t[k]
      <4>1. IsSeq(head) /\ IsSeq(t)
        BY <2>1
      <4>2. ASSUME NEW x, NEW y, IsSeq(x), IsSeq(y)
            PROVE  /\ Len(x \o y) = Len(x) + Len(y)
                   /\ \A k \in 1 .. Len(x) : (x \o y)[k] = x[k]
                   /\ \A k \in 1 .. Len(y) : (x \o y)[Len(x) + k] = y[k]
        BY <4>2, SeqConcat
      <4> QED
        BY <4>1, <4>2
    <3> QED
      BY <2>1, <3>1, Zenon
  <2> QED
    BY <2>1, <2>2 DEF t, h
<1>17. d \in {0, 1}
  OBVIOUS
<1>18. ASSUME NEW k \in 1 .. p[n]
       PROVE  d + k \in Positions(c) /\ InstrAt(c, d + k) = w[k]
  <2>1. d + k \in Positions(c)
    BY <1>13, <1>16, <1>17 DEF Positions
  <2>2. CASE k = p[n]
    <3>1. ~(d + k <= Len(c.body))
      BY <1>13, <1>16, <1>17, <2>2
    <3> QED
      BY <1>2, <1>13, <2>1, <2>2, <3>1 DEF InstrAt
  <2>3. CASE k # p[n]
    <3>1. k \in 1 .. p[n] - 1 /\ d + k <= Len(c.body)
      BY <1>13, <1>16, <1>17, <2>3
    <3>2. c.body[d + k] = w[k]
      BY <1>14, <1>16, <3>1
    <3> QED
      BY <2>1, <3>1, <3>2 DEF InstrAt
  <2> QED
    BY <2>2, <2>3
<1> DEFINE place == [k \in 1 .. n |-> d + p[k]]
<1>19. Positions(b) = 1 .. n
  BY DEF Positions
<1>20. ASSUME NEW k \in Positions(b)
       PROVE  /\ place[k] \in Positions(c) /\ InstrAt(c, place[k]) = InstrAt(b, k)
              /\ Counted(M, InstrAt(b, k)) =>
                   /\ place[k] - 1 \in Positions(c)
                   /\ InstrAt(c, place[k] - 1) = Incr(M, InstrAt(b, k).callee)
  <2>1. p[k] \in 1 .. p[n] /\ place[k] = d + p[k] /\ is[k] = InstrAt(b, k) /\ k \in 1 .. n
    BY <1>5, <1>9, <1>10, <1>12, <1>19
  <2>2. place[k] \in Positions(c) /\ InstrAt(c, place[k]) = InstrAt(b, k)
    BY <1>10, <1>18, <2>1
  <2>3. ASSUME Counted(M, InstrAt(b, k))
        PROVE  /\ place[k] - 1 \in Positions(c)
               /\ InstrAt(c, place[k] - 1) = Incr(M, InstrAt(b, k).callee)
    <3>1. p[k] - 1 \in 1 .. p[n] /\ w[p[k] - 1] = Incr(M, is[k].callee)
      BY <1>10, <1>13, <2>1, <2>3
    <3>2. d + (p[k] - 1) = place[k] - 1
      BY <1>17, <2>1, <1>13
    <3>3. d + (p[k] - 1) \in Positions(c) /\ InstrAt(c, d + (p[k] - 1)) = w[p[k] - 1]
      BY <1>18, <3>1
    <3> QED
      BY <2>1, <3>1, <3>2, <3>3
  <2> QED
    BY <2>2, <2>3
<1>21. FirstOf(M, b, place, 1) = d + 1
  <2>1. 1 \in 1 .. n /\ is[1] = InstrAt(b, 1)
    BY <1>5, <1>6
  <2>2. place[1] = d + p[1]
    BY <2>1
  <2> HIDE DEF place, d
  <2> QED
    BY <1>9, <1>17, <2>1, <2>2 DEF FirstOf
<1>22. ASSUME NEW k \in 1 .. Len(b.body)
       PROVE  FirstOf(M, b, place, k + 1) = place[k] + 1
  <2>1. k \in 1 .. n - 1 /\ k + 1 \in 1 .. n /\ k \in 1 .. n
    BY <1>1
  <2>2. place[k] = d + p[k] /\ place[k + 1] = d + p[k + 1] /\ is[k + 1] = InstrAt(b, k + 1)
    BY <1>5, <2>1
  <2>3. p[k] \in Nat /\ p[k + 1] = p[k] + (IF Counted(M, is[k + 1]) THEN 2 ELSE 1)
    BY <1>9, <1>11, <2>1
  <2> HIDE DEF place, d
  <2> QED
    BY <1>17, <2>2, <2>3 DEF FirstOf
<1>23. l = M.fns[f].entry => 1 \in Positions(c) /\ InstrAt(c, 1) = Incr(M, f)
  <2> SUFFICES ASSUME l = M.fns[f].entry
               PROVE  1 \in Positions(c) /\ InstrAt(c, 1) = Incr(M, f)
    OBVIOUS
  <2>1. d = 1 /\ 1 \in 1 .. d
    OBVIOUS
  <2>2. c.body[1] = Incr(M, f) /\ 1 <= Len(c.body) /\ Len(c.body) \in Nat
    BY <1>13, <1>15, <1>16, <2>1
  <2> QED
    BY <2>2 DEF InstrAt, Positions
<1> HIDE DEF place
<1>24. Placed(M, f, l, place)
  BY <1>20, <1>21, <1>22, <1>23 DEF Placed, b, c
<1> QED
  BY <1>24

---------------------------------------------------------------------------
(* The steps of a machine, field by field *)

StartEnv(params, vals) ==
    [p \in {q.def : q \in ToSet(params)} |->
        vals[CHOOSE i \in DOMAIN vals : params[i].def = p]]

PhiEnv(phis, env, at) ==
    [x \in Defs(phis) |-> Val(env, phis[CHOOSE i \in DOMAIN phis : phis[i].def = x].from[at])]
       @@ env

IsFrame(g) == {"fn", "at", "pc", "env", "back"} \subseteq DOMAIN g

(* h is g but for what a step may change. *)
Follows(g, h) == IsFrame(h) /\ h.fn = g.fn /\ h.back = g.back

LEMMA JumpFields ==
  ASSUME NEW M, NEW g, IsFrame(g), NEW l
  PROVE  /\ Follows(g, Jump(M, g, l))
         /\ Jump(M, g, l).at = l /\ Jump(M, g, l).pc = 1
         /\ Jump(M, g, l).env = PhiEnv(BlockOf(M, g.fn, l).phis, g.env, g.at)
<1> DEFINE e == PhiEnv(BlockOf(M, g.fn, l).phis, g.env, g.at)
<1>1. Jump(M, g, l) = [g EXCEPT !.at = l, !.pc = 1, !.env = e]
  BY DEF Jump, PhiEnv, BlockOf
<1> HIDE DEF e
<1> QED
  BY <1>1 DEF IsFrame, Follows, e

LEMMA AheadFields ==
  ASSUME NEW g, IsFrame(g), NEW i, NEW v
  PROVE  /\ Follows(g, Ahead(g, i, v))
         /\ Ahead(g, i, v).at = g.at /\ Ahead(g, i, v).pc = g.pc + 1
         /\ Ahead(g, i, v).env = Bind(g.env, i.def, v)
BY DEF Ahead, IsFrame, Follows

LEMMA FollowsFollows ==
  ASSUME NEW g, NEW h, NEW j, Follows(g, h), Follows(h, j)
  PROVE  Follows(g, j)
BY DEF Follows

LEMMA ResumedFields ==
  ASSUME NEW M, NEW g, IsFrame(g), NEW i, NEW v
  PROVE  /\ Follows(g, Resumed(M, g, i, v))
         /\ i.op = "invoke" =>
              /\ Resumed(M, g, i, v).at = i.to[1] /\ Resumed(M, g, i, v).pc = 1
              /\ Resumed(M, g, i, v).env = PhiEnv(BlockOf(M, g.fn, i.to[1]).phis,
                                                  Bind(g.env, i.def, v), g.at)
         /\ i.op # "invoke" => Resumed(M, g, i, v) = Ahead(g, i, v)
<1> DEFINE a == Ahead(g, i, v)
<1>1. Follows(g, a) /\ IsFrame(a) /\ a.at = g.at /\ a.env = Bind(g.env, i.def, v) /\ a.fn = g.fn
  BY AheadFields DEF Follows
<1> HIDE DEF a
<1>2. CASE i.op = "invoke"
  <2>1. Resumed(M, g, i, v) = Jump(M, a, i.to[1])
    BY <1>2 DEF Resumed, a
  <2>2. /\ Follows(a, Jump(M, a, i.to[1])) /\ Jump(M, a, i.to[1]).at = i.to[1]
        /\ Jump(M, a, i.to[1]).pc = 1
        /\ Jump(M, a, i.to[1]).env = PhiEnv(BlockOf(M, a.fn, i.to[1]).phis, a.env, a.at)
    BY <1>1, JumpFields
  <2> QED
    BY <1>1, <1>2, <2>1, <2>2, FollowsFollows
<1>3. CASE i.op # "invoke"
  BY <1>1, <1>3 DEF Resumed, a
<1> QED
  BY <1>2, <1>3

LEMMA FrameFields ==
  ASSUME NEW M, NEW f, NEW vals, NEW i
  PROVE  /\ IsFrame(Frame(M, f, vals, i)) /\ Frame(M, f, vals, i).fn = f
         /\ Frame(M, f, vals, i).at = M.fns[f].entry /\ Frame(M, f, vals, i).pc = 1
         /\ Frame(M, f, vals, i).env = StartEnv(M.fns[f].params, vals)
         /\ Frame(M, f, vals, i).back = i
BY DEF Frame, IsFrame, StartEnv

Height(m) == Len(m.stack)

IsMachine(m) ==
    /\ {"stack", "trace", "status", "ret"} \subseteq DOMAIN m
    /\ IsSeq(m.stack) /\ Height(m) > 0 /\ IsSeq(m.trace)
    /\ \A k \in 1 .. Height(m) : IsFrame(m.stack[k])

LEMMA HeightIs ==
  ASSUME NEW m, IsMachine(m)
  PROVE  /\ Height(m) \in Nat /\ Height(m) > 0 /\ Top(m) = m.stack[Height(m)]
         /\ IsFrame(Top(m))
<1>1. IsSeq(m.stack) /\ Len(m.stack) > 0 /\ Len(m.stack) \in Nat
  BY SeqFacts DEF IsMachine, Height
<1>2. Top(m) = m.stack[Height(m)]
  BY <1>1, SeqLast DEF Top, Height
<1>3. Height(m) \in 1 .. Height(m)
  BY <1>1 DEF Height
<1> QED
  BY <1>1, <1>2, <1>3 DEF IsMachine, Height

(* m2 is m with another frame on top. *)
OnTop(m, m2, fr) ==
    /\ IsMachine(m2) /\ Height(m2) = Height(m) /\ m2.stack[Height(m)] = fr
    /\ \A k \in 1 .. Height(m) - 1 : m2.stack[k] = m.stack[k]

LEMMA WithTopFields ==
  ASSUME NEW m, IsMachine(m), NEW fr, IsFrame(fr)
  PROVE  /\ OnTop(m, WithTop(m, fr), fr)
         /\ WithTop(m, fr).trace = m.trace /\ WithTop(m, fr).status = m.status
<1> DEFINE s == Front(m.stack) \o <<fr>>
           n == Height(m)
<1>1. IsSeq(m.stack) /\ Len(m.stack) > 0 /\ n \in Nat /\ n > 0 /\ Len(m.stack) = n
  BY HeightIs DEF IsMachine, Height
<1>2. /\ IsSeq(Front(m.stack)) /\ Len(Front(m.stack)) = n - 1
      /\ \A k \in 1 .. n - 1 : Front(m.stack)[k] = m.stack[k]
  BY <1>1, SeqLast
<1>3. IsSeq(<<fr>>) /\ Len(<<fr>>) = 1 /\ <<fr>>[1] = fr
  BY SeqOne
<1>4. /\ IsSeq(s) /\ Len(s) = (n - 1) + 1
      /\ \A k \in 1 .. n - 1 : s[k] = m.stack[k]
      /\ \A k \in 1 .. 1 : s[(n - 1) + k] = <<fr>>[k]
  <2> DEFINE a == Front(m.stack)
             b == <<fr>>
  <2>1. /\ IsSeq(a \o b) /\ Len(a \o b) = Len(a) + Len(b)
        /\ \A k \in 1 .. Len(a) : (a \o b)[k] = a[k]
        /\ \A k \in 1 .. Len(b) : (a \o b)[Len(a) + k] = b[k]
    BY <1>2, <1>3, SeqConcat
  <2>2. Len(a) = n - 1 /\ Len(b) = 1 /\ s = a \o b /\ \A k \in 1 .. n - 1 : a[k] = m.stack[k]
    BY <1>2, <1>3
  <2> HIDE DEF a, s, n
  <2>3. /\ IsSeq(s) /\ Len(s) = (n - 1) + 1
        /\ \A k \in 1 .. n - 1 : s[k] = a[k]
        /\ \A k \in 1 .. 1 : s[(n - 1) + k] = b[k]
    BY <2>1, <2>2, Zenon
  <2> QED
    BY <2>2, <2>3
<1>5. s[n] = fr
  BY <1>1, <1>3, <1>4
<1>6. WithTop(m, fr) = [m EXCEPT !.stack = s]
  BY DEF WithTop
<1>7. Len(s) = n
  BY <1>1, <1>4
<1> HIDE DEF s
<1>8. /\ WithTop(m, fr).stack = s /\ WithTop(m, fr).trace = m.trace
      /\ WithTop(m, fr).status = m.status /\ DOMAIN WithTop(m, fr) = DOMAIN m
  BY <1>6 DEF IsMachine
<1>9. ASSUME NEW k \in 1 .. n
      PROVE  IsFrame(s[k])
  <2>1. CASE k = n
    BY <1>5, <2>1
  <2>2. CASE k # n
    <3>1. k \in 1 .. n - 1 /\ k \in 1 .. Height(m)
      BY <1>1, <2>2
    <3> QED
      BY <1>4, <3>1 DEF IsMachine
  <2> QED
    BY <2>1, <2>2
<1>10. IsMachine(WithTop(m, fr)) /\ Height(WithTop(m, fr)) = n
  BY <1>1, <1>4, <1>7, <1>8, <1>9 DEF IsMachine, Height
<1> QED
  BY <1>4, <1>5, <1>8, <1>10 DEF OnTop

Halted(m, m2, status) ==
    /\ IsMachine(m2) /\ m2.stack = m.stack /\ m2.trace = m.trace /\ m2.status = status

Moved(m, m2, fr) ==
    OnTop(m, m2, fr) /\ m2.trace = m.trace /\ m2.status = m.status

Popped(M, m, m2, v) ==
    /\ IsMachine(m2) /\ Height(m2) = Height(m) - 1
    /\ \A k \in 1 .. Height(m) - 2 : m2.stack[k] = m.stack[k]
    /\ m2.stack[Height(m) - 1] =
          Resumed(M, m.stack[Height(m) - 1], m.stack[Height(m)].back, v)
    /\ m2.trace = m.trace /\ m2.status = m.status

Entered(M, m, m2, i, vals) ==
    /\ IsMachine(m2) /\ Height(m2) = Height(m) + 1
    /\ \A k \in 1 .. Height(m) : m2.stack[k] = m.stack[k]
    /\ m2.stack[Height(m) + 1] = Frame(M, i.callee, vals, i)
    /\ m2.trace = Append(m.trace, Event(EnterKind(i), i.callee, vals)) /\ m2.status = m.status

Answered(M, throws, g, i, vals) ==
    IF i.op = "invoke" /\ throws THEN Jump(M, g, i.to[2]) ELSE Resumed(M, g, i, Answer(vals))

CalledOut(M, throws, m, m2, i, vals) ==
    /\ OnTop(m, m2, Answered(M, throws, Top(m), i, vals))
    /\ m2.trace = Append(m.trace, Event(i.op, i.callee, vals)) /\ m2.status = m.status

LEMMA ReturnFields ==
  ASSUME NEW M, NEW m, IsMachine(m), NEW v
  PROVE  /\ Height(m) = 1 => Halted(m, Return(M, m, v), "done")
         /\ Height(m) > 1 => Popped(M, m, Return(M, m, v), v)
<1>1. CASE Height(m) = 1
  <2>1. Return(M, m, v) = [m EXCEPT !.status = "done", !.ret = v]
    BY <1>1 DEF Return, Height
  <2> QED
    BY <1>1, <2>1 DEF Halted, IsMachine, Height
<1>2. CASE Height(m) > 1
  <2> DEFINE n == Height(m)
             up == [m EXCEPT !.stack = Front(@)]
             fr == Resumed(M, m.stack[n - 1], m.stack[n].back, v)
  <2>1. n \in Nat /\ n > 1 /\ IsSeq(m.stack) /\ Len(m.stack) = n /\ Top(m) = m.stack[n]
    BY <1>2, HeightIs DEF IsMachine, Height
  <2>2. /\ IsSeq(Front(m.stack)) /\ Len(Front(m.stack)) = n - 1
        /\ \A k \in 1 .. n - 1 : Front(m.stack)[k] = m.stack[k]
    BY <2>1, SeqLast
  <2>3. /\ up.stack = Front(m.stack) /\ up.trace = m.trace /\ up.status = m.status
        /\ DOMAIN up = DOMAIN m
    BY DEF IsMachine
  <2> HIDE DEF n, up, fr
  <2>4. IsMachine(up) /\ Height(up) = n - 1
    <3>1. Height(up) = n - 1
      BY <2>2, <2>3 DEF Height
    <3>2. \A k \in 1 .. n - 1 : IsFrame(up.stack[k])
      <4> SUFFICES ASSUME NEW k \in 1 .. n - 1
                   PROVE  IsFrame(m.stack[k])
        BY <2>2, <2>3
      <4>1. k \in 1 .. Height(m)
        BY <2>1 DEF n
      <4> QED
        BY <4>1 DEF IsMachine
    <3>3. IsSeq(up.stack) /\ IsSeq(up.trace)
      BY <2>2, <2>3 DEF IsMachine
    <3>4. Height(up) > 0
      BY <2>1, <3>1
    <3> QED
      BY <2>3, <3>1, <3>2, <3>3, <3>4 DEF IsMachine
  <2>5. Top(up) = m.stack[n - 1] /\ IsFrame(Top(up))
    <3>1. Top(up) = up.stack[n - 1] /\ IsFrame(Top(up))
      BY <2>4, HeightIs
    <3>2. n - 1 \in 1 .. n - 1
      BY <2>1
    <3> QED
      BY <2>2, <2>3, <3>1, <3>2
  <2>6. Return(M, m, v) = WithTop(up, fr)
    <3>1. Len(m.stack) # 1
      BY <2>1
    <3> QED
      BY <2>1, <2>5, <3>1 DEF Return, up, fr
  <2>7. IsFrame(fr)
    BY <2>5, ResumedFields DEF fr, Follows
  <2>8. /\ OnTop(up, WithTop(up, fr), fr)
        /\ WithTop(up, fr).trace = up.trace /\ WithTop(up, fr).status = up.status
    BY <2>4, <2>7, WithTopFields
  <2> DEFINE m2 == WithTop(up, fr)
  <2>9. /\ IsMachine(m2) /\ Height(m2) = n - 1 /\ m2.stack[n - 1] = fr
        /\ \A k \in 1 .. (n - 1) - 1 : m2.stack[k] = up.stack[k]
    BY <2>4, <2>8 DEF OnTop
  <2> HIDE DEF m2
  <2>10. \A k \in 1 .. n - 2 : m2.stack[k] = m.stack[k]
    <3> SUFFICES ASSUME NEW k \in 1 .. n - 2
                 PROVE  m2.stack[k] = m.stack[k]
      OBVIOUS
    <3>1. k \in 1 .. (n - 1) - 1 /\ k \in 1 .. n - 1
      BY <2>1
    <3> QED
      BY <2>2, <2>3, <2>9, <3>1
  <2>11. m2.trace = m.trace /\ m2.status = m.status
    BY <2>3, <2>8 DEF m2
  <2>12. Popped(M, m, m2, v)
    BY <2>9, <2>10, <2>11 DEF Popped, n, fr
  <2> QED
    BY <1>2, <2>6, <2>12 DEF m2
<1> QED
  BY <1>1, <1>2

LEMMA EnterFields ==
  ASSUME NEW M, NEW m, IsMachine(m), NEW i, NEW vals
  PROVE  Entered(M, m, Enter(M, m, i, vals), i, vals)
<1> DEFINE n == Height(m)
           fr == Frame(M, i.callee, vals, i)
           e == Event(EnterKind(i), i.callee, vals)
           m2 == Enter(M, m, i, vals)
<1>1. n \in Nat /\ IsSeq(m.stack) /\ Len(m.stack) = n /\ IsSeq(m.trace)
  BY HeightIs DEF IsMachine, Height
<1>2. IsFrame(fr)
  BY FrameFields
<1> HIDE DEF fr, e
<1>3. /\ m2.stack = Append(m.stack, fr) /\ m2.trace = Append(m.trace, e)
      /\ m2.status = m.status /\ DOMAIN m2 = DOMAIN m
  BY DEF Enter, IsMachine, fr, e
<1> HIDE DEF m2, n
<1>4. /\ IsSeq(m2.stack) /\ Len(m2.stack) = n + 1 /\ m2.stack[n + 1] = fr
      /\ \A k \in 1 .. n : m2.stack[k] = m.stack[k]
  <2>1. /\ IsSeq(Append(m.stack, fr)) /\ Len(Append(m.stack, fr)) = Len(m.stack) + 1
        /\ \A k \in 1 .. Len(m.stack) : Append(m.stack, fr)[k] = m.stack[k]
        /\ Append(m.stack, fr)[Len(m.stack) + 1] = fr
    BY <1>1, SeqAppend
  <2> QED
    BY <1>1, <1>3, <2>1, Zenon
<1>5. IsSeq(m2.trace)
  BY <1>1, <1>3, SeqAppend
<1>6. \A k \in 1 .. n + 1 : IsFrame(m2.stack[k])
  <2> SUFFICES ASSUME NEW k \in 1 .. n + 1
               PROVE  IsFrame(m2.stack[k])
    OBVIOUS
  <2>1. CASE k = n + 1
    BY <1>2, <1>4, <2>1
  <2>2. CASE k # n + 1
    <3>1. k \in 1 .. n
      BY <1>1, <2>2
    <3>2. IsFrame(m.stack[k])
      BY <3>1 DEF IsMachine, n
    <3> QED
      BY <1>4, <3>1, <3>2
  <2> QED
    BY <2>1, <2>2
<1>7. Height(m2) = n + 1 /\ n + 1 > 0
  BY <1>1, <1>4 DEF Height
<1>8. IsMachine(m2)
  BY <1>3, <1>4, <1>5, <1>6, <1>7 DEF IsMachine
<1> QED
  BY <1>3, <1>4, <1>7, <1>8 DEF Entered, n, m2, fr, e

LEMMA AnsweredFrame ==
  ASSUME NEW M, NEW throws, NEW g, IsFrame(g), NEW i, NEW vals
  PROVE  Follows(g, Answered(M, throws, g, i, vals))
BY JumpFields, ResumedFields DEF Answered

LEMMA CallOutFields ==
  ASSUME NEW M, NEW throws, NEW m, IsMachine(m), NEW i, NEW vals
  PROVE  CalledOut(M, throws, m, CallOut(M, m, i, vals, throws), i, vals)
<1> DEFINE fr == Answered(M, throws, Top(m), i, vals)
           e == Event(i.op, i.callee, vals)
           w == WithTop(m, fr)
           m2 == CallOut(M, m, i, vals, throws)
<1>1. IsFrame(fr)
  BY HeightIs, AnsweredFrame DEF Follows
<1>2. m2 = [w EXCEPT !.trace = Append(@, e)]
  BY DEF CallOut, Answered
<1> HIDE DEF fr, e, m2, w
<1>3. OnTop(m, w, fr) /\ w.trace = m.trace /\ w.status = m.status
  BY <1>1, WithTopFields DEF w
<1>4. IsMachine(w)
  BY <1>3 DEF OnTop
<1>5. /\ m2.stack = w.stack /\ m2.trace = Append(m.trace, e)
      /\ m2.status = m.status /\ DOMAIN m2 = DOMAIN w
  BY <1>2, <1>3, <1>4 DEF IsMachine
<1>6. IsSeq(m2.trace)
  <2>1. IsSeq(m.trace)
    BY DEF IsMachine
  <2> QED
    BY <1>5, <2>1, SeqAppend
<1>7. Height(m2) = Height(w)
  BY <1>5 DEF Height
<1>8. IsMachine(m2)
  BY <1>4, <1>5, <1>6, <1>7 DEF IsMachine
<1>9. OnTop(m, m2, fr)
  BY <1>3, <1>5, <1>7, <1>8 DEF OnTop
<1> QED
  BY <1>5, <1>9 DEF CalledOut, m2, fr, e

(* The step of a machine at the instruction i, whose operands are vals. *)
LEMMA StepFields ==
  ASSUME NEW M, NEW throws, NEW m, IsMachine(m), NEW m2, m2 = StepOf(M, throws, m),
         NEW i, i = Here(M, Top(m)), NEW vals, vals = Values(Top(m), i)
  PROVE  /\ Undefined \in ToSet(vals) => Halted(m, m2, "undefined")
         /\ Undefined \notin ToSet(vals) =>
              /\ i.op = "ret" /\ Height(m) = 1 => Halted(m, m2, "done")
              /\ i.op = "ret" /\ Height(m) > 1 => Popped(M, m, m2, vals[1])
              /\ i.op = "br" => Moved(m, m2, Jump(M, Top(m), Target(i, vals)))
              /\ IsCall(i) /\ i.callee \in DOMAIN M.fns => Entered(M, m, m2, i, vals)
              /\ IsCall(i) /\ i.callee \notin DOMAIN M.fns =>
                    CalledOut(M, throws, m, m2, i, vals)
              /\ i.op \notin Terminators /\ ~IsCall(i) =>
                    Moved(m, m2, Ahead(Top(m), i, Eval(i.op, i.ty, vals)))
<1>1. CASE Undefined \in ToSet(vals)
  <2>1. m2 = [m EXCEPT !.status = "undefined"]
    BY <1>1 DEF StepOf
  <2>2. Halted(m, m2, "undefined")
    BY <2>1 DEF Halted, IsMachine, Height
  <2> QED
    BY <1>1, <2>2
<1>2. CASE Undefined \notin ToSet(vals)
  <2> DEFINE g == Top(m)
             v == Eval(i.op, i.ty, vals)
  <2>1. /\ i.op = "ret" => m2 = Return(M, m, vals[1])
        /\ i.op = "br" => m2 = WithTop(m, Jump(M, g, Target(i, vals)))
        /\ IsCall(i) => m2 = IF i.callee \in DOMAIN M.fns THEN Enter(M, m, i, vals)
                             ELSE CallOut(M, m, i, vals, throws)
        /\ i.op \notin Terminators /\ ~IsCall(i) => m2 = WithTop(m, Ahead(g, i, v))
    BY <1>2 DEF StepOf, IsCall, Terminators
  <2>2. IsFrame(g)
    BY HeightIs
  <2>3. i.op = "br" => Moved(m, m2, Jump(M, g, Target(i, vals)))
    BY <2>1, <2>2, JumpFields, WithTopFields DEF Follows, Moved
  <2>4. i.op \notin Terminators /\ ~IsCall(i) => Moved(m, m2, Ahead(g, i, v))
    BY <2>1, <2>2, AheadFields, WithTopFields DEF Follows, Moved
  <2>5. IsCall(i) /\ i.callee \in DOMAIN M.fns => Entered(M, m, m2, i, vals)
    BY <2>1, EnterFields
  <2>6. IsCall(i) /\ i.callee \notin DOMAIN M.fns => CalledOut(M, throws, m, m2, i, vals)
    BY <2>1, CallOutFields
  <2>7. /\ i.op = "ret" /\ Height(m) = 1 => Halted(m, m2, "done")
        /\ i.op = "ret" /\ Height(m) > 1 => Popped(M, m, m2, vals[1])
    BY <2>1, ReturnFields
  <2> QED
    BY <1>2, <2>3, <2>4, <2>5, <2>6, <2>7
<1> QED
  BY <1>1, <1>2

---------------------------------------------------------------------------
(* Every frame of a run is at an instruction, those below the top at the   *)
(* call that the next one answers, and the trace shows calls of the code.  *)

FrameOK(M, g) ==
    /\ g.fn \in DOMAIN M.fns /\ g.at \in Labels(M.fns[g.fn])
    /\ g.pc \in Positions(BlockOf(M, g.fn, g.at))

Waiting(M, g, h) ==
    IsCall(Here(M, g)) /\ Here(M, g).callee \in DOMAIN M.fns /\ h.back = Here(M, g)

EventOK(M, e) ==
    e.kind \in {"call", "invoke", "enter"} =>
        \E f \in DOMAIN M.fns : \E l \in Labels(M.fns[f]) : \E k \in Positions(BlockOf(M, f, l)) :
            /\ InstrAt(BlockOf(M, f, l), k).op \in {"call", "invoke"}
            /\ InstrAt(BlockOf(M, f, l), k).callee = e.fn

FramesOK(M, m) ==
    /\ \A k \in 1 .. Height(m) : FrameOK(M, m.stack[k])
    /\ \A k \in 1 .. Height(m) - 1 : Waiting(M, m.stack[k], m.stack[k + 1])

TraceOK(M, trace) == \A k \in 1 .. Len(trace) : EventOK(M, trace[k])

MachineOK(M, m) == IsMachine(m) /\ FramesOK(M, m) /\ TraceOK(M, m.trace)

LEMMA HereIs ==
  ASSUME NEW M, NEW g
  PROVE  Here(M, g) = InstrAt(BlockOf(M, g.fn, g.at), g.pc)
BY DEF Here, BlockOf

(* The instruction of a frame. *)
LEMMA HereParts ==
  ASSUME NEW M, SourceOK(M), NEW g, FrameOK(M, g), NEW i, i = Here(M, g)
  PROVE  /\ IsCall(i) => i.callee \in ToSet(M.names)
         /\ g.pc = Len(BlockOf(M, g.fn, g.at).body) + 1 <=> i.op \in Terminators
         /\ i.op = "br" => /\ Len(i.to) \in {1, 2}
                           /\ \A t \in 1 .. Len(i.to) :
                                 i.to[t] \in Labels(M.fns[g.fn]) \ {M.fns[g.fn].entry}
         /\ i.op = "invoke" => \A t \in {1, 2} :
                                 i.to[t] \in Labels(M.fns[g.fn]) \ {M.fns[g.fn].entry}
BY HereIs, InstrParts DEF FrameOK, IsCall

LEMMA TargetIs ==
  ASSUME NEW M, SourceOK(M), NEW g, FrameOK(M, g), NEW i, i = Here(M, g), NEW vals, i.op = "br"
  PROVE  Target(i, vals) \in Labels(M.fns[g.fn]) \ {M.fns[g.fn].entry}
<1>1. /\ Len(i.to) \in {1, 2}
      /\ \A t \in 1 .. Len(i.to) : i.to[t] \in Labels(M.fns[g.fn]) \ {M.fns[g.fn].entry}
  BY HereParts
<1>2. PICK t \in 1 .. Len(i.to) : Target(i, vals) = i.to[t]
  <2>1. CASE Len(i.to) = 2 /\ vals[1] = 0
    <3>1. Target(i, vals) = i.to[2] /\ 2 \in 1 .. Len(i.to)
      BY <2>1 DEF Target
    <3> QED
      BY <3>1
  <2>2. CASE ~(Len(i.to) = 2 /\ vals[1] = 0)
    <3>1. Target(i, vals) = i.to[1] /\ 1 \in 1 .. Len(i.to)
      BY <1>1, <2>2 DEF Target
    <3> QED
      BY <3>1
  <2> QED
    BY <2>1, <2>2
<1> QED
  BY <1>1, <1>2

LEMMA JumpOK ==
  ASSUME NEW M, SourceOK(M), NEW g, IsFrame(g), g.fn \in DOMAIN M.fns,
         NEW l \in Labels(M.fns[g.fn])
  PROVE  FrameOK(M, Jump(M, g, l))
<1>1. Jump(M, g, l).fn = g.fn /\ Jump(M, g, l).at = l /\ Jump(M, g, l).pc = 1
  BY JumpFields DEF Follows
<1>2. 1 \in Positions(BlockOf(M, g.fn, l))
  BY BlockParts DEF Positions
<1> QED
  BY <1>1, <1>2 DEF FrameOK

LEMMA AheadOK ==
  ASSUME NEW M, SourceOK(M), NEW g, IsFrame(g), FrameOK(M, g), NEW v,
         Here(M, g).op \notin Terminators
  PROVE  /\ FrameOK(M, Ahead(g, Here(M, g), v))
         /\ g.pc \in 1 .. Len(BlockOf(M, g.fn, g.at).body)
<1> DEFINE b == BlockOf(M, g.fn, g.at)
           a == Ahead(g, Here(M, g), v)
<1>1. g.pc \in Positions(b) /\ g.pc # Len(b.body) + 1
  BY HereParts DEF FrameOK
<1>2. Len(b.body) \in Nat
  BY BlockParts DEF FrameOK
<1>3. a.fn = g.fn /\ a.at = g.at /\ a.pc = g.pc + 1
  BY AheadFields DEF Follows
<1> HIDE DEF b, a
<1>4. g.pc + 1 \in Positions(b) /\ g.pc \in 1 .. Len(b.body)
  BY <1>1, <1>2 DEF Positions
<1> QED
  BY <1>3, <1>4 DEF FrameOK, b, a

LEMMA CallIsNoTerminator ==
  ASSUME NEW i, IsCall(i), i.op # "invoke"
  PROVE  i.op \notin Terminators
BY DEF IsCall, Terminators

LEMMA ResumedOK ==
  ASSUME NEW M, SourceOK(M), NEW g, IsFrame(g), FrameOK(M, g), NEW v, IsCall(Here(M, g))
  PROVE  FrameOK(M, Resumed(M, g, Here(M, g), v))
<1> DEFINE i == Here(M, g)
           a == Ahead(g, i, v)
<1>1. CASE i.op = "invoke"
  <2>1. i.to[1] \in Labels(M.fns[g.fn])
    BY <1>1, HereParts
  <2>2. IsFrame(a) /\ a.fn = g.fn
    BY AheadFields DEF Follows
  <2>3. Resumed(M, g, i, v) = Jump(M, a, i.to[1])
    BY <1>1 DEF Resumed
  <2> HIDE DEF a, i
  <2> QED
    BY <2>1, <2>2, <2>3, JumpOK DEF FrameOK, i
<1>2. CASE i.op # "invoke"
  BY <1>2, AheadOK, CallIsNoTerminator, ResumedFields
<1> QED
  BY <1>1, <1>2

LEMMA AnsweredOK ==
  ASSUME NEW M, SourceOK(M), NEW throws, NEW g, IsFrame(g), FrameOK(M, g), NEW vals,
         IsCall(Here(M, g))
  PROVE  FrameOK(M, Answered(M, throws, g, Here(M, g), vals))
<1>1. CASE Here(M, g).op = "invoke" /\ throws
  <2>1. Here(M, g).to[2] \in Labels(M.fns[g.fn])
    BY <1>1, HereParts
  <2> QED
    BY <1>1, <2>1, JumpOK DEF Answered, FrameOK
<1>2. CASE ~(Here(M, g).op = "invoke" /\ throws)
  BY <1>2, ResumedOK DEF Answered
<1> QED
  BY <1>1, <1>2

(* A trace that grows by an event. *)
LEMMA TraceGrows ==
  ASSUME NEW M, NEW trace, IsSeq(trace), TraceOK(M, trace), NEW e, EventOK(M, e)
  PROVE  TraceOK(M, Append(trace, e))
<1>1. /\ Len(trace) \in Nat /\ Len(Append(trace, e)) = Len(trace) + 1
      /\ \A k \in 1 .. Len(trace) : Append(trace, e)[k] = trace[k]
      /\ Append(trace, e)[Len(trace) + 1] = e
  BY SeqFacts, SeqAppend
<1> SUFFICES ASSUME NEW k \in 1 .. Len(trace) + 1
             PROVE  EventOK(M, Append(trace, e)[k])
  BY <1>1 DEF TraceOK
<1>2. CASE k = Len(trace) + 1
  BY <1>1, <1>2
<1>3. CASE k # Len(trace) + 1
  <2>1. k \in 1 .. Len(trace)
    BY <1>1, <1>3
  <2> QED
    BY <1>1, <2>1 DEF TraceOK
<1> QED
  BY <1>2, <1>3

LEMMA OnTopOK ==
  ASSUME NEW M, NEW m, MachineOK(M, m), NEW m2, NEW fr, OnTop(m, m2, fr), FrameOK(M, fr),
         fr.back = Top(m).back
  PROVE  FramesOK(M, m2)
<1> DEFINE n == Height(m)
<1>1. n \in Nat /\ n > 0 /\ Top(m) = m.stack[n]
  BY HeightIs DEF MachineOK
<1>2. /\ Height(m2) = n /\ m2.stack[n] = fr
      /\ \A k \in 1 .. n - 1 : m2.stack[k] = m.stack[k]
  BY DEF OnTop
<1>3. /\ \A k \in 1 .. n : FrameOK(M, m.stack[k])
      /\ \A k \in 1 .. n - 1 : Waiting(M, m.stack[k], m.stack[k + 1])
  BY DEF MachineOK, FramesOK
<1> HIDE DEF n
<1>4. ASSUME NEW k \in 1 .. n
      PROVE  FrameOK(M, m2.stack[k])
  <2>1. CASE k = n
    BY <1>2, <2>1
  <2>2. CASE k # n
    <3>1. k \in 1 .. n - 1
      BY <1>1, <2>2
    <3> QED
      BY <1>2, <1>3, <3>1
  <2> QED
    BY <2>1, <2>2
<1>5. ASSUME NEW k \in 1 .. n - 1
      PROVE  Waiting(M, m2.stack[k], m2.stack[k + 1])
  <2>1. m2.stack[k] = m.stack[k] /\ Waiting(M, m.stack[k], m.stack[k + 1])
    BY <1>2, <1>3
  <2>2. m2.stack[k + 1].back = m.stack[k + 1].back
    <3>1. CASE k + 1 = n
      BY <1>1, <1>2, <3>1
    <3>2. CASE k + 1 # n
      <4>1. k + 1 \in 1 .. n - 1
        BY <1>1, <3>2
      <4> QED
        BY <1>2, <4>1
    <3> QED
      BY <3>1, <3>2
  <2> QED
    BY <2>1, <2>2 DEF Waiting
<1> QED
  BY <1>2, <1>4, <1>5 DEF FramesOK

LEMMA PoppedOK ==
  ASSUME NEW M, SourceOK(M), NEW m, MachineOK(M, m), Height(m) > 1,
         NEW m2, NEW v, Popped(M, m, m2, v)
  PROVE  FramesOK(M, m2)
<1> DEFINE n == Height(m)
           g == m.stack[n - 1]
           fr == Resumed(M, g, m.stack[n].back, v)
<1>1. n \in Nat /\ n > 1
  BY HeightIs DEF MachineOK
<1>2. /\ Height(m2) = n - 1 /\ m2.stack[n - 1] = fr
      /\ \A k \in 1 .. n - 2 : m2.stack[k] = m.stack[k]
  BY DEF Popped
<1>3. /\ \A k \in 1 .. n : FrameOK(M, m.stack[k]) /\ IsFrame(m.stack[k])
      /\ \A k \in 1 .. n - 1 : Waiting(M, m.stack[k], m.stack[k + 1])
  BY DEF MachineOK, FramesOK, IsMachine
<1>4. FrameOK(M, fr) /\ fr.back = g.back
  <2>1. FrameOK(M, g) /\ IsFrame(g) /\ Waiting(M, g, m.stack[n])
    <3>1. n - 1 \in 1 .. n /\ n - 1 \in 1 .. n - 1 /\ (n - 1) + 1 = n
      BY <1>1
    <3> HIDE DEF n
    <3>2. Waiting(M, m.stack[n - 1], m.stack[(n - 1) + 1])
      BY <1>3, <3>1
    <3> QED
      BY <1>3, <3>1, <3>2
  <2>2. m.stack[n].back = Here(M, g) /\ IsCall(Here(M, g))
    BY <2>1 DEF Waiting
  <2> HIDE DEF g, n
  <2> QED
    BY <2>1, <2>2, ResumedOK, ResumedFields DEF Follows
<1> HIDE DEF fr, n
<1>5. ASSUME NEW k \in 1 .. n - 1
      PROVE  FrameOK(M, m2.stack[k])
  <2>1. CASE k = n - 1
    BY <1>2, <1>4, <2>1
  <2>2. CASE k # n - 1
    <3>1. k \in 1 .. n - 2 /\ k \in 1 .. n
      BY <1>1, <2>2
    <3> QED
      BY <1>2, <1>3, <3>1
  <2> QED
    BY <2>1, <2>2
<1>6. ASSUME NEW k \in 1 .. (n - 1) - 1
      PROVE  Waiting(M, m2.stack[k], m2.stack[k + 1])
  <2>0. k \in 1 .. n - 1 /\ k \in 1 .. n - 2
    BY <1>1
  <2>1. m2.stack[k] = m.stack[k] /\ Waiting(M, m.stack[k], m.stack[k + 1])
    BY <1>2, <1>3, <2>0
  <2>2. m2.stack[k + 1].back = m.stack[k + 1].back
    <3>1. CASE k + 1 = n - 1
      BY <1>1, <1>2, <1>4, <3>1
    <3>2. CASE k + 1 # n - 1
      <4>1. k + 1 \in 1 .. n - 2
        BY <1>1, <3>2
      <4> QED
        BY <1>2, <4>1
    <3> QED
      BY <3>1, <3>2
  <2> QED
    BY <2>1, <2>2 DEF Waiting
<1> QED
  BY <1>2, <1>5, <1>6 DEF FramesOK

LEMMA EnteredOK ==
  ASSUME NEW M, SourceOK(M), NEW m, MachineOK(M, m), NEW vals, NEW m2,
         NEW i, i = Here(M, Top(m)), IsCall(i), i.callee \in DOMAIN M.fns,
         Entered(M, m, m2, i, vals)
  PROVE  FramesOK(M, m2)
<1> DEFINE n == Height(m)
           fr == Frame(M, i.callee, vals, i)
<1>1. n \in Nat /\ n > 0 /\ Top(m) = m.stack[n]
  BY HeightIs DEF MachineOK
<1>2. /\ Height(m2) = n + 1 /\ m2.stack[n + 1] = fr
      /\ \A k \in 1 .. n : m2.stack[k] = m.stack[k]
  BY DEF Entered
<1>3. /\ \A k \in 1 .. n : FrameOK(M, m.stack[k])
      /\ \A k \in 1 .. n - 1 : Waiting(M, m.stack[k], m.stack[k + 1])
  BY DEF MachineOK, FramesOK
<1>4. FrameOK(M, fr) /\ fr.back = i
  <2> DEFINE f == i.callee
             e == M.fns[f].entry
  <2>1. fr.fn = f /\ fr.at = e /\ fr.pc = 1 /\ fr.back = i
    BY FrameFields
  <2>2. e \in Labels(M.fns[f])
    BY SourceParts
  <2> HIDE DEF fr, f, e
  <2>3. Len(BlockOf(M, f, e).body) \in Nat
    BY <2>2, BlockParts DEF f
  <2>4. 1 \in Positions(BlockOf(M, f, e))
    BY <2>3 DEF Positions
  <2> QED
    BY <2>1, <2>2, <2>4 DEF FrameOK, f
<1> HIDE DEF fr, n
<1>5. ASSUME NEW k \in 1 .. n + 1
      PROVE  FrameOK(M, m2.stack[k])
  <2>1. CASE k = n + 1
    BY <1>2, <1>4, <2>1
  <2>2. CASE k # n + 1
    <3>1. k \in 1 .. n
      BY <1>1, <2>2
    <3> QED
      BY <1>2, <1>3, <3>1
  <2> QED
    BY <2>1, <2>2
<1>6. ASSUME NEW k \in 1 .. (n + 1) - 1
      PROVE  Waiting(M, m2.stack[k], m2.stack[k + 1])
  <2>1. CASE k = n
    <3>1. m2.stack[k] = Top(m) /\ m2.stack[k + 1] = fr
      BY <1>1, <1>2, <2>1
    <3> QED
      BY <1>4, <3>1 DEF Waiting
  <2>2. CASE k # n
    <3>1. k \in 1 .. n - 1 /\ k \in 1 .. n /\ k + 1 \in 1 .. n
      BY <1>1, <2>2
    <3> QED
      BY <1>2, <1>3, <3>1
  <2> QED
    BY <2>1, <2>2
<1> QED
  BY <1>2, <1>5, <1>6 DEF FramesOK

LEMMA EventHere ==
  ASSUME NEW M, NEW g, FrameOK(M, g), IsCall(Here(M, g)), NEW vals,
         NEW kind \in {Here(M, g).op, EnterKind(Here(M, g))}
  PROVE  EventOK(M, Event(kind, Here(M, g).callee, vals))
<1> DEFINE e == Event(kind, Here(M, g).callee, vals)
<1>1. e.kind = kind /\ e.fn = Here(M, g).callee
  BY DEF Event
<1>2. Here(M, g) = InstrAt(BlockOf(M, g.fn, g.at), g.pc)
  BY HereIs
<1>3. kind \in {"call", "invoke", "enter"} => Here(M, g).op \in {"call", "invoke"}
  BY DEF IsCall, EnterKind
<1> SUFFICES ASSUME e.kind \in {"call", "invoke", "enter"}
             PROVE  EventOK(M, e)
  BY DEF EventOK
<1> HIDE DEF e
<1>4. \E k \in Positions(BlockOf(M, g.fn, g.at)) :
         /\ InstrAt(BlockOf(M, g.fn, g.at), k).op \in {"call", "invoke"}
         /\ InstrAt(BlockOf(M, g.fn, g.at), k).callee = e.fn
  BY <1>1, <1>2, <1>3 DEF FrameOK
<1> QED
  BY <1>4 DEF EventOK, FrameOK

LEMMA EventStart ==
  ASSUME NEW M, NEW f, NEW vals
  PROVE  EventOK(M, Event("start", f, vals))
BY DEF EventOK, Event

LEMMA StepOK ==
  ASSUME NEW M, SourceOK(M), NEW throws, NEW m, MachineOK(M, m)
  PROVE  MachineOK(M, StepOf(M, throws, m))
<1> DEFINE g == Top(m)
           i == Here(M, g)
           vals == Values(g, i)
           m2 == StepOf(M, throws, m)
<1>1. IsMachine(m) /\ FramesOK(M, m) /\ TraceOK(M, m.trace) /\ IsSeq(m.trace)
  BY DEF MachineOK, IsMachine
<1>2. IsFrame(g) /\ FrameOK(M, g) /\ Height(m) \in Nat /\ Height(m) > 0
  <2>1. IsFrame(g) /\ Height(m) \in Nat /\ Height(m) > 0 /\ g = m.stack[Height(m)]
    BY <1>1, HeightIs
  <2>2. Height(m) \in 1 .. Height(m)
    BY <2>1
  <2> HIDE DEF g
  <2> QED
    BY <1>1, <2>1, <2>2 DEF FramesOK
<1>3. ASSUME NEW s, Halted(m, m2, s)
      PROVE  MachineOK(M, m2)
  BY <1>1, <1>3 DEF Halted, MachineOK, FramesOK, Height
<1>4. ASSUME NEW fr, Moved(m, m2, fr), FrameOK(M, fr), Follows(g, fr)
      PROVE  MachineOK(M, m2)
  <2>1. IsMachine(m2) /\ m2.trace = m.trace
    BY <1>4 DEF Moved, OnTop
  <2>2. FramesOK(M, m2)
    BY <1>4, OnTopOK DEF Moved, Follows
  <2> QED
    BY <1>1, <2>1, <2>2 DEF MachineOK
<1> SUFFICES MachineOK(M, m2)
  OBVIOUS
<1> HIDE DEF m2, i, g, vals
<1>5. CASE Undefined \in ToSet(vals)
  BY <1>1, <1>3, <1>5, StepFields DEF m2, i, g, vals
<1>6. CASE Undefined \notin ToSet(vals)
  <2>1. /\ i.op = "ret" /\ Height(m) = 1 => Halted(m, m2, "done")
        /\ i.op = "ret" /\ Height(m) > 1 => Popped(M, m, m2, vals[1])
        /\ i.op = "br" => Moved(m, m2, Jump(M, g, Target(i, vals)))
        /\ IsCall(i) /\ i.callee \in DOMAIN M.fns => Entered(M, m, m2, i, vals)
        /\ IsCall(i) /\ i.callee \notin DOMAIN M.fns => CalledOut(M, throws, m, m2, i, vals)
        /\ i.op \notin Terminators /\ ~IsCall(i) =>
              Moved(m, m2, Ahead(g, i, Eval(i.op, i.ty, vals)))
    BY <1>1, <1>6, StepFields DEF m2, i, g, vals
  <2>2. CASE i.op = "ret" /\ Height(m) = 1
    BY <1>3, <2>1, <2>2
  <2>3. CASE i.op = "ret" /\ Height(m) > 1
    <3>1. Popped(M, m, m2, vals[1])
      BY <2>1, <2>3
    <3>2. IsMachine(m2) /\ m2.trace = m.trace
      BY <3>1 DEF Popped
    <3>3. FramesOK(M, m2)
      BY <2>3, <3>1, PoppedOK
    <3> QED
      BY <1>1, <3>2, <3>3 DEF MachineOK
  <2>4. CASE i.op = "br"
    <3>1. Target(i, vals) \in Labels(M.fns[g.fn])
      BY <1>2, <2>4, TargetIs DEF i
    <3>2. FrameOK(M, Jump(M, g, Target(i, vals))) /\ Follows(g, Jump(M, g, Target(i, vals)))
      BY <1>2, <3>1, JumpOK, JumpFields DEF FrameOK
    <3> QED
      BY <1>4, <2>1, <2>4, <3>2
  <2>5. CASE IsCall(i) /\ i.callee \in DOMAIN M.fns
    <3>1. Entered(M, m, m2, i, vals)
      BY <2>1, <2>5
    <3>2. IsMachine(m2) /\ m2.trace = Append(m.trace, Event(EnterKind(i), i.callee, vals))
      BY <3>1 DEF Entered
    <3>3. TraceOK(M, m2.trace)
      BY <1>1, <1>2, <2>5, <3>2, TraceGrows, EventHere DEF i
    <3>4. FramesOK(M, m2)
      BY <2>5, <3>1, EnteredOK DEF i, g
    <3> QED
      BY <3>2, <3>3, <3>4 DEF MachineOK
  <2>6. CASE IsCall(i) /\ i.callee \notin DOMAIN M.fns
    <3>1. CalledOut(M, throws, m, m2, i, vals)
      BY <2>1, <2>6
    <3> DEFINE fr == Answered(M, throws, g, i, vals)
    <3>2. OnTop(m, m2, fr) /\ m2.trace = Append(m.trace, Event(i.op, i.callee, vals))
      BY <3>1 DEF CalledOut, g
    <3>3. FrameOK(M, fr) /\ Follows(g, fr)
      BY <1>2, <2>6, AnsweredOK, AnsweredFrame DEF i
    <3> HIDE DEF fr
    <3>4. FramesOK(M, m2)
      BY <3>2, <3>3, OnTopOK DEF Follows, g
    <3>5. TraceOK(M, m2.trace)
      BY <1>1, <1>2, <2>6, <3>2, TraceGrows, EventHere DEF i
    <3>6. IsMachine(m2)
      BY <3>2 DEF OnTop
    <3> QED
      BY <3>4, <3>5, <3>6 DEF MachineOK
  <2>7. CASE i.op \notin Terminators /\ ~IsCall(i)
    <3> DEFINE fr == Ahead(g, i, Eval(i.op, i.ty, vals))
    <3>1. Moved(m, m2, fr)
      BY <2>1, <2>7
    <3>2. FrameOK(M, fr) /\ Follows(g, fr)
      BY <1>2, <2>7, AheadOK, AheadFields DEF i
    <3> HIDE DEF fr
    <3> QED
      BY <1>4, <3>1, <3>2
  <2>8. i.op \in Terminators => i.op \in {"ret", "br"} \/ IsCall(i)
    BY DEF Terminators, IsCall
  <2> QED
    BY <1>2, <2>2, <2>3, <2>4, <2>5, <2>6, <2>7, <2>8
<1> QED
  BY <1>5, <1>6

LEMMA StartingOK ==
  ASSUME NEW M, SourceOK(M), NEW f \in DOMAIN M.fns, NEW vals
  PROVE  MachineOK(M, Starting(M, f, vals))
<1> DEFINE m == Starting(M, f, vals)
           fr == Frame(M, f, vals, None)
           e == Event("start", f, vals)
           l == M.fns[f].entry
<1>1. m.stack = <<fr>> /\ m.trace = <<e>> /\ DOMAIN m = {"stack", "trace", "status", "ret"}
  BY DEF Starting
<1>2. IsFrame(fr) /\ fr.fn = f /\ fr.at = l /\ fr.pc = 1
  BY FrameFields
<1>3. l \in Labels(M.fns[f])
  BY SourceParts
<1>4. EventOK(M, e)
  BY EventStart
<1> HIDE DEF fr, e, m, l
<1>5. Len(BlockOf(M, f, l).body) \in Nat
  BY <1>3, BlockParts
<1>6. FrameOK(M, fr)
  BY <1>2, <1>3, <1>5 DEF FrameOK, Positions
<1>7. IsSeq(<<fr>>) /\ Len(<<fr>>) = 1 /\ <<fr>>[1] = fr
  BY SeqOne
<1>8. IsSeq(<<e>>) /\ Len(<<e>>) = 1 /\ <<e>>[1] = e
  BY SeqOne
<1>9. Height(m) = 1 /\ m.stack[1] = fr /\ IsSeq(m.stack) /\ IsSeq(m.trace)
  BY <1>1, <1>7, <1>8 DEF Height
<1>10. IsMachine(m)
  BY <1>1, <1>2, <1>9 DEF IsMachine
<1>11. FramesOK(M, m)
  BY <1>6, <1>9 DEF FramesOK
<1>12. TraceOK(M, m.trace)
  BY <1>1, <1>4, <1>8 DEF TraceOK
<1> QED
  BY <1>10, <1>11, <1>12 DEF MachineOK, m

LEMMA RunOK ==
  ASSUME NEW M, SourceOK(M), NEW f \in DOMAIN M.fns, NEW vals, NEW throws,
         NEW g, NEW n \in Nat, IsRun(M, throws, Starting(M, f, vals), g, n),
         NEW k \in 0 .. n
  PROVE  MachineOK(M, g[k])
<1> DEFINE S == {j \in Nat : j <= n => MachineOK(M, g[j])}
<1>1. 0 \in S
  BY StartingOK DEF IsRun
<1>2. ASSUME NEW j \in Nat, j \in S
      PROVE  j + 1 \in S
  <2> SUFFICES ASSUME j + 1 <= n
               PROVE  MachineOK(M, g[j + 1])
    OBVIOUS
  <2>1. MachineOK(M, g[j])
    BY <1>2
  <2>2. j + 1 \in 1 .. n /\ (j + 1) - 1 = j
    OBVIOUS
  <2>3. g[j + 1] = Advance(M, throws, g[j])
    BY <2>2 DEF IsRun
  <2> QED
    BY <2>1, <2>3, StepOK DEF Advance
<1>3. Nat \subseteq S
  <2> HIDE DEF S
  <2> QED
    BY <1>1, <1>2, NatInSet
<1> QED
  BY <1>3

(* The trace of a run, and how it ended, are those of its machine. *)
LEMMA OutcomeIs ==
  ASSUME NEW M, NEW f, NEW vals, NEW throws, NEW m, m = Run(M, f, vals, throws), IsMachine(m)
  PROVE  /\ Outcome(M, f, vals, throws).trace = m.trace
         /\ Outcome(M, f, vals, throws).status = m.status
BY DEF Outcome, IsMachine

LEMMA BoundIsNat == Bound \in Nat
BY FuelOK DEF Bound

LEMMA OutcomeTraceOK ==
  ASSUME NEW M, SourceOK(M), NEW f \in DOMAIN M.fns, NEW vals, NEW throws
  PROVE  /\ TraceOK(M, Outcome(M, f, vals, throws).trace)
         /\ IsSeq(Outcome(M, f, vals, throws).trace)
<1>1. PICK g : /\ IsRun(M, throws, Starting(M, f, vals), g, Bound)
               /\ Run(M, f, vals, throws) = g[Bound]
  BY RunIsRun
<1>2. Bound \in Nat /\ Bound \in 0 .. Bound
  BY BoundIsNat
<1>3. MachineOK(M, g[Bound])
  BY <1>1, <1>2, RunOK
<1> QED
  BY <1>1, <1>3, OutcomeIs DEF MachineOK, IsMachine

(* The static report has every function that a run calls where the code    *)
(* names it: StaticCount misses no call site, and no run calls from        *)
(* anywhere else.                                                          *)
THEOREM StaticCountCoversRuns ==
  ASSUME NEW M, SourceOK(M), NEW f \in DOMAIN M.fns, NEW vals, NEW throws,
         NEW k \in DOMAIN Outcome(M, f, vals, throws).trace,
         Outcome(M, f, vals, throws).trace[k].kind \in {"call", "invoke", "enter"}
  PROVE  Outcome(M, f, vals, throws).trace[k].fn \in DOMAIN StaticCount(M)
<1> DEFINE trace == Outcome(M, f, vals, throws).trace
<1>1. TraceOK(M, trace) /\ DOMAIN trace = 1 .. Len(trace)
  BY OutcomeTraceOK, SeqFacts
<1>2. EventOK(M, trace[k])
  BY <1>1 DEF TraceOK
<1> HIDE DEF trace
<1>h. PICK h \in DOMAIN M.fns : \E l \in Labels(M.fns[h]) : \E j \in Positions(BlockOf(M, h, l)) :
        /\ InstrAt(BlockOf(M, h, l), j).op \in {"call", "invoke"}
        /\ InstrAt(BlockOf(M, h, l), j).callee = trace[k].fn
  BY <1>2 DEF EventOK, trace
<1>l. PICK l \in Labels(M.fns[h]) : \E j \in Positions(BlockOf(M, h, l)) :
        /\ InstrAt(BlockOf(M, h, l), j).op \in {"call", "invoke"}
        /\ InstrAt(BlockOf(M, h, l), j).callee = trace[k].fn
  BY <1>h
<1>3. PICK j \in Positions(BlockOf(M, h, l)) :
        /\ InstrAt(BlockOf(M, h, l), j).op \in {"call", "invoke"}
        /\ InstrAt(BlockOf(M, h, l), j).callee = trace[k].fn
  BY <1>l
<1>4. j \in CallSites(M.fns[h].code[l])
  BY <1>3 DEF CallSites, BlockOf, trace
<1> DEFINE sites == UNION {UNION {{<<a, b, c>> : c \in CallSites(M.fns[a].code[b])}
                                    : b \in Labels(M.fns[a])} : a \in DOMAIN M.fns}
<1>5. <<h, l, j>> \in sites
  <2>1. <<h, l, j>> \in {<<h, l, c>> : c \in CallSites(M.fns[h].code[l])}
    BY <1>4
  <2>2. <<h, l, j>> \in UNION {{<<h, b, c>> : c \in CallSites(M.fns[h].code[b])}
                                : b \in Labels(M.fns[h])}
    BY <2>1
  <2> QED
    BY <2>2
<1>6. InstrAt(M.fns[h].code[l], j).callee = trace[k].fn
  BY <1>3 DEF BlockOf
<1>7. DOMAIN StaticCount(M) = {InstrAt(M.fns[s[1]].code[s[2]], s[3]).callee : s \in sites}
  BY DEF StaticCount
<1> DEFINE s == <<h, l, j>>
<1>8. trace[k].fn \in DOMAIN StaticCount(M)
  <2>1. s \in sites /\ InstrAt(M.fns[s[1]].code[s[2]], s[3]).callee = trace[k].fn
    BY <1>5, <1>6
  <2> HIDE DEF sites, s
  <2> QED
    BY <1>7, <2>1
<1> QED
  BY <1>8 DEF trace


---------------------------------------------------------------------------
(* Counting events *)

Increment(trace, n) == {x \in Increments(trace) : x[2] = n}

LEMMA CallsGrow ==
  ASSUME NEW trace, IsSeq(trace), NEW f, IsFiniteSet(CallsIn(trace, f)), NEW e
  PROVE  /\ IsFiniteSet(CallsIn(Append(trace, e), f))
         /\ Cardinality(CallsIn(Append(trace, e), f)) =
              Cardinality(CallsIn(trace, f)) + (IF e.fn = f /\ e.kind # "icall" THEN 1 ELSE 0)
<1> DEFINE n == Len(trace)
           longer == Append(trace, e)
           A == CallsIn(trace, f)
           B == CallsIn(longer, f)
<1>1. /\ n \in Nat /\ DOMAIN trace = 1 .. n /\ DOMAIN longer = 1 .. n + 1
      /\ \A k \in 1 .. n : longer[k] = trace[k]
      /\ longer[n + 1] = e
  BY SeqFacts, SeqAppend
<1>2. A \subseteq 1 .. n
  BY <1>1 DEF CallsIn
<1> HIDE DEF n, longer
<1>3. Cardinality(A) \in Nat
  BY FS_CardinalityType
<1>4. CASE e.fn = f /\ e.kind # "icall"
  <2>1. B = A \cup {n + 1}
    BY <1>1, <1>4 DEF CallsIn
  <2>2. n + 1 \notin A
    BY <1>1, <1>2
  <2> HIDE DEF A, B
  <2>3. IsFiniteSet(B) /\ Cardinality(B) = Cardinality(A) + 1
    BY <2>1, <2>2, FS_AddElement DEF A
  <2> QED
    BY <1>4, <2>3 DEF B, A, longer
<1>5. CASE ~(e.fn = f /\ e.kind # "icall")
  <2>1. B = A
    BY <1>1, <1>5 DEF CallsIn
  <2> HIDE DEF A, B
  <2>2. IsFiniteSet(B) /\ Cardinality(B) = Cardinality(A) + 0
    BY <1>3, <2>1 DEF A
  <2> QED
    BY <1>5, <2>2 DEF B, A, longer
<1> QED
  BY <1>4, <1>5

LEMMA IncrementsGrow ==
  ASSUME NEW trace, IsSeq(trace), NEW e
  PROVE  Increments(Append(trace, e)) =
           Increments(trace) \cup
             (IF e.fn = IncrCC THEN {<<Len(trace) + 1, e.args[1]>>} ELSE {})
<1> DEFINE n == Len(trace)
           longer == Append(trace, e)
<1>1. /\ n \in Nat /\ DOMAIN trace = 1 .. n /\ DOMAIN longer = 1 .. n + 1
      /\ \A k \in 1 .. n : longer[k] = trace[k]
      /\ longer[n + 1] = e
  BY SeqFacts, SeqAppend
<1> HIDE DEF n, longer
<1>2. 1 .. n + 1 = 1 .. n \cup {n + 1}
  BY <1>1
<1>3. {j \in DOMAIN longer : longer[j].fn = IncrCC} =
        {j \in DOMAIN trace : trace[j].fn = IncrCC} \cup
          (IF e.fn = IncrCC THEN {n + 1} ELSE {})
  BY <1>1, <1>2
<1>4. \A j \in DOMAIN trace : <<j, longer[j].args[1]>> = <<j, trace[j].args[1]>>
  BY <1>1
<1>5. Increments(longer) = Increments(trace) \cup
         (IF e.fn = IncrCC THEN {<<n + 1, e.args[1]>>} ELSE {})
  BY <1>1, <1>3, <1>4 DEF Increments
<1> QED
  BY <1>5 DEF n, longer

LEMMA IncrementGrows ==
  ASSUME NEW trace, IsSeq(trace), IsFiniteSet(Increments(trace)), NEW e, NEW id
  PROVE  /\ IsFiniteSet(Increments(Append(trace, e)))
         /\ IsFiniteSet(Increment(trace, id))
         /\ Cardinality(Increment(Append(trace, e), id)) =
              Cardinality(Increment(trace, id)) +
                (IF e.fn = IncrCC /\ e.args[1] = id THEN 1 ELSE 0)
<1> DEFINE n == Len(trace)
           new == <<n + 1, e.args[1]>>
           I == Increments(trace)
           J == Increments(Append(trace, e))
           A == Increment(trace, id)
           B == Increment(Append(trace, e), id)
<1>1. J = I \cup (IF e.fn = IncrCC THEN {new} ELSE {})
  BY IncrementsGrow
<1>2. IsFiniteSet(J)
  <2> HIDE DEF I, J, new
  <2> QED
    BY <1>1, FS_AddElement DEF I
<1>3. A \subseteq I
  BY DEF Increment
<1>4. IsFiniteSet(A) /\ Cardinality(A) \in Nat
  <2> HIDE DEF A, I
  <2> QED
    BY <1>3, FS_Subset, FS_CardinalityType DEF I
<1>5. \A x \in A : x[1] \in 1 .. n
  BY SeqFacts DEF Increment, Increments
<1>6. new \notin A /\ new[2] = e.args[1]
  <2>1. new[1] = n + 1 /\ new[2] = e.args[1]
    OBVIOUS
  <2>2. n \in Nat
    BY SeqFacts
  <2> HIDE DEF new, A, n
  <2> QED
    BY <1>5, <2>1, <2>2
<1>7. CASE e.fn = IncrCC /\ e.args[1] = id
  <2>1. B = A \cup {new}
    <3> HIDE DEF new
    <3> QED
      BY <1>1, <1>6, <1>7 DEF Increment
  <2> HIDE DEF A, B, new
  <2>2. Cardinality(B) = Cardinality(A) + 1
    BY <1>4, <1>6, <2>1, FS_AddElement
  <2> QED
    BY <1>2, <1>4, <1>7, <2>2 DEF A, B, J
<1>8. CASE ~(e.fn = IncrCC /\ e.args[1] = id)
  <2>1. B = A
    <3> HIDE DEF new
    <3> QED
      BY <1>1, <1>6, <1>8 DEF Increment
  <2> HIDE DEF A, B
  <2>2. Cardinality(B) = Cardinality(A) + 0
    BY <1>4, <2>1
  <2> QED
    BY <1>2, <1>4, <1>8, <2>2 DEF A, B, J
<1> QED
  BY <1>7, <1>8

LEMMA IDParts ==
  ASSUME NEW M, SourceOK(M)
  PROVE  /\ \A f \in ToSet(M.names) : ID(M, f) \in DOMAIN M.names /\ M.names[ID(M, f)] = f
         /\ \A n \in DOMAIN M.names : M.names[n] \in ToSet(M.names) /\ ID(M, M.names[n]) = n
         /\ DOMAIN M.names = 1 .. Len(M.names) /\ Len(M.names) \in Nat
<1>1. IsSeq(M.names) /\ \A a, b \in DOMAIN M.names : M.names[a] = M.names[b] => a = b
  BY DEF SourceOK, ModuleOK, IsInjective
<1>2. ASSUME NEW f \in ToSet(M.names)
      PROVE  ID(M, f) \in DOMAIN M.names /\ M.names[ID(M, f)] = f
  BY DEF ID, ToSet
<1>3. ASSUME NEW n \in DOMAIN M.names
      PROVE  M.names[n] \in ToSet(M.names) /\ ID(M, M.names[n]) = n
  <2>1. M.names[n] \in ToSet(M.names)
    BY DEF ToSet
  <2> QED
    BY <1>1, <1>2, <2>1
<1> QED
  BY <1>1, <1>2, <1>3, SeqFacts


---------------------------------------------------------------------------
(* A run of a module and one of the instrumented module: each frame of the *)
(* one is a frame of the other, at the same instruction, at the increment  *)
(* before it, or at the increment before the first one of the function.    *)

PlaceOf(M, f, l) == CHOOSE place : Placed(M, f, l, place)

Alike(g, h) ==
    IsFrame(g) /\ IsFrame(h) /\ h.fn = g.fn /\ h.at = g.at /\ h.env = g.env /\ h.back = g.back

At(M, g, h) == Alike(g, h) /\ h.pc = PlaceOf(M, g.fn, g.at)[g.pc]

Before(M, g, h) ==
    Alike(g, h) /\ h.pc = FirstOf(M, BlockOf(M, g.fn, g.at), PlaceOf(M, g.fn, g.at), g.pc)

Fresh(M, g, h) == Alike(g, h) /\ g.at = M.fns[g.fn].entry /\ g.pc = 1 /\ h.pc = 1

LEMMA PlaceParts ==
  ASSUME NEW M, SourceOK(M), NEW f \in DOMAIN M.fns, NEW l \in Labels(M.fns[f])
  PROVE  Placed(M, f, l, PlaceOf(M, f, l))
BY BlockPlaced DEF PlaceOf

(* Where the frames h beside g are in the instrumented code. *)
LEMMA AlikeHere ==
  ASSUME NEW M, SourceOK(M), NEW g, FrameOK(M, g), NEW h
  PROVE  /\ At(M, g, h) => Here(Instrumented(M), h) = Here(M, g)
         /\ Before(M, g, h) =>
              IF Counted(M, Here(M, g))
                THEN /\ Here(Instrumented(M), h) = Incr(M, Here(M, g).callee)
                     /\ h.pc + 1 = PlaceOf(M, g.fn, g.at)[g.pc] /\ h.pc \in Nat
                ELSE At(M, g, h)
         /\ Fresh(M, g, h) =>
              /\ Here(Instrumented(M), h) = Incr(M, g.fn)
              /\ h.pc + 1 = FirstOf(M, BlockOf(M, g.fn, g.at), PlaceOf(M, g.fn, g.at), g.pc)
<1> DEFINE p == PlaceOf(M, g.fn, g.at)
           b == BlockOf(M, g.fn, g.at)
           c == BlockOf(Instrumented(M), g.fn, g.at)
           i == Here(M, g)
<1>1. /\ \A k \in Positions(b) :
            /\ p[k] \in Positions(c) /\ InstrAt(c, p[k]) = InstrAt(b, k)
            /\ Counted(M, InstrAt(b, k)) =>
                  /\ p[k] - 1 \in Positions(c)
                  /\ InstrAt(c, p[k] - 1) = Incr(M, InstrAt(b, k).callee)
      /\ FirstOf(M, b, p, 1) = IF g.at = M.fns[g.fn].entry THEN 2 ELSE 1
      /\ g.at = M.fns[g.fn].entry => 1 \in Positions(c) /\ InstrAt(c, 1) = Incr(M, g.fn)
  BY PlaceParts DEF FrameOK, Placed
<1>2. g.pc \in Positions(b) /\ i = InstrAt(b, g.pc)
  BY HereIs DEF FrameOK
<1>3. Alike(g, h) => Here(Instrumented(M), h) = InstrAt(c, h.pc)
  BY HereIs DEF Alike
<1> HIDE DEF p, b, c, i
<1>4. At(M, g, h) => Here(Instrumented(M), h) = i
  BY <1>1, <1>2, <1>3 DEF At, p
<1>5. ASSUME Before(M, g, h), Counted(M, i)
      PROVE  /\ Here(Instrumented(M), h) = Incr(M, i.callee)
             /\ h.pc + 1 = p[g.pc] /\ h.pc \in Nat
  <2>1. h.pc = p[g.pc] - 1
    BY <1>2, <1>5 DEF Before, FirstOf, p, b
  <2>2. p[g.pc] \in Positions(c) /\ p[g.pc] - 1 \in Positions(c)
    BY <1>1, <1>2, <1>5
  <2>3. p[g.pc] \in Int /\ p[g.pc] - 1 \in Nat
    BY <2>2 DEF Positions
  <2> QED
    BY <1>1, <1>2, <1>3, <1>5, <2>1, <2>3 DEF Before
<1>6. ASSUME Before(M, g, h), ~Counted(M, i)
      PROVE  At(M, g, h)
  BY <1>2, <1>6 DEF Before, FirstOf, At, p, b
<1>7. ASSUME Fresh(M, g, h)
      PROVE  /\ Here(Instrumented(M), h) = Incr(M, g.fn)
             /\ h.pc + 1 = FirstOf(M, b, p, g.pc)
  BY <1>1, <1>3, <1>7 DEF Fresh
<1> QED
  BY <1>4, <1>5, <1>6, <1>7 DEF i, p, b

LEMMA AlikeValues ==
  ASSUME NEW g, NEW h, Alike(g, h), NEW i
  PROVE  Values(h, i) = Values(g, i)
BY DEF Alike, Values

LEMMA AlikeAhead ==
  ASSUME NEW M, SourceOK(M), NEW g, FrameOK(M, g), NEW h, At(M, g, h), NEW v,
         NEW i, i = Here(M, g), i.op \notin Terminators
  PROVE  Before(M, Ahead(g, i, v), Ahead(h, i, v))
<1> DEFINE p == PlaceOf(M, g.fn, g.at)
           b == BlockOf(M, g.fn, g.at)
           a == Ahead(g, i, v)
           c == Ahead(h, i, v)
<1>1. Alike(g, h) /\ h.pc = p[g.pc]
  BY DEF At
<1>2. /\ Follows(g, a) /\ a.at = g.at /\ a.pc = g.pc + 1 /\ a.env = Bind(g.env, i.def, v)
      /\ Follows(h, c) /\ c.at = h.at /\ c.pc = h.pc + 1 /\ c.env = Bind(h.env, i.def, v)
  BY <1>1, AheadFields DEF Alike
<1>3. g.pc \in 1 .. Len(b.body)
  BY <1>1, AheadOK DEF Alike
<1>4. FirstOf(M, b, p, g.pc + 1) = p[g.pc] + 1
  BY <1>3, PlaceParts DEF FrameOK, Placed
<1> HIDE DEF a, c, p, b
<1>5. Alike(a, c)
  BY <1>1, <1>2 DEF Alike, Follows
<1>6. a.fn = g.fn /\ c.pc = FirstOf(M, b, p, a.pc)
  BY <1>1, <1>2, <1>4 DEF Follows
<1> QED
  BY <1>2, <1>5, <1>6 DEF Before, a, c, p, b

LEMMA InstrumentedPhis ==
  ASSUME NEW M, SourceOK(M), NEW f \in DOMAIN M.fns, NEW l \in Labels(M.fns[f])
  PROVE  BlockOf(Instrumented(M), f, l).phis = BlockOf(M, f, l).phis
<1>1. M.fns[f] = [params |-> M.fns[f].params, entry |-> M.fns[f].entry,
                  order |-> M.fns[f].order, code |-> M.fns[f].code]
  BY SourceParts DEF FnOK
<1> DEFINE b == BlockOf(M, f, l)
<1>2. b = [phis |-> b.phis, body |-> b.body, term |-> b.term, pad |-> b.pad]
  BY BlockParts DEF BlockOK
<1>3. BlockOf(Instrumented(M), f, l) =
        [b EXCEPT !.body = (IF l = M.fns[f].entry THEN <<Incr(M, f)>> ELSE <<>>)
                              \o Front(WithCounts(M, b.body \o <<b.term>>))]
  BY <1>1 DEF Instrumented, BlockOf, Labels
<1> HIDE DEF b
<1>4. BlockOf(Instrumented(M), f, l).phis = b.phis
  BY <1>2, <1>3
<1> QED
  BY <1>4 DEF b

LEMMA AlikeJump ==
  ASSUME NEW M, SourceOK(M), NEW g, g.fn \in DOMAIN M.fns, NEW h, Alike(g, h),
         NEW l \in Labels(M.fns[g.fn]) \ {M.fns[g.fn].entry}
  PROVE  Before(M, Jump(M, g, l), Jump(Instrumented(M), h, l))
<1> DEFINE a == Jump(M, g, l)
           c == Jump(Instrumented(M), h, l)
           b == BlockOf(M, g.fn, l)
           d == BlockOf(Instrumented(M), g.fn, l)
           p == PlaceOf(M, g.fn, l)
<1>1. /\ Follows(g, a) /\ a.at = l /\ a.pc = 1 /\ a.env = PhiEnv(b.phis, g.env, g.at)
      /\ Follows(h, c) /\ c.at = l /\ c.pc = 1 /\ c.env = PhiEnv(d.phis, h.env, h.at)
  BY JumpFields DEF Alike
<1>2. d.phis = b.phis
  BY InstrumentedPhis
<1>3. FirstOf(M, b, p, 1) = 1
  BY PlaceParts DEF Placed
<1> HIDE DEF a, c, b, d, p
<1>4. Alike(a, c)
  BY <1>1, <1>2 DEF Alike, Follows
<1>5. a.fn = g.fn
  BY <1>1 DEF Follows
<1> QED
  BY <1>1, <1>3, <1>4, <1>5 DEF Before, a, c, b, p

LEMMA AlikeResumed ==
  ASSUME NEW M, SourceOK(M), NEW g, FrameOK(M, g), NEW h, At(M, g, h), NEW v,
         NEW i, i = Here(M, g), IsCall(i)
  PROVE  Before(M, Resumed(M, g, i, v), Resumed(Instrumented(M), h, i, v))
<1>1. CASE i.op = "invoke"
  <2> DEFINE a == Ahead(g, i, v)
             c == Ahead(h, i, v)
  <2>1. /\ Follows(g, a) /\ a.at = g.at /\ a.env = Bind(g.env, i.def, v)
        /\ Follows(h, c) /\ c.at = h.at /\ c.env = Bind(h.env, i.def, v)
    BY AheadFields DEF Alike, At
  <2>2. /\ Resumed(M, g, i, v) = Jump(M, a, i.to[1])
        /\ Resumed(Instrumented(M), h, i, v) = Jump(Instrumented(M), c, i.to[1])
    BY <1>1 DEF Resumed
  <2>3. i.to[1] \in Labels(M.fns[g.fn]) \ {M.fns[g.fn].entry}
    BY <1>1, HereParts
  <2> HIDE DEF a, c
  <2>4. Alike(a, c) /\ a.fn = g.fn
    BY <2>1 DEF Alike, Follows, At
  <2>5. a.fn \in DOMAIN M.fns /\ i.to[1] \in Labels(M.fns[a.fn]) \ {M.fns[a.fn].entry}
    BY <2>3, <2>4 DEF FrameOK
  <2>6. Before(M, Jump(M, a, i.to[1]), Jump(Instrumented(M), c, i.to[1]))
    BY <2>4, <2>5, AlikeJump
  <2> QED
    BY <2>2, <2>6
<1>2. CASE i.op # "invoke"
  <2>1. /\ Resumed(M, g, i, v) = Ahead(g, i, v)
        /\ Resumed(Instrumented(M), h, i, v) = Ahead(h, i, v)
    BY <1>2 DEF Resumed
  <2>2. i.op \notin Terminators
    BY <1>2, CallIsNoTerminator
  <2>3. Before(M, Ahead(g, i, v), Ahead(h, i, v))
    BY <2>2, AlikeAhead
  <2> QED
    BY <2>1, <2>3
<1> QED
  BY <1>1, <1>2

LEMMA AlikeAnswered ==
  ASSUME NEW M, SourceOK(M), NEW g, FrameOK(M, g), NEW h, At(M, g, h), NEW throws, NEW vals,
         NEW i, i = Here(M, g), IsCall(i)
  PROVE  Before(M, Answered(M, throws, g, i, vals), Answered(Instrumented(M), throws, h, i, vals))
<1>1. CASE i.op = "invoke" /\ throws
  <2>1. i.to[2] \in Labels(M.fns[g.fn]) \ {M.fns[g.fn].entry}
    BY <1>1, HereParts
  <2>2. Before(M, Jump(M, g, i.to[2]), Jump(Instrumented(M), h, i.to[2]))
    BY <2>1, AlikeJump DEF At, FrameOK
  <2> QED
    BY <1>1, <2>2 DEF Answered
<1>2. CASE ~(i.op = "invoke" /\ throws)
  <2>1. Before(M, Resumed(M, g, i, Answer(vals)), Resumed(Instrumented(M), h, i, Answer(vals)))
    BY AlikeResumed
  <2> QED
    BY <1>2, <2>1 DEF Answered
<1> QED
  BY <1>1, <1>2

LEMMA AlikeEntry ==
  ASSUME NEW M, SourceOK(M), NEW f \in DOMAIN M.fns, NEW vals, NEW i
  PROVE  Fresh(M, Frame(M, f, vals, i), Frame(Instrumented(M), f, vals, i))
<1>1. /\ Instrumented(M).fns[f].params = M.fns[f].params
      /\ Instrumented(M).fns[f].entry = M.fns[f].entry
  BY InstrumentedFunction
<1> DEFINE g == Frame(M, f, vals, i)
           h == Frame(Instrumented(M), f, vals, i)
<1>2. /\ IsFrame(g) /\ g.fn = f /\ g.at = M.fns[f].entry /\ g.pc = 1
      /\ g.env = StartEnv(M.fns[f].params, vals) /\ g.back = i
      /\ IsFrame(h) /\ h.fn = f /\ h.at = Instrumented(M).fns[f].entry /\ h.pc = 1
      /\ h.env = StartEnv(Instrumented(M).fns[f].params, vals) /\ h.back = i
  BY FrameFields
<1> HIDE DEF g, h
<1> QED
  BY <1>1, <1>2 DEF Fresh, Alike, g, h


(* A step of the instrumented module that counts f. *)
LEMMA IncrStep ==
  ASSUME NEW M, SourceOK(M), NEW f \in ToSet(M.names), NEW throws, NEW w, IsMachine(w),
         Here(Instrumented(M), Top(w)) = Incr(M, f),
         NEW w2, w2 = StepOf(Instrumented(M), throws, w)
  PROVE  /\ IsMachine(w2) /\ Height(w2) = Height(w) /\ w2.status = w.status
         /\ \A k \in 1 .. Height(w) - 1 : w2.stack[k] = w.stack[k]
         /\ Follows(Top(w), Top(w2)) /\ Top(w2).at = Top(w).at
         /\ Top(w2).pc = Top(w).pc + 1 /\ Top(w2).env = Top(w).env
         /\ w2.trace = Append(w.trace, Event("call", IncrCC, <<ID(M, f)>>))
<1> DEFINE N == Instrumented(M)
           h == Top(w)
           i == Incr(M, f)
           vals == Values(h, i)
           n == ID(M, f)
           fr == Answered(N, throws, h, i, vals)
<1>1. /\ i.op = "call" /\ i.callee = IncrCC /\ i.def = None /\ i.args = <<Const(n)>>
  BY DEF Incr, CallTo, Instr
<1>2. n \in Nat /\ n # Undefined
  BY IDParts DEF Undefined
<1> HIDE DEF n
<1>3. vals = <<n>>
  <2>1. Val(h.env, Const(n)) = n
    BY DEF Val, IsConst, Const, None
  <2> HIDE DEF i
  <2> QED
    BY <1>1, <2>1 DEF Values
<1>4. Undefined \notin ToSet(vals)
  BY <1>2, <1>3 DEF ToSet
<1>5. IsFrame(h) /\ Height(w) \in Nat /\ Height(w) > 0
  BY HeightIs
<1> HIDE DEF i, h, vals, fr
<1>6. IsCall(i) /\ i.callee \notin DOMAIN N.fns
  BY <1>1, SourceParts, InstrumentedFunction DEF IsCall, SourceOK, ModuleOK
<1> HIDE DEF N
<1>7. CalledOut(N, throws, w, w2, i, vals)
  BY <1>4, <1>6, StepFields DEF N, i, h, vals
<1>8. fr = Ahead(h, i, Answer(vals))
  BY <1>1 DEF fr, Answered, Resumed
<1>9. /\ Follows(h, fr) /\ fr.at = h.at /\ fr.pc = h.pc + 1 /\ fr.env = h.env
  BY <1>1, <1>5, <1>8, AheadFields DEF Bind
<1>10. OnTop(w, w2, fr) /\ w2.status = w.status
       /\ w2.trace = Append(w.trace, Event("call", IncrCC, <<n>>))
  BY <1>1, <1>3, <1>7 DEF CalledOut, fr, h
<1>11. Top(w2) = fr
  BY <1>10, HeightIs DEF OnTop
<1> QED
  BY <1>9, <1>10, <1>11 DEF OnTop, h, n

LEMMA ReturnedValue ==
  ASSUME NEW M, NEW throws, NEW m, IsMachine(m), Height(m) = 1,
         NEW i, i = Here(M, Top(m)), i.op = "ret",
         NEW vals, vals = Values(Top(m), i), Undefined \notin ToSet(vals)
  PROVE  StepOf(M, throws, m).ret = vals[1]
<1> DEFINE v == vals[1]
<1>1. StepOf(M, throws, m) = Return(M, m, v)
  <2> DEFINE m2 == StepOf(M, throws, m)
  <2>1. m2 = StepOf(M, throws, m)
    OBVIOUS
  <2> HIDE DEF m2
  <2>2. m2 = Return(M, m, vals[1])
    BY <2>1 DEF StepOf, IsCall, Terminators
  <2> QED
    BY <2>1, <2>2
<1>2. Return(M, m, v) = [m EXCEPT !.status = "done", !.ret = v]
  BY DEF Return, Height
<1> HIDE DEF v
<1>3. [m EXCEPT !.status = "done", !.ret = v].ret = v
  BY DEF IsMachine
<1> QED
  BY <1>1, <1>2, <1>3 DEF v

(* The calls of each function and the increments of its counter agree, but *)
(* for the functions whose increment is owed and those whose call is       *)
(* pending.                                                                *)
Even(M, t, u, owed, pending) ==
    /\ IsFiniteSet(Increments(u)) /\ \A x \in Increments(u) : x[2] \in DOMAIN M.names
    /\ \A f \in ToSet(M.names) :
          /\ IsFiniteSet(CallsIn(t, f))
          /\ Cardinality(Increment(u, ID(M, f))) + (IF f \in owed THEN 1 ELSE 0) =
               Cardinality(CallsIn(t, f)) + (IF f \in pending THEN 1 ELSE 0)

LEMMA EvenNumbers ==
  ASSUME NEW M, NEW t, NEW u, NEW owed, NEW pending, Even(M, t, u, owed, pending),
         NEW f \in ToSet(M.names)
  PROVE  Cardinality(CallsIn(t, f)) \in Nat /\ Cardinality(Increment(u, ID(M, f))) \in Nat
<1>1. IsFiniteSet(CallsIn(t, f)) /\ IsFiniteSet(Increments(u))
  BY DEF Even
<1>2. Increment(u, ID(M, f)) \subseteq Increments(u)
  BY DEF Increment
<1>3. IsFiniteSet(Increment(u, ID(M, f)))
  BY <1>1, <1>2, FS_Subset
<1> QED
  BY <1>1, <1>3, FS_CardinalityType

LEMMA EvenIncr ==
  ASSUME NEW M, SourceOK(M), NEW t, NEW u, IsSeq(u), NEW f \in ToSet(M.names),
         NEW e, e.fn = IncrCC, e.args[1] = ID(M, f)
  PROVE  /\ Even(M, t, u, {f}, {}) => Even(M, t, Append(u, e), {}, {})
         /\ Even(M, t, u, {}, {}) => Even(M, t, Append(u, e), {}, {f})
<1> SUFFICES ASSUME NEW owed, NEW pending, Even(M, t, u, owed, pending),
                    \/ owed = {f} /\ pending = {}
                    \/ owed = {} /\ pending = {}
             PROVE  IF owed = {} THEN Even(M, t, Append(u, e), {}, {f})
                    ELSE Even(M, t, Append(u, e), {}, {})
  <2>1. ASSUME Even(M, t, u, {f}, {})
        PROVE  Even(M, t, Append(u, e), {}, {})
    <3>1. {f} # {}
      OBVIOUS
    <3> QED
      BY <2>1, <3>1
  <2> QED
    BY <2>1
<1>1. IsFiniteSet(Increments(u)) /\ \A x \in Increments(u) : x[2] \in DOMAIN M.names
  BY DEF Even
<1>2. IsFiniteSet(Increments(Append(u, e)))
  BY <1>1, IncrementGrows
<1>3. ASSUME NEW x \in Increments(Append(u, e))
      PROVE  x[2] \in DOMAIN M.names
  <2>1. Increments(Append(u, e)) = Increments(u) \cup {<<Len(u) + 1, e.args[1]>>}
    BY IncrementsGrow
  <2>2. CASE x \in Increments(u)
    BY <1>1, <2>2
  <2>3. CASE x = <<Len(u) + 1, e.args[1]>>
    <3>1. x[2] = ID(M, f)
      BY <2>3
    <3> QED
      BY <3>1, IDParts
  <2> QED
    BY <2>1, <2>2, <2>3
<1>4. ASSUME NEW h \in ToSet(M.names)
      PROVE  /\ IsFiniteSet(CallsIn(t, h))
             /\ Cardinality(Increment(Append(u, e), ID(M, h))) =
                  Cardinality(CallsIn(t, h)) + (IF owed = {} /\ h = f THEN 1 ELSE 0)
  <2>1. Cardinality(Increment(Append(u, e), ID(M, h))) =
          Cardinality(Increment(u, ID(M, h))) + (IF ID(M, f) = ID(M, h) THEN 1 ELSE 0)
    BY <1>1, IncrementGrows
  <2>2. ID(M, f) = ID(M, h) <=> h = f
    BY IDParts
  <2>3. /\ IsFiniteSet(CallsIn(t, h))
        /\ Cardinality(Increment(u, ID(M, h))) + (IF h \in owed THEN 1 ELSE 0) =
             Cardinality(CallsIn(t, h)) + (IF h \in pending THEN 1 ELSE 0)
    BY DEF Even
  <2>4. Cardinality(CallsIn(t, h)) \in Nat /\ Cardinality(Increment(u, ID(M, h))) \in Nat
    BY EvenNumbers
  <2> DEFINE a == Cardinality(Increment(u, ID(M, h)))
             b == Cardinality(CallsIn(t, h))
             c == Cardinality(Increment(Append(u, e), ID(M, h)))
  <2> HIDE DEF a, b, c
  <2>5. /\ a \in Nat /\ b \in Nat /\ c = a + (IF h = f THEN 1 ELSE 0)
        /\ a + (IF h \in owed THEN 1 ELSE 0) = b + (IF h \in pending THEN 1 ELSE 0)
    BY <2>1, <2>2, <2>3, <2>4 DEF a, b, c
  <2>6. c = b + (IF owed = {} /\ h = f THEN 1 ELSE 0)
    BY <2>5
  <2> QED
    BY <2>3, <2>6 DEF b, c
<1>5. CASE owed = {}
  <2>1. \A h \in ToSet(M.names) :
          /\ IsFiniteSet(CallsIn(t, h))
          /\ Cardinality(Increment(Append(u, e), ID(M, h))) + 0 =
               Cardinality(CallsIn(t, h)) + (IF h \in {f} THEN 1 ELSE 0)
    <3> SUFFICES ASSUME NEW h \in ToSet(M.names)
                 PROVE  Cardinality(Increment(Append(u, e), ID(M, h))) + 0 =
                          Cardinality(CallsIn(t, h)) + (IF h \in {f} THEN 1 ELSE 0)
      BY <1>4
    <3>1. Cardinality(CallsIn(t, h)) \in Nat
      BY EvenNumbers
    <3>2. Cardinality(Increment(Append(u, e), ID(M, h))) =
            Cardinality(CallsIn(t, h)) + (IF h = f THEN 1 ELSE 0)
      BY <1>4, <1>5
    <3> QED
      BY <3>1, <3>2
  <2> QED
    BY <1>2, <1>3, <1>5, <2>1 DEF Even
<1>6. CASE owed # {}
  <2>1. \A h \in ToSet(M.names) :
          /\ IsFiniteSet(CallsIn(t, h))
          /\ Cardinality(Increment(Append(u, e), ID(M, h))) + 0 = Cardinality(CallsIn(t, h)) + 0
    <3> SUFFICES ASSUME NEW h \in ToSet(M.names)
                 PROVE  Cardinality(Increment(Append(u, e), ID(M, h))) + 0 =
                          Cardinality(CallsIn(t, h)) + 0
      BY <1>4
    <3>1. Cardinality(CallsIn(t, h)) \in Nat
      BY EvenNumbers
    <3>2. Cardinality(Increment(Append(u, e), ID(M, h))) = Cardinality(CallsIn(t, h)) + 0
      BY <1>4, <1>6
    <3> QED
      BY <3>1, <3>2
  <2> QED
    BY <1>2, <1>3, <1>6, <2>1 DEF Even
<1> QED
  BY <1>5, <1>6

(* An event of both runs. *)
LEMMA EvenCall ==
  ASSUME NEW M, SourceOK(M), NEW t, NEW u, IsSeq(t), IsSeq(u), NEW f \in ToSet(M.names),
         NEW kind, NEW vals, NEW e, e = Event(kind, f, vals)
  PROVE  /\ kind \in {"enter", "ienter"} /\ Even(M, t, u, {}, {}) =>
              Even(M, Append(t, e), Append(u, e), {f}, {})
         /\ kind \in {"call", "invoke"} /\ Even(M, t, u, {}, {f}) =>
              Even(M, Append(t, e), Append(u, e), {}, {})
         /\ kind = "icall" /\ Even(M, t, u, {}, {}) => Even(M, Append(t, e), Append(u, e), {}, {})
<1>1. e.kind = kind /\ e.fn = f /\ e.fn # IncrCC
  BY DEF Event, SourceOK
<1> HIDE DEF Event
<1>2. ASSUME NEW pending, Even(M, t, u, {}, pending)
      PROVE  /\ IsFiniteSet(Increments(Append(u, e)))
             /\ \A x \in Increments(Append(u, e)) : x[2] \in DOMAIN M.names
             /\ \A h \in ToSet(M.names) :
                  /\ IsFiniteSet(CallsIn(Append(t, e), h))
                  /\ Cardinality(Increment(Append(u, e), ID(M, h))) \in Nat
                  /\ Cardinality(CallsIn(Append(t, e), h)) \in Nat
                  /\ Cardinality(Increment(Append(u, e), ID(M, h)))
                       + (IF f = h /\ kind # "icall" THEN 1 ELSE 0) =
                     Cardinality(CallsIn(Append(t, e), h)) + (IF h \in pending THEN 1 ELSE 0)
  <2>1. IsFiniteSet(Increments(u)) /\ \A x \in Increments(u) : x[2] \in DOMAIN M.names
    BY <1>2 DEF Even
  <2>2. Increments(Append(u, e)) = Increments(u)
    <3>1. Increments(Append(u, e)) = Increments(u) \cup {}
      BY <1>1, IncrementsGrow
    <3> QED
      BY <3>1
  <2>3. \A n : Increment(Append(u, e), n) = Increment(u, n)
    BY <2>2 DEF Increment
  <2>4. ASSUME NEW h \in ToSet(M.names)
        PROVE  /\ IsFiniteSet(CallsIn(Append(t, e), h))
               /\ Cardinality(Increment(Append(u, e), ID(M, h))) \in Nat
               /\ Cardinality(CallsIn(Append(t, e), h)) \in Nat
               /\ Cardinality(Increment(Append(u, e), ID(M, h)))
                    + (IF f = h /\ kind # "icall" THEN 1 ELSE 0) =
                  Cardinality(CallsIn(Append(t, e), h)) + (IF h \in pending THEN 1 ELSE 0)
    <3> DEFINE a == Cardinality(Increment(u, ID(M, h)))
               b == Cardinality(CallsIn(t, h))
               c == Cardinality(CallsIn(Append(t, e), h))
    <3>1. /\ IsFiniteSet(CallsIn(t, h))
          /\ a + 0 = b + (IF h \in pending THEN 1 ELSE 0)
      BY <1>2 DEF Even
    <3>2. a \in Nat /\ b \in Nat
      BY <1>2, EvenNumbers
    <3>3. /\ IsFiniteSet(CallsIn(Append(t, e), h))
          /\ c = b + (IF f = h /\ kind # "icall" THEN 1 ELSE 0)
      BY <1>1, <3>1, CallsGrow
    <3>4. Increment(Append(u, e), ID(M, h)) = Increment(u, ID(M, h))
      BY <2>3
    <3> HIDE DEF a, b, c
    <3>5. /\ a + (IF f = h /\ kind # "icall" THEN 1 ELSE 0) =
               c + (IF h \in pending THEN 1 ELSE 0)
          /\ c \in Nat
      BY <3>1, <3>2, <3>3
    <3> QED
      BY <3>2, <3>3, <3>4, <3>5 DEF a, c
  <2> QED
    BY <2>1, <2>2, <2>4
<1>3. ASSUME kind \in {"enter", "ienter"}, Even(M, t, u, {}, {})
      PROVE  Even(M, Append(t, e), Append(u, e), {f}, {})
  <2>1. ASSUME NEW h \in ToSet(M.names)
        PROVE  Cardinality(Increment(Append(u, e), ID(M, h)))
                 + (IF h \in {f} THEN 1 ELSE 0) =
               Cardinality(CallsIn(Append(t, e), h)) + (IF h \in {} THEN 1 ELSE 0)
    <3> DEFINE a == Cardinality(Increment(Append(u, e), ID(M, h)))
               c == Cardinality(CallsIn(Append(t, e), h))
    <3>1. /\ a \in Nat /\ c \in Nat
          /\ a + (IF f = h /\ kind # "icall" THEN 1 ELSE 0) =
               c + (IF h \in {} THEN 1 ELSE 0)
      BY <1>2, <1>3
    <3> HIDE DEF a, c
    <3>2. a + (IF h \in {f} THEN 1 ELSE 0) = c + (IF h \in {} THEN 1 ELSE 0)
      BY <1>3, <3>1
    <3> QED
      BY <3>2 DEF a, c
  <2>2. /\ IsFiniteSet(Increments(Append(u, e)))
        /\ \A x \in Increments(Append(u, e)) : x[2] \in DOMAIN M.names
        /\ \A h \in ToSet(M.names) : IsFiniteSet(CallsIn(Append(t, e), h))
    BY <1>2, <1>3
  <2> QED
    BY <2>1, <2>2 DEF Even
<1>4. ASSUME kind \in {"call", "invoke"}, Even(M, t, u, {}, {f})
      PROVE  Even(M, Append(t, e), Append(u, e), {}, {})
  <2>1. ASSUME NEW h \in ToSet(M.names)
        PROVE  Cardinality(Increment(Append(u, e), ID(M, h)))
                 + (IF h \in {} THEN 1 ELSE 0) =
               Cardinality(CallsIn(Append(t, e), h)) + (IF h \in {} THEN 1 ELSE 0)
    <3> DEFINE a == Cardinality(Increment(Append(u, e), ID(M, h)))
               c == Cardinality(CallsIn(Append(t, e), h))
    <3>1. /\ a \in Nat /\ c \in Nat
          /\ a + (IF f = h /\ kind # "icall" THEN 1 ELSE 0) =
               c + (IF h \in {f} THEN 1 ELSE 0)
      BY <1>2, <1>4
    <3> HIDE DEF a, c
    <3>2. a + (IF h \in {} THEN 1 ELSE 0) = c + (IF h \in {} THEN 1 ELSE 0)
      BY <1>4, <3>1
    <3> QED
      BY <3>2 DEF a, c
  <2>2. /\ IsFiniteSet(Increments(Append(u, e)))
        /\ \A x \in Increments(Append(u, e)) : x[2] \in DOMAIN M.names
        /\ \A h \in ToSet(M.names) : IsFiniteSet(CallsIn(Append(t, e), h))
    BY <1>2, <1>4
  <2> QED
    BY <2>1, <2>2 DEF Even
<1>5. ASSUME kind = "icall", Even(M, t, u, {}, {})
      PROVE  Even(M, Append(t, e), Append(u, e), {}, {})
  <2>1. ASSUME NEW h \in ToSet(M.names)
        PROVE  Cardinality(Increment(Append(u, e), ID(M, h)))
                 + (IF h \in {} THEN 1 ELSE 0) =
               Cardinality(CallsIn(Append(t, e), h)) + (IF h \in {} THEN 1 ELSE 0)
    <3> DEFINE a == Cardinality(Increment(Append(u, e), ID(M, h)))
               c == Cardinality(CallsIn(Append(t, e), h))
    <3>1. /\ a \in Nat /\ c \in Nat
          /\ a + (IF f = h /\ kind # "icall" THEN 1 ELSE 0) =
               c + (IF h \in {} THEN 1 ELSE 0)
      BY <1>2, <1>5
    <3> HIDE DEF a, c
    <3>2. a + (IF h \in {} THEN 1 ELSE 0) = c + (IF h \in {} THEN 1 ELSE 0)
      BY <1>5, <3>1
    <3> QED
      BY <3>2 DEF a, c
  <2>2. /\ IsFiniteSet(Increments(Append(u, e)))
        /\ \A x \in Increments(Append(u, e)) : x[2] \in DOMAIN M.names
        /\ \A h \in ToSet(M.names) : IsFiniteSet(CallsIn(Append(t, e), h))
    BY <1>2, <1>5
  <2> QED
    BY <2>1, <2>2 DEF Even
<1> QED
  BY <1>3, <1>4, <1>5


Beside(M, m, w) ==
    Height(w) = Height(m) /\ \A k \in 1 .. Height(m) - 1 : At(M, m.stack[k], w.stack[k])

Abreast(M, m, w) ==
    LET g == Top(m)
        h == Top(w)
        i == Here(M, g)
    IN  \/ Fresh(M, g, h) /\ Even(M, m.trace, w.trace, {g.fn}, {})
        \/ Before(M, g, h) /\ Even(M, m.trace, w.trace, {}, {})
        \/ At(M, g, h) /\ Counted(M, i) /\ Even(M, m.trace, w.trace, {}, {i.callee})

Sim(M, m, w) ==
    /\ MachineOK(M, m) /\ IsMachine(w) /\ w.status = m.status
    /\ m.status = "running" => Beside(M, m, w) /\ Abreast(M, m, w)
    /\ m.status = "done" => Even(M, m.trace, w.trace, {}, {}) /\ w.ret = m.ret

LEMMA TopOK ==
  ASSUME NEW M, NEW m, MachineOK(M, m)
  PROVE  /\ IsFrame(Top(m)) /\ FrameOK(M, Top(m)) /\ IsMachine(m) /\ IsSeq(m.trace)
         /\ Height(m) \in Nat /\ Height(m) > 0 /\ Top(m) = m.stack[Height(m)]
<1>1. IsMachine(m) /\ FramesOK(M, m) /\ IsSeq(m.trace)
  BY DEF MachineOK, IsMachine
<1>2. IsFrame(Top(m)) /\ Height(m) \in Nat /\ Height(m) > 0 /\ Top(m) = m.stack[Height(m)]
  BY <1>1, HeightIs
<1>3. Height(m) \in 1 .. Height(m)
  BY <1>2
<1> QED
  BY <1>1, <1>2, <1>3 DEF FramesOK

LEMMA OnTopBeside ==
  ASSUME NEW M, NEW m, NEW w, IsMachine(m), Beside(M, m, w),
         NEW m2, NEW w2, NEW a, NEW c, OnTop(m, m2, a), OnTop(w, w2, c)
  PROVE  Beside(M, m2, w2) /\ Top(m2) = a /\ Top(w2) = c
<1>1. /\ IsMachine(m2) /\ Height(m2) = Height(m) /\ m2.stack[Height(m)] = a
      /\ \A k \in 1 .. Height(m) - 1 : m2.stack[k] = m.stack[k]
      /\ IsMachine(w2) /\ Height(w2) = Height(m) /\ w2.stack[Height(m)] = c
      /\ \A k \in 1 .. Height(m) - 1 : w2.stack[k] = w.stack[k]
  BY DEF OnTop, Beside
<1>2. Top(m2) = a /\ Top(w2) = c
  BY <1>1, HeightIs
<1> QED
  BY <1>1, <1>2 DEF Beside

(* Both runs take the step of the module's instruction. *)
LEMMA BothStep ==
  ASSUME NEW M, SourceOK(M), NEW throws, NEW m, NEW w, MachineOK(M, m), IsMachine(w),
         m.status = "running", w.status = "running", Beside(M, m, w), At(M, Top(m), Top(w)),
         IF Counted(M, Here(M, Top(m)))
           THEN Even(M, m.trace, w.trace, {}, {Here(M, Top(m)).callee})
           ELSE Even(M, m.trace, w.trace, {}, {})
  PROVE  Sim(M, StepOf(M, throws, m), StepOf(Instrumented(M), throws, w))
<1> DEFINE N == Instrumented(M)
           g == Top(m)
           h == Top(w)
           i == Here(M, g)
           vals == Values(g, i)
           m2 == StepOf(M, throws, m)
           w2 == StepOf(N, throws, w)
           t == m.trace
           u == w.trace
           n == Height(m)
<1>1. /\ IsFrame(g) /\ FrameOK(M, g) /\ IsMachine(m) /\ IsSeq(t)
      /\ n \in Nat /\ n > 0 /\ g = m.stack[n]
  BY TopOK
<1>2. IsFrame(h) /\ IsSeq(u) /\ h = w.stack[n] /\ Height(w) = n
  BY HeightIs DEF IsMachine, Beside
<1>3. MachineOK(M, m2)
  BY StepOK
<1>4. Here(N, h) = i /\ Values(h, i) = vals
  BY <1>1, AlikeHere, AlikeValues DEF At
<1>5. DOMAIN N.fns = DOMAIN M.fns
  BY InstrumentedFunction
<1> SUFFICES Sim(M, m2, w2)
  OBVIOUS
<1>6. /\ Undefined \in ToSet(vals) => Halted(m, m2, "undefined") /\ Halted(w, w2, "undefined")
      /\ Undefined \notin ToSet(vals) =>
           /\ i.op = "ret" /\ n = 1 => Halted(m, m2, "done") /\ Halted(w, w2, "done")
           /\ i.op = "ret" /\ n > 1 => Popped(M, m, m2, vals[1]) /\ Popped(N, w, w2, vals[1])
           /\ i.op = "br" => /\ Moved(m, m2, Jump(M, g, Target(i, vals)))
                             /\ Moved(w, w2, Jump(N, h, Target(i, vals)))
           /\ IsCall(i) /\ i.callee \in DOMAIN M.fns =>
                Entered(M, m, m2, i, vals) /\ Entered(N, w, w2, i, vals)
           /\ IsCall(i) /\ i.callee \notin DOMAIN M.fns =>
                CalledOut(M, throws, m, m2, i, vals) /\ CalledOut(N, throws, w, w2, i, vals)
           /\ i.op \notin Terminators /\ ~IsCall(i) =>
                /\ Moved(m, m2, Ahead(g, i, Eval(i.op, i.ty, vals)))
                /\ Moved(w, w2, Ahead(h, i, Eval(i.op, i.ty, vals)))
  <2>1. /\ Undefined \in ToSet(vals) => Halted(m, m2, "undefined")
        /\ Undefined \notin ToSet(vals) =>
             /\ i.op = "ret" /\ n = 1 => Halted(m, m2, "done")
             /\ i.op = "ret" /\ n > 1 => Popped(M, m, m2, vals[1])
             /\ i.op = "br" => Moved(m, m2, Jump(M, g, Target(i, vals)))
             /\ IsCall(i) /\ i.callee \in DOMAIN M.fns => Entered(M, m, m2, i, vals)
             /\ IsCall(i) /\ i.callee \notin DOMAIN M.fns => CalledOut(M, throws, m, m2, i, vals)
             /\ i.op \notin Terminators /\ ~IsCall(i) =>
                  Moved(m, m2, Ahead(g, i, Eval(i.op, i.ty, vals)))
    <3> HIDE DEF m2, i, g, vals, n
    <3> QED
      BY <1>1, StepFields DEF m2, i, g, vals, n
  <2>2. /\ Undefined \in ToSet(vals) => Halted(w, w2, "undefined")
        /\ Undefined \notin ToSet(vals) =>
             /\ i.op = "ret" /\ n = 1 => Halted(w, w2, "done")
             /\ i.op = "ret" /\ n > 1 => Popped(N, w, w2, vals[1])
             /\ i.op = "br" => Moved(w, w2, Jump(N, h, Target(i, vals)))
             /\ IsCall(i) /\ i.callee \in DOMAIN N.fns => Entered(N, w, w2, i, vals)
             /\ IsCall(i) /\ i.callee \notin DOMAIN N.fns => CalledOut(N, throws, w, w2, i, vals)
             /\ i.op \notin Terminators /\ ~IsCall(i) =>
                  Moved(w, w2, Ahead(h, i, Eval(i.op, i.ty, vals)))
    <3>1. i = Here(N, Top(w)) /\ vals = Values(Top(w), i) /\ Height(w) = n /\ w2 = StepOf(N, throws, w)
      BY <1>2, <1>4
    <3> HIDE DEF w2, i, vals, n, N, g, h, m2
    <3> QED
      BY <3>1, StepFields DEF h
  <2> HIDE DEF w2, i, vals, n, N, g, h, m2
  <2> QED
    BY <1>5, <2>1, <2>2
<1>7. IsCall(i) => i.callee \in ToSet(M.names)
  BY <1>1, HereParts
<1>8. Counted(M, i) <=> i.op \in {"call", "invoke"} /\ i.callee \notin DOMAIN M.fns
  BY DEF Counted, IsDeclaration
<1>9. ASSUME NEW a, NEW c, OnTop(m, m2, a), OnTop(w, w2, c), Before(M, a, c),
             m2.status = "running", w2.status = "running",
             Even(M, m2.trace, w2.trace, {}, {})
      PROVE  Sim(M, m2, w2)
  <2> HIDE DEF m2, w2
  <2>1. Beside(M, m2, w2) /\ Top(m2) = a /\ Top(w2) = c
    BY <1>1, <1>9, OnTopBeside
  <2>2. IsMachine(w2)
    BY <1>9 DEF OnTop
  <2>3. Abreast(M, m2, w2)
    BY <1>9, <2>1 DEF Abreast
  <2> QED
    BY <1>3, <1>9, <2>1, <2>2, <2>3 DEF Sim
<1>10. \/ Counted(M, i) /\ Even(M, t, u, {}, {i.callee})
       \/ ~Counted(M, i) /\ Even(M, t, u, {}, {})
  OBVIOUS
<1>ret. i.op = "ret" /\ n = 1 /\ Undefined \notin ToSet(vals) => m2.ret = vals[1] /\ w2.ret = vals[1]
  <2>1. i.op = "ret" /\ n = 1 /\ Undefined \notin ToSet(vals) => m2.ret = vals[1]
    BY <1>1, ReturnedValue
  <2>2. i = Here(N, Top(w)) /\ vals = Values(Top(w), i) /\ Height(w) = n
    BY <1>2, <1>4
  <2> HIDE DEF N, i, vals, n
  <2>3. i.op = "ret" /\ n = 1 /\ Undefined \notin ToSet(vals) => w2.ret = vals[1]
    BY <2>2, ReturnedValue
  <2> QED
    BY <2>1, <2>3
<1>at. At(M, g, h)
  OBVIOUS
<1>11. CASE Undefined \in ToSet(vals)
  <2>1. Halted(m, m2, "undefined") /\ Halted(w, w2, "undefined")
    BY <1>6, <1>11
  <2> HIDE DEF m2, w2
  <2> QED
    BY <1>3, <2>1 DEF Sim, Halted
<1>12. CASE Undefined \notin ToSet(vals) /\ i.op = "ret" /\ n = 1
  <2>1. Halted(m, m2, "done") /\ Halted(w, w2, "done") /\ m2.ret = w2.ret
    BY <1>6, <1>12, <1>ret
  <2>2. Even(M, t, u, {}, {})
    BY <1>8, <1>10, <1>12
  <2> HIDE DEF m2, w2
  <2> QED
    BY <1>3, <2>1, <2>2 DEF Sim, Halted
<1> HIDE DEF m2, w2, i, g, h, vals, t, u, n, N
<1>13. CASE Undefined \notin ToSet(vals) /\ i.op = "ret" /\ n > 1
  <2>1. Popped(M, m, m2, vals[1]) /\ Popped(N, w, w2, vals[1])
    BY <1>6, <1>13
  <2> DEFINE j == m.stack[n - 1]
             k == w.stack[n - 1]
             a == Resumed(M, j, m.stack[n].back, vals[1])
             c == Resumed(N, k, w.stack[n].back, vals[1])
  <2>2. /\ n - 1 \in 1 .. n - 1 /\ n - 1 \in 1 .. n /\ (n - 1) + 1 = n /\ n - 1 \in Nat
        /\ n - 1 > 0
    BY <1>1, <1>13
  <2>3. At(M, j, k) /\ FrameOK(M, j) /\ Waiting(M, j, m.stack[n])
    <3>1. At(M, j, k)
      BY <2>2 DEF Beside, n
    <3>2. FrameOK(M, j)
      BY <2>2 DEF MachineOK, FramesOK, n
    <3>3. Waiting(M, m.stack[n - 1], m.stack[(n - 1) + 1])
      BY <2>2 DEF MachineOK, FramesOK, n
    <3> QED
      BY <2>2, <3>1, <3>2, <3>3
  <2>4. w.stack[n].back = m.stack[n].back
    BY <1>1, <1>2, <1>at DEF At, Alike
  <2>5. Before(M, a, c)
    BY <2>3, <2>4, AlikeResumed DEF Waiting, N
  <2>6. /\ IsMachine(m2) /\ Height(m2) = n - 1 /\ m2.stack[n - 1] = a
        /\ \A x \in 1 .. n - 2 : m2.stack[x] = m.stack[x]
        /\ IsMachine(w2) /\ Height(w2) = n - 1 /\ w2.stack[n - 1] = c
        /\ \A x \in 1 .. n - 2 : w2.stack[x] = w.stack[x]
        /\ m2.trace = t /\ w2.trace = u /\ m2.status = "running" /\ w2.status = "running"
    <3>1. Height(w) = n /\ Height(m) = n
      BY <1>2 DEF n
    <3> QED
      BY <2>1, <3>1 DEF Popped, t, u
  <2> HIDE DEF j, k, a, c
  <2>7. Top(m2) = a /\ Top(w2) = c
    BY <2>6, HeightIs
  <2>8. Beside(M, m2, w2)
    <3> SUFFICES ASSUME NEW x \in 1 .. (n - 1) - 1
                 PROVE  At(M, m2.stack[x], w2.stack[x])
      BY <2>6 DEF Beside
    <3>1. x \in 1 .. n - 2 /\ x \in 1 .. n - 1
      BY <1>1
    <3>2. At(M, m.stack[x], w.stack[x])
      BY <3>1 DEF Beside, n
    <3> QED
      BY <2>6, <3>1, <3>2
  <2>9. Even(M, t, u, {}, {})
    BY <1>8, <1>10, <1>13
  <2>10. Abreast(M, m2, w2)
    BY <2>5, <2>6, <2>7, <2>9 DEF Abreast
  <2> QED
    BY <1>3, <2>6, <2>8, <2>10 DEF Sim
<1>14. CASE Undefined \notin ToSet(vals) /\ i.op = "br"
  <2>1. /\ Moved(m, m2, Jump(M, g, Target(i, vals)))
        /\ Moved(w, w2, Jump(N, h, Target(i, vals)))
    BY <1>6, <1>14
  <2>2. Target(i, vals) \in Labels(M.fns[g.fn]) \ {M.fns[g.fn].entry}
    BY <1>1, <1>14, TargetIs DEF i
  <2>3. Before(M, Jump(M, g, Target(i, vals)), Jump(N, h, Target(i, vals)))
    BY <1>1, <1>at, <2>2, AlikeJump DEF At, FrameOK, N
  <2>4. Even(M, t, u, {}, {})
    BY <1>8, <1>10, <1>14
  <2> QED
    BY <1>9, <2>1, <2>3, <2>4 DEF Moved, t, u
<1>15. CASE Undefined \notin ToSet(vals) /\ IsCall(i) /\ i.callee \in DOMAIN M.fns
  <2> DEFINE e == Event(EnterKind(i), i.callee, vals)
             a == Frame(M, i.callee, vals, i)
             c == Frame(N, i.callee, vals, i)
  <2>1. Entered(M, m, m2, i, vals) /\ Entered(N, w, w2, i, vals)
    BY <1>6, <1>15
  <2>2. /\ IsMachine(m2) /\ Height(m2) = n + 1 /\ m2.stack[n + 1] = a
        /\ \A x \in 1 .. n : m2.stack[x] = m.stack[x]
        /\ IsMachine(w2) /\ Height(w2) = n + 1 /\ w2.stack[n + 1] = c
        /\ \A x \in 1 .. n : w2.stack[x] = w.stack[x]
        /\ m2.trace = Append(t, e) /\ w2.trace = Append(u, e)
        /\ m2.status = "running" /\ w2.status = "running"
    <3>1. Height(w) = n /\ Height(m) = n
      BY <1>2 DEF n
    <3> HIDE DEF e, a, c
    <3> QED
      BY <2>1, <3>1 DEF Entered, t, u, e, a, c
  <2>3. Fresh(M, a, c)
    BY <1>15, AlikeEntry DEF N
  <2>4. a.fn = i.callee
    BY FrameFields
  <2>5. ~Counted(M, i)
    BY <1>8, <1>15
  <2>6. Even(M, Append(t, e), Append(u, e), {i.callee}, {})
    <3>1. EnterKind(i) \in {"enter", "ienter"}
      BY DEF EnterKind
    <3>2. i.callee \in ToSet(M.names) /\ Even(M, t, u, {}, {})
      BY <1>1, <1>7, <1>10, <1>15, <2>5
    <3> QED
      BY <1>1, <1>2, <3>1, <3>2, EvenCall
  <2> HIDE DEF e, a, c
  <2>7. Top(m2) = a /\ Top(w2) = c
    BY <2>2, HeightIs
  <2>8. Beside(M, m2, w2)
    <3> SUFFICES ASSUME NEW x \in 1 .. (n + 1) - 1
                 PROVE  At(M, m2.stack[x], w2.stack[x])
      BY <2>2 DEF Beside
    <3>1. x \in 1 .. n
      BY <1>1
    <3>2. At(M, m.stack[x], w.stack[x])
      <4>1. CASE x = n
        BY <1>1, <1>2, <1>at, <4>1
      <4>2. CASE x # n
        <5>1. x \in 1 .. n - 1
          BY <1>1, <3>1, <4>2
        <5> QED
          BY <5>1 DEF Beside, n
      <4> QED
        BY <4>1, <4>2
    <3> QED
      BY <2>2, <3>1, <3>2
  <2>9. Abreast(M, m2, w2)
    BY <2>2, <2>3, <2>4, <2>6, <2>7 DEF Abreast
  <2> QED
    BY <1>3, <2>2, <2>8, <2>9 DEF Sim
<1>16. CASE Undefined \notin ToSet(vals) /\ IsCall(i) /\ i.callee \notin DOMAIN M.fns
  <2> DEFINE e == Event(i.op, i.callee, vals)
             a == Answered(M, throws, g, i, vals)
             c == Answered(N, throws, h, i, vals)
  <2>1. CalledOut(M, throws, m, m2, i, vals) /\ CalledOut(N, throws, w, w2, i, vals)
    BY <1>6, <1>16
  <2>2. /\ OnTop(m, m2, a) /\ OnTop(w, w2, c)
        /\ m2.trace = Append(t, e) /\ w2.trace = Append(u, e)
        /\ m2.status = "running" /\ w2.status = "running"
    BY <2>1 DEF CalledOut, t, u, g, h
  <2>3. Before(M, a, c)
    BY <1>1, <1>16, <1>at, AlikeAnswered DEF N, i
  <2>4. Even(M, Append(t, e), Append(u, e), {}, {})
    <3>1. CASE i.op \in {"call", "invoke"}
      <4>1. Even(M, t, u, {}, {i.callee})
        BY <1>8, <1>10, <1>16, <3>1
      <4> QED
        BY <1>1, <1>2, <1>7, <1>16, <3>1, <4>1, EvenCall
    <3>2. CASE i.op = "icall"
      <4>1. Even(M, t, u, {}, {})
        BY <1>8, <1>10, <3>2
      <4> QED
        BY <1>1, <1>2, <1>7, <1>16, <3>2, <4>1, EvenCall
    <3> QED
      BY <1>16, <3>1, <3>2 DEF IsCall
  <2> HIDE DEF e, a, c
  <2> QED
    BY <1>9, <2>2, <2>3, <2>4
<1>17. CASE Undefined \notin ToSet(vals) /\ i.op \notin Terminators /\ ~IsCall(i)
  <2> DEFINE a == Ahead(g, i, Eval(i.op, i.ty, vals))
             c == Ahead(h, i, Eval(i.op, i.ty, vals))
  <2>1. Moved(m, m2, a) /\ Moved(w, w2, c)
    BY <1>6, <1>17
  <2>2. Before(M, a, c)
    BY <1>1, <1>17, <1>at, AlikeAhead DEF i
  <2>3. Even(M, t, u, {}, {})
    BY <1>8, <1>10, <1>17 DEF IsCall
  <2> HIDE DEF a, c
  <2> QED
    BY <1>9, <2>1, <2>2, <2>3 DEF Moved, t, u
<1>18. i.op \in Terminators => i.op \in {"ret", "br"} \/ IsCall(i)
  BY DEF Terminators, IsCall
<1> QED
  BY <1>1, <1>11, <1>12, <1>13, <1>14, <1>15, <1>16, <1>17, <1>18


(* A step of the instrumented module is an increment or a step of the      *)
(* module as well.                                                         *)
LEMMA SimStep ==
  ASSUME NEW M, SourceOK(M), NEW throws, NEW m, NEW w, Sim(M, m, w), m.status = "running"
  PROVE  \/ Sim(M, m, StepOf(Instrumented(M), throws, w))
         \/ Sim(M, StepOf(M, throws, m), StepOf(Instrumented(M), throws, w))
<1> DEFINE g == Top(m)
           h == Top(w)
           i == Here(M, g)
           w2 == StepOf(Instrumented(M), throws, w)
           n == Height(m)
<1>1. /\ MachineOK(M, m) /\ IsMachine(w) /\ w.status = "running" /\ Beside(M, m, w)
      /\ Height(w) = n /\ IsSeq(w.trace)
  BY DEF Sim, IsMachine, Beside
<1>2. FrameOK(M, g)
  BY <1>1, TopOK
<1> HIDE DEF g, h, i, w2, n
<1>3. ASSUME NEW f \in ToSet(M.names), Here(Instrumented(M), h) = Incr(M, f), Alike(g, h)
      PROVE  /\ Alike(g, Top(w2)) /\ Top(w2).pc = h.pc + 1
             /\ Even(M, m.trace, w.trace, {f}, {}) =>
                  Even(M, m.trace, Append(w.trace, Event("call", IncrCC, <<ID(M, f)>>)), {}, {})
             /\ Even(M, m.trace, w.trace, {}, {}) =>
                  Even(M, m.trace, Append(w.trace, Event("call", IncrCC, <<ID(M, f)>>)), {}, {f})
  <2> DEFINE e == Event("call", IncrCC, <<ID(M, f)>>)
  <2>1. /\ IsMachine(w2) /\ Height(w2) = Height(w) /\ w2.status = w.status
        /\ \A k \in 1 .. Height(w) - 1 : w2.stack[k] = w.stack[k]
        /\ Follows(h, Top(w2)) /\ Top(w2).at = h.at
        /\ Top(w2).pc = h.pc + 1 /\ Top(w2).env = h.env
        /\ w2.trace = Append(w.trace, Event("call", IncrCC, <<ID(M, f)>>))
    BY <1>1, <1>3, IncrStep DEF w2, h
  <2>2. Alike(g, Top(w2))
    BY <1>3, <2>1 DEF Alike, Follows
  <2>3. e.fn = IncrCC /\ e.args[1] = ID(M, f)
    BY DEF Event
  <2> HIDE DEF e
  <2>4. /\ Even(M, m.trace, w.trace, {f}, {}) => Even(M, m.trace, Append(w.trace, e), {}, {})
        /\ Even(M, m.trace, w.trace, {}, {}) => Even(M, m.trace, Append(w.trace, e), {}, {f})
    BY <1>1, <2>3, EvenIncr
  <2> QED
    BY <2>1, <2>2, <2>4 DEF e
<1>4. CASE Fresh(M, g, h) /\ Even(M, m.trace, w.trace, {g.fn}, {})
  <2>1. /\ Here(Instrumented(M), h) = Incr(M, g.fn)
        /\ h.pc + 1 = FirstOf(M, BlockOf(M, g.fn, g.at), PlaceOf(M, g.fn, g.at), g.pc)
    BY <1>2, <1>4, AlikeHere
  <2>2. g.fn \in ToSet(M.names) /\ Alike(g, h)
    BY <1>2, <1>4, SourceParts DEF FrameOK, Fresh
  <2>3. /\ Alike(g, Top(w2)) /\ Top(w2).pc = h.pc + 1
        /\ Even(M, m.trace, Append(w.trace, Event("call", IncrCC, <<ID(M, g.fn)>>)), {}, {})
    BY <1>3, <1>4, <2>1, <2>2
  <2>4. Before(M, g, Top(w2))
    BY <2>1, <2>3 DEF Before
  <2>5. /\ IsMachine(w2) /\ Height(w2) = n /\ w2.status = "running"
        /\ \A k \in 1 .. n - 1 : w2.stack[k] = w.stack[k]
        /\ w2.trace = Append(w.trace, Event("call", IncrCC, <<ID(M, g.fn)>>))
    BY <1>1, <2>1, <2>2, IncrStep DEF w2, h
  <2>6. Beside(M, m, w2)
    BY <1>1, <2>5 DEF Beside, n
  <2>7. Abreast(M, m, w2)
    BY <2>3, <2>4, <2>5 DEF Abreast, g, i
  <2>8. Sim(M, m, w2)
    BY <1>1, <2>5, <2>6, <2>7 DEF Sim
  <2> QED
    BY <2>8 DEF w2
<1>5. CASE Before(M, g, h) /\ Even(M, m.trace, w.trace, {}, {}) /\ Counted(M, i)
  <2>1. /\ Here(Instrumented(M), h) = Incr(M, i.callee)
        /\ h.pc + 1 = PlaceOf(M, g.fn, g.at)[g.pc]
    BY <1>2, <1>5, AlikeHere DEF i
  <2>2. i.callee \in ToSet(M.names) /\ Alike(g, h)
    BY <1>2, <1>5, HereParts DEF Before, Counted, IsCall, i
  <2>3. /\ Alike(g, Top(w2)) /\ Top(w2).pc = h.pc + 1
        /\ Even(M, m.trace, Append(w.trace, Event("call", IncrCC, <<ID(M, i.callee)>>)),
                {}, {i.callee})
    BY <1>3, <1>5, <2>1, <2>2
  <2>4. At(M, g, Top(w2))
    BY <2>1, <2>3 DEF At
  <2>5. /\ IsMachine(w2) /\ Height(w2) = n /\ w2.status = "running"
        /\ \A k \in 1 .. n - 1 : w2.stack[k] = w.stack[k]
        /\ w2.trace = Append(w.trace, Event("call", IncrCC, <<ID(M, i.callee)>>))
    BY <1>1, <2>1, <2>2, IncrStep DEF w2, h
  <2>6. Beside(M, m, w2)
    BY <1>1, <2>5 DEF Beside, n
  <2>7. Abreast(M, m, w2)
    BY <1>5, <2>3, <2>4, <2>5 DEF Abreast, g, i
  <2>8. Sim(M, m, w2)
    BY <1>1, <2>5, <2>6, <2>7 DEF Sim
  <2> QED
    BY <2>8 DEF w2
<1>6. CASE Before(M, g, h) /\ Even(M, m.trace, w.trace, {}, {}) /\ ~Counted(M, i)
  <2>1. At(M, g, h)
    BY <1>2, <1>6, AlikeHere DEF i
  <2> QED
    BY <1>1, <1>6, <2>1, BothStep DEF g, h, i
<1>7. CASE At(M, g, h) /\ Counted(M, i) /\ Even(M, m.trace, w.trace, {}, {i.callee})
  BY <1>1, <1>7, BothStep DEF g, h, i
<1>8. Abreast(M, m, w)
  BY DEF Sim
<1> QED
  BY <1>4, <1>5, <1>6, <1>7, <1>8 DEF Abreast, g, h, i

LEMMA SimStart ==
  ASSUME NEW M, SourceOK(M), NEW f \in DOMAIN M.fns, NEW vals
  PROVE  Sim(M, Starting(M, f, vals), Starting(Instrumented(M), f, vals))
<1> DEFINE m == Starting(M, f, vals)
           w == Starting(Instrumented(M), f, vals)
           g == Frame(M, f, vals, None)
           h == Frame(Instrumented(M), f, vals, None)
           e == Event("start", f, vals)
<1>1. /\ m.stack = <<g>> /\ m.trace = <<e>> /\ m.status = "running"
      /\ w.stack = <<h>> /\ w.trace = <<e>> /\ w.status = "running"
      /\ DOMAIN w = {"stack", "trace", "status", "ret"}
  BY DEF Starting
<1>2. MachineOK(M, m)
  BY StartingOK
<1>3. Fresh(M, g, h) /\ g.fn = f /\ IsFrame(h)
  BY AlikeEntry, FrameFields
<1>4. e.kind = "start" /\ e.fn = f /\ f # IncrCC
  BY SourceParts DEF Event
<1> HIDE DEF m, w, g, h, e
<1>5. /\ IsSeq(<<g>>) /\ Len(<<g>>) = 1 /\ <<g>>[1] = g
      /\ IsSeq(<<h>>) /\ Len(<<h>>) = 1 /\ <<h>>[1] = h
      /\ IsSeq(<<e>>) /\ Len(<<e>>) = 1 /\ <<e>>[1] = e
  BY SeqOne
<1>6. IsMachine(w) /\ Height(w) = 1 /\ Height(m) = 1 /\ IsMachine(m)
  BY <1>1, <1>2, <1>3, <1>5 DEF IsMachine, Height, MachineOK
<1>7. Top(m) = g /\ Top(w) = h
  BY <1>1, <1>5, <1>6, HeightIs
<1>8. Beside(M, m, w)
  BY <1>6 DEF Beside
<1>9. Even(M, <<e>>, <<e>>, {f}, {})
  <2>1. DOMAIN <<e>> = {1}
    BY <1>5, SeqFacts
  <2>2. Increments(<<e>>) = {}
    BY <1>4, <1>5, <2>1 DEF Increments
  <2>3. \A x : CallsIn(<<e>>, x) = IF x = f THEN {1} ELSE {}
    BY <1>4, <1>5, <2>1 DEF CallsIn
  <2>4. IsFiniteSet({}) /\ Cardinality({}) = 0 /\ IsFiniteSet({1}) /\ Cardinality({1}) = 1
    BY FS_EmptySet, FS_Singleton
  <2>5. \A x : Increment(<<e>>, x) = {}
    BY <2>2 DEF Increment
  <2>6. ASSUME NEW x \in ToSet(M.names)
        PROVE  /\ IsFiniteSet(CallsIn(<<e>>, x))
               /\ Cardinality(Increment(<<e>>, ID(M, x))) + (IF x \in {f} THEN 1 ELSE 0) =
                    Cardinality(CallsIn(<<e>>, x)) + (IF x \in {} THEN 1 ELSE 0)
    <3>1. Cardinality(Increment(<<e>>, ID(M, x))) = 0
      BY <2>4, <2>5
    <3>2. /\ IsFiniteSet(CallsIn(<<e>>, x))
          /\ Cardinality(CallsIn(<<e>>, x)) = IF x = f THEN 1 ELSE 0
      BY <2>3, <2>4
    <3> QED
      BY <3>1, <3>2
  <2> QED
    BY <2>2, <2>4, <2>6 DEF Even
<1>10. Abreast(M, m, w)
  BY <1>1, <1>3, <1>7, <1>9 DEF Abreast
<1>11. Sim(M, m, w)
  BY <1>1, <1>2, <1>6, <1>8, <1>10 DEF Sim
<1> QED
  BY <1>11 DEF m, w

(* The instrumented program, when it ends, has made for each function as   *)
(* many increments of its counter as there were calls in the program       *)
(* itself, and has returned the same value.                                *)
THEOREM InstrumentationCounts ==
  ASSUME NEW M, SourceOK(M), NEW f \in DOMAIN M.fns, NEW vals, NEW throws,
         Outcome(Instrumented(M), f, vals, throws).status = "done"
  PROVE  LET t == Outcome(M, f, vals, throws).trace
             u == Outcome(Instrumented(M), f, vals, throws).trace
         IN  /\ Outcome(M, f, vals, throws).status = "done"
             /\ Outcome(M, f, vals, throws).ret = Outcome(Instrumented(M), f, vals, throws).ret
             /\ IsFiniteSet(Increments(u))
             /\ \A x \in Increments(u) : x[1] \in Nat /\ x[2] \in DOMAIN M.names
             /\ \A n \in DOMAIN M.names :
                  /\ IsFiniteSet(CallsIn(t, M.names[n]))
                  /\ Cardinality(Increment(u, n)) = Cardinality(CallsIn(t, M.names[n]))
<1> DEFINE N == Instrumented(M)
<1>1. PICK m : /\ IsRun(M, throws, Starting(M, f, vals), m, Bound)
               /\ Run(M, f, vals, throws) = m[Bound]
  BY RunIsRun
<1>2. PICK w : /\ IsRun(N, throws, Starting(N, f, vals), w, Bound)
               /\ Run(N, f, vals, throws) = w[Bound]
  BY RunIsRun
<1>3. Bound \in Nat
  BY BoundIsNat
<1> DEFINE T == {k \in Nat : k <= Bound => \E j \in 0 .. k : Sim(M, m[j], w[k])}
<1>4. 0 \in T
  <2>1. m[0] = Starting(M, f, vals) /\ w[0] = Starting(N, f, vals)
    BY <1>1, <1>2 DEF IsRun
  <2>2. Sim(M, m[0], w[0])
    BY <2>1, SimStart
  <2>3. 0 \in 0 .. 0
    OBVIOUS
  <2> QED
    BY <2>2, <2>3
<1>5. ASSUME NEW k \in Nat, k \in T
      PROVE  k + 1 \in T
  <2> SUFFICES ASSUME k + 1 <= Bound
               PROVE  \E j \in 0 .. k + 1 : Sim(M, m[j], w[k + 1])
    OBVIOUS
  <2>1. PICK j \in 0 .. k : Sim(M, m[j], w[k])
    BY <1>3, <1>5
  <2>2. k + 1 \in 1 .. Bound /\ (k + 1) - 1 = k
    BY <1>3
  <2>3. w[k + 1] = Advance(N, throws, w[k])
    BY <1>2, <2>2 DEF IsRun
  <2>4. w[k].status = m[j].status
    BY <2>1 DEF Sim
  <2>5. CASE m[j].status # "running"
    <3>1. w[k + 1] = w[k]
      BY <2>3, <2>4, <2>5 DEF Advance
    <3>2. j \in 0 .. k + 1
      OBVIOUS
    <3> QED
      BY <2>1, <3>1, <3>2
  <2>6. CASE m[j].status = "running"
    <3>1. w[k + 1] = StepOf(N, throws, w[k])
      BY <2>3, <2>4, <2>6 DEF Advance
    <3>2. j + 1 \in 1 .. Bound /\ (j + 1) - 1 = j /\ j \in 0 .. k + 1 /\ j + 1 \in 0 .. k + 1
      BY <1>3
    <3>3. m[j + 1] = StepOf(M, throws, m[j])
      <4>1. m[j + 1] = Advance(M, throws, m[j])
        BY <1>1, <3>2 DEF IsRun
      <4> QED
        BY <2>6, <4>1 DEF Advance
    <3>4. Sim(M, m[j], w[k + 1]) \/ Sim(M, m[j + 1], w[k + 1])
      BY <2>1, <2>6, <3>1, <3>3, SimStep
    <3> QED
      BY <3>2, <3>4
  <2> QED
    BY <2>5, <2>6
<1>6. PICK j \in 0 .. Bound : Sim(M, m[j], w[Bound])
  <2>1. Nat \subseteq T
    <3> HIDE DEF T
    <3> QED
      BY <1>4, <1>5, NatInSet
  <2> QED
    BY <1>3, <2>1
<1>7. /\ Outcome(N, f, vals, throws).trace = w[Bound].trace
      /\ Outcome(N, f, vals, throws).status = w[Bound].status
      /\ Outcome(N, f, vals, throws).ret = w[Bound].ret
  BY <1>2, <1>6 DEF Sim, Outcome, IsMachine
<1>8. m[j].status = "done" /\ Even(M, m[j].trace, w[Bound].trace, {}, {}) /\ w[Bound].ret = m[j].ret
  BY <1>6, <1>7 DEF Sim
<1>9. m[Bound] = m[j]
  BY <1>1, <1>3, <1>8, RunStays
<1>10. /\ Outcome(M, f, vals, throws).trace = m[j].trace
       /\ Outcome(M, f, vals, throws).status = "done"
       /\ Outcome(M, f, vals, throws).ret = m[j].ret
  BY <1>1, <1>6, <1>8, <1>9 DEF Sim, MachineOK, Outcome, IsMachine
<1> DEFINE t == m[j].trace
           u == w[Bound].trace
<1>11. ASSUME NEW n \in DOMAIN M.names
       PROVE  /\ IsFiniteSet(CallsIn(t, M.names[n]))
              /\ Cardinality(Increment(u, n)) = Cardinality(CallsIn(t, M.names[n]))
  <2>1. M.names[n] \in ToSet(M.names) /\ ID(M, M.names[n]) = n
    BY IDParts
  <2>2. Cardinality(CallsIn(t, M.names[n])) \in Nat /\ Cardinality(Increment(u, n)) \in Nat
    BY <1>8, <2>1, EvenNumbers
  <2>3. /\ IsFiniteSet(CallsIn(t, M.names[n]))
        /\ Cardinality(Increment(u, n)) + 0 = Cardinality(CallsIn(t, M.names[n])) + 0
    BY <1>8, <2>1 DEF Even
  <2> QED
    BY <2>2, <2>3
<1>12. /\ IsFiniteSet(Increments(u))
       /\ \A x \in Increments(u) : x[1] \in Nat /\ x[2] \in DOMAIN M.names
  <2>1. IsFiniteSet(Increments(u)) /\ \A x \in Increments(u) : x[2] \in DOMAIN M.names
    BY <1>8 DEF Even
  <2>2. DOMAIN u \subseteq Nat
    <3>1. IsSeq(u)
      BY <1>6 DEF Sim, IsMachine
    <3> HIDE DEF u
    <3> QED
      BY <3>1, SeqFacts
  <2>3. \A x \in Increments(u) : x[1] \in DOMAIN u
    BY DEF Increments
  <2> QED
    BY <2>1, <2>2, <2>3
<1> QED
  BY <1>7, <1>8, <1>10, <1>11, <1>12
===============================================================================
