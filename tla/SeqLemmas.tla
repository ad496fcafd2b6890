----------------------------- MODULE SeqLemmas -----------------------------
(***************************************************************************)
(* Lemmas about data: sequences whose elements have no type to name (the   *)
(* parser's values are trees of any height), what a path leads to, and the *)
(* text of a path, a JSON Pointer, taken apart and put together.           *)
(***************************************************************************)
EXTENDS Pointer, SequenceTheorems, WellFoundedInduction, TLAPS

(* No set of numbers lacks a least element. *)
LEMMA LeastNumber ==
  ASSUME NEW S, S \subseteq Nat, S # {}
  PROVE  \E n \in S : \A m \in S : n <= m
<1> DEFINE least == OpToRel(<, Nat)
<1>1. PICK n \in S : \A m \in S : ~(<<m, n>> \in least)
  BY NatLessThanWellFounded, WFMin
<1>2. \A m \in S : ~(m < n) BY <1>1 DEF OpToRel
<1> QED BY <1>2

Elements(s) == { s[i] : i \in 1..Len(s) }

(* A sequence in shape is a sequence over its own elements. *)
LEMMA IsSequenceIsSeq ==
  ASSUME NEW s, IsSequence(s), NEW S, Elements(s) \subseteq S
  PROVE  s \in Seq(S)
<1>1. Len(s) \in Nat BY DEF IsSequence
<1>2. [i \in 1..Len(s) |-> s[i]] \in [1..Len(s) -> S] BY DEF Elements
<1>3. s \in [1..Len(s) -> S] BY <1>2 DEF IsSequence
<1> QED BY <1>1, <1>3

LEMMA SeqIsSequence ==
  ASSUME NEW S, NEW s \in Seq(S)
  PROVE  IsSequence(s)
BY DEF IsSequence

LEMMA AppendSequence ==
  ASSUME NEW s, IsSequence(s), NEW e
  PROVE  /\ IsSequence(Append(s, e))
         /\ Len(Append(s, e)) = Len(s) + 1
         /\ \A i \in 1..Len(s) : Append(s, e)[i] = s[i]
         /\ Append(s, e)[Len(s) + 1] = e
<1> DEFINE S == Elements(s) \cup { e }
<1>1. s \in Seq(S) BY IsSequenceIsSeq
<1>2. Append(s, e) \in Seq(S) BY <1>1
<1>3. IsSequence(Append(s, e)) BY <1>2, SeqIsSequence
<1> QED BY <1>1, <1>3

LEMMA ConcatSequence ==
  ASSUME NEW s, IsSequence(s), NEW t, IsSequence(t)
  PROVE  IsSequence(s \o t)
<1> DEFINE S == Elements(s) \cup Elements(t)
<1>1. s \in Seq(S) BY IsSequenceIsSeq
<1>2. t \in Seq(S) BY IsSequenceIsSeq
<1>3. s \o t \in Seq(S) BY <1>1, <1>2, ConcatProperties
<1> QED BY <1>3, SeqIsSequence

LEMMA PairSequence ==
  ASSUME NEW a, NEW b
  PROVE  IsSequence(<<a, b>>)
<1>1. <<a, b>> \in Seq({a, b}) OBVIOUS
<1> QED BY <1>1, SeqIsSequence

LEMMA EmptySequence == IsSequence(<<>>) /\ Len(<<>>) = 0
BY DEF IsSequence

(* A prefix of a sequence; Front is the one that leaves out the last.      *)
LEMMA SubSeqSequence ==
  ASSUME NEW s, IsSequence(s), NEW n \in 0..Len(s)
  PROVE  /\ IsSequence(SubSeq(s, 1, n))
         /\ Len(SubSeq(s, 1, n)) = n
         /\ \A i \in 1..n : SubSeq(s, 1, n)[i] = s[i]
<1> DEFINE S == Elements(s)
<1>1. Len(s) \in Nat BY DEF IsSequence
<1>2. \A i \in 1..n : s[i] \in S BY <1>1 DEF Elements
<1>3. /\ SubSeq(s, 1, n) \in Seq(S)
      /\ Len(SubSeq(s, 1, n)) = IF 1 <= n THEN n - 1 + 1 ELSE 0
      /\ \A i \in 1..(n - 1 + 1) : SubSeq(s, 1, n)[i] = s[1 + i - 1]
  <2> HIDE DEF S
  <2> QED BY <1>1, <1>2, SubSeqProperties
<1>4. IsSequence(SubSeq(s, 1, n)) BY <1>3, SeqIsSequence
<1> QED BY <1>1, <1>3, <1>4

LEMMA NonEmptySequence ==
  ASSUME NEW s, IsSequence(s)
  PROVE  (s = <<>>) <=> (Len(s) = 0)
<1>1. s \in Seq(Elements(s)) BY IsSequenceIsSeq
<1> QED BY <1>1

LEMMA FrontSequence ==
  ASSUME NEW s, IsSequence(s), s # <<>>
  PROVE  /\ Len(s) \in Nat \ {0}
         /\ IsSequence(Front(s))
         /\ Len(Front(s)) = Len(s) - 1
         /\ \A i \in 1..(Len(s) - 1) : Front(s)[i] = s[i]
         /\ Last(s) = s[Len(s)]
<1>1. Len(s) \in Nat \ {0} BY NonEmptySequence DEF IsSequence
<1>2. Len(s) - 1 \in 0..Len(s) BY <1>1
<1> QED BY <1>1, <1>2, SubSeqSequence DEF Front, Last

(* Overwriting one element. *)
LEMMA ExceptSequence ==
  ASSUME NEW s, IsSequence(s), NEW k \in 1..Len(s), NEW e
  PROVE  LET t == [s EXCEPT ![k] = e]
         IN  /\ IsSequence(t)
             /\ Len(t) = Len(s)
             /\ t[k] = e
             /\ \A i \in 1..Len(s) : i # k => t[i] = s[i]
<1> DEFINE S == Elements(s) \cup { e }
           t == [s EXCEPT ![k] = e]
<1>1. s \in Seq(S) BY IsSequenceIsSeq
<1>2. t \in Seq(S) /\ Len(t) = Len(s) BY <1>1
<1>3. IsSequence(t) BY <1>2, SeqIsSequence
<1> QED BY <1>1, <1>2, <1>3

(* Two sequences with the same elements are the same.                      *)
LEMMA SameSequence ==
  ASSUME NEW s, IsSequence(s), NEW t, IsSequence(t), Len(s) = Len(t),
         \A i \in 1..Len(s) : s[i] = t[i]
  PROVE  s = t
BY DEF IsSequence

LEMMA PrefixElements ==
  ASSUME NEW s, IsSequence(s), NEW t, IsSequence(t)
  PROVE  IsPrefix(s, t) <=> Len(s) <= Len(t) /\ \A i \in 1..Len(s) : s[i] = t[i]
<1>1. Len(s) \in Nat /\ Len(t) \in Nat BY DEF IsSequence
<1>2. CASE Len(s) <= Len(t)
  <2>1. Len(s) \in 0..Len(s) /\ Len(s) \in 0..Len(t) BY <1>1, <1>2
  <2> DEFINE a == SubSeq(s, 1, Len(s))
             b == SubSeq(t, 1, Len(s))
  <2>2. /\ IsSequence(a) /\ Len(a) = Len(s) /\ \A i \in 1..Len(s) : a[i] = s[i]
        /\ IsSequence(b) /\ Len(b) = Len(s) /\ \A i \in 1..Len(s) : b[i] = t[i]
    BY <2>1, SubSeqSequence
  <2>3. IsPrefix(s, t) <=> a = b BY <1>2 DEF IsPrefix
  <2> HIDE DEF a, b
  <2>4. (a = b) <=> \A i \in 1..Len(s) : s[i] = t[i]
    <3>1. ASSUME \A i \in 1..Len(s) : s[i] = t[i] PROVE a = b BY <2>2, <3>1, SameSequence
    <3>2. ASSUME a = b PROVE \A i \in 1..Len(s) : s[i] = t[i] BY <2>2, <3>2
    <3> QED BY <3>1, <3>2
  <2> QED BY <1>2, <2>3, <2>4
<1>3. CASE ~(Len(s) <= Len(t)) BY <1>3 DEF IsPrefix
<1> QED BY <1>2, <1>3

LEMMA PrefixTransitive ==
  ASSUME NEW s, IsSequence(s), NEW t, IsSequence(t), NEW u, IsSequence(u),
         IsPrefix(s, t), IsPrefix(t, u)
  PROVE  IsPrefix(s, u)
<1>1. Len(s) \in Nat /\ Len(t) \in Nat /\ Len(u) \in Nat BY DEF IsSequence
<1>2. Len(s) <= Len(t) /\ \A i \in 1..Len(s) : s[i] = t[i] BY PrefixElements
<1>3. Len(t) <= Len(u) /\ \A i \in 1..Len(t) : t[i] = u[i] BY PrefixElements
<1>4. Len(s) <= Len(u) /\ \A i \in 1..Len(s) : s[i] = u[i] BY <1>1, <1>2, <1>3
<1> QED BY <1>4, PrefixElements

LEMMA ConcatElements ==
  ASSUME NEW s, IsSequence(s), NEW t, IsSequence(t)
  PROVE  /\ IsSequence(s \o t) /\ Len(s \o t) = Len(s) + Len(t)
         /\ \A i \in 1..Len(s) : (s \o t)[i] = s[i]
         /\ \A i \in (Len(s) + 1)..(Len(s) + Len(t)) : (s \o t)[i] = t[i - Len(s)]
<1> DEFINE S == Elements(s) \cup Elements(t)
<1>1. s \in Seq(S) /\ t \in Seq(S) BY IsSequenceIsSeq
<1>2. Len(s) \in Nat /\ Len(t) \in Nat BY DEF IsSequence
<1>3. /\ Len(s \o t) = Len(s) + Len(t)
      /\ \A i \in 1..Len(s) + Len(t) : (s \o t)[i] = IF i <= Len(s) THEN s[i] ELSE t[i - Len(s)]
  <2> HIDE DEF S
  <2> QED BY <1>1, ConcatProperties
<1> QED BY <1>2, <1>3, ConcatSequence

LEMMA PrefixOfConcat ==
  ASSUME NEW s, IsSequence(s), NEW t, IsSequence(t)
  PROVE  IsPrefix(s, s) /\ IsPrefix(s, s \o t)
<1>1. Len(s) \in Nat /\ Len(t) \in Nat BY DEF IsSequence
<1>2. IsPrefix(s, s) BY <1>1, PrefixElements
<1>3. IsPrefix(s, s \o t)
  <2> DEFINE u == s \o t
  <2>1. IsSequence(u) /\ Len(s) <= Len(u) /\ \A i \in 1..Len(s) : u[i] = s[i]
    BY <1>1, ConcatElements
  <2> HIDE DEF u
  <2> QED BY <2>1, PrefixElements DEF u
<1> QED BY <1>2, <1>3

-----------------------------------------------------------------------------
(* The tokens of array elements: IndexOf reads what Decimal writes.  A     *)
(* recursive function is known by its equation once some function is shown *)
(* to satisfy it: a least argument for which none does is absurd.          *)

DecStep(f, k) == IF k < 10 THEN <<HexDigit[k + 1]>> ELSE Append(f[k \div 10], HexDigit[(k % 10) + 1])

DecUpTo(f, n) == f = [k \in 0..n |-> f[k]] /\ \A k \in 0..n : f[k] = DecStep(f, k)

LEMMA Tenth ==
  ASSUME NEW k \in Nat, k >= 10
  PROVE  k \div 10 \in Nat /\ k \div 10 < k /\ k % 10 \in 0..9 /\ k = 10 * (k \div 10) + (k % 10)
OBVIOUS

LEMMA DecExists == \A n \in Nat : \E f : DecUpTo(f, n)
<1> DEFINE bad == { n \in Nat : ~\E f : DecUpTo(f, n) }
<1>1. SUFFICES ASSUME bad # {} PROVE FALSE OBVIOUS
<1>2. PICK n \in bad : \A m \in bad : n <= m
  <2> HIDE DEF bad
  <2>1. bad \subseteq Nat BY DEF bad
  <2> QED BY <1>1, <2>1, LeastNumber
<1>3. n \in Nat /\ \A m \in Nat : m < n => \E f : DecUpTo(f, m) BY <1>2
<1>4. \E f : DecUpTo(f, n)
  <2>1. CASE n = 0
    <3> DEFINE g == [k \in 0..0 |-> <<HexDigit[k + 1]>>]
    <3>1. DecUpTo(g, 0) BY DEF DecUpTo, DecStep
    <3> QED BY <2>1, <3>1
  <2>2. CASE n # 0
    <3>1. n - 1 \in Nat /\ n - 1 < n BY <1>3, <2>2
    <3>2. PICK f : DecUpTo(f, n - 1) BY <1>3, <3>1
    <3> DEFINE g == [k \in 0..n |-> IF k = n THEN DecStep(f, n) ELSE f[k]]
    <3>3. \A k \in 0..n : k # n => k \in 0..(n - 1) /\ g[k] = f[k] BY <1>3
    <3>4. ASSUME NEW k \in 0..n PROVE DecStep(g, k) = DecStep(f, k)
      <4>1. CASE k < 10 BY <4>1 DEF DecStep
      <4>2. CASE k >= 10
        <5>1. k \div 10 \in 0..n /\ k \div 10 # n BY <4>2, <1>3, Tenth
        <5>2. g[k \div 10] = f[k \div 10] BY <3>3, <5>1
        <5> HIDE DEF g
        <5> QED BY <5>2 DEF DecStep
      <4> QED BY <4>1, <4>2
    <3>5. \A k \in 0..n : g[k] = DecStep(g, k)
      <4> SUFFICES ASSUME NEW k \in 0..n PROVE g[k] = DecStep(f, k) BY <3>4
      <4>1. CASE k = n BY <4>1
      <4>2. CASE k # n BY <3>2, <3>3, <4>2 DEF DecUpTo
      <4> QED BY <4>1, <4>2
    <3>6. g = [k \in 0..n |-> g[k]] OBVIOUS
    <3> QED BY <3>5, <3>6 DEF DecUpTo
  <2> QED BY <2>1, <2>2
<1> QED BY <1>2, <1>4

(* ... and there is only one. *)
LEMMA DecUnique ==
  ASSUME NEW n \in Nat, NEW m \in Nat, n <= m, NEW f, DecUpTo(f, n), NEW g, DecUpTo(g, m)
  PROVE  \A k \in 0..n : f[k] = g[k]
<1> DEFINE bad == { k \in 0..n : f[k] # g[k] }
<1>1. SUFFICES ASSUME bad # {} PROVE FALSE OBVIOUS
<1>2. PICK k \in bad : \A j \in bad : k <= j
  <2> HIDE DEF bad
  <2>1. bad \subseteq Nat BY DEF bad
  <2> QED BY <1>1, <2>1, LeastNumber
<1>3. k \in 0..n /\ k \in 0..m /\ f[k] # g[k] /\ \A j \in 0..n : j < k => f[j] = g[j] BY <1>2
<1>4. f[k] = DecStep(f, k) /\ g[k] = DecStep(g, k) BY <1>3 DEF DecUpTo
<1>5. DecStep(f, k) = DecStep(g, k)
  <2>1. CASE k < 10 BY <2>1 DEF DecStep
  <2>2. CASE k >= 10
    <3>1. k \div 10 \in 0..n /\ k \div 10 < k BY <1>3, <2>2, Tenth
    <3> QED BY <1>3, <3>1 DEF DecStep
  <2> QED BY <1>3, <2>1, <2>2
<1> QED BY <1>3, <1>4, <1>5

LEMMA DecimalDigits ==
  ASSUME NEW n \in Nat
  PROVE  Decimal(n) = IF n < 10 THEN <<HexDigit[n + 1]>>
                      ELSE Append(Decimal(n \div 10), HexDigit[(n % 10) + 1])
<1> DEFINE dec == CHOOSE f : f = [k \in Nat |-> IF k < 10 THEN <<HexDigit[k + 1]>>
                        ELSE Append(f[k \div 10], HexDigit[(k % 10) + 1])]
           F(k) == (CHOOSE f : DecUpTo(f, k))
           all == [k \in Nat |-> F(k)[k]]
<1>1. \A k \in Nat : DecUpTo(F(k), k) BY DecExists
<1>2. ASSUME NEW k \in Nat PROVE all[k] = DecStep(all, k)
  <2>1. all[k] = DecStep(F(k), k) 
    <3>1. all[k] = F(k)[k] OBVIOUS
    <3>2. DecUpTo(F(k), k) BY <1>1
    <3> HIDE DEF F, all
    <3> QED BY <3>1, <3>2 DEF DecUpTo
  <2>2. CASE k < 10 BY <2>1, <2>2 DEF DecStep
  <2>3. CASE k >= 10
    <3>1. k \div 10 \in Nat /\ k \div 10 < k BY <2>3, Tenth
    <3>2. DecUpTo(F(k), k) /\ DecUpTo(F(k \div 10), k \div 10) BY <1>1, <3>1
    <3>3. all[k \div 10] = F(k \div 10)[k \div 10] BY <3>1
    <3> HIDE DEF F, all
    <3>4. F(k \div 10)[k \div 10] = F(k)[k \div 10] 
      <4>1. k \div 10 \in 0..(k \div 10) BY <3>1
      <4> QED BY <3>1, <3>2, <4>1, DecUnique
    <3> QED BY <2>1, <2>3, <3>3, <3>4 DEF DecStep
  <2> QED BY <2>2, <2>3
<1>3. all = [k \in Nat |-> DecStep(all, k)] BY <1>2
<1>4. dec = [k \in Nat |-> DecStep(dec, k)]
  <2> HIDE DEF all
  <2> QED BY <1>3 DEF DecStep
<1>5. \A k \in Nat : Decimal(k) = dec[k] BY DEF Decimal
<1> HIDE DEF dec
<1>6. \A k \in Nat : dec[k] = DecStep(dec, k) BY <1>4
<1>7. CASE n < 10 BY <1>5, <1>6, <1>7 DEF DecStep
<1>8. CASE n >= 10
  <2>1. n \div 10 \in Nat BY <1>8, Tenth
  <2> QED BY <1>5, <1>6, <1>8, <2>1 DEF DecStep
<1> QED BY <1>7, <1>8

AllDigits(s) == IsSequence(s) /\ Len(s) > 0 /\ \A i \in 1..Len(s) : s[i] \in DigitByte

ValUpTo(f, s) ==
  /\ f = [k \in 0..Len(s) |-> f[k]]
  /\ f[0] = 0 /\ \A k \in 1..Len(s) : f[k] = 10 * f[k - 1] + HexValue(s[k])

ValStep(f, s, k) == IF k = 0 THEN 0 ELSE 10 * f[k - 1] + HexValue(s[k])

LEMMA ValExists ==
  ASSUME NEW s, IsSequence(s)
  PROVE  \E f : ValUpTo(f, s)
<1> DEFINE Good(f, n) == \A k \in 0..n : f[k] = ValStep(f, s, k)
           bad == { n \in 0..Len(s) : ~\E f : Good(f, n) }
<1>0. Len(s) \in Nat BY DEF IsSequence
<1>1. bad = {}
  <2>1. SUFFICES ASSUME bad # {} PROVE FALSE OBVIOUS
  <2>2. PICK n \in bad : \A m \in bad : n <= m
    <3> HIDE DEF bad
    <3>1. bad \subseteq Nat BY <1>0 DEF bad
    <3> QED BY <2>1, <3>1, LeastNumber
  <2>3. n \in 0..Len(s) /\ \A m \in 0..Len(s) : m < n => \E f : Good(f, m) BY <2>2
  <2>4. \E f : Good(f, n)
    <3>1. CASE n = 0
      <4>1. Good([k \in 0..0 |-> 0], 0) BY DEF ValStep
      <4> QED BY <3>1, <4>1
    <3>2. CASE n # 0
      <4>1. n - 1 \in 0..Len(s) /\ n - 1 < n BY <1>0, <2>3, <3>2
      <4>2. PICK f : Good(f, n - 1) BY <2>3, <4>1
      <4> DEFINE g == [k \in 0..n |-> IF k = n THEN ValStep(f, s, n) ELSE f[k]]
      <4>3. \A k \in 0..n : k # n => k \in 0..(n - 1) /\ g[k] = f[k] BY <2>3
      <4>4. ASSUME NEW k \in 0..n PROVE ValStep(g, s, k) = ValStep(f, s, k)
        <5>1. k # 0 => k - 1 \in 0..n /\ k - 1 # n BY <2>3
        <5>2. k # 0 => g[k - 1] = f[k - 1] BY <4>3, <5>1
        <5> HIDE DEF g
        <5> QED BY <5>2 DEF ValStep
      <4>5. Good(g, n)
        <5> SUFFICES ASSUME NEW k \in 0..n PROVE g[k] = ValStep(f, s, k) BY <4>4
        <5>1. CASE k = n BY <5>1
        <5>2. CASE k # n BY <4>2, <4>3, <5>2
        <5> QED BY <5>1, <5>2
      <4> HIDE DEF g, Good
      <4> QED BY <4>5
    <3> QED BY <3>1, <3>2
  <2> QED BY <2>2, <2>4
<1>2. PICK f : Good(f, Len(s))
  <2>1. Len(s) \in 0..Len(s) BY <1>0
  <2> QED BY <1>1, <2>1
<1> DEFINE g == [k \in 0..Len(s) |-> f[k]]
<1>3. g = [k \in 0..Len(s) |-> g[k]] OBVIOUS
<1>4. g[0] = 0 BY <1>0, <1>2 DEF ValStep
<1>5. ASSUME NEW k \in 1..Len(s) PROVE g[k] = 10 * g[k - 1] + HexValue(s[k])
  <2>1. k \in 0..Len(s) /\ k - 1 \in 0..Len(s) /\ k # 0 BY <1>0
  <2>2. g[k] = f[k] /\ g[k - 1] = f[k - 1] BY <2>1
  <2> QED BY <1>2, <2>1, <2>2 DEF ValStep
<1> QED BY <1>3, <1>4, <1>5 DEF ValUpTo

LEMMA DigitValue ==
  ASSUME NEW d \in DigitByte
  PROVE  HexValue(d) \in 0..9
<1>1. \E i \in 1..10 : HexDigit[i] = d BY DEF DigitByte, NonZero, HexDigit
<1>2. \A i \in 11..16 : HexDigit[i] \notin DigitByte BY DEF DigitByte, NonZero, HexDigit
<1>3. PICK i \in 1..16 : HexValue(d) = i - 1 /\ HexDigit[i] = d BY <1>1 DEF HexValue
<1>4. i \in 1..10 BY <1>2, <1>3
<1> QED BY <1>3, <1>4

LEMMA DigitOf ==
  ASSUME NEW n \in 0..9
  PROVE  HexDigit[n + 1] \in DigitByte /\ HexValue(HexDigit[n + 1]) = n
<1> DEFINE d == HexDigit[n + 1]
<1>1. d \in DigitByte BY DEF DigitByte, NonZero, HexDigit
<1>2. \A i \in 1..16 : HexDigit[i] = d => i = n + 1 BY DEF HexDigit
<1>3. n + 1 \in 1..16 /\ HexDigit[n + 1] = d OBVIOUS
<1> HIDE DEF d
<1>4. PICK i \in 1..16 : HexValue(d) = i - 1 /\ HexDigit[i] = d BY <1>3 DEF HexValue
<1>5. HexValue(d) = n BY <1>2, <1>4
<1> QED BY <1>1, <1>5 DEF d

LEMMA ValUnique ==
  ASSUME NEW s, IsSequence(s), NEW t, IsSequence(t), Len(s) <= Len(t), \A i \in 1..Len(s) : s[i] = t[i],
         NEW f, ValUpTo(f, s), NEW g, ValUpTo(g, t)
  PROVE  \A k \in 0..Len(s) : f[k] = g[k]
<1> DEFINE bad == { k \in 0..Len(s) : f[k] # g[k] }
<1>0. Len(s) \in Nat /\ Len(t) \in Nat BY DEF IsSequence
<1>1. SUFFICES ASSUME bad # {} PROVE FALSE OBVIOUS
<1>2. PICK k \in bad : \A j \in bad : k <= j
  <2> HIDE DEF bad
  <2>1. bad \subseteq Nat BY <1>0 DEF bad
  <2> QED BY <1>1, <2>1, LeastNumber
<1>3. k \in 0..Len(s) /\ f[k] # g[k] /\ \A j \in 0..Len(s) : j < k => f[j] = g[j] BY <1>2
<1>4. k # 0 BY <1>3 DEF ValUpTo
<1>5. k \in 1..Len(s) /\ k \in 1..Len(t) /\ k - 1 \in 0..Len(s) /\ k - 1 < k BY <1>0, <1>3, <1>4
<1>6. f[k - 1] = g[k - 1] /\ s[k] = t[k] BY <1>3, <1>5
<1>7. f[k] = 10 * f[k - 1] + HexValue(s[k]) /\ g[k] = 10 * g[k - 1] + HexValue(t[k])
  BY <1>5 DEF ValUpTo
<1> QED BY <1>3, <1>6, <1>7

LEMMA IndexIsValue ==
  ASSUME NEW s, AllDigits(s), NEW f, ValUpTo(f, s)
  PROVE  IndexOf(s) = f[Len(s)]
<1> DEFINE val == CHOOSE v : v = [k \in 0..Len(s) |-> IF k = 0 THEN 0
                                     ELSE 10 * v[k - 1] + HexValue(s[k])]
<1>1. Len(s) \in Nat \ {0} /\ IsSequence(s) BY DEF AllDigits, IsSequence
<1>2. s # <<>> BY <1>1, NonEmptySequence
<1>3. s[1] # "+"
  <2>1. s[1] \in DigitByte BY <1>1 DEF AllDigits
  <2>2. "+" \notin DigitByte BY DEF DigitByte, NonZero
  <2> QED BY <2>1, <2>2
<1>4. \A i \in 1..Len(s) : s[i] \in DigitByte BY DEF AllDigits
<1>5. IndexOf(s) = val[Len(s)] BY <1>2, <1>3, <1>4, Zenon DEF IndexOf
<1>6. f = [k \in 0..Len(s) |-> IF k = 0 THEN 0 ELSE 10 * f[k - 1] + HexValue(s[k])]
  <2>1. f = [k \in 0..Len(s) |-> f[k]] BY DEF ValUpTo
  <2>2. ASSUME NEW k \in 0..Len(s)
        PROVE f[k] = IF k = 0 THEN 0 ELSE 10 * f[k - 1] + HexValue(s[k])
    <3>1. CASE k = 0 BY <3>1 DEF ValUpTo
    <3>2. CASE k # 0
      <4>1. k \in 1..Len(s) BY <1>1, <3>2
      <4> QED BY <3>2, <4>1 DEF ValUpTo
    <3> QED BY <3>1, <3>2
  <2> DEFINE g == [k \in 0..Len(s) |-> IF k = 0 THEN 0 ELSE 10 * f[k - 1] + HexValue(s[k])]
  <2>3. g = [k \in 0..Len(s) |-> f[k]] BY <2>2
  <2> QED BY <2>1, <2>3
<1>7. val = [k \in 0..Len(s) |-> IF k = 0 THEN 0 ELSE 10 * val[k - 1] + HexValue(s[k])]
  BY <1>6, Zenon
<1> HIDE DEF val
<1>8. ValUpTo(val, s)
  <2>1. val = [k \in 0..Len(s) |-> val[k]] BY <1>7
  <2>2. val[0] = 0 BY <1>1, <1>7
  <2>3. ASSUME NEW k \in 1..Len(s) PROVE val[k] = 10 * val[k - 1] + HexValue(s[k])
    <3>1. k \in 0..Len(s) /\ k # 0 BY <1>1
    <3> QED BY <1>7, <3>1
  <2> QED BY <2>1, <2>2, <2>3 DEF ValUpTo
<1>9. val[Len(s)] = f[Len(s)] BY <1>1, <1>8, ValUnique
<1> QED BY <1>5, <1>9

LEMMA IndexOfAppend ==
  ASSUME NEW s, AllDigits(s), NEW d \in DigitByte, IndexOf(s) \in Nat
  PROVE  AllDigits(Append(s, d)) /\ IndexOf(Append(s, d)) = 10 * IndexOf(s) + HexValue(d)
<1> DEFINE t == Append(s, d)
<1>1. Len(s) \in Nat \ {0} /\ IsSequence(s) BY DEF AllDigits, IsSequence
<1>2. /\ IsSequence(t) /\ Len(t) = Len(s) + 1 /\ t[Len(s) + 1] = d
      /\ \A i \in 1..Len(s) : t[i] = s[i]
  BY <1>1, AppendSequence
<1> HIDE DEF t
<1>3. AllDigits(t)
  <2>1. ASSUME NEW i \in 1..Len(t) PROVE t[i] \in DigitByte
    <3>1. CASE i = Len(s) + 1 BY <1>2, <3>1
    <3>2. CASE i # Len(s) + 1
      <4>1. i \in 1..Len(s) BY <1>1, <1>2, <3>2
      <4> QED BY <1>2, <4>1 DEF AllDigits
    <3> QED BY <3>1, <3>2
  <2> QED BY <1>1, <1>2, <2>1 DEF AllDigits
<1>4. PICK f : ValUpTo(f, s) BY <1>1, ValExists
<1>5. PICK g : ValUpTo(g, t) BY <1>2, ValExists
<1>6. f[Len(s)] = g[Len(s)] BY <1>1, <1>2, <1>4, <1>5, ValUnique
<1>7. g[Len(s) + 1] = 10 * g[Len(s)] + HexValue(d)
  <2>1. Len(s) + 1 \in 1..Len(t) /\ Len(s) + 1 - 1 = Len(s) BY <1>1, <1>2
  <2>2. g[Len(s) + 1] = 10 * g[Len(s) + 1 - 1] + HexValue(t[Len(s) + 1]) BY <1>5, <2>1 DEF ValUpTo
  <2> QED BY <1>2, <2>1, <2>2
<1>8. IndexOf(s) = f[Len(s)] /\ IndexOf(t) = g[Len(t)] BY <1>3, <1>4, <1>5, IndexIsValue
<1> QED BY <1>2, <1>3, <1>6, <1>7, <1>8 DEF t

LEMMA SingleDigit ==
  ASSUME NEW d \in DigitByte
  PROVE  AllDigits(<<d>>) /\ IndexOf(<<d>>) = HexValue(d)
<1> DEFINE s == <<d>>
<1>1. IsSequence(s) /\ Len(s) = 1 /\ s[1] = d
  <2>1. s \in Seq(DigitByte) OBVIOUS
  <2> QED BY <2>1, SeqIsSequence
<1> HIDE DEF s
<1>2. AllDigits(s) BY <1>1 DEF AllDigits
<1>3. PICK f : ValUpTo(f, s) BY <1>1, ValExists
<1>4. f[1] = HexValue(d)
  <2>1. f[1] = 10 * f[1 - 1] + HexValue(s[1]) BY <1>1, <1>3 DEF ValUpTo
  <2>2. f[0] = 0 /\ HexValue(d) \in 0..9 BY <1>3, DigitValue DEF ValUpTo
  <2> QED BY <1>1, <2>1, <2>2
<1>5. IndexOf(s) = f[1] BY <1>1, <1>2, <1>3, IndexIsValue
<1> QED BY <1>2, <1>4, <1>5 DEF s

(* parse::<usize>() reads back what to_string() wrote, whatever the index. *)
THEOREM IndexOfDecimal == \A n \in Nat : IndexOf(Decimal(n)) = n
<1> DEFINE Good(n) == AllDigits(Decimal(n)) /\ IndexOf(Decimal(n)) = n
           bad     == { n \in Nat : ~Good(n) }
<1>1. SUFFICES ASSUME bad # {} PROVE FALSE OBVIOUS
<1>2. PICK n \in bad : \A m \in bad : n <= m
  <2> HIDE DEF bad
  <2>1. bad \subseteq Nat BY DEF bad
  <2> QED BY <1>1, <2>1, LeastNumber
<1>3. n \in Nat /\ ~Good(n) /\ \A m \in Nat : m < n => Good(m) BY <1>2
<1>4. CASE n < 10
  <2>1. n \in 0..9 BY <1>3, <1>4
  <2>2. Decimal(n) = <<HexDigit[n + 1]>> BY <1>3, <1>4, DecimalDigits
  <2>3. HexDigit[n + 1] \in DigitByte /\ HexValue(HexDigit[n + 1]) = n BY <2>1, DigitOf
  <2> QED BY <1>3, <2>2, <2>3, SingleDigit
<1>5. CASE n >= 10
  <2> DEFINE t == n \div 10
             u == n % 10
  <2>1. t \in Nat /\ t < n /\ u \in 0..9 /\ n = 10 * t + u BY <1>3, <1>5, Tenth
  <2>2. Decimal(n) = Append(Decimal(t), HexDigit[u + 1])
    <3>1. ~(n < 10) BY <1>3, <1>5
    <3> QED BY <1>3, <3>1, DecimalDigits
  <2> HIDE DEF t, u
  <2>3. HexDigit[u + 1] \in DigitByte /\ HexValue(HexDigit[u + 1]) = u BY <2>1, DigitOf
  <2>4. Good(t) BY <1>3, <2>1
  <2>5. AllDigits(Append(Decimal(t), HexDigit[u + 1]))
        /\ IndexOf(Append(Decimal(t), HexDigit[u + 1])) = 10 * t + u
    BY <2>1, <2>3, <2>4, IndexOfAppend
  <2> QED BY <1>3, <2>1, <2>2, <2>5
<1> QED BY <1>3, <1>4, <1>5

-----------------------------------------------------------------------------
(* FlattenSeq, by its equation: its elements are those of its parts.       *)
FlatStep(f, seqs, k) == IF k = 1 THEN seqs[1] ELSE f[k - 1] \o seqs[k]

FlatUpTo(f, seqs) ==
  f = [k \in 1..Len(seqs) |-> f[k]] /\ \A k \in 1..Len(seqs) : f[k] = FlatStep(f, seqs, k)

LEMMA FlatExists ==
  ASSUME NEW seqs, IsSequence(seqs)
  PROVE  \E f : FlatUpTo(f, seqs)
<1> DEFINE Good(f, n) == \A k \in 1..n : f[k] = FlatStep(f, seqs, k)
           bad == { n \in 0..Len(seqs) : ~\E f : Good(f, n) }
<1>0. Len(seqs) \in Nat BY DEF IsSequence
<1>1. bad = {}
  <2>1. SUFFICES ASSUME bad # {} PROVE FALSE OBVIOUS
  <2>2. PICK n \in bad : \A m \in bad : n <= m
    <3> HIDE DEF bad
    <3>1. bad \subseteq Nat BY <1>0 DEF bad
    <3> QED BY <2>1, <3>1, LeastNumber
  <2>3. n \in 0..Len(seqs) /\ \A m \in 0..Len(seqs) : m < n => \E f : Good(f, m) BY <2>2
  <2>4. \E f : Good(f, n)
    <3>1. CASE n = 0
      <4>1. Good([k \in 0..0 |-> 0], 0) OBVIOUS
      <4> QED BY <3>1, <4>1
    <3>2. CASE n # 0
      <4>1. n - 1 \in 0..Len(seqs) /\ n - 1 < n BY <1>0, <2>3, <3>2
      <4>2. PICK f : Good(f, n - 1) BY <2>3, <4>1
      <4> DEFINE g == [k \in 1..n |-> IF k = n THEN FlatStep(f, seqs, n) ELSE f[k]]
      <4>3. \A k \in 1..n : k # n => k \in 1..(n - 1) /\ g[k] = f[k] BY <2>3
      <4>4. ASSUME NEW k \in 1..n PROVE FlatStep(g, seqs, k) = FlatStep(f, seqs, k)
        <5>1. k # 1 => k - 1 \in 1..n /\ k - 1 # n BY <2>3
        <5>2. k # 1 => g[k - 1] = f[k - 1] BY <4>3, <5>1
        <5> HIDE DEF g
        <5> QED BY <5>2 DEF FlatStep
      <4>5. Good(g, n)
        <5> SUFFICES ASSUME NEW k \in 1..n PROVE g[k] = FlatStep(f, seqs, k) BY <4>4
        <5>1. CASE k = n BY <5>1
        <5>2. CASE k # n BY <4>2, <4>3, <5>2
        <5> QED BY <5>1, <5>2
      <4> HIDE DEF g, Good
      <4> QED BY <4>5
    <3> QED BY <3>1, <3>2
  <2> QED BY <2>2, <2>4
<1>2. PICK f : Good(f, Len(seqs))
  <2>1. Len(seqs) \in 0..Len(seqs) BY <1>0
  <2> QED BY <1>1, <2>1
<1> DEFINE g == [k \in 1..Len(seqs) |-> f[k]]
<1>3. ASSUME NEW k \in 1..Len(seqs) PROVE g[k] = FlatStep(g, seqs, k)
  <2>1. k # 1 => k - 1 \in 1..Len(seqs) BY <1>0
  <2>2. g[k] = f[k] /\ (k # 1 => g[k - 1] = f[k - 1]) BY <2>1
  <2> HIDE DEF g
  <2> QED BY <1>2, <2>2 DEF FlatStep
<1>4. g = [k \in 1..Len(seqs) |-> g[k]] OBVIOUS
<1> HIDE DEF g
<1> QED BY <1>3, <1>4 DEF FlatUpTo

LEMMA FlatIs ==
  ASSUME NEW seqs, IsSequence(seqs), Len(seqs) # 0
  PROVE  \E f : FlatUpTo(f, seqs) /\ FlattenSeq(seqs) = f[Len(seqs)]
<1> DEFINE F(f) == f = [i \in 1..Len(seqs) |-> IF i = 1 THEN seqs[i] ELSE f[i - 1] \o seqs[i]]
           g == CHOOSE f : F(f)
<1>0. Len(seqs) \in Nat BY DEF IsSequence
<1>1. PICK h : FlatUpTo(h, seqs) BY FlatExists
<1>2. F(h)
  <2>1. h = [k \in 1..Len(seqs) |-> h[k]] /\ \A k \in 1..Len(seqs) : h[k] = FlatStep(h, seqs, k)
    BY <1>1 DEF FlatUpTo
  <2> QED BY <2>1 DEF FlatStep
<1>3. F(g)
  <2> HIDE DEF F
  <2> QED BY <1>2
<1>4. FlattenSeq(seqs) = g[Len(seqs)] BY Zenon DEF FlattenSeq
<1> HIDE DEF g
<1>5. FlatUpTo(g, seqs) BY <1>3 DEF FlatUpTo, FlatStep
<1> QED BY <1>4, <1>5

ElementOf(x, seqs) == \E j \in 1..Len(seqs) : \E k \in 1..Len(seqs[j]) : x = seqs[j][k]

LEMMA FlattenElements ==
  ASSUME NEW seqs, IsSequence(seqs), \A j \in 1..Len(seqs) : IsSequence(seqs[j])
  PROVE  /\ IsSequence(FlattenSeq(seqs))
         /\ \A i \in 1..Len(FlattenSeq(seqs)) : ElementOf(FlattenSeq(seqs)[i], seqs)
<1>0. Len(seqs) \in Nat BY DEF IsSequence
<1>1. CASE Len(seqs) = 0
  <2>1. FlattenSeq(seqs) = seqs BY <1>1 DEF FlattenSeq
  <2> QED BY <1>1, <2>1
<1>2. CASE Len(seqs) # 0
  <2>1. PICK f : FlatUpTo(f, seqs) /\ FlattenSeq(seqs) = f[Len(seqs)] BY <1>2, FlatIs
  <2> DEFINE Good(n) == IsSequence(f[n]) /\ \A i \in 1..Len(f[n]) : ElementOf(f[n][i], seqs)
             bad == { n \in 1..Len(seqs) : ~Good(n) }
  <2>2. bad = {}
    <3>1. SUFFICES ASSUME bad # {} PROVE FALSE OBVIOUS
    <3>2. PICK n \in bad : \A m \in bad : n <= m
      <4> HIDE DEF bad
      <4>1. bad \subseteq Nat BY <1>0 DEF bad
      <4> QED BY <3>1, <4>1, LeastNumber
    <3>3. n \in 1..Len(seqs) /\ ~Good(n) /\ \A m \in 1..Len(seqs) : m < n => Good(m) BY <3>2
    <3>4. f[n] = FlatStep(f, seqs, n) BY <2>1, <3>3 DEF FlatUpTo
    <3>5. \A k \in 1..Len(seqs[n]) : ElementOf(seqs[n][k], seqs) BY <3>3 DEF ElementOf
    <3>6. CASE n = 1
      <4>1. f[n] = seqs[n] BY <3>4, <3>6 DEF FlatStep
      <4> QED BY <3>3, <3>5, <4>1
    <3>7. CASE n # 1
      <4>1. n - 1 \in 1..Len(seqs) /\ n - 1 < n BY <1>0, <3>3, <3>7
      <4>2. f[n] = f[n - 1] \o seqs[n] BY <3>4, <3>7 DEF FlatStep
      <4> DEFINE s == f[n - 1]
                 t == seqs[n]
      <4>3. IsSequence(s) /\ \A i \in 1..Len(s) : ElementOf(s[i], seqs) BY <3>3, <4>1
      <4>4. IsSequence(t) /\ \A i \in 1..Len(t) : ElementOf(t[i], seqs) BY <3>3, <3>5
      <4>5. f[n] = s \o t BY <4>2
      <4> HIDE DEF s, t
      <4>6. Len(s) \in Nat /\ Len(t) \in Nat BY <4>3, <4>4 DEF IsSequence
      <4>7. IsSequence(s \o t) /\ Len(s \o t) = Len(s) + Len(t) BY <4>3, <4>4, ConcatElements
      <4>8. \A i \in 1..Len(s) : (s \o t)[i] = s[i] BY <4>3, <4>4, ConcatElements
      <4>9. \A i \in (Len(s) + 1)..(Len(s) + Len(t)) : (s \o t)[i] = t[i - Len(s)]
        BY <4>3, <4>4, ConcatElements
      <4>10. ASSUME NEW i \in 1..Len(s \o t) PROVE ElementOf((s \o t)[i], seqs)
        <5>1. CASE i <= Len(s)
          <6>1. i \in 1..Len(s) BY <4>6, <4>7, <5>1
          <6> QED BY <4>3, <4>8, <6>1
        <5>2. CASE i > Len(s)
          <6>1. i \in (Len(s) + 1)..(Len(s) + Len(t)) /\ i - Len(s) \in 1..Len(t) BY <4>6, <4>7, <5>2
          <6> QED BY <4>4, <4>9, <6>1
        <5> QED BY <4>6, <4>7, <5>1, <5>2
      <4>11. Good(n) BY <4>5, <4>7, <4>10
      <4> QED BY <3>3, <4>11
    <3> QED BY <3>6, <3>7
  <2>3. Len(seqs) \in 1..Len(seqs) BY <1>0, <1>2
  <2>4. Good(Len(seqs)) BY <2>2, <2>3
  <2> QED BY <2>1, <2>4
<1> QED BY <1>1, <1>2

(* Nothing is lost, and single elements keep their order. *)
LEMMA FlattenCovers ==
  ASSUME NEW seqs, IsSequence(seqs), \A j \in 1..Len(seqs) : IsSequence(seqs[j]),
         NEW x, ElementOf(x, seqs)
  PROVE  x \in Elements(FlattenSeq(seqs))
<1>0. Len(seqs) \in Nat BY DEF IsSequence
<1>1. PICK j \in 1..Len(seqs) : \E k \in 1..Len(seqs[j]) : x = seqs[j][k] BY DEF ElementOf
<1>2. Len(seqs) # 0 BY <1>0, <1>1
<1>3. PICK f : FlatUpTo(f, seqs) /\ FlattenSeq(seqs) = f[Len(seqs)] BY <1>2, FlatIs
<1> DEFINE Good(n) == IsSequence(f[n]) /\ (n >= j => x \in Elements(f[n]))
           bad == { n \in 1..Len(seqs) : ~Good(n) }
<1>4. bad = {}
  <2>1. SUFFICES ASSUME bad # {} PROVE FALSE OBVIOUS
  <2>2. PICK n \in bad : \A m \in bad : n <= m
    <3> HIDE DEF bad
    <3>1. bad \subseteq Nat BY <1>0 DEF bad
    <3> QED BY <2>1, <3>1, LeastNumber
  <2>3. n \in 1..Len(seqs) /\ ~Good(n) /\ \A m \in 1..Len(seqs) : m < n => Good(m) BY <2>2
  <2>4. f[n] = FlatStep(f, seqs, n) BY <1>3, <2>3 DEF FlatUpTo
  <2>5. n = j => x \in Elements(seqs[n]) BY <1>1 DEF Elements
  <2>6. CASE n = 1
    <3>1. f[n] = seqs[n] BY <2>4, <2>6 DEF FlatStep
    <3>2. n >= j => n = j BY <1>0, <1>1, <2>6
    <3> QED BY <2>3, <2>5, <3>1, <3>2
  <2>7. CASE n # 1
    <3>1. n - 1 \in 1..Len(seqs) /\ n - 1 < n BY <1>0, <2>3, <2>7
    <3>2. Good(n - 1) BY <2>3, <3>1
    <3>3. f[n] = f[n - 1] \o seqs[n] BY <2>4, <2>7 DEF FlatStep
    <3> DEFINE a == f[n - 1]
               b == seqs[n]
    <3>4. IsSequence(a) /\ IsSequence(b) /\ Len(a) \in Nat /\ Len(b) \in Nat BY <2>3, <3>2 DEF IsSequence
    <3>5. (n - 1 >= j => x \in Elements(a)) /\ (n = j => x \in Elements(b)) /\ f[n] = a \o b
      BY <2>5, <3>2, <3>3
    <3> HIDE DEF a, b
    <3>6. /\ IsSequence(a \o b) /\ Len(a \o b) = Len(a) + Len(b)
          /\ \A i \in 1..Len(a) : (a \o b)[i] = a[i]
          /\ \A i \in (Len(a) + 1)..(Len(a) + Len(b)) : (a \o b)[i] = b[i - Len(a)]
      BY <3>4, ConcatElements
    <3>7. ASSUME x \in Elements(a) PROVE x \in Elements(a \o b)
      <4>1. PICK i \in 1..Len(a) : x = a[i] BY <3>7 DEF Elements
      <4>2. i \in 1..Len(a \o b) BY <3>4, <3>6
      <4> QED BY <3>6, <4>1, <4>2 DEF Elements
    <3>8. ASSUME x \in Elements(b) PROVE x \in Elements(a \o b)
      <4>1. PICK i \in 1..Len(b) : x = b[i] BY <3>8 DEF Elements
      <4> DEFINE k == Len(a) + i
      <4>2. k \in 1..Len(a \o b) /\ k \in (Len(a) + 1)..(Len(a) + Len(b)) /\ k - Len(a) = i
        BY <3>4, <3>6
      <4>3. (a \o b)[k] = x BY <3>6, <4>1, <4>2
      <4> QED BY <4>2, <4>3 DEF Elements
    <3>9. n >= j => n - 1 >= j \/ n = j BY <1>0, <1>1, <2>3
    <3>10. Good(n) BY <3>5, <3>6, <3>7, <3>8, <3>9
    <3> QED BY <2>3, <3>10
  <2> QED BY <2>6, <2>7
<1>5. Len(seqs) \in 1..Len(seqs) /\ Len(seqs) >= j BY <1>0, <1>1, <1>2
<1>6. Good(Len(seqs)) BY <1>4, <1>5
<1> QED BY <1>3, <1>5, <1>6

LEMMA AtMostOne ==
  ASSUME NEW k, k \in 0..1, NEW i \in 1..k
  PROVE  i = 1 /\ k = 1
OBVIOUS

LEMMA FlattenOnce ==
  ASSUME NEW seqs, IsSequence(seqs), \A j \in 1..Len(seqs) : IsSequence(seqs[j]) /\ Len(seqs[j]) \in 0..1
  PROVE  \A m \in 1..Len(FlattenSeq(seqs)) : \A i \in 1..(m - 1) :
           \E k \in 1..Len(seqs) : \E j \in 1..(k - 1) :
             /\ Len(seqs[j]) = 1 /\ FlattenSeq(seqs)[i] = seqs[j][1]
             /\ Len(seqs[k]) = 1 /\ FlattenSeq(seqs)[m] = seqs[k][1]
<1> DEFINE Is(s, i, j) == Len(seqs[j]) = 1 /\ s[i] = seqs[j][1]
           Above(s, n) == \A i \in 1..Len(s) : \E j \in 1..n : Is(s, i, j)
           Pairs(s, n) == \A m \in 1..Len(s) : \A i \in 1..(m - 1) :
                            \E k \in 1..n : \E j \in 1..(k - 1) : Is(s, i, j) /\ Is(s, m, k)
<1>0. Len(seqs) \in Nat BY DEF IsSequence
<1>1. CASE Len(seqs) = 0
  <2>1. FlattenSeq(seqs) = seqs BY <1>1 DEF FlattenSeq
  <2> QED BY <1>1, <2>1
<1>2. CASE Len(seqs) # 0
  <2>1. PICK f : FlatUpTo(f, seqs) /\ FlattenSeq(seqs) = f[Len(seqs)] BY <1>2, FlatIs
  <2> DEFINE Good(n) == IsSequence(f[n]) /\ Above(f[n], n) /\ Pairs(f[n], n)
             bad == { n \in 1..Len(seqs) : ~Good(n) }
  <2>2. bad = {}
    <3>1. SUFFICES ASSUME bad # {} PROVE FALSE OBVIOUS
    <3>2. PICK n \in bad : \A m \in bad : n <= m
      <4> HIDE DEF bad
      <4>1. bad \subseteq Nat BY <1>0 DEF bad
      <4> QED BY <3>1, <4>1, LeastNumber
    <3>3. n \in 1..Len(seqs) /\ ~Good(n) /\ \A m \in 1..Len(seqs) : m < n => Good(m) BY <3>2
    <3>4. f[n] = FlatStep(f, seqs, n) BY <2>1, <3>3 DEF FlatUpTo
    <3>5. IsSequence(seqs[n]) /\ Len(seqs[n]) \in 0..1 BY <3>3
    <3>6. CASE n = 1
      <4>1. f[n] = seqs[n] BY <3>4, <3>6 DEF FlatStep
      <4>2. ASSUME NEW i \in 1..Len(seqs[n]) PROVE i = 1 /\ Is(seqs[n], i, n) /\ n \in 1..n
        <5>1. Len(seqs[n]) = 1 /\ i = 1 BY <3>5, AtMostOne
        <5> QED BY <3>6, <5>1
      <4>3. Above(seqs[n], n) BY <4>2
      <4>4. Pairs(seqs[n], n) BY <3>5
      <4> HIDE DEF Above, Pairs
      <4> QED BY <3>3, <3>5, <4>1, <4>3, <4>4
    <3>7. CASE n # 1
      <4>1. n - 1 \in 1..Len(seqs) /\ n - 1 < n /\ n \in Nat BY <1>0, <3>3, <3>7
      <4>2. Good(n - 1) BY <3>3, <4>1
      <4>3. f[n] = f[n - 1] \o seqs[n] BY <3>4, <3>7 DEF FlatStep
      <4> DEFINE a == f[n - 1]
                 b == seqs[n]
                 c == a \o b
      <4>4. IsSequence(a) /\ IsSequence(b) /\ Len(a) \in Nat /\ Len(b) \in 0..1
            /\ Above(a, n - 1) /\ Pairs(a, n - 1) /\ f[n] = c /\ b = seqs[n]
        BY <3>5, <4>2, <4>3 DEF IsSequence
      <4> HIDE DEF a, b
      <4>5. /\ IsSequence(c) /\ Len(c) = Len(a) + Len(b)
            /\ \A i \in 1..Len(a) : c[i] = a[i]
            /\ \A i \in (Len(a) + 1)..(Len(a) + Len(b)) : c[i] = b[i - Len(a)]
        BY <4>4, ConcatElements
      <4> HIDE DEF c
      <4>6. ASSUME NEW i \in 1..Len(c), i \notin 1..Len(a) PROVE i = Len(a) + 1 /\ Is(c, i, n)
        <5>0. i \in 1..(Len(a) + Len(b)) BY <4>5
        <5>3. i - Len(a) \in 1..Len(b) BY <4>4, <4>6, <5>0
        <5>4. Len(b) \in 0..1 BY <4>4
        <5>5. i - Len(a) = 1 /\ Len(b) = 1 BY <5>3, <5>4, AtMostOne
        <5>1. i = Len(a) + 1 /\ Len(b) = 1 BY <4>4, <5>0, <5>5
        <5>2. i - Len(a) = 1 /\ i \in (Len(a) + 1)..(Len(a) + Len(b)) BY <4>4, <5>1
        <5> QED BY <4>4, <4>5, <5>1, <5>2
      <4>7. \A i \in 1..Len(a) : \A j : Is(a, i, j) => Is(c, i, j) BY <4>5
      <4>8. Above(c, n)
        <5> SUFFICES ASSUME NEW i \in 1..Len(c) PROVE \E j \in 1..n : Is(c, i, j) OBVIOUS
        <5>1. CASE i \in 1..Len(a)
          <6>1. PICK j \in 1..(n - 1) : Is(a, i, j) BY <4>4, <5>1
          <6>2. j \in 1..n BY <4>1
          <6> QED BY <4>7, <5>1, <6>1, <6>2
        <5>2. CASE i \notin 1..Len(a)
          <6>1. n \in 1..n BY <3>3
          <6> QED BY <4>6, <5>2, <6>1
        <5> QED BY <5>1, <5>2
      <4>9. Pairs(c, n)
        <5> SUFFICES ASSUME NEW m \in 1..Len(c), NEW i \in 1..(m - 1)
                     PROVE  \E k \in 1..n : \E j \in 1..(k - 1) : Is(c, i, j) /\ Is(c, m, k)
          OBVIOUS
        <5>1. CASE m \in 1..Len(a)
          <6>1. i \in 1..Len(a) BY <4>4, <5>1
          <6>2. PICK k \in 1..(n - 1) : \E j \in 1..(k - 1) : Is(a, i, j) /\ Is(a, m, k) BY <4>4, <5>1
          <6>3. k \in 1..n BY <4>1
          <6> QED BY <4>7, <5>1, <6>1, <6>2, <6>3
        <5>2. CASE m \notin 1..Len(a)
          <6>1. m = Len(a) + 1 /\ Is(c, m, n) BY <4>6, <5>2
          <6>2. i \in 1..Len(a) BY <4>4, <6>1
          <6>3. PICK j \in 1..(n - 1) : Is(a, i, j) BY <4>4, <6>2
          <6>4. n \in 1..n BY <3>3
          <6> QED BY <4>7, <6>1, <6>2, <6>3, <6>4
        <5> QED BY <5>1, <5>2
      <4> HIDE DEF Above, Pairs
      <4> QED BY <3>3, <4>4, <4>5, <4>8, <4>9
    <3> QED BY <3>6, <3>7
  <2>3. Len(seqs) \in 1..Len(seqs) BY <1>0, <1>2
  <2>4. Good(Len(seqs))
    <3> HIDE DEF Good
    <3> QED BY <2>2, <2>3
  <2> QED BY <2>1, <2>4
<1> QED BY <1>1, <1>2

-----------------------------------------------------------------------------
(* The value that a path leads to, by the equation of ValueIn. *)

LedTo(doc, path, f, k) == IF k = 0 THEN doc ELSE Child(f[k - 1], path[k])

LEMMA PathExists ==
  ASSUME NEW doc, NEW path, IsSequence(path)
  PROVE  \E f : f = [k \in 0..Len(path) |-> LedTo(doc, path, f, k)]
<1> DEFINE Good(f, n) == \A k \in 0..n : f[k] = LedTo(doc, path, f, k)
           bad == { n \in 0..Len(path) : ~\E f : Good(f, n) }
<1>0. Len(path) \in Nat BY DEF IsSequence
<1>1. bad = {}
  <2>1. SUFFICES ASSUME bad # {} PROVE FALSE OBVIOUS
  <2>2. PICK n \in bad : \A m \in bad : n <= m
    <3> HIDE DEF bad
    <3>1. bad \subseteq Nat BY <1>0 DEF bad
    <3> QED BY <2>1, <3>1, LeastNumber
  <2>3. n \in 0..Len(path) /\ \A m \in 0..Len(path) : m < n => \E f : Good(f, m) BY <2>2
  <2>4. \E f : Good(f, n)
    <3>1. CASE n = 0
      <4>1. Good([k \in 0..0 |-> doc], 0) BY DEF LedTo
      <4> QED BY <3>1, <4>1
    <3>2. CASE n # 0
      <4>1. n - 1 \in 0..Len(path) /\ n - 1 < n BY <1>0, <2>3, <3>2
      <4>2. PICK f : Good(f, n - 1) BY <2>3, <4>1
      <4> DEFINE g == [k \in 0..n |-> IF k = n THEN LedTo(doc, path, f, n) ELSE f[k]]
      <4>3. \A k \in 0..n : k # n => k \in 0..(n - 1) /\ g[k] = f[k] BY <2>3
      <4>4. ASSUME NEW k \in 0..n PROVE LedTo(doc, path, g, k) = LedTo(doc, path, f, k)
        <5>1. k # 0 => k - 1 \in 0..n /\ k - 1 # n BY <2>3
        <5>2. k # 0 => g[k - 1] = f[k - 1] BY <4>3, <5>1
        <5> HIDE DEF g
        <5> QED BY <5>2 DEF LedTo
      <4>5. Good(g, n)
        <5> SUFFICES ASSUME NEW k \in 0..n PROVE g[k] = LedTo(doc, path, f, k) BY <4>4
        <5>1. CASE k = n BY <5>1
        <5>2. CASE k # n BY <4>2, <4>3, <5>2
        <5> QED BY <5>1, <5>2
      <4> HIDE DEF g, Good
      <4> QED BY <4>5
    <3> QED BY <3>1, <3>2
  <2> QED BY <2>2, <2>4
<1>2. PICK f : Good(f, Len(path))
  <2>1. Len(path) \in 0..Len(path) BY <1>0
  <2> QED BY <1>1, <2>1
<1> DEFINE g == [k \in 0..Len(path) |-> f[k]]
<1>3. ASSUME NEW k \in 0..Len(path) PROVE g[k] = LedTo(doc, path, g, k)
  <2>1. k # 0 => k - 1 \in 0..Len(path) BY <1>0
  <2>2. g[k] = f[k] /\ (k # 0 => g[k - 1] = f[k - 1]) BY <2>1
  <2> HIDE DEF g
  <2> QED BY <1>2, <2>2 DEF LedTo
<1>4. g = [k \in 0..Len(path) |-> g[k]] OBVIOUS
<1> HIDE DEF g
<1>5. g = [k \in 0..Len(path) |-> LedTo(doc, path, g, k)] BY <1>3, <1>4
<1> QED BY <1>5

LEMMA PathValue ==
  ASSUME NEW doc, NEW path, IsSequence(path)
  PROVE  \E f : /\ ValueIn(doc, path) = f[Len(path)]
                /\ \A k \in 0..Len(path) : f[k] = LedTo(doc, path, f, k)
<1> DEFINE F(f) == f = [k \in 0..Len(path) |-> LedTo(doc, path, f, k)]
           g == CHOOSE f : F(f)
<1>1. PICK h : F(h) BY PathExists
<1>2. F(g)
  <2> HIDE DEF F
  <2> QED BY <1>1
<1>3. ValueIn(doc, path) = g[Len(path)] BY Zenon DEF ValueIn, LedTo
<1>4. ASSUME NEW k \in 0..Len(path) PROVE g[k] = LedTo(doc, path, g, k)
  <2> HIDE DEF g
  <2> QED BY <1>2
<1> HIDE DEF g, F
<1> QED BY <1>3, <1>4

LEMMA ValueAtRoot == ASSUME NEW doc PROVE ValueIn(doc, <<>>) = doc
<1>1. IsSequence(<<>>) /\ Len(<<>>) = 0 BY EmptySequence
<1>2. PICK f : /\ ValueIn(doc, <<>>) = f[0]
               /\ \A k \in 0..0 : f[k] = LedTo(doc, <<>>, f, k)
  BY <1>1, PathValue
<1> QED BY <1>2 DEF LedTo

LEMMA ValueBelow ==
  ASSUME NEW doc, NEW path, IsSequence(path), NEW token
  PROVE  ValueIn(doc, Append(path, token)) = Child(ValueIn(doc, path), token)
<1> DEFINE n    == Len(path)
           more == Append(path, token)
<1>0. n \in Nat BY DEF IsSequence
<1>1. /\ IsSequence(more) /\ Len(more) = n + 1 /\ more[n + 1] = token
      /\ \A i \in 1..n : more[i] = path[i]
  BY AppendSequence
<1> HIDE DEF more
<1>2. PICK f : ValueIn(doc, path) = f[n] /\ \A k \in 0..n : f[k] = LedTo(doc, path, f, k)
  BY PathValue
<1>3. PICK g : /\ ValueIn(doc, more) = g[n + 1]
               /\ \A k \in 0..(n + 1) : g[k] = LedTo(doc, more, g, k)
  BY <1>1, PathValue
<1>4. \A k \in 0..n : f[k] = g[k]
  <2> DEFINE bad == { k \in 0..n : f[k] # g[k] }
  <2>1. SUFFICES ASSUME bad # {} PROVE FALSE OBVIOUS
  <2>2. PICK k \in bad : \A j \in bad : k <= j
    <3> HIDE DEF bad
    <3>1. bad \subseteq Nat BY <1>0 DEF bad
    <3> QED BY <2>1, <3>1, LeastNumber
  <2>3. k \in 0..n /\ f[k] # g[k] /\ \A j \in 0..n : j < k => f[j] = g[j] BY <2>2
  <2>4. k \in 0..(n + 1) BY <1>0, <2>3
  <2>5. f[k] = LedTo(doc, path, f, k) /\ g[k] = LedTo(doc, more, g, k) BY <1>2, <1>3, <2>3, <2>4
  <2>6. k # 0 => k - 1 \in 0..n /\ k - 1 < k /\ k \in 1..n BY <1>0, <2>3
  <2>7. k # 0 => f[k - 1] = g[k - 1] /\ path[k] = more[k] BY <1>1, <2>3, <2>6
  <2> QED BY <2>3, <2>5, <2>7 DEF LedTo
<1>5. g[n + 1] = Child(g[n], token)
  <2>1. n + 1 \in 0..(n + 1) /\ n + 1 # 0 /\ n + 1 - 1 = n BY <1>0
  <2>2. g[n + 1] = LedTo(doc, more, g, n + 1) BY <1>3, <2>1
  <2> QED BY <1>1, <2>1, <2>2 DEF LedTo
<1>6. f[n] = g[n] BY <1>0, <1>4
<1> QED BY <1>2, <1>3, <1>5, <1>6 DEF more

LEMMA SingletonSequence == ASSUME NEW x PROVE IsSequence(<<x>>) /\ Len(<<x>>) = 1 /\ <<x>>[1] = x
<1>1. <<x>> \in Seq({x}) OBVIOUS
<1> QED BY <1>1, SeqIsSequence

-----------------------------------------------------------------------------
(* Texts cut at their slashes, and the tokens between them. *)

SplitStep(f, text, k) ==
  IF k = 0 THEN << <<>> >>
  ELSE Once(f[k - 1], LAMBDA pieces : Cut(pieces, text[k]))

(* split('/'), by the equation of Split. *)
LEMMA SplitExists ==
  ASSUME NEW text, IsSequence(text)
  PROVE  \E f : f = [k \in 0..Len(text) |-> SplitStep(f, text, k)]
<1> DEFINE Good(f, n) == \A k \in 0..n : f[k] = SplitStep(f, text, k)
           bad == { n \in 0..Len(text) : ~\E f : Good(f, n) }
<1>0. Len(text) \in Nat BY DEF IsSequence
<1>1. bad = {}
  <2>1. SUFFICES ASSUME bad # {} PROVE FALSE OBVIOUS
  <2>2. PICK n \in bad : \A m \in bad : n <= m
    <3> HIDE DEF bad
    <3>1. bad \subseteq Nat BY <1>0 DEF bad
    <3> QED BY <2>1, <3>1, LeastNumber
  <2>3. n \in 0..Len(text) /\ \A m \in 0..Len(text) : m < n => \E f : Good(f, m) BY <2>2
  <2>4. \E f : Good(f, n)
    <3>1. CASE n = 0
      <4> DEFINE none == [k \in {} |-> k]
                 base == [k \in 0..0 |-> SplitStep(none, text, 0)]
      <4>1. SplitStep(base, text, 0) = SplitStep(none, text, 0) BY Zenon DEF SplitStep
      <4>2. base[0] = SplitStep(none, text, 0) OBVIOUS
      <4> HIDE DEF base, none
      <4>3. Good(base, 0) BY <4>1, <4>2
      <4> QED BY <3>1, <4>3
    <3>2. CASE n # 0
      <4>1. n - 1 \in 0..Len(text) /\ n - 1 < n BY <1>0, <2>3, <3>2
      <4>2. PICK f : Good(f, n - 1) BY <2>3, <4>1
      <4> DEFINE g == [k \in 0..n |-> IF k = n THEN SplitStep(f, text, n) ELSE f[k]]
      <4>3. \A k \in 0..n : k # n => k \in 0..(n - 1) /\ g[k] = f[k] BY <2>3
      <4>4. ASSUME NEW k \in 0..n PROVE SplitStep(g, text, k) = SplitStep(f, text, k)
        <5>1. k # 0 => k - 1 \in 0..n /\ k - 1 # n BY <2>3
        <5>2. k # 0 => g[k - 1] = f[k - 1] BY <4>3, <5>1
        <5> HIDE DEF g
        <5> QED BY <5>2 DEF SplitStep
      <4>5. Good(g, n)
        <5> SUFFICES ASSUME NEW k \in 0..n PROVE g[k] = SplitStep(f, text, k) BY <4>4
        <5>1. CASE k = n BY <5>1
        <5>2. CASE k # n BY <4>2, <4>3, <5>2
        <5> QED BY <5>1, <5>2
      <4> HIDE DEF g, Good
      <4> QED BY <4>5
    <3> QED BY <3>1, <3>2
  <2> QED BY <2>2, <2>4
<1>2. PICK f : Good(f, Len(text))
  <2>1. Len(text) \in 0..Len(text) BY <1>0
  <2> QED BY <1>1, <2>1
<1> DEFINE g == [k \in 0..Len(text) |-> f[k]]
<1>3. ASSUME NEW k \in 0..Len(text) PROVE g[k] = SplitStep(g, text, k)
  <2>1. k # 0 => k - 1 \in 0..Len(text) BY <1>0
  <2>2. g[k] = f[k] /\ (k # 0 => g[k - 1] = f[k - 1]) BY <2>1
  <2> HIDE DEF g
  <2> QED BY <1>2, <2>2 DEF SplitStep
<1>4. g = [k \in 0..Len(text) |-> g[k]] OBVIOUS
<1> HIDE DEF g
<1>5. g = [k \in 0..Len(text) |-> SplitStep(g, text, k)] BY <1>3, <1>4
<1> QED BY <1>5

LEMMA SplitIs ==
  ASSUME NEW text, IsSequence(text)
  PROVE  \E f : Split(text) = f[Len(text)] /\ \A k \in 0..Len(text) : f[k] = SplitStep(f, text, k)
<1> DEFINE F(f) == f = [k \in 0..Len(text) |-> SplitStep(f, text, k)]
           g == CHOOSE f : F(f)
<1>1. PICK h : F(h) BY SplitExists
<1>2. F(g)
  <2> HIDE DEF F
  <2> QED BY <1>1
<1>3. Split(text) = g[Len(text)] BY Zenon DEF Split, SplitStep
<1>4. ASSUME NEW k \in 0..Len(text) PROVE g[k] = SplitStep(g, text, k)
  <2> HIDE DEF g
  <2> QED BY <1>2
<1> HIDE DEF g, F
<1> QED BY <1>3, <1>4

LEMMA OnceIs == ASSUME NEW s, NEW c PROVE Once(s, LAMBDA p : Cut(p, c)) = Cut(s, c)
<1>1. { Cut(z, c) : z \in {s} } = { Cut(s, c) } OBVIOUS
<1> QED BY <1>1 DEF Once

LEMMA SplitStepIs ==
  ASSUME NEW f, NEW text, NEW k, k # 0
  PROVE  SplitStep(f, text, k) = Cut(f[k - 1], text[k])
<1>1. SplitStep(f, text, k) = Once(f[k - 1], LAMBDA p : Cut(p, text[k])) BY Zenon DEF SplitStep
<1> QED BY <1>1, OnceIs

Pieces(s) == IsSequence(s) /\ Len(s) > 0 /\ \A i \in 1..Len(s) : IsSequence(s[i])

LEMMA CutPieces ==
  ASSUME NEW s, Pieces(s), NEW c
  PROVE  Pieces(Cut(s, c))
<1>1. IsSequence(s) /\ Len(s) \in Nat \ {0} /\ Len(s) \in 1..Len(s) BY DEF Pieces, IsSequence
<1>2. CASE c = "slash"
  <2>1. Cut(s, c) = Append(s, <<>>) BY <1>2 DEF Cut
  <2>2. /\ IsSequence(Append(s, <<>>)) /\ Len(Append(s, <<>>)) = Len(s) + 1
        /\ \A i \in 1..Len(s) : Append(s, <<>>)[i] = s[i]
        /\ Append(s, <<>>)[Len(s) + 1] = <<>>
    BY <1>1, AppendSequence
  <2>3. IsSequence(<<>>) BY EmptySequence
  <2> QED BY <1>1, <2>1, <2>2, <2>3 DEF Pieces
<1>3. CASE c # "slash"
  <2> DEFINE last == Append(s[Len(s)], c)
  <2>1. Cut(s, c) = [s EXCEPT ![Len(s)] = last] BY <1>3 DEF Cut
  <2>2. IsSequence(last) BY <1>1, AppendSequence DEF Pieces
  <2> DEFINE new == [s EXCEPT ![Len(s)] = last]
  <2> HIDE DEF last
  <2>3. /\ IsSequence(new) /\ Len(new) = Len(s) /\ new[Len(s)] = last
        /\ \A i \in 1..Len(s) : i # Len(s) => new[i] = s[i]
    BY <1>1, ExceptSequence
  <2> HIDE DEF new
  <2>4. Cut(s, c) = new BY <2>1 DEF new
  <2> QED BY <1>1, <2>2, <2>3, <2>4 DEF Pieces
<1> QED BY <1>2, <1>3

LEMMA OnePiece == Pieces(<< <<>> >>)
<1>1. IsSequence(<<>>) BY EmptySequence
<1>2. IsSequence(<< <<>> >>) /\ Len(<< <<>> >>) = 1 /\ << <<>> >>[1] = <<>>
  <2>1. << <<>> >> \in Seq({ <<>> }) OBVIOUS
  <2> QED BY <2>1, SeqIsSequence
<1> QED BY <1>1, <1>2 DEF Pieces

LEMMA SplitPieces ==
  ASSUME NEW text, IsSequence(text)
  PROVE  Pieces(Split(text))
<1>1. PICK f : Split(text) = f[Len(text)] /\ \A k \in 0..Len(text) : f[k] = SplitStep(f, text, k)
  BY SplitIs
<1> DEFINE bad == { k \in 0..Len(text) : ~Pieces(f[k]) }
<1>0. Len(text) \in Nat BY DEF IsSequence
<1>2. bad = {}
  <2>1. SUFFICES ASSUME bad # {} PROVE FALSE OBVIOUS
  <2>2. PICK k \in bad : \A j \in bad : k <= j
    <3> HIDE DEF bad
    <3>1. bad \subseteq Nat BY <1>0 DEF bad
    <3> QED BY <2>1, <3>1, LeastNumber
  <2>3. k \in 0..Len(text) /\ ~Pieces(f[k]) /\ \A j \in 0..Len(text) : j < k => Pieces(f[j]) BY <2>2
  <2>4. f[k] = SplitStep(f, text, k) BY <1>1, <2>3
  <2>5. CASE k = 0
    <3>1. SplitStep(f, text, k) = << <<>> >> BY <2>5, Zenon DEF SplitStep
    <3> QED BY <2>3, <2>4, <3>1, OnePiece
  <2>6. CASE k # 0
    <3>1. k - 1 \in 0..Len(text) /\ k - 1 < k BY <1>0, <2>3, <2>6
    <3>2. Pieces(f[k - 1]) BY <2>3, <3>1
    <3>3. f[k] = Cut(f[k - 1], text[k]) BY <2>4, <2>6, SplitStepIs
    <3> QED BY <2>3, <3>2, <3>3, CutPieces
  <2> QED BY <2>5, <2>6
<1> QED BY <1>0, <1>1, <1>2

(* str::replace keeps a text a text. *)
LEMMA ContractedSequence ==
  ASSUME NEW text, IsSequence(text), NEW pair, NEW char
  PROVE  IsSequence(Contracted(text, pair, char))
<1> DEFINE Part(i) == IF Starts(text, pair, i) THEN <<char>>
                      ELSE IF i > 1 /\ Starts(text, pair, i - 1) THEN <<>> ELSE <<text[i]>>
           parts == [i \in DOMAIN text |-> Part(i)]
<1>1. Contracted(text, pair, char) = FlattenSeq(parts) BY DEF Contracted
<1>2. DOMAIN text = 1..Len(text) /\ Len(text) \in Nat BY DEF IsSequence
<1>3. ASSUME NEW i \in DOMAIN text PROVE IsSequence(Part(i))
  <2>1. <<char>> \in Seq({char}) /\ <<text[i]>> \in Seq({text[i]}) OBVIOUS
  <2>2. IsSequence(<<char>>) /\ IsSequence(<<text[i]>>) /\ IsSequence(<<>>)
    BY <2>1, SeqIsSequence, EmptySequence
  <2> HIDE DEF Part
  <2>3. Part(i) = <<char>> \/ Part(i) = <<>> \/ Part(i) = <<text[i]>> BY DEF Part
  <2> QED BY <2>2, <2>3
<1> HIDE DEF Part
<1>4. IsSequence(parts) /\ Len(parts) = Len(text) /\ \A i \in 1..Len(text) : parts[i] = Part(i)
  BY <1>2 DEF IsSequence
<1> HIDE DEF parts
<1>5. \A i \in 1..Len(parts) : IsSequence(parts[i]) BY <1>2, <1>3, <1>4
<1> QED BY <1>1, <1>4, <1>5, FlattenElements

LEMMA UnescapeIs ==
  ASSUME NEW token
  PROVE  Unescape(token) = Contracted(Contracted(token, <<"~", "1">>, "slash"), <<"~", "0">>, "~")
<1> DEFINE s == Contracted(token, <<"~", "1">>, "slash")
           Second(t) == Contracted(t, <<"~", "0">>, "~")
<1>1. Unescape(token) = CHOOSE y \in { Second(t) : t \in {s} } : TRUE BY Zenon DEF Unescape, Once
<1> HIDE DEF s, Second
<1>2. Unescape(token) = Second(s) BY <1>1
<1> QED BY <1>2 DEF s, Second

LEMMA UnescapeSequence ==
  ASSUME NEW token, IsSequence(token)
  PROVE  IsSequence(Unescape(token))
BY UnescapeIs, ContractedSequence

LEMMA TokensAre ==
  ASSUME NEW text, IsSequence(text)
  PROVE  /\ Tokens(text) = [k \in DOMAIN Split(text) |-> Unescape(Split(text)[k])]
         /\ IsSequence(Tokens(text)) /\ Len(Tokens(text)) = Len(Split(text))
         /\ \A k \in 1..Len(Split(text)) : Tokens(text)[k] = Unescape(Split(text)[k])
                                           /\ IsSequence(Tokens(text)[k])
<1> DEFINE s == Split(text)
           T(p) == [k \in DOMAIN p |-> Unescape(p[k])]
<1>1. Tokens(text) = CHOOSE y \in { T(p) : p \in {s} } : TRUE BY Zenon DEF Tokens, Once
<1>2. Tokens(text) = T(s)
  <2> HIDE DEF s, T
  <2> QED BY <1>1
<1>3. Pieces(s) BY SplitPieces
<1> HIDE DEF s
<1>4. DOMAIN s = 1..Len(s) /\ Len(s) \in Nat /\ \A k \in 1..Len(s) : IsSequence(s[k])
  BY <1>3 DEF Pieces, IsSequence
<1>5. IsSequence(T(s)) /\ Len(T(s)) = Len(s) BY <1>4 DEF IsSequence
<1>6. \A k \in 1..Len(s) : T(s)[k] = Unescape(s[k]) /\ IsSequence(T(s)[k]) BY <1>4, UnescapeSequence
<1> QED BY <1>2, <1>5, <1>6 DEF s

LEMMA TailSequence ==
  ASSUME NEW s, IsSequence(s), s # <<>>
  PROVE  /\ IsSequence(Tail(s)) /\ Len(Tail(s)) = Len(s) - 1 /\ Len(s) \in Nat \ {0}
         /\ \A i \in 1..(Len(s) - 1) : Tail(s)[i] = s[i + 1]
<1> DEFINE S == Elements(s)
<1>1. s \in Seq(S) BY IsSequenceIsSeq
<1>2. Len(s) \in Nat \ {0} BY NonEmptySequence DEF IsSequence
<1>3. Tail(s) \in Seq(S) /\ Len(Tail(s)) = Len(s) - 1 /\ \A i \in 1..Len(Tail(s)) : Tail(s)[i] = s[i + 1]
  <2> HIDE DEF S
  <2> QED BY <1>1, HeadTailProperties
<1>4. IsSequence(Tail(s)) BY <1>3, SeqIsSequence
<1> QED BY <1>2, <1>3, <1>4

LEMMA TrimmedSequence ==
  ASSUME NEW text, IsSequence(text)
  PROVE  IsSequence(Trimmed(text))
<1> DEFINE rest == { i \in DOMAIN text : text[i] # "slash" }
<1>1. Len(text) \in Nat /\ DOMAIN text = 1..Len(text) BY DEF IsSequence
<1>2. Trimmed(text) = IF rest = {} THEN <<>> ELSE SubSeq(text, Min(rest), Len(text))
  BY DEF Trimmed
<1>3. rest \subseteq 1..Len(text) BY <1>1
<1> HIDE DEF rest
<1>4. CASE rest = {} BY <1>2, <1>4, EmptySequence
<1>5. CASE rest # {}
  <2>1. rest \subseteq Nat BY <1>3
  <2>2. PICK n \in rest : \A m \in rest : n <= m BY <1>5, <2>1, LeastNumber
  <2>3. Min(rest) \in rest BY <2>2 DEF Min
  <2> DEFINE a == Min(rest)
             S == Elements(text)
  <2>4. a \in 1..Len(text) BY <1>3, <2>3
  <2>5. \A i \in a..Len(text) : text[i] \in S BY <1>1, <2>4 DEF Elements
  <2>6. SubSeq(text, a, Len(text)) \in Seq(S)
    <3> HIDE DEF a, S
    <3> QED BY <1>1, <2>4, <2>5, SubSeqProperties
  <2> QED BY <1>2, <1>5, <2>6, SeqIsSequence
<1> QED BY <1>4, <1>5

LEMMA OnceTokens == ASSUME NEW s PROVE Once(s, Tokens) = Tokens(s)
<1> DEFINE T(t) == Tokens(t)
<1>1. Once(s, Tokens) = CHOOSE y \in { T(t) : t \in {s} } : TRUE BY Zenon DEF Once
<1>2. (CHOOSE y \in { T(t) : t \in {s} } : TRUE) = T(s)
  <2> HIDE DEF T
  <2> QED OBVIOUS
<1> QED BY <1>1, <1>2

-----------------------------------------------------------------------------
(* Sequences put together. *)

LEMMA ConcatEmpty ==
  ASSUME NEW s, IsSequence(s)
  PROVE  s \o <<>> = s /\ <<>> \o s = s
<1>1. s \in Seq(Elements(s)) BY IsSequenceIsSeq
<1> QED BY <1>1

LEMMA ConcatThree ==
  ASSUME NEW a, IsSequence(a), NEW b, IsSequence(b), NEW c, IsSequence(c)
  PROVE  (a \o b) \o c = a \o (b \o c)
<1> DEFINE S == Elements(a) \cup Elements(b) \cup Elements(c)
<1>1. a \in Seq(S) /\ b \in Seq(S) /\ c \in Seq(S) BY IsSequenceIsSeq
<1> HIDE DEF S
<1> QED BY <1>1, ConcatAssociative

LEMMA AppendOne ==
  ASSUME NEW s, IsSequence(s), NEW x
  PROVE  Append(s, x) = s \o <<x>>
<1> DEFINE S == Elements(s) \cup {x}
<1>1. s \in Seq(S) /\ x \in S BY IsSequenceIsSeq
<1> HIDE DEF S
<1> QED BY <1>1

LEMMA PrefixStep ==
  ASSUME NEW s, IsSequence(s), NEW k \in 1..Len(s)
  PROVE  SubSeq(s, 1, k) = Append(SubSeq(s, 1, k - 1), s[k])
<1> DEFINE a == SubSeq(s, 1, k - 1)
           b == SubSeq(s, 1, k)
<1>1. Len(s) \in Nat /\ k \in 0..Len(s) /\ k - 1 \in 0..Len(s) BY DEF IsSequence
<1>2. /\ IsSequence(a) /\ Len(a) = k - 1 /\ \A i \in 1..(k - 1) : a[i] = s[i]
      /\ IsSequence(b) /\ Len(b) = k /\ \A i \in 1..k : b[i] = s[i]
  BY <1>1, SubSeqSequence
<1> HIDE DEF a, b
<1>3. /\ IsSequence(Append(a, s[k])) /\ Len(Append(a, s[k])) = k
      /\ \A i \in 1..(k - 1) : Append(a, s[k])[i] = a[i]
      /\ Append(a, s[k])[k] = s[k]
  BY <1>1, <1>2, AppendSequence
<1>4. \A i \in 1..k : Append(a, s[k])[i] = b[i]
  <2> SUFFICES ASSUME NEW i \in 1..k PROVE Append(a, s[k])[i] = b[i] OBVIOUS
  <2>1. CASE i = k BY <1>2, <1>3, <2>1
  <2>2. CASE i # k
    <3>1. i \in 1..(k - 1) BY <1>1, <2>2
    <3> QED BY <1>2, <1>3, <3>1
  <2> QED BY <2>1, <2>2
<1>5. b = Append(a, s[k]) BY <1>2, <1>3, <1>4, SameSequence
<1> QED BY <1>5 DEF a, b

LEMMA PrefixEnds ==
  ASSUME NEW s, IsSequence(s)
  PROVE  SubSeq(s, 1, 0) = <<>> /\ SubSeq(s, 1, Len(s)) = s
<1>1. Len(s) \in Nat /\ 0 \in 0..Len(s) /\ Len(s) \in 0..Len(s) BY DEF IsSequence
<1>2. /\ IsSequence(SubSeq(s, 1, 0)) /\ Len(SubSeq(s, 1, 0)) = 0
      /\ IsSequence(SubSeq(s, 1, Len(s))) /\ Len(SubSeq(s, 1, Len(s))) = Len(s)
      /\ \A i \in 1..Len(s) : SubSeq(s, 1, Len(s))[i] = s[i]
  BY <1>1, SubSeqSequence
<1>3. IsSequence(<<>>) /\ Len(<<>>) = 0 BY EmptySequence
<1>4. SubSeq(s, 1, 0) = <<>>
  <2> DEFINE a == SubSeq(s, 1, 0)
  <2>1. IsSequence(a) /\ Len(a) = 0 BY <1>2
  <2> HIDE DEF a
  <2>2. a = <<>> BY <1>3, <2>1, SameSequence
  <2> QED BY <2>2 DEF a
<1>5. SubSeq(s, 1, Len(s)) = s
  <2> DEFINE b == SubSeq(s, 1, Len(s))
  <2>1. IsSequence(b) /\ Len(b) = Len(s) /\ \A i \in 1..Len(b) : b[i] = s[i] BY <1>2
  <2> HIDE DEF b
  <2>2. b = s BY <2>1, SameSequence
  <2> QED BY <2>2 DEF b
<1> QED BY <1>4, <1>5

-----------------------------------------------------------------------------
(* FlattenSeq, part by part. *)

Parts(seqs) == IsSequence(seqs) /\ \A j \in 1..Len(seqs) : IsSequence(seqs[j])

LEMMA FlattenEmpty == FlattenSeq(<<>>) = <<>>
BY EmptySequence DEF FlattenSeq

LEMMA FlattenSequence == ASSUME NEW seqs, Parts(seqs) PROVE IsSequence(FlattenSeq(seqs))
BY FlattenElements DEF Parts

LEMMA FlattenAppend ==
  ASSUME NEW seqs, Parts(seqs), NEW x, IsSequence(x)
  PROVE  Parts(Append(seqs, x)) /\ FlattenSeq(Append(seqs, x)) = FlattenSeq(seqs) \o x
<1> DEFINE n == Len(seqs)
           more == Append(seqs, x)
<1>0. n \in Nat /\ IsSequence(seqs) BY DEF Parts, IsSequence
<1>1. /\ IsSequence(more) /\ Len(more) = n + 1 /\ more[n + 1] = x
      /\ \A i \in 1..n : more[i] = seqs[i]
  BY <1>0, AppendSequence
<1> HIDE DEF more
<1>2. Parts(more)
  <2> SUFFICES ASSUME NEW j \in 1..(n + 1) PROVE IsSequence(more[j]) BY <1>1 DEF Parts
  <2>1. CASE j = n + 1 BY <1>1, <2>1
  <2>2. CASE j # n + 1
    <3>1. j \in 1..n BY <1>0, <2>2
    <3> QED BY <1>1, <3>1 DEF Parts
  <2> QED BY <2>1, <2>2
<1>3. Len(more) # 0 BY <1>0, <1>1
<1>4. PICK g : FlatUpTo(g, more) /\ FlattenSeq(more) = g[n + 1] BY <1>1, <1>3, FlatIs
<1>5. \A k \in 1..(n + 1) : g[k] = FlatStep(g, more, k) BY <1>1, <1>4 DEF FlatUpTo
<1>6. FlattenSeq(more) = FlattenSeq(seqs) \o x
  <2>1. CASE n = 0
    <3>1. seqs = <<>> BY <1>0, <2>1, EmptySequence, SameSequence
    <3>2. 1 \in 1..(n + 1) /\ n + 1 = 1 BY <2>1
    <3>3. g[1] = more[1] BY <1>5, <3>2 DEF FlatStep
    <3> QED BY <1>1, <1>4, <3>1, <3>2, <3>3, FlattenEmpty, ConcatEmpty
  <2>2. CASE n # 0
    <3>1. PICK f : FlatUpTo(f, seqs) /\ FlattenSeq(seqs) = f[n] BY <1>0, <2>2, FlatIs
    <3>2. \A k \in 1..n : f[k] = FlatStep(f, seqs, k) BY <3>1 DEF FlatUpTo
    <3> DEFINE bad == { k \in 1..n : g[k] # f[k] }
    <3>3. bad = {}
      <4>1. SUFFICES ASSUME bad # {} PROVE FALSE OBVIOUS
      <4>2. PICK k \in bad : \A m \in bad : k <= m
        <5> HIDE DEF bad
        <5>1. bad \subseteq Nat BY <1>0 DEF bad
        <5> QED BY <4>1, <5>1, LeastNumber
      <4>3. k \in 1..n /\ g[k] # f[k] /\ \A m \in 1..n : m < k => g[m] = f[m] BY <4>2
      <4>4. k \in 1..(n + 1) /\ more[k] = seqs[k] BY <1>0, <1>1, <4>3
      <4>5. g[k] = FlatStep(g, more, k) /\ f[k] = FlatStep(f, seqs, k) BY <1>5, <3>2, <4>3, <4>4
      <4>6. k # 1 => k - 1 \in 1..n /\ k - 1 < k BY <1>0, <4>3
      <4>7. k # 1 => g[k - 1] = f[k - 1] BY <4>3, <4>6
      <4> QED BY <4>3, <4>4, <4>5, <4>7 DEF FlatStep
    <3>4. n \in 1..n /\ n + 1 \in 1..(n + 1) /\ n + 1 # 1 /\ n + 1 - 1 = n BY <1>0, <2>2
    <3>5. g[n] = f[n] BY <3>3, <3>4
    <3>6. g[n + 1] = g[n] \o more[n + 1]
      <4>1. g[n + 1] = FlatStep(g, more, n + 1) BY <1>5, <3>4
      <4>2. \A m : m # 1 => FlatStep(g, more, m) = g[m - 1] \o more[m] BY DEF FlatStep
      <4>3. FlatStep(g, more, n + 1) = g[(n + 1) - 1] \o more[n + 1] BY <3>4, <4>2
      <4>4. g[(n + 1) - 1] = g[n] BY <3>4
      <4> HIDE DEF n
      <4> QED BY <4>1, <4>3, <4>4
    <3> QED BY <1>1, <1>4, <3>1, <3>5, <3>6
  <2> QED BY <2>1, <2>2
<1> QED BY <1>2, <1>6 DEF more

LEMMA FlattenConcat ==
  ASSUME NEW a, Parts(a), NEW b, Parts(b)
  PROVE  FlattenSeq(a \o b) = FlattenSeq(a) \o FlattenSeq(b)
<1> DEFINE Pre(k) == SubSeq(b, 1, k)
           Good(k) == /\ Parts(Pre(k)) /\ Parts(a \o Pre(k))
                      /\ FlattenSeq(a \o Pre(k)) = FlattenSeq(a) \o FlattenSeq(Pre(k))
           bad == { k \in 0..Len(b) : ~Good(k) }
<1>0. /\ Len(b) \in Nat /\ IsSequence(a) /\ IsSequence(b) /\ IsSequence(FlattenSeq(a))
      /\ \A j \in 1..Len(b) : IsSequence(b[j])
  BY FlattenSequence DEF Parts, IsSequence
<1>1. Good(0)
  <2>1. Pre(0) = <<>> /\ a \o <<>> = a BY <1>0, PrefixEnds, ConcatEmpty
  <2>2. Parts(<<>>) BY EmptySequence DEF Parts
  <2>3. FlattenSeq(a) \o <<>> = FlattenSeq(a) BY <1>0, ConcatEmpty
  <2> HIDE DEF Pre
  <2> QED BY <2>1, <2>2, <2>3, FlattenEmpty
<1>2. ASSUME NEW k \in 1..Len(b), Good(k - 1) PROVE Good(k)
  <2> DEFINE p == Pre(k - 1)
             x == b[k]
  <2>1. Pre(k) = Append(p, x) BY <1>0, PrefixStep
  <2>2. Parts(p) /\ Parts(a \o p) /\ FlattenSeq(a \o p) = FlattenSeq(a) \o FlattenSeq(p) BY <1>2
  <2>3. IsSequence(x) BY <1>0
  <2> HIDE DEF Pre, p, x
  <2>4. IsSequence(p) /\ IsSequence(a \o p) /\ IsSequence(FlattenSeq(p)) BY <2>2, FlattenSequence DEF Parts
  <2>5. Parts(Append(p, x)) /\ FlattenSeq(Append(p, x)) = FlattenSeq(p) \o x BY <2>2, <2>3, FlattenAppend
  <2>6. a \o Append(p, x) = Append(a \o p, x)
    <3>1. IsSequence(<<x>>) BY SingletonSequence
    <3>2. Append(p, x) = p \o <<x>> /\ Append(a \o p, x) = (a \o p) \o <<x>> BY <2>4, AppendOne
    <3> QED BY <1>0, <2>4, <3>1, <3>2, ConcatAssociative
  <2>7. Parts(Append(a \o p, x)) /\ FlattenSeq(Append(a \o p, x)) = FlattenSeq(a \o p) \o x
    BY <2>2, <2>3, FlattenAppend
  <2>8. (FlattenSeq(a) \o FlattenSeq(p)) \o x = FlattenSeq(a) \o (FlattenSeq(p) \o x)
    <3> DEFINE u == FlattenSeq(a)
               v == FlattenSeq(p)
    <3>1. IsSequence(u) /\ IsSequence(v) /\ IsSequence(x) BY <1>0, <2>3, <2>4
    <3> HIDE DEF u, v
    <3>2. (u \o v) \o x = u \o (v \o x) BY ONLY <3>1, ConcatThree, SMTT(60)
    <3> QED BY <3>2 DEF u, v
  <2> QED BY <2>1, <2>2, <2>5, <2>6, <2>7, <2>8
<1> HIDE DEF Good
<1>3. bad = {}
  <2>1. SUFFICES ASSUME bad # {} PROVE FALSE OBVIOUS
  <2>2. PICK k \in bad : \A j \in bad : k <= j
    <3> HIDE DEF bad
    <3>1. bad \subseteq Nat BY <1>0 DEF bad
    <3> QED BY <2>1, <3>1, LeastNumber
  <2>3. k \in 0..Len(b) /\ ~Good(k) /\ \A j \in 0..Len(b) : j < k => Good(j) BY <2>2
  <2>4. k # 0 BY <1>1, <2>3
  <2>5. k \in 1..Len(b) /\ k - 1 \in 0..Len(b) /\ k - 1 < k BY <1>0, <2>3, <2>4
  <2> QED BY <1>2, <2>3, <2>5
<1>4. Good(Len(b)) BY <1>0, <1>3
<1>5. Pre(Len(b)) = b BY <1>0, PrefixEnds
<1> QED BY <1>4, <1>5 DEF Good

-----------------------------------------------------------------------------
(* A pointer and one name more. *)

Plain(key) == IsSequence(key) /\ \A j \in 1..Len(key) : key[j] # "slash"

LastIs(a, q, b) ==
  /\ IsSequence(b) /\ Len(b) = Len(a) /\ b[Len(a)] = q
  /\ \A i \in 1..Len(a) : i # Len(a) => b[i] = a[i]

LEMMA LastChanged ==
  ASSUME NEW a, IsSequence(a), Len(a) # 0, NEW q
  PROVE  LastIs(a, q, [a EXCEPT ![Len(a)] = q])
<1>1. Len(a) \in 1..Len(a) BY DEF IsSequence
<1> DEFINE new == [a EXCEPT ![Len(a)] = q]
<1>2. /\ IsSequence(new) /\ Len(new) = Len(a) /\ new[Len(a)] = q
      /\ \A i \in 1..Len(a) : i # Len(a) => new[i] = a[i]
  BY <1>1, ExceptSequence
<1> HIDE DEF new
<1>3. LastIs(a, q, new) BY <1>2 DEF LastIs
<1> QED BY <1>3 DEF new

LEMMA CutOn ==
  ASSUME NEW s, IsSequence(s), NEW p, IsSequence(p), NEW c, c # "slash"
  PROVE  Cut(Append(s, p), c) = Append(s, Append(p, c))
<1> DEFINE a == Append(s, p)
           q == Append(p, c)
           n == Len(s)
<1>0. n \in Nat BY DEF IsSequence
<1>1. /\ IsSequence(a) /\ Len(a) = n + 1 /\ a[n + 1] = p /\ \A i \in 1..n : a[i] = s[i]
  BY AppendSequence
<1>2. Cut(a, c) = [a EXCEPT ![Len(a)] = Append(@, c)] BY DEF Cut
<1> HIDE DEF a
<1>3. Cut(a, c) = [a EXCEPT ![n + 1] = q] BY <1>1, <1>2
<1> HIDE DEF q
<1>4. n + 1 \in 1..Len(a) BY <1>0, <1>1
<1> DEFINE b == [a EXCEPT ![n + 1] = q]
<1>5. /\ IsSequence(b) /\ Len(b) = n + 1 /\ b[n + 1] = q
      /\ \A i \in 1..(n + 1) : i # n + 1 => b[i] = a[i]
  <2>1. b = [a EXCEPT ![Len(a)] = q] BY <1>1
  <2>2. IsSequence(a) /\ Len(a) = n + 1 /\ Len(a) # 0 BY <1>0, <1>1
  <2>3. LastIs(a, q, [a EXCEPT ![Len(a)] = q]) BY <2>2, LastChanged
  <2>4. LastIs(a, q, b) BY <2>1, <2>3
  <2> HIDE DEF b
  <2> QED BY <2>2, <2>4 DEF LastIs
<1> DEFINE d == Append(s, q)
<1>6. /\ IsSequence(d) /\ Len(d) = n + 1 /\ d[n + 1] = q /\ \A i \in 1..n : d[i] = s[i]
  BY AppendSequence
<1>7. Cut(a, c) = b BY <1>3
<1> HIDE DEF b, d
<1>8. ASSUME NEW i \in 1..(n + 1) PROVE b[i] = d[i]
  <2>1. CASE i = n + 1 BY <1>5, <1>6, <2>1
  <2>2. CASE i # n + 1
    <3>1. i \in 1..n BY <1>0, <2>2
    <3> QED BY <1>1, <1>5, <1>6, <2>2, <3>1
  <2> QED BY <2>1, <2>2
<1>9. b = d BY <1>5, <1>6, <1>8, SameSequence
<1> QED BY <1>7, <1>9 DEF a, d, q

Splits(f, text) == \A k \in 0..Len(text) : f[k] = SplitStep(f, text, k)

EndsWith(text, a, key) == a + Len(key) = Len(text) /\ \A j \in 1..Len(key) : text[a + j] = key[j]

LEMMA SplitRun ==
  ASSUME NEW text, IsSequence(text), NEW f, Splits(f, text),
         NEW a \in 0..Len(text), NEW s, IsSequence(s), f[a] = Append(s, <<>>),
         NEW key, Plain(key), EndsWith(text, a, key)
  PROVE  f[Len(text)] = Append(s, key)
<1> DEFINE Pre(j) == SubSeq(key, 1, j)
           Good(j) == f[a + j] = Append(s, Pre(j))
           bad == { j \in 0..Len(key) : ~Good(j) }
<1>0. /\ Len(key) \in Nat /\ IsSequence(key) /\ Len(text) \in Nat /\ a \in Nat
      /\ a + Len(key) = Len(text) /\ \A j \in 1..Len(key) : text[a + j] = key[j]
  BY DEF Plain, IsSequence, EndsWith
<1>1. bad = {}
  <2>1. SUFFICES ASSUME bad # {} PROVE FALSE OBVIOUS
  <2> HIDE DEF Good
  <2>2. PICK k \in bad : \A j \in bad : k <= j
    <3> HIDE DEF bad
    <3>1. bad \subseteq Nat BY <1>0 DEF bad
    <3> QED BY <2>1, <3>1, LeastNumber
  <2>20. k \in 0..Len(key) /\ ~Good(k) /\ \A j \in 0..Len(key) : j < k => Good(j) BY <1>0, <2>2
  <2>3. k \in 0..Len(key) /\ f[a + k] # Append(s, Pre(k))
        /\ \A j \in 0..Len(key) : j < k => f[a + j] = Append(s, Pre(j))
    BY <2>20, Zenon DEF Good
  <2>4. k # 0
    <3>1. Pre(0) = <<>> BY <1>0, PrefixEnds
    <3>2. a + 0 = a BY <1>0
    <3> QED BY <2>3, <3>1, <3>2
  <2>5. /\ k \in 1..Len(key) /\ k - 1 \in 0..Len(key) /\ k - 1 < k
        /\ a + k \in 0..Len(text) /\ a + k # 0 /\ (a + k) - 1 = a + (k - 1)
    BY <1>0, <2>3, <2>4
  <2> DEFINE p == Pre(k - 1)
  <2>6. f[a + (k - 1)] = Append(s, p) BY <2>3, <2>5
  <2>7. IsSequence(p) BY <1>0, <2>5, SubSeqSequence
  <2>8. Pre(k) = Append(p, key[k]) BY <1>0, <2>5, PrefixStep
  <2> HIDE DEF p, Pre
  <2>9. text[a + k] = key[k] /\ key[k] # "slash" BY <1>0, <2>5 DEF Plain
  <2>10. f[a + k] = Cut(f[(a + k) - 1], text[a + k])
    <3>1. f[a + k] = SplitStep(f, text, a + k) BY <2>5 DEF Splits
    <3> QED BY <2>5, <3>1, SplitStepIs
  <2>11. f[a + k] = Cut(Append(s, p), key[k]) BY <2>5, <2>6, <2>9, <2>10
  <2>12. Cut(Append(s, p), key[k]) = Append(s, Append(p, key[k])) BY <2>7, <2>9, CutOn
  <2> QED BY <2>3, <2>8, <2>11, <2>12
<1>2. f[a + Len(key)] = Append(s, Pre(Len(key)))
  <2> HIDE DEF Good
  <2>1. Good(Len(key)) BY <1>0, <1>1
  <2> HIDE DEF Pre
  <2> QED BY <2>1 DEF Good
<1>3. Pre(Len(key)) = key BY <1>0, PrefixEnds
<1> HIDE DEF Pre
<1>4. f[a + Len(key)] = Append(s, key) BY <1>2, <1>3
<1> QED BY <1>0, <1>4

LEMMA SplitPlain ==
  ASSUME NEW key, Plain(key)
  PROVE  Split(key) = << key >>
<1>0. IsSequence(key) /\ Len(key) \in Nat BY DEF Plain, IsSequence
<1>1. PICK f : Split(key) = f[Len(key)] /\ \A k \in 0..Len(key) : f[k] = SplitStep(f, key, k)
  BY <1>0, SplitIs
<1>2. f[0] = << <<>> >>
  <2>1. SplitStep(f, key, 0) = << <<>> >> BY Zenon DEF SplitStep
  <2> QED BY <1>0, <1>1, <2>1
<1>3. \A x : Append(<<>>, x) = <<x>>
  <2> SUFFICES ASSUME NEW x PROVE Append(<<>>, x) = <<x>> OBVIOUS
  <2>1. Append(<<>>, x) = <<>> \o <<x>> BY EmptySequence, AppendOne
  <2>2. IsSequence(<<x>>) BY SingletonSequence
  <2> QED BY <2>1, <2>2, ConcatEmpty
<1>4. f[0] = Append(<<>>, <<>>) /\ 0 \in 0..Len(key) /\ 0 + Len(key) = Len(key) /\ IsSequence(<<>>)
      /\ \A j \in 1..Len(key) : key[0 + j] = key[j]
  BY <1>0, <1>2, <1>3, EmptySequence
<1> DEFINE a == 0
           s == <<>>
<1>5. /\ f[a] = Append(s, <<>>) /\ a \in 0..Len(key) /\ a + Len(key) = Len(key) /\ IsSequence(s)
      /\ \A j \in 1..Len(key) : key[a + j] = key[j]
  BY <1>4
<1> HIDE DEF a, s
<1>7. Splits(f, key) /\ EndsWith(key, a, key) BY <1>1, <1>5 DEF Splits, EndsWith
<1>6. f[Len(key)] = Append(s, key) BY <1>0, <1>5, <1>7, SplitRun
<1> QED BY <1>1, <1>3, <1>6 DEF s

LEMMA SplitBelow ==
  ASSUME NEW x, IsSequence(x), NEW key, Plain(key)
  PROVE  Split(x \o (<<"slash">> \o key)) = Append(Split(x), key)
<1> DEFINE n == Len(x)
           tail == <<"slash">> \o key
           text == x \o tail
<1>0. IsSequence(key) /\ Len(key) \in Nat /\ n \in Nat BY DEF Plain, IsSequence
<1>1. /\ IsSequence(tail) /\ Len(tail) = Len(key) + 1 /\ tail[1] = "slash"
      /\ \A i \in 2..(Len(key) + 1) : tail[i] = key[i - 1]
  <2>1. IsSequence(<<"slash">>) /\ Len(<<"slash">>) = 1 /\ <<"slash">>[1] = "slash" BY SingletonSequence
  <2>2. /\ IsSequence(tail) /\ Len(tail) = 1 + Len(key)
        /\ \A i \in 1..1 : tail[i] = <<"slash">>[i]
        /\ \A i \in (1 + 1)..(1 + Len(key)) : tail[i] = key[i - 1]
    BY <1>0, <2>1, ConcatElements
  <2> QED BY <1>0, <2>1, <2>2
<1> HIDE DEF tail
<1>2. /\ IsSequence(text) /\ Len(text) = n + (Len(key) + 1)
      /\ \A i \in 1..n : text[i] = x[i]
      /\ \A i \in (n + 1)..(n + (Len(key) + 1)) : text[i] = tail[i - n]
  <2>1. /\ IsSequence(text) /\ Len(text) = Len(x) + Len(tail)
        /\ \A i \in 1..Len(x) : text[i] = x[i]
        /\ \A i \in (Len(x) + 1)..(Len(x) + Len(tail)) : text[i] = tail[i - Len(x)]
    BY <1>1, ConcatElements
  <2> HIDE DEF text
  <2> QED BY <1>1, <2>1
<1> HIDE DEF text
<1>3. text[n + 1] = "slash"
  <2>1. n + 1 \in (n + 1)..(n + (Len(key) + 1)) /\ (n + 1) - n = 1 BY <1>0
  <2> QED BY <1>1, <1>2, <2>1
<1>4. ASSUME NEW j \in 1..Len(key) PROVE text[(n + 1) + j] = key[j]
  <2>1. (n + 1) + j \in (n + 1)..(n + (Len(key) + 1)) /\ ((n + 1) + j) - n = j + 1
        /\ j + 1 \in 2..(Len(key) + 1) /\ (j + 1) - 1 = j
    BY <1>0
  <2>2. text[(n + 1) + j] = tail[j + 1] BY <1>2, <2>1
  <2> QED BY <1>1, <2>1, <2>2
<1>5. PICK f : Split(x) = f[n] /\ \A k \in 0..n : f[k] = SplitStep(f, x, k) BY SplitIs
<1>6. PICK g : Split(text) = g[Len(text)] /\ \A k \in 0..Len(text) : g[k] = SplitStep(g, text, k)
  BY <1>2, SplitIs
<1>7. g[n] = f[n]
  <2> DEFINE bad == { k \in 0..n : g[k] # f[k] }
  <2>1. bad = {}
    <3>1. SUFFICES ASSUME bad # {} PROVE FALSE OBVIOUS
    <3>2. PICK k \in bad : \A m \in bad : k <= m
      <4> HIDE DEF bad
      <4>1. bad \subseteq Nat BY <1>0 DEF bad
      <4> QED BY <3>1, <4>1, LeastNumber
    <3>3. k \in 0..n /\ g[k] # f[k] /\ \A m \in 0..n : m < k => g[m] = f[m] BY <3>2
    <3>4. k \in 0..Len(text) BY <1>0, <1>2, <3>3
    <3>5. g[k] = SplitStep(g, text, k) /\ f[k] = SplitStep(f, x, k) BY <1>5, <1>6, <3>3, <3>4
    <3>6. CASE k = 0
      <4>1. SplitStep(g, text, 0) = << <<>> >> /\ SplitStep(f, x, 0) = << <<>> >> BY Zenon DEF SplitStep
      <4> QED BY <3>3, <3>5, <3>6, <4>1
    <3>7. CASE k # 0
      <4>1. k - 1 \in 0..n /\ k - 1 < k /\ k \in 1..n BY <1>0, <3>3, <3>7
      <4>2. g[k - 1] = f[k - 1] /\ text[k] = x[k] BY <1>2, <3>3, <4>1
      <4>3. g[k] = Cut(g[k - 1], text[k]) /\ f[k] = Cut(f[k - 1], x[k]) BY <3>5, <3>7, SplitStepIs
      <4> QED BY <3>3, <4>2, <4>3
    <3> QED BY <3>6, <3>7
  <2>2. n \in 0..n BY <1>0
  <2> QED BY <2>1, <2>2
<1>8. g[n + 1] = Append(Split(x), <<>>)
  <2>1. n + 1 \in 0..Len(text) /\ n + 1 # 0 /\ (n + 1) - 1 = n BY <1>0, <1>2
  <2>2. g[n + 1] = SplitStep(g, text, n + 1) BY <1>6, <2>1
  <2>3. g[n + 1] = Cut(g[(n + 1) - 1], text[n + 1]) BY <2>1, <2>2, SplitStepIs
  <2>4. g[n + 1] = Cut(Split(x), "slash") BY <1>3, <1>5, <1>7, <2>1, <2>3
  <2> QED BY <2>4 DEF Cut
<1>9. IsSequence(Split(x)) BY SplitPieces DEF Pieces
<1>10. n + 1 \in 0..Len(text) /\ (n + 1) + Len(key) = Len(text) BY <1>0, <1>2
<1> DEFINE a == n + 1
           s == Split(x)
<1>12. /\ a \in 0..Len(text) /\ IsSequence(s) /\ g[a] = Append(s, <<>>) /\ a + Len(key) = Len(text)
       /\ \A j \in 1..Len(key) : text[a + j] = key[j]
  BY <1>4, <1>8, <1>9, <1>10
<1> HIDE DEF n, a, s
<1>14. Splits(g, text) /\ EndsWith(text, a, key) BY <1>6, <1>12 DEF Splits, EndsWith
<1>13. g[Len(text)] = Append(s, key)
  BY <1>2, <1>12, <1>14, SplitRun
<1>11. g[Len(text)] = Append(Split(x), key) BY <1>13 DEF s
<1> QED BY <1>6, <1>11 DEF text, tail

-----------------------------------------------------------------------------
(* str::replace and back. *)

LEMMA StartsIs ==
  ASSUME NEW text, IsSequence(text), NEW c, NEW d, NEW i \in 1..Len(text)
  PROVE  Starts(text, <<c, d>>, i) <=> i + 1 \in 1..Len(text) /\ text[i] = c /\ text[i + 1] = d
<1>1. Len(text) \in Nat /\ DOMAIN text = 1..Len(text) BY DEF IsSequence
<1>2. CASE i + 1 \notin 1..Len(text) BY <1>1, <1>2 DEF Starts
<1>3. CASE i + 1 \in 1..Len(text)
  <2> DEFINE z == SubSeq(text, i, i + 1)
             S == Elements(text)
             y == <<c, d>>
  <2>1. i \in Int /\ i + 1 \in Int /\ i <= i + 1 /\ i + 1 - i + 1 = 2 BY <1>1
  <2>2. \A j \in i..(i + 1) : text[j] \in S
    <3>1. \A j \in i..(i + 1) : j \in 1..Len(text) BY <1>1, <1>3
    <3> QED BY <3>1 DEF Elements
  <2>3. z \in Seq(S) /\ Len(z) = 2 /\ \A j \in 1..2 : z[j] = text[i + j - 1]
    <3> HIDE DEF S
    <3> QED BY <2>1, <2>2, SubSeqProperties
  <2> HIDE DEF z, S
  <2>4. IsSequence(z) /\ z[1] = text[i] /\ z[2] = text[i + 1]
    <3>1. i + 1 - 1 = i /\ i + 2 - 1 = i + 1 /\ 1 \in 1..2 /\ 2 \in 1..2 BY <1>1
    <3> QED BY <2>3, <3>1, SeqIsSequence
  <2>5. IsSequence(y) /\ Len(y) = 2 /\ y[1] = c /\ y[2] = d BY PairSequence
  <2> HIDE DEF y
  <2>6. z = y <=> text[i] = c /\ text[i + 1] = d
    <3>1. ASSUME text[i] = c, text[i + 1] = d PROVE z = y
      <4>1. \A j \in 1..2 : z[j] = y[j]
        <5>1. \A j \in 1..2 : j = 1 \/ j = 2 OBVIOUS
        <5> QED BY <2>4, <2>5, <3>1, <5>1
      <4> QED BY <2>3, <2>4, <2>5, <4>1, SameSequence
    <3> QED BY <2>4, <2>5, <3>1
  <2>7. Starts(text, y, i) <=> z = y BY <1>1, <1>3 DEF Starts, z
  <2> QED BY <1>3, <2>6, <2>7 DEF y
<1> QED BY <1>2, <1>3

Part(text, pair, char, i) ==
  IF Starts(text, pair, i) THEN <<char>>
  ELSE IF i > 1 /\ Starts(text, pair, i - 1) THEN <<>> ELSE <<text[i]>>

Pieced(text, pair, char) == [i \in DOMAIN text |-> Part(text, pair, char, i)]

LEMMA PiecedIs ==
  ASSUME NEW text, IsSequence(text), NEW pair, NEW char
  PROVE  /\ Contracted(text, pair, char) = FlattenSeq(Pieced(text, pair, char))
         /\ Parts(Pieced(text, pair, char))
         /\ Len(Pieced(text, pair, char)) = Len(text)
         /\ \A i \in 1..Len(text) : Pieced(text, pair, char)[i] = Part(text, pair, char, i)
<1> DEFINE all == Pieced(text, pair, char)
<1>0. Len(text) \in Nat /\ DOMAIN text = 1..Len(text) BY DEF IsSequence
<1>1. Contracted(text, pair, char) = FlattenSeq(all) BY DEF Contracted, Pieced, Part
<1>2. all = [i \in 1..Len(text) |-> Part(text, pair, char, i)] BY <1>0 DEF Pieced
<1>3. \A i : IsSequence(Part(text, pair, char, i)) BY SingletonSequence, EmptySequence DEF Part
<1>4. all \in Seq({ Part(text, pair, char, i) : i \in 1..Len(text) }) /\ Len(all) = Len(text)
  BY <1>0, <1>2
<1>5. IsSequence(all) BY <1>4, SeqIsSequence
<1>6. \A i \in 1..Len(text) : all[i] = Part(text, pair, char, i) BY <1>2
<1> HIDE DEF all
<1>7. Parts(all) BY <1>3, <1>4, <1>5, <1>6 DEF Parts
<1> QED BY <1>1, <1>4, <1>6, <1>7 DEF all

(* No pair begins in the first of two texts and ends in the second. *)
Unbroken(a, b, c, d) == Len(a) = 0 \/ Len(b) = 0 \/ a[Len(a)] # c \/ b[1] # d

LEMMA ContractedConcat ==
  ASSUME NEW a, IsSequence(a), NEW b, IsSequence(b), NEW c, NEW d, NEW char, Unbroken(a, b, c, d)
  PROVE  Contracted(a \o b, <<c, d>>, char) = Contracted(a, <<c, d>>, char) \o Contracted(b, <<c, d>>, char)
<1> DEFINE m == Len(a)
           n == Len(b)
           t == a \o b
           pair == <<c, d>>
           pa == Pieced(a, pair, char)
           pb == Pieced(b, pair, char)
           pt == Pieced(t, pair, char)
<1>0. m \in Nat /\ n \in Nat BY DEF IsSequence
<1>1. /\ IsSequence(t) /\ Len(t) = m + n /\ \A i \in 1..m : t[i] = a[i]
      /\ \A i \in (m + 1)..(m + n) : t[i] = b[i - m]
  BY ConcatElements
<1> HIDE DEF t
<1>2. \A i \in 1..m : Starts(t, pair, i) <=> Starts(a, pair, i)
  <2> SUFFICES ASSUME NEW i \in 1..m PROVE Starts(t, pair, i) <=> Starts(a, pair, i) OBVIOUS
  <2>1. Starts(a, pair, i) <=> i + 1 \in 1..m /\ a[i] = c /\ a[i + 1] = d BY StartsIs
  <2>2. i \in 1..Len(t) BY <1>0, <1>1
  <2>3. Starts(t, pair, i) <=> i + 1 \in 1..(m + n) /\ t[i] = c /\ t[i + 1] = d BY <1>1, <2>2, StartsIs
  <2> HIDE DEF pair
  <2>4. CASE i + 1 \in 1..m
    <3>1. t[i] = a[i] /\ t[i + 1] = a[i + 1] /\ i + 1 \in 1..(m + n) BY <1>0, <1>1, <2>4
    <3> QED BY <2>1, <2>3, <2>4, <3>1
  <2>5. CASE i + 1 \notin 1..m
    <3>1. i = m /\ m # 0 BY <1>0, <2>5
    <3>2. ASSUME i + 1 \in 1..(m + n), t[i] = c, t[i + 1] = d PROVE FALSE
      <4>1. n # 0 /\ m + 1 \in (m + 1)..(m + n) /\ (m + 1) - m = 1 BY <1>0, <3>1, <3>2
      <4>2. t[m + 1] = b[1] BY <1>1, <4>1
      <4>3. t[m] = a[m] BY <1>1, <3>1
      <4> QED BY <3>1, <3>2, <4>1, <4>2, <4>3 DEF Unbroken
    <3> QED BY <2>1, <2>3, <2>5, <3>2
  <2> QED BY <2>4, <2>5
<1>3. \A i \in 1..n : Starts(t, pair, m + i) <=> Starts(b, pair, i)
  <2> SUFFICES ASSUME NEW i \in 1..n PROVE Starts(t, pair, m + i) <=> Starts(b, pair, i) OBVIOUS
  <2>1. Starts(b, pair, i) <=> i + 1 \in 1..n /\ b[i] = c /\ b[i + 1] = d BY StartsIs
  <2> DEFINE k == m + i
  <2>2. k \in 1..Len(t) /\ k \in (m + 1)..(m + n) /\ k - m = i BY <1>0, <1>1
  <2>3. k + 1 \in 1..(m + n) <=> i + 1 \in 1..n BY <1>0
  <2>4. k + 1 \in 1..(m + n) => k + 1 \in (m + 1)..(m + n) /\ (k + 1) - m = i + 1 BY <1>0
  <2> HIDE DEF k
  <2>5. Starts(t, pair, k) <=> k + 1 \in 1..(m + n) /\ t[k] = c /\ t[k + 1] = d BY <1>1, <2>2, StartsIs
  <2>6. t[k] = b[i] BY <1>1, <2>2
  <2>7. k + 1 \in 1..(m + n) => t[k + 1] = b[i + 1] BY <1>1, <2>4
  <2> HIDE DEF pair
  <2> QED BY <2>1, <2>3, <2>5, <2>6, <2>7 DEF k
<1>4. /\ Contracted(a, pair, char) = FlattenSeq(pa) /\ Parts(pa) /\ Len(pa) = m
      /\ \A i \in 1..m : pa[i] = Part(a, pair, char, i)
  <2> HIDE DEF pair
  <2> QED BY PiecedIs
<1>5. /\ Contracted(b, pair, char) = FlattenSeq(pb) /\ Parts(pb) /\ Len(pb) = n
      /\ \A i \in 1..n : pb[i] = Part(b, pair, char, i)
  <2> HIDE DEF pair
  <2> QED BY PiecedIs
<1>6. /\ Contracted(t, pair, char) = FlattenSeq(pt) /\ Parts(pt) /\ Len(pt) = m + n
      /\ \A i \in 1..(m + n) : pt[i] = Part(t, pair, char, i)
  <2> HIDE DEF pair
  <2>1. /\ Contracted(t, pair, char) = FlattenSeq(pt) /\ Parts(pt) /\ Len(pt) = Len(t)
        /\ \A i \in 1..Len(t) : pt[i] = Part(t, pair, char, i)
    BY <1>1, PiecedIs
  <2> HIDE DEF pt
  <2> QED BY <1>1, <2>1
<1> HIDE DEF pa, pb, pt, pair
<1>7. ASSUME NEW i \in 1..m PROVE pt[i] = pa[i]
  <2>1. i \in 1..(m + n) /\ t[i] = a[i] /\ (i > 1 => i - 1 \in 1..m) BY <1>0, <1>1
  <2>2. Starts(t, pair, i) <=> Starts(a, pair, i) BY <1>2
  <2>3. i > 1 => (Starts(t, pair, i - 1) <=> Starts(a, pair, i - 1)) BY <1>2, <2>1
  <2>4. Part(t, pair, char, i) = Part(a, pair, char, i) BY <2>1, <2>2, <2>3 DEF Part
  <2> QED BY <1>4, <1>6, <2>1, <2>4
<1>8. ASSUME NEW i \in 1..n PROVE pt[m + i] = pb[i]
  <2> DEFINE k == m + i
  <2>1. k \in 1..(m + n) /\ k \in (m + 1)..(m + n) /\ k - m = i BY <1>0
  <2>2. t[k] = b[i] BY <1>1, <2>1
  <2>3. Starts(t, pair, k) <=> Starts(b, pair, i) BY <1>3
  <2>4. (k > 1 /\ Starts(t, pair, k - 1)) <=> (i > 1 /\ Starts(b, pair, i - 1))
    <3>1. CASE i > 1
      <4>1. i - 1 \in 1..n /\ k - 1 = m + (i - 1) /\ k > 1 BY <1>0, <3>1
      <4>2. Starts(t, pair, m + (i - 1)) <=> Starts(b, pair, i - 1) BY <1>3, <4>1
      <4> QED BY <3>1, <4>1, <4>2
    <3>2. CASE ~(i > 1)
      <4>1. i = 1 /\ k = m + 1 BY <3>2
      <4>2. ASSUME k > 1, Starts(t, pair, k - 1) PROVE FALSE
        <5>1. k - 1 = m /\ m \in 1..m BY <1>0, <4>1, <4>2
        <5>2. Starts(t, pair, m) BY <4>2, <5>1
        <5>3. Starts(a, pair, m) BY <1>2, <5>1, <5>2
        <5>4. m + 1 \in 1..m BY <5>1, <5>3, StartsIs DEF pair
        <5> QED BY <1>0, <5>4
      <4> QED BY <3>2, <4>2
    <3> QED BY <3>1, <3>2
  <2> HIDE DEF k
  <2>5. Part(t, pair, char, k) = Part(b, pair, char, i) BY <2>2, <2>3, <2>4 DEF Part
  <2>6. pt[k] = pb[i] BY <1>5, <1>6, <2>1, <2>5
  <2> QED BY <2>6 DEF k
<1>9. pt = pa \o pb
  <2> DEFINE e == pa \o pb
  <2>1. IsSequence(pa) /\ IsSequence(pb) /\ IsSequence(pt) BY <1>4, <1>5, <1>6 DEF Parts
  <2>2. /\ IsSequence(e) /\ Len(e) = m + n /\ \A i \in 1..m : e[i] = pa[i]
        /\ \A i \in (m + 1)..(m + n) : e[i] = pb[i - m]
    <3>1. /\ IsSequence(e) /\ Len(e) = Len(pa) + Len(pb) /\ \A i \in 1..Len(pa) : e[i] = pa[i]
          /\ \A i \in (Len(pa) + 1)..(Len(pa) + Len(pb)) : e[i] = pb[i - Len(pa)]
      BY <2>1, ConcatElements
    <3> HIDE DEF e
    <3> QED BY <1>4, <1>5, <3>1
  <2> HIDE DEF e
  <2>3. \A i \in 1..(m + n) : pt[i] = e[i]
    <3> SUFFICES ASSUME NEW i \in 1..(m + n) PROVE pt[i] = e[i] OBVIOUS
    <3>1. CASE i \in 1..m BY <1>7, <2>2, <3>1
    <3>2. CASE i \notin 1..m
      <4>1. i - m \in 1..n /\ m + (i - m) = i /\ i \in (m + 1)..(m + n) BY <1>0, <3>2
      <4>2. pt[m + (i - m)] = pb[i - m] BY <1>8, <4>1
      <4> QED BY <2>2, <4>1, <4>2
    <3> QED BY <3>1, <3>2
  <2>4. pt = e BY <1>6, <2>1, <2>2, <2>3, SameSequence
  <2> QED BY <2>4 DEF e
<1>10. FlattenSeq(pa \o pb) = FlattenSeq(pa) \o FlattenSeq(pb) BY <1>4, <1>5, FlattenConcat
<1> QED BY <1>4, <1>5, <1>6, <1>9, <1>10 DEF t, pair

LEMMA FlattenOne == ASSUME NEW x, IsSequence(x) PROVE Parts(<<x>>) /\ FlattenSeq(<<x>>) = x
<1>1. Parts(<<>>) BY EmptySequence DEF Parts
<1>2. Append(<<>>, x) = <<x>>
  <2>1. Append(<<>>, x) = <<>> \o <<x>> BY EmptySequence, AppendOne
  <2>2. IsSequence(<<x>>) BY SingletonSequence
  <2> QED BY <2>1, <2>2, ConcatEmpty
<1>3. Parts(Append(<<>>, x)) /\ FlattenSeq(Append(<<>>, x)) = FlattenSeq(<<>>) \o x BY <1>1, FlattenAppend
<1>4. <<>> \o x = x BY ConcatEmpty
<1> QED BY <1>2, <1>3, <1>4, FlattenEmpty

LEMMA ContractedOne ==
  ASSUME NEW x, NEW c, NEW d, NEW char
  PROVE  Contracted(<<x>>, <<c, d>>, char) = <<x>>
<1> DEFINE text == <<x>>
           pair == <<c, d>>
           all == Pieced(text, pair, char)
<1>1. IsSequence(text) /\ Len(text) = 1 /\ text[1] = x BY SingletonSequence
<1>2. Contracted(text, pair, char) = FlattenSeq(all) /\ Parts(all) /\ Len(all) = 1
      /\ all[1] = Part(text, pair, char, 1)
  <2> HIDE DEF text, pair
  <2>1. /\ Contracted(text, pair, char) = FlattenSeq(all) /\ Parts(all) /\ Len(all) = Len(text)
        /\ \A i \in 1..Len(text) : all[i] = Part(text, pair, char, i)
    BY <1>1, PiecedIs
  <2> HIDE DEF all
  <2> QED BY <1>1, <2>1
<1>3. Part(text, pair, char, 1) = <<x>>
  <2>1. ~Starts(text, pair, 1)
    <3> HIDE DEF text
    <3>1. 1 \in 1..Len(text) /\ ~(1 + 1 \in 1..Len(text)) BY <1>1
    <3> QED BY <1>1, <3>1, StartsIs
  <2> HIDE DEF text
  <2> QED BY <1>1, <2>1 DEF Part
<1> HIDE DEF all
<1>4. all = << <<x>> >>
  <2>1. IsSequence(<< <<x>> >>) /\ Len(<< <<x>> >>) = 1 /\ << <<x>> >>[1] = <<x>> BY SingletonSequence
  <2>2. \A i \in 1..1 : all[i] = << <<x>> >>[i] BY <1>2, <1>3, <2>1
  <2> DEFINE o == << <<x>> >>
  <2>3. IsSequence(o) /\ Len(o) = 1 /\ \A i \in 1..1 : all[i] = o[i] BY <2>1, <2>2
  <2> HIDE DEF o
  <2>4. all = o BY <1>2, <2>3, SameSequence DEF Parts
  <2> QED BY <2>4 DEF o
<1>5. FlattenSeq(<< <<x>> >>) = <<x>> BY <1>1, FlattenOne
<1> QED BY <1>2, <1>4, <1>5

LEMMA ContractedPair ==
  ASSUME NEW c, NEW d, NEW char
  PROVE  Contracted(<<c, d>>, <<c, d>>, char) = <<char>>
<1> DEFINE pair == <<c, d>>
           all == Pieced(pair, pair, char)
           both == Append(<< <<char>> >>, <<>>)
<1>1. IsSequence(pair) /\ Len(pair) = 2 /\ pair[1] = c /\ pair[2] = d BY PairSequence
<1>2. Contracted(pair, pair, char) = FlattenSeq(all) /\ Parts(all) /\ Len(all) = 2
      /\ all[1] = Part(pair, pair, char, 1) /\ all[2] = Part(pair, pair, char, 2)
  <2> HIDE DEF pair
  <2>1. /\ Contracted(pair, pair, char) = FlattenSeq(all) /\ Parts(all) /\ Len(all) = Len(pair)
        /\ \A i \in 1..Len(pair) : all[i] = Part(pair, pair, char, i)
    BY <1>1, PiecedIs
  <2> HIDE DEF all
  <2> QED BY <1>1, <2>1
<1>3. Starts(pair, pair, 1) /\ ~Starts(pair, pair, 2)
  <2> DEFINE t == pair
  <2>1. IsSequence(t) /\ Len(t) = 2 /\ t[1] = c /\ t[2] = d BY <1>1
  <2> HIDE DEF t
  <2>2. 1 \in 1..Len(t) /\ 2 \in 1..Len(t) /\ 1 + 1 \in 1..Len(t) /\ ~(2 + 1 \in 1..Len(t)) /\ 1 + 1 = 2 BY <2>1
  <2>3. Starts(t, <<c, d>>, 1) <=> 1 + 1 \in 1..Len(t) /\ t[1] = c /\ t[1 + 1] = d BY <2>1, <2>2, StartsIs
  <2>4. Starts(t, <<c, d>>, 2) <=> 2 + 1 \in 1..Len(t) /\ t[2] = c /\ t[2 + 1] = d BY <2>1, <2>2, StartsIs
  <2>5. Starts(t, <<c, d>>, 1) /\ ~Starts(t, <<c, d>>, 2) BY <2>1, <2>2, <2>3, <2>4
  <2> QED BY <2>5 DEF t
<1> HIDE DEF pair, all
<1>4. Part(pair, pair, char, 1) = <<char>> BY <1>3 DEF Part
<1>5. Part(pair, pair, char, 2) = <<>>
  <2>1. 2 > 1 /\ 2 - 1 = 1 OBVIOUS
  <2> QED BY <1>3, <2>1 DEF Part
<1>6. IsSequence(<<char>>) /\ IsSequence(<<>>) BY SingletonSequence, EmptySequence
<1> DEFINE one == << <<char>> >>
<1>7. IsSequence(one) /\ Len(one) = 1 /\ one[1] = <<char>> BY SingletonSequence
<1>8. Parts(one) /\ FlattenSeq(one) = <<char>> BY <1>6, FlattenOne
<1>9. both = Append(one, <<>>) OBVIOUS
<1> HIDE DEF one, both
<1>10. Parts(both) /\ FlattenSeq(both) = <<char>> \o <<>> BY <1>6, <1>8, <1>9, FlattenAppend
<1>11. IsSequence(both) /\ Len(both) = 2 /\ both[1] = <<char>> /\ both[2] = <<>>
  <2>1. IsSequence(both) /\ Len(both) = Len(one) + 1 /\ both[Len(one) + 1] = <<>>
        /\ \A i \in 1..Len(one) : both[i] = one[i]
    <3> DEFINE w == Append(one, <<>>)
    <3>1. /\ IsSequence(w) /\ Len(w) = Len(one) + 1 /\ w[Len(one) + 1] = <<>>
          /\ \A i \in 1..Len(one) : w[i] = one[i]
      BY <1>7, AppendSequence, ZenonT(60)
    <3>2. both = w BY <1>9
    <3> HIDE DEF w
    <3> QED BY <3>1, <3>2
  <2> QED BY <1>7, <2>1
<1>12. all = both
  <2>1. \A i \in 1..2 : i = 1 \/ i = 2 OBVIOUS
  <2>2. \A i \in 1..2 : all[i] = both[i] BY <1>2, <1>4, <1>5, <1>11, <2>1
  <2> QED BY <1>2, <1>11, <2>2, SameSequence DEF Parts
<1>13. <<char>> \o <<>> = <<char>> BY <1>6, ConcatEmpty
<1> QED BY <1>2, <1>10, <1>12, <1>13 DEF pair

LEMMA ReplacedEmpty == ASSUME NEW char, NEW pair PROVE Replaced(<<>>, char, pair) = <<>>
<1> DEFINE all == [i \in DOMAIN <<>> |-> IF <<>>[i] = char THEN pair ELSE << <<>>[i] >>]
<1>1. DOMAIN <<>> = 1..0 BY EmptySequence DEF IsSequence
<1>2. all \in Seq({}) /\ Len(all) = 0 BY <1>1
<1>3. IsSequence(all) BY <1>2, SeqIsSequence
<1>4. Replaced(<<>>, char, pair) = FlattenSeq(all) BY DEF Replaced
<1> HIDE DEF all
<1>5. all = <<>> BY <1>2, <1>3, NonEmptySequence
<1> QED BY <1>4, <1>5, FlattenEmpty

LEMMA ReplacedAppend ==
  ASSUME NEW text, IsSequence(text), NEW char, NEW pair, IsSequence(pair), NEW x
  PROVE  Replaced(Append(text, x), char, pair)
           = Replaced(text, char, pair) \o (IF x = char THEN pair ELSE <<x>>)
<1> DEFINE n == Len(text)
           P(y) == IF y = char THEN pair ELSE <<y>>
           more == Append(text, x)
           a == [i \in 1..n |-> P(text[i])]
           b == [i \in 1..(n + 1) |-> P(more[i])]
<1>0. n \in Nat /\ DOMAIN text = 1..n BY DEF IsSequence
<1>1. /\ IsSequence(more) /\ Len(more) = n + 1 /\ more[n + 1] = x /\ \A i \in 1..n : more[i] = text[i]
  BY AppendSequence
<1>2. DOMAIN more = 1..(n + 1) BY <1>0, <1>1 DEF IsSequence
<1>3. Replaced(text, char, pair) = FlattenSeq(a) BY <1>0 DEF Replaced
<1>4. Replaced(more, char, pair) = FlattenSeq(b) BY <1>2 DEF Replaced
<1>5. \A y : IsSequence(P(y)) BY SingletonSequence
<1> HIDE DEF more, P
<1>6. a \in Seq({ P(text[i]) : i \in 1..n }) /\ Len(a) = n /\ \A i \in 1..n : a[i] = P(text[i]) BY <1>0
<1>7. b \in Seq({ P(more[i]) : i \in 1..(n + 1) }) /\ Len(b) = n + 1
      /\ \A i \in 1..(n + 1) : b[i] = P(more[i])
  <2>1. n + 1 \in Nat BY <1>0
  <2> DEFINE k == n + 1
  <2>2. k \in Nat BY <2>1
  <2> HIDE DEF k
  <2> DEFINE e == [i \in 1..k |-> P(more[i])]
  <2>3. e \in Seq({ P(more[i]) : i \in 1..k }) /\ Len(e) = k /\ \A i \in 1..k : e[i] = P(more[i]) BY <2>2
  <2> QED BY <2>3 DEF k
<1>8. IsSequence(a) /\ IsSequence(b) BY <1>6, <1>7, SeqIsSequence
<1> HIDE DEF a, b, n
<1>9. Parts(a) BY <1>5, <1>6, <1>8 DEF Parts
<1> DEFINE e == Append(a, P(x))
<1>10. IsSequence(e) /\ Len(e) = n + 1 /\ e[n + 1] = P(x) /\ \A i \in 1..n : e[i] = a[i]
  <2>1. IsSequence(e) /\ Len(e) = Len(a) + 1 /\ e[Len(a) + 1] = P(x) /\ \A i \in 1..Len(a) : e[i] = a[i]
    BY <1>8, AppendSequence
  <2> HIDE DEF e
  <2> QED BY <1>6, <2>1
<1>11. b = e
  <2> HIDE DEF e
  <2>1. \A i \in 1..(n + 1) : b[i] = e[i]
    <3> SUFFICES ASSUME NEW i \in 1..(n + 1) PROVE b[i] = e[i] OBVIOUS
    <3>1. CASE i = n + 1 BY <1>1, <1>7, <1>10, <3>1
    <3>2. CASE i # n + 1
      <4>1. i \in 1..n BY <1>0, <3>2
      <4>2. b[i] = P(text[i]) BY <1>1, <1>7, <4>1
      <4> QED BY <1>6, <1>10, <4>1, <4>2
    <3> QED BY <3>1, <3>2
  <2> QED BY <1>7, <1>8, <1>10, <2>1, SameSequence
<1>12. FlattenSeq(e) = FlattenSeq(a) \o P(x) BY <1>5, <1>9, FlattenAppend
<1> QED BY <1>3, <1>4, <1>11, <1>12 DEF P, more

(* A character written as two, and read back. *)
Undone(p, char, d) ==
  /\ IsSequence(p) /\ IsSequence(Replaced(p, char, <<"~", d>>))
  /\ Contracted(Replaced(p, char, <<"~", d>>), <<"~", d>>, char) = p
  /\ p = <<>> => Len(Replaced(p, char, <<"~", d>>)) = 0
  /\ p # <<>> => /\ Len(Replaced(p, char, <<"~", d>>)) # 0
                 /\ Replaced(p, char, <<"~", d>>)[Len(Replaced(p, char, <<"~", d>>))]
                      = IF p[Len(p)] = char THEN d ELSE p[Len(p)]
  /\ \A i \in 1..Len(Replaced(p, char, <<"~", d>>)) :
       /\ Replaced(p, char, <<"~", d>>)[i] # "~" => Replaced(p, char, <<"~", d>>)[i] # char
       /\ char = "~" /\ Replaced(p, char, <<"~", d>>)[i] = "~" =>
            i + 1 \in 1..Len(Replaced(p, char, <<"~", d>>))
            /\ Replaced(p, char, <<"~", d>>)[i + 1] = d

Apart(text, char, d) ==
  char = "~" \/ \A i \in 1..Len(text) : ~(i + 1 \in 1..Len(text) /\ text[i] = "~" /\ text[i + 1] = d)

LEMMA UndoneEmpty == ASSUME NEW char, NEW d PROVE Undone(<<>>, char, d)
<1>1. Replaced(<<>>, char, <<"~", d>>) = <<>> BY ReplacedEmpty
<1>2. IsSequence(<<>>) /\ Len(<<>>) = 0 BY EmptySequence
<1>3. Contracted(<<>>, <<"~", d>>, char) = <<>>
  <2> DEFINE all == Pieced(<<>>, <<"~", d>>, char)
             e == <<>>
  <2>1. IsSequence(e) /\ Len(e) = 0 BY <1>2
  <2> HIDE DEF e
  <2>2. /\ Contracted(e, <<"~", d>>, char) = FlattenSeq(Pieced(e, <<"~", d>>, char))
        /\ Parts(Pieced(e, <<"~", d>>, char)) /\ Len(Pieced(e, <<"~", d>>, char)) = Len(e)
    BY <2>1, PiecedIs
  <2>3. IsSequence(Pieced(e, <<"~", d>>, char)) BY <2>2 DEF Parts
  <2>4. Pieced(e, <<"~", d>>, char) = <<>> BY <2>1, <2>2, <2>3, NonEmptySequence
  <2>5. Contracted(e, <<"~", d>>, char) = <<>> BY <2>2, <2>4, FlattenEmpty
  <2> QED BY <2>5 DEF e
<1>4. \A i : i \notin 1..0 OBVIOUS
<1> QED BY <1>1, <1>2, <1>3, <1>4 DEF Undone

LEMMA UndoneAppend ==
  ASSUME NEW char, NEW d, d # "~", d # char, NEW p, Undone(p, char, d), NEW x,
         char = "~" \/ p = <<>> \/ p[Len(p)] # "~" \/ x # d
  PROVE  Undone(Append(p, x), char, d)
<1> DEFINE pair == <<"~", d>>
           e == Replaced(p, char, pair)
           f == Replaced(Append(p, x), char, pair)
           piece == IF x = char THEN pair ELSE <<x>>
<1>1. /\ IsSequence(p) /\ IsSequence(e) /\ Contracted(e, pair, char) = p
      /\ p = <<>> => Len(e) = 0
      /\ p # <<>> => Len(e) # 0 /\ e[Len(e)] = IF p[Len(p)] = char THEN d ELSE p[Len(p)]
      /\ \A i \in 1..Len(e) :
           /\ e[i] # "~" => e[i] # char
           /\ char = "~" /\ e[i] = "~" => i + 1 \in 1..Len(e) /\ e[i + 1] = d
  BY DEF Undone
<1>2. IsSequence(pair) /\ Len(pair) = 2 /\ pair[1] = "~" /\ pair[2] = d BY PairSequence
<1>3. f = e \o piece
  <2>1. IsSequence(p) /\ IsSequence(pair) BY <1>1, <1>2
  <2> HIDE DEF pair
  <2>2. Replaced(Append(p, x), char, pair)
          = Replaced(p, char, pair) \o (IF x = char THEN pair ELSE <<x>>)
    BY <2>1, ReplacedAppend
  <2> QED BY <2>2
<1>4. IsSequence(<<x>>) /\ Len(<<x>>) = 1 /\ <<x>>[1] = x BY SingletonSequence
<1>5. /\ IsSequence(piece) /\ Len(piece) \in {1, 2} /\ (x = char => Len(piece) = 2)
      /\ (x # char => Len(piece) = 1)
      /\ piece[1] = (IF x = char THEN "~" ELSE x)
      /\ piece[Len(piece)] = IF x = char THEN d ELSE x
  <2>1. CASE x = char
    <3>1. piece = pair BY <2>1
    <3> HIDE DEF piece, pair
    <3> QED BY <1>2, <2>1, <3>1
  <2>2. CASE x # char
    <3>1. piece = <<x>> BY <2>2
    <3> HIDE DEF piece
    <3> QED BY <1>4, <2>2, <3>1
  <2> QED BY <2>1, <2>2
<1>6. Contracted(piece, pair, char) = <<x>>
  <2>1. CASE x = char
    <3>1. piece = pair BY <2>1
    <3> HIDE DEF piece
    <3>2. Contracted(pair, pair, char) = <<char>> BY ContractedPair
    <3> QED BY <2>1, <3>1, <3>2
  <2>2. CASE x # char
    <3>1. piece = <<x>> BY <2>2
    <3> HIDE DEF piece
    <3> QED BY <3>1, ContractedOne
  <2> QED BY <2>1, <2>2
<1> HIDE DEF e, f, piece
<1>7. Len(e) = 0 \/ e[Len(e)] # "~" \/ piece[1] # d
  <2>1. CASE x = char BY <1>5, <2>1
  <2>2. CASE x # char /\ p # <<>>
    <3>1. CASE p[Len(p)] = char BY <1>1, <2>2, <3>1
    <3>2. CASE p[Len(p)] # char BY <1>1, <1>5, <2>2, <3>2
    <3> QED BY <3>1, <3>2
  <2>3. CASE p = <<>> BY <1>1, <2>3
  <2> QED BY <2>1, <2>2, <2>3
<1>8. Contracted(f, pair, char) = Append(p, x)
  <2>1. Contracted(e \o piece, pair, char) = Contracted(e, pair, char) \o Contracted(piece, pair, char)
    <3> DEFINE tilde == "~"
    <3>1. IsSequence(e) /\ IsSequence(piece) /\ Unbroken(e, piece, tilde, d)
      BY <1>1, <1>5, <1>7 DEF Unbroken
    <3>2. pair = <<tilde, d>> OBVIOUS
    <3> HIDE DEF tilde, pair
    <3>3. Contracted(e \o piece, <<tilde, d>>, char)
            = Contracted(e, <<tilde, d>>, char) \o Contracted(piece, <<tilde, d>>, char)
      BY <3>1, ContractedConcat
    <3> QED BY <3>2, <3>3
  <2>2. Append(p, x) = p \o <<x>> BY <1>1, AppendOne
  <2> QED BY <1>1, <1>3, <1>6, <2>1, <2>2
<1> HIDE DEF pair
<1>9. /\ IsSequence(f) /\ Len(f) = Len(e) + Len(piece) /\ Len(e) \in Nat
      /\ \A i \in 1..Len(e) : f[i] = e[i]
      /\ \A i \in (Len(e) + 1)..(Len(e) + Len(piece)) : f[i] = piece[i - Len(e)]
  <2>1. Len(e) \in Nat BY <1>1 DEF IsSequence
  <2> QED BY <1>1, <1>3, <1>5, <2>1, ConcatElements
<1> DEFINE q == Append(p, x)
<1>10. IsSequence(q) /\ q # <<>> /\ q[Len(q)] = x
  <2>1. IsSequence(q) /\ Len(q) = Len(p) + 1 /\ q[Len(p) + 1] = x /\ Len(p) \in Nat
    BY <1>1, AppendSequence DEF IsSequence
  <2> HIDE DEF q
  <2>2. Len(q) # 0 BY <2>1
  <2>3. q # <<>> BY <2>2, EmptySequence
  <2> QED BY <2>1, <2>3
<1>11. Len(f) # 0 /\ f[Len(f)] = IF x = char THEN d ELSE x
  <2> DEFINE k == Len(piece)
             n == Len(e)
  <2>1. k \in {1, 2} /\ n \in Nat /\ Len(f) = n + k /\ n + k \in (n + 1)..(n + k) /\ (n + k) - n = k
    BY <1>5, <1>9
  <2>2. f[n + k] = piece[k] BY <1>9, <2>1
  <2>3. n + k # 0 BY <2>1
  <2> QED BY <1>5, <2>1, <2>2, <2>3
<1>12. ASSUME NEW i \in 1..Len(f)
       PROVE  /\ f[i] # "~" => f[i] # char
              /\ char = "~" /\ f[i] = "~" => i + 1 \in 1..Len(f) /\ f[i + 1] = d
  <2> DEFINE n == Len(e)
             k == Len(piece)
  <2>1. CASE i \in 1..n
    <3>1. f[i] = e[i] BY <1>9, <2>1
    <3>2. i + 1 \in 1..n => f[i + 1] = e[i + 1] /\ i + 1 \in 1..Len(f) BY <1>5, <1>9
    <3> QED BY <1>1, <2>1, <3>1, <3>2
  <2>2. CASE i \notin 1..n
    <3>1. i - n \in 1..k /\ i \in (n + 1)..(n + k) BY <1>5, <1>9, <2>2
    <3>2. f[i] = piece[i - n] BY <1>9, <3>1
    <3>3. CASE x # char
      <4>3. k = 1 BY <1>5, <3>3
      <4>1. i - n = 1
        <5>1. n \in Nat BY <1>9
        <5> HIDE DEF k, n
        <5> QED BY <3>1, <4>3, <5>1
      <4>2. f[i] = x BY <1>5, <3>2, <3>3, <4>1
      <4> QED BY <3>3, <4>2
    <3>4. CASE x = char /\ i - n = 1
      <4>1. f[i] = "~" BY <1>5, <3>2, <3>4
      <4>2. k = 2 /\ i = n + 1 /\ i + 1 \in (n + 1)..(n + k) /\ (i + 1) - n = 2 /\ i + 1 \in 1..Len(f)
        BY <1>5, <1>9, <3>1, <3>4
      <4>3. f[i + 1] = piece[2] BY <1>9, <4>2
      <4>4. f[i + 1] = d BY <1>5, <3>4, <4>2, <4>3
      <4> QED BY <4>1, <4>2, <4>4
    <3>5. CASE x = char /\ i - n # 1
      <4>3. k = 2 BY <1>5, <3>5
      <4>1. i - n = 2
        <5>1. n \in Nat BY <1>9
        <5> HIDE DEF k, n
        <5> QED BY <3>1, <3>5, <4>3, <5>1
      <4>2. f[i] = d BY <1>5, <3>2, <3>5, <4>1
      <4> QED BY <4>2
    <3> QED BY <3>3, <3>4, <3>5
  <2> QED BY <2>1, <2>2
<1>13. f = Replaced(q, char, pair) BY DEF f
<1> HIDE DEF q
<1>14. Contracted(f, pair, char) = q BY <1>8 DEF q
<1>15. Undone(q, char, d)
  <2>1. Replaced(q, char, <<"~", d>>) = f BY <1>13 DEF pair
  <2>2. Contracted(f, <<"~", d>>, char) = q BY <1>14 DEF pair
  <2> QED BY <1>9, <1>10, <1>11, <1>12, <2>1, <2>2 DEF Undone
<1> QED BY <1>15 DEF q

LEMMA UndoneAll ==
  ASSUME NEW text, IsSequence(text), NEW char, NEW d, d # "~", d # char, Apart(text, char, d)
  PROVE  Undone(text, char, d)
<1> DEFINE Pre(k) == SubSeq(text, 1, k)
           Good(k) == Undone(Pre(k), char, d)
           bad == { k \in 0..Len(text) : ~Good(k) }
<1>0. Len(text) \in Nat BY DEF IsSequence
<1>1. Good(0)
  <2>1. Pre(0) = <<>> BY PrefixEnds
  <2> HIDE DEF Pre
  <2> QED BY <2>1, UndoneEmpty
<1>2. ASSUME NEW k \in 1..Len(text), Good(k - 1) PROVE Good(k)
  <2> DEFINE p == Pre(k - 1)
             x == text[k]
  <2>1. Pre(k) = Append(p, x) BY PrefixStep
  <2>2. k - 1 \in 0..Len(text) BY <1>0
  <2>3. IsSequence(p) /\ Len(p) = k - 1 /\ \A i \in 1..(k - 1) : p[i] = text[i] BY <2>2, SubSeqSequence
  <2>4. Undone(p, char, d) BY <1>2
  <2> HIDE DEF Pre, p, x
  <2>5. char = "~" \/ p = <<>> \/ p[Len(p)] # "~" \/ x # d
    <3> SUFFICES ASSUME char # "~", p # <<>> PROVE p[Len(p)] # "~" \/ x # d OBVIOUS
    <3>1. Len(p) # 0 BY <2>3, NonEmptySequence
    <3>2. k - 1 \in 1..Len(text) /\ (k - 1) + 1 = k /\ k - 1 \in 1..(k - 1) BY <1>0, <2>3, <3>1
    <3>3. ~(text[k - 1] = "~" /\ text[(k - 1) + 1] = d) BY <3>2 DEF Apart
    <3> QED BY <2>3, <3>2, <3>3 DEF x
  <2>6. Undone(Append(p, x), char, d) BY <2>4, <2>5, UndoneAppend
  <2> QED BY <2>1, <2>6
<1> HIDE DEF Good
<1>3. bad = {}
  <2>1. SUFFICES ASSUME bad # {} PROVE FALSE OBVIOUS
  <2>2. PICK k \in bad : \A j \in bad : k <= j
    <3> HIDE DEF bad
    <3>1. bad \subseteq Nat BY <1>0 DEF bad
    <3> QED BY <2>1, <3>1, LeastNumber
  <2>3. k \in 0..Len(text) /\ ~Good(k) /\ \A j \in 0..Len(text) : j < k => Good(j) BY <1>0, <2>2
  <2>4. k # 0 BY <1>1, <2>3
  <2>5. k \in 1..Len(text) /\ k - 1 \in 0..Len(text) /\ k - 1 < k BY <1>0, <2>3, <2>4
  <2> QED BY <1>2, <2>3, <2>5
<1>4. Good(Len(text)) BY <1>0, <1>3
<1>5. Pre(Len(text)) = text BY PrefixEnds
<1> QED BY <1>4, <1>5 DEF Good

(* A token that was escaped has no slash, and is read back as itself. *)
LEMMA EscapeUndone ==
  ASSUME NEW t, IsSequence(t)
  PROVE  Plain(EscapeToken(t)) /\ Unescape(EscapeToken(t)) = t
<1> DEFINE u == Replaced(t, "~", <<"~", "0">>)
           w == Replaced(u, "slash", <<"~", "1">>)
<1>1. EscapeToken(t) = w BY DEF EscapeToken
<1>2. Apart(t, "~", "0") BY DEF Apart
<1>3. Undone(t, "~", "0")
  <2> DEFINE zero == "0"
             tilde == "~"
  <2>1. zero # "~" /\ zero # tilde /\ Apart(t, tilde, zero) BY <1>2
  <2> HIDE DEF zero, tilde
  <2>2. Undone(t, tilde, zero) BY <2>1, UndoneAll
  <2> QED BY <2>2 DEF zero, tilde
<1>4. /\ IsSequence(u) /\ Contracted(u, <<"~", "0">>, "~") = t
      /\ \A i \in 1..Len(u) : u[i] = "~" => i + 1 \in 1..Len(u) /\ u[i + 1] = "0"
  BY <1>3 DEF Undone
<1> HIDE DEF u
<1>5. Apart(u, "slash", "1")
  <2>1. "0" # "1" OBVIOUS
  <2> QED BY <1>4, <2>1 DEF Apart
<1>6. Undone(u, "slash", "1")
  <2> DEFINE one == "1"
             slash == "slash"
  <2>1. one # "~" /\ one # slash /\ Apart(u, slash, one) BY <1>5
  <2> HIDE DEF one, slash
  <2>2. Undone(u, slash, one) BY <1>4, <2>1, UndoneAll
  <2> QED BY <2>2 DEF one, slash
<1>7. /\ IsSequence(w) /\ Contracted(w, <<"~", "1">>, "slash") = u
      /\ \A i \in 1..Len(w) : w[i] # "~" => w[i] # "slash"
  BY <1>6 DEF Undone
<1> HIDE DEF w
<1>8. Plain(w)
  <2>1. "~" # "slash" OBVIOUS
  <2> QED BY <1>7, <2>1 DEF Plain
<1>9. Unescape(w) = t BY <1>4, <1>7, UnescapeIs
<1> QED BY <1>1, <1>8, <1>9

-----------------------------------------------------------------------------
(* A pointer and one token more: what it leads to is below.                *)

LEMMA ReplacedAbsent ==
  ASSUME NEW text, IsSequence(text), NEW char, NEW pair, IsSequence(pair),
         \A j \in 1..Len(text) : text[j] # char
  PROVE  Replaced(text, char, pair) = text
<1> DEFINE Pre(k) == SubSeq(text, 1, k)
           Good(k) == Replaced(Pre(k), char, pair) = Pre(k)
           bad == { k \in 0..Len(text) : ~Good(k) }
<1>0. Len(text) \in Nat BY DEF IsSequence
<1>1. Good(0)
  <2>1. Pre(0) = <<>> BY PrefixEnds
  <2> HIDE DEF Pre
  <2> QED BY <2>1, ReplacedEmpty
<1>2. ASSUME NEW k \in 1..Len(text), Good(k - 1) PROVE Good(k)
  <2> DEFINE p == Pre(k - 1)
             x == text[k]
  <2>1. Pre(k) = Append(p, x) BY PrefixStep
  <2>2. k - 1 \in 0..Len(text) BY <1>0
  <2>3. IsSequence(p) BY <2>2, SubSeqSequence
  <2>4. Replaced(p, char, pair) = p BY <1>2
  <2>5. x # char OBVIOUS
  <2> HIDE DEF Pre, p, x
  <2>6. Replaced(Append(p, x), char, pair) = p \o <<x>> BY <2>3, <2>4, <2>5, ReplacedAppend
  <2>7. Append(p, x) = p \o <<x>> BY <2>3, AppendOne
  <2> QED BY <2>1, <2>6, <2>7
<1> HIDE DEF Good
<1>3. bad = {}
  <2>1. SUFFICES ASSUME bad # {} PROVE FALSE OBVIOUS
  <2>2. PICK k \in bad : \A j \in bad : k <= j
    <3> HIDE DEF bad
    <3>1. bad \subseteq Nat BY <1>0 DEF bad
    <3> QED BY <2>1, <3>1, LeastNumber
  <2>3. k \in 0..Len(text) /\ ~Good(k) /\ \A j \in 0..Len(text) : j < k => Good(j) BY <1>0, <2>2
  <2>4. k # 0 BY <1>1, <2>3
  <2>5. k \in 1..Len(text) /\ k - 1 \in 0..Len(text) /\ k - 1 < k BY <1>0, <2>3, <2>4
  <2> QED BY <1>2, <2>3, <2>5
<1>4. Good(Len(text)) BY <1>0, <1>3
<1>5. Pre(Len(text)) = text BY PrefixEnds
<1> QED BY <1>4, <1>5 DEF Good

(* A name in which no character means anything is its own escaped form.    *)
Unmarked(key) == IsSequence(key) /\ \A j \in 1..Len(key) : key[j] # "slash" /\ key[j] # "~"

LEMMA UnescapeUnmarked ==
  ASSUME NEW key, Unmarked(key)
  PROVE  Plain(key) /\ Unescape(key) = key
<1>0. IsSequence(key) /\ Plain(key) BY DEF Unmarked, Plain
<1>1. Replaced(key, "~", <<"~", "0">>) = key
  <2> DEFINE tilde == "~"
             pair == <<"~", "0">>
  <2>1. IsSequence(pair) /\ \A j \in 1..Len(key) : key[j] # tilde BY PairSequence DEF Unmarked
  <2> HIDE DEF tilde, pair
  <2>2. Replaced(key, tilde, pair) = key BY <1>0, <2>1, ReplacedAbsent
  <2> QED BY <2>2 DEF tilde, pair
<1>2. Replaced(key, "slash", <<"~", "1">>) = key
  <2> DEFINE slash == "slash"
             pair == <<"~", "1">>
  <2>1. IsSequence(pair) /\ \A j \in 1..Len(key) : key[j] # slash BY PairSequence DEF Unmarked
  <2> HIDE DEF slash, pair
  <2>2. Replaced(key, slash, pair) = key BY <1>0, <2>1, ReplacedAbsent
  <2> QED BY <2>2 DEF slash, pair
<1>3. EscapeToken(key) = key BY <1>1, <1>2 DEF EscapeToken
<1>4. Unescape(EscapeToken(key)) = key BY <1>0, EscapeUndone
<1> QED BY <1>0, <1>3, <1>4

LEMMA TokensPlain ==
  ASSUME NEW key, Plain(key)
  PROVE  Tokens(key) = << Unescape(key) >>
<1> DEFINE one == << Unescape(key) >>
           t == Tokens(key)
<1>0. IsSequence(key) BY DEF Plain
<1>1. Split(key) = << key >> BY SplitPlain
<1>2. Len(<<key>>) = 1 /\ <<key>>[1] = key BY SingletonSequence
<1>3. /\ IsSequence(t) /\ Len(t) = Len(Split(key))
      /\ \A k \in 1..Len(Split(key)) : t[k] = Unescape(Split(key)[k])
  BY <1>0, TokensAre
<1> HIDE DEF t
<1>4. IsSequence(t) /\ Len(t) = 1 /\ t[1] = Unescape(key) BY <1>1, <1>2, <1>3
<1>5. IsSequence(one) /\ Len(one) = 1 /\ one[1] = Unescape(key) BY SingletonSequence
<1> HIDE DEF one
<1>6. \A k \in 1..1 : t[k] = one[k] BY <1>4, <1>5
<1>7. t = one BY <1>4, <1>5, <1>6, SameSequence
<1> QED BY <1>7 DEF t, one

LEMMA TokensBelow ==
  ASSUME NEW x, IsSequence(x), NEW key, Plain(key)
  PROVE  /\ IsSequence(Tokens(x))
         /\ Tokens(x \o (<<"slash">> \o key)) = Append(Tokens(x), Unescape(key))
<1> DEFINE text == x \o (<<"slash">> \o key)
           s == Split(x)
           t == Tokens(x)
           u == Tokens(text)
           n == Len(s)
           e == Append(t, Unescape(key))
<1>0. IsSequence(key) /\ IsSequence(<<"slash">>) BY SingletonSequence DEF Plain
<1>1. IsSequence(<<"slash">> \o key) BY <1>0, ConcatSequence
<1>2. IsSequence(text) BY <1>1, ConcatSequence
<1>3. Split(text) = Append(s, key) BY SplitBelow
<1>4. IsSequence(t) /\ Len(t) = n /\ \A k \in 1..n : t[k] = Unescape(s[k]) BY TokensAre
<1>5. IsSequence(s) /\ n \in Nat BY SplitPieces DEF Pieces, IsSequence
<1> HIDE DEF text, s
<1>6. /\ IsSequence(u) /\ Len(u) = Len(Split(text))
      /\ \A k \in 1..Len(Split(text)) : u[k] = Unescape(Split(text)[k])
  BY <1>2, TokensAre
<1>7. /\ IsSequence(Append(s, key)) /\ Len(Append(s, key)) = n + 1
      /\ \A k \in 1..n : Append(s, key)[k] = s[k] /\ Append(s, key)[n + 1] = key
  BY <1>5, AppendSequence
<1>70. Append(s, key)[n + 1] = key BY <1>5, AppendSequence
<1> HIDE DEF t, u, n
<1>8. /\ IsSequence(e) /\ Len(e) = n + 1 /\ e[n + 1] = Unescape(key) /\ \A k \in 1..n : e[k] = t[k]
  <2>1. /\ IsSequence(e) /\ Len(e) = Len(t) + 1 /\ e[Len(t) + 1] = Unescape(key)
        /\ \A k \in 1..Len(t) : e[k] = t[k]
    BY <1>4, AppendSequence
  <2> HIDE DEF e
  <2> QED BY <1>4, <2>1
<1> HIDE DEF e
<1>9. ASSUME NEW k \in 1..(n + 1) PROVE u[k] = e[k]
  <2>1. u[k] = Unescape(Append(s, key)[k]) BY <1>3, <1>6, <1>7
  <2>2. CASE k = n + 1 BY <1>70, <1>8, <2>1, <2>2
  <2>3. CASE k # n + 1
    <3>1. k \in 1..n BY <1>5, <2>3
    <3> QED BY <1>4, <1>7, <1>8, <2>1, <3>1
  <2> QED BY <2>2, <2>3
<1>10. u = e BY <1>3, <1>6, <1>7, <1>8, <1>9, SameSequence
<1> QED BY <1>4, <1>10 DEF u, t, e, text

LEMMA TailOfConcat ==
  ASSUME NEW a, IsSequence(a), a # <<>>, NEW b, IsSequence(b)
  PROVE  Tail(a \o b) = Tail(a) \o b /\ a \o b # <<>> /\ (a \o b)[1] = a[1]
<1> DEFINE S == Elements(a) \cup Elements(b)
           t == a \o b
           u == Tail(a) \o b
           m == Len(a)
           n == Len(b)
<1>1. IsSequence(Tail(a)) /\ Len(Tail(a)) = m - 1 /\ m \in Nat \ {0}
      /\ \A i \in 1..(m - 1) : Tail(a)[i] = a[i + 1]
  BY TailSequence
<1>2. n \in Nat BY DEF IsSequence
<1>3. /\ IsSequence(t) /\ Len(t) = m + n /\ \A i \in 1..m : t[i] = a[i]
      /\ \A i \in (m + 1)..(m + n) : t[i] = b[i - m]
  BY ConcatElements
<1> DEFINE c == Tail(a)
<1>4. IsSequence(c) /\ Len(c) = m - 1 /\ \A i \in 1..(m - 1) : c[i] = a[i + 1] BY <1>1
<1>5. u = c \o b OBVIOUS
<1> HIDE DEF c, t, u
<1>6. /\ IsSequence(u) /\ Len(u) = Len(c) + n /\ \A i \in 1..Len(c) : u[i] = c[i]
      /\ \A i \in (Len(c) + 1)..(Len(c) + n) : u[i] = b[i - Len(c)]
  BY <1>4, <1>5, ConcatElements
<1>7. t # <<>>
  <2>1. Len(t) # 0 BY <1>1, <1>2, <1>3
  <2> QED BY <1>3, <2>1, NonEmptySequence
<1>8. IsSequence(Tail(t)) /\ Len(Tail(t)) = Len(t) - 1 /\ \A i \in 1..(Len(t) - 1) : Tail(t)[i] = t[i + 1]
  BY <1>3, <1>7, TailSequence
<1> HIDE DEF m, n
<1>9. ASSUME NEW i \in 1..((m - 1) + n) PROVE Tail(t)[i] = u[i]
  <2>1. i \in 1..(Len(t) - 1) BY <1>1, <1>2, <1>3
  <2>2. Tail(t)[i] = t[i + 1] BY <1>8, <2>1
  <2>3. CASE i \in 1..(m - 1)
    <3>1. i + 1 \in 1..m BY <1>1, <2>3
    <3> QED BY <1>3, <1>4, <1>6, <2>2, <2>3, <3>1
  <2>4. CASE i \notin 1..(m - 1)
    <3>1. i + 1 \in (m + 1)..(m + n) /\ i \in ((m - 1) + 1)..((m - 1) + n) /\ (i + 1) - m = i - (m - 1)
      BY <1>1, <1>2, <2>4
    <3>2. t[i + 1] = b[(i + 1) - m] BY <1>3, <3>1
    <3>3. u[i] = b[i - (m - 1)] BY <1>4, <1>6, <3>1
    <3> QED BY <2>2, <3>1, <3>2, <3>3
  <2> QED BY <2>3, <2>4
<1>10. Len(Tail(t)) = (m - 1) + n /\ Len(u) = (m - 1) + n BY <1>1, <1>2, <1>3, <1>4, <1>6, <1>8
<1>11. Tail(t) = u
  <2> DEFINE v == Tail(t)
  <2>1. IsSequence(v) /\ Len(v) = (m - 1) + n /\ \A i \in 1..((m - 1) + n) : v[i] = u[i] BY <1>8, <1>9, <1>10
  <2> HIDE DEF v
  <2>2. v = u BY <1>6, <1>10, <2>1, SameSequence
  <2> QED BY <2>2 DEF v
<1>12. t[1] = a[1]
  <2>1. 1 \in 1..m BY <1>1
  <2> QED BY <1>3, <2>1
<1> QED BY <1>7, <1>11, <1>12 DEF t, u, c

LEMMA ParseIs ==
  ASSUME NEW text, text # <<>>, IsPointer(text)
  PROVE  ParsePointer(text) = Tokens(Tail(text))
BY OnceTokens DEF ParsePointer

LEMMA PointerBelow ==
  ASSUME NEW at, IsSequence(at), IsPointer(at), NEW key, Plain(key)
  PROVE  /\ IsSequence(at \o (<<"slash">> \o key)) /\ IsPointer(at \o (<<"slash">> \o key))
         /\ at \o (<<"slash">> \o key) # <<>> /\ IsSequence(ParsePointer(at))
         /\ ParsePointer(at \o (<<"slash">> \o key)) = Append(ParsePointer(at), Unescape(key))
<1> DEFINE slash == <<"slash">>
           more == slash \o key
           text == at \o more
<1>0. IsSequence(key) /\ IsSequence(slash) /\ Len(slash) = 1 /\ slash[1] = "slash"
  BY SingletonSequence DEF Plain
<1>1. slash # <<>> BY <1>0, EmptySequence
<1>2. Tail(slash) = <<>>
  <2>1. IsSequence(Tail(slash)) /\ Len(Tail(slash)) = 0
    <3> HIDE DEF slash
    <3> QED BY <1>0, <1>1, TailSequence
  <2> DEFINE r == Tail(slash)
  <2>2. IsSequence(r) /\ Len(r) = 0 BY <2>1
  <2> HIDE DEF r
  <2>3. r = <<>> BY <2>2, NonEmptySequence
  <2> QED BY <2>3 DEF r
<1>3. IsSequence(more) /\ Tail(more) = key /\ more # <<>> /\ more[1] = "slash"
  <2> HIDE DEF slash
  <2>1. IsSequence(more) BY <1>0, ConcatSequence
  <2>2. Tail(more) = Tail(slash) \o key /\ more # <<>> /\ more[1] = slash[1] BY <1>0, <1>1, TailOfConcat
  <2>3. <<>> \o key = key BY <1>0, ConcatEmpty
  <2> QED BY <1>0, <1>2, <2>1, <2>2, <2>3
<1>4. CASE at = <<>>
  <2> HIDE DEF more
  <2>1. text = more BY <1>3, <1>4, ConcatEmpty
  <2>2. ParsePointer(more) = Tokens(key) BY <1>3, ParseIs DEF IsPointer
  <2>3. Tokens(key) = << Unescape(key) >> BY TokensPlain
  <2>4. ParsePointer(at) = <<>> BY <1>4 DEF ParsePointer
  <2>5. Append(<<>>, Unescape(key)) = << Unescape(key) >>
    <3> DEFINE y == Unescape(key)
    <3> HIDE DEF y
    <3>1. Append(<<>>, y) = <<>> \o <<y>> BY EmptySequence, AppendOne
    <3>2. IsSequence(<<y>>) BY SingletonSequence
    <3>3. Append(<<>>, y) = <<y>> BY <3>1, <3>2, ConcatEmpty
    <3> QED BY <3>3 DEF y
  <2>6. IsPointer(more) BY <1>3 DEF IsPointer
  <2>7. IsSequence(text) /\ IsPointer(text) /\ text # <<>> /\ IsSequence(ParsePointer(at))
        /\ ParsePointer(text) = Append(ParsePointer(at), Unescape(key))
    BY <1>3, <2>1, <2>2, <2>3, <2>4, <2>5, <2>6, EmptySequence
  <2> QED BY <2>7 DEF more
<1>5. CASE at # <<>>
  <2> DEFINE x == Tail(at)
  <2>1. at[1] = "slash" BY <1>5 DEF IsPointer
  <2>2. IsSequence(x) BY <1>5, TailSequence
  <2> HIDE DEF more
  <2>3. IsSequence(text) /\ Tail(text) = x \o more /\ text # <<>> /\ text[1] = "slash"
    BY <1>3, <1>5, <2>1, TailOfConcat, ConcatSequence
  <2>4. IsPointer(text) BY <2>3 DEF IsPointer
  <2>5. ParsePointer(text) = Tokens(x \o more) BY <2>3, <2>4, ParseIs
  <2>6. ParsePointer(at) = Tokens(x) BY <1>5, ParseIs
  <2> HIDE DEF x, text
  <2>7. IsSequence(Tokens(x)) /\ Tokens(x \o (<<"slash">> \o key)) = Append(Tokens(x), Unescape(key))
    BY <2>2, TokensBelow
  <2>8. IsSequence(text) /\ IsPointer(text) /\ text # <<>> /\ IsSequence(ParsePointer(at))
        /\ ParsePointer(text) = Append(ParsePointer(at), Unescape(key))
    BY <2>3, <2>4, <2>5, <2>6, <2>7 DEF more
  <2> QED BY <2>8 DEF text, more
<1> QED BY <1>4, <1>5

-----------------------------------------------------------------------------
(* A rendered path is read as itself.                                      *)

LEMMA RenderEmpty == Render(<<>>) = <<>>
<1> DEFINE all == [i \in DOMAIN <<>> |-> <<"slash">> \o EscapeToken(<<>>[i])]
<1>1. DOMAIN <<>> = 1..0 BY EmptySequence DEF IsSequence
<1>2. all \in Seq({}) /\ Len(all) = 0 BY <1>1
<1>3. IsSequence(all) BY <1>2, SeqIsSequence
<1>4. Render(<<>>) = FlattenSeq(all) BY DEF Render
<1> HIDE DEF all
<1>5. all = <<>> BY <1>2, <1>3, NonEmptySequence
<1> QED BY <1>4, <1>5, FlattenEmpty

LEMMA RenderAppend ==
  ASSUME NEW path, Parts(path), NEW t, IsSequence(t)
  PROVE  Parts(Append(path, t))
         /\ Render(Append(path, t)) = Render(path) \o (<<"slash">> \o EscapeToken(t))
<1> DEFINE n == Len(path)
           P(y) == <<"slash">> \o EscapeToken(y)
           more == Append(path, t)
           a == [i \in 1..n |-> P(path[i])]
           b == [i \in 1..(n + 1) |-> P(more[i])]
<1>0. n \in Nat /\ DOMAIN path = 1..n /\ IsSequence(path) BY DEF Parts, IsSequence
<1>1. /\ IsSequence(more) /\ Len(more) = n + 1 /\ more[n + 1] = t /\ \A i \in 1..n : more[i] = path[i]
  BY <1>0, AppendSequence
<1>2. DOMAIN more = 1..(n + 1) BY <1>0, <1>1 DEF IsSequence
<1>3. Render(path) = FlattenSeq(a) BY <1>0 DEF Render
<1>4. Render(more) = FlattenSeq(b) BY <1>2 DEF Render
<1>5. \A y : IsSequence(y) => IsSequence(P(y))
  <2> SUFFICES ASSUME NEW y, IsSequence(y) PROVE IsSequence(P(y)) OBVIOUS
  <2>1. IsSequence(EscapeToken(y)) BY EscapeUndone DEF Plain
  <2>2. IsSequence(<<"slash">>) BY SingletonSequence
  <2> QED BY <2>1, <2>2, ConcatSequence
<1>50. IsSequence(P(t)) BY <1>5
<1> HIDE DEF more, P
<1>6. a \in Seq({ P(path[i]) : i \in 1..n }) /\ Len(a) = n /\ \A i \in 1..n : a[i] = P(path[i]) BY <1>0
<1>7. b \in Seq({ P(more[i]) : i \in 1..(n + 1) }) /\ Len(b) = n + 1
      /\ \A i \in 1..(n + 1) : b[i] = P(more[i])
  <2>1. n + 1 \in Nat BY <1>0
  <2> DEFINE k == n + 1
  <2>2. k \in Nat BY <2>1
  <2> HIDE DEF k
  <2> DEFINE e == [i \in 1..k |-> P(more[i])]
  <2>3. e \in Seq({ P(more[i]) : i \in 1..k }) /\ Len(e) = k /\ \A i \in 1..k : e[i] = P(more[i]) BY <2>2
  <2> QED BY <2>3 DEF k
<1>8. IsSequence(a) /\ IsSequence(b) BY <1>6, <1>7, SeqIsSequence
<1> HIDE DEF a, b
<1>9. Parts(a)
  <2>1. \A i \in 1..n : IsSequence(path[i]) BY DEF Parts
  <2> QED BY <1>5, <1>6, <1>8, <2>1 DEF Parts
<1>90. Parts(more)
  <2> SUFFICES ASSUME NEW j \in 1..(n + 1) PROVE IsSequence(more[j]) BY <1>1 DEF Parts
  <2>1. CASE j = n + 1 BY <1>1, <2>1
  <2>2. CASE j # n + 1
    <3>1. j \in 1..n BY <1>0, <2>2
    <3> QED BY <1>1, <3>1 DEF Parts
  <2> QED BY <2>1, <2>2
<1> HIDE DEF n
<1> DEFINE e == Append(a, P(t))
<1>10. IsSequence(e) /\ Len(e) = n + 1 /\ e[n + 1] = P(t) /\ \A i \in 1..n : e[i] = a[i]
  <2>1. IsSequence(e) /\ Len(e) = Len(a) + 1 /\ e[Len(a) + 1] = P(t) /\ \A i \in 1..Len(a) : e[i] = a[i]
    BY <1>8, AppendSequence
  <2> HIDE DEF e
  <2> QED BY <1>6, <2>1
<1>11. b = e
  <2> HIDE DEF e
  <2>1. \A i \in 1..(n + 1) : b[i] = e[i]
    <3> SUFFICES ASSUME NEW i \in 1..(n + 1) PROVE b[i] = e[i] OBVIOUS
    <3>1. CASE i = n + 1 BY <1>1, <1>7, <1>10, <3>1
    <3>2. CASE i # n + 1
      <4>1. i \in 1..n BY <1>0, <3>2
      <4>2. b[i] = P(path[i]) BY <1>1, <1>7, <4>1
      <4> QED BY <1>6, <1>10, <4>1, <4>2
    <3> QED BY <3>1, <3>2
  <2> QED BY <1>7, <1>8, <1>10, <2>1, SameSequence
<1>12. FlattenSeq(e) = FlattenSeq(a) \o P(t) BY <1>50, <1>9, FlattenAppend
<1> QED BY <1>3, <1>4, <1>90, <1>11, <1>12 DEF P, more

(* A path whose text leads back, and how its text begins.                  *)
Rendered(p) ==
  /\ Parts(p) /\ IsSequence(Render(p)) /\ IsPointer(Render(p)) /\ ParsePointer(Render(p)) = p
  /\ p # <<>> => Render(p) # <<>>
  /\ p # <<>> /\ p[1] # <<>> => Len(Render(p)) > 1 /\ Render(p)[2] # "slash"
  /\ Len(p) = 1 /\ p[1] = <<>> => Len(Render(p)) = 1

LEMMA RenderedEmpty == Rendered(<<>>)
<1>1. Parts(<<>>) /\ IsSequence(<<>>) /\ Len(<<>>) = 0 BY EmptySequence DEF Parts
<1>2. ParsePointer(<<>>) = <<>> /\ IsPointer(<<>>) BY DEF ParsePointer, IsPointer
<1> QED BY <1>1, <1>2, RenderEmpty DEF Rendered

LEMMA RenderedAppend ==
  ASSUME NEW p, Rendered(p), NEW t, IsSequence(t)
  PROVE  Rendered(Append(p, t))
<1> DEFINE q == Append(p, t)
           r == Render(p)
           key == EscapeToken(t)
           more == <<"slash">> \o key
           s == r \o more
           n == Len(p)
<1>0. Plain(key) /\ Unescape(key) = t /\ IsSequence(key) BY EscapeUndone DEF Plain
<1>1. /\ Parts(p) /\ IsSequence(p) /\ n \in Nat /\ IsSequence(r) /\ IsPointer(r) /\ ParsePointer(r) = p
      /\ p # <<>> => r # <<>>
      /\ p # <<>> /\ p[1] # <<>> => Len(r) > 1 /\ r[2] # "slash"
      /\ Len(p) = 1 /\ p[1] = <<>> => Len(r) = 1
      /\ Len(r) \in Nat
  BY DEF Rendered, Parts, IsSequence
<1>2. Parts(q) /\ Render(q) = s BY <1>1, RenderAppend
<1> HIDE DEF key, r
<1>3. IsSequence(s) /\ IsPointer(s) /\ s # <<>> /\ ParsePointer(s) = q BY <1>0, <1>1, PointerBelow
<1>4. IsSequence(q) /\ Len(q) = n + 1 /\ q[n + 1] = t /\ \A i \in 1..n : q[i] = p[i]
  BY <1>1, AppendSequence
<1>5. /\ IsSequence(more) /\ Len(more) = 1 + Len(key) /\ Len(key) \in Nat
      /\ \A i \in 2..(1 + Len(key)) : more[i] = key[i - 1]
  <2> DEFINE slash == <<"slash">>
  <2>1. IsSequence(slash) /\ Len(slash) = 1 BY SingletonSequence
  <2>2. /\ IsSequence(slash \o key) /\ Len(slash \o key) = Len(slash) + Len(key)
        /\ \A i \in (Len(slash) + 1)..(Len(slash) + Len(key)) : (slash \o key)[i] = key[i - Len(slash)]
    <3> HIDE DEF slash
    <3> QED BY <1>0, <2>1, ConcatElements
  <2>3. Len(key) \in Nat BY <1>0 DEF IsSequence
  <2> DEFINE m == slash \o key
  <2>4. m = more OBVIOUS
  <2> HIDE DEF slash, more
  <2>5. /\ IsSequence(m) /\ Len(m) = 1 + Len(key) /\ \A i \in (1 + 1)..(1 + Len(key)) : m[i] = key[i - 1]
    BY <2>1, <2>2
  <2> QED BY <2>3, <2>4, <2>5
<1> HIDE DEF more
<1>6. /\ Len(s) = Len(r) + Len(more) /\ \A i \in 1..Len(r) : s[i] = r[i]
      /\ \A i \in (Len(r) + 1)..(Len(r) + Len(more)) : s[i] = more[i - Len(r)]
  BY <1>1, <1>5, ConcatElements
<1> HIDE DEF q, s
<1>7. CASE p = <<>>
  <2>1. n = 0 /\ r = <<>> BY <1>7, RenderEmpty, EmptySequence DEF r
  <2>2. Len(r) = 0 BY <2>1, EmptySequence
  <2>3. q[1] = t BY <1>4, <2>1
  <2>4. Len(s) = 1 + Len(key) BY <1>5, <1>6, <2>2
  <2>5. t # <<>> => Len(s) > 1 /\ s[2] # "slash"
    <3> SUFFICES ASSUME t # <<>> PROVE Len(s) > 1 /\ s[2] # "slash" OBVIOUS
    <3>1. key # <<>>
      <4> SUFFICES ASSUME key = <<>> PROVE FALSE OBVIOUS
      <4>1. Unmarked(<<>>) BY EmptySequence DEF Unmarked
      <4>2. Unescape(<<>>) = <<>> BY <4>1, UnescapeUnmarked
      <4> QED BY <1>0, <4>2
    <3>2. Len(key) \in Nat \ {0} BY <1>0, <1>5, <3>1, NonEmptySequence
    <3>3. 2 \in (Len(r) + 1)..(Len(r) + Len(more)) /\ 2 - Len(r) = 2 /\ 2 \in 2..(1 + Len(key))
      BY <1>5, <2>2, <3>2
    <3>4. s[2] = more[2] BY <1>6, <3>3
    <3>5. more[2] = key[2 - 1] /\ 2 - 1 = 1 BY <1>5, <3>3
    <3>6. key[1] # "slash"
      <4>1. 1 \in 1..Len(key) BY <3>2
      <4> QED BY <1>0, <4>1 DEF Plain
    <3> QED BY <2>4, <3>2, <3>4, <3>5, <3>6
  <2>6. t = <<>> => Len(s) = 1
    <3> SUFFICES ASSUME t = <<>> PROVE Len(s) = 1 OBVIOUS
    <3>1. key = <<>>
      <4>1. Replaced(<<>>, "~", <<"~", "0">>) = <<>> BY ReplacedEmpty
      <4>2. Replaced(<<>>, "slash", <<"~", "1">>) = <<>> BY ReplacedEmpty
      <4> QED BY <4>1, <4>2 DEF EscapeToken, key
    <3>2. Len(key) = 0 BY <3>1, EmptySequence
    <3> QED BY <2>4, <3>2
  <2> QED BY <1>2, <1>3, <2>3, <2>5, <2>6 DEF Rendered, q
<1>8. CASE p # <<>>
  <2>1. n # 0 /\ 1 \in 1..n BY <1>1, <1>8, NonEmptySequence
  <2>2. q[1] = p[1] /\ Len(q) # 1 BY <1>1, <1>4, <2>1
  <2>3. p[1] # <<>> => Len(s) > 1 /\ s[2] # "slash"
    <3> SUFFICES ASSUME p[1] # <<>> PROVE Len(s) > 1 /\ s[2] # "slash" OBVIOUS
    <3>1. Len(r) > 1 /\ r[2] # "slash" BY <1>1, <1>8
    <3>2. 2 \in 1..Len(r) BY <1>1, <3>1
    <3> QED BY <1>1, <1>5, <1>6, <3>1, <3>2
  <2> QED BY <1>2, <1>3, <2>2, <2>3 DEF Rendered, q
<1> QED BY <1>7, <1>8
=============================================================================
