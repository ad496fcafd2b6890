-------------------------- MODULE ValidatedProofs --------------------------
(***************************************************************************)
(* Theorems about a stream with a schema, for every validator: what        *)
(* judging adds to the log, and that it leaves the parse alone.  Parsed is *)
(* the development about the parser, read with the verdicts left out.      *)
(***************************************************************************)
EXTENDS StreamProofs, ValidatedStream

Parsed == INSTANCE StreamProofs WITH events <- ParseEvents

-----------------------------------------------------------------------------
(* WithoutVerdicts, by its equation.                                       *)

KeptStep(f, evs, k) ==
  IF k = 0 THEN <<>> ELSE IF IsVerdict(evs[k]) THEN f[k - 1] ELSE Append(f[k - 1], evs[k])

KeptUpTo(f, evs) ==
  f = [k \in 0..Len(evs) |-> f[k]] /\ \A k \in 0..Len(evs) : f[k] = KeptStep(f, evs, k)

LEMMA KeptExists ==
  ASSUME NEW evs, IsSequence(evs)
  PROVE  \E f : KeptUpTo(f, evs)
<1> DEFINE Good(f, n) == \A k \in 0..n : f[k] = KeptStep(f, evs, k)
           bad == { n \in 0..Len(evs) : ~\E f : Good(f, n) }
<1>0. Len(evs) \in Nat BY DEF IsSequence
<1>1. bad = {}
  <2>1. SUFFICES ASSUME bad # {} PROVE FALSE OBVIOUS
  <2>2. PICK n \in bad : \A m \in bad : n <= m
    <3> HIDE DEF bad
    <3>1. bad \subseteq Nat BY <1>0 DEF bad
    <3> QED BY <2>1, <3>1, LeastNumber
  <2>3. n \in 0..Len(evs) /\ \A m \in 0..Len(evs) : m < n => \E f : Good(f, m) BY <2>2
  <2>4. \E f : Good(f, n)
    <3>1. CASE n = 0
      <4>1. Good([k \in 0..0 |-> <<>>], 0) BY DEF KeptStep
      <4> QED BY <3>1, <4>1
    <3>2. CASE n # 0
      <4>1. n - 1 \in 0..Len(evs) /\ n - 1 < n BY <1>0, <2>3, <3>2
      <4>2. PICK f : Good(f, n - 1) BY <2>3, <4>1
      <4> DEFINE g == [k \in 0..n |-> IF k = n THEN KeptStep(f, evs, n) ELSE f[k]]
      <4>3. \A k \in 0..n : k # n => k \in 0..(n - 1) /\ g[k] = f[k] BY <2>3
      <4>4. ASSUME NEW k \in 0..n PROVE KeptStep(g, evs, k) = KeptStep(f, evs, k)
        <5>1. k # 0 => k - 1 \in 0..n /\ k - 1 # n BY <2>3
        <5>2. k # 0 => g[k - 1] = f[k - 1] BY <4>3, <5>1
        <5> HIDE DEF g
        <5> QED BY <5>2 DEF KeptStep
      <4>5. Good(g, n)
        <5> SUFFICES ASSUME NEW k \in 0..n PROVE g[k] = KeptStep(f, evs, k) BY <4>4
        <5>1. CASE k = n BY <5>1
        <5>2. CASE k # n BY <4>2, <4>3, <5>2
        <5> QED BY <5>1, <5>2
      <4> HIDE DEF g, Good
      <4> QED BY <4>5
    <3> QED BY <3>1, <3>2
  <2> QED BY <2>2, <2>4
<1>2. PICK f : Good(f, Len(evs))
  <2>1. Len(evs) \in 0..Len(evs) BY <1>0
  <2> QED BY <1>1, <2>1
<1> DEFINE g == [k \in 0..Len(evs) |-> f[k]]
<1>3. ASSUME NEW k \in 0..Len(evs) PROVE g[k] = KeptStep(g, evs, k)
  <2>1. k # 0 => k - 1 \in 0..Len(evs) BY <1>0
  <2>2. g[k] = f[k] /\ (k # 0 => g[k - 1] = f[k - 1]) BY <2>1
  <2> HIDE DEF g
  <2> QED BY <1>2, <2>2 DEF KeptStep
<1>4. g = [k \in 0..Len(evs) |-> g[k]] OBVIOUS
<1> HIDE DEF g
<1> QED BY <1>3, <1>4 DEF KeptUpTo

(* Some such function gives what is left. *)
LEMMA KeptIs ==
  ASSUME NEW evs, IsSequence(evs)
  PROVE  \E f : KeptUpTo(f, evs) /\ WithoutVerdicts(evs) = f[Len(evs)]
<1> DEFINE F(f) == f = [i \in 0..Len(evs) |-> IF i = 0 THEN <<>>
                          ELSE IF IsVerdict(evs[i]) THEN f[i - 1] ELSE Append(f[i - 1], evs[i])]
           g == CHOOSE f : F(f)
<1>0. Len(evs) \in Nat BY DEF IsSequence
<1>1. PICK h : KeptUpTo(h, evs) BY KeptExists
<1>2. F(h)
  <2>1. h = [k \in 0..Len(evs) |-> h[k]] /\ \A k \in 0..Len(evs) : h[k] = KeptStep(h, evs, k)
    BY <1>1 DEF KeptUpTo
  <2> QED BY <2>1 DEF KeptStep
<1>3. F(g)
  <2> HIDE DEF F
  <2> QED BY <1>2
<1>4. WithoutVerdicts(evs) = g[Len(evs)] BY Zenon DEF WithoutVerdicts
<1> HIDE DEF g
<1>5. KeptUpTo(g, evs) BY <1>3 DEF KeptUpTo, KeptStep
<1> QED BY <1>4, <1>5

LEMMA KeptUnique ==
  ASSUME NEW s, IsSequence(s), NEW t, IsSequence(t), Len(s) <= Len(t), \A i \in 1..Len(s) : s[i] = t[i],
         NEW f, KeptUpTo(f, s), NEW g, KeptUpTo(g, t)
  PROVE  \A k \in 0..Len(s) : f[k] = g[k]
<1> DEFINE bad == { k \in 0..Len(s) : f[k] # g[k] }
<1>0. Len(s) \in Nat /\ Len(t) \in Nat BY DEF IsSequence
<1>1. SUFFICES ASSUME bad # {} PROVE FALSE OBVIOUS
<1>2. PICK k \in bad : \A j \in bad : k <= j
  <2> HIDE DEF bad
  <2>1. bad \subseteq Nat BY <1>0 DEF bad
  <2> QED BY <1>1, <2>1, LeastNumber
<1>3. k \in 0..Len(s) /\ f[k] # g[k] /\ \A j \in 0..Len(s) : j < k => f[j] = g[j] BY <1>2
<1>4. k \in 0..Len(t) BY <1>0, <1>3
<1>5. f[k] = KeptStep(f, s, k) /\ g[k] = KeptStep(g, t, k) BY <1>3, <1>4 DEF KeptUpTo
<1>6. k # 0 => k - 1 \in 0..Len(s) /\ k - 1 < k /\ k \in 1..Len(s) BY <1>0, <1>3
<1>7. k # 0 => f[k - 1] = g[k - 1] /\ s[k] = t[k] BY <1>3, <1>6
<1> QED BY <1>3, <1>5, <1>7 DEF KeptStep

LEMMA NothingKept == WithoutVerdicts(<<>>) = <<>>
<1>1. IsSequence(<<>>) /\ Len(<<>>) = 0 BY EmptySequence
<1>2. PICK f : KeptUpTo(f, <<>>) /\ WithoutVerdicts(<<>>) = f[0] BY <1>1, KeptIs
<1> QED BY <1>1, <1>2 DEF KeptUpTo, KeptStep

LEMMA KeptAppend ==
  ASSUME NEW evs, IsSequence(evs), NEW e
  PROVE  WithoutVerdicts(Append(evs, e)) =
           IF IsVerdict(e) THEN WithoutVerdicts(evs) ELSE Append(WithoutVerdicts(evs), e)
<1> DEFINE more == Append(evs, e)
           n == Len(evs)
<1>1. /\ IsSequence(more) /\ Len(more) = n + 1 /\ more[n + 1] = e
      /\ \A i \in 1..n : more[i] = evs[i]
  BY AppendSequence
<1> HIDE DEF more
<1>2. n \in Nat BY DEF IsSequence
<1>3. PICK f : KeptUpTo(f, evs) /\ WithoutVerdicts(evs) = f[n] BY KeptIs
<1>4. PICK g : KeptUpTo(g, more) /\ WithoutVerdicts(more) = g[n + 1] BY <1>1, KeptIs
<1>5. n <= Len(more) BY <1>1, <1>2
<1>6. n \in 0..n /\ n + 1 \in 0..Len(more) /\ n + 1 # 0 /\ n + 1 - 1 = n BY <1>1, <1>2
<1>7. f[n] = g[n] BY <1>1, <1>3, <1>4, <1>5, <1>6, KeptUnique
<1>8. g[n + 1] = KeptStep(g, more, n + 1) BY <1>4, <1>6 DEF KeptUpTo
<1>9. g[n + 1] = IF IsVerdict(e) THEN g[n] ELSE Append(g[n], e) BY <1>1, <1>6, <1>8 DEF KeptStep
<1> QED BY <1>3, <1>4, <1>7, <1>9 DEF more

LEMMA KeptSequence ==
  ASSUME NEW evs, IsSequence(evs)
  PROVE  IsSequence(WithoutVerdicts(evs))
<1>0. Len(evs) \in Nat BY DEF IsSequence
<1>1. PICK f : KeptUpTo(f, evs) /\ WithoutVerdicts(evs) = f[Len(evs)] BY KeptIs
<1> DEFINE bad == { k \in 0..Len(evs) : ~IsSequence(f[k]) }
<1>2. bad = {}
  <2>1. SUFFICES ASSUME bad # {} PROVE FALSE OBVIOUS
  <2>2. PICK k \in bad : \A j \in bad : k <= j
    <3> HIDE DEF bad
    <3>1. bad \subseteq Nat BY <1>0 DEF bad
    <3> QED BY <2>1, <3>1, LeastNumber
  <2>3. k \in 0..Len(evs) /\ ~IsSequence(f[k]) /\ \A j \in 0..Len(evs) : j < k => IsSequence(f[j])
    BY <2>2
  <2>4. f[k] = KeptStep(f, evs, k) BY <1>1, <2>3 DEF KeptUpTo
  <2>5. k # 0 => IsSequence(f[k - 1])
    <3>1. k # 0 => k - 1 \in 0..Len(evs) /\ k - 1 < k BY <1>0, <2>3
    <3> QED BY <2>3, <3>1
  <2> QED BY <2>3, <2>4, <2>5, EmptySequence, AppendSequence DEF KeptStep
<1>3. Len(evs) \in 0..Len(evs) BY <1>0
<1> QED BY <1>1, <1>2, <1>3

LEMMA KeptConcat ==
  ASSUME NEW evs, IsSequence(evs), NEW more, IsSequence(more), \A i \in 1..Len(more) : IsVerdict(more[i])
  PROVE  WithoutVerdicts(evs \o more) = WithoutVerdicts(evs)
<1> DEFINE all == evs \o more
           n == Len(evs)
           m == Len(more)
<1>1. n \in Nat /\ m \in Nat BY DEF IsSequence
<1>2. IsSequence(all) /\ Len(all) = n + m BY ConcatElements
<1>3. \A i \in 1..n : all[i] = evs[i] BY ConcatElements
<1>4. \A i \in (n + 1)..(n + m) : IsVerdict(all[i])
  <2>1. \A i \in (n + 1)..(n + m) : all[i] = more[i - n] BY ConcatElements
  <2>2. \A i \in (n + 1)..(n + m) : i - n \in 1..m BY <1>1
  <2> QED BY <2>1, <2>2
<1> HIDE DEF all
<1>5. PICK f : KeptUpTo(f, evs) /\ WithoutVerdicts(evs) = f[n] BY KeptIs
<1>6. PICK g : KeptUpTo(g, all) /\ WithoutVerdicts(all) = g[n + m] BY <1>2, KeptIs
<1>7. f[n] = g[n]
  <2>1. n <= Len(all) /\ n \in 0..n BY <1>1, <1>2
  <2> QED BY <1>2, <1>3, <1>5, <1>6, <2>1, KeptUnique
<1> DEFINE bad == { k \in n..(n + m) : g[k] # g[n] }
<1>8. bad = {}
  <2>1. SUFFICES ASSUME bad # {} PROVE FALSE OBVIOUS
  <2>2. PICK k \in bad : \A j \in bad : k <= j
    <3> HIDE DEF bad
    <3>1. bad \subseteq Nat BY <1>1 DEF bad
    <3> QED BY <2>1, <3>1, LeastNumber
  <2>3. k \in n..(n + m) /\ g[k] # g[n] /\ \A j \in n..(n + m) : j < k => g[j] = g[n] BY <2>2
  <2>4. k # n BY <2>3
  <2>5. k \in 0..(n + m) /\ k # 0 /\ k \in (n + 1)..(n + m) /\ k - 1 \in n..(n + m) /\ k - 1 < k
    BY <1>1, <2>3, <2>4
  <2>6. g[k] = KeptStep(g, all, k) BY <1>2, <1>6, <2>5 DEF KeptUpTo
  <2>7. g[k] = g[k - 1] BY <1>4, <2>5, <2>6 DEF KeptStep
  <2> QED BY <2>3, <2>5, <2>7
<1>9. n + m \in n..(n + m) BY <1>1
<1> QED BY <1>5, <1>6, <1>7, <1>8, <1>9 DEF all

(* Two events of the parser, one after the other.                          *)
LEMMA KeptPair ==
  ASSUME NEW evs, IsSequence(evs), NEW a, ~IsVerdict(a), NEW b, ~IsVerdict(b)
  PROVE  WithoutVerdicts(evs \o <<a, b>>) = WithoutVerdicts(evs) \o <<a, b>>
<1>1. ASSUME NEW s, IsSequence(s) PROVE s \o <<a, b>> = Append(Append(s, a), b)
  <2> DEFINE two == <<a, b>>
             one == Append(s, a)
  <2>1. IsSequence(two) /\ Len(two) = 2 /\ two[1] = a /\ two[2] = b BY PairSequence
  <2> HIDE DEF two
  <2>2. /\ IsSequence(s \o two) /\ Len(s \o two) = Len(s) + 2
        /\ \A i \in 1..Len(s) : (s \o two)[i] = s[i]
        /\ (s \o two)[Len(s) + 1] = two[1] /\ (s \o two)[Len(s) + 2] = two[2]
    BY <1>1, <2>1, PairAppended
  <2>3. /\ IsSequence(one) /\ Len(one) = Len(s) + 1 /\ one[Len(s) + 1] = a
        /\ \A i \in 1..Len(s) : one[i] = s[i]
    BY <1>1, AppendSequence
  <2> HIDE DEF one
  <2>4. /\ IsSequence(Append(one, b)) /\ Len(Append(one, b)) = Len(one) + 1
        /\ Append(one, b)[Len(one) + 1] = b
        /\ \A i \in 1..Len(one) : Append(one, b)[i] = one[i]
    BY <2>3, AppendSequence
  <2>5. Len(s) \in Nat BY <1>1 DEF IsSequence
  <2>6. ASSUME NEW i \in 1..Len(s \o two) PROVE (s \o two)[i] = Append(one, b)[i]
    <3>1. i \in 1..Len(s) \/ i = Len(s) + 1 \/ i = Len(s) + 2 BY <2>2, <2>5
    <3>2. i \in 1..Len(s) => i \in 1..Len(one) BY <2>3, <2>5
    <3>3. Len(s) + 1 \in 1..Len(one) /\ Len(s) + 2 = Len(one) + 1 BY <2>3, <2>5
    <3> QED BY <2>1, <2>2, <2>3, <2>4, <3>1, <3>2, <3>3
  <2>7. Len(s \o two) = Len(Append(one, b)) BY <2>2, <2>3, <2>4, <2>5
  <2>8. s \o two = Append(one, b) BY <2>2, <2>4, <2>6, <2>7, SameSequence
  <2> QED BY <2>8 DEF two, one
<1>2. IsSequence(Append(evs, a)) BY AppendSequence
<1>3. WithoutVerdicts(Append(Append(evs, a), b)) = Append(WithoutVerdicts(Append(evs, a)), b)
  BY <1>2, KeptAppend
<1>4. WithoutVerdicts(Append(evs, a)) = Append(WithoutVerdicts(evs), a) BY KeptAppend
<1>5. evs \o <<a, b>> = Append(Append(evs, a), b) BY <1>1
<1>6. WithoutVerdicts(evs) \o <<a, b>> = Append(Append(WithoutVerdicts(evs), a), b)
  BY <1>1, KeptSequence
<1> QED BY <1>3, <1>4, <1>5, <1>6

-----------------------------------------------------------------------------
(* The development about the parser comes in two copies, and so do its     *)
(* operators.  What they compute is the same.                              *)
LEMMA SameBytes ==
  /\ Parsed!Control = Control /\ Undisturbed!Control = Control
  /\ Parsed!Whitespace = Whitespace /\ Undisturbed!Whitespace = Whitespace
  /\ Parsed!Delimiter = Delimiter /\ Undisturbed!Delimiter = Delimiter
  /\ Parsed!DigitByte = DigitByte /\ Undisturbed!DigitByte = DigitByte
  /\ Parsed!ValueStart = ValueStart /\ Undisturbed!ValueStart = ValueStart
  /\ Parsed!Keywords = Keywords /\ Undisturbed!Keywords = Keywords
  /\ Parsed!ShortEscape = ShortEscape /\ Undisturbed!ShortEscape = ShortEscape
  /\ Parsed!HexDigit = HexDigit /\ Undisturbed!HexDigit = HexDigit
  /\ Parsed!Byte = Byte /\ Undisturbed!Byte = Byte
<1>1. Parsed!Control = Control /\ Undisturbed!Control = Control
  BY Zenon DEF Control, Parsed!Control, Undisturbed!Control
<1>2. Parsed!Whitespace = Whitespace /\ Undisturbed!Whitespace = Whitespace
  BY Zenon DEF Whitespace, Parsed!Whitespace, Undisturbed!Whitespace
<1>3. Parsed!Delimiter = Delimiter /\ Undisturbed!Delimiter = Delimiter
  BY Zenon DEF Delimiter, Parsed!Delimiter, Undisturbed!Delimiter, Whitespace,
    Parsed!Whitespace, Undisturbed!Whitespace
<1>4. Parsed!DigitByte = DigitByte /\ Undisturbed!DigitByte = DigitByte
  BY Zenon DEF DigitByte, Parsed!DigitByte, Undisturbed!DigitByte, NonZero, Parsed!NonZero,
    Undisturbed!NonZero
<1>5. Parsed!ValueStart = ValueStart /\ Undisturbed!ValueStart = ValueStart
  BY Zenon DEF ValueStart, Parsed!ValueStart, Undisturbed!ValueStart, DigitByte,
    Parsed!DigitByte, Undisturbed!DigitByte, NonZero, Parsed!NonZero, Undisturbed!NonZero
<1>6. Parsed!Keywords = Keywords /\ Undisturbed!Keywords = Keywords
  BY Zenon DEF Keywords, Parsed!Keywords, Undisturbed!Keywords
<1>7. Parsed!ShortEscape = ShortEscape /\ Undisturbed!ShortEscape = ShortEscape
  BY Zenon DEF ShortEscape, Parsed!ShortEscape, Undisturbed!ShortEscape
<1>8. Parsed!HexDigit = HexDigit /\ Undisturbed!HexDigit = HexDigit
  BY Zenon DEF HexDigit, Parsed!HexDigit, Undisturbed!HexDigit
<1>9. Parsed!Byte = Byte /\ Undisturbed!Byte = Byte
  BY Zenon DEF Byte, Parsed!Byte, Undisturbed!Byte, Control, Parsed!Control,
    Undisturbed!Control, Delimiter, Parsed!Delimiter, Undisturbed!Delimiter, DigitByte,
    Parsed!DigitByte, Undisturbed!DigitByte, NonZero, Parsed!NonZero, Undisturbed!NonZero,
    Whitespace, Parsed!Whitespace, Undisturbed!Whitespace
<1> QED BY <1>1, <1>2, <1>3, <1>4, <1>5, <1>6, <1>7, <1>8, <1>9, Zenon

LEMMA SameLexis ==
  /\ \A s : (Parsed!Terminable(s) <=> Terminable(s)) /\ (Undisturbed!Terminable(s) <=> Terminable(s))
  /\ \A b : Parsed!NumStart(b) = NumStart(b) /\ Undisturbed!NumStart(b) = NumStart(b)
  /\ \A s, b : Parsed!NumNext(s, b) = NumNext(s, b) /\ Undisturbed!NumNext(s, b) = NumNext(s, b)
  /\ \A b : Parsed!ValueKind(b) = ValueKind(b) /\ Undisturbed!ValueKind(b) = ValueKind(b)
  /\ \A t : (Parsed!StartsKeyword(t) <=> StartsKeyword(t)) /\ (Undisturbed!StartsKeyword(t) <=> StartsKeyword(t))
  /\ \A b : (Parsed!IsHex(b) <=> IsHex(b)) /\ (Undisturbed!IsHex(b) <=> IsHex(b))
  /\ \A b : Parsed!HexValue(b) = HexValue(b) /\ Undisturbed!HexValue(b) = HexValue(b)
  /\ \A c : (Parsed!IsHighSurrogate(c) <=> IsHighSurrogate(c)) /\ (Undisturbed!IsHighSurrogate(c) <=> IsHighSurrogate(c))
  /\ \A c : (Parsed!IsLowSurrogate(c) <=> IsLowSurrogate(c)) /\ (Undisturbed!IsLowSurrogate(c) <=> IsLowSurrogate(c))
  /\ \A h, c : Parsed!SurrogatePair(h, c) = SurrogatePair(h, c) /\ Undisturbed!SurrogatePair(h, c) = SurrogatePair(h, c)
  /\ \A c : Parsed!Utf8(c) = Utf8(c) /\ Undisturbed!Utf8(c) = Utf8(c)
  /\ \A s : (Parsed!Utf8Valid(s) <=> Utf8Valid(s)) /\ (Undisturbed!Utf8Valid(s) <=> Utf8Valid(s))
  /\ \A s : Parsed!StablePrefix(s) = StablePrefix(s) /\ Undisturbed!StablePrefix(s) = StablePrefix(s)
  /\ \A n : Parsed!Decimal(n) = Decimal(n) /\ Undisturbed!Decimal(n) = Decimal(n)
<1>1. \A s : (Parsed!Terminable(s) <=> Terminable(s)) /\ (Undisturbed!Terminable(s) <=> Terminable(s))
  BY Zenon DEF Terminable, Parsed!Terminable, Undisturbed!Terminable
<1>2. \A b : Parsed!NumStart(b) = NumStart(b) /\ Undisturbed!NumStart(b) = NumStart(b)
  BY Zenon DEF NumStart, Parsed!NumStart, Undisturbed!NumStart
<1>3. \A s, b : Parsed!NumNext(s, b) = NumNext(s, b) /\ Undisturbed!NumNext(s, b) = NumNext(s, b)
  BY Zenon DEF NumNext, Parsed!NumNext, Undisturbed!NumNext, NonZero, Parsed!NonZero,
    Undisturbed!NonZero, DigitByte, Parsed!DigitByte, Undisturbed!DigitByte
<1>4. \A b : Parsed!ValueKind(b) = ValueKind(b) /\ Undisturbed!ValueKind(b) = ValueKind(b)
  BY Zenon DEF ValueKind, Parsed!ValueKind, Undisturbed!ValueKind
<1>5. \A t : (Parsed!StartsKeyword(t) <=> StartsKeyword(t)) /\ (Undisturbed!StartsKeyword(t) <=> StartsKeyword(t))
  BY Zenon DEF StartsKeyword, Parsed!StartsKeyword, Undisturbed!StartsKeyword, Keywords,
    Parsed!Keywords, Undisturbed!Keywords
<1>6. \A b : (Parsed!IsHex(b) <=> IsHex(b)) /\ (Undisturbed!IsHex(b) <=> IsHex(b))
  BY Zenon DEF IsHex, Parsed!IsHex, Undisturbed!IsHex, HexDigit, Parsed!HexDigit,
    Undisturbed!HexDigit
<1>7. \A b : Parsed!HexValue(b) = HexValue(b) /\ Undisturbed!HexValue(b) = HexValue(b)
  BY Zenon DEF HexValue, Parsed!HexValue, Undisturbed!HexValue, HexDigit, Parsed!HexDigit,
    Undisturbed!HexDigit
<1>8. \A c : (Parsed!IsHighSurrogate(c) <=> IsHighSurrogate(c)) /\ (Undisturbed!IsHighSurrogate(c) <=> IsHighSurrogate(c))
  BY DEF IsHighSurrogate, Parsed!IsHighSurrogate, Undisturbed!IsHighSurrogate
<1>9. \A c : (Parsed!IsLowSurrogate(c) <=> IsLowSurrogate(c)) /\ (Undisturbed!IsLowSurrogate(c) <=> IsLowSurrogate(c))
  BY DEF IsLowSurrogate, Parsed!IsLowSurrogate, Undisturbed!IsLowSurrogate
<1>10. \A h, c : Parsed!SurrogatePair(h, c) = SurrogatePair(h, c) /\ Undisturbed!SurrogatePair(h, c) = SurrogatePair(h, c)
  BY DEF SurrogatePair, Parsed!SurrogatePair, Undisturbed!SurrogatePair
<1>11. \A c : Parsed!Utf8(c) = Utf8(c) /\ Undisturbed!Utf8(c) = Utf8(c)
  BY Zenon DEF Utf8, Parsed!Utf8, Undisturbed!Utf8
<1>12. \A s : (Parsed!Utf8Valid(s) <=> Utf8Valid(s)) /\ (Undisturbed!Utf8Valid(s) <=> Utf8Valid(s))
  BY Zenon DEF Utf8Valid, Parsed!Utf8Valid, Undisturbed!Utf8Valid
<1>13. \A s : Parsed!StablePrefix(s) = StablePrefix(s) /\ Undisturbed!StablePrefix(s) = StablePrefix(s)
  BY Zenon DEF StablePrefix, Parsed!StablePrefix, Undisturbed!StablePrefix, Utf8Valid,
    Parsed!Utf8Valid, Undisturbed!Utf8Valid
<1>14. \A n : Parsed!Decimal(n) = Decimal(n) /\ Undisturbed!Decimal(n) = Decimal(n)
  BY Zenon DEF Decimal, Parsed!Decimal, Undisturbed!Decimal, HexDigit, Parsed!HexDigit,
    Undisturbed!HexDigit
<1> QED BY <1>1, <1>2, <1>3, <1>4, <1>5, <1>6, <1>7, <1>8, <1>9, <1>10, <1>11, <1>12, <1>13, <1>14, Zenon

LEMMA SameTokens ==
  /\ Parsed!NoTok = NoTok /\ Undisturbed!NoTok = NoTok
  /\ \A d, k, s, h, n, a, p : Parsed!StrTok(d, k, s, h, n, a, p) = StrTok(d, k, s, h, n, a, p) /\ Undisturbed!StrTok(d, k, s, h, n, a, p) = StrTok(d, k, s, h, n, a, p)
  /\ \A t, s : Parsed!NumTok(t, s) = NumTok(t, s) /\ Undisturbed!NumTok(t, s) = NumTok(t, s)
  /\ \A k : Parsed!NewStr(k) = NewStr(k) /\ Undisturbed!NewStr(k) = NewStr(k)
  /\ \A t : Parsed!LitTok(t) = LitTok(t) /\ Undisturbed!LitTok(t) = LitTok(t)
<1>1. Parsed!NoTok = NoTok /\ Undisturbed!NoTok = NoTok
  <2>1. Parsed!NoTok = NoTok BY Zenon DEF NoTok, Parsed!NoTok
  <2>2. Undisturbed!NoTok = NoTok BY Zenon DEF NoTok, Undisturbed!NoTok
  <2> QED BY <2>1, <2>2, Zenon
<1>2. \A d, k, s, h, n, a, p : Parsed!StrTok(d, k, s, h, n, a, p) = StrTok(d, k, s, h, n, a, p) /\ Undisturbed!StrTok(d, k, s, h, n, a, p) = StrTok(d, k, s, h, n, a, p)
  BY DEF StrTok, Parsed!StrTok, Undisturbed!StrTok
<1>3. \A t, s : Parsed!NumTok(t, s) = NumTok(t, s) /\ Undisturbed!NumTok(t, s) = NumTok(t, s)
  BY Zenon DEF NumTok, Parsed!NumTok, Undisturbed!NumTok
<1>4. \A k : Parsed!NewStr(k) = NewStr(k) /\ Undisturbed!NewStr(k) = NewStr(k)
  BY Zenon DEF NewStr, Parsed!NewStr, Undisturbed!NewStr, StrTok, Parsed!StrTok,
    Undisturbed!StrTok
<1>5. \A t : Parsed!LitTok(t) = LitTok(t) /\ Undisturbed!LitTok(t) = LitTok(t)
  BY Zenon DEF LitTok, Parsed!LitTok, Undisturbed!LitTok
<1> QED BY <1>1, <1>2, <1>3, <1>4, <1>5

LEMMA SameShapes ==
  /\ \A s : Parsed!Last(s) = Last(s) /\ Undisturbed!Last(s) = Last(s)
  /\ \A s : Parsed!Front(s) = Front(s) /\ Undisturbed!Front(s) = Front(s)
  /\ \A k : Parsed!Frame(k) = Frame(k) /\ Undisturbed!Frame(k) = Frame(k)
  /\ \A f : Parsed!Container(f) = Container(f) /\ Undisturbed!Container(f) = Container(f)
  /\ \A f : Parsed!SlotToken(f) = SlotToken(f) /\ Undisturbed!SlotToken(f) = SlotToken(f)
  /\ \A f, v : Parsed!Filed(f, v) = Filed(f, v) /\ Undisturbed!Filed(f, v) = Filed(f, v)
  /\ \A st, p : Parsed!Slot(st, p) = Slot(st, p) /\ Undisturbed!Slot(st, p) = Slot(st, p)
  /\ \A e, st : (Parsed!Closable(e, st) <=> Closable(e, st)) /\ (Undisturbed!Closable(e, st) <=> Closable(e, st))
  /\ \A t, d : Parsed!Scalar(t, d) = Scalar(t, d) /\ Undisturbed!Scalar(t, d) = Scalar(t, d)
  /\ \A p, k : Parsed!Started(p, k) = Started(p, k) /\ Undisturbed!Started(p, k) = Started(p, k)
  /\ \A p, t : Parsed!Progressed(p, t) = Progressed(p, t) /\ Undisturbed!Progressed(p, t) = Progressed(p, t)
  /\ \A p, v : Parsed!Completed(p, v) = Completed(p, v) /\ Undisturbed!Completed(p, v) = Completed(p, v)
  /\ Parsed!DocumentCompleted = DocumentCompleted /\ Undisturbed!DocumentCompleted = DocumentCompleted
<1>1. \A s : Parsed!Last(s) = Last(s) /\ Undisturbed!Last(s) = Last(s)
  BY Zenon DEF Last, Parsed!Last, Undisturbed!Last
<1>2. \A s : Parsed!Front(s) = Front(s) /\ Undisturbed!Front(s) = Front(s)
  BY Zenon DEF Front, Parsed!Front, Undisturbed!Front
<1>3. \A k : Parsed!Frame(k) = Frame(k) /\ Undisturbed!Frame(k) = Frame(k)
  BY Zenon DEF Frame, Parsed!Frame, Undisturbed!Frame
<1>4. \A f : Parsed!Container(f) = Container(f) /\ Undisturbed!Container(f) = Container(f)
  BY Zenon DEF Container, Parsed!Container, Undisturbed!Container
<1>5. \A f : Parsed!SlotToken(f) = SlotToken(f) /\ Undisturbed!SlotToken(f) = SlotToken(f)
  BY Zenon DEF SlotToken, Parsed!SlotToken, Undisturbed!SlotToken, Decimal, Parsed!Decimal,
    Undisturbed!Decimal, HexDigit, Parsed!HexDigit, Undisturbed!HexDigit
<1>6. \A f, v : Parsed!Filed(f, v) = Filed(f, v) /\ Undisturbed!Filed(f, v) = Filed(f, v)
  BY Zenon DEF Filed, Parsed!Filed, Undisturbed!Filed, SlotToken, Parsed!SlotToken,
    Undisturbed!SlotToken, Decimal, Parsed!Decimal, Undisturbed!Decimal, HexDigit, Parsed!HexDigit,
    Undisturbed!HexDigit
<1>7. \A st, p : Parsed!Slot(st, p) = Slot(st, p) /\ Undisturbed!Slot(st, p) = Slot(st, p)
  BY Zenon DEF Slot, Parsed!Slot, Undisturbed!Slot, Last, Parsed!Last, Undisturbed!Last,
    SlotToken, Parsed!SlotToken, Undisturbed!SlotToken, Decimal, Parsed!Decimal,
    Undisturbed!Decimal, HexDigit, Parsed!HexDigit, Undisturbed!HexDigit
<1>8. \A e, st : (Parsed!Closable(e, st) <=> Closable(e, st)) /\ (Undisturbed!Closable(e, st) <=> Closable(e, st))
  BY Zenon DEF Closable, Parsed!Closable, Undisturbed!Closable, Last, Parsed!Last,
    Undisturbed!Last
<1>9. \A t, d : Parsed!Scalar(t, d) = Scalar(t, d) /\ Undisturbed!Scalar(t, d) = Scalar(t, d)
  BY Zenon DEF Scalar, Parsed!Scalar, Undisturbed!Scalar
<1>10. \A p, k : Parsed!Started(p, k) = Started(p, k) /\ Undisturbed!Started(p, k) = Started(p, k)
  BY Zenon DEF Started, Parsed!Started, Undisturbed!Started
<1>11. \A p, t : Parsed!Progressed(p, t) = Progressed(p, t) /\ Undisturbed!Progressed(p, t) = Progressed(p, t)
  BY Zenon DEF Progressed, Parsed!Progressed, Undisturbed!Progressed
<1>12. \A p, v : Parsed!Completed(p, v) = Completed(p, v) /\ Undisturbed!Completed(p, v) = Completed(p, v)
  BY Zenon DEF Completed, Parsed!Completed, Undisturbed!Completed
<1>13. Parsed!DocumentCompleted = DocumentCompleted /\ Undisturbed!DocumentCompleted = DocumentCompleted
  BY Zenon DEF DocumentCompleted, Parsed!DocumentCompleted, Undisturbed!DocumentCompleted
<1> QED BY <1>1, <1>2, <1>3, <1>4, <1>5, <1>6, <1>7, <1>8, <1>9, <1>10, <1>11, <1>12, <1>13, Zenon

-----------------------------------------------------------------------------
(* A step of the parser under a schema is one of the parser alone, for     *)
(* both copies.  The log moves as the parse events do.                     *)
LogFollows ==
  /\ UNCHANGED events => UNCHANGED ParseEvents
  /\ \A path, kind : events' = Append(events, Started(path, kind)) =>
       ParseEvents' = Append(ParseEvents, Started(path, kind))
  /\ \A path, v : events' = Append(events, Completed(path, v)) =>
       ParseEvents' = Append(ParseEvents, Completed(path, v))
  /\ \A path, v : events' = events \o <<Completed(path, v), DocumentCompleted>> =>
       ParseEvents' = ParseEvents \o <<Completed(path, v), DocumentCompleted>>

LEMMA LogDoesFollow ==
  ASSUME IsSequence(events)
  PROVE  LogFollows
<1>1. \A path, kind : ~IsVerdict(Started(path, kind)) BY DEF IsVerdict, Started
<1>2. \A path, v : ~IsVerdict(Completed(path, v)) BY DEF IsVerdict, Completed
<1>3. ~IsVerdict(DocumentCompleted) BY DEF IsVerdict, DocumentCompleted
<1>4. UNCHANGED events => UNCHANGED ParseEvents BY DEF ParseEvents
<1>5. ASSUME NEW e, ~IsVerdict(e), events' = Append(events, e) PROVE ParseEvents' = Append(ParseEvents, e)
  BY <1>5, KeptAppend DEF ParseEvents
<1>6. ASSUME NEW e, ~IsVerdict(e), events' = events \o <<e, DocumentCompleted>>
      PROVE  ParseEvents' = ParseEvents \o <<e, DocumentCompleted>>
  BY <1>3, <1>6, KeptPair DEF ParseEvents
<1> QED BY <1>1, <1>2, <1>4, <1>5, <1>6 DEF LogFollows

LEMMA SameConsumed ==
  ASSUME LogFollows, Consumed
  PROVE  Parsed!Consumed /\ Undisturbed!Consumed
BY SameTokens, SameShapes DEF Consumed, Parsed!Consumed, Undisturbed!Consumed, LogFollows

LEMMA SameFail ==
  ASSUME NEW kind, LogFollows, Fail(kind)
  PROVE  Parsed!Fail(kind) /\ Undisturbed!Fail(kind)
BY DEF Fail, Parsed!Fail, Undisturbed!Fail, LogFollows

LEMMA SameReject ==
  ASSUME NEW kind, LogFollows, Reject(kind)
  PROVE  Parsed!Reject(kind) /\ Undisturbed!Reject(kind)
BY SameFail DEF Reject, Parsed!Reject, Undisturbed!Reject, tree, Parsed!tree,
  Undisturbed!tree, log, Parsed!log, Undisturbed!log, LogFollows

LEMMA SameAttach ==
  ASSUME NEW st, NEW prefix, NEW v, LogFollows, Attach(st, prefix, v)
  PROVE  Parsed!Attach(st, prefix, v) /\ Undisturbed!Attach(st, prefix, v)
BY SameShapes DEF Attach, Parsed!Attach, Undisturbed!Attach, LogFollows

LEMMA SameAnnounce ==
  ASSUME NEW b, LogFollows, Announce(b)
  PROVE  Parsed!Announce(b) /\ Undisturbed!Announce(b)
BY SameShapes, SameLexis DEF Announce, Parsed!Announce, Undisturbed!Announce, LogFollows

LEMMA SameEscape ==
  ASSUME NEW state, NEW hi, NEW n, NEW acc, LogFollows, Escape(state, hi, n, acc)
  PROVE  Parsed!Escape(state, hi, n, acc) /\ Undisturbed!Escape(state, hi, n, acc)
BY SameTokens, SameConsumed DEF Escape, Parsed!Escape, Undisturbed!Escape, tree,
  Parsed!tree, Undisturbed!tree, log, Parsed!log, Undisturbed!log, LogFollows

LEMMA SameDecode ==
  ASSUME NEW bytes, LogFollows, Decode(bytes)
  PROVE  Parsed!Decode(bytes) /\ Undisturbed!Decode(bytes)
BY SameTokens, SameConsumed DEF Decode, Parsed!Decode, Undisturbed!Decode, tree,
  Parsed!tree, Undisturbed!tree, log, Parsed!log, Undisturbed!log, LogFollows

LEMMA SameCloseNumber ==
  ASSUME LogFollows, CloseNumber
  PROVE  Parsed!CloseNumber /\ Undisturbed!CloseNumber
BY SameTokens, SameShapes, SameAttach DEF CloseNumber, Parsed!CloseNumber,
  Undisturbed!CloseNumber, LogFollows

LEMMA SameStringByte ==
  ASSUME NEW b, LogFollows, StringByte(b)
  PROVE  Parsed!StringByte(b) /\ Undisturbed!StringByte(b)
<1>1. ASSUME OrdinaryByte(b) PROVE Parsed!OrdinaryByte(b) /\ Undisturbed!OrdinaryByte(b)
  BY <1>1, SameBytes, SameDecode DEF OrdinaryByte, Parsed!OrdinaryByte,
    Undisturbed!OrdinaryByte, InString, Parsed!InString, Undisturbed!InString
<1>2. ASSUME ControlByte(b) PROVE Parsed!ControlByte(b) /\ Undisturbed!ControlByte(b)
  BY <1>2, SameBytes, SameReject DEF ControlByte, Parsed!ControlByte,
    Undisturbed!ControlByte, InString, Parsed!InString, Undisturbed!InString
<1>3. ASSUME BeginEscape(b) PROVE Parsed!BeginEscape(b) /\ Undisturbed!BeginEscape(b)
  BY <1>3, SameEscape DEF BeginEscape, Parsed!BeginEscape, Undisturbed!BeginEscape,
    InString, Parsed!InString, Undisturbed!InString
<1>4. ASSUME CloseKey(b) PROVE Parsed!CloseKey(b) /\ Undisturbed!CloseKey(b)
  BY <1>4, SameLexis, SameTokens, SameShapes, SameConsumed DEF CloseKey, Parsed!CloseKey,
    Undisturbed!CloseKey, InString, Parsed!InString, Undisturbed!InString, log, Parsed!log,
    Undisturbed!log, LogFollows
<1>5. ASSUME CloseString(b) PROVE Parsed!CloseString(b) /\ Undisturbed!CloseString(b)
  BY <1>5, SameLexis, SameTokens, SameShapes, SameAttach, SameConsumed DEF CloseString,
    Parsed!CloseString, Undisturbed!CloseString, InString, Parsed!InString,
    Undisturbed!InString
<1>6. ASSUME CloseInvalid(b) PROVE Parsed!CloseInvalid(b) /\ Undisturbed!CloseInvalid(b)
  BY <1>6, SameLexis, SameTokens, SameShapes, SameFail DEF CloseInvalid,
    Parsed!CloseInvalid, Undisturbed!CloseInvalid, InString, Parsed!InString,
    Undisturbed!InString, tree, Parsed!tree, Undisturbed!tree, log, Parsed!log,
    Undisturbed!log, LogFollows
<1>7. ASSUME ShortEscapeByte(b) PROVE Parsed!ShortEscapeByte(b) /\ Undisturbed!ShortEscapeByte(b)
  BY <1>7, SameBytes, SameDecode DEF ShortEscapeByte, Parsed!ShortEscapeByte,
    Undisturbed!ShortEscapeByte, InString, Parsed!InString, Undisturbed!InString
<1>8. ASSUME BeginUnicode(b) PROVE Parsed!BeginUnicode(b) /\ Undisturbed!BeginUnicode(b)
  BY <1>8, SameEscape DEF BeginUnicode, Parsed!BeginUnicode, Undisturbed!BeginUnicode,
    InString, Parsed!InString, Undisturbed!InString
<1>9. ASSUME BadEscape(b) PROVE Parsed!BadEscape(b) /\ Undisturbed!BadEscape(b)
  BY <1>9, SameBytes, SameReject DEF BadEscape, Parsed!BadEscape, Undisturbed!BadEscape,
    InString, Parsed!InString, Undisturbed!InString
<1>10. ASSUME HexByte(b) PROVE Parsed!HexByte(b) /\ Undisturbed!HexByte(b)
  BY <1>10, SameLexis, SameEscape DEF HexByte, Parsed!HexByte, Undisturbed!HexByte, InHex,
    Parsed!InHex, Undisturbed!InHex, InString, Parsed!InString, Undisturbed!InString
<1>11. ASSUME NotHex(b) PROVE Parsed!NotHex(b) /\ Undisturbed!NotHex(b)
  BY <1>11, SameLexis, SameReject DEF NotHex, Parsed!NotHex, Undisturbed!NotHex, InHex,
    Parsed!InHex, Undisturbed!InHex, InString, Parsed!InString, Undisturbed!InString
<1>12. ASSUME CodePoint(b) PROVE Parsed!CodePoint(b) /\ Undisturbed!CodePoint(b)
  BY <1>12, SameLexis, SameDecode DEF CodePoint, Parsed!CodePoint, Undisturbed!CodePoint,
    InString, Parsed!InString, Undisturbed!InString, LastHex, Parsed!LastHex,
    Undisturbed!LastHex, Unit, Parsed!Unit, Undisturbed!Unit
<1>13. ASSUME HighSurrogate(b) PROVE Parsed!HighSurrogate(b) /\ Undisturbed!HighSurrogate(b)
  BY <1>13, SameLexis, SameEscape DEF HighSurrogate, Parsed!HighSurrogate,
    Undisturbed!HighSurrogate, InString, Parsed!InString, Undisturbed!InString, LastHex,
    Parsed!LastHex, Undisturbed!LastHex, Unit, Parsed!Unit, Undisturbed!Unit
<1>14. ASSUME LoneLowSurrogate(b) PROVE Parsed!LoneLowSurrogate(b) /\ Undisturbed!LoneLowSurrogate(b)
  BY <1>14, SameLexis, SameReject DEF LoneLowSurrogate, Parsed!LoneLowSurrogate,
    Undisturbed!LoneLowSurrogate, InString, Parsed!InString, Undisturbed!InString, LastHex,
    Parsed!LastHex, Undisturbed!LastHex, Unit, Parsed!Unit, Undisturbed!Unit
<1>15. ASSUME SurrogateBackslash(b) PROVE Parsed!SurrogateBackslash(b) /\ Undisturbed!SurrogateBackslash(b)
  BY <1>15, SameEscape DEF SurrogateBackslash, Parsed!SurrogateBackslash,
    Undisturbed!SurrogateBackslash, InString, Parsed!InString, Undisturbed!InString
<1>16. ASSUME SurrogateU(b) PROVE Parsed!SurrogateU(b) /\ Undisturbed!SurrogateU(b)
  BY <1>16, SameEscape DEF SurrogateU, Parsed!SurrogateU, Undisturbed!SurrogateU, InString,
    Parsed!InString, Undisturbed!InString
<1>17. ASSUME LowSurrogate(b) PROVE Parsed!LowSurrogate(b) /\ Undisturbed!LowSurrogate(b)
  BY <1>17, SameLexis, SameDecode DEF LowSurrogate, Parsed!LowSurrogate,
    Undisturbed!LowSurrogate, InString, Parsed!InString, Undisturbed!InString, LastHex,
    Parsed!LastHex, Undisturbed!LastHex, Unit, Parsed!Unit, Undisturbed!Unit
<1>18. ASSUME MissingLowSurrogate(b) PROVE Parsed!MissingLowSurrogate(b) /\ Undisturbed!MissingLowSurrogate(b)
  BY <1>18, SameLexis, SameReject DEF MissingLowSurrogate, Parsed!MissingLowSurrogate,
    Undisturbed!MissingLowSurrogate, InString, Parsed!InString, Undisturbed!InString,
    LastHex, Parsed!LastHex, Undisturbed!LastHex, Unit, Parsed!Unit, Undisturbed!Unit
<1> QED BY <1>1, <1>2, <1>3, <1>4, <1>5, <1>6, <1>7, <1>8, <1>9, <1>10, <1>11, <1>12, <1>13,
  <1>14, <1>15, <1>16, <1>17, <1>18, Zenon DEF StringByte, Parsed!StringByte,
  Undisturbed!StringByte

LEMMA SameNumberByte ==
  ASSUME NEW b, LogFollows, NumberByte(b)
  PROVE  Parsed!NumberByte(b) /\ Undisturbed!NumberByte(b)
<1>1. ASSUME NumberGrows(b) PROVE Parsed!NumberGrows(b) /\ Undisturbed!NumberGrows(b)
  BY <1>1, SameLexis, SameTokens, SameShapes, SameConsumed DEF NumberGrows,
    Parsed!NumberGrows, Undisturbed!NumberGrows, Continues, Parsed!Continues,
    Undisturbed!Continues, tree, Parsed!tree, Undisturbed!tree, log, Parsed!log,
    Undisturbed!log, LogFollows
<1>2. ASSUME ExponentRefused(b) PROVE Parsed!ExponentRefused(b) /\ Undisturbed!ExponentRefused(b)
  BY <1>2, SameLexis, SameReject DEF ExponentRefused, Parsed!ExponentRefused,
    Undisturbed!ExponentRefused, Continues, Parsed!Continues, Undisturbed!Continues
<1>3. ASSUME NumberDelimited(b) PROVE Parsed!NumberDelimited(b) /\ Undisturbed!NumberDelimited(b)
  BY <1>3, SameLexis, SameBytes, SameCloseNumber DEF NumberDelimited,
    Parsed!NumberDelimited, Undisturbed!NumberDelimited, Stops, Parsed!Stops,
    Undisturbed!Stops, Ends, Parsed!Ends, Undisturbed!Ends
<1>4. ASSUME NumberMalformed(b) PROVE Parsed!NumberMalformed(b) /\ Undisturbed!NumberMalformed(b)
  BY <1>4, SameLexis, SameBytes, SameReject DEF NumberMalformed, Parsed!NumberMalformed,
    Undisturbed!NumberMalformed, Stops, Parsed!Stops, Undisturbed!Stops, Ends, Parsed!Ends,
    Undisturbed!Ends
<1> QED BY <1>1, <1>2, <1>3, <1>4, Zenon DEF NumberByte, Parsed!NumberByte,
  Undisturbed!NumberByte

LEMMA SameLiteralByte ==
  ASSUME NEW b, LogFollows, LiteralByte(b)
  PROVE  Parsed!LiteralByte(b) /\ Undisturbed!LiteralByte(b)
<1>1. ASSUME LiteralGrows(b) PROVE Parsed!LiteralGrows(b) /\ Undisturbed!LiteralGrows(b)
  BY <1>1, SameLexis, SameBytes, SameTokens, SameShapes, SameConsumed DEF LiteralGrows,
    Parsed!LiteralGrows, Undisturbed!LiteralGrows, Spelling, Parsed!Spelling,
    Undisturbed!Spelling, tree, Parsed!tree, Undisturbed!tree, log, Parsed!log,
    Undisturbed!log, LogFollows
<1>2. ASSUME LiteralDone(b) PROVE Parsed!LiteralDone(b) /\ Undisturbed!LiteralDone(b)
  BY <1>2, SameLexis, SameBytes, SameTokens, SameShapes, SameAttach, SameConsumed DEF
    LiteralDone, Parsed!LiteralDone, Undisturbed!LiteralDone, Spelling, Parsed!Spelling,
    Undisturbed!Spelling
<1>3. ASSUME LiteralMalformed(b) PROVE Parsed!LiteralMalformed(b) /\ Undisturbed!LiteralMalformed(b)
  BY <1>3, SameLexis, SameReject DEF LiteralMalformed, Parsed!LiteralMalformed,
    Undisturbed!LiteralMalformed, Spelling, Parsed!Spelling, Undisturbed!Spelling
<1> QED BY <1>1, <1>2, <1>3, Zenon DEF LiteralByte, Parsed!LiteralByte,
  Undisturbed!LiteralByte

LEMMA SameStructuralByte ==
  ASSUME NEW b, LogFollows, StructuralByte(b)
  PROVE  Parsed!StructuralByte(b) /\ Undisturbed!StructuralByte(b)
<1>1. ASSUME SkipSpace(b) PROVE Parsed!SkipSpace(b) /\ Undisturbed!SkipSpace(b)
  BY <1>1, SameBytes, SameConsumed DEF SkipSpace, Parsed!SkipSpace, Undisturbed!SkipSpace,
    tree, Parsed!tree, Undisturbed!tree, log, Parsed!log, Undisturbed!log, LogFollows
<1>2. ASSUME BeginScalar(b) PROVE Parsed!BeginScalar(b) /\ Undisturbed!BeginScalar(b)
  BY <1>2, SameBytes, SameLexis, SameTokens, SameShapes, SameAnnounce, SameConsumed DEF
    BeginScalar, Parsed!BeginScalar, Undisturbed!BeginScalar, At, Parsed!At, Undisturbed!At,
    tree, Parsed!tree, Undisturbed!tree
<1>3. ASSUME BeginContainer(b) PROVE Parsed!BeginContainer(b) /\ Undisturbed!BeginContainer(b)
  BY <1>3, SameLexis, SameShapes, SameAnnounce, SameConsumed DEF BeginContainer,
    Parsed!BeginContainer, Undisturbed!BeginContainer, At, Parsed!At, Undisturbed!At
<1>4. ASSUME TooDeep(b) PROVE Parsed!TooDeep(b) /\ Undisturbed!TooDeep(b)
  BY <1>4, SameAnnounce, SameFail DEF TooDeep, Parsed!TooDeep, Undisturbed!TooDeep, At,
    Parsed!At, Undisturbed!At, tree, Parsed!tree, Undisturbed!tree
<1>5. ASSUME BeginKey(b) PROVE Parsed!BeginKey(b) /\ Undisturbed!BeginKey(b)
  BY <1>5, SameTokens, SameShapes, SameConsumed DEF BeginKey, Parsed!BeginKey,
    Undisturbed!BeginKey, At, Parsed!At, Undisturbed!At, tree, Parsed!tree,
    Undisturbed!tree, log, Parsed!log, Undisturbed!log, LogFollows
<1>6. ASSUME Colon(b) PROVE Parsed!Colon(b) /\ Undisturbed!Colon(b)
  BY <1>6, SameConsumed DEF Colon, Parsed!Colon, Undisturbed!Colon, At, Parsed!At,
    Undisturbed!At, log, Parsed!log, Undisturbed!log, LogFollows
<1>7. ASSUME Comma(b) PROVE Parsed!Comma(b) /\ Undisturbed!Comma(b)
  BY <1>7, SameShapes, SameConsumed DEF Comma, Parsed!Comma, Undisturbed!Comma, At,
    Parsed!At, Undisturbed!At, log, Parsed!log, Undisturbed!log, LogFollows
<1>8. ASSUME CloseContainer(b) PROVE Parsed!CloseContainer(b) /\ Undisturbed!CloseContainer(b)
  BY <1>8, SameShapes, SameAttach, SameConsumed DEF CloseContainer, Parsed!CloseContainer,
    Undisturbed!CloseContainer, Closing, Parsed!Closing, Undisturbed!Closing, Closes,
    Parsed!Closes, Undisturbed!Closes, Truncated, Parsed!Truncated, Undisturbed!Truncated
<1>9. ASSUME MismatchedClose(b) PROVE Parsed!MismatchedClose(b) /\ Undisturbed!MismatchedClose(b)
  BY <1>9, SameShapes, SameFail DEF MismatchedClose, Parsed!MismatchedClose,
    Undisturbed!MismatchedClose, Closing, Parsed!Closing, Undisturbed!Closing, Closes,
    Parsed!Closes, Undisturbed!Closes, Truncated, Parsed!Truncated, Undisturbed!Truncated,
    log, Parsed!log, Undisturbed!log, LogFollows
<1>10. ASSUME Unexpected(b) PROVE Parsed!Unexpected(b) /\ Undisturbed!Unexpected(b)
  BY <1>10, SameBytes, SameShapes, SameReject DEF Unexpected, Parsed!Unexpected,
    Undisturbed!Unexpected, At, Parsed!At, Undisturbed!At, Closing, Parsed!Closing,
    Undisturbed!Closing
<1>11. ASSUME TrailingContent(b) PROVE Parsed!TrailingContent(b) /\ Undisturbed!TrailingContent(b)
  BY <1>11, SameBytes, SameReject DEF TrailingContent, Parsed!TrailingContent,
    Undisturbed!TrailingContent, At, Parsed!At, Undisturbed!At
<1> QED BY <1>1, <1>2, <1>3, <1>4, <1>5, <1>6, <1>7, <1>8, <1>9, <1>10, <1>11, Zenon DEF
  StructuralByte, Parsed!StructuralByte, Undisturbed!StructuralByte

-----------------------------------------------------------------------------
(* The paths a push judges: each that an undrained event names, and those  *)
(* above it, once.                                                         *)

SeenStep(f, paths, k) == IF k = 0 THEN <<>> ELSE AddNew(f[k - 1], paths[k])

SeenUpTo(f, paths) ==
  f = [k \in 0..Len(paths) |-> f[k]] /\ \A k \in 0..Len(paths) : f[k] = SeenStep(f, paths, k)

LEMMA SeenExists ==
  ASSUME NEW paths, IsSequence(paths)
  PROVE  \E f : SeenUpTo(f, paths)
<1> DEFINE Good(f, n) == \A k \in 0..n : f[k] = SeenStep(f, paths, k)
           bad == { n \in 0..Len(paths) : ~\E f : Good(f, n) }
<1>0. Len(paths) \in Nat BY DEF IsSequence
<1>1. bad = {}
  <2>1. SUFFICES ASSUME bad # {} PROVE FALSE OBVIOUS
  <2>2. PICK n \in bad : \A m \in bad : n <= m
    <3> HIDE DEF bad
    <3>1. bad \subseteq Nat BY <1>0 DEF bad
    <3> QED BY <2>1, <3>1, LeastNumber
  <2>3. n \in 0..Len(paths) /\ \A m \in 0..Len(paths) : m < n => \E f : Good(f, m) BY <2>2
  <2>4. \E f : Good(f, n)
    <3>1. CASE n = 0
      <4>1. Good([k \in 0..0 |-> <<>>], 0) BY DEF SeenStep
      <4> QED BY <3>1, <4>1
    <3>2. CASE n # 0
      <4>1. n - 1 \in 0..Len(paths) /\ n - 1 < n BY <1>0, <2>3, <3>2
      <4>2. PICK f : Good(f, n - 1) BY <2>3, <4>1
      <4> DEFINE g == [k \in 0..n |-> IF k = n THEN SeenStep(f, paths, n) ELSE f[k]]
      <4>3. \A k \in 0..n : k # n => k \in 0..(n - 1) /\ g[k] = f[k] BY <2>3
      <4>4. ASSUME NEW k \in 0..n PROVE SeenStep(g, paths, k) = SeenStep(f, paths, k)
        <5>1. k # 0 => k - 1 \in 0..n /\ k - 1 # n BY <2>3
        <5>2. k # 0 => g[k - 1] = f[k - 1] BY <4>3, <5>1
        <5> HIDE DEF g
        <5> QED BY <5>2 DEF SeenStep
      <4>5. Good(g, n)
        <5> SUFFICES ASSUME NEW k \in 0..n PROVE g[k] = SeenStep(f, paths, k) BY <4>4
        <5>1. CASE k = n BY <5>1
        <5>2. CASE k # n BY <4>2, <4>3, <5>2
        <5> QED BY <5>1, <5>2
      <4> HIDE DEF g, Good
      <4> QED BY <4>5
    <3> QED BY <3>1, <3>2
  <2> QED BY <2>2, <2>4
<1>2. PICK f : Good(f, Len(paths))
  <2>1. Len(paths) \in 0..Len(paths) BY <1>0
  <2> QED BY <1>1, <2>1
<1> DEFINE g == [k \in 0..Len(paths) |-> f[k]]
<1>3. ASSUME NEW k \in 0..Len(paths) PROVE g[k] = SeenStep(g, paths, k)
  <2>1. k # 0 => k - 1 \in 0..Len(paths) BY <1>0
  <2>2. g[k] = f[k] /\ (k # 0 => g[k - 1] = f[k - 1]) BY <2>1
  <2> HIDE DEF g
  <2> QED BY <1>2, <2>2 DEF SeenStep
<1>4. g = [k \in 0..Len(paths) |-> g[k]] OBVIOUS
<1> HIDE DEF g
<1> QED BY <1>3, <1>4 DEF SeenUpTo

LEMMA SeenIs ==
  ASSUME NEW paths, IsSequence(paths)
  PROVE  \E f : SeenUpTo(f, paths) /\ FirstMet(paths) = f[Len(paths)]
<1> DEFINE F(f) == f = [i \in 0..Len(paths) |-> IF i = 0 THEN <<>> ELSE AddNew(f[i - 1], paths[i])]
           g == CHOOSE f : F(f)
<1>0. Len(paths) \in Nat BY DEF IsSequence
<1>1. PICK h : SeenUpTo(h, paths) BY SeenExists
<1>2. F(h)
  <2>1. h = [k \in 0..Len(paths) |-> h[k]] /\ \A k \in 0..Len(paths) : h[k] = SeenStep(h, paths, k)
    BY <1>1 DEF SeenUpTo
  <2> QED BY <2>1 DEF SeenStep
<1>3. F(g)
  <2> HIDE DEF F
  <2> QED BY <1>2
<1>4. FirstMet(paths) = g[Len(paths)] BY Zenon DEF FirstMet
<1> HIDE DEF g
<1>5. SeenUpTo(g, paths) BY <1>3 DEF SeenUpTo, SeenStep
<1> QED BY <1>4, <1>5

Distinct(s) == \A i, j \in 1..Len(s) : s[i] = s[j] => i = j

LEMMA AddedNew ==
  ASSUME NEW s, IsSequence(s), Distinct(s), NEW e
  PROVE  /\ IsSequence(AddNew(s, e)) /\ Distinct(AddNew(s, e))
         /\ Elements(AddNew(s, e)) = Elements(s) \cup {e}
<1>0. Len(s) \in Nat /\ DOMAIN s = 1..Len(s) BY DEF IsSequence
<1>1. CASE \E i \in DOMAIN s : s[i] = e
  <2>1. AddNew(s, e) = s BY <1>1 DEF AddNew
  <2>2. e \in Elements(s) BY <1>0, <1>1 DEF Elements
  <2> QED BY <2>1, <2>2
<1>2. CASE ~\E i \in DOMAIN s : s[i] = e
  <2> DEFINE t == Append(s, e)
  <2>1. AddNew(s, e) = t BY <1>2 DEF AddNew
  <2>2. /\ IsSequence(t) /\ Len(t) = Len(s) + 1 /\ \A i \in 1..Len(s) : t[i] = s[i]
        /\ t[Len(s) + 1] = e
    BY AppendSequence
  <2> HIDE DEF t
  <2>3. \A i \in 1..Len(t) : i \in 1..Len(s) \/ i = Len(s) + 1 BY <1>0, <2>2
  <2>4. \A i \in 1..Len(s) : s[i] # e BY <1>0, <1>2
  <2>5. Distinct(t)
    <3> SUFFICES ASSUME NEW i \in 1..Len(t), NEW j \in 1..Len(t), t[i] = t[j] PROVE i = j BY DEF Distinct
    <3> QED BY <2>2, <2>3, <2>4 DEF Distinct
  <2>6. Elements(t) = Elements(s) \cup {e}
    <3>1. ASSUME NEW x \in Elements(t) PROVE x \in Elements(s) \cup {e} BY <2>2, <2>3 DEF Elements
    <3>2. ASSUME NEW x \in Elements(s) PROVE x \in Elements(t)
      <4>1. PICK i \in 1..Len(s) : x = s[i] BY DEF Elements
      <4>2. i \in 1..Len(t) /\ t[i] = x BY <1>0, <2>2, <4>1
      <4> QED BY <4>2 DEF Elements
    <3>3. e \in Elements(t)
      <4>1. Len(s) + 1 \in 1..Len(t) BY <1>0, <2>2
      <4> QED BY <2>2, <4>1 DEF Elements
    <3> QED BY <3>1, <3>2, <3>3
  <2> QED BY <2>1, <2>2, <2>5, <2>6
<1> QED BY <1>1, <1>2

LEMMA MetOnce ==
  ASSUME NEW paths, IsSequence(paths)
  PROVE  /\ IsSequence(FirstMet(paths)) /\ Distinct(FirstMet(paths))
         /\ Elements(FirstMet(paths)) = Elements(paths)
<1>0. Len(paths) \in Nat BY DEF IsSequence
<1>1. PICK f : SeenUpTo(f, paths) /\ FirstMet(paths) = f[Len(paths)] BY SeenIs
<1> DEFINE Good(k) == IsSequence(f[k]) /\ Distinct(f[k]) /\ Elements(f[k]) = { paths[i] : i \in 1..k }
           bad == { k \in 0..Len(paths) : ~Good(k) }
<1> HIDE DEF Good
<1>2. bad = {}
  <2>1. SUFFICES ASSUME bad # {} PROVE FALSE OBVIOUS
  <2>2. PICK k \in bad : \A j \in bad : k <= j
    <3> HIDE DEF bad
    <3>1. bad \subseteq Nat BY <1>0 DEF bad
    <3> QED BY <2>1, <3>1, LeastNumber
  <2>3. k \in 0..Len(paths) /\ ~Good(k) /\ \A j \in 0..Len(paths) : j < k => Good(j) BY <2>2
  <2>4. f[k] = SeenStep(f, paths, k) BY <1>1, <2>3 DEF SeenUpTo
  <2>5. CASE k = 0
    <3>1. f[k] = <<>> BY <2>4, <2>5 DEF SeenStep
    <3>2. Good(k) BY <2>5, <3>1, EmptySequence DEF Good, Distinct, Elements
    <3> QED BY <2>3, <3>2
  <2>6. CASE k # 0
    <3>1. k - 1 \in 0..Len(paths) /\ k - 1 < k BY <1>0, <2>3, <2>6
    <3>2. Good(k - 1) BY <2>3, <3>1
    <3>3. f[k] = AddNew(f[k - 1], paths[k]) BY <2>4, <2>6 DEF SeenStep
    <3>4. { paths[i] : i \in 1..k } = { paths[i] : i \in 1..(k - 1) } \cup {paths[k]}
      <4>1. \A i \in 1..k : i \in 1..(k - 1) \/ i = k BY <1>0, <2>3
      <4>2. \A i \in 1..(k - 1) : i \in 1..k BY <1>0, <2>3
      <4>3. k \in 1..k BY <1>0, <2>3, <2>6
      <4> QED BY <4>1, <4>2, <4>3
    <3>5. Good(k) BY <3>2, <3>3, <3>4, AddedNew DEF Good
    <3> QED BY <2>3, <3>5
  <2> QED BY <2>5, <2>6
<1>3. Len(paths) \in 0..Len(paths) BY <1>0
<1>4. Good(Len(paths)) BY <1>2, <1>3
<1> QED BY <1>1, <1>4 DEF Good, Elements

PathsShaped(evs) == \A i \in 1..Len(evs) : evs[i].type # "DocumentCompleted" => IsSequence(evs[i].path)

(* At or above a path that an event names. *)
Named(evs, p) == \E i \in 1..Len(evs) : evs[i].type # "DocumentCompleted"
                   /\ \E k \in 0..Len(evs[i].path) : p = SubSeq(evs[i].path, 1, k)

LEMMA RootWalk ==
  ASSUME NEW path, IsSequence(path)
  PROVE  /\ IsSequence(ToRoot(path)) /\ Len(ToRoot(path)) = Len(path) + 1
         /\ \A i \in 1..Len(path) + 1 : ToRoot(path)[i] = SubSeq(path, 1, Len(path) + 1 - i)
<1>1. Len(path) + 1 \in Nat BY DEF IsSequence
<1> DEFINE n == Len(path) + 1
           S == { SubSeq(path, 1, n - i) : i \in 1..n }
           w == [i \in 1..n |-> SubSeq(path, 1, n - i)]
<1>2. w \in Seq(S) /\ Len(w) = n
  <2>1. w \in [1..n -> S] OBVIOUS
  <2>2. n \in Nat BY <1>1
  <2> HIDE DEF n, S, w
  <2> QED BY <2>1, <2>2
<1>3. ToRoot(path) = w BY DEF ToRoot
<1> HIDE DEF S
<1>4. IsSequence(w) BY <1>2, SeqIsSequence
<1> QED BY <1>2, <1>3, <1>4

LEMMA PathsNamed ==
  ASSUME NEW evs, IsSequence(evs), PathsShaped(evs)
  PROVE  IsSequence(PathsOf(evs)) /\ \A p : p \in Elements(PathsOf(evs)) <=> Named(evs, p)
<1> DEFINE n == Len(evs)
           W(i) == IF evs[i].type = "DocumentCompleted" THEN <<>> ELSE ToRoot(evs[i].path)
           walks == [i \in 1..n |-> W(i)]
<1>1. n \in Nat BY DEF IsSequence
<1>2. IsSequence(walks) /\ Len(walks) = n /\ \A i \in 1..n : walks[i] = W(i)
  <2> DEFINE S == { W(i) : i \in 1..n }
  <2>1. walks \in [1..n -> S] OBVIOUS
  <2> HIDE DEF S, n, W
  <2>2. walks \in Seq(S) /\ Len(walks) = n BY <1>1, <2>1
  <2>3. IsSequence(walks) BY <2>2, SeqIsSequence
  <2> QED BY <2>2, <2>3
<1>3. PathsOf(evs) = FlattenSeq(walks) BY DEF PathsOf
<1> HIDE DEF walks
<1>4. \A i \in 1..n : IsSequence(walks[i])
  BY <1>2, RootWalk, EmptySequence DEF PathsShaped
<1>5. /\ IsSequence(FlattenSeq(walks))
      /\ \A i \in 1..Len(FlattenSeq(walks)) : ElementOf(FlattenSeq(walks)[i], walks)
  BY <1>2, <1>4, FlattenElements
<1>6. ASSUME NEW p, ElementOf(p, walks) PROVE Named(evs, p)
  <2>1. PICK i \in 1..n : \E k \in 1..Len(walks[i]) : p = walks[i][k] BY <1>2, <1>6 DEF ElementOf
  <2>2. PICK k \in 1..Len(walks[i]) : p = walks[i][k] BY <2>1
  <2>3. evs[i].type # "DocumentCompleted" BY <1>2, <2>2, EmptySequence
  <2> DEFINE q == evs[i].path
  <2>4. IsSequence(q) /\ walks[i] = ToRoot(q) BY <1>2, <2>3 DEF PathsShaped
  <2> HIDE DEF q
  <2>5. Len(q) \in Nat /\ Len(ToRoot(q)) = Len(q) + 1 BY <2>4, RootWalk DEF IsSequence
  <2>6. \A m \in 1..Len(q) + 1 : ToRoot(q)[m] = SubSeq(q, 1, Len(q) + 1 - m) BY <2>4, RootWalk
  <2>7. p = SubSeq(q, 1, Len(q) + 1 - k) /\ Len(q) + 1 - k \in 0..Len(q)
    BY <2>2, <2>4, <2>5, <2>6
  <2> QED BY <2>3, <2>7 DEF Named, q
<1>7. ASSUME NEW p, Named(evs, p) PROVE p \in Elements(FlattenSeq(walks))
  <2>1. PICK i \in 1..n : evs[i].type # "DocumentCompleted"
                   /\ \E k \in 0..Len(evs[i].path) : p = SubSeq(evs[i].path, 1, k)
    BY <1>7 DEF Named
  <2> DEFINE q == evs[i].path
  <2>2. PICK k \in 0..Len(q) : p = SubSeq(q, 1, k) BY <2>1
  <2>3. IsSequence(q) /\ walks[i] = ToRoot(q) BY <1>2, <2>1 DEF PathsShaped
  <2> HIDE DEF q
  <2>4. /\ Len(q) \in Nat /\ Len(ToRoot(q)) = Len(q) + 1
        /\ \A m \in 1..Len(q) + 1 : ToRoot(q)[m] = SubSeq(q, 1, Len(q) + 1 - m)
    BY <2>3, RootWalk DEF IsSequence
  <2> DEFINE m == Len(q) + 1 - k
  <2>5. m \in 1..Len(q) + 1 /\ Len(q) + 1 - m = k BY <2>4
  <2> HIDE DEF m
  <2>6. m \in 1..Len(walks[i]) /\ walks[i][m] = p BY <2>2, <2>3, <2>4, <2>5
  <2>7. ElementOf(p, walks) BY <1>2, <2>6 DEF ElementOf
  <2> QED BY <1>2, <1>4, <2>7, FlattenCovers
<1>8. ASSUME NEW p, p \in Elements(PathsOf(evs)) PROVE Named(evs, p)
  BY <1>3, <1>5, <1>6, <1>8 DEF Elements
<1> QED BY <1>3, <1>5, <1>7, <1>8

(* The events of the verdicts. *)
VerdictsOn(seen, now) == FlattenSeq([i \in DOMAIN seen |-> EventFor(seen[i], now)])

Told(e, p, now) == Moved(p, now) /\
  \/ IsFailure(now[p]) /\ e = Failed(p, now[p])
  \/ Status(p) = "Complete" /\ now[p] = "Valid" /\ e = Settled(p, "Valid")

PathsDiffer(evs) == \A j \in 1..Len(evs) : \A i \in 1..(j - 1) : evs[i].path # evs[j].path

LEMMA FlattenedPathsDiffer ==
  ASSUME NEW seen, IsSequence(seen), Distinct(seen),
         NEW seqs, IsSequence(seqs), Len(seqs) = Len(seen),
         \A k \in 1..Len(seqs) : IsSequence(seqs[k]) /\ Len(seqs[k]) \in 0..1,
         \A k \in 1..Len(seqs) : Len(seqs[k]) = 1 => seqs[k][1].path = seen[k]
  PROVE  PathsDiffer(FlattenSeq(seqs))
<1> DEFINE flat == FlattenSeq(seqs)
<1>1. \A m \in 1..Len(flat) : \A i \in 1..(m - 1) : \E k \in 1..Len(seqs) : \E j \in 1..(k - 1) :
        /\ Len(seqs[j]) = 1 /\ flat[i] = seqs[j][1]
        /\ Len(seqs[k]) = 1 /\ flat[m] = seqs[k][1]
  BY FlattenOnce
<1> HIDE DEF flat
<1> SUFFICES ASSUME NEW m \in 1..Len(flat), NEW i \in 1..(m - 1) PROVE flat[i].path # flat[m].path
  BY DEF PathsDiffer, flat
<1>2. PICK k \in 1..Len(seqs) : \E j \in 1..(k - 1) :
        /\ Len(seqs[j]) = 1 /\ flat[i] = seqs[j][1]
        /\ Len(seqs[k]) = 1 /\ flat[m] = seqs[k][1]
  BY <1>1
<1>3. PICK j \in 1..(k - 1) :
        /\ Len(seqs[j]) = 1 /\ flat[i] = seqs[j][1]
        /\ Len(seqs[k]) = 1 /\ flat[m] = seqs[k][1]
  BY <1>2
<1>4. Len(seqs) \in Nat /\ j \in 1..Len(seqs) /\ j # k BY DEF IsSequence
<1>5. seen[j] # seen[k] BY <1>4 DEF Distinct
<1>6. flat[i].path = seen[j] /\ flat[m].path = seen[k] BY <1>3, <1>4
<1> QED BY <1>5, <1>6

LEMMA EventShape ==
  ASSUME NEW p, NEW now
  PROVE  EventFor(p, now) = <<>> \/ \E e : EventFor(p, now) = <<e>> /\ e.path = p
<1>1. Failed(p, now[p]).path = p /\ Settled(p, "Valid").path = p BY DEF Failed, Settled
<1> QED BY <1>1 DEF EventFor

LEMMA VerdictEvents ==
  ASSUME NEW seen, IsSequence(seen), NEW now
  PROVE  /\ IsSequence(VerdictsOn(seen, now))
         /\ \A i \in 1..Len(VerdictsOn(seen, now)) : \E p \in Elements(seen) : Told(VerdictsOn(seen, now)[i], p, now)
         /\ \A p \in Elements(seen) : \A e : Told(e, p, now) => Has(VerdictsOn(seen, now), e)
         /\ Distinct(seen) => PathsDiffer(VerdictsOn(seen, now))
<1> DEFINE n == Len(seen)
           W(i) == EventFor(seen[i], now)
           parts == [i \in DOMAIN seen |-> W(i)]
<1>1. n \in Nat /\ DOMAIN seen = 1..n BY DEF IsSequence
<1>2. IsSequence(parts) /\ Len(parts) = n /\ \A i \in 1..n : parts[i] = W(i)
  <2> DEFINE S == { W(i) : i \in 1..n }
  <2> HIDE DEF W, n
  <2>1. parts \in [1..n -> S] BY <1>1
  <2>2. parts \in Seq(S) /\ Len(parts) = n BY <1>1, <2>1
  <2> HIDE DEF S
  <2>3. IsSequence(parts) BY <2>2, SeqIsSequence
  <2> QED BY <1>1, <2>2, <2>3
<1>3. VerdictsOn(seen, now) = FlattenSeq(parts) BY DEF VerdictsOn
<1> HIDE DEF parts
<1>4. \A e : IsSequence(<<e>>) /\ Len(<<e>>) = 1 /\ <<e>>[1] = e
  <2> TAKE e
  <2>1. <<e>> \in Seq({e}) OBVIOUS
  <2> QED BY <2>1, SeqIsSequence
<1>5. \A i \in 1..n : IsSequence(parts[i]) /\ Len(parts[i]) \in 0..1
  <2> TAKE i \in 1..n
  <2>1. parts[i] = <<>> \/ \E e : parts[i] = <<e>> BY <1>2, EventShape
  <2>2. ASSUME NEW e, parts[i] = <<e>> PROVE IsSequence(parts[i]) /\ Len(parts[i]) \in 0..1
    <3>1. IsSequence(parts[i]) /\ Len(parts[i]) = 1 BY <1>4, <2>2
    <3> QED BY <3>1
  <2>3. ASSUME parts[i] = <<>> PROVE IsSequence(parts[i]) /\ Len(parts[i]) \in 0..1
    <3>1. IsSequence(parts[i]) /\ Len(parts[i]) = 0 BY <2>3, EmptySequence
    <3> QED BY <3>1
  <2> QED BY <2>1, <2>2, <2>3
<1>6. /\ IsSequence(FlattenSeq(parts))
      /\ \A i \in 1..Len(FlattenSeq(parts)) : ElementOf(FlattenSeq(parts)[i], parts)
  BY <1>2, <1>5, FlattenElements
<1>7. ASSUME NEW e, ElementOf(e, parts) PROVE \E p \in Elements(seen) : Told(e, p, now)
  <2>1. PICK i \in 1..n : \E k \in 1..Len(parts[i]) : e = parts[i][k] BY <1>2, <1>7 DEF ElementOf
  <2>2. PICK k \in 1..Len(parts[i]) : e = parts[i][k] BY <2>1
  <2> DEFINE p == seen[i]
  <2>3. p \in Elements(seen) /\ parts[i] = EventFor(p, now) BY <1>2 DEF Elements
  <2> HIDE DEF p
  <2>4. parts[i] # <<>> BY <2>2, EmptySequence
  <2>5. \A x : parts[i] = <<x>> => e = x BY <1>4, <2>2
  <2>6. Told(e, p, now) BY <2>3, <2>4, <2>5 DEF EventFor, Told
  <2> QED BY <2>3, <2>6
<1>8. ASSUME NEW p \in Elements(seen), NEW e, Told(e, p, now) PROVE Has(FlattenSeq(parts), e)
  <2>1. PICK i \in 1..n : p = seen[i] BY DEF Elements
  <2>2. parts[i] = <<e>> BY <1>2, <1>8, <2>1 DEF EventFor, Told, IsFailure
  <2>3. 1 \in 1..Len(parts[i]) /\ parts[i][1] = e BY <1>4, <2>2
  <2>4. ElementOf(e, parts) BY <1>2, <2>3 DEF ElementOf
  <2>5. e \in Elements(FlattenSeq(parts)) BY <1>2, <1>5, <2>4, FlattenCovers
  <2> QED BY <2>5 DEF Elements, Has
<1>9. \A i \in 1..n : Len(parts[i]) = 1 => parts[i][1].path = seen[i]
  <2> TAKE i \in 1..n
  <2>1. ASSUME NEW e, parts[i] = <<e>>, e.path = seen[i] PROVE parts[i][1].path = seen[i]
    <3>1. parts[i][1] = e BY <1>4, <2>1
    <3> QED BY <2>1, <3>1
  <2>2. ASSUME parts[i] = <<>> PROVE Len(parts[i]) # 1
    <3>1. Len(parts[i]) = 0 BY <2>2, EmptySequence
    <3> QED BY <3>1
  <2>3. parts[i] = <<>> \/ \E e : parts[i] = <<e>> /\ e.path = seen[i] BY <1>2, EventShape
  <2> QED BY <2>1, <2>2, <2>3
<1>10. Distinct(seen) => PathsDiffer(FlattenSeq(parts))
  <2> HIDE DEF n
  <2>1. \A k \in 1..Len(parts) : IsSequence(parts[k]) /\ Len(parts[k]) \in 0..1 BY <1>2, <1>5
  <2>2. \A k \in 1..Len(parts) : Len(parts[k]) = 1 => parts[k][1].path = seen[k] BY <1>2, <1>9
  <2> QED BY <1>2, <2>1, <2>2, FlattenedPathsDiffer DEF n
<1> QED BY <1>3, <1>6, <1>7, <1>8, <1>10

LEMMA ToldIsVerdict ==
  ASSUME NEW e, NEW p, NEW now, Told(e, p, now)
  PROVE  IsVerdict(e) /\ e.path = p /\ e.state = now[p]
         /\ (e.type = "ValidationCompleted" => Status(p) = "Complete" /\ now[p] = "Valid")
BY DEF Told, IsVerdict, Failed, Settled

ProgressEvents == IsSequence(Progress) /\ Len(Progress) \in 0..1
  /\ \A i \in 1..Len(Progress) : Grew /\ Progress[i] = Progressed(SlotPath, Stable)

LEMMA ProgressShape == ProgressEvents /\ (Grew => Progress = <<Progressed(SlotPath, Stable)>>)
                       /\ (~Grew => Progress = <<>>)
<1>1. \A e : IsSequence(<<e>>) /\ Len(<<e>>) = 1 /\ <<e>>[1] = e
  <2> TAKE e
  <2>1. <<e>> \in Seq({e}) OBVIOUS
  <2> QED BY <2>1, SeqIsSequence
<1>2. Grew => Progress = <<Progressed(SlotPath, Stable)>> BY DEF Progress, SlotPath
<1>3. ~Grew => Progress = <<>> BY DEF Progress
<1> QED BY <1>1, <1>2, <1>3, EmptySequence DEF ProgressEvents

(* What a push leaves in the log: the progress it reports, then verdicts   *)
(* on paths at or above one that an event names.                           *)
Judging(now, more) ==
  /\ now = [p \in DOMAIN now |-> Validation(p)]
  /\ \A p \in DOMAIN now : Named(events \o Progress, p)
  /\ IsSequence(more) /\ \A i \in 1..Len(more) : \E p \in DOMAIN now : Told(more[i], p, now)
  /\ events' = (events \o Progress) \o more
  /\ reported' = Remember(now)

(* And it leaves none out: every path at or above one that an event not    *)
(* yet drained names is judged, and every verdict that moved is told, once. *)
Undrained == SubSeq(events, drained + 1, Len(events)) \o Progress

Thorough(now, more) ==
  /\ \A p : Named(Undrained, p) => p \in DOMAIN now
  /\ \A p \in DOMAIN now : \A e : Told(e, p, now) => Has(more, e)
  /\ PathsDiffer(more)

DrainedOK == drained \in 0..Len(events)

LEMMA PushJudges ==
  ASSUME Inv, IsSequence(SlotPath), PathsShaped(events), DrainedOK, VEndPush
  PROVE  \E now, more : Judging(now, more) /\ Thorough(now, more)
<1> DEFINE n == Len(events)
           fresh == SubSeq(events, drained + 1, n)
           undrained == fresh \o Progress
           all == events \o Progress
           seen == Touched(undrained)
           now == [p \in Range(seen) |-> Validation(p)]
           more == VerdictsOn(seen, now)
<1>1. IsSequence(events) /\ n \in Nat /\ drained \in 0..n BY DEF Inv, LogOK, DrainedOK, IsSequence
<1>2. /\ IsSequence(Progress) /\ Len(Progress) \in 0..1
      /\ \A i \in 1..Len(Progress) : Progress[i] = Progressed(SlotPath, Stable)
  BY ProgressShape DEF ProgressEvents
<1>3. /\ IsSequence(all) /\ Len(all) = n + Len(Progress)
      /\ \A i \in 1..n : all[i] = events[i]
      /\ \A i \in (n + 1)..(n + Len(Progress)) : all[i] = Progress[i - n]
  BY <1>1, <1>2, ConcatElements
<1>4. IsSequence(fresh) /\ \A i \in 1..Len(fresh) : \E j \in 1..n : fresh[i] = events[j]
  <2> DEFINE S == Elements(events)
  <2>1. events \in Seq(S) BY <1>1, IsSequenceIsSeq
  <2>2. \A i \in (drained + 1)..n : events[i] \in S BY <1>1 DEF Elements
  <2>3. fresh \in Seq(S)
    <3> HIDE DEF S
    <3> QED BY <1>1, <2>1, <2>2, SubSeqProperties
  <2>4. \A i \in 1..Len(fresh) : fresh[i] \in S
    <3> HIDE DEF S, fresh
    <3> QED BY <2>3
  <2> QED BY <2>3, <2>4, SeqIsSequence DEF Elements
<1> HIDE DEF fresh
<1>5. /\ IsSequence(undrained) /\ Len(undrained) = Len(fresh) + Len(Progress)
      /\ \A i \in 1..Len(fresh) : undrained[i] = fresh[i]
      /\ \A i \in (Len(fresh) + 1)..(Len(fresh) + Len(Progress)) : undrained[i] = Progress[i - Len(fresh)]
  BY <1>2, <1>4, ConcatElements
<1>6. Len(fresh) \in Nat BY <1>4 DEF IsSequence
<1> HIDE DEF undrained, all
<1>7. ASSUME NEW i \in 1..Len(undrained) PROVE \E j \in 1..Len(all) : undrained[i] = all[j]
  <2>1. CASE i \in 1..Len(fresh)
    <3>1. PICK j \in 1..n : fresh[i] = events[j] BY <1>4, <2>1
    <3>2. j \in 1..Len(all) /\ all[j] = events[j] BY <1>1, <1>2, <1>3
    <3> QED BY <1>5, <2>1, <3>1, <3>2
  <2>2. CASE i \notin 1..Len(fresh)
    <3> DEFINE k == i - Len(fresh) + n
    <3>1. /\ i \in (Len(fresh) + 1)..(Len(fresh) + Len(Progress))
          /\ k \in (n + 1)..(n + Len(Progress)) /\ k \in 1..Len(all) /\ k - n = i - Len(fresh)
      BY <1>1, <1>2, <1>3, <1>5, <1>6, <2>2
    <3> HIDE DEF k
    <3>2. all[k] = Progress[k - n] /\ undrained[i] = Progress[i - Len(fresh)] BY <1>3, <1>5, <3>1
    <3> QED BY <3>1, <3>2
  <2> QED BY <2>1, <2>2
<1>8. \A i \in 1..Len(all) : all[i].type # "DocumentCompleted" => IsSequence(all[i].path)
  <2> TAKE i \in 1..Len(all)
  <2>1. CASE i \in 1..n BY <1>3, <2>1 DEF PathsShaped
  <2>2. CASE i \notin 1..n
    <3>1. i \in (n + 1)..(n + Len(Progress)) /\ i - n \in 1..Len(Progress) BY <1>1, <1>2, <1>3, <2>2
    <3>2. all[i] = Progressed(SlotPath, Stable) BY <1>2, <1>3, <3>1
    <3> QED BY <3>2 DEF Progressed
  <2> QED BY <2>1, <2>2
<1>9. PathsShaped(undrained) BY <1>7, <1>8 DEF PathsShaped
<1>10. /\ IsSequence(PathsOf(undrained))
       /\ \A p : p \in Elements(PathsOf(undrained)) <=> Named(undrained, p)
  BY <1>5, <1>9, PathsNamed
<1>11. IsSequence(seen) /\ Elements(seen) = Elements(PathsOf(undrained)) /\ Distinct(seen)
  BY <1>10, MetOnce DEF Touched
<1> HIDE DEF seen
<1>12. Range(seen) = Elements(seen)
  <2>1. DOMAIN seen = 1..Len(seen) BY <1>11 DEF IsSequence
  <2> QED BY <2>1 DEF Range, Elements
<1>13. \A p \in Range(seen) : Named(all, p)
  <2> TAKE p \in Range(seen)
  <2>1. Named(undrained, p) BY <1>10, <1>11, <1>12
  <2>2. PICK i \in 1..Len(undrained) : undrained[i].type # "DocumentCompleted"
                   /\ \E k \in 0..Len(undrained[i].path) : p = SubSeq(undrained[i].path, 1, k)
    BY <2>1 DEF Named
  <2>3. PICK j \in 1..Len(all) : undrained[i] = all[j] BY <1>7
  <2> QED BY <2>2, <2>3 DEF Named
<1>14. events' = all \o more /\ reported' = Remember(now)
  BY DEF VEndPush, all, seen, undrained, fresh, VerdictsOn
<1>15. /\ IsSequence(more)
       /\ \A i \in 1..Len(more) : \E p \in Range(seen) : Told(more[i], p, now)
       /\ \A p \in Range(seen) : \A e : Told(e, p, now) => Has(more, e)
       /\ PathsDiffer(more)
  <2> HIDE DEF now
  <2> QED BY <1>11, <1>12, VerdictEvents
<1>16. DOMAIN now = Range(seen) /\ now = [p \in DOMAIN now |-> Validation(p)] OBVIOUS
<1>17. \A p : Named(Undrained, p) => p \in Range(seen)
  BY <1>10, <1>11, <1>12 DEF Undrained, undrained, fresh
<1> HIDE DEF now, more
<1>18. Judging(now, more) BY <1>13, <1>14, <1>15, <1>16 DEF Judging, all
<1>19. Thorough(now, more) BY <1>15, <1>16, <1>17 DEF Thorough
<1> QED BY <1>18, <1>19

-----------------------------------------------------------------------------
(* The parser's invariant holds under a schema, and the log only grows.    *)

LEMMA SlotSequence ==
  ASSUME Inv
  PROVE  /\ IsSequence(SlotPath) /\ IsSequence(path_prefix)
         /\ \A i \in 1..Len(path_prefix) : SlotPath[i] = path_prefix[i]
         /\ Len(path_prefix) <= Len(SlotPath)
<1>1. IsStack(stack) /\ IsSequence(path_prefix) /\ CacheAgrees(stack, path_prefix)
  BY DEF Inv, TreeOK, PathCache
<1>2. /\ IsSequence(Slot(stack, path_prefix)) /\ Len(Slot(stack, path_prefix)) = Len(stack)
      /\ \A i \in 1..Len(path_prefix) : Slot(stack, path_prefix)[i] = path_prefix[i]
      /\ Len(stack) \in Nat /\ (stack = <<>> <=> Len(stack) = 0)
  BY <1>1, FramePaths
<1>3. Len(path_prefix) <= Len(stack) BY <1>1, <1>2 DEF CacheAgrees
<1> QED BY <1>1, <1>2, <1>3 DEF SlotPath

(* Whatever the parser appends is about the slot being filled, or about    *)
(* the container that closes.                                              *)
NewEvent(e) ==
  \/ e = DocumentCompleted
  \/ (e.type = "ValueStarted" \/ InFlight) /\ e.path = SlotPath
  \/ stack # <<>> /\ e.path = path_prefix

NewEvents == \A i \in (Len(events) + 1)..Len(events') :
  NewEvent(events'[i]) /\ ~IsVerdict(events'[i])

LEMMA EventsAppended ==
  ASSUME Inv, Inv', Effect
  PROVE  NewEvents
<1>1. IsSequence(events) /\ Len(events) \in Nat /\ LogOK /\ TreeOK BY DEF Inv, LogOK, IsSequence
<1>2. CASE UNCHANGED events BY <1>1, <1>2 DEF NewEvents
<1>3. ASSUME NEW e, events' = Append(events, e), NewEvent(e), ~IsVerdict(e) PROVE NewEvents
  <2>1. Len(events') = Len(events) + 1 /\ events'[Len(events) + 1] = e BY <1>1, <1>3, AppendSequence
  <2>2. \A i \in (Len(events) + 1)..Len(events') : i = Len(events) + 1 BY <1>1, <2>1
  <2> QED BY <1>3, <2>1, <2>2 DEF NewEvents
<1>4. ASSUME NEW st, NEW prefix, NEW v, Attach(st, prefix, v),
             \/ InFlight /\ Slot(st, prefix) = SlotPath
             \/ stack # <<>> /\ Slot(st, prefix) = path_prefix
      PROVE  NewEvents
  <2> DEFINE e == Completed(Slot(st, prefix), v)
  <2>1. /\ events'[Len(events) + 1] = e
        /\ st # <<>> => Len(events') = Len(events) + 1
        /\ st = <<>> => Len(events') = Len(events) + 2
                        /\ events'[Len(events) + 2] = DocumentCompleted
    BY <1>1, <1>4, AttachEvents
  <2>2. NewEvent(e) /\ ~IsVerdict(e) BY <1>4 DEF Completed, NewEvent, IsVerdict
  <2>3. NewEvent(DocumentCompleted) /\ ~IsVerdict(DocumentCompleted)
    BY DEF DocumentCompleted, NewEvent, IsVerdict
  <2> HIDE DEF e
  <2>4. \A i \in (Len(events) + 1)..Len(events') :
          i = Len(events) + 1 \/ (st = <<>> /\ i = Len(events) + 2)
    BY <1>1, <2>1
  <2> QED BY <2>1, <2>2, <2>3, <2>4 DEF NewEvents
<1>5. CASE ScalarBegun \/ ContainerBegun \/ ContainerRefused
  <2>1. PICK kind : events' = Append(events, Started(SlotPath, kind))
    BY <1>5 DEF ScalarBegun, ContainerBegun, ContainerRefused, Begun
  <2>2. NewEvent(Started(SlotPath, kind)) /\ ~IsVerdict(Started(SlotPath, kind))
    BY DEF Started, NewEvent, IsVerdict
  <2> QED BY <1>3, <2>1, <2>2
<1>6. CASE ScalarEnded BY <1>4, <1>6 DEF ScalarEnded, SlotPath
<1>7. CASE ContainerEnded
  <2>1. Slot(Front(stack), Truncated) = path_prefix BY <1>1, <1>7, PoppedPaths DEF ContainerEnded
  <2> QED BY <1>4, <1>7, <2>1 DEF ContainerEnded
<1>8. CASE ProgressTold
  <2>1. InFlight BY <1>8 DEF ProgressTold, InFlight
  <2> QED BY <1>3, <1>8, <2>1 DEF ProgressTold, Progressed, NewEvent, IsVerdict
<1> QED BY <1>2, <1>5, <1>6, <1>7, <1>8 DEF Effect, Quiet, KeyRead, FrameDropped

LEMMA ParseStep ==
  ASSUME Inv, (\E b \in Alphabet : VStep(b)) \/ VFinish
  PROVE  Next /\ Inv' /\ failed = None /\ Effect /\ UNCHANGED validation_vars
<1>1. Next /\ UNCHANGED validation_vars BY DEF VStep, VFinish, Next
<1>2. Inv' BY <1>1, NextInv
<1> QED BY <1>1, <1>2, NextEffect

VBase == Inv /\ DrainedOK /\ PathsShaped(events)

LEMMA PushExtends ==
  ASSUME VBase, NEW now, NEW more, Judging(now, more)
  PROVE  /\ IsSequence(events \o Progress) /\ IsSequence(events') /\ Extends(events, events')
         /\ Extends(events \o Progress, events')
         /\ \A i \in (Len(events) + 1)..Len(events') :
              \/ i \in 1..Len(events \o Progress) /\ Grew /\ events'[i] = Progressed(SlotPath, Stable)
              \/ i > Len(events \o Progress) /\ \E p \in DOMAIN now : Told(events'[i], p, now)
<1> DEFINE n == Len(events)
           m == Len(events \o Progress)
           all == events \o Progress
<1>1. IsSequence(events) /\ n \in Nat BY DEF VBase, Inv, LogOK, IsSequence
<1>2. /\ IsSequence(Progress) /\ Len(Progress) \in 0..1
      /\ \A i \in 1..Len(Progress) : Grew /\ Progress[i] = Progressed(SlotPath, Stable)
  BY ProgressShape DEF ProgressEvents
<1>3. IsSequence(more) /\ events' = all \o more
      /\ \A i \in 1..Len(more) : \E p \in DOMAIN now : Told(more[i], p, now)
  BY DEF Judging
<1>4. Len(more) \in Nat BY <1>3 DEF IsSequence
<1>5. /\ IsSequence(all) /\ m = n + Len(Progress) /\ \A i \in 1..n : all[i] = events[i]
      /\ \A i \in (n + 1)..(n + Len(Progress)) : all[i] = Progress[i - n]
  BY <1>1, <1>2, ConcatElements
<1> HIDE DEF all, m
<1>6. /\ IsSequence(events') /\ Len(events') = Len(all) + Len(more) /\ \A i \in 1..Len(all) : events'[i] = all[i]
      /\ \A i \in (Len(all) + 1)..(Len(all) + Len(more)) : events'[i] = more[i - Len(all)]
  BY <1>3, <1>5, ConcatElements
<1>7. Len(all) = m /\ m \in Nat BY <1>1, <1>2, <1>5 DEF all, m
<1>8. Extends(events, events') /\ Extends(all, events')
  BY <1>1, <1>2, <1>4, <1>5, <1>6, <1>7 DEF Extends
<1>9. ASSUME NEW i \in (n + 1)..Len(events')
      PROVE  \/ i \in 1..m /\ Grew /\ events'[i] = Progressed(SlotPath, Stable)
             \/ i > m /\ \E p \in DOMAIN now : Told(events'[i], p, now)
  <2>1. CASE i <= m
    <3>1. i \in 1..m /\ i \in (n + 1)..(n + Len(Progress)) /\ i - n \in 1..Len(Progress)
      BY <1>1, <1>2, <1>5, <2>1
    <3> QED BY <1>2, <1>5, <1>6, <1>7, <3>1
  <2>2. CASE i > m
    <3>1. i \in (Len(all) + 1)..(Len(all) + Len(more)) /\ i - Len(all) \in 1..Len(more)
      BY <1>1, <1>4, <1>6, <1>7, <2>2
    <3>2. events'[i] = more[i - Len(all)] BY <1>6, <3>1
    <3> QED BY <1>3, <2>2, <3>1, <3>2
  <2> QED BY <1>1, <1>7, <2>1, <2>2
<1> QED BY <1>5, <1>6, <1>8, <1>9 DEF all, m

LEMMA PushBase ==
  ASSUME VBase, VEndPush
  PROVE  VBase' /\ Extends(events, events') /\ IsSequence(events')
<1>1. IsSequence(SlotPath) BY SlotSequence DEF VBase
<1>2. PICK now, more : Judging(now, more) BY <1>1, PushJudges DEF VBase
<1>3. IsSequence(events') /\ Extends(events, events') BY <1>2, PushExtends
<1>4. /\ UNCHANGED <<tree, tok, failed, offset, commit, held, ended, input, drained>>
      /\ feeding' = FALSE /\ ControlOK /\ LogOK /\ TreeOK /\ TokenOK
  BY DEF VEndPush, VBase, Inv
<1>5. ControlOK' BY <1>4 DEF ControlOK, NeverUnbalanced
<1>6. TreeOK' BY <1>4 DEF TreeOK, tree, PathCache
<1>7. TokenOK' BY <1>4 DEF TokenOK, EscapeAccounts, TokenAgrees, tree
<1>8. reported_prefix' \in Nat
  <2>1. Grew => Len(Stable) \in Nat
    <3>1. ASSUME Grew PROVE tok.decoded \in Seq(Byte) BY <1>4, <3>1, StrFields DEF TokenOK, Grew, Growing
    <3>2. ASSUME Grew PROVE Len(StablePrefix(tok.decoded)) \in 0..Len(tok.decoded) BY <3>1, <3>2, StableLength
    <3> QED BY <3>1, <3>2 DEF Stable
  <2> QED BY <1>4, <2>1 DEF VEndPush, LogOK
<1>9. Inv' BY <1>3, <1>5, <1>6, <1>7, <1>8 DEF Inv, LogOK
<1>10. DrainedOK' 
  <2>1. Len(events) \in Nat /\ Len(events') \in Nat BY <1>3, <1>4 DEF LogOK, IsSequence
  <2> QED BY <1>3, <1>4, <2>1 DEF VBase, DrainedOK, Extends
<1>11. PathsShaped(events')
  <2> SUFFICES ASSUME NEW i \in 1..Len(events'), events'[i].type # "DocumentCompleted"
               PROVE  IsSequence(events'[i].path)
    BY DEF PathsShaped
  <2>1. CASE i \in 1..Len(events) BY <1>3, <2>1 DEF VBase, PathsShaped, Extends
  <2>2. CASE i \notin 1..Len(events)
    <3>1. i \in (Len(events) + 1)..Len(events') BY <1>3, <1>4, <2>2 DEF LogOK, IsSequence
    <3>2. CASE events'[i] = Progressed(SlotPath, Stable) BY <1>1, <3>2 DEF Progressed
    <3>3. ASSUME NEW p \in DOMAIN now, Told(events'[i], p, now) PROVE IsSequence(events'[i].path)
      <4>1. events'[i].path = p /\ Named(events \o Progress, p) BY <1>2, <3>3, ToldIsVerdict DEF Judging
      <4> DEFINE all == events \o Progress
      <4>2. PICK j \in 1..Len(all) : all[j].type # "DocumentCompleted"
                  /\ \E k \in 0..Len(all[j].path) : p = SubSeq(all[j].path, 1, k)
        BY <4>1 DEF Named
      <4>3. j \in 1..Len(events') /\ events'[j] = all[j] /\ (j \in 1..Len(events) => all[j] = events[j])
        <5>1. Extends(all, events') /\ IsSequence(all) BY <1>2, PushExtends
        <5>2. Len(all) \in Nat /\ Len(events') \in Nat BY <1>3, <5>1 DEF IsSequence
        <5> HIDE DEF all
        <5>3. j \in 1..Len(events') /\ events'[j] = all[j] BY <5>1, <5>2 DEF Extends
        <5> QED BY <1>3, <5>3 DEF Extends
      <4>4. IsSequence(all[j].path)
        <5>1. CASE j \in 1..Len(events) BY <4>2, <4>3, <5>1 DEF VBase, PathsShaped
        <5>2. CASE j \notin 1..Len(events)
          <6>1. j \in (Len(events) + 1)..Len(events') /\ ~(j > Len(all))
            <7>1. Len(all) \in Nat BY <1>2, PushExtends DEF IsSequence
            <7> HIDE DEF all
            <7> QED BY <1>3, <1>4, <4>3, <5>2, <7>1 DEF LogOK, IsSequence
          <6>2. events'[j] = Progressed(SlotPath, Stable) BY <1>2, <6>1, PushExtends
          <6> QED BY <1>1, <4>3, <6>2 DEF Progressed
        <5> QED BY <5>1, <5>2
      <4> QED BY <4>1, <4>2, <4>4, SubSeqSequence
    <3> QED BY <1>2, <3>1, <3>2, <3>3, PushExtends
  <2> QED BY <2>1, <2>2
<1> QED BY <1>3, <1>9, <1>10, <1>11 DEF VBase

LEMMA ParseBase ==
  ASSUME VBase, (\E b \in Alphabet : VStep(b)) \/ VFinish
  PROVE  VBase' /\ Extends(events, events')
<1>1. Inv /\ Inv' /\ Effect /\ UNCHANGED validation_vars BY ParseStep DEF VBase
<1>2. IsSequence(events) /\ IsSequence(events') /\ Extends(events, events') BY <1>1, EffectExtends
<1>3. NewEvents BY <1>1, EventsAppended
<1>4. Len(events) \in Nat /\ Len(events') \in Nat BY <1>2 DEF IsSequence
<1>5. DrainedOK' BY <1>1, <1>2, <1>4 DEF VBase, DrainedOK, Extends, validation_vars
<1>6. PathsShaped(events')
  <2> SUFFICES ASSUME NEW i \in 1..Len(events'), events'[i].type # "DocumentCompleted"
               PROVE  IsSequence(events'[i].path)
    BY DEF PathsShaped
  <2>1. CASE i \in 1..Len(events) BY <1>2, <2>1 DEF VBase, PathsShaped, Extends
  <2>2. CASE i \notin 1..Len(events)
    <3>1. i \in (Len(events) + 1)..Len(events') BY <1>4, <2>2
    <3>2. events'[i] # DocumentCompleted BY DEF DocumentCompleted
    <3>3. events'[i].path \in {SlotPath, path_prefix} BY <1>3, <3>1, <3>2 DEF NewEvents, NewEvent
    <3> QED BY <1>1, <3>3, SlotSequence
  <2> QED BY <2>1, <2>2
<1> QED BY <1>1, <1>2, <1>5, <1>6 DEF VBase

LEMMA BaseNext == VBase /\ [VNext]_all_vars => VBase' /\ Extends(events, events')
<1> SUFFICES ASSUME VBase, [VNext]_all_vars PROVE VBase' /\ Extends(events, events') OBVIOUS
<1>1. CASE (\E b \in Alphabet : VStep(b)) \/ VFinish BY <1>1, ParseBase
<1>2. CASE VEndPush BY <1>2, PushBase
<1>3. ASSUME UNCHANGED vars, drained' \in 0..Len(events) PROVE VBase' /\ Extends(events, events')
  <2>1. Inv' BY <1>3, NextInv DEF VBase
  <2>2. UNCHANGED events /\ Len(events) \in Nat BY <1>3 DEF vars, VBase, Inv, LogOK, IsSequence
  <2> QED BY <1>3, <2>1, <2>2 DEF VBase, DrainedOK, PathsShaped, Extends
<1>4. CASE Drain
  <2>1. Len(events) \in Nat BY DEF VBase, Inv, LogOK, IsSequence
  <2> QED BY <1>3, <1>4, <2>1 DEF Drain
<1>5. CASE UNCHANGED all_vars BY <1>3, <1>5 DEF all_vars, validation_vars, VBase, DrainedOK
<1> QED BY <1>1, <1>2, <1>4, <1>5 DEF VNext

LEMMA BaseInit == VInit => VBase
<1> SUFFICES ASSUME VInit PROVE VBase OBVIOUS
<1>1. Inv BY InitInv DEF VInit
<1>2. events = <<>> /\ drained = 0 BY DEF VInit, Init
<1> QED BY <1>1, <1>2, EmptySequence DEF VBase, DrainedOK, PathsShaped

(* Judging appends to the log and nothing else: with a schema attached the *)
(* parser's own invariant holds in every state, for every validator, what  *)
(* has been drained is within the log, and each event but the document's   *)
(* own names a path.                                                       *)
THEOREM BaseInductive == VSpec => []VBase
BY BaseInit, BaseNext, PTL DEF VSpec

-----------------------------------------------------------------------------
(* With the verdicts left out, a stream with a schema is the parser.       *)

LEMMA SameCall ==
  ASSUME NEW b \in Alphabet, LogFollows, Step(b)
  PROVE  Parsed!Next /\ Undisturbed!Next
<1>1. Parsed!StringByte(b) \/ Parsed!NumberByte(b) \/ Parsed!LiteralByte(b) \/ Parsed!StructuralByte(b)
  BY SameStringByte, SameNumberByte, SameLiteralByte, SameStructuralByte DEF Step
<1>2. \/ Undisturbed!StringByte(b) \/ Undisturbed!NumberByte(b) \/ Undisturbed!LiteralByte(b)
      \/ Undisturbed!StructuralByte(b)
  BY SameStringByte, SameNumberByte, SameLiteralByte, SameStructuralByte DEF Step
<1>3. failed = None /\ (Parsed!Receive(b) \/ Parsed!Redispatch(b))
  BY DEF Step, Receive, Parsed!Receive, Redispatch, Parsed!Redispatch, Sends, Parsed!Sends
<1>4. Undisturbed!Receive(b) \/ Undisturbed!Redispatch(b)
  BY DEF Step, Receive, Undisturbed!Receive, Redispatch, Undisturbed!Redispatch, Sends, Undisturbed!Sends
<1>5. b \in Parsed!Alphabet /\ b \in Undisturbed!Alphabet
  BY DEF Alphabet, Parsed!Alphabet, Undisturbed!Alphabet
<1>6. Parsed!Step(b) /\ Undisturbed!Step(b)
  BY <1>1, <1>2, <1>3, <1>4 DEF Parsed!Step, Undisturbed!Step
<1> QED BY <1>5, <1>6 DEF Parsed!Next, Undisturbed!Next

LEMMA SameFinish ==
  ASSUME LogFollows, Finish
  PROVE  Parsed!Next /\ Undisturbed!Next
<1>1. ASSUME FinishNumber PROVE Parsed!FinishNumber /\ Undisturbed!FinishNumber
  BY <1>1, SameLexis, SameCloseNumber DEF FinishNumber, Parsed!FinishNumber, Undisturbed!FinishNumber,
    Finishing, Parsed!Finishing, Undisturbed!Finishing
<1>2. ASSUME FinishPartial PROVE Parsed!FinishPartial /\ Undisturbed!FinishPartial
  BY <1>2, SameLexis, SameBytes DEF FinishPartial, Parsed!FinishPartial, Undisturbed!FinishPartial,
    Finishing, Parsed!Finishing, Undisturbed!Finishing, tree, Parsed!tree, Undisturbed!tree,
    log, Parsed!log, Undisturbed!log, LogFollows
<1>3. ASSUME FinishOther PROVE Parsed!FinishOther /\ Undisturbed!FinishOther
  BY <1>3, SameBytes DEF FinishOther, Parsed!FinishOther, Undisturbed!FinishOther,
    Finishing, Parsed!Finishing, Undisturbed!Finishing, tree, Parsed!tree, Undisturbed!tree,
    log, Parsed!log, Undisturbed!log, LogFollows
<1> QED BY <1>1, <1>2, <1>3 DEF Finish, Parsed!Finish, Undisturbed!Finish, Parsed!Next, Undisturbed!Next

LEMMA SamePush ==
  ASSUME VBase, VEndPush
  PROVE  Parsed!Next /\ Undisturbed!Next
<1>1. IsSequence(SlotPath) /\ IsSequence(events) BY SlotSequence DEF VBase, Inv, LogOK
<1>2. PICK now, more : Judging(now, more) BY <1>1, PushJudges DEF VBase
<1>3. IsSequence(events \o Progress) BY <1>2, PushExtends
<1>4. /\ events' = (events \o Progress) \o more /\ IsSequence(more)
      /\ \A i \in 1..Len(more) : IsVerdict(more[i])
  BY <1>2, ToldIsVerdict DEF Judging
<1>5. ParseEvents' = WithoutVerdicts(events \o Progress)
  BY <1>3, <1>4, KeptConcat DEF ParseEvents
<1>6. /\ PushReturns /\ feeding' = FALSE
      /\ UNCHANGED <<tree, tok, failed, offset, commit, held, ended, input>>
      /\ reported_prefix' = IF Grew THEN Len(Stable) ELSE IF Growing THEN reported_prefix ELSE 0
  BY DEF VEndPush
<1>7. CASE Grew
  <2> DEFINE e == Progressed(SlotPath, Stable)
  <2>1. Progress = <<e>> BY <1>7, ProgressShape
  <2>2. ~IsVerdict(e) BY DEF IsVerdict, Progressed
  <2> HIDE DEF e
  <2>3. events \o Progress = Append(events, e)
    <3>1. IsSequence(<<e>>) /\ Len(<<e>>) = 1 /\ <<e>>[1] = e BY EmptySequence, AppendSequence, <2>1, ProgressShape DEF ProgressEvents
    <3>2. /\ IsSequence(Append(events, e)) /\ Len(Append(events, e)) = Len(events) + 1
          /\ \A i \in 1..Len(events) : Append(events, e)[i] = events[i]
          /\ Append(events, e)[Len(events) + 1] = e
      BY <1>1, AppendSequence
    <3> DEFINE one == <<e>>
    <3>3. IsSequence(one) /\ Len(one) = 1 /\ one[1] = e /\ Progress = one BY <2>1, <3>1
    <3> HIDE DEF one
    <3>4. /\ IsSequence(events \o one) /\ Len(events \o one) = Len(events) + Len(one)
          /\ \A i \in 1..Len(events) : (events \o one)[i] = events[i]
          /\ \A i \in (Len(events) + 1)..(Len(events) + Len(one)) : (events \o one)[i] = one[i - Len(events)]
      BY <1>1, <3>3, ConcatElements
    <3>5. Len(events) \in Nat BY <1>1 DEF IsSequence
    <3>6. (events \o one)[Len(events) + 1] = e BY <3>3, <3>4, <3>5
    <3>7. ASSUME NEW i \in 1..Len(events \o one) PROVE (events \o one)[i] = Append(events, e)[i]
      <4>1. i \in 1..Len(events) \/ i = Len(events) + 1 BY <3>3, <3>4, <3>5
      <4> QED BY <3>2, <3>4, <3>6, <4>1
    <3>8. events \o one = Append(events, e) BY <3>2, <3>3, <3>4, <3>7, SameSequence
    <3> QED BY <3>3, <3>8
  <2>4. ParseEvents' = Append(ParseEvents, e) BY <1>1, <1>5, <2>2, <2>3, KeptAppend DEF ParseEvents
  <2>5. Growing /\ Len(Stable) > reported_prefix /\ reported_prefix' = Len(Stable)
    BY <1>6, <1>7 DEF Grew
  <2>6. Parsed!ReportProgress
    BY <1>6, <2>4, <2>5, SameShapes, SameLexis DEF e, SlotPath, Parsed!ReportProgress, Parsed!PushReturns,
      PushReturns, Parsed!Growing, Growing, Parsed!Stable, Stable
  <2>7. Undisturbed!ReportProgress
    BY <1>6, <2>4, <2>5, SameShapes, SameLexis DEF e, SlotPath, Undisturbed!ReportProgress,
      Undisturbed!PushReturns, PushReturns, Undisturbed!Growing, Growing, Undisturbed!Stable, Stable
  <2> QED BY <1>6, <2>6, <2>7 DEF Parsed!EndPush, Undisturbed!EndPush, Parsed!Next, Undisturbed!Next,
    tree, Parsed!tree, Undisturbed!tree
<1>8. CASE ~Grew
  <2>1. ParseEvents' = ParseEvents
    <3>1. Progress = <<>> BY <1>8, ProgressShape
    <3>2. events \o Progress = events
      <4>1. events \in Seq(Elements(events)) BY <1>1, IsSequenceIsSeq
      <4> QED BY <3>1, <4>1
    <3> QED BY <1>5, <3>2 DEF ParseEvents
  <2>2. Parsed!NothingToReport
    BY <1>6, <1>8, <2>1, SameLexis DEF Parsed!NothingToReport, Parsed!PushReturns, PushReturns,
      Parsed!Growing, Growing, Parsed!Stable, Stable, Grew
  <2>3. Undisturbed!NothingToReport
    BY <1>6, <1>8, <2>1, SameLexis DEF Undisturbed!NothingToReport, Undisturbed!PushReturns, PushReturns,
      Undisturbed!Growing, Growing, Undisturbed!Stable, Stable, Grew
  <2> QED BY <1>6, <2>2, <2>3 DEF Parsed!EndPush, Undisturbed!EndPush, Parsed!Next, Undisturbed!Next,
    tree, Parsed!tree, Undisturbed!tree
<1> QED BY <1>7, <1>8

LEMMA SameNext == VBase /\ [VNext]_all_vars => [Parsed!Next]_Parsed!vars /\ [Undisturbed!Next]_Undisturbed!vars
<1> SUFFICES ASSUME VBase, [VNext]_all_vars
             PROVE  [Parsed!Next]_Parsed!vars /\ [Undisturbed!Next]_Undisturbed!vars
  OBVIOUS
<1>1. LogFollows BY LogDoesFollow DEF VBase, Inv, LogOK
<1>2. CASE \E b \in Alphabet : VStep(b) BY <1>1, <1>2, SameCall DEF VStep
<1>3. CASE VFinish BY <1>1, <1>3, SameFinish DEF VFinish
<1>4. CASE VEndPush BY <1>4, SamePush
<1>5. CASE Drain \/ UNCHANGED all_vars
  <2>1. UNCHANGED vars BY <1>5 DEF Drain, all_vars
  <2>2. UNCHANGED ParseEvents BY <2>1 DEF vars, ParseEvents
  <2> QED BY <2>1, <2>2 DEF vars, Parsed!vars, Undisturbed!vars
<1> QED BY <1>2, <1>3, <1>4, <1>5 DEF VNext

LEMMA SameInit == VInit => Parsed!Init /\ Undisturbed!Init
<1> SUFFICES ASSUME VInit PROVE Parsed!Init /\ Undisturbed!Init OBVIOUS
<1>1. Init BY DEF VInit
<1>2. ParseEvents = <<>> BY <1>1, NothingKept DEF Init, ParseEvents
<1> QED BY <1>1, <1>2, SameTokens DEF Init, Parsed!Init, Undisturbed!Init

(* Attaching a schema changes nothing about the parse (push and            *)
(* judge_touched_paths): for every validator and every schema, the stream  *)
(* with the verdicts left out of its log is the parser, step for step.     *)
THEOREM ParserIsUndisturbed == VSpec => ParserUndisturbed
<1>1. VSpec => Undisturbed!Spec BY BaseInductive, SameInit, SameNext, PTL DEF VSpec, Undisturbed!Spec
<1> QED BY <1>1 DEF ParserUndisturbed

LEMMA ParsedSpec == VSpec => Parsed!Spec
BY BaseInductive, SameInit, SameNext, PTL DEF VSpec, Parsed!Spec

(* What is proved of the parser is true of it.                             *)
LEMMA ParsedAssumptions == Parsed!ParserAssumption /\ (NoneIsNoValue => Parsed!NoneIsNoValue)
<1>1. Parsed!Byte = Byte BY SameBytes
<1>2. Parsed!Failure = Failure BY DEF Parsed!Failure, Failure, Parsed!ErrorKind, ErrorKind
<1>3. Parsed!ParserAssumption BY <1>1, <1>2, ParserAssumption DEF Parsed!ParserAssumption
<1> QED BY <1>3 DEF NoneIsNoValue, Parsed!NoneIsNoValue

LEMMA ParsedInv == ASSUME NoneIsNoValue PROVE VSpec => [](Parsed!Inv /\ Parsed!LogInv)
<1>1. VSpec => []Parsed!Inv BY ParsedSpec, ParsedAssumptions, Parsed!Inductive, PTL
<1>2. Parsed!ParserAssumption /\ Parsed!NoneIsNoValue BY ParsedAssumptions
<1>3. Parsed!Spec => []Parsed!LogInv BY <1>2, Parsed!LogInductive
<1> QED BY <1>1, <1>3, ParsedSpec, PTL

(* What event.rs promises of the log survives the validator: once the      *)
(* verdicts are left out, the events of a validated stream are in order    *)
(* and mirror the document.                                                *)
THEOREM EventGuaranteesHold ==
  ASSUME NoneIsNoValue
  PROVE  VSpec => []Parsed!EventOrder /\ []Parsed!EventsMirrorDocument
<1>1. Parsed!ParserAssumption /\ Parsed!NoneIsNoValue BY ParsedAssumptions
<1>2. Parsed!Spec => []Parsed!EventOrder BY <1>1, Parsed!EventOrderCorrect
<1>3. Parsed!Spec => []Parsed!EventsMirrorDocument BY <1>1, Parsed!EventsMirrorDocumentCorrect
<1> QED BY <1>2, <1>3, ParsedSpec, PTL

(* So does the stability of values: what a stream with a schema has called *)
(* Complete stays as it is, whatever the validator says of it.             *)
THEOREM ValuesStayStable ==
  ASSUME NoneIsNoValue
  PROVE  VSpec => Parsed!StreamIsStable
<1>1. Parsed!ParserAssumption /\ Parsed!NoneIsNoValue BY ParsedAssumptions
<1>2. Parsed!Spec => Parsed!StreamIsStable BY <1>1, Parsed!StreamIsStableCorrect
<1> QED BY <1>2, ParsedSpec, PTL

(* Snapshots, paths into them and repeated keys do not depend on the log.  *)
LEMMA SameSnapshot == Parsed!Snapshot = Snapshot
BY Zenon DEF Snapshot, TokenValue, Scalar, Stable, StablePrefix, Utf8Valid, Filled, Container, Filed, SlotToken, Decimal, HexDigit,
    Parsed!Snapshot, Parsed!TokenValue, Parsed!Scalar, Parsed!Stable, Parsed!StablePrefix, Parsed!Utf8Valid, Parsed!Filled, Parsed!Container, Parsed!Filed, Parsed!SlotToken, Parsed!Decimal, Parsed!HexDigit

LEMMA SameValueIn == \A doc, path : Parsed!ValueIn(doc, path) = ValueIn(doc, path)
BY Zenon DEF ValueIn, Child, ChildIndex, ChildrenOf, SelectInSeq, Min, IndexOf, HexValue, HexDigit, DigitByte, NonZero,
    Parsed!ValueIn, Parsed!Child, Parsed!ChildIndex, Parsed!ChildrenOf, Parsed!SelectInSeq, Parsed!Min, Parsed!IndexOf, Parsed!HexValue, Parsed!HexDigit, Parsed!DigitByte, Parsed!NonZero

LEMMA SameIndex == \A t : Parsed!IndexOf(t) = IndexOf(t)
BY Zenon DEF IndexOf, HexValue, HexDigit, DigitByte, NonZero,
    Parsed!IndexOf, Parsed!HexValue, Parsed!HexDigit, Parsed!DigitByte, Parsed!NonZero

LEMMA SameRepeats == (Parsed!RepeatsKey <=> RepeatsKey) /\ (Parsed!FrameLost <=> FrameLost)
<1>1. Parsed!RepeatsKey <=> RepeatsKey
  BY Zenon DEF RepeatsKey, Nodes, Once, Cardinality, Snapshot, TokenValue, Scalar, Stable, StablePrefix, Utf8Valid, Filled, Container, Filed, SlotToken, Decimal, HexDigit, NodesOf, Below, Child, ChildIndex, ChildrenOf, SelectInSeq, Min, IndexOf, HexValue, DigitByte, NonZero,
    Parsed!RepeatsKey, Parsed!Nodes, Parsed!Once, Parsed!Cardinality, Parsed!Snapshot, Parsed!TokenValue, Parsed!Scalar, Parsed!Stable, Parsed!StablePrefix, Parsed!Utf8Valid, Parsed!Filled, Parsed!Container, Parsed!Filed, Parsed!SlotToken, Parsed!Decimal, Parsed!HexDigit, Parsed!NodesOf, Parsed!Below, Parsed!Child, Parsed!ChildIndex, Parsed!ChildrenOf, Parsed!SelectInSeq, Parsed!Min, Parsed!IndexOf, Parsed!HexValue, Parsed!DigitByte, Parsed!NonZero
<1>2. Parsed!FrameLost <=> FrameLost BY DEF Parsed!FrameLost, FrameLost
<1> QED BY <1>1, <1>2

(* What is left is what was there and is no verdict.                       *)
LEMMA KeptElements ==
  ASSUME NEW evs, IsSequence(evs)
  PROVE  LET kept == WithoutVerdicts(evs)
         IN  /\ \A j \in 1..Len(kept) : \E i \in 1..Len(evs) : kept[j] = evs[i] /\ ~IsVerdict(evs[i])
             /\ \A i \in 1..Len(evs) : ~IsVerdict(evs[i]) => \E j \in 1..Len(kept) : kept[j] = evs[i]
<1> DEFINE Good(s, k) ==
             /\ IsSequence(s)
             /\ \A j \in 1..Len(s) : \E i \in 1..k : s[j] = evs[i] /\ ~IsVerdict(evs[i])
             /\ \A i \in 1..k : ~IsVerdict(evs[i]) => \E j \in 1..Len(s) : s[j] = evs[i]
<1>0. Len(evs) \in Nat BY DEF IsSequence
<1>1. PICK f : KeptUpTo(f, evs) /\ WithoutVerdicts(evs) = f[Len(evs)] BY KeptIs
<1>2. \A k \in 0..Len(evs) : Good(f[k], k)
  <2> DEFINE bad == { k \in 0..Len(evs) : ~Good(f[k], k) }
  <2>1. SUFFICES ASSUME bad # {} PROVE FALSE OBVIOUS
  <2>2. PICK k \in bad : \A j \in bad : k <= j
    <3> HIDE DEF bad
    <3>1. bad \subseteq Nat BY <1>0 DEF bad
    <3> QED BY <2>1, <3>1, LeastNumber
  <2>3. k \in 0..Len(evs) /\ ~Good(f[k], k) /\ \A j \in 0..Len(evs) : j < k => Good(f[j], j) BY <2>2
  <2>4. f[k] = KeptStep(f, evs, k) BY <1>1, <2>3 DEF KeptUpTo
  <2>5. CASE k = 0
    <3>1. f[k] = <<>> BY <2>4, <2>5 DEF KeptStep
    <3>2. Good(<<>>, 0) BY EmptySequence
    <3> QED BY <2>3, <2>5, <3>1, <3>2
  <2>6. CASE k # 0
    <3> DEFINE s == f[k - 1]
    <3>1. k - 1 \in 0..Len(evs) /\ k - 1 < k /\ k \in 1..k /\ k \in Nat BY <1>0, <2>3, <2>6
    <3>2. Good(s, k - 1) BY <2>3, <3>1
    <3>3. f[k] = IF IsVerdict(evs[k]) THEN s ELSE Append(s, evs[k]) BY <2>4, <2>6 DEF KeptStep
    <3> HIDE DEF s
    <3>4. \A i \in 1..k : i = k \/ i \in 1..(k - 1) BY <3>1
    <3>5. \A i \in 1..(k - 1) : i \in 1..k BY <3>1
    <3>6. CASE IsVerdict(evs[k])
      <4>1. Good(s, k) BY <3>2, <3>4, <3>5, <3>6
      <4> HIDE DEF Good
      <4> QED BY <2>3, <3>3, <3>6, <4>1
    <3>7. CASE ~IsVerdict(evs[k])
      <4> DEFINE t == Append(s, evs[k])
      <4>1. /\ IsSequence(t) /\ Len(t) = Len(s) + 1 /\ t[Len(s) + 1] = evs[k] /\ Len(s) \in Nat
            /\ \A j \in 1..Len(s) : t[j] = s[j]
        BY <3>2, AppendSequence DEF IsSequence
      <4> HIDE DEF t
      <4>2. \A j \in 1..Len(t) : \E i \in 1..k : t[j] = evs[i] /\ ~IsVerdict(evs[i])
        <5> TAKE j \in 1..Len(t)
        <5>1. CASE j \in 1..Len(s) BY <3>2, <3>5, <4>1, <5>1
        <5>2. CASE j = Len(s) + 1 BY <3>1, <3>7, <4>1, <5>2
        <5> QED BY <4>1, <5>1, <5>2
      <4>3. \A i \in 1..k : ~IsVerdict(evs[i]) => \E j \in 1..Len(t) : t[j] = evs[i]
        <5> SUFFICES ASSUME NEW i \in 1..k, ~IsVerdict(evs[i]) PROVE \E j \in 1..Len(t) : t[j] = evs[i]
          OBVIOUS
        <5>1. CASE i = k
          <6>1. Len(s) + 1 \in 1..Len(t) BY <4>1
          <6> QED BY <4>1, <5>1, <6>1
        <5>2. CASE i \in 1..(k - 1)
          <6>1. PICK j \in 1..Len(s) : s[j] = evs[i] BY <3>2, <5>2
          <6>2. j \in 1..Len(t) BY <4>1
          <6> QED BY <4>1, <6>1, <6>2
        <5> QED BY <3>4, <5>1, <5>2
      <4>4. Good(t, k) BY <4>1, <4>2, <4>3
      <4> HIDE DEF Good
      <4> QED BY <2>3, <3>3, <3>7, <4>4 DEF t
    <3> QED BY <3>6, <3>7
  <2> QED BY <2>5, <2>6
<1>3. Len(evs) \in 0..Len(evs) BY <1>0
<1>4. Good(WithoutVerdicts(evs), Len(evs))
  <2> HIDE DEF Good
  <2> QED BY <1>1, <1>2, <1>3
<1> QED BY <1>4
=============================================================================
