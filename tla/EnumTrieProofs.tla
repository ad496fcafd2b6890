--------------------------- MODULE EnumTrieProofs ---------------------------
(***************************************************************************)
(* The binary search of EnumTrie answers for all members, though it looks  *)
(* at one, for every set of strings.                                       *)
(***************************************************************************)
EXTENDS EnumTrie, FiniteSetTheorems, SequenceTheorems, WellFoundedInduction, TLAPS

(* Every byte has its place in the order. *)
LEMMA RankType == \A b \in Byte : Rank[b] \in Nat
<1> DEFINE Placed(b) == \E i \in 1..Len(ByteOrder) : ByteOrder[i] = b
<1>1. Len(ByteOrder) = 40 BY DEF ByteOrder
<1>2. /\ ByteOrder[1] = "control" /\ ByteOrder[2] = "newline" /\ ByteOrder[3] = "space" /\ ByteOrder[4] = "quote"
      /\ ByteOrder[5] = "+" /\ ByteOrder[7] = "-" /\ ByteOrder[8] = "."
  BY DEF ByteOrder
<1>3. /\ ByteOrder[9] = "slash" /\ ByteOrder[10] = "0" /\ ByteOrder[11] = "1" /\ ByteOrder[12] = "2"
      /\ ByteOrder[13] = "3" /\ ByteOrder[14] = "4" /\ ByteOrder[15] = "5" /\ ByteOrder[16] = "6"
  BY DEF ByteOrder
<1>4. /\ ByteOrder[17] = "7" /\ ByteOrder[18] = "8" /\ ByteOrder[19] = "9" /\ ByteOrder[20] = ":"
      /\ ByteOrder[21] = "[" /\ ByteOrder[22] = "backslash" /\ ByteOrder[23] = "]" /\ ByteOrder[24] = "a"
  BY DEF ByteOrder
<1>5. /\ ByteOrder[25] = "b" /\ ByteOrder[26] = "c" /\ ByteOrder[27] = "d" /\ ByteOrder[28] = "e"
      /\ ByteOrder[29] = "f" /\ ByteOrder[30] = "l" /\ ByteOrder[31] = "n" /\ ByteOrder[32] = "r"
  BY DEF ByteOrder
<1>6. /\ ByteOrder[33] = "s" /\ ByteOrder[34] = "t" /\ ByteOrder[35] = "u" /\ ByteOrder[36] = "x"
      /\ ByteOrder[39] = "cont" /\ ByteOrder[40] = "lead"
  BY DEF ByteOrder
<1> HIDE DEF ByteOrder
<1>7. \A i \in 1..40 : Placed(ByteOrder[i]) BY <1>1
<1> HIDE DEF Placed
<1>8. /\ Placed("control") /\ Placed("newline") /\ Placed("space") /\ Placed("quote")
      /\ Placed("+") /\ Placed("-") /\ Placed(".")
  BY <1>2, <1>7
<1>9. /\ Placed("slash") /\ Placed("0") /\ Placed("1") /\ Placed("2")
      /\ Placed("3") /\ Placed("4") /\ Placed("5") /\ Placed("6")
  BY <1>3, <1>7
<1>10. /\ Placed("7") /\ Placed("8") /\ Placed("9") /\ Placed(":")
      /\ Placed("[") /\ Placed("backslash") /\ Placed("]") /\ Placed("a")
  BY <1>4, <1>7
<1>11. /\ Placed("b") /\ Placed("c") /\ Placed("d") /\ Placed("e")
      /\ Placed("f") /\ Placed("l") /\ Placed("n") /\ Placed("r")
  BY <1>5, <1>7
<1>12. /\ Placed("s") /\ Placed("t") /\ Placed("u") /\ Placed("x")
      /\ Placed("cont") /\ Placed("lead")
  BY <1>6, <1>7
<1>13. Placed(",") /\ Placed("{") /\ Placed("}")
  <2>1. ByteOrder[6] = "," /\ ByteOrder[37] = "{" /\ ByteOrder[38] = "}" BY Zenon DEF ByteOrder
  <2>2. 6 \in 1..40 /\ 37 \in 1..40 /\ 38 \in 1..40 OBVIOUS
  <2> QED BY <1>7, <2>1, <2>2, Zenon
<1>14. \A b \in Byte : Placed(b)
  BY <1>8, <1>9, <1>10, <1>11, <1>12, <1>13
     DEF Byte, Control, Delimiter, Whitespace, DigitByte, NonZero
<1> QED BY <1>1, <1>14 DEF Rank, Placed

(* The order of the strings is strict. *)
LEMMA LessTransitive ==
  ASSUME NEW r \in Seq(Byte), NEW s \in Seq(Byte), NEW t \in Seq(Byte), Less(r, s), Less(s, t)
  PROVE  Less(r, t)
<1>1. PICK k \in 1..Len(s) : /\ k <= Len(r) + 1 /\ \A i \in 1..(k - 1) : r[i] = s[i]
                             /\ k <= Len(r) => Rank[r[k]] < Rank[s[k]]
  BY DEF Less
<1>2. PICK m \in 1..Len(t) : /\ m <= Len(s) + 1 /\ \A i \in 1..(m - 1) : s[i] = t[i]
                             /\ m <= Len(s) => Rank[s[m]] < Rank[t[m]]
  BY DEF Less
<1>3. CASE k < m
  <2>1. k \in 1..Len(t) /\ s[k] = t[k] BY <1>1, <1>2, <1>3
  <2>2. \A i \in 1..(k - 1) : r[i] = t[i] BY <1>1, <1>2, <1>3
  <2> QED BY <1>1, <2>1, <2>2 DEF Less
<1>4. CASE m < k
  <2>1. m <= Len(r) /\ m <= Len(s) /\ r[m] = s[m] BY <1>1, <1>2, <1>4
  <2>2. \A i \in 1..(m - 1) : r[i] = t[i] BY <1>1, <1>2, <1>4
  <2> QED BY <1>2, <2>1, <2>2 DEF Less
<1>5. CASE k = m
  <2>1. \A i \in 1..(k - 1) : r[i] = t[i] BY <1>1, <1>2, <1>5
  <2>2. k <= Len(r) => Rank[r[k]] < Rank[t[k]]
    <3> SUFFICES ASSUME k <= Len(r) PROVE Rank[r[k]] < Rank[t[k]] OBVIOUS
    <3>1. r[k] \in Byte /\ s[k] \in Byte /\ t[k] \in Byte BY <1>1, <1>2, <1>5
    <3>2. Rank[r[k]] < Rank[s[k]] /\ Rank[s[k]] < Rank[t[k]] BY <1>1, <1>2, <1>5
    <3>3. Rank[r[k]] \in Nat /\ Rank[s[k]] \in Nat /\ Rank[t[k]] \in Nat BY <3>1, RankType
    <3> QED BY <3>2, <3>3
  <2> QED BY <1>1, <1>2, <1>5, <2>1, <2>2 DEF Less
<1> QED BY <1>1, <1>2, <1>3, <1>4, <1>5

(* No string is smaller than itself. *)
LEMMA LessIrreflexive ==
  ASSUME NEW s \in Seq(Byte)
  PROVE  ~Less(s, s)
<1> SUFFICES ASSUME Less(s, s) PROVE FALSE OBVIOUS
<1>1. PICK k \in 1..Len(s) : k <= Len(s) => Rank[s[k]] < Rank[s[k]] BY DEF Less
<1>2. s[k] \in Byte OBVIOUS
<1>3. Rank[s[k]] \in Nat BY <1>2, RankType
<1> QED BY <1>1, <1>3

(* A downward closed set of positions is an interval as long as the set.   *)
LEMMA Downward ==
  ASSUME NEW n \in Nat, NEW L \in SUBSET (1..n), \A i, j \in 1..n : i < j /\ j \in L => i \in L
  PROVE  /\ Cardinality(L) \in 0..n
         /\ \A i \in 1..n : i \in L <=> i <= Cardinality(L)
<1> DEFINE out == (1..(n + 1)) \ L
           least == OpToRel(<, Nat)
<1>1. out \subseteq Nat /\ out # {} OBVIOUS
<1>2. PICK m \in out : \A j \in out : ~(<<j, m>> \in least)
  <2> HIDE DEF out
  <2> QED BY <1>1, NatLessThanWellFounded, WFMin
<1>3. \A j \in out : ~(j < m)
  BY <1>1, <1>2 DEF OpToRel
<1>4. m \in 1..(n + 1) /\ m \notin L
  BY <1>2
<1>5. L = 1..(m - 1)
  <2>1. ASSUME NEW i \in 1..(m - 1) PROVE i \in L
    <3>1. i \in 1..(n + 1) /\ i < m BY <1>4
    <3> QED BY <1>3, <3>1
  <2>2. ASSUME NEW i \in L PROVE i \in 1..(m - 1)
    <3>1. i \in 1..n /\ i # m BY <1>4
    <3>2. ~(m < i) BY <1>4, <3>1
    <3> QED BY <1>4, <3>1, <3>2
  <2> QED BY <2>1, <2>2
<1>6. Cardinality(L) = m - 1 BY <1>4, <1>5, FS_Interval
<1> QED BY <1>4, <1>5, <1>6

(* The insertion point: the first member that is not smaller.              *)
LEMMA PlaceIsFirst ==
  ASSUME NEW strings, Ascending(strings), NEW text \in Seq(Byte)
  PROVE  /\ Place(strings, text) \in 1..(Len(strings) + 1)
         /\ \A i \in 1..Len(strings) : Less(strings[i], text) <=> i < Place(strings, text)
<1> DEFINE n == Len(strings)
           L == { i \in DOMAIN strings : Less(strings[i], text) }
<1>1. n \in Nat /\ DOMAIN strings = 1..n /\ \A i \in 1..n : strings[i] \in Seq(Byte) BY DEF Ascending
<1>2. L \in SUBSET (1..n) BY <1>1
<1>3. \A i, j \in 1..n : i < j /\ j \in L => i \in L BY <1>1, LessTransitive DEF Ascending
<1> HIDE DEF L
<1>4. Cardinality(L) \in 0..n /\ \A i \in 1..n : i \in L <=> i <= Cardinality(L)
  BY <1>1, <1>2, <1>3, Downward
<1>5. Place(strings, text) = 1 + Cardinality(L) BY DEF Place, L
<1>6. \A i \in 1..n : i \in L <=> Less(strings[i], text) BY <1>1 DEF L
<1> QED BY <1>1, <1>4, <1>5, <1>6

(* EnumTrie::prefix_is_live, "Sound in both directions: `true` means some  *)
(* member has this prefix, `false` means none can".                        *)
THEOREM PrefixIsLiveCorrect ==
  ASSUME NEW strings, Ascending(strings), NEW prefix \in Seq(Byte)
  PROVE  PrefixIsLive(strings, prefix) <=> \E i \in 1..Len(strings) : IsPrefix(prefix, strings[i])
<1> DEFINE n == Len(strings)
           p == Place(strings, prefix)
<1>1. n \in Nat /\ DOMAIN strings = 1..n /\ \A i \in 1..n : strings[i] \in Seq(Byte) BY DEF Ascending
<1>2. p \in 1..(n + 1) /\ \A i \in 1..n : Less(strings[i], prefix) <=> i < p BY PlaceIsFirst
<1> HIDE DEF p
<1>3. ASSUME NEW m \in 1..n, IsPrefix(prefix, strings[m])
      PROVE  p \in 1..n /\ IsPrefix(prefix, strings[p])
  <2>1. Len(prefix) <= Len(strings[m]) /\ \A i \in 1..Len(prefix) : strings[m][i] = prefix[i]
    <3>1. SubSeq(prefix, 1, Len(prefix)) = SubSeq(strings[m], 1, Len(prefix))
          /\ Len(prefix) <= Len(strings[m])
      BY <1>3 DEF IsPrefix
    <3>2. \A i \in 1..Len(prefix) : SubSeq(prefix, 1, Len(prefix))[i] = prefix[i] OBVIOUS
    <3>3. \A i \in 1..Len(prefix) : SubSeq(strings[m], 1, Len(prefix))[i] = strings[m][i]
      BY <1>1, <3>1
    <3> QED BY <3>1, <3>2, <3>3
  <2>2. ~Less(strings[m], prefix)
    <3> SUFFICES ASSUME NEW k \in 1..Len(prefix), k <= Len(strings[m]) => Rank[strings[m][k]] < Rank[prefix[k]]
                 PROVE FALSE
      BY DEF Less
    <3>1. Rank[prefix[k]] < Rank[prefix[k]] BY <1>1, <2>1
    <3>2. Rank[prefix[k]] \in Nat BY RankType
    <3> QED BY <3>1, <3>2
  <2>3. p <= m BY <1>1, <1>2, <2>2
  <2>4. p \in 1..n BY <1>1, <1>2, <2>3
  <2>5. CASE p = m BY <1>3, <2>4, <2>5
  <2>6. CASE p < m
    <3> DEFINE s == strings[p]
               t == strings[m]
    <3>1. s \in Seq(Byte) /\ t \in Seq(Byte) /\ Less(s, t) /\ ~Less(s, prefix)
      BY <1>1, <1>2, <2>4, <2>6 DEF Ascending
    <3>2. PICK k \in 1..Len(t) : /\ k <= Len(s) + 1 /\ \A i \in 1..(k - 1) : s[i] = t[i]
                                 /\ k <= Len(s) => Rank[s[k]] < Rank[t[k]]
      BY <3>1 DEF Less
    <3>3. Len(prefix) < k
      <4> SUFFICES ASSUME k \in 1..Len(prefix) PROVE FALSE BY <3>1, <3>2
      <4>1. \A i \in 1..(k - 1) : s[i] = prefix[i] BY <2>1, <3>2
      <4>2. k <= Len(s) => Rank[s[k]] < Rank[prefix[k]] BY <2>1, <3>2
      <4> QED BY <3>1, <3>2, <4>1, <4>2 DEF Less
    <3>4. Len(prefix) <= Len(s) /\ \A i \in 1..Len(prefix) : s[i] = prefix[i]
      BY <2>1, <3>1, <3>2, <3>3
    <3> HIDE DEF s, t
    <3>5. SubSeq(prefix, 1, Len(prefix)) = SubSeq(s, 1, Len(prefix))
      BY <3>1, <3>4
    <3> QED BY <2>4, <3>4, <3>5 DEF IsPrefix, s
  <2> QED BY <1>1, <2>3, <2>4, <2>5, <2>6
<1>4. PrefixIsLive(strings, prefix) <=> p \in 1..n /\ IsPrefix(prefix, strings[p])
  BY <1>1 DEF PrefixIsLive, p
<1> QED BY <1>3, <1>4

(* EnumTrie::contains: the search finds a member exactly if there is one.  *)
THEOREM ContainsMemberCorrect ==
  ASSUME NEW strings, Ascending(strings), NEW text \in Seq(Byte)
  PROVE  ContainsMember(strings, text) <=> \E i \in 1..Len(strings) : strings[i] = text
<1> DEFINE n == Len(strings)
           p == Place(strings, text)
<1>1. n \in Nat /\ DOMAIN strings = 1..n BY DEF Ascending
<1>2. p \in 1..(n + 1) /\ \A i \in 1..n : Less(strings[i], text) <=> i < p BY PlaceIsFirst
<1> HIDE DEF p
<1>3. ASSUME NEW m \in 1..n, strings[m] = text
      PROVE  p = m
  <2>1. ~(m < p) BY <1>2, <1>3, LessIrreflexive
  <2>2. ~(p < m) BY <1>1, <1>2, <1>3 DEF Ascending
  <2> QED BY <1>1, <1>2, <2>1, <2>2
<1>4. ContainsMember(strings, text) <=> p \in 1..n /\ strings[p] = text
  BY <1>1 DEF ContainsMember, p
<1> QED BY <1>1, <1>3, <1>4
=============================================================================
