---------------------------- MODULE StreamProofs ----------------------------
(***************************************************************************)
(* Theorems about what a caller sees: the events come in order, they       *)
(* mirror the snapshots, and what is complete stays so.                    *)
(*                                                                         *)
(* A snapshot is a tree, of which the model takes the set of nodes.  Every *)
(* node is complete and in the log, or an open frame, or the token; and    *)
(* while no key is repeated these are all nodes.                           *)
(***************************************************************************)
EXTENDS LogProofs, FiniteSetTheorems

(* Looking up a child: the first of that token. *)
IsContainer(v) ==
  /\ v # None /\ v.type \in ContainerTypes /\ IsSequence(v.data)
  /\ \A j \in 1..Len(v.data) : IsChild(v.type, j, v.data[j])

FirstOf(v, t, j) == v.data[j].token = t /\ \A i \in 1..Len(v.data) : v.data[i].token = t => j <= i

LEMMA ChildFound ==
  ASSUME NEW v, IsContainer(v), NEW t \in ChildrenOf(v)
  PROVE  \E j \in 1..Len(v.data) : FirstOf(v, t, j) /\ Child(v, t) = v.data[j].value
<1> DEFINE I == { i \in 1..Len(v.data) : v.data[i].token = t }
<1>1. v # None /\ v.type \in {"Object", "Array"} /\ IsSequence(v.data) /\ Len(v.data) \in Nat
      /\ DOMAIN v.data = 1..Len(v.data)
      /\ \A j \in 1..Len(v.data) : IsChild(v.type, j, v.data[j])
  BY DEF IsContainer, ContainerTypes, IsSequence
<1>2. ChildrenOf(v) = { v.data[i].token : i \in 1..Len(v.data) } BY <1>1 DEF ChildrenOf
<1>3. I # {} /\ I \subseteq Nat BY <1>1, <1>2
<1> HIDE DEF I
<1>4. PICK j \in I : \A i \in I : j <= i BY <1>3, LeastNumber
<1>5. j \in 1..Len(v.data) /\ FirstOf(v, t, j) BY <1>4 DEF I, FirstOf
<1>6. j # 0 BY <1>5
<1>7. ChildIndex(v, t) = j
  <2>1. CASE v.type = "Object"
    <3>1. ChildIndex(v, t) = SelectInSeq(v.data, LAMBDA c : c.token = t) BY <2>1 DEF ChildIndex
    <3>2. SelectInSeq(v.data, LAMBDA c : c.token = t) = Min(I)
      BY <1>3 DEF SelectInSeq, I
    <3>3. Min(I) \in I /\ \A i \in I : Min(I) <= i BY <1>4 DEF Min
    <3>4. Min(I) \in Nat /\ j \in Nat /\ Min(I) <= j /\ j <= Min(I) BY <1>3, <1>4, <3>3
    <3>5. Min(I) = j
      <4> DEFINE least == Min(I)
      <4>1. least \in Nat /\ j \in Nat /\ least <= j /\ j <= least BY <3>4
      <4> HIDE DEF least
      <4>2. least = j BY <4>1
      <4> QED BY <4>2 DEF least
    <3> QED BY <3>1, <3>2, <3>5
  <2>2. CASE v.type = "Array"
    <3>1. t = Decimal(j - 1) BY <1>1, <1>5, <2>2 DEF IsChild, FirstOf
    <3>2. IndexOf(t) + 1 = j BY <1>5, <3>1, IndexOfDecimal
    <3> QED BY <1>5, <2>2, <3>2 DEF ChildIndex
  <2> QED BY <1>1, <2>1, <2>2
<1> QED BY <1>1, <1>5, <1>6, <1>7 DEF Child

LEMMA ChildOfEach ==
  ASSUME NEW v, IsContainer(v), NEW j \in 1..Len(v.data)
  PROVE  /\ v.data[j].token \in ChildrenOf(v)
         /\ ~Doubled(v.data) => Child(v, v.data[j].token) = v.data[j].value
         /\ v.type = "Array" => Child(v, v.data[j].token) = v.data[j].value
<1>1. v.type \in {"Object", "Array"} /\ IsSequence(v.data) /\ Len(v.data) \in Nat
      /\ DOMAIN v.data = 1..Len(v.data)
      /\ \A i \in 1..Len(v.data) : IsChild(v.type, i, v.data[i])
  BY DEF IsContainer, ContainerTypes, IsSequence
<1>2. v.data[j].token \in ChildrenOf(v) BY <1>1 DEF ChildrenOf
<1>3. PICK i \in 1..Len(v.data) : FirstOf(v, v.data[j].token, i)
                                  /\ Child(v, v.data[j].token) = v.data[i].value
  BY <1>2, ChildFound
<1>4. v.data[i].token = v.data[j].token BY <1>3 DEF FirstOf
<1>5. ~Doubled(v.data) => i = j BY <1>4 DEF Doubled
<1>6. v.type = "Array" => i = j
  <2> SUFFICES ASSUME v.type = "Array" PROVE i = j OBVIOUS
  <2>1. v.data[i].token = Decimal(i - 1) /\ v.data[j].token = Decimal(j - 1) BY <1>1 DEF IsChild
  <2>2. IndexOf(Decimal(i - 1)) = i - 1 /\ IndexOf(Decimal(j - 1)) = j - 1
    <3>1. i - 1 \in Nat /\ j - 1 \in Nat BY <1>1
    <3> QED BY <3>1, IndexOfDecimal
  <2>3. i - 1 = j - 1 BY <1>4, <2>1, <2>2
  <2> QED BY <1>1, <2>3
<1> QED BY <1>2, <1>3, <1>5, <1>6

(* A key is repeated where there are fewer tokens than children. *)
LEMMA TokensCounted ==
  ASSUME NEW v, v.type = "Object", IsSequence(v.data)
  PROVE  Cardinality(ChildrenOf(v)) < Len(v.data) <=> Doubled(v.data)
<1> DEFINE n == Len(v.data)
           T == ChildrenOf(v)
           f == [i \in 1..n |-> v.data[i].token]
<1>1. n \in Nat /\ DOMAIN v.data = 1..n BY DEF IsSequence
<1>2. T = { v.data[i].token : i \in 1..n } BY <1>1 DEF ChildrenOf
<1>3. f \in Surjection(1..n, T) BY <1>2 DEF Surjection
<1>4. IsFiniteSet(1..n) /\ Cardinality(1..n) = n BY <1>1, FS_Interval
<1> HIDE DEF T, f
<1>5. /\ IsFiniteSet(T) /\ Cardinality(T) <= n
      /\ Cardinality(T) = n <=> f \in Injection(1..n, T)
  BY <1>3, <1>4, FS_Surjection
<1>6. Cardinality(T) \in Nat BY <1>5, FS_CardinalityType
<1>7. f \in Injection(1..n, T) <=> ~Doubled(v.data)
  <2>1. f \in [1..n -> T] BY <1>3 DEF Surjection
  <2>2. f \in Injection(1..n, T) <=> \A i, j \in 1..n : f[i] = f[j] => i = j
    BY <2>1 DEF Injection, IsInjective
  <2>3. \A i \in 1..n : f[i] = v.data[i].token BY DEF f
  <2> QED BY <2>2, <2>3 DEF Doubled
<1> QED BY <1>1, <1>5, <1>6, <1>7 DEF T

-----------------------------------------------------------------------------
(* The containers under construction, from the innermost outwards. *)

Opened[i \in 1..Len(stack) + 1] ==
  IF i > Len(stack) THEN TokenValue ELSE Filled(stack[i], Opened[i + 1])

OpenedAt(f, i) == IF i > Len(stack) THEN TokenValue ELSE Filled(stack[i], f[i + 1])

LEMMA OpenedExists ==
  ASSUME Len(stack) \in Nat
  PROVE  \E f : f = [i \in 1..Len(stack) + 1 |-> OpenedAt(f, i)]
<1> DEFINE n == Len(stack)
           Good(f, m) == \A i \in (n + 1 - m)..(n + 1) : f[i] = OpenedAt(f, i)
           bad == { m \in 0..n : ~\E f : Good(f, m) }
<1>1. bad = {}
  <2>1. SUFFICES ASSUME bad # {} PROVE FALSE OBVIOUS
  <2>2. PICK m \in bad : \A k \in bad : m <= k
    <3> HIDE DEF bad
    <3>1. bad \subseteq Nat BY DEF bad
    <3> QED BY <2>1, <3>1, LeastNumber
  <2>3. m \in 0..n /\ \A k \in 0..n : k < m => \E f : Good(f, k) BY <2>2
  <2>4. \E f : Good(f, m)
    <3>1. CASE m = 0
      <4> DEFINE g == [i \in {n + 1} |-> TokenValue]
      <4>1. \A i \in (n + 1 - 0)..(n + 1) : i = n + 1 OBVIOUS
      <4>2. g[n + 1] = OpenedAt(g, n + 1) BY DEF OpenedAt
      <4> HIDE DEF g
      <4> QED BY <3>1, <4>1, <4>2
    <3>2. CASE m # 0
      <4>1. m - 1 \in 0..n /\ m - 1 < m BY <2>3, <3>2
      <4>2. PICK f : Good(f, m - 1) BY <2>3, <4>1
      <4> DEFINE k == n + 1 - m
                 g == [i \in k..(n + 1) |-> IF i = k THEN OpenedAt(f, k) ELSE f[i]]
      <4>3. /\ k \in 1..n
            /\ \A i \in k..(n + 1) : i # k => i \in (n + 1 - (m - 1))..(n + 1)
        <5>1. m \in 1..n /\ n \in Nat BY <2>3, <3>2
        <5>2. k \in 1..n BY <5>1
        <5>3. ASSUME NEW i \in k..(n + 1), i # k PROVE i \in (n + 1 - (m - 1))..(n + 1)
          BY <5>1, <5>3
        <5> QED BY <5>2, <5>3
      <4>4. \A i \in k..(n + 1) : g[i] = IF i = k THEN OpenedAt(f, k) ELSE f[i] OBVIOUS
      <4> HIDE DEF g
      <4>5. ASSUME NEW i \in k..(n + 1) PROVE OpenedAt(g, i) = OpenedAt(f, i)
        <5>1. CASE i > n BY <5>1 DEF OpenedAt
        <5>2. CASE i <= n
          <6>1. i + 1 \in k..(n + 1) /\ i + 1 # k BY <4>3, <5>2
          <6>2. g[i + 1] = f[i + 1] BY <4>4, <6>1
          <6> QED BY <6>2 DEF OpenedAt
        <5> QED BY <4>3, <5>1, <5>2
      <4>6. Good(g, m)
        <5> SUFFICES ASSUME NEW i \in k..(n + 1) PROVE g[i] = OpenedAt(f, i) BY <4>5
        <5>1. CASE i = k BY <4>4, <5>1
        <5>2. CASE i # k BY <4>2, <4>3, <4>4, <5>2
        <5> QED BY <5>1, <5>2
      <4> HIDE DEF Good
      <4> QED BY <4>6
    <3> QED BY <3>1, <3>2
  <2> QED BY <2>2, <2>4
<1>2. PICK f : Good(f, n)
  <2>1. n \in 0..n OBVIOUS
  <2> QED BY <1>1, <2>1
<1> DEFINE g == [i \in 1..n + 1 |-> f[i]]
<1>3. \A i \in 1..n + 1 : g[i] = f[i] OBVIOUS
<1>4. g = [i \in 1..n + 1 |-> g[i]] OBVIOUS
<1> HIDE DEF g
<1>5. ASSUME NEW i \in 1..n + 1 PROVE g[i] = OpenedAt(g, i)
  <2>1. i \in (n + 1 - n)..(n + 1) BY <1>5
  <2>2. g[i] = OpenedAt(f, i) BY <1>2, <1>3, <2>1
  <2>3. OpenedAt(g, i) = OpenedAt(f, i)
    <3>1. CASE i > n BY <3>1 DEF OpenedAt
    <3>2. CASE i <= n
      <4>1. i + 1 \in 1..n + 1 BY <3>2
      <4> QED BY <1>3, <4>1 DEF OpenedAt
    <3> QED BY <3>1, <3>2
  <2> QED BY <2>2, <2>3
<1>6. g = [i \in 1..n + 1 |-> OpenedAt(g, i)] BY <1>4, <1>5
<1> QED BY <1>6

LEMMA OpenedStep ==
  ASSUME Len(stack) \in Nat
  PROVE  /\ Opened[Len(stack) + 1] = TokenValue
         /\ \A i \in 1..Len(stack) : Opened[i] = Filled(stack[i], Opened[i + 1])
         /\ Snapshot = IF Opened[1] = None THEN root ELSE Opened[1]
<1>1. Opened = [i \in 1..Len(stack) + 1 |-> OpenedAt(Opened, i)]
  <2>1. Opened = CHOOSE f : f = [i \in 1..Len(stack) + 1 |-> OpenedAt(f, i)]
    BY Zenon DEF Opened, OpenedAt
  <2> QED BY <2>1, OpenedExists, Zenon
<1>2. Opened[Len(stack) + 1] = TokenValue
  <2>1. Len(stack) + 1 \in 1..Len(stack) + 1 /\ Len(stack) + 1 > Len(stack) OBVIOUS
  <2>2. Opened[Len(stack) + 1] = OpenedAt(Opened, Len(stack) + 1) BY <1>1, <2>1
  <2> QED BY <2>1, <2>2 DEF OpenedAt
<1>3. ASSUME NEW i \in 1..Len(stack) PROVE Opened[i] = Filled(stack[i], Opened[i + 1])
  <2>1. i \in 1..Len(stack) + 1 /\ ~(i > Len(stack)) OBVIOUS
  <2>2. Opened[i] = OpenedAt(Opened, i) BY <1>1, <2>1
  <2> QED BY <2>1, <2>2 DEF OpenedAt
<1>4. Snapshot = IF Opened[1] = None THEN root ELSE Opened[1] BY Zenon DEF Snapshot, Opened
<1> QED BY <1>2, <1>3, <1>4

-----------------------------------------------------------------------------
(* The nodes of a value, level by level. *)

Top(doc) == { [path |-> <<>>, value |-> v] : v \in {doc} \ {None} }

Levels(doc) ==
  LET at[d \in 0..MaxDepth + 1] ==
        IF d = 0 THEN { [path |-> <<>>, value |-> v] : v \in {doc} \ {None} }
        ELSE UNION { Below(n) : n \in at[d - 1] }
  IN  at

LevelAt(doc, f, d) == IF d = 0 THEN Top(doc) ELSE UNION { Below(n) : n \in f[d - 1] }

LEMMA LevelsExist ==
  ASSUME NEW doc, NEW top \in Nat
  PROVE  \E f : f = [d \in 0..top |-> LevelAt(doc, f, d)]
<1> DEFINE Good(f, m) == f = [d \in 0..m |-> LevelAt(doc, f, d)]
           bad == { m \in Nat : ~\E f : Good(f, m) }
<1>1. SUFFICES ASSUME bad # {} PROVE FALSE OBVIOUS
<1>2. PICK m \in bad : \A k \in bad : m <= k
  <2> HIDE DEF bad
  <2>1. bad \subseteq Nat BY DEF bad
  <2> QED BY <1>1, <2>1, LeastNumber
<1>3. m \in Nat /\ \A k \in Nat : k < m => \E f : Good(f, k) BY <1>2
<1>4. \E f : Good(f, m)
  <2>1. CASE m = 0
    <3> DEFINE g == [d \in 0..0 |-> Top(doc)]
    <3>1. \A d \in 0..0 : LevelAt(doc, g, d) = Top(doc) BY DEF LevelAt
    <3>2. g = [d \in 0..0 |-> LevelAt(doc, g, d)]
      <4> DEFINE h == [d \in 0..0 |-> LevelAt(doc, g, d)]
      <4>1. h = [d \in 0..0 |-> Top(doc)] BY <3>1
      <4> QED BY <4>1
    <3> QED BY <2>1, <3>2
  <2>2. CASE m # 0
    <3>1. m - 1 \in Nat /\ m - 1 < m BY <1>3, <2>2
    <3>2. PICK f : Good(f, m - 1) BY <1>3, <3>1
    <3> DEFINE g == [d \in 0..m |-> IF d = m THEN LevelAt(doc, f, m) ELSE f[d]]
    <3>3. \A d \in 0..m : g[d] = IF d = m THEN LevelAt(doc, f, m) ELSE f[d] OBVIOUS
    <3>4. g = [d \in 0..m |-> g[d]] OBVIOUS
    <3>5. \A d \in 0..(m - 1) : f[d] = LevelAt(doc, f, d)
      <4> DEFINE L(d) == LevelAt(doc, f, d)
      <4>1. f = [d \in 0..(m - 1) |-> L(d)] BY <3>2
      <4> HIDE DEF L
      <4>2. \A d \in 0..(m - 1) : f[d] = L(d) BY <4>1
      <4> QED BY <4>2 DEF L
    <3> HIDE DEF g
    <3>6. ASSUME NEW d \in 0..m PROVE LevelAt(doc, g, d) = LevelAt(doc, f, d)
      <4>1. d # 0 => d - 1 \in 0..m /\ d - 1 # m BY <1>3
      <4>2. d # 0 => g[d - 1] = f[d - 1] BY <3>3, <4>1
      <4> QED BY <4>2 DEF LevelAt
    <3>7. \A d \in 0..m : g[d] = LevelAt(doc, g, d)
      <4> SUFFICES ASSUME NEW d \in 0..m PROVE g[d] = LevelAt(doc, f, d) BY <3>6
      <4>1. CASE d = m BY <3>3, <4>1
      <4>2. CASE d # m
        <5>1. d \in 0..(m - 1) BY <1>3, <4>2
        <5> QED BY <3>3, <3>5, <4>2, <5>1
      <4> QED BY <4>1, <4>2
    <3>8. g = [d \in 0..m |-> LevelAt(doc, g, d)]
      <4> DEFINE L(d) == LevelAt(doc, g, d)
      <4>1. \A d \in 0..m : g[d] = L(d) BY <3>7
      <4> HIDE DEF L
      <4>2. g = [d \in 0..m |-> L(d)] BY <3>4, <4>1
      <4> QED BY <4>2 DEF L
    <3> QED BY <3>8
  <2> QED BY <2>1, <2>2
<1> QED BY <1>2, <1>4

LEMMA LevelsStep ==
  ASSUME NEW doc
  PROVE  /\ Levels(doc)[0] = Top(doc)
         /\ \A d \in 1..(MaxDepth + 1) : Levels(doc)[d] = UNION { Below(n) : n \in Levels(doc)[d - 1] }
         /\ NodesOf(doc) = UNION { Levels(doc)[d] : d \in 0..MaxDepth + 1 }
<1> DEFINE at == Levels(doc)
<1>0. MaxDepth + 1 \in Nat BY ParserAssumption
<1>1. at = [d \in 0..MaxDepth + 1 |-> LevelAt(doc, at, d)]
  <2>1. at = CHOOSE f : f = [d \in 0..MaxDepth + 1 |-> LevelAt(doc, f, d)]
    BY Zenon DEF Levels, LevelAt, Top
  <2>2. \E f : f = [d \in 0..MaxDepth + 1 |-> LevelAt(doc, f, d)] BY <1>0, LevelsExist
  <2> HIDE DEF at
  <2> QED BY <2>1, <2>2, Zenon
<1>2. NodesOf(doc) = UNION { at[d] : d \in 0..MaxDepth + 1 } BY Zenon DEF NodesOf, Levels
<1> HIDE DEF at
<1>3. \A d \in 0..MaxDepth + 1 : at[d] = LevelAt(doc, at, d)
  <2> DEFINE L(d) == LevelAt(doc, at, d)
  <2>1. at = [d \in 0..MaxDepth + 1 |-> L(d)] BY <1>1
  <2> HIDE DEF L
  <2>2. \A d \in 0..MaxDepth + 1 : at[d] = L(d) BY <2>1
  <2> QED BY <2>2 DEF L
<1>4. at[0] = Top(doc)
  <2>1. at[0] = LevelAt(doc, at, 0) BY <1>0, <1>3
  <2> QED BY <2>1 DEF LevelAt
<1>5. ASSUME NEW d \in 1..(MaxDepth + 1) PROVE at[d] = UNION { Below(n) : n \in at[d - 1] }
  <2>1. d \in 0..MaxDepth + 1 /\ d # 0 BY <1>0
  <2>2. at[d] = LevelAt(doc, at, d) BY <1>3, <2>1
  <2> QED BY <2>1, <2>2 DEF LevelAt
<1> QED BY <1>2, <1>4, <1>5 DEF at

(* The root is a node, the children of a node are nodes, and every node is *)
(* one of these.                                                           *)
AtLevel(n, d) == n \in Levels(Snapshot)[d]

LEMMA NodeLevels ==
  /\ \A n : n \in Nodes <=> \E d \in 0..MaxDepth + 1 : AtLevel(n, d)
  /\ \A n : AtLevel(n, 0) <=> Snapshot # None /\ n = [path |-> <<>>, value |-> Snapshot]
  /\ \A d \in 1..(MaxDepth + 1) : \A n : AtLevel(n, d) <=>
       \E m : AtLevel(m, d - 1) /\ \E t \in ChildrenOf(m.value) :
         n = [path |-> Append(m.path, t), value |-> Child(m.value, t)]
<1>1. Nodes = NodesOf(Snapshot) BY DEF Nodes, Once
<1>2. \A n : n \in Nodes <=> \E d \in 0..MaxDepth + 1 : AtLevel(n, d)
  <2>1. NodesOf(Snapshot) = UNION { Levels(Snapshot)[d] : d \in 0..MaxDepth + 1 } BY LevelsStep
  <2> QED BY <1>1, <2>1, Zenon DEF AtLevel
<1>3. \A n : AtLevel(n, 0) <=> Snapshot # None /\ n = [path |-> <<>>, value |-> Snapshot]
  BY LevelsStep DEF AtLevel, Top
<1>4. ASSUME NEW d \in 1..(MaxDepth + 1), NEW n
      PROVE  AtLevel(n, d) <=>
               \E m : AtLevel(m, d - 1) /\ \E t \in ChildrenOf(m.value) :
                 n = [path |-> Append(m.path, t), value |-> Child(m.value, t)]
  <2>1. Levels(Snapshot)[d] = UNION { Below(m) : m \in Levels(Snapshot)[d - 1] } BY LevelsStep
  <2>2. AtLevel(n, d) <=> \E m : AtLevel(m, d - 1) /\ n \in Below(m) BY <2>1, Zenon DEF AtLevel
  <2>3. \A m : n \in Below(m) <=> \E t \in ChildrenOf(m.value) :
                 n = [path |-> Append(m.path, t), value |-> Child(m.value, t)]
    BY DEF Below
  <2> QED BY <2>2, <2>3
<1> QED BY <1>2, <1>3, <1>4

-----------------------------------------------------------------------------
(* What the snapshot makes of the stack. *)

LEMMA TokenValueIs ==
  ASSUME Inv, NoneIsNoValue
  PROVE  /\ InFlight => TokenValue # None /\ TokenValue.type \in Partial /\ ChildrenOf(TokenValue) = {}
         /\ ~InFlight => TokenValue = None
<1>1. tok.type = "Str" => tok.is_key \in BOOLEAN BY StrFields DEF Inv, TokenOK
<1>2. CASE Growing
  <2>1. TokenValue = Scalar("PartialString", Stable) BY <1>2 DEF TokenValue, Growing
  <2> QED BY <1>2, <2>1 DEF InFlight, Scalar, Partial, ChildrenOf, NoneIsNoValue
<1>3. CASE tok.type = "Num"
  <2>1. TokenValue = Scalar("PartialNumber", tok.text) BY <1>3 DEF TokenValue
  <2> QED BY <1>3, <2>1 DEF InFlight, Scalar, Partial, ChildrenOf, NoneIsNoValue
<1>4. CASE tok.type = "Lit"
  <2>1. TokenValue = Scalar("PartialLiteral", tok.text) BY <1>4 DEF TokenValue
  <2> QED BY <1>4, <2>1 DEF InFlight, Scalar, Partial, ChildrenOf, NoneIsNoValue
<1>5. CASE ~InFlight BY <1>1, <1>5 DEF InFlight, Growing, TokenValue
<1> QED BY <1>2, <1>3, <1>4, <1>5 DEF InFlight

LEMMA StackShape ==
  ASSUME Inv
  PROVE  /\ Len(stack) \in Nat /\ (stack = <<>> <=> Len(stack) = 0)
         /\ \A k \in 1..Len(stack) : /\ IsFrame(stack[k]) /\ IsSequence(stack[k].children)
                                     /\ stack[k].kind \in ContainerTypes /\ Len(stack[k].children) \in Nat
BY NonEmptySequence DEF Inv, TreeOK, IsStack, IsFrame, IsSequence, ContainerTypes

(* A frame is a container of what was filed, and of what is in its slot.   *)
LEMMA OpenedFrame ==
  ASSUME Inv, LogInv, NoneIsNoValue, NEW k \in 1..Len(stack)
  PROVE  /\ IsContainer(Opened[k]) /\ Opened[k].type = stack[k].kind
         /\ ~SlotTaken(k) => Opened[k].data = stack[k].children
         /\ SlotTaken(k) => Opened[k].data = Append(stack[k].children,
                               [token |-> SlotToken(stack[k]), value |-> Opened[k + 1]])
<1> DEFINE f == stack[k]
           c == [token |-> SlotToken(f), value |-> Opened[k + 1]]
           more == Append(f.children, c)
<1>1. /\ Len(stack) \in Nat /\ IsFrame(f) /\ IsSequence(f.children) /\ f.kind \in ContainerTypes
      /\ Len(f.children) \in Nat
  BY StackShape
<1>2. /\ Opened[Len(stack) + 1] = TokenValue
      /\ \A i \in 1..Len(stack) : Opened[i] = Filled(stack[i], Opened[i + 1])
  BY <1>1, OpenedStep
<1>3. \A i \in 1..Len(stack) : Opened[i] # None
  BY <1>2 DEF Filled, Container, NoneIsNoValue
<1>4. Opened[k + 1] = None <=> ~SlotTaken(k)
  <2>1. CASE k < Len(stack)
    <3>1. k + 1 \in 1..Len(stack) BY <1>1, <2>1
    <3> QED BY <1>3, <2>1, <3>1 DEF SlotTaken
  <2>2. CASE k = Len(stack) BY <1>1, <1>2, <2>2, TokenValueIs DEF SlotTaken
  <2> QED BY <1>1, <2>1, <2>2
<1>5. Opened[k] = Container(IF SlotTaken(k) THEN Filed(f, Opened[k + 1]) ELSE f)
  BY <1>2, <1>4 DEF Filled
<1>6. /\ Opened[k].type = f.kind
      /\ ~SlotTaken(k) => Opened[k].data = f.children
      /\ SlotTaken(k) => Opened[k].data = more
  BY <1>5 DEF Container, Filed
<1>7. \A j \in 1..Len(f.children) : IsChild(f.kind, j, f.children[j]) BY DEF LogInv, FramesShaped
<1>8. IsChild(f.kind, Len(f.children) + 1, c) BY <1>1, FiledIsChild
<1> HIDE DEF c
<1>9. /\ IsSequence(more) /\ Len(more) = Len(f.children) + 1 /\ more[Len(f.children) + 1] = c
      /\ \A j \in 1..Len(f.children) : more[j] = f.children[j]
  BY <1>1, AppendSequence
<1> HIDE DEF more
<1>10. \A j \in 1..Len(more) : IsChild(f.kind, j, more[j])
  <2> SUFFICES ASSUME NEW j \in 1..Len(more) PROVE IsChild(f.kind, j, more[j]) OBVIOUS
  <2>1. j \in 1..Len(f.children) \/ j = Len(f.children) + 1 BY <1>1, <1>9
  <2> QED BY <1>7, <1>8, <1>9, <2>1
<1>11. IsContainer(Opened[k])
  <2>1. CASE SlotTaken(k) BY <1>1, <1>3, <1>6, <1>9, <1>10, <2>1 DEF IsContainer
  <2>2. CASE ~SlotTaken(k) BY <1>1, <1>3, <1>6, <1>7, <2>2 DEF IsContainer
  <2> QED BY <2>1, <2>2
<1> QED BY <1>6, <1>11 DEF more, c

LEMMA FrameSteps ==
  ASSUME Inv, stack # <<>>
  PROVE  /\ FramePath(path_prefix, 1) = <<>> /\ 1 \in 1..Len(stack)
         /\ \A k \in 1..(Len(stack) - 1) :
              FramePath(path_prefix, k + 1) = Append(FramePath(path_prefix, k), SlotToken(stack[k]))
         /\ SlotPath = Append(FramePath(path_prefix, Len(stack)), SlotToken(stack[Len(stack)]))
<1> DEFINE n == Len(stack)
           p(k) == FramePath(path_prefix, k)
<1>1. IsStack(stack) /\ IsSequence(path_prefix) /\ CacheAgrees(stack, path_prefix)
  BY DEF Inv, TreeOK, PathCache
<1>2. /\ n \in Nat \ {0} /\ p(n) = path_prefix /\ Len(path_prefix) = n - 1
      /\ \A k \in 1..n : /\ IsSequence(p(k)) /\ Len(p(k)) = k - 1
                         /\ \A i \in 1..(k - 1) : p(k)[i] = path_prefix[i]
      /\ SlotPath = Append(path_prefix, SlotToken(stack[n]))
  BY <1>1, FramePaths DEF SlotPath
<1> HIDE DEF p
<1>3. 1 \in 1..n /\ p(1) = <<>>
  <2>1. 1 \in 1..n /\ IsSequence(p(1)) /\ Len(p(1)) = 0 BY <1>2
  <2> QED BY <2>1, NonEmptySequence
<1>4. ASSUME NEW k \in 1..(n - 1) PROVE p(k + 1) = Append(p(k), SlotToken(stack[k]))
  <2> DEFINE a == p(k + 1)
             b == Append(p(k), SlotToken(stack[k]))
  <2>1. k \in 1..n /\ k + 1 \in 1..n /\ k + 1 - 1 = k BY <1>2
  <2>2. IsSequence(a) /\ Len(a) = k /\ \A i \in 1..k : a[i] = path_prefix[i] BY <1>2, <2>1
  <2>3. IsSequence(p(k)) /\ Len(p(k)) = k - 1 /\ \A i \in 1..(k - 1) : p(k)[i] = path_prefix[i]
    BY <1>2, <2>1
  <2>4. /\ IsSequence(b) /\ Len(b) = k /\ b[k] = SlotToken(stack[k])
        /\ \A i \in 1..(k - 1) : b[i] = p(k)[i]
    BY <2>3, AppendSequence
  <2>5. path_prefix[k] = SlotToken(stack[k]) BY <1>1 DEF CacheAgrees
  <2>6. \A i \in 1..k : i \in 1..(k - 1) \/ i = k BY <2>1
  <2> HIDE DEF a, b
  <2>7. \A i \in 1..k : a[i] = b[i] BY <2>2, <2>3, <2>4, <2>5, <2>6
  <2>8. a = b BY <2>2, <2>4, <2>7, SameSequence
  <2> QED BY <2>8 DEF a, b
<1> QED BY <1>2, <1>3, <1>4 DEF p

-----------------------------------------------------------------------------
(* Every node is complete and in the log, or a frame, or the token. *)

LoggedNode(n) == Has(events, Completed(n.path, n.value))
FrameNode(n)  == \E k \in 1..Len(stack) : n.path = FramePath(path_prefix, k) /\ n.value = Opened[k]
TokenNode(n)  == InFlight /\ n.path = SlotPath /\ n.value = TokenValue

KnownNode(n) == LoggedNode(n) \/ FrameNode(n) \/ TokenNode(n)

Node(path, value) == [path |-> path, value |-> value]

LEMMA LoggedIsContainer ==
  ASSUME LogInv, NEW i \in 1..Len(events), events[i].type = "ValueCompleted"
  PROVE  /\ events[i] = Completed(events[i].path, events[i].value)
         /\ events[i].value # None /\ events[i].value.type \in ScalarTypes \cup ContainerTypes
         /\ events[i].value.type \in ContainerTypes => IsContainer(events[i].value)
         /\ events[i].value.type \notin ContainerTypes => ChildrenOf(events[i].value) = {}
<1>1. ShapeAt(events, i) BY DEF LogInv, LogShaped
<1>2. IsFinalValue(events[i].value) /\ events[i] = Completed(events[i].path, events[i].value)
  BY <1>1 DEF ShapeAt
<1> QED BY <1>2 DEF IsFinalValue, IsContainer, ChildrenOf, ContainerTypes

LEMMA LoggedChild ==
  ASSUME LogInv, NEW i \in 1..Len(events), events[i].type = "ValueCompleted",
         NEW t \in ChildrenOf(events[i].value)
  PROVE  \E m \in 1..(i - 1) :
           events[m] = Completed(Append(events[i].path, t), Child(events[i].value, t))
<1> DEFINE v == events[i].value
<1>1. v.type \in ContainerTypes /\ IsContainer(v) BY LoggedIsContainer
<1>2. PICK j \in 1..Len(v.data) : FirstOf(v, t, j) /\ Child(v, t) = v.data[j].value
  BY <1>1, ChildFound
<1>3. PICK m \in 1..(i - 1) : events[m] = Completed(Append(events[i].path, v.data[j].token), v.data[j].value)
  BY <1>1 DEF LogInv, LogShaped, ChildrenAt
<1> QED BY <1>2, <1>3 DEF FirstOf

LEMMA ChildKnown ==
  ASSUME Inv, LogInv, NoneIsNoValue, NEW n, KnownNode(n), NEW t \in ChildrenOf(n.value)
  PROVE  KnownNode(Node(Append(n.path, t), Child(n.value, t)))
<1> DEFINE c == Node(Append(n.path, t), Child(n.value, t))
<1>1. c.path = Append(n.path, t) /\ c.value = Child(n.value, t) BY DEF Node
<1>2. CASE LoggedNode(n)
  <2>1. PICK i \in 1..Len(events) : events[i] = Completed(n.path, n.value) BY <1>2 DEF LoggedNode, Has
  <2>2. events[i].type = "ValueCompleted" /\ events[i].path = n.path /\ events[i].value = n.value
    BY <2>1 DEF Completed
  <2>3. PICK m \in 1..(i - 1) : events[m] = Completed(Append(n.path, t), Child(n.value, t))
    BY <2>2, LoggedChild
  <2>4. m \in 1..Len(events) BY DEF Inv, LogOK, IsSequence
  <2> QED BY <1>1, <2>3, <2>4 DEF KnownNode, LoggedNode, Has
<1>3. CASE FrameNode(n)
  <2>1. PICK k \in 1..Len(stack) : n.path = FramePath(path_prefix, k) /\ n.value = Opened[k]
    BY <1>3 DEF FrameNode
  <2> DEFINE f == stack[k]
             v == Opened[k]
             e == [token |-> SlotToken(f), value |-> Opened[k + 1]]
  <2>2. /\ IsContainer(v)
        /\ ~SlotTaken(k) => v.data = f.children
        /\ SlotTaken(k) => v.data = Append(f.children, e)
    BY OpenedFrame
  <2>3. IsSequence(f.children) /\ Len(f.children) \in Nat /\ Len(stack) \in Nat BY StackShape
  <2> HIDE DEF v, e
  <2>4. PICK j \in 1..Len(v.data) : v.data[j].token = t /\ Child(v, t) = v.data[j].value
    BY <2>1, <2>2, ChildFound DEF FirstOf, v
  <2>5. ASSUME j \in 1..Len(f.children), v.data[j] = f.children[j] PROVE LoggedNode(c)
    <3>1. Has(events, Completed(Append(n.path, f.children[j].token), f.children[j].value))
      BY <2>1, <2>5 DEF LogInv, FiledLogged
    <3> QED BY <1>1, <2>1, <2>4, <2>5, <3>1 DEF LoggedNode, v
  <2>6. CASE ~SlotTaken(k) BY <2>2, <2>4, <2>5, <2>6 DEF KnownNode
  <2>7. CASE SlotTaken(k)
    <3>1. /\ Len(v.data) = Len(f.children) + 1 /\ v.data[Len(f.children) + 1] = e
          /\ \A i \in 1..Len(f.children) : v.data[i] = f.children[i]
      BY <2>2, <2>3, <2>7, AppendSequence
    <3>2. CASE j # Len(f.children) + 1
      <4>1. j \in 1..Len(f.children) BY <2>3, <2>4, <3>1, <3>2
      <4> QED BY <2>5, <3>1, <4>1 DEF KnownNode
    <3>3. CASE j = Len(f.children) + 1
      <4>1. t = SlotToken(f) /\ Child(v, t) = Opened[k + 1] BY <2>4, <3>1, <3>3 DEF e
      <4>2. stack # <<>> BY <2>1, <2>3, StackShape
      <4>3. CASE k < Len(stack)
        <5>1. k \in 1..(Len(stack) - 1) /\ k + 1 \in 1..Len(stack) BY <2>3, <4>3
        <5>2. FramePath(path_prefix, k + 1) = Append(n.path, t) BY <2>1, <4>1, <4>2, <5>1, FrameSteps
        <5> QED BY <1>1, <2>1, <4>1, <5>1, <5>2 DEF KnownNode, FrameNode, v
      <4>4. CASE k = Len(stack)
        <5>1. InFlight BY <2>7, <4>4, <2>3 DEF SlotTaken
        <5>2. SlotPath = Append(n.path, t) BY <2>1, <4>1, <4>2, <4>4, FrameSteps
        <5>3. Opened[k + 1] = TokenValue BY <2>3, <4>4, OpenedStep
        <5> QED BY <1>1, <2>1, <4>1, <5>1, <5>2, <5>3 DEF KnownNode, TokenNode, v
      <4> QED BY <2>3, <4>3, <4>4
    <3> QED BY <3>2, <3>3
  <2> QED BY <2>6, <2>7
<1>4. CASE TokenNode(n) BY <1>4, TokenValueIs DEF TokenNode
<1> QED BY <1>2, <1>3, <1>4 DEF KnownNode

LEMMA RootKnown ==
  ASSUME Inv, LogInv, NoneIsNoValue, Snapshot # None
  PROVE  KnownNode(Node(<<>>, Snapshot))
<1>1. Len(stack) \in Nat /\ (stack = <<>> <=> Len(stack) = 0) BY StackShape
<1>2. /\ Opened[Len(stack) + 1] = TokenValue
      /\ Snapshot = IF Opened[1] = None THEN root ELSE Opened[1]
  BY <1>1, OpenedStep
<1>3. CASE stack # <<>>
  <2>1. 1 \in 1..Len(stack) /\ FramePath(path_prefix, 1) = <<>> BY <1>3, FrameSteps
  <2>2. Snapshot = Opened[1] BY <1>2, <2>1, OpenedFrame DEF IsContainer
  <2> QED BY <2>1, <2>2 DEF KnownNode, FrameNode, Node
<1>4. CASE stack = <<>>
  <2>1. Opened[1] = TokenValue /\ SlotPath = <<>>
    <3>1. Len(stack) + 1 = 1 BY <1>1, <1>4
    <3> QED BY <1>2, <1>4, <3>1, FramePaths DEF SlotPath, Inv, TreeOK, PathCache
  <2>2. CASE InFlight
    <3>1. Snapshot = TokenValue BY <1>2, <2>1, <2>2, TokenValueIs
    <3> QED BY <2>1, <2>2, <3>1 DEF KnownNode, TokenNode, Node
  <2>3. CASE ~InFlight
    <3>1. Snapshot = root /\ root # None BY <1>2, <2>1, <2>3, TokenValueIs
    <3>2. Has(events, Completed(<<>>, root)) BY <3>1 DEF LogInv, RootOK
    <3> QED BY <3>1, <3>2 DEF KnownNode, LoggedNode, Node
  <2> QED BY <2>2, <2>3
<1> QED BY <1>3, <1>4

LEMMA NodesKnown ==
  ASSUME Inv, LogInv, NoneIsNoValue
  PROVE  \A n \in Nodes : KnownNode(n) /\ n = Node(n.path, n.value)
<1> DEFINE Good(d) == \A n : AtLevel(n, d) => KnownNode(n) /\ n = Node(n.path, n.value)
           bad == { d \in 0..MaxDepth + 1 : ~Good(d) }
<1>1. bad = {}
  <2>1. SUFFICES ASSUME bad # {} PROVE FALSE OBVIOUS
  <2>2. PICK d \in bad : \A k \in bad : d <= k
    <3> HIDE DEF bad
    <3>1. bad \subseteq Nat BY DEF bad
    <3> QED BY <2>1, <3>1, LeastNumber
  <2>3. d \in 0..MaxDepth + 1 /\ ~Good(d) /\ \A k \in 0..MaxDepth + 1 : k < d => Good(k) BY <2>2
  <2>4. CASE d = 0
    <3>1. ASSUME NEW n, AtLevel(n, 0) PROVE KnownNode(n) /\ n = Node(n.path, n.value)
      <4>1. Snapshot # None /\ n = Node(<<>>, Snapshot) BY <3>1, NodeLevels DEF Node
      <4>2. n = Node(n.path, n.value) BY <4>1 DEF Node
      <4> QED BY <4>1, <4>2, RootKnown
    <3> QED BY <2>3, <2>4, <3>1
  <2>5. CASE d # 0
    <3>1. d \in 1..(MaxDepth + 1) /\ d - 1 \in 0..MaxDepth + 1 /\ d - 1 < d
      BY <2>3, <2>5, ParserAssumption
    <3>2. Good(d - 1) BY <2>3, <3>1
    <3>3. ASSUME NEW n, AtLevel(n, d) PROVE KnownNode(n) /\ n = Node(n.path, n.value)
      <4>1. PICK m : AtLevel(m, d - 1) /\ \E t \in ChildrenOf(m.value) :
                       n = Node(Append(m.path, t), Child(m.value, t))
        BY <3>1, <3>3, NodeLevels DEF Node
      <4>2. PICK t \in ChildrenOf(m.value) : n = Node(Append(m.path, t), Child(m.value, t)) BY <4>1
      <4>3. KnownNode(m) BY <3>2, <4>1
      <4>4. n = Node(n.path, n.value) BY <4>2 DEF Node
      <4> QED BY <4>2, <4>3, <4>4, ChildKnown
    <3> QED BY <2>3, <3>3
  <2> QED BY <2>4, <2>5
<1>2. ASSUME NEW n \in Nodes PROVE KnownNode(n) /\ n = Node(n.path, n.value)
  <2>1. PICK d \in 0..MaxDepth + 1 : AtLevel(n, d) BY NodeLevels
  <2>2. Good(d) BY <1>1
  <2> QED BY <2>1, <2>2
<1> QED BY <1>2

-----------------------------------------------------------------------------
(* While no key is repeated, all of these are nodes. *)

LEMMA NotRepeated ==
  ASSUME ~RepeatsKey, NEW n \in Nodes, IsContainer(n.value), n.value.type = "Object"
  PROVE  ~Doubled(n.value.data)
BY TokensCounted DEF RepeatsKey, IsContainer

LEMMA ChildIsNode ==
  ASSUME ~RepeatsKey, NEW n, NEW d \in 0..MaxDepth, AtLevel(n, d), IsContainer(n.value),
         NEW j \in 1..Len(n.value.data)
  PROVE  AtLevel(Node(Append(n.path, n.value.data[j].token), n.value.data[j].value), d + 1)
<1>1. d \in 0..MaxDepth + 1 /\ d + 1 \in 1..(MaxDepth + 1) /\ d + 1 - 1 = d BY ParserAssumption
<1>2. n \in Nodes BY <1>1, NodeLevels
<1>3. n.value.type \in {"Object", "Array"} BY DEF IsContainer, ContainerTypes
<1>4. n.value.data[j].token \in ChildrenOf(n.value)
      /\ Child(n.value, n.value.data[j].token) = n.value.data[j].value
  BY <1>2, <1>3, NotRepeated, ChildOfEach
<1> DEFINE m == Node(Append(n.path, n.value.data[j].token), n.value.data[j].value)
<1>5. \E t \in ChildrenOf(n.value) : m = [path |-> Append(n.path, t), value |-> Child(n.value, t)]
  BY <1>4 DEF Node
<1> HIDE DEF m
<1> DEFINE e == d + 1
<1>7. e \in 1..(MaxDepth + 1) /\ AtLevel(n, e - 1) BY <1>1
<1> HIDE DEF e
<1>8. AtLevel(m, e) BY <1>5, <1>7, NodeLevels
<1> QED BY <1>8 DEF m, e

LEMMA SlotIsChild ==
  ASSUME Inv, LogInv, NoneIsNoValue, ~RepeatsKey, NEW k \in 1..Len(stack), SlotTaken(k),
         AtLevel(Node(FramePath(path_prefix, k), Opened[k]), k - 1)
  PROVE  AtLevel(Node(Append(FramePath(path_prefix, k), SlotToken(stack[k])), Opened[k + 1]), k)
<1> DEFINE v == Opened[k]
           p == FramePath(path_prefix, k)
           f == stack[k]
           e == [token |-> SlotToken(f), value |-> Opened[k + 1]]
           j == Len(f.children) + 1
<1>1. Len(stack) \in Nat /\ IsSequence(f.children) /\ Len(f.children) \in Nat BY StackShape
<1>2. IsContainer(v) /\ v.data = Append(f.children, e) BY OpenedFrame
<1>3. e.token = SlotToken(f) /\ e.value = Opened[k + 1] OBVIOUS
<1> HIDE DEF v, e
<1>4. j \in 1..Len(v.data) /\ v.data[j] = e BY <1>1, <1>2, AppendSequence
<1>5. k - 1 \in 0..MaxDepth /\ k - 1 + 1 = k BY <1>1, ParserAssumption DEF LogInv
<1>6. Node(p, v).path = p /\ Node(p, v).value = v BY DEF Node
<1>7. AtLevel(Node(p, v), k - 1) BY DEF v
<1> HIDE DEF p, j
<1> DEFINE n == Node(p, v)
<1>8. n.path = p /\ n.value = v /\ AtLevel(n, k - 1) BY <1>6, <1>7
<1> HIDE DEF n
<1>9. AtLevel(Node(Append(n.path, n.value.data[j].token), n.value.data[j].value), k - 1 + 1)
  BY <1>2, <1>4, <1>5, <1>8, ChildIsNode
<1> QED BY <1>3, <1>4, <1>5, <1>8, <1>9 DEF p

LEMMA FramesAreNodes ==
  ASSUME Inv, LogInv, NoneIsNoValue, ~RepeatsKey
  PROVE  /\ \A k \in 1..Len(stack) : AtLevel(Node(FramePath(path_prefix, k), Opened[k]), k - 1)
         /\ InFlight => AtLevel(Node(SlotPath, TokenValue), Len(stack))
<1> DEFINE Good(k) == AtLevel(Node(FramePath(path_prefix, k), Opened[k]), k - 1)
           bad == { k \in 1..Len(stack) : ~Good(k) }
<1>1. Len(stack) \in Nat /\ (stack = <<>> <=> Len(stack) = 0) BY StackShape
<1>2. /\ Opened[Len(stack) + 1] = TokenValue
      /\ Snapshot = IF Opened[1] = None THEN root ELSE Opened[1]
  BY <1>1, OpenedStep
<1>3. bad = {}
  <2>1. SUFFICES ASSUME bad # {} PROVE FALSE OBVIOUS
  <2>2. PICK k \in bad : \A i \in bad : k <= i
    <3> HIDE DEF bad
    <3>1. bad \subseteq Nat BY DEF bad
    <3> QED BY <2>1, <3>1, LeastNumber
  <2>3. k \in 1..Len(stack) /\ ~Good(k) /\ \A i \in 1..Len(stack) : i < k => Good(i) BY <2>2
  <2>4. stack # <<>> BY <1>1, <2>3
  <2>5. CASE k = 1
    <3>1. 1 \in 1..Len(stack) /\ FramePath(path_prefix, 1) = <<>> BY <2>4, FrameSteps
    <3>2. Snapshot = Opened[1] /\ Snapshot # None BY <1>2, <3>1, OpenedFrame DEF IsContainer
    <3>3. AtLevel(Node(<<>>, Opened[1]), 0) BY <3>2, NodeLevels DEF Node
    <3> QED BY <2>3, <2>5, <3>1, <3>3
  <2>6. CASE k # 1
    <3>1. /\ k - 1 \in 1..Len(stack) /\ k - 1 < k /\ k - 1 \in 1..(Len(stack) - 1) /\ k - 1 + 1 = k
          /\ k - 1 < Len(stack)
      BY <1>1, <2>3, <2>6
    <3>2. Good(k - 1) BY <2>3, <3>1
    <3>3. SlotTaken(k - 1) BY <3>1 DEF SlotTaken
    <3>4. AtLevel(Node(Append(FramePath(path_prefix, k - 1), SlotToken(stack[k - 1])), Opened[k - 1 + 1]), k - 1)
      BY <3>1, <3>2, <3>3, SlotIsChild
    <3>5. FramePath(path_prefix, k - 1 + 1) = Append(FramePath(path_prefix, k - 1), SlotToken(stack[k - 1]))
      BY <2>4, <3>1, FrameSteps
    <3> QED BY <2>3, <3>1, <3>4, <3>5
  <2> QED BY <2>5, <2>6
<1>4. ASSUME InFlight PROVE AtLevel(Node(SlotPath, TokenValue), Len(stack))
  <2>1. CASE stack = <<>>
    <3>1. Len(stack) + 1 = 1 BY <1>1, <2>1
    <3>2. Snapshot = TokenValue /\ Snapshot # None BY <1>2, <1>4, <3>1, TokenValueIs
    <3>3. SlotPath = <<>> BY <2>1, FramePaths DEF SlotPath, Inv, TreeOK, PathCache
    <3> QED BY <1>1, <2>1, <3>2, <3>3, NodeLevels DEF Node
  <2>2. CASE stack # <<>>
    <3>1. Len(stack) \in 1..Len(stack) /\ SlotTaken(Len(stack)) BY <1>1, <1>4, <2>2 DEF SlotTaken
    <3>2. Good(Len(stack)) BY <1>3, <3>1
    <3>3. SlotPath = Append(FramePath(path_prefix, Len(stack)), SlotToken(stack[Len(stack)]))
      BY <2>2, FrameSteps
    <3> QED BY <1>2, <3>1, <3>2, <3>3, SlotIsChild
  <2> QED BY <2>1, <2>2
<1> QED BY <1>3, <1>4

LEMMA FiledAreNodes ==
  ASSUME Inv, LogInv, NoneIsNoValue, ~RepeatsKey, NEW e, ChildOfFrame(stack, path_prefix, e)
  PROVE  AtLevel(Node(e.path, e.value), Len(e.path))
<1>1. PICK k \in 1..Len(stack) : \E j \in 1..Len(stack[k].children) :
        /\ e.path = Append(FramePath(path_prefix, k), stack[k].children[j].token)
        /\ e.value = stack[k].children[j].value
  BY DEF ChildOfFrame
<1> DEFINE p == FramePath(path_prefix, k)
           v == Opened[k]
           f == stack[k]
           c == [token |-> SlotToken(f), value |-> Opened[k + 1]]
           n == Node(p, v)
<1>2. PICK j \in 1..Len(f.children) :
        e.path = Append(p, f.children[j].token) /\ e.value = f.children[j].value
  BY <1>1
<1>3. Len(stack) \in Nat /\ IsSequence(f.children) /\ Len(f.children) \in Nat BY StackShape
<1>4. /\ IsContainer(v)
      /\ ~SlotTaken(k) => v.data = f.children
      /\ SlotTaken(k) => v.data = Append(f.children, c)
  BY OpenedFrame
<1> HIDE DEF c
<1>5. j \in 1..Len(v.data) /\ v.data[j] = f.children[j]
  <2>1. CASE SlotTaken(k)
    <3>1. Len(Append(f.children, c)) = Len(f.children) + 1 /\ Append(f.children, c)[j] = f.children[j]
      BY <1>3, AppendSequence
    <3> QED BY <1>3, <1>4, <2>1, <3>1
  <2>2. CASE ~SlotTaken(k) BY <1>4, <2>2
  <2> QED BY <2>1, <2>2
<1>6. k - 1 \in 0..MaxDepth /\ k - 1 + 1 = k BY <1>3, ParserAssumption DEF LogInv
<1>7. AtLevel(n, k - 1) BY FramesAreNodes
<1>8. n.path = p /\ n.value = v BY DEF Node
<1> HIDE DEF n, v
<1>9. AtLevel(Node(Append(n.path, n.value.data[j].token), n.value.data[j].value), k - 1 + 1)
  BY <1>4, <1>5, <1>6, <1>7, <1>8, ChildIsNode
<1>10. Len(e.path) = k
  <2>1. IsSequence(p) /\ Len(p) = k - 1 BY FramePaths DEF Inv, TreeOK, PathCache
  <2> HIDE DEF p
  <2>2. Len(e.path) = k - 1 + 1 BY <1>2, <2>1, AppendSequence
  <2> QED BY <1>6, <2>2
<1> QED BY <1>2, <1>5, <1>6, <1>8, <1>9, <1>10

LEMMA LoggedAreNodes ==
  ASSUME Inv, LogInv, NoneIsNoValue, ~RepeatsKey, ~FrameLost
  PROVE  \A i \in 1..Len(events) : events[i].type = "ValueCompleted" =>
           AtLevel(Node(events[i].path, events[i].value), Len(events[i].path))
<1> DEFINE Good(i) == AtLevel(Node(events[i].path, events[i].value), Len(events[i].path))
           bad == { i \in 1..Len(events) : events[i].type = "ValueCompleted" /\ ~Good(i) }
           deep == { Len(events[i].path) : i \in bad }
<1>1. \A i \in 1..Len(events) : events[i].type = "ValueCompleted" =>
        IsSequence(events[i].path) /\ Len(events[i].path) \in 0..MaxDepth
  <2> SUFFICES ASSUME NEW i \in 1..Len(events), events[i].type = "ValueCompleted"
               PROVE  IsSequence(events[i].path) /\ Len(events[i].path) \in 0..MaxDepth
    OBVIOUS
  <2>1. IsSequence(events[i].path) /\ Len(events[i].path) <= MaxDepth
    BY DEF LogInv, LogShaped, ShapeAt
  <2>2. Len(events[i].path) \in Nat BY <2>1 DEF IsSequence
  <2> QED BY <2>1, <2>2, ParserAssumption
<1>2. SUFFICES ASSUME bad # {} PROVE FALSE OBVIOUS
<1>3. PICK d \in deep : \A k \in deep : d <= k
  <2>1. \A i \in bad : Len(events[i].path) \in Nat BY <1>1
  <2> HIDE DEF bad
  <2>2. deep \subseteq Nat /\ deep # {} BY <1>2, <2>1
  <2> HIDE DEF deep
  <2> QED BY <2>2, LeastNumber
<1>4. PICK i \in bad : Len(events[i].path) = d BY <1>3
<1>5. /\ i \in 1..Len(events) /\ events[i].type = "ValueCompleted" /\ ~Good(i)
      /\ \A m \in 1..Len(events) : events[m].type = "ValueCompleted" /\ Len(events[m].path) < d => Good(m)
  <2>1. ASSUME NEW m \in 1..Len(events), events[m].type = "ValueCompleted", Len(events[m].path) < d, ~Good(m)
        PROVE  FALSE
    <3>1. m \in bad BY <2>1
    <3>2. Len(events[m].path) \in deep BY <3>1
    <3>3. d <= Len(events[m].path) BY <1>3, <3>2
    <3>4. d \in Nat /\ Len(events[m].path) \in Nat BY <1>1, <1>4, <2>1
    <3> QED BY <2>1, <3>3, <3>4
  <2> QED BY <1>4, <2>1
<1> HIDE DEF bad, deep
<1>6. \/ stack = <<>> /\ events[i].path = <<>> /\ events[i].value = root
      \/ ChildOfFrame(stack, path_prefix, events[i]) \/ ChildOfDone(events, events[i])
  BY <1>5 DEF LogInv, DoneHasParent, HasParent
<1>7. CASE stack = <<>> /\ events[i].path = <<>> /\ events[i].value = root
  <2>1. root # None BY <1>5, <1>7, LoggedIsContainer
  <2>2. ~InFlight BY <2>1 DEF LogInv, RootOK
  <2>3. Len(stack) \in Nat /\ Len(stack) + 1 = 1 BY <1>7, StackShape
  <2>4. Snapshot = root BY <2>2, <2>3, OpenedStep, TokenValueIs
  <2>5. AtLevel(Node(<<>>, root), 0) BY <2>1, <2>4, NodeLevels DEF Node
  <2>6. Len(<<>>) = 0 BY EmptySequence
  <2> QED BY <1>5, <1>7, <2>5, <2>6
<1>8. CASE ChildOfFrame(stack, path_prefix, events[i]) BY <1>5, <1>8, FiledAreNodes
<1>9. CASE ChildOfDone(events, events[i])
  <2>1. PICK m \in 1..Len(events) :
          events[m].type = "ValueCompleted" /\ ChildOf(events[m].path, events[m].value, events[i])
    BY <1>9 DEF ChildOfDone
  <2> DEFINE p == events[m].path
             v == events[m].value
             n == Node(p, v)
  <2>2. v.type \in ContainerTypes BY <2>1 DEF ChildOf
  <2>3. PICK j \in 1..Len(v.data) :
          events[i].path = Append(p, v.data[j].token) /\ events[i].value = v.data[j].value
    BY <2>1 DEF ChildOf
  <2>4. IsContainer(v) BY <2>1, <2>2, LoggedIsContainer
  <2>5. IsSequence(p) /\ Len(p) \in 0..MaxDepth BY <1>1, <2>1
  <2>6. Len(events[i].path) = Len(p) + 1 BY <2>3, <2>5, AppendSequence
  <2>7. AtLevel(n, Len(p))
    <3>1. Len(p) < d BY <1>4, <2>5, <2>6
    <3> QED BY <1>5, <2>1, <3>1
  <2>8. n.path = p /\ n.value = v BY DEF Node
  <2> HIDE DEF n, p, v
  <2>9. AtLevel(Node(Append(n.path, n.value.data[j].token), n.value.data[j].value), Len(p) + 1)
    BY <2>3, <2>4, <2>5, <2>7, <2>8, ChildIsNode
  <2> QED BY <1>5, <2>3, <2>6, <2>8, <2>9
<1> QED BY <1>6, <1>7, <1>8, <1>9

-----------------------------------------------------------------------------
(* A key is repeated in the snapshot exactly if it is on the stack or in   *)
(* the log.                                                                *)

LEMMA DoubledAppend ==
  ASSUME NEW cs, IsSequence(cs), NEW e
  PROVE  Doubled(Append(cs, e)) <=> Doubled(cs) \/ \E j \in 1..Len(cs) : cs[j].token = e.token
<1> DEFINE more == Append(cs, e)
           n == Len(cs)
<1>1. n \in Nat BY DEF IsSequence
<1>2. /\ Len(more) = n + 1 /\ more[n + 1] = e
      /\ \A i \in 1..n : more[i] = cs[i]
  BY AppendSequence
<1> HIDE DEF more
<1>3. ASSUME Doubled(more) PROVE Doubled(cs) \/ \E j \in 1..n : cs[j].token = e.token
  <2>1. PICK i, j \in 1..(n + 1) : i # j /\ more[i].token = more[j].token BY <1>2, <1>3 DEF Doubled
  <2>2. CASE i = n + 1
    <3>1. j \in 1..n BY <1>1, <2>1, <2>2
    <3> QED BY <1>2, <2>1, <2>2, <3>1
  <2>3. CASE j = n + 1
    <3>1. i \in 1..n BY <1>1, <2>1, <2>3
    <3> QED BY <1>2, <2>1, <2>3, <3>1
  <2>4. CASE i # n + 1 /\ j # n + 1
    <3>1. i \in 1..n /\ j \in 1..n BY <1>1, <2>1, <2>4
    <3> QED BY <1>2, <2>1, <3>1 DEF Doubled
  <2> QED BY <2>2, <2>3, <2>4
<1>4. ASSUME Doubled(cs) PROVE Doubled(more)
  <2>1. PICK i, j \in 1..n : i # j /\ cs[i].token = cs[j].token BY <1>4 DEF Doubled
  <2>2. i \in 1..(n + 1) /\ j \in 1..(n + 1) BY <1>1
  <2> QED BY <1>2, <2>1, <2>2 DEF Doubled
<1>5. ASSUME NEW j \in 1..n, cs[j].token = e.token PROVE Doubled(more)
  <2>1. j \in 1..(n + 1) /\ n + 1 \in 1..(n + 1) /\ j # n + 1 BY <1>1
  <2> QED BY <1>2, <1>5, <2>1 DEF Doubled
<1> QED BY <1>3, <1>4, <1>5 DEF more

LEMMA OpenedDoubled ==
  ASSUME Inv, LogInv, NoneIsNoValue, NEW k \in 1..Len(stack)
  PROVE  Doubled(Opened[k].data) <=> Doubled(stack[k].children) \/ (SlotTaken(k) /\ Recurs(stack[k]))
<1> DEFINE cs == stack[k].children
           e == [token |-> SlotToken(stack[k]), value |-> Opened[k + 1]]
<1>1. ~SlotTaken(k) => Opened[k].data = cs BY OpenedFrame
<1>2. SlotTaken(k) => Opened[k].data = Append(cs, e) BY OpenedFrame
<1>3. Doubled(Append(cs, e)) <=> Doubled(cs) \/ \E j \in 1..Len(cs) : cs[j].token = e.token
  BY StackShape, DoubledAppend
<1>4. (\E j \in 1..Len(cs) : cs[j].token = e.token) <=> Recurs(stack[k]) BY DEF Recurs
<1> HIDE DEF e, cs
<1> QED BY <1>1, <1>2, <1>3, <1>4 DEF cs

LEMMA RepeatsIsDup ==
  ASSUME Inv, LogInv, NoneIsNoValue
  PROVE  /\ RepeatsKey => Dup
         /\ Dup /\ ~FrameLost => RepeatsKey
<1>1. ASSUME RepeatsKey PROVE Dup
  <2>1. PICK n \in Nodes : n.value.type = "Object" /\ Cardinality(ChildrenOf(n.value)) < Len(n.value.data)
    BY <1>1 DEF RepeatsKey
  <2>2. KnownNode(n) BY NodesKnown
  <2>3. CASE LoggedNode(n)
    <3>1. PICK i \in 1..Len(events) : events[i] = Completed(n.path, n.value)
      BY <2>3 DEF LoggedNode, Has
    <3>2. events[i].type = "ValueCompleted" /\ events[i].value = n.value BY <3>1 DEF Completed
    <3>3. IsSequence(n.value.data)
      BY <2>1, <3>2, LoggedIsContainer DEF IsContainer, ContainerTypes
    <3>4. Doubled(n.value.data) BY <2>1, <3>3, TokensCounted
    <3> QED BY <2>1, <3>2, <3>4 DEF Dup, DupDone
  <2>4. CASE FrameNode(n)
    <3>1. PICK k \in 1..Len(stack) : n.value = Opened[k] BY <2>4 DEF FrameNode
    <3>2. IsSequence(Opened[k].data) /\ Opened[k].type = stack[k].kind BY OpenedFrame DEF IsContainer
    <3>3. Doubled(Opened[k].data) BY <2>1, <3>1, <3>2, TokensCounted
    <3> QED BY <2>1, <3>1, <3>2, <3>3, OpenedDoubled DEF Dup, DupFrame
  <2>5. CASE TokenNode(n)
    <3>1. n.value.type \in Partial BY <2>5, TokenValueIs DEF TokenNode
    <3> QED BY <2>1, <3>1 DEF Partial
  <2> QED BY <2>2, <2>3, <2>4, <2>5 DEF KnownNode
<1>2. ASSUME Dup, ~FrameLost, ~RepeatsKey PROVE FALSE
  <2>1. ASSUME NEW path, NEW v, NEW d \in 0..MaxDepth + 1, AtLevel(Node(path, v), d), IsContainer(v),
               v.type = "Object", Doubled(v.data)
        PROVE  FALSE
    <3> DEFINE n == Node(path, v)
    <3>1. n.value = v BY DEF Node
    <3>2. AtLevel(n, d) BY <2>1
    <3> HIDE DEF n
    <3>3. n \in Nodes BY <3>2, NodeLevels
    <3> QED BY <1>2, <2>1, <3>1, <3>3, NotRepeated
  <2>2. CASE DupFrame
    <3>1. PICK k \in 1..Len(stack) : stack[k].kind = "Object"
            /\ (Doubled(stack[k].children) \/ (SlotTaken(k) /\ Recurs(stack[k])))
      BY <2>2 DEF DupFrame
    <3>2. IsContainer(Opened[k]) /\ Opened[k].type = "Object" /\ Doubled(Opened[k].data)
      BY <3>1, OpenedFrame, OpenedDoubled
    <3>3. AtLevel(Node(FramePath(path_prefix, k), Opened[k]), k - 1) BY <1>2, FramesAreNodes
    <3>4. k - 1 \in 0..MaxDepth + 1 BY StackShape, ParserAssumption DEF LogInv
    <3> QED BY <2>1, <3>2, <3>3, <3>4
  <2>3. CASE DupDone
    <3>1. PICK i \in 1..Len(events) : events[i].type = "ValueCompleted"
            /\ events[i].value.type = "Object" /\ Doubled(events[i].value.data)
      BY <2>3 DEF DupDone
    <3>2. IsContainer(events[i].value) BY <3>1, LoggedIsContainer DEF ContainerTypes
    <3>3. AtLevel(Node(events[i].path, events[i].value), Len(events[i].path))
      BY <1>2, <3>1, LoggedAreNodes
    <3>4. Len(events[i].path) \in 0..MaxDepth + 1
      <4>1. IsSequence(events[i].path) /\ Len(events[i].path) <= MaxDepth
        BY <3>1 DEF LogInv, LogShaped, ShapeAt
      <4>2. Len(events[i].path) \in Nat BY <4>1 DEF IsSequence
      <4> QED BY <4>1, <4>2, ParserAssumption
    <3> QED BY <2>1, <3>1, <3>2, <3>3, <3>4
  <2> QED BY <1>2, <2>2, <2>3 DEF Dup
<1> QED BY <1>1, <1>2

-----------------------------------------------------------------------------
(* The final nodes are those in the log. *)

LEMMA OpenPath ==
  ASSUME Inv, stack # <<>>
  PROVE  OpenFramePath = path_prefix /\ IsSequence(path_prefix)
<1>1. /\ Len(path_prefix) = Len(stack) - 1 /\ Len(stack) \in Nat \ {0} /\ IsSequence(path_prefix)
      /\ \A i \in 1..Len(path_prefix) : path_prefix[i] = SlotToken(stack[i])
  BY SlotTokens DEF Inv, TreeOK
<1> DEFINE n == Len(stack) - 1
           T(i) == SlotToken(stack[i])
           S == { T(i) : i \in 1..n }
<1>2. n \in Nat BY <1>1
<1>3. OpenFramePath = [i \in 1..n |-> T(i)] BY DEF OpenFramePath
<1> HIDE DEF n, T
<1>4. OpenFramePath \in Seq(S) /\ Len(OpenFramePath) = n BY <1>2, <1>3
<1>5. \A i \in 1..n : OpenFramePath[i] = T(i) BY <1>3
<1>6. IsSequence(OpenFramePath) BY <1>4, SeqIsSequence
<1> QED BY <1>1, <1>4, <1>5, <1>6, SameSequence DEF n, T

LEMMA FinalIsLogged ==
  ASSUME Inv, LogInv, NoneIsNoValue, ~FrameLost, ~RepeatsKey, NEW n \in Nodes
  PROVE  IsFinal(n) <=> LoggedNode(n)
<1>1. ASSUME IsFinal(n) PROVE LoggedNode(n)
  <2>1. n.value.type \notin Partial /\ ~IsOpenContainer(n.path) BY <1>1 DEF IsFinal, StatusOf
  <2>2. ~TokenNode(n) BY <2>1, TokenValueIs DEF TokenNode
  <2>3. ~FrameNode(n)
    <3> SUFFICES ASSUME NEW k \in 1..Len(stack), n.path = FramePath(path_prefix, k) PROVE FALSE
      BY DEF FrameNode
    <3>1. stack # <<>> /\ Len(stack) \in Nat BY StackShape
    <3>2. /\ IsSequence(path_prefix) /\ Len(path_prefix) = Len(stack) - 1
          /\ IsSequence(n.path) /\ Len(n.path) = k - 1 /\ \A i \in 1..(k - 1) : n.path[i] = path_prefix[i]
      BY <3>1, FramePaths DEF Inv, TreeOK, PathCache
    <3>3. IsPrefix(n.path, path_prefix) BY <3>1, <3>2, PrefixElements
    <3> QED BY <2>1, <3>1, <3>3, OpenPath DEF IsOpenContainer
  <2> QED BY <2>2, <2>3, NodesKnown DEF KnownNode
<1>2. ASSUME LoggedNode(n) PROVE IsFinal(n)
  <2>1. PICK i \in 1..Len(events) : events[i] = Completed(n.path, n.value)
    BY <1>2 DEF LoggedNode, Has
  <2>2. events[i].type = "ValueCompleted" /\ events[i].path = n.path /\ events[i].value = n.value
    BY <2>1 DEF Completed
  <2>3. n.value # None /\ n.value.type \notin Partial
    BY <2>2, LoggedIsContainer DEF ScalarTypes, ContainerTypes, Partial
  <2>4. ASSUME IsOpenContainer(n.path) PROVE FALSE
    <3>1. stack # <<>> BY <2>4 DEF IsOpenContainer
    <3>2. IsPrefix(n.path, path_prefix) /\ IsSequence(path_prefix) BY <2>4, <3>1, OpenPath DEF IsOpenContainer
    <3>3. IsSequence(n.path) BY <2>2 DEF LogInv, LogShaped, ShapeAt
    <3>4. Len(n.path) <= Len(path_prefix) /\ \A j \in 1..Len(n.path) : n.path[j] = path_prefix[j]
      BY <3>2, <3>3, PrefixElements
    <3>5. /\ Len(path_prefix) = Len(stack) - 1 /\ Len(stack) \in Nat \ {0}
          /\ \A j \in 1..Len(path_prefix) : path_prefix[j] = SlotToken(stack[j])
      BY <3>1, SlotTokens DEF Inv
    <3>6. Len(n.path) \in Nat BY <3>3 DEF IsSequence
    <3>7. \A j \in 1..Len(n.path) : j \in 1..Len(path_prefix) /\ j \in 1..Len(stack) /\ j < Len(stack)
      BY <3>4, <3>5, <3>6
    <3>8. \A j \in 1..Len(n.path) : n.path[j] = SlotToken(stack[j]) BY <3>4, <3>5, <3>7
    <3>9. ~Dup BY RepeatsIsDup
    <3>10. \A j \in 1..Len(n.path) : stack[j].kind = "Object" => ~Recurs(stack[j])
      BY <3>7, <3>9 DEF Dup, DupFrame, SlotTaken
    <3>11. Len(n.path) \in 0..Len(stack) BY <3>4, <3>5, <3>6
    <3>12. ~DoneAt(events, n.path) BY <3>1, <3>8, <3>10, <3>11, SlotNotDone
    <3> QED BY <2>2, <3>12 DEF DoneAt
  <2> QED BY <2>3, <2>4 DEF IsFinal, StatusOf
<1> QED BY <1>1, <1>2

-----------------------------------------------------------------------------
(* The theorems about the log. *)

LEMMA DocumentEvent ==
  ASSUME Inv, LogInv, failed = None
  PROVE  DocumentComplete <=> \E i \in DOMAIN events : IsEvent(i, "DocumentCompleted")
<1>1. DOMAIN events = 1..Len(events) /\ Len(events) \in Nat BY DEF Inv, LogOK, IsSequence
<1>2. DocumentLast(events, expect) BY DEF LogInv
<1>3. ASSUME DocumentComplete PROVE \E i \in DOMAIN events : IsEvent(i, "DocumentCompleted")
  <2>1. expect = "Done" /\ Len(events) > 0 BY <1>3 DEF DocumentComplete, LogInv, RootOK
  <2>2. Len(events) \in 1..Len(events) BY <1>1, <2>1
  <2> QED BY <1>1, <1>2, <2>1, <2>2 DEF DocumentLast, IsEvent
<1>4. ASSUME NEW i \in DOMAIN events, IsEvent(i, "DocumentCompleted") PROVE DocumentComplete
  <2>1. expect = "Done" BY <1>1, <1>2, <1>4 DEF DocumentLast, IsEvent
  <2>2. tok.type = "None"
    <3>1. tok.type \in {"None", "Str", "Num", "Lit"} BY DEF Inv, TokenOK, Tok, NoTok
    <3> QED BY <2>1, <3>1 DEF Inv, TokenOK, TokenAgrees
  <2> QED BY <2>1, <2>2 DEF DocumentComplete
<1> QED BY <1>3, <1>4

LEMMA OrderHolds ==
  ASSUME Inv, LogInv, OrderInv, NoneIsNoValue
  PROVE  EventOrder
<1>1. SUFFICES ASSUME failed = None, ~RepeatsKey
               PROVE  EventOrder
  BY DEF EventOrder
<1>2. ~FrameLost BY <1>1 DEF FrameLost
<1>3. Ordered(events) BY <1>1, <1>2, RepeatsIsDup DEF OrderInv
<1>4. DOMAIN events = 1..Len(events) /\ Len(events) \in Nat BY DEF Inv, LogOK, IsSequence
<1>5. ASSUME NEW j \in DOMAIN events, NEW i \in 1..(j - 1)
      PROVE  /\ ~IsEvent(i, "DocumentCompleted")
             /\ SamePath(i, j) =>
                  /\ ~IsEvent(j, "ValueStarted") /\ ~IsEvent(i, "ValueCompleted")
                  /\ IsEvent(i, "ValueProgressed") =>
                       IF IsEvent(j, "ValueProgressed")
                       THEN IsStrictPrefix(events[i].stable_prefix, events[j].stable_prefix)
                       ELSE /\ events[j].value.type = "String"
                            /\ IsPrefix(events[i].stable_prefix, events[j].value.data)
  <2> DEFINE n == Len(events)
  <2>0. n \in Nat /\ j \in 1..n BY <1>4
  <2> HIDE DEF n
  <2>1. i \in 1..n /\ i # n BY <1>5, <2>0
  <2> USE DEF n
  <2>2. ~IsEvent(i, "DocumentCompleted") BY <2>1 DEF LogInv, DocumentLast, IsEvent
  <2>3. PairOK(events[i], events[j]) BY <1>3, <2>0, <2>1 DEF Ordered
  <2> QED BY <2>2, <2>3 DEF PairOK, SamePath, IsEvent
<1>6. ASSUME NEW i \in DOMAIN events, events[i].type \in {"ValueProgressed", "ValueCompleted"}
      PROVE  \E j \in 1..(i - 1) : IsEvent(j, "ValueStarted") /\ SamePath(j, i)
  <2>1. PICK m \in 1..(i - 1) : events[m].type = "ValueStarted" /\ events[m].path = events[i].path
    BY <1>4, <1>6 DEF LogInv, LogShaped, StartAt
  <2> QED BY <1>6, <2>1 DEF IsEvent, SamePath
<1>7. ASSUME NEW i \in DOMAIN events, IsEvent(i, "ValueCompleted"), NEW t \in ChildrenOf(events[i].value)
      PROVE  \E j \in 1..(i - 1) :
               events[j] = Completed(Append(events[i].path, t), Child(events[i].value, t))
  BY <1>4, <1>7, LoggedChild DEF IsEvent
<1>8. DocumentComplete <=> \E i \in DOMAIN events : IsEvent(i, "DocumentCompleted")
  BY <1>1, DocumentEvent
<1> QED BY <1>5, <1>6, <1>7, <1>8 DEF EventOrder

(* The guarantees of event.rs: between two calls, while no key has been    *)
(* repeated, the log tells of every path in order, of children before      *)
(* their parents, and of the document last, exactly when it is complete.   *)
THEOREM EventOrderCorrect == ASSUME NoneIsNoValue PROVE Spec => []EventOrder
<1>1. NoneIsNoValue /\ Inv /\ LogInv /\ OrderInv => EventOrder BY OrderHolds
<1> QED BY <1>1, Inductive, LogInductive, PathsInOrder, PTL

-----------------------------------------------------------------------------
(* The log mirrors the document. *)

LEMMA PathsTold ==
  ASSUME Inv, LogInv, NoneIsNoValue, failed = None, ~RepeatsKey
  PROVE  { n.path : n \in Nodes } =
           { events[i].path : i \in { j \in DOMAIN events : IsEvent(j, "ValueStarted") } }
<1>1. DOMAIN events = 1..Len(events) /\ Len(events) \in Nat /\ ~FrameLost
  BY DEF Inv, LogOK, IsSequence, FrameLost
<1>2. ASSUME NEW n \in Nodes
      PROVE  \E i \in DOMAIN events : IsEvent(i, "ValueStarted") /\ events[i].path = n.path
  <2>1. ASSUME HasStarted(events, n.path)
        PROVE  \E i \in DOMAIN events : IsEvent(i, "ValueStarted") /\ events[i].path = n.path
    BY <1>1, <2>1 DEF HasStarted, IsEvent
  <2>2. CASE LoggedNode(n)
    <3>1. PICK i \in 1..Len(events) : events[i] = Completed(n.path, n.value)
      BY <2>2 DEF LoggedNode, Has
    <3>2. events[i].type = "ValueCompleted" /\ events[i].path = n.path BY <3>1 DEF Completed
    <3>3. PICK m \in 1..(i - 1) : events[m].type = "ValueStarted" /\ events[m].path = n.path
      BY <3>2 DEF LogInv, LogShaped, StartAt
    <3>4. m \in 1..Len(events) BY <1>1
    <3> QED BY <1>1, <3>3, <3>4 DEF IsEvent
  <2>3. CASE FrameNode(n) BY <2>1, <2>3 DEF FrameNode, LogInv, FramesStarted
  <2>4. CASE TokenNode(n) BY <2>1, <2>4 DEF TokenNode, LogInv
  <2> QED BY <2>2, <2>3, <2>4, NodesKnown DEF KnownNode
<1>3. ASSUME NEW i \in DOMAIN events, IsEvent(i, "ValueStarted")
      PROVE  \E n \in Nodes : n.path = events[i].path
  <2>1. ASSUME NEW v, NEW d \in 0..MaxDepth + 1, AtLevel(Node(events[i].path, v), d)
        PROVE  \E n \in Nodes : n.path = events[i].path
    <3> DEFINE n == Node(events[i].path, v)
    <3>1. n.path = events[i].path BY DEF Node
    <3>2. AtLevel(n, d) BY <2>1
    <3> HIDE DEF n
    <3> QED BY <3>1, <3>2, NodeLevels
  <2>2. Len(stack) \in Nat /\ Len(stack) <= MaxDepth BY StackShape DEF LogInv
  <2>3. \/ InFlight /\ events[i].path = SlotPath
        \/ \E k \in 1..Len(stack) : events[i].path = FramePath(path_prefix, k)
        \/ DoneAt(events, events[i].path)
    BY <1>1, <1>3 DEF LogInv, StartedWhere, OpenSlots, IsEvent
  <2>4. CASE InFlight /\ events[i].path = SlotPath
    <3>1. Len(stack) \in 0..MaxDepth + 1 BY <2>2, ParserAssumption
    <3> QED BY <2>1, <2>4, <3>1, FramesAreNodes
  <2>5. CASE \E k \in 1..Len(stack) : events[i].path = FramePath(path_prefix, k)
    <3>1. PICK k \in 1..Len(stack) : events[i].path = FramePath(path_prefix, k) BY <2>5
    <3>2. k - 1 \in 0..MaxDepth + 1 BY <2>2, ParserAssumption
    <3> QED BY <2>1, <3>1, <3>2, FramesAreNodes
  <2>6. CASE DoneAt(events, events[i].path)
    <3>1. PICK m \in 1..Len(events) : events[m].type = "ValueCompleted" /\ events[m].path = events[i].path
      BY <2>6 DEF DoneAt
    <3>2. IsSequence(events[m].path) /\ Len(events[m].path) <= MaxDepth
      BY <3>1 DEF LogInv, LogShaped, ShapeAt
    <3>3. Len(events[m].path) \in 0..MaxDepth + 1 BY <3>2, ParserAssumption DEF IsSequence
    <3> QED BY <1>1, <2>1, <3>1, <3>3, LoggedAreNodes
  <2> QED BY <2>3, <2>4, <2>5, <2>6
<1> QED BY <1>2, <1>3

LastText == IF LastEvent.type = "ValueProgressed" THEN LastEvent.stable_prefix ELSE <<>>

LEMMA TextPinned ==
  Inv /\ LogInv /\ TextInv /\ failed = None /\ Growing /\ Len(Stable) <= reported_prefix
    => Stable = LastText
<1> SUFFICES ASSUME Inv, LogInv, TextInv, failed = None, Growing, Len(Stable) <= reported_prefix
             PROVE  Stable = LastText
  OBVIOUS
<1> DEFINE n == Len(events)
<1>1. n \in Nat \ {0} /\ TextLogged BY DEF TextInv, Inv, LogOK, IsSequence
<1>6. tok.decoded \in Seq(Byte) /\ IsSequence(tok.decoded) BY Text DEF Growing
<1>7. PICK k \in 0..Len(tok.decoded) :
        /\ Stable = SubSeq(tok.decoded, 1, k)
        /\ \A m \in 0..Len(tok.decoded) : Utf8Valid(SubSeq(tok.decoded, 1, m)) => m <= k
  BY <1>6, StableCut DEF Stable
<1>8. IsSequence(Stable) /\ Len(Stable) = k /\ \A i \in 1..k : Stable[i] = tok.decoded[i]
  BY <1>6, <1>7, SubSeqSequence
<1>9. CASE LastEvent.type = "ValueStarted" /\ reported_prefix = 0
  <2>1. Len(Stable) = 0 BY <1>1, <1>8, <1>9
  <2>2. Stable = <<>> BY <1>8, <2>1, NonEmptySequence
  <2> QED BY <1>9, <2>2 DEF LastText
<1>10. CASE /\ LastEvent.type = "ValueProgressed" /\ Len(LastEvent.stable_prefix) = reported_prefix
            /\ Utf8Valid(LastEvent.stable_prefix) /\ IsPrefix(LastEvent.stable_prefix, tok.decoded)
  <2> DEFINE s == LastEvent.stable_prefix
             t == SubSeq(tok.decoded, 1, Len(s))
  <2>1. IsSequence(s)
    <3>1. n \in 1..n BY <1>1
    <3> QED BY <1>10, <3>1 DEF LogInv, LogShaped, ShapeAt, LastEvent
  <2>2. Len(s) <= Len(tok.decoded) /\ \A i \in 1..Len(s) : s[i] = tok.decoded[i] /\ Len(s) \in Nat
    BY <1>6, <1>10, <2>1, PrefixElements DEF IsSequence
  <2>3. Len(s) \in 0..Len(tok.decoded) BY <1>6, <2>1, <2>2 DEF IsSequence
  <2>4. IsSequence(t) /\ Len(t) = Len(s) /\ \A i \in 1..Len(s) : t[i] = tok.decoded[i]
    BY <1>6, <2>3, SubSeqSequence
  <2> HIDE DEF t
  <2>5. s = t BY <2>1, <2>2, <2>4, SameSequence
  <2>6. Utf8Valid(t) BY <1>10, <2>5
  <2>7. Len(s) <= k BY <1>7, <2>3, <2>6 DEF t
  <2>8. Len(s) = k BY <1>7, <1>8, <1>10, <2>3, <2>7
  <2>9. s = Stable BY <1>8, <2>1, <2>2, <2>8, SameSequence
  <2> QED BY <1>10, <2>9 DEF LastText
<1> QED BY <1>1, <1>9, <1>10 DEF TextLogged

LEMMA TextTold ==
  ASSUME Inv, LogInv, TextInv, failed = None, Growing, Idle
  PROVE  LoggedText = Stable
<1> DEFINE n == Len(events)
           Told(e) == e.type # "DocumentCompleted"
           I == { i \in 1..n : Told(events[i]) }
           last == SelectLastInSeq(events, LAMBDA e : e.type # "DocumentCompleted")
<1>1. n \in Nat \ {0} /\ TextLogged /\ Len(Stable) <= reported_prefix BY DEF TextInv, Inv, LogOK, IsSequence
<1>2. expect # "Done" BY DEF Growing, Inv, TokenOK, TokenAgrees
<1>3. I = 1..n BY <1>2 DEF LogInv, DocumentLast
<1>4. last = n
  <2>1. last = Max(I) BY <1>1, <1>3 DEF SelectLastInSeq
  <2>2. Max(1..n) = n
    <3>1. n \in 1..n /\ \A i \in 1..n : n >= i BY <1>1
    <3>2. Max(1..n) \in 1..n /\ \A i \in 1..n : Max(1..n) >= i BY <3>1 DEF Max
    <3> DEFINE m == Max(1..n)
    <3>3. m \in 1..n /\ m >= n BY <3>1, <3>2
    <3> HIDE DEF m
    <3>4. m = n BY <1>1, <3>3
    <3> QED BY <3>4 DEF m
  <2> QED BY <1>3, <2>1, <2>2
<1>5. LoggedText = LastText
  <2>1. LoggedText = IF IsEvent(last, "ValueProgressed") THEN events[last].stable_prefix ELSE <<>>
    BY DEF LoggedText
  <2> QED BY <1>4, <2>1 DEF IsEvent, LastEvent, LastText
<1> QED BY <1>1, <1>5, TextPinned

LEMMA MirrorHolds ==
  ASSUME Inv, LogInv, TextInv, NoneIsNoValue
  PROVE  EventsMirrorDocument
<1>1. SUFFICES ASSUME Idle, failed = None, ~RepeatsKey PROVE EventsMirrorDocument
  BY DEF EventsMirrorDocument
<1>2. ~FrameLost BY <1>1 DEF FrameLost
<1>3. { n.path : n \in Nodes } =
        { events[i].path : i \in { j \in DOMAIN events : IsEvent(j, "ValueStarted") } }
  BY <1>1, PathsTold
<1>4. \A n \in Nodes :
        IsFinal(n) <=> \E i \in DOMAIN events : events[i] = Completed(n.path, n.value)
  <2>1. DOMAIN events = 1..Len(events) BY DEF Inv, LogOK, IsSequence
  <2> QED BY <1>1, <1>2, <2>1, FinalIsLogged DEF LoggedNode, Has
<1>5. Growing => LoggedText = Stable BY <1>1, TextTold
<1> QED BY <1>3, <1>4, <1>5 DEF EventsMirrorDocument

(* Listening is as good as polling: between two calls, while no key has    *)
(* been repeated, the log names the paths that have a value, the values    *)
(* that are complete, and the stable text of the string that is open.      *)
THEOREM EventsMirrorDocumentCorrect == ASSUME NoneIsNoValue PROVE Spec => []EventsMirrorDocument
<1>1. NoneIsNoValue /\ Inv /\ LogInv /\ TextInv => EventsMirrorDocument BY MirrorHolds
<1> QED BY <1>1, Inductive, LogInductive, TextIsLogged, PTL

-----------------------------------------------------------------------------
(* The promise of stability. *)

Completions(evs) ==
  { Node(evs[i].path, evs[i].value) : i \in { j \in 1..Len(evs) : evs[j].type = "ValueCompleted" } }

FinalTold == ~RepeatsKey /\ ~FrameLost => Final = Completions(events) /\ ~Dup

LEMMA FinalIsTold == NoneIsNoValue /\ Inv /\ LogInv => FinalTold
<1> SUFFICES ASSUME NoneIsNoValue, Inv, LogInv, ~RepeatsKey, ~FrameLost
             PROVE  Final = Completions(events)
  BY RepeatsIsDup DEF FinalTold
<1>1. ASSUME NEW n \in Final PROVE n \in Completions(events)
  <2>1. n \in Nodes /\ LoggedNode(n) /\ n = Node(n.path, n.value)
    BY FinalIsLogged, NodesKnown DEF Final
  <2>2. PICK i \in 1..Len(events) : events[i] = Completed(n.path, n.value)
    BY <2>1 DEF LoggedNode, Has
  <2>3. events[i].type = "ValueCompleted" /\ events[i].path = n.path /\ events[i].value = n.value
    BY <2>2 DEF Completed
  <2>4. n = Node(events[i].path, events[i].value) BY <2>1, <2>3
  <2> QED BY <2>3, <2>4 DEF Completions
<1>2. ASSUME NEW i \in 1..Len(events), events[i].type = "ValueCompleted"
      PROVE  Node(events[i].path, events[i].value) \in Final
  <2> DEFINE n == Node(events[i].path, events[i].value)
  <2>1. AtLevel(n, Len(events[i].path)) BY <1>2, LoggedAreNodes
  <2>2. Len(events[i].path) \in 0..MaxDepth + 1
    <3>1. IsSequence(events[i].path) /\ Len(events[i].path) <= MaxDepth
      BY <1>2 DEF LogInv, LogShaped, ShapeAt
    <3> QED BY <3>1, ParserAssumption DEF IsSequence
  <2>3. n.path = events[i].path /\ n.value = events[i].value BY DEF Node
  <2> HIDE DEF n
  <2>4. n \in Nodes BY <2>1, <2>2, NodeLevels
  <2>5. events[i] = Completed(events[i].path, events[i].value) BY <1>2, LoggedIsContainer
  <2>6. LoggedNode(n) BY <2>3, <2>5 DEF LoggedNode, Has
  <2>7. n \in Final BY <2>4, <2>6, FinalIsLogged DEF Final
  <2> QED BY <2>7 DEF n
<1> QED BY <1>1, <1>2 DEF Completions

(* The value a step completes was not complete, nor was one above it. *)
LEMMA NewlyDone ==
  ASSUME Inv, Inv', LogInv, failed = None, ~Dup, Effect,
         NEW i \in 1..Len(events'), i \notin 1..Len(events), events'[i].type = "ValueCompleted",
         NEW j \in 1..Len(events), events[j].type = "ValueCompleted"
  PROVE  ~AtOrBelow(events'[i].path, events[j].path)
<1> DEFINE n == Len(events)
<1>1. IsSequence(events) /\ n \in Nat /\ LogOK BY DEF Inv, LogOK, IsSequence
<1>2. ASSUME NEW e, events' = Append(events, e) PROVE events'[i] = e
  <2>1. Len(events') = n + 1 /\ events'[n + 1] = e BY <1>1, <1>2, AppendSequence
  <2>2. i = n + 1 BY <1>1, <2>1
  <2> QED BY <2>1, <2>2
<1>3. ASSUME NEW st, NEW prefix, NEW v, Attach(st, prefix, v) PROVE events'[i].path = Slot(st, prefix)
  <2>1. /\ events'[n + 1] = Completed(Slot(st, prefix), v)
        /\ st # <<>> => Len(events') = n + 1
        /\ st = <<>> => Len(events') = n + 2 /\ events'[n + 2] = DocumentCompleted
    BY <1>1, <1>3, AttachEvents
  <2>2. i = n + 1 \/ (i = n + 2 /\ events'[n + 2] = DocumentCompleted) BY <1>1, <2>1
  <2>3. i = n + 1 BY <2>2 DEF DocumentCompleted
  <2> QED BY <2>1, <2>3 DEF Completed
<1>4. CASE ScalarEnded
  <2>1. InFlight /\ events'[i].path = SlotPath BY <1>3, <1>4 DEF ScalarEnded, SlotPath
  <2> QED BY <2>1, FreshEnd
<1>5. CASE ContainerEnded
  <2>1. stack # <<>> /\ events'[i].path = Slot(Front(stack), Truncated)
    BY <1>3, <1>5 DEF ContainerEnded
  <2>2. events'[i].path = path_prefix BY <2>1, PoppedPaths DEF Inv
  <2> QED BY <2>1, <2>2, FreshEnd
<1>6. CASE ScalarBegun \/ ContainerBegun \/ ContainerRefused
  <2>1. PICK kind : events' = Append(events, Started(SlotPath, kind))
    BY <1>6 DEF ScalarBegun, ContainerBegun, ContainerRefused, Begun
  <2> QED BY <1>2, <2>1 DEF Started
<1>7. CASE ProgressTold BY <1>2, <1>7 DEF ProgressTold, Progressed
<1>8. CASE Quiet \/ KeyRead \/ FrameDropped BY <1>8 DEF Quiet, KeyRead, FrameDropped
<1> QED BY <1>4, <1>5, <1>6, <1>7, <1>8 DEF Effect

LEMMA CompletionsGrow ==
  ASSUME Inv, Inv', LogInv, LogInv', failed = None, ~Dup, Effect
  PROVE  Promise!Grows(Completions(events), Completions(events'))
<1>1. /\ IsSequence(events) /\ IsSequence(events') /\ Extends(events, events')
      /\ Len(events) \in Nat /\ Len(events') \in Nat
  BY EffectExtends DEF IsSequence
<1>2. \A i \in 1..Len(events) : i \in 1..Len(events') /\ events'[i] = events[i] BY <1>1 DEF Extends
<1>3. Completions(events) \subseteq Completions(events') BY <1>2 DEF Completions
<1>4. ASSUME NEW n \in Completions(events') \ Completions(events)
      PROVE  /\ Promise!Children(n) \subseteq Completions(events')
             /\ \A m \in Completions(events) : ~Promise!Below(n.path, m.path)
  <2>1. PICK i \in 1..Len(events') :
          events'[i].type = "ValueCompleted" /\ n = Node(events'[i].path, events'[i].value)
    BY <1>4 DEF Completions
  <2>2. n.path = events'[i].path /\ n.value = events'[i].value BY <2>1 DEF Node
  <2>3. i \notin 1..Len(events)
    <3> SUFFICES ASSUME i \in 1..Len(events) PROVE FALSE OBVIOUS
    <3>1. events[i].type = "ValueCompleted" /\ n = Node(events[i].path, events[i].value)
      BY <1>2, <2>1
    <3> QED BY <1>4, <3>1 DEF Completions
  <2>4. Promise!Children(n) \subseteq Completions(events')
    <3> SUFFICES ASSUME n.value.type \in ContainerTypes, NEW j \in 1..Len(n.value.data)
                 PROVE  Node(Append(n.path, n.value.data[j].token), n.value.data[j].value)
                          \in Completions(events')
      BY DEF Promise!Children, ContainerTypes, Node
    <3>1. ChildrenAt(events', i) BY DEF LogInv, LogShaped
    <3>2. PICK k \in 1..(i - 1) :
            events'[k] = Completed(Append(n.path, n.value.data[j].token), n.value.data[j].value)
      BY <2>1, <2>2, <3>1 DEF ChildrenAt
    <3>3. /\ k \in 1..Len(events') /\ events'[k].type = "ValueCompleted"
          /\ events'[k].path = Append(n.path, n.value.data[j].token)
          /\ events'[k].value = n.value.data[j].value
      BY <1>1, <3>2 DEF Completed
    <3> QED BY <3>3 DEF Completions
  <2>5. ASSUME NEW m \in Completions(events) PROVE ~Promise!Below(n.path, m.path)
    <3>1. PICK j \in 1..Len(events) :
            events[j].type = "ValueCompleted" /\ m = Node(events[j].path, events[j].value)
      BY DEF Completions
    <3>2. m.path = events[j].path BY <3>1 DEF Node
    <3>3. ~AtOrBelow(n.path, m.path) BY <2>1, <2>2, <2>3, <3>1, <3>2, NewlyDone
    <3> QED BY <3>3 DEF AtOrBelow, Promise!Below
  <2> QED BY <2>4, <2>5
<1> QED BY <1>3, <1>4 DEF Promise!Grows

LEMMA PromiseInit == Init => Promise!Init
<1> SUFFICES ASSUME Init PROVE Promise!Init OBVIOUS
<1>1. stack = <<>> /\ tok = NoTok /\ root = None /\ failed = None BY DEF Init
<1>2. Inv BY InitInv
<1>3. /\ Opened[1] = TokenValue /\ Snapshot = IF Opened[1] = None THEN root ELSE Opened[1]
  <2>1. Len(stack) = 0 /\ 0 + 1 = 1 BY <1>1
  <2> QED BY <2>1, OpenedStep
<1>4. Snapshot = None BY <1>1, <1>3 DEF TokenValue, NoTok
<1>5. Nodes = {}
  <2> DEFINE bad == { d \in 0..MaxDepth + 1 : \E n : AtLevel(n, d) }
  <2>1. SUFFICES ASSUME bad # {} PROVE FALSE BY NodeLevels
  <2>2. PICK d \in bad : \A k \in bad : d <= k
    <3> HIDE DEF bad
    <3>1. bad \subseteq Nat BY DEF bad
    <3> QED BY <2>1, <3>1, LeastNumber
  <2>3. d # 0 BY <1>4, <2>2, NodeLevels
  <2>4. d \in 1..(MaxDepth + 1) /\ d - 1 \in 0..MaxDepth + 1 /\ d - 1 < d
    BY <2>2, <2>3, ParserAssumption
  <2>5. PICK n : AtLevel(n, d) BY <2>2
  <2>6. \E m : AtLevel(m, d - 1) BY <2>4, <2>5, NodeLevels
  <2> QED BY <2>2, <2>4, <2>6
<1>6. Final = {} /\ ~RepeatsKey /\ ~FrameLost BY <1>1, <1>5 DEF Final, RepeatsKey, FrameLost
<1> QED BY <1>6 DEF Promise!Init

LEMMA PromiseNext ==
  ASSUME NoneIsNoValue, Inv, Inv', LogInv, LogInv', FinalTold, FinalTold', [Next]_vars
  PROVE  [Promise!Next]_<<Final, ~RepeatsKey /\ ~FrameLost>>
<1>1. CASE UNCHANGED vars
  <2>1. Nodes' = Nodes BY <1>1 DEF vars, Nodes, Snapshot, TokenValue, Stable
  <2>2. Final' = Final
    BY <1>1, <2>1 DEF vars, Final, IsFinal, StatusOf, IsOpenContainer, OpenFramePath
  <2> QED BY <1>1, <2>1, <2>2 DEF vars, RepeatsKey, FrameLost
<1>2. CASE Next /\ ~(~RepeatsKey' /\ ~FrameLost')
  <2>1. Promise!Lapse BY <1>2 DEF Promise!Lapse
  <2> QED BY <2>1 DEF Promise!Next
<1>3. CASE Next /\ ~RepeatsKey' /\ ~FrameLost'
  <2>1. failed = None /\ Effect BY <1>3, NextEffect
  <2>2. ~Dup BY <1>3, <2>1, DupPersists DEF FinalTold
  <2>3. ~RepeatsKey /\ ~FrameLost BY <2>1, <2>2, RepeatsIsDup DEF FrameLost
  <2>4. Promise!Grows(Final, Final')
    <3>1. Final = Completions(events) /\ Final' = Completions(events') BY <1>3, <2>3 DEF FinalTold
    <3> QED BY <2>1, <2>2, <3>1, CompletionsGrow
  <2>5. Promise!Publish BY <1>3, <2>3, <2>4 DEF Promise!Publish
  <2> QED BY <2>5 DEF Promise!Next
<1> QED BY <1>1, <1>2, <1>3

(* The stability guarantee of the README: the stream implements the        *)
(* promise, that a value reported complete stays as it is, that nothing    *)
(* appears below it, and that what it holds was complete before it; until  *)
(* a key is repeated or a frame is lost.                                   *)
THEOREM StreamIsStableCorrect == ASSUME NoneIsNoValue PROVE Spec => StreamIsStable
<1>1. NoneIsNoValue /\ Inv /\ LogInv => FinalTold BY FinalIsTold
<1>2. NoneIsNoValue /\ Inv /\ Inv' /\ LogInv /\ LogInv' /\ FinalTold /\ FinalTold' /\ [Next]_vars
        => [Promise!Next]_<<Final, ~RepeatsKey /\ ~FrameLost>>
  BY PromiseNext
<1> QED BY <1>1, <1>2, PromiseInit, Inductive, LogInductive, PTL DEF Spec, StreamIsStable, Promise!Spec

-----------------------------------------------------------------------------
(* A query finds at a node's path the value that the node has. *)
LEMMA NodeValue ==
  ASSUME NEW n \in Nodes
  PROVE  IsSequence(n.path) /\ ValueIn(Snapshot, n.path) = n.value
<1> DEFINE Right(m) == IsSequence(m.path) /\ ValueIn(Snapshot, m.path) = m.value
           bad == { d \in 0..MaxDepth + 1 : ~\A m : AtLevel(m, d) => Right(m) }
<1>0. MaxDepth \in Nat BY ParserAssumption
<1>1. PICK d \in 0..MaxDepth + 1 : AtLevel(n, d) BY NodeLevels
<1>2. SUFFICES ASSUME bad # {} PROVE FALSE BY <1>1
<1>3. PICK e \in bad : \A c \in bad : e <= c
  <2> HIDE DEF bad
  <2>1. bad \subseteq Nat BY <1>0 DEF bad
  <2> QED BY <1>2, <2>1, LeastNumber
<1>4. /\ e \in 0..MaxDepth + 1
      /\ \A c \in 0..MaxDepth + 1 : c < e => \A m : AtLevel(m, c) => Right(m)
  BY <1>3
<1>5. PICK m : AtLevel(m, e) /\ ~Right(m) BY <1>3
<1>6. CASE e = 0
  <2>1. m = [path |-> <<>>, value |-> Snapshot] BY <1>5, <1>6, NodeLevels
  <2>2. m.path = <<>> /\ m.value = Snapshot BY <2>1
  <2> QED BY <1>5, <2>2, ValueAtRoot, EmptySequence
<1>7. CASE e # 0
  <2>1. e \in 1..(MaxDepth + 1) /\ e - 1 \in 0..MaxDepth + 1 /\ e - 1 < e BY <1>0, <1>4, <1>7
  <2>2. PICK o : AtLevel(o, e - 1) /\ \E t \in ChildrenOf(o.value) :
          m = [path |-> Append(o.path, t), value |-> Child(o.value, t)]
    BY <1>5, <2>1, NodeLevels
  <2>3. PICK t : m = [path |-> Append(o.path, t), value |-> Child(o.value, t)] BY <2>2
  <2>4. Right(o) BY <1>4, <2>1, <2>2
  <2>5. m.path = Append(o.path, t) /\ m.value = Child(o.value, t) BY <2>3
  <2>6. IsSequence(m.path) BY <2>4, <2>5, AppendSequence
  <2>7. ValueIn(Snapshot, m.path) = m.value BY <2>4, <2>5, ValueBelow
  <2> QED BY <1>5, <2>6, <2>7
<1> QED BY <1>6, <1>7

LEMMA NodeHasValue ==
  ASSUME Inv, LogInv, NoneIsNoValue, NEW n \in Nodes
  PROVE  n.value # None
<1>1. KnownNode(n) BY NodesKnown
<1>2. CASE LoggedNode(n)
  <2>1. PICK i \in 1..Len(events) : events[i] = Completed(n.path, n.value) BY <1>2 DEF LoggedNode, Has
  <2>2. events[i].type = "ValueCompleted" /\ events[i].value = n.value BY <2>1 DEF Completed
  <2> QED BY <2>2, LoggedIsContainer
<1>3. CASE FrameNode(n)
  <2>1. PICK k \in 1..Len(stack) : n.value = Opened[k] BY <1>3 DEF FrameNode
  <2>2. IsContainer(Opened[k]) BY OpenedFrame
  <2> QED BY <2>1, <2>2 DEF IsContainer, NoneIsNoValue
<1>4. CASE TokenNode(n) BY <1>4, TokenValueIs DEF TokenNode
<1> QED BY <1>1, <1>2, <1>3, <1>4 DEF KnownNode

-----------------------------------------------------------------------------
(* What a step may change in the snapshot: the nodes at and above the path *)
(* of an event, or of the token while it grows.  Literals and numbers grow *)
(* without an event, a string's text waits for the end of the push.        *)

LEMMA GrowingText == Inv /\ Growing => tok.decoded \in Seq(Byte)
BY Text DEF Growing

LEMMA QuietText ==
  ASSUME Inv, LogInv, TextInv, Inv', LogInv', TextInv', failed = None, failed' = None, Quiet, Growing
  PROVE  /\ Len(Stable) \in Nat /\ Len(Stable') \in Nat /\ Len(Stable) <= Len(Stable')
         /\ Len(Stable') <= reported_prefix => Stable' = Stable
<1>1. Growing' /\ reported_prefix' = reported_prefix /\ events' = events
      /\ IsPrefix(tok.decoded, tok'.decoded)
  BY DEF Quiet
<1>2. tok.decoded \in Seq(Byte) /\ IsSequence(tok.decoded) BY Text DEF Growing
<1>3. tok'.decoded \in Seq(Byte) /\ IsSequence(tok'.decoded)
  <2>1. (Inv /\ Growing => tok.decoded \in Seq(Byte))' BY GrowingText, PTL
  <2> QED BY <1>1, <2>1, SeqIsSequence
<1>4. PICK k \in 0..Len(tok.decoded) :
        Stable = SubSeq(tok.decoded, 1, k) /\ Utf8Valid(SubSeq(tok.decoded, 1, k))
  BY <1>2, StableCut DEF Stable
<1>5. PICK m \in 0..Len(tok'.decoded) :
        /\ Stable' = SubSeq(tok'.decoded, 1, m)
        /\ \A j \in 0..Len(tok'.decoded) : Utf8Valid(SubSeq(tok'.decoded, 1, j)) => j <= m
  BY <1>3, StableCut DEF Stable
<1>6. Len(tok.decoded) \in Nat /\ Len(tok'.decoded) \in Nat /\ Len(tok.decoded) <= Len(tok'.decoded)
      /\ \A i \in 1..Len(tok.decoded) : tok'.decoded[i] = tok.decoded[i]
  BY <1>1, <1>2, <1>3, PrefixElements DEF IsSequence
<1>7. k \in 0..Len(tok'.decoded) BY <1>6
<1>8. IsSequence(Stable) /\ Len(Stable) = k /\ \A i \in 1..k : Stable[i] = tok.decoded[i]
  BY <1>2, <1>4, SubSeqSequence
<1>9. Len(Stable') = m BY <1>3, <1>5, SubSeqSequence
<1>10. SubSeq(tok'.decoded, 1, k) = SubSeq(tok.decoded, 1, k)
  <2>1. /\ IsSequence(SubSeq(tok'.decoded, 1, k)) /\ Len(SubSeq(tok'.decoded, 1, k)) = k
        /\ \A i \in 1..k : SubSeq(tok'.decoded, 1, k)[i] = tok'.decoded[i]
    BY <1>3, <1>7, SubSeqSequence
  <2>2. \A i \in 1..k : tok'.decoded[i] = tok.decoded[i] BY <1>6
  <2> QED BY <1>4, <1>8, <2>1, <2>2, SameSequence
<1>11. k <= m BY <1>4, <1>5, <1>7, <1>10
<1>12. ASSUME Len(Stable') <= reported_prefix PROVE Stable' = Stable
  <2>1. (Inv /\ LogInv /\ TextInv /\ failed = None /\ Growing /\ Len(Stable) <= reported_prefix
           => Stable = LastText)'
    BY TextPinned, PTL
  <2>2. Stable' = LastText' BY <1>1, <1>12, <2>1
  <2>3. reported_prefix \in Nat BY DEF Inv, LogOK
  <2>4. Len(Stable) <= reported_prefix BY <1>4, <1>5, <1>8, <1>9, <1>11, <1>12, <2>3
  <2>5. Stable = LastText BY <2>4, TextPinned
  <2>6. LastText' = LastText BY <1>1 DEF LastText, LastEvent
  <2> QED BY <2>2, <2>5, <2>6
<1> QED BY <1>4, <1>5, <1>8, <1>9, <1>11, <1>12

Mentioned(p) == \E i \in (Len(events) + 1)..Len(events') :
  events'[i].type # "DocumentCompleted" /\ AtOrBelow(events'[i].path, p)

Silent == tok.type \in {"Num", "Lit"} \/ (Growing /\ Len(Stable) > reported_prefix)

Unsettled(p) == Silent /\ AtOrBelow(SlotPath, p)

(* A step that is neither quiet nor reads a key tells of the path whose    *)
(* frames it leaves open.                                                  *)
TellsOf(e) ==
  /\ e.type # "DocumentCompleted" /\ \E i \in (Len(events) + 1)..Len(events') : events'[i] = e
  /\ \A k \in 1..Len(stack') : AtOrBelow(e.path, FramePath(path_prefix', k))
  /\ InFlight' => e.path = SlotPath'
  /\ InFlight => e.path = SlotPath

LEMMA NewTold ==
  ASSUME Inv, NEW e, events' = Append(events, e)
  PROVE  \E i \in (Len(events) + 1)..Len(events') : events'[i] = e
<1>1. IsSequence(events) /\ Len(events) \in Nat BY DEF Inv, LogOK, IsSequence
<1>2. Len(events') = Len(events) + 1 /\ events'[Len(events) + 1] = e BY <1>1, AppendSequence
<1> QED BY <1>1, <1>2

LEMMA ChainTold ==
  ASSUME Inv, Inv', failed = None, failed' = None, Effect, ~Quiet, ~KeyRead
  PROVE  \E e : TellsOf(e)
<1> DEFINE n == Len(stack)
<1>1. IsStack(stack) /\ IsSequence(path_prefix) /\ CacheAgrees(stack, path_prefix)
  BY DEF Inv, TreeOK, PathCache
<1>2. IsStack(stack') /\ IsSequence(path_prefix') /\ CacheAgrees(stack', path_prefix')
  BY DEF Inv, TreeOK, PathCache
<1>3. /\ n \in Nat /\ IsSequence(SlotPath) /\ Len(SlotPath) = n
      /\ \A k \in 1..n : Len(FramePath(path_prefix, k)) = k - 1
                         /\ \A i \in 1..(k - 1) : FramePath(path_prefix, k)[i] = path_prefix[i]
      /\ Len(path_prefix) = (IF n = 0 THEN 0 ELSE n - 1)
      /\ \A i \in 1..Len(path_prefix) : SlotPath[i] = path_prefix[i]
  BY <1>1, FramePaths DEF SlotPath, CacheAgrees
<1>4. /\ Len(stack') \in Nat
      /\ \A k \in 1..Len(stack') : Len(FramePath(path_prefix', k)) = k - 1
                         /\ \A i \in 1..(k - 1) : FramePath(path_prefix', k)[i] = path_prefix'[i]
      /\ Len(path_prefix') = (IF Len(stack') = 0 THEN 0 ELSE Len(stack') - 1)
  <2>1. Len(path_prefix') = (IF stack' = <<>> THEN 0 ELSE Len(stack') - 1) BY <1>2 DEF CacheAgrees
  <2> QED BY <1>2, <2>1, FramePaths
<1>5. \A k \in 1..n : AtOrBelow(SlotPath, FramePath(path_prefix, k))
  <2> TAKE k \in 1..n
  <2>1. k - 1 <= n /\ k - 1 <= n - 1 /\ k - 1 \in Nat BY <1>3
  <2>2. \A i \in 1..(k - 1) : FramePath(path_prefix, k)[i] = SlotPath[i] BY <1>3, <2>1
  <2> QED BY <1>3, <2>1, <2>2 DEF AtOrBelow
<1>6. CASE ScalarBegun
  <2>1. PICK kind : events' = Append(events, Started(SlotPath, kind)) BY <1>6 DEF ScalarBegun, Begun
  <2>2. stack' = stack /\ path_prefix' = path_prefix /\ ~InFlight BY <1>6 DEF ScalarBegun, Begun
  <2>3. SlotPath' = SlotPath BY <2>2 DEF SlotPath, Slot
  <2>4. Started(SlotPath, kind).path = SlotPath /\ Started(SlotPath, kind).type # "DocumentCompleted"
    BY DEF Started
  <2>5. TellsOf(Started(SlotPath, kind)) BY <1>5, <2>1, <2>2, <2>3, <2>4, NewTold DEF TellsOf
  <2> QED BY <2>5
<1>7. CASE ContainerBegun
  <2>1. PICK kind : events' = Append(events, Started(SlotPath, kind)) BY <1>7 DEF ContainerBegun, Begun
  <2>2. path_prefix' = SlotPath /\ ~InFlight /\ ~InFlight' BY <1>7 DEF ContainerBegun, Begun
  <2>3. Started(SlotPath, kind).path = SlotPath /\ Started(SlotPath, kind).type # "DocumentCompleted"
    BY DEF Started
  <2>4. \A k \in 1..Len(stack') : AtOrBelow(SlotPath, FramePath(path_prefix', k))
    <3> TAKE k \in 1..Len(stack')
    <3>1. k - 1 <= Len(path_prefix') BY <1>4
    <3> QED BY <1>4, <2>2, <3>1 DEF AtOrBelow
  <2>5. TellsOf(Started(SlotPath, kind)) BY <2>1, <2>2, <2>3, <2>4, NewTold DEF TellsOf
  <2> QED BY <2>5
<1>8. ASSUME NEW st, NEW prefix, NEW v, Attach(st, prefix, v)
      PROVE  \E i \in (Len(events) + 1)..Len(events') : events'[i] = Completed(Slot(st, prefix), v)
  BY <1>8, AttachEvents DEF Inv
<1>9. CASE ScalarEnded
  <2>1. PICK type \in ScalarTypes : \E text : InFlight /\ Attach(stack, path_prefix, Scalar(type, text))
    BY <1>9 DEF ScalarEnded
  <2>2. PICK text : InFlight /\ Attach(stack, path_prefix, Scalar(type, text)) BY <2>1
  <2>3. ~InFlight' BY <1>9 DEF ScalarEnded
  <2> DEFINE e == Completed(SlotPath, Scalar(type, text))
  <2>4. \E i \in (Len(events) + 1)..Len(events') : events'[i] = e BY <1>8, <2>2 DEF SlotPath
  <2>5. path_prefix' = path_prefix /\ Len(stack') = n
    <3>1. CASE stack = <<>> BY <1>3, <2>2, <3>1 DEF Attach
    <3>2. CASE stack # <<>> BY <1>1, <2>2, <3>2, AttachTree
    <3> QED BY <3>1, <3>2
  <2>6. e.path = SlotPath /\ e.type # "DocumentCompleted" BY DEF Completed
  <2> HIDE DEF e
  <2>7. TellsOf(e) BY <1>5, <2>3, <2>4, <2>5, <2>6 DEF TellsOf
  <2> QED BY <2>7
<1>10. CASE ContainerEnded
  <2> DEFINE st == Front(stack)
             v  == Container(Last(stack))
             e  == Completed(Slot(st, Truncated), v)
  <2>1. stack # <<>> /\ Attach(st, Truncated, v) /\ ~InFlight /\ ~InFlight' BY <1>10 DEF ContainerEnded
  <2>2. /\ n \in Nat \ {0} /\ Len(st) = n - 1 /\ Slot(st, Truncated) = path_prefix
        /\ FramePath(path_prefix, n) = path_prefix
        /\ \A k \in 1..(n - 1) : FramePath(Truncated, k) = FramePath(path_prefix, k)
    BY <2>1, PoppedPaths DEF Inv
  <2>3. path_prefix' = Truncated /\ Len(stack') \in Nat /\ Len(stack') <= n - 1
    <3>1. CASE st = <<>> BY <1>4, <2>1, <2>2, <3>1 DEF Attach
    <3>2. CASE st # <<>>
      <4>1. IsStack(st) BY <1>1, <2>1, Popped DEF Inv
      <4> QED BY <2>1, <2>2, <3>2, <4>1, AttachTree
    <3> QED BY <3>1, <3>2
  <2>4. \A k \in 1..Len(stack') : AtOrBelow(path_prefix, FramePath(path_prefix', k))
    <3> TAKE k \in 1..Len(stack')
    <3>1. k \in 1..(n - 1) /\ k \in 1..n /\ k - 1 <= Len(path_prefix) BY <1>3, <2>2, <2>3
    <3>2. FramePath(path_prefix', k) = FramePath(path_prefix, k) BY <2>2, <2>3, <3>1
    <3> QED BY <1>3, <3>1, <3>2 DEF AtOrBelow
  <2>5. e.path = path_prefix /\ e.type # "DocumentCompleted" BY <2>2 DEF Completed
  <2>6. \E i \in (Len(events) + 1)..Len(events') : events'[i] = e BY <1>8, <2>1
  <2> HIDE DEF e
  <2>7. TellsOf(e) BY <2>1, <2>4, <2>5, <2>6 DEF TellsOf
  <2> QED BY <2>7
<1>11. CASE ProgressTold
  <2> DEFINE e == Progressed(SlotPath, Stable)
  <2>1. events' = Append(events, e) /\ stack' = stack /\ path_prefix' = path_prefix
    BY <1>11 DEF ProgressTold
  <2>2. SlotPath' = SlotPath BY <2>1 DEF SlotPath, Slot
  <2>3. e.path = SlotPath /\ e.type # "DocumentCompleted" BY DEF Progressed
  <2>4. TellsOf(e) BY <1>5, <2>1, <2>2, <2>3, NewTold DEF TellsOf
  <2> QED BY <2>4
<1>12. ~FrameDropped /\ ~ContainerRefused BY DEF FrameDropped, ContainerRefused
<1> QED BY <1>6, <1>7, <1>9, <1>10, <1>11, <1>12 DEF Effect

LEMMA StillSilent ==
  ASSUME Inv, LogInv, TextInv, Inv', LogInv', TextInv', failed = None, failed' = None, Effect,
         NEW p, Unsettled(p)
  PROVE  Mentioned(p) \/ Unsettled(p)'
<1>1. InFlight /\ AtOrBelow(SlotPath, p) BY DEF Unsettled, Silent, InFlight
<1>2. CASE Quiet
  <2>1. SlotPath' = SlotPath BY <1>2 DEF Quiet, SlotPath, Slot
  <2>2. CASE Growing
    <3>1. Growing' /\ reported_prefix' = reported_prefix BY <1>2, <2>2 DEF Quiet
    <3>2. tok.type \notin {"Num", "Lit"} BY <2>2 DEF Growing
    <3>3. Len(Stable) > reported_prefix BY <3>2 DEF Unsettled, Silent
    <3>4. reported_prefix \in Nat BY DEF Inv, LogOK
    <3>5. Len(Stable) \in Nat /\ Len(Stable') \in Nat /\ Len(Stable) <= Len(Stable')
      BY <1>2, <2>2, QuietText
    <3>6. Len(Stable') > reported_prefix' BY <3>1, <3>3, <3>4, <3>5
    <3> QED BY <1>1, <2>1, <3>1, <3>6 DEF Unsettled, Silent
  <2>3. CASE ~Growing
    <3>1. InFlight' /\ ~Growing' BY <1>1, <1>2, <2>3 DEF Quiet
    <3>2. tok'.type \in {"Num", "Lit"} BY <3>1 DEF InFlight
    <3> QED BY <1>1, <2>1, <3>2 DEF Unsettled, Silent
  <2> QED BY <2>2, <2>3
<1>3. ~KeyRead BY <1>1 DEF KeyRead
<1>4. CASE ~Quiet
  <2>1. PICK e : TellsOf(e) BY <1>3, <1>4, ChainTold
  <2>2. e.path = SlotPath /\ e.type # "DocumentCompleted" BY <1>1, <2>1 DEF TellsOf
  <2> QED BY <1>1, <2>1, <2>2 DEF TellsOf, Mentioned
<1> QED BY <1>2, <1>4

(* Facts of a state, in a form that can be used of the next one. *)
LEMMA TokenValueNone == Inv /\ NoneIsNoValue => (~InFlight => TokenValue = None)
BY TokenValueIs

LEMMA OpenedEquation ==
  Len(stack) \in Nat => Opened[Len(stack) + 1] = TokenValue
    /\ \A i \in 1..Len(stack) : Opened[i] = Filled(stack[i], Opened[i + 1])
BY OpenedStep

LEMMA NodesAreKnown ==
  Inv /\ LogInv /\ NoneIsNoValue => \A m \in Nodes : KnownNode(m) /\ m = Node(m.path, m.value)
BY NodesKnown

LEMMA FinalAreLogged ==
  Inv /\ LogInv /\ NoneIsNoValue /\ ~FrameLost /\ ~RepeatsKey =>
    \A m \in Nodes : IsFinal(m) <=> LoggedNode(m)
BY FinalIsLogged

LEMMA OpenIsPrefix == Inv => (stack # <<>> => OpenFramePath = path_prefix)
BY OpenPath

LEMMA SlotIsSequence == Inv => IsSequence(SlotPath)
<1> SUFFICES ASSUME Inv PROVE IsSequence(SlotPath) OBVIOUS
<1>1. IsStack(stack) /\ IsSequence(path_prefix) /\ CacheAgrees(stack, path_prefix)
  BY DEF Inv, TreeOK, PathCache
<1> QED BY <1>1, FramePaths DEF SlotPath

LEMMA FramesAboveSlot == Inv => \A j \in 1..Len(stack) : AtOrBelow(SlotPath, FramePath(path_prefix, j))
<1> SUFFICES ASSUME Inv, NEW j \in 1..Len(stack) PROVE AtOrBelow(SlotPath, FramePath(path_prefix, j))
  OBVIOUS
<1>1. IsStack(stack) /\ IsSequence(path_prefix) /\ CacheAgrees(stack, path_prefix)
  BY DEF Inv, TreeOK, PathCache
<1>2. /\ Len(stack) \in Nat /\ Len(SlotPath) = Len(stack)
      /\ Len(FramePath(path_prefix, j)) = j - 1
      /\ \A i \in 1..(j - 1) : FramePath(path_prefix, j)[i] = path_prefix[i]
      /\ stack # <<>> => Len(path_prefix) = Len(stack) - 1
      /\ (stack = <<>> <=> Len(stack) = 0)
      /\ \A i \in 1..Len(path_prefix) : SlotPath[i] = path_prefix[i]
  BY <1>1, FramePaths DEF SlotPath
<1>3. j - 1 <= Len(SlotPath) /\ \A i \in 1..(j - 1) : i \in 1..Len(path_prefix) BY <1>2
<1> QED BY <1>2, <1>3 DEF AtOrBelow

LEMMA KeyReadOpened ==
  ASSUME NoneIsNoValue, Inv, Inv', KeyRead
  PROVE  \A k \in 1..Len(stack') : Opened'[k] = Opened[k]
<1> DEFINE n == Len(stack)
<1>1. /\ n \in Nat \ {0} /\ Len(stack') = n
      /\ \A k \in 1..n : /\ stack'[k].kind = stack[k].kind /\ stack'[k].children = stack[k].children
                         /\ k # n => stack'[k] = stack[k]
  BY KeyReadFrames
<1>2. TokenValue = None /\ TokenValue' = None
  <2>1. ~InFlight => TokenValue = None BY TokenValueIs
  <2>2. (Inv /\ NoneIsNoValue => (~InFlight => TokenValue = None))' BY TokenValueNone, PTL
  <2> QED BY <2>1, <2>2 DEF KeyRead, NoneIsNoValue
<1>3. Opened[n + 1] = None /\ \A k \in 1..n : Opened[k] = Filled(stack[k], Opened[k + 1])
  BY <1>1, <1>2, OpenedStep
<1>4. Opened'[n + 1] = None /\ \A k \in 1..n : Opened'[k] = Filled(stack'[k], Opened'[k + 1])
  <2>1. (Len(stack) \in Nat => Opened[Len(stack) + 1] = TokenValue
          /\ \A i \in 1..Len(stack) : Opened[i] = Filled(stack[i], Opened[i + 1]))'
    BY OpenedEquation, PTL
  <2> QED BY <1>1, <1>2, <2>1
<1> DEFINE bad == { m \in 0..n : Opened'[n + 1 - m] # Opened[n + 1 - m] }
<1>5. bad = {}
  <2>1. SUFFICES ASSUME bad # {} PROVE FALSE OBVIOUS
  <2>2. PICK m \in bad : \A i \in bad : m <= i
    <3> HIDE DEF bad
    <3>1. bad \subseteq Nat BY DEF bad
    <3> QED BY <2>1, <3>1, LeastNumber
  <2>3. m \in 0..n /\ Opened'[n + 1 - m] # Opened[n + 1 - m] BY <2>2
  <2>4. m # 0 BY <1>1, <1>3, <1>4, <2>3
  <2> DEFINE k == n + 1 - m
  <2>5. m - 1 \in 0..n /\ ~(m <= m - 1) /\ n + 1 - (m - 1) = k + 1 /\ k \in 1..n BY <1>1, <2>3, <2>4
  <2>6. m - 1 \notin bad BY <2>2, <2>5
  <2>7. Opened'[k + 1] = Opened[k + 1] BY <2>5, <2>6
  <2>8. Opened'[k] # Opened[k] BY <2>3
  <2> HIDE DEF k
  <2>9. Opened[k] = Filled(stack[k], Opened[k + 1]) /\ Opened'[k] = Filled(stack'[k], Opened[k + 1])
    BY <1>3, <1>4, <2>5, <2>7
  <2>10. CASE k = n
    <3>1. Opened[k + 1] = None BY <1>3, <2>10
    <3>2. Filled(stack[k], None) = Filled(stack'[k], None) BY <1>1, <2>5 DEF Filled, Container
    <3> QED BY <2>8, <2>9, <3>1, <3>2
  <2>11. CASE k # n
    <3>1. stack'[k] = stack[k] BY <1>1, <2>5, <2>11
    <3> QED BY <2>8, <2>9, <3>1
  <2> QED BY <2>10, <2>11
<1>6. ASSUME NEW k \in 1..n PROVE Opened'[k] = Opened[k]
  <2>1. n + 1 - k \in 0..n /\ n + 1 - (n + 1 - k) = k BY <1>1
  <2>2. n + 1 - k \notin bad BY <1>5
  <2> QED BY <2>1, <2>2
<1> QED BY <1>1, <1>6

LEMMA QuietOpened ==
  ASSUME stack' = stack, TokenValue' = TokenValue
  PROVE  Opened' = Opened
BY Zenon DEF Opened

(* A node that no event of the step tells of, and that is not above a      *)
(* token that grows in silence, was there before, as it is.                *)
LEMMA NodeKept ==
  ASSUME NoneIsNoValue, Inv, LogInv, TextInv, Inv', LogInv', TextInv', failed = None, failed' = None,
         Effect, ~RepeatsKey, ~RepeatsKey',
         NEW n \in Nodes', ~Mentioned(n.path), ~Unsettled(n.path)'
  PROVE  n \in Nodes /\ (IsFinal(n)' <=> IsFinal(n))
<1>1. (LoggedNode(n) \/ FrameNode(n) \/ TokenNode(n))' /\ n = Node(n.path, n.value)
  <2>1. (Inv /\ LogInv /\ NoneIsNoValue =>
           \A m \in Nodes : KnownNode(m) /\ m = Node(m.path, m.value))'
    BY NodesAreKnown, PTL
  <2> QED BY <2>1 DEF KnownNode, NoneIsNoValue
<1>2. ~FrameLost /\ ~FrameLost' BY DEF FrameLost
<1>3. IsSequence(events) /\ IsSequence(events') /\ Extends(events, events')
      /\ Len(events) \in Nat /\ Len(events') \in Nat
  BY EffectExtends DEF IsSequence
<1>4. MaxDepth \in Nat /\ Len(stack) \in Nat /\ Len(stack) <= MaxDepth
  BY ParserAssumption, StackShape DEF LogInv
<1>5. CASE LoggedNode(n)'
  <2>1. PICK i \in 1..Len(events') : events'[i] = Completed(n.path, n.value)
    BY <1>5 DEF LoggedNode, Has
  <2>2. events'[i].type = "ValueCompleted" /\ events'[i].path = n.path BY <2>1 DEF Completed
  <2>3. IsSequence(n.path)
    <3>1. ShapeAt(events', i) BY DEF LogInv, LogShaped
    <3> QED BY <2>2, <3>1 DEF ShapeAt
  <2>4. i \in 1..Len(events)
    <3> SUFFICES ASSUME i \notin 1..Len(events) PROVE FALSE OBVIOUS
    <3>1. i \in (Len(events) + 1)..Len(events') BY <1>3
    <3>2. AtOrBelow(n.path, n.path) BY <2>3 DEF AtOrBelow, IsSequence
    <3> QED BY <2>2, <3>1, <3>2 DEF Mentioned
  <2>5. events[i] = Completed(n.path, n.value) BY <1>3, <2>1, <2>4 DEF Extends
  <2>6. AtLevel(Node(n.path, n.value), Len(n.path))
    <3>1. events[i].type = "ValueCompleted" /\ events[i].path = n.path /\ events[i].value = n.value
      BY <2>5 DEF Completed
    <3> QED BY <1>2, <2>4, <3>1, LoggedAreNodes
  <2>7. Len(n.path) \in 0..MaxDepth + 1
    <3>1. ShapeAt(events, i) BY <2>4 DEF LogInv, LogShaped
    <3>2. Len(n.path) <= MaxDepth BY <2>5, <3>1 DEF ShapeAt, Completed
    <3> QED BY <1>4, <2>3, <3>2 DEF IsSequence
  <2>8. n \in Nodes BY <1>1, <2>6, <2>7, NodeLevels
  <2>9. LoggedNode(n) BY <2>4, <2>5 DEF LoggedNode, Has
  <2>10. IsFinal(n) BY <1>2, <2>8, <2>9, FinalIsLogged
  <2>11. IsFinal(n)'
    <3>1. (Inv /\ LogInv /\ NoneIsNoValue /\ ~FrameLost /\ ~RepeatsKey =>
             \A m \in Nodes : IsFinal(m) <=> LoggedNode(m))'
      BY FinalAreLogged, PTL
    <3> QED BY <1>2, <1>5, <3>1 DEF NoneIsNoValue
  <2> QED BY <2>8, <2>10, <2>11
<1>6. ASSUME FrameNode(n)' \/ TokenNode(n)'
      PROVE  Quiet \/ KeyRead
  <2> SUFFICES ASSUME ~Quiet, ~KeyRead PROVE FALSE OBVIOUS
  <2>1. PICK e : TellsOf(e) BY ChainTold
  <2>2. PICK i \in (Len(events) + 1)..Len(events') : events'[i] = e BY <2>1 DEF TellsOf
  <2>3. AtOrBelow(e.path, n.path)
    <3>1. CASE FrameNode(n)' BY <2>1, <3>1 DEF FrameNode, TellsOf
    <3>2. CASE TokenNode(n)'
      <4>1. e.path = SlotPath' /\ n.path = SlotPath' BY <2>1, <3>2 DEF TokenNode, TellsOf
      <4>2. (Inv => IsSequence(SlotPath))' BY SlotIsSequence, PTL
      <4> QED BY <4>1, <4>2 DEF AtOrBelow, IsSequence
    <3> QED BY <1>6, <3>1, <3>2
  <2>4. e.type # "DocumentCompleted" BY <2>1 DEF TellsOf
  <2> QED BY <2>2, <2>3, <2>4 DEF Mentioned
<1>7. ASSUME Quiet \/ KeyRead PROVE IsFinal(n)' <=> IsFinal(n)
  <2>1. /\ path_prefix' = path_prefix /\ (stack' = <<>> <=> stack = <<>>)
    <3>1. CASE Quiet BY <3>1 DEF Quiet
    <3>2. CASE KeyRead BY <3>2, KeyReadFrames DEF KeyRead
    <3> QED BY <1>7, <3>1, <3>2
  <2>2. (Inv => (stack # <<>> => OpenFramePath = path_prefix))' BY OpenIsPrefix, PTL
  <2>3. IsOpenContainer(n.path)' <=> IsOpenContainer(n.path) BY <2>1, <2>2, OpenPath DEF IsOpenContainer
  <2> QED BY <2>3 DEF IsFinal, StatusOf
<1>8. ASSUME Quiet, InFlight', AtOrBelow(SlotPath', n.path) PROVE TokenValue' = TokenValue
  <2>1. ~Silent' BY <1>8 DEF Unsettled
  <2>2. Growing' /\ Growing BY <1>8, <2>1 DEF Silent, InFlight, Quiet
  <2>3. Stable' = Stable
    <3>1. ~(Len(Stable') > reported_prefix') /\ reported_prefix' = reported_prefix
      BY <1>8, <2>1, <2>2 DEF Silent, Quiet
    <3>2. Len(Stable') \in Nat /\ reported_prefix \in Nat BY <1>8, <2>2, QuietText DEF Inv, LogOK
    <3> QED BY <1>8, <2>2, <3>1, <3>2, QuietText
  <2> QED BY <2>2, <2>3 DEF TokenValue, Growing
<1>9. CASE FrameNode(n)'
  <2>1. PICK k \in 1..Len(stack') : n.path = FramePath(path_prefix', k) /\ n.value = Opened'[k]
    BY <1>9 DEF FrameNode
  <2>2. path_prefix' = path_prefix /\ Len(stack') = Len(stack)
    BY <1>6, <1>9, KeyReadFrames DEF Quiet, KeyRead
  <2>3. Opened'[k] = Opened[k]
    <3>1. CASE KeyRead BY <3>1, KeyReadOpened
    <3>2. CASE Quiet
      <4>1. CASE InFlight'
        <5>1. AtOrBelow(SlotPath', n.path)
          <6>1. (Inv => \A j \in 1..Len(stack) : AtOrBelow(SlotPath, FramePath(path_prefix, j)))'
            BY FramesAboveSlot, PTL
          <6> QED BY <2>1, <6>1
        <5>2. TokenValue' = TokenValue BY <3>2, <4>1, <5>1, <1>8
        <5> QED BY <3>2, <5>2, QuietOpened DEF Quiet
      <4>2. CASE ~InFlight'
        <5>1. ~InFlight BY <3>2, <4>2 DEF Quiet
        <5>2. (Inv /\ NoneIsNoValue => (~InFlight => TokenValue = None))' BY TokenValueNone, PTL
        <5>3. TokenValue' = TokenValue BY <4>2, <5>1, <5>2, TokenValueIs DEF NoneIsNoValue
        <5> QED BY <3>2, <5>3, QuietOpened DEF Quiet
      <4> QED BY <4>1, <4>2
    <3> QED BY <1>6, <1>9, <3>1, <3>2
  <2>4. k \in 1..Len(stack) /\ n = Node(FramePath(path_prefix, k), Opened[k]) BY <1>1, <2>1, <2>2, <2>3
  <2>5. AtLevel(n, k - 1) /\ k - 1 \in 0..MaxDepth + 1 BY <1>4, <2>4, FramesAreNodes
  <2> QED BY <1>6, <1>7, <1>9, <2>5, NodeLevels
<1>10. CASE TokenNode(n)'
  <2>1. InFlight' /\ n.path = SlotPath' /\ n.value = TokenValue' BY <1>10 DEF TokenNode
  <2>2. Quiet BY <1>6, <1>10, <2>1 DEF KeyRead
  <2>3. InFlight /\ SlotPath' = SlotPath BY <2>1, <2>2 DEF Quiet, SlotPath, Slot
  <2>4. AtOrBelow(SlotPath', n.path)
    <3>1. (Inv => IsSequence(SlotPath))' BY SlotIsSequence, PTL
    <3> QED BY <2>1, <3>1 DEF AtOrBelow, IsSequence
  <2>5. TokenValue' = TokenValue BY <1>8, <2>1, <2>2, <2>4
  <2>6. n = Node(SlotPath, TokenValue) BY <1>1, <2>1, <2>3, <2>5
  <2>7. AtLevel(n, Len(stack)) /\ Len(stack) \in 0..MaxDepth + 1 BY <1>4, <2>3, <2>6, FramesAreNodes
  <2> QED BY <1>7, <2>2, <2>7, NodeLevels
<1> QED BY <1>1, <1>5, <1>9, <1>10
============================================================================
