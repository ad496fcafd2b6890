---------------------------- MODULE ParserProofs ----------------------------
(***************************************************************************)
(* Theorems about Parser, for every producer and every depth limit.        *)
(*                                                                         *)
(* The four properties are inductive only together: cutting the cached     *)
(* path needs the saved lengths (PathCache), filing a value needs a frame  *)
(* with a pending key (FramesAgree), which needs the types.                *)
(***************************************************************************)
EXTENDS Parser, SeqLemmas

IsStack(st) == IsSequence(st) /\ \A i \in 1..Len(st) : IsFrame(st[i])

(* The invariant by the part of the state it speaks of. *)
ControlOK ==
  /\ failed \in Failure \cup {None} /\ NeverUnbalanced
  /\ offset \in Nat /\ commit \in Nat /\ held \in Alphabet \cup {None}
  /\ feeding \in BOOLEAN /\ ended \in BOOLEAN /\ input \in Seq(Alphabet)

LogOK == IsSequence(events) /\ reported_prefix \in Nat

TreeOK ==
  /\ IsStack(stack) /\ expect \in Expect /\ IsSequence(path_prefix) /\ PathCache
  /\ failed = None => KeysAgree(stack, expect) /\ ExpectAgrees(stack, expect)

TokenOK == tok \in Tok /\ EscapeAccounts /\ (failed = None => TokenAgrees)

Inv == ControlOK /\ LogOK /\ TreeOK /\ TokenOK

LEMMA InvImplies ==
  Inv => TypeOK /\ PathCache /\ FramesAgree /\ EscapeAccounts /\ NeverUnbalanced
BY DEF Inv, TypeOK, FramesAgree, ControlOK, LogOK, TreeOK, TokenOK, IsStack

-----------------------------------------------------------------------------
(* Frames. *)

LEMMA NewFrame ==
  ASSUME NEW kind \in {"Object", "Array"}, NEW n \in Nat
  PROVE  IsFrame([kind |-> kind, children |-> <<>>, pending_key |-> None, path_len |-> n])
BY EmptySequence DEF IsFrame

(* Filing a value clears the pending key and keeps kind and saved length.  *)
LEMMA FiledFrame ==
  ASSUME NEW f, IsFrame(f), NEW v
  PROVE  /\ IsFrame(Filed(f, v))
         /\ Filed(f, v).kind = f.kind
         /\ Filed(f, v).path_len = f.path_len
         /\ Filed(f, v).pending_key = None
<1> DEFINE c == Append(f.children, [token |-> SlotToken(f), value |-> v])
           g == [kind |-> f.kind, children |-> c, pending_key |-> None, path_len |-> f.path_len]
<1>1. IsSequence(c) BY AppendSequence DEF IsFrame
<1>2. Filed(f, v) = g BY DEF Filed
<1>3. IsFrame(g) BY <1>1 DEF IsFrame
<1> QED BY <1>2, <1>3

LEMMA KeyedFrame ==
  ASSUME NEW f, IsFrame(f), NEW k \in Seq(Byte)
  PROVE  LET g == [f EXCEPT !.pending_key = k]
         IN  /\ IsFrame(g)
             /\ g.kind = f.kind
             /\ g.path_len = f.path_len
             /\ g.pending_key = k
<1> DEFINE g == [kind |-> f.kind, children |-> f.children, pending_key |-> k,
                 path_len |-> f.path_len]
           h == [kind |-> f.kind, children |-> f.children, pending_key |-> f.pending_key,
                 path_len |-> f.path_len]
<1>1. f = h BY DEF IsFrame
<1>2. [h EXCEPT !.pending_key = k] = g OBVIOUS
<1>3. IsFrame(g) BY DEF IsFrame
<1> QED BY <1>1, <1>2, <1>3

(* Replacing the innermost frame leaves the cached path alone: the cache   *)
(* holds the slots of the outer frames only.                               *)
LEMMA TopReplaced ==
  ASSUME NEW st, IsStack(st), st # <<>>, NEW prefix, CacheAgrees(st, prefix),
         NEW f, IsFrame(f), f.path_len = Last(st).path_len
  PROVE  LET new == [st EXCEPT ![Len(st)] = f]
         IN  /\ IsStack(new) /\ new # <<>> /\ Len(new) = Len(st)
             /\ Last(new) = f
             /\ \A i \in 1..(Len(st) - 1) : new[i] = st[i]
             /\ CacheAgrees(new, prefix)
<1> DEFINE n == Len(st)
           new == [st EXCEPT ![n] = f]
<1>1. n \in Nat \ {0} /\ Last(st) = st[n] BY FrontSequence DEF IsStack
<1>2. n \in 1..n BY <1>1
<1>3. /\ IsSequence(new) /\ Len(new) = n /\ new[n] = f
      /\ \A i \in 1..n : i # n => new[i] = st[i]
  BY <1>2, ExceptSequence DEF IsStack
<1>4. new # <<>> BY <1>1, <1>3, NonEmptySequence
<1>5. Last(new) = f BY <1>3 DEF Last
<1>6. \A i \in 1..(n - 1) : new[i] = st[i]
  <2> HIDE DEF n, new
  <2> QED BY <1>1, <1>3
<1>7. IsStack(new) BY <1>1, <1>3 DEF IsStack
<1>8. CacheAgrees(new, prefix)
  <2>1. Len(prefix) = n - 1 BY <1>4 DEF CacheAgrees
  <2>2. \A i \in 1..(n - 1) : prefix[i] = SlotToken(new[i]) BY <1>6 DEF CacheAgrees
  <2>3. \A i \in 1..n : new[i].path_len = IF i = 1 THEN 0 ELSE i - 2
    BY <1>1, <1>3 DEF CacheAgrees
  <2> QED BY <1>3, <1>4, <2>1, <2>2, <2>3 DEF CacheAgrees
<1> QED BY <1>3, <1>4, <1>5, <1>6, <1>7, <1>8

-----------------------------------------------------------------------------
(* The tree: what popping, filing and pushing do to it. *)

LEMMA Popped ==
  ASSUME TreeOK, stack # <<>>
  PROVE  /\ IsStack(Front(stack)) /\ Len(Front(stack)) = Len(stack) - 1
         /\ IsSequence(Truncated) /\ CacheAgrees(Front(stack), Truncated)
         /\ KeysAgree(stack, expect) => KeysAgree(Front(stack), "Value")
<1> DEFINE n == Len(stack)
           st == Front(stack)
           prefix == SubSeq(path_prefix, 1, Last(stack).path_len)
<1>1. /\ n \in Nat \ {0} /\ IsSequence(st) /\ Len(st) = n - 1
      /\ \A i \in 1..(n - 1) : st[i] = stack[i]
      /\ Last(stack) = stack[n]
  BY FrontSequence DEF TreeOK, IsStack
<1>2. Truncated = prefix BY DEF Truncated
<1>3. /\ Len(path_prefix) = n - 1
      /\ \A i \in 1..(n - 1) : path_prefix[i] = SlotToken(stack[i])
      /\ \A i \in 1..n : stack[i].path_len = IF i = 1 THEN 0 ELSE i - 2
  BY DEF TreeOK, PathCache, CacheAgrees
<1>4. Last(stack).path_len = IF n = 1 THEN 0 ELSE n - 2
  <2> HIDE DEF n
  <2> QED BY <1>1, <1>3
<1>5. Last(stack).path_len \in 0..Len(path_prefix) BY <1>1, <1>3, <1>4
<1>6. /\ IsSequence(prefix) /\ Len(prefix) = Last(stack).path_len
      /\ \A i \in 1..Last(stack).path_len : prefix[i] = path_prefix[i]
  BY <1>5, SubSeqSequence DEF TreeOK
<1>7. (st = <<>>) <=> (n = 1) BY <1>1, NonEmptySequence
<1>8. IsStack(st) BY <1>1 DEF TreeOK, IsStack
<1>9. CacheAgrees(st, prefix)
  <2> HIDE DEF n, st, prefix
  <2>1. Len(prefix) = IF st = <<>> THEN 0 ELSE Len(st) - 1 BY <1>1, <1>4, <1>6, <1>7
  <2>2. \A i \in 1..(Len(st) - 1) : prefix[i] = SlotToken(st[i])
    BY <1>1, <1>3, <1>4, <1>6, <1>7
  <2>3. \A i \in 1..Len(st) : st[i].path_len = IF i = 1 THEN 0 ELSE i - 2 BY <1>1, <1>3
  <2> QED BY <2>1, <2>2, <2>3 DEF CacheAgrees
<1>10. KeysAgree(stack, expect) => KeysAgree(st, "Value")
  <2> HIDE DEF st
  <2> QED BY <1>1 DEF KeysAgree
<1> QED BY <1>1, <1>2, <1>6, <1>8, <1>9, <1>10

(* attach() to a stack whose innermost object, if any, has its key. *)
LEMMA Attached ==
  ASSUME NEW st, IsStack(st), NEW prefix, IsSequence(prefix), CacheAgrees(st, prefix),
         KeysAgree(st, "Value"), NEW v, LogOK, Attach(st, prefix, v)
  PROVE  TreeOK' /\ LogOK' /\ expect' \in {"CommaOrEnd", "Done"} /\ Len(stack') = Len(st)
<1>1. CASE st = <<>>
  <2>1. stack' = <<>> /\ path_prefix' = prefix /\ expect' = "Done"
    BY <1>1 DEF Attach
  <2>2. KeysAgree(stack', expect') /\ ExpectAgrees(stack', expect')
    BY <2>1 DEF KeysAgree, ExpectAgrees
  <2>3. TreeOK'
    BY <1>1, <2>1, <2>2 DEF TreeOK, PathCache, Expect
  <2>4. LogOK'
    BY <1>1, ConcatSequence, PairSequence DEF Attach, LogOK
  <2> QED BY <1>1, <2>1, <2>3, <2>4
<1>2. CASE st # <<>>
  <2> DEFINE n == Len(st)
             f == Filed(st[n], v)
             new == [st EXCEPT ![n] = f]
  <2>1. n \in Nat \ {0} /\ n \in 1..n /\ Last(st) = st[n] BY <1>2, FrontSequence DEF IsStack
  <2>2. IsFrame(st[n]) BY <2>1 DEF IsStack
  <2>3. /\ IsFrame(f) /\ f.kind = st[n].kind /\ f.path_len = st[n].path_len
        /\ f.pending_key = None
    BY <2>2, FiledFrame
  <2>4. /\ IsStack(new) /\ new # <<>> /\ Len(new) = n /\ Last(new) = f
        /\ \A i \in 1..(n - 1) : new[i] = st[i]
        /\ CacheAgrees(new, prefix)
    <3> HIDE DEF f
    <3> QED BY <1>2, <2>1, <2>3, TopReplaced
  <2>5. stack' = new /\ path_prefix' = prefix /\ expect' = "CommaOrEnd"
    BY <1>2, <2>1 DEF Attach
  <2>6. new[n] = f BY <2>4, FrontSequence DEF IsStack
  <2>7. KeysAgree(new, "CommaOrEnd")
    <3> HIDE DEF f, new
    <3> QED BY <2>1, <2>3, <2>4, <2>6 DEF KeysAgree
  <2>8. ExpectAgrees(new, "CommaOrEnd") BY <2>4 DEF ExpectAgrees
  <2>9. TreeOK'
    <3> HIDE DEF new
    <3> QED BY <2>4, <2>5, <2>7, <2>8 DEF TreeOK, PathCache, Expect
  <2>10. LogOK'
    <3> DEFINE done == Completed(Slot(st, prefix), v)
    <3>1. events' = Append(events, done) /\ reported_prefix' = reported_prefix
      BY <1>2 DEF Attach
    <3> HIDE DEF done
    <3> QED BY <3>1, AppendSequence DEF LogOK
  <2> QED BY <2>4, <2>5, <2>9, <2>10
<1> QED BY <1>1, <1>2

(* push_frame() *)
LEMMA Pushed ==
  ASSUME TreeOK, failed = None, expect = "Value", NEW kind \in {"Object", "Array"},
         stack' = Append(stack, Frame(kind)), path_prefix' = Slot(stack, path_prefix),
         expect' = IF kind = "Object" THEN "KeyOrEnd" ELSE "Value"
  PROVE  TreeOK' /\ Len(stack') = Len(stack) + 1 /\ Last(stack') = Frame(kind)
<1> DEFINE n == Len(stack)
           f == Frame(kind)
<1>1. /\ n \in Nat /\ IsSequence(stack) /\ IsSequence(path_prefix)
      /\ \A i \in 1..n : IsFrame(stack[i])
      /\ (stack = <<>>) <=> (n = 0)
  BY NonEmptySequence DEF TreeOK, IsStack, IsSequence
<1>2. /\ Len(path_prefix) = IF n = 0 THEN 0 ELSE n - 1
      /\ \A i \in 1..(n - 1) : path_prefix[i] = SlotToken(stack[i])
      /\ \A i \in 1..n : stack[i].path_len = IF i = 1 THEN 0 ELSE i - 2
  BY <1>1 DEF TreeOK, PathCache, CacheAgrees
<1>3. /\ IsFrame(f) /\ f.kind = kind /\ f.pending_key = None /\ f.path_len = Len(path_prefix)
  <2>1. Len(path_prefix) \in Nat BY <1>1, <1>2
  <2> QED BY <2>1, NewFrame DEF Frame
<1> HIDE DEF f
<1>4. /\ IsSequence(stack') /\ Len(stack') = n + 1 /\ stack'[n + 1] = f
      /\ \A i \in 1..n : stack'[i] = stack[i]
  BY <1>1, AppendSequence DEF f
<1>5. stack' # <<>> BY <1>1, <1>4, NonEmptySequence
<1>6. Last(stack') = f BY <1>4 DEF Last
<1>7. /\ IsSequence(path_prefix') /\ Len(path_prefix') = n
      /\ \A i \in 1..n : path_prefix'[i] = SlotToken(stack[i])
  <2>1. CASE stack = <<>> BY <1>1, <1>2, <2>1 DEF Slot
  <2>2. CASE stack # <<>>
    <3>1. path_prefix' = Append(path_prefix, SlotToken(stack[n]))
      BY <2>2, <1>1, FrontSequence DEF Slot
    <3>2. /\ IsSequence(path_prefix') /\ Len(path_prefix') = n
          /\ \A i \in 1..(n - 1) : path_prefix'[i] = path_prefix[i]
          /\ path_prefix'[n] = SlotToken(stack[n])
      BY <2>2, <3>1, <1>1, <1>2, AppendSequence
    <3> QED BY <3>2, <1>1, <1>2
  <2> QED BY <2>1, <2>2
<1>8. IsStack(stack')
  BY <1>1, <1>3, <1>4 DEF IsStack
<1>9. CacheAgrees(stack', path_prefix')
  <2> HIDE DEF n
  <2>1. \A i \in 1..(n + 1) : stack'[i].path_len = IF i = 1 THEN 0 ELSE i - 2
    BY <1>1, <1>2, <1>3, <1>4
  <2> QED BY <1>1, <1>4, <1>5, <1>7, <2>1 DEF CacheAgrees
<1>10. KeysAgree(stack', expect')
  <2>1. KeysAgree(stack, "Value") BY DEF TreeOK
  <2> HIDE DEF n
  <2> QED BY <1>1, <1>3, <1>4, <2>1 DEF KeysAgree, n
<1>11. ExpectAgrees(stack', expect') BY <1>3, <1>5, <1>6 DEF ExpectAgrees
<1> QED BY <1>4, <1>6, <1>7, <1>8, <1>9, <1>10, <1>11 DEF TreeOK, PathCache, Expect, f

-----------------------------------------------------------------------------
(* Tokens. *)

LEMMA StrToken ==
  ASSUME NEW decoded \in Seq(Byte), NEW is_key \in BOOLEAN, NEW state \in StrState,
         NEW hi \in Nat, NEW n \in 0..3, NEW acc \in Nat, NEW pending \in Nat
  PROVE  StrTok(decoded, is_key, state, hi, n, acc, pending) \in Tok
BY DEF StrTok, Tok

LEMMA OtherToken ==
  ASSUME NEW text \in Seq(Byte), NEW state \in NumState
  PROVE  NumTok(text, state) \in Tok /\ LitTok(text) \in Tok /\ NoTok \in Tok
BY DEF NumTok, LitTok, Tok

LEMMA StrFields ==
  ASSUME tok \in Tok, tok.type = "Str"
  PROVE  /\ tok.decoded \in Seq(Byte) /\ tok.is_key \in BOOLEAN /\ tok.state \in StrState
         /\ tok.hi \in Nat /\ tok.n \in 0..3 /\ tok.acc \in Nat /\ tok.pending \in Nat
BY DEF Tok, NoTok

LEMMA TextFields ==
  ASSUME tok \in Tok, tok.type \in {"Num", "Lit"}
  PROVE  tok.text \in Seq(Byte) /\ (tok.type = "Num" => tok.state \in NumState)
BY DEF Tok, NoTok

LEMMA Bytes == Alphabet \subseteq Byte
<1>1. SUFFICES ASSUME NEW p \in Producers, NEW i \in 1..Len(p) PROVE p[i] \subseteq Byte
  BY DEF Alphabet
<1>2. p \in Seq(SUBSET Byte) BY ParserAssumption
<1> QED BY <1>1, <1>2

LEMMA HexRange ==
  ASSUME NEW b, IsHex(b)
  PROVE  HexValue(b) \in 0..15
<1>1. \E i \in 1..16 : HexDigit[i] = b BY DEF IsHex
<1>2. (CHOOSE i \in 1..16 : HexDigit[i] = b) \in 1..16 BY <1>1
<1> QED BY <1>2 DEF HexValue

LEMMA Utf8Type == ASSUME NEW cp PROVE Utf8(cp) \in Seq(Byte)
<1>1. {"x", "lead", "cont"} \subseteq Byte BY DEF Byte
<1>2. <<"x">> \in Seq(Byte) /\ <<"lead", "cont">> \in Seq(Byte) BY <1>1
<1> QED BY <1>2, Zenon DEF Utf8

LEMMA ShortEscapeType ==
  ASSUME NEW b \in DOMAIN ShortEscape
  PROVE  ShortEscape[b] \in Byte
<1>1. DOMAIN ShortEscape = {"quote", "backslash", "slash", "b", "f", "n", "r", "t"}
  BY DEF ShortEscape
<1>2. {"quote", "backslash", "slash", "control", "newline"} \subseteq Byte BY DEF Byte, Control
<1> QED BY <1>1, <1>2 DEF ShortEscape

(* The longest valid prefix exists, and its length is a number. *)
LEMMA StableCut ==
  ASSUME NEW s \in Seq(Byte)
  PROVE  \E n \in 0..Len(s) :
           /\ StablePrefix(s) = SubSeq(s, 1, n) /\ Utf8Valid(SubSeq(s, 1, n))
           /\ \A m \in 0..Len(s) : Utf8Valid(SubSeq(s, 1, m)) => m <= n
<1> DEFINE valid == { n \in 0..Len(s) : Utf8Valid(SubSeq(s, 1, n)) }
           short == { Len(s) - n : n \in valid }
           least == OpToRel(<, Nat)
<1>1. 0 \in valid BY DEF Utf8Valid
<1>2. short \subseteq Nat /\ short # {} BY <1>1
<1>3. PICK k \in short : \A j \in short : ~(<<j, k>> \in least)
  <2> HIDE DEF short
  <2> QED BY <1>2, NatLessThanWellFounded, WFMin
<1>4. \A j \in short : ~(j < k)
  <2> HIDE DEF short
  <2> QED BY <1>2, <1>3 DEF OpToRel
<1>5. PICK n \in valid : k = Len(s) - n OBVIOUS
<1>6. \A m \in valid : m <= n
  <2>1. SUFFICES ASSUME NEW m \in valid PROVE m <= n OBVIOUS
  <2>2. Len(s) - m \in short OBVIOUS
  <2>3. ~(Len(s) - m < k) BY <1>4, <2>2
  <2>4. m \in 0..Len(s) /\ n \in 0..Len(s) OBVIOUS
  <2> QED BY <1>5, <2>3, <2>4
<1> DEFINE x == CHOOSE x \in valid : \A m \in valid : m <= x
<1>7. x \in valid /\ \A m \in valid : m <= x
  <2> HIDE DEF valid
  <2> QED BY <1>6
<1>8. StablePrefix(s) = SubSeq(s, 1, x) BY DEF StablePrefix
<1> HIDE DEF x
<1> QED BY <1>7, <1>8

LEMMA StableLength ==
  ASSUME NEW s \in Seq(Byte)
  PROVE  Len(StablePrefix(s)) \in 0..Len(s)
BY StableCut, SeqIsSequence, SubSeqSequence

LEMMA StableIsPrefix ==
  ASSUME NEW s \in Seq(Byte)
  PROVE  /\ IsSequence(StablePrefix(s)) /\ IsPrefix(StablePrefix(s), s)
         /\ Len(StablePrefix(s)) \in Nat
<1>1. PICK n \in 0..Len(s) : StablePrefix(s) = SubSeq(s, 1, n) BY StableCut
<1>2. /\ IsSequence(StablePrefix(s)) /\ Len(StablePrefix(s)) = n
      /\ \A i \in 1..n : StablePrefix(s)[i] = s[i]
  BY <1>1, SeqIsSequence, SubSeqSequence
<1>3. IsSequence(s) BY SeqIsSequence
<1> HIDE <1>1
<1> QED BY <1>2, <1>3, PrefixElements

-----------------------------------------------------------------------------
(* The ways in which the handling of a byte ends. *)

LEMMA ConsumedControl ==
  ASSUME ControlOK, failed = None, Consumed, input' \in Seq(Alphabet)
  PROVE  ControlOK' /\ failed' = None /\ held' = None
BY DEF ControlOK, Consumed, NeverUnbalanced

LEMMA FailControl ==
  ASSUME ControlOK, NEW kind \in ErrorKind, kind # "UnbalancedClose", Fail(kind),
         input' \in Seq(Alphabet)
  PROVE  ControlOK' /\ failed' # None
<1>1. failed' \in Failure BY DEF Fail, Failure, ControlOK
<1>2. failed' # None BY <1>1, ParserAssumption
<1>3. failed'.kind = kind BY DEF Fail
<1> QED BY <1>1, <1>2, <1>3 DEF Fail, ControlOK, NeverUnbalanced

LEMMA RejectStep ==
  ASSUME Inv, NEW kind \in ErrorKind, kind # "UnbalancedClose", Reject(kind),
         input' \in Seq(Alphabet)
  PROVE  Inv'
<1>1. ControlOK /\ LogOK /\ TreeOK /\ TokenOK BY DEF Inv
<1>2. Fail(kind) /\ UNCHANGED <<tree, log, tok>> BY DEF Reject
<1>3. ControlOK' /\ failed' # None BY <1>1, <1>2, FailControl
<1>4. LogOK' BY <1>1, <1>2 DEF LogOK, log
<1>5. TreeOK' BY <1>1, <1>2, <1>3 DEF TreeOK, tree, PathCache
<1>6. TokenOK' BY <1>1, <1>2, <1>3 DEF TokenOK, EscapeAccounts
<1> QED BY <1>3, <1>4, <1>5, <1>6 DEF Inv

(* A byte that changes only the token. *)
LEMMA TokenStep ==
  ASSUME Inv, failed = None, Consumed, UNCHANGED <<tree, log>>, input' \in Seq(Alphabet),
         tok' \in Tok, EscapeAccounts',
         tok'.type = "Str" => expect \in (IF tok'.is_key THEN {"KeyOrEnd", "Key"} ELSE {"Value"}),
         tok'.type \in {"Num", "Lit"} => expect = "Value"
  PROVE  Inv'
<1>1. ControlOK /\ LogOK /\ TreeOK BY DEF Inv
<1>2. ControlOK' /\ failed' = None /\ held' = None BY <1>1, ConsumedControl
<1>3. LogOK' BY <1>1 DEF LogOK, log
<1>4. TreeOK' BY <1>1 DEF TreeOK, tree, PathCache
<1>5. TokenOK' BY <1>2 DEF TokenOK, TokenAgrees, tree
<1> QED BY <1>2, <1>3, <1>4, <1>5 DEF Inv

(* A byte of an escape, or one that ends a stretch of decoded text. *)
LEMMA StringStep ==
  ASSUME Inv, failed = None, tok.type = "Str", input' \in Seq(Alphabet),
         NEW decoded \in Seq(Byte), NEW state \in StrState, NEW hi \in Nat, NEW n \in 0..3,
         NEW acc \in Nat, NEW pending \in Nat,
         tok' = StrTok(decoded, tok.is_key, state, hi, n, acc, pending),
         UNCHANGED <<tree, log>>, Consumed,
         pending = EscapeLength(state, n),
         IF n = 0 THEN acc = 0 ELSE acc < Power16[n],
         state \in {"SurrogateBackslash", "SurrogateU", "SurrogateHex"} => IsHighSurrogate(hi)
  PROVE  Inv'
<1>1. tok \in Tok /\ TokenAgrees BY DEF Inv, TokenOK
<1>2. tok.is_key \in BOOLEAN BY <1>1, StrFields
<1>3. tok' \in Tok BY <1>2, StrToken
<1>4. /\ tok'.type = "Str" /\ tok'.is_key = tok.is_key /\ tok'.state = state /\ tok'.hi = hi
      /\ tok'.n = n /\ tok'.acc = acc /\ tok'.pending = pending
  BY DEF StrTok
<1>5. EscapeAccounts' BY <1>4 DEF EscapeAccounts
<1>6. tok'.type = "Str" => expect \in (IF tok'.is_key THEN {"KeyOrEnd", "Key"} ELSE {"Value"})
  BY <1>1, <1>4 DEF TokenAgrees
<1> QED BY <1>3, <1>4, <1>5, <1>6, TokenStep

LEMMA EscapeStep ==
  ASSUME Inv, failed = None, tok.type = "Str", input' \in Seq(Alphabet),
         NEW state \in StrState, NEW hi \in Nat, NEW n \in 0..3, NEW acc \in Nat,
         Escape(state, hi, n, acc),
         tok.pending + 1 = EscapeLength(state, n),
         IF n = 0 THEN acc = 0 ELSE acc < Power16[n],
         state \in {"SurrogateBackslash", "SurrogateU", "SurrogateHex"} => IsHighSurrogate(hi)
  PROVE  Inv'
<1>1. tok \in Tok BY DEF Inv, TokenOK
<1>2. tok.decoded \in Seq(Byte) /\ tok.pending + 1 \in Nat BY <1>1, StrFields
<1>3. /\ tok' = StrTok(tok.decoded, tok.is_key, state, hi, n, acc, tok.pending + 1)
      /\ UNCHANGED <<tree, log>> /\ Consumed
  BY DEF Escape
<1> QED BY <1>2, <1>3, StringStep

LEMMA DecodeStep ==
  ASSUME Inv, failed = None, tok.type = "Str", input' \in Seq(Alphabet),
         NEW bytes \in Seq(Byte), Decode(bytes)
  PROVE  Inv'
<1>1. tok \in Tok BY DEF Inv, TokenOK
<1>2. tok.decoded \o bytes \in Seq(Byte) BY <1>1, StrFields, ConcatProperties
<1>3. /\ tok' = StrTok(tok.decoded \o bytes, tok.is_key, "Raw", 0, 0, 0, 0)
      /\ UNCHANGED <<tree, log>> /\ Consumed
  BY DEF Decode
<1>4. "Raw" \in StrState /\ 0 = EscapeLength("Raw", 0) BY DEF StrState, EscapeLength
<1>5. 0 \in Nat /\ 0 \in 0..3 /\ "Raw" \notin {"SurrogateBackslash", "SurrogateU", "SurrogateHex"}
  OBVIOUS
<1> QED BY <1>2, <1>3, <1>4, <1>5, StringStep

(* A value has been attached and no token is open. *)
LEMMA AttachStep ==
  ASSUME Inv, failed = None, NEW st, NEW prefix, NEW v, Attach(st, prefix, v),
         IsStack(st), IsSequence(prefix), CacheAgrees(st, prefix), KeysAgree(st, "Value"),
         tok' = NoTok, ControlOK'
  PROVE  Inv'
<1>1. TreeOK' /\ LogOK' /\ expect' \in {"CommaOrEnd", "Done"} BY Attached DEF Inv
<1>2. TokenOK'
  <2>1. tok' \in Tok BY DEF Tok
  <2>2. tok'.type = "None" BY DEF NoTok
  <2> QED BY <1>1, <2>1, <2>2 DEF TokenOK, EscapeAccounts, TokenAgrees
<1> QED BY <1>1, <1>2 DEF Inv

(* ... to the tree as it stands, because its slot awaited the value.       *)
LEMMA AttachHere ==
  ASSUME Inv, failed = None, expect = "Value", NEW v, Attach(stack, path_prefix, v),
         tok' = NoTok, ControlOK'
  PROVE  Inv'
<1>1. TreeOK BY DEF Inv
<1> QED BY <1>1, AttachStep DEF TreeOK, PathCache

-----------------------------------------------------------------------------
(* Every byte keeps the invariant: strings. *)

LEMMA HexGrowth ==
  ASSUME NEW n \in 0..2, NEW acc \in Nat, IF n = 0 THEN acc = 0 ELSE acc < Power16[n],
         NEW d \in 0..15
  PROVE  16 * acc + d \in Nat /\ 16 * acc + d < Power16[n + 1]
<1>1. Power16[1] = 16 /\ Power16[2] = 256 /\ Power16[3] = 4096 BY DEF Power16
<1>2. CASE n = 0 BY <1>1, <1>2
<1>3. CASE n = 1 BY <1>1, <1>3
<1>4. CASE n = 2 BY <1>1, <1>4
<1> QED BY <1>2, <1>3, <1>4

LEMMA StringBytes ==
  ASSUME Inv, failed = None, NEW b \in Alphabet, input' \in Seq(Alphabet), StringByte(b)
  PROVE  Inv'
<1> DEFINE Surrogate == {"SurrogateBackslash", "SurrogateU", "SurrogateHex"}
<1>1. tok.type = "Str"
  BY DEF StringByte, InString, InHex, OrdinaryByte, ControlByte, BeginEscape, CloseKey, CloseString,
     CloseInvalid, ShortEscapeByte, BeginUnicode, BadEscape, HexByte, NotHex, CodePoint,
     HighSurrogate, LoneLowSurrogate, SurrogateBackslash, SurrogateU, LowSurrogate,
     MissingLowSurrogate
<1>2. /\ tok \in Tok /\ TokenAgrees /\ b \in Byte
      /\ tok.pending = EscapeLength(tok.state, tok.n)
      /\ IF tok.n = 0 THEN tok.acc = 0 ELSE tok.acc < Power16[tok.n]
      /\ tok.state \in Surrogate => IsHighSurrogate(tok.hi)
  BY <1>1, Bytes DEF Inv, TokenOK, EscapeAccounts
<1>3. /\ tok.decoded \in Seq(Byte) /\ tok.is_key \in BOOLEAN /\ tok.state \in StrState
      /\ tok.hi \in Nat /\ tok.n \in 0..3 /\ tok.acc \in Nat
  BY <1>1, <1>2, StrFields
<1>4. 0 \in Nat /\ 0 \in 0..3 OBVIOUS
<1>5. ASSUME OrdinaryByte(b) PROVE Inv'
  <2>1. <<b>> \in Seq(Byte) BY <1>2
  <2> QED BY <1>1, <1>5, <2>1, DecodeStep DEF OrdinaryByte
<1>6. ASSUME ControlByte(b) PROVE Inv'
  BY <1>6, RejectStep DEF ControlByte, ErrorKind
<1>7. ASSUME BeginEscape(b) PROVE Inv'
  <2>1. tok.pending + 1 = EscapeLength("Backslash", 0)
    BY <1>2, <1>7 DEF BeginEscape, InString, EscapeLength
  <2>2. "Backslash" \in StrState \ Surrogate BY DEF StrState
  <2> QED BY <1>1, <1>4, <1>7, <2>1, <2>2, EscapeStep DEF BeginEscape
<1>8. ASSUME CloseKey(b) PROVE Inv'
  <2> DEFINE n == Len(stack)
             f == [stack[n] EXCEPT !.pending_key = tok.decoded]
             new == [stack EXCEPT ![n] = f]
  <2>1. /\ stack' = new /\ expect' = "Colon" /\ tok' = NoTok /\ tok.is_key
        /\ path_prefix' = path_prefix /\ UNCHANGED log /\ Consumed
    BY <1>8 DEF CloseKey
  <2>2. expect \in {"KeyOrEnd", "Key"} BY <1>1, <1>2, <2>1 DEF TokenAgrees
  <2>3. TreeOK /\ ControlOK /\ LogOK /\ KeysAgree(stack, expect) /\ ExpectAgrees(stack, expect)
    BY DEF Inv, TreeOK
  <2>4. stack # <<>> BY <2>2, <2>3 DEF ExpectAgrees
  <2>5. n \in Nat \ {0} /\ n \in 1..n /\ Last(stack) = stack[n] /\ IsFrame(stack[n])
    BY <2>3, <2>4, FrontSequence DEF TreeOK, IsStack
  <2>6. stack[n].kind = "Object"
    BY <2>2, <2>3, <2>4, <2>5 DEF ExpectAgrees, IsFrame
  <2>7. /\ IsFrame(f) /\ f.kind = "Object" /\ f.path_len = stack[n].path_len
        /\ f.pending_key = tok.decoded
    BY <1>3, <2>5, <2>6, KeyedFrame
  <2>8. f.pending_key # None BY <1>3, <2>7, ParserAssumption
  <2>9. /\ IsStack(new) /\ new # <<>> /\ Len(new) = n /\ Last(new) = f
        /\ \A i \in 1..(n - 1) : new[i] = stack[i]
        /\ CacheAgrees(new, path_prefix)
    <3> HIDE DEF f
    <3> QED BY <2>3, <2>4, <2>5, <2>7, TopReplaced DEF TreeOK, PathCache
  <2>10. new[n] = f BY <2>9, FrontSequence DEF IsStack
  <2>11. KeysAgree(new, "Colon")
    <3> HIDE DEF f, new
    <3> QED BY <2>3, <2>5, <2>7, <2>8, <2>9, <2>10 DEF KeysAgree
  <2>12. ExpectAgrees(new, "Colon") BY <2>7, <2>9 DEF ExpectAgrees
  <2>13. TreeOK'
    <3> HIDE DEF new
    <3> QED BY <2>1, <2>3, <2>9, <2>11, <2>12 DEF TreeOK, PathCache, Expect
  <2>14. ControlOK' /\ held' = None BY <2>1, <2>3, ConsumedControl
  <2>15. LogOK' BY <2>1, <2>3 DEF LogOK, log
  <2>16. TokenOK'
    <3>1. tok' \in Tok /\ tok'.type = "None" BY <2>1 DEF Tok, NoTok
    <3> QED BY <2>14, <3>1 DEF TokenOK, EscapeAccounts, TokenAgrees
  <2> QED BY <2>13, <2>14, <2>15, <2>16 DEF Inv
<1>9. ASSUME CloseString(b) PROVE Inv'
  <2>1. /\ Attach(stack, path_prefix, Scalar("String", tok.decoded)) /\ tok' = NoTok /\ Consumed
        /\ ~tok.is_key
    BY <1>9 DEF CloseString
  <2>2. ControlOK' BY <2>1, ConsumedControl DEF Inv
  <2>3. expect = "Value" BY <1>1, <1>2, <2>1 DEF TokenAgrees
  <2> QED BY <2>1, <2>2, <2>3, AttachHere
<1>10. ASSUME CloseInvalid(b) PROVE Inv'
  <2>1. /\ tok' = StrTok(<<>>, tok.is_key, "Raw", 0, 0, 0, 0) /\ Fail("InvalidUtf8")
        /\ UNCHANGED <<tree, log>>
    BY <1>10 DEF CloseInvalid
  <2>2. "InvalidUtf8" \in ErrorKind BY DEF ErrorKind
  <2>3. ControlOK' /\ failed' # None BY <2>1, <2>2, FailControl DEF Inv
  <2>4. tok' \in Tok
    <3>1. <<>> \in Seq(Byte) /\ "Raw" \in StrState BY DEF StrState
    <3> QED BY <1>3, <1>4, <2>1, <3>1, StrToken
  <2>5. EscapeAccounts' BY <2>1 DEF EscapeAccounts, StrTok, EscapeLength
  <2>6. TreeOK' BY <2>1, <2>3 DEF Inv, TreeOK, tree, PathCache
  <2>7. LogOK' BY <2>1 DEF Inv, LogOK, log
  <2> QED BY <2>3, <2>4, <2>5, <2>6, <2>7 DEF Inv, TokenOK
<1>11. ASSUME ShortEscapeByte(b) PROVE Inv'
  <2>1. <<ShortEscape[b]>> \in Seq(Byte)
    BY <1>11, ShortEscapeType DEF ShortEscapeByte
  <2> QED BY <1>1, <1>11, <2>1, DecodeStep DEF ShortEscapeByte
<1>12. ASSUME BeginUnicode(b) PROVE Inv'
  <2>1. tok.pending + 1 = EscapeLength("Unicode", 0)
    BY <1>2, <1>12 DEF BeginUnicode, InString, EscapeLength
  <2>2. "Unicode" \in StrState \ Surrogate BY DEF StrState
  <2> QED BY <1>1, <1>4, <1>12, <2>1, <2>2, EscapeStep DEF BeginUnicode
<1>13. ASSUME BadEscape(b) PROVE Inv'
  BY <1>13, RejectStep DEF BadEscape, ErrorKind
<1>14. ASSUME HexByte(b) PROVE Inv'
  <2> DEFINE n == tok.n + 1
             acc == 16 * tok.acc + HexValue(b)
  <2>1. /\ tok.state \in {"Unicode", "SurrogateHex"} /\ IsHex(b) /\ tok.n \in 0..2
        /\ Escape(tok.state, tok.hi, n, acc)
    BY <1>3, <1>14 DEF HexByte, InHex, InString
  <2>2. acc \in Nat /\ acc < Power16[n] BY <1>2, <1>3, <2>1, HexRange, HexGrowth
  <2>3. tok.pending + 1 = EscapeLength(tok.state, n) BY <1>2, <2>1 DEF EscapeLength
  <2>4. n \in 0..3 /\ n # 0 BY <2>1
  <2> HIDE DEF n, acc
  <2> QED BY <1>1, <1>2, <1>3, <2>1, <2>2, <2>3, <2>4, EscapeStep
<1>15. ASSUME NotHex(b) PROVE Inv'
  BY <1>15, RejectStep DEF NotHex, ErrorKind
<1>16. ASSUME CodePoint(b) PROVE Inv'
  BY <1>1, <1>16, Utf8Type, DecodeStep DEF CodePoint
<1>17. ASSUME HighSurrogate(b) PROVE Inv'
  <2>1. tok.state = "Unicode" /\ tok.n = 3 /\ IsHex(b) /\ IsHighSurrogate(Unit(b))
        /\ Escape("SurrogateBackslash", Unit(b), 0, 0)
    BY <1>17 DEF HighSurrogate, InString, LastHex
  <2>2. Unit(b) \in Nat
    <3>1. HexValue(b) \in Nat BY <2>1, HexRange
    <3> QED BY <1>3, <3>1 DEF Unit
  <2>3. tok.pending + 1 = EscapeLength("SurrogateBackslash", 0)
    BY <1>2, <2>1 DEF EscapeLength
  <2>4. "SurrogateBackslash" \in StrState BY DEF StrState
  <2> QED BY <1>1, <1>4, <2>1, <2>2, <2>3, <2>4, EscapeStep
<1>18. ASSUME LoneLowSurrogate(b) PROVE Inv'
  BY <1>18, RejectStep DEF LoneLowSurrogate, ErrorKind
<1>19. ASSUME SurrogateBackslash(b) PROVE Inv'
  <2>1. tok.state = "SurrogateBackslash" /\ Escape("SurrogateU", tok.hi, 0, 0)
    BY <1>19 DEF SurrogateBackslash, InString
  <2>2. tok.pending + 1 = EscapeLength("SurrogateU", 0) BY <1>2, <2>1 DEF EscapeLength
  <2>3. "SurrogateU" \in StrState BY DEF StrState
  <2> QED BY <1>1, <1>2, <1>3, <1>4, <2>1, <2>2, <2>3, EscapeStep
<1>20. ASSUME SurrogateU(b) PROVE Inv'
  <2>1. tok.state = "SurrogateU" /\ Escape("SurrogateHex", tok.hi, 0, 0)
    BY <1>20 DEF SurrogateU, InString
  <2>2. tok.pending + 1 = EscapeLength("SurrogateHex", 0) BY <1>2, <2>1 DEF EscapeLength
  <2>3. "SurrogateHex" \in StrState BY DEF StrState
  <2> QED BY <1>1, <1>2, <1>3, <1>4, <2>1, <2>2, <2>3, EscapeStep
<1>21. ASSUME LowSurrogate(b) PROVE Inv'
  BY <1>1, <1>21, Utf8Type, DecodeStep DEF LowSurrogate
<1>22. ASSUME MissingLowSurrogate(b) PROVE Inv'
  BY <1>22, RejectStep DEF MissingLowSurrogate, ErrorKind
<1> QED BY <1>5, <1>6, <1>7, <1>8, <1>9, <1>10, <1>11, <1>12, <1>13, <1>14, <1>15, <1>16, <1>17,
           <1>18, <1>19, <1>20, <1>21, <1>22 DEF StringByte

-----------------------------------------------------------------------------
(* Numbers and literals. *)

LEMMA NumberTransitions ==
  ASSUME NEW state \in NumState, NEW b
  PROVE  NumNext(state, b) \in NumState \cup {"none"} /\ NumStart(b) \in NumState
BY DEF NumNext, NumStart, NumState

LEMMA NumberBytes ==
  ASSUME Inv, failed = None, NEW b \in Alphabet, input' \in Seq(Alphabet), NumberByte(b)
  PROVE  Inv'
<1>1. tok.type = "Num"
  BY DEF NumberByte, NumberGrows, ExponentRefused, NumberDelimited, NumberMalformed, Continues, Stops
<1>2. tok \in Tok /\ expect = "Value" /\ b \in Byte
  BY <1>1, Bytes DEF Inv, TokenOK, TokenAgrees
<1>3. tok.text \in Seq(Byte) /\ tok.state \in NumState BY <1>1, <1>2, TextFields
<1>4. ASSUME NumberGrows(b) PROVE Inv'
  <2> DEFINE text == Append(tok.text, b)
             state == NumNext(tok.state, b)
  <2>1. /\ tok' = NumTok(text, state) /\ state # "none" /\ UNCHANGED <<tree, log>> /\ Consumed
    BY <1>4 DEF NumberGrows, Continues
  <2>2. text \in Seq(Byte) /\ state \in NumState BY <1>2, <1>3, <2>1, NumberTransitions
  <2>3. tok' \in Tok BY <2>1, <2>2, OtherToken
  <2>4. tok'.type = "Num" BY <2>1 DEF NumTok
  <2>5. EscapeAccounts' BY <2>4 DEF EscapeAccounts
  <2> QED BY <1>2, <2>1, <2>3, <2>4, <2>5, TokenStep
<1>5. ASSUME ExponentRefused(b) PROVE Inv'
  BY <1>5, RejectStep DEF ExponentRefused, ErrorKind
<1>6. ASSUME NumberDelimited(b) PROVE Inv'
  <2>1. /\ Attach(stack, path_prefix, Scalar("Number", tok.text)) /\ tok' = NoTok
        /\ commit' = offset /\ held' = b /\ feeding' = TRUE /\ UNCHANGED <<failed, offset, ended>>
    BY <1>6 DEF NumberDelimited, CloseNumber
  <2>2. ControlOK' BY <2>1 DEF Inv, ControlOK, NeverUnbalanced
  <2> QED BY <1>2, <2>1, <2>2, AttachHere
<1>7. ASSUME NumberMalformed(b) PROVE Inv'
  BY <1>7, RejectStep DEF NumberMalformed, ErrorKind
<1> QED BY <1>4, <1>5, <1>6, <1>7 DEF NumberByte

LEMMA LiteralBytes ==
  ASSUME Inv, failed = None, NEW b \in Alphabet, input' \in Seq(Alphabet), LiteralByte(b)
  PROVE  Inv'
<1>1. tok.type = "Lit" BY DEF LiteralByte, LiteralGrows, LiteralDone, LiteralMalformed
<1>2. tok \in Tok /\ expect = "Value" /\ b \in Byte
  BY <1>1, Bytes DEF Inv, TokenOK, TokenAgrees
<1>3. Spelling(b) \in Seq(Byte) BY <1>1, <1>2, TextFields DEF Spelling
<1>4. ASSUME LiteralGrows(b) PROVE Inv'
  <2>1. /\ tok' = LitTok(Spelling(b)) /\ UNCHANGED <<tree, log>> /\ Consumed
    BY <1>4 DEF LiteralGrows
  <2>2. tok' \in Tok
    <3>1. "Int" \in NumState BY DEF NumState
    <3> QED BY <1>3, <2>1, <3>1, OtherToken
  <2>3. tok'.type = "Lit" BY <2>1 DEF LitTok
  <2>4. EscapeAccounts' BY <2>3 DEF EscapeAccounts
  <2> QED BY <1>2, <2>1, <2>2, <2>3, <2>4, TokenStep
<1>5. ASSUME LiteralDone(b) PROVE Inv'
  <2> DEFINE v == Scalar(ValueKind(tok.text[1]), Spelling(b))
  <2>1. Attach(stack, path_prefix, v) /\ tok' = NoTok /\ Consumed
    BY <1>5 DEF LiteralDone
  <2>2. ControlOK' BY <2>1, ConsumedControl DEF Inv
  <2> HIDE DEF v
  <2> QED BY <1>2, <2>1, <2>2, AttachHere
<1>6. ASSUME LiteralMalformed(b) PROVE Inv'
  BY <1>6, RejectStep DEF LiteralMalformed, ErrorKind
<1> QED BY <1>4, <1>5, <1>6 DEF LiteralByte

-----------------------------------------------------------------------------
(* Structure. *)

LEMMA Announced ==
  ASSUME LogOK, NEW b, Announce(b)
  PROVE  LogOK'
<1> DEFINE started == Started(Slot(stack, path_prefix), ValueKind(b))
<1>1. events' = Append(events, started) /\ reported_prefix' = 0 BY DEF Announce
<1> HIDE DEF started
<1> QED BY <1>1, AppendSequence DEF LogOK

(* The arm of close_container for an empty stack is dead. *)
LEMMA ClosingOpen ==
  ASSUME TreeOK, failed = None, NEW b, Closing(b)
  PROVE  stack # <<>>
BY DEF TreeOK, ExpectAgrees, Closing, Closable

LEMMA StructuralBytes ==
  ASSUME Inv, failed = None, NEW b \in Alphabet, input' \in Seq(Alphabet), StructuralByte(b)
  PROVE  Inv'
<1>1. tok.type = "None"
  BY DEF StructuralByte, At, Closing, SkipSpace, BeginScalar, BeginContainer, TooDeep, BeginKey,
     Colon, Comma, CloseContainer, MismatchedClose, Unexpected, TrailingContent
<1>2. /\ ControlOK /\ LogOK /\ TreeOK /\ TokenOK /\ tok \in Tok /\ b \in Byte
      /\ KeysAgree(stack, expect) /\ ExpectAgrees(stack, expect)
  BY Bytes DEF Inv, TokenOK, TreeOK
<1>3. ASSUME SkipSpace(b) PROVE Inv'
  <2>1. UNCHANGED <<tree, log, tok>> /\ Consumed BY <1>3 DEF SkipSpace
  <2> QED BY <1>1, <1>2, <2>1, TokenStep DEF EscapeAccounts
<1>4. ASSUME BeginScalar(b) PROVE Inv'
  <2>1. expect = "Value" /\ Announce(b) /\ UNCHANGED tree /\ Consumed
    BY <1>4 DEF BeginScalar, At
  <2>2. \/ tok' = NewStr(FALSE)
        \/ tok' = LitTok(<<b>>)
        \/ tok' = NumTok(<<b>>, NumStart(b))
    BY <1>4 DEF BeginScalar
  <2>3. tok' \in Tok /\ EscapeAccounts'
        /\ (tok'.type = "Str" => ~tok'.is_key)
    <3>1. CASE tok' = NewStr(FALSE)
      <4>1. <<>> \in Seq(Byte) /\ "Raw" \in StrState /\ 0 \in 0..3 /\ 0 \in Nat /\ FALSE \in BOOLEAN
        BY DEF StrState
      <4>2. tok' \in Tok BY <3>1, <4>1, StrToken DEF NewStr
      <4>3. EscapeAccounts' /\ ~tok'.is_key
        BY <3>1 DEF EscapeAccounts, NewStr, StrTok, EscapeLength
      <4> QED BY <4>2, <4>3
    <3>2. CASE tok' = LitTok(<<b>>) \/ tok' = NumTok(<<b>>, NumStart(b))
      <4>1. <<b>> \in Seq(Byte) /\ NumStart(b) \in NumState
        BY <1>2 DEF NumStart, NumState
      <4>2. tok' \in Tok BY <3>2, <4>1, OtherToken
      <4>3. tok'.type # "Str" BY <3>2 DEF LitTok, NumTok
      <4> QED BY <4>2, <4>3 DEF EscapeAccounts
    <3> QED BY <2>2, <3>1, <3>2
  <2>4. LogOK' BY <1>2, <2>1, Announced
  <2>5. ControlOK' /\ failed' = None /\ held' = None BY <1>2, <2>1, ConsumedControl
  <2>6. TreeOK' BY <1>2, <2>1, <2>5 DEF TreeOK, tree, PathCache
  <2>7. TokenOK' BY <2>1, <2>3, <2>5 DEF TokenOK, TokenAgrees, tree
  <2> QED BY <2>4, <2>5, <2>6, <2>7 DEF Inv
<1>5. ASSUME BeginContainer(b) PROVE Inv'
  <2> DEFINE kind == ValueKind(b)
  <2>1. /\ expect = "Value" /\ Announce(b) /\ UNCHANGED <<tok, root>> /\ Consumed
        /\ path_prefix' = Slot(stack, path_prefix)
        /\ stack' = Append(stack, Frame(kind))
    BY <1>5 DEF BeginContainer, At
  <2>2. kind \in {"Object", "Array"} /\ expect' = IF kind = "Object" THEN "KeyOrEnd" ELSE "Value"
    BY <1>5 DEF BeginContainer, ValueKind
  <2>3. TreeOK'
    <3> HIDE DEF kind
    <3> QED BY <1>2, <2>1, <2>2, Pushed
  <2>4. LogOK' BY <1>2, <2>1, Announced
  <2>5. ControlOK' /\ held' = None BY <1>2, <2>1, ConsumedControl
  <2>6. TokenOK' BY <1>1, <1>2, <2>1, <2>5 DEF TokenOK, EscapeAccounts, TokenAgrees
  <2> QED BY <2>3, <2>4, <2>5, <2>6 DEF Inv
<1>6. ASSUME TooDeep(b) PROVE Inv'
  <2>1. Announce(b) /\ Fail("DepthLimitExceeded") /\ UNCHANGED <<tree, tok>>
    BY <1>6 DEF TooDeep
  <2>2. ControlOK' /\ failed' # None BY <1>2, <2>1, FailControl DEF ErrorKind
  <2>3. LogOK' BY <1>2, <2>1, Announced
  <2>4. TreeOK' BY <1>2, <2>1, <2>2 DEF TreeOK, tree, PathCache
  <2>5. TokenOK' BY <1>1, <1>2, <2>1, <2>2 DEF TokenOK, EscapeAccounts
  <2> QED BY <2>2, <2>3, <2>4, <2>5 DEF Inv
<1>7. ASSUME BeginKey(b) PROVE Inv'
  <2>1. /\ expect \in {"KeyOrEnd", "Key"} /\ tok' = NewStr(TRUE) /\ UNCHANGED <<tree, log>>
        /\ Consumed
    BY <1>7 DEF BeginKey, At
  <2>2. <<>> \in Seq(Byte) /\ "Raw" \in StrState /\ 0 \in 0..3 /\ 0 \in Nat /\ TRUE \in BOOLEAN
    BY DEF StrState
  <2>3. tok' \in Tok BY <2>1, <2>2, StrToken DEF NewStr
  <2>4. EscapeAccounts' /\ tok'.type = "Str" /\ tok'.is_key
    BY <2>1 DEF EscapeAccounts, NewStr, StrTok, EscapeLength
  <2> QED BY <2>1, <2>3, <2>4, TokenStep
<1>8. ASSUME Colon(b) PROVE Inv'
  <2>1. /\ expect = "Colon" /\ expect' = "Value" /\ UNCHANGED <<stack, root, path_prefix, log, tok>>
        /\ Consumed
    BY <1>8 DEF Colon, At
  <2>2. KeysAgree(stack, "Value") /\ ExpectAgrees(stack, "Value")
    BY <1>2, <2>1 DEF KeysAgree, ExpectAgrees
  <2>3. ControlOK' /\ failed' = None /\ held' = None BY <1>2, <2>1, ConsumedControl
  <2>4. LogOK' BY <1>2, <2>1 DEF LogOK, log
  <2>5. TreeOK' BY <1>2, <2>1, <2>2 DEF TreeOK, PathCache, Expect
  <2>6. TokenOK' BY <1>1, <1>2, <2>1, <2>3 DEF TokenOK, EscapeAccounts, TokenAgrees
  <2> QED BY <2>3, <2>4, <2>5, <2>6 DEF Inv
<1>9. ASSUME Comma(b) PROVE Inv'
  <2>1. /\ expect = "CommaOrEnd" /\ UNCHANGED <<stack, root, path_prefix, log, tok>> /\ Consumed
        /\ expect' = IF stack # <<>> /\ Last(stack).kind = "Object" THEN "Key" ELSE "Value"
    BY <1>9 DEF Comma, At
  <2>2. stack # <<>> BY <1>2, <2>1 DEF ExpectAgrees
  <2>3. ExpectAgrees(stack, expect') BY <2>1, <2>2 DEF ExpectAgrees
  <2>4. Len(stack) \in Nat \ {0} /\ Last(stack) = stack[Len(stack)]
    BY <1>2, <2>2, FrontSequence DEF TreeOK, IsStack
  <2>5. KeysAgree(stack, expect') BY <1>2, <2>1, <2>2, <2>4 DEF KeysAgree
  <2>6. ControlOK' /\ failed' = None /\ held' = None BY <1>2, <2>1, ConsumedControl
  <2>7. LogOK' BY <1>2, <2>1 DEF LogOK, log
  <2>8. TreeOK' BY <1>2, <2>1, <2>3, <2>5 DEF TreeOK, PathCache, Expect
  <2>9. TokenOK' BY <1>1, <1>2, <2>1, <2>6 DEF TokenOK, EscapeAccounts, TokenAgrees
  <2> QED BY <2>6, <2>7, <2>8, <2>9 DEF Inv
<1>10. ASSUME CloseContainer(b) PROVE Inv'
  <2>1. /\ Attach(Front(stack), Truncated, Container(Last(stack))) /\ UNCHANGED tok /\ Consumed
        /\ stack # <<>>
    BY <1>10 DEF CloseContainer, Closes
  <2>2. /\ IsStack(Front(stack)) /\ IsSequence(Truncated)
        /\ CacheAgrees(Front(stack), Truncated) /\ KeysAgree(Front(stack), "Value")
    BY <1>2, <2>1, Popped
  <2>3. ControlOK' BY <1>2, <2>1, ConsumedControl
  <2>4. tok' = NoTok BY <1>1, <1>2, <2>1 DEF Tok
  <2> QED BY <2>1, <2>2, <2>3, <2>4, AttachStep
<1>11. ASSUME MismatchedClose(b) PROVE Inv'
  <2>1. stack # <<>> BY <1>2, <1>11, ClosingOpen DEF MismatchedClose
  <2>2. /\ stack' = Front(stack) /\ path_prefix' = Truncated /\ Fail("MismatchedClose")
        /\ UNCHANGED <<expect, root, log, tok>>
    BY <1>11, <2>1 DEF MismatchedClose
  <2>3. ControlOK' /\ failed' # None BY <1>2, <2>2, FailControl DEF ErrorKind
  <2>4. /\ IsStack(Front(stack)) /\ IsSequence(Truncated) /\ CacheAgrees(Front(stack), Truncated)
    BY <1>2, <2>1, Popped
  <2>5. TreeOK' BY <1>2, <2>2, <2>3, <2>4 DEF TreeOK, PathCache
  <2>6. LogOK' BY <1>2, <2>2 DEF LogOK, log
  <2>7. TokenOK' BY <1>1, <1>2, <2>2, <2>3 DEF TokenOK, EscapeAccounts
  <2> QED BY <2>3, <2>5, <2>6, <2>7 DEF Inv
<1>12. ASSUME Unexpected(b) PROVE Inv'
  BY <1>12, RejectStep DEF Unexpected, ErrorKind
<1>13. ASSUME TrailingContent(b) PROVE Inv'
  BY <1>13, RejectStep DEF TrailingContent, ErrorKind
<1> QED BY <1>3, <1>4, <1>5, <1>6, <1>7, <1>8, <1>9, <1>10, <1>11, <1>12, <1>13 DEF StructuralByte

-----------------------------------------------------------------------------
(* The calls. *)

LEMMA StepInv ==
  ASSUME Inv, NEW b \in Alphabet, Step(b)
  PROVE  Inv'
<1>1. failed = None BY DEF Step
<1>2. input' \in Seq(Alphabet) BY DEF Step, Receive, Redispatch, Inv, ControlOK
<1>3. StringByte(b) \/ NumberByte(b) \/ LiteralByte(b) \/ StructuralByte(b) BY DEF Step
<1> QED BY <1>1, <1>2, <1>3, StringBytes, NumberBytes, LiteralBytes, StructuralBytes

LEMMA EndPushInv ==
  ASSUME Inv, EndPush
  PROVE  Inv'
<1>1. /\ UNCHANGED <<tree, tok, failed, offset, commit, held, ended, input>> /\ feeding' = FALSE
      /\ ControlOK /\ LogOK /\ TreeOK /\ TokenOK
  BY DEF EndPush, Inv
<1>2. ControlOK' BY <1>1 DEF ControlOK, NeverUnbalanced
<1>3. TreeOK' BY <1>1 DEF TreeOK, tree, PathCache
<1>4. TokenOK' BY <1>1 DEF TokenOK, EscapeAccounts, TokenAgrees, tree
<1>5. LogOK'
  <2>1. CASE ReportProgress
    <3> DEFINE e == Progressed(Slot(stack, path_prefix), Stable)
    <3>1. events' = Append(events, e) /\ reported_prefix' = Len(Stable)
      BY <2>1 DEF ReportProgress
    <3>2. tok.decoded \in Seq(Byte)
      <4>1. tok.type = "Str" BY <2>1 DEF ReportProgress, Growing
      <4> QED BY <1>1, <4>1, StrFields DEF TokenOK
    <3>3. Len(Stable) \in Nat
      <4>1. Len(StablePrefix(tok.decoded)) \in 0..Len(tok.decoded) BY <3>2, StableLength
      <4> QED BY <3>2, <4>1 DEF Stable
    <3> HIDE DEF e
    <3> QED BY <1>1, <3>1, <3>3, AppendSequence DEF LogOK
  <2>2. CASE NothingToReport BY <1>1, <2>2 DEF NothingToReport, LogOK
  <2> QED BY <2>1, <2>2 DEF EndPush
<1> QED BY <1>2, <1>3, <1>4, <1>5 DEF Inv

LEMMA FinishInv ==
  ASSUME Inv, Finish
  PROVE  Inv'
<1>1. /\ failed = None /\ ended' = TRUE /\ UNCHANGED input
      /\ ControlOK /\ LogOK /\ TreeOK /\ TokenOK
  BY DEF Finish, FinishNumber, FinishPartial, FinishOther, Finishing, Inv
<1>2. CASE FinishNumber
  <2>1. /\ Attach(stack, path_prefix, Scalar("Number", tok.text)) /\ tok' = NoTok
        /\ commit' = offset /\ UNCHANGED <<failed, offset, held, feeding>> /\ tok.type = "Num"
    BY <1>2 DEF FinishNumber, CloseNumber
  <2>2. ControlOK' BY <1>1, <2>1 DEF ControlOK, NeverUnbalanced
  <2>3. expect = "Value" BY <1>1, <2>1 DEF TokenOK, TokenAgrees
  <2> QED BY <1>1, <2>1, <2>2, <2>3, AttachHere
<1>3. CASE FinishPartial
  <2> DEFINE kind == IF tok.type = "Num" THEN "MalformedNumber" ELSE "BadLiteral"
  <2>1. /\ failed' = [offset |-> offset, kind |-> kind]
        /\ UNCHANGED <<tree, log, tok, offset, commit, held, feeding>>
    BY <1>3 DEF FinishPartial
  <2>2. failed' \in Failure /\ failed'.kind # "UnbalancedClose"
    BY <1>1, <2>1 DEF Failure, ErrorKind, ControlOK
  <2>3. failed' # None BY <2>2, ParserAssumption
  <2>4. ControlOK' BY <1>1, <2>1, <2>2 DEF ControlOK, NeverUnbalanced
  <2>5. TreeOK' BY <1>1, <2>1, <2>3 DEF TreeOK, tree, PathCache
  <2>6. LogOK' BY <1>1, <2>1 DEF LogOK, log
  <2>7. TokenOK' BY <1>1, <2>1, <2>3 DEF TokenOK, EscapeAccounts
  <2> QED BY <2>4, <2>5, <2>6, <2>7 DEF Inv
<1>4. CASE FinishOther
  <2>1. UNCHANGED <<tree, log, tok, failed, offset, commit, held, feeding>>
    BY <1>4 DEF FinishOther
  <2>2. ControlOK' BY <1>1, <2>1 DEF ControlOK, NeverUnbalanced
  <2>3. TreeOK' BY <1>1, <2>1 DEF TreeOK, tree, PathCache
  <2>4. LogOK' BY <1>1, <2>1 DEF LogOK, log
  <2>5. TokenOK' BY <1>1, <2>1 DEF TokenOK, EscapeAccounts, TokenAgrees, tree
  <2> QED BY <2>2, <2>3, <2>4, <2>5 DEF Inv
<1> QED BY <1>2, <1>3, <1>4 DEF Finish

-----------------------------------------------------------------------------
(* The theorems. *)

LEMMA InitInv == Init => Inv
<1> SUFFICES ASSUME Init PROVE Inv OBVIOUS
<1>1. ControlOK
  <2>1. <<>> \in Seq(Alphabet) /\ 0 \in Nat /\ FALSE \in BOOLEAN OBVIOUS
  <2> QED BY <2>1 DEF Init, ControlOK, NeverUnbalanced
<1>2. LogOK BY EmptySequence DEF Init, LogOK
<1>3. TreeOK
  BY EmptySequence DEF Init, TreeOK, IsStack, Expect, PathCache, CacheAgrees, KeysAgree, ExpectAgrees
<1>4. TokenOK BY DEF Init, TokenOK, Tok, NoTok, EscapeAccounts, TokenAgrees
<1> QED BY <1>1, <1>2, <1>3, <1>4 DEF Inv

LEMMA NextInv == Inv /\ [Next]_vars => Inv'
<1> SUFFICES ASSUME Inv, [Next]_vars PROVE Inv' OBVIOUS
<1>1. CASE \E b \in Alphabet : Step(b) BY <1>1, StepInv
<1>2. CASE EndPush BY <1>2, EndPushInv
<1>3. CASE Finish BY <1>3, FinishInv
<1>4. CASE UNCHANGED vars
  BY <1>4 DEF vars, Inv, ControlOK, LogOK, TreeOK, TokenOK, NeverUnbalanced, PathCache,
     EscapeAccounts, TokenAgrees
<1> QED BY <1>1, <1>2, <1>3, <1>4 DEF Next

(* The inductive invariant, from which the theorems below follow. *)
THEOREM Inductive == Spec => []Inv
BY InitInv, NextInv, PTL DEF Spec

(* Every variable keeps its type: no arithmetic on offset, pending or      *)
(* path_len leaves the natural numbers, whatever is pushed.                *)
THEOREM TypeCorrect == Spec => []TypeOK
BY Inductive, InvImplies, PTL

(* The cached path equals the walk over the frames, at every depth and     *)
(* after every failure.                                                    *)
THEOREM PathCacheCorrect == Spec => []PathCache
BY Inductive, InvImplies, PTL

(* attach() finds a pending key in every object it files a member in, and  *)
(* close_container() a frame to pop.                                       *)
THEOREM FramesAgreeCorrect == Spec => []FramesAgree
BY Inductive, InvImplies, PTL

(* completion() cuts off exactly the bytes of an unresolved escape.        *)
THEOREM EscapeAccountsCorrect == Spec => []EscapeAccounts
BY Inductive, InvImplies, PTL

(* UnbalancedClose is never reported: its arm in close_container is dead.  *)
THEOREM NeverUnbalancedCorrect == Spec => []NeverUnbalanced
BY Inductive, InvImplies, PTL

-----------------------------------------------------------------------------
(* The commit point. *)

(* Filing a scalar opens and closes no frame. *)
LEMMA SameDepth ==
  ASSUME Inv, failed = None, NEW v,
         tok.type \in {"Num", "Lit"} \/ (tok.type = "Str" /\ ~tok.is_key),
         Attach(stack, path_prefix, v)
  PROVE  Len(stack') = Len(stack)
<1>1. expect = "Value" /\ TreeOK /\ LogOK BY DEF Inv, TokenOK, TokenAgrees
<1> QED BY <1>1, Attached DEF TreeOK, PathCache

LEMMA CommitMoves ==
  ASSUME tok' = NoTok, Closable(expect', stack'), Consumed
  PROVE  commit' = offset'
BY DEF Consumed

LEMMA StepCommits ==
  ASSUME Inv, NEW b \in Alphabet, Step(b), failed' = None
  PROVE  Len(stack') = Len(stack) \/ commit' = offset'
<1>1. /\ failed = None /\ ControlOK /\ LogOK /\ TreeOK /\ TokenOK
      /\ KeysAgree(stack, expect)
  BY DEF Step, Inv, TreeOK
<1>2. CASE CloseKey(b)
  BY <1>2 DEF CloseKey
<1>3. CASE CloseString(b) BY <1>1, <1>3, SameDepth DEF CloseString, InString
<1>4. CASE StringByte(b) /\ ~CloseKey(b) /\ ~CloseString(b)
  <2>1. UNCHANGED stack
    BY <1>4 DEF StringByte, tree, Escape, Decode, Reject, OrdinaryByte, ControlByte, BeginEscape,
       CloseInvalid, ShortEscapeByte, BeginUnicode, BadEscape, HexByte, NotHex, CodePoint,
       HighSurrogate, LoneLowSurrogate, SurrogateBackslash, SurrogateU, LowSurrogate,
       MissingLowSurrogate
  <2> QED BY <2>1
<1>5. CASE NumberByte(b)
  <2>1. CASE NumberDelimited(b)
    BY <1>1, <2>1, SameDepth DEF NumberDelimited, CloseNumber, Stops
  <2>2. CASE ~NumberDelimited(b)
    BY <1>5, <2>2 DEF NumberByte, NumberGrows, ExponentRefused, NumberMalformed, Reject, tree
  <2> QED BY <2>1, <2>2
<1>6. CASE LiteralByte(b)
  <2>1. CASE LiteralDone(b) BY <1>1, <2>1, SameDepth DEF LiteralDone
  <2>2. CASE ~LiteralDone(b)
    BY <1>6, <2>2 DEF LiteralByte, LiteralGrows, LiteralMalformed, Reject, tree
  <2> QED BY <2>1, <2>2
<1>7. CASE BeginContainer(b)
  <2> DEFINE kind == ValueKind(b)
  <2>1. /\ tok.type = "None" /\ expect = "Value" /\ Consumed /\ tok' = tok
        /\ path_prefix' = Slot(stack, path_prefix) /\ stack' = Append(stack, Frame(kind))
    BY <1>7 DEF BeginContainer, At
  <2>2. kind \in {"Object", "Array"} /\ expect' = IF kind = "Object" THEN "KeyOrEnd" ELSE "Value"
    BY <1>7 DEF BeginContainer, ValueKind
  <2>3. TreeOK' /\ Len(stack') = Len(stack) + 1 /\ Last(stack') = Frame(kind)
    <3> HIDE DEF kind
    <3> QED BY <1>1, <2>1, <2>2, Pushed
  <2>4. stack' # <<>>
    <3>1. Len(stack) \in Nat BY <1>1 DEF TreeOK, IsStack, IsSequence
    <3> QED BY <2>3, <3>1, EmptySequence
  <2>5. Closable(expect', stack')
    <3> HIDE DEF kind
    <3> QED BY <2>2, <2>3, <2>4 DEF Closable, Frame
  <2>6. tok' = NoTok BY <1>1, <2>1 DEF TokenOK, Tok
  <2> QED BY <2>1, <2>5, <2>6, CommitMoves
<1>8. CASE CloseContainer(b)
  <2>1. /\ tok.type = "None" /\ tok' = tok /\ Consumed /\ stack # <<>>
        /\ Attach(Front(stack), Truncated, Container(Last(stack)))
    BY <1>8 DEF CloseContainer, Closes, Closing
  <2>2. /\ IsStack(Front(stack)) /\ IsSequence(Truncated)
        /\ CacheAgrees(Front(stack), Truncated) /\ KeysAgree(Front(stack), "Value")
    BY <1>1, <2>1, Popped
  <2>3. expect' \in {"CommaOrEnd", "Done"} BY <1>1, <2>1, <2>2, Attached
  <2>4. Closable(expect', stack') BY <2>3 DEF Closable
  <2>5. tok' = NoTok BY <1>1, <2>1 DEF TokenOK, Tok
  <2> QED BY <2>1, <2>4, <2>5, CommitMoves
<1>9. CASE MismatchedClose(b)
  <2>1. stack # <<>> BY <1>1, <1>9, ClosingOpen DEF MismatchedClose
  <2>2. failed' # None
    BY <1>1, <1>9, <2>1, FailControl DEF MismatchedClose, ErrorKind, Step, Receive, Redispatch, ControlOK
  <2> QED BY <2>2
<1>10. CASE StructuralByte(b) /\ ~BeginContainer(b) /\ ~CloseContainer(b) /\ ~MismatchedClose(b)
  BY <1>10 DEF StructuralByte, SkipSpace, BeginScalar, TooDeep, BeginKey, Colon, Comma, Unexpected,
     TrailingContent, Reject, tree
<1> QED BY <1>2, <1>3, <1>4, <1>5, <1>6, <1>7, <1>8, <1>9, <1>10 DEF Step

(* No frame opens or closes without moving the commit point, so that the   *)
(* closers completion() writes are those of the kept bytes.                *)
THEOREM CommitFollowsFramesCorrect == Spec => CommitFollowsFrames
<1>1. Inv /\ [Next]_vars => [CommitsFrames]_vars
  <2> SUFFICES ASSUME Inv, Next PROVE CommitsFrames
    BY Zenon
  <2>1. CASE \E b \in Alphabet : Step(b) BY <2>1, StepCommits DEF CommitsFrames
  <2>2. CASE EndPush BY <2>2 DEF EndPush, tree, CommitsFrames
  <2>3. CASE FinishNumber
    BY <2>3, SameDepth DEF FinishNumber, CloseNumber, Finishing, CommitsFrames
  <2>4. CASE FinishPartial \/ FinishOther
    BY <2>4 DEF FinishPartial, FinishOther, tree, CommitsFrames
  <2> QED BY <2>1, <2>2, <2>3, <2>4 DEF Next, Finish
<1> QED BY <1>1, Inductive, PTL DEF Spec, CommitFollowsFrames

-----------------------------------------------------------------------------
(* Escapes decode to scalar values. *)

LEMMA LastUnit ==
  ASSUME Inv, InHex, NEW b, LastHex(b)
  PROVE  Unit(b) \in Nat /\ Unit(b) < 65536
<1> DEFINE a == tok.acc
           h == HexValue(b)
<1>1. /\ tok.type = "Str" /\ tok \in Tok /\ tok.n = 3 /\ EscapeAccounts
  BY DEF InHex, InString, LastHex, Inv, TokenOK
<1>2. Power16[3] = 4096 BY DEF Power16
<1>3. a \in Nat /\ a < 4096 BY <1>1, <1>2, StrFields DEF EscapeAccounts
<1>4. h \in 0..15 BY HexRange DEF LastHex
<1>5. Unit(b) = 16 * a + h BY DEF Unit
<1> HIDE DEF a, h
<1> QED BY <1>3, <1>4, <1>5

(* The fourth hex digit of an escape: the `as u16` loses no bit, and the   *)
(* char::from_u32(..).unwrap() of a \uXXXX gets a scalar value, so that no *)
(* input makes it panic.                                                   *)
THEOREM EscapeIsScalar ==
  ASSUME Inv, NEW b, CodePoint(b)
  PROVE  Unit(b) \in Nat /\ (Unit(b) < 55296 \/ (57344 <= Unit(b) /\ Unit(b) < 65536))
<1>1. InHex /\ LastHex(b) /\ ~IsHighSurrogate(Unit(b)) /\ ~IsLowSurrogate(Unit(b))
  BY DEF CodePoint, InHex
<1>2. Unit(b) \in Nat /\ Unit(b) < 65536 BY <1>1, LastUnit
<1> QED BY <1>1, <1>2 DEF IsHighSurrogate, IsLowSurrogate

(* The same for a surrogate pair: its subtractions do not underflow and it *)
(* lies in the supplementary planes, so char::from_u32 returns Some.       *)
THEOREM PairIsScalar ==
  ASSUME Inv, NEW b, LowSurrogate(b)
  PROVE  /\ 55296 <= tok.hi /\ 56320 <= Unit(b)
         /\ 65536 <= SurrogatePair(tok.hi, Unit(b)) /\ SurrogatePair(tok.hi, Unit(b)) <= 1114111
<1> DEFINE hi == tok.hi
           lo == Unit(b)
<1>1. InHex /\ LastHex(b) /\ IsLowSurrogate(lo) BY DEF LowSurrogate, InHex
<1>2. lo \in Nat BY <1>1, LastUnit
<1>3. tok.type = "Str" /\ tok.state = "SurrogateHex" /\ tok \in Tok /\ EscapeAccounts
  BY DEF LowSurrogate, InString, Inv, TokenOK
<1>4. hi \in Nat /\ IsHighSurrogate(hi) BY <1>3, StrFields DEF EscapeAccounts
<1> HIDE DEF hi, lo
<1>5. /\ 55296 <= hi /\ 56320 <= lo
      /\ 65536 <= SurrogatePair(hi, lo) /\ SurrogatePair(hi, lo) <= 1114111
  BY <1>1, <1>2, <1>4 DEF IsHighSurrogate, IsLowSurrogate, SurrogatePair
<1> QED BY <1>5 DEF hi, lo
=============================================================================
