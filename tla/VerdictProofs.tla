---------------------------- MODULE VerdictProofs ----------------------------
(***************************************************************************)
(* Theorems about verdicts: how outcomes combine (Validation::fold), and   *)
(* what the log of a stream with a schema says of them, for every          *)
(* validator.                                                              *)
(***************************************************************************)
EXTENDS ValidatedProofs

(* Folding the parts of a check and then the results of the checks, as     *)
(* judge() does, is folding all parts at once, as the model does.          *)
THEOREM FoldOfFolds ==
  ASSUME NEW A \in SUBSET Verdict, NEW B \in SUBSET Verdict
  PROVE  Fold(A \cup {Fold(B)}) = Fold(A \cup B)
BY DEF Fold, Verdict

(* A part that fails cannot be outvoted: whatever else is folded with it,  *)
(* the result is a failure, and irrecoverable if the part is.              *)
THEOREM FailureWins ==
  ASSUME NEW A \in SUBSET Verdict, NEW v \in A, IsFailure(v)
  PROVE  IsFailure(Fold(A)) /\ (IsIrrecoverable(v) => IsIrrecoverable(Fold(A)))
BY DEF Fold, Verdict, IsFailure, IsIrrecoverable

(* And no failure is invented: a fold fails only if a part does.           *)
THEOREM FailureHasCause ==
  ASSUME NEW A \in SUBSET Verdict, IsFailure(Fold(A))
  PROVE  \E v \in A : IsFailure(v) /\ IsIrrecoverable(Fold(A)) = IsIrrecoverable(v)
<1>1. CASE "IrrecoverablyInvalid" \in A BY <1>1 DEF Fold, IsFailure, IsIrrecoverable
<1>2. CASE "IrrecoverablyInvalid" \notin A /\ "Invalid" \in A
  BY <1>2 DEF Fold, IsFailure, IsIrrecoverable
<1>3. CASE "IrrecoverablyInvalid" \notin A /\ "Invalid" \notin A
  BY <1>3 DEF Fold, IsFailure
<1> QED BY <1>1, <1>2, <1>3

-----------------------------------------------------------------------------
(* Verdicts come after the events they rest on. *)

StartedBy(evs, m, path) == \E i \in 1..m : evs[i].type = "ValueStarted" /\ evs[i].path = path

(* Up to the m-th event the path has been announced, and all above it.     *)
Rooted(evs, m, path) == \A k \in 0..Len(path) : StartedBy(evs, m, SubSeq(path, 1, k))

AllRooted(evs) == \A i \in 1..Len(evs) :
  evs[i].type # "DocumentCompleted" => Rooted(evs, i, evs[i].path)

LEMMA WholePath ==
  ASSUME NEW path, IsSequence(path)
  PROVE  Len(path) \in 0..Len(path) /\ SubSeq(path, 1, Len(path)) = path
<1> DEFINE n == Len(path)
           s == SubSeq(path, 1, n)
<1>1. n \in Nat /\ n \in 0..Len(path) BY DEF IsSequence
<1>2. IsSequence(s) /\ Len(s) = n /\ \A i \in 1..n : s[i] = path[i]
  <2> HIDE DEF n
  <2> QED BY <1>1, SubSeqSequence
<1>3. s = path
  <2> HIDE DEF s
  <2> QED BY <1>2, SameSequence
<1> QED BY <1>1, <1>3

LEMMA SameSlots ==
  /\ Parsed!InFlight <=> InFlight
  /\ Parsed!SlotPath = SlotPath
BY SameShapes DEF Parsed!InFlight, InFlight, Parsed!Growing, Growing, Parsed!SlotPath, SlotPath

LEMMA StartedInParse ==
  ASSUME IsSequence(events), NEW path, Parsed!HasStarted(ParseEvents, path)
  PROVE  StartedBy(events, Len(events), path)
<1>1. PICK j \in 1..Len(ParseEvents) : ParseEvents[j].type = "ValueStarted" /\ ParseEvents[j].path = path
  BY DEF Parsed!HasStarted
<1>2. PICK i \in 1..Len(events) : ParseEvents[j] = events[i] BY KeptElements DEF ParseEvents
<1> QED BY <1>1, <1>2 DEF StartedBy

LEMMA SlotsStarted ==
  ASSUME Inv, Parsed!LogInv, failed = None
  PROVE  /\ stack # <<>> => Rooted(events, Len(events), path_prefix)
         /\ InFlight => StartedBy(events, Len(events), SlotPath)
         /\ \A k \in 0..Len(SlotPath) :
              k # Len(SlotPath) => StartedBy(events, Len(events), SubSeq(SlotPath, 1, k))
<1>1. IsSequence(events) BY DEF Inv, LogOK
<1>2. IsStack(stack) /\ IsSequence(path_prefix) /\ CacheAgrees(stack, path_prefix)
  BY DEF Inv, TreeOK, PathCache
<1>3. /\ Len(stack) \in Nat /\ (stack = <<>> <=> Len(stack) = 0)
      /\ Len(SlotPath) = Len(stack) /\ IsSequence(SlotPath)
      /\ \A i \in 1..Len(path_prefix) : SlotPath[i] = path_prefix[i]
  BY <1>2, FramePaths DEF SlotPath
<1>4. stack # <<>> => Len(path_prefix) = Len(stack) - 1 BY <1>2, <1>3 DEF CacheAgrees
<1>5. ASSUME NEW k \in 1..Len(stack) PROVE StartedBy(events, Len(events), FramePath(path_prefix, k))
  <2>1. Parsed!HasStarted(ParseEvents, Parsed!FramePath(path_prefix, k))
    BY DEF Parsed!LogInv, Parsed!FramesStarted
  <2> QED BY <1>1, <2>1, StartedInParse DEF Parsed!FramePath, FramePath
<1>6. ASSUME stack # <<>>, NEW k \in 0..Len(path_prefix)
      PROVE  StartedBy(events, Len(events), SubSeq(path_prefix, 1, k))
  <2>1. k + 1 \in 1..Len(stack) /\ k + 1 - 1 = k BY <1>3, <1>4, <1>6
  <2> QED BY <1>5, <2>1 DEF FramePath
<1>7. InFlight => StartedBy(events, Len(events), SlotPath)
  BY <1>1, SameSlots, StartedInParse DEF Parsed!LogInv
<1>8. ASSUME NEW k \in 0..Len(SlotPath), k # Len(SlotPath)
      PROVE  StartedBy(events, Len(events), SubSeq(SlotPath, 1, k))
  <2>1. stack # <<>> /\ k \in 0..Len(path_prefix) BY <1>3, <1>4, <1>8
  <2>2. /\ IsSequence(SubSeq(SlotPath, 1, k)) /\ Len(SubSeq(SlotPath, 1, k)) = k
        /\ \A i \in 1..k : SubSeq(SlotPath, 1, k)[i] = SlotPath[i]
    BY <1>3, <1>8, SubSeqSequence
  <2>3. /\ IsSequence(SubSeq(path_prefix, 1, k)) /\ Len(SubSeq(path_prefix, 1, k)) = k
        /\ \A i \in 1..k : SubSeq(path_prefix, 1, k)[i] = path_prefix[i]
    BY <1>2, <2>1, SubSeqSequence
  <2>4. \A i \in 1..k : i \in 1..Len(path_prefix) BY <1>2, <2>1 DEF IsSequence
  <2>5. SubSeq(SlotPath, 1, k) = SubSeq(path_prefix, 1, k)
    BY <1>3, <2>2, <2>3, <2>4, SameSequence
  <2> QED BY <1>6, <2>1, <2>5
<1> QED BY <1>6, <1>7, <1>8 DEF Rooted

(* What has been announced stays announced. *)
LEMMA StillStarted ==
  ASSUME IsSequence(events), IsSequence(events'), Extends(events, events'),
         NEW m, m \in Nat, m <= Len(events), NEW j \in m..Len(events'), NEW path,
         StartedBy(events, m, path)
  PROVE  StartedBy(events', j, path)
<1>1. PICK i \in 1..m : events[i].type = "ValueStarted" /\ events[i].path = path BY DEF StartedBy
<1>2. Len(events) \in Nat /\ Len(events') \in Nat BY DEF IsSequence
<1>3. i \in 1..Len(events) /\ i \in 1..j BY <1>2
<1> QED BY <1>1, <1>3 DEF StartedBy, Extends

LEMMA ParseRooted ==
  ASSUME VBase, Parsed!LogInv, AllRooted(events), (\E b \in Alphabet : VStep(b)) \/ VFinish
  PROVE  AllRooted(events')
<1>1. Inv /\ Inv' /\ failed = None /\ Effect BY ParseStep DEF VBase
<1>2. IsSequence(events) /\ IsSequence(events') /\ Extends(events, events') BY <1>1, EffectExtends
<1>3. NewEvents BY <1>1, EventsAppended
<1>4. Len(events) \in Nat /\ Len(events') \in Nat BY <1>2 DEF IsSequence
<1> DEFINE n == Len(events)
<1>5. SUFFICES ASSUME NEW i \in 1..Len(events'), events'[i].type # "DocumentCompleted",
                      NEW k \in 0..Len(events'[i].path)
               PROVE  StartedBy(events', i, SubSeq(events'[i].path, 1, k))
  BY DEF AllRooted, Rooted
<1>6. CASE i \in 1..n
  <2>1. events'[i] = events[i] BY <1>2, <1>6 DEF Extends
  <2>2. StartedBy(events, i, SubSeq(events[i].path, 1, k)) BY <1>5, <1>6, <2>1 DEF AllRooted, Rooted
  <2>3. i \in Nat /\ i <= n /\ i \in i..Len(events') BY <1>4, <1>6
  <2> QED BY <1>2, <2>1, <2>2, <2>3, StillStarted
<1>7. CASE i \notin 1..n
  <2>1. i \in (n + 1)..Len(events') /\ n \in Nat /\ n <= Len(events) /\ i \in n..Len(events')
    BY <1>4, <1>7
  <2>2. \A path : StartedBy(events, n, path) => StartedBy(events', i, path)
    BY <1>2, <2>1, StillStarted
  <2>3. NewEvent(events'[i]) /\ events'[i] # DocumentCompleted
    BY <1>3, <1>5, <2>1 DEF NewEvents, DocumentCompleted
  <2>4. CASE stack # <<>> /\ events'[i].path = path_prefix
    <3>1. StartedBy(events, n, SubSeq(path_prefix, 1, k)) BY <1>1, <1>5, <2>4, SlotsStarted DEF Rooted
    <3> QED BY <2>2, <2>4, <3>1
  <2>5. CASE (events'[i].type = "ValueStarted" \/ InFlight) /\ events'[i].path = SlotPath
    <3>1. CASE k # Len(SlotPath)
      <4>1. StartedBy(events, n, SubSeq(SlotPath, 1, k)) BY <1>1, <1>5, <2>5, <3>1, SlotsStarted
      <4> QED BY <2>2, <2>5, <4>1
    <3>2. CASE k = Len(SlotPath)
      <4>1. SubSeq(events'[i].path, 1, k) = events'[i].path
        BY <1>1, <2>5, <3>2, SlotSequence, WholePath
      <4>2. CASE InFlight
        <5>1. StartedBy(events, n, SlotPath) BY <1>1, <4>2, SlotsStarted
        <5> QED BY <2>2, <2>5, <4>1, <5>1
      <4>3. CASE events'[i].type = "ValueStarted"
        <5>1. i \in 1..i BY <2>1
        <5> QED BY <4>1, <4>3, <5>1 DEF StartedBy
      <4> QED BY <2>5, <4>2, <4>3
    <3> QED BY <3>1, <3>2
  <2> QED BY <2>3, <2>4, <2>5 DEF NewEvent
<1> QED BY <1>6, <1>7

LEMMA PrefixTwice ==
  ASSUME NEW q, IsSequence(q), NEW k \in 0..Len(q), NEW m \in 0..k
  PROVE  SubSeq(SubSeq(q, 1, k), 1, m) = SubSeq(q, 1, m)
<1> DEFINE p == SubSeq(q, 1, k)
           a == SubSeq(p, 1, m)
           b == SubSeq(q, 1, m)
<1>1. Len(q) \in Nat /\ m \in 0..Len(q) BY DEF IsSequence
<1>2. IsSequence(p) /\ Len(p) = k /\ \A i \in 1..k : p[i] = q[i] BY SubSeqSequence
<1>3. IsSequence(b) /\ Len(b) = m /\ \A i \in 1..m : b[i] = q[i] BY <1>1, SubSeqSequence
<1> HIDE DEF p
<1>4. IsSequence(a) /\ Len(a) = m /\ \A i \in 1..m : a[i] = p[i] BY <1>2, SubSeqSequence
<1>5. \A i \in 1..m : i \in 1..k BY <1>1
<1> HIDE DEF a, b
<1>6. a = b BY <1>2, <1>3, <1>4, <1>5, SameSequence
<1> QED BY <1>6 DEF a, b, p

LEMMA RootedAbove ==
  ASSUME NEW evs, NEW m, NEW q, IsSequence(q), Rooted(evs, m, q), NEW k \in 0..Len(q)
  PROVE  Rooted(evs, m, SubSeq(q, 1, k)) /\ IsSequence(SubSeq(q, 1, k))
<1>1. IsSequence(SubSeq(q, 1, k)) /\ Len(SubSeq(q, 1, k)) = k BY SubSeqSequence
<1>2. Len(q) \in Nat BY DEF IsSequence
<1>3. ASSUME NEW j \in 0..k PROVE StartedBy(evs, m, SubSeq(SubSeq(q, 1, k), 1, j))
  <2>1. j \in 0..Len(q) BY <1>2
  <2>2. StartedBy(evs, m, SubSeq(q, 1, j)) BY <2>1 DEF Rooted
  <2> QED BY <2>2, PrefixTwice
<1> QED BY <1>1, <1>3 DEF Rooted

LEMMA SlotRooted ==
  ASSUME Inv, Parsed!LogInv, failed = None, InFlight
  PROVE  Rooted(events, Len(events), SlotPath) /\ IsSequence(SlotPath)
<1>1. IsSequence(SlotPath) BY SlotSequence
<1>2. ASSUME NEW k \in 0..Len(SlotPath) PROVE StartedBy(events, Len(events), SubSeq(SlotPath, 1, k))
  <2>1. CASE k # Len(SlotPath) BY <2>1, SlotsStarted
  <2>2. CASE k = Len(SlotPath)
    <3>1. SubSeq(SlotPath, 1, k) = SlotPath BY <1>1, <2>2, WholePath
    <3> QED BY <3>1, SlotsStarted
  <2> QED BY <2>1, <2>2
<1> QED BY <1>1, <1>2 DEF Rooted

(* The paths that a push judges had been announced before it ended.        *)
LEMMA NamedRooted ==
  ASSUME VBase, Parsed!LogInv, AllRooted(events), failed = None, NEW p, Named(events \o Progress, p)
  PROVE  Rooted(events, Len(events), p) /\ IsSequence(p)
<1> DEFINE n   == Len(events)
           all == events \o Progress
<1>1. Inv /\ IsSequence(events) /\ n \in Nat /\ PathsShaped(events)
  BY DEF VBase, Inv, LogOK, IsSequence
<1>2. /\ IsSequence(Progress) /\ Len(Progress) \in 0..1
      /\ \A i \in 1..Len(Progress) : Grew /\ Progress[i] = Progressed(SlotPath, Stable)
  BY ProgressShape DEF ProgressEvents
<1>3. /\ Len(all) = n + Len(Progress) /\ \A i \in 1..n : all[i] = events[i]
      /\ \A i \in (n + 1)..(n + Len(Progress)) : all[i] = Progress[i - n]
  BY <1>1, <1>2, ConcatElements
<1>4. PICK j \in 1..Len(all) : all[j].type # "DocumentCompleted"
              /\ \E k \in 0..Len(all[j].path) : p = SubSeq(all[j].path, 1, k)
  BY DEF Named
<1> HIDE DEF all
<1>5. Rooted(events, n, all[j].path) /\ IsSequence(all[j].path)
  <2>1. CASE j \in 1..n
    <3>1. all[j] = events[j] /\ IsSequence(events[j].path) BY <1>1, <1>3, <1>4, <2>1 DEF PathsShaped
    <3>2. Rooted(events, j, events[j].path) BY <1>3, <1>4, <2>1 DEF AllRooted
    <3>3. \A i \in 1..j : i \in 1..n BY <1>1, <2>1
    <3>4. Rooted(events, n, events[j].path) BY <3>2, <3>3 DEF Rooted, StartedBy
    <3> QED BY <3>1, <3>4
  <2>2. CASE j \notin 1..n
    <3>1. j \in (n + 1)..(n + Len(Progress)) /\ j - n \in 1..Len(Progress) BY <1>1, <1>2, <1>3, <2>2
    <3>2. all[j] = Progressed(SlotPath, Stable) /\ Grew BY <1>2, <1>3, <3>1
    <3>3. InFlight /\ all[j].path = SlotPath BY <3>2 DEF Grew, InFlight, Progressed
    <3> QED BY <1>1, <3>3, SlotRooted
  <2> QED BY <2>1, <2>2
<1>6. PICK k \in 0..Len(all[j].path) : p = SubSeq(all[j].path, 1, k) BY <1>4
<1> QED BY <1>5, <1>6, RootedAbove

LEMMA PushRooted ==
  ASSUME VBase, Parsed!LogInv, AllRooted(events), VEndPush
  PROVE  AllRooted(events')
<1> DEFINE n == Len(events)
<1>1. Inv /\ failed = None BY DEF VBase, VEndPush, PushReturns
<1>2. IsSequence(SlotPath) BY <1>1, SlotSequence
<1>3. PICK now, more : Judging(now, more) BY <1>1, <1>2, PushJudges DEF VBase
<1>4. IsSequence(events) /\ IsSequence(events') /\ Extends(events, events') /\ n \in Nat /\ Len(events') \in Nat
  BY <1>1, <1>3, PushExtends DEF Inv, LogOK, IsSequence
<1>5. SUFFICES ASSUME NEW i \in 1..Len(events'), events'[i].type # "DocumentCompleted",
                      NEW k \in 0..Len(events'[i].path)
               PROVE  StartedBy(events', i, SubSeq(events'[i].path, 1, k))
  BY DEF AllRooted, Rooted
<1>6. CASE i \in 1..n
  <2>1. events'[i] = events[i] BY <1>4, <1>6 DEF Extends
  <2>2. StartedBy(events, i, SubSeq(events[i].path, 1, k)) BY <1>5, <1>6, <2>1 DEF AllRooted, Rooted
  <2>3. i \in Nat /\ i <= n /\ i \in i..Len(events') BY <1>4, <1>6
  <2> QED BY <1>4, <2>1, <2>2, <2>3, StillStarted
<1>7. CASE i \notin 1..n
  <2>1. i \in (n + 1)..Len(events') /\ n <= Len(events) /\ i \in n..Len(events') BY <1>4, <1>7
  <2>2. \A path : StartedBy(events, n, path) => StartedBy(events', i, path)
    BY <1>4, <2>1, StillStarted
  <2>3. Rooted(events, n, events'[i].path)
    <3>1. CASE Grew /\ events'[i] = Progressed(SlotPath, Stable)
      <4>1. InFlight /\ events'[i].path = SlotPath BY <3>1 DEF Grew, InFlight, Progressed
      <4> QED BY <1>1, <4>1, SlotRooted
    <3>2. ASSUME NEW p \in DOMAIN now, Told(events'[i], p, now) PROVE Rooted(events, n, events'[i].path)
      <4>1. events'[i].path = p /\ Named(events \o Progress, p) BY <1>3, <3>2, ToldIsVerdict DEF Judging
      <4> QED BY <1>1, <4>1, NamedRooted
    <3> QED BY <1>3, <2>1, <3>1, <3>2, PushExtends
  <2> QED BY <2>2, <2>3 DEF Rooted
<1> QED BY <1>6, <1>7

LEMMA RootedNext == VBase /\ Parsed!LogInv /\ AllRooted(events) /\ [VNext]_all_vars => AllRooted(events')
<1> SUFFICES ASSUME VBase, Parsed!LogInv, AllRooted(events), [VNext]_all_vars PROVE AllRooted(events')
  OBVIOUS
<1>1. CASE (\E b \in Alphabet : VStep(b)) \/ VFinish BY <1>1, ParseRooted
<1>2. CASE VEndPush BY <1>2, PushRooted
<1>3. CASE UNCHANGED events BY <1>3
<1> QED BY <1>1, <1>2, <1>3 DEF VNext, Drain, vars, all_vars

LEMMA SameStatus == \A p, v : Parsed!StatusOf(p, v) = StatusOf(p, v)
BY Zenon DEF StatusOf, Partial, IsOpenContainer, OpenFramePath, IsPrefix, SlotToken, Decimal, HexDigit,
  Parsed!StatusOf, Parsed!Partial, Parsed!IsOpenContainer, Parsed!OpenFramePath, Parsed!IsPrefix,
  Parsed!SlotToken, Parsed!Decimal, Parsed!HexDigit

CompletedBy(evs, m, path) == \E i \in 1..m : evs[i].type = "ValueCompleted" /\ evs[i].path = path

(* A path that has been announced is one of the document's.                *)
LEMMA RootedIsNode ==
  ASSUME NoneIsNoValue, VBase, Parsed!Inv, Parsed!LogInv, failed = None, ~Parsed!Dup,
         NEW p, IsSequence(p), Rooted(events, Len(events), p)
  PROVE  \E m \in Parsed!Nodes : m.path = p /\ m.value = ValueIn(Snapshot, p)
<1>1. IsSequence(events) BY DEF VBase, Inv, LogOK
<1>2. Parsed!ParserAssumption /\ Parsed!NoneIsNoValue BY ParsedAssumptions
<1>3. ~Parsed!RepeatsKey BY <1>2, Parsed!RepeatsIsDup
<1>4. PICK i \in 1..Len(events) : events[i].type = "ValueStarted" /\ events[i].path = p
  BY WholePath DEF Rooted, StartedBy
<1>5. ~IsVerdict(events[i]) BY <1>4 DEF IsVerdict
<1>6. PICK j \in 1..Len(ParseEvents) : ParseEvents[j] = events[i]
  BY <1>1, <1>5, KeptElements DEF ParseEvents
<1>7. { n.path : n \in Parsed!Nodes } =
        { ParseEvents[k].path : k \in { l \in DOMAIN ParseEvents : Parsed!IsEvent(l, "ValueStarted") } }
  BY <1>2, <1>3, Parsed!PathsTold
<1>8. j \in DOMAIN ParseEvents
  <2>1. IsSequence(ParseEvents) BY <1>1, KeptSequence DEF ParseEvents
  <2> QED BY <2>1 DEF IsSequence
<1>9. Parsed!IsEvent(j, "ValueStarted") BY <1>4, <1>6 DEF Parsed!IsEvent
<1>10. PICK m \in Parsed!Nodes : m.path = p BY <1>4, <1>6, <1>7, <1>8, <1>9
<1>11. Parsed!ValueIn(Parsed!Snapshot, m.path) = m.value BY <1>2, Parsed!NodeValue
<1> QED BY <1>10, <1>11, SameValueIn, SameSnapshot

(* A path that is called Complete has been completed in the log.           *)
LEMMA CompleteIsTold ==
  ASSUME NoneIsNoValue, VBase, Parsed!Inv, Parsed!LogInv, failed = None, ~Parsed!Dup,
         NEW p, IsSequence(p), Rooted(events, Len(events), p), Status(p) = "Complete"
  PROVE  CompletedBy(events, Len(events), p)
<1>1. IsSequence(events) BY DEF VBase, Inv, LogOK
<1>2. Parsed!ParserAssumption /\ Parsed!NoneIsNoValue BY ParsedAssumptions
<1>3. ~Parsed!RepeatsKey BY <1>2, Parsed!RepeatsIsDup
<1>4. PICK m \in Parsed!Nodes : m.path = p /\ m.value = ValueIn(Snapshot, p) BY RootedIsNode
<1>5. Parsed!StatusOf(m.path, m.value) = "Complete" BY <1>4, SameStatus DEF Status
<1>6. m \in Parsed!Final BY <1>5 DEF Parsed!Final, Parsed!IsFinal
<1>7. ~Parsed!FrameLost BY DEF Parsed!FrameLost
<1>8. m \in Parsed!Completions(ParseEvents)
  <2>1. Parsed!FinalTold BY <1>2, Parsed!FinalIsTold
  <2> QED BY <1>3, <1>6, <1>7, <2>1 DEF Parsed!FinalTold
<1>9. PICK j \in 1..Len(ParseEvents) : ParseEvents[j].type = "ValueCompleted"
             /\ m = Parsed!Node(ParseEvents[j].path, ParseEvents[j].value)
  BY <1>8 DEF Parsed!Completions
<1>10. ParseEvents[j].path = p BY <1>4, <1>9 DEF Parsed!Node
<1>11. PICK i \in 1..Len(events) : ParseEvents[j] = events[i] BY <1>1, KeptElements DEF ParseEvents
<1> QED BY <1>9, <1>10, <1>11 DEF CompletedBy

ValidIsLate(evs) == \A j \in 1..Len(evs) :
  evs[j].type = "ValidationCompleted" => CompletedBy(evs, j, evs[j].path)

SettledInv == ~Parsed!Dup /\ ~FrameLost => ValidIsLate(events)

(* Once a key is repeated it stays so.                                     *)
LEMMA DupStays ==
  ASSUME Parsed!Inv, Parsed!Inv', [Parsed!Next]_Parsed!vars, ~Parsed!Dup', ~FrameLost'
  PROVE  ~Parsed!Dup /\ ~FrameLost
<1>1. Parsed!ParserAssumption BY ParsedAssumptions
<1>2. (Parsed!FrameLost <=> FrameLost) /\ (Parsed!FrameLost <=> FrameLost)'
  BY DEF Parsed!FrameLost, FrameLost
<1>3. CASE Parsed!Next
  <2>1. failed = None /\ Parsed!Effect BY <1>1, <1>3, Parsed!NextEffect
  <2>2. ~Parsed!Dup BY <1>1, <1>2, <2>1, Parsed!DupPersists
  <2> QED BY <2>1, <2>2 DEF FrameLost
<1>4. CASE UNCHANGED Parsed!vars
  BY <1>4 DEF Parsed!vars, Parsed!Dup, Parsed!DupFrame, Parsed!DupDone, Parsed!SlotTaken,
    Parsed!InFlight, Parsed!Growing, FrameLost
<1> QED BY <1>3, <1>4

LEMMA StillCompleted ==
  ASSUME IsSequence(events), IsSequence(events'), Extends(events, events'),
         NEW m, m \in Nat, m <= Len(events), NEW j \in m..Len(events'), NEW path,
         CompletedBy(events, m, path)
  PROVE  CompletedBy(events', j, path)
<1>1. PICK i \in 1..m : events[i].type = "ValueCompleted" /\ events[i].path = path BY DEF CompletedBy
<1>2. Len(events) \in Nat /\ Len(events') \in Nat BY DEF IsSequence
<1>3. i \in 1..Len(events) /\ i \in 1..j BY <1>2
<1> QED BY <1>1, <1>3 DEF CompletedBy, Extends

LEMMA SettledExtended ==
  ASSUME IsSequence(events), IsSequence(events'), Extends(events, events'), ValidIsLate(events),
         \A i \in (Len(events) + 1)..Len(events') : events'[i].type = "ValidationCompleted" =>
           CompletedBy(events, Len(events), events'[i].path)
  PROVE  ValidIsLate(events')
<1> DEFINE n == Len(events)
<1>1. n \in Nat /\ Len(events') \in Nat BY DEF IsSequence
<1>2. SUFFICES ASSUME NEW i \in 1..Len(events'), events'[i].type = "ValidationCompleted"
               PROVE  CompletedBy(events', i, events'[i].path)
  BY DEF ValidIsLate
<1>3. CASE i \in 1..n
  <2>1. events'[i] = events[i] /\ CompletedBy(events, i, events[i].path)
    BY <1>2, <1>3 DEF Extends, ValidIsLate
  <2>2. i \in Nat /\ i <= n /\ i \in i..Len(events') BY <1>1, <1>3
  <2> QED BY <2>1, <2>2, StillCompleted
<1>4. CASE i \notin 1..n
  <2>1. i \in (n + 1)..Len(events') /\ n <= Len(events) /\ i \in n..Len(events') BY <1>1, <1>4
  <2> QED BY <1>1, <1>2, <2>1, StillCompleted
<1> QED BY <1>3, <1>4

LEMMA SettledNext ==
  NoneIsNoValue /\ VBase /\ Parsed!Inv /\ Parsed!Inv' /\ Parsed!LogInv /\ AllRooted(events) /\ SettledInv
  /\ [VNext]_all_vars /\ [Parsed!Next]_Parsed!vars => SettledInv'
<1> SUFFICES ASSUME NoneIsNoValue, VBase, Parsed!Inv, Parsed!Inv', Parsed!LogInv, AllRooted(events), SettledInv,
                    [VNext]_all_vars, [Parsed!Next]_Parsed!vars, ~Parsed!Dup', ~FrameLost'
             PROVE  ValidIsLate(events')
  BY DEF SettledInv
<1>1. ~Parsed!Dup /\ ~FrameLost BY DupStays
<1>2. ValidIsLate(events) BY <1>1 DEF SettledInv
<1>3. Inv /\ IsSequence(events) BY DEF VBase, Inv, LogOK
<1>4. CASE (\E b \in Alphabet : VStep(b)) \/ VFinish
  <2>1. Inv' /\ Effect BY <1>3, <1>4, ParseStep
  <2>2. IsSequence(events') /\ Extends(events, events') /\ NewEvents
    BY <1>3, <2>1, EffectExtends, EventsAppended
  <2>3. \A i \in (Len(events) + 1)..Len(events') : events'[i].type # "ValidationCompleted"
    BY <2>2 DEF NewEvents, IsVerdict
  <2> QED BY <1>2, <1>3, <2>2, <2>3, SettledExtended
<1>5. CASE VEndPush
  <2>1. failed = None BY <1>5 DEF VEndPush, PushReturns
  <2>2. IsSequence(SlotPath) BY <1>3, SlotSequence
  <2>3. PICK now, more : Judging(now, more) BY <1>3, <1>5, <2>2, PushJudges DEF VBase
  <2>4. IsSequence(events') /\ Extends(events, events') BY <2>3, PushExtends
  <2>5. ASSUME NEW i \in (Len(events) + 1)..Len(events'), events'[i].type = "ValidationCompleted"
        PROVE  CompletedBy(events, Len(events), events'[i].path)
    <3>1. events'[i] # Progressed(SlotPath, Stable) BY <2>5 DEF Progressed
    <3>2. PICK p \in DOMAIN now : Told(events'[i], p, now) BY <2>3, <2>5, <3>1, PushExtends
    <3>3. events'[i].path = p /\ Status(p) = "Complete" /\ Named(events \o Progress, p)
      BY <2>3, <2>5, <3>2, ToldIsVerdict DEF Judging
    <3>4. Rooted(events, Len(events), p) /\ IsSequence(p) BY <2>1, <3>3, NamedRooted
    <3> QED BY <1>1, <2>1, <3>3, <3>4, CompleteIsTold
  <2> QED BY <1>2, <1>3, <2>4, <2>5, SettledExtended
<1>6. CASE UNCHANGED events BY <1>2, <1>6 DEF ValidIsLate, CompletedBy
<1> QED BY <1>4, <1>5, <1>6 DEF VNext, Drain, vars, all_vars

LEMMA VerdictsHold ==
  NoneIsNoValue /\ VBase /\ Parsed!Inv /\ Parsed!LogInv /\ AllRooted(events) /\ SettledInv
    => VerdictsFollowValues
<1> SUFFICES ASSUME NoneIsNoValue, VBase, Parsed!Inv, Parsed!LogInv, AllRooted(events), SettledInv,
                    NEW j \in DOMAIN events, IsVerdict(events[j])
             PROVE  LET Follows(type) == \E i \in 1..(j - 1) :
                           events[i].type = type /\ events[i].path = events[j].path
                    IN  /\ Follows("ValueStarted")
                        /\ events[j].type = "ValidationCompleted" /\ ~RepeatsKey /\ ~FrameLost =>
                             Follows("ValueCompleted")
  BY DEF VerdictsFollowValues
<1>1. IsSequence(events) /\ j \in 1..Len(events) /\ Len(events) \in Nat
  BY DEF VBase, Inv, LogOK, IsSequence
<1>2. events[j].type # "DocumentCompleted" /\ events[j].type # "ValueStarted" /\ events[j].type # "ValueCompleted"
  BY DEF IsVerdict
<1>3. IsSequence(events[j].path) BY <1>1, <1>2 DEF VBase, PathsShaped
<1>4. StartedBy(events, j, events[j].path) BY <1>1, <1>2, <1>3, WholePath DEF AllRooted, Rooted
<1>5. \A i \in 1..j : i = j \/ i \in 1..(j - 1) BY <1>1
<1>6. \E i \in 1..(j - 1) : events[i].type = "ValueStarted" /\ events[i].path = events[j].path
  BY <1>2, <1>4, <1>5 DEF StartedBy
<1>7. ASSUME events[j].type = "ValidationCompleted", ~RepeatsKey, ~FrameLost
      PROVE  \E i \in 1..(j - 1) : events[i].type = "ValueCompleted" /\ events[i].path = events[j].path
  <2>1. ~Parsed!RepeatsKey /\ ~Parsed!FrameLost BY <1>7, SameRepeats
  <2>2. ~Parsed!Dup BY <2>1, ParsedAssumptions, Parsed!RepeatsIsDup
  <2>3. CompletedBy(events, j, events[j].path) BY <1>1, <1>7, <2>2 DEF SettledInv, ValidIsLate
  <2> QED BY <1>2, <1>5, <2>3 DEF CompletedBy
<1> QED BY <1>6, <1>7

LEMMA SettledInit == VInit => AllRooted(events) /\ SettledInv
<1> SUFFICES ASSUME VInit PROVE AllRooted(events) /\ SettledInv OBVIOUS
<1>1. Len(events) = 0 BY EmptySequence DEF VInit, Init
<1> QED BY <1>1 DEF AllRooted, SettledInv, ValidIsLate

(* The invariant behind it: whatever an event names has been announced     *)
(* before, with all the paths above it, and Valid comes after completion.  *)
LEMMA SettledInductive ==
  ASSUME NoneIsNoValue PROVE VSpec => [](AllRooted(events) /\ SettledInv)
<1>1. VSpec => [](VBase /\ Parsed!Inv /\ Parsed!LogInv) BY BaseInductive, ParsedInv, PTL
<1>2. NoneIsNoValue /\ VBase /\ Parsed!Inv /\ Parsed!Inv' /\ Parsed!LogInv /\ AllRooted(events) /\ SettledInv
        /\ [VNext]_all_vars => AllRooted(events)' /\ SettledInv'
  BY RootedNext, SettledNext, SameNext
<1> QED BY <1>1, <1>2, SettledInit, PTL DEF VSpec

(* A verdict on a path comes after the event it rests on                   *)
(* (judge_touched_paths): any verdict after the value was announced, Valid *)
(* after it was completed.  For every validator, however the chunks fall   *)
(* and whenever the caller drains.                                         *)
THEOREM VerdictsFollowValuesCorrect ==
  ASSUME NoneIsNoValue PROVE VSpec => []VerdictsFollowValues
<1>1. VSpec => [](VBase /\ Parsed!Inv /\ Parsed!LogInv) BY BaseInductive, ParsedInv, PTL
<1> QED BY <1>1, VerdictsHold, SettledInductive, PTL

-----------------------------------------------------------------------------
(* Types. *)

LEMMA DigitIsByte == \A k \in 0..9 : HexDigit[k + 1] \in Byte
<1>1. DigitByte \subseteq Byte BY Zenon DEF Byte
<1>2. \A k \in 0..9 : HexDigit[k + 1] \in DigitByte BY DigitOf
<1> QED BY <1>1, <1>2

LEMMA DecimalIsText == \A n \in Nat : Decimal(n) \in Seq(Byte)
<1> DEFINE bad == { n \in Nat : Decimal(n) \notin Seq(Byte) }
<1>1. SUFFICES ASSUME bad # {} PROVE FALSE OBVIOUS
<1>2. PICK n \in bad : \A m \in bad : n <= m
  <2> HIDE DEF bad
  <2>1. bad \subseteq Nat BY DEF bad
  <2> QED BY <1>1, <2>1, LeastNumber
<1>3. n \in Nat /\ Decimal(n) \notin Seq(Byte) /\ \A m \in Nat : m < n => Decimal(m) \in Seq(Byte)
  BY <1>2
<1>4. Decimal(n) = IF n < 10 THEN <<HexDigit[n + 1]>>
                   ELSE Append(Decimal(n \div 10), HexDigit[(n % 10) + 1])
  BY <1>3, DecimalDigits
<1>5. CASE n < 10
  <2>1. n \in 0..9 BY <1>3, <1>5
  <2>2. HexDigit[n + 1] \in Byte BY ONLY <2>1, DigitIsByte, Zenon
  <2> QED BY <1>3, <1>4, <1>5, <2>2
<1>6. CASE ~(n < 10)
  <2>1. n \div 10 \in Nat /\ n \div 10 < n /\ n % 10 \in 0..9 BY <1>3, <1>6
  <2>2. HexDigit[(n % 10) + 1] \in Byte BY <2>1, DigitIsByte
  <2>3. Decimal(n \div 10) \in Seq(Byte) BY <1>3, <2>1
  <2> QED BY <1>3, <1>4, <1>6, <2>2, <2>3
<1> QED BY <1>5, <1>6

LEMMA TokenIsText ==
  ASSUME NEW f, IsFrame(f)
  PROVE  SlotToken(f) \in Seq(Byte)
<1>1. Len(f.children) \in Nat /\ f.pending_key \in Seq(Byte) \cup {None} BY DEF IsFrame, IsSequence
<1>2. Decimal(Len(f.children)) \in Seq(Byte) BY <1>1, DecimalIsText
<1>3. <<>> \in Seq(Byte) OBVIOUS
<1> QED BY <1>1, <1>2, <1>3 DEF SlotToken

LEMMA PathIsText ==
  ASSUME NEW path, IsSequence(path), \A i \in 1..Len(path) : path[i] \in Seq(Byte)
  PROVE  path \in Seq(Seq(Byte))
<1>1. Len(path) \in Nat /\ path = [i \in 1..Len(path) |-> path[i]] BY DEF IsSequence
<1> DEFINE T == Seq(Byte)
<1>2. \A i \in 1..Len(path) : path[i] \in T OBVIOUS
<1> HIDE DEF T
<1>3. path \in [1..Len(path) -> T] BY <1>1, <1>2
<1>4. path \in Seq(T) BY <1>1, <1>3
<1> QED BY <1>4 DEF T

LEMMA SlotIsText ==
  ASSUME Inv
  PROVE  SlotPath \in Seq(Seq(Byte)) /\ (stack # <<>> => path_prefix \in Seq(Seq(Byte)))
<1>1. IsStack(stack) /\ TreeOK /\ IsSequence(SlotPath) /\ IsSequence(path_prefix)
  BY SlotSequence DEF Inv, TreeOK
<1>2. CASE stack = <<>>
  <2>1. Len(SlotPath) = 0 BY <1>1, <1>2, EmptySequence DEF SlotPath, Slot, TreeOK, PathCache, CacheAgrees
  <2>2. \A i \in 1..Len(SlotPath) : SlotPath[i] \in Seq(Byte) BY <2>1
  <2> QED BY <1>1, <1>2, <2>2, PathIsText
<1>3. CASE stack # <<>>
  <2>1. /\ Len(SlotPath) = Len(stack) /\ \A i \in 1..Len(SlotPath) : SlotPath[i] = SlotToken(stack[i])
        /\ Len(path_prefix) = Len(stack) - 1 /\ Len(stack) \in Nat \ {0}
        /\ \A i \in 1..Len(path_prefix) : path_prefix[i] = SlotToken(stack[i])
    BY <1>1, <1>3, SlotTokens
  <2>2. \A i \in 1..Len(stack) : SlotToken(stack[i]) \in Seq(Byte) BY <1>1, TokenIsText DEF IsStack
  <2>3. \A i \in 1..Len(path_prefix) : i \in 1..Len(stack) BY <2>1
  <2>4. \A i \in 1..Len(SlotPath) : SlotPath[i] \in Seq(Byte) BY <2>1, <2>2
  <2>5. \A i \in 1..Len(path_prefix) : path_prefix[i] \in Seq(Byte) BY <2>1, <2>2, <2>3
  <2>6. SlotPath \in Seq(Seq(Byte)) BY <1>1, <2>4, PathIsText
  <2>7. path_prefix \in Seq(Seq(Byte)) BY <1>1, <2>5, PathIsText
  <2> QED BY <2>6, <2>7
<1> QED BY <1>2, <1>3

(* Whatever the validator is asked, it answers with a state of Validation. *)
JudgedIsVerdict == \A s \in Schemas : \A path, v, complete : \A id \in NodeAt(s, path) :
  Judged(s, id, v, complete) \in Verdict

LEMMA ValidationIsVerdict ==
  ASSUME JudgedIsVerdict, schema \in Schemas
  PROVE  \A p : Validation(p) \in Verdict
<1>1. ASSUME NEW outcomes, outcomes \subseteq Verdict PROVE VerdictIn(outcomes) \in Verdict
  BY <1>1 DEF VerdictIn, Verdict
<1>2. \A p, v : ValidationOf(p, v) \in Verdict
  <2> TAKE p, v
  <2> DEFINE S == { Judged(schema, n.id, v, n.complete) :
                      n \in [id : NodeAt(schema, p), complete : { StatusOf(p, v) = "Complete" }] }
  <2>1. S \subseteq Verdict BY DEF JudgedIsVerdict
  <2>2. ValidationOf(p, v) = VerdictIn(S) BY DEF ValidationOf
  <2> HIDE DEF S
  <2> QED BY <1>1, <2>1, <2>2
<1>3. ASSUME NEW p PROVE Validation(p) \in Verdict
  <2> DEFINE S == { ValidationOf(p, v) : v \in { ValueIn(Snapshot, p) } \ {None} }
  <2>1. S \subseteq Verdict BY <1>2
  <2>2. Validation(p) = VerdictIn(S) BY DEF Validation
  <2> HIDE DEF S
  <2> QED BY <1>1, <2>1, <2>2
<1> QED BY <1>3

PathsTyped(evs) == \A i \in 1..Len(evs) :
  evs[i].type # "DocumentCompleted" => evs[i].path \in Seq(Seq(Byte))

VerdictsTyped(evs, last) == \A i \in 1..Len(evs) :
  IsVerdict(evs[i]) => evs[i].path \in DOMAIN last /\ evs[i].state \in Verdict

ReportedTyped(last) ==
  DOMAIN last \subseteq Seq(Seq(Byte)) /\ \A p \in DOMAIN last : last[p] \in Verdict

VTypes ==
  /\ schema \in Schemas /\ drains \in 0..MaxDrains
  /\ ReportedTyped(reported) /\ PathsTyped(events) /\ VerdictsTyped(events, reported)

LEMMA NamedTyped ==
  ASSUME Inv, PathsTyped(events), NEW p, Named(events \o Progress, p)
  PROVE  p \in Seq(Seq(Byte))
<1> DEFINE n   == Len(events)
           all == events \o Progress
<1>1. IsSequence(events) /\ n \in Nat BY DEF Inv, LogOK, IsSequence
<1>2. /\ IsSequence(Progress) /\ Len(Progress) \in 0..1
      /\ \A i \in 1..Len(Progress) : Progress[i] = Progressed(SlotPath, Stable)
  BY ProgressShape DEF ProgressEvents
<1>3. /\ Len(all) = n + Len(Progress) /\ \A i \in 1..n : all[i] = events[i]
      /\ \A i \in (n + 1)..(n + Len(Progress)) : all[i] = Progress[i - n]
  BY <1>1, <1>2, ConcatElements
<1>4. PICK j \in 1..Len(all) : all[j].type # "DocumentCompleted"
              /\ \E k \in 0..Len(all[j].path) : p = SubSeq(all[j].path, 1, k)
  BY DEF Named
<1> HIDE DEF all
<1>5. all[j].path \in Seq(Seq(Byte))
  <2>1. CASE j \in 1..n BY <1>3, <1>4, <2>1 DEF PathsTyped
  <2>2. CASE j \notin 1..n
    <3>1. j \in (n + 1)..(n + Len(Progress)) /\ j - n \in 1..Len(Progress) BY <1>1, <1>2, <1>3, <2>2
    <3>2. all[j].path = SlotPath BY <1>2, <1>3, <3>1 DEF Progressed
    <3> QED BY <3>2, SlotIsText
  <2> QED BY <2>1, <2>2
<1>6. PICK k \in 0..Len(all[j].path) : p = SubSeq(all[j].path, 1, k) BY <1>4
<1> DEFINE q == all[j].path
           T == Seq(Byte)
<1>7. q \in Seq(T) /\ k \in 0..Len(q) /\ p = SubSeq(q, 1, k) BY <1>5, <1>6
<1> HIDE DEF q, T
<1>8. p \in Seq(T)
  <2>1. Len(q) \in Nat /\ \A i \in 1..k : q[i] \in T BY <1>7
  <2> QED BY <1>7, <2>1, SubSeqProperties
<1> QED BY <1>8 DEF T

LEMMA VTypesNext ==
  JudgedIsVerdict /\ VBase /\ VTypes /\ [VNext]_all_vars => VTypes'
<1> SUFFICES ASSUME JudgedIsVerdict, VBase, VTypes, [VNext]_all_vars PROVE VTypes' OBVIOUS
<1> DEFINE n == Len(events)
<1>1. Inv /\ IsSequence(events) /\ n \in Nat BY DEF VBase, Inv, LogOK, IsSequence
<1>2. CASE (\E b \in Alphabet : VStep(b)) \/ VFinish
  <2>1. Inv' /\ Effect /\ UNCHANGED validation_vars BY <1>1, <1>2, ParseStep
  <2>2. IsSequence(events') /\ Extends(events, events') /\ NewEvents
    BY <1>1, <2>1, EffectExtends, EventsAppended
  <2>3. \A i \in 1..Len(events') : i \in 1..n \/ i \in (n + 1)..Len(events')
    BY <1>1, <2>2 DEF IsSequence
  <2>4. \A i \in 1..n : events'[i] = events[i] BY <2>2 DEF Extends
  <2>5. PathsTyped(events')
    <3> SUFFICES ASSUME NEW i \in 1..Len(events'), events'[i].type # "DocumentCompleted"
                 PROVE  events'[i].path \in Seq(Seq(Byte))
      BY DEF PathsTyped
    <3>1. CASE i \in 1..n BY <2>4, <3>1 DEF VTypes, PathsTyped
    <3>2. CASE i \in (n + 1)..Len(events')
      <4>1. NewEvent(events'[i]) /\ events'[i] # DocumentCompleted
        BY <2>2, <3>2 DEF NewEvents, DocumentCompleted
      <4> QED BY <1>1, <4>1, SlotIsText DEF NewEvent
    <3> QED BY <2>3, <3>1, <3>2
  <2>6. VerdictsTyped(events', reported)
    BY <2>2, <2>3, <2>4 DEF NewEvents, VTypes, VerdictsTyped
  <2> QED BY <2>1, <2>5, <2>6 DEF VTypes, validation_vars
<1>3. CASE VEndPush
  <2>1. IsSequence(SlotPath) BY <1>1, SlotSequence
  <2>2. PICK now, more : Judging(now, more) BY <1>1, <1>3, <2>1, PushJudges DEF VBase
  <2>3. IsSequence(events') /\ Extends(events, events') BY <2>2, PushExtends
  <2>4. \A i \in 1..Len(events') : i \in 1..n \/ i \in (n + 1)..Len(events')
    BY <1>1, <2>3 DEF IsSequence
  <2>5. \A i \in 1..n : events'[i] = events[i] BY <2>3 DEF Extends
  <2>6. now = [p \in DOMAIN now |-> Validation(p)] BY <2>2 DEF Judging
  <2>7. \A p \in DOMAIN now : p \in Seq(Seq(Byte)) /\ now[p] \in Verdict
    <3> TAKE p \in DOMAIN now
    <3>1. p \in Seq(Seq(Byte)) BY <1>1, <2>2, NamedTyped DEF Judging, VTypes
    <3>2. now[p] = Validation(p) BY <2>6
    <3> QED BY <3>1, <3>2, ValidationIsVerdict DEF VTypes
  <2>8. /\ DOMAIN reported' = DOMAIN now \cup DOMAIN reported
        /\ \A p \in DOMAIN reported' : reported'[p] = IF p \in DOMAIN now THEN now[p] ELSE reported[p]
    <3>1. reported' = Remember(now) BY <2>2 DEF Judging
    <3> QED BY <3>1 DEF Remember
  <2>9. ReportedTyped(reported')
    <3>1. DOMAIN reported' \subseteq Seq(Seq(Byte)) BY <2>7, <2>8 DEF VTypes, ReportedTyped
    <3>2. \A p \in DOMAIN reported' : reported'[p] \in Verdict
      BY <2>7, <2>8 DEF VTypes, ReportedTyped
    <3> QED BY <3>1, <3>2 DEF ReportedTyped
  <2>10. ASSUME NEW i \in (n + 1)..Len(events')
         PROVE  /\ events'[i].path \in Seq(Seq(Byte))
                /\ IsVerdict(events'[i]) => events'[i].path \in DOMAIN now /\ events'[i].state \in Verdict
    <3>1. CASE events'[i] = Progressed(SlotPath, Stable)
      BY <1>1, <3>1, SlotIsText DEF Progressed, IsVerdict
    <3>2. ASSUME NEW p \in DOMAIN now, Told(events'[i], p, now)
          PROVE  events'[i].path \in DOMAIN now /\ events'[i].state \in Verdict
      BY <2>7, <3>2, ToldIsVerdict
    <3> QED BY <2>2, <2>7, <2>10, <3>1, <3>2, PushExtends
  <2>11. PathsTyped(events') BY <2>4, <2>5, <2>10 DEF VTypes, PathsTyped
  <2>12. VerdictsTyped(events', reported') BY <2>4, <2>5, <2>8, <2>10 DEF VTypes, VerdictsTyped
  <2>13. UNCHANGED <<schema, drains>> BY <1>3 DEF VEndPush
  <2> QED BY <2>9, <2>11, <2>12, <2>13 DEF VTypes
<1>4. CASE Drain
  <2>1. drains' = drains + 1 /\ drains < MaxDrains /\ UNCHANGED <<events, schema, reported>>
    BY <1>4 DEF Drain, vars
  <2>2. drains' \in 0..MaxDrains BY <2>1, ValidatedAssumption DEF VTypes
  <2> QED BY <2>1, <2>2 DEF VTypes
<1>5. CASE UNCHANGED all_vars BY <1>5 DEF all_vars, vars, validation_vars, VTypes
<1> QED BY <1>2, <1>3, <1>4, <1>5 DEF VNext

LEMMA VTypesInit == VInit => VTypes
<1> SUFFICES ASSUME VInit PROVE VTypes OBVIOUS
<1>1. Len(events) = 0 /\ schema \in Schemas /\ drains = 0 /\ reported = << >>
  BY EmptySequence DEF VInit, Init
<1>2. DOMAIN reported = {} BY <1>1
<1>3. drains \in 0..MaxDrains BY <1>1, ValidatedAssumption
<1> QED BY <1>1, <1>2, <1>3 DEF VTypes, ReportedTyped, PathsTyped, VerdictsTyped

(* Every variable of a validated stream keeps its type: the caches name    *)
(* paths of text only and hold states of Validation, and a path that a     *)
(* verdict was told on is remembered (judge_touched_paths).                *)
THEOREM VTypeCorrect == ASSUME JudgedIsVerdict PROVE VSpec => []VTypeOK
<1>1. VBase /\ VTypes => VTypeOK
  <2> SUFFICES ASSUME VBase, VTypes PROVE VTypeOK OBVIOUS
  <2>1. TypeOK BY InvImplies DEF VBase
  <2>2. DOMAIN events = 1..Len(events) BY DEF VBase, Inv, LogOK, IsSequence
  <2> QED BY <2>1, <2>2 DEF VBase, VTypes, VTypeOK, DrainedOK, ReportedTyped, VerdictsTyped
<1>2. JudgedIsVerdict /\ VBase /\ VTypes /\ [VNext]_all_vars => VTypes' BY VTypesNext
<1> QED BY <1>1, <1>2, VTypesInit, BaseInductive, PTL DEF VSpec

-----------------------------------------------------------------------------
(* Each transition is reported once. *)

(* The verdict on a value that is complete. *)
Judgement(path, v) ==
  VerdictIn({ Judged(schema, n.id, v, n.complete) : n \in [id : NodeAt(schema, path), complete : {TRUE}] })

Stands(i) == Validation(events[i].path) = Judgement(events[i].path, events[i].value)

AllStand == \A i \in 1..Len(events) : events[i].type = "ValueCompleted" => Stands(i)

LEMMA CompletedStands ==
  NoneIsNoValue /\ VBase /\ Parsed!Inv /\ Parsed!LogInv /\ failed = None /\ ~Parsed!Dup =>
    AllStand
<1> SUFFICES ASSUME NoneIsNoValue, VBase, Parsed!Inv, Parsed!LogInv, failed = None, ~Parsed!Dup,
                    NEW i \in 1..Len(events), events[i].type = "ValueCompleted"
             PROVE  Stands(i)
  BY DEF AllStand
<1> DEFINE p == events[i].path
           v == events[i].value
<1>1. IsSequence(events) BY DEF VBase, Inv, LogOK
<1>2. Parsed!ParserAssumption /\ Parsed!NoneIsNoValue BY ParsedAssumptions
<1>3. ~Parsed!RepeatsKey BY <1>2, Parsed!RepeatsIsDup
<1>4. ~Parsed!FrameLost BY DEF Parsed!FrameLost
<1>5. PICK j \in 1..Len(ParseEvents) : ParseEvents[j] = events[i]
  BY <1>1, KeptElements DEF ParseEvents, IsVerdict
<1> DEFINE m == Parsed!Node(p, v)
<1>6. m \in Parsed!Completions(ParseEvents) BY <1>5 DEF Parsed!Completions
<1>7. m \in Parsed!Final
  <2>1. Parsed!FinalTold BY <1>2, Parsed!FinalIsTold
  <2> HIDE DEF m
  <2> QED BY <1>3, <1>4, <1>6, <2>1 DEF Parsed!FinalTold
<1>8. m.path = p /\ m.value = v BY DEF Parsed!Node
<1> HIDE DEF m
<1>9. m \in Parsed!Nodes /\ Parsed!StatusOf(p, v) = "Complete" BY <1>7, <1>8 DEF Parsed!Final, Parsed!IsFinal
<1>10. Parsed!ValueIn(Parsed!Snapshot, m.path) = m.value BY <1>2, <1>9, Parsed!NodeValue
<1>11. ValueIn(Snapshot, p) = v BY <1>8, <1>10, SameValueIn, SameSnapshot
<1>12. StatusOf(p, v) = "Complete" BY <1>9, SameStatus
<1>13. v # None BY <1>12 DEF StatusOf
<1>14. ValidationOf(p, v) = Judgement(p, v)
  <2>1. {StatusOf(p, v) = "Complete"} = {TRUE} BY <1>12
  <2> HIDE DEF p, v
  <2> QED BY <2>1 DEF ValidationOf, Judgement
<1>15. { ValidationOf(p, w) : w \in { ValueIn(Snapshot, p) } \ {None} } = { Judgement(p, v) }
  <2> HIDE DEF p, v
  <2> QED BY <1>11, <1>13, <1>14
<1> HIDE DEF p, v
<1>16. VerdictIn({ Judgement(p, v) }) = Judgement(p, v) BY DEF VerdictIn
<1>17. Validation(p) = Judgement(p, v) BY <1>15, <1>16 DEF Validation
<1> QED BY <1>17 DEF p, v, Stands

LEMMA VerdictsUnmoved ==
  ASSUME UNCHANGED <<tree, tok, schema>>
  PROVE  \A p : Validation(p)' = Validation(p)
<1>1. stack' = stack /\ root' = root BY DEF tree
<1>2. Snapshot' = Snapshot
  BY <1>1 DEF Snapshot, TokenValue, Stable
<1>3. \A p, v : StatusOf(p, v)' = StatusOf(p, v)
  BY <1>1 DEF StatusOf, IsOpenContainer, OpenFramePath
<1>4. \A p, v : ValidationOf(p, v)' = ValidationOf(p, v)
  <2> TAKE p, v
  <2>1. StatusOf(p, v)' = StatusOf(p, v) BY <1>3
  <2> QED BY <2>1 DEF ValidationOf
<1> TAKE p
<1>5. { ValidationOf(p, v) : v \in { ValueIn(Snapshot, p) } \ {None} }'
        = { ValidationOf(p, v) : v \in { ValueIn(Snapshot, p) } \ {None} }
  BY <1>2, <1>4
<1> QED BY <1>5 DEF Validation

(* Valid is for good. *)
ValidAt(p) == Validation(p) = "Valid"

ValidStays == failed = None /\ ~Parsed!Dup => \A j \in 1..Len(events) :
  events[j].type = "ValidationCompleted" => ValidAt(events[j].path)

LEMMA ValidNext ==
  NoneIsNoValue /\ VBase /\ VBase' /\ Parsed!Inv /\ Parsed!Inv' /\ Parsed!LogInv /\ Parsed!LogInv'
  /\ SettledInv /\ ValidStays /\ [VNext]_all_vars /\ [Parsed!Next]_Parsed!vars => ValidStays'
<1> SUFFICES ASSUME NoneIsNoValue, VBase, VBase', Parsed!Inv, Parsed!Inv', Parsed!LogInv, Parsed!LogInv',
                    SettledInv, ValidStays, [VNext]_all_vars, [Parsed!Next]_Parsed!vars,
                    failed' = None, ~Parsed!Dup',
                    NEW j \in 1..Len(events'), events'[j].type = "ValidationCompleted"
             PROVE  (ValidAt(events[j].path))'
  BY DEF ValidStays
<1>0. ~FrameLost' BY DEF FrameLost
<1>1. ~Parsed!Dup /\ ~FrameLost BY <1>0, DupStays
<1>2. ValidIsLate(events) BY <1>1 DEF SettledInv
<1>3. Inv /\ IsSequence(events) /\ IsSequence(events') BY DEF VBase, Inv, LogOK
<1>4. Len(events) \in Nat /\ Len(events') \in Nat BY <1>3 DEF IsSequence
<1>5. CASE (\E b \in Alphabet : VStep(b)) \/ VFinish
  <2>1. Inv' /\ Effect /\ failed = None /\ schema' = schema BY <1>3, <1>5, ParseStep DEF validation_vars
  <2>2. Extends(events, events') /\ NewEvents BY <1>3, <2>1, EffectExtends, EventsAppended
  <2>3. j \in 1..Len(events)
    <3>1. ASSUME j \notin 1..Len(events) PROVE FALSE
      <4>1. j \in (Len(events) + 1)..Len(events') BY <1>4, <3>1
      <4> QED BY <2>2, <4>1 DEF NewEvents, IsVerdict
    <3> QED BY <3>1
  <2>4. events'[j] = events[j] BY <2>2, <2>3 DEF Extends
  <2>5. PICK i \in 1..j : events[i].type = "ValueCompleted" /\ events[i].path = events[j].path
    BY <1>2, <2>3, <2>4 DEF ValidIsLate, CompletedBy
  <2>6. i \in 1..Len(events) /\ i \in 1..Len(events') /\ events'[i] = events[i]
    BY <1>4, <2>2, <2>3 DEF Extends
  <2>7. Stands(i) BY <1>1, <2>1, <2>5, <2>6, CompletedStands DEF AllStand
  <2>8. Stands(i)'
    <3>1. (NoneIsNoValue /\ VBase /\ Parsed!Inv /\ Parsed!LogInv /\ failed = None /\ ~Parsed!Dup => AllStand)'
      BY CompletedStands, PTL
    <3>2. AllStand' BY <3>1 DEF NoneIsNoValue
    <3> QED BY <2>5, <2>6, <3>2 DEF AllStand
  <2>9. \A q, v : Judgement(q, v)' = Judgement(q, v) BY <2>1 DEF Judgement
  <2>10. ValidAt(events[j].path) BY <1>1, <2>1, <2>3, <2>4 DEF ValidStays
  <2>11. Judgement(events[i].path, events[i].value) = "Valid" BY <2>5, <2>7, <2>10 DEF Stands, ValidAt
  <2> QED BY <2>4, <2>5, <2>6, <2>8, <2>9, <2>11 DEF Stands, ValidAt
<1>6. ASSUME UNCHANGED <<tree, tok, schema>>, failed = None, j \in 1..Len(events), events'[j] = events[j]
      PROVE  (ValidAt(events[j].path))'
  <2>1. ValidAt(events[j].path) BY <1>1, <1>6 DEF ValidStays
  <2>2. \A p : Validation(p)' = Validation(p) BY <1>6, VerdictsUnmoved
  <2> QED BY <1>6, <2>1, <2>2 DEF ValidAt
<1>7. CASE VEndPush
  <2>1. failed = None /\ UNCHANGED <<tree, tok, schema>> BY <1>7 DEF VEndPush, PushReturns
  <2>2. IsSequence(SlotPath) BY <1>3, SlotSequence
  <2>3. PICK now, more : Judging(now, more) BY <1>3, <1>7, <2>2, PushJudges DEF VBase
  <2>4. Extends(events, events') BY <2>3, PushExtends
  <2>5. CASE j \in 1..Len(events)
    <3>1. events'[j] = events[j] BY <2>4, <2>5 DEF Extends
    <3> QED BY <1>6, <2>1, <2>5, <3>1
  <2>6. CASE j \notin 1..Len(events)
    <3>1. j \in (Len(events) + 1)..Len(events') BY <1>4, <2>6
    <3>2. events'[j] # Progressed(SlotPath, Stable) BY DEF Progressed
    <3>3. PICK p \in DOMAIN now : Told(events'[j], p, now) BY <2>3, <3>1, <3>2, PushExtends
    <3>4. events'[j].path = p /\ now[p] = "Valid" /\ now[p] = Validation(p)
      BY <2>3, <3>3, ToldIsVerdict DEF Judging
    <3>5. \A q : Validation(q)' = Validation(q) BY <2>1, VerdictsUnmoved
    <3> QED BY <3>4, <3>5 DEF ValidAt
  <2> QED BY <2>5, <2>6
<1>8. CASE UNCHANGED vars /\ schema' = schema
  BY <1>6, <1>8 DEF vars, tree
<1> QED BY <1>5, <1>7, <1>8 DEF VNext, Drain, all_vars, validation_vars

(* No later verdict on the path of the j-th event. *)
LastOn(evs, j) == j \in 1..Len(evs) /\ IsVerdict(evs[j]) /\
  \A k \in (j + 1)..Len(evs) : IsVerdict(evs[k]) => evs[k].path # evs[j].path

LEMMA LastExists ==
  ASSUME NEW evs, IsSequence(evs), NEW i \in 1..Len(evs), IsVerdict(evs[i])
  PROVE  \E k \in i..Len(evs) : LastOn(evs, k) /\ evs[k].path = evs[i].path
<1> DEFINE n == Len(evs)
           On(k) == IsVerdict(evs[k]) /\ evs[k].path = evs[i].path
           rest == { d \in 0..n : n - d \in i..n /\ On(n - d) }
<1>1. n \in Nat BY DEF IsSequence
<1>2. n - i \in rest
  <2>1. n - i \in 0..n /\ n - (n - i) = i /\ i \in i..n BY <1>1
  <2> QED BY <2>1
<1>3. PICK d \in rest : \A c \in rest : d <= c
  <2>1. rest \subseteq Nat BY <1>1
  <2> HIDE DEF rest
  <2> QED BY <1>2, <2>1, LeastNumber
<1> DEFINE k == n - d
<1>4. k \in i..n /\ k \in 1..n /\ d = n - k /\ On(k) BY <1>1, <1>3
<1>5. ASSUME NEW l \in (k + 1)..n, On(l) PROVE FALSE
  <2>1. n - l \in 0..n /\ n - (n - l) = l /\ l \in i..n /\ n - l < d BY <1>1, <1>4, <1>5
  <2>2. n - l \in rest BY <1>5, <2>1
  <2>3. d <= n - l BY <1>3, <2>2
  <2> QED BY <1>1, <1>4, <2>1, <2>3
<1> HIDE DEF k
<1>6. LastOn(evs, k) BY <1>4, <1>5 DEF LastOn
<1> QED BY <1>4, <1>6

(* What a verdict event says, and that it is the last word until the       *)
(* verdict moves.                                                          *)
VerdictShape == \A j \in 1..Len(events) :
  /\ events[j].type = "ValidationFailed" => IsFailure(events[j].state)
  /\ events[j].type = "ValidationCompleted" => events[j].state = "Valid"

LastReported == \A j \in 1..Len(events) : LastOn(events, j) =>
  events[j].path \in DOMAIN reported /\ reported[events[j].path] = events[j].state

OneTransition(evs, i, j) ==
  IsVerdict(evs[i]) /\ IsVerdict(evs[j]) /\ evs[i].path = evs[j].path =>
    /\ evs[i].state # "Valid"
    /\ evs[i].state = evs[j].state =>
         \E k \in (i + 1)..(j - 1) : IsVerdict(evs[k]) /\ evs[k].path = evs[i].path

TransitionsApart == \A j \in 1..Len(events) : \A i \in 1..(j - 1) : OneTransition(events, i, j)

ReportedInv == VerdictShape /\ (~Parsed!Dup /\ ~FrameLost => LastReported /\ TransitionsApart)

(* A step that appends no verdict.                                         *)
LEMMA ReportedQuiet ==
  ASSUME IsSequence(events), IsSequence(events'), Extends(events, events'), reported' = reported,
         \A i \in (Len(events) + 1)..Len(events') : ~IsVerdict(events'[i])
  PROVE  /\ VerdictShape => VerdictShape'
         /\ LastReported /\ TransitionsApart => LastReported' /\ TransitionsApart'
<1>1. Len(events) \in Nat /\ Len(events') \in Nat /\ Len(events) <= Len(events') BY DEF IsSequence, Extends
<1>2. \A i \in 1..Len(events') : IsVerdict(events'[i]) => i \in 1..Len(events)
  <2> TAKE i \in 1..Len(events')
  <2>1. i \in 1..Len(events) \/ i \in (Len(events) + 1)..Len(events') BY <1>1
  <2> QED BY <2>1
<1>3. \A i \in 1..Len(events) : events'[i] = events[i] BY DEF Extends
<1>4. VerdictShape => VerdictShape' BY <1>2, <1>3 DEF VerdictShape, IsVerdict
<1>5. ASSUME LastReported PROVE LastReported'
  <2> SUFFICES ASSUME NEW j \in 1..Len(events'), LastOn(events', j)
               PROVE  events'[j].path \in DOMAIN reported' /\ reported'[events'[j].path] = events'[j].state
    BY DEF LastReported
  <2>1. j \in 1..Len(events) /\ events'[j] = events[j] BY <1>2, <1>3 DEF LastOn
  <2>2. \A k \in (j + 1)..Len(events) : k \in (j + 1)..Len(events') /\ events'[k] = events[k]
    BY <1>1, <1>3, <2>1
  <2>3. LastOn(events, j) BY <2>1, <2>2 DEF LastOn
  <2> QED BY <1>5, <2>1, <2>3 DEF LastReported
<1>6. ASSUME TransitionsApart PROVE TransitionsApart'
  <2> SUFFICES ASSUME NEW j \in 1..Len(events'), NEW i \in 1..(j - 1), IsVerdict(events'[j])
               PROVE  OneTransition(events', i, j)
    BY DEF TransitionsApart, OneTransition
  <2>1. j \in 1..Len(events) /\ events'[j] = events[j] BY <1>2, <1>3
  <2>2. i \in 1..Len(events) /\ events'[i] = events[i] BY <1>1, <1>3, <2>1
  <2>3. OneTransition(events, i, j) BY <1>6, <2>1 DEF TransitionsApart
  <2>4. \A k \in (i + 1)..(j - 1) : events'[k] = events[k] BY <1>1, <1>3, <2>1, <2>2
  <2> QED BY <2>1, <2>2, <2>3, <2>4 DEF OneTransition
<1> QED BY <1>4, <1>5, <1>6

KeepsFailures ==
  \A p \in DOMAIN reported : IsFailure(reported[p]) /\ ~IsFailure(reported'[p]) => RepeatsKey'

(* The verdicts of a push, by their place in the log.                      *)
LEMMA VerdictsAppended ==
  ASSUME VBase, NEW now, NEW more, Judging(now, more), Thorough(now, more)
  PROVE  LET m == Len(events \o Progress)
         IN  /\ m \in Nat /\ Len(events) <= m /\ m <= Len(events')
             /\ \A j \in 1..Len(events') : IsVerdict(events'[j]) =>
                  \/ j \in 1..Len(events) /\ events'[j] = events[j]
                  \/ j > m /\ events'[j].path \in DOMAIN now /\ Told(events'[j], events'[j].path, now)
             /\ \A j \in 1..Len(events') : \A i \in 1..(j - 1) : i > m => events'[i].path # events'[j].path
             /\ \A p \in DOMAIN now : \A e : Told(e, p, now) => \E j \in 1..Len(events') : j > m /\ events'[j] = e
<1> DEFINE all == events \o Progress
           m == Len(all)
           n == Len(events)
<1>1. IsSequence(events) /\ IsSequence(more) /\ n \in Nat /\ Len(more) \in Nat /\ events' = all \o more
  BY DEF VBase, Inv, LogOK, IsSequence, Judging
<1>2. /\ IsSequence(all) /\ IsSequence(events') /\ Extends(events, events') /\ Extends(all, events')
      /\ \A i \in (n + 1)..Len(events') :
              \/ i \in 1..m /\ Grew /\ events'[i] = Progressed(SlotPath, Stable)
              \/ i > m /\ \E p \in DOMAIN now : Told(events'[i], p, now)
  BY PushExtends
<1>3. IsSequence(Progress) /\ Len(Progress) \in Nat BY ProgressShape DEF ProgressEvents
<1>4. m = n + Len(Progress) BY <1>1, <1>3, ConcatElements
<1> HIDE DEF all
<1>5. /\ Len(events') = m + Len(more)
      /\ \A i \in (m + 1)..(m + Len(more)) : events'[i] = more[i - m]
  BY <1>1, <1>2, ConcatElements
<1>6. m \in Nat /\ n <= m /\ m <= Len(events') BY <1>1, <1>3, <1>4, <1>5
<1>7. ASSUME NEW j \in 1..Len(events'), IsVerdict(events'[j])
      PROVE  \/ j \in 1..n /\ events'[j] = events[j]
             \/ j > m /\ events'[j].path \in DOMAIN now /\ Told(events'[j], events'[j].path, now)
  <2>1. CASE j \in 1..n BY <1>2, <2>1 DEF Extends
  <2>2. CASE j \notin 1..n
    <3>1. j \in (n + 1)..Len(events') BY <1>1, <1>6, <2>2
    <3>2. events'[j] # Progressed(SlotPath, Stable) BY <1>7 DEF Progressed, IsVerdict
    <3>3. j > m /\ \E p \in DOMAIN now : Told(events'[j], p, now) BY <1>2, <3>1, <3>2
    <3>4. PICK p \in DOMAIN now : Told(events'[j], p, now) BY <3>3
    <3>5. events'[j].path = p BY <3>4, ToldIsVerdict
    <3> QED BY <3>3, <3>4, <3>5
  <2> QED BY <2>1, <2>2
<1>8. ASSUME NEW j \in 1..Len(events'), NEW i \in 1..(j - 1), i > m
      PROVE  events'[i].path # events'[j].path
  <2>1. i \in (m + 1)..(m + Len(more)) /\ j \in (m + 1)..(m + Len(more)) BY <1>1, <1>5, <1>6, <1>8
  <2>2. events'[i] = more[i - m] /\ events'[j] = more[j - m] BY <1>5, <2>1
  <2>3. j - m \in 1..Len(more) /\ i - m \in 1..((j - m) - 1) BY <1>1, <1>6, <2>1
  <2> QED BY <2>2, <2>3 DEF Thorough, PathsDiffer
<1>9. ASSUME NEW p \in DOMAIN now, NEW e, Told(e, p, now)
      PROVE  \E j \in 1..Len(events') : j > m /\ events'[j] = e
  <2>1. PICK k \in 1..Len(more) : more[k] = e BY <1>9 DEF Thorough, Has
  <2>2. m + k \in (m + 1)..(m + Len(more)) /\ (m + k) - m = k /\ m + k \in 1..Len(events') /\ m + k > m
    BY <1>1, <1>5, <1>6
  <2>3. events'[m + k] = more[k] BY <1>5, <2>2
  <2> QED BY <2>1, <2>2, <2>3
<1> QED BY <1>6, <1>7, <1>8, <1>9 DEF all

LEMMA RepeatsNeedDup == NoneIsNoValue /\ Parsed!Inv /\ Parsed!LogInv /\ ~Parsed!Dup => ~RepeatsKey
BY ParsedAssumptions, Parsed!RepeatsIsDup, SameRepeats

LEMMA ReportedPush ==
  ASSUME NoneIsNoValue, VBase, VBase', Parsed!Inv', Parsed!LogInv', VEndPush, KeepsFailures, ~Parsed!Dup, ~Parsed!Dup',
         ValidStays, VerdictShape, LastReported, TransitionsApart
  PROVE  LastReported' /\ TransitionsApart'
<1> DEFINE m == Len(events \o Progress)
           n == Len(events)
<1>1. Inv /\ IsSequence(events) /\ IsSequence(events') /\ failed = None
  BY DEF VBase, Inv, LogOK, VEndPush, PushReturns
<1>2. n \in Nat /\ Len(events') \in Nat BY <1>1 DEF IsSequence
<1>3. PICK now, more : Judging(now, more) /\ Thorough(now, more)
  BY <1>1, SlotSequence, PushJudges DEF VBase
<1>4. /\ reported' = Remember(now) /\ Extends(events, events')
      /\ \A p \in DOMAIN now : now[p] = Validation(p)
  BY <1>3, PushExtends DEF Judging
<1>5. /\ m \in Nat /\ n <= m /\ m <= Len(events')
      /\ \A j \in 1..Len(events') : IsVerdict(events'[j]) =>
           \/ j \in 1..n /\ events'[j] = events[j]
           \/ j > m /\ events'[j].path \in DOMAIN now /\ Told(events'[j], events'[j].path, now)
      /\ \A j \in 1..Len(events') : \A i \in 1..(j - 1) : i > m => events'[i].path # events'[j].path
      /\ \A p \in DOMAIN now : \A e : Told(e, p, now) => \E j \in 1..Len(events') : j > m /\ events'[j] = e
  BY <1>3, VerdictsAppended
<1>6. \A p \in DOMAIN now : p \in DOMAIN reported' /\ reported'[p] = now[p] BY <1>4 DEF Remember
<1>7. \A p \in DOMAIN reported : p \in DOMAIN reported' /\ (p \notin DOMAIN now => reported'[p] = reported[p])
  BY <1>4 DEF Remember
<1>8. ~RepeatsKey'
  <2>1. (NoneIsNoValue /\ Parsed!Inv /\ Parsed!LogInv /\ ~Parsed!Dup => ~RepeatsKey)'
    BY RepeatsNeedDup, PTL
  <2> QED BY <2>1 DEF NoneIsNoValue
<1> HIDE DEF m
<1>9. LastReported'
  <2> SUFFICES ASSUME NEW j \in 1..Len(events'), LastOn(events', j)
               PROVE  events'[j].path \in DOMAIN reported' /\ reported'[events'[j].path] = events'[j].state
    BY DEF LastReported
  <2> DEFINE p == events'[j].path
  <2>1. IsVerdict(events'[j]) /\ \A k \in (j + 1)..Len(events') : IsVerdict(events'[k]) => events'[k].path # p
    BY DEF LastOn
  <2>2. CASE j > m /\ p \in DOMAIN now /\ Told(events'[j], p, now)
    <3>1. events'[j].state = now[p] BY <2>2, ToldIsVerdict
    <3> QED BY <1>6, <2>2, <3>1
  <2>3. CASE j \in 1..n /\ events'[j] = events[j]
    <3>1. \A k \in (j + 1)..n : k \in (j + 1)..Len(events') /\ events'[k] = events[k]
      BY <1>2, <1>4, <2>3 DEF Extends
    <3>2. LastOn(events, j) BY <2>1, <2>3, <3>1 DEF LastOn
    <3>3. p \in DOMAIN reported /\ reported[p] = events[j].state BY <2>3, <3>2 DEF LastReported
    <3>4. CASE p \notin DOMAIN now BY <1>7, <2>3, <3>3, <3>4
    <3>5. CASE p \in DOMAIN now /\ now[p] = reported[p] BY <1>6, <2>3, <3>3, <3>5
    <3>6. CASE p \in DOMAIN now /\ now[p] # reported[p]
      <4>1. Moved(p, now) BY <3>6 DEF Moved
      <4>2. events[j].type = "ValidationFailed"
        <5>1. ASSUME events[j].type = "ValidationCompleted" PROVE FALSE
          <6>1. events[j].state = "Valid" BY <2>3, <5>1 DEF VerdictShape
          <6>2. Validation(p) = "Valid" BY <1>1, <2>3, <5>1 DEF ValidStays, ValidAt
          <6> QED BY <1>4, <3>3, <3>6, <6>1, <6>2
        <5> QED BY <2>1, <2>3, <5>1 DEF IsVerdict
      <4>3. IsFailure(reported[p]) BY <2>3, <3>3, <4>2 DEF VerdictShape
      <4>4. IsFailure(now[p]) BY <1>6, <1>8, <3>3, <3>6, <4>3 DEF KeepsFailures
      <4>5. Told(Failed(p, now[p]), p, now) BY <4>1, <4>4 DEF Told
      <4>6. PICK k \in 1..Len(events') : k > m /\ events'[k] = Failed(p, now[p]) BY <1>5, <3>6, <4>5
      <4>7. IsVerdict(events'[k]) /\ events'[k].path = p BY <4>6 DEF IsVerdict, Failed
      <4>8. k \in (j + 1)..Len(events') BY <1>2, <1>5, <2>3, <4>6
      <4> QED BY <2>1, <4>7, <4>8
    <3> QED BY <3>4, <3>5, <3>6
  <2> QED BY <1>5, <2>1, <2>2, <2>3
<1>10. TransitionsApart'
  <2> SUFFICES ASSUME NEW j \in 1..Len(events'), NEW i \in 1..(j - 1),
                      IsVerdict(events'[i]), IsVerdict(events'[j]), events'[i].path = events'[j].path
               PROVE  /\ events'[i].state # "Valid"
                      /\ events'[i].state = events'[j].state =>
                           \E k \in (i + 1)..(j - 1) : IsVerdict(events'[k]) /\ events'[k].path = events'[i].path
    BY DEF TransitionsApart, OneTransition
  <2>1. i \in 1..Len(events') /\ i \in Nat /\ j \in Nat /\ i < j BY <1>2
  <2>2. ~(i > m) BY <1>5
  <2>3. i \in 1..n /\ events'[i] = events[i] BY <1>5, <2>1, <2>2
  <2>4. CASE j \in 1..n /\ events'[j] = events[j]
    <3>1. OneTransition(events, i, j) BY <2>4 DEF TransitionsApart
    <3>2. \A k \in (i + 1)..(j - 1) : events'[k] = events[k] BY <1>2, <1>4, <2>1, <2>4 DEF Extends
    <3> QED BY <2>3, <2>4, <3>1, <3>2 DEF OneTransition
  <2>5. CASE j > m /\ events'[j].path \in DOMAIN now /\ Told(events'[j], events'[j].path, now)
    <3> DEFINE p == events'[j].path
    <3>1. Moved(p, now) /\ events'[j].state = now[p] BY <2>5, ToldIsVerdict DEF Told
    <3>2. IsVerdict(events[i]) /\ events[i].path = p BY <2>3
    <3>3. PICK k \in i..n : LastOn(events, k) /\ events[k].path = p BY <1>1, <2>3, <3>2, LastExists
    <3>4. k \in 1..n /\ k \in Nat /\ (k # i => k \in (i + 1)..(j - 1) /\ i \in 1..(k - 1))
      BY <1>2, <1>5, <2>1, <2>3, <2>5
    <3>5. p \in DOMAIN reported /\ reported[p] = events[k].state BY <3>3, <3>4 DEF LastReported
    <3>6. events[k].state # now[p] BY <3>1, <3>5 DEF Moved
    <3>7. IsVerdict(events[k]) /\ events'[k] = events[k] BY <1>4, <3>3, <3>4 DEF LastOn, Extends
    <3>8. events[i].state # "Valid"
      <4> SUFFICES ASSUME events[i].state = "Valid" PROVE FALSE OBVIOUS
      <4>1. events[i].type = "ValidationCompleted" BY <2>3, <3>2 DEF VerdictShape, IsFailure, IsVerdict
      <4>2. Validation(p) = "Valid" BY <1>1, <2>3, <3>2, <4>1 DEF ValidStays, ValidAt
      <4>3. now[p] = "Valid" BY <1>4, <2>5, <4>2
      <4>4. k # i BY <3>6, <4>3
      <4>5. OneTransition(events, i, k) BY <3>4, <4>4 DEF TransitionsApart
      <4> QED BY <3>2, <3>3, <3>7, <4>5 DEF OneTransition
    <3>9. ASSUME events'[i].state = events'[j].state PROVE k # i BY <2>3, <3>1, <3>6, <3>9
    <3> QED BY <2>3, <3>2, <3>3, <3>4, <3>7, <3>8, <3>9
  <2> QED BY <1>5, <2>4, <2>5
<1> QED BY <1>9, <1>10

LEMMA ShapePush ==
  ASSUME VBase, VEndPush, VerdictShape
  PROVE  VerdictShape'
<1>1. Inv BY DEF VBase
<1>2. PICK now, more : Judging(now, more) /\ Thorough(now, more)
  BY <1>1, SlotSequence, PushJudges DEF VBase
<1>3. ASSUME NEW j \in 1..Len(events'), IsVerdict(events'[j])
      PROVE  \/ j \in 1..Len(events) /\ events'[j] = events[j]
             \/ Told(events'[j], events'[j].path, now)
  BY <1>2, <1>3, VerdictsAppended
<1> SUFFICES ASSUME NEW j \in 1..Len(events'), IsVerdict(events'[j])
             PROVE  /\ events'[j].type = "ValidationFailed" => IsFailure(events'[j].state)
                    /\ events'[j].type = "ValidationCompleted" => events'[j].state = "Valid"
  BY DEF VerdictShape, IsVerdict
<1>4. CASE j \in 1..Len(events) /\ events'[j] = events[j] BY <1>1, <1>4 DEF VerdictShape
<1>5. CASE Told(events'[j], events'[j].path, now) BY <1>5 DEF Told, Failed, Settled
<1> QED BY <1>3, <1>4, <1>5

LEMMA ReportedNext ==
  NoneIsNoValue /\ VBase /\ VBase' /\ Parsed!Inv /\ Parsed!Inv' /\ Parsed!LogInv'
  /\ ValidStays /\ ReportedInv /\ [VNext]_all_vars /\ [Parsed!Next]_Parsed!vars /\ [KeepsFailures]_all_vars
    => ReportedInv'
<1> SUFFICES ASSUME NoneIsNoValue, VBase, VBase', Parsed!Inv, Parsed!Inv', Parsed!LogInv',
                    ValidStays, ReportedInv, [VNext]_all_vars, [Parsed!Next]_Parsed!vars, [KeepsFailures]_all_vars
             PROVE  ReportedInv'
  OBVIOUS
<1>1. VerdictShape BY DEF ReportedInv
<1>2. ASSUME ~Parsed!Dup', ~FrameLost' PROVE ~Parsed!Dup /\ LastReported /\ TransitionsApart
  BY <1>2, DupStays DEF ReportedInv
<1>3. Inv /\ IsSequence(events) /\ IsSequence(events') BY DEF VBase, Inv, LogOK
<1>4. CASE (\E b \in Alphabet : VStep(b)) \/ VFinish
  <2>1. Inv' /\ Effect /\ reported' = reported BY <1>3, <1>4, ParseStep DEF validation_vars
  <2>2. Extends(events, events') /\ NewEvents BY <1>3, <2>1, EffectExtends, EventsAppended
  <2>3. \A i \in (Len(events) + 1)..Len(events') : ~IsVerdict(events'[i]) BY <2>2 DEF NewEvents
  <2> QED BY <1>1, <1>2, <1>3, <2>1, <2>2, <2>3, ReportedQuiet DEF ReportedInv
<1>5. CASE VEndPush
  <2>1. VerdictShape' BY <1>1, <1>5, ShapePush
  <2>2. ASSUME UNCHANGED all_vars, VEndPush PROVE FALSE
    BY <2>2 DEF VEndPush, PushReturns, all_vars, vars
  <2>3. KeepsFailures BY <1>5, <2>2
  <2>4. ASSUME ~Parsed!Dup', ~FrameLost' PROVE LastReported' /\ TransitionsApart'
    BY <1>1, <1>2, <1>5, <2>3, <2>4, ReportedPush
  <2> QED BY <2>1, <2>4 DEF ReportedInv
<1>6. CASE UNCHANGED events /\ reported' = reported
  <2>1. Extends(events, events') /\ Len(events) \in Nat BY <1>3, <1>6 DEF Extends, IsSequence
  <2>2. \A i \in (Len(events) + 1)..Len(events') : ~IsVerdict(events'[i])
    <3>1. (Len(events) + 1)..Len(events') = {} BY <1>6, <2>1
    <3> QED BY <3>1
  <2> QED BY <1>1, <1>2, <1>3, <1>6, <2>1, <2>2, ReportedQuiet DEF ReportedInv
<1> QED BY <1>4, <1>5, <1>6 DEF VNext, Drain, vars, all_vars, validation_vars

LEMMA ReportedInit == VInit => ValidStays /\ ReportedInv
<1> SUFFICES ASSUME VInit PROVE ValidStays /\ ReportedInv OBVIOUS
<1>1. Len(events) = 0 BY EmptySequence DEF VInit, Init
<1> QED BY <1>1 DEF ValidStays, ReportedInv, VerdictShape, LastReported, TransitionsApart

LEMMA ReportedInductive ==
  ASSUME NoneIsNoValue PROVE VSpec /\ FailuresKept => [](ValidStays /\ ReportedInv)
<1>1. VSpec => [](VBase /\ Parsed!Inv /\ Parsed!LogInv) BY BaseInductive, ParsedInv, PTL
<1>2. VSpec => [](AllRooted(events) /\ SettledInv) BY SettledInductive
<1>3. NoneIsNoValue /\ VBase /\ VBase' /\ Parsed!Inv /\ Parsed!Inv' /\ Parsed!LogInv /\ Parsed!LogInv'
      /\ SettledInv /\ ValidStays /\ ReportedInv /\ [VNext]_all_vars /\ [KeepsFailures]_all_vars
        => ValidStays' /\ ReportedInv'
  BY ValidNext, ReportedNext, SameNext
<1>4. FailuresKept => [][KeepsFailures]_all_vars BY PTL DEF FailuresKept, KeepsFailures
<1> QED BY <1>1, <1>2, <1>3, <1>4, ReportedInit, PTL DEF VSpec

(* The validator's part and the stream's part of TransitionsReportedOnce:  *)
(* if no failure is taken back, judging again whatever the undrained       *)
(* events name reports each transition once (judge_touched_paths), however *)
(* the chunks fall, whenever the caller drains, and whatever the schema    *)
(* is.  Valid is for good by itself.                                       *)
THEOREM TransitionsReportedOnceCorrect ==
  ASSUME NoneIsNoValue PROVE VSpec /\ FailuresKept => []TransitionsReportedOnce
<1>1. VSpec => [](VBase /\ Parsed!Inv /\ Parsed!LogInv) BY BaseInductive, ParsedInv, PTL
<1>2. NoneIsNoValue /\ VBase /\ Parsed!Inv /\ Parsed!LogInv /\ ReportedInv => TransitionsReportedOnce
  <2> SUFFICES ASSUME NoneIsNoValue, VBase, Parsed!Inv, Parsed!LogInv, ReportedInv, ~RepeatsKey, ~FrameLost
               PROVE  TransitionsApart /\ DOMAIN events = 1..Len(events)
    BY DEF TransitionsReportedOnce, TransitionsApart, OneTransition
  <2>1. ~Parsed!RepeatsKey /\ ~Parsed!FrameLost BY SameRepeats
  <2>2. ~Parsed!Dup BY <2>1, ParsedAssumptions, Parsed!RepeatsIsDup
  <2> QED BY <2>2 DEF ReportedInv, VBase, Inv, LogOK, IsSequence
<1> QED BY <1>1, <1>2, ReportedInductive, PTL

-----------------------------------------------------------------------------
(* The log tells the verdicts. *)

LEMMA SameSilent == \A p : Parsed!Unsettled(p) <=> Unsettled(p)
BY Zenon DEF Unsettled, Silent, Growing, Stable, StablePrefix, Utf8Valid, AtOrBelow, SlotPath, Slot, Last, SlotToken, Decimal, HexDigit,
  Parsed!Unsettled, Parsed!Silent, Parsed!Growing, Parsed!Stable, Parsed!StablePrefix, Parsed!Utf8Valid,
  Parsed!AtOrBelow, Parsed!SlotPath, Parsed!Slot, Parsed!Last, Parsed!SlotToken, Parsed!Decimal, Parsed!HexDigit

LEMMA SameNodes == Parsed!Nodes = Nodes
BY Zenon DEF Nodes, Once, Snapshot, TokenValue, Scalar, Stable, StablePrefix, Utf8Valid, Filled, Container, Filed, SlotToken, Decimal, HexDigit, NodesOf, Below, Child, ChildIndex, ChildrenOf, SelectInSeq, Min, IndexOf, HexValue, DigitByte, NonZero,
    Parsed!Nodes, Parsed!Once, Parsed!Snapshot, Parsed!TokenValue, Parsed!Scalar, Parsed!Stable, Parsed!StablePrefix, Parsed!Utf8Valid, Parsed!Filled, Parsed!Container, Parsed!Filed, Parsed!SlotToken, Parsed!Decimal, Parsed!HexDigit, Parsed!NodesOf, Parsed!Below, Parsed!Child, Parsed!ChildIndex, Parsed!ChildrenOf, Parsed!SelectInSeq, Parsed!Min, Parsed!IndexOf, Parsed!HexValue, Parsed!DigitByte, Parsed!NonZero

(* An event the parser adds to its log is one added to the whole log.      *)
LEMMA NewKept ==
  ASSUME Inv, Inv', Effect, NEW p, Parsed!Mentioned(p)
  PROVE  Mentioned(p)
<1> DEFINE n == Len(events)
           k == Len(ParseEvents)
           New(e) == e.type # "DocumentCompleted" /\ AtOrBelow(e.path, p)
<1>0. \A path, base : Parsed!AtOrBelow(path, base) <=> AtOrBelow(path, base)
  BY DEF Parsed!AtOrBelow, AtOrBelow
<1>1. LogOK /\ IsSequence(events) /\ IsSequence(events') /\ n \in Nat BY DEF Inv, LogOK, IsSequence
<1>2. IsSequence(ParseEvents) /\ k \in Nat BY <1>1, KeptSequence DEF ParseEvents, IsSequence
<1>3. PICK i \in (k + 1)..Len(ParseEvents') : New(ParseEvents'[i])
  BY <1>0 DEF Parsed!Mentioned
<1> SUFFICES \E j \in (n + 1)..Len(events') : New(events'[j]) BY DEF Mentioned
<1> HIDE DEF New
<1>4. CASE UNCHANGED events
  <2>1. ParseEvents' = ParseEvents BY <1>4 DEF ParseEvents
  <2> QED BY <1>2, <1>3, <2>1
<1>5. ASSUME NEW e, ~IsVerdict(e), events' = Append(events, e) PROVE \E j \in (n + 1)..Len(events') : New(events'[j])
  <2>1. ParseEvents' = Append(ParseEvents, e) BY <1>1, <1>5, KeptAppend DEF ParseEvents
  <2>2. Len(ParseEvents') = k + 1 /\ ParseEvents'[k + 1] = e BY <1>2, <2>1, AppendSequence
  <2>3. Len(events') = n + 1 /\ events'[n + 1] = e BY <1>1, <1>5, AppendSequence
  <2>4. i = k + 1 /\ n + 1 \in (n + 1)..Len(events') BY <1>1, <1>2, <2>2, <2>3
  <2> QED BY <1>3, <2>2, <2>3, <2>4
<1>6. ASSUME NEW a, ~IsVerdict(a), NEW b, ~IsVerdict(b), events' = events \o <<a, b>>
      PROVE  \E j \in (n + 1)..Len(events') : New(events'[j])
  <2>1. ParseEvents' = ParseEvents \o <<a, b>> BY <1>1, <1>6, KeptPair DEF ParseEvents
  <2> DEFINE two == <<a, b>>
  <2>2. IsSequence(two) /\ Len(two) = 2 /\ two[1] = a /\ two[2] = b BY PairSequence
  <2> HIDE DEF two
  <2>3. Len(ParseEvents') = k + 2 /\ ParseEvents'[k + 1] = a /\ ParseEvents'[k + 2] = b
    BY <1>2, <2>1, <2>2, PairAppended DEF two
  <2>4. Len(events') = n + 2 /\ events'[n + 1] = a /\ events'[n + 2] = b
    BY <1>1, <1>6, <2>2, PairAppended DEF two
  <2>5. (i = k + 1 \/ i = k + 2) /\ n + 1 \in (n + 1)..Len(events') /\ n + 2 \in (n + 1)..Len(events')
    BY <1>1, <1>2, <2>3, <2>4
  <2> QED BY <1>3, <2>3, <2>4, <2>5
<1>7. ASSUME NEW st, NEW prefix, NEW v, Attach(st, prefix, v)
      PROVE  \E j \in (n + 1)..Len(events') : New(events'[j])
  <2> DEFINE e == Completed(Slot(st, prefix), v)
  <2>1. ~IsVerdict(e) /\ ~IsVerdict(DocumentCompleted) BY DEF Completed, DocumentCompleted, IsVerdict
  <2>2. events' = events \o <<e, DocumentCompleted>> \/ events' = Append(events, e)
    BY <1>7 DEF Attach
  <2> HIDE DEF e
  <2> QED BY <1>5, <1>6, <2>1, <2>2
<1>8. CASE ScalarBegun \/ ContainerBegun \/ ContainerRefused
  <2>1. PICK kind : events' = Append(events, Started(SlotPath, kind))
    BY <1>8 DEF ScalarBegun, ContainerBegun, ContainerRefused, Begun
  <2> QED BY <1>5, <2>1 DEF Started, IsVerdict
<1>9. CASE ScalarEnded \/ ContainerEnded BY <1>7, <1>9 DEF ScalarEnded, ContainerEnded
<1>10. CASE ProgressTold BY <1>5, <1>10 DEF ProgressTold, Progressed, IsVerdict
<1> QED BY <1>4, <1>8, <1>9, <1>10 DEF Effect, Quiet, KeyRead, FrameDropped

(* A path at or above that of an event is named by it.                     *)
LEMMA NamedAbove ==
  ASSUME NEW path, IsSequence(path), NEW p, IsSequence(p), AtOrBelow(path, p)
  PROVE  \E k \in 0..Len(path) : p = SubSeq(path, 1, k)
<1>1. Len(p) \in 0..Len(path) BY DEF AtOrBelow, IsSequence
<1>2. /\ IsSequence(SubSeq(path, 1, Len(p))) /\ Len(SubSeq(path, 1, Len(p))) = Len(p)
      /\ \A i \in 1..Len(p) : SubSeq(path, 1, Len(p))[i] = path[i]
  BY <1>1, SubSeqSequence
<1>3. \A i \in 1..Len(p) : SubSeq(path, 1, Len(p))[i] = p[i] BY <1>2 DEF AtOrBelow
<1>4. SubSeq(path, 1, Len(p)) = p BY <1>2, <1>3, SameSequence
<1> QED BY <1>1, <1>4

(* What the validator reported last on a path is what it says now, or the  *)
(* path will be judged at the end of this push, or a token is growing that *)
(* no event has told of.                                                   *)
Fresh(p) == p \in DOMAIN reported /\ reported[p] = Validation(p)

NamedNow(p) == \E i \in (drained + 1)..Len(events) :
  events[i].type # "DocumentCompleted" /\ AtOrBelow(events[i].path, p)

Current(p) == Fresh(p) \/ (NamedNow(p) /\ ~Idle) \/ Parsed!Unsettled(p)

FreshInv == failed = None /\ ~ended /\ ~Parsed!Dup => \A n \in Parsed!Nodes : Current(n.path)

(* A node that keeps its value and its status keeps its verdict.           *)
Sight(n) == ValueIn(Snapshot, n.path) = n.value

AllSeen == \A n \in Parsed!Nodes : Sight(n)

LEMMA NodesSeen == AllSeen
<1> SUFFICES ASSUME NEW n \in Parsed!Nodes PROVE Sight(n) BY DEF AllSeen
<1>1. Parsed!ParserAssumption BY ParsedAssumptions
<1>2. Parsed!ValueIn(Parsed!Snapshot, n.path) = n.value BY <1>1, Parsed!NodeValue
<1> QED BY <1>2, SameValueIn, SameSnapshot DEF Sight

FinalsAgree == \A n : Parsed!IsFinal(n) <=> StatusOf(n.path, n.value) = "Complete"

LEMMA SameFinal == FinalsAgree
BY SameStatus DEF Parsed!IsFinal, FinalsAgree

LEMMA VerdictKept ==
  ASSUME NEW n, Sight(n), Sight(n)', Parsed!IsFinal(n)' <=> Parsed!IsFinal(n), schema' = schema
  PROVE  Validation(n.path)' = Validation(n.path)
<1> DEFINE p == n.path
           v == n.value
           Whole == StatusOf(p, v) = "Complete"
<1>1. Whole <=> Parsed!IsFinal(n) BY SameFinal DEF FinalsAgree
<1>2. Whole' <=> Parsed!IsFinal(n)'
  <2>1. FinalsAgree' BY SameFinal, PTL
  <2> QED BY <2>1 DEF FinalsAgree
<1>3. {Whole'} = {Whole}
  <2>1. Whole \in BOOLEAN /\ Whole' \in BOOLEAN OBVIOUS
  <2> HIDE DEF Whole
  <2> QED BY <1>1, <1>2, <2>1
<1>4. ValidationOf(p, v)' = ValidationOf(p, v) BY <1>3 DEF ValidationOf
<1>5. ValueIn(Snapshot, p)' = v /\ ValueIn(Snapshot, p) = v BY DEF Sight
<1>6. { ValidationOf(p, w) : w \in { ValueIn(Snapshot, p) } \ {None} }'
        = { ValidationOf(p, w) : w \in { ValueIn(Snapshot, p) } \ {None} }
  <2>1. CASE v = None BY <1>5, <2>1
  <2>2. CASE v # None
    <3> HIDE DEF p, v
    <3> QED BY <1>4, <1>5, <2>2
  <2> QED BY <2>1, <2>2
<1> QED BY <1>6 DEF Validation

LEMMA ParsedNeedsDup == NoneIsNoValue /\ Parsed!Inv /\ Parsed!LogInv /\ ~Parsed!Dup => ~Parsed!RepeatsKey
BY ParsedAssumptions, Parsed!RepeatsIsDup

LEMMA FreshByte ==
  ASSUME NoneIsNoValue, VBase, VBase', Parsed!Inv, Parsed!Inv', Parsed!LogInv, Parsed!LogInv',
         Parsed!TextInv, Parsed!TextInv', FreshInv, NEW b \in Alphabet, VStep(b), Parsed!Next,
         ~Parsed!Dup, ~Parsed!Dup', failed' = None, ~ended',
         NEW n \in Parsed!Nodes'
  PROVE  Current(n.path)'
<1> DEFINE p == n.path
<1>0. Parsed!ParserAssumption /\ Parsed!NoneIsNoValue BY ParsedAssumptions
<1>1. Inv /\ Inv' /\ failed = None /\ Effect /\ Step(b) /\ UNCHANGED <<schema, reported, drained>>
  BY ParseStep DEF VBase, VStep, validation_vars
<1>2. ~Idle' /\ ended' = ended BY <1>1, ByteKeepsFeeding
<1>3. ~ended BY <1>2
<1>4. IsSequence(events) /\ IsSequence(events') /\ Extends(events, events') /\ drained \in 0..Len(events)
      /\ Len(events) \in Nat /\ Len(events') \in Nat
  BY <1>1, EffectExtends DEF VBase, DrainedOK, IsSequence
<1>5. CASE Parsed!Mentioned(p)
  <2>1. Mentioned(p) BY <1>1, <1>5, NewKept
  <2>2. PICK i \in (Len(events) + 1)..Len(events') :
          events'[i].type # "DocumentCompleted" /\ AtOrBelow(events'[i].path, p)
    BY <2>1 DEF Mentioned
  <2>3. i \in (drained' + 1)..Len(events') BY <1>1, <1>4, <2>2
  <2>4. NamedNow(p)' BY <2>2, <2>3 DEF NamedNow
  <2> QED BY <1>2, <2>4 DEF Current
<1>6. CASE Parsed!Unsettled(p)' BY <1>6 DEF Current
<1>7. CASE ~Parsed!Mentioned(p) /\ ~Parsed!Unsettled(p)'
  <2>1. Parsed!Effect BY <1>0, Parsed!NextEffect
  <2>2. ~Parsed!RepeatsKey BY <1>0, Parsed!RepeatsIsDup
  <2>3. ~Parsed!RepeatsKey'
    <3>1. (NoneIsNoValue /\ Parsed!Inv /\ Parsed!LogInv /\ ~Parsed!Dup => ~Parsed!RepeatsKey)'
      BY ParsedNeedsDup, PTL
    <3> QED BY <3>1 DEF NoneIsNoValue
  <2>4. n \in Parsed!Nodes /\ (Parsed!IsFinal(n)' <=> Parsed!IsFinal(n))
    BY <1>0, <1>1, <1>7, <2>1, <2>2, <2>3, Parsed!NodeKept
  <2>5. Sight(n) BY <2>4, NodesSeen DEF AllSeen
  <2>6. Sight(n)'
    <3>1. AllSeen' BY NodesSeen, PTL
    <3> QED BY <3>1 DEF AllSeen
  <2>7. Validation(p)' = Validation(p) BY <1>1, <2>4, <2>5, <2>6, VerdictKept
  <2>8. Current(p) BY <1>1, <1>3, <2>4 DEF FreshInv
  <2>9. CASE Fresh(p) BY <1>1, <2>7, <2>9 DEF Current, Fresh
  <2>10. CASE NamedNow(p)
    <3>1. PICK i \in (drained + 1)..Len(events) :
            events[i].type # "DocumentCompleted" /\ AtOrBelow(events[i].path, p)
      BY <2>10 DEF NamedNow
    <3>2. i \in (drained' + 1)..Len(events') /\ events'[i] = events[i] BY <1>1, <1>4, <3>1 DEF Extends
    <3>3. NamedNow(p)' BY <3>1, <3>2 DEF NamedNow
    <3> QED BY <1>2, <3>3 DEF Current
  <2>11. CASE Parsed!Unsettled(p)
    <3>1. Parsed!Mentioned(p) \/ Parsed!Unsettled(p)' BY <1>0, <1>1, <2>1, <2>11, Parsed!StillSilent
    <3> QED BY <1>7, <3>1
  <2> QED BY <2>8, <2>9, <2>10, <2>11 DEF Current
<1> QED BY <1>5, <1>6, <1>7

LEMMA UndrainedHas ==
  ASSUME VBase
  PROVE  /\ \A i \in (drained + 1)..Len(events) : Has(Undrained, events[i])
         /\ Grew => Has(Undrained, Progressed(SlotPath, Stable))
<1> DEFINE n == Len(events)
           d == drained
           fresh == SubSeq(events, d + 1, n)
           S == Elements(events)
<1>1. IsSequence(events) /\ n \in Nat /\ d \in 0..n BY DEF VBase, Inv, LogOK, DrainedOK, IsSequence
<1>2. /\ fresh \in Seq(S) /\ Len(fresh) = n - d
      /\ \A i \in 1..(n - d) : fresh[i] = events[d + i]
  <2>1. \A i \in (d + 1)..n : events[i] \in S BY <1>1 DEF Elements
  <2>2. d + 1 \in Int /\ n \in Int BY <1>1
  <2> HIDE DEF S
  <2>3. /\ SubSeq(events, d + 1, n) \in Seq(S)
        /\ Len(SubSeq(events, d + 1, n)) = IF d + 1 <= n THEN n - (d + 1) + 1 ELSE 0
        /\ \A i \in 1..(n - (d + 1) + 1) : SubSeq(events, d + 1, n)[i] = events[d + 1 + i - 1]
    BY <2>1, <2>2, SubSeqProperties
  <2> QED BY <1>1, <2>3
<1>3. IsSequence(fresh) BY <1>2, SeqIsSequence
<1>4. IsSequence(Progress) /\ Len(Progress) \in Nat /\ (Grew => Progress = <<Progressed(SlotPath, Stable)>>)
  BY ProgressShape DEF ProgressEvents
<1> HIDE DEF fresh
<1>5. /\ IsSequence(Undrained) /\ Len(Undrained) = Len(fresh) + Len(Progress)
      /\ \A i \in 1..Len(fresh) : Undrained[i] = fresh[i]
      /\ \A i \in (Len(fresh) + 1)..(Len(fresh) + Len(Progress)) : Undrained[i] = Progress[i - Len(fresh)]
  BY <1>3, <1>4, ConcatElements DEF Undrained, fresh
<1>6. ASSUME NEW i \in (d + 1)..n PROVE Has(Undrained, events[i])
  <2> DEFINE k == i - d
  <2>1. k \in 1..(n - d) /\ k \in 1..Len(fresh) /\ d + k = i /\ k \in 1..Len(Undrained)
    BY <1>1, <1>2, <1>4, <1>5
  <2> HIDE DEF k
  <2>2. Undrained[k] = events[i] BY <1>2, <1>5, <2>1
  <2> QED BY <2>1, <2>2 DEF Has
<1>7. ASSUME Grew PROVE Has(Undrained, Progressed(SlotPath, Stable))
  <2> DEFINE e == Progressed(SlotPath, Stable)
             k == Len(fresh) + 1
  <2>1. Progress = <<e>> BY <1>4, <1>7
  <2> HIDE DEF e
  <2>2. Len(Progress) = 1 /\ Progress[1] = e BY <2>1
  <2>3. /\ k \in (Len(fresh) + 1)..(Len(fresh) + Len(Progress)) /\ k - Len(fresh) = 1
        /\ k \in 1..Len(Undrained)
    BY <1>1, <1>2, <1>5, <2>2
  <2> HIDE DEF k
  <2>4. Undrained[k] = e BY <1>5, <2>2, <2>3
  <2> QED BY <2>3, <2>4 DEF Has, e
<1> QED BY <1>6, <1>7

LEMMA NamedHere ==
  ASSUME NEW evs, NEW e, Has(evs, e), e.type # "DocumentCompleted", IsSequence(e.path),
         NEW p, IsSequence(p), AtOrBelow(e.path, p)
  PROVE  Named(evs, p)
<1>1. PICK i \in 1..Len(evs) : evs[i] = e BY DEF Has
<1>2. \E k \in 0..Len(e.path) : p = SubSeq(e.path, 1, k) BY NamedAbove
<1> QED BY <1>1, <1>2 DEF Named

LEMMA FreshPush ==
  ASSUME VBase, FreshInv, VEndPush, ~Parsed!Dup, ~ended', NEW n \in Parsed!Nodes'
  PROVE  Current(n.path)'
<1> DEFINE p == n.path
<1>0. Parsed!ParserAssumption BY ParsedAssumptions
<1>1. /\ failed = None /\ ~ended /\ Inv /\ UNCHANGED <<tree, tok, schema, drained>>
      /\ stack' = stack /\ root' = root /\ path_prefix' = path_prefix
  BY DEF VEndPush, PushReturns, VBase, tree
<1>2. Parsed!Snapshot' = Parsed!Snapshot
  BY <1>1 DEF Parsed!Snapshot, Parsed!TokenValue, Parsed!Stable
<1>3. n \in Parsed!Nodes BY <1>2 DEF Parsed!Nodes
<1>4. Current(p) BY <1>1, <1>3 DEF FreshInv
<1>5. IsSequence(p) BY <1>0, <1>3, Parsed!NodeValue DEF Parsed!IsSequence, IsSequence
<1>6. IsSequence(SlotPath) BY <1>1, SlotSequence
<1>7. PICK now, more : Judging(now, more) /\ Thorough(now, more) BY <1>1, <1>6, PushJudges DEF VBase
<1>8. \A q : Validation(q)' = Validation(q) BY <1>1, VerdictsUnmoved
<1>9. reported' = Remember(now) /\ \A q \in DOMAIN now : now[q] = Validation(q) BY <1>7 DEF Judging
<1> HIDE DEF p
<1>10. ASSUME p \in DOMAIN now PROVE Fresh(p)' BY <1>8, <1>9, <1>10 DEF Fresh, Remember
<1>11. ASSUME Fresh(p) PROVE Fresh(p)' BY <1>8, <1>9, <1>10, <1>11 DEF Fresh, Remember
<1>12. ASSUME NamedNow(p) PROVE Fresh(p)'
  <2>1. PICK i \in (drained + 1)..Len(events) :
          events[i].type # "DocumentCompleted" /\ AtOrBelow(events[i].path, p)
    BY <1>12 DEF NamedNow
  <2>2. i \in 1..Len(events) BY DEF VBase, DrainedOK
  <2>3. IsSequence(events[i].path) BY <2>1, <2>2 DEF VBase, PathsShaped
  <2>4. Named(Undrained, p) BY <1>5, <2>1, <2>3, UndrainedHas, NamedHere
  <2> QED BY <1>7, <1>10, <2>4 DEF Thorough
<1>13. ASSUME Parsed!Unsettled(p) PROVE Fresh(p)' \/ Parsed!Unsettled(p)'
  <2>1. Silent /\ AtOrBelow(SlotPath, p) BY <1>13, SameSilent DEF Unsettled
  <2>2. CASE Growing /\ Len(Stable) > reported_prefix
    <3> DEFINE e == Progressed(SlotPath, Stable)
    <3>1. Has(Undrained, e) BY <2>2, UndrainedHas DEF Grew
    <3>2. e.type # "DocumentCompleted" /\ e.path = SlotPath BY DEF Progressed
    <3> HIDE DEF e
    <3>3. Named(Undrained, p) BY <1>5, <1>6, <2>1, <3>1, <3>2, NamedHere
    <3> QED BY <1>7, <1>10, <3>3 DEF Thorough
  <2>3. CASE tok.type \in {"Num", "Lit"}
    <3>1. Parsed!AtOrBelow(Parsed!SlotPath, p) BY <1>13 DEF Parsed!Unsettled
    <3>2. Parsed!SlotPath' = Parsed!SlotPath BY <1>1 DEF Parsed!SlotPath, Parsed!Slot
    <3> QED BY <1>1, <2>3, <3>1, <3>2 DEF Parsed!Unsettled, Parsed!Silent
  <2> QED BY <2>1, <2>2, <2>3 DEF Silent
<1>14. Fresh(p)' \/ Parsed!Unsettled(p)' BY <1>4, <1>11, <1>12, <1>13 DEF Current
<1> QED BY <1>14 DEF Current, p

LEMMA FreshNext ==
  NoneIsNoValue /\ VBase /\ VBase' /\ Parsed!Inv /\ Parsed!Inv' /\ Parsed!LogInv /\ Parsed!LogInv'
  /\ Parsed!TextInv /\ Parsed!TextInv' /\ FreshInv /\ [VNext]_all_vars /\ [Parsed!Next]_Parsed!vars => FreshInv'
<1> SUFFICES ASSUME NoneIsNoValue, VBase, VBase', Parsed!Inv, Parsed!Inv', Parsed!LogInv, Parsed!LogInv',
                    Parsed!TextInv, Parsed!TextInv', FreshInv, [VNext]_all_vars, [Parsed!Next]_Parsed!vars,
                    failed' = None, ~ended', ~Parsed!Dup', NEW n \in Parsed!Nodes'
             PROVE  Current(n.path)'
  BY DEF FreshInv
<1>1. ~Parsed!Dup
  <2>1. ~FrameLost' BY DEF FrameLost
  <2> QED BY <2>1, DupStays
<1>2. CASE \E b \in Alphabet : VStep(b)
  <2>1. PICK b \in Alphabet : VStep(b) BY <1>2
  <2>2. Parsed!Next
    <3>1. LogFollows BY LogDoesFollow DEF VBase, Inv, LogOK
    <3> QED BY <2>1, <3>1, SameCall DEF VStep
  <2> QED BY <1>1, <2>1, <2>2, FreshByte
<1>3. CASE VEndPush BY <1>1, <1>3, FreshPush
<1>4. CASE VFinish BY <1>4 DEF VFinish, Finish, FinishNumber, FinishPartial, FinishOther, Finishing
<1>5. CASE Drain \/ UNCHANGED all_vars
  <2> DEFINE p == n.path
  <2>1. UNCHANGED <<vars, schema, reported>> /\ (Idle \/ drained' = drained)
    BY <1>5 DEF Drain, all_vars, validation_vars
  <2>2. /\ UNCHANGED <<tree, tok, schema, reported, events, feeding, failed, ended, reported_prefix>>
        /\ stack' = stack /\ root' = root /\ path_prefix' = path_prefix
    BY <2>1 DEF vars, tree
  <2>3. Parsed!Snapshot' = Parsed!Snapshot
    BY <2>2 DEF Parsed!Snapshot, Parsed!TokenValue, Parsed!Stable
  <2>4. n \in Parsed!Nodes BY <2>3 DEF Parsed!Nodes
  <2>5. Current(p) BY <1>1, <2>2, <2>4 DEF FreshInv
  <2>6. \A q : Validation(q)' = Validation(q) BY <2>2, VerdictsUnmoved
  <2>7. CASE Fresh(p) BY <2>2, <2>6, <2>7 DEF Fresh, Current
  <2>8. CASE NamedNow(p) /\ ~Idle
    <3>1. drained' = drained /\ ~Idle' BY <2>1, <2>2, <2>8 DEF Idle
    <3>2. NamedNow(p)' BY <2>2, <2>8, <3>1 DEF NamedNow
    <3> QED BY <3>1, <3>2 DEF Current
  <2>9. CASE Parsed!Unsettled(p)
    BY <2>2, <2>9 DEF Parsed!Unsettled, Parsed!Silent, Parsed!Growing, Parsed!Stable, Parsed!SlotPath,
       Parsed!Slot, Current
  <2> QED BY <2>5, <2>7, <2>8, <2>9 DEF Current
<1> QED BY <1>2, <1>3, <1>4, <1>5 DEF VNext

LEMMA FreshInit == ASSUME NoneIsNoValue PROVE VInit => FreshInv
<1> SUFFICES ASSUME VInit, NEW n \in Parsed!Nodes PROVE FALSE BY DEF FreshInv
<1>1. Parsed!Init /\ Parsed!ParserAssumption /\ Parsed!NoneIsNoValue BY SameInit, ParsedAssumptions
<1>2. stack = <<>> /\ tok = Parsed!NoTok /\ ParseEvents = <<>> BY <1>1 DEF Parsed!Init
<1>3. Len(stack) = 0 /\ Len(ParseEvents) = 0 /\ tok.type = "None" BY <1>2 DEF Parsed!NoTok
<1>4. Parsed!Inv /\ Parsed!LogInv BY <1>1, Parsed!InitInv, Parsed!InitLog
<1>5. Parsed!KnownNode(n) BY <1>1, <1>4, Parsed!NodesKnown
<1>6. ~Parsed!LoggedNode(n)
  <2>1. 1..Len(ParseEvents) = {} BY <1>3
  <2> QED BY <2>1 DEF Parsed!LoggedNode, Parsed!Has
<1>7. ~Parsed!FrameNode(n)
  <2>1. 1..Len(stack) = {} BY <1>3
  <2> QED BY <2>1 DEF Parsed!FrameNode
<1>8. ~Parsed!TokenNode(n) BY <1>3 DEF Parsed!TokenNode, Parsed!InFlight, Parsed!Growing
<1> QED BY <1>5, <1>6, <1>7, <1>8 DEF Parsed!KnownNode

(* Valid is only reachable once the value is whole (Settle). *)
ValidIsWhole == \A s \in Schemas : \A path, v : \A id \in NodeAt(s, path) :
  Judged(s, id, v, FALSE) # "Valid"

LEMMA ValidIsComplete ==
  ASSUME ValidIsWhole, schema \in Schemas, NEW p, Validation(p) = "Valid"
  PROVE  Status(p) = "Complete"
<1>1. ASSUME NEW S, VerdictIn(S) = "Valid" PROVE "Valid" \in S BY <1>1 DEF VerdictIn
<1> DEFINE v == ValueIn(Snapshot, p)
           whole == StatusOf(p, v) = "Complete"
           Now == { ValidationOf(p, w) : w \in { v } \ {None} }
           Outcomes == { Judged(schema, n.id, v, n.complete) : n \in [id : NodeAt(schema, p), complete : { whole }] }
<1>2. "Valid" \in Now BY <1>1 DEF Validation
<1>3. ValidationOf(p, v) = "Valid"
  <2> HIDE DEF v
  <2> QED BY <1>2
<1>4. "Valid" \in Outcomes BY <1>1, <1>3 DEF ValidationOf
<1> HIDE DEF v, whole
<1>5. PICK n \in [id : NodeAt(schema, p), complete : { whole }] : Judged(schema, n.id, v, n.complete) = "Valid"
  BY <1>4
<1>6. n.id \in NodeAt(schema, p) /\ n.complete = whole OBVIOUS
<1>7. n.complete # FALSE BY <1>5, <1>6 DEF ValidIsWhole
<1>8. whole BY <1>6, <1>7 DEF whole
<1> QED BY <1>8 DEF whole, v, Status

SchemaKnown == schema \in Schemas

LEMMA SchemaKept == VSpec => []SchemaKnown
<1>1. VInit => SchemaKnown BY DEF VInit, SchemaKnown
<1>2. SchemaKnown /\ [VNext]_all_vars => SchemaKnown'
  BY DEF VNext, VStep, VEndPush, VFinish, Drain, all_vars, validation_vars, SchemaKnown
<1> QED BY <1>1, <1>2, PTL DEF VSpec

(* Whatever was reported failed or valid is in the log. *)
ReportedTold == \A p \in DOMAIN reported : IsFailure(reported[p]) \/ reported[p] = "Valid" =>
  \E j \in 1..Len(events) : IsVerdict(events[j]) /\ events[j].path = p

LEMMA ToldNext ==
  ValidIsWhole /\ VBase /\ VBase' /\ schema \in Schemas /\ ReportedTold /\ [VNext]_all_vars => ReportedTold'
<1> SUFFICES ASSUME ValidIsWhole, VBase, VBase', schema \in Schemas, ReportedTold, [VNext]_all_vars
             PROVE  ReportedTold'
  OBVIOUS
<1>1. Inv /\ IsSequence(events) /\ IsSequence(events') BY DEF VBase, Inv, LogOK
<1>2. Len(events) \in Nat /\ Len(events') \in Nat BY <1>1 DEF IsSequence
<1>3. ASSUME Extends(events, events'), NEW p \in DOMAIN reported, IsFailure(reported[p]) \/ reported[p] = "Valid"
      PROVE  \E j \in 1..Len(events') : IsVerdict(events'[j]) /\ events'[j].path = p
  <2>1. PICK j \in 1..Len(events) : IsVerdict(events[j]) /\ events[j].path = p BY <1>3 DEF ReportedTold
  <2>2. j \in 1..Len(events') /\ events'[j] = events[j] BY <1>2, <1>3, <2>1 DEF Extends
  <2> QED BY <2>1, <2>2
<1>4. CASE reported' = reported /\ Extends(events, events') BY <1>3, <1>4 DEF ReportedTold
<1>5. CASE (\E b \in Alphabet : VStep(b)) \/ VFinish
  <2>1. Inv' /\ Effect /\ reported' = reported BY <1>1, <1>5, ParseStep DEF validation_vars
  <2> QED BY <1>1, <1>4, <2>1, EffectExtends
<1>6. CASE VEndPush
  <2>1. PICK now, more : Judging(now, more) /\ Thorough(now, more)
    BY <1>1, <1>6, SlotSequence, PushJudges DEF VBase
  <2>2. /\ reported' = Remember(now) /\ Extends(events, events')
        /\ \A q \in DOMAIN now : now[q] = Validation(q)
    BY <2>1, PushExtends DEF Judging
  <2> SUFFICES ASSUME NEW p \in DOMAIN reported', IsFailure(reported'[p]) \/ reported'[p] = "Valid"
               PROVE  \E j \in 1..Len(events') : IsVerdict(events'[j]) /\ events'[j].path = p
    BY DEF ReportedTold
  <2>3. CASE p \in DOMAIN reported /\ reported'[p] = reported[p] BY <1>3, <2>2, <2>3
  <2>4. CASE p \in DOMAIN now /\ Moved(p, now)
    <3>1. reported'[p] = now[p] BY <2>2, <2>4 DEF Remember
    <3>2. now[p] = "Valid" => Status(p) = "Complete" BY <2>2, <2>4, ValidIsComplete
    <3>3. \E e : Told(e, p, now) BY <2>4, <3>1, <3>2 DEF Told
    <3>4. PICK e : Told(e, p, now) BY <3>3
    <3>5. PICK j \in 1..Len(events') : events'[j] = e BY <2>1, <2>4, <3>4, VerdictsAppended
    <3> QED BY <3>4, <3>5, ToldIsVerdict
  <2>5. p \in DOMAIN now \/ (p \in DOMAIN reported /\ reported'[p] = reported[p]) BY <2>2 DEF Remember
  <2>6. p \in DOMAIN now => reported'[p] = now[p] BY <2>2 DEF Remember
  <2> QED BY <2>3, <2>4, <2>5, <2>6 DEF Moved
<1>7. CASE UNCHANGED events /\ reported' = reported
  <2>1. Extends(events, events') BY <1>2, <1>7 DEF Extends
  <2> QED BY <1>4, <1>7, <2>1
<1> QED BY <1>5, <1>6, <1>7 DEF VNext, Drain, vars, all_vars, validation_vars

LEMMA LastVerdictIs ==
  ASSUME IsSequence(events), NEW p
  PROVE  LET i == LastVerdict(p)
         IN  \/ LastOn(events, i) /\ events[i].path = p /\ i # 0
             \/ i = 0 /\ \A j \in 1..Len(events) : IsVerdict(events[j]) => events[j].path # p
<1> DEFINE On(e) == IsVerdict(e) /\ e.path = p
           n == Len(events)
           I == { j \in 1..n : On(events[j]) }
           i == LastVerdict(p)
<1>0. n \in Nat BY DEF IsSequence
<1>1. i = IF I # {} THEN Max(I) ELSE 0 BY Zenon DEF LastVerdict, SelectLastInSeq
<1>2. CASE I = {} BY <1>1, <1>2
<1>3. CASE I # {}
  <2>1. PICK j \in I : TRUE BY <1>3
  <2>2. IsVerdict(events[j]) /\ events[j].path = p /\ j \in 1..n BY <2>1
  <2>3. PICK k \in j..n : LastOn(events, k) /\ events[k].path = p BY <2>2, LastExists
  <2>4. k \in 1..n BY <1>0, <2>2, <2>3
  <2>5. k \in I BY <2>3, <2>4 DEF LastOn
  <2>6. \A l \in I : k >= l
    <3> SUFFICES ASSUME NEW l \in I, ~(k >= l) PROVE FALSE OBVIOUS
    <3>1. l \in (k + 1)..n /\ On(events[l]) BY <1>0, <2>4
    <3> QED BY <2>3, <3>1 DEF LastOn
  <2> DEFINE m == Max(I)
  <2>7. m \in I /\ \A l \in I : m >= l BY <2>5, <2>6 DEF Max
  <2> HIDE DEF m, I
  <2>8. m >= k /\ k >= m BY <2>5, <2>6, <2>7
  <2>9. m \in 1..n BY <2>7 DEF I
  <2>10. m = k BY <1>0, <2>4, <2>8, <2>9
  <2>11. i = k /\ k # 0 BY <1>0, <1>1, <1>3, <2>4, <2>10 DEF m
  <2> QED BY <2>3, <2>11
<1> QED BY <1>2, <1>3

(* The whole log is what the consumer of a schema reads.                   *)
ToldInv == FreshInv /\ ReportedTold

LEMMA ToldInductive ==
  ASSUME NoneIsNoValue, ValidIsWhole PROVE VSpec => [](ToldInv /\ Parsed!TextInv)
<1>1. VSpec => [](VBase /\ Parsed!Inv /\ Parsed!LogInv) BY BaseInductive, ParsedInv, PTL
<1>2. VSpec => []Parsed!TextInv
  <2>1. Parsed!ParserAssumption /\ Parsed!NoneIsNoValue BY ParsedAssumptions
  <2>2. Parsed!Spec => []Parsed!TextInv BY <2>1, Parsed!TextIsLogged
  <2> QED BY <2>2, ParsedSpec, PTL
<1>3. VInit => ToldInv
  <2>1. VInit => ReportedTold BY DEF VInit, ReportedTold
  <2> QED BY <2>1, FreshInit DEF ToldInv
<1>4. VBase /\ VBase' /\ Parsed!Inv /\ Parsed!Inv' /\ Parsed!LogInv /\ Parsed!LogInv'
      /\ Parsed!TextInv /\ Parsed!TextInv' /\ SchemaKnown /\ ToldInv /\ [VNext]_all_vars => ToldInv'
  BY FreshNext, ToldNext, SameNext DEF ToldInv, SchemaKnown
<1> QED BY <1>1, <1>2, <1>3, <1>4, SchemaKept, PTL DEF VSpec

-----------------------------------------------------------------------------
(* A literal grows in silence. *)

(* A byte after which a literal is growing began it, and announced it, or  *)
(* went into it and changed nothing else.                                  *)
LiteralBegun == \E kind : events' = Append(events, Started(SlotPath, kind))

LEMMA LiteralStep ==
  ASSUME NEW b, Step(b), tok'.type = "Lit"
  PROVE  UNCHANGED tree /\ (LiteralBegun \/ (tok.type = "Lit" /\ UNCHANGED log))
<1>1. CASE StringByte(b)
  <2>1. \A bytes : Decode(bytes) => tok'.type = "Str" BY DEF Decode, StrTok
  <2>2. \A state, hi, n, acc : Escape(state, hi, n, acc) => tok'.type = "Str" BY DEF Escape, StrTok
  <2>3. tok.type = "Str"
    BY <1>1 DEF StringByte, OrdinaryByte, ControlByte, BeginEscape, CloseKey, CloseString,
       CloseInvalid, ShortEscapeByte, BeginUnicode, BadEscape, HexByte, NotHex, CodePoint,
       HighSurrogate, LoneLowSurrogate, SurrogateBackslash, SurrogateU, LowSurrogate,
       MissingLowSurrogate, InString, InHex
  <2>4. CASE CloseKey(b) \/ CloseString(b) \/ CloseInvalid(b)
    BY <2>4 DEF CloseKey, CloseString, CloseInvalid, StrTok, NoTok
  <2>5. CASE (\E kind \in ErrorKind : Reject(kind)) \/ tok'.type = "Str" BY <2>3, <2>5 DEF Reject
  <2>6. \/ CloseKey(b) \/ CloseString(b) \/ CloseInvalid(b)
        \/ \E kind \in ErrorKind : Reject(kind)
        \/ tok'.type = "Str"
    BY <1>1, <2>1, <2>2 DEF StringByte, OrdinaryByte, ControlByte, BeginEscape, ShortEscapeByte, BeginUnicode,
       BadEscape, HexByte, NotHex, CodePoint, HighSurrogate, LoneLowSurrogate, SurrogateBackslash,
       SurrogateU, LowSurrogate, MissingLowSurrogate, ErrorKind
  <2> QED BY <2>4, <2>5, <2>6
<1>2. CASE NumberByte(b)
  <2>1. tok.type = "Num" /\ (tok'.type = "Num" \/ tok' = NoTok \/ tok' = tok)
    BY <1>2 DEF NumberByte, NumberGrows, ExponentRefused, NumberDelimited, NumberMalformed, Continues,
       Stops, CloseNumber, Reject, NumTok
  <2> QED BY <2>1 DEF NoTok
<1>3. CASE LiteralByte(b)
  BY <1>3 DEF LiteralByte, LiteralGrows, LiteralDone, LiteralMalformed, Reject, NoTok
<1>4. CASE StructuralByte(b)
  <2>1. tok.type = "None"
    BY <1>4 DEF StructuralByte, At, Closing, SkipSpace, BeginScalar, BeginContainer, TooDeep, BeginKey,
       Colon, Comma, CloseContainer, MismatchedClose, Unexpected, TrailingContent
  <2>2. CASE BeginScalar(b) BY <2>2 DEF BeginScalar, Announce, LiteralBegun, SlotPath
  <2>3. CASE BeginKey(b) BY <2>3 DEF BeginKey, NewStr, StrTok
  <2>4. CASE tok' = tok BY <2>1, <2>4
  <2>5. tok' = tok \/ BeginScalar(b) \/ BeginKey(b)
    BY <1>4 DEF StructuralByte, SkipSpace, BeginContainer, TooDeep, Colon, Comma, CloseContainer,
       MismatchedClose, Unexpected, TrailingContent, Fail, Reject
  <2> QED BY <2>2, <2>3, <2>4, <2>5
<1> QED BY <1>1, <1>2, <1>3, <1>4 DEF Step

(* While a literal grows, what was reported last on it, and on all that    *)
(* holds it, is what the validator says now, or it is about to be judged.  *)
ToldOrDue(p) == Fresh(p) \/ (NamedNow(p) /\ ~Idle)

LiteralTold == failed = None /\ ~ended /\ tok.type = "Lit" =>
  \A p : IsSequence(p) /\ AtOrBelow(SlotPath, p) => ToldOrDue(p)

KeepsLiterals ==
  tok.type = "Lit" /\ tok'.type = "Lit" =>
    \A p \in Range(ToRoot(Slot(stack, path_prefix))) : Validation(p)' = Validation(p)

LEMMA OnTheWay ==
  ASSUME IsSequence(SlotPath), NEW p, IsSequence(p), AtOrBelow(SlotPath, p)
  PROVE  p \in Range(ToRoot(Slot(stack, path_prefix)))
<1> DEFINE path == Slot(stack, path_prefix)
           n == Len(path)
<1>1. path = SlotPath BY DEF SlotPath
<1> HIDE DEF path
<1>2. n \in Nat BY <1>1 DEF IsSequence
<1>3. PICK k \in 0..n : p = SubSeq(path, 1, k) BY <1>1, NamedAbove
<1>4. n + 1 - k \in 1..(n + 1) /\ n + 1 - (n + 1 - k) = k BY <1>2
<1>5. ToRoot(path)[n + 1 - k] = p BY <1>3, <1>4 DEF ToRoot
<1>6. n + 1 - k \in DOMAIN ToRoot(path) BY <1>4 DEF ToRoot
<1> QED BY <1>5, <1>6 DEF Range, path

LEMMA LiteralByteTold ==
  ASSUME VBase, VBase', LiteralTold, KeepsLiterals, NEW b \in Alphabet, VStep(b), failed' = None, ~ended',
         tok'.type = "Lit", NEW p, IsSequence(p), AtOrBelow(SlotPath, p)'
  PROVE  ToldOrDue(p)'
<1>1. Inv /\ Inv' /\ failed = None /\ Effect /\ Step(b) /\ UNCHANGED <<schema, reported, drained>>
  BY ParseStep DEF VBase, VStep, validation_vars
<1>2. ~Idle' /\ ~ended BY <1>1, ByteKeepsFeeding
<1>3. /\ IsSequence(events) /\ drained \in 0..Len(events) /\ Len(events) \in Nat
      /\ IsSequence(SlotPath)
  BY <1>1, SlotSequence DEF VBase, DrainedOK, Inv, LogOK, IsSequence
<1>4. UNCHANGED tree /\ (LiteralBegun \/ (tok.type = "Lit" /\ UNCHANGED log)) BY <1>1, LiteralStep
<1>5. SlotPath' = SlotPath BY <1>4 DEF SlotPath, Slot, tree
<1>6. AtOrBelow(SlotPath, p) BY <1>5 DEF AtOrBelow
<1>7. CASE LiteralBegun
  <2>1. PICK kind : events' = Append(events, Started(SlotPath, kind)) BY <1>7 DEF LiteralBegun
  <2> DEFINE e == Started(SlotPath, kind)
  <2>2. e.type # "DocumentCompleted" /\ e.path = SlotPath BY DEF Started
  <2> HIDE DEF e
  <2>3. Len(events') = Len(events) + 1 /\ events'[Len(events) + 1] = e BY <1>3, <2>1, AppendSequence DEF e
  <2>4. Len(events) + 1 \in (drained' + 1)..Len(events') BY <1>1, <1>3, <2>3
  <2>5. NamedNow(p)' BY <1>6, <2>2, <2>3, <2>4 DEF NamedNow
  <2> QED BY <1>2, <2>5 DEF ToldOrDue
<1>8. CASE tok.type = "Lit" /\ UNCHANGED log
  <2>1. ToldOrDue(p) BY <1>1, <1>2, <1>6, <1>8 DEF LiteralTold
  <2>2. p \in Range(ToRoot(Slot(stack, path_prefix))) BY <1>3, <1>6, OnTheWay
  <2>3. Validation(p)' = Validation(p) BY <1>8, <2>2 DEF KeepsLiterals
  <2>4. CASE Fresh(p) BY <1>1, <2>3, <2>4 DEF Fresh, ToldOrDue
  <2>5. CASE NamedNow(p)
    <3>1. NamedNow(p)' BY <1>1, <1>8, <2>5 DEF NamedNow, log
    <3> QED BY <1>2, <3>1 DEF ToldOrDue
  <2> QED BY <2>1, <2>4, <2>5 DEF ToldOrDue
<1> QED BY <1>4, <1>7, <1>8

LEMMA LiteralPushTold ==
  ASSUME VBase, LiteralTold, VEndPush, ~ended', tok'.type = "Lit",
         NEW p, IsSequence(p), AtOrBelow(SlotPath, p)'
  PROVE  ToldOrDue(p)'
<1>1. /\ failed = None /\ ~ended /\ Inv /\ UNCHANGED <<tree, tok, schema, drained>>
      /\ stack' = stack /\ root' = root /\ path_prefix' = path_prefix
  BY DEF VEndPush, PushReturns, VBase, tree
<1>2. SlotPath' = SlotPath BY <1>1 DEF SlotPath, Slot
<1>3. AtOrBelow(SlotPath, p) BY <1>2 DEF AtOrBelow
<1>4. ToldOrDue(p) BY <1>1, <1>3 DEF LiteralTold
<1>5. PICK now, more : Judging(now, more) /\ Thorough(now, more) BY <1>1, SlotSequence, PushJudges DEF VBase
<1>6. \A q : Validation(q)' = Validation(q) BY <1>1, VerdictsUnmoved
<1>7. reported' = Remember(now) /\ \A q \in DOMAIN now : now[q] = Validation(q) BY <1>5 DEF Judging
<1>8. ASSUME p \in DOMAIN now PROVE Fresh(p)' BY <1>6, <1>7, <1>8 DEF Fresh, Remember
<1>9. ASSUME Fresh(p) PROVE Fresh(p)' BY <1>6, <1>7, <1>8, <1>9 DEF Fresh, Remember
<1>10. ASSUME NamedNow(p) PROVE Fresh(p)'
  <2>1. PICK i \in (drained + 1)..Len(events) :
          events[i].type # "DocumentCompleted" /\ AtOrBelow(events[i].path, p)
    BY <1>10 DEF NamedNow
  <2>2. i \in 1..Len(events) BY DEF VBase, DrainedOK
  <2>3. IsSequence(events[i].path) BY <2>1, <2>2 DEF VBase, PathsShaped
  <2>4. Named(Undrained, p) BY <2>1, <2>3, UndrainedHas, NamedHere
  <2> QED BY <1>5, <1>8, <2>4 DEF Thorough
<1> QED BY <1>4, <1>9, <1>10 DEF ToldOrDue

LEMMA LiteralNextTold ==
  VBase /\ VBase' /\ LiteralTold /\ [VNext]_all_vars /\ [KeepsLiterals]_all_vars => LiteralTold'
<1> SUFFICES ASSUME VBase, VBase', LiteralTold, [VNext]_all_vars, [KeepsLiterals]_all_vars,
                    failed' = None, ~ended', tok'.type = "Lit",
                    NEW p, IsSequence(p), AtOrBelow(SlotPath, p)'
             PROVE  ToldOrDue(p)'
  BY DEF LiteralTold
<1>1. CASE KeepsLiterals /\ \E b \in Alphabet : VStep(b)
  <2>1. PICK b \in Alphabet : VStep(b) BY <1>1
  <2> QED BY <1>1, <2>1, LiteralByteTold
<1>2. CASE VEndPush BY <1>2, LiteralPushTold
<1>3. CASE VFinish BY <1>3 DEF VFinish, Finish, FinishNumber, FinishPartial, FinishOther, Finishing
<1>4. CASE Drain \/ UNCHANGED all_vars
  <2>1. UNCHANGED <<vars, schema, reported>> /\ (Idle \/ drained' = drained)
    BY <1>4 DEF Drain, all_vars, validation_vars
  <2>2. /\ UNCHANGED <<tree, tok, schema, reported, events, feeding, failed, ended>>
        /\ stack' = stack /\ root' = root /\ path_prefix' = path_prefix
    BY <2>1 DEF vars, tree
  <2>3. SlotPath' = SlotPath BY <2>2 DEF SlotPath, Slot
  <2>4. AtOrBelow(SlotPath, p) BY <2>3 DEF AtOrBelow
  <2>5. ToldOrDue(p) BY <2>2, <2>4 DEF LiteralTold
  <2>6. \A q : Validation(q)' = Validation(q) BY <2>2, VerdictsUnmoved
  <2>7. CASE Fresh(p) BY <2>2, <2>6, <2>7 DEF Fresh, ToldOrDue
  <2>8. CASE NamedNow(p) /\ ~Idle
    <3>1. drained' = drained /\ ~Idle' BY <2>1, <2>2, <2>8 DEF Idle
    <3>2. NamedNow(p)' BY <2>2, <2>8, <3>1 DEF NamedNow
    <3> QED BY <3>1, <3>2 DEF ToldOrDue
  <2> QED BY <2>5, <2>7, <2>8 DEF ToldOrDue
<1> QED BY <1>1, <1>2, <1>3, <1>4 DEF VNext

LEMMA LiteralInductive == VSpec /\ LiteralsKept => []LiteralTold
<1>1. VSpec => []VBase BY BaseInductive, PTL
<1>2. VInit => LiteralTold BY DEF VInit, Init, NoTok, LiteralTold
<1>3. LiteralsKept => [][KeepsLiterals]_all_vars BY PTL DEF LiteralsKept, KeepsLiterals
<1> QED BY <1>1, <1>2, <1>3, LiteralNextTold, PTL DEF VSpec

(* Between pushes, with no number growing, nothing that is in the snapshot *)
(* is yet to be told.                                                      *)
LEMMA NothingUntold ==
  ASSUME Parsed!Inv, Parsed!TextInv, FreshInv, LiteralTold, Idle, failed = None, ~ended, tok.type # "Num",
         ~Parsed!Dup, NEW n \in Nodes
  PROVE  Fresh(n.path)
<1>0. n \in Parsed!Nodes BY SameNodes
<1>1. Current(n.path) BY <1>0 DEF FreshInv
<1>2. CASE tok.type = "Lit"
  <2>1. CASE Parsed!Unsettled(n.path)
    <3>1. AtOrBelow(SlotPath, n.path) BY <2>1, SameSilent DEF Unsettled
    <3>2. IsSequence(n.path)
      BY <1>0, ParsedAssumptions, Parsed!NodeValue DEF Parsed!IsSequence, IsSequence
    <3> QED BY <1>2, <3>1, <3>2 DEF LiteralTold, ToldOrDue
  <2> QED BY <1>1, <2>1 DEF Current
<1>3. CASE tok.type # "Lit" /\ ~Parsed!Unsettled(n.path) BY <1>1, <1>3 DEF Current
<1>4. ASSUME tok.type # "Lit" PROVE ~Parsed!Unsettled(n.path)
  <2>1. ASSUME Parsed!Growing PROVE ~(Len(Parsed!Stable) > reported_prefix)
    <3>1. Len(Parsed!Stable) <= reported_prefix BY <2>1 DEF Parsed!TextInv, Parsed!Idle, Idle
    <3>2. Parsed!ParserAssumption BY ParsedAssumptions
    <3>3. tok.decoded \in Seq(Parsed!Byte) BY <2>1, <3>2, Parsed!GrowingText
    <3>4. Len(Parsed!Stable) \in Nat BY <3>2, <3>3, Parsed!StableIsPrefix DEF Parsed!Stable
    <3>5. reported_prefix \in Nat BY DEF Parsed!Inv, Parsed!LogOK
    <3> QED BY <3>1, <3>4, <3>5
  <2> QED BY <1>4, <2>1 DEF Parsed!Unsettled, Parsed!Silent
<1> QED BY <1>2, <1>3, <1>4

LEMMA VerdictsTold ==
  ASSUME NoneIsNoValue, VBase, Parsed!Inv, Parsed!LogInv, Parsed!TextInv, ToldInv, ReportedInv, LiteralTold,
         Idle, failed = None, ~ended, tok.type # "Num", ~RepeatsKey
  PROVE  TellsVerdicts
<1> SUFFICES ASSUME NEW n \in Nodes
             PROVE  LET now == ValidationOf(n.path, n.value)
                        i   == LastVerdict(n.path)
                    IN  IF IsFailure(now) \/ now = "Valid"
                        THEN i # 0 /\ events[i].state = now
                        ELSE i = 0
  BY DEF TellsVerdicts
<1> DEFINE p == n.path
           now == ValidationOf(p, n.value)
           i == LastVerdict(p)
<1>1. ~Parsed!Dup /\ ~FrameLost
  <2>1. ~Parsed!RepeatsKey /\ ~Parsed!FrameLost BY SameRepeats DEF FrameLost
  <2>2. ~FrameLost BY DEF FrameLost
  <2> QED BY <2>1, <2>2, ParsedAssumptions, Parsed!RepeatsIsDup
<1>2. VerdictShape /\ LastReported BY <1>1 DEF ReportedInv
<1>3. Fresh(p) BY <1>1, NothingUntold DEF ToldInv
<1>4. n.value # None
  <2>1. n \in Parsed!Nodes BY SameNodes
  <2>2. Parsed!ParserAssumption /\ Parsed!NoneIsNoValue BY ParsedAssumptions
  <2> QED BY <2>1, <2>2, Parsed!NodeHasValue
<1>5. ValueIn(Snapshot, p) = n.value BY SameNodes, NodesSeen DEF AllSeen, Sight
<1>6. Validation(p) = now
  <2> HIDE DEF p
  <2>1. { ValidationOf(p, v) : v \in { n.value } \ {None} } = { now } BY <1>4
  <2> HIDE DEF now
  <2>2. VerdictIn({ now }) = now BY DEF VerdictIn
  <2> QED BY <1>5, <2>1, <2>2 DEF Validation
<1> HIDE DEF now
<1>7. reported[p] = now /\ p \in DOMAIN reported BY <1>3, <1>6 DEF Fresh
<1>8. IsSequence(events) BY DEF VBase, Inv, LogOK
<1> HIDE DEF p
<1>9. \/ LastOn(events, i) /\ events[i].path = p /\ i # 0
      \/ i = 0 /\ \A j \in 1..Len(events) : IsVerdict(events[j]) => events[j].path # p
  BY <1>8, LastVerdictIs
<1> HIDE DEF i
<1>10. ASSUME LastOn(events, i), events[i].path = p
       PROVE  events[i].state = now /\ (IsFailure(now) \/ now = "Valid")
  <2>1. i \in 1..Len(events) /\ IsVerdict(events[i]) BY <1>10 DEF LastOn
  <2>2. events[i].state = now BY <1>2, <1>7, <1>10, <2>1 DEF LastReported
  <2> QED BY <1>2, <2>1, <2>2 DEF VerdictShape, IsVerdict
<1>11. ASSUME IsFailure(now) \/ now = "Valid"
       PROVE  \E j \in 1..Len(events) : IsVerdict(events[j]) /\ events[j].path = p
  BY <1>7, <1>11 DEF ToldInv, ReportedTold
<1>12. IF IsFailure(now) \/ now = "Valid" THEN i # 0 /\ events[i].state = now ELSE i = 0
  BY <1>9, <1>10, <1>11
<1> QED BY <1>12 DEF p, now, i

(* Listening is as good as asking: between pushes, whatever the schema,    *)
(* the chunks and the drains, the last verdict in the log on a path is     *)
(* what validation() says of it now, and there is none while that is       *)
(* neither a failure nor Valid (judge_touched_paths).  A literal grows     *)
(* without an event, and the verdicts must not hang on how far it has come *)
(* (LiteralsKept).                                                         *)
THEOREM LogTellsVerdictsCorrect ==
  ASSUME NoneIsNoValue, ValidIsWhole
  PROVE  VSpec /\ FailuresKept /\ LiteralsKept => []LogTellsVerdicts
<1>1. VSpec => [](VBase /\ Parsed!Inv /\ Parsed!LogInv) BY BaseInductive, ParsedInv, PTL
<1>2. VBase /\ Parsed!Inv /\ Parsed!LogInv /\ Parsed!TextInv /\ ToldInv /\ ReportedInv /\ LiteralTold
        => LogTellsVerdicts
  BY VerdictsTold DEF LogTellsVerdicts
<1> QED BY <1>1, <1>2, ToldInductive, ReportedInductive, LiteralInductive, PTL

(* And it is, whatever the validator makes of an unfinished literal, as    *)
(* long as none is growing.                                                *)
THEOREM VerdictsAreTold ==
  ASSUME NoneIsNoValue, ValidIsWhole
  PROVE  VSpec /\ FailuresKept =>
           [](Idle /\ failed = None /\ ~ended /\ tok.type \notin {"Num", "Lit"} /\ ~RepeatsKey => TellsVerdicts)
<1>1. VSpec => [](VBase /\ Parsed!Inv /\ Parsed!LogInv) BY BaseInductive, ParsedInv, PTL
<1>2. tok.type # "Lit" => LiteralTold BY DEF LiteralTold
<1>3. VBase /\ Parsed!Inv /\ Parsed!LogInv /\ Parsed!TextInv /\ ToldInv /\ ReportedInv =>
        (Idle /\ failed = None /\ ~ended /\ tok.type \notin {"Num", "Lit"} /\ ~RepeatsKey => TellsVerdicts)
  BY <1>2, VerdictsTold
<1> QED BY <1>1, <1>3, ToldInductive, ReportedInductive, PTL
==============================================================================
