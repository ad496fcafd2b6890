----------------------------- MODULE LogProofs -----------------------------
(***************************************************************************)
(* Theorems about the event log, for every producer and depth limit.       *)
(*                                                                         *)
(* The log is related to the open frames only: a value that has been filed *)
(* in a frame is in the log, and so is everything inside it.  Which values *)
(* a snapshot holds is left to StreamProofs.                               *)
(***************************************************************************)
EXTENDS Stream, ParserProofs

(* A value is being built from bytes. *)
InFlight == tok.type \in {"Num", "Lit"} \/ Growing

SlotPath == Slot(stack, path_prefix)

OpenSlots == IF InFlight THEN {SlotPath} ELSE {}

(* The path of the k-th frame, from the cached path of the stack. *)
FramePath(prefix, k) == SubSeq(prefix, 1, k - 1)

-----------------------------------------------------------------------------
(* The log by itself: what the event at a place needs before it. *)

ScalarTypes    == {"String", "Number", "Bool", "Null"}
ContainerTypes == {"Object", "Array"}

IsChild(kind, j, c) ==
  c = [token |-> c.token, value |-> c.value] /\ (kind = "Array" => c.token = Decimal(j - 1))

IsFinalValue(v) ==
  /\ v = Scalar(v.type, v.data) /\ v.type \in ScalarTypes \cup ContainerTypes /\ v # None
  /\ v.type \in ContainerTypes =>
       IsSequence(v.data) /\ \A j \in 1..Len(v.data) : IsChild(v.type, j, v.data[j])

Has(evs, e) == \E i \in 1..Len(evs) : evs[i] = e

HasStarted(evs, path) == \E i \in 1..Len(evs) : evs[i].type = "ValueStarted" /\ evs[i].path = path

EventTypes == {"ValueStarted", "ValueProgressed", "ValueCompleted", "DocumentCompleted"}

ShapeAt(evs, i) ==
  /\ evs[i].type \in EventTypes
  /\ evs[i].type # "DocumentCompleted" => IsSequence(evs[i].path) /\ Len(evs[i].path) <= MaxDepth
  /\ evs[i].type = "ValueProgressed" => IsSequence(evs[i].stable_prefix)
  /\ evs[i].type = "ValueCompleted" =>
       evs[i] = Completed(evs[i].path, evs[i].value) /\ IsFinalValue(evs[i].value)

ChildrenAt(evs, i) ==
  evs[i].type = "ValueCompleted" /\ evs[i].value.type \in ContainerTypes =>
    \A j \in 1..Len(evs[i].value.data) : \E m \in 1..(i - 1) :
      evs[m] = Completed(Append(evs[i].path, evs[i].value.data[j].token), evs[i].value.data[j].value)

StartAt(evs, i) ==
  evs[i].type \in {"ValueProgressed", "ValueCompleted"} =>
    \E m \in 1..(i - 1) : evs[m].type = "ValueStarted" /\ evs[m].path = evs[i].path

LogShaped(evs) == \A i \in 1..Len(evs) : ShapeAt(evs, i) /\ ChildrenAt(evs, i) /\ StartAt(evs, i)

-----------------------------------------------------------------------------
(* The log and the frames: what is filed or open is in the log, and what   *)
(* is in the log is filed, or inside what is.                              *)

FramesShaped(st) == \A k \in 1..Len(st) : \A j \in 1..Len(st[k].children) :
  IsChild(st[k].kind, j, st[k].children[j])

FiledLogged(st, prefix, evs) == \A k \in 1..Len(st) : \A j \in 1..Len(st[k].children) :
  Has(evs, Completed(Append(FramePath(prefix, k), st[k].children[j].token), st[k].children[j].value))

FramesStarted(st, prefix, evs) == \A k \in 1..Len(st) : HasStarted(evs, FramePath(prefix, k))

(* The path leads through a frame to one of the values filed there. *)
Anchored(st, prefix, path) == \E k \in 1..Len(st) :
  /\ k <= Len(path) /\ \A i \in 1..(k - 1) : path[i] = prefix[i]
  /\ \E j \in 1..Len(st[k].children) : path[k] = st[k].children[j].token

DoneAnchored(st, prefix, evs) == st # <<>> => \A i \in 1..Len(evs) :
  evs[i].type = "ValueCompleted" => Anchored(st, prefix, evs[i].path)

ChildOfFrame(st, prefix, e) == \E k \in 1..Len(st) : \E j \in 1..Len(st[k].children) :
  /\ e.path = Append(FramePath(prefix, k), st[k].children[j].token)
  /\ e.value = st[k].children[j].value

ChildOf(path, v, e) == v.type \in ContainerTypes /\ \E j \in 1..Len(v.data) :
  e.path = Append(path, v.data[j].token) /\ e.value = v.data[j].value

ChildOfDone(evs, e) == \E m \in 1..Len(evs) :
  evs[m].type = "ValueCompleted" /\ ChildOf(evs[m].path, evs[m].value, e)

HasParent(st, prefix, evs, e) == ChildOfFrame(st, prefix, e) \/ ChildOfDone(evs, e)

DoneHasParent(st, prefix, rt, evs) == \A i \in 1..Len(evs) : evs[i].type = "ValueCompleted" =>
  (st = <<>> /\ evs[i].path = <<>> /\ evs[i].value = rt) \/ HasParent(st, prefix, evs, evs[i])

DoneAt(evs, path) == \E m \in 1..Len(evs) : evs[m].type = "ValueCompleted" /\ evs[m].path = path

StartedWhere(slots, st, prefix, evs) == \A i \in 1..Len(evs) : evs[i].type = "ValueStarted" =>
  \/ evs[i].path \in slots
  \/ \E k \in 1..Len(st) : evs[i].path = FramePath(prefix, k)
  \/ DoneAt(evs, evs[i].path)

ProgressEnded(evs, i) == \E m \in (i + 1)..Len(evs) :
  /\ evs[m].type = "ValueCompleted" /\ evs[m].path = evs[i].path
  /\ evs[m].value.type = "String" /\ IsPrefix(evs[i].stable_prefix, evs[m].value.data)

ProgressOpen(slot, text, e) == e.path = slot /\ IsPrefix(e.stable_prefix, text)

ProgressWhere == \A i \in 1..Len(events) : events[i].type = "ValueProgressed" =>
  \/ Growing /\ ProgressOpen(SlotPath, tok.decoded, events[i])
       /\ Len(events[i].stable_prefix) <= reported_prefix
  \/ ProgressEnded(events, i)

NothingDone == stack = <<>> /\ expect # "Done" => \A i \in 1..Len(events) : events[i].type # "ValueCompleted"

(* The document's own event is the last one, and comes with the root.      *)
DocumentLast(evs, ex) == \A i \in 1..Len(evs) :
  evs[i].type = "DocumentCompleted" <=> ex = "Done" /\ i = Len(evs)

RootOK == IF expect = "Done" THEN /\ stack = <<>> /\ root # None /\ Has(events, Completed(<<>>, root))
                                  /\ Len(events) > 0 /\ ~InFlight
          ELSE root = None

LogInv ==
  /\ Len(stack) <= MaxDepth /\ LogShaped(events)
  /\ FramesShaped(stack) /\ FiledLogged(stack, path_prefix, events)
  /\ RootOK /\ DocumentLast(events, expect)
  /\ ~FrameLost => /\ DoneAnchored(stack, path_prefix, events)
                   /\ DoneHasParent(stack, path_prefix, root, events)
                   /\ NothingDone
  /\ failed = None => /\ FramesStarted(stack, path_prefix, events)
                      /\ InFlight => HasStarted(events, SlotPath)
                      /\ StartedWhere(OpenSlots, stack, path_prefix, events)
                      /\ ProgressWhere

(* A key is repeated: in a complete object, or in an open one, where the   *)
(* member under construction counts.                                       *)
Doubled(cs) == \E i, j \in 1..Len(cs) : i # j /\ cs[i].token = cs[j].token

Recurs(f) == \E j \in 1..Len(f.children) : f.children[j].token = SlotToken(f)

SlotTaken(k) == k < Len(stack) \/ InFlight

DupFrame == \E k \in 1..Len(stack) :
  stack[k].kind = "Object" /\ (Doubled(stack[k].children) \/ (SlotTaken(k) /\ Recurs(stack[k])))

DupDone == \E i \in 1..Len(events) : events[i].type = "ValueCompleted"
  /\ events[i].value.type = "Object" /\ Doubled(events[i].value.data)

Dup == DupFrame \/ DupDone

-----------------------------------------------------------------------------
(* What a step can do to the document and its log. *)

(* The token, or nothing, has changed. *)
Quiet ==
  /\ UNCHANGED <<stack, root, path_prefix, events>>
  /\ (expect' = "Done") <=> (expect = "Done")
  /\ InFlight' <=> InFlight
  /\ ~FrameLost'
  /\ failed' = None => /\ Growing' <=> Growing
                       /\ Growing => /\ reported_prefix' = reported_prefix
                                     /\ IsPrefix(tok.decoded, tok'.decoded)

KeyRead ==
  /\ stack # <<>>
  /\ \E key \in Seq(Byte) : stack' = [stack EXCEPT ![Len(stack)] = [@ EXCEPT !.pending_key = key]]
  /\ UNCHANGED <<root, path_prefix, events>>
  /\ expect # "Done" /\ expect' # "Done" /\ ~InFlight /\ ~InFlight' /\ failed' = None

Begun ==
  /\ \E kind : events' = Append(events, Started(SlotPath, kind))
  /\ expect = "Value" /\ ~InFlight /\ UNCHANGED root /\ reported_prefix' = 0

ScalarBegun ==
  /\ Begun /\ UNCHANGED <<stack, path_prefix, expect>>
  /\ InFlight' /\ failed' = None /\ (Growing' => tok'.decoded = <<>>)

ContainerBegun ==
  /\ Begun /\ Len(stack) < MaxDepth
  /\ \E kind \in {"Object", "Array"} : stack' = Append(stack, Frame(kind))
  /\ path_prefix' = SlotPath
  /\ expect' # "Done" /\ ~InFlight' /\ failed' = None

ContainerRefused ==
  /\ Begun /\ UNCHANGED <<stack, path_prefix, expect>>
  /\ ~InFlight' /\ failed' # None /\ ~FrameLost'

ScalarEnded == \E type \in ScalarTypes : \E text :
  /\ InFlight /\ expect = "Value" /\ Attach(stack, path_prefix, Scalar(type, text))
  /\ Growing => type = "String" /\ text = tok.decoded
  /\ ~InFlight' /\ failed' = None

ContainerEnded ==
  /\ stack # <<>> /\ ~InFlight
  /\ Attach(Front(stack), Truncated, Container(Last(stack)))
  /\ ~InFlight' /\ failed' = None

FrameDropped ==
  /\ stack # <<>> /\ stack' = Front(stack) /\ path_prefix' = Truncated
  /\ UNCHANGED <<expect, root, events>>
  /\ FrameLost' /\ failed' # None

ProgressTold ==
  /\ Growing /\ events' = Append(events, Progressed(SlotPath, Stable))
  /\ Len(Stable) > reported_prefix /\ reported_prefix' = Len(Stable)
  /\ UNCHANGED <<stack, expect, root, path_prefix, tok, failed>>

Effect ==
  \/ Quiet \/ KeyRead \/ ScalarBegun \/ ContainerBegun \/ ContainerRefused
  \/ ScalarEnded \/ ContainerEnded \/ FrameDropped \/ ProgressTold

LEMMA NotLost ==
  ASSUME Inv, Inv', NEW kind \in ErrorKind, kind # "MismatchedClose", Fail(kind)
  PROVE  ~FrameLost' /\ failed' # None
<1>1. failed' = [offset |-> offset, kind |-> kind] BY DEF Fail
<1>2. offset \in Nat BY DEF Inv, ControlOK
<1>3. failed' \in Failure BY <1>1, <1>2 DEF Failure
<1>4. failed' # None BY <1>3, ParserAssumption
<1> QED BY <1>1, <1>4 DEF FrameLost

LEMMA RejectQuiet ==
  ASSUME Inv, Inv', NEW kind \in ErrorKind, kind # "MismatchedClose", Reject(kind)
  PROVE  Quiet
<1>1. Fail(kind) /\ UNCHANGED <<tree, log, tok>> BY DEF Reject
<1>2. ~FrameLost' /\ failed' # None BY <1>1, NotLost
<1> QED BY <1>1, <1>2 DEF Quiet, tree, log, InFlight, Growing

LEMMA Text ==
  ASSUME Inv, tok.type = "Str"
  PROVE  IsSequence(tok.decoded) /\ tok.decoded \in Seq(Byte)
BY StrFields, SeqIsSequence DEF Inv, TokenOK

(* A byte of a string that does not end it. *)
LEMMA StrQuiet ==
  ASSUME Inv, Inv', failed = None, tok.type = "Str", Consumed, UNCHANGED <<tree, log>>,
         tok'.type = "Str", tok'.is_key = tok.is_key, IsPrefix(tok.decoded, tok'.decoded)
  PROVE  Quiet
<1>1. failed' = None BY DEF Consumed
<1> QED BY <1>1 DEF Quiet, tree, log, InFlight, Growing, FrameLost

LEMMA EscapeQuiet ==
  ASSUME Inv, Inv', failed = None, tok.type = "Str",
         NEW state, NEW hi, NEW n, NEW acc, Escape(state, hi, n, acc)
  PROVE  Quiet
<1>1. /\ tok'.type = "Str" /\ tok'.is_key = tok.is_key /\ tok'.decoded = tok.decoded
      /\ Consumed /\ UNCHANGED <<tree, log>>
  BY DEF Escape, StrTok
<1>2. IsPrefix(tok.decoded, tok'.decoded) BY <1>1, Text, PrefixOfConcat, EmptySequence
<1> QED BY <1>1, <1>2, StrQuiet

LEMMA DecodeQuiet ==
  ASSUME Inv, Inv', failed = None, tok.type = "Str", NEW bytes \in Seq(Byte), Decode(bytes)
  PROVE  Quiet
<1>1. /\ tok'.type = "Str" /\ tok'.is_key = tok.is_key /\ tok'.decoded = tok.decoded \o bytes
      /\ Consumed /\ UNCHANGED <<tree, log>>
  BY DEF Decode, StrTok
<1>2. IsPrefix(tok.decoded, tok'.decoded)
  BY <1>1, Text, SeqIsSequence, PrefixOfConcat
<1> QED BY <1>1, <1>2, StrQuiet

LEMMA StringEffect ==
  ASSUME Inv, Inv', failed = None, NEW b \in Alphabet, StringByte(b)
  PROVE  Quiet \/ KeyRead \/ ScalarEnded
<1>1. tok.type = "Str"
  BY DEF StringByte, InString, InHex, OrdinaryByte, ControlByte, BeginEscape, CloseKey, CloseString,
     CloseInvalid, ShortEscapeByte, BeginUnicode, BadEscape, HexByte, NotHex, CodePoint,
     HighSurrogate, LoneLowSurrogate, SurrogateBackslash, SurrogateU, LowSurrogate,
     MissingLowSurrogate
<1>2. tok.decoded \in Seq(Byte) /\ b \in Byte BY <1>1, Text, Bytes
<1>3. TokenAgrees /\ ExpectAgrees(stack, expect) BY DEF Inv, TokenOK, TreeOK
<1>4. CASE OrdinaryByte(b) \/ ShortEscapeByte(b) \/ CodePoint(b) \/ LowSurrogate(b)
  <2>1. \E bytes \in Seq(Byte) : Decode(bytes)
    <3>1. CASE OrdinaryByte(b)
      <4>1. <<b>> \in Seq(Byte) BY <1>2
      <4> QED BY <3>1, <4>1 DEF OrdinaryByte
    <3>2. CASE ShortEscapeByte(b)
      <4>1. <<ShortEscape[b]>> \in Seq(Byte) BY <3>2, ShortEscapeType DEF ShortEscapeByte
      <4> QED BY <3>2, <4>1 DEF ShortEscapeByte
    <3>3. CASE CodePoint(b) \/ LowSurrogate(b)
      BY <3>3, Utf8Type DEF CodePoint, LowSurrogate
    <3> QED BY <1>4, <3>1, <3>2, <3>3
  <2> QED BY <1>1, <2>1, DecodeQuiet
<1>5. CASE \/ BeginEscape(b) \/ BeginUnicode(b) \/ HexByte(b) \/ HighSurrogate(b)
           \/ SurrogateBackslash(b) \/ SurrogateU(b)
  <2>1. \E state, hi, n, acc : Escape(state, hi, n, acc)
    BY <1>5, Zenon DEF BeginEscape, BeginUnicode, HexByte, HighSurrogate, SurrogateBackslash, SurrogateU
  <2> QED BY <1>1, <2>1, EscapeQuiet
<1>6. CASE \/ ControlByte(b) \/ BadEscape(b) \/ NotHex(b) \/ LoneLowSurrogate(b)
           \/ MissingLowSurrogate(b)
  <2>1. \E kind \in ErrorKind : kind # "MismatchedClose" /\ Reject(kind)
    BY <1>6 DEF ControlByte, BadEscape, NotHex, LoneLowSurrogate, MissingLowSurrogate, ErrorKind
  <2> QED BY <2>1, RejectQuiet
<1>7. CASE CloseInvalid(b)
  <2>1. /\ tok'.type = "Str" /\ tok'.is_key = tok.is_key /\ Fail("InvalidUtf8")
        /\ UNCHANGED <<tree, log>>
    BY <1>7 DEF CloseInvalid, StrTok
  <2>2. ~FrameLost' /\ failed' # None BY <2>1, NotLost DEF ErrorKind
  <2> QED BY <1>1, <2>1, <2>2 DEF Quiet, tree, log, InFlight, Growing
<1>8. CASE CloseKey(b)
  <2>1. /\ stack' = [stack EXCEPT ![Len(stack)] = [@ EXCEPT !.pending_key = tok.decoded]]
        /\ expect' = "Colon" /\ tok' = NoTok /\ tok.is_key
        /\ UNCHANGED <<root, path_prefix, log>> /\ Consumed
    BY <1>8 DEF CloseKey
  <2>2. expect \in {"KeyOrEnd", "Key"} BY <1>1, <1>3, <2>1 DEF TokenAgrees
  <2>3. stack # <<>> BY <1>3, <2>2 DEF ExpectAgrees
  <2>4. ~InFlight /\ ~InFlight' BY <1>1, <2>1 DEF InFlight, Growing, NoTok
  <2> QED BY <1>2, <2>1, <2>2, <2>3, <2>4 DEF KeyRead, log, Consumed
<1>9. CASE CloseString(b)
  <2>1. /\ Attach(stack, path_prefix, Scalar("String", tok.decoded)) /\ tok' = NoTok /\ ~tok.is_key
        /\ Consumed
    BY <1>9 DEF CloseString
  <2>2. expect = "Value" BY <1>1, <1>3, <2>1 DEF TokenAgrees
  <2>3. InFlight /\ ~InFlight' BY <1>1, <2>1 DEF InFlight, Growing, NoTok
  <2> QED BY <2>1, <2>2, <2>3 DEF ScalarEnded, Consumed, ScalarTypes
<1> QED BY <1>4, <1>5, <1>6, <1>7, <1>8, <1>9 DEF StringByte

LEMMA NumberEffect ==
  ASSUME Inv, Inv', failed = None, NEW b \in Alphabet, NumberByte(b)
  PROVE  Quiet \/ ScalarEnded
<1>1. tok.type = "Num"
  BY DEF NumberByte, NumberGrows, ExponentRefused, NumberDelimited, NumberMalformed, Continues, Stops
<1>2. expect = "Value" BY <1>1 DEF Inv, TokenOK, TokenAgrees
<1>3. CASE NumberGrows(b)
  BY <1>1, <1>3 DEF NumberGrows, Quiet, tree, log, InFlight, Growing, NumTok, Consumed, FrameLost
<1>4. CASE ExponentRefused(b) \/ NumberMalformed(b)
  <2>1. \E kind \in ErrorKind : kind # "MismatchedClose" /\ Reject(kind)
    BY <1>4 DEF ExponentRefused, NumberMalformed, ErrorKind
  <2> QED BY <2>1, RejectQuiet
<1>5. CASE NumberDelimited(b)
  BY <1>1, <1>2, <1>5 DEF NumberDelimited, CloseNumber, ScalarEnded, ScalarTypes, InFlight, Growing, NoTok
<1> QED BY <1>3, <1>4, <1>5 DEF NumberByte

LEMMA LiteralEffect ==
  ASSUME Inv, Inv', failed = None, NEW b \in Alphabet, LiteralByte(b)
  PROVE  Quiet \/ ScalarEnded
<1>1. tok.type = "Lit" BY DEF LiteralByte, LiteralGrows, LiteralDone, LiteralMalformed
<1>2. expect = "Value" BY <1>1 DEF Inv, TokenOK, TokenAgrees
<1>3. CASE LiteralGrows(b)
  BY <1>1, <1>3 DEF LiteralGrows, Quiet, tree, log, InFlight, Growing, LitTok, Consumed, FrameLost
<1>4. CASE LiteralMalformed(b)
  BY <1>4, RejectQuiet DEF LiteralMalformed, ErrorKind
<1>5. CASE LiteralDone(b)
  <2> DEFINE text == tok.text
  <2>1. text \in Seq(Byte) /\ b \in Byte BY <1>1, TextFields, Bytes DEF Inv, TokenOK
  <2>2. Append(text, b) \in Keywords BY <1>5 DEF LiteralDone, Spelling
  <2>3. Len(Append(text, b)) \in {4, 5} /\ Append(text, b)[1] \in {"t", "f", "n"}
    <3>1. \A k \in Keywords : Len(k) \in {4, 5} BY DEF Keywords
    <3>2. \A k \in Keywords : k[1] \in {"t", "f", "n"} BY DEF Keywords
    <3> QED BY <2>2, <3>1, <3>2
  <2>4. text[1] \in {"t", "f", "n"}
    <3> HIDE DEF text
    <3> QED BY <2>1, <2>3
  <2>5. ValueKind(tok.text[1]) \in ScalarTypes BY <2>4 DEF ValueKind, ScalarTypes
  <2> QED BY <1>1, <1>2, <1>5, <2>5 DEF LiteralDone, ScalarEnded, InFlight, Growing, NoTok, Consumed
<1> QED BY <1>3, <1>4, <1>5 DEF LiteralByte

LEMMA StructuralEffect ==
  ASSUME Inv, Inv', failed = None, NEW b \in Alphabet, StructuralByte(b)
  PROVE  \/ Quiet \/ ScalarBegun \/ ContainerBegun \/ ContainerRefused \/ ContainerEnded
         \/ FrameDropped
<1>1. tok.type = "None"
  BY DEF StructuralByte, At, Closing, SkipSpace, BeginScalar, BeginContainer, TooDeep, BeginKey,
     Colon, Comma, CloseContainer, MismatchedClose, Unexpected, TrailingContent
<1>2. ~InFlight /\ ~Growing BY <1>1 DEF InFlight, Growing
<1>3. TreeOK /\ ExpectAgrees(stack, expect) BY DEF Inv, TreeOK
<1>4. CASE SkipSpace(b)
  BY <1>2, <1>4 DEF SkipSpace, Quiet, tree, log, Consumed, InFlight, Growing, FrameLost
<1>5. CASE BeginScalar(b)
  <2>1. /\ expect = "Value" /\ Announce(b) /\ UNCHANGED tree /\ Consumed
    BY <1>5 DEF BeginScalar, At
  <2>2. \/ tok' = NewStr(FALSE)
        \/ tok' = LitTok(<<b>>)
        \/ tok' = NumTok(<<b>>, NumStart(b))
    BY <1>5 DEF BeginScalar
  <2>3. InFlight' /\ (Growing' => tok'.decoded = <<>>)
    BY <2>2 DEF InFlight, Growing, NewStr, StrTok, LitTok, NumTok
  <2>4. Begun BY <1>2, <2>1 DEF Begun, Announce, SlotPath, tree
  <2> QED BY <1>5, <2>1, <2>3, <2>4 DEF ScalarBegun, tree, Consumed
<1>6. CASE BeginContainer(b)
  <2>1. /\ expect = "Value" /\ Announce(b) /\ UNCHANGED <<tok, root>> /\ Consumed
        /\ path_prefix' = SlotPath /\ Len(stack) < MaxDepth
        /\ stack' = Append(stack, Frame(ValueKind(b))) /\ expect' # "Done"
    BY <1>6 DEF BeginContainer, At, SlotPath
  <2>2. ValueKind(b) \in {"Object", "Array"} BY <1>6 DEF BeginContainer, ValueKind
  <2>3. Begun BY <1>2, <2>1 DEF Begun, Announce, SlotPath
  <2>4. ~InFlight' BY <1>2, <2>1 DEF InFlight, Growing
  <2> QED BY <2>1, <2>2, <2>3, <2>4 DEF ContainerBegun, Consumed
<1>7. CASE TooDeep(b)
  <2>1. /\ expect = "Value" /\ Announce(b) /\ UNCHANGED <<tree, tok>> /\ Fail("DepthLimitExceeded")
    BY <1>7 DEF TooDeep, At
  <2>2. ~FrameLost' /\ failed' # None BY <2>1, NotLost DEF ErrorKind
  <2>3. Begun BY <1>2, <2>1 DEF Begun, Announce, SlotPath, tree
  <2> QED BY <1>2, <2>1, <2>2, <2>3 DEF ContainerRefused, tree, InFlight, Growing
<1>8. CASE BeginKey(b)
  <2>1. /\ UNCHANGED <<tree, log>> /\ Consumed /\ tok'.type = "Str" /\ tok'.is_key = TRUE
    BY <1>8 DEF BeginKey, NewStr, StrTok
  <2> QED BY <1>2, <2>1 DEF Quiet, tree, log, Consumed, InFlight, Growing, FrameLost
<1>9. CASE Colon(b) \/ Comma(b)
  <2>1. /\ UNCHANGED <<stack, root, path_prefix, log, tok>> /\ Consumed
        /\ expect # "Done" /\ expect' # "Done"
    BY <1>9 DEF Colon, Comma, At
  <2> QED BY <1>2, <2>1 DEF Quiet, log, Consumed, InFlight, Growing, FrameLost
<1>10. CASE CloseContainer(b)
  BY <1>2, <1>10 DEF CloseContainer, Closes, ContainerEnded, Consumed, InFlight, Growing
<1>11. CASE MismatchedClose(b)
  <2>1. stack # <<>> BY <1>3, <1>11, ClosingOpen DEF MismatchedClose
  <2>2. /\ stack' = Front(stack) /\ path_prefix' = Truncated /\ Fail("MismatchedClose")
        /\ UNCHANGED <<expect, root, log, tok>>
    BY <1>11, <2>1 DEF MismatchedClose
  <2>3. failed' # None
    <3>1. failed' \in Failure BY <2>2 DEF Fail, Failure, ErrorKind, Inv, ControlOK
    <3> QED BY <3>1, ParserAssumption
  <2>4. FrameLost' BY <2>2, <2>3 DEF Fail, FrameLost
  <2> QED BY <2>1, <2>2, <2>3, <2>4 DEF FrameDropped, log
<1>12. CASE Unexpected(b) \/ TrailingContent(b)
  <2>1. \E kind \in ErrorKind : kind # "MismatchedClose" /\ Reject(kind)
    BY <1>12 DEF Unexpected, TrailingContent, ErrorKind
  <2> QED BY <2>1, RejectQuiet
<1> QED BY <1>4, <1>5, <1>6, <1>7, <1>8, <1>9, <1>10, <1>11, <1>12 DEF StructuralByte

LEMMA StepEffect ==
  ASSUME Inv, NEW b \in Alphabet, Step(b)
  PROVE  failed = None /\ Effect
<1>1. Inv' BY StepInv
<1>2. failed = None BY DEF Step
<1> QED BY <1>1, <1>2, StringEffect, NumberEffect, LiteralEffect, StructuralEffect DEF Step, Effect

(* The end of a push, for the parser's part of it. *)
LEMMA EndPushEffect ==
  ASSUME Inv, EndPush
  PROVE  failed = None /\ (Quiet \/ ProgressTold)
<1>1. /\ UNCHANGED <<tree, tok, failed, offset, commit, held, ended, input>> /\ failed = None
  BY DEF EndPush, ReportProgress, NothingToReport, PushReturns
<1>2. CASE ReportProgress
  BY <1>1, <1>2 DEF ReportProgress, ProgressTold, SlotPath, tree
<1>3. CASE NothingToReport
  <2>1. Growing => IsPrefix(tok.decoded, tok'.decoded)
    BY <1>1, Text, PrefixOfConcat, EmptySequence DEF Growing
  <2> QED BY <1>1, <1>3, <2>1 DEF NothingToReport, Quiet, tree, InFlight, Growing, FrameLost
<1> QED BY <1>1, <1>2, <1>3 DEF EndPush

LEMMA FinishEffect ==
  ASSUME Inv, Finish
  PROVE  failed = None /\ (Quiet \/ ScalarEnded)
<1>1. failed = None /\ Inv'
  BY FinishInv DEF Finish, FinishNumber, FinishPartial, FinishOther, Finishing
<1>2. CASE FinishNumber
  <2>1. tok.type = "Num" BY <1>2 DEF FinishNumber
  <2>2. expect = "Value" BY <1>1, <2>1 DEF Inv, TokenOK, TokenAgrees
  <2> QED BY <1>1, <1>2, <2>1, <2>2 DEF FinishNumber, CloseNumber, ScalarEnded, ScalarTypes, InFlight, Growing, NoTok
<1>3. CASE FinishPartial
  <2>1. failed' \in Failure /\ failed'.kind # "MismatchedClose"
    BY <1>3 DEF FinishPartial, Failure, ErrorKind, Inv, ControlOK
  <2>2. failed' # None BY <2>1, ParserAssumption
  <2> QED BY <1>1, <1>3, <2>1, <2>2 DEF FinishPartial, Quiet, tree, log, InFlight, Growing, FrameLost
<1>4. CASE FinishOther
  <2>1. Growing => IsPrefix(tok.decoded, tok'.decoded)
    BY <1>4, Text, PrefixOfConcat, EmptySequence DEF Growing, FinishOther
  <2> QED BY <1>1, <1>4, <2>1 DEF FinishOther, Quiet, tree, log, InFlight, Growing, FrameLost
<1> QED BY <1>1, <1>2, <1>3, <1>4 DEF Finish

LEMMA NextEffect ==
  ASSUME Inv, Next
  PROVE  failed = None /\ Effect
BY StepEffect, EndPushEffect, FinishEffect DEF Next, Effect

-----------------------------------------------------------------------------
(* A log that is extended. *)

Extends(evs, evs2) == Len(evs) <= Len(evs2) /\ \A i \in 1..Len(evs) : evs2[i] = evs[i]

LEMMA LogExtended ==
  ASSUME NEW evs, IsSequence(evs), NEW evs2, IsSequence(evs2), Extends(evs, evs2), LogShaped(evs),
         \A i \in (Len(evs) + 1)..Len(evs2) : ShapeAt(evs2, i) /\ ChildrenAt(evs2, i) /\ StartAt(evs2, i)
  PROVE  LogShaped(evs2)
<1>1. Len(evs) \in Nat /\ Len(evs2) \in Nat BY DEF IsSequence
<1>2. SUFFICES ASSUME NEW i \in 1..Len(evs)
               PROVE  ShapeAt(evs2, i) /\ ChildrenAt(evs2, i) /\ StartAt(evs2, i)
  BY <1>1 DEF LogShaped
<1>3. evs2[i] = evs[i] /\ \A m \in 1..(i - 1) : evs2[m] = evs[m] BY <1>1 DEF Extends
<1>4. ShapeAt(evs, i) /\ ChildrenAt(evs, i) /\ StartAt(evs, i) BY DEF LogShaped
<1>5. ShapeAt(evs2, i) BY <1>3, <1>4 DEF ShapeAt
<1>6. ChildrenAt(evs2, i) BY <1>3, <1>4 DEF ChildrenAt
<1>7. StartAt(evs2, i) BY <1>3, <1>4 DEF StartAt
<1> QED BY <1>5, <1>6, <1>7

LEMMA StillThere ==
  ASSUME NEW evs, IsSequence(evs), NEW evs2, IsSequence(evs2), Extends(evs, evs2)
  PROVE  /\ \A e : Has(evs, e) => Has(evs2, e)
         /\ \A path : HasStarted(evs, path) => HasStarted(evs2, path)
         /\ \A path : DoneAt(evs, path) => DoneAt(evs2, path)
         /\ \A e : ChildOfDone(evs, e) => ChildOfDone(evs2, e)
         /\ \A i \in 1..Len(evs) : ProgressEnded(evs, i) => ProgressEnded(evs2, i)
<1>1. Len(evs) \in Nat /\ Len(evs2) \in Nat BY DEF IsSequence
<1>2. \A i \in 1..Len(evs) : i \in 1..Len(evs2) /\ evs2[i] = evs[i] BY <1>1 DEF Extends
<1>3. \A e : Has(evs, e) => Has(evs2, e) BY <1>2 DEF Has
<1>4. \A path : HasStarted(evs, path) => HasStarted(evs2, path) BY <1>2 DEF HasStarted
<1>5. \A path : DoneAt(evs, path) => DoneAt(evs2, path) BY <1>2 DEF DoneAt
<1>6. \A e : ChildOfDone(evs, e) => ChildOfDone(evs2, e) BY <1>2 DEF ChildOfDone
<1>7. ASSUME NEW i \in 1..Len(evs), ProgressEnded(evs, i) PROVE ProgressEnded(evs2, i)
  <2>1. PICK m \in (i + 1)..Len(evs) :
          /\ evs[m].type = "ValueCompleted" /\ evs[m].path = evs[i].path
          /\ evs[m].value.type = "String" /\ IsPrefix(evs[i].stable_prefix, evs[m].value.data)
    BY <1>7 DEF ProgressEnded
  <2>2. m \in (i + 1)..Len(evs2) /\ evs2[m] = evs[m] /\ evs2[i] = evs[i] BY <1>1, <1>2
  <2> QED BY <2>1, <2>2 DEF ProgressEnded
<1> QED BY <1>3, <1>4, <1>5, <1>6, <1>7

LEMMA PairAppended ==
  ASSUME NEW s, IsSequence(s), NEW t, IsSequence(t), Len(t) = 2
  PROVE  /\ IsSequence(s \o t) /\ Len(s \o t) = Len(s) + 2
         /\ \A i \in 1..Len(s) : (s \o t)[i] = s[i]
         /\ (s \o t)[Len(s) + 1] = t[1] /\ (s \o t)[Len(s) + 2] = t[2]
<1>1. Len(s) \in Nat BY DEF IsSequence
<1>2. IsSequence(s \o t) /\ Len(s \o t) = Len(s) + Len(t) BY ConcatElements
<1>3. \A i \in 1..Len(s) : (s \o t)[i] = s[i] BY ConcatElements
<1>4. \A i \in (Len(s) + 1)..(Len(s) + Len(t)) : (s \o t)[i] = t[i - Len(s)] BY ConcatElements
<1> QED BY <1>1, <1>2, <1>3, <1>4

(* What attach() appends. *)
LEMMA AttachEvents ==
  ASSUME LogOK, NEW st, NEW prefix, NEW v, Attach(st, prefix, v)
  PROVE  /\ Len(events) \in Nat /\ IsSequence(events') /\ Extends(events, events')
         /\ Len(events) + 1 \in 1..Len(events')
         /\ events'[Len(events) + 1] = Completed(Slot(st, prefix), v)
         /\ st # <<>> => Len(events') = Len(events) + 1
         /\ st = <<>> => Len(events') = Len(events) + 2
                         /\ events'[Len(events) + 2] = DocumentCompleted
<1> DEFINE n    == Len(events)
           done == Completed(Slot(st, prefix), v)
           two  == <<done, DocumentCompleted>>
<1>1. n \in Nat /\ IsSequence(events) BY DEF LogOK, IsSequence
<1>2. IsSequence(two) /\ Len(two) = 2 /\ two[1] = done /\ two[2] = DocumentCompleted
  <2> HIDE DEF done
  <2> QED BY PairSequence
<1>3. CASE st = <<>>
  <2>1. events' = events \o two BY <1>3 DEF Attach
  <2> HIDE DEF two, done
  <2>2. /\ IsSequence(events \o two) /\ Len(events \o two) = n + 2
        /\ \A i \in 1..n : (events \o two)[i] = events[i]
        /\ (events \o two)[n + 1] = two[1] /\ (events \o two)[n + 2] = two[2]
    BY <1>1, <1>2, PairAppended
  <2>3. events'[n + 1] = done /\ events'[n + 2] = DocumentCompleted BY <1>2, <2>1, <2>2
  <2> QED BY <1>1, <1>2, <1>3, <2>1, <2>2, <2>3 DEF Extends, done
<1>4. CASE st # <<>>
  <2>1. events' = Append(events, done) BY <1>4 DEF Attach
  <2> HIDE DEF two, done
  <2> QED BY <1>1, <1>4, <2>1, AppendSequence DEF Extends, done
<1> QED BY <1>3, <1>4

-----------------------------------------------------------------------------
(* Filing a value. *)

LEMMA FramePaths ==
  ASSUME NEW st, IsStack(st), NEW prefix, IsSequence(prefix), CacheAgrees(st, prefix)
  PROVE  /\ Len(st) \in Nat /\ (st = <<>> <=> Len(st) = 0)
         /\ \A k \in 1..Len(st) :
              /\ IsSequence(FramePath(prefix, k)) /\ Len(FramePath(prefix, k)) = k - 1
              /\ \A i \in 1..(k - 1) : FramePath(prefix, k)[i] = prefix[i]
         /\ IsSequence(Slot(st, prefix)) /\ Len(Slot(st, prefix)) = Len(st)
         /\ st = <<>> => Slot(st, prefix) = <<>> /\ prefix = <<>>
         /\ st # <<>> => /\ FramePath(prefix, Len(st)) = prefix /\ Len(prefix) = Len(st) - 1
                         /\ Slot(st, prefix) = Append(prefix, SlotToken(st[Len(st)]))
         /\ \A i \in 1..Len(prefix) : Slot(st, prefix)[i] = prefix[i]
<1> DEFINE n == Len(st)
<1>1. n \in Nat /\ (st = <<>> <=> n = 0) BY NonEmptySequence DEF IsStack, IsSequence
<1>2. Len(prefix) = IF n = 0 THEN 0 ELSE n - 1 BY <1>1 DEF CacheAgrees
<1>3. \A k \in 1..n :
        /\ IsSequence(FramePath(prefix, k)) /\ Len(FramePath(prefix, k)) = k - 1
        /\ \A i \in 1..(k - 1) : FramePath(prefix, k)[i] = prefix[i]
  <2> SUFFICES ASSUME NEW k \in 1..n
               PROVE /\ IsSequence(FramePath(prefix, k)) /\ Len(FramePath(prefix, k)) = k - 1
                     /\ \A i \in 1..(k - 1) : FramePath(prefix, k)[i] = prefix[i]
    OBVIOUS
  <2>1. k - 1 \in 0..Len(prefix) BY <1>1, <1>2
  <2> QED BY <2>1, SubSeqSequence DEF FramePath
<1>4. CASE st = <<>>
  <2>1. prefix = <<>> BY <1>1, <1>2, <1>4, NonEmptySequence
  <2> QED BY <1>1, <1>3, <1>4, <2>1, EmptySequence DEF Slot
<1>5. CASE st # <<>>
  <2>1. Last(st) = st[n] BY <1>5, FrontSequence DEF IsStack
  <2>2. Slot(st, prefix) = Append(prefix, SlotToken(st[n])) BY <1>5, <2>1 DEF Slot
  <2>3. /\ IsSequence(Slot(st, prefix)) /\ Len(Slot(st, prefix)) = Len(prefix) + 1
        /\ \A i \in 1..Len(prefix) : Slot(st, prefix)[i] = prefix[i]
    BY <2>2, AppendSequence
  <2>4. FramePath(prefix, n) = prefix
    <3>1. n \in 1..n /\ Len(FramePath(prefix, n)) = Len(prefix) BY <1>1, <1>2, <1>3, <1>5
    <3> QED BY <1>1, <1>2, <1>3, <1>5, <3>1, SameSequence
  <2> QED BY <1>1, <1>2, <1>3, <1>5, <2>2, <2>3, <2>4
<1> QED BY <1>4, <1>5

(* The stack and the root after attach(). *)
LEMMA AttachTree ==
  ASSUME NEW st, IsStack(st), NEW prefix, NEW v, Attach(st, prefix, v), st # <<>>
  PROVE  /\ path_prefix' = prefix /\ Len(stack') = Len(st) /\ stack' # <<>>
         /\ expect' = "CommaOrEnd" /\ root' = root
         /\ Len(st) \in 1..Len(st) /\ Len(st[Len(st)].children) \in Nat
         /\ \A k \in 1..(Len(st) - 1) : stack'[k] = st[k]
         /\ stack'[Len(st)] = Filed(st[Len(st)], v)
<1> DEFINE n == Len(st)
           g == Filed(st[n], v)
<1>1. n \in Nat \ {0} /\ Last(st) = st[n] BY FrontSequence DEF IsStack
<1>2. n \in 1..n /\ IsSequence(st) /\ IsFrame(st[n]) BY <1>1 DEF IsStack
<1>3. Len(st[n].children) \in Nat BY <1>2 DEF IsFrame, IsSequence
<1>4. stack' = [st EXCEPT ![n] = g] BY DEF Attach
<1> HIDE DEF g
<1>5. /\ IsSequence(stack') /\ Len(stack') = n /\ stack'[n] = g
      /\ \A k \in 1..n : k # n => stack'[k] = st[k]
  <2> DEFINE new == [st EXCEPT ![n] = g]
  <2>1. /\ IsSequence(new) /\ Len(new) = n /\ new[n] = g
        /\ \A k \in 1..n : k # n => new[k] = st[k]
    BY <1>2, ExceptSequence
  <2> QED BY <1>4, <2>1
<1>6. stack' # <<>> BY <1>1, <1>5, NonEmptySequence
<1>7. \A k \in 1..(n - 1) : stack'[k] = st[k] BY <1>1, <1>5
<1>8. path_prefix' = prefix /\ expect' = "CommaOrEnd" /\ root' = root BY DEF Attach
<1> QED BY <1>2, <1>3, <1>5, <1>6, <1>7, <1>8 DEF g

LEMMA FiledChildren ==
  ASSUME NEW f, IsFrame(f), NEW v
  PROVE  /\ Len(Filed(f, v).children) = Len(f.children) + 1 /\ Filed(f, v).kind = f.kind
         /\ \A j \in 1..Len(f.children) : Filed(f, v).children[j] = f.children[j]
         /\ Filed(f, v).children[Len(f.children) + 1] = [token |-> SlotToken(f), value |-> v]
         /\ IsSequence(f.children) /\ Len(f.children) \in Nat
<1> QED BY AppendSequence DEF IsFrame, Filed, IsSequence

(* What must hold before a value is filed, of the stack it goes to. *)
AtOrBelow(path, base) == Len(base) <= Len(path) /\ \A i \in 1..Len(base) : path[i] = base[i]

Ready(st, prefix, v) ==
  /\ Len(st) <= MaxDepth /\ FramesShaped(st)
  /\ FiledLogged(st, prefix, events) /\ FramesStarted(st, prefix, events)
  /\ IsFinalValue(v) /\ root = None
  /\ v.type \in ContainerTypes => \A j \in 1..Len(v.data) :
       Has(events, Completed(Append(Slot(st, prefix), v.data[j].token), v.data[j].value))
  /\ HasStarted(events, Slot(st, prefix))
  /\ LogShaped(events) /\ DocumentLast(events, "Value")
  /\ \A i \in 1..Len(events) : events[i].type = "ValueCompleted" =>
       /\ Anchored(st, prefix, events[i].path) \/ AtOrBelow(events[i].path, Slot(st, prefix))
       /\ ChildOf(Slot(st, prefix), v, events[i]) \/ HasParent(st, prefix, events, events[i])
  /\ StartedWhere({Slot(st, prefix)}, st, prefix, events)
  /\ \A i \in 1..Len(events) : events[i].type = "ValueProgressed" =>
       \/ v.type = "String" /\ ProgressOpen(Slot(st, prefix), v.data, events[i])
       \/ ProgressEnded(events, i)

LEMMA AttachShaped ==
  ASSUME LogOK, NEW st, IsStack(st), NEW prefix, IsSequence(prefix), CacheAgrees(st, prefix),
         NEW v, Ready(st, prefix, v), Attach(st, prefix, v)
  PROVE  LogShaped(events')
<1> DEFINE n    == Len(events)
           slot == Slot(st, prefix)
           done == Completed(slot, v)
<1>1. /\ n \in Nat /\ IsSequence(events) /\ IsSequence(events') /\ Extends(events, events')
      /\ n + 1 \in 1..Len(events') /\ events'[n + 1] = done
      /\ Len(events') \in {n + 1, n + 2}
      /\ Len(events') = n + 2 => events'[n + 2] = DocumentCompleted
  BY AttachEvents DEF LogOK
<1>2. IsSequence(slot) /\ Len(slot) <= MaxDepth BY FramePaths DEF Ready
<1>3. IsFinalValue(v) /\ HasStarted(events, slot) /\ LogShaped(events)
      /\ (v.type \in ContainerTypes => \A j \in 1..Len(v.data) :
            Has(events, Completed(Append(slot, v.data[j].token), v.data[j].value)))
  BY DEF Ready
<1>4. done.type = "ValueCompleted" /\ done.path = slot /\ done.value = v BY DEF Completed
<1> HIDE DEF slot
<1>5. ShapeAt(events', n + 1) BY <1>1, <1>2, <1>3, <1>4 DEF ShapeAt, EventTypes
<1> HIDE DEF done
<1>6. \A i \in 1..n : events'[i] = events[i] BY <1>1 DEF Extends
<1>7. ChildrenAt(events', n + 1) BY <1>1, <1>3, <1>4, <1>6 DEF ChildrenAt, Has
<1>8. StartAt(events', n + 1) BY <1>1, <1>3, <1>4, <1>6 DEF StartAt, HasStarted
<1>9. ASSUME Len(events') = n + 2
      PROVE  ShapeAt(events', n + 2) /\ ChildrenAt(events', n + 2) /\ StartAt(events', n + 2)
  <2>1. events'[n + 2].type = "DocumentCompleted" BY <1>1, <1>9 DEF DocumentCompleted
  <2> QED BY <2>1 DEF ShapeAt, ChildrenAt, StartAt, EventTypes
<1>10. \A i \in (n + 1)..Len(events') :
         ShapeAt(events', i) /\ ChildrenAt(events', i) /\ StartAt(events', i)
  <2> SUFFICES ASSUME NEW i \in (n + 1)..Len(events')
               PROVE ShapeAt(events', i) /\ ChildrenAt(events', i) /\ StartAt(events', i)
    OBVIOUS
  <2>1. i = n + 1 \/ (i = n + 2 /\ Len(events') = n + 2) BY <1>1
  <2> QED BY <2>1, <1>5, <1>7, <1>8, <1>9
<1> QED BY <1>1, <1>3, <1>10, LogExtended

LEMMA FiledIsChild ==
  ASSUME NEW f, IsFrame(f), NEW v
  PROVE  IsChild(f.kind, Len(f.children) + 1, [token |-> SlotToken(f), value |-> v])
<1>1. Len(f.children) \in Nat BY DEF IsFrame, IsSequence
<1>2. Len(f.children) + 1 - 1 = Len(f.children) BY <1>1
<1>3. f.kind = "Array" => SlotToken(f) = Decimal(Len(f.children) + 1 - 1) BY <1>2 DEF SlotToken
<1> QED BY <1>3 DEF IsChild

LEMMA AttachFrames ==
  ASSUME LogOK, NEW st, IsStack(st), NEW prefix, IsSequence(prefix), CacheAgrees(st, prefix),
         NEW v, Ready(st, prefix, v), Attach(st, prefix, v), st # <<>>
  PROVE  /\ FramesShaped(stack') /\ FiledLogged(stack', path_prefix', events')
         /\ FramesStarted(stack', path_prefix', events')
         /\ DoneAnchored(stack', path_prefix', events')
         /\ \A e : ChildOfFrame(st, prefix, e) => ChildOfFrame(stack', path_prefix', e)
         /\ ChildOfFrame(stack', path_prefix', Completed(Slot(st, prefix), v))
<1> DEFINE k    == Len(st)
           f    == st[k]
           g    == Filed(f, v)
           n    == Len(f.children)
           slot == Slot(st, prefix)
           done == Completed(slot, v)
<1>1. /\ path_prefix' = prefix /\ Len(stack') = k /\ k \in 1..k /\ n \in Nat
      /\ \A i \in 1..(k - 1) : stack'[i] = st[i]
      /\ stack'[k] = g
  BY AttachTree
<1>2. /\ Len(g.children) = n + 1 /\ g.kind = f.kind
      /\ \A j \in 1..n : g.children[j] = f.children[j]
      /\ g.children[n + 1] = [token |-> SlotToken(f), value |-> v]
  <2>1. IsFrame(f) BY <1>1 DEF IsStack
  <2> QED BY <2>1, FiledChildren
<1>3. /\ k \in Nat \ {0} /\ FramePath(prefix, k) = prefix /\ Len(prefix) = k - 1
      /\ slot = Append(prefix, SlotToken(f)) /\ IsSequence(slot) /\ Len(slot) = k
      /\ \A i \in 1..(k - 1) : slot[i] = prefix[i]
      /\ slot[k] = SlotToken(f)
  <2>1. /\ k \in Nat \ {0} /\ FramePath(prefix, k) = prefix /\ Len(prefix) = k - 1
        /\ slot = Append(prefix, SlotToken(f)) /\ IsSequence(slot) /\ Len(slot) = k
        /\ \A i \in 1..(k - 1) : slot[i] = prefix[i]
    BY FramePaths
  <2>2. slot[k] = SlotToken(f) BY <2>1, AppendSequence
  <2> QED BY <2>1, <2>2
<1>4. /\ IsSequence(events) /\ IsSequence(events') /\ Extends(events, events')
      /\ Len(events') = Len(events) + 1 /\ events'[Len(events) + 1] = done /\ Len(events) \in Nat
  BY AttachEvents DEF LogOK
<1>5. /\ \A e : Has(events, e) => Has(events', e)
      /\ \A path : HasStarted(events, path) => HasStarted(events', path)
  BY <1>4, StillThere
<1>6. Has(events', done) BY <1>4 DEF Has
<1>7. /\ FramesShaped(st) /\ FiledLogged(st, prefix, events) /\ FramesStarted(st, prefix, events)
  BY DEF Ready
(* Every child of the new stack is an old one or the value filed. *)
<1>8. ASSUME NEW i \in 1..k, NEW j \in 1..Len(stack'[i].children)
      PROVE  \/ /\ j \in 1..Len(st[i].children) /\ stack'[i].children[j] = st[i].children[j]
                /\ stack'[i].kind = st[i].kind
             \/ /\ i = k /\ j = n + 1 /\ stack'[i].kind = f.kind
                /\ stack'[i].children[j] = [token |-> SlotToken(f), value |-> v]
  <2>1. CASE i # k BY <1>1, <1>3, <2>1
  <2>2. CASE i = k
    <3> HIDE DEF g, n, f
    <3>1. j \in 1..(n + 1) /\ stack'[i] = g BY <1>1, <1>2, <2>2
    <3>2. CASE j = n + 1 BY <1>2, <2>2, <3>1, <3>2
    <3>3. CASE j # n + 1 
      <4>1. j \in 1..n BY <1>1, <3>1, <3>3
      <4> QED BY <1>2, <2>2, <3>1, <4>1 DEF n, f
    <3> QED BY <3>2, <3>3
  <2> QED BY <2>1, <2>2
<1>9. ASSUME NEW i \in 1..k, NEW j \in 1..Len(st[i].children)
      PROVE  j \in 1..Len(stack'[i].children) /\ stack'[i].children[j] = st[i].children[j]
  <2>1. CASE i # k BY <1>1, <1>3, <2>1
  <2>2. CASE i = k BY <1>1, <1>2, <2>2
  <2> QED BY <2>1, <2>2
<1> HIDE DEF g
<1>10. n + 1 \in 1..Len(stack'[k].children) BY <1>1, <1>2
<1>11. FramesShaped(stack')
  <2> SUFFICES ASSUME NEW i \in 1..k, NEW j \in 1..Len(stack'[i].children)
               PROVE  IsChild(stack'[i].kind, j, stack'[i].children[j])
    BY <1>1 DEF FramesShaped
  <2>1. IsChild(f.kind, n + 1, [token |-> SlotToken(f), value |-> v])
    BY <1>1, FiledIsChild DEF IsStack
  <2> HIDE DEF f, n
  <2> QED BY <1>7, <1>8, <2>1 DEF FramesShaped, k
<1>12. FiledLogged(stack', path_prefix', events')
  <2> SUFFICES ASSUME NEW i \in 1..k, NEW j \in 1..Len(stack'[i].children)
               PROVE  Has(events', Completed(Append(FramePath(prefix, i), stack'[i].children[j].token),
                                             stack'[i].children[j].value))
    BY <1>1 DEF FiledLogged
  <2>1. CASE j \in 1..Len(st[i].children) /\ stack'[i].children[j] = st[i].children[j]
    BY <1>5, <1>7, <2>1 DEF FiledLogged
  <2>2. CASE i = k /\ stack'[i].children[j] = [token |-> SlotToken(f), value |-> v]
    BY <1>3, <1>6, <2>2
  <2> QED BY <1>8, <2>1, <2>2
<1>13. FramesStarted(stack', path_prefix', events') BY <1>1, <1>5, <1>7 DEF FramesStarted
<1>14. \A e : ChildOfFrame(st, prefix, e) => ChildOfFrame(stack', path_prefix', e)
  BY <1>1, <1>9, ZenonT(60) DEF ChildOfFrame
<1>15. ChildOfFrame(stack', path_prefix', done)
  <2>1. done.path = Append(FramePath(prefix, k), SlotToken(f)) /\ done.value = v
    BY <1>3 DEF Completed
  <2>2. stack'[k].children[n + 1].token = SlotToken(f) /\ stack'[k].children[n + 1].value = v
    BY <1>1, <1>2
  <2> HIDE DEF f, n, done, k
  <2> QED BY <1>1, <1>10, <2>1, <2>2 DEF ChildOfFrame
<1>16. DoneAnchored(stack', path_prefix', events')
  <2>1. ASSUME NEW path, Anchored(st, prefix, path) PROVE Anchored(stack', prefix, path)
    BY <1>1, <1>9, <2>1 DEF Anchored
  <2>2. ASSUME NEW path, AtOrBelow(path, slot) PROVE Anchored(stack', prefix, path)
    <3>1. k <= Len(path) /\ \A i \in 1..k : path[i] = slot[i] BY <1>3, <2>2 DEF AtOrBelow
    <3>2. path[k] = stack'[k].children[n + 1].token BY <1>1, <1>2, <1>3, <3>1
    <3>3. \A i \in 1..(k - 1) : path[i] = prefix[i] BY <1>3, <3>1
    <3> HIDE DEF f, n, slot, k
    <3> QED BY <1>1, <1>10, <3>1, <3>2, <3>3 DEF Anchored
  <2>3. AtOrBelow(slot, slot) BY <1>3 DEF AtOrBelow
  <2>4. ASSUME NEW i \in 1..Len(events'), events'[i].type = "ValueCompleted"
        PROVE  Anchored(stack', prefix, events'[i].path)
    <3>1. CASE i = Len(events) + 1 BY <1>4, <2>2, <2>3, <3>1 DEF Completed
    <3>2. CASE i # Len(events) + 1
      <4>1. i \in 1..Len(events) /\ events'[i] = events[i] BY <1>4, <3>2 DEF Extends
      <4>2. Anchored(st, prefix, events[i].path) \/ AtOrBelow(events[i].path, slot)
        BY <2>4, <4>1 DEF Ready
      <4> QED BY <2>1, <2>2, <4>1, <4>2
    <3> QED BY <3>1, <3>2
  <2> QED BY <1>1, <2>4 DEF DoneAnchored
<1> QED BY <1>11, <1>12, <1>13, <1>14, <1>15, <1>16

LEMMA AttachLog ==
  ASSUME LogOK, NEW st, IsStack(st), NEW prefix, IsSequence(prefix), CacheAgrees(st, prefix),
         NEW v, Ready(st, prefix, v), Attach(st, prefix, v), ~InFlight', failed' = None
  PROVE  LogInv'
<1> DEFINE n    == Len(events)
           slot == Slot(st, prefix)
           done == Completed(slot, v)
<1>1. /\ n \in Nat /\ IsSequence(events) /\ IsSequence(events') /\ Extends(events, events')
      /\ n + 1 \in 1..Len(events') /\ events'[n + 1] = done
      /\ st # <<>> => Len(events') = n + 1
      /\ st = <<>> => Len(events') = n + 2 /\ events'[n + 2] = DocumentCompleted
  BY AttachEvents DEF LogOK
<1>2. \A i \in 1..n : events'[i] = events[i] BY <1>1 DEF Extends
<1>3. done.type = "ValueCompleted" /\ done.path = slot /\ done.value = v BY DEF Completed
<1>4. /\ \A e : Has(events, e) => Has(events', e)
      /\ \A path : HasStarted(events, path) => HasStarted(events', path)
      /\ \A path : DoneAt(events, path) => DoneAt(events', path)
      /\ \A e : ChildOfDone(events, e) => ChildOfDone(events', e)
      /\ \A i \in 1..n : ProgressEnded(events, i) => ProgressEnded(events', i)
  BY <1>1, StillThere
<1>5. LogShaped(events') BY AttachShaped
<1>6. \A i \in 1..n : events[i].type # "DocumentCompleted" BY DEF Ready, DocumentLast
<1>7. IsFinalValue(v) /\ v # None /\ root = None BY DEF Ready, IsFinalValue
(* Every event of the new log is an old one, the value's, or the document's. *)
<1>8. ASSUME NEW i \in 1..Len(events')
      PROVE  \/ i \in 1..n /\ events'[i] = events[i] /\ events'[i].type # "DocumentCompleted"
             \/ i = n + 1 /\ events'[i] = done
             \/ i = n + 2 /\ st = <<>> /\ i = Len(events') /\ events'[i] = DocumentCompleted
  BY <1>1, <1>2, <1>6
<1> HIDE DEF done, slot, n
<1>9. DocumentCompleted.type = "DocumentCompleted" BY DEF DocumentCompleted
<1>10. DoneAt(events', slot) /\ Has(events', done) BY <1>1, <1>3 DEF DoneAt, Has
<1>11. \A i \in 1..Len(events') : events'[i].type = "ValueCompleted" =>
         i = n + 1 \/ (i \in 1..n /\ events'[i] = events[i])
  BY <1>8, <1>9
<1>12. \A e : ChildOf(slot, v, e) => ChildOfDone(events', e)
  BY <1>1, <1>3 DEF ChildOfDone
<1>13. ProgressWhere'
  <2> SUFFICES ASSUME NEW i \in 1..Len(events'), events'[i].type = "ValueProgressed"
               PROVE  ProgressEnded(events', i)
    BY DEF ProgressWhere
  <2>1. i \in 1..n /\ events'[i] = events[i] BY <1>3, <1>8, <1>9
  <2>2. CASE ProgressEnded(events, i) BY <1>4, <2>1, <2>2
  <2>3. CASE v.type = "String" /\ ProgressOpen(slot, v.data, events[i])
    <3>1. n + 1 \in (i + 1)..Len(events') BY <1>1, <2>1 
    <3>2. /\ events'[n + 1].type = "ValueCompleted" /\ events'[n + 1].path = events'[i].path
          /\ events'[n + 1].value.type = "String"
          /\ IsPrefix(events'[i].stable_prefix, events'[n + 1].value.data)
      BY <1>1, <1>3, <2>1, <2>3 DEF ProgressOpen
    <3> QED BY <3>1, <3>2 DEF ProgressEnded
  <2> QED BY <2>1, <2>2, <2>3 DEF Ready, slot, n
<1>14. CASE st = <<>>
  <2>1. stack' = <<>> /\ root' = v /\ expect' = "Done" /\ path_prefix' = prefix
    BY <1>14 DEF Attach
  <2>2. slot = <<>> BY <1>14, FramePaths DEF slot
  <2>3. Len(<<>>) = 0 /\ Len(stack') = 0 BY <2>1
  <2>4. RootOK' BY <1>1, <1>3, <1>7, <1>10, <2>1, <2>2 DEF RootOK, done, slot
  <2>5. DocumentLast(events', expect')
    BY <1>1, <1>3, <1>8, <1>9, <1>14, <2>1 DEF DocumentLast
  <2>6. DoneHasParent(stack', path_prefix', root', events')
    <3> SUFFICES ASSUME NEW i \in 1..Len(events'), events'[i].type = "ValueCompleted"
                 PROVE  \/ events'[i].path = <<>> /\ events'[i].value = v
                        \/ ChildOfDone(events', events'[i])
      BY <2>1 DEF DoneHasParent, HasParent
    <3>1. CASE i = n + 1 BY <1>1, <1>3, <2>2, <3>1
    <3>2. CASE i \in 1..n /\ events'[i] = events[i]
      <4>1. ChildOf(slot, v, events[i]) \/ HasParent(st, prefix, events, events[i])
        BY <3>2 DEF Ready, slot, n
      <4>2. ~ChildOfFrame(st, prefix, events[i]) BY <1>14, <2>3 DEF ChildOfFrame
      <4> QED BY <1>4, <1>12, <3>2, <4>1, <4>2 DEF HasParent
    <3> QED BY <1>11, <3>1, <3>2
  <2>7. StartedWhere(OpenSlots', stack', path_prefix', events')
    <3> SUFFICES ASSUME NEW i \in 1..Len(events'), events'[i].type = "ValueStarted"
                 PROVE  DoneAt(events', events'[i].path)
      BY DEF StartedWhere
    <3>1. i \in 1..n /\ events'[i] = events[i] BY <1>3, <1>8, <1>9
    <3>2. events[i].path = slot \/ DoneAt(events, events[i].path)
      BY <1>14, <2>3, <3>1 DEF Ready, StartedWhere, slot, n
    <3> QED BY <1>4, <1>10, <3>1, <3>2
  <2>8. /\ FramesShaped(stack') /\ FiledLogged(stack', path_prefix', events')
        /\ FramesStarted(stack', path_prefix', events') /\ Len(stack') <= MaxDepth
    BY <2>3, ParserAssumption DEF FramesShaped, FiledLogged, FramesStarted
  <2>9. DoneAnchored(stack', path_prefix', events') /\ NothingDone'
    BY <2>1 DEF DoneAnchored, NothingDone
  <2> QED BY <1>5, <1>13, <2>4, <2>5, <2>6, <2>7, <2>8, <2>9 DEF LogInv
<1>15. CASE st # <<>>
  <2>1. /\ path_prefix' = prefix /\ Len(stack') = Len(st) /\ stack' # <<>>
        /\ expect' = "CommaOrEnd" /\ root' = root
    BY <1>15, AttachTree
  <2>2. /\ FramesShaped(stack') /\ FiledLogged(stack', path_prefix', events')
        /\ FramesStarted(stack', path_prefix', events')
        /\ DoneAnchored(stack', path_prefix', events')
        /\ \A e : ChildOfFrame(st, prefix, e) => ChildOfFrame(stack', path_prefix', e)
        /\ ChildOfFrame(stack', path_prefix', done)
    BY <1>15, AttachFrames DEF done, slot
  <2>3. RootOK' /\ NothingDone' BY <1>7, <2>1 DEF RootOK, NothingDone
  <2>4. DocumentLast(events', expect')
    BY <1>3, <1>8, <1>15, <2>1 DEF DocumentLast
  <2>5. DoneHasParent(stack', path_prefix', root', events')
    <3> SUFFICES ASSUME NEW i \in 1..Len(events'), events'[i].type = "ValueCompleted"
                 PROVE  \/ ChildOfFrame(stack', path_prefix', events'[i])
                        \/ ChildOfDone(events', events'[i])
      BY DEF DoneHasParent, HasParent
    <3>1. CASE i = n + 1 BY <1>1, <2>2, <3>1
    <3>2. CASE i \in 1..n /\ events'[i] = events[i]
      <4>1. ChildOf(slot, v, events[i]) \/ HasParent(st, prefix, events, events[i])
        BY <3>2 DEF Ready, slot, n
      <4> QED BY <1>4, <1>12, <2>2, <3>2, <4>1 DEF HasParent
    <3> QED BY <1>11, <3>1, <3>2
  <2>6. StartedWhere(OpenSlots', stack', path_prefix', events')
    <3> SUFFICES ASSUME NEW i \in 1..Len(events'), events'[i].type = "ValueStarted"
                 PROVE  \/ \E k \in 1..Len(st) : events'[i].path = FramePath(prefix, k)
                        \/ DoneAt(events', events'[i].path)
      BY <2>1 DEF StartedWhere
    <3>1. i \in 1..n /\ events'[i] = events[i] BY <1>3, <1>8, <1>15
    <3>2. \/ events[i].path = slot \/ DoneAt(events, events[i].path)
          \/ \E k \in 1..Len(st) : events[i].path = FramePath(prefix, k)
      BY <3>1 DEF Ready, StartedWhere, slot, n
    <3> QED BY <1>4, <1>10, <3>1, <3>2
  <2>7. Len(stack') <= MaxDepth BY <2>1 DEF Ready
  <2> QED BY <1>5, <1>13, <2>2, <2>3, <2>4, <2>5, <2>6, <2>7 DEF LogInv
<1> QED BY <1>14, <1>15

-----------------------------------------------------------------------------
(* A step keeps LogInv. *)

(* Option::None is none of the values a Some can hold. *)
NoneIsNoValue == \A type, data : None # [type |-> type, data |-> data]

LEMMA ScalarEndedLog ==
  ASSUME NoneIsNoValue, Inv, LogInv, failed = None, ScalarEnded
  PROVE  LogInv'
<1>1. PICK type, text :
        /\ type \in ScalarTypes /\ InFlight /\ expect = "Value" /\ Attach(stack, path_prefix, Scalar(type, text))
        /\ Growing => type = "String" /\ text = tok.decoded
        /\ ~InFlight' /\ failed' = None
  BY DEF ScalarEnded
<1> DEFINE v == Scalar(type, text)
<1>2. v.type = type /\ v.data = text /\ v = Scalar(v.type, v.data) /\ v # None
  BY DEF Scalar, NoneIsNoValue
<1>3. IsFinalValue(v) /\ v.type \notin ContainerTypes
  BY <1>1, <1>2 DEF IsFinalValue, ScalarTypes, ContainerTypes
<1> HIDE DEF v
<1>4. /\ LogOK /\ IsStack(stack) /\ IsSequence(path_prefix) /\ CacheAgrees(stack, path_prefix)
  BY DEF Inv, TreeOK, PathCache
<1>5. ~FrameLost BY DEF FrameLost
<1>6. ASSUME NEW i \in 1..Len(events), events[i].type = "ValueCompleted"
      PROVE  /\ Anchored(stack, path_prefix, events[i].path)
             /\ HasParent(stack, path_prefix, events, events[i])
  <2>1. stack # <<>> BY <1>1, <1>5, <1>6 DEF LogInv, NothingDone
  <2> QED BY <1>5, <1>6, <2>1 DEF LogInv, DoneAnchored, DoneHasParent
<1>7. ASSUME NEW i \in 1..Len(events), events[i].type = "ValueProgressed"
      PROVE  \/ v.type = "String" /\ ProgressOpen(SlotPath, v.data, events[i])
             \/ ProgressEnded(events, i)
  BY <1>1, <1>2, <1>7 DEF LogInv, ProgressWhere
<1>8. Ready(stack, path_prefix, v)
  BY <1>1, <1>3, <1>6, <1>7
     DEF Ready, LogInv, RootOK, DocumentLast, SlotPath, OpenSlots
<1> QED BY <1>1, <1>4, <1>8, AttachLog DEF v

(* What closing a container leaves: its own path is the slot it is filed in. *)
LEMMA PoppedPaths ==
  ASSUME TreeOK, stack # <<>>
  PROVE  LET st == Front(stack)
             n  == Len(stack)
         IN  /\ n \in Nat \ {0} /\ Len(st) = n - 1 /\ Last(stack) = stack[n]
             /\ IsSequence(path_prefix) /\ Len(path_prefix) = n - 1
             /\ \A i \in 1..(n - 1) : st[i] = stack[i]
             /\ Slot(st, Truncated) = path_prefix
             /\ FramePath(path_prefix, n) = path_prefix
             /\ \A k \in 1..(n - 1) : FramePath(Truncated, k) = FramePath(path_prefix, k)
             /\ \A i \in 1..(n - 2) : Truncated[i] = path_prefix[i]
<1> DEFINE n  == Len(stack)
           st == Front(stack)
<1>1. /\ n \in Nat \ {0} /\ Len(st) = n - 1 /\ Last(stack) = stack[n]
      /\ \A i \in 1..(n - 1) : st[i] = stack[i]
  BY FrontSequence DEF TreeOK, IsStack
<1>2. /\ IsStack(st) /\ IsSequence(Truncated) /\ CacheAgrees(st, Truncated) BY Popped
<1>3. IsSequence(path_prefix) /\ IsStack(stack) /\ CacheAgrees(stack, path_prefix)
  BY DEF TreeOK, PathCache
<1>4. Len(path_prefix) = n - 1 /\ \A i \in 1..(n - 1) : path_prefix[i] = SlotToken(stack[i])
  BY <1>3 DEF CacheAgrees
<1> HIDE DEF n, st
<1>5. Len(Truncated) = (IF n = 1 THEN 0 ELSE n - 2)
      /\ \A i \in 1..(n - 2) : Truncated[i] = SlotToken(st[i])
  <2>1. (st = <<>>) <=> (n = 1) BY <1>1, <1>2, NonEmptySequence DEF IsStack
  <2> QED BY <1>1, <1>2, <2>1 DEF CacheAgrees
<1>6. \A i \in 1..(n - 2) : Truncated[i] = path_prefix[i] BY <1>1, <1>4, <1>5
<1>7. Slot(st, Truncated) = path_prefix
  <2>1. IsSequence(Slot(st, Truncated)) /\ Len(Slot(st, Truncated)) = n - 1
        /\ \A i \in 1..Len(Truncated) : Slot(st, Truncated)[i] = Truncated[i]
    BY <1>1, <1>2, FramePaths
  <2>2. CASE n = 1 BY <1>3, <1>4, <2>1, <2>2, SameSequence
  <2>3. CASE n # 1
    <3>1. st # <<>> BY <1>1, <1>2, <2>3, NonEmptySequence DEF IsStack
    <3>2. Slot(st, Truncated) = Append(Truncated, SlotToken(st[n - 1])) BY <1>1, <1>2, <3>1, FramePaths
    <3>3. Slot(st, Truncated)[n - 1] = SlotToken(stack[n - 1])
      <4>1. Append(Truncated, SlotToken(st[n - 1]))[Len(Truncated) + 1] = SlotToken(st[n - 1])
        BY <1>2, AppendSequence
      <4> QED BY <1>1, <1>5, <2>3, <3>2, <4>1
    <3>4. \A i \in 1..(n - 1) : Slot(st, Truncated)[i] = path_prefix[i]
      BY <1>1, <1>4, <1>5, <1>6, <2>1, <2>3, <3>3
    <3> QED BY <1>3, <1>4, <2>1, <3>4, SameSequence
  <2> QED BY <2>2, <2>3
<1>8. FramePath(path_prefix, n) = path_prefix BY <1>3, FramePaths DEF n
<1>9. ASSUME NEW k \in 1..(n - 1) PROVE FramePath(Truncated, k) = FramePath(path_prefix, k)
  <2>1. k \in 1..Len(st) /\ k \in 1..n BY <1>1
  <2>2. /\ IsSequence(FramePath(Truncated, k)) /\ Len(FramePath(Truncated, k)) = k - 1
        /\ \A i \in 1..(k - 1) : FramePath(Truncated, k)[i] = Truncated[i]
    BY <1>2, <2>1, FramePaths
  <2>3. /\ IsSequence(FramePath(path_prefix, k)) /\ Len(FramePath(path_prefix, k)) = k - 1
        /\ \A i \in 1..(k - 1) : FramePath(path_prefix, k)[i] = path_prefix[i]
    BY <1>3, <2>1, FramePaths DEF n
  <2>4. \A i \in 1..(k - 1) : Truncated[i] = path_prefix[i] BY <1>1, <1>6
  <2> QED BY <2>2, <2>3, <2>4, SameSequence
<1> QED BY <1>1, <1>3, <1>4, <1>6, <1>7, <1>8, <1>9 DEF n, st

LEMMA ContainerEndedLog ==
  ASSUME NoneIsNoValue, Inv, LogInv, failed = None, ContainerEnded
  PROVE  LogInv'
<1> DEFINE n      == Len(stack)
           st     == Front(stack)
           prefix == Truncated
           f      == stack[n]
           v      == Container(f)
<1>1. /\ stack # <<>> /\ ~InFlight /\ Attach(st, prefix, Container(Last(stack)))
      /\ ~InFlight' /\ failed' = None
  BY DEF ContainerEnded
<1>2. TreeOK /\ LogOK /\ ~FrameLost BY DEF Inv, FrameLost
<1>3. IsStack(st) /\ IsSequence(prefix) /\ CacheAgrees(st, prefix) BY <1>1, <1>2, Popped
<1>4. /\ n \in Nat \ {0} /\ Len(st) = n - 1 /\ Last(stack) = f
      /\ IsSequence(path_prefix) /\ Len(path_prefix) = n - 1
      /\ \A i \in 1..(n - 1) : st[i] = stack[i]
      /\ Slot(st, prefix) = path_prefix
      /\ FramePath(path_prefix, n) = path_prefix
      /\ \A k \in 1..(n - 1) : FramePath(prefix, k) = FramePath(path_prefix, k)
      /\ \A i \in 1..(n - 2) : prefix[i] = path_prefix[i]
  BY <1>1, <1>2, PoppedPaths
<1>5. IsFrame(f) /\ n \in 1..n BY <1>2, <1>4 DEF TreeOK, IsStack
<1>6. v.type = f.kind /\ v.data = f.children /\ v = Scalar(v.type, v.data) /\ v # None
  BY DEF Container, Scalar, NoneIsNoValue
<1> HIDE DEF v, n, st, prefix
<1>7. IsFinalValue(v)
  BY <1>5, <1>6 DEF IsFinalValue, IsFrame, LogInv, FramesShaped, ContainerTypes, n
<1>8. \A j \in 1..Len(v.data) :
        Has(events, Completed(Append(path_prefix, v.data[j].token), v.data[j].value))
  BY <1>4, <1>5, <1>6 DEF LogInv, FiledLogged, n
<1>9. HasStarted(events, path_prefix) BY <1>4, <1>5 DEF LogInv, FramesStarted, n
<1>10. Len(st) <= MaxDepth BY <1>4, ParserAssumption DEF LogInv, n
<1>11. FramesShaped(st) BY <1>4 DEF LogInv, FramesShaped, n
<1>12. FiledLogged(st, prefix, events) BY <1>4 DEF LogInv, FiledLogged, n
<1>13. FramesStarted(st, prefix, events) BY <1>4 DEF LogInv, FramesStarted, n
<1>14. root = None /\ DocumentLast(events, "Value")
  <2>1. expect # "Done" BY <1>1, <1>2 DEF TreeOK, ExpectAgrees
  <2> QED BY <2>1 DEF LogInv, RootOK, DocumentLast
<1>15. ASSUME NEW path, Anchored(stack, path_prefix, path)
       PROVE  Anchored(st, prefix, path) \/ AtOrBelow(path, path_prefix)
  <2>1. PICK k \in 1..n :
          /\ k <= Len(path) /\ \A i \in 1..(k - 1) : path[i] = path_prefix[i]
          /\ \E j \in 1..Len(stack[k].children) : path[k] = stack[k].children[j].token
    BY <1>15 DEF Anchored, n
  <2>2. CASE k = n
    <3>1. n - 1 <= Len(path)
      <4>1. CASE Len(path) \in Int BY <1>4, <2>1, <2>2, <4>1
      <4>2. CASE Len(path) \notin Int BY <2>1, <2>2, <4>2
      <4> QED BY <4>1, <4>2
    <3> QED BY <1>4, <2>1, <2>2, <3>1 DEF AtOrBelow
  <2>3. CASE k # n
    <3>1. k \in 1..Len(st) /\ st[k] = stack[k] BY <1>4, <2>3
    <3>2. \A i \in 1..(k - 1) : path[i] = prefix[i] BY <1>4, <2>1, <3>1
    <3> QED BY <2>1, <3>1, <3>2 DEF Anchored
  <2> QED BY <2>2, <2>3
<1>16. ASSUME NEW e, ChildOfFrame(stack, path_prefix, e)
       PROVE  ChildOf(path_prefix, v, e) \/ ChildOfFrame(st, prefix, e)
  <2>1. PICK k \in 1..n : \E j \in 1..Len(stack[k].children) :
          /\ e.path = Append(FramePath(path_prefix, k), stack[k].children[j].token)
          /\ e.value = stack[k].children[j].value
    BY <1>16 DEF ChildOfFrame, n
  <2>2. CASE k = n
    <3>1. v.type \in ContainerTypes BY <1>5, <1>6 DEF IsFrame, ContainerTypes
    <3> QED BY <1>4, <1>6, <2>1, <2>2, <3>1 DEF ChildOf
  <2>3. CASE k # n
    <3>1. k \in 1..Len(st) /\ st[k] = stack[k] BY <1>4, <2>3
    <3>2. FramePath(prefix, k) = FramePath(path_prefix, k) BY <1>4, <2>3
    <3> QED BY <2>1, <3>1, <3>2 DEF ChildOfFrame
  <2> QED BY <2>2, <2>3
<1>17. ASSUME NEW i \in 1..Len(events), events[i].type = "ValueCompleted"
       PROVE  /\ Anchored(st, prefix, events[i].path) \/ AtOrBelow(events[i].path, path_prefix)
              /\ ChildOf(path_prefix, v, events[i]) \/ HasParent(st, prefix, events, events[i])
  <2>1. Anchored(stack, path_prefix, events[i].path)
        /\ HasParent(stack, path_prefix, events, events[i])
    BY <1>1, <1>2, <1>17 DEF LogInv, DoneAnchored, DoneHasParent
  <2> QED BY <1>15, <1>16, <2>1 DEF HasParent
<1>18. StartedWhere({path_prefix}, st, prefix, events)
  <2> SUFFICES ASSUME NEW i \in 1..Len(events), events[i].type = "ValueStarted"
               PROVE  \/ events[i].path = path_prefix
                      \/ \E k \in 1..Len(st) : events[i].path = FramePath(prefix, k)
                      \/ DoneAt(events, events[i].path)
    BY DEF StartedWhere
  <2>1. \/ \E k \in 1..n : events[i].path = FramePath(path_prefix, k)
        \/ DoneAt(events, events[i].path)
    BY <1>1 DEF LogInv, StartedWhere, OpenSlots, n
  <2>2. ASSUME NEW k \in 1..n, events[i].path = FramePath(path_prefix, k)
        PROVE  \/ events[i].path = path_prefix
               \/ \E m \in 1..Len(st) : events[i].path = FramePath(prefix, m)
    <3>1. CASE k = n BY <1>4, <2>2, <3>1
    <3>2. CASE k # n
      <4>1. k \in 1..Len(st) /\ FramePath(prefix, k) = FramePath(path_prefix, k) BY <1>4, <3>2
      <4> QED BY <2>2, <4>1
    <3> QED BY <3>1, <3>2
  <2> QED BY <2>1, <2>2
<1>19. \A i \in 1..Len(events) : events[i].type = "ValueProgressed" => ProgressEnded(events, i)
  BY <1>1 DEF LogInv, ProgressWhere, InFlight
<1>20. LogShaped(events) BY DEF LogInv
<1>21. Ready(st, prefix, v)
  BY <1>4, <1>7, <1>8, <1>9, <1>10, <1>11, <1>12, <1>13, <1>14, <1>17, <1>18, <1>19, <1>20 DEF Ready
<1> QED BY <1>1, <1>2, <1>3, <1>4, <1>21, AttachLog DEF v, st, prefix

LEMMA QuietLog ==
  ASSUME Inv, Inv', LogInv, failed = None, Quiet
  PROVE  LogInv'
<1>1. /\ stack' = stack /\ root' = root /\ path_prefix' = path_prefix /\ events' = events
      /\ (expect' = "Done") <=> (expect = "Done")
      /\ InFlight' <=> InFlight
      /\ ~FrameLost' /\ ~FrameLost
  BY DEF Quiet, FrameLost
<1>2. SlotPath' = SlotPath /\ OpenSlots' = OpenSlots BY <1>1 DEF SlotPath, OpenSlots
<1>3. failed' = None => ProgressWhere'
  <2> SUFFICES ASSUME failed' = None, NEW i \in 1..Len(events), events[i].type = "ValueProgressed"
               PROVE  \/ Growing' /\ ProgressOpen(SlotPath, tok'.decoded, events[i])
                           /\ Len(events[i].stable_prefix) <= reported_prefix'
                      \/ ProgressEnded(events, i)
    BY <1>1, <1>2 DEF ProgressWhere
  <2>1. \/ Growing /\ ProgressOpen(SlotPath, tok.decoded, events[i])
             /\ Len(events[i].stable_prefix) <= reported_prefix
        \/ ProgressEnded(events, i)
    BY DEF LogInv, ProgressWhere
  <2>2. CASE Growing /\ ProgressOpen(SlotPath, tok.decoded, events[i])
              /\ Len(events[i].stable_prefix) <= reported_prefix
    <3>1. Growing' /\ reported_prefix' = reported_prefix /\ IsPrefix(tok.decoded, tok'.decoded)
      BY <2>2 DEF Quiet
    <3>2. IsSequence(tok.decoded) BY <2>2, Text DEF Growing
    <3>3. IsSequence(tok'.decoded)
      <4>1. tok'.type = "Str" /\ tok' \in Tok BY <3>1 DEF Growing, Inv, TokenOK
      <4>2. tok'.decoded \in Seq(Byte) BY <4>1 DEF Tok, NoTok
      <4> QED BY <4>2, SeqIsSequence
    <3>4. IsSequence(events[i].stable_prefix) BY DEF LogInv, LogShaped, ShapeAt
    <3>5. IsPrefix(events[i].stable_prefix, tok'.decoded)
      BY <2>2, <3>1, <3>2, <3>3, <3>4, PrefixTransitive DEF ProgressOpen
    <3> QED BY <2>2, <3>1, <3>5 DEF ProgressOpen
  <2> QED BY <2>1, <2>2
<1>4. NothingDone' BY <1>1 DEF LogInv, NothingDone
<1>5. RootOK' BY <1>1 DEF LogInv, RootOK
<1>6. DocumentLast(events', expect') BY <1>1 DEF LogInv, DocumentLast
<1> QED BY <1>1, <1>2, <1>3, <1>4, <1>5, <1>6 DEF LogInv

(* An event that completes nothing. *)
LEMMA Announcement ==
  ASSUME LogOK, LogShaped(events), NEW e, events' = Append(events, e),
         e.type \in {"ValueStarted", "ValueProgressed"}, IsSequence(e.path), Len(e.path) <= MaxDepth,
         e.type = "ValueProgressed" => IsSequence(e.stable_prefix) /\ HasStarted(events, e.path)
  PROVE  /\ LogShaped(events') /\ Extends(events, events')
         /\ IsSequence(events') /\ IsSequence(events)
         /\ Len(events) \in Nat /\ Len(events') = Len(events) + 1 /\ events'[Len(events) + 1] = e
         /\ \A i \in 1..Len(events) : events'[i] = events[i]
         /\ \A i \in 1..Len(events') : i \in 1..Len(events) \/ i = Len(events) + 1
<1> DEFINE n == Len(events)
<1>1. /\ IsSequence(events) /\ n \in Nat /\ IsSequence(events')
      /\ Len(events') = n + 1 /\ events'[n + 1] = e
      /\ \A i \in 1..n : events'[i] = events[i]
  BY AppendSequence DEF LogOK, IsSequence
<1>2. Extends(events, events') BY <1>1 DEF Extends
<1>3. ShapeAt(events', n + 1) BY <1>1 DEF ShapeAt, EventTypes
<1>4. ChildrenAt(events', n + 1) BY <1>1 DEF ChildrenAt
<1>5. StartAt(events', n + 1) BY <1>1 DEF StartAt, HasStarted
<1>6. \A i \in (n + 1)..Len(events') : i = n + 1 BY <1>1
<1>7. LogShaped(events') BY <1>1, <1>2, <1>3, <1>4, <1>5, <1>6, LogExtended
<1> QED BY <1>1, <1>2, <1>7

(* ...and so leaves what is said of the values that are complete. *)
LEMMA StillDone ==
  ASSUME IsSequence(events), IsSequence(events'), Extends(events, events'), NEW st, NEW prefix,
         \A i \in 1..Len(events') : i \in 1..Len(events) \/ events'[i].type # "ValueCompleted"
  PROVE  /\ FiledLogged(st, prefix, events) => FiledLogged(st, prefix, events')
         /\ FramesStarted(st, prefix, events) => FramesStarted(st, prefix, events')
         /\ DoneAnchored(st, prefix, events) => DoneAnchored(st, prefix, events')
         /\ \A rt : DoneHasParent(st, prefix, rt, events) => DoneHasParent(st, prefix, rt, events')
<1>1. /\ \A e : Has(events, e) => Has(events', e)
      /\ \A path : HasStarted(events, path) => HasStarted(events', path)
      /\ \A e : ChildOfDone(events, e) => ChildOfDone(events', e)
  BY StillThere
<1>2. \A i \in 1..Len(events) : events'[i] = events[i] BY DEF Extends
<1>3. FiledLogged(st, prefix, events) => FiledLogged(st, prefix, events') BY <1>1 DEF FiledLogged
<1>4. FramesStarted(st, prefix, events) => FramesStarted(st, prefix, events')
  BY <1>1 DEF FramesStarted
<1>5. DoneAnchored(st, prefix, events) => DoneAnchored(st, prefix, events')
  BY <1>2 DEF DoneAnchored
<1>6. \A rt : DoneHasParent(st, prefix, rt, events) => DoneHasParent(st, prefix, rt, events')
  BY <1>1, <1>2 DEF DoneHasParent, HasParent
<1> QED BY <1>3, <1>4, <1>5, <1>6

LEMMA SlotShape ==
  ASSUME Inv, LogInv
  PROVE  IsSequence(SlotPath) /\ Len(SlotPath) = Len(stack) /\ Len(SlotPath) <= MaxDepth
BY FramePaths DEF Inv, TreeOK, PathCache, SlotPath, LogInv

(* The log after a value has been announced. *)
LEMMA BegunLog ==
  ASSUME Inv, LogInv, failed = None, Begun
  PROVE  /\ LogShaped(events') /\ Extends(events, events') /\ IsSequence(events') /\ IsSequence(events)
         /\ Len(events) \in Nat /\ Len(events') = Len(events) + 1
         /\ events'[Len(events) + 1].type = "ValueStarted"
         /\ events'[Len(events) + 1].path = SlotPath
         /\ \A i \in 1..Len(events) : events'[i] = events[i]
         /\ \A i \in 1..Len(events') : i \in 1..Len(events) \/ i = Len(events) + 1
         /\ HasStarted(events', SlotPath)
         /\ \A ex : ex # "Done" => DocumentLast(events', ex)
         /\ \A i \in 1..Len(events') : events'[i].type = "ValueProgressed" => ProgressEnded(events', i)
         /\ \A slots, st, prefix : StartedWhere(slots, st, prefix, events) /\ SlotPath \in slots
              => StartedWhere(slots, st, prefix, events')
<1>1. PICK kind : events' = Append(events, Started(SlotPath, kind)) BY DEF Begun
<1> DEFINE e == Started(SlotPath, kind)
           n == Len(events)
<1>2. e.type = "ValueStarted" /\ e.path = SlotPath BY DEF Started
<1>3. LogOK /\ LogShaped(events) BY DEF Inv, LogInv
<1>4. IsSequence(SlotPath) /\ Len(SlotPath) <= MaxDepth BY SlotShape
<1> HIDE DEF e
<1>5. /\ LogShaped(events') /\ Extends(events, events') /\ IsSequence(events') /\ IsSequence(events)
      /\ n \in Nat /\ Len(events') = n + 1 /\ events'[n + 1] = e
      /\ \A i \in 1..n : events'[i] = events[i]
      /\ \A i \in 1..Len(events') : i \in 1..n \/ i = n + 1
  BY <1>1, <1>2, <1>3, <1>4, Announcement DEF e
<1>6. HasStarted(events', SlotPath) BY <1>2, <1>5 DEF HasStarted
<1>7. expect # "Done" /\ ~InFlight BY DEF Begun
<1>8. \A ex : ex # "Done" => DocumentLast(events', ex)
  <2>1. \A i \in 1..n : events[i].type # "DocumentCompleted"
    BY <1>7 DEF LogInv, DocumentLast
  <2> QED BY <1>2, <1>5, <2>1 DEF DocumentLast
<1>9. ASSUME NEW i \in 1..Len(events'), events'[i].type = "ValueProgressed"
      PROVE  ProgressEnded(events', i)
  <2>1. i \in 1..n /\ events'[i] = events[i] BY <1>2, <1>5, <1>9
  <2>2. ProgressEnded(events, i) BY <1>7, <1>9, <2>1 DEF LogInv, ProgressWhere, InFlight
  <2> QED BY <1>5, <2>1, <2>2, StillThere
<1>10. ASSUME NEW slots, NEW st, NEW prefix, StartedWhere(slots, st, prefix, events), SlotPath \in slots
       PROVE  StartedWhere(slots, st, prefix, events')
  <2> SUFFICES ASSUME NEW i \in 1..Len(events'), events'[i].type = "ValueStarted"
               PROVE  \/ events'[i].path \in slots \/ DoneAt(events', events'[i].path)
                      \/ \E k \in 1..Len(st) : events'[i].path = FramePath(prefix, k)
    BY DEF StartedWhere
  <2>1. \A path : DoneAt(events, path) => DoneAt(events', path) BY <1>5, StillThere
  <2> QED BY <1>2, <1>5, <1>10, <2>1 DEF StartedWhere
<1> QED BY <1>2, <1>5, <1>6, <1>8, <1>9, <1>10

LEMMA ScalarBegunLog ==
  ASSUME Inv, LogInv, failed = None, ScalarBegun \/ ContainerRefused
  PROVE  LogInv'
<1> DEFINE n == Len(events)
<1>1. /\ Begun /\ stack' = stack /\ path_prefix' = path_prefix /\ expect' = expect /\ root' = root
      /\ ~FrameLost /\ ~FrameLost' /\ expect = "Value" /\ ~InFlight
      /\ failed' = None => InFlight'
  BY DEF ScalarBegun, ContainerRefused, FrameLost, Begun
<1>2. /\ LogShaped(events') /\ Extends(events, events') /\ IsSequence(events') /\ IsSequence(events)
      /\ n \in Nat /\ Len(events') = n + 1
      /\ events'[n + 1].type = "ValueStarted" 
      /\ \A i \in 1..n : events'[i] = events[i]
      /\ \A i \in 1..Len(events') : i \in 1..n \/ i = n + 1
      /\ HasStarted(events', SlotPath) /\ DocumentLast(events', "Value")
      /\ \A i \in 1..Len(events') : events'[i].type = "ValueProgressed" => ProgressEnded(events', i)
  BY <1>1, BegunLog
<1>3. SlotPath' = SlotPath BY <1>1 DEF SlotPath
<1>4. /\ FiledLogged(stack, path_prefix, events') /\ FramesStarted(stack, path_prefix, events')
      /\ DoneAnchored(stack, path_prefix, events')
      /\ DoneHasParent(stack, path_prefix, root, events')
  BY <1>1, <1>2, StillDone DEF LogInv
<1>5. NothingDone' BY <1>1, <1>2 DEF LogInv, NothingDone
<1>6. RootOK' BY <1>1 DEF LogInv, RootOK
<1>7. ProgressWhere' BY <1>2 DEF ProgressWhere
<1>8. failed' = None => StartedWhere(OpenSlots', stack', path_prefix', events')
  <2>1. StartedWhere({SlotPath}, stack, path_prefix, events)
    BY <1>1 DEF LogInv, StartedWhere, OpenSlots
  <2>2. StartedWhere({SlotPath}, stack, path_prefix, events') BY <1>1, <2>1, BegunLog
  <2> QED BY <1>1, <1>3, <2>2 DEF OpenSlots
<1> QED BY <1>1, <1>2, <1>3, <1>4, <1>5, <1>6, <1>7, <1>8 DEF LogInv

LEMMA KeyReadFrames ==
  ASSUME Inv, KeyRead
  PROVE  /\ Len(stack) \in Nat \ {0} /\ Len(stack') = Len(stack) /\ stack' # <<>> /\ IsSequence(stack')
         /\ \A k \in 1..Len(stack) : /\ stack'[k].kind = stack[k].kind
                                     /\ stack'[k].children = stack[k].children
                                     /\ k # Len(stack) => stack'[k] = stack[k]
<1> DEFINE n == Len(stack)
<1>1. PICK key \in Seq(Byte) : stack' = [stack EXCEPT ![n] = [@ EXCEPT !.pending_key = key]]
  BY DEF KeyRead
<1>2. stack # <<>> /\ IsStack(stack) /\ IsSequence(stack) BY DEF KeyRead, Inv, TreeOK, IsStack
<1>3. n \in Nat \ {0} /\ n \in 1..n BY <1>2, FrontSequence DEF IsStack
<1> DEFINE f == stack[n]
           g == [f EXCEPT !.pending_key = key]
<1>4. IsFrame(f) BY <1>2, <1>3 DEF IsStack
<1>5. g.kind = f.kind /\ g.children = f.children
  <2> DEFINE h == [kind |-> f.kind, children |-> f.children, pending_key |-> f.pending_key,
                   path_len |-> f.path_len]
  <2>1. f = h BY <1>4 DEF IsFrame
  <2>2. [h EXCEPT !.pending_key = key].kind = f.kind
        /\ [h EXCEPT !.pending_key = key].children = f.children OBVIOUS
  <2> QED BY <2>1, <2>2
<1>6. stack' = [stack EXCEPT ![n] = g] BY <1>1, <1>3
<1> HIDE DEF g
<1>7. /\ IsSequence(stack') /\ Len(stack') = n /\ stack'[n] = g
      /\ \A k \in 1..n : k # n => stack'[k] = stack[k]
  <2> DEFINE new == [stack EXCEPT ![n] = g]
  <2>1. IsSequence(new) /\ Len(new) = n /\ new[n] = g BY <1>2, <1>3, ExceptSequence, SMTT(60)
  <2>2. \A k \in 1..n : k # n => new[k] = stack[k] BY <1>2, <1>3, ExceptSequence
  <2>3. stack' = new BY <1>6
  <2> HIDE DEF new
  <2> QED BY <2>1, <2>2, <2>3
<1>8. \A k \in 1..n : stack'[k].kind = stack[k].kind /\ stack'[k].children = stack[k].children
  BY <1>5, <1>7
<1>9. stack' # <<>> BY <1>3, <1>7, NonEmptySequence
<1> QED BY <1>3, <1>7, <1>8, <1>9

LEMMA KeyReadLog ==
  ASSUME Inv, LogInv, failed = None, KeyRead
  PROVE  LogInv'
<1> DEFINE n == Len(stack)
<1>2. stack # <<>> BY DEF KeyRead
<1>7. n \in Nat /\ Len(stack') = n BY KeyReadFrames
<1>8. \A k \in 1..n : stack'[k].kind = stack[k].kind /\ stack'[k].children = stack[k].children
  BY KeyReadFrames
<1>9. stack' # <<>> BY KeyReadFrames
<1>10. /\ root' = root /\ path_prefix' = path_prefix /\ events' = events
       /\ expect # "Done" /\ expect' # "Done" /\ ~InFlight /\ ~InFlight' /\ failed' = None
       /\ ~FrameLost /\ ~FrameLost'
  BY DEF KeyRead, FrameLost
<1>11. FramesShaped(stack') BY <1>7, <1>8 DEF LogInv, FramesShaped
<1>12. FiledLogged(stack', path_prefix, events) BY <1>7, <1>8 DEF LogInv, FiledLogged
<1>13. FramesStarted(stack', path_prefix, events) BY <1>7, <1>10 DEF LogInv, FramesStarted
<1>14. DoneAnchored(stack', path_prefix, events)
  <2>1. \A path : Anchored(stack, path_prefix, path) => Anchored(stack', path_prefix, path)
    BY <1>7, <1>8 DEF Anchored
  <2> QED BY <1>2, <1>10, <2>1 DEF LogInv, DoneAnchored
<1>15. DoneHasParent(stack', path_prefix, root, events)
  <2>1. \A e : ChildOfFrame(stack, path_prefix, e) => ChildOfFrame(stack', path_prefix, e)
    BY <1>7, <1>8 DEF ChildOfFrame
  <2> QED BY <1>2, <1>10, <2>1 DEF LogInv, DoneHasParent, HasParent
<1>16. StartedWhere(OpenSlots', stack', path_prefix, events)
  BY <1>7, <1>10 DEF LogInv, StartedWhere, OpenSlots
<1>17. ProgressWhere' BY <1>10 DEF LogInv, ProgressWhere, InFlight
<1>18. NothingDone' /\ RootOK' BY <1>9, <1>10 DEF LogInv, NothingDone, RootOK
<1>19. DocumentLast(events, expect') BY <1>10 DEF LogInv, DocumentLast
<1> QED BY <1>7, <1>10, <1>11, <1>12, <1>13, <1>14, <1>15, <1>16, <1>17, <1>18, <1>19 DEF LogInv

LEMMA ProgressToldLog ==
  ASSUME Inv, LogInv, failed = None, ProgressTold
  PROVE  LogInv'
<1> DEFINE n == Len(events)
           e == Progressed(SlotPath, Stable)
<1>1. /\ Growing /\ events' = Append(events, e)
      /\ Len(Stable) > reported_prefix /\ reported_prefix' = Len(Stable)
      /\ UNCHANGED <<stack, expect, root, path_prefix, tok, failed>>
  BY DEF ProgressTold
<1>2. ~FrameLost /\ ~FrameLost' /\ InFlight /\ InFlight' /\ Growing' /\ SlotPath' = SlotPath
      /\ OpenSlots' = {SlotPath} /\ OpenSlots = {SlotPath} /\ expect = "Value"
  BY <1>1 DEF FrameLost, InFlight, Growing, SlotPath, OpenSlots, Inv, TokenOK, TokenAgrees
<1>3. tok.decoded \in Seq(Byte) BY <1>1, Text DEF Growing
<1>4. IsSequence(Stable) /\ IsPrefix(Stable, tok.decoded) /\ Len(Stable) \in Nat
  BY <1>3, StableIsPrefix DEF Stable
<1>5. e.type = "ValueProgressed" /\ e.path = SlotPath /\ e.stable_prefix = Stable BY DEF Progressed
<1>6. IsSequence(SlotPath) /\ Len(SlotPath) <= MaxDepth BY SlotShape
<1>7. HasStarted(events, SlotPath) /\ LogOK /\ LogShaped(events) BY <1>2 DEF LogInv, Inv
<1> HIDE DEF e
<1>8. /\ LogShaped(events') /\ Extends(events, events') /\ IsSequence(events') /\ IsSequence(events)
      /\ n \in Nat /\ Len(events') = n + 1 /\ events'[n + 1] = e
      /\ \A i \in 1..n : events'[i] = events[i]
      /\ \A i \in 1..Len(events') : i \in 1..n \/ i = n + 1
  BY <1>1, <1>4, <1>5, <1>6, <1>7, Announcement
<1>9. /\ FiledLogged(stack, path_prefix, events') /\ FramesStarted(stack, path_prefix, events')
      /\ DoneAnchored(stack, path_prefix, events')
      /\ DoneHasParent(stack, path_prefix, root, events')
  BY <1>2, <1>5, <1>8, StillDone DEF LogInv
<1>10. /\ \A path : HasStarted(events, path) => HasStarted(events', path)
       /\ \A path : DoneAt(events, path) => DoneAt(events', path)
       /\ \A i \in 1..n : ProgressEnded(events, i) => ProgressEnded(events', i)
  BY <1>8, StillThere
<1>11. NothingDone' BY <1>1, <1>2, <1>5, <1>8 DEF LogInv, NothingDone
<1>12. RootOK' BY <1>1, <1>2 DEF LogInv, RootOK
<1>13. DocumentLast(events', expect') BY <1>1, <1>2, <1>5, <1>8 DEF LogInv, DocumentLast
<1>14. StartedWhere({SlotPath}, stack, path_prefix, events')
  <2> SUFFICES ASSUME NEW i \in 1..Len(events'), events'[i].type = "ValueStarted"
               PROVE  \/ events'[i].path = SlotPath \/ DoneAt(events', events'[i].path)
                      \/ \E k \in 1..Len(stack) : events'[i].path = FramePath(path_prefix, k)
    BY DEF StartedWhere
  <2> QED BY <1>2, <1>5, <1>8, <1>10 DEF LogInv, StartedWhere
<1>15. ProgressWhere'
  <2> SUFFICES ASSUME NEW i \in 1..Len(events'), events'[i].type = "ValueProgressed"
               PROVE  \/ /\ ProgressOpen(SlotPath, tok.decoded, events'[i])
                         /\ Len(events'[i].stable_prefix) <= Len(Stable)
                      \/ ProgressEnded(events', i)
    BY <1>1, <1>2 DEF ProgressWhere
  <2>1. CASE i = n + 1 BY <1>4, <1>5, <1>8, <2>1 DEF ProgressOpen
  <2>2. CASE i \in 1..n
    <3>1. Len(events[i].stable_prefix) \in Nat
      BY <1>8, <2>2 DEF LogInv, LogShaped, ShapeAt, IsSequence
    <3>2. reported_prefix \in Nat BY <1>7 DEF LogOK
    <3> QED BY <1>1, <1>4, <1>8, <1>10, <2>2, <3>1, <3>2 DEF LogInv, ProgressWhere
  <2> QED BY <1>8, <2>1, <2>2
<1> QED BY <1>1, <1>2, <1>8, <1>9, <1>10, <1>11, <1>12, <1>13, <1>14, <1>15, <1>7 DEF LogInv

LEMMA ContainerBegunLog ==
  ASSUME Inv, Inv', LogInv, failed = None, ContainerBegun
  PROVE  LogInv'
<1> DEFINE n == Len(stack)
<1>1. /\ Begun /\ n < MaxDepth /\ path_prefix' = SlotPath /\ root' = root
      /\ expect = "Value" /\ expect' # "Done" /\ ~InFlight /\ ~InFlight' /\ failed' = None
      /\ ~FrameLost /\ ~FrameLost'
  BY DEF ContainerBegun, Begun, FrameLost
<1>2. PICK kind \in {"Object", "Array"} : stack' = Append(stack, Frame(kind)) BY DEF ContainerBegun
<1>3. /\ IsStack(stack) /\ IsSequence(stack) /\ IsSequence(path_prefix) /\ CacheAgrees(stack, path_prefix)
      /\ IsStack(stack') /\ IsSequence(path_prefix') /\ CacheAgrees(stack', path_prefix')
  BY DEF Inv, TreeOK, PathCache, IsStack
<1>4. Frame(kind).children = <<>> BY DEF Frame
<1>5. /\ Len(stack') = n + 1 /\ \A k \in 1..n : stack'[k] = stack[k]
      /\ stack'[n + 1].children = <<>>
  BY <1>2, <1>3, <1>4, AppendSequence
<1>6. n \in Nat /\ (stack = <<>> <=> n = 0) /\ stack' # <<>>
  <2>1. n \in Nat /\ (stack = <<>> <=> n = 0) BY <1>3, FramePaths
  <2>2. stack' = <<>> <=> Len(stack') = 0 BY <1>3, FramePaths
  <2> QED BY <2>1, <2>2, <1>5
<1>7. /\ FramePath(SlotPath, n + 1) = SlotPath
      /\ \A k \in 1..n : FramePath(SlotPath, k) = FramePath(path_prefix, k)
      /\ \A i \in 1..(n - 1) : SlotPath[i] = path_prefix[i]
  <2>1. IsSequence(SlotPath) /\ Len(SlotPath) = n /\ \A i \in 1..Len(path_prefix) : SlotPath[i] = path_prefix[i]
    BY <1>3, FramePaths DEF SlotPath
  <2>2. Len(path_prefix) = IF n = 0 THEN 0 ELSE n - 1 BY <1>3, <1>6 DEF CacheAgrees
  <2>3. FramePath(path_prefix', n + 1) = path_prefix' BY <1>3, <1>5, <1>6, FramePaths
  <2>4. ASSUME NEW k \in 1..n PROVE FramePath(SlotPath, k) = FramePath(path_prefix, k)
    <3>1. /\ IsSequence(FramePath(path_prefix, k)) /\ Len(FramePath(path_prefix, k)) = k - 1
          /\ \A i \in 1..(k - 1) : FramePath(path_prefix, k)[i] = path_prefix[i]
      BY <1>3, FramePaths
    <3>2. k - 1 \in 0..Len(SlotPath) BY <1>6, <2>1
    <3>3. /\ IsSequence(FramePath(SlotPath, k)) /\ Len(FramePath(SlotPath, k)) = k - 1
          /\ \A i \in 1..(k - 1) : FramePath(SlotPath, k)[i] = SlotPath[i]
      BY <2>1, <3>2, SubSeqSequence DEF FramePath
    <3>4. \A i \in 1..(k - 1) : SlotPath[i] = path_prefix[i] BY <1>6, <2>1, <2>2
    <3> QED BY <3>1, <3>3, <3>4, SameSequence
  <2>5. \A i \in 1..(n - 1) : SlotPath[i] = path_prefix[i] BY <1>6, <2>1, <2>2
  <2> QED BY <1>1, <2>3, <2>4, <2>5
<1>8. /\ LogShaped(events') /\ Extends(events, events') /\ IsSequence(events') /\ IsSequence(events)
      /\ Len(events') = Len(events) + 1 /\ Len(events) \in Nat
      /\ events'[Len(events) + 1].type = "ValueStarted" 
      /\ \A i \in 1..Len(events) : events'[i] = events[i]
      /\ \A i \in 1..Len(events') : i \in 1..Len(events) \/ i = Len(events) + 1
      /\ HasStarted(events', SlotPath) /\ DocumentLast(events', expect')
      /\ \A i \in 1..Len(events') : events'[i].type = "ValueProgressed" => ProgressEnded(events', i)
  BY <1>1, BegunLog
<1>9. /\ FiledLogged(stack, path_prefix, events') /\ FramesStarted(stack, path_prefix, events')
      /\ DoneAnchored(stack, path_prefix, events')
      /\ DoneHasParent(stack, path_prefix, root, events')
  BY <1>1, <1>8, StillDone DEF LogInv
<1> DEFINE pp == SlotPath
<1> HIDE DEF n, pp
<1>10. ASSUME NEW k \in 1..(n + 1), NEW j \in 1..Len(stack'[k].children)
       PROVE  k \in 1..n /\ stack'[k] = stack[k] /\ FramePath(pp, k) = FramePath(path_prefix, k)
  <2>1. k # n + 1 BY <1>5, <1>6
  <2> QED BY <1>5, <1>6, <1>7, <2>1 DEF pp
<1>11. FramesShaped(stack') BY <1>5, <1>10 DEF LogInv, FramesShaped, n
<1>12. FiledLogged(stack', pp, events') BY <1>5, <1>9, <1>10 DEF FiledLogged, n
<1>13. FramesStarted(stack', pp, events')
  <2> SUFFICES ASSUME NEW k \in 1..(n + 1) PROVE HasStarted(events', FramePath(pp, k))
    BY <1>5 DEF FramesStarted
  <2>1. CASE k = n + 1 BY <1>7, <1>8, <2>1 DEF pp
  <2>2. CASE k # n + 1
    <3>1. k \in 1..n BY <1>6, <2>2
    <3> QED BY <1>7, <1>9, <3>1 DEF FramesStarted, n, pp
  <2> QED BY <2>1, <2>2
<1>14. ASSUME NEW i \in 1..Len(events'), events'[i].type = "ValueCompleted"
       PROVE  /\ Anchored(stack, path_prefix, events'[i].path)
              /\ HasParent(stack, path_prefix, events', events'[i])
  <2>1. i \in 1..Len(events) /\ events'[i] = events[i] BY <1>8, <1>14
  <2>2. stack # <<>> BY <1>1, <1>14, <2>1 DEF LogInv, NothingDone
  <2> QED BY <1>9, <1>14, <2>2 DEF DoneAnchored, DoneHasParent
<1>15. DoneAnchored(stack', pp, events')
  <2>1. ASSUME NEW path, Anchored(stack, path_prefix, path) PROVE Anchored(stack', pp, path)
    <3>1. PICK k \in 1..n :
            /\ k <= Len(path) /\ \A i \in 1..(k - 1) : path[i] = path_prefix[i]
            /\ \E j \in 1..Len(stack[k].children) : path[k] = stack[k].children[j].token
      BY <2>1 DEF Anchored, n
    <3>2. k \in 1..(n + 1) /\ stack'[k] = stack[k] BY <1>5, <1>6
    <3>3. \A i \in 1..(k - 1) : path[i] = pp[i] BY <1>6, <1>7, <3>1 DEF pp
    <3> QED BY <1>5, <3>1, <3>2, <3>3 DEF Anchored
  <2> QED BY <1>14, <2>1 DEF DoneAnchored
<1>16. DoneHasParent(stack', pp, root', events')
  <2>1. ASSUME NEW e, ChildOfFrame(stack, path_prefix, e) PROVE ChildOfFrame(stack', pp, e)
    <3>1. PICK k \in 1..n : \E j \in 1..Len(stack[k].children) :
            /\ e.path = Append(FramePath(path_prefix, k), stack[k].children[j].token)
            /\ e.value = stack[k].children[j].value
      BY <2>1 DEF ChildOfFrame, n
    <3>2. k \in 1..(n + 1) /\ stack'[k] = stack[k] /\ FramePath(pp, k) = FramePath(path_prefix, k)
      BY <1>5, <1>6, <1>7 DEF pp
    <3> QED BY <1>5, <3>1, <3>2 DEF ChildOfFrame
  <2> QED BY <1>14, <2>1 DEF DoneHasParent, HasParent
<1>17. StartedWhere(OpenSlots', stack', pp, events')
  <2>1. StartedWhere({pp}, stack, path_prefix, events)
    BY <1>1 DEF LogInv, StartedWhere, OpenSlots
  <2>2. StartedWhere({pp}, stack, path_prefix, events') BY <1>1, <2>1, BegunLog DEF pp
  <2> SUFFICES ASSUME NEW i \in 1..Len(events'), events'[i].type = "ValueStarted"
               PROVE  \/ DoneAt(events', events'[i].path)
                      \/ \E k \in 1..(n + 1) : events'[i].path = FramePath(pp, k)
    BY <1>5 DEF StartedWhere
  <2>3. CASE events'[i].path = pp
    <3>1. n + 1 \in 1..(n + 1) /\ FramePath(pp, n + 1) = pp BY <1>6, <1>7 DEF pp
    <3> QED BY <2>3, <3>1
  <2>4. CASE \E k \in 1..n : events'[i].path = FramePath(path_prefix, k)
    <3>1. PICK k \in 1..n : events'[i].path = FramePath(path_prefix, k) BY <2>4
    <3>2. k \in 1..(n + 1) /\ FramePath(pp, k) = FramePath(path_prefix, k) BY <1>6, <1>7 DEF pp
    <3> QED BY <3>1, <3>2
  <2> QED BY <2>2, <2>3, <2>4 DEF StartedWhere, n
<1>18. ProgressWhere' BY <1>8 DEF ProgressWhere
<1>19. NothingDone' /\ RootOK' BY <1>1, <1>6 DEF NothingDone, RootOK, LogInv
<1>20. Len(stack') <= MaxDepth BY <1>1, <1>5, <1>6, ParserAssumption DEF n
<1> QED BY <1>1, <1>8, <1>11, <1>12, <1>13, <1>15, <1>16, <1>17, <1>18, <1>19, <1>20 DEF LogInv, pp

LEMMA FrameDroppedLog ==
  ASSUME Inv, LogInv, failed = None, FrameDropped
  PROVE  LogInv'
<1> DEFINE n  == Len(stack)
           st == Front(stack)
<1>1. /\ stack # <<>> /\ stack' = st /\ path_prefix' = Truncated
      /\ expect' = expect /\ root' = root /\ events' = events
      /\ FrameLost' /\ failed' # None
  BY DEF FrameDropped
<1>2. TreeOK BY DEF Inv
<1>3. /\ n \in Nat \ {0} /\ Len(st) = n - 1
      /\ \A i \in 1..(n - 1) : st[i] = stack[i]
      /\ \A k \in 1..(n - 1) : FramePath(Truncated, k) = FramePath(path_prefix, k)
  BY <1>1, <1>2, PoppedPaths
<1>4. expect # "Done" BY <1>1, <1>2 DEF TreeOK, ExpectAgrees
<1> HIDE DEF n, st
<1>5. FramesShaped(st) BY <1>3 DEF LogInv, FramesShaped, n
<1>6. FiledLogged(st, Truncated, events) BY <1>3 DEF LogInv, FiledLogged, n
<1>7. RootOK' BY <1>1, <1>4 DEF LogInv, RootOK
<1>8. Len(st) <= MaxDepth BY <1>3, ParserAssumption DEF LogInv, n
<1>9. LogShaped(events) /\ DocumentLast(events, expect) BY DEF LogInv
<1> QED BY <1>1, <1>5, <1>6, <1>7, <1>8, <1>9 DEF LogInv

LEMMA InitLog == Init => LogInv
<1> SUFFICES ASSUME Init PROVE LogInv OBVIOUS
<1>1. /\ stack = <<>> /\ expect = "Value" /\ tok = NoTok /\ root = None /\ failed = None /\ events = <<>>
  BY DEF Init
<1>2. Len(stack) = 0 /\ Len(events) = 0 BY <1>1
<1>3. LogShaped(events) BY <1>2 DEF LogShaped
<1>4. /\ FramesShaped(stack) /\ FiledLogged(stack, path_prefix, events)
      /\ FramesStarted(stack, path_prefix, events)
  BY <1>2 DEF FramesShaped, FiledLogged, FramesStarted
<1>5. RootOK /\ DocumentLast(events, expect) BY <1>1, <1>2 DEF RootOK, DocumentLast
<1>6. /\ DoneAnchored(stack, path_prefix, events) /\ NothingDone
      /\ DoneHasParent(stack, path_prefix, root, events)
  BY <1>1, <1>2 DEF DoneAnchored, NothingDone, DoneHasParent
<1>7. ~InFlight BY <1>1 DEF InFlight, Growing, NoTok
<1>8. StartedWhere(OpenSlots, stack, path_prefix, events) /\ ProgressWhere
  BY <1>2 DEF StartedWhere, ProgressWhere
<1> QED BY <1>2, <1>3, <1>4, <1>5, <1>6, <1>7, <1>8, ParserAssumption DEF LogInv

LEMMA NextLog == NoneIsNoValue /\ Inv /\ Inv' /\ LogInv /\ [Next]_vars => LogInv'
<1> SUFFICES ASSUME NoneIsNoValue, Inv, Inv', LogInv, [Next]_vars PROVE LogInv' OBVIOUS
<1>1. CASE Next
  <2>1. failed = None /\ Effect BY <1>1, NextEffect
  <2> QED BY <2>1, QuietLog, KeyReadLog, ScalarBegunLog, ContainerBegunLog, ScalarEndedLog,
             ContainerEndedLog, FrameDroppedLog, ProgressToldLog DEF Effect
<1>2. CASE UNCHANGED vars
  BY <1>2 DEF vars, LogInv, LogShaped, RootOK, NothingDone, FrameLost, InFlight, Growing, SlotPath,
     OpenSlots, ProgressWhere
<1> QED BY <1>1, <1>2

(* The log is faithful to the document: every event has what it needs      *)
(* before it, what is filed or open is in the log, and what the log calls  *)
(* complete is filed, or inside what is filed.                             *)
THEOREM LogInductive == ASSUME NoneIsNoValue PROVE Spec => []LogInv
<1>1. Spec => []Inv BY Inductive
<1>2. Init => LogInv BY InitLog
<1>3. NoneIsNoValue /\ Inv /\ Inv' /\ LogInv /\ [Next]_vars => LogInv' BY NextLog
<1> QED BY <1>1, <1>2, <1>3, PTL DEF Spec

-----------------------------------------------------------------------------
(* Repeated keys. *)

(* An array's next index is none of those it has filed. *)
LEMMA ArrayNeverRecurs ==
  ASSUME NEW f, IsFrame(f), f.kind = "Array", NEW j \in 1..Len(f.children),
         IsChild(f.kind, j, f.children[j])
  PROVE  f.children[j].token # SlotToken(f)
<1>1. Len(f.children) \in Nat /\ j - 1 \in Nat /\ j - 1 # Len(f.children) BY DEF IsFrame, IsSequence
<1>2. f.children[j].token = Decimal(j - 1) /\ SlotToken(f) = Decimal(Len(f.children))
  BY DEF IsChild, SlotToken
<1>3. IndexOf(Decimal(j - 1)) = j - 1 /\ IndexOf(Decimal(Len(f.children))) = Len(f.children)
  BY <1>1, IndexOfDecimal
<1> QED BY <1>1, <1>2, <1>3

(* A path that leads to the slots of the frames on its way is not complete *)
(* unless a key is repeated.                                               *)
LEMMA SlotNotDone ==
  ASSUME Inv, LogInv, ~FrameLost, stack # <<>>, NEW path, Len(path) \in 0..Len(stack),
         \A k \in 1..Len(path) : /\ path[k] = SlotToken(stack[k])
                                 /\ stack[k].kind = "Object" => ~Recurs(stack[k])
  PROVE  /\ ~DoneAt(events, path)
         /\ \A i \in 1..Len(events) : events[i].type = "ValueCompleted" =>
              ~AtOrBelow(path, events[i].path)
<1>1. ASSUME NEW i \in 1..Len(events), events[i].type = "ValueCompleted",
             AtOrBelow(path, events[i].path)
      PROVE  FALSE
  <2> DEFINE p == events[i].path
  <2>1. Anchored(stack, path_prefix, p) BY <1>1 DEF LogInv, DoneAnchored
  <2>2. IsSequence(p) /\ Len(p) \in Nat BY <1>1 DEF LogInv, LogShaped, ShapeAt, IsSequence
  <2>3. PICK k \in 1..Len(stack) :
          k <= Len(p) /\ \E j \in 1..Len(stack[k].children) : p[k] = stack[k].children[j].token
    BY <2>1 DEF Anchored
  <2>4. PICK j \in 1..Len(stack[k].children) : p[k] = stack[k].children[j].token BY <2>3
  <2>5. Len(stack) \in Nat /\ IsFrame(stack[k]) BY DEF Inv, TreeOK, IsStack, IsSequence
  <2>6. k \in 1..Len(p) /\ k \in 1..Len(path) BY <1>1, <2>2, <2>3, <2>5 DEF AtOrBelow
  <2>7. stack[k].children[j].token = SlotToken(stack[k]) BY <1>1, <2>4, <2>6 DEF AtOrBelow
  <2>9. stack[k].kind = "Array" BY <2>5, <2>6, <2>7 DEF Recurs, IsFrame
  <2>10. IsChild(stack[k].kind, j, stack[k].children[j]) BY DEF LogInv, FramesShaped
  <2> QED BY <2>5, <2>7, <2>9, <2>10, ArrayNeverRecurs
<1>2. \A i \in 1..Len(path) : path[i] = path[i] OBVIOUS
<1>3. AtOrBelow(path, path) BY DEF AtOrBelow
<1> QED BY <1>1, <1>3 DEF DoneAt

(* The slot of the innermost frame, and the path of the innermost frame.   *)
LEMMA SlotTokens ==
  ASSUME TreeOK, stack # <<>>
  PROVE  /\ Len(SlotPath) = Len(stack) /\ \A i \in 1..Len(SlotPath) : SlotPath[i] = SlotToken(stack[i])
         /\ Len(path_prefix) = Len(stack) - 1 /\ Len(stack) \in Nat \ {0}
         /\ \A i \in 1..Len(path_prefix) : path_prefix[i] = SlotToken(stack[i])
<1>1. IsStack(stack) /\ IsSequence(path_prefix) /\ CacheAgrees(stack, path_prefix)
  BY DEF TreeOK, PathCache
<1>2. /\ Len(stack) \in Nat \ {0} /\ Len(SlotPath) = Len(stack)
      /\ SlotPath = Append(path_prefix, SlotToken(stack[Len(stack)]))
      /\ Len(path_prefix) = Len(stack) - 1
  BY <1>1, FramePaths DEF SlotPath
<1>3. \A i \in 1..Len(path_prefix) : path_prefix[i] = SlotToken(stack[i]) BY <1>1, <1>2 DEF CacheAgrees
<1>4. /\ \A i \in 1..Len(path_prefix) : SlotPath[i] = path_prefix[i]
      /\ SlotPath[Len(stack)] = SlotToken(stack[Len(stack)])
  BY <1>1, <1>2, AppendSequence
<1>5. \A i \in 1..Len(stack) : i = Len(stack) \/ i \in 1..Len(path_prefix) BY <1>2
<1> QED BY <1>2, <1>3, <1>4, <1>5

LEMMA EffectExtends ==
  ASSUME Inv, Inv', Effect
  PROVE  IsSequence(events) /\ IsSequence(events') /\ Extends(events, events')
<1>1. LogOK /\ IsSequence(events) /\ IsSequence(events') /\ Len(events) \in Nat
  BY DEF Inv, LogOK, IsSequence
<1>2. ASSUME NEW e, events' = Append(events, e) PROVE Extends(events, events')
  BY <1>1, <1>2, AppendSequence DEF Extends
<1>3. CASE UNCHANGED events BY <1>1, <1>3 DEF Extends
<1>4. ASSUME NEW st, NEW prefix, NEW v, Attach(st, prefix, v) PROVE Extends(events, events')
  BY <1>1, <1>4, AttachEvents
<1>5. CASE ScalarBegun \/ ContainerBegun \/ ContainerRefused
  BY <1>1, <1>2, <1>5 DEF ScalarBegun, ContainerBegun, ContainerRefused, Begun
<1>6. CASE ScalarEnded \/ ContainerEnded BY <1>1, <1>4, <1>6 DEF ScalarEnded, ContainerEnded
<1>7. CASE ProgressTold BY <1>1, <1>2, <1>7 DEF ProgressTold
<1>8. CASE Quiet \/ KeyRead \/ FrameDropped BY <1>1, <1>3, <1>8 DEF Quiet, KeyRead, FrameDropped
<1> QED BY <1>1, <1>5, <1>6, <1>7, <1>8 DEF Effect

LEMMA AttachDup ==
  ASSUME NEW st, IsStack(st), NEW prefix, NEW v, Attach(st, prefix, v), NEW k \in 1..Len(st),
         st[k].kind = "Object", Doubled(st[k].children) \/ Recurs(st[k])
  PROVE  DupFrame'
<1> DEFINE n == Len(st)
           f == st[k]
           g == Filed(f, v)
           m == Len(f.children)
<1>1. st # <<>> /\ n \in Nat /\ IsFrame(f)
  <2>1. n \in Nat /\ IsFrame(f) /\ (st = <<>> <=> n = 0) BY NonEmptySequence DEF IsStack, IsSequence
  <2> QED BY <2>1
<1>2. /\ Len(stack') = n /\ \A i \in 1..(n - 1) : stack'[i] = st[i]
      /\ stack'[n] = Filed(st[n], v)
  BY <1>1, AttachTree
<1>3. CASE k < n
  <2>1. k \in 1..(n - 1) /\ stack'[k] = st[k] BY <1>1, <1>2, <1>3
  <2>2. (k < Len(stack'))  /\ k \in 1..Len(stack') BY <1>2, <1>3
  <2> QED BY <2>1, <2>2 DEF DupFrame, SlotTaken
<1>4. CASE k = n
  <2>1. stack'[k] = g BY <1>2, <1>4
  <2>2. /\ Len(g.children) = m + 1 /\ g.kind = f.kind /\ m \in Nat
        /\ \A j \in 1..m : g.children[j] = f.children[j]
        /\ g.children[m + 1] = [token |-> SlotToken(f), value |-> v]
    BY <1>1, FiledChildren
  <2> HIDE DEF g
  <2>3. CASE Doubled(f.children)
    <3>1. PICK i, j \in 1..m : i # j /\ f.children[i].token = f.children[j].token BY <2>3 DEF Doubled
    <3>2. i \in 1..(m + 1) /\ j \in 1..(m + 1) BY <2>2
    <3>3. Doubled(g.children) BY <2>2, <3>1, <3>2 DEF Doubled
    <3> QED BY <1>2, <2>1, <2>2, <3>3 DEF DupFrame
  <2>4. CASE Recurs(f)
    <3>1. PICK j \in 1..m : f.children[j].token = SlotToken(f) BY <2>4 DEF Recurs
    <3>2. j \in 1..(m + 1) /\ m + 1 \in 1..(m + 1) /\ j # m + 1 BY <2>2
    <3>3. g.children[j].token = g.children[m + 1].token /\ Len(g.children) = m + 1 BY <2>2, <3>1
    <3>4. Doubled(g.children) BY <3>2, <3>3, Zenon DEF Doubled
    <3> QED BY <1>2, <2>1, <2>2, <3>4 DEF DupFrame
  <2> QED BY <2>3, <2>4
<1> QED BY <1>1, <1>3, <1>4

(* A key once repeated stays repeated. *)
LEMMA DupPersists ==
  ASSUME Inv, Inv', failed = None, Effect, ~FrameLost', Dup
  PROVE  Dup'
<1>1. IsSequence(events) /\ IsSequence(events') /\ Extends(events, events') BY EffectExtends
<1>2. CASE DupDone
  <2>1. PICK i \in 1..Len(events) : events[i].type = "ValueCompleted"
          /\ events[i].value.type = "Object" /\ Doubled(events[i].value.data)
    BY <1>2 DEF DupDone
  <2>2. i \in 1..Len(events') /\ events'[i] = events[i] BY <1>1 DEF Extends, IsSequence
  <2> QED BY <2>1, <2>2 DEF DupDone, Dup
<1>3. CASE DupFrame
  <2> DEFINE n == Len(stack)
  <2>1. PICK k \in 1..n : stack[k].kind = "Object"
          /\ (Doubled(stack[k].children) \/ (SlotTaken(k) /\ Recurs(stack[k])))
    BY <1>3 DEF DupFrame
  <2>2. IsStack(stack) /\ IsSequence(stack) /\ n \in Nat BY DEF Inv, TreeOK, IsStack, IsSequence
  <2>3. CASE stack' = stack /\ (InFlight => InFlight')
    BY <2>1, <2>3 DEF SlotTaken, DupFrame, Dup
  <2>4. CASE KeyRead
    <3>1. /\ Len(stack') = n /\ stack'[k].kind = stack[k].kind
          /\ stack'[k].children = stack[k].children /\ (k # n => stack'[k] = stack[k])
      BY <2>4, KeyReadFrames
    <3>2. ~InFlight BY <2>4 DEF KeyRead
    <3>3. CASE Doubled(stack[k].children) BY <2>1, <3>1, <3>3 DEF DupFrame, Dup
    <3>4. CASE SlotTaken(k) /\ Recurs(stack[k])
      BY <2>1, <3>1, <3>2, <3>4 DEF DupFrame, Dup, SlotTaken
    <3> QED BY <2>1, <3>3, <3>4
  <2>5. CASE ContainerBegun
    <3>1. PICK kind : stack' = Append(stack, Frame(kind)) BY <2>5 DEF ContainerBegun
    <3>2. Len(stack') = n + 1 /\ stack'[k] = stack[k] BY <2>2, <3>1, AppendSequence
    <3>3. k \in 1..Len(stack') /\ k < Len(stack') BY <2>2, <3>2
    <3> QED BY <2>1, <3>2, <3>3 DEF DupFrame, Dup, SlotTaken
  <2>6. CASE ScalarEnded
    <3>1. PICK v : Attach(stack, path_prefix, v) BY <2>6 DEF ScalarEnded
    <3> QED BY <2>1, <2>2, <3>1, AttachDup DEF Dup
  <2>7. CASE ContainerEnded
    <3> DEFINE st == Front(stack)
               v  == Container(Last(stack))
    <3>1. stack # <<>> /\ Attach(st, Truncated, v) /\ ~InFlight BY <2>7 DEF ContainerEnded
    <3>2. IsStack(st) BY <3>1, Popped DEF Inv
    <3>3. Len(st) = n - 1 /\ Last(stack) = stack[n] /\ \A i \in 1..(n - 1) : st[i] = stack[i]
      BY <3>1, PoppedPaths DEF Inv
    <3> HIDE DEF st
    <3>4. CASE k = n
      <4>1. Doubled(stack[k].children) BY <2>1, <2>2, <3>1, <3>4 DEF SlotTaken
      <4>2. /\ Len(events) + 1 \in 1..Len(events')
            /\ events'[Len(events) + 1] = Completed(Slot(st, Truncated), v)
        BY <3>1, AttachEvents DEF Inv
      <4>3. v.type = "Object" /\ v.data = stack[k].children BY <2>1, <3>3, <3>4 DEF Container
      <4> QED BY <4>1, <4>2, <4>3 DEF DupDone, Dup, Completed
    <3>5. CASE k # n
      <4>1. k \in 1..Len(st) /\ st[k] = stack[k] BY <2>2, <3>3, <3>5
      <4> QED BY <2>1, <3>1, <3>2, <4>1, AttachDup DEF Dup
    <3> QED BY <3>4, <3>5
  <2>8. CASE Quiet \/ ScalarBegun \/ ContainerRefused \/ ProgressTold
    <3>1. stack' = stack BY <2>8 DEF Quiet, ScalarBegun, ContainerRefused, ProgressTold
    <3>2. InFlight => InFlight'
      BY <2>8 DEF Quiet, ScalarBegun, ContainerRefused, ProgressTold, Begun, InFlight, Growing
    <3> QED BY <2>3, <3>1, <3>2
  <2>9. ~FrameDropped BY DEF FrameDropped
  <2> QED BY <2>4, <2>5, <2>6, <2>7, <2>8, <2>9 DEF Effect
<1> QED BY <1>2, <1>3 DEF Dup

-----------------------------------------------------------------------------
(* The order of the events of one path. *)

PairOK(a, b) ==
  a.type # "DocumentCompleted" /\ b.type # "DocumentCompleted" /\ a.path = b.path =>
    /\ b.type # "ValueStarted" /\ a.type # "ValueCompleted"
    /\ a.type = "ValueProgressed" =>
         IF b.type = "ValueProgressed" THEN IsStrictPrefix(a.stable_prefix, b.stable_prefix)
         ELSE b.value.type = "String" /\ IsPrefix(a.stable_prefix, b.value.data)

Ordered(evs) == \A j \in 1..Len(evs) : \A i \in 1..(j - 1) : PairOK(evs[i], evs[j])

OrderInv == failed = None /\ ~Dup => Ordered(events)

LEMMA OrderExtended ==
  ASSUME NEW evs, IsSequence(evs), NEW evs2, IsSequence(evs2), Extends(evs, evs2), Ordered(evs),
         Len(evs2) \in {Len(evs) + 1, Len(evs) + 2},
         Len(evs2) = Len(evs) + 2 => evs2[Len(evs) + 2].type = "DocumentCompleted",
         \A i \in 1..Len(evs) : PairOK(evs[i], evs2[Len(evs) + 1])
  PROVE  Ordered(evs2)
<1>1. Len(evs) \in Nat /\ Len(evs2) \in Nat BY DEF IsSequence
<1>2. \A i \in 1..Len(evs) : evs2[i] = evs[i] BY DEF Extends
<1>3. SUFFICES ASSUME NEW j \in 1..Len(evs2), NEW i \in 1..(j - 1) PROVE PairOK(evs2[i], evs2[j])
  BY DEF Ordered
<1>4. CASE j \in 1..Len(evs)
  <2>1. i \in 1..Len(evs) BY <1>1, <1>4
  <2> QED BY <1>2, <1>4, <2>1 DEF Ordered
<1>5. CASE j = Len(evs) + 1
  <2>1. i \in 1..Len(evs) BY <1>1, <1>5
  <2> QED BY <1>2, <1>5, <2>1
<1>6. CASE j = Len(evs) + 2 BY <1>1, <1>6 DEF PairOK
<1> QED BY <1>1, <1>4, <1>5, <1>6

(* No event carries the path of a value that begins. *)
LEMMA FreshStart ==
  ASSUME Inv, Inv', LogInv, failed = None, ScalarBegun \/ ContainerBegun, ~Dup'
  PROVE  \A i \in 1..Len(events) : events[i].type # "DocumentCompleted" => events[i].path # SlotPath
<1>1. ~FrameLost /\ Begun /\ ~InFlight /\ expect = "Value"
  BY DEF FrameLost, ScalarBegun, ContainerBegun, Begun
<1>2. SUFFICES ASSUME NEW i \in 1..Len(events), events[i].type # "DocumentCompleted",
                      events[i].path = SlotPath
               PROVE  FALSE
  OBVIOUS
<1>3. PICK m \in 1..Len(events) : events[m].type = "ValueStarted" /\ events[m].path = SlotPath
  <2>1. CASE events[i].type = "ValueStarted" BY <1>2, <2>1
  <2>2. CASE events[i].type # "ValueStarted"
    <3>1. events[i].type \in {"ValueProgressed", "ValueCompleted"}
      BY <1>2, <2>2 DEF LogInv, LogShaped, ShapeAt, EventTypes
    <3>2. Len(events) \in Nat /\ i \in 1..Len(events) BY DEF Inv, LogOK, IsSequence
    <3>3. PICK m \in 1..(i - 1) : events[m].type = "ValueStarted" /\ events[m].path = events[i].path
      BY <3>1 DEF LogInv, LogShaped, StartAt
    <3>4. m \in 1..Len(events) BY <3>2
    <3> QED BY <1>2, <3>3, <3>4
  <2> QED BY <2>1, <2>2
<1>4. IsStack(stack) /\ IsSequence(path_prefix) /\ CacheAgrees(stack, path_prefix) /\ TreeOK
  BY DEF Inv, TreeOK, PathCache
<1>5. Len(stack) \in Nat /\ Len(SlotPath) = Len(stack) BY <1>4, FramePaths DEF SlotPath
<1>6. \A k \in 1..Len(stack) : Len(FramePath(path_prefix, k)) = k - 1 BY <1>4, FramePaths
<1>7. \A k \in 1..Len(stack) : SlotPath # FramePath(path_prefix, k) BY <1>5, <1>6
<1>8. DoneAt(events, SlotPath) BY <1>1, <1>3, <1>7 DEF LogInv, StartedWhere, OpenSlots
<1>9. stack # <<>> BY <1>1, <1>8 DEF LogInv, NothingDone, DoneAt
<1>10. \A k \in 1..Len(SlotPath) : SlotPath[k] = SlotToken(stack[k]) BY <1>4, <1>9, SlotTokens
<1>11. \A k \in 1..Len(stack) : stack[k].kind = "Object" => ~Recurs(stack[k])
  <2>1. CASE ScalarBegun
    <3>1. stack' = stack /\ InFlight' BY <2>1 DEF ScalarBegun
    <3> QED BY <3>1 DEF Dup, DupFrame, SlotTaken
  <2>2. CASE ContainerBegun
    <3>1. PICK kind : stack' = Append(stack, Frame(kind)) BY <2>2 DEF ContainerBegun
    <3>2. Len(stack') = Len(stack) + 1 /\ \A k \in 1..Len(stack) : stack'[k] = stack[k]
      BY <1>4, <3>1, AppendSequence DEF IsStack
    <3>3. \A k \in 1..Len(stack) : k \in 1..Len(stack') /\ k < Len(stack') BY <1>5, <3>2
    <3> QED BY <3>2, <3>3 DEF Dup, DupFrame, SlotTaken
  <2> QED BY <2>1, <2>2
<1>12. Len(SlotPath) \in 0..Len(stack) BY <1>5
<1> QED BY <1>1, <1>5, <1>8, <1>9, <1>10, <1>11, <1>12, SlotNotDone

(* Nor is the path of a value that ends, or progresses, complete already:  *)
(* the slot while it is being filled, and the path of the innermost frame. *)
LEMMA FreshEnd ==
  ASSUME Inv, LogInv, failed = None, ~Dup
  PROVE  /\ InFlight => \A i \in 1..Len(events) : events[i].type = "ValueCompleted" =>
              ~AtOrBelow(SlotPath, events[i].path) /\ events[i].path # SlotPath
         /\ stack # <<>> => \A i \in 1..Len(events) : events[i].type = "ValueCompleted" =>
              ~AtOrBelow(path_prefix, events[i].path) /\ events[i].path # path_prefix
<1>1. ~FrameLost /\ TreeOK /\ TokenOK BY DEF FrameLost, Inv
<1>2. ASSUME stack # <<>>, NEW i \in 1..Len(events), events[i].type = "ValueCompleted"
      PROVE  /\ InFlight => ~AtOrBelow(SlotPath, events[i].path) /\ events[i].path # SlotPath
             /\ ~AtOrBelow(path_prefix, events[i].path) /\ events[i].path # path_prefix
  <2>1. /\ Len(SlotPath) = Len(stack) /\ \A k \in 1..Len(SlotPath) : SlotPath[k] = SlotToken(stack[k])
        /\ Len(path_prefix) = Len(stack) - 1 /\ Len(stack) \in Nat \ {0}
        /\ \A k \in 1..Len(path_prefix) : path_prefix[k] = SlotToken(stack[k])
    BY <1>1, <1>2, SlotTokens
  <2>2. ASSUME InFlight
        PROVE  ~AtOrBelow(SlotPath, events[i].path) /\ events[i].path # SlotPath
    <3>1. \A k \in 1..Len(SlotPath) : stack[k].kind = "Object" => ~Recurs(stack[k])
      BY <2>1, <2>2 DEF Dup, DupFrame, SlotTaken
    <3>2. Len(SlotPath) \in 0..Len(stack) BY <2>1
    <3> QED BY <1>1, <1>2, <2>1, <3>1, <3>2, SlotNotDone DEF DoneAt
  <2>3. ~AtOrBelow(path_prefix, events[i].path) /\ events[i].path # path_prefix
    <3>1. \A k \in 1..Len(path_prefix) : k \in 1..Len(stack) /\ k < Len(stack) BY <2>1
    <3>2. \A k \in 1..Len(path_prefix) : stack[k].kind = "Object" => ~Recurs(stack[k])
      BY <3>1 DEF Dup, DupFrame, SlotTaken
    <3>3. Len(path_prefix) \in 0..Len(stack) BY <2>1
    <3> QED BY <1>1, <1>2, <2>1, <3>2, <3>3, SlotNotDone DEF DoneAt
  <2> QED BY <2>2, <2>3
<1>3. ASSUME InFlight, stack = <<>>
      PROVE  \A i \in 1..Len(events) : events[i].type # "ValueCompleted"
  <2>1. expect # "Done" BY <1>3 DEF InFlight, Growing, Inv, TokenOK, TokenAgrees
  <2> QED BY <1>1, <1>3, <2>1 DEF LogInv, NothingDone
<1> QED BY <1>2, <1>3

(* A value that ends: what has been reported of its text is a prefix.      *)
LEMMA EndOrdered ==
  ASSUME Inv, LogInv, failed = None, ~Dup, NEW path, NEW v, NEW i \in 1..Len(events),
         \A j \in 1..Len(events) : events[j].type = "ValueCompleted" => events[j].path # path,
         Growing => path = SlotPath /\ v.type = "String" /\ v.data = tok.decoded
  PROVE  PairOK(events[i], Completed(path, v))
<1> DEFINE a == events[i]
           b == Completed(path, v)
<1>1. b.type = "ValueCompleted" /\ b.path = path /\ b.value = v BY DEF Completed
<1>2. SUFFICES ASSUME a.path = path, a.type # "DocumentCompleted" PROVE PairOK(a, b)
  BY <1>1 DEF PairOK
<1>3. a.type # "ValueCompleted" BY <1>2
<1>4. ASSUME a.type = "ValueProgressed"
      PROVE  v.type = "String" /\ IsPrefix(a.stable_prefix, v.data)
  <2>1. ~ProgressEnded(events, i)
    <3>1. Len(events) \in Nat BY DEF Inv, LogOK, IsSequence
    <3>2. \A m \in (i + 1)..Len(events) : m \in 1..Len(events) BY <3>1
    <3> QED BY <1>2, <3>2 DEF ProgressEnded
  <2>2. Growing /\ ProgressOpen(SlotPath, tok.decoded, a) BY <1>4, <2>1 DEF LogInv, ProgressWhere
  <2> QED BY <2>2 DEF ProgressOpen
<1> QED BY <1>1, <1>3, <1>4 DEF PairOK

LEMMA OrderStep ==
  ASSUME Inv, Inv', LogInv, failed = None, OrderInv, Effect
  PROVE  OrderInv'
<1> DEFINE n == Len(events)
<1>1. SUFFICES ASSUME failed' = None, ~Dup' PROVE Ordered(events') BY DEF OrderInv
<1>2. ~FrameLost /\ ~FrameLost' BY <1>1 DEF FrameLost
<1>3. ~Dup BY <1>2, <1>1, DupPersists
<1>4. Ordered(events) BY <1>3 DEF OrderInv
<1>5. IsSequence(events) /\ IsSequence(events') /\ Extends(events, events') /\ n \in Nat /\ LogOK
  BY EffectExtends DEF Inv, IsSequence
<1>6. CASE UNCHANGED events BY <1>4, <1>6
<1>7. CASE ScalarBegun \/ ContainerBegun
  <2>1. Begun BY <1>7 DEF ScalarBegun, ContainerBegun
  <2>2. Len(events') = n + 1 /\ events'[n + 1].path = SlotPath BY <2>1, BegunLog
  <2>3. \A i \in 1..n : PairOK(events[i], events'[n + 1]) BY <1>1, <1>7, <2>2, FreshStart DEF PairOK
  <2> QED BY <1>4, <1>5, <2>2, <2>3, OrderExtended
<1>8. ASSUME NEW st, NEW prefix, NEW v, Attach(st, prefix, v),
             \A i \in 1..n : PairOK(events[i], Completed(Slot(st, prefix), v))
      PROVE  Ordered(events')
  <2>1. /\ events'[n + 1] = Completed(Slot(st, prefix), v)
        /\ st # <<>> => Len(events') = n + 1
        /\ st = <<>> => Len(events') = n + 2 /\ events'[n + 2] = DocumentCompleted
    BY <1>5, <1>8, AttachEvents
  <2>2. Len(events') \in {n + 1, n + 2} BY <2>1
  <2>3. Len(events') = n + 2 => events'[n + 2].type = "DocumentCompleted"
    BY <1>5, <2>1 DEF DocumentCompleted
  <2>4. \A i \in 1..n : PairOK(events[i], events'[n + 1]) BY <1>8, <2>1
  <2> QED BY <1>4, <1>5, <2>2, <2>3, <2>4, OrderExtended
<1>9. CASE ScalarEnded
  <2>1. PICK type, text :
          /\ type \in ScalarTypes /\ InFlight /\ Attach(stack, path_prefix, Scalar(type, text))
          /\ Growing => type = "String" /\ text = tok.decoded
    BY <1>9 DEF ScalarEnded
  <2>2. \A i \in 1..n : events[i].type = "ValueCompleted" => events[i].path # SlotPath
    BY <1>3, <2>1, FreshEnd
  <2>3. Growing => Scalar(type, text).type = "String" /\ Scalar(type, text).data = tok.decoded
    BY <2>1 DEF Scalar
  <2>4. \A i \in 1..n : PairOK(events[i], Completed(SlotPath, Scalar(type, text)))
    BY <1>3, <2>2, <2>3, EndOrdered
  <2> QED BY <1>8, <2>1, <2>4 DEF SlotPath
<1>10. CASE ContainerEnded
  <2> DEFINE v == Container(Last(stack))
  <2>1. stack # <<>> /\ ~InFlight /\ Attach(Front(stack), Truncated, v) BY <1>10 DEF ContainerEnded
  <2>2. Slot(Front(stack), Truncated) = path_prefix BY <2>1, PoppedPaths DEF Inv
  <2>3. \A i \in 1..n : events[i].type = "ValueCompleted" => events[i].path # path_prefix
    BY <1>3, <2>1, FreshEnd
  <2>4. ~Growing BY <2>1 DEF InFlight
  <2> HIDE DEF v
  <2>5. \A i \in 1..n : PairOK(events[i], Completed(path_prefix, v)) BY <1>3, <2>3, <2>4, EndOrdered
  <2> QED BY <1>8, <2>1, <2>2, <2>5
<1>11. CASE ProgressTold
  <2> DEFINE b == Progressed(SlotPath, Stable)
  <2>1. /\ Growing /\ InFlight /\ events' = Append(events, b) /\ Len(Stable) > reported_prefix
    BY <1>11 DEF ProgressTold, InFlight
  <2>2. b.type = "ValueProgressed" /\ b.path = SlotPath /\ b.stable_prefix = Stable BY DEF Progressed
  <2> HIDE DEF b
  <2>3. Len(events') = n + 1 /\ events'[n + 1] = b BY <1>5, <2>1, AppendSequence
  <2>4. ASSUME NEW i \in 1..n, events[i].type # "DocumentCompleted", events[i].path = SlotPath
        PROVE  /\ events[i].type # "ValueCompleted"
               /\ events[i].type = "ValueProgressed" => IsStrictPrefix(events[i].stable_prefix, Stable)
    <3>1. events[i].type # "ValueCompleted" BY <1>3, <2>1, <2>4, FreshEnd
    <3>2. ASSUME events[i].type = "ValueProgressed"
          PROVE  IsStrictPrefix(events[i].stable_prefix, Stable)
      <4> DEFINE s == events[i].stable_prefix
      <4>1. ~ProgressEnded(events, i)
        <5>1. \A m \in (i + 1)..n : m \in 1..n BY <1>5
        <5>2. \A m \in 1..n : events[m].type = "ValueCompleted" => events[m].path # SlotPath
          BY <1>3, <2>1, FreshEnd
        <5> QED BY <2>4, <5>1, <5>2 DEF ProgressEnded
      <4>2. IsPrefix(s, tok.decoded) /\ Len(s) <= reported_prefix
        BY <3>2, <4>1 DEF LogInv, ProgressWhere, ProgressOpen
      <4>3. IsSequence(s) BY <3>2 DEF LogInv, LogShaped, ShapeAt
      <4>4. tok.decoded \in Seq(Byte) /\ IsSequence(tok.decoded) BY <2>1, Text DEF Growing
      <4>5. IsSequence(Stable) /\ IsPrefix(Stable, tok.decoded) BY <4>4, StableIsPrefix DEF Stable
      <4>6. Len(s) \in Nat /\ Len(Stable) \in Nat /\ reported_prefix \in Nat
        BY <1>5, <4>3, <4>5 DEF IsSequence, LogOK
      <4>7. Len(s) < Len(Stable) BY <2>1, <4>2, <4>6
      <4> HIDE DEF s
      <4>8. \A j \in 1..Len(s) : s[j] = tok.decoded[j] BY <4>2, <4>3, <4>4, PrefixElements
      <4>9. \A j \in 1..Len(Stable) : Stable[j] = tok.decoded[j] BY <4>4, <4>5, PrefixElements
      <4>10. \A j \in 1..Len(s) : s[j] = Stable[j] BY <4>6, <4>7, <4>8, <4>9
      <4>11. IsPrefix(s, Stable) BY <4>3, <4>5, <4>6, <4>7, <4>10, PrefixElements
      <4> QED BY <4>6, <4>7, <4>11 DEF IsStrictPrefix, s
    <3> QED BY <3>1, <3>2
  <2>5. \A i \in 1..n : PairOK(events[i], events'[n + 1]) BY <2>2, <2>3, <2>4 DEF PairOK
  <2> QED BY <1>4, <1>5, <2>3, <2>5, OrderExtended
<1>12. CASE Quiet \/ KeyRead \/ FrameDropped BY <1>6, <1>12 DEF Quiet, KeyRead, FrameDropped
<1>13. ~ContainerRefused BY <1>1 DEF ContainerRefused
<1> QED BY <1>7, <1>9, <1>10, <1>11, <1>12, <1>13 DEF Effect

LEMMA OrderNext ==
  ASSUME Inv, Inv', LogInv, OrderInv, [Next]_vars
  PROVE  OrderInv'
<1>1. CASE Next BY <1>1, NextEffect, OrderStep
<1>2. CASE UNCHANGED vars
  BY <1>2 DEF vars, OrderInv, Dup, DupFrame, DupDone, SlotTaken, InFlight, Growing
<1> QED BY <1>1, <1>2

(* While no key is repeated, the events of one path come in order: started *)
(* once, then growing prefixes, then completed, with a value that extends  *)
(* the last prefix.  (event.rs, guarantees 1 and 2.)                       *)
THEOREM PathsInOrder == ASSUME NoneIsNoValue PROVE Spec => []OrderInv
<1>1. Init => OrderInv BY DEF Init, OrderInv, Ordered
<1>2. Inv /\ Inv' /\ LogInv /\ OrderInv /\ [Next]_vars => OrderInv' BY OrderNext
<1> QED BY <1>1, <1>2, Inductive, LogInductive, PTL DEF Spec

-----------------------------------------------------------------------------
(* The text of the open string, as the log tells it. *)

LastEvent == events[Len(events)]

TextLogged ==
  \/ LastEvent.type = "ValueStarted" /\ reported_prefix = 0
  \/ /\ LastEvent.type = "ValueProgressed" /\ Len(LastEvent.stable_prefix) = reported_prefix
     /\ Utf8Valid(LastEvent.stable_prefix) /\ IsPrefix(LastEvent.stable_prefix, tok.decoded)

TextInv == failed = None /\ Growing =>
  /\ Len(events) > 0 /\ TextLogged
  /\ Idle => Len(Stable) <= reported_prefix

LEMMA TextEffect ==
  ASSUME Inv, Inv', LogInv, failed = None, TextInv, Effect, failed' = None, Growing'
  PROVE  Len(events') > 0 /\ TextLogged'
<1>1. IsSequence(events) /\ Len(events) \in Nat BY DEF Inv, LogOK, IsSequence
<1>2. CASE Quiet
  <2>1. /\ Growing /\ events' = events /\ reported_prefix' = reported_prefix
        /\ IsPrefix(tok.decoded, tok'.decoded)
    BY <1>2 DEF Quiet
  <2>2. Len(events) > 0 /\ TextLogged BY <2>1 DEF TextInv
  <2>3. CASE LastEvent.type = "ValueStarted" /\ reported_prefix = 0
    BY <2>1, <2>2, <2>3 DEF TextLogged, LastEvent
  <2>4. CASE LastEvent.type = "ValueProgressed" /\ IsPrefix(LastEvent.stable_prefix, tok.decoded)
             /\ Len(LastEvent.stable_prefix) = reported_prefix /\ Utf8Valid(LastEvent.stable_prefix)
    <3>1. Len(events) \in 1..Len(events) BY <1>1, <2>2
    <3>2. IsSequence(LastEvent.stable_prefix)
      BY <2>4, <3>1 DEF LogInv, LogShaped, ShapeAt, LastEvent
    <3>3. IsSequence(tok.decoded) BY <2>1, Text DEF Growing
    <3>4. IsSequence(tok'.decoded)
      <4>1. tok' \in Tok /\ tok'.type = "Str" BY DEF Inv, TokenOK, Growing
      <4>2. tok'.decoded \in Seq(Byte) BY <4>1 DEF Tok, NoTok
      <4> QED BY <4>2, SeqIsSequence
    <3>5. IsPrefix(LastEvent.stable_prefix, tok'.decoded)
      BY <2>1, <2>4, <3>2, <3>3, <3>4, PrefixTransitive
    <3>6. LastEvent' = LastEvent BY <2>1 DEF LastEvent
    <3> QED BY <2>1, <2>2, <2>4, <3>5, <3>6 DEF TextLogged
  <2> QED BY <2>2, <2>3, <2>4 DEF TextLogged
<1>3. CASE ScalarBegun
  <2>1. Begun BY <1>3 DEF ScalarBegun
  <2>2. Len(events') = Len(events) + 1 /\ events'[Len(events) + 1].type = "ValueStarted"
        /\ reported_prefix' = 0
    BY <2>1, BegunLog DEF Begun
  <2> QED BY <1>1, <2>2 DEF TextLogged, LastEvent
<1>4. CASE ProgressTold
  <2> DEFINE b == Progressed(SlotPath, Stable)
  <2>1. Growing /\ events' = Append(events, b) /\ reported_prefix' = Len(Stable) /\ tok' = tok
    BY <1>4 DEF ProgressTold
  <2>2. b.type = "ValueProgressed" /\ b.stable_prefix = Stable BY DEF Progressed
  <2> HIDE DEF b
  <2>3. Len(events') = Len(events) + 1 /\ LastEvent' = b
    BY <1>1, <2>1, AppendSequence DEF LastEvent
  <2>4. tok.decoded \in Seq(Byte) BY <2>1, Text DEF Growing
  <2>5. IsPrefix(Stable, tok.decoded) BY <2>4, StableIsPrefix DEF Stable
  <2>6. Utf8Valid(Stable) BY <2>4, StableCut DEF Stable
  <2> QED BY <1>1, <2>1, <2>2, <2>3, <2>5, <2>6 DEF TextLogged
<1>5. ~KeyRead /\ ~ContainerBegun /\ ~ContainerRefused /\ ~ScalarEnded /\ ~ContainerEnded /\ ~FrameDropped
  BY DEF KeyRead, ContainerBegun, ContainerRefused, ScalarEnded, ContainerEnded, FrameDropped, InFlight
<1> QED BY <1>2, <1>3, <1>4, <1>5 DEF Effect

(* A byte leaves the push under way, or fails; only the end of a push and  *)
(* finish() lead to an idle state, and they leave the token alone.         *)
LEMMA ByteKeepsFeeding ==
  ASSUME NEW b, Step(b), Inv, Inv', failed' = None
  PROVE  ~Idle' /\ ended' = ended
<1>1. ASSUME NEW kind \in ErrorKind, Fail(kind) PROVE FALSE
  <2>1. failed' \in Failure BY <1>1 DEF Fail, Failure, Inv, ControlOK
  <2> QED BY <2>1, ParserAssumption
<1>2. ASSUME NEW kind \in ErrorKind, Reject(kind) PROVE FALSE BY <1>1, <1>2 DEF Reject
<1>3. CASE StringByte(b)
  BY <1>1, <1>2, <1>3 DEF StringByte, OrdinaryByte, ControlByte, BeginEscape, CloseKey, CloseString,
     CloseInvalid, ShortEscapeByte, BeginUnicode, BadEscape, HexByte, NotHex, CodePoint,
     HighSurrogate, LoneLowSurrogate, SurrogateBackslash, SurrogateU, LowSurrogate,
     MissingLowSurrogate, Escape, Decode, Consumed, Idle, ErrorKind
<1>4. CASE NumberByte(b)
  BY <1>2, <1>4 DEF NumberByte, NumberGrows, ExponentRefused, NumberDelimited, NumberMalformed,
     Consumed, Idle, ErrorKind
<1>5. CASE LiteralByte(b)
  BY <1>2, <1>5 DEF LiteralByte, LiteralGrows, LiteralDone, LiteralMalformed, Consumed, Idle, ErrorKind
<1>6. CASE StructuralByte(b)
  BY <1>1, <1>2, <1>6 DEF StructuralByte, SkipSpace, BeginScalar, BeginContainer, TooDeep, BeginKey,
     Colon, Comma, CloseContainer, MismatchedClose, Unexpected, TrailingContent, Consumed, Idle, ErrorKind
<1> QED BY <1>3, <1>4, <1>5, <1>6 DEF Step

LEMMA TextNext ==
  ASSUME Inv, Inv', LogInv, TextInv, [Next]_vars
  PROVE  TextInv'
<1>1. CASE Next
  <2>1. failed = None /\ Effect BY <1>1, NextEffect
  <2>2. SUFFICES ASSUME failed' = None, Growing'
                 PROVE  Len(events') > 0 /\ TextLogged' /\ (Idle' => Len(Stable') <= reported_prefix')
    BY DEF TextInv
  <2>3. Len(events') > 0 /\ TextLogged' BY <2>1, <2>2, TextEffect
  <2>4. ASSUME Idle' PROVE Len(Stable') <= reported_prefix'
    <3>1. \A b \in Alphabet : ~Step(b) BY <2>2, <2>4, ByteKeepsFeeding
    <3>2. CASE EndPush
      <4>1. tok' = tok /\ Stable' = Stable /\ Growing BY <2>2, <3>2 DEF EndPush, Stable, Growing
      <4>2. tok.decoded \in Seq(Byte) BY <4>1, Text DEF Growing
      <4>3. Len(Stable) \in Nat /\ reported_prefix \in Nat
        BY <4>2, StableIsPrefix DEF Stable, Inv, LogOK
      <4> QED BY <3>2, <4>1, <4>3 DEF EndPush, ReportProgress, NothingToReport
    <3>3. CASE Finish
      <4>1. FinishOther
        <5>1. ~FinishNumber BY <2>2 DEF FinishNumber, CloseNumber, Growing, NoTok
        <5>2. ~FinishPartial BY <2>2 DEF FinishPartial, Growing
        <5> QED BY <3>3, <5>1, <5>2 DEF Finish
      <4>2. tok' = tok /\ Stable' = Stable /\ Growing /\ Idle /\ reported_prefix' = reported_prefix
        BY <2>2, <2>4, <4>1 DEF FinishOther, Stable, Growing, Idle, log
      <4> QED BY <2>1, <4>2 DEF TextInv
    <3> QED BY <1>1, <3>1, <3>2, <3>3 DEF Next
  <2> QED BY <2>3, <2>4
<1>2. CASE UNCHANGED vars
  BY <1>2 DEF vars, TextInv, TextLogged, LastEvent, Growing, Stable, Idle
<1> QED BY <1>1, <1>2

(* The log ends with the stable text of the string that is still open.     *)
THEOREM TextIsLogged == ASSUME NoneIsNoValue PROVE Spec => []TextInv
<1>1. Init => TextInv BY DEF Init, TextInv, Growing, NoTok
<1>2. Inv /\ Inv' /\ LogInv /\ TextInv /\ [Next]_vars => TextInv' BY TextNext
<1> QED BY <1>1, <1>2, Inductive, LogInductive, PTL DEF Spec
=============================================================================
