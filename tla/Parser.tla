------------------------------- MODULE Parser -------------------------------
(***************************************************************************)
(* The push-driven, byte-level parser of src/src/parser.rs.                *)
(*                                                                         *)
(* A call takes `&mut self`, so nobody observes the machine inside one; a  *)
(* step of this module is one byte, and `feeding` says that the push the   *)
(* bytes belong to has not returned.  Where a push ends is a free choice:  *)
(* chunk boundaries are arbitrary.  A byte that ends a number is handled   *)
(* twice, first by the number and then as structure: it waits in `held`.   *)
(*                                                                         *)
(* A path is the sequence of its (unescaped) tokens, `events` is the whole *)
(* log: draining it only hands the consumer what it has not yet seen.      *)
(***************************************************************************)
EXTENDS Values

CONSTANTS
  Producers,      \* what may be sent: each is a sequence of sets, the choices for each byte
  MaxDepth,       \* max_depth
  PlainDecimal    \* enforce_plain_decimal

ErrorKind == {"Unexpected", "UnbalancedClose", "MismatchedClose", "MalformedNumber",
              "NumberProfileViolated", "BadLiteral", "ControlInString", "InvalidUtf8", "BadEscape",
              "BadUnicodeEscape", "BadSurrogate", "TrailingContent", "DepthLimitExceeded"}

Failure == [offset : Nat, kind : ErrorKind]

ASSUME ParserAssumption ==
  /\ Producers \subseteq Seq(SUBSET Byte)
  /\ MaxDepth \in Nat /\ PlainDecimal \in BOOLEAN
  /\ None \notin Byte /\ None \notin Seq(Byte) /\ None \notin Failure

Alphabet == UNION { UNION { p[i] : i \in 1..Len(p) } : p \in Producers }

(* The bound on every run: the input is a prefix of what a producer sends. *)
Sends(bytes) == \E p \in Producers :
  Len(bytes) <= Len(p) /\ \A i \in 1..Len(bytes) : bytes[i] \in p[i]

VARIABLES
  stack, expect, tok, root, failed, offset, events, path_prefix, reported_prefix, commit,
  held,     \* the byte step() still has to dispatch after it closed a number
  feeding,  \* a push is under way
  ended,    \* finish() has been called
  input     \* history: every byte handed over, the one that failed included

vars == <<stack, expect, tok, root, failed, offset, events, path_prefix, reported_prefix,
          commit, held, feeding, ended, input>>

tree == <<stack, expect, root, path_prefix>>     \* what attach() and push_frame() change
log  == <<events, reported_prefix>>

-----------------------------------------------------------------------------
(* Frames, tokens, values, events. *)

Frame(kind) == [kind |-> kind, children |-> <<>>, pending_key |-> None,
                path_len |-> Len(path_prefix)]

(* slot_token: the key being filled, or the index of the next element. *)
SlotToken(f) == IF f.kind = "Array" THEN Decimal(Len(f.children))
                ELSE IF f.pending_key = None THEN <<>> ELSE f.pending_key

(* A value filed in the slot of a frame. *)
Filed(f, v) ==
  [kind |-> f.kind, children |-> Append(f.children, [token |-> SlotToken(f), value |-> v]),
   pending_key |-> None, path_len |-> f.path_len]

(* slot_pointer, for the stack `st` under the frozen prefix `prefix`. *)
Slot(st, prefix) == IF st = <<>> THEN prefix ELSE Append(prefix, SlotToken(Last(st)))

NoTok == [type |-> "None"]
StrTok(decoded, is_key, state, hi, n, acc, pending) ==
  [type |-> "Str", decoded |-> decoded, is_key |-> is_key, state |-> state,
   hi |-> hi, n |-> n, acc |-> acc, pending |-> pending]
NumTok(text, state) == [type |-> "Num", text |-> text, state |-> state]
NewStr(is_key)      == StrTok(<<>>, is_key, "Raw", 0, 0, 0, 0)
LitTok(text)        == [type |-> "Lit", text |-> text]

Container(f)       == [type |-> f.kind, data |-> f.children]

Started(path, kind)     == [type |-> "ValueStarted", path |-> path, kind |-> kind]
Progressed(path, text)  == [type |-> "ValueProgressed", path |-> path, stable_prefix |-> text]
Completed(path, value)  == [type |-> "ValueCompleted", path |-> path, value |-> value]
DocumentCompleted       == [type |-> "DocumentCompleted"]

(* Plausible bugs stand before the definitions they would replace; their   *)
(* names say what they are.  This one forgets the empty array.             *)
ClosableButEmptyArray(ex, st) == ex \in {"Done", "CommaOrEnd", "KeyOrEnd"}

(* closable: brackets alone turn what has been read into a document. *)
Closable(ex, st) ==
  \/ ex \in {"Done", "CommaOrEnd", "KeyOrEnd"}
  \/ ex = "Value" /\ st # <<>> /\ Last(st).kind = "Array" /\ Last(st).children = <<>>

Init ==
  /\ stack = <<>> /\ expect = "Value" /\ tok = NoTok /\ root = None /\ failed = None
  /\ offset = 0 /\ events = <<>> /\ path_prefix = <<>> /\ reported_prefix = 0 /\ commit = 0
  /\ held = None /\ feeding = FALSE /\ ended = FALSE /\ input = <<>>

-----------------------------------------------------------------------------
(* How the handling of a byte ends: consumed, failed, or re-dispatched.    *)

(* The loop in feed(): the byte counts, and if no token is open and the    *)
(* structure is closable the commit point moves up to it.                  *)
Consumed ==
  /\ offset' = offset + 1
  /\ commit' = IF tok' = NoTok /\ Closable(expect', stack') THEN offset + 1 ELSE commit
  /\ feeding' = TRUE
  /\ held' = None
  /\ UNCHANGED <<failed, ended>>

(* err(): `?` leaves feed() at once, without emit_progress.                *)
Fail(kind) ==
  /\ failed' = [offset |-> offset, kind |-> kind]
  /\ feeding' = FALSE
  /\ held' = None
  /\ UNCHANGED <<offset, commit, ended>>

Reject(kind) == Fail(kind) /\ UNCHANGED <<tree, log, tok>>

(* attach: the value goes to the slot of the innermost frame of `st`, or   *)
(* becomes the root.                                                       *)
Attach(st, prefix, v) ==
  /\ path_prefix' = prefix
  /\ LET done == Completed(Slot(st, prefix), v)
     IN  IF st = <<>>
         THEN /\ root' = v
              /\ expect' = "Done"
              /\ events' = events \o <<done, DocumentCompleted>>
              /\ stack' = <<>>
         ELSE /\ stack' = [st EXCEPT ![Len(st)] = Filed(@, v)]
              /\ expect' = "CommaOrEnd"
              /\ events' = Append(events, done)
              /\ UNCHANGED root
  /\ UNCHANGED reported_prefix

-----------------------------------------------------------------------------
(* Strings (step_string).  The escape states of the code are one record:   *)
(* `n` hex digits read so far give `acc`, `hi` is the high surrogate that  *)
(* waits for its other half, `pending` counts the bytes of the escape.     *)

InString(state) == tok.type = "Str" /\ tok.state = state

Escape(state, hi, n, acc) ==
  /\ tok' = StrTok(tok.decoded, tok.is_key, state, hi, n, acc, tok.pending + 1)
  /\ UNCHANGED <<tree, log>>
  /\ Consumed

Decode(bytes) ==
  /\ tok' = StrTok(tok.decoded \o bytes, tok.is_key, "Raw", 0, 0, 0, 0)
  /\ UNCHANGED <<tree, log>>
  /\ Consumed

OrdinaryByte(b) ==
  /\ InString("Raw") /\ b \notin Control \cup {"quote", "backslash"}
  /\ Decode(<<b>>)

ControlByte(b) ==
  /\ InString("Raw") /\ b \in Control
  /\ Reject("ControlInString")

BeginEscape(b) ==
  /\ InString("Raw") /\ b = "backslash"
  /\ Escape("Backslash", 0, 0, 0)

CloseKey(b) ==
  /\ InString("Raw") /\ b = "quote" /\ tok.is_key /\ Utf8Valid(tok.decoded)
  /\ stack' = [stack EXCEPT ![Len(stack)] = [@ EXCEPT !.pending_key = tok.decoded]]
  /\ expect' = "Colon"
  /\ tok' = NoTok
  /\ UNCHANGED <<root, path_prefix, log>>
  /\ Consumed

CloseString(b) ==
  /\ InString("Raw") /\ b = "quote" /\ ~tok.is_key /\ Utf8Valid(tok.decoded)
  /\ Attach(stack, path_prefix, Scalar("String", tok.decoded))
  /\ tok' = NoTok
  /\ Consumed

(* String::from_utf8 has taken the bytes out of the token by the time it   *)
(* refuses them.                                                           *)
CloseInvalid(b) ==
  /\ InString("Raw") /\ b = "quote" /\ ~Utf8Valid(tok.decoded)
  /\ tok' = StrTok(<<>>, tok.is_key, "Raw", 0, 0, 0, 0)
  /\ Fail("InvalidUtf8")
  /\ UNCHANGED <<tree, log>>

ShortEscapeByte(b) ==
  /\ InString("Backslash") /\ b \in DOMAIN ShortEscape
  /\ Decode(<<ShortEscape[b]>>)

BeginUnicode(b) ==
  /\ InString("Backslash") /\ b = "u"
  /\ Escape("Unicode", 0, 0, 0)

BadEscape(b) ==
  /\ InString("Backslash") /\ b \notin DOMAIN ShortEscape \cup {"u"}
  /\ Reject("BadEscape")

InHex == InString("Unicode") \/ InString("SurrogateHex")

HexByteOneMore(b) ==
  /\ InHex /\ IsHex(b) /\ tok.n <= 3
  /\ Escape(tok.state, tok.hi, tok.n + 1, 16 * tok.acc + HexValue(b))

HexByte(b) ==
  /\ InHex /\ IsHex(b) /\ tok.n < 3
  /\ Escape(tok.state, tok.hi, tok.n + 1, 16 * tok.acc + HexValue(b))

NotHex(b) ==
  /\ InHex /\ ~IsHex(b)
  /\ Reject("BadUnicodeEscape")

(* The fourth digit decides. *)
LastHex(b) == IsHex(b) /\ tok.n = 3
Unit(b)    == 16 * tok.acc + HexValue(b)

CodePoint(b) ==
  /\ InString("Unicode") /\ LastHex(b) /\ ~IsHighSurrogate(Unit(b)) /\ ~IsLowSurrogate(Unit(b))
  /\ Decode(Utf8(Unit(b)))

HighSurrogateAnew(b) ==
  /\ InString("Unicode") /\ LastHex(b) /\ IsHighSurrogate(Unit(b))
  /\ tok' = StrTok(tok.decoded, tok.is_key, "SurrogateBackslash", Unit(b), 0, 0, 1)
  /\ UNCHANGED <<tree, log>>
  /\ Consumed

HighSurrogate(b) ==
  /\ InString("Unicode") /\ LastHex(b) /\ IsHighSurrogate(Unit(b))
  /\ Escape("SurrogateBackslash", Unit(b), 0, 0)

LoneLowSurrogate(b) ==
  /\ InString("Unicode") /\ LastHex(b) /\ IsLowSurrogate(Unit(b))
  /\ Reject("BadSurrogate")

SurrogateBackslash(b) ==
  /\ InString("SurrogateBackslash") /\ b = "backslash"
  /\ Escape("SurrogateU", tok.hi, 0, 0)

SurrogateU(b) ==
  /\ InString("SurrogateU") /\ b = "u"
  /\ Escape("SurrogateHex", tok.hi, 0, 0)

LowSurrogate(b) ==
  /\ InString("SurrogateHex") /\ LastHex(b) /\ IsLowSurrogate(Unit(b))
  /\ Decode(Utf8(SurrogatePair(tok.hi, Unit(b))))

MissingLowSurrogate(b) ==
  /\ \/ InString("SurrogateBackslash") /\ b # "backslash"
     \/ InString("SurrogateU") /\ b # "u"
     \/ InString("SurrogateHex") /\ LastHex(b) /\ ~IsLowSurrogate(Unit(b))
  /\ Reject("BadSurrogate")

StringByte(b) ==
  \/ OrdinaryByte(b) \/ ControlByte(b) \/ BeginEscape(b)
  \/ CloseKey(b) \/ CloseString(b) \/ CloseInvalid(b)
  \/ ShortEscapeByte(b) \/ BeginUnicode(b) \/ BadEscape(b)
  \/ HexByte(b) \/ NotHex(b)
  \/ CodePoint(b) \/ HighSurrogate(b) \/ LoneLowSurrogate(b)
  \/ SurrogateBackslash(b) \/ SurrogateU(b) \/ LowSurrogate(b) \/ MissingLowSurrogate(b)

-----------------------------------------------------------------------------
(* Numbers (step_number, close_number). *)

Continues(b) == tok.type = "Num" /\ NumNext(tok.state, b) # "none"
Stops(b)     == tok.type = "Num" /\ NumNext(tok.state, b) = "none"
Ends(b)      == b \in Delimiter /\ Terminable(tok.state)

CloseNumberUncommitted ==
  /\ Attach(stack, path_prefix, Scalar("Number", tok.text))
  /\ tok' = NoTok
  /\ UNCHANGED commit

CloseNumber ==
  /\ Attach(stack, path_prefix, Scalar("Number", tok.text))
  /\ tok' = NoTok
  /\ commit' = offset

NumberGrows(b) ==
  /\ Continues(b) /\ ~(PlainDecimal /\ b = "e")
  /\ tok' = NumTok(Append(tok.text, b), NumNext(tok.state, b))
  /\ UNCHANGED <<tree, log>>
  /\ Consumed

ExponentRefused(b) ==
  /\ Continues(b) /\ PlainDecimal /\ b = "e"
  /\ Reject("NumberProfileViolated")

NumberDelimited(b) ==
  /\ Stops(b) /\ Ends(b)
  /\ CloseNumber
  /\ held' = b
  /\ feeding' = TRUE
  /\ UNCHANGED <<failed, offset, ended>>

NumberMalformed(b) ==
  /\ Stops(b) /\ ~Ends(b)
  /\ Reject("MalformedNumber")

NumberByte(b) == NumberGrows(b) \/ ExponentRefused(b) \/ NumberDelimited(b) \/ NumberMalformed(b)

-----------------------------------------------------------------------------
(* Literals (step_literal). *)

Spelling(b) == Append(tok.text, b)

LiteralGrows(b) ==
  /\ tok.type = "Lit" /\ StartsKeyword(Spelling(b)) /\ Spelling(b) \notin Keywords
  /\ tok' = LitTok(Spelling(b))
  /\ UNCHANGED <<tree, log>>
  /\ Consumed

LiteralDone(b) ==
  /\ tok.type = "Lit" /\ Spelling(b) \in Keywords
  /\ Attach(stack, path_prefix, Scalar(ValueKind(tok.text[1]), Spelling(b)))
  /\ tok' = NoTok
  /\ Consumed

LiteralMalformed(b) ==
  /\ tok.type = "Lit" /\ ~StartsKeyword(Spelling(b))
  /\ Reject("BadLiteral")

LiteralByte(b) == LiteralGrows(b) \/ LiteralDone(b) \/ LiteralMalformed(b)

-----------------------------------------------------------------------------
(* Structure (step_structural, begin_value, close_container). *)

At(ex) == tok.type = "None" /\ expect \in ex

SkipSpace(b) ==
  /\ tok.type = "None" /\ b \in Whitespace
  /\ UNCHANGED <<tree, log, tok>>
  /\ Consumed

AnnounceOnly(b) ==
  /\ events' = Append(events, Started(Slot(stack, path_prefix), ValueKind(b)))
  /\ UNCHANGED reported_prefix

Announce(b) ==
  /\ events' = Append(events, Started(Slot(stack, path_prefix), ValueKind(b)))
  /\ reported_prefix' = 0

BeginScalar(b) ==
  /\ At({"Value"}) /\ b \in ValueStart \ {"{", "["}
  /\ Announce(b)
  /\ tok' = CASE b = "quote"           -> NewStr(FALSE)
              [] b \in {"t", "f", "n"} -> LitTok(<<b>>)
              [] OTHER                 -> NumTok(<<b>>, NumStart(b))
  /\ UNCHANGED tree
  /\ Consumed

BeginContainer(b) ==
  /\ At({"Value"}) /\ b \in {"{", "["} /\ Len(stack) < MaxDepth
  /\ Announce(b)
  /\ path_prefix' = Slot(stack, path_prefix)
  /\ stack' = Append(stack, Frame(ValueKind(b)))
  /\ expect' = IF b = "{" THEN "KeyOrEnd" ELSE "Value"
  /\ UNCHANGED <<tok, root>>
  /\ Consumed

(* push_frame refuses after begin_value has announced the container.       *)
TooDeep(b) ==
  /\ At({"Value"}) /\ b \in {"{", "["} /\ Len(stack) >= MaxDepth
  /\ Announce(b)
  /\ Fail("DepthLimitExceeded")
  /\ UNCHANGED <<tree, tok>>

BeginKey(b) ==
  /\ At({"KeyOrEnd", "Key"}) /\ b = "quote"
  /\ tok' = NewStr(TRUE)
  /\ UNCHANGED <<tree, log>>
  /\ Consumed

Colon(b) ==
  /\ At({"Colon"}) /\ b = ":"
  /\ expect' = "Value"
  /\ UNCHANGED <<stack, root, path_prefix, log, tok>>
  /\ Consumed

CommaAlwaysValue(b) ==
  /\ At({"CommaOrEnd"}) /\ b = ","
  /\ expect' = "Value"
  /\ UNCHANGED <<stack, root, path_prefix, log, tok>>
  /\ Consumed

Comma(b) ==
  /\ At({"CommaOrEnd"}) /\ b = ","
  /\ expect' = IF stack # <<>> /\ Last(stack).kind = "Object" THEN "Key" ELSE "Value"
  /\ UNCHANGED <<stack, root, path_prefix, log, tok>>
  /\ Consumed

ClosingAnywhere(b) ==
  /\ tok.type = "None"
  /\ b \in (CASE expect = "KeyOrEnd"   -> {"}"}
              [] expect = "CommaOrEnd" -> {"}", "]"}
              [] expect = "Value"      -> {"]"}
              [] OTHER                 -> {})

(* The bytes handed to close_container, and what it does with them.  The   *)
(* frame is popped before its bracket is compared, and stays popped.       *)
Closing(b) ==
  /\ tok.type = "None"
  /\ b \in (CASE expect = "KeyOrEnd"                         -> {"}"}
              [] expect = "CommaOrEnd"                       -> {"}", "]"}
              [] expect = "Value" /\ Closable(expect, stack) -> {"]"}
              [] OTHER                                       -> {})

Closes(b) == stack # <<>> /\ b = (IF Last(stack).kind = "Object" THEN "}" ELSE "]")

Untruncated == path_prefix

Truncated == IF stack = <<>> THEN path_prefix ELSE SubSeq(path_prefix, 1, Last(stack).path_len)

CloseContainer(b) ==
  /\ Closing(b) /\ Closes(b)
  /\ Attach(Front(stack), Truncated, Container(Last(stack)))
  /\ UNCHANGED tok
  /\ Consumed

MismatchedClose(b) ==
  /\ Closing(b) /\ ~Closes(b)
  /\ stack' = IF stack = <<>> THEN <<>> ELSE Front(stack)
  /\ path_prefix' = Truncated
  /\ Fail(IF stack = <<>> THEN "UnbalancedClose" ELSE "MismatchedClose")
  /\ UNCHANGED <<expect, root, log, tok>>

Unexpected(b) ==
  /\ At({"Value", "KeyOrEnd", "Key", "Colon", "CommaOrEnd"}) /\ b \notin Whitespace /\ ~Closing(b)
  /\ b \notin (CASE expect = "Value"               -> ValueStart
                 [] expect \in {"KeyOrEnd", "Key"} -> {"quote"}
                 [] expect = "Colon"               -> {":"}
                 [] OTHER                          -> {","})
  /\ Reject("Unexpected")

TrailingContent(b) ==
  /\ At({"Done"}) /\ b \notin Whitespace
  /\ Reject("TrailingContent")

StructuralByte(b) ==
  \/ SkipSpace(b)
  \/ BeginScalar(b) \/ BeginContainer(b) \/ TooDeep(b)
  \/ BeginKey(b) \/ Colon(b) \/ Comma(b)
  \/ CloseContainer(b) \/ MismatchedClose(b)
  \/ Unexpected(b) \/ TrailingContent(b)

-----------------------------------------------------------------------------
(* The calls: push (a run of Step, then EndPush unless a byte failed) and  *)
(* finish.  A failed stream returns its error again and changes nothing.   *)

Receive(b)    == held = None /\ Sends(Append(input, b)) /\ input' = Append(input, b)
Redispatch(b) == held = b /\ UNCHANGED input

Step(b) ==
  /\ failed = None
  /\ Receive(b) \/ Redispatch(b)
  /\ StringByte(b) \/ NumberByte(b) \/ LiteralByte(b) \/ StructuralByte(b)

(* emit_progress, at the end of a push. *)
Growing == tok.type = "Str" /\ ~tok.is_key
Stable  == StablePrefix(tok.decoded)

PushReturns == feeding /\ failed = None /\ held = None

ReportEveryPush ==
  /\ PushReturns /\ Growing /\ Len(Stable) >= reported_prefix
  /\ events' = Append(events, Progressed(Slot(stack, path_prefix), Stable))
  /\ reported_prefix' = Len(Stable)

ReportProgress ==
  /\ PushReturns /\ Growing /\ Len(Stable) > reported_prefix
  /\ events' = Append(events, Progressed(Slot(stack, path_prefix), Stable))
  /\ reported_prefix' = Len(Stable)

NothingToReport ==
  /\ PushReturns /\ ~(Growing /\ Len(Stable) > reported_prefix)
  /\ reported_prefix' = IF Growing THEN reported_prefix ELSE 0
  /\ UNCHANGED events

EndPush ==
  /\ ReportProgress \/ NothingToReport
  /\ feeding' = FALSE
  /\ UNCHANGED <<tree, tok, failed, offset, commit, held, ended, input>>

Finishing == ~feeding /\ failed = None /\ ended' = TRUE /\ UNCHANGED input

FinishNumber ==
  /\ Finishing /\ tok.type = "Num" /\ Terminable(tok.state)
  /\ CloseNumber
  /\ UNCHANGED <<failed, offset, held, feeding>>

FinishPartial ==
  /\ Finishing
  /\ \/ tok.type = "Num" /\ ~Terminable(tok.state)
     \/ tok.type = "Lit" /\ tok.text \notin Keywords
  /\ failed' = [offset |-> offset,
                kind |-> IF tok.type = "Num" THEN "MalformedNumber" ELSE "BadLiteral"]
  /\ UNCHANGED <<tree, log, tok, offset, commit, held, feeding>>

FinishOther ==
  /\ Finishing /\ tok.type # "Num" /\ (tok.type = "Lit" => tok.text \in Keywords)
  /\ UNCHANGED <<tree, log, tok, failed, offset, commit, held, feeding>>

Finish == FinishNumber \/ FinishPartial \/ FinishOther

Next == (\E b \in Alphabet : Step(b)) \/ EndPush \/ Finish

Spec == Init /\ [][Next]_vars

(* document_complete *)
DocumentComplete == expect = "Done" /\ tok.type = "None"

-----------------------------------------------------------------------------
(* Types.  Values are trees of any height, so of a sequence that holds     *)
(* them only the shape is said.                                            *)

IsFrame(f) ==
  /\ f = [kind |-> f.kind, children |-> f.children, pending_key |-> f.pending_key,
          path_len |-> f.path_len]
  /\ f.kind \in {"Object", "Array"} /\ IsSequence(f.children)
  /\ f.pending_key \in Seq(Byte) \cup {None} /\ f.path_len \in Nat

Expect == {"Value", "KeyOrEnd", "Key", "Colon", "CommaOrEnd", "Done"}

StrState == {"Raw", "Backslash", "Unicode", "SurrogateBackslash", "SurrogateU", "SurrogateHex"}

Tok == {NoTok}
  \cup [type : {"Str"}, decoded : Seq(Byte), is_key : BOOLEAN, state : StrState,
        hi : Nat, n : 0..3, acc : Nat, pending : Nat]
  \cup [type : {"Num"}, text : Seq(Byte), state : NumState]
  \cup [type : {"Lit"}, text : Seq(Byte)]

TypeOK ==
  /\ IsSequence(stack) /\ \A i \in 1..Len(stack) : IsFrame(stack[i])
  /\ expect \in Expect /\ tok \in Tok
  /\ failed \in Failure \cup {None}
  /\ offset \in Nat /\ reported_prefix \in Nat /\ commit \in Nat
  /\ IsSequence(events) /\ IsSequence(path_prefix)
  /\ held \in Alphabet \cup {None} /\ feeding \in BOOLEAN /\ ended \in BOOLEAN
  /\ input \in Seq(Alphabet)

-----------------------------------------------------------------------------
(* What holds of the machine's own state. *)

(* The path that every event carries is cached: path_prefix is extended    *)
(* when a container opens and cut back to path_len when it closes.  At any *)
(* time, failures included, it equals what walking the frames would spell. *)
CacheAgrees(st, prefix) ==
  /\ Len(prefix) = IF st = <<>> THEN 0 ELSE Len(st) - 1
  /\ \A i \in 1..(Len(st) - 1) : prefix[i] = SlotToken(st[i])
  /\ \A i \in 1..Len(st) : st[i].path_len = IF i = 1 THEN 0 ELSE i - 2

PathCache == CacheAgrees(stack, path_prefix)

(* `expect`, the token, the frames' pending keys and the byte to           *)
(* re-dispatch are kept apart but move together.  Until the stream fails:  *)
(* an object has a pending key exactly while its value is awaited or being *)
(* built, so attach() never files a member under unwrap_or_default()'s     *)
(* empty key; and a bracket is expected only while a frame is open, so     *)
(* close_container() never finds the stack empty.                          *)
KeysAgree(st, ex) == \A i \in 1..Len(st) :
  (st[i].pending_key # None)
     <=> (st[i].kind = "Object" /\ (i < Len(st) \/ ex \in {"Colon", "Value"}))

ExpectAgrees(st, ex) ==
  /\ st = <<>> => ex \in {"Value", "Done"}
  /\ st # <<>> => ex # "Done" /\ (Last(st).kind = "Array" => ex \in {"Value", "CommaOrEnd"})

TokenAgrees ==
  /\ tok.type = "Str" => expect \in (IF tok.is_key THEN {"KeyOrEnd", "Key"} ELSE {"Value"})
  /\ tok.type \in {"Num", "Lit"} => expect = "Value"
  /\ held # None => tok = NoTok /\ expect \in {"CommaOrEnd", "Done"}

FramesAgree ==
  failed = None => KeysAgree(stack, expect) /\ ExpectAgrees(stack, expect) /\ TokenAgrees

(* completion() drops `pending` bytes to cut an unresolved escape off, so  *)
(* the count must be the escape's length in every state of it; the hex     *)
(* accumulator holds as many digits as were read, so `as u16` cuts nothing *)
(* off; and the half kept for a pair is a high surrogate.                  *)
Power16 == <<16, 256, 4096>>

EscapeLength(state, n) == CASE state = "Raw"                -> 0
                            [] state = "Backslash"          -> 1
                            [] state = "Unicode"            -> 2 + n
                            [] state = "SurrogateBackslash" -> 6
                            [] state = "SurrogateU"         -> 7
                            [] state = "SurrogateHex"       -> 8 + n

EscapeAccounts == tok.type = "Str" =>
  /\ tok.pending = EscapeLength(tok.state, tok.n)
  /\ IF tok.n = 0 THEN tok.acc = 0 ELSE tok.acc < Power16[tok.n]
  /\ tok.state \in {"SurrogateBackslash", "SurrogateU", "SurrogateHex"} => IsHighSurrogate(tok.hi)

(* close_container() keeps an arm for a bracket with nothing open.  No     *)
(* input reaches it: such a bracket is refused before it gets there.       *)
NeverUnbalanced == failed = None \/ failed.kind # "UnbalancedClose"

(* completion() rewinds to `commit` and closes the frames open *now*, so   *)
(* it is sound only if no frame opens or closes without moving the commit  *)
(* point: a step that changes the stack and does not fail moves it up to   *)
(* the bytes consumed so far.                                              *)
CommitsFrames == Len(stack') # Len(stack) /\ failed' = None => commit' = offset'

CommitFollowsFrames == [][CommitsFrames]_vars
=============================================================================
