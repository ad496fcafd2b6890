------------------------------- MODULE Stream -------------------------------
(***************************************************************************)
(* What a caller sees of the parser: the queries of src/src/lib.rs over a  *)
(* snapshot of the tree, and the completion of a truncated document.       *)
(*                                                                         *)
(* A query runs between two calls, so the properties below speak of idle   *)
(* states, in which no push is under way.                                  *)
(***************************************************************************)
EXTENDS Parser

Idle == ~feeding

-----------------------------------------------------------------------------
(* The snapshot (token_value, snapshot). *)

TokenValueEager ==
  CASE tok.type = "Str" /\ ~tok.is_key                -> Scalar("PartialString", Stable)
    [] tok.type = "Num" /\ Terminable(tok.state)      -> Scalar("Number", tok.text)
    [] tok.type = "Num" /\ ~Terminable(tok.state)     -> Scalar("PartialNumber", tok.text)
    [] tok.type = "Lit"                               -> Scalar("PartialLiteral", tok.text)
    [] OTHER                                          -> None

TokenValue ==
  CASE tok.type = "Str" /\ ~tok.is_key -> Scalar("PartialString", Stable)
    [] tok.type = "Num"                -> Scalar("PartialNumber", tok.text)
    [] tok.type = "Lit"                -> Scalar("PartialLiteral", tok.text)
    [] OTHER                           -> None

(* A frame with the value under construction in its slot. *)
Filled(f, v) ==
  Container(IF v = None THEN f ELSE Filed(f, v))

(* From the innermost frame outwards; the root once everything is closed.  *)
Snapshot ==
  LET open[i \in 1..Len(stack) + 1] ==
        IF i > Len(stack) THEN TokenValue ELSE Filled(stack[i], open[i + 1])
  IN  IF open[1] = None THEN root ELSE open[1]

-----------------------------------------------------------------------------
(* Stream::status. *)

(* open_frame_path: its last token addresses the slot, not a container.    *)
OpenFramePath == [i \in 1..(Len(stack) - 1) |-> SlotToken(stack[i])]

IsOpenContainer(path) == stack # <<>> /\ IsPrefix(path, OpenFramePath)

StatusOf(path, v) ==
  IF v = None THEN "Missing"
  ELSE IF v.type \in Partial \/ IsOpenContainer(path) THEN "Incomplete"
  ELSE "Complete"

Status(path) == StatusOf(path, ValueIn(Snapshot, path))

(* Every path of the snapshot with the value a query finds there; no value *)
(* lies deeper than the frames allow.                                      *)
Below(n) == { [path |-> Append(n.path, t), value |-> Child(n.value, t)] : t \in ChildrenOf(n.value) }

NodesOf(doc) ==
  LET at[d \in 0..MaxDepth + 1] ==
        IF d = 0 THEN { [path |-> <<>>, value |-> v] : v \in {doc} \ {None} }
        ELSE UNION { Below(n) : n \in at[d - 1] }
  IN  UNION { at[d] : d \in 0..MaxDepth + 1 }

Nodes == Once(Snapshot, NodesOf)

IsFinal(n) == StatusOf(n.path, n.value) = "Complete"

(* What is final: every complete path and its value. *)
Final == { n \in Nodes : IsFinal(n) }

-----------------------------------------------------------------------------
(* Parser::completion and complete_json. *)

Closers == [i \in 1..Len(stack) |->
              IF stack[Len(stack) + 1 - i].kind = "Object" THEN "}" ELSE "]"]

KeepEscape == CASE tok.type = "Str" /\ ~tok.is_key           -> offset
                [] tok.type = "Lit"                          -> offset
                [] tok.type = "Num" /\ Terminable(tok.state) -> offset
                [] OTHER                                     -> commit

Keep == CASE tok.type = "Str" /\ ~tok.is_key               -> offset - tok.pending
          [] tok.type = "Lit"                              -> offset
          [] tok.type = "Num" /\ Terminable(tok.state)     -> offset
          [] OTHER                                         -> commit

Ending == CASE tok.type = "Str" /\ ~tok.is_key -> <<"quote">>
          [] tok.type = "Lit" -> SubSeq(KeywordOf(tok.text), Len(tok.text) + 1,
                                        Len(KeywordOf(tok.text)))
          [] OTHER            -> <<>>

CompleteJson == SubSeq(input, 1, Keep) \o Ending \o Closers

-----------------------------------------------------------------------------
(* Stability. *)

(* Two things void the promise.  A document that repeats a key in one      *)
(* object gives two values one path.  And a bracket that closes the wrong  *)
(* container makes the frame it popped vanish.                             *)
RepeatsKey == \E n \in Nodes :
  n.value.type = "Object" /\ Cardinality(ChildrenOf(n.value)) < Len(n.value.data)

FrameLost == failed # None /\ failed.kind = "MismatchedClose"

Promise == INSTANCE StableDocument WITH final <- Final, kept <- ~RepeatsKey /\ ~FrameLost

(* The stability guarantee: once a path is Complete, its value does not    *)
(* change and nothing appears below it, whatever bytes follow, wherever    *)
(* the chunks end, through finish() and after a failure; and containers    *)
(* complete from the inside out.  (README, "Completion is irrevocable".)   *)
StreamIsStable == Promise!Spec

(* The same guarantee as the README and event.rs word it, without the two  *)
(* exceptions.                                                             *)
CompletionIsIrrevocable ==
  [][Final \subseteq Final']_vars

(* "The part that cannot change": the stable prefix that a snapshot shows  *)
(* of an open string only grows while that string stays open.              *)
StablePrefixKept ==
  [][Growing /\ Growing' => IsPrefix(Stable, Stable')]_vars

-----------------------------------------------------------------------------
(* The event log. *)

IsEvent(i, type) == events[i].type = type
SamePath(i, j)   == ~IsEvent(i, "DocumentCompleted") /\ ~IsEvent(j, "DocumentCompleted")
                    /\ events[i].path = events[j].path

(* event.rs, guarantees 1 to 3.  A path starts once, then progresses by   *)
(* strictly growing prefixes, completes once and then is silent, with a    *)
(* value that extends the last prefix.  A child's completion precedes its  *)
(* parent's.  DocumentCompleted is the last event of a complete document   *)
(* and of no other.                                                        *)
EventOrder == Idle /\ failed = None /\ ~RepeatsKey =>
  /\ \A j \in DOMAIN events : \A i \in 1..(j - 1) :
       /\ ~IsEvent(i, "DocumentCompleted")
       /\ SamePath(i, j) =>
            /\ ~IsEvent(j, "ValueStarted") /\ ~IsEvent(i, "ValueCompleted")
            /\ IsEvent(i, "ValueProgressed") =>
                 IF IsEvent(j, "ValueProgressed")
                 THEN IsStrictPrefix(events[i].stable_prefix, events[j].stable_prefix)
                 ELSE /\ events[j].value.type = "String"
                      /\ IsPrefix(events[i].stable_prefix, events[j].value.data)
  /\ \A i \in DOMAIN events : events[i].type \in {"ValueProgressed", "ValueCompleted"} =>
       \E j \in 1..(i - 1) : IsEvent(j, "ValueStarted") /\ SamePath(j, i)
  /\ \A i \in DOMAIN events : IsEvent(i, "ValueCompleted") =>
       \A t \in ChildrenOf(events[i].value) : \E j \in 1..(i - 1) :
         events[j] = Completed(Append(events[i].path, t), Child(events[i].value, t))
  /\ DocumentComplete <=> \E i \in DOMAIN events : IsEvent(i, "DocumentCompleted")

(* Listening is as good as polling: between two calls, a consumer that has *)
(* only read the log knows which paths have a value, which values are      *)
(* complete and what they are, and the whole stable text of the string     *)
(* that is still open.                                                     *)
LoggedText ==
  LET last == SelectLastInSeq(events, LAMBDA e : e.type # "DocumentCompleted")
  IN  IF IsEvent(last, "ValueProgressed") THEN events[last].stable_prefix ELSE <<>>

EventsMirrorDocument == Idle /\ failed = None /\ ~RepeatsKey =>
  /\ { n.path : n \in Nodes } =
       { events[i].path : i \in { j \in DOMAIN events : IsEvent(j, "ValueStarted") } }
  /\ \A n \in Nodes :
       IsFinal(n) <=> \E i \in DOMAIN events : events[i] = Completed(n.path, n.value)
  /\ Growing => LoggedText = Stable
=============================================================================
