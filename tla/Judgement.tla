------------------------------ MODULE Judgement ------------------------------
(***************************************************************************)
(* The validator's verdicts against the meaning of the schema.             *)
(***************************************************************************)
EXTENDS ValidatedStream, SchemaSemantics

VARIABLE answers   \* history: the verdict on each value, as a caller would be told now

Answers == { [path |-> n.path, verdict |-> ValidationOf(n.path, n.value)] : n \in Nodes }

Asked == answers' = Answers'

JInit == VInit /\ answers = {}

JNext == (\E b \in Alphabet : VStep(b) /\ Asked) \/ (VEndPush /\ Asked) \/ (VFinish /\ Asked)
           \/ (Drain /\ Asked)

JSpec == JInit /\ [][JNext]_<<all_vars, answers>>

-----------------------------------------------------------------------------

(* The node that governs a value, found by what the containers on the way  *)
(* are, not by what the tokens look like.                                  *)
ElementNode(n, i) ==
  IF i \in DOMAIN Get(n, "prefixItems", <<>>) THEN n.prefixItems[i] ELSE Get(n, "items", NoNode)

Governing(w, doc, path) ==
  LET next(id, v, token) ==
        IF v.type = "Array" THEN ElementNode(w.nodes[id], IndexOf(token) + 1)
        ELSE IF Has(w.nodes[id], "properties") /\ token \in DOMAIN w.nodes[id].properties
        THEN w.nodes[id].properties[token]
        ELSE Max({NoNode, Get(w.nodes[id], "additionalProperties", Permitted)})
      at[k \in 0..Len(path)] ==
        IF k = 0 THEN [id |-> 1, value |-> doc]
        ELSE [id    |-> IF at[k - 1].id = NoNode THEN NoNode
                        ELSE next(at[k - 1].id, at[k - 1].value, path[k]),
              value |-> Child(at[k - 1].value, path[k])]
  IN  at[Len(path)].id

(* Two things the validator does not get right, and does not get wrong: a  *)
(* member whose name reads as a number is looked up as an element; and an  *)
(* enum's members that are not strings are never compared.                 *)
NamedByNumber(path) == \E k \in DOMAIN path :
  IndexOf(path[k]) # -1 /\ ValueIn(Snapshot, SubSeq(path, 1, k - 1)).type = "Object"

EnumUndecided(n) ==
  /\ ValidationOf(n.path, n.value) = "Pending"
  /\ \E id \in DOMAIN schema.nodes :
       Has(schema.nodes[id], "enumeration") /\ schema.nodes[id].enumeration.has_non_strings

(* When a value is complete its verdict is settled and right: Valid if the *)
(* value satisfies the schema that governs it, a failure if not.           *)
SettledVerdictIsRight == Idle =>
  \A n \in Nodes :
    LET id == Governing(schema, Snapshot, n.path)
    IN  IsFinal(n) /\ id # NoNode /\ ~NamedByNumber(n.path) /\ ~EnumUndecided(n) =>
          IF Satisfies(schema, id, n.value) THEN ValidationOf(n.path, n.value) = "Valid"
          ELSE IsFailure(ValidationOf(n.path, n.value))
-----------------------------------------------------------------------------
(* Stability. *)

(* "No continuation of the input can make this value valid": a path that   *)
(* has failed is a failure for good and one that is Valid stays so,        *)
(* whatever arrives, wherever the chunks end.  Not where the parser itself *)
(* breaks its promises: a repeated key, a frame lost to a wrong bracket, a *)
(* string emptied by bytes that are not UTF-8.                             *)
Told(verdicts) == { a.path : a \in { b \in answers : b.verdict \in verdicts } }

Kept == ~RepeatsKey /\ ~FrameLost /\ (failed # None => failed.kind # "InvalidUtf8")

Promised == INSTANCE StableVerdicts WITH
  failed <- Told({"Invalid", "IrrecoverablyInvalid"}),
  passed <- Told({"Valid"}),
  kept   <- Kept

VerdictsAreStable == Promised!Spec

(* is_irrecoverable *)
IsIrrecoverableDocument == <<>> \in Told({"IrrecoverablyInvalid"})

(* "True when the document can no longer become valid, whatever arrives":  *)
(* then it must stay true.  (is_irrecoverable in lib.rs.)                  *)
IrrecoverableIsFinal ==
  [][IsIrrecoverableDocument => IsIrrecoverableDocument']_answers

(* "No continuation of the input can make this value valid": the document  *)
(* must stay a failure.  (IrrecoverablyInvalid in validate.rs.)            *)
IrrecoverableIsHopeless ==
  [][IsIrrecoverableDocument => <<>> \in Told({"Invalid", "IrrecoverablyInvalid"})']_answers
=============================================================================
