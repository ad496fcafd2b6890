------------------------------- MODULE Values -------------------------------
(***************************************************************************)
(* Values as snapshots hold them (src/src/value.rs) and how a path of      *)
(* tokens leads into one.  A container's data is the sequence of its       *)
(* children, each with its token: the name of a member, the index of an    *)
(* element.  A scalar's data is its text.                                  *)
(***************************************************************************)
EXTENDS JsonLexis, SequencesExt

CONSTANT None   \* Option::None

Scalar(type, text) == [type |-> type, data |-> text]

(* Value::child, by name in an object (the first of that name), by index   *)
(* in an array.                                                            *)
ChildIndex(v, token) ==
  CASE v.type = "Object" -> SelectInSeq(v.data, LAMBDA c : c.token = token)
    [] v.type = "Array" /\ IndexOf(token) + 1 \in 1..Len(v.data) -> IndexOf(token) + 1
    [] OTHER -> 0

Child(v, token) ==
  IF v = None \/ ChildIndex(v, token) = 0 THEN None ELSE v.data[ChildIndex(v, token)].value

ValueIn(doc, path) ==
  LET at[k \in 0..Len(path)] == IF k = 0 THEN doc ELSE Child(at[k - 1], path[k])
  IN  at[Len(path)]

Partial == {"PartialString", "PartialNumber", "PartialLiteral"}

(* A value's children, and their tokens. *)
ChildValues(v) == IF v.type \in {"Object", "Array"} THEN { v.data[i].value : i \in DOMAIN v.data }
                  ELSE {}

ChildrenOf(v) == IF v.type \in {"Object", "Array"} THEN { v.data[i].token : i \in DOMAIN v.data }
                 ELSE {}

(* The shape of a value: a String, a Vec of members, a Vec of elements.    *)
Shaped(v) ==
  /\ v.type \in {"String", "Object", "Array"} => IsSequence(v.data)
  /\ v.type \in {"Object", "Array"} => \A i \in DOMAIN v.data : IsSequence(v.data[i].token)
  /\ v.type = "Array" => \A i \in DOMAIN v.data : v.data[i].token = Decimal(i - 1)
=============================================================================
