--------------------------- MODULE SchemaSemantics ---------------------------
(***************************************************************************)
(* What it means for a complete value to satisfy a schema, as JSON Schema  *)
(* defines it: no prefixes, no verdicts, and the node that governs a path  *)
(* found with the value at hand.  It shares with the validator only how a  *)
(* node is written down, the values of numbers, the search of a pattern    *)
(* and the equality of two values.                                         *)
(***************************************************************************)
EXTENDS Validator

Holds(n, keyword, Test(_)) == keyword \in DOMAIN n => Test(n[keyword])

HasType(types, v) ==
  IF v.type = "Number" THEN "number" \in types \/ ("integer" \in types /\ Integral(v.data))
  ELSE KindOf(v) \subseteq types

StringHolds(n, v) ==
  /\ Holds(n, "maxLength", LAMBDA max : Chars(v.data) <= max)
  /\ Holds(n, "minLength", LAMBDA min : Chars(v.data) >= min)
  /\ Holds(n, "pattern",   LAMBDA p   : Matches(p, v.data))

NumberHolds(n, x) ==
  /\ Holds(n, "minimum",          LAMBDA m : m <= x)
  /\ Holds(n, "maximum",          LAMBDA m : x <= m)
  /\ Holds(n, "exclusiveMinimum", LAMBDA m : m < x)
  /\ Holds(n, "exclusiveMaximum", LAMBDA m : x < m)
  /\ Holds(n, "multipleOf",       LAMBDA m : \E q \in -Scale..Scale : q * m = x)

RECURSIVE Satisfies(_, _, _)

ArrayHolds(w, n, v) ==
  /\ Holds(n, "maxItems", LAMBDA max : Len(v.data) <= max)
  /\ Holds(n, "minItems", LAMBDA min : Len(v.data) >= min)
  /\ Holds(n, "uniqueItems", LAMBDA on : on =>
       \A i, j \in DOMAIN v.data : Equal(v.data[i].value, v.data[j].value) => i = j)
  /\ Holds(n, "prefixItems", LAMBDA ids :
       \A i \in DOMAIN ids \cap DOMAIN v.data : Satisfies(w, ids[i], v.data[i].value))
  /\ Holds(n, "items", LAMBDA id :
       \A i \in DOMAIN v.data : Len(Get(n, "prefixItems", <<>>)) < i
                                  => Satisfies(w, id, v.data[i].value))

ObjectHolds(w, n, v) ==
  LET members == { v.data[i] : i \in DOMAIN v.data }
      named   == IF Has(n, "properties") THEN DOMAIN n.properties ELSE {}
  IN  /\ Holds(n, "maxProperties", LAMBDA max : Len(v.data) <= max)
      /\ Holds(n, "minProperties", LAMBDA min : Len(v.data) >= min)
      /\ Holds(n, "required", LAMBDA keys : keys \subseteq { m.token : m \in members })
      /\ \A m \in members : m.token \in named => Satisfies(w, n.properties[m.token], m.value)
      /\ Holds(n, "additionalProperties", LAMBDA id :
           \A m \in members : m.token \in named \/ id = Permitted
                                \/ (id > NoNode /\ Satisfies(w, id, m.value)))

Satisfies(w, id, v) ==
  LET n == w.nodes[id]
  IN  /\ Holds(n, "boolean", LAMBDA b : b)
      /\ Holds(n, "types", LAMBDA types : HasType(types, v))
      /\ Holds(n, "enumeration", LAMBDA t :
           v.type = "String" /\ \E i \in DOMAIN t.strings : t.strings[i] = v.data)
      /\ Holds(n, "const", LAMBDA c : Equal(c, v))
      /\ v.type = "String" => StringHolds(n, v)
      /\ v.type = "Number" => NumberHolds(n, NumberOf(v.data))
      /\ v.type = "Array"  => ArrayHolds(w, n, v)
      /\ v.type = "Object" => ObjectHolds(w, n, v)
      /\ Holds(n, "allOf", LAMBDA ids : \A k \in ids : Satisfies(w, k, v))
      /\ Holds(n, "anyOf", LAMBDA ids : \E k \in ids : Satisfies(w, k, v))
      /\ Holds(n, "oneOf", LAMBDA ids :
           \E i \in DOMAIN ids : \A j \in DOMAIN ids : Satisfies(w, ids[j], v) <=> i = j)
      /\ Holds(n, "not", LAMBDA k : ~Satisfies(w, k, v))
=============================================================================
