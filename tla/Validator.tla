------------------------------ MODULE Validator ------------------------------
(***************************************************************************)
(* Judging a value, finished or not, against a schema                      *)
(* (src/src/validate.rs).                                                  *)
(*                                                                         *)
(* A schema is a record [nodes, profile]; a node is a record of the        *)
(* keywords it has, with node numbers for subschemas.  Each check is the   *)
(* set of the outcomes it contributes: folding the parts of each check and *)
(* then the results, as the code does, gives what folding them at once     *)
(* gives.                                                                  *)
(*                                                                         *)
(* Numbers are decimals with at most two places, scaled to integers; the   *)
(* rounding of f64 is left out.                                            *)
(***************************************************************************)
EXTENDS SchemaNodes, Verdicts, EnumTrie, Pattern

(* Numbers. *)

Scale    == 100
Infinity == 1000000

Negative(text)  == text # <<>> /\ text[1] = "-"
Magnitude(text) == IF Negative(text) THEN Tail(text) ELSE text

(* The place of the decimal point, past the end when there is none. *)
Point(digits) ==
  Min({ i \in DOMAIN digits : digits[i] = "." } \cup {Len(digits) + 1})

(* parse::<f64>, of digits with or without a point. *)
Unsigned(digits) ==
  Once(Point(digits), LAMBDA p :
    FoldFunction(LAMBDA x, y : x + y, 0,
      [i \in DOMAIN digits |->
         IF i < p THEN HexValue(digits[i]) * Scale * 10 ^ (p - 1 - i)
         ELSE IF i = p THEN 0 ELSE HexValue(digits[i]) * (Scale \div 10 ^ (i - p))]))

NumberOf(text) ==
  Once(Magnitude(text), LAMBDA digits : IF Negative(text) THEN -Unsigned(digits) ELSE Unsigned(digits))

Integral(text) == NumberOf(text) % Scale = 0

(* The step of the last place; an integer prefix may gain digits without end. *)
UpperBoundOneUnit(digits) ==
  Once(Point(digits), LAMBDA p : Unsigned(digits)
    + (IF p > Len(digits) THEN Scale ELSE Scale \div 10 ^ (Len(digits) - p)))

UpperBound(digits) ==
  Once(Point(digits), LAMBDA p :
    IF p > Len(digits) THEN Infinity ELSE Unsigned(digits) + Scale \div 10 ^ (Len(digits) - p))

(* numeric_interval, when there is one. *)
HasInterval(text, profile) ==
  /\ profile = "PlainDecimal" /\ Magnitude(text) # <<>>
  /\ ~\E i \in DOMAIN text : text[i] = "e"

NumericInterval(text) ==
  Once(Magnitude(text), LAMBDA digits :
    IF Negative(text) THEN [lo |-> -UpperBound(digits), hi |-> -Unsigned(digits)]
    ELSE [lo |-> Unsigned(digits), hi |-> UpperBound(digits)])

Within(n, keyword, x) ==
  CASE keyword = "minimum"          -> x >= n.minimum
    [] keyword = "maximum"          -> x <= n.maximum
    [] keyword = "exclusiveMinimum" -> x > n.exclusiveMinimum
    [] keyword = "exclusiveMaximum" -> x < n.exclusiveMaximum

(* The whole interval is out of range. *)
Beyond(n, keyword, range) ==
  CASE keyword = "minimum"          -> range.hi < n.minimum
    [] keyword = "maximum"          -> range.lo > n.maximum
    [] keyword = "exclusiveMinimum" -> range.hi <= n.exclusiveMinimum
    [] keyword = "exclusiveMaximum" -> range.lo >= n.exclusiveMaximum

IsMultiple(x, m) == m # 0 /\ (IF x < 0 THEN -x ELSE x) % m = 0
-----------------------------------------------------------------------------
(* Values. *)

NumberType == {"number", "integer"}

KindOfByText(v) ==
  CASE v.type = "Null"                            -> {"null"}
    [] v.type = "Bool"                            -> {"boolean"}
    [] v.type = "Object"                          -> {"object"}
    [] v.type = "Array"                           -> {"array"}
    [] v.type \in {"String", "PartialString"}     -> {"string"}
    [] v.type \in {"Number", "PartialNumber"}     -> NumberType
    [] v.type = "PartialLiteral"                  ->
         IF Len(v.data) = 1 THEN {"boolean", "null"} ELSE IF v.data[1] = "n" THEN {"null"} ELSE {"boolean"}

KindOf(v) == CASE v.type = "Null"                            -> {"null"}
               [] v.type = "Bool"                            -> {"boolean"}
               [] v.type = "Object"                          -> {"object"}
               [] v.type = "Array"                           -> {"array"}
               [] v.type \in {"String", "PartialString"}     -> {"string"}
               [] v.type \in {"Number", "PartialNumber"}     -> NumberType
               [] v.type = "PartialLiteral"                  -> {"boolean", "null"}

(* ==, derived: a number is its lexeme, an object's members have an order. *)
RECURSIVE Equal(_, _)
Equal(u, v) ==
  /\ u.type = v.type
  /\ IF u.type \in {"Object", "Array"}
     THEN /\ Len(u.data) = Len(v.data)
          /\ \A i \in DOMAIN u.data : /\ u.data[i].token = v.data[i].token
                                     /\ Equal(u.data[i].value, v.data[i].value)
     ELSE u.data = v.data

(* chars().count(), of UTF-8 that is valid. *)
Chars(text) == Cardinality({ i \in DOMAIN text : text[i] # "cont" })

-----------------------------------------------------------------------------
(* The checks of a single value. *)

CheckType(n, v, complete) ==
  IF ~Has(n, "types") THEN {}
  ELSE When(n.types \cap KindOf(v) = {}, "IrrecoverablyInvalid")
       \cup When(complete /\ n.types \cap NumberType = {"integer"} /\ v.type = "Number"
                   /\ ~Integral(v.data), "Invalid")

CheckEnum(t, v, complete) ==
  CASE v.type = "String" -> IF ContainsMember(t.strings, v.data) THEN "ValidSoFar"
                            ELSE IF complete THEN "Invalid" ELSE "IrrecoverablyInvalid"
    [] v.type = "PartialString" -> IF PrefixIsLive(t.strings, v.data) THEN "Pending"
                                   ELSE "IrrecoverablyInvalid"
    [] OTHER -> IF t.has_non_strings THEN "Pending" ELSE "IrrecoverablyInvalid"

CheckConst(want, v, complete) ==
  IF want.type = "String" /\ v.type = "PartialString"
  THEN IF IsPrefix(v.data, want.data) THEN "Pending" ELSE "IrrecoverablyInvalid"
  ELSE IF complete THEN OkOrInvalid(Equal(want, v)) ELSE "Pending"

CheckPattern(p, text, settled) ==
  IF settled THEN OkOrInvalid(Matches(p, text))
  ELSE IF PatternIsLive(p, text) THEN "Pending" ELSE "IrrecoverablyInvalid"

CheckEnumAndConst(n, v, complete) ==
  { CheckEnum(n.enumeration, v, complete) : k \in {"enumeration"} \cap DOMAIN n } \cup
  { CheckConst(n.const, v, complete) : k \in {"const"} \cap DOMAIN n }

CheckString(n, v, complete) ==
  IF v.type \notin {"String", "PartialString"} THEN {}
  ELSE LET settled == v.type = "String" /\ complete
       IN  When(Has(n, "maxLength") /\ Chars(v.data) > Get(n, "maxLength", 0), "IrrecoverablyInvalid")
           \cup { Goal(Chars(v.data) >= n.minLength, settled) : k \in {"minLength"} \cap DOMAIN n }
           \cup { CheckPattern(n.pattern, v.data, settled) : k \in {"pattern"} \cap DOMAIN n }

CheckNumber(n, v, complete, profile) ==
  IF v.type \notin {"Number", "PartialNumber"} \/ (Bounds \cup {"multipleOf"}) \cap DOMAIN n = {}
  THEN {}
  ELSE IF v.type = "Number" /\ complete
  THEN { OkOrInvalid(Within(n, k, x)) : k \in Bounds \cap DOMAIN n, x \in { NumberOf(v.data) } }
       \cup { OkOrInvalid(IsMultiple(NumberOf(v.data), n.multipleOf)) :
              k \in {"multipleOf"} \cap DOMAIN n }
  ELSE {"Pending"} \cup
       When(HasInterval(v.data, profile) /\ \E range \in { NumericInterval(v.data) } :
              \E k \in Bounds \cap DOMAIN n : Beyond(n, k, range), "IrrecoverablyInvalid")
-----------------------------------------------------------------------------
(* The checks of what a value holds.  A child of an open container is      *)
(* taken for complete once another child follows it.                       *)

RECURSIVE Judge(_, _, _, _)

Followed(v, i, complete) == complete \/ i < Len(v.data)

(* A child with the node it answers to, if there is one. *)
Under(ids, v, i, complete) ==
  { [id |-> id, value |-> v.data[i].value, complete |-> Followed(v, i, complete)] : id \in ids \ {NoNode} }

JudgeAll(w, children) == { Judge(w, c.id, c.value, c.complete) : c \in children }

(* The node an element answers to. *)
ItemNodeItemsOnly(n, i) == Get(n, "items", NoNode)

ItemNode(n, i) ==
  IF i <= Len(Get(n, "prefixItems", <<>>)) THEN n.prefixItems[i] ELSE Get(n, "items", NoNode)

(* `properties`, then `additionalProperties`. *)
MemberNode(n, key) ==
  IF key \in DOMAIN Get(n, "properties", <<>>) THEN n.properties[key]
  ELSE Get(n, "additionalProperties", Permitted)

HasDuplicate(items) == \E i, j \in DOMAIN items : i < j /\ Equal(items[i].value, items[j].value)

Elements(n, v, complete) == UNION { Under({ItemNode(n, i)}, v, i, complete) : i \in DOMAIN v.data }

CheckArray(w, n, v, complete) ==
  IF v.type # "Array" THEN {}
  ELSE When(Has(n, "maxItems") /\ Len(v.data) > Get(n, "maxItems", 0), "IrrecoverablyInvalid")
       \cup { Goal(Len(v.data) >= n.minItems, complete) : k \in {"minItems"} \cap DOMAIN n }
       \cup When(Get(n, "uniqueItems", FALSE) /\ HasDuplicate(v.data), "IrrecoverablyInvalid")
       \cup JudgeAll(w, Elements(n, v, complete))

Members(n, v, complete) ==
  UNION { Under({MemberNode(n, v.data[i].token)} \ {Forbidden}, v, i, complete) : i \in DOMAIN v.data }

CheckObject(w, n, v, complete) ==
  IF v.type # "Object" THEN {}
  ELSE When(Has(n, "maxProperties") /\ Len(v.data) > Get(n, "maxProperties", 0), "IrrecoverablyInvalid")
       \cup { Goal(Len(v.data) >= n.minProperties, complete) : k \in {"minProperties"} \cap DOMAIN n }
       \cup { Goal(\E i \in DOMAIN v.data : v.data[i].token = key, complete) :
              key \in Get(n, "required", {}) }
       \cup When(\E i \in DOMAIN v.data : MemberNode(n, v.data[i].token) = Forbidden,
                 "IrrecoverablyInvalid")
       \cup JudgeAll(w, Members(n, v, complete))

(* Alternatives are decided at completion. *)
Passes(w, id, v) == ~IsFailure(Judge(w, id, v, TRUE))

AtCompletion(ok, complete) == IF complete THEN OkOrInvalid(ok) ELSE "Pending"

CheckCombinators(w, n, v, complete) ==
  { Judge(w, id, v, complete) : id \in Get(n, "allOf", {}) } \cup
  { AtCompletion(\E id \in n.anyOf : Passes(w, id, v), complete) : k \in {"anyOf"} \cap DOMAIN n } \cup
  { AtCompletion(Quantify(DOMAIN n.oneOf, LAMBDA i : Passes(w, n.oneOf[i], v)) = 1, complete) :
      k \in {"oneOf"} \cap DOMAIN n } \cup
  { AtCompletion(~Passes(w, n.not, v), complete) : k \in {"not"} \cap DOMAIN n }

(* Valid is only reachable once the value is whole. *)
Settle(verdict, complete) == IF verdict = "ValidSoFar" /\ complete THEN "Valid" ELSE verdict

Judge(w, id, v, complete) == Once(w.nodes[id], LAMBDA n :
  IF Has(n, "boolean")
  THEN IF n.boolean THEN Settle("ValidSoFar", complete) ELSE "IrrecoverablyInvalid"
  ELSE Once(CheckType(n, v, complete) \cup CheckEnumAndConst(n, v, complete)
            \cup CheckString(n, v, complete) \cup CheckNumber(n, v, complete, w.profile)
            \cup CheckArray(w, n, v, complete) \cup CheckObject(w, n, v, complete)
            \cup CheckCombinators(w, n, v, complete),
            LAMBDA parts : Settle(Fold(parts), complete)))

(* node_for: the node that governs a path, a set of one or none.  A token  *)
(* that reads as a number is an index, whatever the container.             *)
NextNode(n, token) ==
  { IF IndexOf(token) # -1 THEN ItemNode(n, IndexOf(token) + 1) ELSE MemberNode(n, token) }
    \ {NoNode, Forbidden}

NodeFor(w, path) ==
  LET reached[k \in 0..Len(path)] ==
        IF k = 0 THEN {1} ELSE UNION { NextNode(w.nodes[id], path[k]) : id \in reached[k - 1] }
  IN  reached[Len(path)]
=============================================================================
