----------------------------- MODULE MCValidated -----------------------------
(***************************************************************************)
(* Schemas, each with what is sent under it.  A producer is a fixed        *)
(* beginning and a few bytes with choices.  The root is node 1; where the  *)
(* compiler would make one node for each of several equal subschemas, they *)
(* share one here.                                                         *)
(***************************************************************************)
EXTENDS Judgement

Fixed(bytes) == [i \in 1..Len(bytes) |-> { bytes[i] }]
Case(nodes, sends) == [nodes |-> nodes, profile |-> "PlainDecimal", sends |-> sends]

S(bytes) == Scalar("String", bytes)
N(bytes) == Scalar("Number", bytes)
One      == <<"1">>
A == <<"a">>
B == <<"b">>
C == <<"c">>

(* Keywords that decide on a prefix of a string. *)
EnumItems == Case(
  << [items |-> 2], [enumeration |-> NewTrie({<<"a">>, <<"a", "b">>, <<"c", "b">>}, FALSE)] >>,
  Fixed(<<"[", "quote">>)
    \o << {"a", "b", "c"}, {"b", "quote"}, {"quote", "c"}, {",", "]", "quote"}, {"1", "]"} >>)

MixedEnum == Case(
  << [items |-> 2], [enumeration |-> NewTrie({<<"a">>}, TRUE)] >>,
  << {"["}, {"1", "quote", "n"}, {"a", ",", "u"}, {"quote", "l", "]"}, {"]", "l"} >>)

Anchored == Case(      \* ^(a[bc]|b)$
  << [items |-> 2],
     [pattern |-> << Alternative(TRUE, <<{"a"}, {"b", "c"}>>, TRUE), Alternative(TRUE, <<{"b"}>>, TRUE) >>] >>,
  Fixed(<<"[", "quote">>) \o << {"a", "b", "c"}, {"b", "quote", "a"}, {"quote", "c"}, {",", "]"} >>)

Unanchored == Case(    \* ab|^c
  << [items |-> 2],
     [pattern |-> << Alternative(FALSE, <<{"a"}, {"b"}>>, FALSE), Alternative(TRUE, <<{"c"}>>, FALSE) >>] >>,
  Fixed(<<"[", "quote">>) \o << {"a", "b", "c"}, {"a", "b"}, {"b", "quote"}, {"quote", ","}, {"]"} >>)

Lengths == Case(       \* combined, with characters of two bytes
  << [items |-> 2], [types |-> {"string"}, minLength |-> 1, maxLength |-> 2, not |-> 3],
     [const |-> S(<<"a">>)] >>,
  Fixed(<<"[", "quote">>)
    \o << {"a", "lead", "quote"}, {"cont", "quote"}, {"a", "quote", ","}, {"b", "]", "quote"}, {"quote"} >>)

(* Numbers: bounds on either side, at the root and in an array. *)
Bounded == Case(       \* 15 <= x < 20
  << [items |-> 2], [minimum |-> 1500, exclusiveMaximum |-> 2000] >>,
  << {"["}, {"-", "1", "2"}, {"0", "9", "."}, {"0", "5", ","}, {"9", "]"} >>)

Negative1 == Case(     \* -1.5 < x <= 0.5
  << [items |-> 2], [exclusiveMinimum |-> -150, maximum |-> 50] >>,
  << {"["}, {"-", "0"}, {"0", "1", "."}, {".", "5", "]"}, {"5", "4", "]"}, {"]"} >>)

RootNumber == Case(
  << [types |-> {"integer"}, multipleOf |-> 300, maximum |-> 1200] >>,
  << {"1", "9", "-"}, {"0", "2", "3", "."}, {"0", "5", "space"}, {"space"} >>)

Exact == [Bounded EXCEPT !.profile = "Exact"]

(* Arrays: counts, duplicates, element schemas by place, alternatives. *)
Listed == Case(
  << [minItems |-> 2, maxItems |-> 2, uniqueItems |-> TRUE, prefixItems |-> <<2>>, items |-> 3],
     [types |-> {"number", "integer"}], [anyOf |-> {2, 4}], [types |-> {"null"}] >>,
  << {"["}, {"1", "n"}, {",", "]", "u"}, {"1", "n", "l"}, {"u", ",", "l"}, {"l", "1", "]"}, {"l", "]"},
     {"]"} >>)

Alternatives == Case(
  << [oneOf |-> <<2, 3>>, allOf |-> {4}], [minItems |-> 1], [items |-> 5], [types |-> {"array"}],
     [types |-> {"boolean"}] >>,
  << {"["}, {"1", "]", "t"}, {"r", ",", "]"}, {"u", "1"}, {"e", "]"}, {"]"} >>)

Booleans == Case(
  << [prefixItems |-> <<2>>, items |-> 3], [boolean |-> TRUE], [boolean |-> FALSE] >>,
  << {"["}, {"1", "[", "]"}, {",", "]"}, {"1", "[", "]", ","}, {"]"} >>)

Literals == Case(
  << [items |-> 2], [types |-> {"null"}] >>,
  << {"["}, {"n", "t"}, {"u", "r"}, {"l", "u"}, {"l", "e"}, {"]", ","} >>)

ConstArray == Case(
  << [items |-> 2], [const |-> [type |-> "Array", data |-> << [token |-> <<"0">>, value |-> N(One)] >>]] >>,
  << {"["}, {"[", "1"}, {"1", "]", "["}, {"]", ","}, {",", "]"}, {"1", "]"} >>)

(* Objects: required, known and unknown members, counts, recursion. *)
Named == Case(
  << [types |-> {"object"}, required |-> {A}, properties |-> (A :> 2) @@ (C :> 3),
      additionalProperties |-> Forbidden], [types |-> {"string"}], [boolean |-> TRUE] >>,
  Fixed(<<"{", "quote">>) \o << {"a", "b", "c"}, {"quote"}, {":"}, {"1", "quote"}, {"quote", ",", "}"} >>
    \o << {"quote", "}"}, {"a"}, {"quote"}, {":"}, {"quote"} >>)

Counted == Case(
  << [minProperties |-> 2, maxProperties |-> 2, additionalProperties |-> 2], [maximum |-> 300] >>,
  Fixed(<<"{", "quote", "a", "quote", ":">>) \o << {"1", "4"}, {",", "}"}, {"quote"}, {"b"}, {"quote"},
    {":"}, {"1", "4"}, {",", "}"}, {"quote"}, {"c"}, {"quote"}, {":"}, {"1"} >>)

Recursive == Case(
  << [types |-> {"object"}, properties |-> (A :> 1) @@ (C :> 2), additionalProperties |-> Forbidden],
     [types |-> {"array"}, items |-> 1, maxItems |-> 1] >>,
  Fixed(<<"{", "quote">>) \o << {"a", "c"}, {"quote"}, {":"}, {"{", "["}, {"quote", "{", "}"}, {"b", "}"},
    {"]", "}"}, {"}"} >>)

NumericName == Case(
  << [properties |-> (<<"0">> :> 2), items |-> 3], [types |-> {"string"}], [types |-> {"number", "integer"}] >>,
  Fixed(<<"{", "quote", "0", "quote", ":">>) \o << {"1", "quote"}, {"quote", "}"}, {"}"} >>)

(* A key that is repeated: two values in one place, and a name that reads  *)
(* as the index of an element of the other.                                *)
Repeated == Case(
  << [properties |-> (A :> 2)], [types |-> {"array"}] >>,
  Fixed(<<"{", "quote", "a", "quote", ":", "[", "]", ",", "quote", "a", "quote", ":", "[", "]", "}">>))

IndexAlias == Case(
  << [properties |-> (A :> 2)], [items |-> 3], [types |-> {"number", "integer"}] >>,
  Fixed(<<"{", "quote", "a", "quote", ":", "[", "1", "]", ",", "quote", "a", "quote", ":",
          "{", "quote", "0", "0", "quote", ":", "quote">>))

Cases == { EnumItems, MixedEnum, Anchored, Unanchored, Lengths, Bounded, Negative1, RootNumber, Exact,
           Listed, Alternatives, Booleans, Literals, ConstArray, Named, Counted, Recursive,
           NumericName, Repeated, IndexAlias }

ASSUME EnumsAreSorted == \A c \in Cases : \A n \in Range(c.nodes) :
  Has(n, "enumeration") => Ascending(n.enumeration.strings)

Sent(cases) == { c.sends : c \in cases }
CasesSend == Sent(Cases)

-----------------------------------------------------------------------------
(* The cases in which the documentation says more than holds. *)

OpenDuplicate == { Case(<< [uniqueItems |-> TRUE] >>, Fixed(<<"[", "[", "]", ",", "[", "1", "]", "]">>)) }
OpenDuplicateSends == Sent(OpenDuplicate)

ClosedElement == { Case(<< [items |-> 2], [enumeration |-> NewTrie({<<"a">>}, FALSE)] >>,
                        Fixed(<<"[", "quote", "b", "quote", "]">>)) }
ClosedElementSends == Sent(ClosedElement)

GrowingNumber == { Case(<< [maximum |-> 500] >>, Fixed(<<"1", "0">>)) }
GrowingNumberSends == Sent(GrowingNumber)
=============================================================================
