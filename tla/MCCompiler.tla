----------------------------- MODULE MCCompiler -----------------------------
(***************************************************************************)
(* Schema documents: all small graphs over a few subschemas, and documents *)
(* for single keywords, names and pointers.                                *)
(***************************************************************************)
EXTENDS SchemaGraph

Str(text) == Scalar("String", text)
W(word)   == Str(<<word>>)
N(text)   == Scalar("Number", text)
One       == N(<<"1">>)
True      == Scalar("Bool", <<"true">>)
False     == Scalar("Bool", <<"false">>)
Null      == Scalar("Null", <<"null">>)
Obj(members) == [type |-> "Object", data |-> [i \in DOMAIN members |->
                   [token |-> members[i][1], value |-> members[i][2]]]]
Arr(items)   == [type |-> "Array", data |-> [i \in DOMAIN items |->
                   [token |-> Decimal(i - 1), value |-> items[i]]]]
Has1(word, v) == Obj(<< << <<word>>, v >> >>)
Two(w1, v1, w2, v2) == Obj(<< << <<w1>>, v1 >>, << <<w2>>, v2 >> >>)
To(tokens)   == Has1("$ref", Str(<<"#">> \o Render(tokens)))
ToPath(words) == To([i \in DOMAIN words |-> <<words[i]>>])
Typed(name)  == Has1("type", W(name))

(* All graphs over three places and a definition. *)
Parts == { True, Typed("string"), ToPath(<<>>), ToPath(<<"properties", "a">>), ToPath(<<"not">>),
           ToPath(<<"$defs", "d">>), Has1("not", ToPath(<<"properties", "b">>)),
           Has1("items", ToPath(<<"not">>)) }

Graph(x, y, z, d) == Obj(<<
  << <<"properties">>, Two("a", x, "b", y) >>, << <<"not">>, z >>,
  << <<"$defs">>, Has1("d", d) >> >>)

Definitions == { Has1("items", ToPath(<<"properties", "a">>)), ToPath(<<"not">>) }

Graphs == { Graph(x, y, z, d) : x \in Parts, y \in Parts, z \in Parts, d \in Definitions }

(* Every keyword, written well and badly. *)
Keywords1 == { Has1(w, v) :
  w \in Counts \cup Measures \cup {"type", "uniqueItems", "pattern", "enum", "required", "properties",
                                   "prefixItems", "allOf", "if", "format", "title", "unheard-of", "$ref"},
  v \in { One, N(<<"-", "1">>), Str(<<"^", "a">>), Str(<<"a">>), W("["), W("string"), W("number"), True,
          Null, Arr(<< W("object"), W("foo"), One >>), Arr(<<>>) } } 

Applicators == {
  Has1("items", False), Has1("items", Null), Has1("additionalProperties", True),
  Has1("additionalProperties", False), Has1("additionalProperties", Typed("null")),
  Has1("additionalProperties", One), Has1("const", Null),
  Two("prefixItems", Arr(<< True, Typed("string") >>), "items", False),
  Two("anyOf", Arr(<< False, ToPath(<<"anyOf", "0">>) >>), "oneOf", Arr(<< Typed("null"), ToPath(<<>>) >>)),
  Obj(<< << <<"allOf">>, Arr(<< Typed("object"), Has1("then", True) >>) >>,
         << <<"properties">>, Two("x", Has1("format", W("date")), "y", Two("minLength", True, "not", True)) >> >>) }

(* References: chains, cycles, names that need escapes, pointers nowhere.  *)
Escaped == Obj(<<
  << <<"properties">>, Obj(<< << <<"~", "1">>, Typed("string") >>, << <<"slash">>, Typed("null") >>,
                              << <<"a", "slash">>, Has1("not", To(<< <<"properties">>, <<"a", "slash">> >>)) >> >>) >>,
  << <<"not">>, To(<< <<"properties">>, <<"~", "1">> >>) >>,
  << <<"items">>, To(<< <<"properties">>, <<"slash">> >>) >>,
  << <<>>, True >> >>)

Chain == Obj(<<
  << <<"$defs">>, Obj(<< << <<"x">>, ToPath(<<"$defs", "y">>) >>, << <<"y">>, ToPath(<<"$defs", "z">>) >>,
                         << <<"z">>, Two("type", W("array"), "items", ToPath(<<"$defs", "x">>)) >> >>) >>,
  << <<"items">>, ToPath(<<"$defs", "x">>) >>, << <<"not">>, ToPath(<<"$defs", "y">>) >> >>)

Shared == Has1("properties", Obj(<<
  << <<"a">>, Has1("properties", Has1("b", True)) >>,
  << <<"a", "slash", "properties", "slash", "b">>, Has1("not", ToPath(<<"properties", "a", "properties", "b">>)) >> >>))

References == { Escaped, Chain, Shared,
  Has1("not", ToPath(<<"nowhere">>)), Has1("not", Has1("$ref", W("other.json"))),
  Two("not", Has1("$ref", Str(<<"#", "foo">>)), "foo", True),
  Two("type", W("object"), "properties", Has1("a", Two("$ref", Str(<<"#">>), "type", W("string")))),
  Two("not", ToPath(<<"$defs", "p", "items">>),
      "$defs", Has1("p", Has1("items", Has1("not", ToPath(<<"$defs", "p">>))))),
  Two("not", ToPath(<<"allOf", "0">>), "allOf", Arr(<< Has1("items", ToPath(<<"allOf", "0">>)) >>)) }

(* Repeated keywords; a name that reads as a pointer, and so is found by a *)
(* $ref that leads nowhere.                                                *)
Phantom == Has1("properties", Obj(<<
  << <<"a", "slash", "b">>, Has1("not", ToPath(<<"properties", "a", "b">>)) >> >>))

Repeats == { Two("minLength", One, "minLength", True),
  Two("not", Typed("null"), "not", Has1("items", ToPath(<<"not">>))),
  Two("not", True, "not", Has1("items", Two("type", W("foo"), "items", ToPath(<<"not", "items">>)))) }

Singles == { Malformed, True, False, One, Null, Arr(<<>>), Obj(<<>>) }

(* Where no chain of references leads back into itself. *)
Docs     == { d \in Graphs \cup Keywords1 \cup Applicators \cup References \cup Singles
                                  \cup Repeats \cup {Phantom} : ~RefCycle(d) }
Patterns == { <<"^", "a">>, <<"a">>, <<"string">>, <<"number">> }

(* A reference to itself; a recursive definition with a reference into it. *)
Endless == { ToPath(<<>>),
  Two("not", ToPath(<<"$defs", "p", "items">>), "$defs", Has1("p",
    Has1("items", Two("not", ToPath(<<"$defs", "p">>),
                      "allOf", Arr(<< ToPath(<<"$defs", "p", "items">>) >>))))) }

Miswritten == { Has1("required", W("a")) }
=============================================================================
