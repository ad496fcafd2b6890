------------------------------ MODULE MCStream ------------------------------
(***************************************************************************)
(* What may be sent in the runs on Stream.  A producer is a sequence of    *)
(* sets of bytes: a fixed beginning leads to the interesting place, and    *)
(* there every byte of an alphabet is tried.                               *)
(***************************************************************************)
EXTENDS Stream

AnyOf(set, n) == [i \in 1..n |-> set]
Fixed(bytes)  == [i \in 1..Len(bytes) |-> { bytes[i] }]

(* Containers: arrays and empty objects, any member value, a second        *)
(* member, with the same key or another one.                               *)
Structure == {
  AnyOf({"{", "}", "[", "]", ",", "1"}, 7),
  Fixed(<<"{">>) \o AnyOf({"quote", ":", "1", ",", "}", "]"}, 5),
  Fixed(<<"{", "quote", "quote", ":">>) \o AnyOf({"{", "}", "[", "]", ",", "1", "quote"}, 4),
  Fixed(<<"[", "{", "quote", "quote", ":", "1", ",", "quote">>)
    \o << {"1", "quote"}, {"quote", ":"} >> \o AnyOf({":", "1", "}", "[", "]", "space"}, 4) }

(* Strings as values and as keys: every kind of byte after the opening     *)
(* quote, and the surrogate escapes with each way they can go wrong.       *)
Escapes == << {"d"}, {"8", "c", "x"}, {"0", "x"}, {"0", "d"}, {"backslash", "quote"}, {"u", "x"},
              {"d", "0"}, {"c", "8"}, {"0", "x"}, {"f"}, {"x", "lead", "quote"},
              {"cont", "backslash", "quote"}, {"n", "quote"}, {"quote"} >>

Strings == {
  AnyOf({"quote", "x", "lead", "cont", "backslash", "n", "control"}, 6),
  Fixed(<<"{">>) \o AnyOf({"quote", "x", "lead", "cont", "backslash", ":"}, 6),
  Fixed(<<"quote", "backslash", "u">>) \o Escapes,
  Fixed(<<"{", "quote", "backslash", "u">>) \o Escapes \o << {":"}, {"1"} >>,
  Fixed(<<"[", "quote", "x", "backslash", "u">>)
    \o << {"0"}, {"0", "8"}, {"0", "x"}, {"0", "f"}, {"lead", "x"}, {"cont", "quote"},
          {"backslash", "quote"}, {"quote", "n"}, {"quote", "]"}, {",", "]"}, {"quote"}, {"x"} >>,
  Fixed(<<"[", "quote", "x", "quote", ",", "quote", "x", "quote", "]">>) }

(* Numbers and literals, alone and as an array's elements, with all that   *)
(* can follow them.                                                        *)
Scalars == {
  AnyOf({"-", "0", "1", ".", "e", "+", "space"}, 7),
  Fixed(<<"[">>) \o AnyOf({"-", "0", "1", ".", "]", ",", "newline"}, 6),
  << {"t", "f", "n"}, {"r", "a", "u"}, {"l", "u"}, {"s", "e", "l"}, {"e", "space", "1"},
     {"1", "newline", ","} >>,
  << {"["}, {"t", "n"}, {"r", "u"}, {"l", "u"}, {"e", "l"}, {",", "]", "e"}, {"t", "]", "n"},
     {"r", "u"}, {"u", "l"} >> }

Documents == Structure \cup Strings \cup Scalars

(* Brackets that close one another's containers; one key twice.            *)
Brackets == { AnyOf({"{", "}", "[", "]"}, 4) }

SameKey == { Fixed(<<"{", "quote", "quote", ":", "1", ",", "quote", "quote", ":">>) \o AnyOf({"{", "[", "1"}, 1) }
=============================================================================
