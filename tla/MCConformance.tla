---------------------------- MODULE MCConformance ----------------------------
(* What may be sent in the runs on Conformance: all that can be made of a  *)
(* few bytes, after a fixed beginning or none.                             *)
EXTENDS Conformance

AnyOf(set, n) == [i \in 1..n |-> set]
Fixed(bytes)  == [i \in 1..Len(bytes) |-> { bytes[i] }]

Texts == {
  AnyOf({"{", "}", "[", "]", ",", "1", "space"}, 5),
  AnyOf({"{", "}", "quote", ":", "1", "x"}, 5),
  Fixed(<<"{", "quote", "quote", ":">>) \o AnyOf({"[", "]", "}", ",", "quote", "-"}, 4),
  Fixed(<<"[", "1", ",">>) \o AnyOf({"0", "1", "-", ".", "e", "+", "]"}, 4),
  AnyOf({"-", "0", "1", ".", "e", "space"}, 5),
  AnyOf({"quote", "backslash", "n", "slash", "lead", "cont", "newline"}, 5),
  Fixed(<<"quote", "backslash", "u">>) \o
    << {"d"}, {"8", "c", "x"}, {"0"}, {"0", "d"}, {"backslash", "quote"}, {"u", "x"},
       {"d", "0"}, {"c", "8"}, {"0", "x"}, {"f"}, {"quote", "x"}, {"quote"} >>,
  << {"t", "f", "n", "["}, {"r", "a", "u", "t"}, {"u", "l", "r"}, {"e", "s", "l", "u"}, {"e", "space", "]"},
     {"]", ","} >> }
=============================================================================
