------------------------------- MODULE EnumTrie -------------------------------
(***************************************************************************)
(* The string members of an `enum`, sorted for prefix queries              *)
(* (src/src/schema/trie.rs).  Strings are compared byte by byte.           *)
(***************************************************************************)
EXTENDS JsonLexis, SequencesExt

(* The representatives of JsonLexis in the order of the bytes they stand for. *)
ByteOrder ==
  <<"control", "newline", "space", "quote", "+", ",", "-", ".", "slash",
    "0", "1", "2", "3", "4", "5", "6", "7", "8", "9", ":", "[", "backslash", "]",
    "a", "b", "c", "d", "e", "f", "l", "n", "r", "s", "t", "u", "x", "{", "}", "cont", "lead">>

Rank == [b \in Byte |-> CHOOSE i \in 1..Len(ByteOrder) : ByteOrder[i] = b]

(* Ord for str: at the first difference the smaller byte, or the end, comes first. *)
Less(s, t) == \E k \in 1..Len(t) :
  /\ k <= Len(s) + 1
  /\ \A i \in 1..(k - 1) : s[i] = t[i]
  /\ k <= Len(s) => Rank[s[k]] < Rank[t[k]]

(* EnumTrie::new: sort and dedup. *)
NewTrie(strings, other) == [strings |-> SetToSortSeq(strings, Less), has_non_strings |-> other]

(* What sort and dedup leave. *)
Ascending(strings) ==
  /\ strings \in Seq(Seq(Byte))
  /\ \A i, j \in 1..Len(strings) : i < j => Less(strings[i], strings[j])

(* binary_search: the place where `text` is, or would be inserted. *)
Place(strings, text) == 1 + Cardinality({ i \in DOMAIN strings : Less(strings[i], text) })

(* Only the member at the place of `prefix` is looked at. *)
PrefixIsLive(strings, prefix) ==
  \E i \in { Place(strings, prefix) } \cap DOMAIN strings : IsPrefix(prefix, strings[i])

ContainsMember(strings, text) ==
  \E i \in { Place(strings, text) } \cap DOMAIN strings : strings[i] = text
=============================================================================
