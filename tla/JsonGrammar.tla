----------------------------- MODULE JsonGrammar -----------------------------
(***************************************************************************)
(* RFC 8259, as a recogniser over the bytes of JsonLexis: the reference    *)
(* that conformance.rs takes from serde_json.  It decides by splitting the *)
(* text, and shares no table or state with the parser.                     *)
(***************************************************************************)
EXTENDS Integers, Sequences

Space  == {"space", "newline"}
Digits == {"0", "1", "2", "3", "4", "5", "6", "7", "8", "9"}

Part(s, i, j) == SubSeq(s, i, j)
From(s, i)    == SubSeq(s, i, Len(s))
Before(s, i)  == SubSeq(s, 1, i - 1)

RECURSIVE Trim(_)
Trim(s) == IF s = <<>> THEN s
           ELSE IF s[1] \in Space THEN Trim(From(s, 2))
           ELSE IF s[Len(s)] \in Space THEN Trim(Before(s, Len(s)))
           ELSE s

-----------------------------------------------------------------------------
(* number = [ "-" ] int [ "." 1*DIGIT ] [ "e" [ "+" / "-" ] 1*DIGIT ] *)

AllDigits(s) == s # <<>> /\ \A i \in 1..Len(s) : s[i] \in Digits
IsInt(s)     == AllDigits(s) /\ (s[1] = "0" => Len(s) = 1)

IsFixed(s) == IsInt(s) \/ \E i \in 1..Len(s) :
  s[i] = "." /\ IsInt(Before(s, i)) /\ AllDigits(From(s, i + 1))

IsExponent(s) == AllDigits(s) \/ (s # <<>> /\ s[1] \in {"+", "-"} /\ AllDigits(From(s, 2)))

IsUnsigned(s) == IsFixed(s) \/ \E i \in 1..Len(s) :
  s[i] = "e" /\ IsFixed(Before(s, i)) /\ IsExponent(From(s, i + 1))

IsNumber(s) == IsUnsigned(s) \/ (s # <<>> /\ s[1] = "-" /\ IsUnsigned(From(s, 2)))

-----------------------------------------------------------------------------
(* string = quote *char quote; surrogate escapes only in pairs, multi-byte *)
(* characters only whole.                                                  *)

HexDigits == Digits \cup {"a", "b", "c", "d", "e", "f"}

IsHex4(s) == Len(s) = 4 /\ \A i \in 1..4 : s[i] \in HexDigits
IsHigh(s) == IsHex4(s) /\ s[1] = "d" /\ s[2] \in {"8", "9", "a", "b"}
IsLow(s)  == IsHex4(s) /\ s[1] = "d" /\ s[2] \in {"c", "d", "e", "f"}

IsUnicode(s) == Len(s) = 6 /\ s[1] = "backslash" /\ s[2] = "u" /\ IsHex4(From(s, 3))

IsChar(s) ==
  \/ Len(s) = 1 /\ s[1] \notin {"quote", "backslash", "newline", "control", "lead", "cont"}
  \/ s = <<"lead", "cont">>
  \/ Len(s) = 2 /\ s[1] = "backslash"
     /\ s[2] \in {"quote", "backslash", "slash", "b", "f", "n", "r", "t"}
  \/ IsUnicode(s) /\ ~IsHigh(From(s, 3)) /\ ~IsLow(From(s, 3))
  \/ /\ Len(s) = 12 /\ IsUnicode(Before(s, 7)) /\ IsUnicode(From(s, 7))
     /\ IsHigh(Part(s, 3, 6)) /\ IsLow(From(s, 9))

RECURSIVE IsChars(_)
IsChars(s) == s = <<>> \/ \E n \in {1, 2, 6, 12} \cap 1..Len(s) :
  IsChar(Part(s, 1, n)) /\ IsChars(From(s, n + 1))

IsString(s) == Len(s) >= 2 /\ s[1] = "quote" /\ s[Len(s)] = "quote" /\ IsChars(Part(s, 2, Len(s) - 1))

-----------------------------------------------------------------------------
(* value, with any white space around it, and the items of a container.    *)

IsLiteral(s) == s \in { <<"t", "r", "u", "e">>, <<"f", "a", "l", "s", "e">>, <<"n", "u", "l", "l">> }

RECURSIVE IsValue(_), IsItems(_), IsMembers(_)

IsMember(s) == \E i \in 1..Len(s) :
  s[i] = ":" /\ IsString(Trim(Before(s, i))) /\ IsValue(Trim(From(s, i + 1)))

IsItems(s) == IsValue(Trim(s)) \/ \E i \in 1..Len(s) :
  s[i] = "," /\ IsValue(Trim(Before(s, i))) /\ IsItems(From(s, i + 1))

IsMembers(s) == IsMember(s) \/ \E i \in 1..Len(s) :
  s[i] = "," /\ IsMember(Before(s, i)) /\ IsMembers(From(s, i + 1))

Bracketed(s, open, close) == Len(s) >= 2 /\ s[1] = open /\ s[Len(s)] = close
Inside(s) == Part(s, 2, Len(s) - 1)

IsValue(s) ==
  \/ IsNumber(s) \/ IsString(s) \/ IsLiteral(s)
  \/ Bracketed(s, "[", "]") /\ (Trim(Inside(s)) = <<>> \/ IsItems(Inside(s)))
  \/ Bracketed(s, "{", "}") /\ (Trim(Inside(s)) = <<>> \/ IsMembers(Inside(s)))

IsJson(s) == IsValue(Trim(s))
=============================================================================
