------------------------------ MODULE JsonLexis ------------------------------
(***************************************************************************)
(* The constant part of the parser: the classes of bytes it tells apart,   *)
(* the number grammar's transition table, escapes, keywords, UTF-8, and    *)
(* the decimal tokens that address array elements.                         *)
(*                                                                         *)
(* A byte is a one-character string, or one of the names "quote", "slash", *)
(* "backslash", "space", "newline", "control" (any other byte below 0x20), *)
(* "lead" and "cont" (the two halves of a multi-byte character).  Bytes    *)
(* the code treats alike share a representative: "x" is any ordinary       *)
(* character, "e" is `e` and `E`, the hex letters are the lower-case ones. *)
(***************************************************************************)
EXTENDS Integers, Sequences

Whitespace == {"space", "newline"}
Control    == {"newline", "control"}
NonZero    == {"1", "2", "3", "4", "5", "6", "7", "8", "9"}
DigitByte  == NonZero \cup {"0"}
Delimiter  == {",", "}", "]"} \cup Whitespace

Byte == Control \cup Delimiter \cup DigitByte \cup
        {"{", "[", ":", "+", "-", ".", "quote", "backslash", "slash", "lead", "cont",
         "a", "b", "c", "d", "e", "f", "l", "n", "r", "s", "t", "u", "x"}

(* The kind a value's first byte announces; bytes outside the domain begin *)
(* no value.                                                               *)
ValueStart == {"{", "[", "quote", "-", "t", "f", "n"} \cup DigitByte

ValueKind(b) == CASE b = "{"       -> "Object"
                  [] b = "["       -> "Array"
                  [] b = "quote"   -> "String"
                  [] b \in {"t", "f"} -> "Bool"
                  [] b = "n"       -> "Null"
                  [] OTHER         -> "Number"

-----------------------------------------------------------------------------
(* Numbers.  NumNext is the sub-state after one more byte, "none" when the *)
(* byte does not continue the number.                                      *)

NumState == {"AfterSign", "Zero", "Int", "Dot", "Frac", "Exp", "ExpSign", "ExpDigits"}

TerminableButZero(st) == st \in {"Int", "Frac", "ExpDigits"}

Terminable(st) == st \in {"Zero", "Int", "Frac", "ExpDigits"}

NumStart(b) == CASE b = "-" -> "AfterSign" [] b = "0" -> "Zero" [] OTHER -> "Int"

NumNext(st, b) ==
  CASE st = "AfterSign" /\ b = "0"                          -> "Zero"
    [] st = "AfterSign" /\ b \in NonZero                    -> "Int"
    [] st \in {"Zero", "Int"} /\ b = "."                    -> "Dot"
    [] st \in {"Zero", "Int", "Frac"} /\ b = "e"            -> "Exp"
    [] st = "Int" /\ b \in DigitByte                        -> "Int"
    [] st \in {"Dot", "Frac"} /\ b \in DigitByte            -> "Frac"
    [] st = "Exp" /\ b \in {"+", "-"}                       -> "ExpSign"
    [] st \in {"Exp", "ExpSign", "ExpDigits"} /\ b \in DigitByte -> "ExpDigits"
    [] OTHER                                                -> "none"

-----------------------------------------------------------------------------
(* Literals. *)

Keywords == { <<"t", "r", "u", "e">>, <<"f", "a", "l", "s", "e">>, <<"n", "u", "l", "l">> }

StartsKeyword(text) == \E k \in Keywords : Len(text) <= Len(k) /\ SubSeq(k, 1, Len(text)) = text

(* The keyword a literal is on its way to spell; the first bytes differ. *)
KeywordOf(text) == CHOOSE k \in Keywords : k[1] = text[1]

-----------------------------------------------------------------------------
(* Escapes.  A scalar decoded from \uXXXX is appended as its UTF-8 bytes;  *)
(* every ASCII one is the representative "x".                              *)

ShortEscape == [quote |-> "quote", backslash |-> "backslash", slash |-> "slash",
                b |-> "control", f |-> "control", n |-> "newline", r |-> "newline",
                t |-> "control"]

HexDigit == <<"0", "1", "2", "3", "4", "5", "6", "7", "8", "9", "a", "b", "c", "d", "e", "f">>
IsHex(b)    == \E i \in 1..16 : HexDigit[i] = b
HexValue(b) == (CHOOSE i \in 1..16 : HexDigit[i] = b) - 1

IsHighSurrogate(cp) == 55296 <= cp /\ cp < 56320    \* 0xD800..0xDBFF
IsLowSurrogate(cp)  == 56320 <= cp /\ cp < 57344    \* 0xDC00..0xDFFF

SurrogatePair(hi, lo) == 65536 + (hi - 55296) * 1024 + (lo - 56320)

Utf8(cp) == IF cp < 128 THEN <<"x">> ELSE <<"lead", "cont">>

(* std::str::from_utf8 on bytes of which only "lead" and "cont" are not    *)
(* ASCII: each lead is followed by its continuation, none stands alone.    *)
Utf8Valid(s) == \A i \in 1..Len(s) :
                   /\ s[i] = "lead" => i < Len(s) /\ s[i+1] = "cont"
                   /\ s[i] = "cont" => i > 1 /\ s[i-1] = "lead"

(* The longest valid prefix: from_utf8's valid_up_to(). *)
StablePrefix(s) ==
  LET valid == { n \in 0..Len(s) : Utf8Valid(SubSeq(s, 1, n)) }
  IN  SubSeq(s, 1, CHOOSE n \in valid : \A m \in valid : m <= n)

-----------------------------------------------------------------------------
(* Array indices as pointer tokens: to_string() one way and                *)
(* parse::<usize>() the other, which admits a `+` and leading zeros.       *)

Decimal(n) ==
  LET dec[k \in Nat] == IF k < 10 THEN <<HexDigit[k + 1]>>
                        ELSE Append(dec[k \div 10], HexDigit[(k % 10) + 1])
  IN  dec[n]

IndexOf(token) ==
  LET digits == IF token # <<>> /\ token[1] = "+" THEN Tail(token) ELSE token
      val[k \in 0..Len(digits)] ==
         IF k = 0 THEN 0 ELSE 10 * val[k - 1] + HexValue(digits[k])
  IN  IF digits # <<>> /\ \A i \in 1..Len(digits) : digits[i] \in DigitByte
      THEN val[Len(digits)] ELSE -1

-----------------------------------------------------------------------------
(* A sequence, whatever it holds. *)
IsSequence(s) == Len(s) \in Nat /\ s = [i \in 1..Len(s) |-> s[i]]

(* Op(x), for an x that Op names more than once. *)
Once(x, Op(_)) == CHOOSE y \in { Op(z) : z \in {x} } : TRUE
=============================================================================
