------------------------------- MODULE Pointer -------------------------------
(***************************************************************************)
(* JSON Pointers, RFC 6901, as text: rendered by slot_pointer and          *)
(* escape_token (src/src/parser.rs, src/src/event.rs), read by status()    *)
(* (src/src/lib.rs) and by $ref (src/src/schema/compile.rs).               *)
(*                                                                         *)
(* A text is a sequence of atoms: the characters a pointer gives a meaning *)
(* to ("slash", "~", "#", the digits) and whole words.                     *)
(***************************************************************************)
EXTENDS Values

(* str::replace of a character by two, and of two by one. *)
Replaced(text, char, pair) ==
  FlattenSeq([i \in DOMAIN text |-> IF text[i] = char THEN pair ELSE <<text[i]>>])

Starts(text, pair, i) == i + 1 \in DOMAIN text /\ SubSeq(text, i, i + 1) = pair

Contracted(text, pair, char) ==
  FlattenSeq([i \in DOMAIN text |->
    IF Starts(text, pair, i) THEN <<char>>
    ELSE IF i > 1 /\ Starts(text, pair, i - 1) THEN <<>> ELSE <<text[i]>>])

(* escape_token: `~` first, so that the `~` of `~1` is not escaped again. *)
EscapeTokenSlashFirst(token) == Replaced(Replaced(token, "slash", <<"~", "1">>), "~", <<"~", "0">>)

EscapeToken(token) == Replaced(Replaced(token, "~", <<"~", "0">>), "slash", <<"~", "1">>)

Unescape(token) ==
  Once(Contracted(token, <<"~", "1">>, "slash"), LAMBDA t : Contracted(t, <<"~", "0">>, "~"))

Render(path) == FlattenSeq([i \in DOMAIN path |-> <<"slash">> \o EscapeToken(path[i])])

(* split('/'): the pieces between the slashes. *)
Cut(pieces, atom) == IF atom = "slash" THEN Append(pieces, <<>>)
                     ELSE [pieces EXCEPT ![Len(pieces)] = Append(@, atom)]

Split(text) ==
  LET upto[k \in 0..Len(text)] ==
        IF k = 0 THEN << <<>> >> ELSE Once(upto[k - 1], LAMBDA pieces : Cut(pieces, text[k]))
  IN  upto[Len(text)]

Tokens(text) == Once(Split(text), LAMBDA pieces : [k \in DOMAIN pieces |-> Unescape(pieces[k])])

(* parse_pointer *)
IsPointer(text) == text = <<>> \/ text[1] = "slash"

ParsePointer(text) ==
  IF text = <<>> THEN <<>> ELSE IF ~IsPointer(text) THEN None ELSE Once(Tail(text), Tokens)

(* trim_start_matches('/') *)
Trimmed(text) ==
  LET rest == { i \in DOMAIN text : text[i] # "slash" }
  IN  IF rest = {} THEN <<>> ELSE SubSeq(text, Min(rest), Len(text))

(* pointer_into *)
PointerInto(root, text) ==
  IF text = <<>> THEN root ELSE ValueIn(root, Once(Trimmed(text), Tokens))
=============================================================================
