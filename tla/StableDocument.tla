--------------------------- MODULE StableDocument ---------------------------
(***************************************************************************)
(* What a streaming parser promises about the document it is reading, with *)
(* no bytes, tokens or frames: the values that are complete, by path.  A   *)
(* complete value never changes, nothing appears below it any more, and a  *)
(* container completes only after everything inside it.                    *)
(***************************************************************************)
EXTENDS Sequences, Integers

VARIABLES
  final,   \* the complete values, as records of a path and the value there
  kept     \* the promise stands; once it lapses nothing more is promised

Below(path, base) ==
  Len(base) <= Len(path) /\ \A i \in 1..Len(base) : path[i] = base[i]

Children(n) ==
  IF n.value.type \in {"Object", "Array"}
  THEN { [path |-> Append(n.path, n.value.data[i].token), value |-> n.value.data[i].value] :
         i \in 1..Len(n.value.data) }
  ELSE {}

Init == final = {} /\ kept = TRUE

(* From `old` to `new` values only become complete: a container after what *)
(* it holds, and nothing at or below a path that was complete already.     *)
Grows(old, new) ==
  /\ old \subseteq new
  /\ \A n \in new \ old :
       /\ Children(n) \subseteq new
       /\ \A m \in old : ~Below(n.path, m.path)

Publish == kept /\ kept' = TRUE /\ Grows(final, final')

Lapse == kept' = FALSE

Next == Publish \/ Lapse

Spec == Init /\ [][Next]_<<final, kept>>
=============================================================================
