------------------------------- MODULE Pattern -------------------------------
(***************************************************************************)
(* `pattern` (src/src/schema/pattern.rs) over a small language of regular  *)
(* expressions: a sequence of alternatives, each a sequence of byte        *)
(* classes with or without `^` before and `$` after it.                    *)
(*                                                                         *)
(* The automaton is regex-automata's dense DFA with leftmost-first         *)
(* matching.  In a state reached by reading a text it keeps the            *)
(* alternatives that still run, in order; one that matches without `$`     *)
(* stops those after it; a match is reported one byte late, and then,      *)
(* if nothing runs any more, the automaton is dead.                        *)
(***************************************************************************)
EXTENDS Integers, Sequences

Alternative(start, body, end) == [start |-> start, body |-> body, end |-> end]

Agrees(alt, text, from) ==
  \A i \in 1..Len(alt.body) : i + from <= Len(text) => text[i + from] \in alt.body[i]

(* source.starts_with('^') *)
SupportsEarlyRejection(p) == p[1].start

(* Alternative k has matched the first n bytes, from the start. *)
MatchedAt(p, k, text, n) ==
  /\ ~p[k].end /\ n = Len(p[k].body) /\ n <= Len(text) /\ Agrees(p[k], text, 0)

Stopped(p, k, text) == \E j \in 1..(k - 1) : \E n \in 0..(Len(text) - 1) : MatchedAt(p, j, text, n)

Runs(p, k, text) == Len(text) <= Len(p[k].body) /\ Agrees(p[k], text, 0)

JustMatched(p, k, text) == text # <<>> /\ MatchedAt(p, k, text, Len(text) - 1)

(* is_dead_state after the anchored automaton has read all of `text`. *)
IsDead(p, text) ==
  \A k \in 1..Len(p) : Stopped(p, k, text) \/ (~Runs(p, k, text) /\ ~JustMatched(p, k, text))

PatternIsLive(p, text) == SupportsEarlyRejection(p) => ~IsDead(p, text)

(* An unanchored search: a match anywhere counts. *)
Matches(p, text) == \E k \in 1..Len(p) : \E from \in 0..Len(text) :
  /\ p[k].start => from = 0
  /\ from + Len(p[k].body) <= Len(text)
  /\ p[k].end => from + Len(p[k].body) = Len(text)
  /\ Agrees(p[k], text, from)
=============================================================================
