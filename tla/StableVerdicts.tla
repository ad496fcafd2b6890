---------------------------- MODULE StableVerdicts ----------------------------
(***************************************************************************)
(* What an incremental validator promises its caller, with no schemas and  *)
(* no values: a value is judged, sooner or later, one way or the other,    *)
(* and is never judged again.  So a caller may act on a verdict while the  *)
(* document is still arriving: cancel what has failed, use what has        *)
(* passed.                                                                 *)
(***************************************************************************)
VARIABLES
  failed,   \* the paths whose value has failed
  passed,   \* the paths whose value is finished and valid
  kept      \* the promise stands; once it lapses nothing more is promised

Init == failed = {} /\ passed = {} /\ kept = TRUE

Judge ==
  /\ kept /\ kept' = TRUE
  /\ failed \subseteq failed'
  /\ passed \subseteq passed'
  /\ failed' \cap passed' = {}

Lapse == kept' = FALSE

Next == Judge \/ Lapse

Spec == Init /\ [][Next]_<<failed, passed, kept>>
=============================================================================
