------------------------------- MODULE Verdicts -------------------------------
(***************************************************************************)
(* The five states of a value against a schema (src/src/validate.rs), and  *)
(* how the outcomes of single constraints combine.  The outcome does not   *)
(* depend on the order of the parts, so they are a set.                    *)
(***************************************************************************)

Verdict == {"Pending", "ValidSoFar", "Valid", "Invalid", "IrrecoverablyInvalid"}

IsFailure(v)       == v \in {"Invalid", "IrrecoverablyInvalid"}
IsIrrecoverable(v) == v = "IrrecoverablyInvalid"

(* Irrecoverable wins, then invalid, then pending, else valid so far. *)
Fold(parts) ==
  IF "IrrecoverablyInvalid" \in parts THEN "IrrecoverablyInvalid"
  ELSE IF "Invalid" \in parts THEN "Invalid"
  ELSE IF "Pending" \in parts THEN "Pending"
  ELSE "ValidSoFar"

(* How a constraint contributes: a verdict when it is broken and nothing   *)
(* otherwise; or a goal that is met, or may still be, or was missed.       *)
When(broken, verdict) == IF broken THEN {verdict} ELSE {}

Goal(met, over) == IF met THEN "ValidSoFar" ELSE IF over THEN "Invalid" ELSE "Pending"

OkOrInvalid(ok) == IF ok THEN "ValidSoFar" ELSE "Invalid"
=============================================================================
