----------------------------- MODULE Conformance -----------------------------
(***************************************************************************)
(* The stream against the JSON grammar: which inputs it accepts, refuses   *)
(* and completes.                                                          *)
(***************************************************************************)
EXTENDS Stream, JsonGrammar

(* What may still be sent, and the documents among it. *)
Sendable == UNION { LET sent[n \in 0..Len(p)] ==
                          IF n = 0 THEN { <<>> }
                          ELSE { Append(s, b) : s \in sent[n - 1], b \in p[n] }
                    IN  UNION { sent[n] : n \in 0..Len(p) } : p \in Producers }

Documents == { s \in Sendable : IsJson(s) }

DocumentPrefixes == UNION { { SubSeq(s, 1, n) : n \in 0..Len(s) } : s \in Documents }

(* The failures that are not about the grammar. *)
Limits == {"DepthLimitExceeded", "NumberProfileViolated"}

(* A root number is complete only when something delimits it; finish()     *)
(* stands for the delimiter.                                               *)
FinishCompletes == tok.type = "Num" /\ Terminable(tok.state) /\ stack = <<>>

(* Between two calls, a stream that has not failed holds a whole document  *)
(* (parse_complete would return it) exactly when the bytes pushed so far   *)
(* are JSON.  (conformance.rs, agreement with serde_json.)                 *)
AcceptsExactlyJson == Idle /\ failed = None =>
  (DocumentComplete \/ FinishCompletes <=> IsJson(input))

(* push: "Returns Err only if the input cannot be a prefix of any valid    *)
(* JSON document."  An input it refused is the beginning of no document    *)
(* that could have been sent.                                              *)
RejectedIsHopeless == failed # None /\ ~ended /\ failed.kind \notin Limits =>
  input \notin DocumentPrefixes

(* complete_json: whatever prefix of a document has arrived, the kept      *)
(* bytes, the ending and the closers make a JSON document, unless nothing  *)
(* of a value is left to keep.  Its argument is a str: valid UTF-8.        *)
CompletionIsJson == Idle /\ failed = None /\ Utf8Valid(input) =>
  IsJson(CompleteJson) \/ Trim(CompleteJson) = <<>>

(* `commit` is "the largest prefix length at which the input was           *)
(* structurally closable": completing drops no byte it could have kept.    *)
(* No longer prefix of the input is a document once the open containers    *)
(* are closed.  (A number that cannot stand is dropped whole, by design.)  *)
CompletionDropsLeast == Idle /\ failed = None /\ tok.type # "Num" =>
  \A n \in (Keep + 1)..Len(input) : ~IsJson(SubSeq(input, 1, n) \o Closers)
=============================================================================
