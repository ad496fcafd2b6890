--------------------------- MODULE ValidatedStream ---------------------------
(***************************************************************************)
(* A stream with a schema (from_json_schema in src/src/lib.rs): a push     *)
(* feeds the parser and then judges every path that an event not yet       *)
(* drained names, and all paths above it; a verdict that moved is appended *)
(* to the log.  The validator itself is a parameter.                       *)
(*                                                                         *)
(* A schema comes with what may be sent under it.                          *)
(***************************************************************************)
EXTENDS Stream, Verdicts

CONSTANTS
  Schemas,
  Judged(_, _, _, _),   \* Validator::judge(schema, node, value, complete)
  NodeAt(_, _),         \* Validator::node_for(schema, path), a set of one or none
  MaxDrains             \* how often the caller takes the events

(* enforce_plain_decimal follows the profile of the schema; where no `e`   *)
(* is sent the parser never looks at it.                                   *)
ASSUME ValidatedAssumption ==
  /\ \A s \in Schemas : s.sends \in Producers
  /\ \A s \in Schemas : \/ (s.profile = "PlainDecimal") = PlainDecimal
                        \/ \A i \in 1..Len(s.sends) : "e" \notin s.sends[i]
  /\ MaxDrains \in Nat

VARIABLES
  schema,
  reported,  \* the last state reported per path, a function
  drained,   \* how many events the caller has taken
  drains     \* how often it did

validation_vars == <<schema, reported, drained, drains>>
all_vars == <<vars, validation_vars>>

VInit ==
  /\ Init
  /\ schema \in Schemas
  /\ reported = << >> /\ drained = 0 /\ drains = 0

-----------------------------------------------------------------------------
(* validation(): Pending where there is no node or no value. *)

VerdictIn(outcomes) == IF outcomes = {} THEN "Pending" ELSE CHOOSE v \in outcomes : TRUE

ValidationOf(path, v) ==
  VerdictIn({ Judged(schema, n.id, v, n.complete) :
    n \in [id : NodeAt(schema, path), complete : { StatusOf(path, v) = "Complete" }] })

Validation(path) ==
  VerdictIn({ ValidationOf(path, v) : v \in { ValueIn(Snapshot, path) } \ {None} })

-----------------------------------------------------------------------------
(* judge_touched_paths. *)

Failed(path, state)  == [type |-> "ValidationFailed", path |-> path, state |-> state]
Settled(path, state) == [type |-> "ValidationCompleted", path |-> path, state |-> state]

ToParent(path) == [i \in 1..(IF path = <<>> THEN 1 ELSE 2) |-> SubSeq(path, 1, Len(path) + 1 - i)]

(* A path and those above it, up to the root. *)
ToRoot(path) == [i \in 1..(Len(path) + 1) |-> SubSeq(path, 1, Len(path) + 1 - i)]

AddNew(seen, path) == IF \E i \in DOMAIN seen : seen[i] = path THEN seen ELSE Append(seen, path)

(* What the events name, with the paths above; then each path once, in the *)
(* order they are first met.                                               *)
PathsOf(evs) == FlattenSeq([i \in 1..Len(evs) |->
  IF evs[i].type = "DocumentCompleted" THEN <<>> ELSE ToRoot(evs[i].path)])

FirstMet(paths) ==
  LET seen[i \in 0..Len(paths)] == IF i = 0 THEN <<>> ELSE AddNew(seen[i - 1], paths[i])
  IN  seen[Len(paths)]

Touched(evs) == FirstMet(PathsOf(evs))

(* `now` has the verdicts of the paths that were touched. *)
MovedOrNot(path, now) == TRUE

Moved(path, now) == path \notin DOMAIN reported \/ reported[path] # now[path]

EventForEager(path, now) ==
  IF ~Moved(path, now) THEN <<>>
  ELSE IF IsFailure(now[path]) THEN << Failed(path, now[path]) >>
  ELSE IF now[path] \in {"ValidSoFar", "Valid"} THEN << Settled(path, now[path]) >>
  ELSE <<>>

EventFor(path, now) ==
  IF ~Moved(path, now) THEN <<>>
  ELSE IF IsFailure(now[path]) THEN << Failed(path, now[path]) >>
  ELSE IF Status(path) = "Complete" /\ now[path] = "Valid" THEN << Settled(path, "Valid") >>
  ELSE <<>>

RememberLast(now) == now

Remember(now) == [p \in DOMAIN now \cup DOMAIN reported |->
                    IF p \in DOMAIN now THEN now[p] ELSE reported[p]]

-----------------------------------------------------------------------------
(* The calls. *)

VStep(b) ==
  /\ Step(b)
  /\ Len(input') <= Len(schema.sends) /\ input'[Len(input')] \in schema.sends[Len(input')]
  /\ UNCHANGED validation_vars

(* emit_progress. *)
GrewOrNot == Growing

Grew == Growing /\ Len(Stable) > reported_prefix

Progress == IF Grew THEN << Progressed(Slot(stack, path_prefix), Stable) >> ELSE <<>>

(* A push that returns Ok: emit_progress, then the verdicts. *)
VEndPush ==
  /\ PushReturns
  /\ \E seen \in { Touched(SubSeq(events, drained + 1, Len(events)) \o Progress) } :
       \E now \in { [p \in Range(seen) |-> Validation(p)] } :
         /\ events' = events \o Progress \o FlattenSeq([i \in DOMAIN seen |-> EventFor(seen[i], now)])
         /\ reported' = Remember(now)
  /\ reported_prefix' = IF Grew THEN Len(Stable) ELSE IF Growing THEN reported_prefix ELSE 0
  /\ feeding' = FALSE
  /\ UNCHANGED <<tree, tok, failed, offset, commit, held, ended, input, schema, drained, drains>>

(* finish() goes to the parser alone. *)
VFinish == Finish /\ UNCHANGED validation_vars

(* changes(): takes all events; the ones taken are not judged again. *)
Drain ==
  /\ Idle /\ drained < Len(events) /\ drains < MaxDrains
  /\ drained' = Len(events) /\ drains' = drains + 1
  /\ UNCHANGED <<vars, schema, reported>>

VNext == (\E b \in Alphabet : VStep(b)) \/ VEndPush \/ VFinish \/ Drain

VSpec == VInit /\ [][VNext]_all_vars
-----------------------------------------------------------------------------
(* Properties. *)

IsVerdict(e) == e.type \in {"ValidationFailed", "ValidationCompleted"}

(* Types: what the validator adds to the stream. *)
VTypeOK ==
  /\ TypeOK
  /\ schema \in Schemas
  /\ DOMAIN reported \subseteq Seq(Seq(Byte)) /\ \A p \in DOMAIN reported : reported[p] \in Verdict
  /\ drained \in 0..Len(events) /\ drains \in 0..MaxDrains
  /\ \A i \in DOMAIN events : IsVerdict(events[i]) =>
       events[i].path \in DOMAIN reported /\ events[i].state \in Verdict

(* Attaching a schema changes nothing about the parse: with the verdicts   *)
(* left out of the log, the stream is the parser, step for step.           *)
WithoutVerdicts(evs) ==
  LET kept[i \in 0..Len(evs)] ==
        IF i = 0 THEN <<>>
        ELSE IF IsVerdict(evs[i]) THEN kept[i - 1] ELSE Append(kept[i - 1], evs[i])
  IN  kept[Len(evs)]

ParseEvents == WithoutVerdicts(events)

Undisturbed == INSTANCE Parser WITH events <- ParseEvents

ParserUndisturbed == Undisturbed!Spec

(* Listening is as good as asking: after a push, a consumer that has only  *)
(* read the log knows which paths have failed and how, and which are       *)
(* valid, however often it drained.  Not while a number grows, which no    *)
(* event tells of, nor after finish(), which judges nothing.               *)
LastVerdict(path) ==
  SelectLastInSeq(events, LAMBDA e : IsVerdict(e) /\ e.path = path)

TellsVerdicts == \A n \in Nodes :
  LET now == ValidationOf(n.path, n.value)
      i   == LastVerdict(n.path)
  IN  IF IsFailure(now) \/ now = "Valid"
      THEN i # 0 /\ events[i].state = now
      ELSE i = 0

LogTellsVerdicts ==
  Idle /\ failed = None /\ ~ended /\ tok.type # "Num" /\ ~RepeatsKey => TellsVerdicts

(* Each transition is reported once: no two verdicts on one path follow    *)
(* one another with the same state, and none follows Valid.  Not once a    *)
(* key is repeated: then one path has two values.                          *)
TransitionsReportedOnce == ~RepeatsKey /\ ~FrameLost =>
  \A j \in DOMAIN events : \A i \in 1..(j - 1) :
    IsVerdict(events[i]) /\ IsVerdict(events[j]) /\ events[i].path = events[j].path =>
      /\ events[i].state # "Valid"
      /\ events[i].state = events[j].state =>
           \E k \in (i + 1)..(j - 1) : IsVerdict(events[k]) /\ events[k].path = events[i].path

(* A failure that was reported is never taken back by a later verdict: the *)
(* validator's part of the two properties above.                           *)
FailuresKept == [][
  \A p \in DOMAIN reported : IsFailure(reported[p]) /\ ~IsFailure(reported'[p]) => RepeatsKey'
]_all_vars

(* A literal grows without an event, so no verdict may hang on how much of *)
(* it has come, neither one on the literal nor one on what holds it: the   *)
(* validator's part of LogTellsVerdicts.  (check_type on PartialLiteral.)  *)
LiteralsKept == [][
  tok.type = "Lit" /\ tok'.type = "Lit" =>
    \A p \in Range(ToRoot(Slot(stack, path_prefix))) : Validation(p)' = Validation(p)
]_all_vars

(* A verdict on a path comes after the event it rests on: any verdict      *)
(* after the value has started, Valid after it has been completed.  Once a *)
(* key is repeated a path may lead into the wrong member, so that the      *)
(* value found complete there is not the one the path was announced for.   *)
VerdictsFollowValues ==
  \A j \in DOMAIN events : IsVerdict(events[j]) =>
    LET Follows(type) == \E i \in 1..(j - 1) :
                           events[i].type = type /\ events[i].path = events[j].path
    IN  /\ Follows("ValueStarted")
        /\ events[j].type = "ValidationCompleted" /\ ~RepeatsKey /\ ~FrameLost =>
             Follows("ValueCompleted")

-----------------------------------------------------------------------------
(* What the documentation says, without exceptions. *)

(* "Emitting a validation event on each transition": after a push the last *)
(* event on the root tells whether it has failed.                          *)
TransitionsAreTold ==
  Idle /\ failed = None /\ ~ended /\ IsFailure(Validation(<<>>)) =>
    LastVerdict(<<>>) # 0 /\ events[LastVerdict(<<>>)].state = Validation(<<>>)
=============================================================================
