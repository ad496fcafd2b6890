---------------------------- MODULE SchemaCompiler ----------------------------
(***************************************************************************)
(* compile(): lowering a schema document into nodes                        *)
(* (src/src/schema/compile.rs).                                            *)
(*                                                                         *)
(* lower() recurses over the document and, through $ref, back into it.     *)
(* `frames` is the stack of its activations on objects, `call` the one     *)
(* about to begin.  A keyword is taken when the subschemas it holds have   *)
(* been lowered.  Texts are sequences of atoms (module Pointer), so that a *)
(* keyword is a sequence of one word.                                      *)
(***************************************************************************)
EXTENDS Pointer, SchemaNodes

CONSTANTS
  Documents,   \* what parse_complete makes of the schema documents; Malformed when it fails
  Regexes,     \* the patterns that compile
  MaxNesting,  \* bound on the nesting of a document: the parser's max_depth
  MaxCalls     \* bound on the depth of the recursion: the machine's stack

Malformed == [type |-> "Malformed"]

ASSUME CompilerAssumption == MaxNesting \in Nat /\ MaxCalls \in Nat \ {0}

(* The values within a document: itself, its children, and so on. *)
Within(d) ==
  LET upto[k \in 0..MaxNesting] ==
        IF k = 0 THEN {d} ELSE UNION { {v} \cup ChildValues(v) : v \in upto[k - 1] }
  IN  upto[MaxNesting]

ASSUME DocumentsAssumption ==
  \A d \in Documents : \A v \in Within(d) :
    v # None /\ Shaped(v) /\ ChildValues(v) \subseteq Within(d)

VARIABLES
  doc,           \* root_value
  nodes,
  notes,         \* report.unsupported: location and keyword
  compiled,      \* report.compiled
  in_progress,   \* pointers being lowered, a function from texts to node numbers
  frames, call, result,
  origins        \* history: what each node comes from, where, and whether that was open then

cvars == <<doc, nodes, notes, compiled, in_progress, frames, call, result, origins>>

-----------------------------------------------------------------------------
(* Keywords and what they put into a node. *)

Counts   == {"minLength", "maxLength", "minItems", "maxItems", "minProperties", "maxProperties"}
Measures == Bounds \cup {"multipleOf"}
Lists    == {"prefixItems", "allOf", "anyOf", "oneOf"}
Silent   == {"$defs", "definitions", "title", "description", "default", "examples", "$schema", "$id",
             "$comment", "deprecated", "readOnly", "writeOnly"}
Assertions == Counts \cup Measures \cup Lists \cup
              {"type", "uniqueItems", "pattern", "enum", "const", "required", "properties",
               "additionalProperties", "items", "not"}

(* A keyword's word; names of several atoms are no keywords. *)
Word(key) == IF Len(key) = 1 THEN key[1] ELSE "other"

IsTrue(v) == v.data = <<"true">>

Strings(v) == { i \in DOMAIN v.data : v.data[i].value.type = "String" }

(* The strings of an array, or the string itself. *)
Names(v) == CASE v.type = "String" -> {v.data}
              [] v.type = "Array"  -> { v.data[i].value.data : i \in Strings(v) }
              [] OTHER             -> {}

IsTypeName(name) == Word(name) \in TypeName

TypesOf(v) == UNION { FromName(Word(name)) : name \in { t \in Names(v) : IsTypeName(t) } }

(* parse::<u64> of a number's lexeme. *)
IsCount(v) == v.type = "Number" /\ \A i \in DOMAIN v.data : v.data[i] \in DigitByte

(* The subschemas a keyword holds, each with what leads to it. *)
Subschemas(word, v) ==
  CASE (word = "properties" /\ v.type = "Object") \/ (word \in Lists /\ v.type = "Array") ->
         [i \in DOMAIN v.data |-> [at |-> <<"slash">> \o v.data[i].token, value |-> v.data[i].value]]
    [] word \in {"items", "not"} \/ (word = "additionalProperties" /\ v.type # "Bool") ->
         << [at |-> <<>>, value |-> v] >>
    [] OTHER -> <<>>

(* BTreeMap::insert of each: the last of a name stays. *)
ByName(v, ids, before) ==
  [name \in ChildrenOf(v) \cup DOMAIN before |->
    IF name \in ChildrenOf(v) THEN ids[SelectLastInSeq(v.data, LAMBDA c : c.token = name)]
    ELSE before[name]]

(* What a keyword says, a set of one or none; `ids` are its subschemas.    *)
(* Where it says something the report counts one constraint more.          *)
Content(n, word, v, ids) ==
  CASE word = "type"                               -> { TypesOf(v) } \ {{}}
    [] word \in Counts /\ IsCount(v)               -> { v.data }
    [] word \in Measures /\ v.type = "Number"      -> { v.data }
    [] word = "uniqueItems" /\ v.type = "Bool"     -> { IsTrue(v) }
    [] word = "pattern" /\ v.type = "String"       -> { v.data } \cap Regexes
    [] word = "enum" /\ v.type = "Array"           ->
         { [strings |-> Names(v), has_non_strings |-> Strings(v) # DOMAIN v.data] }
    [] word = "const"                              -> { v }
    [] word = "required" /\ v.type = "Array"       -> { Names(v) }
    [] word = "properties" /\ v.type = "Object"    -> { ByName(v, ids, Get(n, word, << >>)) }
    [] word = "additionalProperties" /\ v.type = "Bool" -> { IF IsTrue(v) THEN Permitted ELSE Forbidden }
    [] word = "prefixItems" /\ v.type = "Array"    -> { Get(n, word, <<>>) \o ids }
    [] word \in Lists \ {"prefixItems"} /\ v.type = "Array" -> { ids }
    [] word \in {"items", "not"} \/ (word = "additionalProperties" /\ v.type # "Bool") -> { ids[1] }
    [] OTHER                                       -> {}

(* The numeric keywords overwrite whatever a namesake said before. *)
Assign(n, word, content) ==
  IF content # {}
  THEN [k \in DOMAIN n \cup {word} |-> IF k = word THEN CHOOSE c \in content : TRUE ELSE n[k]]
  ELSE [k \in DOMAIN n \ ({word} \cap (Counts \cup Measures)) |-> n[k]]

(* What is reported of a keyword: how many times it is noted. *)
Unknown(v) ==
  CASE v.type = "String" -> IF IsTypeName(v.data) THEN 0 ELSE 1
    [] v.type = "Array"  -> Cardinality({ i \in Strings(v) : ~IsTypeName(v.data[i].value.data) })
    [] OTHER             -> 1

NotedUnknown(word, v) == IF word \notin Assertions \cup Silent THEN 1 ELSE 0

Noted(word, v) ==
  CASE word = "type" -> Unknown(v)
    [] word \in Counts /\ ~IsCount(v) -> 1
    [] word \in Measures /\ v.type # "Number" -> 1
    [] word = "pattern" /\ v.type = "String" /\ ~(v.data \in Regexes /\ IsPrefix(<<"^">>, v.data)) -> 1
    [] word \notin Assertions \cup Silent -> 1
    [] OTHER -> 0

Note(location, word) == [location |-> location, keyword |-> word]

-----------------------------------------------------------------------------
(* Calls. *)

Call(value, at, depth) == [value |-> value, at |-> at, depth |-> depth]

Frame(c, id) == [value |-> c.value, at |-> c.at, depth |-> c.depth, id |-> id,
                 member |-> 1, ids |-> <<>>, node |-> << >>]

Ok(id)    == [type |-> "Ok", id |-> id]
Err(kind) == [type |-> kind]

CInit ==
  /\ doc \in Documents
  /\ nodes = <<>> /\ notes = <<>> /\ compiled = 0 /\ in_progress = << >> /\ frames = <<>>
  /\ call = Call(doc, <<>>, 1) /\ result = None /\ origins = <<>>

(* A node number goes to the caller: the frame on top of `st`, or compile(). *)
Return(st, id) ==
  /\ call' = None
  /\ IF st = <<>> THEN frames' = <<>> /\ result' = Ok(id)
     ELSE frames' = [st EXCEPT ![Len(st)].ids = Append(@, id)] /\ UNCHANGED result

(* `?` leaves every activation at once. *)
Refuse(kind) ==
  /\ result' = Err(kind) /\ call' = None /\ frames' = <<>>
  /\ UNCHANGED <<doc, nodes, compiled, in_progress, origins>>

Lowering == call # None
Origin   == [value |-> call.value, at |-> call.at, open |-> call.at \in DOMAIN in_progress]

ParseFails == Lowering /\ doc = Malformed /\ Refuse("NotJson") /\ UNCHANGED notes

LowerBooleanOneLess ==
  /\ Lowering /\ call.value.type = "Bool"
  /\ nodes' = Append(nodes, "boolean" :> IsTrue(call.value)) /\ origins' = Append(origins, Origin)
  /\ compiled' = compiled + 1
  /\ Return(frames, Len(nodes))
  /\ UNCHANGED <<doc, notes, in_progress>>

LowerBoolean ==
  /\ Lowering /\ call.value.type = "Bool"
  /\ nodes' = Append(nodes, "boolean" :> IsTrue(call.value)) /\ origins' = Append(origins, Origin)
  /\ compiled' = compiled + 1
  /\ Return(frames, Len(nodes'))
  /\ UNCHANGED <<doc, notes, in_progress>>

NotASchema ==
  /\ Lowering /\ call.value.type \notin {"Bool", "Object", "Malformed"}
  /\ Refuse("NotASchema")
  /\ UNCHANGED notes

(* The target of a schema's $ref, a set of one or none. *)
Targets(v) ==
  { r.data : r \in { t \in { IF v.type = "Object" THEN Child(v, <<"$ref">>) ELSE None } \ {None} :
                    t.type = "String" } }

IsLocal(target) == IsPrefix(<<"#">>, target)

RefRemote(target) ==
  /\ ~IsLocal(target)
  /\ notes' = Append(notes, Note(call.at, "$ref"))
  /\ Refuse("UnresolvableRef")

RefInProgressTop(pointer) ==
  /\ pointer \in DOMAIN in_progress
  /\ Return(frames, Last(frames).id)
  /\ UNCHANGED <<doc, nodes, notes, compiled, in_progress, origins>>

RefInProgress(pointer) ==
  /\ pointer \in DOMAIN in_progress
  /\ Return(frames, in_progress[pointer])
  /\ UNCHANGED <<doc, nodes, notes, compiled, in_progress, origins>>

RefDanglingOrBoolean(pointer) ==
  /\ pointer \notin DOMAIN in_progress
  /\ \E value \in { PointerInto(doc, pointer) } : IF value = None THEN TRUE ELSE value.type # "Object"
  /\ Refuse("UnresolvableRef")
  /\ UNCHANGED notes

RefDangling(pointer) ==
  /\ pointer \notin DOMAIN in_progress
  /\ PointerInto(doc, pointer) = None
  /\ Refuse("UnresolvableRef")
  /\ UNCHANGED notes

RefFollowUnderCaller(pointer) ==
  /\ pointer \notin DOMAIN in_progress
  /\ \E value \in { PointerInto(doc, pointer) } \ {None} :
       call' = Call(value, call.at, call.depth + 1)
  /\ call.depth < MaxCalls
  /\ compiled' = compiled + 1
  /\ UNCHANGED <<doc, nodes, notes, in_progress, frames, result, origins>>

RefFollow(pointer) ==
  /\ pointer \notin DOMAIN in_progress
  /\ \E value \in { PointerInto(doc, pointer) } \ {None} :
       call' = Call(value, pointer, call.depth + 1)
  /\ call.depth < MaxCalls
  /\ compiled' = compiled + 1
  /\ UNCHANGED <<doc, nodes, notes, in_progress, frames, result, origins>>

ResolveRef ==
  /\ Lowering
  /\ \E target \in Targets(call.value) :
       \/ RefRemote(target)
       \/ /\ IsLocal(target)
          /\ \E pointer \in { Tail(target) } :
               RefInProgress(pointer) \/ RefDangling(pointer) \/ RefFollow(pointer)

LowerObjectUnlisted ==
  /\ Lowering /\ call.value.type = "Object" /\ Targets(call.value) = {}
  /\ nodes' = Append(nodes, << >>) /\ origins' = Append(origins, Origin)
  /\ frames' = Append(frames, Frame(call, Len(nodes')))
  /\ call' = None
  /\ UNCHANGED <<doc, notes, compiled, in_progress, result>>

LowerObject ==
  /\ Lowering /\ call.value.type = "Object" /\ Targets(call.value) = {}
  /\ nodes' = Append(nodes, << >>) /\ origins' = Append(origins, Origin)
  /\ in_progress' = [at \in DOMAIN in_progress \cup {call.at} |->
                       IF at = call.at THEN Len(nodes') ELSE in_progress[at]]
  /\ frames' = Append(frames, Frame(call, Len(nodes')))
  /\ call' = None
  /\ UNCHANGED <<doc, notes, compiled, result>>

-----------------------------------------------------------------------------
(* The loop over the members of an object. *)

Looping == call = None /\ frames # <<>>
Top     == Last(frames)
More    == Top.member <= Len(Top.value.data)
Key     == Top.value.data[Top.member].token
Member  == Top.value.data[Top.member].value
Below   == Subschemas(Word(Key), Member)

LocationUnseparated == Top.at \o Key

Location == Top.at \o <<"slash">> \o Key

Descend ==
  /\ Looping /\ More /\ Len(Top.ids) < Len(Below)
  /\ Top.depth < MaxCalls
  /\ \E next \in { Below[Len(Top.ids) + 1] } :
       call' = Call(next.value, Location \o next.at, Top.depth + 1)
  /\ UNCHANGED <<doc, nodes, notes, compiled, in_progress, frames, result, origins>>

TakeKeyword ==
  /\ Looping /\ More /\ Len(Top.ids) = Len(Below)
  /\ \E content \in { Content(Top.node, Word(Key), Member, Top.ids) } :
       /\ frames' = [frames EXCEPT ![Len(frames)] =
                       [Top EXCEPT !.node = Assign(@, Word(Key), content), !.member = @ + 1,
                                   !.ids = <<>>]]
       /\ compiled' = compiled + Cardinality(content)
  /\ notes' = notes \o [i \in 1..Noted(Word(Key), Member) |-> Note(Location, Word(Key))]
  /\ UNCHANGED <<doc, nodes, in_progress, call, result, origins>>

EndObjectStaysListed ==
  /\ Looping /\ ~More
  /\ nodes' = [nodes EXCEPT ![Top.id] = Top.node]
  /\ Return(Front(frames), Top.id)
  /\ UNCHANGED <<doc, notes, compiled, in_progress, origins>>

EndObjectWritesLast ==
  /\ Looping /\ ~More
  /\ in_progress' = [at \in DOMAIN in_progress \ {Top.at} |-> in_progress[at]]
  /\ nodes' = [nodes EXCEPT ![Len(nodes)] = Top.node]
  /\ Return(Front(frames), Top.id)
  /\ UNCHANGED <<doc, notes, compiled, origins>>

EndObject ==
  /\ Looping /\ ~More
  /\ in_progress' = [at \in DOMAIN in_progress \ {Top.at} |-> in_progress[at]]
  /\ nodes' = [nodes EXCEPT ![Top.id] = Top.node]
  /\ Return(Front(frames), Top.id)
  /\ UNCHANGED <<doc, notes, compiled, origins>>

CNext == \/ ParseFails \/ LowerBoolean \/ NotASchema \/ ResolveRef \/ LowerObject
         \/ Descend \/ TakeKeyword \/ EndObject

(* compile() is one call on one thread, which keeps running until it returns. *)
CSpec == CInit /\ [][CNext]_cvars /\ WF_cvars(CNext)
=============================================================================
