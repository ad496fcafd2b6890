----------------------------- MODULE SchemaGraph -----------------------------
(***************************************************************************)
(* What the compiler's result must be, read off the document: its schemas  *)
(* and the references between them, by RFC 6901 alone.                     *)
(***************************************************************************)
EXTENDS SchemaCompiler

(* What a $ref denotes in a document `d`, None if nothing. *)
Denoted(d, target) ==
  IF IsLocal(target) /\ IsPointer(Tail(target)) THEN ValueIn(d, ParsePointer(Tail(target)))
  ELSE None

(* The schemas a schema rests on directly. *)
Uses(d, v) ==
  IF v = None THEN {}
  ELSE IF Targets(v) # {} THEN { Denoted(d, t) : t \in Targets(v) }
  ELSE IF v.type # "Object" THEN {}
  ELSE UNION { { s.value : s \in Range(Subschemas(Word(m.token), m.value)) } : m \in Range(v.data) }

(* All that a document's schema rests on: None stands for what is not there. *)
Reached(d) ==
  LET upto[k \in 0..MaxCalls] ==
        IF k = 0 THEN {d} ELSE UNION { {v} \cup Uses(d, v) : v \in upto[k - 1] }
  IN  upto[MaxCalls]

IsRef(v) == v # None /\ Targets(v) # {}

Hop(d, v) == IF IsRef(v) THEN CHOOSE u \in Uses(d, v) : TRUE ELSE v

(* At the end of a chain of references. *)
Meant(d, v) ==
  LET hop[k \in 0..MaxCalls] == IF k = 0 THEN v ELSE Once(hop[k - 1], LAMBDA u : Hop(d, u))
  IN  hop[MaxCalls]

(* A chain of references that leads back into itself. *)
RefCycle(d) == \E v \in Reached(d) : IsRef(Meant(d, v))

(* Every place of a document. *)
Places(d) ==
  LET at[k \in 0..MaxNesting] ==
        IF k = 0 THEN {<<>>}
        ELSE UNION { { Append(p, t) : t \in ChildrenOf(ValueIn(d, p)) } : p \in at[k - 1] }
  IN  UNION { at[k] : k \in 0..MaxNesting }

Done     == result # None
Accepted == Done /\ result.type = "Ok"

-----------------------------------------------------------------------------
(* Types: node numbers are within the arena, from every place that holds   *)
(* one, and the recursion stays within its bound.                          *)
Ids == 1..Len(nodes)

IdsInArena ==
  /\ compiled \in Nat /\ Len(origins) = Len(nodes)
  /\ \A at \in DOMAIN in_progress : in_progress[at] \in Ids
  /\ \A f \in Range(frames) :
       f.id \in Ids /\ Range(f.ids) \subseteq Ids /\ f.depth \in 1..MaxCalls
  /\ call # None => call.depth \in 1..MaxCalls
  /\ Accepted => result.id \in Ids

CTypeOK ==
  /\ IdsInArena
  /\ \A f \in Range(frames) : f.member \in 1..(Len(f.value.data) + 1)

(* "Pointers already being lowered": the table names exactly the           *)
(* activations on the stack, each with the node it will fill.  Not once a  *)
(* place has been entered while it was open, which happens when a schema   *)
(* refers to what holds it and is itself reached by a $ref: only $ref      *)
(* looks a place up.  (in_progress in compile.rs.)                         *)
Running   == call # None \/ frames # <<>>
Reentered == \E i \in DOMAIN origins : origins[i].open

InProgressIsOpen == Running /\ ~Reentered =>
  /\ DOMAIN in_progress = { f.at : f \in Range(frames) }
  /\ \A f \in Range(frames) : in_progress[f.at] = f.id

(* A node that no activation is filling has been written for good: a       *)
(* number handed out, even through a cycle, keeps its meaning.             *)
NodesWrittenOnce ==
  [][\A id \in Ids : id \notin { f.id : f \in Range(frames) } => nodes'[id] = nodes[id]]_cvars

(* Two things in which the compiler does not follow RFC 6901: pointer_into *)
(* takes a pointer with no slash, or several, at its beginning; and        *)
(* in_progress holds pointers whose names are not escaped, so that a $ref  *)
(* may find an entry made for a schema that it does not denote.            *)
Lenient(target) ==
  IsLocal(target) /\ target # <<"#">> /\ Trimmed(Tail(target)) # Tail(Tail(target))

LenientPointer == \E v \in Reached(doc) \ {None} : \E t \in Targets(v) : Lenient(t)

Misread == \E v \in Reached(doc) \ {None} : \E t \in Targets(v) : \E i \in DOMAIN origins :
  IsLocal(t) /\ origins[i].at = Tail(t) /\ origins[i].value # Denoted(doc, t)

(* Documents in which a pointer made of names says where it leads.         *)
PlainNames == \A v \in Within(doc) : \A t \in ChildrenOf(v) : {"slash", "~"} \cap Range(t) = {}

UniqueNames == \A v \in Within(doc) : v.type = "Object" =>
  \A i, j \in DOMAIN v.data : v.data[i].token = v.data[j].token => i = j

(* In such a document a schema is lowered under a pointer to it, so that   *)
(* no $ref is misread.  (The parameter `at` of lower in compile.rs.)       *)
PointersLeadBack == PlainNames /\ UniqueNames /\ ~LenientPointer =>
  /\ \A i \in DOMAIN origins :
       IsPointer(origins[i].at) /\ ValueIn(doc, ParsePointer(origins[i].at)) = origins[i].value
  /\ ~Misread

(* The graph is the document's: wherever a schema holds a subschema, the   *)
(* node holds the number of a node made from that subschema, or from what  *)
(* its $ref denotes.                                                       *)
Linked(n, word, v) ==
  CASE word = "properties" -> [i \in DOMAIN v.data |-> n.properties[v.data[i].token]]
    [] word \in Lists      -> n[word]
    [] OTHER               -> << n[word] >>

GraphMatchesDocument == Accepted /\ UniqueNames /\ ~Misread /\ ~LenientPointer =>
  /\ origins[result.id].value = Meant(doc, doc)
  /\ \A id \in Ids : \A m \in { c \in Range(origins[id].value.data) :
                                origins[id].value.type = "Object" } :
       LET word == Word(m.token)
           subs == Subschemas(word, m.value)
       IN  subs # <<>> =>
             /\ Len(Linked(nodes[id], word, m.value)) = Len(subs)
             /\ \A i \in DOMAIN subs :
                  origins[Linked(nodes[id], word, m.value)[i]].value = Meant(doc, subs[i].value)

(* A document is refused for the reason given, and for no other: something *)
(* it rests on is no schema, or a $ref denotes nothing.                    *)
RefusalsAreRight == Done /\ ~LenientPointer =>
  /\ result.type = "NotJson" <=> doc = Malformed
  /\ result.type = "NotASchema" => \E v \in Reached(doc) \ {None} : v.type \notin {"Bool", "Object"}
  /\ result.type = "UnresolvableRef" => None \in Reached(doc)
  /\ Accepted /\ ~Misread => \A v \in Reached(doc) : v # None /\ v.type \in {"Bool", "Object"}

(* A constraint of the schema is in the node or in the report.  Not some   *)
(* that are written wrongly, and not what stands beside a $ref.            *)
IsNoted(origin, m) == \E n \in Range(notes) :
  n.location = origin.at \o <<"slash">> \o m.token /\ n.keyword = Word(m.token)

Mistyped(word, v) ==
  \/ word \in {"uniqueItems"} /\ v.type # "Bool"
  \/ word = "pattern" /\ v.type # "String"
  \/ word \in Lists \cup {"enum", "required"} /\ v.type # "Array"
  \/ word = "properties" /\ v.type # "Object"
  \/ word = "type" /\ v.type = "Array" /\ TypesOf(v) = {}

Recorded(exempt(_, _)) == Accepted =>
  \A id \in Ids : \A m \in { c \in Range(origins[id].value.data) : origins[id].value.type = "Object" } :
    \/ Word(m.token) \in Silent
    \/ Has(nodes[id], Word(m.token))
    \/ IsNoted(origins[id], m)
    \/ exempt(Word(m.token), m.value)

ConstraintsRecorded == Recorded(Mistyped)

(* "Anything that cannot be lowered is recorded": without exceptions.      *)
(* (The section on honesty in schema/mod.rs.)                              *)
NothingDropped == Recorded(LAMBDA word, v : FALSE)

(* "JSON Pointer to the keyword within the schema document": every note    *)
(* leads to the keyword it is about.  (Unsupported in schema/mod.rs.)      *)
NotesLocate == Accepted /\ PlainNames /\ UniqueNames /\ ~LenientPointer =>
  \A n \in Range(notes) :
    LET path == ParsePointer(n.location)
    IN  /\ IsPointer(n.location) /\ path # <<>> /\ Word(Last(path)) = n.keyword
        /\ ValueIn(doc, path) # None

(* "They can be handed straight back": a rendered path is read as itself   *)
(* by status() and, unless it begins with an empty name, by $ref.          *)
(* (event.rs, on paths.)                                                   *)
PointersRoundTrip == Done /\ doc # Malformed =>
  \A p \in Places(doc) :
    /\ ParsePointer(Render(p)) = p
    /\ Len(p) < 2 \/ p[1] # <<>> => PointerInto(doc, Render(p)) = ValueIn(doc, p)

(* compile() returns: lowering a recursive schema comes to an end.         *)
(* (in_progress in compile.rs, "instead of expanding forever".)            *)
CompileReturns == <>Done
=============================================================================
