--------------------------- MODULE CompilerProofs ---------------------------
(***************************************************************************)
(* Theorems about SchemaCompiler, for all documents, patterns and depths.  *)
(*                                                                         *)
(* Node numbers are handed out in four ways (a new node, an entry of       *)
(* in_progress, the end of an activation, a keyword's subschemas); that    *)
(* they stay within the arena needs all four at once (CInv).  On it rest,  *)
(* in this order: the table of pointers in progress (OpenTable), the shape *)
(* of what is kept (Shape), what is recorded of each keyword (RecordInv),  *)
(* what is reached (RefusedOK), what is lowered for what (EnterInv), what  *)
(* the nodes link (LinkInv), and where the pointers lead (LeadInv).        *)
(***************************************************************************)
EXTENDS SchemaGraph, SeqLemmas, FiniteSetTheorems

(* An activation, with its node and its subschemas among the first n nodes. *)
IsActivation(f, n) ==
  /\ f = [value |-> f.value, at |-> f.at, depth |-> f.depth, id |-> f.id,
          member |-> f.member, ids |-> f.ids, node |-> f.node]
  /\ f.id \in 1..n /\ f.depth \in 1..MaxCalls
  /\ IsSequence(f.ids) /\ \A i \in 1..Len(f.ids) : f.ids[i] \in 1..n

IsCallStack(st, n) == IsSequence(st) /\ \A i \in 1..Len(st) : IsActivation(st[i], n)

ArenaOK == IsSequence(nodes) /\ IsSequence(origins) /\ Len(origins) = Len(nodes) /\ compiled \in Nat

OpenOK == \A at \in DOMAIN in_progress : in_progress[at] \in Ids

CallsOK ==
  /\ IsCallStack(frames, Len(nodes))
  /\ call # None => call.depth \in 1..MaxCalls
  /\ Accepted => result.id \in Ids

CInv == ArenaOK /\ OpenOK /\ CallsOK

LEMMA CInvImplies == CInv => IdsInArena
<1> SUFFICES ASSUME CInv PROVE IdsInArena OBVIOUS
<1>1. DOMAIN frames = 1..Len(frames) BY DEF CInv, CallsOK, IsCallStack, IsSequence
<1>2. ASSUME NEW f \in Range(frames)
      PROVE  f.id \in Ids /\ Range(f.ids) \subseteq Ids /\ f.depth \in 1..MaxCalls
  <2>1. IsActivation(f, Len(nodes)) BY <1>1 DEF CInv, CallsOK, IsCallStack, Range
  <2>2. DOMAIN f.ids = 1..Len(f.ids) BY <2>1 DEF IsActivation, IsSequence
  <2> QED BY <2>1, <2>2 DEF IsActivation, Range, Ids
<1> QED BY <1>2 DEF CInv, ArenaOK, OpenOK, CallsOK, IdsInArena

-----------------------------------------------------------------------------
(* Activations. *)

LEMMA MoreNodes ==
  ASSUME NEW st, NEW n \in Nat, NEW m \in Nat, n <= m, IsCallStack(st, n)
  PROVE  IsCallStack(st, m)
BY DEF IsCallStack, IsActivation

LEMMA Pushed ==
  ASSUME NEW st, NEW n \in Nat, IsCallStack(st, n), NEW f, IsActivation(f, n)
  PROVE  IsCallStack(Append(st, f), n)
<1>1. IsSequence(st) /\ Len(st) \in Nat BY DEF IsCallStack, IsSequence
<1>2. /\ IsSequence(Append(st, f)) /\ Len(Append(st, f)) = Len(st) + 1
      /\ \A i \in 1..Len(st) : Append(st, f)[i] = st[i]
      /\ Append(st, f)[Len(st) + 1] = f
  BY <1>1, AppendSequence
<1>3. ASSUME NEW i \in 1..(Len(st) + 1) PROVE IsActivation(Append(st, f)[i], n)
  <2>1. CASE i \in 1..Len(st) BY <2>1, <1>2 DEF IsCallStack
  <2>2. CASE i = Len(st) + 1 BY <2>2, <1>2
  <2> QED BY <1>1, <2>1, <2>2
<1> QED BY <1>2, <1>3 DEF IsCallStack

LEMMA Popped ==
  ASSUME NEW st, NEW n \in Nat, IsCallStack(st, n), st # <<>>
  PROVE  /\ Len(st) \in 1..Len(st) /\ IsActivation(Last(st), n) /\ Last(st) = st[Len(st)]
         /\ IsCallStack(Front(st), n)
<1>1. /\ Len(st) \in Nat \ {0} /\ IsSequence(Front(st)) /\ Len(Front(st)) = Len(st) - 1
      /\ \A i \in 1..(Len(st) - 1) : Front(st)[i] = st[i]
      /\ Last(st) = st[Len(st)]
  BY FrontSequence DEF IsCallStack
<1> QED BY <1>1 DEF IsCallStack

LEMMA TopReplaced ==
  ASSUME NEW st, NEW n \in Nat, IsCallStack(st, n), st # <<>>, NEW f, IsActivation(f, n)
  PROVE  IsCallStack([st EXCEPT ![Len(st)] = f], n)
<1> DEFINE new == [st EXCEPT ![Len(st)] = f]
<1>1. IsSequence(st) /\ Len(st) \in 1..Len(st) BY Popped DEF IsCallStack
<1>2. /\ IsSequence(new) /\ Len(new) = Len(st) /\ new[Len(st)] = f
      /\ \A i \in 1..Len(st) : i # Len(st) => new[i] = st[i]
  BY <1>1, ExceptSequence
<1> QED BY <1>1, <1>2 DEF IsCallStack

(* A node number that a call returns goes to the innermost activation.     *)
LEMMA Received ==
  ASSUME NEW f, NEW n \in Nat, IsActivation(f, n), NEW id \in 1..n
  PROVE  IsActivation([f EXCEPT !.ids = Append(@, id)], n)
<1> DEFINE ids == Append(f.ids, id)
           g == [value |-> f.value, at |-> f.at, depth |-> f.depth, id |-> f.id,
                 member |-> f.member, ids |-> ids, node |-> f.node]
           h == [value |-> f.value, at |-> f.at, depth |-> f.depth, id |-> f.id,
                 member |-> f.member, ids |-> f.ids, node |-> f.node]
<1>1. IsSequence(f.ids) /\ Len(f.ids) \in Nat BY DEF IsActivation, IsSequence
<1>2. /\ IsSequence(ids) /\ Len(ids) = Len(f.ids) + 1
      /\ \A i \in 1..Len(f.ids) : ids[i] = f.ids[i]
      /\ ids[Len(f.ids) + 1] = id
  BY <1>1, AppendSequence
<1>3. ASSUME NEW i \in 1..(Len(f.ids) + 1) PROVE ids[i] \in 1..n
  <2>1. CASE i \in 1..Len(f.ids) BY <2>1, <1>2 DEF IsActivation
  <2>2. CASE i = Len(f.ids) + 1 BY <2>2, <1>2
  <2> QED BY <1>1, <2>1, <2>2
<1> HIDE DEF ids
<1>4. IsActivation(g, n) BY <1>2, <1>3 DEF IsActivation
<1>5. f = h BY DEF IsActivation
<1>6. [h EXCEPT !.ids = ids] = g OBVIOUS
<1> QED BY <1>4, <1>5, <1>6 DEF ids

(* A keyword taken: the fields a number may be in are kept or emptied.     *)
LEMMA Advanced ==
  ASSUME NEW f, NEW n \in Nat, IsActivation(f, n), NEW node, NEW member
  PROVE  IsActivation([f EXCEPT !.node = node, !.member = member, !.ids = <<>>], n)
<1> DEFINE h == [value |-> f.value, at |-> f.at, depth |-> f.depth, id |-> f.id,
                 member |-> f.member, ids |-> f.ids, node |-> f.node]
           h1 == [value |-> f.value, at |-> f.at, depth |-> f.depth, id |-> f.id,
                  member |-> f.member, ids |-> f.ids, node |-> node]
           h2 == [value |-> f.value, at |-> f.at, depth |-> f.depth, id |-> f.id,
                  member |-> member, ids |-> f.ids, node |-> node]
           g == [value |-> f.value, at |-> f.at, depth |-> f.depth, id |-> f.id,
                 member |-> member, ids |-> <<>>, node |-> node]
<1>1. f = h BY DEF IsActivation
<1>2. [h EXCEPT !.node = node] = h1 OBVIOUS
<1>3. [h1 EXCEPT !.member = member] = h2 OBVIOUS
<1>4. [h2 EXCEPT !.ids = <<>>] = g OBVIOUS
<1>5. IsActivation(g, n) BY EmptySequence DEF IsActivation
<1> HIDE DEF h, h1, h2, g
<1>6. [f EXCEPT !.node = node, !.member = member, !.ids = <<>>]
        = [[[f EXCEPT !.node = node] EXCEPT !.member = member] EXCEPT !.ids = <<>>]
  OBVIOUS
<1> QED BY <1>1, <1>2, <1>3, <1>4, <1>5, <1>6

LEMMA Returned ==
  ASSUME NEW st, IsCallStack(st, Len(nodes')), Len(nodes') \in Nat,
         NEW id \in 1..Len(nodes'), Return(st, id), Accepted => result.id \in 1..Len(nodes')
  PROVE  CallsOK'
<1> DEFINE n == Len(nodes')
<1>1. call' = None BY DEF Return
<1>2. CASE st = <<>>
  <2>1. frames' = <<>> /\ result' = Ok(id) BY <1>2 DEF Return
  <2>2. IsCallStack(frames', n) BY <2>1, EmptySequence DEF IsCallStack
  <2>3. result'.id \in 1..n BY <2>1 DEF Ok
  <2> QED BY <1>1, <2>2, <2>3 DEF CallsOK, Ids
<1>3. CASE st # <<>>
  <2> DEFINE f == [Last(st) EXCEPT !.ids = Append(@, id)]
  <2>1. Last(st) = st[Len(st)] /\ IsActivation(f, n) BY <1>3, Popped, Received
  <2>2. frames' = [st EXCEPT ![Len(st)] = f] /\ result' = result BY <1>3, <2>1 DEF Return
  <2>3. IsCallStack(frames', n) BY <1>3, <2>1, <2>2, TopReplaced
  <2> QED BY <1>1, <2>2, <2>3 DEF CallsOK, Ids, Accepted, Done
<1> QED BY <1>2, <1>3

-----------------------------------------------------------------------------
(* One lemma for each way a step can go. *)

LEMMA RefuseInv ==
  ASSUME CInv, NEW kind, kind # "Ok", Refuse(kind)
  PROVE  CInv'
<1>1. call' = None /\ frames' = <<>> /\ result' = Err(kind) BY DEF Refuse
<1>2. UNCHANGED <<nodes, compiled, in_progress, origins>> BY DEF Refuse
<1>3. IsCallStack(frames', Len(nodes')) BY <1>1, EmptySequence DEF IsCallStack
<1>4. ~Accepted' BY <1>1 DEF Accepted, Err
<1>5. CallsOK' BY <1>1, <1>3, <1>4 DEF CallsOK
<1>6. ArenaOK' /\ OpenOK' BY <1>2 DEF CInv, ArenaOK, OpenOK, Ids
<1> QED BY <1>5, <1>6 DEF CInv

(* alloc() *)
LEMMA Allocated ==
  ASSUME CInv, NEW node, NEW origin, nodes' = Append(nodes, node), origins' = Append(origins, origin),
         compiled' \in Nat
  PROVE  /\ ArenaOK' /\ Len(nodes') = Len(nodes) + 1 /\ Len(nodes') \in 1..Len(nodes')
         /\ IsCallStack(frames, Len(nodes'))
         /\ \A at \in DOMAIN in_progress : in_progress[at] \in 1..Len(nodes')
         /\ Accepted => result.id \in 1..Len(nodes')
<1>1. Len(nodes) \in Nat BY DEF CInv, ArenaOK, IsSequence
<1>2. IsSequence(nodes') /\ Len(nodes') = Len(nodes) + 1
  BY AppendSequence DEF CInv, ArenaOK
<1>3. IsSequence(origins') /\ Len(origins') = Len(origins) + 1
  BY AppendSequence DEF CInv, ArenaOK
<1>4. IsCallStack(frames, Len(nodes')) BY <1>1, <1>2, MoreNodes DEF CInv, CallsOK
<1> QED BY <1>1, <1>2, <1>3, <1>4 DEF CInv, ArenaOK, OpenOK, CallsOK, Ids

(* What a keyword says is one thing or nothing. *)
LEMMA ContentSize ==
  ASSUME NEW n, NEW word, NEW v, NEW ids
  PROVE  Cardinality(Content(n, word, v, ids)) \in Nat
<1> DEFINE C == Content(n, word, v, ids)
           enum == [strings |-> Names(v), has_non_strings |-> Strings(v) # DOMAIN v.data]
           additional == IF IsTrue(v) THEN Permitted ELSE Forbidden
           props == ByName(v, ids, Get(n, word, << >>))
           items == Get(n, word, <<>>) \o ids
<1>0. \/ C \subseteq {TypesOf(v)} \/ C \subseteq {v.data} \/ C \subseteq {IsTrue(v)} \/ C \subseteq {enum}
      \/ C \subseteq {v} \/ C \subseteq {Names(v)} \/ C \subseteq {props}
      \/ C \subseteq {additional} \/ C \subseteq {items} \/ C \subseteq {ids} \/ C \subseteq {ids[1]}
  BY DEF Content
<1> HIDE DEF C, enum, additional, props, items
<1>1. \E e : C \subseteq {e} BY <1>0
<1> USE DEF C
<1>2. PICK e : Content(n, word, v, ids) \subseteq {e} BY <1>1
<1>3. IsFiniteSet({e}) BY FS_Singleton
<1>4. IsFiniteSet(Content(n, word, v, ids)) BY <1>2, <1>3, FS_Subset
<1> QED BY <1>4, FS_CardinalityType

LEMMA LoopFacts ==
  ASSUME CInv, Looping
  PROVE  /\ frames # <<>> /\ IsCallStack(frames, Len(nodes)) /\ Len(nodes) \in Nat
         /\ IsActivation(Top, Len(nodes)) /\ Top = frames[Len(frames)]
         /\ Len(frames) \in DOMAIN frames /\ IsCallStack(Front(frames), Len(nodes))
<1>1. frames # <<>> /\ IsCallStack(frames, Len(nodes)) /\ Len(nodes) \in Nat
  BY DEF CInv, CallsOK, ArenaOK, IsSequence, Looping
<1>2. DOMAIN frames = 1..Len(frames) BY <1>1 DEF IsCallStack, IsSequence
<1> QED BY <1>1, <1>2, Popped DEF Top

-----------------------------------------------------------------------------
(* The actions. *)

LEMMA LowerBooleanInv ==
  ASSUME CInv, LowerBoolean
  PROVE  CInv'
<1>1. /\ \E node : nodes' = Append(nodes, node)
      /\ origins' = Append(origins, Origin) /\ compiled' = compiled + 1
      /\ Return(frames, Len(nodes')) /\ in_progress' = in_progress
  BY DEF LowerBoolean
<1>2. compiled' \in Nat BY <1>1 DEF CInv, ArenaOK
<1>3. /\ ArenaOK' /\ Len(nodes') \in 1..Len(nodes') /\ IsCallStack(frames, Len(nodes'))
      /\ \A at \in DOMAIN in_progress : in_progress[at] \in 1..Len(nodes')
      /\ Accepted => result.id \in 1..Len(nodes')
  BY <1>1, <1>2, Allocated
<1>4. Len(nodes') \in Nat BY <1>3 DEF ArenaOK, IsSequence
<1>5. CallsOK' BY <1>1, <1>3, <1>4, Returned
<1>6. OpenOK' BY <1>1, <1>3 DEF OpenOK, Ids
<1> QED BY <1>3, <1>5, <1>6 DEF CInv

LEMMA LowerObjectInv ==
  ASSUME CInv, LowerObject
  PROVE  CInv'
<1>1. /\ nodes' = Append(nodes, << >>) /\ origins' = Append(origins, Origin)
      /\ in_progress' = [at \in DOMAIN in_progress \cup {call.at} |->
                           IF at = call.at THEN Len(nodes') ELSE in_progress[at]]
      /\ frames' = Append(frames, Frame(call, Len(nodes')))
      /\ call # None /\ call' = None /\ compiled' = compiled /\ result' = result
  BY DEF LowerObject, Lowering
<1>2. compiled' \in Nat BY <1>1 DEF CInv, ArenaOK
<1>3. /\ ArenaOK' /\ Len(nodes') \in 1..Len(nodes') /\ IsCallStack(frames, Len(nodes'))
      /\ \A at \in DOMAIN in_progress : in_progress[at] \in 1..Len(nodes')
      /\ Accepted => result.id \in 1..Len(nodes')
  BY <1>1, <1>2, Allocated
<1>4. Len(nodes') \in Nat BY <1>3 DEF ArenaOK, IsSequence
<1>5. IsActivation(Frame(call, Len(nodes')), Len(nodes'))
  BY <1>1, <1>3, EmptySequence DEF IsActivation, Frame, CInv, CallsOK
<1>6. IsCallStack(frames', Len(nodes')) BY <1>1, <1>3, <1>4, <1>5, Pushed
<1>7. CallsOK' BY <1>1, <1>3, <1>6 DEF CallsOK, Accepted, Done, Ids
<1>8. OpenOK' BY <1>1, <1>3 DEF OpenOK, Ids
<1> QED BY <1>3, <1>7, <1>8 DEF CInv

LEMMA ResolveRefInv ==
  ASSUME CInv, ResolveRef
  PROVE  CInv'
<1>1. PICK target \in Targets(call.value) :
        \/ RefRemote(target)
        \/ \E pointer \in { Tail(target) } :
             RefInProgress(pointer) \/ RefDangling(pointer) \/ RefFollow(pointer)
  BY DEF ResolveRef
<1>2. CASE RefRemote(target) BY <1>2, RefuseInv DEF RefRemote
<1>3. ASSUME NEW pointer, RefInProgress(pointer) PROVE CInv'
  <2>1. /\ in_progress[pointer] \in Ids /\ Return(frames, in_progress[pointer])
        /\ UNCHANGED <<nodes, compiled, in_progress, origins>>
    BY <1>3 DEF RefInProgress, CInv, OpenOK
  <2>2. Len(nodes) \in Nat /\ IsCallStack(frames, Len(nodes')) /\ (Accepted => result.id \in Ids)
    BY <2>1 DEF CInv, ArenaOK, IsSequence, CallsOK
  <2>3. CallsOK' BY <2>1, <2>2, Returned DEF Ids
  <2>4. ArenaOK' /\ OpenOK' BY <2>1 DEF CInv, ArenaOK, OpenOK, Ids
  <2> QED BY <2>3, <2>4 DEF CInv
<1>4. ASSUME NEW pointer, RefDangling(pointer) PROVE CInv'
  BY <1>4, RefuseInv DEF RefDangling
<1>5. ASSUME NEW pointer, RefFollow(pointer) PROVE CInv'
  <2>1. PICK value : call' = Call(value, pointer, call.depth + 1) BY <1>5 DEF RefFollow
  <2>2. /\ call.depth < MaxCalls /\ compiled' = compiled + 1
        /\ UNCHANGED <<nodes, in_progress, frames, result, origins>>
    BY <1>5 DEF RefFollow
  <2>3. call # None BY DEF ResolveRef, Lowering
  <2>4. call'.depth \in 1..MaxCalls
    BY <2>1, <2>2, <2>3, CompilerAssumption DEF CInv, CallsOK, Call
  <2>5. CallsOK' BY <2>2, <2>4 DEF CInv, CallsOK, Accepted, Done, Ids
  <2>6. ArenaOK' /\ OpenOK' BY <2>2 DEF CInv, ArenaOK, OpenOK, Ids
  <2> QED BY <2>5, <2>6 DEF CInv
<1> QED BY <1>1, <1>2, <1>3, <1>4, <1>5

LEMMA DescendInv ==
  ASSUME CInv, Descend
  PROVE  CInv'
<1>1. PICK value, at : call' = Call(value, at, Top.depth + 1) BY DEF Descend
<1>2. /\ Looping /\ Top.depth < MaxCalls
      /\ UNCHANGED <<nodes, compiled, in_progress, frames, result, origins>>
  BY DEF Descend
<1>3. Top.depth \in 1..MaxCalls BY <1>2, LoopFacts DEF IsActivation
<1>4. call'.depth \in 1..MaxCalls BY <1>1, <1>2, <1>3, CompilerAssumption DEF Call
<1>5. CallsOK' BY <1>2, <1>4 DEF CInv, CallsOK, Accepted, Done, Ids
<1>6. ArenaOK' /\ OpenOK' BY <1>2 DEF CInv, ArenaOK, OpenOK, Ids
<1> QED BY <1>5, <1>6 DEF CInv

LEMMA TakeKeywordInv ==
  ASSUME CInv, TakeKeyword
  PROVE  CInv'
<1> DEFINE content == Content(Top.node, Word(Key), Member, Top.ids)
           f == [Top EXCEPT !.node = Assign(@, Word(Key), content), !.member = @ + 1, !.ids = <<>>]
<1>1. /\ Looping /\ frames' = [frames EXCEPT ![Len(frames)] = f]
      /\ compiled' = compiled + Cardinality(content)
      /\ UNCHANGED <<nodes, in_progress, call, result, origins>>
  BY DEF TakeKeyword
<1>2. compiled' \in Nat BY <1>1, ContentSize DEF CInv, ArenaOK
<1> HIDE DEF content
<1>3. IsActivation(f, Len(nodes))
  <2> DEFINE node == Assign(Top.node, Word(Key), content)
             member == Top.member + 1
  <2>1. IsActivation(Top, Len(nodes)) /\ Len(nodes) \in Nat BY <1>1, LoopFacts
  <2>2. f = [Top EXCEPT !.node = node, !.member = member, !.ids = <<>>] OBVIOUS
  <2> HIDE DEF node, member
  <2> QED BY <2>1, <2>2, Advanced
<1> HIDE DEF f
<1>4. IsCallStack(frames', Len(nodes')) BY <1>1, <1>3, LoopFacts, TopReplaced
<1>5. CallsOK' BY <1>1, <1>4 DEF CInv, CallsOK, Accepted, Done, Ids
<1>6. ArenaOK' /\ OpenOK' BY <1>1, <1>2 DEF CInv, ArenaOK, OpenOK, Ids
<1> QED BY <1>5, <1>6 DEF CInv

LEMMA EndObjectInv ==
  ASSUME CInv, EndObject
  PROVE  CInv'
<1>1. /\ Looping /\ in_progress' = [at \in DOMAIN in_progress \ {Top.at} |-> in_progress[at]]
      /\ nodes' = [nodes EXCEPT ![Top.id] = Top.node]
      /\ Return(Front(frames), Top.id) /\ UNCHANGED <<compiled, origins>>
  BY DEF EndObject
<1>2. Top.id \in 1..Len(nodes) BY <1>1, LoopFacts DEF IsActivation
<1> DEFINE node == Top.node
           id == Top.id
<1>3. IsSequence(nodes') /\ Len(nodes') = Len(nodes)
  <2> IsSequence(nodes) /\ id \in 1..Len(nodes) /\ nodes' = [nodes EXCEPT ![id] = node]
    BY <1>1, <1>2 DEF CInv, ArenaOK
  <2> HIDE DEF id, node
  <2> QED BY ExceptSequence
<1>4. ArenaOK' /\ OpenOK' BY <1>1, <1>3 DEF CInv, ArenaOK, OpenOK, Ids
<1>5. CallsOK' BY <1>1, <1>2, <1>3, LoopFacts, Returned DEF CInv, CallsOK, Ids
<1> QED BY <1>4, <1>5 DEF CInv

-----------------------------------------------------------------------------

LEMMA CInitInv == CInit => CInv
<1> SUFFICES ASSUME CInit PROVE CInv OBVIOUS
<1>1. ArenaOK BY EmptySequence DEF CInit, ArenaOK
<1>2. OpenOK BY DEF CInit, OpenOK
<1>3. CallsOK
  BY EmptySequence, CompilerAssumption DEF CInit, CallsOK, IsCallStack, Call, Accepted, Done
<1> QED BY <1>1, <1>2, <1>3 DEF CInv

LEMMA CNextInv == CInv /\ [CNext]_cvars => CInv'
<1> SUFFICES ASSUME CInv, [CNext]_cvars PROVE CInv' OBVIOUS
<1>1. CASE ParseFails BY <1>1, RefuseInv DEF ParseFails
<1>2. CASE LowerBoolean BY <1>2, LowerBooleanInv
<1>3. CASE NotASchema BY <1>3, RefuseInv DEF NotASchema
<1>4. CASE ResolveRef BY <1>4, ResolveRefInv
<1>5. CASE LowerObject BY <1>5, LowerObjectInv
<1>6. CASE Descend BY <1>6, DescendInv
<1>7. CASE TakeKeyword BY <1>7, TakeKeywordInv
<1>8. CASE EndObject BY <1>8, EndObjectInv
<1>9. CASE UNCHANGED cvars
  BY <1>9 DEF cvars, CInv, ArenaOK, OpenOK, CallsOK, Ids, Accepted, Done
<1> QED BY <1>1, <1>2, <1>3, <1>4, <1>5, <1>6, <1>7, <1>8, <1>9 DEF CNext

(* The invariant holds for all documents, however deep the recursion goes. *)
THEOREM CompilerInductive == CSpec => []CInv
BY CInitInv, CNextInv, PTL DEF CSpec

(* alloc, in_progress and the activations: no node number, wherever it is  *)
(* kept, points outside the arena, in the graph of a recursive schema too. *)
THEOREM IdsInArenaCorrect == CSpec => []IdsInArena
BY CompilerInductive, CInvImplies, PTL

(* lower(), `self.nodes[id] = n`: a node that no activation is filling is  *)
(* never written again, so a number handed out through a cycle keeps its   *)
(* meaning.                                                                *)
LEMMA WrittenOnceStep ==
  ASSUME CInv, [CNext]_cvars
  PROVE  [\A id \in Ids : id \notin { f.id : f \in Range(frames) } => nodes'[id] = nodes[id]]_cvars
<1> SUFFICES ASSUME NEW id \in Ids, id \notin { f.id : f \in Range(frames) }
             PROVE  nodes'[id] = nodes[id]
  OBVIOUS
<1>1. IsSequence(nodes) BY DEF CInv, ArenaOK
<1>2. CASE \E node : nodes' = Append(nodes, node) BY <1>1, <1>2, AppendSequence DEF Ids
<1>3. CASE EndObject
  <2>1. Looping /\ nodes' = [nodes EXCEPT ![Top.id] = Top.node] BY <1>3 DEF EndObject
  <2>2. Top \in Range(frames) BY <2>1, LoopFacts DEF Range
  <2>3. Top.id # id BY <2>2
  <2>4. id \in DOMAIN nodes BY <1>1 DEF IsSequence, Ids
  <2> QED BY <2>1, <2>3, <2>4
<1>4. CASE nodes' = nodes BY <1>4
<1>5. ResolveRef => nodes' = nodes
  BY DEF ResolveRef, RefRemote, RefInProgress, RefDangling, RefFollow, Refuse
<1> QED
  BY <1>2, <1>3, <1>4, <1>5
  DEF CNext, cvars, ParseFails, LowerBoolean, NotASchema, LowerObject, Descend, TakeKeyword, Refuse

(* The same for every behaviour. *)
THEOREM NodesWrittenOnceCorrect == CSpec => NodesWrittenOnce
<1>1. CSpec => [][CNext]_cvars BY PTL DEF CSpec
<1> QED BY <1>1, CompilerInductive, WrittenOnceStep, PTL DEF NodesWrittenOnce

-----------------------------------------------------------------------------
(* The table of pointers being lowered.  That its entries are the          *)
(* activations on the stack is not inductive: two activations at one place *)
(* would share an entry.                                                   *)

Stack == 1..Len(frames)

OpenTable == Running /\ ~Reentered =>
  /\ DOMAIN in_progress = { frames[i].at : i \in Stack }
  /\ \A i \in Stack : in_progress[frames[i].at] = frames[i].id
  /\ \A i, j \in Stack : frames[i].at = frames[j].at => i = j

LEMMA OpenTableImplies == CInv /\ OpenTable => InProgressIsOpen
<1> SUFFICES ASSUME CInv, OpenTable PROVE InProgressIsOpen OBVIOUS
<1>1. DOMAIN frames = Stack BY DEF CInv, CallsOK, IsCallStack, IsSequence, Stack
<1> QED BY <1>1 DEF OpenTable, InProgressIsOpen, Range

(* What was entered while open stays entered. *)
LEMMA StillReentered ==
  ASSUME CInv, Reentered, origins' = origins \/ \E o : origins' = Append(origins, o)
  PROVE  Reentered'
<1>1. IsSequence(origins) BY DEF CInv, ArenaOK
<1>2. CASE origins' = origins BY <1>2 DEF Reentered
<1>3. ASSUME NEW o, origins' = Append(origins, o) PROVE Reentered'
  <2>1. PICK i \in 1..Len(origins) : origins[i].open BY <1>1 DEF Reentered, IsSequence
  <2>2. IsSequence(origins') /\ Len(origins') = Len(origins) + 1 /\ origins'[i] = origins[i]
    BY <1>1, <1>3, AppendSequence
  <2>3. i \in DOMAIN origins' BY <1>1, <2>2 DEF IsSequence
  <2> QED BY <2>1, <2>2, <2>3 DEF Reentered
<1> QED BY <1>2, <1>3

(* A node number handed to an activation leaves its place and its node.    *)
LEMMA ReturnKeepsPlaces ==
  ASSUME NEW st, NEW n \in Nat, IsCallStack(st, n), NEW id, Return(st, id), Running'
  PROVE  /\ st # <<>> /\ Len(frames') = Len(st)
         /\ \A i \in 1..Len(st) : frames'[i].at = st[i].at /\ frames'[i].id = st[i].id
<1> DEFINE f == Last(st)
           g == [f EXCEPT !.ids = Append(@, id)]
<1>1. st # <<>> BY DEF Return, Running
<1>2. IsSequence(st) /\ Len(st) \in 1..Len(st) /\ IsActivation(f, n) /\ f = st[Len(st)]
  BY <1>1, Popped DEF IsCallStack
<1>3. g.at = f.at /\ g.id = f.id BY <1>2 DEF IsActivation
<1>4. frames' = [st EXCEPT ![Len(st)] = g] BY <1>1, <1>2 DEF Return
<1> HIDE DEF f, g
<1>5. /\ Len(frames') = Len(st) /\ frames'[Len(st)] = g
      /\ \A i \in 1..Len(st) : i # Len(st) => frames'[i] = st[i]
  BY <1>2, <1>4, ExceptSequence
<1> QED BY <1>1, <1>2, <1>3, <1>5

(* Steps that leave the places of the activations as they are.             *)
LEMMA KeepsTable ==
  ASSUME CInv, OpenTable, in_progress' = in_progress,
         origins' = origins \/ \E o : origins' = Append(origins, o),
         Running' => Running /\ Len(frames') = Len(frames)
                     /\ \A i \in Stack : frames'[i].at = frames[i].at /\ frames'[i].id = frames[i].id
  PROVE  OpenTable'
<1> SUFFICES ASSUME Running', ~Reentered'
             PROVE  /\ DOMAIN in_progress = { frames'[i].at : i \in Stack' }
                    /\ \A i \in Stack' : in_progress[frames'[i].at] = frames'[i].id
                    /\ \A i, j \in Stack' : frames'[i].at = frames'[j].at => i = j
  BY DEF OpenTable
<1>1. Running /\ ~Reentered BY StillReentered
<1>2. Stack' = Stack BY DEF Stack
<1> QED BY <1>1, <1>2 DEF OpenTable

LEMMA TableRefuse ==
  ASSUME NEW kind, Refuse(kind)
  PROVE  OpenTable'
BY DEF Refuse, OpenTable, Running

LEMMA TableLowerBoolean ==
  ASSUME CInv, OpenTable, LowerBoolean
  PROVE  OpenTable'
<1>1. /\ origins' = Append(origins, Origin) /\ Return(frames, Len(nodes')) /\ in_progress' = in_progress
      /\ IsCallStack(frames, Len(nodes)) /\ Len(nodes) \in Nat
  BY DEF LowerBoolean, CInv, CallsOK, ArenaOK, IsSequence
<1>2. Running' => Running /\ Len(frames') = Len(frames)
                  /\ \A i \in Stack : frames'[i].at = frames[i].at /\ frames'[i].id = frames[i].id
  BY <1>1, ReturnKeepsPlaces DEF Stack, Running
<1> QED BY <1>1, <1>2, KeepsTable

LEMMA TableResolveRef ==
  ASSUME CInv, OpenTable, ResolveRef
  PROVE  OpenTable'
<1>1. PICK target \in Targets(call.value) :
        \/ RefRemote(target)
        \/ \E pointer \in { Tail(target) } :
             RefInProgress(pointer) \/ RefDangling(pointer) \/ RefFollow(pointer)
  BY DEF ResolveRef
<1>2. CASE RefRemote(target) BY <1>2, TableRefuse DEF RefRemote
<1>3. ASSUME NEW pointer, RefInProgress(pointer) PROVE OpenTable'
  <2>1. /\ Return(frames, in_progress[pointer]) /\ in_progress' = in_progress /\ origins' = origins
        /\ IsCallStack(frames, Len(nodes)) /\ Len(nodes) \in Nat
    BY <1>3 DEF RefInProgress, CInv, CallsOK, ArenaOK, IsSequence
  <2>2. Running' => Running /\ Len(frames') = Len(frames)
                    /\ \A i \in Stack : frames'[i].at = frames[i].at /\ frames'[i].id = frames[i].id
    BY <2>1, ReturnKeepsPlaces DEF Stack, Running
  <2> QED BY <2>1, <2>2, KeepsTable
<1>4. ASSUME NEW pointer, RefDangling(pointer) PROVE OpenTable'
  BY <1>4, TableRefuse DEF RefDangling
<1>5. ASSUME NEW pointer, RefFollow(pointer) PROVE OpenTable'
  <2>1. in_progress' = in_progress /\ origins' = origins /\ frames' = frames /\ Running
    BY <1>5 DEF RefFollow, ResolveRef, Lowering, Running
  <2> QED BY <2>1, KeepsTable
<1> QED BY <1>1, <1>2, <1>3, <1>4, <1>5

LEMMA TableLowerObject ==
  ASSUME CInv, OpenTable, LowerObject
  PROVE  OpenTable'
<1> SUFFICES ASSUME ~Reentered'
             PROVE  /\ DOMAIN in_progress' = { frames'[i].at : i \in Stack' }
                    /\ \A i \in Stack' : in_progress'[frames'[i].at] = frames'[i].id
                    /\ \A i, j \in Stack' : frames'[i].at = frames'[j].at => i = j
  BY DEF OpenTable
<1> DEFINE f == Frame(call, Len(nodes'))
           n == Len(frames)
<1>1. /\ origins' = Append(origins, Origin) /\ frames' = Append(frames, f) /\ Running
      /\ in_progress' = [at \in DOMAIN in_progress \cup {call.at} |->
                           IF at = call.at THEN Len(nodes') ELSE in_progress[at]]
  BY DEF LowerObject, Lowering, Running
<1>2. ~Reentered BY <1>1, StillReentered
<1>3. call.at \notin DOMAIN in_progress
  <2>1. IsSequence(origins) BY DEF CInv, ArenaOK
  <2>2. IsSequence(origins') /\ Len(origins') = Len(origins) + 1 /\ origins'[Len(origins) + 1] = Origin
    BY <1>1, <2>1, AppendSequence
  <2>3. Len(origins) + 1 \in DOMAIN origins' BY <2>1, <2>2 DEF IsSequence
  <2>4. ~Origin.open BY <2>2, <2>3 DEF Reentered
  <2> QED BY <2>4 DEF Origin
<1>4. IsSequence(frames) /\ n \in Nat BY DEF CInv, CallsOK, IsCallStack, IsSequence
<1>5. f.at = call.at /\ f.id = Len(nodes') BY DEF Frame
<1> HIDE DEF f
<1>6. Len(frames') = n + 1 /\ frames'[n + 1] = f /\ \A i \in 1..n : frames'[i] = frames[i]
  BY <1>1, <1>4, AppendSequence
<1>7. Stack' = Stack \cup {n + 1} /\ n + 1 \notin Stack /\ Stack = 1..n BY <1>4, <1>6 DEF Stack
<1>8. /\ DOMAIN in_progress = { frames[i].at : i \in Stack }
      /\ \A i \in Stack : in_progress[frames[i].at] = frames[i].id
      /\ \A i, j \in Stack : frames[i].at = frames[j].at => i = j
  BY <1>1, <1>2 DEF OpenTable
<1>9. \A i \in Stack : frames'[i].at = frames[i].at /\ frames'[i].id = frames[i].id
                      /\ frames[i].at # call.at
  BY <1>3, <1>6, <1>7, <1>8
<1>10. frames'[n + 1].at = call.at /\ frames'[n + 1].id = Len(nodes') BY <1>5, <1>6
<1>11. /\ DOMAIN in_progress' = DOMAIN in_progress \cup {call.at}
       /\ in_progress'[call.at] = Len(nodes')
       /\ \A at \in DOMAIN in_progress : at # call.at => in_progress'[at] = in_progress[at]
  BY <1>1
<1> DEFINE last == n + 1
<1>12. Stack' = Stack \cup {last} /\ frames'[last].at = call.at /\ frames'[last].id = Len(nodes')
  BY <1>7, <1>10
<1> HIDE DEF n, last
<1>13. DOMAIN in_progress' = { frames'[i].at : i \in Stack' }
  BY <1>8, <1>9, <1>11, <1>12
<1>14. \A i \in Stack' : in_progress'[frames'[i].at] = frames'[i].id
  BY <1>8, <1>9, <1>11, <1>12
<1>15. \A i, j \in Stack' : frames'[i].at = frames'[j].at => i = j
  BY <1>8, <1>9, <1>12
<1> QED BY <1>13, <1>14, <1>15

LEMMA TableDescend ==
  ASSUME CInv, OpenTable, Descend
  PROVE  OpenTable'
<1>1. in_progress' = in_progress /\ origins' = origins /\ frames' = frames /\ Running
  BY DEF Descend, Looping, Running
<1> QED BY <1>1, KeepsTable

LEMMA TableTakeKeyword ==
  ASSUME CInv, OpenTable, TakeKeyword
  PROVE  OpenTable'
<1> DEFINE content == Content(Top.node, Word(Key), Member, Top.ids)
           f == [Top EXCEPT !.node = Assign(@, Word(Key), content), !.member = @ + 1, !.ids = <<>>]
<1>1. /\ Looping /\ frames' = [frames EXCEPT ![Len(frames)] = f]
      /\ in_progress' = in_progress /\ origins' = origins /\ Running
  BY DEF TakeKeyword, Looping, Running
<1> HIDE DEF content
<1>2. IsActivation(Top, Len(nodes)) /\ Top = frames[Len(frames)] /\ IsSequence(frames)
      /\ Len(frames) \in 1..Len(frames)
  BY <1>1, LoopFacts, Popped DEF IsCallStack
<1>3. f.at = Top.at /\ f.id = Top.id BY <1>2 DEF IsActivation
<1> HIDE DEF f
<1>4. /\ Len(frames') = Len(frames) /\ frames'[Len(frames)] = f
      /\ \A i \in 1..Len(frames) : i # Len(frames) => frames'[i] = frames[i]
  BY <1>1, <1>2, ExceptSequence
<1>5. \A i \in Stack : frames'[i].at = frames[i].at /\ frames'[i].id = frames[i].id
  BY <1>2, <1>3, <1>4 DEF Stack
<1> QED BY <1>1, <1>4, <1>5, KeepsTable

LEMMA TableEndObject ==
  ASSUME CInv, OpenTable, EndObject
  PROVE  OpenTable'
<1> SUFFICES ASSUME Running', ~Reentered'
             PROVE  /\ DOMAIN in_progress' = { frames'[i].at : i \in Stack' }
                    /\ \A i \in Stack' : in_progress'[frames'[i].at] = frames'[i].id
                    /\ \A i, j \in Stack' : frames'[i].at = frames'[j].at => i = j
  BY DEF OpenTable
<1> DEFINE n == Len(frames)
<1>1. /\ Looping /\ Running /\ Return(Front(frames), Top.id) /\ origins' = origins
      /\ in_progress' = [at \in DOMAIN in_progress \ {Top.at} |-> in_progress[at]]
  BY DEF EndObject, Looping, Running
<1>2. ~Reentered BY <1>1, StillReentered
<1>3. /\ IsSequence(frames) /\ n \in Nat \ {0} /\ Len(Front(frames)) = n - 1
      /\ \A i \in 1..(n - 1) : Front(frames)[i] = frames[i]
      /\ Top = frames[n] /\ IsCallStack(Front(frames), Len(nodes)) /\ Len(nodes) \in Nat
  BY <1>1, LoopFacts, FrontSequence DEF IsCallStack
<1>4. /\ Len(frames') = n - 1
      /\ \A i \in 1..(n - 1) : frames'[i].at = frames[i].at /\ frames'[i].id = frames[i].id
  BY <1>1, <1>3, ReturnKeepsPlaces
<1>5. Stack = Stack' \cup {n} /\ n \notin Stack' /\ Stack' = 1..(n - 1) BY <1>3, <1>4 DEF Stack
<1>6. /\ DOMAIN in_progress = { frames[i].at : i \in Stack }
      /\ \A i \in Stack : in_progress[frames[i].at] = frames[i].id
      /\ \A i, j \in Stack : frames[i].at = frames[j].at => i = j
  BY <1>1, <1>2 DEF OpenTable
<1>7. \A i \in Stack' : /\ i \in Stack /\ frames[i].at # frames[n].at
                        /\ frames'[i].at = frames[i].at /\ frames'[i].id = frames[i].id
  BY <1>4, <1>5, <1>6
<1> HIDE DEF n
<1>8. DOMAIN in_progress' = { frames'[i].at : i \in Stack' }
  BY <1>1, <1>3, <1>5, <1>6, <1>7
<1>9. \A i \in Stack' : in_progress'[frames'[i].at] = frames'[i].id
  BY <1>1, <1>3, <1>5, <1>6, <1>7
<1>10. \A i, j \in Stack' : frames'[i].at = frames'[j].at => i = j
  BY <1>6, <1>7
<1> QED BY <1>8, <1>9, <1>10

LEMMA TableInit == CInit => OpenTable
<1> SUFFICES ASSUME CInit PROVE OpenTable OBVIOUS
<1>1. frames = <<>> /\ DOMAIN in_progress = {} BY DEF CInit
<1>2. Stack = {} BY <1>1, EmptySequence DEF Stack
<1> QED BY <1>1, <1>2 DEF OpenTable

LEMMA TableStep == CInv /\ OpenTable /\ [CNext]_cvars => OpenTable'
<1> SUFFICES ASSUME CInv, OpenTable, [CNext]_cvars PROVE OpenTable' OBVIOUS
<1>1. CASE ParseFails BY <1>1, TableRefuse DEF ParseFails
<1>2. CASE LowerBoolean BY <1>2, TableLowerBoolean
<1>3. CASE NotASchema BY <1>3, TableRefuse DEF NotASchema
<1>4. CASE ResolveRef BY <1>4, TableResolveRef
<1>5. CASE LowerObject BY <1>5, TableLowerObject
<1>6. CASE Descend BY <1>6, TableDescend
<1>7. CASE TakeKeyword BY <1>7, TableTakeKeyword
<1>8. CASE EndObject BY <1>8, TableEndObject
<1>9. CASE UNCHANGED cvars BY <1>9 DEF cvars, OpenTable, Stack, Running, Reentered
<1> QED BY <1>1, <1>2, <1>3, <1>4, <1>5, <1>6, <1>7, <1>8, <1>9 DEF CNext

(* in_progress in compile.rs, "Pointers already being lowered": exactly    *)
(* those of the activations on the stack, as long as no place is entered   *)
(* while it is open.                                                       *)
THEOREM InProgressIsOpenCorrect == CSpec => []InProgressIsOpen
BY CompilerInductive, TableInit, TableStep, OpenTableImplies, PTL DEF CSpec

WithinStep(f, d, k) == IF k = 0 THEN {d} ELSE UNION { {v} \cup ChildValues(v) : v \in f[k - 1] }

(* The values within a document, by the equation of Within. *)
LEMMA WithinExists ==
  ASSUME NEW d
  PROVE  \E f : f = [k \in 0..MaxNesting |-> WithinStep(f, d, k)]
<1> DEFINE Good(f, n) == \A k \in 0..n : f[k] = WithinStep(f, d, k)
           bad == { n \in 0..MaxNesting : ~\E f : Good(f, n) }
<1>0. MaxNesting \in Nat BY CompilerAssumption
<1>1. bad = {}
  <2>1. SUFFICES ASSUME bad # {} PROVE FALSE OBVIOUS
  <2>2. PICK n \in bad : \A m \in bad : n <= m
    <3> HIDE DEF bad
    <3>1. bad \subseteq Nat BY <1>0 DEF bad
    <3> QED BY <2>1, <3>1, LeastNumber
  <2>3. n \in 0..MaxNesting /\ \A m \in 0..MaxNesting : m < n => \E f : Good(f, m) BY <2>2
  <2>4. \E f : Good(f, n)
    <3>1. CASE n = 0
      <4> DEFINE none == [k \in {} |-> k]
                 base == [k \in 0..0 |-> WithinStep(none, d, 0)]
      <4>1. WithinStep(base, d, 0) = WithinStep(none, d, 0) BY Zenon DEF WithinStep
      <4>2. base[0] = WithinStep(none, d, 0) OBVIOUS
      <4> HIDE DEF base, none
      <4>3. Good(base, 0) BY <4>1, <4>2
      <4> QED BY <3>1, <4>3
    <3>2. CASE n # 0
      <4>1. n - 1 \in 0..MaxNesting /\ n - 1 < n BY <1>0, <2>3, <3>2
      <4>2. PICK f : Good(f, n - 1) BY <2>3, <4>1
      <4> DEFINE g == [k \in 0..n |-> IF k = n THEN WithinStep(f, d, n) ELSE f[k]]
      <4>3. \A k \in 0..n : k # n => k \in 0..(n - 1) /\ g[k] = f[k] BY <2>3
      <4>4. ASSUME NEW k \in 0..n PROVE WithinStep(g, d, k) = WithinStep(f, d, k)
        <5>1. k # 0 => k - 1 \in 0..n /\ k - 1 # n BY <2>3
        <5>2. k # 0 => g[k - 1] = f[k - 1] BY <4>3, <5>1
        <5> HIDE DEF g
        <5> QED BY <5>2 DEF WithinStep
      <4>5. Good(g, n)
        <5> SUFFICES ASSUME NEW k \in 0..n PROVE g[k] = WithinStep(f, d, k) BY <4>4
        <5>1. CASE k = n BY <5>1
        <5>2. CASE k # n BY <4>2, <4>3, <5>2
        <5> QED BY <5>1, <5>2
      <4> HIDE DEF g, Good
      <4> QED BY <4>5
    <3> QED BY <3>1, <3>2
  <2> QED BY <2>2, <2>4
<1>2. PICK f : Good(f, MaxNesting)
  <2>1. MaxNesting \in 0..MaxNesting BY <1>0
  <2> QED BY <1>1, <2>1
<1> DEFINE g == [k \in 0..MaxNesting |-> f[k]]
<1>3. ASSUME NEW k \in 0..MaxNesting PROVE g[k] = WithinStep(g, d, k)
  <2>1. k # 0 => k - 1 \in 0..MaxNesting BY <1>0
  <2>2. g[k] = f[k] /\ (k # 0 => g[k - 1] = f[k - 1]) BY <2>1
  <2> HIDE DEF g
  <2> QED BY <1>2, <2>2 DEF WithinStep
<1>4. g = [k \in 0..MaxNesting |-> g[k]] OBVIOUS
<1> HIDE DEF g
<1>5. g = [k \in 0..MaxNesting |-> WithinStep(g, d, k)] BY <1>3, <1>4
<1> QED BY <1>5

LEMMA WithinIs ==
  ASSUME NEW d
  PROVE  \E f : Within(d) = f[MaxNesting] /\ \A k \in 0..MaxNesting : f[k] = WithinStep(f, d, k)
<1> DEFINE F(f) == f = [k \in 0..MaxNesting |-> WithinStep(f, d, k)]
           g == CHOOSE f : F(f)
<1>1. PICK h : F(h) BY WithinExists
<1>2. F(g)
  <2> HIDE DEF F
  <2> QED BY <1>1
<1>3. Within(d) = g[MaxNesting] BY Zenon DEF Within, WithinStep
<1>4. ASSUME NEW k \in 0..MaxNesting PROVE g[k] = WithinStep(g, d, k)
  <2> HIDE DEF g
  <2> QED BY <1>2
<1> HIDE DEF g, F
<1> QED BY <1>3, <1>4

(* A document is within itself, and what it holds is shaped as the parser  *)
(* makes it.                                                               *)
LEMMA WithinRoot == ASSUME NEW d PROVE d \in Within(d)
<1>1. PICK f : Within(d) = f[MaxNesting] /\ \A k \in 0..MaxNesting : f[k] = WithinStep(f, d, k)
  BY WithinIs
<1> DEFINE bad == { k \in 0..MaxNesting : d \notin f[k] }
<1>0. MaxNesting \in Nat BY CompilerAssumption
<1>2. bad = {}
  <2>1. SUFFICES ASSUME bad # {} PROVE FALSE OBVIOUS
  <2>2. PICK k \in bad : \A j \in bad : k <= j
    <3> HIDE DEF bad
    <3>1. bad \subseteq Nat BY <1>0 DEF bad
    <3> QED BY <2>1, <3>1, LeastNumber
  <2>3. k \in 0..MaxNesting /\ d \notin f[k] /\ \A j \in 0..MaxNesting : j < k => d \in f[j] BY <2>2
  <2>4. f[k] = WithinStep(f, d, k) BY <1>1, <2>3
  <2>5. k # 0 => k - 1 \in 0..MaxNesting /\ k - 1 < k BY <1>0, <2>3
  <2>6. k # 0 => d \in f[k - 1] BY <2>3, <2>5
  <2> QED BY <2>3, <2>4, <2>6 DEF WithinStep
<1> QED BY <1>0, <1>1, <1>2

Documented == doc \in Documents

LEMMA WithinShape ==
  ASSUME Documented, NEW v \in Within(doc)
  PROVE  v # None /\ Shaped(v) /\ ChildValues(v) \subseteq Within(doc)
BY DocumentsAssumption DEF Documented

LEMMA MembersShape ==
  ASSUME Documented, NEW v \in Within(doc), v.type \in {"Object", "Array"}
  PROVE  /\ IsSequence(v.data) /\ DOMAIN v.data = 1..Len(v.data) /\ Len(v.data) \in Nat
         /\ \A i \in 1..Len(v.data) : IsSequence(v.data[i].token) /\ v.data[i].value \in Within(doc)
<1>1. Shaped(v) /\ ChildValues(v) \subseteq Within(doc) BY WithinShape
<1>2. IsSequence(v.data) BY <1>1 DEF Shaped
<1>3. DOMAIN v.data = 1..Len(v.data) /\ Len(v.data) \in Nat BY <1>2 DEF IsSequence
<1> QED BY <1>1, <1>2, <1>3 DEF Shaped, ChildValues

-----------------------------------------------------------------------------
(* A lookup finds a child or nothing. *)

LEMMA ChildWithin ==
  ASSUME Documented, NEW v \in Within(doc) \cup {None}, NEW t
  PROVE  Child(v, t) \in Within(doc) \cup {None}
<1>1. CASE v = None BY <1>1 DEF Child
<1>2. CASE v \in Within(doc)
  <2>1. CASE v.type = "Object"
    <3> DEFINE I == { i \in 1..Len(v.data) : v.data[i].token = t }
    <3>1. ChildIndex(v, t) = IF I # {} THEN Min(I) ELSE 0
      BY <2>1 DEF ChildIndex, SelectInSeq
    <3>2. CASE I = {} BY <3>1, <3>2 DEF Child
    <3>3. CASE I # {}
      <4>1. I \subseteq Nat OBVIOUS
      <4>2. PICK n \in I : \A m \in I : n <= m
        <5> HIDE DEF I
        <5> QED BY <3>3, <4>1, LeastNumber
      <4>3. Min(I) \in I
        <5> HIDE DEF I
        <5> QED BY <4>2 DEF Min
      <4>4. ChildIndex(v, t) \in 1..Len(v.data) BY <3>1, <3>3, <4>3
      <4> QED BY <1>2, <2>1, <4>4, MembersShape DEF Child
    <3> QED BY <3>2, <3>3
  <2>2. CASE v.type = "Array"
    <3>1. ChildIndex(v, t) \in 1..Len(v.data) \/ ChildIndex(v, t) = 0 BY <2>2 DEF ChildIndex
    <3> QED BY <1>2, <2>2, <3>1, MembersShape DEF Child
  <2>3. CASE v.type \notin {"Object", "Array"}
    <3>1. ChildIndex(v, t) = 0 BY <2>3 DEF ChildIndex
    <3> QED BY <3>1 DEF Child
  <2> QED BY <2>1, <2>2, <2>3
<1> QED BY <1>1, <1>2

LEMMA ValueWithin ==
  ASSUME Documented, NEW path, IsSequence(path)
  PROVE  ValueIn(doc, path) \in Within(doc) \cup {None}
<1>1. PICK f : ValueIn(doc, path) = f[Len(path)] /\ \A k \in 0..Len(path) : f[k] = LedTo(doc, path, f, k)
  BY PathValue
<1> DEFINE S == Within(doc) \cup {None}
           bad == { k \in 0..Len(path) : f[k] \notin S }
<1>0. Len(path) \in Nat BY DEF IsSequence
<1>2. bad = {}
  <2>1. SUFFICES ASSUME bad # {} PROVE FALSE OBVIOUS
  <2>2. PICK k \in bad : \A j \in bad : k <= j
    <3> HIDE DEF bad
    <3>1. bad \subseteq Nat BY <1>0 DEF bad
    <3> QED BY <2>1, <3>1, LeastNumber
  <2>3. k \in 0..Len(path) /\ f[k] \notin S /\ \A j \in 0..Len(path) : j < k => f[j] \in S BY <2>2
  <2>4. f[k] = LedTo(doc, path, f, k) BY <1>1, <2>3
  <2>5. CASE k = 0 BY <2>3, <2>4, <2>5, WithinRoot DEF LedTo
  <2>6. CASE k # 0
    <3>1. k - 1 \in 0..Len(path) /\ k - 1 < k BY <1>0, <2>3, <2>6
    <3>2. f[k - 1] \in Within(doc) \cup {None} BY <2>3, <3>1
    <3>3. f[k] = Child(f[k - 1], path[k]) BY <2>4, <2>6 DEF LedTo
    <3> QED BY <2>3, <3>2, <3>3, ChildWithin
  <2> QED BY <2>5, <2>6
<1> QED BY <1>0, <1>1, <1>2

LEMMA TargetWithin ==
  ASSUME Documented, NEW text, IsSequence(text)
  PROVE  PointerInto(doc, text) \in Within(doc) \cup {None}
<1>1. CASE text = <<>> BY <1>1, WithinRoot DEF PointerInto
<1>2. CASE text # <<>>
  <2> DEFINE T(t) == Tokens(t)
             s == Trimmed(text)
  <2>1. PointerInto(doc, text) = ValueIn(doc, CHOOSE y \in { T(t) : t \in {s} } : TRUE)
    BY <1>2, Zenon DEF PointerInto, Once
  <2>2. (CHOOSE y \in { T(t) : t \in {s} } : TRUE) = T(s)
    <3> HIDE DEF T, s
    <3> QED OBVIOUS
  <2>3. IsSequence(T(s)) BY TrimmedSequence, TokensAre
  <2> HIDE DEF T, s
  <2> QED BY <2>1, <2>2, <2>3, ValueWithin
<1> QED BY <1>1, <1>2

(* What a $ref holds is a text; a local one begins with `#`. *)
LEMMA TargetsShape ==
  ASSUME Documented, NEW v \in Within(doc), NEW t \in Targets(v)
  PROVE  /\ v.type = "Object" /\ Child(v, <<"$ref">>) # None /\ Child(v, <<"$ref">>).data = t
         /\ IsSequence(t) /\ (IsLocal(t) => t # <<>> /\ t[1] = "#" /\ IsSequence(Tail(t)))
<1> DEFINE r == Child(v, <<"$ref">>)
<1>1. v.type = "Object" /\ r # None /\ r.type = "String" /\ r.data = t BY DEF Targets
<1>2. r \in Within(doc) BY <1>1, ChildWithin
<1>3. IsSequence(t) BY <1>1, <1>2, WithinShape DEF Shaped
<1>4. ASSUME IsLocal(t) PROVE t # <<>> /\ t[1] = "#"
  <2>1. << "#" >> \in Seq({"#"}) OBVIOUS
  <2>2. IsSequence(<< "#" >>) /\ Len(<< "#" >>) = 1 /\ << "#" >>[1] = "#" BY <2>1, SeqIsSequence
  <2>3. Len(<< "#" >>) <= Len(t) /\ \A i \in 1..Len(<< "#" >>) : << "#" >>[i] = t[i]
    BY <1>3, <1>4, <2>2, PrefixElements DEF IsLocal
  <2>4. 1 <= Len(t) /\ t[1] = "#" BY <2>2, <2>3
  <2>5. Len(<<>>) = 0 BY EmptySequence
  <2> QED BY <2>4, <2>5
<1> QED BY <1>1, <1>3, <1>4, TailSequence

-----------------------------------------------------------------------------
(* How the stack changes. *)

(* The same activation, with other subschemas lowered. *)
Same(g, f) ==
  /\ g.value = f.value /\ g.at = f.at /\ g.depth = f.depth /\ g.id = f.id
  /\ g.member = f.member /\ g.node = f.node

LEMMA ReturnStep ==
  ASSUME NEW st, NEW n \in Nat, IsCallStack(st, n), NEW id, Return(st, id)
  PROVE  /\ call' = None /\ IsSequence(st) /\ Len(st) \in Nat
         /\ st = <<>> => frames' = <<>> /\ Len(frames') = 0 /\ result' = Ok(id)
         /\ st # <<>> => /\ result' = result /\ Len(st) > 0 /\ Len(frames') = Len(st)
                         /\ \A i \in 1..Len(st) : i # Len(st) => frames'[i] = st[i]
                         /\ Same(frames'[Len(st)], st[Len(st)])
                         /\ frames'[Len(st)].ids = Append(st[Len(st)].ids, id)
<1>1. IsSequence(st) /\ Len(st) \in Nat BY DEF IsCallStack, IsSequence
<1>2. CASE st = <<>> BY <1>1, <1>2, EmptySequence DEF Return
<1>3. CASE st # <<>>
  <2> DEFINE f == Last(st)
             g == [f EXCEPT !.ids = Append(@, id)]
  <2>1. IsSequence(st) /\ Len(st) \in 1..Len(st) /\ IsActivation(f, n) /\ f = st[Len(st)]
    BY <1>3, Popped DEF IsCallStack
  <2>2. Same(g, f) /\ g.ids = Append(f.ids, id) BY <2>1 DEF IsActivation, Same
  <2>3. frames' = [st EXCEPT ![Len(st)] = g] /\ result' = result /\ call' = None
    BY <1>3, <2>1 DEF Return
  <2> HIDE DEF f, g
  <2>4. /\ Len(frames') = Len(st) /\ frames'[Len(st)] = g
        /\ \A i \in 1..Len(st) : i # Len(st) => frames'[i] = st[i]
    BY <2>1, <2>3, ExceptSequence
  <2> QED BY <1>1, <1>3, <2>1, <2>2, <2>3, <2>4
<1> QED BY <1>2, <1>3

(* An activation that has just begun. *)
IsFresh(f, id) ==
  /\ f.value = call.value /\ f.at = call.at /\ f.depth = call.depth
  /\ f.id = id /\ f.member = 1 /\ f.ids = <<>> /\ f.node = << >>

LEMMA PushStep ==
  ASSUME CInv, LowerObject
  PROVE  /\ Len(frames') = Len(frames) + 1 /\ Len(frames) \in Nat
         /\ \A i \in 1..Len(frames) : frames'[i] = frames[i]
         /\ IsFresh(frames'[Len(frames) + 1], Len(nodes) + 1)
<1> DEFINE f == Frame(call, Len(nodes'))
<1>1. IsSequence(frames) /\ Len(frames) \in Nat BY DEF CInv, CallsOK, IsCallStack, IsSequence
<1>2. frames' = Append(frames, f) /\ nodes' = Append(nodes, << >>) BY DEF LowerObject
<1>3. Len(nodes') = Len(nodes) + 1 BY <1>2, AppendSequence DEF CInv, ArenaOK
<1>4. IsFresh(f, Len(nodes')) BY DEF Frame, IsFresh
<1> HIDE DEF f
<1>5. /\ Len(frames') = Len(frames) + 1 /\ frames'[Len(frames) + 1] = f
      /\ \A i \in 1..Len(frames) : frames'[i] = frames[i]
  BY <1>1, <1>2, AppendSequence
<1> QED BY <1>1, <1>3, <1>4, <1>5

Said == Content(Top.node, Word(Key), Member, Top.ids)

(* The innermost activation, one keyword further. *)
IsTaken(f) ==
  /\ f.value = Top.value /\ f.at = Top.at /\ f.depth = Top.depth /\ f.id = Top.id
  /\ f.member = Top.member + 1 /\ f.ids = <<>> /\ f.node = Assign(Top.node, Word(Key), Said)

LEMMA TakeStep ==
  ASSUME CInv, TakeKeyword
  PROVE  /\ Len(frames') = Len(frames) /\ Len(frames) \in Nat /\ Len(frames) > 0
         /\ \A i \in 1..Len(frames) : i # Len(frames) => frames'[i] = frames[i]
         /\ IsTaken(frames'[Len(frames)])
<1> DEFINE node == Assign(Top.node, Word(Key), Said)
           f == [Top EXCEPT !.node = Assign(@, Word(Key), Said), !.member = @ + 1, !.ids = <<>>]
<1>1. Looping /\ frames' = [frames EXCEPT ![Len(frames)] = f] BY DEF TakeKeyword, Said
<1>2. IsActivation(Top, Len(nodes)) /\ IsSequence(frames) /\ Len(frames) \in 1..Len(frames)
      /\ Len(frames) \in Nat
  BY <1>1, LoopFacts, Popped DEF IsCallStack, IsSequence
<1>3. IsTaken(f)
  <2>1. /\ f.value = Top.value /\ f.at = Top.at /\ f.depth = Top.depth /\ f.id = Top.id
        /\ f.member = Top.member + 1 /\ f.ids = <<>> /\ f.node = node
    BY <1>2 DEF IsActivation
  <2> HIDE DEF f
  <2> QED BY <2>1 DEF IsTaken
<1> HIDE DEF f
<1>4. /\ Len(frames') = Len(frames) /\ frames'[Len(frames)] = f
      /\ \A i \in 1..Len(frames) : i # Len(frames) => frames'[i] = frames[i]
  BY <1>1, <1>2, ExceptSequence
<1> QED BY <1>2, <1>3, <1>4

LEMMA PopStep ==
  ASSUME CInv, EndObject, NEW n, n = Len(frames)
  PROVE  /\ n \in Nat /\ n > 0 /\ call' = None /\ Top = frames[n]
         /\ n = 1 => frames' = <<>> /\ Len(frames') = 0 /\ result' = Ok(Top.id)
         /\ n > 1 => /\ result' = result /\ Len(frames') = n - 1
                     /\ \A i \in 1..(n - 1) : i # n - 1 => frames'[i] = frames[i]
                     /\ Same(frames'[n - 1], frames[n - 1])
                     /\ frames'[n - 1].ids = Append(frames[n - 1].ids, Top.id)
<1> DEFINE st == Front(frames)
<1>1. Looping /\ Return(st, Top.id) BY DEF EndObject
<1>2. /\ IsSequence(frames) /\ n \in Nat \ {0} /\ Len(st) = n - 1 /\ IsSequence(st)
      /\ \A i \in 1..(n - 1) : st[i] = frames[i]
      /\ Top = frames[n] /\ IsCallStack(st, Len(nodes)) /\ Len(nodes) \in Nat
  BY <1>1, LoopFacts, FrontSequence DEF IsCallStack
<1> HIDE DEF st
<1>3. /\ call' = None
      /\ st = <<>> => frames' = <<>> /\ Len(frames') = 0 /\ result' = Ok(Top.id)
      /\ st # <<>> => /\ result' = result /\ Len(frames') = Len(st)
                      /\ \A i \in 1..Len(st) : i # Len(st) => frames'[i] = st[i]
                      /\ Same(frames'[Len(st)], st[Len(st)])
                      /\ frames'[Len(st)].ids = Append(st[Len(st)].ids, Top.id)
  BY <1>1, <1>2, ReturnStep
<1>4. (st = <<>>) <=> (n = 1) BY <1>2, NonEmptySequence
<1>5. CASE n = 1 BY <1>2, <1>3, <1>4, <1>5
<1>6. CASE n > 1
  <2>1. Len(st) = n - 1 /\ n - 1 \in 1..(n - 1) /\ st[n - 1] = frames[n - 1] BY <1>2, <1>6
  <2> QED BY <1>2, <1>3, <1>4, <1>6, <2>1
<1> QED BY <1>2, <1>5, <1>6

-----------------------------------------------------------------------------
(* Every value that is met is one of the document's. *)

IsOrigin(o) ==
  /\ o.value \in Within(doc) /\ o.value.type \in {"Bool", "Object"} /\ Targets(o.value) = {}
  /\ IsSequence(o.at)

IsBody(f, os) ==
  /\ f.value \in Within(doc) /\ f.value.type = "Object" /\ Targets(f.value) = {} /\ IsSequence(f.at)
  /\ f.member \in 1..(Len(f.value.data) + 1)
  /\ os[f.id].value = f.value /\ os[f.id].at = f.at

CallShape    == call # None => call.value \in Within(doc) /\ IsSequence(call.at)
BodiesShape  == \A i \in 1..Len(frames) : IsBody(frames[i], origins)
OriginsShape == \A i \in 1..Len(origins) : IsOrigin(origins[i])

Shape == Documented /\ CallShape /\ BodiesShape /\ OriginsShape

LEMMA ShapeImplies == CInv /\ Shape => CTypeOK
<1> SUFFICES ASSUME CInv, Shape PROVE CTypeOK OBVIOUS
<1>1. DOMAIN frames = 1..Len(frames) BY DEF CInv, CallsOK, IsCallStack, IsSequence
<1>2. \A f \in Range(frames) : f.member \in 1..(Len(f.value.data) + 1)
  BY <1>1 DEF Shape, BodiesShape, IsBody, Range
<1> QED BY <1>2, CInvImplies DEF CTypeOK

(* An activation moved on, or with more nodes made. *)
LEMMA SameBody ==
  ASSUME CInv, NEW i \in 1..Len(frames), IsBody(frames[i], origins), NEW g, Same(g, frames[i]),
         NEW os, os = origins \/ \E o : os = Append(origins, o)
  PROVE  IsBody(g, os)
<1>1. frames[i].id \in 1..Len(origins) /\ IsSequence(origins)
  BY DEF CInv, CallsOK, ArenaOK, IsCallStack, IsActivation
<1>2. os[frames[i].id] = origins[frames[i].id] BY <1>1, AppendSequence
<1> QED BY <1>2 DEF IsBody, Same

LEMMA OriginsGrow ==
  ASSUME CInv, OriginsShape, NEW o, IsOrigin(o), origins' = Append(origins, o), doc' = doc
  PROVE  OriginsShape'
<1>1. IsSequence(origins) /\ Len(origins) \in Nat BY DEF CInv, ArenaOK, IsSequence
<1>2. /\ Len(origins') = Len(origins) + 1 /\ origins'[Len(origins) + 1] = o
      /\ \A i \in 1..Len(origins) : origins'[i] = origins[i]
  BY <1>1, AppendSequence
<1>3. ASSUME NEW i \in 1..Len(origins') PROVE IsOrigin(origins'[i])
  <2>1. CASE i = Len(origins) + 1 BY <1>2, <2>1
  <2>2. CASE i # Len(origins) + 1 BY <1>1, <1>2, <2>2 DEF OriginsShape
  <2> QED BY <2>1, <2>2
<1> QED BY <1>3 DEF OriginsShape, IsOrigin

(* What a keyword holds, and where. *)
LEMMA SubschemasShape ==
  ASSUME Documented, NEW word, NEW v \in Within(doc)
  PROVE  /\ IsSequence(Subschemas(word, v)) /\ Len(Subschemas(word, v)) \in Nat
         /\ \A i \in 1..Len(Subschemas(word, v)) :
              Subschemas(word, v)[i].value \in Within(doc) /\ IsSequence(Subschemas(word, v)[i].at)
<1> DEFINE each == [i \in DOMAIN v.data |-> [at |-> <<"slash">> \o v.data[i].token, value |-> v.data[i].value]]
           itself == [at |-> <<>>, value |-> v]
           many == (word = "properties" /\ v.type = "Object") \/ (word \in Lists /\ v.type = "Array")
<1>1. CASE many
  <2>1. Subschemas(word, v) = each BY <1>1 DEF Subschemas, Lists
  <2>2. /\ DOMAIN v.data = 1..Len(v.data) /\ Len(v.data) \in Nat
        /\ \A i \in 1..Len(v.data) : IsSequence(v.data[i].token) /\ v.data[i].value \in Within(doc)
    BY <1>1, MembersShape
  <2>3. IsSequence(each) /\ Len(each) = Len(v.data) BY <2>2 DEF IsSequence
  <2>4. \A i \in 1..Len(v.data) : IsSequence(<<"slash">> \o v.data[i].token)
    BY <2>2, SingletonSequence, ConcatSequence
  <2> QED BY <2>1, <2>2, <2>3, <2>4
<1>2. CASE ~many /\ (word \in {"items", "not"} \/ (word = "additionalProperties" /\ v.type # "Bool"))
  <2>1. Subschemas(word, v) = << itself >> BY <1>2 DEF Subschemas
  <2>2. itself.value = v /\ itself.at = <<>> OBVIOUS
  <2> HIDE DEF itself
  <2> QED BY <2>1, <2>2, SingletonSequence, EmptySequence
<1>3. CASE ~many /\ ~(word \in {"items", "not"} \/ (word = "additionalProperties" /\ v.type # "Bool"))
  <2>1. Subschemas(word, v) = <<>> BY <1>3 DEF Subschemas
  <2> QED BY <2>1, EmptySequence
<1> QED BY <1>1, <1>2, <1>3

LEMMA TopShape ==
  ASSUME CInv, Shape, Looping
  PROVE  /\ IsBody(Top, origins) /\ IsSequence(Top.value.data) /\ Len(Top.value.data) \in Nat
         /\ More => /\ Top.member \in 1..Len(Top.value.data)
                    /\ IsSequence(Key) /\ Member \in Within(doc) /\ IsSequence(Location)
<1>1. Top = frames[Len(frames)] /\ Len(frames) \in 1..Len(frames)
  BY LoopFacts, Popped
<1>2. IsBody(Top, origins) BY <1>1 DEF Shape, BodiesShape
<1>3. /\ IsSequence(Top.value.data) /\ Len(Top.value.data) \in Nat
      /\ \A i \in 1..Len(Top.value.data) :
           IsSequence(Top.value.data[i].token) /\ Top.value.data[i].value \in Within(doc)
  BY <1>2, MembersShape DEF IsBody, Shape
<1>4. ASSUME More PROVE Top.member \in 1..Len(Top.value.data) BY <1>2, <1>3, <1>4 DEF More, IsBody
<1>5. ASSUME More PROVE IsSequence(Key) /\ Member \in Within(doc) BY <1>3, <1>4, <1>5 DEF Key, Member
<1>6. ASSUME More PROVE IsSequence(Location)
  <2>1. IsSequence(Top.at) BY <1>2 DEF IsBody
  <2>2. IsSequence(Top.at \o <<"slash">>) BY <2>1, SingletonSequence, ConcatSequence
  <2> QED BY <1>5, <1>6, <2>2, ConcatSequence DEF Location
<1> QED BY <1>2, <1>3, <1>4, <1>5, <1>6

(* The actions keep the shape. *)

LEMMA ShapeRefuse ==
  ASSUME CInv, Shape, NEW kind, Refuse(kind)
  PROVE  Shape'
<1>1. call' = None /\ frames' = <<>> /\ doc' = doc /\ origins' = origins BY DEF Refuse
<1>2. Len(frames') = 0 BY <1>1, EmptySequence
<1>3. Documented' /\ CallShape' BY <1>1 DEF Shape, Documented, CallShape
<1>4. BodiesShape' BY <1>2 DEF BodiesShape
<1>5. OriginsShape' BY <1>1 DEF Shape, OriginsShape, IsOrigin
<1> QED BY <1>3, <1>4, <1>5 DEF Shape

(* A value returned to the caller; `st` is the stack without the callee. *)
LEMMA ShapeReturn ==
  ASSUME CInv, Shape, NEW st, NEW n \in Nat, IsCallStack(st, n), NEW id, Return(st, id), doc' = doc,
         origins' = origins \/ \E o : origins' = Append(origins, o),
         Len(st) <= Len(frames), \A i \in 1..Len(st) : st[i] = frames[i]
  PROVE  BodiesShape' /\ CallShape' /\ Documented'
<1>1. /\ call' = None /\ Len(st) \in Nat
      /\ st = <<>> => Len(frames') = 0
      /\ st # <<>> => /\ Len(st) > 0 /\ Len(frames') = Len(st)
                      /\ \A i \in 1..Len(st) : i # Len(st) => frames'[i] = st[i]
                      /\ Same(frames'[Len(st)], st[Len(st)])
  BY ReturnStep
<1>2. CallShape' /\ Documented' BY <1>1 DEF CallShape, Shape, Documented
<1>3. ASSUME NEW i \in 1..Len(frames') PROVE IsBody(frames'[i], origins')
  <2>1. i \in 1..Len(st) /\ i \in 1..Len(frames)
    <3>1. st # <<>> BY <1>1, <1>3
    <3>2. Len(frames) \in Nat BY DEF CInv, CallsOK, IsCallStack, IsSequence
    <3> QED BY <1>1, <1>3, <3>1, <3>2
  <2>2. Same(frames'[i], frames[i])
    <3>1. CASE i = Len(st) BY <1>1, <2>1, <3>1
    <3>2. CASE i # Len(st) BY <1>1, <2>1, <3>2 DEF Same
    <3> QED BY <3>1, <3>2
  <2>3. IsBody(frames[i], origins) BY <2>1 DEF Shape, BodiesShape
  <2> QED BY <2>1, <2>2, <2>3, SameBody
<1> QED BY <1>2, <1>3 DEF BodiesShape, IsBody

LEMMA ShapeLowerBoolean ==
  ASSUME CInv, Shape, LowerBoolean
  PROVE  Shape'
<1>1. /\ call # None /\ call.value.type = "Bool" /\ doc' = doc
      /\ origins' = Append(origins, Origin) /\ Return(frames, Len(nodes'))
  BY DEF LowerBoolean, Lowering
<1>2. IsCallStack(frames, Len(nodes)) /\ Len(nodes) \in Nat BY DEF CInv, CallsOK, ArenaOK, IsSequence
<1>3. BodiesShape' /\ CallShape' /\ Documented'
  <2>1. Len(frames) \in Nat BY <1>2 DEF IsCallStack, IsSequence
  <2> QED BY <1>1, <1>2, <2>1, ShapeReturn
<1>4. IsOrigin(Origin)
  <2>1. call.value \in Within(doc) /\ IsSequence(call.at) BY <1>1 DEF Shape, CallShape
  <2>2. Targets(call.value) = {} BY <1>1 DEF Targets
  <2>3. Origin.value = call.value /\ Origin.at = call.at BY DEF Origin
  <2> QED BY <1>1, <2>1, <2>2, <2>3 DEF IsOrigin
<1>5. OriginsShape' BY <1>1, <1>4, OriginsGrow DEF Shape
<1> QED BY <1>3, <1>5 DEF Shape

LEMMA ShapeLowerObject ==
  ASSUME CInv, Shape, LowerObject
  PROVE  Shape'
<1>1. /\ call # None /\ call.value.type = "Object" /\ Targets(call.value) = {} /\ doc' = doc /\ call' = None
      /\ origins' = Append(origins, Origin)
  BY DEF LowerObject, Lowering
<1>2. call.value \in Within(doc) /\ IsSequence(call.at) BY <1>1 DEF Shape, CallShape
<1>3. Origin.value = call.value /\ Origin.at = call.at BY DEF Origin
<1>4. OriginsShape'
  <2>1. IsOrigin(Origin) BY <1>1, <1>2, <1>3 DEF IsOrigin
  <2> QED BY <1>1, <2>1, OriginsGrow DEF Shape
<1> DEFINE n == Len(frames)
           f == frames'[n + 1]
<1>5. /\ Len(frames') = n + 1 /\ n \in Nat
      /\ \A i \in 1..n : frames'[i] = frames[i]
      /\ IsFresh(f, Len(nodes) + 1)
  BY PushStep
<1> HIDE DEF f
<1>6. /\ f.value = call.value /\ f.at = call.at /\ f.id = Len(nodes) + 1 /\ f.member = 1
  BY <1>5 DEF IsFresh
<1>7. origins'[Len(nodes) + 1] = Origin BY <1>1, AppendSequence DEF CInv, ArenaOK
<1>8. 1 \in 1..(Len(call.value.data) + 1)
  BY <1>1, <1>2, MembersShape DEF Shape
<1>9. IsBody(f, origins') BY <1>1, <1>2, <1>3, <1>6, <1>7, <1>8 DEF IsBody
<1>10. ASSUME NEW i \in 1..Len(frames') PROVE IsBody(frames'[i], origins')
  <2>1. CASE i = n + 1 BY <1>9, <2>1 DEF f
  <2>2. CASE i # n + 1
    <3>1. i \in 1..n /\ frames'[i] = frames[i] BY <1>5, <2>2
    <3>2. IsBody(frames[i], origins) BY <3>1 DEF Shape, BodiesShape
    <3>3. Same(frames'[i], frames[i]) BY <3>1 DEF Same
    <3> QED BY <1>1, <3>1, <3>2, <3>3, SameBody
  <2> QED BY <2>1, <2>2
<1>11. BodiesShape' BY <1>1, <1>10 DEF BodiesShape, IsBody
<1>12. Documented' /\ CallShape' BY <1>1 DEF Shape, Documented, CallShape
<1> QED BY <1>4, <1>11, <1>12 DEF Shape

(* A step that leaves the activations and the nodes. *)
LEMMA ShapeCalled ==
  ASSUME CInv, Shape, UNCHANGED <<doc, frames, origins>>, CallShape'
  PROVE  Shape'
<1>1. BodiesShape' BY DEF Shape, BodiesShape, IsBody
<1>2. OriginsShape' BY DEF Shape, OriginsShape, IsOrigin
<1> QED BY <1>1, <1>2 DEF Shape, Documented

LEMMA ShapeResolveRef ==
  ASSUME CInv, Shape, ResolveRef
  PROVE  Shape'
<1>0. call # None BY DEF ResolveRef, Lowering
<1>1. PICK target \in Targets(call.value) :
        \/ RefRemote(target)
        \/ /\ IsLocal(target)
           /\ \E pointer \in { Tail(target) } :
                RefInProgress(pointer) \/ RefDangling(pointer) \/ RefFollow(pointer)
  BY DEF ResolveRef
<1>2. CASE RefRemote(target) BY <1>2, ShapeRefuse DEF RefRemote
<1>3. ASSUME NEW pointer, RefInProgress(pointer) PROVE Shape'
  <2>1. /\ Return(frames, in_progress[pointer]) /\ doc' = doc /\ origins' = origins
        /\ IsCallStack(frames, Len(nodes)) /\ Len(nodes) \in Nat
    BY <1>3 DEF RefInProgress, CInv, CallsOK, ArenaOK, IsSequence
  <2>2. Len(frames) \in Nat BY <2>1 DEF IsCallStack, IsSequence
  <2>3. BodiesShape' /\ CallShape' /\ Documented' BY <2>1, <2>2, ShapeReturn
  <2>4. OriginsShape' BY <2>1 DEF Shape, OriginsShape, IsOrigin
  <2> QED BY <2>3, <2>4 DEF Shape
<1>4. ASSUME NEW pointer, RefDangling(pointer) PROVE Shape'
  BY <1>4, ShapeRefuse DEF RefDangling
<1>5. ASSUME IsLocal(target), RefFollow(Tail(target)) PROVE Shape'
  <2>1. PICK value \in { PointerInto(doc, Tail(target)) } \ {None} :
          call' = Call(value, Tail(target), call.depth + 1)
    BY <1>5 DEF RefFollow
  <2>2. UNCHANGED <<doc, frames, origins>> BY <1>5 DEF RefFollow
  <2>3. IsSequence(Tail(target))
    BY <1>0, <1>1, <1>5, TargetsShape DEF Shape, CallShape
  <2>4. value \in Within(doc) BY <2>1, <2>3, TargetWithin DEF Shape
  <2>5. CallShape' BY <2>1, <2>2, <2>3, <2>4 DEF CallShape, Call
  <2> QED BY <2>2, <2>5, ShapeCalled
<1> QED BY <1>1, <1>2, <1>3, <1>4, <1>5

LEMMA ShapeDescend ==
  ASSUME CInv, Shape, Descend
  PROVE  Shape'
<1>1. /\ Looping /\ More /\ Len(Top.ids) < Len(Below) /\ UNCHANGED <<doc, frames, origins>>
      /\ \E next \in { Below[Len(Top.ids) + 1] } :
           call' = Call(next.value, Location \o next.at, Top.depth + 1)
  BY DEF Descend
<1> DEFINE next == Below[Len(Top.ids) + 1]
<1>2. call' = Call(next.value, Location \o next.at, Top.depth + 1) BY <1>1
<1>3. Member \in Within(doc) /\ IsSequence(Location) BY <1>1, TopShape
<1>4. Len(Top.ids) \in Nat BY <1>1, LoopFacts DEF IsActivation, IsSequence
<1>5. next.value \in Within(doc) /\ IsSequence(next.at)
  BY <1>1, <1>3, <1>4, SubschemasShape DEF Shape, Below
<1>6. IsSequence(Location \o next.at) BY <1>3, <1>5, ConcatSequence
<1> HIDE DEF next
<1>7. CallShape' BY <1>1, <1>2, <1>5, <1>6 DEF CallShape, Call
<1> QED BY <1>1, <1>7, ShapeCalled

LEMMA ShapeTakeKeyword ==
  ASSUME CInv, Shape, TakeKeyword
  PROVE  Shape'
<1>1. Looping /\ More /\ UNCHANGED <<doc, call, origins>> BY DEF TakeKeyword
<1> DEFINE n == Len(frames)
           f == frames'[n]
<1>2. /\ Len(frames') = n /\ n \in Nat /\ n > 0
      /\ \A i \in 1..n : i # n => frames'[i] = frames[i]
      /\ IsTaken(f)
  BY TakeStep
<1> HIDE DEF f
<1>3. IsBody(Top, origins) /\ Top.member \in 1..Len(Top.value.data) /\ Len(Top.value.data) \in Nat
  BY <1>1, TopShape
<1>4. IsBody(f, origins) BY <1>2, <1>3 DEF IsBody, IsTaken
<1>5. ASSUME NEW i \in 1..Len(frames') PROVE IsBody(frames'[i], origins)
  <2>1. CASE i = n BY <1>4, <2>1 DEF f
  <2>2. CASE i # n BY <1>2, <2>2 DEF Shape, BodiesShape
  <2> QED BY <2>1, <2>2
<1>6. BodiesShape' BY <1>1, <1>5 DEF BodiesShape, IsBody
<1>7. Documented' /\ CallShape' /\ OriginsShape'
  BY <1>1 DEF Shape, Documented, CallShape, OriginsShape, IsOrigin
<1> QED BY <1>6, <1>7 DEF Shape

LEMMA ShapeEndObject ==
  ASSUME CInv, Shape, EndObject
  PROVE  Shape'
<1>1. Looping /\ Return(Front(frames), Top.id) /\ UNCHANGED <<doc, origins>> BY DEF EndObject
<1>2. /\ IsCallStack(Front(frames), Len(nodes)) /\ Len(nodes) \in Nat /\ Len(frames) \in Nat
      /\ Len(Front(frames)) = Len(frames) - 1
      /\ \A i \in 1..(Len(frames) - 1) : Front(frames)[i] = frames[i]
  BY <1>1, LoopFacts, FrontSequence DEF IsCallStack, IsSequence
<1>3. BodiesShape' /\ CallShape' /\ Documented' BY <1>1, <1>2, ShapeReturn
<1>4. OriginsShape' BY <1>1 DEF Shape, OriginsShape, IsOrigin
<1> QED BY <1>3, <1>4 DEF Shape

LEMMA ShapeInit == CInit => Shape
<1> SUFFICES ASSUME CInit PROVE Shape OBVIOUS
<1>1. /\ doc \in Documents /\ frames = <<>> /\ origins = <<>> /\ call = Call(doc, <<>>, 1)
  BY DEF CInit
<1>2. Documented BY <1>1 DEF Documented
<1>3. CallShape BY <1>1, WithinRoot, EmptySequence DEF CallShape, Call
<1>4. Len(frames) = 0 /\ Len(origins) = 0 BY <1>1, EmptySequence
<1> QED BY <1>2, <1>3, <1>4 DEF Shape, BodiesShape, OriginsShape

LEMMA ShapeStep == CInv /\ Shape /\ [CNext]_cvars => Shape'
<1> SUFFICES ASSUME CInv, Shape, [CNext]_cvars PROVE Shape' OBVIOUS
<1>1. CASE ParseFails BY <1>1, ShapeRefuse DEF ParseFails
<1>2. CASE LowerBoolean BY <1>2, ShapeLowerBoolean
<1>3. CASE NotASchema BY <1>3, ShapeRefuse DEF NotASchema
<1>4. CASE ResolveRef BY <1>4, ShapeResolveRef
<1>5. CASE LowerObject BY <1>5, ShapeLowerObject
<1>6. CASE Descend BY <1>6, ShapeDescend
<1>7. CASE TakeKeyword BY <1>7, ShapeTakeKeyword
<1>8. CASE EndObject BY <1>8, ShapeEndObject
<1>9. CASE UNCHANGED cvars
  <2>1. UNCHANGED <<doc, frames, origins, call>> BY <1>9 DEF cvars
  <2>2. CallShape' BY <2>1 DEF Shape, CallShape
  <2> QED BY <2>1, <2>2, ShapeCalled
<1> QED BY <1>1, <1>2, <1>3, <1>4, <1>5, <1>6, <1>7, <1>8, <1>9 DEF CNext

LEMMA ShapeInductive == CSpec => [](CInv /\ Shape)
BY CInitInv, CNextInv, ShapeInit, ShapeStep, PTL DEF CSpec

(* lower(): whatever the document, an activation stays within the members  *)
(* of its object, and node numbers within the arena.                       *)
THEOREM CTypeOKCorrect == CSpec => []CTypeOK
BY ShapeInductive, ShapeImplies, PTL

-----------------------------------------------------------------------------
(* A keyword says something, or is noted, or is silent, or is mistyped.    *)

LEMMA UnknownIsCount ==
  ASSUME NEW v, v.type \in {"String", "Array"} => IsSequence(v.data)
  PROVE  Unknown(v) \in Nat
<1>1. CASE v.type = "Array"
  <2> DEFINE S == { i \in Strings(v) : ~IsTypeName(v.data[i].value.data) }
  <2>1. DOMAIN v.data = 1..Len(v.data) /\ Len(v.data) \in Nat BY <1>1 DEF IsSequence
  <2>2. S \subseteq 1..Len(v.data) BY <2>1 DEF Strings
  <2>3. IsFiniteSet(1..Len(v.data)) BY <2>1, FS_Interval
  <2> HIDE DEF S
  <2>4. Cardinality(S) \in Nat BY <2>2, <2>3, FS_Subset, FS_CardinalityType
  <2>5. Unknown(v) = Cardinality(S) BY <1>1 DEF Unknown, S
  <2> QED BY <2>4, <2>5
<1>2. CASE v.type # "Array" BY <1>2 DEF Unknown
<1> QED BY <1>1, <1>2

LEMMA NotedIsCount ==
  ASSUME NEW word, NEW v, v.type \in {"String", "Array"} => IsSequence(v.data)
  PROVE  Noted(word, v) \in Nat
<1>1. CASE word = "type"
  <2>1. Noted(word, v) = Unknown(v) BY <1>1 DEF Noted, Counts, Measures, Bounds, Lists, Assertions
  <2> QED BY <2>1, UnknownIsCount
<1>2. CASE word # "type"
  <2>1. Noted(word, v) = 0 \/ Noted(word, v) = 1 BY <1>2 DEF Noted
  <2> QED BY <2>1
<1> QED BY <1>1, <1>2

LEMMA SaidOrNoted ==
  ASSUME NEW n, NEW word, NEW v, NEW ids
  PROVE  \/ word \in Silent \/ Content(n, word, v, ids) # {}
         \/ Noted(word, v) = 1 \/ Mistyped(word, v)
<1>1. CASE word = "type"
  <2>1. Content(n, word, v, ids) = { TypesOf(v) } \ {{}} BY <1>1 DEF Content, Counts, Measures, Bounds, Lists
  <2>2. Noted(word, v) = Unknown(v) BY <1>1 DEF Noted, Counts, Measures, Bounds, Lists, Assertions
  <2>3. CASE v.type = "String" /\ IsTypeName(v.data)
    <3>1. Names(v) = {v.data} BY <2>3 DEF Names
    <3>2. FromName(Word(v.data)) # {} BY DEF FromName
    <3>3. TypesOf(v) # {} BY <2>3, <3>1, <3>2 DEF TypesOf
    <3> QED BY <2>1, <3>3
  <2>4. CASE v.type = "String" /\ ~IsTypeName(v.data) BY <2>2, <2>4 DEF Unknown
  <2>5. CASE v.type = "Array" BY <1>1, <2>1, <2>5 DEF Mistyped
  <2>6. CASE v.type \notin {"String", "Array"} BY <2>2, <2>6 DEF Unknown
  <2> QED BY <2>3, <2>4, <2>5, <2>6
<1>2. CASE word \in Counts
  <2>1. IsCount(v) => Content(n, word, v, ids) = {v.data} BY <1>2 DEF Content, Counts, Measures, Bounds, Lists
  <2>2. ~IsCount(v) => Noted(word, v) = 1 BY <1>2 DEF Noted, Counts
  <2> QED BY <2>1, <2>2
<1>3. CASE word \in Measures
  <2>1. v.type = "Number" => Content(n, word, v, ids) = {v.data}
    BY <1>3 DEF Content, Counts, Measures, Bounds, Lists
  <2>2. v.type # "Number" => Noted(word, v) = 1 BY <1>3 DEF Noted, Counts, Measures, Bounds
  <2> QED BY <2>1, <2>2
<1>4. CASE word = "pattern"
  <2>1. v.type = "String" => Content(n, word, v, ids) = {v.data} \cap Regexes
    BY <1>4 DEF Content, Counts, Measures, Bounds, Lists
  <2>2. v.type = "String" /\ v.data \notin Regexes => Noted(word, v) = 1
    BY <1>4 DEF Noted, Counts, Measures, Bounds
  <2>3. v.type # "String" => Mistyped(word, v) BY <1>4 DEF Mistyped
  <2> QED BY <2>1, <2>2, <2>3
<1>5. CASE word \in {"uniqueItems", "enum", "const", "required", "properties"}
  <2>1. v.type = "Bool" /\ word = "uniqueItems" => Content(n, word, v, ids) = {IsTrue(v)}
    BY DEF Content, Counts, Measures, Bounds, Lists
  <2>2. v.type = "Array" /\ word = "enum" =>
          Content(n, word, v, ids) = { [strings |-> Names(v), has_non_strings |-> Strings(v) # DOMAIN v.data] }
    BY DEF Content, Counts, Measures, Bounds, Lists
  <2>3. word = "const" => Content(n, word, v, ids) = {v}
    BY DEF Content, Counts, Measures, Bounds, Lists
  <2>4. v.type = "Array" /\ word = "required" => Content(n, word, v, ids) = {Names(v)}
    BY DEF Content, Counts, Measures, Bounds, Lists
  <2>5. v.type = "Object" /\ word = "properties" =>
          Content(n, word, v, ids) = { ByName(v, ids, Get(n, word, << >>)) }
    BY DEF Content, Counts, Measures, Bounds, Lists
  <2>6. \/ word = "uniqueItems" /\ v.type = "Bool"
        \/ word = "const"
        \/ word \in {"enum", "required"} /\ v.type = "Array"
        \/ word = "properties" /\ v.type = "Object"
        \/ Mistyped(word, v)
    BY <1>5 DEF Mistyped
  <2> QED BY <2>1, <2>2, <2>3, <2>4, <2>5, <2>6
<1>6. CASE word \in Lists
  <2>1. v.type = "Array" => Content(n, word, v, ids) = { Get(n, word, <<>>) \o ids }
                            \/ Content(n, word, v, ids) = {ids}
    BY <1>6 DEF Content, Counts, Measures, Bounds, Lists
  <2>2. v.type # "Array" => Mistyped(word, v) BY <1>6 DEF Mistyped
  <2> QED BY <2>1, <2>2
<1>7. CASE word \in {"items", "not", "additionalProperties"}
  <2>1. \/ Content(n, word, v, ids) = {ids[1]}
        \/ Content(n, word, v, ids) = { IF IsTrue(v) THEN Permitted ELSE Forbidden }
    BY <1>7 DEF Content, Counts, Measures, Bounds, Lists
  <2> QED BY <2>1
<1>8. CASE word \notin Assertions \cup Silent
  <2>1. word # "type" /\ word # "pattern" /\ word \notin Counts /\ word \notin Measures
    BY <1>8 DEF Assertions
  <2>2. Noted(word, v) = 1 BY <1>8, <2>1 DEF Noted
  <2> QED BY <2>2
<1>9. word \in Assertions => \/ word \in Counts \/ word \in Measures \/ word \in Lists
                             \/ word \in {"type", "uniqueItems", "pattern", "enum", "const", "required",
                                          "properties", "additionalProperties", "items", "not"}
  BY DEF Assertions
<1> QED BY <1>1, <1>2, <1>3, <1>4, <1>5, <1>6, <1>7, <1>8, <1>9

-----------------------------------------------------------------------------
(* What an activation has gone through is recorded, in its own node or in  *)
(* the notes; and so is what a node was made from, once it is written.     *)

InNotes(ns, at, m) ==
  \E i \in 1..Len(ns) : ns[i].location = at \o <<"slash">> \o m.token /\ ns[i].keyword = Word(m.token)

Kept(n, ns, at, m) ==
  \/ Word(m.token) \in Silent \/ Has(n, Word(m.token)) \/ InNotes(ns, at, m)
  \/ Mistyped(Word(m.token), m.value)

KeptBelow(f, ns) == \A j \in 1..(f.member - 1) : Kept(f.node, ns, f.at, f.value.data[j])

KeptOf(n, ns, o) ==
  o.value.type = "Object" => \A j \in 1..Len(o.value.data) : Kept(n, ns, o.at, o.value.data[j])

IsOpen(id) == \E i \in 1..Len(frames) : frames[i].id = id

Halted == Done => call = None /\ frames = <<>>

AllKept ==
  /\ \A i \in 1..Len(frames) : KeptBelow(frames[i], notes)
  /\ \A id \in Ids : IsOpen(id) \/ KeptOf(nodes[id], notes, origins[id])

RecordInv == Halted /\ IsSequence(notes) /\ (Running \/ Accepted => AllKept)

(* More notes lose nothing. *)
LEMMA InMoreNotes ==
  ASSUME NEW ns, IsSequence(ns), NEW os, IsSequence(os), NEW at, NEW m, InNotes(ns, at, m)
  PROVE  InNotes(ns \o os, at, m)
<1>1. PICK i \in 1..Len(ns) : ns[i].location = at \o <<"slash">> \o m.token /\ ns[i].keyword = Word(m.token)
  BY DEF InNotes
<1>2. Len(ns \o os) = Len(ns) + Len(os) /\ (ns \o os)[i] = ns[i] /\ Len(ns) \in Nat /\ Len(os) \in Nat
  BY ConcatElements DEF IsSequence
<1>3. i \in 1..Len(ns \o os) BY <1>2
<1> QED BY <1>1, <1>2, <1>3 DEF InNotes

(* The notes of a step: as they were, or with more at the end. *)
Grown == notes' = notes \/ \E os : IsSequence(os) /\ notes' = notes \o os

LEMMA KeptStays ==
  ASSUME IsSequence(notes), Grown, NEW n, NEW at, NEW m, Kept(n, notes, at, m)
  PROVE  Kept(n, notes', at, m) /\ IsSequence(notes')
<1>1. IsSequence(notes') BY ConcatSequence DEF Grown
<1>2. InNotes(notes, at, m) => InNotes(notes', at, m) BY InMoreNotes DEF Grown
<1> QED BY <1>1, <1>2 DEF Kept

LEMMA KeptBelowStays ==
  ASSUME IsSequence(notes), Grown, NEW f, NEW g, Same(g, f), KeptBelow(f, notes)
  PROVE  KeptBelow(g, notes')
BY KeptStays DEF KeptBelow, Same

LEMMA KeptOfStays ==
  ASSUME IsSequence(notes), Grown, NEW n, NEW o, KeptOf(n, notes, o)
  PROVE  KeptOf(n, notes', o)
BY KeptStays DEF KeptOf

(* While the compiler runs, it has refused nothing. *)
LEMMA RunningKept ==
  ASSUME RecordInv, Lowering \/ Looping
  PROVE  ~Done /\ AllKept /\ IsSequence(notes)
BY DEF RecordInv, Halted, Lowering, Looping, Running

LEMMA KeptRefuse ==
  ASSUME RecordInv, NEW kind, kind # "Ok", Refuse(kind),
         notes' = notes \/ \E n : notes' = Append(notes, n)
  PROVE  RecordInv'
<1>1. call' = None /\ frames' = <<>> /\ result' = Err(kind) BY DEF Refuse
<1>2. ~Accepted' BY <1>1 DEF Accepted, Err
<1>3. IsSequence(notes') BY AppendSequence DEF RecordInv
<1>4. ~Running' BY <1>1 DEF Running
<1> QED BY <1>1, <1>2, <1>3, <1>4 DEF RecordInv, Halted

(* A number returned to `st`, the stack without the callee. *)
LEMMA KeptReturn ==
  ASSUME CInv, RecordInv, Lowering \/ Looping, notes' = notes,
         NEW st, NEW n \in Nat, IsCallStack(st, n), NEW id, Return(st, id),
         Len(st) <= Len(frames), \A i \in 1..Len(st) : st[i] = frames[i]
  PROVE  /\ Halted' /\ IsSequence(notes')
         /\ \A i \in 1..Len(frames') : KeptBelow(frames'[i], notes')
         /\ \A i \in 1..Len(st) : \E j \in 1..Len(frames') : frames'[j].id = st[i].id
<1>1. /\ call' = None /\ Len(st) \in Nat
      /\ st = <<>> => frames' = <<>> /\ Len(frames') = 0
      /\ st # <<>> => /\ Len(st) > 0 /\ Len(frames') = Len(st) /\ result' = result
                      /\ \A i \in 1..Len(st) : i # Len(st) => frames'[i] = st[i]
                      /\ Same(frames'[Len(st)], st[Len(st)])
  BY ReturnStep
<1>2. ~Done /\ AllKept /\ IsSequence(notes) BY RunningKept
<1>3. Halted' BY <1>1, <1>2 DEF Halted, Done
<1>4. Len(frames) \in Nat BY DEF CInv, CallsOK, IsCallStack, IsSequence
<1>5. ASSUME NEW i \in 1..Len(st)
      PROVE  i \in 1..Len(frames') /\ Same(frames'[i], frames[i]) /\ i \in 1..Len(frames)
  <2>1. st # <<>> BY <1>5, EmptySequence
  <2>2. CASE i = Len(st) BY <1>1, <1>4, <2>1, <2>2
  <2>3. CASE i # Len(st) BY <1>1, <1>4, <2>1, <2>3 DEF Same
  <2> QED BY <2>2, <2>3
<1>6. ASSUME NEW i \in 1..Len(frames') PROVE KeptBelow(frames'[i], notes')
  <2>1. i \in 1..Len(st) BY <1>1, <1>6
  <2>2. KeptBelow(frames[i], notes) BY <1>2, <1>5, <2>1 DEF AllKept
  <2> QED BY <1>2, <1>5, <2>1, <2>2, KeptBelowStays DEF Grown
<1>7. ASSUME NEW i \in 1..Len(st) PROVE \E j \in 1..Len(frames') : frames'[j].id = st[i].id
  BY <1>5, <1>7 DEF Same
<1> QED BY <1>2, <1>3, <1>6, <1>7

LEMMA KeptLowerBoolean ==
  ASSUME CInv, Shape, RecordInv, LowerBoolean
  PROVE  RecordInv'
<1>1. /\ Lowering /\ call.value.type = "Bool" /\ Return(frames, Len(nodes')) /\ notes' = notes
      /\ (\E node : nodes' = Append(nodes, node)) /\ origins' = Append(origins, Origin)
  BY DEF LowerBoolean
<1>2. IsCallStack(frames, Len(nodes)) /\ Len(nodes) \in Nat /\ Len(frames) \in Nat
  BY DEF CInv, CallsOK, ArenaOK, IsSequence, IsCallStack
<1>3. /\ Halted' /\ IsSequence(notes')
      /\ \A i \in 1..Len(frames') : KeptBelow(frames'[i], notes')
      /\ \A i \in 1..Len(frames) : \E j \in 1..Len(frames') : frames'[j].id = frames[i].id
  BY <1>1, <1>2, KeptReturn
<1>4. ASSUME NEW id \in 1..Len(nodes') PROVE IsOpen(id)' \/ KeptOf(nodes'[id], notes', origins'[id])
  <2>1. /\ Len(nodes') = Len(nodes) + 1 /\ \A i \in 1..Len(nodes) : nodes'[i] = nodes[i]
        /\ origins'[Len(nodes) + 1] = Origin /\ \A i \in 1..Len(nodes) : origins'[i] = origins[i]
    BY <1>1, AppendSequence DEF CInv, ArenaOK
  <2>2. CASE id = Len(nodes) + 1
    <3>1. origins'[id] = Origin BY <2>1, <2>2
    <3>2. Origin.value.type = "Bool" BY <1>1 DEF Origin
    <3>3. KeptOf(nodes'[id], notes', origins'[id]) BY <3>1, <3>2 DEF KeptOf
    <3> QED BY <3>3
  <2>3. CASE id # Len(nodes) + 1
    <3>1. id \in Ids /\ nodes'[id] = nodes[id] /\ origins'[id] = origins[id]
      BY <1>2, <2>1, <2>3 DEF Ids
    <3>2. IsOpen(id) \/ KeptOf(nodes[id], notes, origins[id]) BY <1>1, <3>1, RunningKept DEF AllKept
    <3> QED BY <1>1, <1>3, <3>1, <3>2 DEF IsOpen
  <2> QED BY <2>2, <2>3
<1> QED BY <1>3, <1>4 DEF RecordInv, AllKept, Ids

LEMMA KeptLowerObject ==
  ASSUME CInv, Shape, RecordInv, LowerObject
  PROVE  RecordInv'
<1>1. /\ Lowering /\ notes' = notes /\ result' = result
      /\ nodes' = Append(nodes, << >>) /\ origins' = Append(origins, Origin)
  BY DEF LowerObject
<1>2. ~Done /\ AllKept /\ IsSequence(notes) /\ Len(nodes) \in Nat
  BY <1>1, RunningKept DEF CInv, ArenaOK, IsSequence
<1>3. /\ Len(frames') = Len(frames) + 1 /\ Len(frames) \in Nat
      /\ \A i \in 1..Len(frames) : frames'[i] = frames[i]
      /\ IsFresh(frames'[Len(frames) + 1], Len(nodes) + 1)
  BY PushStep
<1>4. ASSUME NEW i \in 1..Len(frames') PROVE KeptBelow(frames'[i], notes')
  <2>1. CASE i = Len(frames) + 1
    <3>1. frames'[i].member - 1 = 0 BY <1>3, <2>1 DEF IsFresh
    <3> QED BY <3>1 DEF KeptBelow
  <2>2. CASE i # Len(frames) + 1 BY <1>1, <1>2, <1>3, <2>2 DEF AllKept
  <2> QED BY <2>1, <2>2
<1>5. ASSUME NEW id \in 1..Len(nodes') PROVE IsOpen(id)' \/ KeptOf(nodes'[id], notes', origins'[id])
  <2>1. /\ Len(nodes') = Len(nodes) + 1 /\ \A i \in 1..Len(nodes) : nodes'[i] = nodes[i]
        /\ \A i \in 1..Len(nodes) : origins'[i] = origins[i]
    BY <1>1, AppendSequence DEF CInv, ArenaOK
  <2>2. CASE id = Len(nodes) + 1
    <3>1. frames'[Len(frames) + 1].id = id BY <1>3, <2>2 DEF IsFresh
    <3> QED BY <1>3, <3>1 DEF IsOpen
  <2>3. CASE id # Len(nodes) + 1
    <3>1. id \in Ids /\ nodes'[id] = nodes[id] /\ origins'[id] = origins[id]
      BY <1>2, <2>1, <2>3 DEF Ids
    <3>2. IsOpen(id) \/ KeptOf(nodes[id], notes, origins[id]) BY <1>2, <3>1 DEF AllKept
    <3>3. IsOpen(id) => IsOpen(id)' BY <1>3 DEF IsOpen
    <3> QED BY <1>1, <3>1, <3>2, <3>3
  <2> QED BY <2>2, <2>3
<1> QED BY <1>1, <1>2, <1>4, <1>5 DEF RecordInv, AllKept, Ids, Halted, Done

(* A step that changes no node, no note and no activation. *)
LEMMA KeptQuiet ==
  ASSUME RecordInv, Lowering \/ Looping, UNCHANGED <<notes, nodes, origins, frames, result>>
  PROVE  RecordInv'
BY RunningKept DEF RecordInv, AllKept, KeptOf, IsOpen, Ids, Halted, Done

LEMMA KeptResolveRef ==
  ASSUME CInv, Shape, RecordInv, ResolveRef
  PROVE  RecordInv'
<1>0. Lowering BY DEF ResolveRef
<1>1. PICK target \in Targets(call.value) :
        \/ RefRemote(target)
        \/ \E pointer \in { Tail(target) } :
             RefInProgress(pointer) \/ RefDangling(pointer) \/ RefFollow(pointer)
  BY DEF ResolveRef
<1>2. CASE RefRemote(target) BY <1>2, KeptRefuse DEF RefRemote
<1>3. ASSUME NEW pointer, RefInProgress(pointer) PROVE RecordInv'
  <2>1. /\ Return(frames, in_progress[pointer]) /\ UNCHANGED <<notes, nodes, origins>>
        /\ IsCallStack(frames, Len(nodes)) /\ Len(nodes) \in Nat /\ Len(frames) \in Nat
    BY <1>3 DEF RefInProgress, CInv, CallsOK, ArenaOK, IsSequence, IsCallStack
  <2>2. /\ Halted' /\ IsSequence(notes')
        /\ \A i \in 1..Len(frames') : KeptBelow(frames'[i], notes')
        /\ \A i \in 1..Len(frames) : \E j \in 1..Len(frames') : frames'[j].id = frames[i].id
    BY <1>0, <2>1, KeptReturn
  <2>3. AllKept BY <1>0, RunningKept
  <2>4. ASSUME NEW id \in Ids PROVE IsOpen(id)' \/ KeptOf(nodes'[id], notes', origins'[id])
    BY <2>1, <2>2, <2>3, <2>4 DEF AllKept, IsOpen
  <2> QED BY <2>1, <2>2, <2>4 DEF RecordInv, AllKept, Ids
<1>4. ASSUME NEW pointer, RefDangling(pointer) PROVE RecordInv'
  BY <1>4, KeptRefuse DEF RefDangling
<1>5. ASSUME NEW pointer, RefFollow(pointer) PROVE RecordInv'
  BY <1>0, <1>5, KeptQuiet DEF RefFollow
<1> QED BY <1>1, <1>2, <1>3, <1>4, <1>5

LEMMA KeptDescend ==
  ASSUME RecordInv, Descend
  PROVE  RecordInv'
BY KeptQuiet DEF Descend

(* A numeric keyword that overwrites a namesake is noted. *)
LEMMA AssignKeeps ==
  ASSUME NEW n, NEW word, NEW content, NEW w, Has(n, w)
  PROVE  Has(Assign(n, word, content), w) \/ (w = word /\ word \in Counts \cup Measures /\ content = {})
<1>1. CASE content # {}
  <2>1. DOMAIN Assign(n, word, content) = DOMAIN n \cup {word} BY <1>1 DEF Assign
  <2> QED BY <2>1 DEF Has
<1>2. CASE content = {}
  <2>1. DOMAIN Assign(n, word, content) = DOMAIN n \ ({word} \cap (Counts \cup Measures))
    BY <1>2 DEF Assign
  <2> QED BY <1>2, <2>1 DEF Has
<1> QED BY <1>1, <1>2

LEMMA SameWord ==
  ASSUME NEW s, IsSequence(s), NEW t, IsSequence(t), Word(s) = Word(t), Word(s) \in Counts \cup Measures
  PROVE  s = t
<1>1. Word(s) # "other" BY DEF Counts, Measures, Bounds
<1>2. Len(s) = 1 /\ Len(t) = 1 /\ s[1] = t[1] BY <1>1 DEF Word
<1> QED BY <1>2, SameSequence

(* What the keyword taken has to say is recorded. *)
LEMMA TakenKept ==
  ASSUME CInv, Shape, RecordInv, TakeKeyword
  PROVE  /\ Grown
         /\ Kept(Assign(Top.node, Word(Key), Said), notes', Top.at, Top.value.data[Top.member])
         /\ Said = {} /\ Word(Key) \in Counts \cup Measures =>
              InNotes(notes', Top.at, Top.value.data[Top.member])
<1> DEFINE word == Word(Key)
           m == Top.value.data[Top.member]
           k == Noted(word, Member)
           os == [i \in 1..k |-> Note(Location, word)]
<1>1. Looping /\ More /\ notes' = notes \o os BY DEF TakeKeyword
<1>2. Member \in Within(doc) BY <1>1, TopShape
<1>3. k \in Nat
  <2>1. Member.type \in {"String", "Array"} => IsSequence(Member.data)
    BY <1>2, WithinShape DEF Shape, Shaped
  <2> QED BY <2>1, NotedIsCount
<1>4. IsSequence(os) /\ Len(os) = k /\ \A i \in 1..k : os[i] = Note(Location, word)
  <2> HIDE DEF k, word
  <2> QED BY <1>3 DEF IsSequence
<1> HIDE DEF os
<1>5. Grown BY <1>1, <1>4 DEF Grown
<1>6. k = 1 => InNotes(notes', Top.at, m)
  <2> SUFFICES ASSUME k = 1 PROVE InNotes(notes', Top.at, m) OBVIOUS
  <2>1. IsSequence(notes) /\ Len(notes) \in Nat BY DEF RecordInv, IsSequence
  <2>2. IsSequence(os) /\ Len(os) = 1 /\ 1 \in 1..Len(os) /\ os[1] = Note(Location, word) BY <1>4
  <2>3. Len(notes') = Len(notes) + 1 /\ notes'[Len(notes) + 1] = os[1]
    <3>1. /\ Len(notes \o os) = Len(notes) + Len(os)
          /\ \A i \in (Len(notes) + 1)..(Len(notes) + Len(os)) : (notes \o os)[i] = os[i - Len(notes)]
      BY <2>1, <2>2, ConcatElements
    <3>2. Len(notes) + 1 \in (Len(notes) + 1)..(Len(notes) + Len(os)) /\ Len(notes) + 1 - Len(notes) = 1
      BY <2>1, <2>2
    <3> QED BY <1>1, <2>2, <3>1, <3>2
  <2>4. Note(Location, word).location = Top.at \o <<"slash">> \o m.token
        /\ Note(Location, word).keyword = Word(m.token)
    BY DEF Note, Location, Key
  <2>5. Len(notes) + 1 \in 1..Len(notes') BY <2>1, <2>3
  <2> QED BY <2>2, <2>3, <2>4, <2>5 DEF InNotes
<1>7. word \in Silent \/ Said # {} \/ k = 1 \/ Mistyped(word, Member) BY SaidOrNoted DEF Said
<1>8. Said # {} => Has(Assign(Top.node, word, Said), word) BY DEF Assign, Has
<1>9. m.token = Key /\ m.value = Member BY DEF Key, Member
<1>10. Kept(Assign(Top.node, word, Said), notes', Top.at, m)
  <2> HIDE DEF word, k, m
  <2>1. word = Word(m.token) BY <1>9 DEF word
  <2> QED BY <1>6, <1>7, <1>8, <1>9, <2>1 DEF Kept
<1>11. Said = {} /\ word \in Counts \cup Measures => k = 1
  <2> SUFFICES ASSUME Said = {}, word \in Counts \cup Measures PROVE k = 1 OBVIOUS
  <2>1. word \notin Silent BY DEF Counts, Measures, Bounds, Silent
  <2>2. ~Mistyped(word, Member) BY DEF Counts, Measures, Bounds, Mistyped, Lists
  <2> HIDE DEF word, k
  <2> QED BY <1>7, <2>1, <2>2
<1> QED BY <1>5, <1>6, <1>10, <1>11

LEMMA KeptTakeKeyword ==
  ASSUME CInv, Shape, RecordInv, TakeKeyword
  PROVE  RecordInv'
<1>1. Looping /\ More /\ UNCHANGED <<nodes, origins, result, call>> BY DEF TakeKeyword
<1>2. ~Done /\ AllKept /\ IsSequence(notes) BY <1>1, RunningKept
<1> DEFINE n == Len(frames)
           word == Word(Key)
           data == Top.value.data
<1>3. /\ Len(frames') = n /\ n \in Nat /\ n > 0
      /\ \A i \in 1..n : i # n => frames'[i] = frames[i]
      /\ IsTaken(frames'[n])
  BY TakeStep
<1>4. /\ Grown
      /\ Kept(Assign(Top.node, word, Said), notes', Top.at, data[Top.member])
      /\ Said = {} /\ word \in Counts \cup Measures => InNotes(notes', Top.at, data[Top.member])
  BY TakenKept
<1>5. IsBody(Top, origins) /\ Top.member \in 1..Len(data) /\ Len(data) \in Nat /\ Top = frames[n]
  BY <1>1, TopShape, LoopFacts
<1>6. \A j \in 1..Len(data) : IsSequence(data[j].token)
  BY <1>5, MembersShape DEF IsBody, Shape
<1>7. ASSUME NEW j \in 1..Top.member
      PROVE  Kept(Assign(Top.node, word, Said), notes', Top.at, data[j])
  <2>1. CASE j = Top.member BY <1>4, <2>1
  <2>2. CASE j # Top.member
    <3>1. j \in 1..(Top.member - 1) /\ j \in 1..Len(data) BY <1>5, <2>2
    <3>2. KeptBelow(Top, notes) BY <1>2, <1>3, <1>5 DEF AllKept
    <3>3. Kept(Top.node, notes, Top.at, data[j]) BY <3>1, <3>2 DEF KeptBelow
    <3>4. Kept(Top.node, notes', Top.at, data[j]) BY <1>2, <1>4, <3>3, KeptStays
    <3> DEFINE w == Word(data[j].token)
    <3>5. CASE Has(Top.node, w) /\ ~Has(Assign(Top.node, word, Said), w)
      <4>1. w = word /\ word \in Counts \cup Measures /\ Said = {} BY <3>5, AssignKeeps
      <4>2. data[j].token = data[Top.member].token
        <5>1. word = Word(data[Top.member].token) BY DEF Key
        <5>2. IsSequence(data[j].token) /\ IsSequence(data[Top.member].token) BY <1>5, <1>6, <3>1
        <5> QED BY <4>1, <5>1, <5>2, SameWord
      <4>3. InNotes(notes', Top.at, data[Top.member]) BY <1>4, <4>1
      <4>4. InNotes(notes', Top.at, data[j]) BY <4>2, <4>3 DEF InNotes
      <4> QED BY <4>4 DEF Kept
    <3>6. CASE Has(Top.node, w) => Has(Assign(Top.node, word, Said), w)
      BY <3>4, <3>6 DEF Kept
    <3> QED BY <3>5, <3>6
  <2> QED BY <2>1, <2>2
<1> HIDE DEF data, word
<1>8. ASSUME NEW i \in 1..Len(frames') PROVE KeptBelow(frames'[i], notes')
  <2>1. CASE i = n
    <3> DEFINE f == frames'[n]
    <3>1. /\ f.value = Top.value /\ f.at = Top.at /\ f.member = Top.member + 1
          /\ f.node = Assign(Top.node, word, Said)
      BY <1>3 DEF IsTaken, word
    <3> HIDE DEF f
    <3>2. f.member - 1 = Top.member BY <1>5, <3>1
    <3>3. KeptBelow(f, notes') BY <1>7, <3>1, <3>2 DEF KeptBelow, data
    <3> QED BY <2>1, <3>3 DEF f
  <2>2. CASE i # n
    <3>1. KeptBelow(frames[i], notes) /\ Same(frames'[i], frames[i])
      BY <1>2, <1>3, <2>2 DEF AllKept, Same
    <3> QED BY <1>2, <1>4, <3>1, KeptBelowStays
  <2> QED BY <2>1, <2>2
<1>9. ASSUME NEW id \in Ids PROVE IsOpen(id)' \/ KeptOf(nodes'[id], notes', origins'[id])
  <2>1. CASE IsOpen(id)
    <3>1. PICK i \in 1..n : frames[i].id = id BY <2>1 DEF IsOpen
    <3>2. frames'[i].id = frames[i].id
      <4>1. CASE i = n BY <1>3, <1>5, <4>1 DEF IsTaken
      <4>2. CASE i # n BY <1>3, <4>2
      <4> QED BY <4>1, <4>2
    <3> QED BY <1>3, <3>1, <3>2 DEF IsOpen
  <2>2. CASE ~IsOpen(id)
    <3>1. KeptOf(nodes[id], notes, origins[id]) BY <1>2, <2>2 DEF AllKept
    <3> QED BY <1>1, <1>2, <1>4, <3>1, KeptOfStays
  <2> QED BY <2>1, <2>2
<1>10. IsSequence(notes') BY <1>2, <1>4, ConcatSequence DEF Grown
<1> QED BY <1>1, <1>2, <1>8, <1>9, <1>10 DEF RecordInv, AllKept, Ids, Halted, Done

LEMMA KeptEndObject ==
  ASSUME CInv, Shape, RecordInv, EndObject
  PROVE  RecordInv'
<1>1. /\ Looping /\ ~More /\ Return(Front(frames), Top.id) /\ UNCHANGED <<notes, origins>>
      /\ nodes' = [nodes EXCEPT ![Top.id] = Top.node]
  BY DEF EndObject
<1>2. /\ IsCallStack(Front(frames), Len(nodes)) /\ Len(nodes) \in Nat /\ Len(frames) \in Nat \ {0}
      /\ Len(Front(frames)) = Len(frames) - 1 /\ Top = frames[Len(frames)]
      /\ \A i \in 1..(Len(frames) - 1) : Front(frames)[i] = frames[i]
  BY <1>1, LoopFacts, FrontSequence DEF IsCallStack, IsSequence
<1> DEFINE st == Front(frames)
<1>3. /\ Halted' /\ IsSequence(notes')
      /\ \A i \in 1..Len(frames') : KeptBelow(frames'[i], notes')
      /\ \A i \in 1..Len(st) : \E j \in 1..Len(frames') : frames'[j].id = st[i].id
  BY <1>1, <1>2, KeptReturn
<1> HIDE DEF st
<1>4. AllKept BY <1>1, RunningKept
<1> DEFINE top == Top.id
           node == Top.node
<1>5. top \in 1..Len(nodes) BY <1>1, LoopFacts DEF IsActivation
<1>6. Len(nodes') = Len(nodes) /\ nodes'[top] = node /\ \A i \in 1..Len(nodes) : i # top => nodes'[i] = nodes[i]
  <2>1. nodes' = [nodes EXCEPT ![top] = node] /\ IsSequence(nodes) BY <1>1 DEF CInv, ArenaOK
  <2> HIDE DEF top, node
  <2> QED BY <1>5, <2>1, ExceptSequence
<1>7. ASSUME NEW id \in Ids PROVE IsOpen(id)' \/ KeptOf(nodes'[id], notes', origins'[id])
  <2>1. CASE id = top
    <3>1. KeptBelow(Top, notes) BY <1>2, <1>4 DEF AllKept
    <3>2. IsBody(Top, origins) /\ Len(Top.value.data) \in Nat BY <1>1, TopShape
    <3>3. Top.member = Len(Top.value.data) + 1 BY <1>1, <3>2 DEF IsBody, More
    <3>4. Top.member - 1 = Len(Top.value.data) BY <3>2, <3>3
    <3>5. KeptOf(node, notes, origins[id]) BY <2>1, <3>1, <3>2, <3>4 DEF KeptOf, KeptBelow, IsBody
    <3> QED BY <1>1, <1>6, <2>1, <3>5
  <2>2. CASE id # top /\ IsOpen(id)
    <3>1. PICK i \in 1..Len(frames) : frames[i].id = id BY <2>2 DEF IsOpen
    <3>2. i # Len(frames) BY <1>2, <2>2, <3>1
    <3>3. i \in 1..(Len(frames) - 1) BY <1>2, <3>2
    <3>4. i \in 1..Len(st) /\ st[i].id = id BY <1>2, <3>1, <3>3 DEF st
    <3> QED BY <1>3, <3>4 DEF IsOpen
  <2>3. CASE id # top /\ ~IsOpen(id)
    <3>1. KeptOf(nodes[id], notes, origins[id]) BY <1>4, <2>3 DEF AllKept
    <3> QED BY <1>1, <1>6, <2>3, <3>1 DEF Ids
  <2> QED BY <2>1, <2>2, <2>3
<1> QED BY <1>3, <1>6, <1>7 DEF RecordInv, AllKept, Ids

LEMMA RecordInit == CInit => RecordInv
<1> SUFFICES ASSUME CInit PROVE RecordInv OBVIOUS
<1>1. /\ notes = <<>> /\ nodes = <<>> /\ frames = <<>> /\ result = None BY DEF CInit
<1>2. Len(frames) = 0 /\ Len(nodes) = 0 /\ IsSequence(notes) BY <1>1, EmptySequence
<1> QED BY <1>1, <1>2 DEF RecordInv, AllKept, Ids, Halted, Done

LEMMA RecordStep == CInv /\ Shape /\ RecordInv /\ [CNext]_cvars => RecordInv'
<1> SUFFICES ASSUME CInv, Shape, RecordInv, [CNext]_cvars PROVE RecordInv' OBVIOUS
<1>1. CASE ParseFails BY <1>1, KeptRefuse DEF ParseFails
<1>2. CASE LowerBoolean BY <1>2, KeptLowerBoolean
<1>3. CASE NotASchema BY <1>3, KeptRefuse DEF NotASchema
<1>4. CASE ResolveRef BY <1>4, KeptResolveRef
<1>5. CASE LowerObject BY <1>5, KeptLowerObject
<1>6. CASE Descend BY <1>6, KeptDescend
<1>7. CASE TakeKeyword BY <1>7, KeptTakeKeyword
<1>8. CASE EndObject BY <1>8, KeptEndObject
<1>9. CASE UNCHANGED cvars
  BY <1>9 DEF cvars, RecordInv, AllKept, IsOpen, Ids, Halted, Done, Running, Accepted
<1> QED BY <1>1, <1>2, <1>3, <1>4, <1>5, <1>6, <1>7, <1>8, <1>9 DEF CNext

LEMMA RecordImplies == CInv /\ Shape /\ RecordInv => ConstraintsRecorded
<1> SUFFICES ASSUME CInv, Shape, RecordInv, Accepted,
                    NEW id \in Ids, origins[id].value.type = "Object",
                    NEW m \in Range(origins[id].value.data)
             PROVE  \/ Word(m.token) \in Silent \/ Has(nodes[id], Word(m.token))
                    \/ IsNoted(origins[id], m) \/ Mistyped(Word(m.token), m.value)
  BY DEF ConstraintsRecorded, Recorded
<1> DEFINE o == origins[id]
<1>1. AllKept /\ frames = <<>> BY DEF RecordInv, Halted, Accepted
<1>2. ~IsOpen(id) BY <1>1, EmptySequence DEF IsOpen
<1>3. KeptOf(nodes[id], notes, o) BY <1>1, <1>2 DEF AllKept
<1>4. IsOrigin(o) BY DEF Shape, OriginsShape, CInv, ArenaOK, Ids
<1>5. PICK j \in 1..Len(o.value.data) : m = o.value.data[j]
  BY <1>4, MembersShape DEF IsOrigin, Shape, Range
<1>6. Kept(nodes[id], notes, o.at, m) BY <1>3, <1>5 DEF KeptOf
<1>7. InNotes(notes, o.at, m) => IsNoted(o, m)
  BY DEF InNotes, IsNoted, Range, RecordInv, IsSequence
<1> QED BY <1>6, <1>7 DEF Kept

(* "Anything that cannot be lowered is recorded": whatever the document,   *)
(* every constraint of an accepted schema is in its node or in the report, *)
(* but for those that Mistyped lists.                                      *)
THEOREM ConstraintsRecordedCorrect == CSpec => []ConstraintsRecorded
BY ShapeInductive, RecordInit, RecordStep, RecordImplies, PTL DEF CSpec

ReachedStep(f, d, k) == IF k = 0 THEN {d} ELSE UNION { {v} \cup Uses(d, v) : v \in f[k - 1] }

(* All that a schema rests on, by the equation of Reached. *)
LEMMA ReachedExists ==
  ASSUME NEW d
  PROVE  \E f : f = [k \in 0..MaxCalls |-> ReachedStep(f, d, k)]
<1> DEFINE Good(f, n) == \A k \in 0..n : f[k] = ReachedStep(f, d, k)
           bad == { n \in 0..MaxCalls : ~\E f : Good(f, n) }
<1>0. MaxCalls \in Nat BY CompilerAssumption
<1>1. bad = {}
  <2>1. SUFFICES ASSUME bad # {} PROVE FALSE OBVIOUS
  <2>2. PICK n \in bad : \A m \in bad : n <= m
    <3> HIDE DEF bad
    <3>1. bad \subseteq Nat BY <1>0 DEF bad
    <3> QED BY <2>1, <3>1, LeastNumber
  <2>3. n \in 0..MaxCalls /\ \A m \in 0..MaxCalls : m < n => \E f : Good(f, m) BY <2>2
  <2>4. \E f : Good(f, n)
    <3>1. CASE n = 0
      <4> DEFINE none == [k \in {} |-> k]
                 base == [k \in 0..0 |-> ReachedStep(none, d, 0)]
      <4>1. ReachedStep(base, d, 0) = ReachedStep(none, d, 0) BY Zenon DEF ReachedStep
      <4>2. base[0] = ReachedStep(none, d, 0) OBVIOUS
      <4> HIDE DEF base, none
      <4>3. Good(base, 0) BY <4>1, <4>2
      <4> QED BY <3>1, <4>3
    <3>2. CASE n # 0
      <4>1. n - 1 \in 0..MaxCalls /\ n - 1 < n BY <1>0, <2>3, <3>2
      <4>2. PICK f : Good(f, n - 1) BY <2>3, <4>1
      <4> DEFINE g == [k \in 0..n |-> IF k = n THEN ReachedStep(f, d, n) ELSE f[k]]
      <4>3. \A k \in 0..n : k # n => k \in 0..(n - 1) /\ g[k] = f[k] BY <2>3
      <4>4. ASSUME NEW k \in 0..n PROVE ReachedStep(g, d, k) = ReachedStep(f, d, k)
        <5>1. k # 0 => k - 1 \in 0..n /\ k - 1 # n BY <2>3
        <5>2. k # 0 => g[k - 1] = f[k - 1] BY <4>3, <5>1
        <5> HIDE DEF g
        <5> QED BY <5>2 DEF ReachedStep
      <4>5. Good(g, n)
        <5> SUFFICES ASSUME NEW k \in 0..n PROVE g[k] = ReachedStep(f, d, k) BY <4>4
        <5>1. CASE k = n BY <5>1
        <5>2. CASE k # n BY <4>2, <4>3, <5>2
        <5> QED BY <5>1, <5>2
      <4> HIDE DEF g, Good
      <4> QED BY <4>5
    <3> QED BY <3>1, <3>2
  <2> QED BY <2>2, <2>4
<1>2. PICK f : Good(f, MaxCalls)
  <2>1. MaxCalls \in 0..MaxCalls BY <1>0
  <2> QED BY <1>1, <2>1
<1> DEFINE g == [k \in 0..MaxCalls |-> f[k]]
<1>3. ASSUME NEW k \in 0..MaxCalls PROVE g[k] = ReachedStep(g, d, k)
  <2>1. k # 0 => k - 1 \in 0..MaxCalls BY <1>0
  <2>2. g[k] = f[k] /\ (k # 0 => g[k - 1] = f[k - 1]) BY <2>1
  <2> HIDE DEF g
  <2> QED BY <1>2, <2>2 DEF ReachedStep
<1>4. g = [k \in 0..MaxCalls |-> g[k]] OBVIOUS
<1> HIDE DEF g
<1>5. g = [k \in 0..MaxCalls |-> ReachedStep(g, d, k)] BY <1>3, <1>4
<1> QED BY <1>5

LEMMA ReachedIs ==
  ASSUME NEW d
  PROVE  \E f : Reached(d) = f[MaxCalls] /\ \A k \in 0..MaxCalls : f[k] = ReachedStep(f, d, k)
<1> DEFINE F(f) == f = [k \in 0..MaxCalls |-> ReachedStep(f, d, k)]
           g == CHOOSE f : F(f)
<1>1. PICK h : F(h) BY ReachedExists
<1>2. F(g)
  <2> HIDE DEF F
  <2> QED BY <1>1
<1>3. Reached(d) = g[MaxCalls] BY Zenon DEF Reached, ReachedStep
<1>4. ASSUME NEW k \in 0..MaxCalls PROVE g[k] = ReachedStep(g, d, k)
  <2> HIDE DEF g
  <2> QED BY <1>2
<1> HIDE DEF g, F
<1> QED BY <1>3, <1>4

HopStep(f, d, v, k) == IF k = 0 THEN v ELSE Once(f[k - 1], LAMBDA u : Hop(d, u))

(* The end of a chain of references, by the equation of Meant. *)
LEMMA MeantExists ==
  ASSUME NEW d, NEW v
  PROVE  \E f : f = [k \in 0..MaxCalls |-> HopStep(f, d, v, k)]
<1> DEFINE Good(f, n) == \A k \in 0..n : f[k] = HopStep(f, d, v, k)
           bad == { n \in 0..MaxCalls : ~\E f : Good(f, n) }
<1>0. MaxCalls \in Nat BY CompilerAssumption
<1>1. bad = {}
  <2>1. SUFFICES ASSUME bad # {} PROVE FALSE OBVIOUS
  <2>2. PICK n \in bad : \A m \in bad : n <= m
    <3> HIDE DEF bad
    <3>1. bad \subseteq Nat BY <1>0 DEF bad
    <3> QED BY <2>1, <3>1, LeastNumber
  <2>3. n \in 0..MaxCalls /\ \A m \in 0..MaxCalls : m < n => \E f : Good(f, m) BY <2>2
  <2>4. \E f : Good(f, n)
    <3>1. CASE n = 0
      <4> DEFINE none == [k \in {} |-> k]
                 base == [k \in 0..0 |-> HopStep(none, d, v, 0)]
      <4>1. HopStep(base, d, v, 0) = HopStep(none, d, v, 0) BY Zenon DEF HopStep
      <4>2. base[0] = HopStep(none, d, v, 0) OBVIOUS
      <4> HIDE DEF base, none
      <4>3. Good(base, 0) BY <4>1, <4>2
      <4> QED BY <3>1, <4>3
    <3>2. CASE n # 0
      <4>1. n - 1 \in 0..MaxCalls /\ n - 1 < n BY <1>0, <2>3, <3>2
      <4>2. PICK f : Good(f, n - 1) BY <2>3, <4>1
      <4> DEFINE g == [k \in 0..n |-> IF k = n THEN HopStep(f, d, v, n) ELSE f[k]]
      <4>3. \A k \in 0..n : k # n => k \in 0..(n - 1) /\ g[k] = f[k] BY <2>3
      <4>4. ASSUME NEW k \in 0..n PROVE HopStep(g, d, v, k) = HopStep(f, d, v, k)
        <5>1. k # 0 => k - 1 \in 0..n /\ k - 1 # n BY <2>3
        <5>2. k # 0 => g[k - 1] = f[k - 1] BY <4>3, <5>1
        <5> HIDE DEF g
        <5> QED BY <5>2 DEF HopStep
      <4>5. Good(g, n)
        <5> SUFFICES ASSUME NEW k \in 0..n PROVE g[k] = HopStep(f, d, v, k) BY <4>4
        <5>1. CASE k = n BY <5>1
        <5>2. CASE k # n BY <4>2, <4>3, <5>2
        <5> QED BY <5>1, <5>2
      <4> HIDE DEF g, Good
      <4> QED BY <4>5
    <3> QED BY <3>1, <3>2
  <2> QED BY <2>2, <2>4
<1>2. PICK f : Good(f, MaxCalls)
  <2>1. MaxCalls \in 0..MaxCalls BY <1>0
  <2> QED BY <1>1, <2>1
<1> DEFINE g == [k \in 0..MaxCalls |-> f[k]]
<1>3. ASSUME NEW k \in 0..MaxCalls PROVE g[k] = HopStep(g, d, v, k)
  <2>1. k # 0 => k - 1 \in 0..MaxCalls BY <1>0
  <2>2. g[k] = f[k] /\ (k # 0 => g[k - 1] = f[k - 1]) BY <2>1
  <2> HIDE DEF g
  <2> QED BY <1>2, <2>2 DEF HopStep
<1>4. g = [k \in 0..MaxCalls |-> g[k]] OBVIOUS
<1> HIDE DEF g
<1>5. g = [k \in 0..MaxCalls |-> HopStep(g, d, v, k)] BY <1>3, <1>4
<1> QED BY <1>5

LEMMA MeantIs ==
  ASSUME NEW d, NEW v
  PROVE  \E f : Meant(d, v) = f[MaxCalls] /\ \A k \in 0..MaxCalls : f[k] = HopStep(f, d, v, k)
<1> DEFINE F(f) == f = [k \in 0..MaxCalls |-> HopStep(f, d, v, k)]
           g == CHOOSE f : F(f)
<1>1. PICK h : F(h) BY MeantExists, ZenonT(60)
<1>2. F(g)
  <2>1. \E f : F(f) BY <1>1
  <2> HIDE DEF F
  <2> QED BY ONLY <2>1, Zenon
<1>3. Meant(d, v) = g[MaxCalls] BY Zenon DEF Meant, HopStep
<1>4. ASSUME NEW k \in 0..MaxCalls PROVE g[k] = HopStep(g, d, v, k)
  <2> HIDE DEF g
  <2> QED BY <1>2
<1> HIDE DEF g, F
<1> QED BY <1>3, <1>4

(* What is reached in k steps. *)
Levels(d) ==
  CHOOSE f : Reached(d) = f[MaxCalls] /\ \A k \in 0..MaxCalls : f[k] = ReachedStep(f, d, k)

LEMMA LevelsAre ==
  ASSUME NEW d
  PROVE  /\ Reached(d) = Levels(d)[MaxCalls] /\ Levels(d)[0] = {d}
         /\ \A k \in 1..MaxCalls : Levels(d)[k] = UNION { {v} \cup Uses(d, v) : v \in Levels(d)[k - 1] }
<1> DEFINE F(f) == Reached(d) = f[MaxCalls] /\ \A k \in 0..MaxCalls : f[k] = ReachedStep(f, d, k)
           g == CHOOSE f : F(f)
<1>0. MaxCalls \in Nat \ {0} BY CompilerAssumption
<1>1. PICK h : F(h) BY ReachedIs
<1>2. F(g)
  <2> HIDE DEF F
  <2> QED BY <1>1
<1>3. Levels(d) = g BY DEF Levels
<1> HIDE DEF g
<1>4. g[0] = {d}
  <2>1. ReachedStep(g, d, 0) = {d} BY Zenon DEF ReachedStep
  <2> QED BY <1>0, <1>2, <2>1
<1>5. ASSUME NEW k \in 1..MaxCalls PROVE g[k] = UNION { {v} \cup Uses(d, v) : v \in g[k - 1] }
  <2>1. k \in 0..MaxCalls /\ k # 0 BY <1>0
  <2> QED BY <1>2, <2>1 DEF ReachedStep
<1> QED BY <1>2, <1>3, <1>4, <1>5

LEMMA LevelUp ==
  ASSUME NEW d, NEW k \in 1..MaxCalls, NEW v \in Levels(d)[k - 1]
  PROVE  v \in Levels(d)[k] /\ Uses(d, v) \subseteq Levels(d)[k]
BY LevelsAre

LEMMA LevelReached ==
  ASSUME NEW d, NEW k \in 0..MaxCalls
  PROVE  Levels(d)[k] \subseteq Reached(d)
<1>0. MaxCalls \in Nat BY CompilerAssumption
<1> SUFFICES ASSUME NEW v \in Levels(d)[k] PROVE v \in Reached(d) OBVIOUS
<1> DEFINE bad == { n \in 0..MaxCalls : k <= n /\ v \notin Levels(d)[n] }
<1>1. bad = {}
  <2>1. SUFFICES ASSUME bad # {} PROVE FALSE OBVIOUS
  <2>2. PICK n \in bad : \A m \in bad : n <= m
    <3> HIDE DEF bad
    <3>1. bad \subseteq Nat BY <1>0 DEF bad
    <3> QED BY <2>1, <3>1, LeastNumber
  <2>3. n \in 0..MaxCalls /\ k <= n /\ v \notin Levels(d)[n] BY <2>2
  <2>4. n # k BY <2>3
  <2>5. n - 1 \in 0..MaxCalls /\ k <= n - 1 /\ n \in 1..MaxCalls /\ n - 1 < n BY <1>0, <2>3, <2>4
  <2>6. v \in Levels(d)[n - 1] BY <2>2, <2>5
  <2> QED BY <2>3, <2>5, <2>6, LevelUp
<1> QED BY <1>0, <1>1, LevelsAre

-----------------------------------------------------------------------------
(* Chains of references. *)

LEMMA OnceHop == ASSUME NEW d, NEW s PROVE Once(s, LAMBDA u : Hop(d, u)) = Hop(d, s)
<1>1. { Hop(d, z) : z \in {s} } = { Hop(d, s) } OBVIOUS
<1> QED BY <1>1 DEF Once

Hops(d, v) ==
  CHOOSE f : Meant(d, v) = f[MaxCalls] /\ \A k \in 0..MaxCalls : f[k] = HopStep(f, d, v, k)

LEMMA HopsAre ==
  ASSUME NEW d, NEW v
  PROVE  /\ Meant(d, v) = Hops(d, v)[MaxCalls] /\ Hops(d, v)[0] = v
         /\ \A k \in 1..MaxCalls : Hops(d, v)[k] = Hop(d, Hops(d, v)[k - 1])
<1> DEFINE F(f) == Meant(d, v) = f[MaxCalls] /\ \A k \in 0..MaxCalls : f[k] = HopStep(f, d, v, k)
           g == CHOOSE f : F(f)
<1>0. MaxCalls \in Nat \ {0} BY CompilerAssumption
<1>1. PICK h : F(h) BY MeantIs
<1>2. F(g)
  <2> HIDE DEF F
  <2> QED BY <1>1
<1>3. Hops(d, v) = g BY DEF Hops
<1> HIDE DEF g
<1>4. g[0] = v
  <2>1. HopStep(g, d, v, 0) = v BY Zenon DEF HopStep
  <2> QED BY <1>0, <1>2, <2>1
<1>5. ASSUME NEW k \in 1..MaxCalls PROVE g[k] = Hop(d, g[k - 1])
  <2>1. k \in 0..MaxCalls /\ k # 0 BY <1>0
  <2>2. HopStep(g, d, v, k) = Once(g[k - 1], LAMBDA u : Hop(d, u)) BY <2>1, Zenon DEF HopStep
  <2>3. HopStep(g, d, v, k) = Hop(d, g[k - 1]) BY <2>2, OnceHop
  <2> QED BY <1>2, <2>1, <2>3
<1> QED BY <1>2, <1>3, <1>4, <1>5

(* A chain ends where something is no reference. *)
LEMMA ChainEnds ==
  ASSUME NEW d, NEW v, NEW k \in 0..MaxCalls, ~IsRef(Hops(d, v)[k])
  PROVE  Meant(d, v) = Hops(d, v)[k]
<1>0. MaxCalls \in Nat BY CompilerAssumption
<1> DEFINE x == Hops(d, v)[k]
           bad == { n \in 0..MaxCalls : k <= n /\ Hops(d, v)[n] # x }
<1>1. bad = {}
  <2>1. SUFFICES ASSUME bad # {} PROVE FALSE OBVIOUS
  <2>2. PICK n \in bad : \A m \in bad : n <= m
    <3> HIDE DEF bad
    <3>1. bad \subseteq Nat BY <1>0 DEF bad
    <3> QED BY <2>1, <3>1, LeastNumber
  <2>3. n \in 0..MaxCalls /\ k <= n /\ Hops(d, v)[n] # x BY <2>2
  <2>4. n # k BY <2>3
  <2>5. n - 1 \in 0..MaxCalls /\ k <= n - 1 /\ n \in 1..MaxCalls /\ n - 1 < n BY <1>0, <2>3, <2>4
  <2>6. Hops(d, v)[n - 1] = x BY <2>2, <2>5
  <2>7. Hops(d, v)[n] = Hop(d, x) BY <2>5, <2>6, HopsAre
  <2> QED BY <2>3, <2>7 DEF Hop
<1> QED BY <1>0, <1>1, HopsAre

(* One hop further along, the same end, if there is an end. *)
LEMMA HopMeansTheSame ==
  ASSUME NEW d, NEW v, ~IsRef(Meant(d, v))
  PROVE  Meant(d, Hop(d, v)) = Meant(d, v)
<1>0. MaxCalls \in Nat \ {0} BY CompilerAssumption
<1> DEFINE u == Hop(d, v)
           bad == { n \in 0..(MaxCalls - 1) : Hops(d, u)[n] # Hops(d, v)[n + 1] }
<1>1. bad = {}
  <2>1. SUFFICES ASSUME bad # {} PROVE FALSE OBVIOUS
  <2>2. PICK n \in bad : \A m \in bad : n <= m
    <3> HIDE DEF bad
    <3>1. bad \subseteq Nat BY <1>0 DEF bad
    <3> QED BY <2>1, <3>1, LeastNumber
  <2>3. n \in 0..(MaxCalls - 1) /\ Hops(d, u)[n] # Hops(d, v)[n + 1] BY <2>2
  <2>4. CASE n = 0
    <3>1. 1 \in 1..MaxCalls BY <1>0
    <3>2. Hops(d, v)[1] = Hop(d, Hops(d, v)[0]) BY <3>1, HopsAre
    <3> QED BY <2>3, <2>4, <3>2, HopsAre
  <2>5. CASE n # 0
    <3>1. n - 1 \in 0..(MaxCalls - 1) /\ n - 1 < n /\ n \in 1..MaxCalls /\ n + 1 \in 1..MaxCalls
          /\ n - 1 + 1 = n /\ n + 1 - 1 = n
      BY <1>0, <2>3, <2>5
    <3>2. Hops(d, u)[n - 1] = Hops(d, v)[n] BY <2>2, <3>1
    <3> HIDE DEF u
    <3>3. Hops(d, u)[n] = Hop(d, Hops(d, u)[n - 1]) BY <3>1, HopsAre
    <3>4. Hops(d, v)[n + 1] = Hop(d, Hops(d, v)[n]) BY <3>1, HopsAre
    <3> QED BY <2>3, <3>2, <3>3, <3>4
  <2> QED BY <2>4, <2>5
<1>2. Hops(d, u)[MaxCalls - 1] = Meant(d, v)
  <2>1. MaxCalls - 1 \in 0..(MaxCalls - 1) /\ MaxCalls - 1 + 1 = MaxCalls BY <1>0
  <2> QED BY <1>1, <2>1, HopsAre
<1>3. MaxCalls - 1 \in 0..MaxCalls BY <1>0
<1> HIDE DEF u
<1> QED BY <1>2, <1>3, ChainEnds DEF u

-----------------------------------------------------------------------------
(* A $ref that is not lenient is followed to what it denotes. *)

LEMMA TargetsOne == ASSUME NEW v, NEW t \in Targets(v) PROVE Targets(v) = {t}
<1> DEFINE r == IF v.type = "Object" THEN Child(v, <<"$ref">>) ELSE None
<1>1. Targets(v) = { x.data : x \in { y \in {r} \ {None} : y.type = "String" } } BY DEF Targets
<1> HIDE DEF r
<1> QED BY <1>1

LEMMA HopIs ==
  ASSUME NEW v, v # None, NEW t \in Targets(v)
  PROVE  /\ IsRef(v) /\ Uses(doc, v) = {Denoted(doc, t)} /\ Hop(doc, v) = Denoted(doc, t)
<1>1. Targets(v) = {t} BY TargetsOne
<1>2. IsRef(v) BY DEF IsRef
<1>3. Uses(doc, v) = {Denoted(doc, t)} BY <1>1 DEF Uses
<1> QED BY <1>2, <1>3 DEF Hop

LEMMA NotLenient ==
  ASSUME Documented, NEW t, IsSequence(t), IsLocal(t), t # <<>>, t[1] = "#", ~Lenient(t)
  PROVE  PointerInto(doc, Tail(t)) = Denoted(doc, t)
<1> DEFINE x == Tail(t)
<1>1. IsSequence(x) /\ Len(x) = Len(t) - 1 /\ Len(t) \in Nat \ {0} BY TailSequence
<1>2. CASE t = <<"#">>
  <2>1. Len(t) = 1 BY <1>2, SingletonSequence
  <2>2. x = <<>>
    <3> HIDE DEF x
    <3> QED BY <1>1, <2>1, NonEmptySequence
  <2>3. ParsePointer(x) = <<>> /\ IsPointer(x) BY <2>2 DEF ParsePointer, IsPointer
  <2>4. Denoted(doc, t) = doc BY <2>2, <2>3, ValueAtRoot DEF Denoted
  <2> QED BY <2>2, <2>4 DEF PointerInto
<1>3. CASE t # <<"#">>
  <2>1. x # <<>>
    <3> SUFFICES ASSUME x = <<>> PROVE FALSE OBVIOUS
    <3>1. Len(t) = 1 BY <1>1, EmptySequence
    <3>2. IsSequence(<<"#">>) /\ Len(<<"#">>) = 1 /\ <<"#">>[1] = "#" BY SingletonSequence
    <3>3. t = <<"#">> BY <3>1, <3>2, SameSequence
    <3> QED BY <1>3, <3>3
  <2>2. Trimmed(x) = Tail(x) BY <1>3 DEF Lenient
  <2>3. Len(x) \in Nat \ {0} /\ Len(Tail(x)) = Len(x) - 1 /\ DOMAIN x = 1..Len(x)
    BY <1>1, <2>1, TailSequence DEF IsSequence
  <2>4. x[1] = "slash"
    <3> SUFFICES ASSUME x[1] # "slash" PROVE FALSE OBVIOUS
    <3> DEFINE rest == { i \in DOMAIN x : x[i] # "slash" }
    <3>1. 1 \in rest /\ rest \subseteq Nat \ {0} BY <2>3
    <3>2. Trimmed(x) = SubSeq(x, Min(rest), Len(x)) BY <3>1 DEF Trimmed
    <3> HIDE DEF rest
    <3>3. Min(rest) = 1
      <4>1. \A y \in rest : 1 <= y BY <3>1
      <4>2. Min(rest) \in rest /\ \A y \in rest : Min(rest) <= y BY <3>1, <4>1, Zenon DEF Min
      <4>3. Min(rest) <= 1 /\ Min(rest) \in Nat \ {0} BY <3>1, <4>2
      <4> QED BY <4>3
    <3>4. Len(SubSeq(x, 1, Len(x))) = Len(x)
      <4>1. \A i \in 1..Len(x) : x[i] \in Elements(x) BY DEF Elements
      <4> HIDE DEF x
      <4> QED BY <2>3, <4>1, SubSeqProperties
    <3>5. Len(Trimmed(x)) = Len(x) BY <3>2, <3>3, <3>4
    <3>6. Len(Trimmed(x)) = Len(x) - 1 BY <2>2, <2>3
    <3>7. Len(x) = Len(x) - 1 /\ Len(x) \in Int BY <2>3, <3>5, <3>6
    <3>8. \A n \in Int : n # n - 1 OBVIOUS
    <3> QED BY <3>7, <3>8
  <2>5. IsPointer(x) BY <2>4 DEF IsPointer
  <2>6. ParsePointer(x) = Once(Tail(x), Tokens) BY <2>1, <2>5, Zenon DEF ParsePointer
  <2>7. Denoted(doc, t) = ValueIn(doc, ParsePointer(x)) BY <2>5 DEF Denoted
  <2>8. PointerInto(doc, x) = ValueIn(doc, Once(Trimmed(x), Tokens)) BY <2>1, Zenon DEF PointerInto
  <2> QED BY <2>2, <2>6, <2>7, <2>8, OnceTokens
<1> QED BY <1>2, <1>3

-----------------------------------------------------------------------------
(* Where the compiler gets to: within what the document rests on.          *)

InReach ==
  /\ call # None => call.value \in Levels(doc)[call.depth - 1]
  /\ \A i \in 1..Len(frames) : frames[i].value \in Levels(doc)[frames[i].depth - 1]

(* Why it gives up. *)
RefusedOK ==
  /\ doc = Malformed => /\ call # None => call.value = Malformed
                        /\ frames = <<>> /\ (Done => result.type = "NotJson")
  /\ Done /\ result.type = "NotJson" => doc = Malformed
  /\ ~LenientPointer => /\ InReach
                        /\ Done /\ result.type = "NotASchema" =>
                             \E v \in Reached(doc) \ {None} : v.type \notin {"Bool", "Object"}
                        /\ Done /\ result.type = "UnresolvableRef" => None \in Reached(doc)

LEMMA SameDocument ==
  ASSUME doc' = doc
  PROVE  (LenientPointer <=> LenientPointer')
BY DEF LenientPointer

LEMMA ReachFrames ==
  ASSUME InReach, doc' = doc, call' = None, Len(frames') <= Len(frames), Len(frames) \in Nat,
         \A i \in 1..Len(frames') : frames'[i].value = frames[i].value /\ frames'[i].depth = frames[i].depth
  PROVE  InReach'
BY DEF InReach

(* A call in reach, whose $ref is not lenient. *)
LEMMA CallReached ==
  ASSUME CInv, Shape, ~LenientPointer, InReach, call # None
  PROVE  /\ call.value \in Reached(doc) \ {None} /\ call.depth \in 1..MaxCalls
         /\ Uses(doc, call.value) \subseteq Levels(doc)[call.depth]
         /\ Uses(doc, call.value) \subseteq Reached(doc)
         /\ \A t \in Targets(call.value) : IsLocal(t) => PointerInto(doc, Tail(t)) = Denoted(doc, t)
<1>0. MaxCalls \in Nat \ {0} BY CompilerAssumption
<1>1. call.depth \in 1..MaxCalls /\ call.value \in Levels(doc)[call.depth - 1]
  BY DEF CInv, CallsOK, InReach
<1>2. call.value \in Within(doc) /\ call.value # None BY WithinShape DEF Shape, CallShape
<1>3. call.depth \in 0..MaxCalls BY <1>0, <1>1
<1>4. call.value \in Levels(doc)[call.depth] /\ Uses(doc, call.value) \subseteq Levels(doc)[call.depth]
  BY <1>1, LevelUp
<1>5. call.value \in Reached(doc) /\ Uses(doc, call.value) \subseteq Reached(doc)
  BY <1>3, <1>4, LevelReached
<1>6. ASSUME NEW t \in Targets(call.value), IsLocal(t) PROVE PointerInto(doc, Tail(t)) = Denoted(doc, t)
  <2>1. ~Lenient(t) BY <1>2, <1>5 DEF LenientPointer
  <2>2. IsSequence(t) /\ t # <<>> /\ t[1] = "#" BY <1>2, <1>6, TargetsShape DEF Shape
  <2> QED BY <1>6, <2>1, <2>2, NotLenient DEF Shape
<1> QED BY <1>1, <1>2, <1>4, <1>5, <1>6

LEMMA NoneTargets == Targets(Malformed) = {}
BY DEF Targets, Malformed

(* A number goes to the innermost activation of `st`, the stack without    *)
(* the callee; the others stay.                                            *)
LEMMA ReturnSame ==
  ASSUME CInv, NEW st, NEW n \in Nat, IsCallStack(st, n), NEW id, Return(st, id),
         Len(st) <= Len(frames), \A i \in 1..Len(st) : st[i] = frames[i]
  PROVE  /\ call' = None /\ Len(st) \in Nat /\ Len(frames') = Len(st)
         /\ \A i \in 1..Len(st) : i \in 1..Len(frames) /\ Same(frames'[i], frames[i])
         /\ \A i \in 1..Len(st) : i # Len(st) => frames'[i] = frames[i]
         /\ st = <<>> => frames' = <<>> /\ result' = Ok(id)
         /\ st # <<>> => /\ result' = result /\ Len(st) > 0
                         /\ frames'[Len(st)].ids = Append(frames[Len(st)].ids, id)
<1>1. /\ call' = None /\ Len(st) \in Nat
      /\ st = <<>> => frames' = <<>> /\ Len(frames') = 0 /\ result' = Ok(id)
      /\ st # <<>> => /\ result' = result /\ Len(st) > 0 /\ Len(frames') = Len(st)
                      /\ \A i \in 1..Len(st) : i # Len(st) => frames'[i] = st[i]
                      /\ Same(frames'[Len(st)], st[Len(st)])
                      /\ frames'[Len(st)].ids = Append(st[Len(st)].ids, id)
  BY ReturnStep
<1>2. Len(frames) \in Nat BY DEF CInv, CallsOK, IsCallStack, IsSequence
<1>3. CASE st = <<>> BY <1>1, <1>3, EmptySequence
<1>4. CASE st # <<>>
  <2>1. st[Len(st)] = frames[Len(st)] BY <1>1, <1>4
  <2>2. ASSUME NEW i \in 1..Len(st) PROVE i \in 1..Len(frames) /\ Same(frames'[i], frames[i])
    <3>1. i \in 1..Len(frames) BY <1>1, <1>2
    <3>2. CASE i = Len(st) BY <1>1, <1>4, <2>1, <3>1, <3>2
    <3>3. CASE i # Len(st) BY <1>1, <1>4, <3>1, <3>3 DEF Same
    <3> QED BY <3>2, <3>3
  <2>3. \A i \in 1..Len(st) : i # Len(st) => frames'[i] = frames[i] BY <1>1, <1>4
  <2> QED BY <1>1, <1>4, <2>1, <2>2, <2>3
<1> QED BY <1>3, <1>4

(* A return leaves the compiler in reach; it refuses nothing.              *)
LEMMA ReachReturn ==
  ASSUME CInv, RefusedOK, RecordInv, Lowering \/ Looping, doc' = doc, doc # Malformed,
         NEW st, NEW n \in Nat, IsCallStack(st, n), NEW id, Return(st, id),
         Len(st) <= Len(frames), \A i \in 1..Len(st) : st[i] = frames[i]
  PROVE  RefusedOK'
<1>1. ~Done BY RunningKept
<1>2. /\ call' = None /\ Len(st) \in Nat /\ Len(frames') = Len(st)
      /\ \A i \in 1..Len(st) : i \in 1..Len(frames) /\ Same(frames'[i], frames[i])
      /\ result' = Ok(id) \/ result' = result
  BY ReturnSame
<1>3. Done' => result'.type = "Ok" BY <1>1, <1>2 DEF Done, Ok
<1>4. Len(frames) \in Nat BY DEF CInv, CallsOK, IsCallStack, IsSequence
<1>5. ~LenientPointer' => InReach'
  <2>1. ~LenientPointer' => InReach BY SameDocument DEF RefusedOK
  <2>2. \A i \in 1..Len(frames') : frames'[i].value = frames[i].value /\ frames'[i].depth = frames[i].depth
    BY <1>2 DEF Same
  <2> QED BY <1>2, <1>4, <2>1, <2>2, ReachFrames
<1> QED BY <1>3, <1>5 DEF RefusedOK

LEMMA ReachLowerBoolean ==
  ASSUME CInv, Shape, RecordInv, RefusedOK, LowerBoolean
  PROVE  RefusedOK'
<1>1. /\ call # None /\ call.value.type = "Bool" /\ Return(frames, Len(nodes')) /\ doc' = doc
  BY DEF LowerBoolean, Lowering
<1>2. IsCallStack(frames, Len(nodes)) /\ Len(nodes) \in Nat BY DEF CInv, CallsOK, ArenaOK, IsSequence
<1>3. doc # Malformed BY <1>1 DEF RefusedOK, Malformed
<1>4. Len(frames) \in Nat BY <1>2 DEF IsCallStack, IsSequence
<1> QED BY <1>1, <1>2, <1>3, <1>4, ReachReturn DEF LowerBoolean

LEMMA ReachLowerObject ==
  ASSUME CInv, Shape, RecordInv, RefusedOK, LowerObject
  PROVE  RefusedOK'
<1>1. Lowering /\ call # None /\ call.value.type = "Object" /\ doc' = doc /\ call' = None /\ result' = result
  BY DEF LowerObject, Lowering
<1>2. doc # Malformed BY <1>1 DEF RefusedOK, Malformed
<1>3. ~Done /\ ~Done' BY <1>1, RunningKept DEF Done
<1>4. /\ Len(frames') = Len(frames) + 1 /\ Len(frames) \in Nat
      /\ \A i \in 1..Len(frames) : frames'[i] = frames[i]
      /\ IsFresh(frames'[Len(frames) + 1], Len(nodes) + 1)
  BY PushStep
<1>5. ASSUME ~LenientPointer' PROVE InReach'
  <2>1. InReach BY <1>1, <1>5, SameDocument DEF RefusedOK
  <2>2. ASSUME NEW i \in 1..Len(frames') PROVE frames'[i].value \in Levels(doc)[frames'[i].depth - 1]
    <3>1. CASE i = Len(frames) + 1 BY <1>1, <1>4, <2>1, <3>1 DEF InReach, IsFresh
    <3>2. CASE i # Len(frames) + 1 BY <1>4, <2>1, <3>2 DEF InReach
    <3> QED BY <3>1, <3>2
  <2> QED BY <1>1, <2>2 DEF InReach
<1> QED BY <1>1, <1>2, <1>3, <1>5 DEF RefusedOK

(* A refusal, with its reason. *)
LEMMA ReachRefuse ==
  ASSUME NEW kind, kind # "Ok", Refuse(kind), kind = "NotJson" <=> doc = Malformed,
         ~LenientPointer /\ kind = "NotASchema" =>
           \E v \in Reached(doc) \ {None} : v.type \notin {"Bool", "Object"},
         ~LenientPointer /\ kind = "UnresolvableRef" => None \in Reached(doc)
  PROVE  RefusedOK'
<1>1. call' = None /\ frames' = <<>> /\ result' = Err(kind) /\ doc' = doc BY DEF Refuse
<1>2. Len(frames') = 0 BY <1>1, EmptySequence
<1>3. result'.type = kind BY <1>1 DEF Err
<1>4. InReach' BY <1>1, <1>2 DEF InReach
<1>5. LenientPointer' <=> LenientPointer BY <1>1, SameDocument
<1> QED BY <1>1, <1>3, <1>4, <1>5 DEF RefusedOK

LEMMA ReachParseFails ==
  ASSUME ParseFails
  PROVE  RefusedOK'
BY ReachRefuse DEF ParseFails

LEMMA ReachNotASchema ==
  ASSUME CInv, Shape, RefusedOK, NotASchema
  PROVE  RefusedOK'
<1>1. call # None /\ call.value.type \notin {"Bool", "Object", "Malformed"} /\ Refuse("NotASchema")
  BY DEF NotASchema, Lowering
<1>2. doc # Malformed BY <1>1 DEF RefusedOK, Malformed
<1>3. ~LenientPointer => \E v \in Reached(doc) \ {None} : v.type \notin {"Bool", "Object"}
  BY <1>1, CallReached DEF RefusedOK
<1> QED BY <1>1, <1>2, <1>3, ReachRefuse

LEMMA ReachResolveRef ==
  ASSUME CInv, Shape, RecordInv, RefusedOK, ResolveRef
  PROVE  RefusedOK'
<1>0. Lowering /\ call # None BY DEF ResolveRef, Lowering
<1>1. PICK target \in Targets(call.value) :
        \/ RefRemote(target)
        \/ /\ IsLocal(target)
           /\ \E pointer \in { Tail(target) } :
                RefInProgress(pointer) \/ RefDangling(pointer) \/ RefFollow(pointer)
  BY DEF ResolveRef
<1>2. doc # Malformed
  <2>1. Targets(Malformed) = {} BY NoneTargets
  <2>2. doc = Malformed => call.value = Malformed BY <1>0 DEF RefusedOK
  <2> QED BY <1>1, <2>1, <2>2
<1>3. call.value # None BY <1>0, WithinShape DEF Shape, CallShape
<1>4. /\ Uses(doc, call.value) = {Denoted(doc, target)}
      /\ ~LenientPointer => /\ Uses(doc, call.value) \subseteq Reached(doc)
                            /\ Uses(doc, call.value) \subseteq Levels(doc)[call.depth]
                            /\ IsLocal(target) => PointerInto(doc, Tail(target)) = Denoted(doc, target)
  BY <1>0, <1>1, <1>3, HopIs, CallReached DEF RefusedOK
<1>5. CASE RefRemote(target)
  <2>1. Refuse("UnresolvableRef") /\ ~IsLocal(target) BY <1>5 DEF RefRemote
  <2>2. Denoted(doc, target) = None BY <2>1 DEF Denoted
  <2> QED BY <1>2, <1>4, <2>1, <2>2, ReachRefuse
<1>6. ASSUME NEW pointer, RefInProgress(pointer) PROVE RefusedOK'
  <2>1. /\ Return(frames, in_progress[pointer]) /\ doc' = doc
        /\ IsCallStack(frames, Len(nodes)) /\ Len(nodes) \in Nat /\ Len(frames) \in Nat
    BY <1>6 DEF RefInProgress, CInv, CallsOK, ArenaOK, IsSequence, IsCallStack
  <2> QED BY <1>0, <1>2, <2>1, ReachReturn
<1>7. ASSUME IsLocal(target), RefDangling(Tail(target)) PROVE RefusedOK'
  <2>1. Refuse("UnresolvableRef") /\ PointerInto(doc, Tail(target)) = None BY <1>7 DEF RefDangling
  <2> QED BY <1>2, <1>4, <1>7, <2>1, ReachRefuse
<1>8. ASSUME IsLocal(target), RefFollow(Tail(target)) PROVE RefusedOK'
  <2>1. /\ call' = Call(PointerInto(doc, Tail(target)), Tail(target), call.depth + 1)
        /\ UNCHANGED <<doc, frames, result>>
    BY <1>8 DEF RefFollow
  <2>2. ~Done /\ ~Done' BY <1>0, <2>1, RunningKept DEF Done
  <2>3. call'.value = PointerInto(doc, Tail(target)) /\ call'.depth - 1 = call.depth
    BY <1>0, <2>1 DEF Call, CInv, CallsOK
  <2>4. ASSUME ~LenientPointer' PROVE InReach'
    <3>1. ~LenientPointer /\ InReach BY <2>1, <2>4, SameDocument DEF RefusedOK
    <3>2. call'.value \in Levels(doc)[call'.depth - 1] BY <1>4, <1>8, <2>3, <3>1
    <3> QED BY <2>1, <3>1, <3>2 DEF InReach
  <2> QED BY <1>2, <2>1, <2>2, <2>4 DEF RefusedOK
<1> QED BY <1>1, <1>5, <1>6, <1>7, <1>8

(* What an activation is lowering is a subschema of its object. *)
Subs(f) == Subschemas(Word(f.value.data[f.member].token), f.value.data[f.member].value)

Wanted(f) == Subs(f)[Len(f.ids) + 1].value

LEMMA DescendStep ==
  ASSUME CInv, Shape, Descend
  PROVE  /\ UNCHANGED <<doc, nodes, in_progress, frames, result, origins>> /\ Top = frames[Len(frames)]
         /\ Len(frames) \in 1..Len(frames) /\ call'.value = Wanted(Top) /\ call'.depth = Top.depth + 1
         /\ Wanted(Top) \in Uses(doc, Top.value)
<1>1. /\ Looping /\ More /\ Len(Top.ids) < Len(Below)
      /\ UNCHANGED <<doc, nodes, in_progress, frames, result, origins>>
      /\ call'.value = Below[Len(Top.ids) + 1].value /\ call'.depth = Top.depth + 1
  BY DEF Descend, Call
<1>2. /\ Top = frames[Len(frames)] /\ Len(frames) \in 1..Len(frames) /\ IsActivation(Top, Len(nodes))
  BY <1>1, LoopFacts, Popped
<1>3. /\ IsBody(Top, origins) /\ Top.member \in 1..Len(Top.value.data) /\ Member \in Within(doc)
      /\ IsSequence(Top.value.data)
  BY <1>1, TopShape
<1>4. Below = Subs(Top) BY DEF Below, Subs, Key, Member
<1>5. IsSequence(Below) /\ Len(Top.ids) \in Nat
  BY <1>2, <1>3, SubschemasShape DEF Below, Shape, IsActivation, IsSequence
<1> DEFINE k == Len(Top.ids) + 1
           m == Top.value.data[Top.member]
<1>6. k \in 1..Len(Below) BY <1>1, <1>5 DEF IsSequence
<1>7. Below[k] \in Range(Below) BY <1>5, <1>6 DEF Range, IsSequence
<1>8. m \in Range(Top.value.data) /\ Below = Subschemas(Word(m.token), m.value)
  BY <1>3 DEF Range, IsSequence, Below, Key, Member
<1>9. Uses(doc, Top.value) =
        UNION { { s.value : s \in Range(Subschemas(Word(c.token), c.value)) } : c \in Range(Top.value.data) }
  BY <1>3, WithinShape DEF Uses, IsBody, Shape
<1> HIDE DEF k, m
<1>10. Below[k].value \in Uses(doc, Top.value) BY <1>7, <1>8, <1>9
<1>11. Wanted(Top) = Below[k].value BY <1>4 DEF Wanted, k
<1> QED BY <1>1, <1>2, <1>10, <1>11 DEF k

LEMMA ReachDescend ==
  ASSUME CInv, Shape, RecordInv, RefusedOK, Descend
  PROVE  RefusedOK'
<1>1. /\ UNCHANGED <<doc, frames, result>> /\ Top = frames[Len(frames)] /\ Len(frames) \in 1..Len(frames)
      /\ call'.value \in Uses(doc, Top.value) /\ call'.depth = Top.depth + 1
  BY DescendStep
<1>2. Looping BY DEF Descend
<1>3. ~Done /\ ~Done' BY <1>1, <1>2, RunningKept DEF Done
<1>4. doc # Malformed BY <1>2 DEF RefusedOK, Looping
<1>5. Top.depth \in 1..MaxCalls /\ call'.depth - 1 = Top.depth BY <1>1, <1>2, LoopFacts DEF IsActivation
<1>6. ASSUME ~LenientPointer' PROVE InReach'
  <2>1. InReach BY <1>1, <1>6, SameDocument DEF RefusedOK
  <2>2. Uses(doc, Top.value) \subseteq Levels(doc)[Top.depth] BY <1>1, <1>5, <2>1, LevelUp DEF InReach
  <2>3. call'.value \in Levels(doc)[call'.depth - 1] BY <1>1, <1>5, <2>2
  <2> QED BY <1>1, <2>1, <2>3 DEF InReach
<1> QED BY <1>1, <1>3, <1>4, <1>6 DEF RefusedOK

LEMMA ReachTakeKeyword ==
  ASSUME CInv, Shape, RecordInv, RefusedOK, TakeKeyword
  PROVE  RefusedOK'
<1>1. Looping /\ UNCHANGED <<doc, result, call>> BY DEF TakeKeyword
<1>2. ~Done /\ ~Done' BY <1>1, RunningKept DEF Done
<1>3. doc # Malformed /\ call' = None BY <1>1 DEF RefusedOK, Looping
<1>4. /\ Len(frames') = Len(frames) /\ Len(frames) \in Nat /\ Len(frames) > 0
      /\ \A i \in 1..Len(frames) : i # Len(frames) => frames'[i] = frames[i]
      /\ IsTaken(frames'[Len(frames)]) /\ Top = frames[Len(frames)]
  BY <1>1, TakeStep, LoopFacts
<1>5. \A i \in 1..Len(frames') : frames'[i].value = frames[i].value /\ frames'[i].depth = frames[i].depth
  BY <1>4 DEF IsTaken
<1>6. ~LenientPointer' => InReach' BY <1>1, <1>3, <1>4, <1>5, ReachFrames, SameDocument DEF RefusedOK
<1> QED BY <1>1, <1>2, <1>3, <1>6 DEF RefusedOK

LEMMA ReachEndObject ==
  ASSUME CInv, Shape, RecordInv, RefusedOK, EndObject
  PROVE  RefusedOK'
<1>1. Looping /\ Return(Front(frames), Top.id) /\ doc' = doc BY DEF EndObject
<1>2. /\ IsCallStack(Front(frames), Len(nodes)) /\ Len(nodes) \in Nat /\ Len(frames) \in Nat
      /\ Len(Front(frames)) = Len(frames) - 1
      /\ \A i \in 1..(Len(frames) - 1) : Front(frames)[i] = frames[i]
  BY <1>1, LoopFacts, FrontSequence DEF IsCallStack, IsSequence
<1>3. doc # Malformed BY <1>1 DEF RefusedOK, Looping
<1> QED BY <1>1, <1>2, <1>3, ReachReturn

LEMMA ReachInit == CInit => RefusedOK
<1> SUFFICES ASSUME CInit PROVE RefusedOK OBVIOUS
<1>1. frames = <<>> /\ call.value = doc /\ call.depth = 1 /\ result = None BY DEF CInit, Call
<1>2. Len(frames) = 0 BY <1>1, EmptySequence
<1>3. InReach BY <1>1, <1>2, LevelsAre DEF InReach
<1> QED BY <1>1, <1>3 DEF RefusedOK, Done

LEMMA ReachStep == CInv /\ Shape /\ RecordInv /\ RefusedOK /\ [CNext]_cvars => RefusedOK'
<1> SUFFICES ASSUME CInv, Shape, RecordInv, RefusedOK, [CNext]_cvars PROVE RefusedOK' OBVIOUS
<1>1. CASE ParseFails BY <1>1, ReachParseFails
<1>2. CASE LowerBoolean BY <1>2, ReachLowerBoolean
<1>3. CASE NotASchema BY <1>3, ReachNotASchema
<1>4. CASE ResolveRef BY <1>4, ReachResolveRef
<1>5. CASE LowerObject BY <1>5, ReachLowerObject
<1>6. CASE Descend BY <1>6, ReachDescend
<1>7. CASE TakeKeyword BY <1>7, ReachTakeKeyword
<1>8. CASE EndObject BY <1>8, ReachEndObject
<1>9. CASE UNCHANGED cvars BY <1>9, SameDocument DEF cvars, RefusedOK, InReach, Done
<1> QED BY <1>1, <1>2, <1>3, <1>4, <1>5, <1>6, <1>7, <1>8, <1>9 DEF CNext

-----------------------------------------------------------------------------
(* What each node is made from: the end of a chain of references that      *)
(* begins at what its caller wanted.                                       *)

Trusted == ~LenientPointer /\ ~Misread

(* What is wanted by the activations up to the i-th: a subschema of that   *)
(* activation's object, or, of none, the document.                         *)
Goal(st, i) == IF i = 0 THEN doc ELSE Wanted(st[i])

TableNames == \A at \in DOMAIN in_progress : origins[in_progress[at]].at = at

CallMeant ==
  call # None => \E j \in 0..(call.depth - 1) : call.value = Hops(doc, Goal(frames, Len(frames)))[j]

StackMeant == \A i \in 1..Len(frames) : frames[i].value = Meant(doc, Goal(frames, i - 1))

IdsMeant(f, os) == \A k \in 1..Len(f.ids) : os[f.ids[k]].value = Meant(doc, Subs(f)[k].value)

AllIdsMeant == \A i \in 1..Len(frames) : IdsMeant(frames[i], origins)

EnterInv ==
  /\ TableNames
  /\ Trusted => /\ CallMeant /\ StackMeant /\ AllIdsMeant
                /\ Accepted => origins[result.id].value = Meant(doc, doc)

(* A schema is entered at more and more places. *)
OriginsKept == origins' = origins \/ \E o : origins' = Append(origins, o)

LEMMA OriginsStay ==
  ASSUME CInv, OriginsKept
  PROVE  /\ \A id \in Ids : origins'[id] = origins[id]
         /\ DOMAIN origins \subseteq DOMAIN origins'
         /\ \A i \in DOMAIN origins : origins'[i] = origins[i]
<1>1. IsSequence(origins) /\ Len(origins) = Len(nodes) /\ DOMAIN origins = 1..Len(origins) /\ Len(origins) \in Nat
  BY DEF CInv, ArenaOK, IsSequence
<1>2. CASE origins' = origins BY <1>2
<1>3. ASSUME NEW o, origins' = Append(origins, o)
      PROVE  /\ \A i \in 1..Len(origins) : origins'[i] = origins[i]
             /\ DOMAIN origins \subseteq DOMAIN origins'
  <2>1. /\ IsSequence(origins') /\ Len(origins') = Len(origins) + 1
        /\ \A i \in 1..Len(origins) : origins'[i] = origins[i]
    BY <1>1, <1>3, AppendSequence
  <2>2. DOMAIN origins' = 1..Len(origins') BY <2>1 DEF IsSequence
  <2> QED BY <1>1, <2>1, <2>2
<1> QED BY <1>1, <1>2, <1>3 DEF OriginsKept, Ids

LEMMA TrustedBefore ==
  ASSUME CInv, OriginsKept, doc' = doc, Trusted'
  PROVE  Trusted
<1>1. DOMAIN origins \subseteq DOMAIN origins' /\ \A i \in DOMAIN origins : origins'[i] = origins[i]
  BY OriginsStay
<1>2. Misread => Misread' BY <1>1 DEF Misread
<1> QED BY <1>2, SameDocument DEF Trusted

LEMMA IdsStayMeant ==
  ASSUME CInv, OriginsKept, NEW i \in 1..Len(frames), IdsMeant(frames[i], origins), NEW g,
         Same(g, frames[i]), g.ids = frames[i].ids
  PROVE  IdsMeant(g, origins')
<1>1. \A k \in 1..Len(g.ids) : g.ids[k] \in Ids
  BY DEF CInv, CallsOK, IsCallStack, IsActivation, Ids
<1>2. Subs(g) = Subs(frames[i]) BY DEF Subs, Same
<1> QED BY <1>1, <1>2, OriginsStay DEF IdsMeant

(* A number is returned that was made from what is meant.                  *)
LEMMA EnterReturn ==
  ASSUME CInv, RecordInv, EnterInv, Lowering \/ Looping, doc' = doc, OriginsKept,
         NEW st, NEW n \in Nat, IsCallStack(st, n), NEW id, Return(st, id),
         Len(st) <= Len(frames), \A i \in 1..Len(st) : st[i] = frames[i],
         Trusted => origins'[id].value = Meant(doc, Goal(frames, Len(st)))
  PROVE  Trusted' => /\ CallMeant' /\ StackMeant' /\ AllIdsMeant'
                     /\ Accepted' => origins'[result'.id].value = Meant(doc', doc')
<1> SUFFICES ASSUME Trusted'
             PROVE  /\ CallMeant' /\ StackMeant' /\ AllIdsMeant'
                    /\ Accepted' => origins'[result'.id].value = Meant(doc', doc')
  OBVIOUS
<1>1. Trusted BY TrustedBefore
<1>2. /\ call' = None /\ Len(st) \in Nat /\ Len(frames') = Len(st)
      /\ \A i \in 1..Len(st) : i \in 1..Len(frames) /\ Same(frames'[i], frames[i])
      /\ \A i \in 1..Len(st) : i # Len(st) => frames'[i] = frames[i]
      /\ st = <<>> => frames' = <<>> /\ result' = Ok(id)
      /\ st # <<>> => /\ result' = result /\ Len(st) > 0
                      /\ frames'[Len(st)].ids = Append(frames[Len(st)].ids, id)
  BY ReturnSame
<1>3. ~Done BY RunningKept
<1>4. StackMeant /\ (\A i \in 1..Len(frames) : IdsMeant(frames[i], origins))
      /\ origins'[id].value = Meant(doc, Goal(frames, Len(st)))
  BY <1>1 DEF EnterInv, AllIdsMeant
<1>5. ASSUME NEW i \in 1..Len(frames') PROVE frames'[i].value = Meant(doc, Goal(frames', i - 1))
  <2>1. frames'[i].value = frames[i].value /\ i \in 1..Len(frames) BY <1>2 DEF Same
  <2>2. Goal(frames', i - 1) = Goal(frames, i - 1)
    <3>1. CASE i = 1 BY <3>1 DEF Goal
    <3>2. CASE i # 1
      <4>1. i - 1 \in 1..Len(st) /\ i - 1 # Len(st) BY <1>2, <3>2
      <4> QED BY <1>2, <4>1 DEF Goal
    <3> QED BY <3>1, <3>2
  <2> QED BY <1>4, <2>1, <2>2 DEF StackMeant
<1>6. ASSUME NEW i \in 1..Len(frames') PROVE IdsMeant(frames'[i], origins')
  <2>0. i \in 1..Len(st) /\ i \in 1..Len(frames) /\ Same(frames'[i], frames[i]) BY <1>2
  <2>1. CASE i # Len(st) BY <1>2, <1>4, <2>0, <2>1, IdsStayMeant
  <2>2. CASE i = Len(st)
    <3> DEFINE f == frames[i]
               g == frames'[i]
    <3>1. st # <<>> BY <2>0, EmptySequence
    <3>2. g.ids = Append(f.ids, id) BY <1>2, <2>2, <3>1
    <3>3. IsSequence(f.ids) /\ \A k \in 1..Len(f.ids) : f.ids[k] \in Ids
      BY <2>0 DEF CInv, CallsOK, IsCallStack, IsActivation, Ids
    <3>4. Len(f.ids) \in Nat BY <3>3 DEF IsSequence
    <3>5. Subs(g) = Subs(f) BY <2>0 DEF Subs, Same
    <3>6. Goal(frames, Len(st)) = Subs(f)[Len(f.ids) + 1].value BY <1>2, <2>2, <3>1 DEF Goal, Wanted
    <3>7. IdsMeant(f, origins) BY <1>4, <2>0
    <3> HIDE DEF f, g
    <3>8. Len(g.ids) = Len(f.ids) + 1 /\ g.ids[Len(f.ids) + 1] = id
          /\ \A k \in 1..Len(f.ids) : g.ids[k] = f.ids[k]
      BY <3>2, <3>3, AppendSequence
    <3>9. ASSUME NEW k \in 1..Len(g.ids) PROVE origins'[g.ids[k]].value = Meant(doc, Subs(g)[k].value)
      <4>1. CASE k = Len(f.ids) + 1 BY <1>4, <3>5, <3>6, <3>8, <4>1
      <4>2. CASE k # Len(f.ids) + 1
        <5>1. k \in 1..Len(f.ids) BY <3>4, <3>8, <4>2
        <5>2. g.ids[k] = f.ids[k] /\ f.ids[k] \in Ids BY <3>3, <3>8, <5>1
        <5>3. origins'[g.ids[k]] = origins[f.ids[k]] BY <5>2, OriginsStay
        <5> QED BY <3>5, <3>7, <5>1, <5>3 DEF IdsMeant
      <4> QED BY <4>1, <4>2
    <3> QED BY <3>9 DEF IdsMeant, g
  <2> QED BY <2>1, <2>2
<1>7. Accepted' => origins'[result'.id].value = Meant(doc, doc)
  <2>1. CASE st = <<>>
    <3>1. Len(st) = 0 BY <2>1, EmptySequence
    <3>2. Goal(frames, Len(st)) = doc BY <3>1 DEF Goal
    <3> QED BY <1>2, <1>4, <2>1, <3>2 DEF Ok
  <2>2. CASE st # <<>> BY <1>2, <1>3, <2>2 DEF Accepted, Done
  <2> QED BY <2>1, <2>2
<1>8. StackMeant' BY <1>5 DEF StackMeant, Goal
<1>9. AllIdsMeant' BY <1>6 DEF AllIdsMeant, IdsMeant
<1> QED BY <1>2, <1>7, <1>8, <1>9 DEF CallMeant

(* The table is right when the origins stay. *)
LEMMA TableStays ==
  ASSUME CInv, TableNames, OriginsKept, in_progress' = in_progress
  PROVE  TableNames'
<1>1. \A at \in DOMAIN in_progress : in_progress[at] \in Ids BY DEF CInv, OpenOK
<1> QED BY <1>1, OriginsStay DEF TableNames

LEMMA EnterRefuse ==
  ASSUME CInv, EnterInv, NEW kind, kind # "Ok", Refuse(kind)
  PROVE  EnterInv'
<1>1. /\ call' = None /\ frames' = <<>> /\ result' = Err(kind) /\ in_progress' = in_progress
      /\ origins' = origins /\ doc' = doc
  BY DEF Refuse
<1>2. Len(frames') = 0 BY <1>1, EmptySequence
<1>3. ~Accepted' BY <1>1 DEF Accepted, Err
<1>4. TableNames' BY <1>1, TableStays DEF OriginsKept, EnterInv
<1> QED BY <1>1, <1>2, <1>3, <1>4 DEF EnterInv, CallMeant, StackMeant, AllIdsMeant

(* A call on no reference is on what is meant. *)
LEMMA CallIsMeant ==
  ASSUME CInv, CallMeant, call # None, ~IsRef(call.value)
  PROVE  call.value = Meant(doc, Goal(frames, Len(frames)))
<1>1. PICK j \in 0..(call.depth - 1) : call.value = Hops(doc, Goal(frames, Len(frames)))[j]
  BY DEF CallMeant
<1>2. j \in 0..MaxCalls BY <1>1, CompilerAssumption DEF CInv, CallsOK
<1> QED BY <1>1, <1>2, ChainEnds

LEMMA EnterLowerBoolean ==
  ASSUME CInv, Shape, RecordInv, EnterInv, LowerBoolean
  PROVE  EnterInv'
<1>1. /\ call # None /\ call.value.type = "Bool" /\ Return(frames, Len(nodes')) /\ doc' = doc
      /\ (\E node : nodes' = Append(nodes, node)) /\ origins' = Append(origins, Origin)
      /\ in_progress' = in_progress
  BY DEF LowerBoolean, Lowering
<1>2. IsCallStack(frames, Len(nodes)) /\ Len(nodes) \in Nat /\ Len(frames) \in Nat /\ IsSequence(nodes)
      /\ IsSequence(origins) /\ Len(origins) = Len(nodes)
  BY DEF CInv, CallsOK, ArenaOK, IsSequence, IsCallStack
<1>3. Len(nodes') = Len(nodes) + 1 BY <1>1, <1>2, AppendSequence
<1>4. origins'[Len(nodes')] = Origin BY <1>1, <1>2, <1>3, AppendSequence
<1>5. ASSUME Trusted PROVE origins'[Len(nodes')].value = Meant(doc, Goal(frames, Len(frames)))
  <2>1. ~IsRef(call.value) BY <1>1 DEF IsRef, Targets
  <2>2. call.value = Meant(doc, Goal(frames, Len(frames))) BY <1>1, <1>5, <2>1, CallIsMeant DEF EnterInv
  <2> QED BY <1>4, <2>2 DEF Origin
<1>6. OriginsKept BY <1>1 DEF OriginsKept
<1>7. Trusted' => /\ CallMeant' /\ StackMeant' /\ AllIdsMeant'
                  /\ Accepted' => origins'[result'.id].value = Meant(doc', doc')
  <2>1. Lowering BY <1>1 DEF Lowering
  <2> DEFINE id == Len(nodes')
  <2>2. Return(frames, id) /\ (Trusted => origins'[id].value = Meant(doc, Goal(frames, Len(frames))))
    BY <1>1, <1>5
  <2>3. IsCallStack(frames, Len(nodes)) /\ Len(nodes) \in Nat /\ Len(frames) <= Len(frames)
        /\ \A i \in 1..Len(frames) : frames[i] = frames[i]
    BY <1>2
  <2>4. doc' = doc BY <1>1
  <2> HIDE DEF id
  <2> QED BY <1>6, <2>1, <2>2, <2>3, <2>4, EnterReturn
<1>8. TableNames' BY <1>1, <1>6, TableStays DEF EnterInv
<1> QED BY <1>7, <1>8 DEF EnterInv

LEMMA EnterLowerObject ==
  ASSUME CInv, Shape, RecordInv, EnterInv, LowerObject
  PROVE  EnterInv'
<1>1. /\ Lowering /\ call # None /\ call.value.type = "Object" /\ Targets(call.value) = {} /\ doc' = doc
      /\ call' = None /\ origins' = Append(origins, Origin) /\ result' = result
      /\ nodes' = Append(nodes, << >>)
      /\ in_progress' = [at \in DOMAIN in_progress \cup {call.at} |->
                           IF at = call.at THEN Len(nodes') ELSE in_progress[at]]
  BY DEF LowerObject, Lowering
<1>2. OriginsKept BY <1>1 DEF OriginsKept
<1>3. ~Done BY <1>1, RunningKept
<1>4. /\ Len(frames') = Len(frames) + 1 /\ Len(frames) \in Nat
      /\ \A i \in 1..Len(frames) : frames'[i] = frames[i]
      /\ IsFresh(frames'[Len(frames) + 1], Len(nodes) + 1)
  BY PushStep
<1>5. IsSequence(nodes) /\ IsSequence(origins) /\ Len(origins) = Len(nodes) /\ Len(nodes) \in Nat
  BY DEF CInv, ArenaOK, IsSequence
<1>6. Len(nodes') = Len(nodes) + 1 /\ origins'[Len(nodes')] = Origin
  <2>1. Len(nodes') = Len(nodes) + 1 BY <1>1, <1>5, AppendSequence
  <2> QED BY <1>1, <1>5, <2>1, AppendSequence
<1>7. TableNames'
  <2> SUFFICES ASSUME NEW at \in DOMAIN in_progress' PROVE origins'[in_progress'[at]].at = at
    BY DEF TableNames
  <2>1. CASE at = call.at
    <3>1. in_progress'[at] = Len(nodes') BY <1>1, <2>1
    <3>2. Origin.at = at BY <2>1 DEF Origin
    <3> QED BY <1>6, <3>1, <3>2
  <2>2. CASE at # call.at
    <3>1. at \in DOMAIN in_progress /\ in_progress'[at] = in_progress[at] BY <1>1, <2>2
    <3>2. in_progress[at] \in Ids BY <3>1 DEF CInv, OpenOK
    <3>3. origins'[in_progress[at]] = origins[in_progress[at]] BY <1>2, <3>2, OriginsStay
    <3> QED BY <3>1, <3>3 DEF EnterInv, TableNames
  <2> QED BY <2>1, <2>2
<1> SUFFICES ASSUME Trusted'
             PROVE  /\ CallMeant' /\ StackMeant' /\ AllIdsMeant'
                    /\ Accepted' => origins'[result'.id].value = Meant(doc', doc')
  BY <1>7 DEF EnterInv
<1>8. CallMeant /\ StackMeant /\ AllIdsMeant BY <1>1, <1>2, TrustedBefore DEF EnterInv
<1>9. call.value = Meant(doc, Goal(frames, Len(frames)))
  <2>1. ~IsRef(call.value) BY <1>1 DEF IsRef
  <2> QED BY <1>1, <1>8, <2>1, CallIsMeant
<1>10. ASSUME NEW i \in 0..Len(frames) PROVE Goal(frames', i) = Goal(frames, i)
  <2>1. CASE i = 0 BY <2>1 DEF Goal
  <2>2. CASE i # 0 BY <1>4, <2>2 DEF Goal
  <2> QED BY <2>1, <2>2
<1>11. ASSUME NEW i \in 1..Len(frames') PROVE frames'[i].value = Meant(doc, Goal(frames', i - 1))
  <2>1. i - 1 \in 0..Len(frames) BY <1>4
  <2>2. CASE i = Len(frames) + 1 BY <1>4, <1>9, <1>10, <2>1, <2>2 DEF IsFresh
  <2>3. CASE i # Len(frames) + 1 BY <1>4, <1>8, <1>10, <2>1, <2>3 DEF StackMeant
  <2> QED BY <2>2, <2>3
<1>12. ASSUME NEW i \in 1..Len(frames') PROVE IdsMeant(frames'[i], origins')
  <2>1. CASE i = Len(frames) + 1
    <3>1. Len(frames'[i].ids) = 0 BY <1>4, <2>1, EmptySequence DEF IsFresh
    <3> QED BY <3>1 DEF IdsMeant
  <2>2. CASE i # Len(frames) + 1
    <3>1. i \in 1..Len(frames) /\ frames'[i] = frames[i] /\ Same(frames'[i], frames[i])
      BY <1>4, <2>2 DEF Same
    <3> QED BY <1>2, <1>8, <3>1, IdsStayMeant DEF AllIdsMeant
  <2> QED BY <2>1, <2>2
<1>13. StackMeant' BY <1>1, <1>11 DEF StackMeant, Goal
<1>14. AllIdsMeant' BY <1>1, <1>12 DEF AllIdsMeant, IdsMeant
<1> QED BY <1>1, <1>3, <1>13, <1>14 DEF CallMeant, Accepted, Done

LEMMA EnterResolveRef ==
  ASSUME CInv, Shape, RecordInv, RefusedOK, EnterInv, ResolveRef
  PROVE  EnterInv'
<1>0. Lowering /\ call # None BY DEF ResolveRef, Lowering
<1>1. PICK target \in Targets(call.value) :
        \/ RefRemote(target)
        \/ /\ IsLocal(target)
           /\ \E pointer \in { Tail(target) } :
                RefInProgress(pointer) \/ RefDangling(pointer) \/ RefFollow(pointer)
  BY DEF ResolveRef
<1>2. call.value # None BY <1>0, WithinShape DEF Shape, CallShape
<1>3. IsRef(call.value) /\ Hop(doc, call.value) = Denoted(doc, target)
  BY <1>1, <1>2, HopIs
<1>4. call.depth \in 1..MaxCalls /\ MaxCalls \in Nat BY <1>0, CompilerAssumption DEF CInv, CallsOK
<1> DEFINE goal == Goal(frames, Len(frames))
<1>5. ASSUME Trusted
      PROVE  /\ call.value \in Reached(doc) \ {None}
             /\ IsLocal(target) => PointerInto(doc, Tail(target)) = Denoted(doc, target)
             /\ \E j \in 1..call.depth : Denoted(doc, target) = Hops(doc, goal)[j]
  <2>1. /\ call.value \in Reached(doc) \ {None}
        /\ IsLocal(target) => PointerInto(doc, Tail(target)) = Denoted(doc, target)
    BY <1>0, <1>1, <1>5, CallReached DEF RefusedOK, Trusted
  <2>2. PICK j \in 0..(call.depth - 1) : call.value = Hops(doc, goal)[j]
    BY <1>0, <1>5 DEF EnterInv, CallMeant
  <2> HIDE DEF goal
  <2>3. j + 1 \in 1..MaxCalls /\ j + 1 \in 1..call.depth /\ j + 1 - 1 = j BY <1>4
  <2>4. Hops(doc, goal)[j + 1] = Hop(doc, Hops(doc, goal)[j]) BY <2>3, HopsAre
  <2>5. Denoted(doc, target) = Hops(doc, goal)[j + 1] BY <1>3, <2>2, <2>4
  <2> QED BY <2>1, <2>3, <2>5
<1>6. CASE RefRemote(target) BY <1>6, EnterRefuse DEF RefRemote
<1>7. ASSUME IsLocal(target), RefInProgress(Tail(target)) PROVE EnterInv'
  <2> DEFINE id == in_progress[Tail(target)]
  <2>1. /\ Return(frames, id) /\ UNCHANGED <<doc, nodes, notes, in_progress, origins>>
        /\ Tail(target) \in DOMAIN in_progress
        /\ IsCallStack(frames, Len(nodes)) /\ Len(nodes) \in Nat /\ Len(frames) \in Nat
    BY <1>7 DEF RefInProgress, CInv, CallsOK, ArenaOK, IsSequence, IsCallStack
  <2>2. id \in Ids /\ origins[id].at = Tail(target)
    BY <2>1 DEF CInv, OpenOK, EnterInv, TableNames
  <2>3. id \in DOMAIN origins /\ IsOrigin(origins[id])
    BY <2>2 DEF CInv, ArenaOK, IsSequence, Ids, Shape, OriginsShape
  <2> HIDE DEF id
  <2>4. ASSUME Trusted PROVE origins'[id].value = Meant(doc, goal)
    <3>1. origins[id].value = Denoted(doc, target)
      BY <1>1, <1>5, <1>7, <2>2, <2>3, <2>4 DEF Trusted, Misread
    <3>2. PICK j \in 1..call.depth : Denoted(doc, target) = Hops(doc, goal)[j] BY <1>5, <2>4
    <3>3. ~IsRef(origins[id].value) BY <2>3 DEF IsOrigin, IsRef
    <3> HIDE DEF goal
    <3>4. j \in 0..MaxCalls BY <1>4
    <3> QED BY <2>1, <3>1, <3>2, <3>3, <3>4, ChainEnds
  <2>5. OriginsKept BY <2>1 DEF OriginsKept
  <2>6. Trusted' => /\ CallMeant' /\ StackMeant' /\ AllIdsMeant'
                    /\ Accepted' => origins'[result'.id].value = Meant(doc', doc')
    BY <1>0, <2>1, <2>4, <2>5, EnterReturn
  <2>7. TableNames' BY <2>1, <2>5, TableStays DEF EnterInv
  <2> QED BY <2>6, <2>7 DEF EnterInv
<1>8. ASSUME NEW pointer, RefDangling(pointer) PROVE EnterInv'
  BY <1>8, EnterRefuse DEF RefDangling
<1>9. ASSUME IsLocal(target), RefFollow(Tail(target)) PROVE EnterInv'
  <2>1. /\ call' = Call(PointerInto(doc, Tail(target)), Tail(target), call.depth + 1)
        /\ UNCHANGED <<doc, frames, result, in_progress, origins>>
    BY <1>9 DEF RefFollow
  <2>2. call'.value = PointerInto(doc, Tail(target)) /\ call'.depth - 1 = call.depth
    BY <1>4, <2>1 DEF Call
  <2>3. OriginsKept BY <2>1 DEF OriginsKept
  <2>4. TableNames' BY <2>1, <2>3, TableStays DEF EnterInv
  <2>5. ASSUME Trusted' PROVE CallMeant' /\ Trusted
    <3>1. Trusted BY <2>1, <2>3, <2>5, TrustedBefore
    <3>2. PICK j \in 1..call.depth : Denoted(doc, target) = Hops(doc, goal)[j] BY <1>5, <3>1
    <3>3. call'.value = Hops(doc, goal)[j] BY <1>5, <1>9, <2>2, <3>1, <3>2
    <3>4. j \in 0..(call'.depth - 1) BY <1>4, <2>2
    <3>5. Goal(frames', Len(frames')) = goal BY <2>1
    <3> HIDE DEF goal
    <3>6. Hops(doc', Goal(frames', Len(frames')))[j] = Hops(doc, goal)[j] BY <2>1, <3>5
    <3> QED BY <2>1, <3>1, <3>3, <3>4, <3>5 DEF CallMeant, Goal
  <2>6. ASSUME Trusted' PROVE StackMeant' /\ AllIdsMeant'
    BY <2>1, <2>5, <2>6 DEF EnterInv, StackMeant, AllIdsMeant, IdsMeant, Goal
  <2>7. ASSUME Trusted', Accepted' PROVE origins'[result'.id].value = Meant(doc', doc')
    BY <2>1, <2>5, <2>7 DEF EnterInv, Accepted, Done
  <2> QED BY <2>4, <2>5, <2>6, <2>7 DEF EnterInv
<1> QED BY <1>1, <1>6, <1>7, <1>8, <1>9

LEMMA EnterDescend ==
  ASSUME CInv, Shape, RecordInv, EnterInv, Descend
  PROVE  EnterInv'
<1>1. /\ UNCHANGED <<doc, nodes, in_progress, frames, result, origins>> /\ Top = frames[Len(frames)]
      /\ Len(frames) \in 1..Len(frames) /\ call'.value = Wanted(Top) /\ call'.depth = Top.depth + 1
  BY DescendStep
<1>2. Looping BY DEF Descend
<1>3. Top.depth \in 1..MaxCalls /\ Len(frames) # 0 BY <1>1, <1>2, LoopFacts DEF IsActivation
<1>4. OriginsKept BY <1>1 DEF OriginsKept
<1>5. TableNames' BY <1>1, <1>4, TableStays DEF EnterInv
<1>6. ASSUME Trusted' PROVE CallMeant'
  <2>1. Goal(frames, Len(frames)) = Wanted(Top) BY <1>1, <1>3 DEF Goal
  <2>2. call'.value = Hops(doc, Goal(frames, Len(frames)))[0] BY <1>1, <2>1, HopsAre
  <2>3. 0 \in 0..(call'.depth - 1) BY <1>1, <1>3
  <2> QED BY <1>1, <2>2, <2>3 DEF CallMeant, Goal
<1>7. ASSUME Trusted' PROVE Trusted BY <1>1, <1>4, <1>7, TrustedBefore
<1>8. ASSUME Trusted' PROVE StackMeant' /\ AllIdsMeant'
  BY <1>1, <1>7, <1>8 DEF EnterInv, StackMeant, AllIdsMeant, IdsMeant, Goal
<1>9. ASSUME Trusted', Accepted' PROVE origins'[result'.id].value = Meant(doc', doc')
  BY <1>1, <1>7, <1>9 DEF EnterInv, Accepted, Done
<1> QED BY <1>5, <1>6, <1>8, <1>9 DEF EnterInv

LEMMA EnterTakeKeyword ==
  ASSUME CInv, Shape, RecordInv, EnterInv, TakeKeyword
  PROVE  EnterInv'
<1>1. Looping /\ UNCHANGED <<doc, nodes, result, call, in_progress, origins>> BY DEF TakeKeyword
<1> DEFINE n == Len(frames)
<1>2. /\ Len(frames') = n /\ n \in Nat /\ n > 0
      /\ \A i \in 1..n : i # n => frames'[i] = frames[i]
      /\ IsTaken(frames'[n]) /\ Top = frames[n]
  BY <1>1, TakeStep, LoopFacts
<1>3. OriginsKept BY <1>1 DEF OriginsKept
<1>4. TableNames' BY <1>1, <1>3, TableStays DEF EnterInv
<1>5. call' = None /\ ~Done /\ ~Done' BY <1>1, RunningKept DEF Looping, Done
<1> SUFFICES ASSUME Trusted' PROVE StackMeant' /\ AllIdsMeant'
  BY <1>4, <1>5 DEF EnterInv, CallMeant, Accepted
<1>6. StackMeant /\ AllIdsMeant BY <1>1, <1>3, TrustedBefore DEF EnterInv
<1>7. ASSUME NEW i \in 1..n PROVE frames'[i].value = Meant(doc, Goal(frames', i - 1))
  <2>1. Goal(frames', i - 1) = Goal(frames, i - 1)
    <3>1. CASE i = 1 BY <3>1 DEF Goal
    <3>2. CASE i # 1
      <4>1. i - 1 \in 1..n /\ i - 1 # n BY <1>2, <3>2
      <4> QED BY <1>2, <4>1 DEF Goal
    <3> QED BY <3>1, <3>2
  <2>2. frames'[i].value = frames[i].value
    <3>1. CASE i = n BY <1>2, <3>1 DEF IsTaken
    <3>2. CASE i # n BY <1>2, <3>2
    <3> QED BY <3>1, <3>2
  <2> QED BY <1>6, <2>1, <2>2 DEF StackMeant
<1>8. ASSUME NEW i \in 1..n PROVE IdsMeant(frames'[i], origins)
  <2>1. CASE i = n
    <3>1. Len(frames'[i].ids) = 0 BY <1>2, <2>1, EmptySequence DEF IsTaken
    <3> QED BY <3>1 DEF IdsMeant
  <2>2. CASE i # n BY <1>2, <1>6, <2>2 DEF AllIdsMeant
  <2> QED BY <2>1, <2>2
<1>9. StackMeant' BY <1>1, <1>2, <1>7 DEF StackMeant, Goal
<1>10. AllIdsMeant' BY <1>1, <1>2, <1>8 DEF AllIdsMeant, IdsMeant
<1> QED BY <1>9, <1>10

LEMMA EnterEndObject ==
  ASSUME CInv, Shape, RecordInv, EnterInv, EndObject
  PROVE  EnterInv'
<1>1. /\ Looping /\ Return(Front(frames), Top.id) /\ UNCHANGED <<doc, origins>>
      /\ in_progress' = [at \in DOMAIN in_progress \ {Top.at} |-> in_progress[at]]
  BY DEF EndObject
<1>2. /\ IsCallStack(Front(frames), Len(nodes)) /\ Len(nodes) \in Nat /\ Len(frames) \in Nat \ {0}
      /\ Len(Front(frames)) = Len(frames) - 1 /\ Top = frames[Len(frames)]
      /\ \A i \in 1..(Len(frames) - 1) : Front(frames)[i] = frames[i]
  BY <1>1, LoopFacts, FrontSequence DEF IsCallStack, IsSequence
<1>3. OriginsKept BY <1>1 DEF OriginsKept
<1> DEFINE st == Front(frames)
           id == Top.id
<1>4. ASSUME Trusted PROVE origins'[id].value = Meant(doc, Goal(frames, Len(st)))
  <2>1. IsBody(Top, origins) BY <1>1, TopShape
  <2>2. Top.value = Meant(doc, Goal(frames, Len(frames) - 1)) BY <1>2, <1>4 DEF EnterInv, StackMeant
  <2> QED BY <1>1, <1>2, <2>1, <2>2 DEF IsBody
<1>5. Return(st, id) BY <1>1
<1>6. Len(st) <= Len(frames) /\ \A i \in 1..Len(st) : st[i] = frames[i] BY <1>2
<1>7. IsCallStack(st, Len(nodes)) /\ Len(nodes) \in Nat BY <1>2
<1>8. doc' = doc BY <1>1
<1> HIDE DEF st, id
<1>9. Trusted' => /\ CallMeant' /\ StackMeant' /\ AllIdsMeant'
                  /\ Accepted' => origins'[result'.id].value = Meant(doc', doc')
  BY <1>1, <1>3, <1>4, <1>5, <1>6, <1>7, <1>8, EnterReturn
<1>10. TableNames' BY <1>1 DEF EnterInv, TableNames
<1> QED BY <1>9, <1>10 DEF EnterInv

LEMMA EnterInit == CInit => EnterInv
<1> SUFFICES ASSUME CInit PROVE EnterInv OBVIOUS
<1>1. /\ frames = <<>> /\ call.value = doc /\ call.depth = 1 /\ result = None /\ DOMAIN in_progress = {}
  BY DEF CInit, Call
<1>2. Len(frames) = 0 BY <1>1, EmptySequence
<1>3. call.value = Hops(doc, Goal(frames, Len(frames)))[0] BY <1>1, <1>2, HopsAre DEF Goal
<1>4. 0 \in 0..(call.depth - 1) BY <1>1
<1>5. CallMeant BY <1>3, <1>4 DEF CallMeant
<1> QED BY <1>1, <1>2, <1>5 DEF EnterInv, TableNames, StackMeant, AllIdsMeant, Accepted, Done

LEMMA EnterStep ==
  CInv /\ Shape /\ RecordInv /\ RefusedOK /\ EnterInv /\ [CNext]_cvars => EnterInv'
<1> SUFFICES ASSUME CInv, Shape, RecordInv, RefusedOK, EnterInv, [CNext]_cvars PROVE EnterInv' OBVIOUS
<1>1. CASE ParseFails BY <1>1, EnterRefuse DEF ParseFails
<1>2. CASE LowerBoolean BY <1>2, EnterLowerBoolean
<1>3. CASE NotASchema BY <1>3, EnterRefuse DEF NotASchema
<1>4. CASE ResolveRef BY <1>4, EnterResolveRef
<1>5. CASE LowerObject BY <1>5, EnterLowerObject
<1>6. CASE Descend BY <1>6, EnterDescend
<1>7. CASE TakeKeyword BY <1>7, EnterTakeKeyword
<1>8. CASE EndObject BY <1>8, EnterEndObject
<1>9. CASE UNCHANGED cvars
  <2>1. UNCHANGED <<doc, call, frames, result, origins, in_progress>> BY <1>9 DEF cvars
  <2>2. Trusted' => Trusted BY <2>1, TrustedBefore DEF OriginsKept
  <2>3. TableNames' BY <2>1, TableStays DEF OriginsKept, EnterInv
  <2>4. ASSUME Trusted' PROVE /\ CallMeant' /\ StackMeant' /\ AllIdsMeant'
                              /\ Accepted' => origins'[result'.id].value = Meant(doc', doc')
    <3>1. /\ CallMeant /\ StackMeant /\ AllIdsMeant
          /\ Accepted => origins[result.id].value = Meant(doc, doc)
      BY <2>2, <2>4 DEF EnterInv
    <3>2. CallMeant' BY <2>1, <3>1 DEF CallMeant, Goal
    <3>3. StackMeant' /\ AllIdsMeant' BY <2>1, <3>1 DEF StackMeant, Goal, AllIdsMeant, IdsMeant
    <3> QED BY <2>1, <3>1, <3>2, <3>3 DEF Accepted, Done
  <2> QED BY <2>3, <2>4 DEF EnterInv
<1> QED BY <1>1, <1>2, <1>3, <1>4, <1>5, <1>6, <1>7, <1>8, <1>9 DEF CNext

(* What the graph is made from. *)
LEMMA EnteredInductive == CSpec => [](CInv /\ Shape /\ RecordInv /\ RefusedOK /\ EnterInv)
BY CInitInv, CNextInv, ShapeInit, ShapeStep, RecordInit, RecordStep, ReachInit, ReachStep,
   EnterInit, EnterStep, PTL DEF CSpec

-----------------------------------------------------------------------------
(* What a member holds has become nodes, and the node holds their numbers. *)

Held(m) == Subschemas(Word(m.token), m.value)

Settled(os, v) == \E id \in 1..Len(os) : os[id].value = Meant(doc, v)

LinkedTo(n, os, m) == Held(m) # <<>> =>
  /\ Has(n, Word(m.token))
  /\ Len(Linked(n, Word(m.token), m.value)) = Len(Held(m))
  /\ \A i \in 1..Len(Held(m)) :
       /\ Linked(n, Word(m.token), m.value)[i] \in 1..Len(os)
       /\ os[Linked(n, Word(m.token), m.value)[i]].value = Meant(doc, Held(m)[i].value)

MemberDone(n, os, m) ==
  /\ \A i \in 1..Len(Held(m)) : Settled(os, Held(m)[i].value)
  /\ UniqueNames => LinkedTo(n, os, m)

DoneBelow(f, os) == \A j \in 1..(f.member - 1) : MemberDone(f.node, os, f.value.data[j])

DoneOf(n, os, o) ==
  o.value.type = "Object" => \A j \in 1..Len(o.value.data) : MemberDone(n, os, o.value.data[j])

Opened(fs, id) == \E i \in 1..Len(fs) : fs[i].id = id

LinkedState(fs, ns, os) ==
  /\ \A i \in 1..Len(fs) : DoneBelow(fs[i], os)
  /\ \A id \in 1..Len(ns) : Opened(fs, id) \/ DoneOf(ns[id], os, os[id])

(* A node has the keywords that its activation has gone through. *)
WordsOf(f) == \A w \in DOMAIN f.node : \E j \in 1..(f.member - 1) : Word(f.value.data[j].token) = w

AllWords == \A i \in 1..Len(frames) : WordsOf(frames[i])

LinkInv == AllWords /\ (Trusted /\ (Running \/ Accepted) => LinkedState(frames, nodes, origins))

LEMMA SameState ==
  ASSUME doc' = doc, LinkedState(frames', nodes', origins')
  PROVE  LinkedState(frames, nodes, origins)'
<1>1. UniqueNames' <=> UniqueNames BY DEF UniqueNames
<1>2. ASSUME NEW i \in 1..Len(frames'), NEW j \in 1..(frames'[i].member - 1)
      PROVE  MemberDone(frames[i].node, origins, frames[i].value.data[j])'
  <2>1. MemberDone(frames'[i].node, origins', frames'[i].value.data[j])
    BY DEF LinkedState, DoneBelow
  <2> QED BY <1>1, <2>1 DEF MemberDone, Settled, LinkedTo
<1>3. ASSUME NEW id \in 1..Len(nodes'), ~Opened(frames', id),
             origins'[id].value.type = "Object", NEW j \in 1..Len(origins'[id].value.data)
      PROVE  MemberDone(nodes[id], origins, origins[id].value.data[j])'
  <2>1. MemberDone(nodes'[id], origins', origins'[id].value.data[j])
    BY <1>3 DEF LinkedState, DoneOf
  <2> QED BY <1>1, <2>1 DEF MemberDone, Settled, LinkedTo
<1> QED BY <1>2, <1>3 DEF LinkedState, DoneBelow, DoneOf, Opened

LEMMA MemberGrows ==
  ASSUME CInv, OriginsKept, NEW n, NEW m, MemberDone(n, origins, m)
  PROVE  MemberDone(n, origins', m)
<1>1. IsSequence(origins) /\ Len(origins) \in Nat BY DEF CInv, ArenaOK, IsSequence
<1>2. Len(origins') = Len(origins) \/ Len(origins') = Len(origins) + 1
  BY <1>1, AppendSequence DEF OriginsKept
<1>3. \A i \in 1..Len(origins) : i \in 1..Len(origins') /\ origins'[i] = origins[i]
  BY <1>1, <1>2, OriginsStay DEF IsSequence
<1>4. ASSUME NEW v, Settled(origins, v) PROVE Settled(origins', v) BY <1>3, <1>4 DEF Settled
<1>5. LinkedTo(n, origins, m) => LinkedTo(n, origins', m) BY <1>3 DEF LinkedTo
<1> QED BY <1>4, <1>5 DEF MemberDone

LEMMA BelowGrows ==
  ASSUME CInv, OriginsKept, NEW f, NEW g, Same(g, f), DoneBelow(f, origins)
  PROVE  DoneBelow(g, origins')
BY MemberGrows DEF DoneBelow, Same

LEMMA NodeGrows ==
  ASSUME CInv, OriginsKept, NEW n, NEW o, DoneOf(n, origins, o)
  PROVE  DoneOf(n, origins', o)
BY MemberGrows DEF DoneOf

LEMMA LinkRefuse ==
  ASSUME NEW kind, kind # "Ok", Refuse(kind)
  PROVE  LinkInv'
<1>1. call' = None /\ frames' = <<>> /\ result' = Err(kind) BY DEF Refuse
<1>2. ~Accepted' /\ ~Running' /\ Len(frames') = 0 BY <1>1, EmptySequence DEF Accepted, Running, Err
<1> QED BY <1>2 DEF LinkInv, AllWords

LEMMA RunningLinked ==
  ASSUME LinkInv, Trusted, Lowering \/ Looping
  PROVE  LinkedState(frames, nodes, origins)
BY DEF LinkInv, Running, Lowering, Looping

LEMMA LinkReturn ==
  ASSUME CInv, LinkInv, Lowering \/ Looping, OriginsKept,
         NEW st, NEW n \in Nat, IsCallStack(st, n), NEW id, Return(st, id),
         Len(st) <= Len(frames), \A i \in 1..Len(st) : st[i] = frames[i]
  PROVE  /\ AllWords'
         /\ Trusted => \A i \in 1..Len(frames') : DoneBelow(frames'[i], origins')
         /\ \A i \in 1..Len(st) : \E j \in 1..Len(frames') : frames'[j].id = st[i].id
<1>1. /\ Len(frames') = Len(st)
      /\ \A i \in 1..Len(st) : i \in 1..Len(frames) /\ Same(frames'[i], frames[i])
  BY ReturnSame
<1>2. AllWords' BY <1>1 DEF LinkInv, AllWords, WordsOf, Same
<1>3. ASSUME Trusted, NEW i \in 1..Len(frames') PROVE DoneBelow(frames'[i], origins')
  <2>1. DoneBelow(frames[i], origins) BY <1>1, <1>3, RunningLinked DEF LinkedState
  <2> QED BY <1>1, <2>1, BelowGrows
<1>4. ASSUME NEW i \in 1..Len(st) PROVE \E j \in 1..Len(frames') : frames'[j].id = st[i].id
  BY <1>1, <1>4 DEF Same
<1> QED BY <1>2, <1>3, <1>4

LEMMA LinkLowerBoolean ==
  ASSUME CInv, Shape, LinkInv, LowerBoolean
  PROVE  LinkInv'
<1>1. /\ Lowering /\ call.value.type = "Bool" /\ Return(frames, Len(nodes')) /\ doc' = doc
      /\ (\E node : nodes' = Append(nodes, node)) /\ origins' = Append(origins, Origin)
  BY DEF LowerBoolean
<1>2. IsCallStack(frames, Len(nodes)) /\ Len(nodes) \in Nat /\ Len(frames) \in Nat
  BY DEF CInv, CallsOK, ArenaOK, IsSequence, IsCallStack
<1>3. OriginsKept BY <1>1 DEF OriginsKept
<1>4. /\ AllWords'
      /\ Trusted => \A i \in 1..Len(frames') : DoneBelow(frames'[i], origins')
      /\ \A i \in 1..Len(frames) : \E j \in 1..Len(frames') : frames'[j].id = frames[i].id
  BY <1>1, <1>2, <1>3, LinkReturn
<1>5. ASSUME Trusted, NEW id \in 1..Len(nodes')
      PROVE  Opened(frames', id) \/ DoneOf(nodes'[id], origins', origins'[id])
  <2>1. /\ Len(nodes') = Len(nodes) + 1 /\ \A i \in 1..Len(nodes) : nodes'[i] = nodes[i]
        /\ origins'[Len(nodes) + 1] = Origin /\ \A i \in 1..Len(nodes) : origins'[i] = origins[i]
    BY <1>1, AppendSequence DEF CInv, ArenaOK
  <2>2. CASE id = Len(nodes) + 1
    <3>1. origins'[id] = Origin BY <2>1, <2>2
    <3>2. Origin.value.type = "Bool" BY <1>1 DEF Origin
    <3> QED BY <3>1, <3>2 DEF DoneOf
  <2>3. CASE id # Len(nodes) + 1
    <3>1. id \in 1..Len(nodes) /\ nodes'[id] = nodes[id] /\ origins'[id] = origins[id]
      BY <1>2, <2>1, <2>3
    <3>2. Opened(frames, id) \/ DoneOf(nodes[id], origins, origins[id])
      BY <1>1, <1>5, <3>1, RunningLinked DEF LinkedState
    <3>3. Opened(frames, id) => Opened(frames', id) BY <1>4 DEF Opened
    <3>4. DoneOf(nodes[id], origins, origins[id]) => DoneOf(nodes[id], origins', origins[id])
      BY <1>3, NodeGrows
    <3> QED BY <3>1, <3>2, <3>3, <3>4
  <2> QED BY <2>2, <2>3
<1>6. Trusted' => Trusted BY <1>1, <1>3, TrustedBefore
<1>7. Trusted => LinkedState(frames', nodes', origins') BY <1>4, <1>5 DEF LinkedState
<1> QED BY <1>1, <1>4, <1>6, <1>7, SameState DEF LinkInv

LEMMA LinkLowerObject ==
  ASSUME CInv, Shape, LinkInv, LowerObject
  PROVE  LinkInv'
<1>1. /\ Lowering /\ doc' = doc /\ nodes' = Append(nodes, << >>) /\ origins' = Append(origins, Origin)
  BY DEF LowerObject
<1>2. Len(nodes) \in Nat BY DEF CInv, ArenaOK, IsSequence
<1>3. OriginsKept BY <1>1 DEF OriginsKept
<1>4. /\ Len(frames') = Len(frames) + 1 /\ Len(frames) \in Nat
      /\ \A i \in 1..Len(frames) : frames'[i] = frames[i]
      /\ IsFresh(frames'[Len(frames) + 1], Len(nodes) + 1)
  BY PushStep
<1>5. AllWords'
  <2> SUFFICES ASSUME NEW i \in 1..Len(frames') PROVE WordsOf(frames'[i]) BY DEF AllWords
  <2>1. CASE i = Len(frames) + 1
    <3>1. frames'[i].node = << >> BY <1>4, <2>1 DEF IsFresh
    <3> QED BY <3>1 DEF WordsOf
  <2>2. CASE i # Len(frames) + 1 BY <1>4, <2>2 DEF LinkInv, AllWords
  <2> QED BY <2>1, <2>2
<1>6. ASSUME Trusted, NEW i \in 1..Len(frames') PROVE DoneBelow(frames'[i], origins')
  <2>1. CASE i = Len(frames) + 1
    <3>1. frames'[i].member - 1 = 0 BY <1>4, <2>1 DEF IsFresh
    <3> QED BY <3>1 DEF DoneBelow
  <2>2. CASE i # Len(frames) + 1
    <3>1. i \in 1..Len(frames) /\ frames'[i] = frames[i] BY <1>4, <2>2
    <3>2. DoneBelow(frames[i], origins) BY <1>1, <1>6, <3>1, RunningLinked DEF LinkedState
    <3>3. Same(frames'[i], frames[i]) BY <3>1 DEF Same
    <3> QED BY <1>3, <3>2, <3>3, BelowGrows
  <2> QED BY <2>1, <2>2
<1>7. ASSUME Trusted, NEW id \in 1..Len(nodes')
      PROVE  Opened(frames', id) \/ DoneOf(nodes'[id], origins', origins'[id])
  <2>1. /\ Len(nodes') = Len(nodes) + 1 /\ \A i \in 1..Len(nodes) : nodes'[i] = nodes[i]
        /\ \A i \in 1..Len(nodes) : origins'[i] = origins[i]
    BY <1>1, AppendSequence DEF CInv, ArenaOK
  <2>2. CASE id = Len(nodes) + 1
    <3>1. frames'[Len(frames) + 1].id = id BY <1>4, <2>2 DEF IsFresh
    <3> QED BY <1>4, <3>1 DEF Opened
  <2>3. CASE id # Len(nodes) + 1
    <3>1. id \in 1..Len(nodes) /\ nodes'[id] = nodes[id] /\ origins'[id] = origins[id]
      BY <1>2, <2>1, <2>3
    <3>2. Opened(frames, id) \/ DoneOf(nodes[id], origins, origins[id])
      BY <1>1, <1>7, <3>1, RunningLinked DEF LinkedState
    <3>3. Opened(frames, id) => Opened(frames', id) BY <1>4 DEF Opened
    <3>4. DoneOf(nodes[id], origins, origins[id]) => DoneOf(nodes[id], origins', origins[id])
      BY <1>3, NodeGrows
    <3> QED BY <3>1, <3>2, <3>3, <3>4
  <2> QED BY <2>2, <2>3
<1>8. Trusted' => Trusted BY <1>1, <1>3, TrustedBefore
<1>9. Trusted => LinkedState(frames', nodes', origins') BY <1>6, <1>7 DEF LinkedState
<1> QED BY <1>1, <1>5, <1>8, <1>9, SameState DEF LinkInv

LEMMA LinkQuiet ==
  ASSUME CInv, LinkInv, Lowering \/ Looping, UNCHANGED <<doc, nodes, origins, frames>>
  PROVE  LinkInv'
<1>1. AllWords' BY DEF LinkInv, AllWords
<1>2. Trusted' => Trusted BY TrustedBefore DEF OriginsKept
<1>3. Trusted => LinkedState(frames', nodes', origins') BY RunningLinked
<1> QED BY <1>1, <1>2, <1>3, SameState DEF LinkInv

LEMMA LinkResolveRef ==
  ASSUME CInv, Shape, LinkInv, ResolveRef
  PROVE  LinkInv'
<1>0. Lowering BY DEF ResolveRef
<1>1. PICK target \in Targets(call.value) :
        \/ RefRemote(target)
        \/ \E pointer \in { Tail(target) } :
             RefInProgress(pointer) \/ RefDangling(pointer) \/ RefFollow(pointer)
  BY DEF ResolveRef
<1>2. CASE RefRemote(target) BY <1>2, LinkRefuse DEF RefRemote
<1>3. ASSUME NEW pointer, RefInProgress(pointer) PROVE LinkInv'
  <2>1. /\ Return(frames, in_progress[pointer]) /\ UNCHANGED <<doc, nodes, origins>>
        /\ IsCallStack(frames, Len(nodes)) /\ Len(nodes) \in Nat /\ Len(frames) \in Nat
    BY <1>3 DEF RefInProgress, CInv, CallsOK, ArenaOK, IsSequence, IsCallStack
  <2>2. OriginsKept BY <2>1 DEF OriginsKept
  <2>3. /\ AllWords'
        /\ Trusted => \A i \in 1..Len(frames') : DoneBelow(frames'[i], origins')
        /\ \A i \in 1..Len(frames) : \E j \in 1..Len(frames') : frames'[j].id = frames[i].id
    BY <1>0, <2>1, <2>2, LinkReturn
  <2>4. ASSUME Trusted, NEW id \in 1..Len(nodes')
        PROVE  Opened(frames', id) \/ DoneOf(nodes'[id], origins', origins'[id])
    <3>1. Opened(frames, id) \/ DoneOf(nodes[id], origins, origins[id])
      BY <1>0, <2>1, <2>4, RunningLinked DEF LinkedState
    <3>2. Opened(frames, id) => Opened(frames', id) BY <2>3 DEF Opened
    <3> QED BY <2>1, <3>1, <3>2
  <2>5. Trusted' => Trusted BY <2>1, <2>2, TrustedBefore
  <2>6. Trusted => LinkedState(frames', nodes', origins') BY <2>3, <2>4 DEF LinkedState
  <2> QED BY <2>1, <2>3, <2>5, <2>6, SameState DEF LinkInv
<1>4. ASSUME NEW pointer, RefDangling(pointer) PROVE LinkInv'
  BY <1>4, LinkRefuse DEF RefDangling
<1>5. ASSUME NEW pointer, RefFollow(pointer) PROVE LinkInv'
  BY <1>0, <1>5, LinkQuiet DEF RefFollow
<1> QED BY <1>1, <1>2, <1>3, <1>4, <1>5

LEMMA LinkDescend ==
  ASSUME CInv, LinkInv, Descend
  PROVE  LinkInv'
BY LinkQuiet DEF Descend

LEMMA LinkEndObject ==
  ASSUME CInv, Shape, LinkInv, EndObject
  PROVE  LinkInv'
<1>1. /\ Looping /\ ~More /\ Return(Front(frames), Top.id) /\ UNCHANGED <<doc, origins>>
      /\ nodes' = [nodes EXCEPT ![Top.id] = Top.node]
  BY DEF EndObject
<1>2. /\ IsCallStack(Front(frames), Len(nodes)) /\ Len(nodes) \in Nat /\ Len(frames) \in Nat \ {0}
      /\ Len(Front(frames)) = Len(frames) - 1 /\ Top = frames[Len(frames)]
      /\ \A i \in 1..(Len(frames) - 1) : Front(frames)[i] = frames[i]
  BY <1>1, LoopFacts, FrontSequence DEF IsCallStack, IsSequence
<1>3. OriginsKept BY <1>1 DEF OriginsKept
<1> DEFINE st == Front(frames)
           n == Len(nodes)
           id0 == Top.id
<1>10. /\ IsCallStack(st, n) /\ n \in Nat /\ Return(st, id0) /\ Len(st) <= Len(frames)
       /\ Len(st) = Len(frames) - 1
       /\ \A i \in 1..Len(st) : st[i] = frames[i]
  BY <1>1, <1>2
<1> HIDE DEF st, n, id0
<1>11. Lowering \/ Looping BY <1>1
<1>4. /\ AllWords'
      /\ Trusted => \A i \in 1..Len(frames') : DoneBelow(frames'[i], origins')
      /\ \A i \in 1..Len(st) : \E j \in 1..Len(frames') : frames'[j].id = st[i].id
  BY <1>3, <1>10, <1>11, LinkReturn
<1> DEFINE top == Top.id
           node == Top.node
<1>5. top \in 1..Len(nodes) BY <1>1, LoopFacts DEF IsActivation
<1>6. Len(nodes') = Len(nodes) /\ nodes'[top] = node /\ \A i \in 1..Len(nodes) : i # top => nodes'[i] = nodes[i]
  <2>1. nodes' = [nodes EXCEPT ![top] = node] /\ IsSequence(nodes) BY <1>1 DEF CInv, ArenaOK
  <2> HIDE DEF top, node
  <2> QED BY <1>5, <2>1, ExceptSequence
<1>7. ASSUME Trusted, NEW id \in 1..Len(nodes')
      PROVE  Opened(frames', id) \/ DoneOf(nodes'[id], origins', origins'[id])
  <2>0. LinkedState(frames, nodes, origins) BY <1>1, <1>7, RunningLinked
  <2>1. CASE id = top
    <3>1. DoneBelow(Top, origins) BY <1>2, <2>0 DEF LinkedState
    <3>2. IsBody(Top, origins) /\ Len(Top.value.data) \in Nat BY <1>1, TopShape
    <3>3. Top.member = Len(Top.value.data) + 1 BY <1>1, <3>2 DEF IsBody, More
    <3>4. Top.member - 1 = Len(Top.value.data) BY <3>2, <3>3
    <3>5. DoneOf(node, origins, origins[id]) BY <2>1, <3>1, <3>2, <3>4 DEF DoneOf, DoneBelow, IsBody
    <3> QED BY <1>1, <1>6, <2>1, <3>5
  <2>2. CASE id # top /\ Opened(frames, id)
    <3>1. PICK i \in 1..Len(frames) : frames[i].id = id BY <2>2 DEF Opened
    <3>2. i # Len(frames) BY <1>2, <2>2, <3>1
    <3>3. i \in 1..(Len(frames) - 1) BY <1>2, <3>2
    <3>4. i \in 1..Len(st) /\ st[i].id = id BY <1>10, <3>1, <3>3
    <3> QED BY <1>4, <3>4 DEF Opened
  <2>3. CASE id # top /\ ~Opened(frames, id)
    <3>1. DoneOf(nodes[id], origins, origins[id]) BY <1>6, <2>0, <2>3 DEF LinkedState
    <3> QED BY <1>1, <1>6, <2>3, <3>1
  <2> QED BY <2>1, <2>2, <2>3
<1>8. Trusted' => Trusted BY <1>1, <1>3, TrustedBefore
<1>9. Trusted => LinkedState(frames', nodes', origins') BY <1>4, <1>7 DEF LinkedState
<1> QED BY <1>1, <1>4, <1>8, <1>9, SameState DEF LinkInv

-----------------------------------------------------------------------------
(* The keyword that is taken puts the numbers of its subschemas into the   *)
(* node; what the others put there stays.                                  *)

LEMMA AssignOne ==
  ASSUME NEW n, NEW word, NEW content, content # {}
  PROVE  Has(Assign(n, word, content), word) /\ Assign(n, word, content)[word] \in content
<1>1. Assign(n, word, content) =
        [k \in DOMAIN n \cup {word} |-> IF k = word THEN CHOOSE c \in content : TRUE ELSE n[k]]
  BY DEF Assign
<1>2. (CHOOSE c \in content : TRUE) \in content OBVIOUS
<1> QED BY <1>1, <1>2 DEF Has

LEMMA LinkedNames ==
  ASSUME NEW n, NEW v
  PROVE  Linked(n, "properties", v) = [i \in DOMAIN v.data |-> n.properties[v.data[i].token]]
BY DEF Linked, Lists

LEMMA AssignOther ==
  ASSUME NEW n, NEW word, NEW content, NEW w, w # word, Has(n, w)
  PROVE  Has(Assign(n, word, content), w) /\ Assign(n, word, content)[w] = n[w]
BY DEF Assign, Has

LEMMA AssignWords ==
  ASSUME NEW n, NEW word, NEW content
  PROVE  DOMAIN Assign(n, word, content) \subseteq DOMAIN n \cup {word}
BY DEF Assign

LEMMA LinkedSame ==
  ASSUME NEW n, NEW p, NEW w, n[w] = p[w], NEW v
  PROVE  Linked(n, w, v) = Linked(p, w, v)
BY DEF Linked

(* The last of a name is the only one. *)
LEMMA OnlyOfName ==
  ASSUME Documented, UniqueNames, NEW v \in Within(doc), v.type = "Object", NEW i \in 1..Len(v.data),
         NEW ids, NEW before
  PROVE  ByName(v, ids, before)[v.data[i].token] = ids[i]
<1>1. /\ DOMAIN v.data = 1..Len(v.data) /\ Len(v.data) \in Nat BY MembersShape
<1> DEFINE t == v.data[i].token
           I == { j \in 1..Len(v.data) : v.data[j].token = t }
<1>2. I = {i} BY <1>1 DEF UniqueNames
<1>3. t \in ChildrenOf(v) BY <1>1 DEF ChildrenOf
<1>4. SelectLastInSeq(v.data, LAMBDA c : c.token = t) = IF I # {} THEN Max(I) ELSE 0
  BY DEF SelectLastInSeq
<1>5. Max(I) = i
  <2> HIDE DEF I
  <2>1. i \in Nat BY <1>1
  <2> QED BY <1>2, <2>1 DEF Max
<1>6. ByName(v, ids, before)[t] = ids[SelectLastInSeq(v.data, LAMBDA c : c.token = t)]
  BY <1>3 DEF ByName
<1> QED BY <1>2, <1>4, <1>5, <1>6

Holders == {"properties", "items", "not", "additionalProperties"} \cup Lists

LEMMA HoldersHold ==
  ASSUME NEW word, NEW v, Subschemas(word, v) # <<>>
  PROVE  /\ word \in Holders
         /\ word = "properties" => v.type = "Object"
         /\ word \in Lists => v.type = "Array"
         /\ word = "additionalProperties" => v.type # "Bool"
BY DEF Subschemas, Holders, Lists

LEMMA LinkedNew ==
  ASSUME Documented, UniqueNames, NEW v \in Within(doc), NEW word, Subschemas(word, v) # <<>>,
         NEW n, ~Has(n, word), NEW ids, IsSequence(ids), Len(ids) = Len(Subschemas(word, v)),
         NEW node, node = Assign(n, word, Content(n, word, v, ids))
  PROVE  /\ Has(node, word) /\ Len(Linked(node, word, v)) = Len(ids)
         /\ \A i \in 1..Len(ids) : Linked(node, word, v)[i] = ids[i]
<1>0. Len(ids) \in Nat /\ DOMAIN ids = 1..Len(ids) BY DEF IsSequence
<1>1. CASE word = "properties"
  <2>1. v.type = "Object" BY <1>1, HoldersHold
  <2>2. DOMAIN v.data = 1..Len(v.data) /\ Len(v.data) \in Nat BY <2>1, MembersShape
  <2> DEFINE map == ByName(v, ids, Get(n, word, << >>))
  <2>3. Content(n, word, v, ids) = {map}
    BY <1>1, <2>1 DEF Content, Counts, Measures, Bounds, Lists
  <2> HIDE DEF map
  <2>4. Has(node, word) /\ node[word] = map BY <2>3, AssignOne
  <2>10. node.properties = map BY <1>1, <2>4
  <2>11. Linked(node, word, v) = [i \in DOMAIN v.data |-> node.properties[v.data[i].token]]
    <3>1. Linked(node, word, v) = Linked(node, "properties", v) BY <1>1
    <3> HIDE DEF map
    <3> QED BY <3>1, LinkedNames
  <2>5. Linked(node, word, v) = [i \in DOMAIN v.data |-> map[v.data[i].token]]
    BY <2>10, <2>11
  <2>6. Subschemas(word, v) = [i \in DOMAIN v.data |->
                                [at |-> <<"slash">> \o v.data[i].token, value |-> v.data[i].value]]
    BY <1>1, <2>1 DEF Subschemas
  <2>7. Len(ids) = Len(v.data) BY <2>2, <2>6
  <2>8. \A i \in 1..Len(v.data) : map[v.data[i].token] = ids[i] BY <2>1, OnlyOfName DEF map
  <2> QED BY <2>2, <2>4, <2>5, <2>7, <2>8
<1>2. CASE word \in Lists
  <2>1. v.type = "Array" /\ word # "properties" BY <1>2, HoldersHold DEF Lists
  <2>2. Content(n, word, v, ids) = {ids}
    <3>1. CASE word = "prefixItems"
      <4>1. Get(n, word, <<>>) = <<>> BY DEF Get
      <4>2. <<>> \o ids = ids
        <5>1. ids \in Seq(Elements(ids)) BY IsSequenceIsSeq
        <5> QED BY <5>1
      <4> QED BY <2>1, <3>1, <4>1, <4>2 DEF Content, Counts, Measures, Bounds
    <3>2. CASE word # "prefixItems"
      BY <1>2, <2>1, <3>2 DEF Content, Counts, Measures, Bounds, Lists
    <3> QED BY <3>1, <3>2
  <2>3. Has(node, word) /\ node[word] = ids BY <2>2, AssignOne
  <2>4. Linked(node, word, v) = ids BY <1>2, <2>1, <2>3 DEF Linked
  <2> QED BY <2>3, <2>4
<1>3. CASE word \in {"items", "not", "additionalProperties"}
  <2>1. word = "additionalProperties" => v.type # "Bool" BY HoldersHold
  <2>2. Content(n, word, v, ids) = {ids[1]}
    BY <1>3, <2>1 DEF Content, Counts, Measures, Bounds, Lists
  <2>3. Has(node, word) /\ node[word] = ids[1] BY <2>2, AssignOne
  <2>4. Linked(node, word, v) = << ids[1] >> BY <1>3, <2>3 DEF Linked, Lists
  <2>5. Subschemas(word, v) = << [at |-> <<>>, value |-> v] >> BY <1>3, <2>1 DEF Subschemas, Lists
  <2>6. Len(ids) = 1 BY <2>5, SingletonSequence
  <2> QED BY <2>3, <2>4, <2>6, SingletonSequence
<1> QED BY <1>1, <1>2, <1>3, HoldersHold DEF Holders

LEMMA SameKeyword ==
  ASSUME NEW s, IsSequence(s), NEW t, IsSequence(t), Word(s) = Word(t), Word(s) \in Holders
  PROVE  s = t
<1>1. Word(s) # "other" BY DEF Holders, Lists
<1>2. Len(s) = 1 /\ Len(t) = 1 /\ s[1] = t[1] BY <1>1 DEF Word
<1> QED BY <1>2, SameSequence

(* Under unique names only one member has the word of a keyword. *)
LEMMA OnlyOfWord ==
  ASSUME Documented, UniqueNames, NEW v \in Within(doc), v.type = "Object",
         NEW i \in 1..Len(v.data), NEW j \in 1..Len(v.data),
         Word(v.data[i].token) = Word(v.data[j].token), Word(v.data[i].token) \in Holders
  PROVE  i = j
<1>1. /\ DOMAIN v.data = 1..Len(v.data)
      /\ IsSequence(v.data[i].token) /\ IsSequence(v.data[j].token)
  BY MembersShape
<1>2. v.data[i].token = v.data[j].token BY <1>1, SameKeyword
<1> QED BY <1>1, <1>2 DEF UniqueNames

(* The innermost activation, when it takes a keyword: all that the keyword *)
(* holds has been lowered.                                                 *)
LEMMA TakenDone ==
  ASSUME CInv, Shape, EnterInv, AllWords, Trusted, TakeKeyword, NEW m, m = Top.value.data[Top.member]
  PROVE  MemberDone(Assign(Top.node, Word(Key), Said), origins, m)
<1>1. Looping /\ More /\ Len(Top.ids) = Len(Below) BY DEF TakeKeyword
<1>2. /\ Top = frames[Len(frames)] /\ Len(frames) \in 1..Len(frames) /\ IsActivation(Top, Len(nodes))
  BY <1>1, LoopFacts, Popped
<1>3. /\ IsBody(Top, origins) /\ Top.member \in 1..Len(Top.value.data) /\ Member \in Within(doc)
      /\ Len(Top.value.data) \in Nat
  BY <1>1, TopShape
<1> DEFINE word == Word(Key)
           ids == Top.ids
           node == Assign(Top.node, word, Said)
<1>4. Word(m.token) = word /\ m.value = Member /\ Held(m) = Below /\ Subs(Top) = Below
  BY DEF Held, Below, Subs, Key, Member
<1>5. /\ IsSequence(ids) /\ Len(ids) = Len(Below) /\ Len(ids) \in Nat
      /\ \A k \in 1..Len(ids) : ids[k] \in 1..Len(origins)
  BY <1>1, <1>2 DEF IsActivation, IsSequence, CInv, ArenaOK
<1>6. \A k \in 1..Len(ids) : origins[ids[k]].value = Meant(doc, Below[k].value)
  BY <1>2, <1>4 DEF EnterInv, AllIdsMeant, IdsMeant
<1>7. \A i \in 1..Len(Held(m)) : Settled(origins, Held(m)[i].value)
  <2> HIDE DEF ids
  <2> QED BY <1>4, <1>5, <1>6 DEF Settled
<1>8. ASSUME UniqueNames, Held(m) # <<>> PROVE ~Has(Top.node, word)
  <2> SUFFICES ASSUME Has(Top.node, word) PROVE FALSE OBVIOUS
  <2>1. word \in Holders BY <1>4, <1>8, HoldersHold DEF Held
  <2>2. WordsOf(Top) BY <1>2 DEF AllWords
  <2>3. PICK j \in 1..(Top.member - 1) : Word(Top.value.data[j].token) = word
    BY <2>2 DEF WordsOf, Has
  <2>4. j \in 1..Len(Top.value.data) /\ j # Top.member BY <1>3, <2>3
  <2>5. Word(Top.value.data[Top.member].token) = word BY <1>4
  <2> HIDE DEF word
  <2>6. j = Top.member BY <1>3, <1>8, <2>1, <2>3, <2>4, <2>5, OnlyOfWord DEF IsBody, Shape
  <2> QED BY <2>4, <2>6
<1>9. ASSUME UniqueNames, Held(m) # <<>>
      PROVE  /\ Has(node, word) /\ Len(Linked(node, word, Member)) = Len(ids)
             /\ \A i \in 1..Len(ids) : Linked(node, word, Member)[i] = ids[i]
  <2>1. Below = Subschemas(word, Member) BY DEF Below
  <2>2. node = Assign(Top.node, word, Content(Top.node, word, Member, ids)) BY DEF Said
  <2>3. ~Has(Top.node, word) BY <1>8, <1>9
  <2>4. Documented BY DEF Shape
  <2> HIDE DEF word, ids, node
  <2> QED BY <1>3, <1>4, <1>5, <1>9, <2>1, <2>2, <2>3, <2>4, LinkedNew
<1>10. UniqueNames => LinkedTo(node, origins, m)
  <2> SUFFICES ASSUME UniqueNames, Held(m) # <<>>
               PROVE  /\ Has(node, Word(m.token))
                      /\ Len(Linked(node, Word(m.token), m.value)) = Len(Held(m))
                      /\ \A i \in 1..Len(Held(m)) :
                           /\ Linked(node, Word(m.token), m.value)[i] \in 1..Len(origins)
                           /\ origins[Linked(node, Word(m.token), m.value)[i]].value = Meant(doc, Held(m)[i].value)
    BY DEF LinkedTo
  <2>1. /\ Has(node, word) /\ Len(Linked(node, word, Member)) = Len(ids)
        /\ \A i \in 1..Len(ids) : Linked(node, word, Member)[i] = ids[i]
    BY <1>9
  <2> HIDE DEF word, ids, node
  <2> QED BY <1>4, <1>5, <1>6, <2>1
<1> QED BY <1>7, <1>10 DEF MemberDone

(* What the other keywords hold stays where it is. *)
LEMMA OlderDone ==
  ASSUME CInv, Shape, Looping, More, NEW j \in 1..(Top.member - 1), NEW content,
         MemberDone(Top.node, origins, Top.value.data[j])
  PROVE  MemberDone(Assign(Top.node, Word(Key), content), origins, Top.value.data[j])
<1>1. /\ IsBody(Top, origins) /\ Top.member \in 1..Len(Top.value.data) /\ Len(Top.value.data) \in Nat
  BY TopShape
<1> DEFINE m == Top.value.data[j]
           w == Word(m.token)
           word == Word(Key)
           node == Assign(Top.node, word, content)
<1>2. ASSUME UniqueNames, LinkedTo(Top.node, origins, m), Held(m) # <<>>
      PROVE  Has(node, w) /\ node[w] = Top.node[w]
  <2>1. w \in Holders BY <1>2, HoldersHold DEF Held
  <2>2. Has(Top.node, w) BY <1>2 DEF LinkedTo
  <2>3. j \in 1..Len(Top.value.data) /\ j # Top.member BY <1>1
  <2>4. word = Word(Top.value.data[Top.member].token) BY DEF Key
  <2>5. w # word
    <3> SUFFICES ASSUME w = word PROVE FALSE OBVIOUS
    <3> HIDE DEF word
    <3>1. j = Top.member BY <1>1, <1>2, <2>1, <2>3, <2>4, OnlyOfWord DEF IsBody, Shape
    <3> QED BY <2>3, <3>1
  <2> HIDE DEF w, word
  <2> QED BY <2>2, <2>5, AssignOther
<1>3. ASSUME UniqueNames, LinkedTo(Top.node, origins, m) PROVE LinkedTo(node, origins, m)
  <2> SUFFICES ASSUME Held(m) # <<>>
               PROVE  /\ Has(node, Word(m.token))
                      /\ Len(Linked(node, Word(m.token), m.value)) = Len(Held(m))
                      /\ \A i \in 1..Len(Held(m)) :
                           /\ Linked(node, Word(m.token), m.value)[i] \in 1..Len(origins)
                           /\ origins[Linked(node, Word(m.token), m.value)[i]].value = Meant(doc, Held(m)[i].value)
    BY DEF LinkedTo
  <2>1. Has(node, w) /\ node[w] = Top.node[w] BY <1>2, <1>3
  <2> HIDE DEF node
  <2>2. Linked(node, w, m.value) = Linked(Top.node, w, m.value)
    <3> HIDE DEF w, m
    <3> QED BY <2>1, LinkedSame
  <2>3. /\ Len(Linked(Top.node, w, m.value)) = Len(Held(m))
        /\ \A i \in 1..Len(Held(m)) :
             /\ Linked(Top.node, w, m.value)[i] \in 1..Len(origins)
             /\ origins[Linked(Top.node, w, m.value)[i]].value = Meant(doc, Held(m)[i].value)
    BY <1>3 DEF LinkedTo
  <2> QED BY <2>1, <2>2, <2>3
<1> HIDE DEF m, node
<1>4. MemberDone(Top.node, origins, m) BY DEF m
<1>5. MemberDone(node, origins, m) BY <1>3, <1>4 DEF MemberDone
<1> QED BY <1>5 DEF node, m

LEMMA LinkTakeKeyword ==
  ASSUME CInv, Shape, EnterInv, LinkInv, TakeKeyword
  PROVE  LinkInv'
<1>1. Looping /\ More /\ UNCHANGED <<doc, nodes, origins, result, call>> BY DEF TakeKeyword
<1> DEFINE n == Len(frames)
           word == Word(Key)
<1>2. /\ Len(frames') = n /\ n \in Nat /\ n > 0
      /\ \A i \in 1..n : i # n => frames'[i] = frames[i]
      /\ IsTaken(frames'[n]) /\ Top = frames[n]
  BY <1>1, TakeStep, LoopFacts
<1>3. OriginsKept BY <1>1 DEF OriginsKept
<1>4. IsBody(Top, origins) /\ Top.member \in 1..Len(Top.value.data) /\ Len(Top.value.data) \in Nat
  BY <1>1, TopShape
<1> DEFINE f == frames'[n]
<1>5. /\ f.value = Top.value /\ f.id = Top.id /\ f.member - 1 = Top.member
      /\ f.node = Assign(Top.node, word, Said)
  BY <1>2, <1>4 DEF IsTaken
<1>6. AllWords BY DEF LinkInv
<1>7. WordsOf(f)
  <2> SUFFICES ASSUME NEW w \in DOMAIN f.node
               PROVE  \E j \in 1..Top.member : Word(Top.value.data[j].token) = w
    <3> HIDE DEF f
    <3> QED BY <1>5 DEF WordsOf
  <2> HIDE DEF f
  <2>1. w \in DOMAIN Top.node \cup {word} BY <1>5, AssignWords
  <2>2. CASE w = word
    <3>1. Top.member \in 1..Top.member BY <1>4
    <3> QED BY <2>2, <3>1 DEF Key
  <2>3. CASE w \in DOMAIN Top.node
    <3>1. WordsOf(Top) BY <1>2, <1>6 DEF AllWords
    <3>2. PICK j \in 1..(Top.member - 1) : Word(Top.value.data[j].token) = w BY <2>3, <3>1 DEF WordsOf
    <3>3. j \in 1..Top.member BY <1>4, <3>2
    <3> QED BY <3>2, <3>3
  <2> QED BY <2>1, <2>2, <2>3
<1>8. AllWords'
  <2> SUFFICES ASSUME NEW i \in 1..n PROVE WordsOf(frames'[i]) BY <1>2 DEF AllWords
  <2>1. CASE i = n BY <1>7, <2>1
  <2>2. CASE i # n BY <1>2, <1>6, <2>2 DEF AllWords
  <2> QED BY <2>1, <2>2
<1>9. Trusted' => Trusted BY <1>1, <1>3, TrustedBefore
<1>10. ASSUME Trusted PROVE LinkedState(frames', nodes', origins')
  <2>1. LinkedState(frames, nodes, origins) BY <1>1, <1>10, RunningLinked
  <2>2. DoneBelow(Top, origins) BY <1>2, <2>1 DEF LinkedState
  <2>3. ASSUME NEW j \in 1..Top.member
        PROVE  MemberDone(Assign(Top.node, word, Said), origins, Top.value.data[j])
    <3>1. CASE j = Top.member BY <1>6, <1>10, <3>1, TakenDone
    <3>2. CASE j # Top.member
      <4>1. j \in 1..(Top.member - 1) BY <1>4, <3>2
      <4> QED BY <1>1, <2>2, <4>1, OlderDone DEF DoneBelow
    <3> QED BY <3>1, <3>2
  <2>4. DoneBelow(f, origins)
    <3> HIDE DEF f
    <3> QED BY <1>5, <2>3 DEF DoneBelow
  <2>5. ASSUME NEW i \in 1..Len(frames') PROVE DoneBelow(frames'[i], origins')
    <3>1. CASE i = n BY <1>1, <2>4, <3>1
    <3>2. CASE i # n BY <1>1, <1>2, <2>1, <3>2 DEF LinkedState
    <3> QED BY <3>1, <3>2
  <2>6. ASSUME NEW id, Opened(frames, id) PROVE Opened(frames', id)
    <3>1. PICK i \in 1..n : frames[i].id = id BY <2>6 DEF Opened
    <3>2. frames'[i].id = frames[i].id
      <4>1. CASE i = n BY <1>2, <1>5, <4>1
      <4>2. CASE i # n BY <1>2, <4>2
      <4> QED BY <4>1, <4>2
    <3> QED BY <1>2, <3>1, <3>2 DEF Opened
  <2>7. ASSUME NEW id \in 1..Len(nodes') PROVE Opened(frames', id) \/ DoneOf(nodes'[id], origins', origins'[id])
    BY <1>1, <2>1, <2>6 DEF LinkedState
  <2> QED BY <2>5, <2>7 DEF LinkedState
<1> QED BY <1>1, <1>8, <1>9, <1>10, SameState DEF LinkInv

LEMMA LinkInit == CInit => LinkInv
<1> SUFFICES ASSUME CInit PROVE LinkInv OBVIOUS
<1>1. frames = <<>> /\ nodes = <<>> BY DEF CInit
<1>2. Len(frames) = 0 /\ Len(nodes) = 0 BY <1>1, EmptySequence
<1> QED BY <1>2 DEF LinkInv, AllWords, LinkedState

LEMMA LinkStep ==
  CInv /\ Shape /\ RecordInv /\ EnterInv /\ LinkInv /\ [CNext]_cvars => LinkInv'
<1> SUFFICES ASSUME CInv, Shape, RecordInv, EnterInv, LinkInv, [CNext]_cvars PROVE LinkInv' OBVIOUS
<1>1. CASE ParseFails BY <1>1, LinkRefuse DEF ParseFails
<1>2. CASE LowerBoolean BY <1>2, LinkLowerBoolean
<1>3. CASE NotASchema BY <1>3, LinkRefuse DEF NotASchema
<1>4. CASE ResolveRef BY <1>4, LinkResolveRef
<1>5. CASE LowerObject BY <1>5, LinkLowerObject
<1>6. CASE Descend BY <1>6, LinkDescend
<1>7. CASE TakeKeyword BY <1>7, LinkTakeKeyword
<1>8. CASE EndObject BY <1>8, LinkEndObject
<1>9. CASE UNCHANGED cvars
  <2>1. UNCHANGED <<doc, call, frames, result, origins, nodes>> BY <1>9 DEF cvars
  <2>2. Trusted' => Trusted BY <2>1, TrustedBefore DEF OriginsKept
  <2>3. AllWords' BY <2>1 DEF LinkInv, AllWords
  <2>4. (Running \/ Accepted)' => Running \/ Accepted BY <2>1 DEF Running, Accepted, Done
  <2>5. Trusted /\ (Running \/ Accepted) => LinkedState(frames', nodes', origins')
    BY <2>1 DEF LinkInv
  <2> QED BY <2>1, <2>2, <2>3, <2>4, <2>5, SameState DEF LinkInv
<1> QED BY <1>1, <1>2, <1>3, <1>4, <1>5, <1>6, <1>7, <1>8, <1>9 DEF CNext

LEMMA LinkedInductive == CSpec => [](CInv /\ Shape /\ RecordInv /\ RefusedOK /\ EnterInv /\ LinkInv)
BY EnteredInductive, LinkInit, LinkStep, PTL DEF CSpec

-----------------------------------------------------------------------------
(* The compiler has returned: no activation is left, so that every node    *)
(* holds what its object holds.                                            *)

LEMMA AllDone ==
  ASSUME LinkInv, RecordInv, Trusted, Accepted
  PROVE  \A id \in 1..Len(nodes) : DoneOf(nodes[id], origins, origins[id])
<1>1. frames = <<>> /\ LinkedState(frames, nodes, origins) BY DEF LinkInv, RecordInv, Halted, Accepted
<1>2. \A id : ~Opened(frames, id) BY <1>1, EmptySequence DEF Opened
<1> QED BY <1>1, <1>2 DEF LinkedState

LEMMA LinkImplies == CInv /\ Shape /\ RecordInv /\ EnterInv /\ LinkInv => GraphMatchesDocument
<1> SUFFICES ASSUME CInv, Shape, RecordInv, EnterInv, LinkInv, Accepted, UniqueNames, Trusted
             PROVE  GraphMatchesDocument
  BY DEF GraphMatchesDocument, Trusted
<1>1. origins[result.id].value = Meant(doc, doc) BY DEF EnterInv
<1>2. ASSUME NEW id \in Ids, origins[id].value.type = "Object", NEW m \in Range(origins[id].value.data),
             Held(m) # <<>>
      PROVE  /\ Len(Linked(nodes[id], Word(m.token), m.value)) = Len(Held(m))
             /\ \A i \in DOMAIN Held(m) :
                  origins[Linked(nodes[id], Word(m.token), m.value)[i]].value = Meant(doc, Held(m)[i].value)
  <2>1. DoneOf(nodes[id], origins, origins[id]) BY AllDone DEF Ids
  <2>2. IsOrigin(origins[id]) BY DEF Shape, OriginsShape, CInv, ArenaOK, Ids
  <2>3. PICK j \in 1..Len(origins[id].value.data) : m = origins[id].value.data[j]
    BY <1>2, <2>2, MembersShape DEF IsOrigin, Shape, Range
  <2>4. m.value \in Within(doc) BY <1>2, <2>2, <2>3, MembersShape DEF IsOrigin, Shape
  <2>5. LinkedTo(nodes[id], origins, m) BY <1>2, <2>1, <2>3 DEF DoneOf, MemberDone
  <2>6. DOMAIN Held(m) = 1..Len(Held(m)) BY <2>4, SubschemasShape DEF Held, Shape, IsSequence
  <2> QED BY <1>2, <2>5, <2>6 DEF LinkedTo
<1> QED BY <1>1, <1>2, Zenon DEF GraphMatchesDocument, Held

(* The graph is the document's: whatever the document, an accepted schema  *)
(* whose $refs are read as they are meant becomes a graph in which every   *)
(* node holds the numbers of the nodes made from what its subschemas mean, *)
(* also where a schema refers to itself.  (lower() in compile.rs.)         *)
THEOREM GraphMatchesDocumentCorrect == CSpec => []GraphMatchesDocument
BY LinkedInductive, LinkImplies, PTL

-----------------------------------------------------------------------------
(* All that an accepted schema rests on has become a node. *)

LEMMA ReachedWithin ==
  ASSUME NEW d, NEW S, d \in S, \A v \in S : Uses(d, v) \cap Reached(d) \subseteq S
  PROVE  Reached(d) \subseteq S
<1>0. MaxCalls \in Nat BY CompilerAssumption
<1> DEFINE bad == { n \in 0..MaxCalls : ~(Levels(d)[n] \subseteq S) }
<1>1. bad = {}
  <2>1. SUFFICES ASSUME bad # {} PROVE FALSE OBVIOUS
  <2>2. PICK n \in bad : \A m \in bad : n <= m
    <3> HIDE DEF bad
    <3>1. bad \subseteq Nat BY <1>0 DEF bad
    <3> QED BY <2>1, <3>1, LeastNumber
  <2>3. n \in 0..MaxCalls /\ ~(Levels(d)[n] \subseteq S) BY <2>2
  <2>4. n # 0 BY <2>3, LevelsAre
  <2>5. n - 1 \in 0..MaxCalls /\ n \in 1..MaxCalls /\ n - 1 < n BY <1>0, <2>3, <2>4
  <2>6. Levels(d)[n - 1] \subseteq S BY <2>2, <2>5
  <2>7. Levels(d)[n] = UNION { {v} \cup Uses(d, v) : v \in Levels(d)[n - 1] } BY <2>5, LevelsAre
  <2>8. Levels(d)[n] \subseteq Reached(d) BY <2>3, LevelReached
  <2> QED BY <2>3, <2>6, <2>7, <2>8
<1> QED BY <1>0, <1>1, LevelsAre

LEMMA SettledIs ==
  ASSUME CInv, Shape, NEW v, Settled(origins, v)
  PROVE  /\ v # None /\ v.type \in {"Bool", "Object"} /\ ~IsRef(Meant(doc, v))
         /\ ~IsRef(v) => \E id \in Ids : origins[id].value = v
<1>0. 0 \in 0..MaxCalls BY CompilerAssumption
<1>1. PICK id \in 1..Len(origins) : origins[id].value = Meant(doc, v) BY DEF Settled
<1>2. IsOrigin(origins[id]) /\ id \in Ids BY DEF Shape, OriginsShape, CInv, ArenaOK, Ids
<1>3. origins[id].value # None BY <1>2, WithinShape DEF IsOrigin, Shape
<1>4. ~IsRef(v) => Meant(doc, v) = v BY <1>0, ChainEnds, HopsAre
<1>5. v # None BY <1>1, <1>3, <1>4 DEF IsRef
<1>6. v.type \in {"Bool", "Object"}
  <2>1. CASE IsRef(v) BY <2>1 DEF IsRef, Targets
  <2>2. CASE ~IsRef(v) BY <1>1, <1>2, <1>4, <2>2 DEF IsOrigin
  <2> QED BY <2>1, <2>2
<1>7. ~IsRef(Meant(doc, v)) BY <1>1, <1>2 DEF IsOrigin, IsRef
<1> QED BY <1>1, <1>2, <1>4, <1>5, <1>6, <1>7

LEMMA UsesSettled ==
  ASSUME CInv, Shape, RecordInv, LinkInv, Trusted, Accepted, NEW v, Settled(origins, v), NEW u \in Uses(doc, v)
  PROVE  Settled(origins, u)
<1>1. v # None /\ ~IsRef(Meant(doc, v)) BY SettledIs
<1>2. CASE IsRef(v)
  <2>1. PICK t \in Targets(v) : TRUE BY <1>2 DEF IsRef
  <2>2. u = Hop(doc, v) BY <1>1, <2>1, HopIs
  <2>3. Meant(doc, u) = Meant(doc, v) BY <1>1, <2>2, HopMeansTheSame
  <2> QED BY <2>3 DEF Settled
<1>3. CASE ~IsRef(v)
  <2>1. Targets(v) = {} BY <1>1, <1>3 DEF IsRef
  <2>2. v.type = "Object" BY <1>1, <2>1 DEF Uses
  <2>3. u \in UNION { { s.value : s \in Range(Subschemas(Word(m.token), m.value)) } : m \in Range(v.data) }
    BY <1>1, <2>1, <2>2 DEF Uses
  <2>4. PICK m \in Range(v.data) : u \in { s.value : s \in Range(Subschemas(Word(m.token), m.value)) }
    BY <2>3
  <2>5. PICK s \in Range(Held(m)) : u = s.value BY <2>4 DEF Held
  <2>6. PICK id \in Ids : origins[id].value = v BY <1>3, SettledIs
  <2>7. IsOrigin(origins[id]) BY DEF Shape, OriginsShape, CInv, ArenaOK, Ids
  <2>8. DoneOf(nodes[id], origins, origins[id]) BY AllDone DEF Ids
  <2>9. PICK j \in 1..Len(v.data) : m = v.data[j]
    BY <2>2, <2>6, <2>7, MembersShape DEF IsOrigin, Shape, Range
  <2>10. m.value \in Within(doc) BY <2>2, <2>6, <2>7, <2>9, MembersShape DEF IsOrigin, Shape
  <2>11. PICK i \in 1..Len(Held(m)) : s = Held(m)[i]
    BY <2>10, SubschemasShape DEF Held, Shape, IsSequence, Range
  <2>12. MemberDone(nodes[id], origins, m) BY <2>2, <2>6, <2>8, <2>9 DEF DoneOf
  <2> QED BY <2>5, <2>11, <2>12 DEF MemberDone
<1> QED BY <1>2, <1>3

LEMMA AcceptedRests ==
  ASSUME CInv, Shape, RecordInv, EnterInv, LinkInv, Trusted, Accepted, NEW v \in Reached(doc)
  PROVE  v # None /\ v.type \in {"Bool", "Object"}
<1> DEFINE S == { u \in Reached(doc) \cup {doc} : Settled(origins, u) }
<1>1. doc \in S
  <2>1. origins[result.id].value = Meant(doc, doc) /\ result.id \in Ids
    BY CInvImplies DEF EnterInv, IdsInArena
  <2>2. result.id \in 1..Len(origins) BY <2>1 DEF Ids, CInv, ArenaOK
  <2> QED BY <2>1, <2>2 DEF Settled
<1>2. \A u \in S : Uses(doc, u) \cap Reached(doc) \subseteq S BY UsesSettled
<1> HIDE DEF S
<1>3. v \in S BY <1>1, <1>2, ReachedWithin
<1> QED BY <1>3, SettledIs DEF S

LEMMA RefusalsImplied == CInv /\ Shape /\ RecordInv /\ RefusedOK /\ EnterInv /\ LinkInv => RefusalsAreRight
<1> SUFFICES ASSUME CInv, Shape, RecordInv, RefusedOK, EnterInv, LinkInv, Done, ~LenientPointer
             PROVE  /\ result.type = "NotJson" <=> doc = Malformed
                    /\ result.type = "NotASchema" => \E v \in Reached(doc) \ {None} : v.type \notin {"Bool", "Object"}
                    /\ result.type = "UnresolvableRef" => None \in Reached(doc)
                    /\ Accepted /\ ~Misread => \A v \in Reached(doc) : v # None /\ v.type \in {"Bool", "Object"}
  BY DEF RefusalsAreRight
<1>1. Accepted /\ ~Misread => \A v \in Reached(doc) : v # None /\ v.type \in {"Bool", "Object"}
  BY AcceptedRests DEF Trusted
<1> QED BY <1>1 DEF RefusedOK

(* A schema is refused for the reason given, and for no other: whatever    *)
(* the document, a refusal names something that the schema rests on, and   *)
(* of an accepted one, its references read as they are meant, all that it  *)
(* rests on is there and is a schema.  (CompileError in compile.rs.)       *)
THEOREM RefusalsAreRightCorrect == CSpec => []RefusalsAreRight
BY LinkedInductive, RefusalsImplied, PTL

-----------------------------------------------------------------------------
(* The token of a child leads to a child: to that one, unless an earlier   *)
(* one has the same name.                                                  *)
LEMMA ChildFound ==
  ASSUME Documented, NEW v \in Within(doc), v.type \in {"Object", "Array"}, NEW i \in 1..Len(v.data)
  PROVE  /\ Child(v, v.data[i].token) \in Within(doc)
         /\ (v.type = "Object" => \A j \in 1..Len(v.data) : v.data[j].token = v.data[i].token => j = i)
              => Child(v, v.data[i].token) = v.data[i].value
<1> DEFINE t == v.data[i].token
           k == ChildIndex(v, t)
<1>0. /\ Len(v.data) \in Nat /\ DOMAIN v.data = 1..Len(v.data) /\ v # None /\ Shaped(v)
      /\ \A j \in 1..Len(v.data) : v.data[j].value \in Within(doc)
  BY MembersShape, WithinShape
<1>1. /\ k \in 1..Len(v.data)
      /\ v.type = "Object" => v.data[k].token = t
      /\ v.type = "Array" => k = i
  <2>1. CASE v.type = "Object"
    <3> DEFINE I == { j \in 1..Len(v.data) : v.data[j].token = t }
    <3>1. k = IF I # {} THEN Min(I) ELSE 0 BY <2>1 DEF ChildIndex, SelectInSeq
    <3>2. i \in I OBVIOUS
    <3>3. I \subseteq Nat OBVIOUS
    <3>4. PICK n \in I : \A m \in I : n <= m
      <4> HIDE DEF I
      <4> QED BY <3>2, <3>3, LeastNumber
    <3>5. Min(I) \in I
      <4> HIDE DEF I
      <4> QED BY <3>4 DEF Min
    <3>6. k \in I
      <4> HIDE DEF k
      <4> QED BY <3>1, <3>2, <3>5
    <3> HIDE DEF k
    <3> QED BY <2>1, <3>6
  <2>2. CASE v.type = "Array"
    <3>1. t = Decimal(i - 1) BY <1>0, <2>2 DEF Shaped
    <3>2. i - 1 \in Nat /\ (i - 1) + 1 = i BY <1>0
    <3>3. IndexOf(t) = i - 1 BY <3>1, <3>2, IndexOfDecimal
    <3>4. k = i BY <2>2, <3>2, <3>3 DEF ChildIndex
    <3> QED BY <2>2, <3>4
  <2> QED BY <2>1, <2>2
<1>2. Child(v, t) = v.data[k].value
  <2>1. k # 0 BY <1>0, <1>1
  <2> QED BY <1>0, <2>1 DEF Child
<1> HIDE DEF k
<1>3. (v.type = "Object" => \A j \in 1..Len(v.data) : v.data[j].token = t => j = i) => k = i BY <1>1
<1> QED BY <1>0, <1>1, <1>2, <1>3

-----------------------------------------------------------------------------
(* The places of a document.                                               *)
PlacesStep(f, d, k) ==
  IF k = 0 THEN {<<>>}
  ELSE UNION { { Append(p, t) : t \in ChildrenOf(ValueIn(d, p)) } : p \in f[k - 1] }

LEMMA PlacesExists ==
  ASSUME NEW d
  PROVE  \E f : f = [k \in 0..MaxNesting |-> PlacesStep(f, d, k)]
<1> DEFINE Good(f, n) == \A k \in 0..n : f[k] = PlacesStep(f, d, k)
           bad == { n \in 0..MaxNesting : ~\E f : Good(f, n) }
<1>0. MaxNesting \in Nat BY CompilerAssumption
<1>1. bad = {}
  <2>1. SUFFICES ASSUME bad # {} PROVE FALSE OBVIOUS
  <2>2. PICK n \in bad : \A m \in bad : n <= m
    <3> HIDE DEF bad
    <3>1. bad \subseteq Nat BY <1>0 DEF bad
    <3> QED BY <2>1, <3>1, LeastNumber
  <2>3. n \in 0..MaxNesting /\ \A m \in 0..MaxNesting : m < n => \E f : Good(f, m) BY <2>2
  <2>4. \E f : Good(f, n)
    <3>1. CASE n = 0
      <4> DEFINE none == [k \in {} |-> k]
                 base == [k \in 0..0 |-> PlacesStep(none, d, 0)]
      <4>1. PlacesStep(base, d, 0) = PlacesStep(none, d, 0) BY Zenon DEF PlacesStep
      <4>2. base[0] = PlacesStep(none, d, 0) OBVIOUS
      <4> HIDE DEF base, none
      <4>3. Good(base, 0) BY <4>1, <4>2
      <4> QED BY <3>1, <4>3
    <3>2. CASE n # 0
      <4>1. n - 1 \in 0..MaxNesting /\ n - 1 < n BY <1>0, <2>3, <3>2
      <4>2. PICK f : Good(f, n - 1) BY <2>3, <4>1
      <4> DEFINE g == [k \in 0..n |-> IF k = n THEN PlacesStep(f, d, n) ELSE f[k]]
      <4>3. \A k \in 0..n : k # n => k \in 0..(n - 1) /\ g[k] = f[k] BY <2>3
      <4>4. ASSUME NEW k \in 0..n PROVE PlacesStep(g, d, k) = PlacesStep(f, d, k)
        <5>1. k # 0 => k - 1 \in 0..n /\ k - 1 # n BY <2>3
        <5>2. k # 0 => g[k - 1] = f[k - 1] BY <4>3, <5>1
        <5> HIDE DEF g
        <5> QED BY <5>2 DEF PlacesStep
      <4>5. Good(g, n)
        <5> SUFFICES ASSUME NEW k \in 0..n PROVE g[k] = PlacesStep(g, d, k) BY <4>4
        <5>1. CASE k = n BY <4>4, <5>1
        <5>2. CASE k # n BY <4>2, <4>3, <4>4, <5>2
        <5> QED BY <5>1, <5>2
      <4> HIDE DEF g, Good
      <4> QED BY <4>5
    <3> QED BY <3>1, <3>2
  <2> QED BY <2>2, <2>4
<1>2. PICK f : Good(f, MaxNesting)
  <2>1. MaxNesting \in 0..MaxNesting BY <1>0
  <2> QED BY <1>1, <2>1
<1> DEFINE g == [k \in 0..MaxNesting |-> f[k]]
<1>3. ASSUME NEW k \in 0..MaxNesting PROVE g[k] = PlacesStep(g, d, k)
  <2>1. k # 0 => k - 1 \in 0..MaxNesting BY <1>0
  <2>2. g[k] = f[k] /\ (k # 0 => g[k - 1] = f[k - 1]) BY <2>1
  <2> HIDE DEF g
  <2> QED BY <1>2, <2>2 DEF PlacesStep
<1>4. g = [k \in 0..MaxNesting |-> g[k]] OBVIOUS
<1> HIDE DEF g
<1>5. g = [k \in 0..MaxNesting |-> PlacesStep(g, d, k)] BY <1>3, <1>4
<1> QED BY <1>5

LEMMA PlacesAre ==
  ASSUME NEW d
  PROVE  \E f : /\ Places(d) = UNION { f[k] : k \in 0..MaxNesting }
                /\ \A k \in 0..MaxNesting : f[k] = PlacesStep(f, d, k)
<1> DEFINE F(f) == f = [k \in 0..MaxNesting |-> PlacesStep(f, d, k)]
           g == CHOOSE f : F(f)
<1>1. PICK h : F(h) BY PlacesExists
<1>2. F(g)
  <2> HIDE DEF F
  <2> QED BY <1>1
<1>3. Places(d) = UNION { g[k] : k \in 0..MaxNesting } BY Zenon DEF Places, PlacesStep
<1>4. ASSUME NEW k \in 0..MaxNesting PROVE g[k] = PlacesStep(g, d, k)
  <2> HIDE DEF g
  <2> QED BY <1>2
<1> HIDE DEF g, F
<1> QED BY <1>3, <1>4

IsPlace(p) == Rendered(p) /\ ValueIn(doc, p) \in Within(doc)

LEMMA PlaceBelow ==
  ASSUME Documented, NEW p, IsPlace(p), NEW t \in ChildrenOf(ValueIn(doc, p))
  PROVE  IsPlace(Append(p, t))
<1> DEFINE v == ValueIn(doc, p)
<1>1. v \in Within(doc) /\ Rendered(p) /\ IsSequence(p) BY DEF IsPlace, Rendered, Parts
<1>2. v.type \in {"Object", "Array"} /\ t \in { v.data[i].token : i \in DOMAIN v.data }
  BY DEF ChildrenOf
<1>3. ValueIn(doc, Append(p, t)) = Child(v, t) BY <1>1, ValueBelow
<1> HIDE DEF v
<1>4. PICK i \in 1..Len(v.data) : t = v.data[i].token BY <1>1, <1>2, MembersShape
<1>5. IsSequence(t) BY <1>1, <1>2, <1>4, MembersShape
<1>6. Child(v, t) \in Within(doc) BY <1>1, <1>2, <1>4, ChildFound
<1> QED BY <1>1, <1>3, <1>5, <1>6, RenderedAppend DEF IsPlace

LEMMA PlacesShape ==
  ASSUME Documented, NEW p \in Places(doc)
  PROVE  IsPlace(p)
<1>0. MaxNesting \in Nat BY CompilerAssumption
<1>1. PICK f : /\ Places(doc) = UNION { f[k] : k \in 0..MaxNesting }
               /\ \A k \in 0..MaxNesting : f[k] = PlacesStep(f, doc, k)
  BY PlacesAre
<1> DEFINE Good(k) == \A q \in f[k] : IsPlace(q)
           bad == { k \in 0..MaxNesting : ~Good(k) }
<1>2. bad = {}
  <2>1. SUFFICES ASSUME bad # {} PROVE FALSE OBVIOUS
  <2> HIDE DEF Good
  <2>2. PICK k \in bad : \A j \in bad : k <= j
    <3> HIDE DEF bad
    <3>1. bad \subseteq Nat BY <1>0 DEF bad
    <3> QED BY <2>1, <3>1, LeastNumber
  <2>3. k \in 0..MaxNesting /\ ~Good(k) /\ \A j \in 0..MaxNesting : j < k => Good(j) BY <2>2
  <2>4. f[k] = PlacesStep(f, doc, k) BY <1>1, <2>3
  <2>5. CASE k = 0
    <3>1. f[k] = {<<>>} BY <2>4, <2>5 DEF PlacesStep
    <3>2. IsPlace(<<>>) BY RenderedEmpty, ValueAtRoot, WithinRoot DEF IsPlace
    <3> QED BY <2>3, <3>1, <3>2 DEF Good
  <2>6. CASE k # 0
    <3>1. k - 1 \in 0..MaxNesting /\ k - 1 < k BY <1>0, <2>3, <2>6
    <3>2. Good(k - 1) BY <2>3, <3>1
    <3>3. f[k] = UNION { { Append(q, t) : t \in ChildrenOf(ValueIn(doc, q)) } : q \in f[k - 1] }
      BY <2>4, <2>6 DEF PlacesStep
    <3>4. Good(k)
      <4> SUFFICES ASSUME NEW r \in f[k] PROVE IsPlace(r) BY DEF Good
      <4>1. PICK q \in f[k - 1] : \E t \in ChildrenOf(ValueIn(doc, q)) : r = Append(q, t) BY <3>3
      <4>2. IsPlace(q) BY <3>2 DEF Good
      <4> QED BY <4>1, <4>2, PlaceBelow
    <3> QED BY <2>3, <3>4
  <2> QED BY <2>5, <2>6
<1>3. PICK k \in 0..MaxNesting : p \in f[k] BY <1>1
<1>4. Good(k)
  <2> HIDE DEF Good
  <2> QED BY <1>2
<1> QED BY <1>3, <1>4

(* $ref reads the text of a path as itself, unless the path begins with an *)
(* empty name and goes on.                                                 *)
LEMMA TrimmedIsTail ==
  ASSUME NEW text, IsSequence(text), text[1] = "slash",
         Len(text) = 1 \/ (Len(text) > 1 /\ text[2] # "slash")
  PROVE  Trimmed(text) = Tail(text)
<1> DEFINE rest == { i \in DOMAIN text : text[i] # "slash" }
<1>0. Len(text) \in Nat \ {0} /\ DOMAIN text = 1..Len(text) BY DEF IsSequence
<1>1. text # <<>> BY <1>0, EmptySequence
<1>2. Trimmed(text) = IF rest = {} THEN <<>> ELSE SubSeq(text, Min(rest), Len(text)) BY DEF Trimmed
<1>3. CASE Len(text) = 1
  <2>1. rest = {} BY <1>0, <1>3
  <2>2. IsSequence(Tail(text)) /\ Len(Tail(text)) = 0 BY <1>1, <1>3, TailSequence
  <2>3. Tail(text) = <<>> BY <2>2, NonEmptySequence
  <2> QED BY <1>2, <2>1, <2>3
<1>4. CASE Len(text) > 1 /\ text[2] # "slash"
  <2>1. 2 \in rest /\ 1 \notin rest BY <1>0, <1>4
  <2>2. \A j \in rest : 2 <= j BY <1>0, <2>1
  <2>3. rest \subseteq 1..Len(text) BY <1>0
  <2> HIDE DEF rest
  <2>4. Min(rest) = 2
    <3>1. \E j \in rest : \A m \in rest : j <= m BY <2>1, <2>2
    <3>2. Min(rest) \in rest /\ \A m \in rest : Min(rest) <= m BY <3>1 DEF Min
    <3> DEFINE m == Min(rest)
    <3>3. m \in rest /\ \A j \in rest : m <= j BY <3>2
    <3> HIDE DEF m
    <3>5. m \in 1..Len(text) /\ 2 <= m /\ m <= 2 BY <2>1, <2>2, <2>3, <3>3
    <3>4. m = 2 BY <1>0, <3>5
    <3> QED BY <3>4 DEF m
  <2>5. Tail(text) = SubSeq(text, 2, Len(text))
    <3>1. text \in Seq(Elements(text)) BY IsSequenceIsSeq
    <3> QED BY <1>1, <3>1, TailIsSubSeq
  <2> QED BY <1>2, <2>1, <2>4, <2>5
<1> QED BY <1>3, <1>4

(* PointersRoundTrip, for every document the parser makes.                 *)
LEMMA RoundTrip ==
  ASSUME Documented, NEW p \in Places(doc)
  PROVE  /\ ParsePointer(Render(p)) = p
         /\ Len(p) < 2 \/ p[1] # <<>> => PointerInto(doc, Render(p)) = ValueIn(doc, p)
<1> DEFINE r == Render(p)
<1>1. /\ IsSequence(p) /\ IsSequence(r) /\ IsPointer(r) /\ ParsePointer(r) = p
      /\ p # <<>> => r # <<>>
      /\ p # <<>> /\ p[1] # <<>> => Len(r) > 1 /\ r[2] # "slash"
      /\ Len(p) = 1 /\ p[1] = <<>> => Len(r) = 1
  BY PlacesShape DEF IsPlace, Rendered, Parts
<1>2. CASE p = <<>> BY <1>1, <1>2, RenderEmpty, ValueAtRoot DEF PointerInto
<1>3. ASSUME p # <<>>, Len(p) < 2 \/ p[1] # <<>> PROVE PointerInto(doc, r) = ValueIn(doc, p)
  <2>1. Len(p) \in Nat \ {0} BY <1>1, <1>3, NonEmptySequence DEF IsSequence
  <2>2. r # <<>> /\ r[1] = "slash" BY <1>1, <1>3 DEF IsPointer
  <2>3. Len(r) = 1 \/ (Len(r) > 1 /\ r[2] # "slash")
    <3>1. CASE p[1] # <<>> BY <1>1, <1>3, <3>1
    <3>2. CASE p[1] = <<>>
      <4>2. Len(p) < 2 BY <1>3, <3>2, Zenon
      <4>1. Len(p) = 1 BY <2>1, <4>2
      <4> QED BY <1>1, <3>2, <4>1
    <3> QED BY <3>1, <3>2
  <2> HIDE DEF r
  <2>4. Trimmed(r) = Tail(r) BY <1>1, <2>2, <2>3, TrimmedIsTail
  <2>5. PointerInto(doc, r) = ValueIn(doc, Tokens(Tail(r)))
    <3>1. PointerInto(doc, r) = ValueIn(doc, Once(Trimmed(r), Tokens)) BY <2>2 DEF PointerInto
    <3> QED BY <2>4, <3>1, OnceTokens
  <2> QED BY <1>1, <2>2, <2>5, ParseIs
<1> QED BY <1>1, <1>2, <1>3

(* RFC 6901: what the parser and the compiler render, status() and $ref    *)
(* read as the same place.  (escape_token in event.rs, parse_pointer in    *)
(* lib.rs, pointer_into in compile.rs.)                                    *)
THEOREM PointersRoundTripCorrect == CSpec => []PointersRoundTrip
<1>1. Shape => PointersRoundTrip BY RoundTrip DEF Shape, PointersRoundTrip
<1> QED BY <1>1, ShapeInductive, PTL

-----------------------------------------------------------------------------
(* In a document of plain and unique names, the pointer a schema is        *)
(* lowered under leads to it.                                              *)

Clean == PlainNames /\ UniqueNames /\ ~LenientPointer

Leads(at, v) == IsSequence(at) /\ IsPointer(at) /\ ValueIn(doc, ParsePointer(at)) = v

LocatedNote(n) ==
  /\ IsPointer(n.location) /\ ParsePointer(n.location) # <<>>
  /\ Word(Last(ParsePointer(n.location))) = n.keyword
  /\ ValueIn(doc, ParsePointer(n.location)) # None

LeadInv ==
  /\ call # None => Leads(call.at, call.value)
  /\ \A i \in 1..Len(origins) : Leads(origins[i].at, origins[i].value)
  /\ Running \/ Accepted => \A i \in 1..Len(notes) : LocatedNote(notes[i])

LeadsWhenClean == Clean => LeadInv

LEMMA NameUnmarked ==
  ASSUME Documented, PlainNames, NEW v \in Within(doc), v.type \in {"Object", "Array"},
         NEW i \in 1..Len(v.data)
  PROVE  Unmarked(v.data[i].token)
<1> DEFINE t == v.data[i].token
<1>1. IsSequence(t) /\ DOMAIN v.data = 1..Len(v.data) BY MembersShape
<1>2. t \in ChildrenOf(v) BY <1>1 DEF ChildrenOf
<1>3. {"slash", "~"} \cap Range(t) = {} BY <1>2 DEF PlainNames
<1> HIDE DEF t
<1>4. \A j \in 1..Len(t) : t[j] \in Range(t) BY <1>1 DEF Range, IsSequence
<1>5. Unmarked(t) BY <1>1, <1>3, <1>4 DEF Unmarked
<1> QED BY <1>5 DEF t

LEMMA LeadsBelow ==
  ASSUME Documented, PlainNames, UniqueNames, NEW v \in Within(doc), v.type \in {"Object", "Array"},
         NEW i \in 1..Len(v.data), NEW at, Leads(at, v)
  PROVE  /\ Leads(at \o (<<"slash">> \o v.data[i].token), v.data[i].value)
         /\ IsSequence(ParsePointer(at))
         /\ ParsePointer(at \o (<<"slash">> \o v.data[i].token)) = Append(ParsePointer(at), v.data[i].token)
<1> DEFINE t == v.data[i].token
           u == v.data[i].value
           more == at \o (<<"slash">> \o t)
<1>1. Plain(t) /\ Unescape(t) = t BY NameUnmarked, UnescapeUnmarked
<1>2. IsSequence(at) /\ IsPointer(at) /\ ValueIn(doc, ParsePointer(at)) = v BY DEF Leads
<1>3. Child(v, t) = u
  <2>1. v.type = "Object" => \A j \in 1..Len(v.data) : v.data[j].token = t => j = i
    <3>1. DOMAIN v.data = 1..Len(v.data) BY MembersShape
    <3> QED BY <3>1 DEF UniqueNames
  <2> QED BY <2>1, ChildFound
<1> HIDE DEF t, u
<1>4. /\ IsSequence(more) /\ IsPointer(more) /\ IsSequence(ParsePointer(at))
      /\ ParsePointer(more) = Append(ParsePointer(at), t)
  BY <1>1, <1>2, PointerBelow
<1>5. ValueIn(doc, ParsePointer(more)) = u
  <2> DEFINE p == ParsePointer(at)
  <2>1. IsSequence(p) /\ ParsePointer(more) = Append(p, t) /\ ValueIn(doc, p) = v BY <1>2, <1>4
  <2> HIDE DEF p, more
  <2>2. ValueIn(doc, Append(p, t)) = Child(ValueIn(doc, p), t) BY <2>1, ValueBelow
  <2> QED BY <1>3, <2>1, <2>2
<1>6. Leads(more, u) BY <1>4, <1>5 DEF Leads
<1> QED BY <1>4, <1>6 DEF t, u

(* The subschemas of a keyword. *)
LEMMA LeadsSubschema ==
  ASSUME Documented, PlainNames, UniqueNames, NEW word, NEW v \in Within(doc), NEW at, Leads(at, v),
         NEW k \in 1..Len(Subschemas(word, v))
  PROVE  Leads(at \o Subschemas(word, v)[k].at, Subschemas(word, v)[k].value)
<1> DEFINE each == [i \in DOMAIN v.data |-> [at |-> <<"slash">> \o v.data[i].token, value |-> v.data[i].value]]
           itself == [at |-> <<>>, value |-> v]
           many == (word = "properties" /\ v.type = "Object") \/ (word \in Lists /\ v.type = "Array")
<1>0. IsSequence(at) BY DEF Leads
<1>1. CASE many
  <2>1. Subschemas(word, v) = each BY <1>1 DEF Subschemas, Lists
  <2>2. DOMAIN v.data = 1..Len(v.data) /\ Len(v.data) \in Nat /\ v.type \in {"Object", "Array"}
    BY <1>1, MembersShape
  <2>3. Len(each) = Len(v.data) BY <2>2
  <2>4. k \in 1..Len(v.data) BY <2>1, <2>3
  <2>5. each[k].at = <<"slash">> \o v.data[k].token /\ each[k].value = v.data[k].value BY <2>2, <2>4
  <2>6. Leads(at \o (<<"slash">> \o v.data[k].token), v.data[k].value) BY <2>2, <2>4, LeadsBelow
  <2> HIDE DEF each
  <2> QED BY <2>1, <2>5, <2>6
<1>2. CASE ~many /\ (word \in {"items", "not"} \/ (word = "additionalProperties" /\ v.type # "Bool"))
  <2>1. Subschemas(word, v) = << itself >> BY <1>2 DEF Subschemas
  <2>2. itself.value = v /\ itself.at = <<>> OBVIOUS
  <2> HIDE DEF itself
  <2>3. k = 1 /\ Subschemas(word, v)[1] = itself BY <2>1, SingletonSequence
  <2>4. at \o <<>> = at BY <1>0, ConcatEmpty
  <2> QED BY <2>2, <2>3, <2>4
<1>3. CASE ~many /\ ~(word \in {"items", "not"} \/ (word = "additionalProperties" /\ v.type # "Bool"))
  <2>1. Subschemas(word, v) = <<>> BY <1>3 DEF Subschemas
  <2> QED BY <2>1, EmptySequence
<1> QED BY <1>1, <1>2, <1>3

(* The keyword the loop is at. *)
LEMMA LeadsLocation ==
  ASSUME CInv, Shape, Looping, More, Clean, LeadInv
  PROVE  /\ Leads(Location, Member) /\ Member \in Within(doc) /\ IsSequence(ParsePointer(Top.at))
         /\ ParsePointer(Location) = Append(ParsePointer(Top.at), Key)
<1>1. /\ IsBody(Top, origins) /\ Top.member \in 1..Len(Top.value.data) /\ IsSequence(Key)
      /\ Member \in Within(doc)
  BY TopShape
<1>2. Top.id \in 1..Len(origins) BY LoopFacts DEF CInv, ArenaOK, IsActivation
<1>3. /\ Leads(Top.at, Top.value) /\ Top.value \in Within(doc) /\ Top.value.type = "Object"
      /\ IsSequence(Top.at)
  BY <1>1, <1>2 DEF LeadInv, IsBody
<1>4. /\ Leads(Top.at \o (<<"slash">> \o Key), Member) /\ IsSequence(ParsePointer(Top.at))
      /\ ParsePointer(Top.at \o (<<"slash">> \o Key)) = Append(ParsePointer(Top.at), Key)
  BY <1>1, <1>3, LeadsBelow DEF Clean, Shape, Key, Member
<1>5. Location = Top.at \o (<<"slash">> \o Key)
  <2>1. IsSequence(<<"slash">>) BY SingletonSequence
  <2> DEFINE slash == <<"slash">>
             a == Top.at
             k == Key
  <2>2. IsSequence(slash) /\ IsSequence(a) /\ IsSequence(k) BY <1>1, <1>3, <2>1
  <2> HIDE DEF slash, a, k
  <2>3. (a \o slash) \o k = a \o (slash \o k) BY <2>2, ConcatThree
  <2> QED BY <2>3 DEF Location, slash, a, k
<1> QED BY <1>1, <1>4, <1>5

LEMMA SameClean == ASSUME doc' = doc PROVE Clean <=> Clean'
<1>1. PlainNames <=> PlainNames' BY DEF PlainNames
<1>2. UniqueNames <=> UniqueNames' BY DEF UniqueNames
<1> QED BY <1>1, <1>2, SameDocument DEF Clean

LEMMA LeadsStay == ASSUME doc' = doc, NEW at, NEW v PROVE Leads(at, v) <=> Leads(at, v)'
BY DEF Leads

LEMMA NotesStay ==
  ASSUME doc' = doc, notes' = notes, \A i \in 1..Len(notes) : LocatedNote(notes[i])
  PROVE  \A i \in 1..Len(notes') : LocatedNote(notes[i])'
BY DEF LocatedNote

(* A refusal calls nothing, makes no node, and leaves nothing to report.   *)
LEMMA LeadRefuse ==
  ASSUME LeadInv, NEW kind, kind # "Ok", Refuse(kind)
  PROVE  LeadInv'
<1>1. call' = None /\ frames' = <<>> /\ result' = Err(kind) /\ doc' = doc /\ origins' = origins BY DEF Refuse
<1>2. ~Accepted' /\ ~Running' BY <1>1 DEF Accepted, Err, Running
<1>3. \A i \in 1..Len(origins') : Leads(origins[i].at, origins[i].value)' BY <1>1 DEF LeadInv, Leads
<1> QED BY <1>1, <1>2, <1>3 DEF LeadInv

(* A node made from what is called. *)
LEMMA LeadGrow ==
  ASSUME CInv, LeadInv, call # None, doc' = doc, call' = None, notes' = notes,
         origins' = Append(origins, Origin)
  PROVE  LeadInv'
<1>1. IsSequence(origins) /\ Len(origins) \in Nat BY DEF CInv, ArenaOK, IsSequence
<1> DEFINE o == Origin
           n == Len(origins)
<1>2. o.at = call.at /\ o.value = call.value BY DEF Origin
<1> HIDE DEF o
<1>3. /\ Len(origins') = n + 1 /\ origins'[n + 1] = o /\ \A i \in 1..n : origins'[i] = origins[i]
  BY <1>1, AppendSequence DEF o
<1>4. ASSUME NEW i \in 1..(n + 1) PROVE Leads(origins[i].at, origins[i].value)'
  <2>1. CASE i = n + 1 BY <1>2, <1>3, <2>1 DEF LeadInv, Leads
  <2>2. CASE i # n + 1
    <3>1. i \in 1..n BY <1>1, <2>2
    <3> QED BY <1>3, <3>1 DEF LeadInv, Leads
  <2> QED BY <2>1, <2>2
<1>5. Running BY DEF Running
<1>6. \A i \in 1..Len(notes') : LocatedNote(notes[i])' BY <1>5, NotesStay DEF LeadInv
<1> QED BY <1>3, <1>4, <1>6 DEF LeadInv

(* Nothing but the call changes, of what matters here. *)
LEMMA LeadQuiet ==
  ASSUME LeadInv, doc' = doc, notes' = notes, origins' = origins, Running \/ (Accepted' => Accepted),
         call' # None => Leads(call'.at, call'.value), Running \/ ~Running'
  PROVE  LeadInv'
<1>1. \A i \in 1..Len(origins') : Leads(origins[i].at, origins[i].value)' BY DEF LeadInv, Leads
<1>2. Running' \/ Accepted' => \A i \in 1..Len(notes') : LocatedNote(notes[i])' BY NotesStay DEF LeadInv
<1>3. call' # None => Leads(call.at, call.value)' BY DEF Leads
<1> QED BY <1>1, <1>2, <1>3 DEF LeadInv

LEMMA LeadsReturn ==
  ASSUME LeadInv, NEW st, NEW id, Return(st, id), Running, doc' = doc, notes' = notes, origins' = origins
  PROVE  LeadInv'
<1>1. call' = None BY DEF Return
<1> QED BY <1>1, LeadQuiet

LEMMA LeadResolveRef ==
  ASSUME CInv, Shape, RefusedOK, Clean, LeadInv, ResolveRef
  PROVE  LeadInv'
<1>0. call # None /\ Running BY DEF ResolveRef, Lowering, Running
<1>1. PICK target \in Targets(call.value) :
        \/ RefRemote(target)
        \/ /\ IsLocal(target)
           /\ \E pointer \in { Tail(target) } :
                RefInProgress(pointer) \/ RefDangling(pointer) \/ RefFollow(pointer)
  BY DEF ResolveRef
<1>2. CASE RefRemote(target) BY <1>2, LeadRefuse DEF RefRemote
<1>3. ASSUME NEW pointer, RefInProgress(pointer) PROVE LeadInv'
  BY <1>0, <1>3, LeadsReturn DEF RefInProgress
<1>4. ASSUME NEW pointer, RefDangling(pointer) PROVE LeadInv'
  BY <1>4, LeadRefuse DEF RefDangling
<1>5. ASSUME IsLocal(target), RefFollow(Tail(target)) PROVE LeadInv'
  <2> DEFINE value == PointerInto(doc, Tail(target))
  <2>1. /\ value # None /\ call' = Call(value, Tail(target), call.depth + 1)
        /\ UNCHANGED <<doc, notes, origins>>
    BY <1>5 DEF RefFollow
  <2>2. value = Denoted(doc, target)
    BY <1>0, <1>1, <1>5, CallReached DEF Clean, RefusedOK
  <2>3. IsSequence(Tail(target)) BY <1>0, <1>1, <1>5, TargetsShape DEF Shape, CallShape
  <2>4. Leads(Tail(target), value) BY <2>1, <2>2, <2>3 DEF Denoted, Leads
  <2> HIDE DEF value
  <2>5. call'.at = Tail(target) /\ call'.value = value BY <2>1 DEF Call
  <2> QED BY <1>0, <2>1, <2>4, <2>5, LeadQuiet
<1> QED BY <1>1, <1>2, <1>3, <1>4, <1>5

LEMMA LeadDescend ==
  ASSUME CInv, Shape, Clean, LeadInv, Descend
  PROVE  LeadInv'
<1>1. /\ Looping /\ More /\ Len(Top.ids) < Len(Below) /\ UNCHANGED <<doc, notes, origins>>
      /\ \E next \in { Below[Len(Top.ids) + 1] } :
           call' = Call(next.value, Location \o next.at, Top.depth + 1)
  BY DEF Descend
<1> DEFINE k == Len(Top.ids) + 1
           next == Below[k]
<1>2. call' = Call(next.value, Location \o next.at, Top.depth + 1) BY <1>1
<1>3. Member \in Within(doc) /\ Leads(Location, Member) BY <1>1, LeadsLocation
<1>4. Len(Top.ids) \in Nat BY <1>1, LoopFacts DEF IsActivation, IsSequence
<1>5. IsSequence(Below) BY <1>1, <1>3, SubschemasShape DEF Shape, Below
<1>6. k \in 1..Len(Below) BY <1>1, <1>4, <1>5 DEF IsSequence
<1>7. Below = Subschemas(Word(Key), Member) BY DEF Below
<1> HIDE DEF k
<1>8. Leads(Location \o next.at, next.value)
  BY <1>3, <1>6, <1>7, LeadsSubschema DEF Shape, Clean
<1> HIDE DEF next
<1>9. call'.at = Location \o next.at /\ call'.value = next.value BY <1>2 DEF Call
<1>10. Running BY <1>1 DEF Running, Looping
<1> QED BY <1>1, <1>8, <1>9, <1>10, LeadQuiet

LEMMA LeadTakeKeyword ==
  ASSUME CInv, Shape, RecordInv, Clean, LeadInv, TakeKeyword
  PROVE  LeadInv'
<1>1. Looping /\ More /\ UNCHANGED <<doc, call, origins>>
      /\ notes' = notes \o [i \in 1..Noted(Word(Key), Member) |-> Note(Location, Word(Key))]
  BY DEF TakeKeyword
<1>2. Running /\ IsSequence(notes) BY <1>1, RunningKept DEF Running, Looping
<1>3. /\ Leads(Location, Member) /\ Member \in Within(doc) /\ IsSequence(ParsePointer(Top.at))
      /\ ParsePointer(Location) = Append(ParsePointer(Top.at), Key)
  BY <1>1, LeadsLocation
<1>4. Member # None BY <1>3, WithinShape DEF Shape
<1> DEFINE p == ParsePointer(Location)
           n == Note(Location, Word(Key))
           c == Noted(Word(Key), Member)
           new == [i \in 1..c |-> n]
<1>5. p # <<>> /\ Last(p) = Key
  <2> DEFINE q == ParsePointer(Top.at)
             k == Key
  <2>1. IsSequence(q) /\ p = Append(q, k) BY <1>3
  <2> HIDE DEF q, k, p
  <2>2. Len(p) = Len(q) + 1 /\ p[Len(q) + 1] = k /\ Len(q) \in Nat BY <2>1, AppendSequence DEF IsSequence
  <2>3. p # <<>> /\ Last(p) = k BY <2>2, EmptySequence DEF Last
  <2> QED BY <2>3 DEF k
<1>6. LocatedNote(n)
  <2>1. n.location = Location /\ n.keyword = Word(Key) BY DEF Note
  <2> QED BY <1>3, <1>4, <1>5, <2>1 DEF LocatedNote, Leads
<1>7. c \in Nat
  <2>1. Member.type \in {"String", "Array"} => IsSequence(Member.data)
    BY <1>3, WithinShape, MembersShape DEF Shape, Shaped
  <2> QED BY <2>1, NotedIsCount
<1> HIDE DEF n, c
<1>8. IsSequence(new) /\ Len(new) = c /\ \A i \in 1..c : new[i] = n BY <1>7 DEF IsSequence
<1>9. notes' = notes \o new BY <1>1 DEF n, c
<1> HIDE DEF new
<1>10. \A i \in 1..Len(notes) : LocatedNote(notes[i]) BY <1>2 DEF LeadInv
<1>11. ASSUME NEW i \in 1..Len(notes') PROVE LocatedNote(notes'[i])
  <2> DEFINE a == Len(notes)
  <2>1. /\ a \in Nat /\ Len(notes') = a + c /\ i \in 1..(a + c)
        /\ \A j \in 1..a : notes'[j] = notes[j]
        /\ \A j \in (a + 1)..(a + c) : notes'[j] = new[j - a]
    <3>1. /\ Len(notes') = a + c
          /\ \A j \in 1..a : notes'[j] = notes[j]
          /\ \A j \in (a + 1)..(a + c) : notes'[j] = new[j - a]
      BY <1>2, <1>8, <1>9, ConcatElements
    <3>2. a \in Nat BY <1>2 DEF IsSequence
    <3> QED BY <3>1, <3>2
  <2>2. CASE i \in 1..a BY <1>10, <2>1, <2>2
  <2>3. CASE i \notin 1..a
    <3>1. i - a \in 1..c /\ i \in (a + 1)..(a + c) BY <1>7, <2>1, <2>3
    <3>2. notes'[i] = n BY <1>8, <2>1, <3>1
    <3> QED BY <1>6, <3>2
  <2> QED BY <2>2, <2>3
<1>12. \A i \in 1..Len(notes') : LocatedNote(notes[i])' BY <1>1, <1>11 DEF LocatedNote
<1>13. \A i \in 1..Len(origins') : Leads(origins[i].at, origins[i].value)' BY <1>1 DEF LeadInv, Leads
<1>14. call' = None BY <1>1 DEF Looping
<1> QED BY <1>12, <1>13, <1>14 DEF LeadInv

LEMMA LeadInit == CInit /\ Clean => LeadInv
<1> SUFFICES ASSUME CInit, Clean PROVE LeadInv OBVIOUS
<1>1. origins = <<>> /\ notes = <<>> /\ call.at = <<>> /\ call.value = doc BY DEF CInit, Call
<1>2. Len(origins) = 0 /\ Len(notes) = 0 BY <1>1, EmptySequence
<1>3. Leads(<<>>, doc)
  <2>1. IsSequence(<<>>) /\ IsPointer(<<>>) BY EmptySequence DEF IsPointer
  <2>2. ParsePointer(<<>>) = <<>> BY DEF ParsePointer
  <2> QED BY <2>1, <2>2, ValueAtRoot DEF Leads
<1> QED BY <1>1, <1>2, <1>3 DEF LeadInv

LEMMA LeadStep ==
  CInv /\ Shape /\ RecordInv /\ RefusedOK /\ LeadsWhenClean /\ [CNext]_cvars => LeadsWhenClean'
<1> SUFFICES ASSUME CInv, Shape, RecordInv, RefusedOK, LeadsWhenClean, [CNext]_cvars, Clean'
             PROVE  LeadInv'
  BY DEF LeadsWhenClean
<1>0. doc' = doc
  BY DEF CNext, cvars, ParseFails, LowerBoolean, NotASchema, ResolveRef, LowerObject, Descend, TakeKeyword,
         EndObject, Refuse, RefRemote, RefInProgress, RefDangling, RefFollow
<1> USE SameClean
<1>00. Clean /\ LeadInv BY <1>0 DEF LeadsWhenClean
<1>1. CASE ParseFails BY <1>00, <1>1, LeadRefuse DEF ParseFails
<1>2. CASE LowerBoolean
  <2>1. call' = None BY <1>2 DEF LowerBoolean, Return
  <2> QED BY <1>00, <1>2, <2>1, LeadGrow DEF LowerBoolean, Lowering
<1>3. CASE NotASchema BY <1>00, <1>3, LeadRefuse DEF NotASchema
<1>4. CASE ResolveRef BY <1>00, <1>4, LeadResolveRef
<1>5. CASE LowerObject BY <1>00, <1>5, LeadGrow DEF LowerObject, Lowering
<1>6. CASE Descend BY <1>00, <1>6, LeadDescend
<1>7. CASE TakeKeyword BY <1>00, <1>7, LeadTakeKeyword
<1>8. CASE EndObject
  <2>1. Running BY <1>8 DEF EndObject, Looping, Running
  <2> QED BY <1>00, <1>8, <2>1, LeadsReturn DEF EndObject
<1>9. CASE UNCHANGED cvars
  BY <1>00, <1>9 DEF cvars, LeadInv, Leads, LocatedNote, Running, Accepted, Done
<1> QED BY <1>1, <1>2, <1>3, <1>4, <1>5, <1>6, <1>7, <1>8, <1>9 DEF CNext

LEMMA LeadInductive ==
  CSpec => [](CInv /\ Shape /\ RecordInv /\ LeadsWhenClean)
<1>1. CInit => LeadsWhenClean BY LeadInit DEF LeadsWhenClean
<1> QED BY <1>1, LinkedInductive, LeadStep, PTL DEF CSpec

(* lower() passes each schema the pointer to it: in a document of plain    *)
(* and unique names that pointer leads to the schema, through $refs too,   *)
(* so that no $ref finds in in_progress what it does not denote.           *)
THEOREM PointersLeadBackCorrect == CSpec => []PointersLeadBack
<1>1. CInv /\ Shape /\ LeadsWhenClean => PointersLeadBack
  <2> SUFFICES ASSUME CInv, Shape, LeadsWhenClean, Clean
               PROVE  /\ \A i \in DOMAIN origins :
                           /\ IsPointer(origins[i].at)
                           /\ ValueIn(doc, ParsePointer(origins[i].at)) = origins[i].value
                      /\ ~Misread
    BY DEF PointersLeadBack, Clean
  <2>1. DOMAIN origins = 1..Len(origins) BY DEF CInv, ArenaOK, IsSequence
  <2>2. \A i \in DOMAIN origins : Leads(origins[i].at, origins[i].value)
    BY <2>1 DEF LeadsWhenClean, LeadInv
  <2>3. ASSUME NEW t, IsLocal(t), NEW i \in DOMAIN origins, origins[i].at = Tail(t)
        PROVE  origins[i].value = Denoted(doc, t)
    BY <2>2, <2>3 DEF Leads, Denoted
  <2>4. ~Misread BY <2>3 DEF Misread
  <2> QED BY <2>2, <2>4 DEF Leads
<1> QED BY <1>1, LeadInductive, PTL

(* Unsupported's location: "JSON Pointer to the keyword within the schema  *)
(* document".                                                              *)
THEOREM NotesLocateCorrect == CSpec => []NotesLocate
<1>1. RecordInv /\ LeadsWhenClean => NotesLocate
  <2> SUFFICES ASSUME RecordInv, LeadsWhenClean, Accepted, Clean, NEW n \in Range(notes)
               PROVE  /\ IsPointer(n.location) /\ ParsePointer(n.location) # <<>>
                      /\ Word(Last(ParsePointer(n.location))) = n.keyword
                      /\ ValueIn(doc, ParsePointer(n.location)) # None
    BY DEF NotesLocate, Clean
  <2>1. DOMAIN notes = 1..Len(notes) BY DEF RecordInv, IsSequence
  <2>2. PICK i \in 1..Len(notes) : notes[i] = n BY <2>1 DEF Range
  <2>3. LocatedNote(n) BY <2>2 DEF LeadsWhenClean, LeadInv
  <2> QED BY <2>3 DEF LocatedNote
<1> QED BY <1>1, LeadInductive, PTL
=============================================================================
