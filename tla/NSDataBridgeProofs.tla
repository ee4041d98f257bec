------------------------- MODULE NSDataBridgeProofs -------------------------
(***************************************************************************)
(* Reference counting in NSDataBridge, for any number of threads, vectors, *)
(* pointers and objects.  A View is assumed to be of one chunk: one that   *)
(* spans several chunks of a file makes iterate() lose or repeat a         *)
(* destructor, as the run with DestroyedOnce shows.                        *)
(*                                                                         *)
(* How much of a chunk is delivered depends on the bytes in it, so that    *)
(* IInv is preserved together with what NSDataContentsProofs says of them; *)
(* the theorems are there.                                                 *)
(***************************************************************************)
EXTENDS NSDataBridge, TLAPS, FiniteSetTheorems, SequenceTheorems

(***************************************************************************)
(* Reference counting keeps counts and references in balance.              *)
(***************************************************************************)
Balanced(h) ==
  /\ h = [count |-> h.count, ref |-> h.ref]
  /\ h.count \in [Object -> Int]
  /\ h.ref \in [DOMAIN h.ref -> Object] /\ IsFiniteSet(DOMAIN h.ref)
  /\ \A o \in Object : h.count[o] = Cardinality(Holders(h, o))

LEMMA HoldersFinite ==
  ASSUME NEW h, Balanced(h), NEW o \in Object
  PROVE  IsFiniteSet(Holders(h, o))
<1>1. IsFiniteSet(DOMAIN h.ref) /\ Holders(h, o) \subseteq DOMAIN h.ref
  BY DEF Balanced, Holders
<1> QED
  BY <1>1, FS_Subset

(* What is referenced is counted.                                          *)
LEMMA CountedIfHeld ==
  ASSUME NEW h, Balanced(h), NEW s \in DOMAIN h.ref
  PROVE  /\ h.ref[s] \in Object
         /\ h.count[h.ref[s]] \in Nat /\ h.count[h.ref[s]] > 0
<1> DEFINE o == h.ref[s]
<1>1. o \in Object /\ s \in Holders(h, o)
  BY DEF Balanced, Holders
<1>2. IsFiniteSet(Holders(h, o))
  BY <1>1, HoldersFinite
<1>3. Cardinality(Holders(h, o)) \in Nat /\ Cardinality(Holders(h, o)) # 0
  BY <1>1, <1>2, FS_CardinalityType, FS_EmptySet
<1> QED
  BY <1>1, <1>3 DEF Balanced

LEMMA CountsAreNatural ==
  ASSUME NEW h, Balanced(h), NEW o \in Object
  PROVE  h.count[o] \in Nat
BY HoldersFinite, FS_CardinalityType DEF Balanced

LEMMA RetainBalanced ==
  ASSUME NEW h, Balanced(h), NEW s, s \notin DOMAIN h.ref, NEW o \in Object
  PROVE  /\ Balanced(Retain(h, s, o))
         /\ DOMAIN Retain(h, s, o).ref = DOMAIN h.ref \cup {s}
         /\ Retain(h, s, o).ref[s] = o
         /\ \A x \in DOMAIN h.ref : Retain(h, s, o).ref[x] = h.ref[x]
         /\ \A x \in Object :
              Retain(h, s, o).count[x] = IF x = o THEN h.count[x] + 1 ELSE h.count[x]
<1> DEFINE g == Retain(h, s, o)
<1>1. /\ g = [count |-> g.count, ref |-> g.ref]
      /\ DOMAIN g.ref = DOMAIN h.ref \cup {s}
      /\ g.ref[s] = o
      /\ \A x \in DOMAIN h.ref : g.ref[x] = h.ref[x]
  BY DEF Retain, Set
<1>2. /\ g.count \in [Object -> Int]
      /\ \A x \in Object : g.count[x] = IF x = o THEN h.count[x] + 1 ELSE h.count[x]
  BY DEF Retain, Balanced
<1>3. g.ref \in [DOMAIN g.ref -> Object] /\ IsFiniteSet(DOMAIN g.ref)
  <2>1. IsFiniteSet(DOMAIN h.ref \cup {s})
    BY FS_AddElement DEF Balanced
  <2>2. g.ref \in [DOMAIN h.ref \cup {s} -> Object]
    BY DEF Retain, Set, Balanced
  <2> QED
    BY <1>1, <2>1, <2>2
<1>4. ASSUME NEW x \in Object PROVE g.count[x] = Cardinality(Holders(g, x))
  <2>1. CASE x = o
    <3>1. Holders(g, x) = Holders(h, x) \cup {s} /\ s \notin Holders(h, x)
      BY <1>1, <2>1 DEF Holders
    <3>2. Cardinality(Holders(g, x)) = Cardinality(Holders(h, x)) + 1
      BY <3>1, HoldersFinite, FS_AddElement
    <3> QED
      BY <1>2, <2>1, <3>2 DEF Balanced
  <2>2. CASE x # o
    <3>1. Holders(g, x) = Holders(h, x)
      BY <1>1, <2>2 DEF Holders
    <3> QED
      BY <1>2, <2>2, <3>1 DEF Balanced
  <2> QED
    BY <2>1, <2>2
<1> QED
  BY <1>1, <1>2, <1>3, <1>4 DEF Balanced

LEMMA ReleaseBalanced ==
  ASSUME NEW h, Balanced(h), NEW s \in DOMAIN h.ref
  PROVE  /\ Balanced(Release(h, s))
         /\ DOMAIN Release(h, s).ref = DOMAIN h.ref \ {s}
         /\ \A x \in DOMAIN h.ref \ {s} : Release(h, s).ref[x] = h.ref[x]
         /\ \A x \in Object : Release(h, s).count[x] <= h.count[x]
         /\ \A x \in Object :
              Release(h, s).count[x] = IF x = h.ref[s] THEN h.count[x] - 1 ELSE h.count[x]
<1> DEFINE g == Release(h, s)
           o == h.ref[s]
<1>0. o \in Object
  BY DEF Balanced
<1>1. /\ g = [count |-> g.count, ref |-> g.ref]
      /\ DOMAIN g.ref = DOMAIN h.ref \ {s}
      /\ \A x \in DOMAIN h.ref \ {s} : g.ref[x] = h.ref[x]
  BY DEF Release, Clear, Restrict
<1>2. /\ g.count \in [Object -> Int]
      /\ \A x \in Object : g.count[x] = IF x = o THEN h.count[x] - 1 ELSE h.count[x]
  BY <1>0 DEF Release, Balanced
<1>3. g.ref \in [DOMAIN g.ref -> Object] /\ IsFiniteSet(DOMAIN g.ref)
  <2>1. IsFiniteSet(DOMAIN h.ref \ {s})
    BY FS_RemoveElement DEF Balanced
  <2>2. g.ref \in [DOMAIN h.ref \ {s} -> Object]
    BY DEF Release, Clear, Restrict, Balanced
  <2> QED
    BY <1>1, <2>1, <2>2
<1>4. ASSUME NEW x \in Object PROVE g.count[x] = Cardinality(Holders(g, x))
  <2>1. CASE x = o
    <3>1. Holders(g, x) = Holders(h, x) \ {s} /\ s \in Holders(h, x)
      BY <1>1, <2>1 DEF Holders
    <3>2. /\ Cardinality(Holders(g, x)) = Cardinality(Holders(h, x)) - 1
          /\ Cardinality(Holders(h, x)) \in Nat
      BY <3>1, HoldersFinite, FS_RemoveElement, FS_CardinalityType
    <3> QED
      BY <1>2, <2>1, <3>2 DEF Balanced
  <2>2. CASE x # o
    <3>1. Holders(g, x) = Holders(h, x)
      BY <1>1, <2>2 DEF Holders
    <3> QED
      BY <1>2, <2>2, <3>1 DEF Balanced
  <2> QED
    BY <2>1, <2>2
<1>5. \A x \in Object : g.count[x] <= h.count[x]
  BY <1>2 DEF Balanced
<1> QED
  BY <1>1, <1>2, <1>3, <1>4, <1>5 DEF Balanced

LEMMA MoveBalanced ==
  ASSUME NEW h, Balanced(h), NEW from \in DOMAIN h.ref, NEW to, to \notin DOMAIN h.ref
  PROVE  /\ Balanced(Move(h, from, to))
         /\ DOMAIN Move(h, from, to).ref = (DOMAIN h.ref \ {from}) \cup {to}
         /\ Move(h, from, to).ref[to] = h.ref[from]
         /\ \A x \in DOMAIN h.ref \ {from} : Move(h, from, to).ref[x] = h.ref[x]
         /\ Move(h, from, to).count = h.count
<1> DEFINE g == Move(h, from, to)
<1>1. /\ g = [count |-> h.count, ref |-> g.ref]
      /\ DOMAIN g.ref = (DOMAIN h.ref \ {from}) \cup {to}
      /\ g.ref[to] = h.ref[from]
      /\ \A x \in DOMAIN h.ref \ {from} : g.ref[x] = h.ref[x]
  <2>1. g = [count |-> h.count, ref |-> Set(Clear(h.ref, from), to, h.ref[from])]
    BY DEF Move, Balanced
  <2> QED
    BY <2>1 DEF Set, Clear, Restrict
<1>2. g.ref \in [DOMAIN g.ref -> Object] /\ IsFiniteSet(DOMAIN g.ref)
  <2>1. IsFiniteSet((DOMAIN h.ref \ {from}) \cup {to})
    BY FS_AddElement, FS_RemoveElement DEF Balanced
  <2>2. g.ref \in [(DOMAIN h.ref \ {from}) \cup {to} -> Object]
    BY DEF Move, Set, Clear, Restrict, Balanced
  <2> QED
    BY <1>1, <2>1, <2>2
<1>3. ASSUME NEW x \in Object PROVE h.count[x] = Cardinality(Holders(g, x))
  <2>1. CASE x = h.ref[from]
    <3> DEFINE kept == Holders(h, x) \ {from}
    <3>1. /\ from \in Holders(h, x) /\ to \notin kept
          /\ Holders(g, x) = kept \cup {to}
      BY <1>1, <2>1 DEF Holders
    <3>2. IsFiniteSet(kept) /\ Cardinality(kept) = Cardinality(Holders(h, x)) - 1
      BY <3>1, HoldersFinite, FS_RemoveElement
    <3>3. Cardinality(Holders(g, x)) = Cardinality(kept) + 1
      BY <3>1, <3>2, FS_AddElement
    <3>4. Cardinality(Holders(h, x)) \in Nat
      BY HoldersFinite, FS_CardinalityType
    <3> QED
      BY <3>2, <3>3, <3>4 DEF Balanced
  <2>2. CASE x # h.ref[from]
    <3>1. Holders(g, x) = Holders(h, x)
      BY <1>1, <2>2 DEF Holders
    <3> QED
      BY <3>1 DEF Balanced
  <2> QED
    BY <2>1, <2>2
<1> QED
  BY <1>1, <1>2, <1>3 DEF Balanced

LEMMA ReleaseUnlessNullBalanced ==
  ASSUME NEW h, Balanced(h), NEW s
  PROVE  /\ Balanced(ReleaseUnlessNull(h, s))
         /\ DOMAIN ReleaseUnlessNull(h, s).ref = DOMAIN h.ref \ {s}
         /\ \A x \in DOMAIN h.ref \ {s} : ReleaseUnlessNull(h, s).ref[x] = h.ref[x]
         /\ \A x \in Object : ReleaseUnlessNull(h, s).count[x] <= h.count[x]
<1>1. CASE s \in DOMAIN h.ref
  BY <1>1, ReleaseBalanced DEF ReleaseUnlessNull
<1>2. CASE s \notin DOMAIN h.ref
  BY <1>2 DEF ReleaseUnlessNull, Balanced
<1> QED
  BY <1>1, <1>2

(* A new object is nobody's.                                               *)
LEMMA FreshIsUnused ==
  ASSUME NEW h, Balanced(h), NEW a \in Thread \cup {"any"}, NEW o \in Fresh(h, a)
  PROVE  /\ o \in Object /\ h.count[o] = 0
         /\ <<o, "left">> \notin DOMAIN h.ref /\ <<o, "right">> \notin DOMAIN h.ref
         /\ \A s \in DOMAIN h.ref : h.ref[s] # o
<1>1. o \in Arena[a] /\ IsUnused(h, o)
  BY DEF Fresh
<1>2. o \in Object
  BY <1>1 DEF Object
<1> QED
  BY <1>1, <1>2, CountedIfHeld DEF IsUnused, Field

(***************************************************************************)
(* The inductive invariant.                                                *)
(***************************************************************************)

(* A View passes a part of one chunk on.                                   *)
InOneChunk(item) ==
  /\ Len(item.chunks) = 1
  /\ item.length > 0 /\ item.offset + item.length <= Len(item.chunks[1])

ViewsOfOneChunk == \A item \in Items : item.view => InOneChunk(item)

Plain(item) ==
  /\ item.kind # "File" => Len(item.chunks) = 1
  /\ IF item.view THEN InOneChunk(item) ELSE item.offset = 0

PlainVectors == \A v \in Vector : \A i \in DOMAIN vector[v] : Plain(vector[v][i])

(* A vector references the storages of its Buffered values.                *)
VectorSlots ==
  \A v \in Vector : \A i \in Nat :
    <<v, i>> \in DOMAIN heap.ref <=>
      i \in DOMAIN vector[v] /\ vector[v][i].kind = "Buffered"

(* The local variables that may reference something, by place.             *)
Held(place) ==
  CASE place = "idle" -> {}
    [] place \in {"iterate", "fail"} -> {"data"}
    [] place = "deliver" -> {"copy", "data"}
    [] place = "put" -> {"returnValue"}
    [] place \in {"release", "store"} -> {"returnValue", "target"}

Locals ==
  \A t \in Thread, name \in Local :
    <<t, name>> \in DOMAIN heap.ref => name \in Held(pc[t])

Iterating(c) ==
  /\ c.item >= 1
  /\ c.item <= Len(vector[c.vector]) =>
       /\ c.chunk \in DOMAIN ItemOf(c).chunks
       /\ c.toSkip = ItemOf(c).offset
       /\ ItemOf(c).view => c.toPass = ItemOf(c).length

CallsOK ==
  /\ \A t \in Thread :
       /\ pc[t] = "idle" => call[t] = Idle
       /\ pc[t] # "idle" => call[t].pointer \in Pointer
       /\ pc[t] \in {"iterate", "deliver", "fail"} => call[t].vector \in Vector
       /\ pc[t] \in {"iterate", "deliver"} => Iterating(call[t])
       /\ pc[t] = "deliver" => More(t) /\ <<t, "copy">> \in DOMAIN heap.ref
       /\ pc[t] = "store" => <<call[t].pointer, "_target">> \notin DOMAIN heap.ref
  /\ \A t, u \in Thread :
       call[t].pointer = call[u].pointer /\ call[t].pointer # NULL => t = u

(* What is in use holds what its bytes depend on.                          *)
Complete ==
  \A o \in Object : heap.count[o] > 0 =>
    \A f \in object[o].holds : <<o, f>> \in DOMAIN heap.ref

(* What iterate() hands to the callback.                                   *)
ChunkRead(t, bytes) ==
  LET copy == heap.ref[<<t, "copy">>]
  IN  object[copy].kind = "chunk" /\ object[copy].bytes = bytes

ChunksRead ==
  \A t \in Thread : pc[t] = "deliver" =>
    ChunkRead(t, ItemOf(call[t]).chunks[call[t].chunk])

IInv ==
  /\ TypeOK /\ Balanced(heap)
  /\ PlainVectors /\ VectorSlots /\ Locals /\ CallsOK /\ Complete

LEMMA IInvImplies == ASSUME IInv PROVE CountsBalance /\ BytesStayValid
<1>1. \A o \in Object : heap.count[o] = Cardinality(Holders(heap, o))
  BY DEF IInv, Balanced
<1>2. ASSUME NEW t \in Thread, pc[t] = "idle", NEW name \in Local PROVE Ref(t, name) = NULL
  <2>1. <<t, name>> \notin DOMAIN heap.ref
    BY <1>2 DEF IInv, Locals, Held
  <2> QED
    BY <2>1 DEF Ref, Target
<1>3. ASSUME NEW o \in Object, heap.count[o] > 0, NEW f \in object[o].holds
      PROVE  Ref(o, f) # NULL /\ heap.count[Ref(o, f)] > 0
  <2>1. <<o, f>> \in DOMAIN heap.ref /\ Ref(o, f) = heap.ref[<<o, f>>]
    BY <1>3 DEF IInv, Complete, Ref, Target
  <2> QED
    BY <2>1, CountedIfHeld, DistinctAssumption DEF IInv
<1> QED
  BY <1>1, <1>2, <1>3 DEF CountsBalance, BytesStayValid

LEMMA IdleIsACall == Idle \in Call
BY DEF Idle, Call

LEMMA InitIInv == Init => IInv
<1> SUFFICES ASSUME Init PROVE IInv
  OBVIOUS
<1>1. heap.count = [o \in Object |-> 0] /\ DOMAIN heap.ref = {} /\ heap = [count |-> heap.count, ref |-> heap.ref]
  BY DEF Init
<1>2. TypeOK
  <2>1. object \in [Object -> [kind : Kind, holds : SUBSET Field, bytes : Seq(Nat)]]
    <3>1. Nothing \in [kind : Kind, holds : SUBSET Field, bytes : Seq(Nat)]
      BY DEF Nothing, Memory, Kind
    <3> QED
      BY <3>1 DEF Init
  <2>2. heap.ref \in [DOMAIN heap.ref -> Object]
    BY <1>1 DEF Init
  <2> QED
    BY <1>1, <2>1, <2>2, IdleIsACall, BoundsAssumption DEF Init, TypeOK, Place
<1>3. Balanced(heap)
  <2>1. \A o \in Object : Holders(heap, o) = {}
    BY <1>1 DEF Holders
  <2> QED
    BY <1>1, <1>2, <2>1, FS_EmptySet DEF Balanced, TypeOK
<1>4. PlainVectors /\ VectorSlots /\ Locals /\ Complete
  BY <1>1 DEF Init, PlainVectors, VectorSlots, Locals, Complete
<1>5. CallsOK
  BY DEF Init, CallsOK, Idle
<1> QED
  BY <1>2, <1>3, <1>4, <1>5 DEF IInv

LEMMA StutterIInv == ASSUME IInv, UNCHANGED vars PROVE IInv'
<1>1. TypeOK' /\ Balanced(heap)' /\ PlainVectors' /\ VectorSlots'
  BY DEF IInv, vars, TypeOK, Balanced, Holders, PlainVectors, VectorSlots
<1>2. Locals' /\ Complete'
  BY DEF IInv, vars, Locals, Complete
<1>3. CallsOK'
  BY DEF IInv, vars, CallsOK, Iterating, More, ItemOf
<1> QED
  BY <1>1, <1>2, <1>3 DEF IInv

(***************************************************************************)
(* Steps.  What a step leaves alone needs no argument; the lemmas below    *)
(* say when it leaves enough alone.                                        *)
(***************************************************************************)
ObjectsOK == object \in [Object -> [kind : Kind, holds : SUBSET Field, bytes : Seq(Nat)]]

VectorsOK == vector \in [Vector -> Seq(Item)] /\ \A v \in Vector : Len(vector[v]) <= MaxItems

(* Slots that are filled or emptied.                                       *)
Touched == (DOMAIN heap.ref \ DOMAIN heap'.ref) \cup (DOMAIN heap'.ref \ DOMAIN heap.ref)

OfObjects == Object \X Field

(* Slots of different owners are different.                                *)
LEMMA OwnersApart ==
  /\ \A t \in Thread : t \notin Vector /\ t \notin Pointer /\ t \notin Object
  /\ \A v \in Vector : v \notin Pointer /\ v \notin Object
  /\ \A p \in Pointer : p \notin Object
  /\ NULL \notin Object /\ NULL \notin Vector /\ NULL \notin Pointer
BY DistinctAssumption

(* Complete is kept when what comes into use is complete.                  *)
LEMMA CompleteStep ==
  ASSUME IInv,
         \A s \in OfObjects : s \in DOMAIN heap.ref => s \in DOMAIN heap'.ref,
         \A o \in Object : heap'.count[o] > 0 =>
           \/ heap.count[o] > 0 /\ object'[o].holds = object[o].holds
           \/ \A f \in object'[o].holds : <<o, f>> \in DOMAIN heap'.ref
  PROVE  Complete'
<1> SUFFICES ASSUME NEW o \in Object, heap'.count[o] > 0, NEW f \in object'[o].holds
             PROVE  <<o, f>> \in DOMAIN heap'.ref
  BY DEF Complete
<1>1. CASE heap.count[o] > 0 /\ object'[o].holds = object[o].holds
  <2>1. f \in Field /\ <<o, f>> \in DOMAIN heap.ref
    BY <1>1 DEF IInv, TypeOK, Complete
  <2> QED
    BY <2>1 DEF OfObjects
<1> QED
  BY <1>1

(* A step of the program or of the queue, outside of the calls.            *)
LEMMA ProgramStep ==
  ASSUME IInv, UNCHANGED <<pc, call>>, steps' \in 0 .. MaxSteps,
         Touched \subseteq OfObjects \cup (Vector \X Nat) \cup
                             ({p \in Pointer : ~InUse(p)} \X {"_target"}),
         \A v \in Vector : Reading(v) => vector'[v] = vector[v],
         Balanced(heap'), DOMAIN heap'.ref \subseteq Slot, ObjectsOK', VectorsOK',
         PlainVectors', VectorSlots', Complete'
  PROVE  IInv'
<1>1. TypeOK'
  BY DEF IInv, TypeOK, Balanced, ObjectsOK, VectorsOK
<1>2. \A t \in Thread, name \in Local : <<t, name>> \in DOMAIN heap'.ref <=> <<t, name>> \in DOMAIN heap.ref
  BY OwnersApart DEF Touched, OfObjects
<1>3. Locals'
  BY <1>2 DEF IInv, Locals
<1>4. CallsOK'
  <2>1. ASSUME NEW t \in Thread
        PROVE  /\ pc'[t] = "idle" => call'[t] = Idle
               /\ pc'[t] # "idle" => call'[t].pointer \in Pointer
               /\ pc'[t] \in {"iterate", "deliver", "fail"} => call'[t].vector \in Vector
    BY DEF IInv, CallsOK
  <2>2. ASSUME NEW t \in Thread, pc[t] \in {"iterate", "deliver"}
        PROVE  Iterating(call[t])' /\ (More(t)' <=> More(t))
    <3>1. call[t].vector \in Vector /\ Iterating(call[t])
      BY <2>2 DEF IInv, CallsOK
    <3>2. vector'[call[t].vector] = vector[call[t].vector]
      BY <3>1 DEF Reading
    <3> QED
      BY <3>1, <3>2 DEF Iterating, More, ItemOf
  <2>3. ASSUME NEW t \in Thread, pc[t] = "deliver"
        PROVE  More(t)' /\ <<t, "copy">> \in DOMAIN heap'.ref
    <3>1. More(t) /\ <<t, "copy">> \in DOMAIN heap.ref /\ "copy" \in Local
      BY <2>3 DEF IInv, CallsOK, Local
    <3> QED
      BY <1>2, <2>2, <2>3, <3>1
  <2>4. ASSUME NEW t \in Thread, pc[t] = "store"
        PROVE  <<call'[t].pointer, "_target">> \notin DOMAIN heap'.ref
    <3>1. call[t].pointer \in Pointer /\ <<call[t].pointer, "_target">> \notin DOMAIN heap.ref
      BY <2>4 DEF IInv, CallsOK
    <3>2. InUse(call[t].pointer)
      BY DEF InUse
    <3> QED
      BY <3>1, <3>2, OwnersApart DEF Touched, OfObjects
  <2>5. \A t, u \in Thread :
          call'[t].pointer = call'[u].pointer /\ call'[t].pointer # NULL => t = u
    BY DEF IInv, CallsOK
  <2> QED
    BY <2>1, <2>2, <2>3, <2>4, <2>5 DEF CallsOK
<1> QED
  BY <1>1, <1>3, <1>4 DEF IInv

(* The same, when no vector is concerned.                                  *)
LEMMA NoVectorStep ==
  ASSUME IInv, UNCHANGED <<vector, pc, call>>, steps' \in 0 .. MaxSteps,
         Touched \subseteq OfObjects \cup ({p \in Pointer : ~InUse(p)} \X {"_target"}),
         Balanced(heap'), ObjectsOK', Complete'
  PROVE  IInv'
<1>1. DOMAIN heap'.ref \subseteq Slot
  BY DEF IInv, TypeOK, Touched, OfObjects, Slot
<1>2. VectorsOK' /\ PlainVectors'
  BY DEF IInv, TypeOK, VectorsOK, PlainVectors
<1>3. ASSUME NEW v \in Vector, NEW i \in Nat
      PROVE  <<v, i>> \in DOMAIN heap'.ref <=> <<v, i>> \in DOMAIN heap.ref
  BY OwnersApart DEF Touched, OfObjects
<1>4. VectorSlots'
  BY <1>3 DEF IInv, VectorSlots
<1> QED
  BY <1>1, <1>2, <1>4, ProgramStep

(* A step that changes one vector.                                         *)
LEMMA VectorStep ==
  ASSUME IInv, UNCHANGED <<pc, call>>, steps' \in 0 .. MaxSteps,
         NEW v \in Vector, ~Reading(v), NEW items \in Seq(Item), Len(items) <= MaxItems,
         vector' = [vector EXCEPT ![v] = items],
         \A i \in DOMAIN items : Plain(items[i]),
         Touched \subseteq OfObjects \cup ({v} \X Nat),
         \A i \in Nat : <<v, i>> \in DOMAIN heap'.ref <=>
                          i \in DOMAIN items /\ items[i].kind = "Buffered",
         Balanced(heap'), ObjectsOK', Complete'
  PROVE  IInv'
<1>1. VectorsOK' /\ PlainVectors' /\ \A w \in Vector : w # v => vector'[w] = vector[w]
  BY DEF IInv, TypeOK, VectorsOK, PlainVectors
<1>2. vector'[v] = items
  BY DEF IInv, TypeOK
<1>3. ASSUME NEW w \in Vector, NEW i \in Nat
      PROVE  <<w, i>> \in DOMAIN heap'.ref <=>
               i \in DOMAIN vector'[w] /\ vector'[w][i].kind = "Buffered"
  <2>1. CASE w = v
    BY <1>2, <2>1
  <2>2. CASE w # v
    <3>1. <<w, i>> \in DOMAIN heap'.ref <=> <<w, i>> \in DOMAIN heap.ref
      BY <2>2, OwnersApart DEF Touched, OfObjects
    <3> QED
      BY <1>1, <2>2, <3>1 DEF IInv, VectorSlots
  <2> QED
    BY <2>1, <2>2
<1>4. VectorSlots'
  BY <1>3 DEF VectorSlots
<1>5. DOMAIN heap'.ref \subseteq Slot
  <2>1. ASSUME NEW s \in DOMAIN heap'.ref, s \in {v} \X Nat PROVE s \in Slot
    <3>1. PICK i \in Nat : s = <<v, i>>
      BY <2>1
    <3>2. i \in DOMAIN items
      BY <2>1, <3>1
    <3>3. i \in 1 .. MaxItems
      BY <3>2, BoundsAssumption
    <3> QED
      BY <3>1, <3>3 DEF Slot
  <2> QED
    BY <2>1 DEF IInv, TypeOK, Touched, OfObjects, Slot
<1>6. Touched \subseteq OfObjects \cup (Vector \X Nat) \cup
                          ({p \in Pointer : ~InUse(p)} \X {"_target"})
  OBVIOUS
<1>7. \A w \in Vector : Reading(w) => vector'[w] = vector[w]
  BY <1>1
<1> QED
  BY <1>1, <1>4, <1>5, <1>6, <1>7, ProgramStep

(***************************************************************************)
(* The program's vectors.                                                  *)
(***************************************************************************)
LEMMA AppendedItems ==
  ASSUME NEW q \in Seq(Item), NEW item \in Item, Len(q) < MaxItems
  PROVE  /\ Append(q, item) \in Seq(Item) /\ Len(Append(q, item)) <= MaxItems
         /\ Len(q) + 1 \in Nat /\ Len(q) + 1 \notin DOMAIN q
         /\ DOMAIN Append(q, item) = DOMAIN q \cup {Len(q) + 1}
         /\ Append(q, item)[Len(q) + 1] = item
         /\ \A i \in DOMAIN q : Append(q, item)[i] = q[i]
BY BoundsAssumption

LEMMA AppendItemIInv ==
  ASSUME ViewsOfOneChunk, IInv, NEW v \in Vector, NEW item \in Items, AppendItem(v, item)
  PROVE  IInv'
<1> DEFINE n == Len(vector[v]) + 1
           items == Append(vector[v], item)
<1>0. /\ item \in Item /\ Plain(item) /\ item.chunks \in Seq(Seq(Nat)) \ {<<>>}
      /\ n \in Nat /\ items \in Seq(Item) /\ Len(items) <= MaxItems
      /\ DOMAIN items = DOMAIN vector[v] \cup {n} /\ n \notin DOMAIN vector[v]
      /\ items[n] = item /\ \A i \in DOMAIN vector[v] : items[i] = vector[v][i]
  <2>1. item \in Item /\ Plain(item)
    <3>1. item \in Item /\ (item.kind # "File" => Len(item.chunks) = 1)
      BY ItemsAssumption
    <3>2. CASE item.view
      BY <3>1, <3>2 DEF ViewsOfOneChunk, Plain
    <3>3. CASE ~item.view
      BY <3>1, <3>3, ItemsAssumption DEF Plain
    <3> QED
      BY <3>1, <3>2, <3>3
  <2>2. item.chunks \in Seq(Seq(Nat)) \ {<<>>}
    BY <2>1 DEF Item
  <2>3. vector[v] \in Seq(Item) /\ Len(vector[v]) < MaxItems
    BY DEF IInv, TypeOK, AppendItem
  <2> QED
    BY <2>1, <2>2, <2>3, AppendedItems
<1>1. steps' \in 0 .. MaxSteps
  <2>1. Len(item.chunks) \in Nat /\ steps \in Nat /\ steps + Len(item.chunks) <= MaxSteps
    BY <1>0 DEF IInv, TypeOK, AppendItem, Operation
  <2> QED
    BY <2>1, BoundsAssumption DEF AppendItem, Operation
<1>2. \A i \in DOMAIN items : Plain(items[i])
  BY <1>0 DEF IInv, PlainVectors
<1>3. <<v, n>> \notin DOMAIN heap.ref
  BY <1>0 DEF IInv, VectorSlots
<1>4. CASE item.kind = "Buffered"
  <2>1. PICK s \in Fresh(heap, "any") :
          /\ heap' = Retain(heap, <<v, n>>, s)
          /\ object' = [object EXCEPT ![s] = Memory("storage", {}, item.chunks[1])]
    BY <1>4 DEF AppendItem
  <2>2. s \in Object
    BY <2>1, FreshIsUnused DEF IInv
  <2>3. /\ Balanced(heap') /\ DOMAIN heap'.ref = DOMAIN heap.ref \cup {<<v, n>>}
        /\ \A x \in Object : heap'.count[x] = IF x = s THEN heap.count[x] + 1 ELSE heap.count[x]
    <3> DEFINE slot == <<v, n>>
    <3>1. Balanced(heap) /\ slot \notin DOMAIN heap.ref /\ heap' = Retain(heap, slot, s)
      BY <1>3, <2>1 DEF IInv
    <3> HIDE DEF slot
    <3>2. /\ Balanced(heap') /\ DOMAIN heap'.ref = DOMAIN heap.ref \cup {slot}
          /\ \A x \in Object : heap'.count[x] = IF x = s THEN heap.count[x] + 1 ELSE heap.count[x]
      BY <2>2, <3>1, RetainBalanced
    <3> QED
      BY <3>2 DEF slot
  <2>4. item.chunks[1] \in Seq(Nat)
    BY <1>0
  <2>5. ObjectsOK'
    BY <2>1, <2>2, <2>4 DEF IInv, TypeOK, Memory, Kind, Field, ObjectsOK
  <2>6. \A x \in Object : object'[x].holds = IF x = s THEN {} ELSE object[x].holds
    BY <2>1, <2>2 DEF IInv, TypeOK, Memory
  <2>7. Complete'
    BY <2>3, <2>6, CompleteStep
  <2>8. Touched \subseteq OfObjects \cup ({v} \X Nat)
    BY <1>0, <2>3 DEF Touched
  <2>9. ASSUME NEW i \in Nat
        PROVE  <<v, i>> \in DOMAIN heap'.ref <=> i \in DOMAIN items /\ items[i].kind = "Buffered"
    BY <1>0, <1>4, <2>3 DEF IInv, VectorSlots
  <2> QED
    BY <1>0, <1>1, <1>2, <2>3, <2>5, <2>7, <2>8, <2>9, VectorStep DEF AppendItem
<1>5. CASE item.kind # "Buffered"
  <2>1. UNCHANGED <<heap, object>>
    BY <1>5 DEF AppendItem
  <2>2. Balanced(heap') /\ ObjectsOK' /\ Complete' /\ Touched = {}
    BY <2>1 DEF IInv, TypeOK, ObjectsOK, Complete, Touched
  <2>3. ASSUME NEW i \in Nat
        PROVE  <<v, i>> \in DOMAIN heap'.ref <=> i \in DOMAIN items /\ items[i].kind = "Buffered"
    BY <1>0, <1>3, <1>5, <2>1 DEF IInv, VectorSlots
  <2> QED
    BY <1>0, <1>1, <1>2, <2>2, <2>3, VectorStep DEF AppendItem
<1> QED
  BY <1>4, <1>5

LEMMA AppendSharedIInv ==
  ASSUME IInv, NEW v \in Vector, NEW w \in Vector, NEW j \in DOMAIN vector[w],
         AppendShared(v, w, j)
  PROVE  IInv'
<1> DEFINE item == vector[w][j]
           n == Len(vector[v]) + 1
           items == Append(vector[v], item)
           slot == <<v, n>>
           o == heap.ref[<<w, j>>]
<1>0. /\ item \in Item /\ Plain(item) /\ item.kind = "Buffered"
      /\ vector[v] \in Seq(Item) /\ Len(vector[v]) < MaxItems
      /\ vector[w] \in Seq(Item) /\ j \in Nat
  BY DEF IInv, TypeOK, PlainVectors, AppendShared
<1>1. /\ n \in Nat /\ items \in Seq(Item) /\ Len(items) <= MaxItems
      /\ DOMAIN items = DOMAIN vector[v] \cup {n} /\ n \notin DOMAIN vector[v]
      /\ items[n] = item /\ \A i \in DOMAIN vector[v] : items[i] = vector[v][i]
  BY <1>0, AppendedItems
<1>2. \A i \in DOMAIN items : Plain(items[i])
  BY <1>0, <1>1 DEF IInv, PlainVectors
<1>3. <<w, j>> \in DOMAIN heap.ref /\ slot \notin DOMAIN heap.ref
  BY <1>0, <1>1 DEF IInv, VectorSlots
<1>4. o \in Object /\ heap.count[o] > 0
  BY <1>3, CountedIfHeld DEF IInv
<1>5. Balanced(heap) /\ heap' = Retain(heap, slot, o)
  BY <1>3 DEF IInv, AppendShared, Ref, Target
<1>6. /\ Balanced(heap') /\ DOMAIN heap'.ref = DOMAIN heap.ref \cup {slot}
      /\ \A x \in Object : heap'.count[x] = IF x = o THEN heap.count[x] + 1 ELSE heap.count[x]
  <2> HIDE DEF slot
  <2> QED
    BY <1>3, <1>4, <1>5, RetainBalanced
<1>7. ObjectsOK' /\ object' = object
  BY DEF IInv, TypeOK, ObjectsOK, AppendShared
<1>8. Complete'
  BY <1>4, <1>6, <1>7, CompleteStep
<1>9. Touched \subseteq OfObjects \cup ({v} \X Nat)
  BY <1>1, <1>6 DEF Touched
<1>10. ASSUME NEW i \in Nat
       PROVE  <<v, i>> \in DOMAIN heap'.ref <=> i \in DOMAIN items /\ items[i].kind = "Buffered"
  BY <1>0, <1>1, <1>6 DEF IInv, VectorSlots
<1>11. steps' \in 0 .. MaxSteps
  BY BoundsAssumption DEF IInv, TypeOK, AppendShared, Operation
<1> QED
  BY <1>1, <1>2, <1>6, <1>7, <1>8, <1>9, <1>10, <1>11, VectorStep DEF AppendShared

LEMMA DropItemIInv ==
  ASSUME IInv, NEW v \in Vector, DropItem(v)
  PROVE  IInv'
<1> DEFINE n == Len(vector[v])
           items == Front(vector[v])
           slot == <<v, n>>
<1>1. /\ n \in Nat \ {0} /\ items \in Seq(Item) /\ Len(items) <= MaxItems
      /\ DOMAIN items = DOMAIN vector[v] \ {n}
      /\ \A i \in DOMAIN items : items[i] = vector[v][i]
  <2>1. vector[v] \in Seq(Item) /\ vector[v] # <<>> /\ n <= MaxItems
    BY DEF IInv, TypeOK, DropItem
  <2>2. /\ n \in Nat \ {0} /\ items \in Seq(Item) /\ Len(items) = n - 1
        /\ \A i \in 1 .. n - 1 : items[i] = vector[v][i]
    BY <2>1 DEF Front
  <2>3. DOMAIN items = 1 .. n - 1 /\ DOMAIN vector[v] = 1 .. n
    BY <2>1, <2>2
  <2> HIDE DEF items
  <2> QED
    BY <2>1, <2>2, <2>3, BoundsAssumption
<1>2. \A i \in DOMAIN items : Plain(items[i])
  BY <1>1 DEF IInv, PlainVectors
<1>3. /\ Balanced(heap') /\ DOMAIN heap'.ref = DOMAIN heap.ref \ {slot}
      /\ \A x \in Object : heap'.count[x] <= heap.count[x]
  <2>1. Balanced(heap) /\ heap' = ReleaseUnlessNull(heap, slot)
    BY DEF IInv, DropItem
  <2> HIDE DEF slot
  <2> QED
    BY <2>1, ReleaseUnlessNullBalanced
<1>4. ObjectsOK' /\ object' = object
  BY DEF IInv, TypeOK, ObjectsOK, DropItem
<1>5. \A s \in OfObjects : s # slot
  BY OwnersApart DEF OfObjects
<1>6. Complete'
  <2>1. \A x \in Object : heap'.count[x] > 0 => heap.count[x] > 0
    BY <1>3, CountsAreNatural DEF IInv
  <2> QED
    BY <1>3, <1>4, <1>5, <2>1, CompleteStep
<1>7. Touched \subseteq OfObjects \cup ({v} \X Nat)
  BY <1>1, <1>3 DEF Touched
<1>8. ASSUME NEW i \in Nat
      PROVE  <<v, i>> \in DOMAIN heap'.ref <=> i \in DOMAIN items /\ items[i].kind = "Buffered"
  BY <1>1, <1>3 DEF IInv, VectorSlots
<1>9. steps' \in 0 .. MaxSteps
  BY DEF IInv, TypeOK, DropItem
<1> QED
  BY <1>1, <1>2, <1>3, <1>4, <1>6, <1>7, <1>8, <1>9, VectorStep DEF DropItem

(***************************************************************************)
(* The program's pointers, and the queue.                                  *)
(***************************************************************************)
LEMMA NewDataIInv ==
  ASSUME IInv, NEW p \in Pointer, NEW kind \in Kind, NEW bytes \in Datas,
         NewData(p, kind, bytes)
  PROVE  IInv'
<1> DEFINE slot == <<p, "_target">>
<1>0. Operation(1) /\ ~InUse(p) /\ UNCHANGED <<vector, pc, call>>
  BY DEF NewData
<1>1. PICK d \in Fresh(heap, "any") :
        /\ heap' = Retain(heap, slot, d)
        /\ object' = [object EXCEPT ![d] = Memory(kind, {}, bytes)]
  BY DEF NewData
<1>2. Balanced(heap) /\ d \in Object /\ heap' = Retain(heap, slot, d)
  BY <1>1, FreshIsUnused DEF IInv
<1>3. slot \notin DOMAIN heap.ref
  <2>1. slot \in DOMAIN heap.ref => Ref(p, "_target") \in Object
    BY <1>2 DEF Balanced, Ref, Target
  <2> QED
    BY <2>1, OwnersApart DEF NewData
<1>4. /\ Balanced(heap') /\ DOMAIN heap'.ref = DOMAIN heap.ref \cup {slot}
      /\ \A x \in Object : heap'.count[x] = IF x = d THEN heap.count[x] + 1 ELSE heap.count[x]
  <2> HIDE DEF slot
  <2> QED
    BY <1>2, <1>3, RetainBalanced
<1>5. ObjectsOK'
  BY <1>1, <1>2, ItemsAssumption DEF IInv, TypeOK, Memory, Kind, Field, ObjectsOK
<1>6. \A x \in Object : object'[x].holds = IF x = d THEN {} ELSE object[x].holds
  BY <1>1, <1>2 DEF IInv, TypeOK, Memory
<1>7. Complete'
  BY <1>4, <1>6, CompleteStep
<1>8. Touched \subseteq OfObjects \cup ({q \in Pointer : ~InUse(q)} \X {"_target"})
  BY <1>0, <1>4 DEF Touched
<1>9. steps' \in 0 .. MaxSteps
  BY <1>0, BoundsAssumption DEF IInv, TypeOK, Operation
<1> QED
  BY <1>0, <1>4, <1>5, <1>7, <1>8, <1>9, NoVectorStep

LEMMA SetLengthIInv ==
  ASSUME IInv, NEW p \in Pointer, SetLength(p)
  PROVE  IInv'
<1> DEFINE d == Ref(p, "_target")
<1>1. d \in Object
  <2>1. <<p, "_target">> \in DOMAIN heap.ref
    BY DEF SetLength, Ref, Target
  <2> QED
    BY <2>1 DEF IInv, Balanced, Ref, Target
<1>2. ObjectsOK' /\ \A x \in Object : object'[x].holds = object[x].holds
  <2>1. object' = [object EXCEPT ![d] = [object[d] EXCEPT !.bytes = <<>>]]
    BY DEF SetLength
  <2>2. /\ object \in [Object -> [kind : Kind, holds : SUBSET Field, bytes : Seq(Nat)]]
        /\ <<>> \in Seq(Nat)
    BY DEF IInv, TypeOK
  <2> HIDE DEF d
  <2>3. /\ [object[d] EXCEPT !.bytes = <<>>] \in [kind : Kind, holds : SUBSET Field, bytes : Seq(Nat)]
        /\ [object[d] EXCEPT !.bytes = <<>>].holds = object[d].holds
    BY <1>1, <2>2
  <2> QED
    BY <1>1, <2>1, <2>2, <2>3 DEF ObjectsOK
<1>3. Balanced(heap') /\ heap' = heap /\ Touched = {} /\ steps' \in 0 .. MaxSteps
  BY DEF IInv, TypeOK, SetLength, Touched
<1>4. Complete'
  BY <1>2, <1>3, CompleteStep
<1> QED
  BY <1>2, <1>3, <1>4, NoVectorStep DEF SetLength

LEMMA DestroyPointerIInv ==
  ASSUME IInv, NEW p \in Pointer, DestroyPointer(p)
  PROVE  IInv'
<1> DEFINE slot == <<p, "_target">>
<1>1. Balanced(heap) /\ slot \in DOMAIN heap.ref /\ heap' = Release(heap, slot)
  BY DEF IInv, DestroyPointer, Ref, Target
<1>2. /\ Balanced(heap') /\ DOMAIN heap'.ref = DOMAIN heap.ref \ {slot}
      /\ \A x \in Object : heap'.count[x] <= heap.count[x]
  <2> HIDE DEF slot
  <2> QED
    BY <1>1, ReleaseBalanced
<1>3. ObjectsOK' /\ object' = object /\ steps' \in 0 .. MaxSteps
  BY DEF IInv, TypeOK, ObjectsOK, DestroyPointer
<1>4. Complete'
  <2>1. \A x \in Object : heap'.count[x] > 0 => heap.count[x] > 0
    BY <1>1, <1>2, CountsAreNatural
  <2>2. \A s \in OfObjects : s # slot
    BY OwnersApart DEF OfObjects
  <2> QED
    BY <1>2, <1>3, <2>1, <2>2, CompleteStep
<1>5. Touched \subseteq OfObjects \cup ({q \in Pointer : ~InUse(q)} \X {"_target"})
  BY <1>2 DEF Touched, DestroyPointer
<1> QED
  BY <1>2, <1>3, <1>4, <1>5, NoVectorStep DEF DestroyPointer

LEMMA FinalizeIInv ==
  ASSUME IInv, NEW s \in DOMAIN heap.ref, s[1] \in Object, Finalize(s)
  PROVE  IInv'
<1>1. Balanced(heap) /\ heap' = Release(heap, s)
  BY DEF IInv, Finalize
<1>2. /\ Balanced(heap') /\ DOMAIN heap'.ref = DOMAIN heap.ref \ {s}
      /\ \A x \in Object : heap'.count[x] <= heap.count[x]
  BY <1>1, ReleaseBalanced
<1>3. ObjectsOK' /\ object' = object /\ steps' \in 0 .. MaxSteps
  BY DEF IInv, TypeOK, ObjectsOK, Finalize
<1>4. s \in OfObjects
  <2>1. s \in Slot
    BY DEF IInv, TypeOK
  <2> QED
    BY <2>1, OwnersApart DEF Slot, OfObjects
<1>5. ASSUME NEW o \in Object, heap'.count[o] > 0, NEW f \in object'[o].holds
      PROVE  <<o, f>> \in DOMAIN heap'.ref
  <2>0. /\ heap.count[o] \in Nat /\ heap'.count[o] \in Nat /\ heap'.count[o] <= heap.count[o]
        /\ heap'.count[o] > 0 /\ heap.count[s[1]] = 0
    BY <1>1, <1>2, <1>5, CountsAreNatural DEF Finalize
  <2>1. heap.count[o] > 0 /\ o # s[1]
    BY <2>0
  <2>2. <<o, f>> \in DOMAIN heap.ref /\ <<o, f>> # s
    BY <1>3, <2>1 DEF IInv, Complete
  <2> QED
    BY <1>2, <2>2
<1>6. Complete'
  BY <1>5 DEF Complete
<1>7. Touched \subseteq OfObjects
  BY <1>2, <1>4 DEF Touched
<1> QED
  BY <1>2, <1>3, <1>6, <1>7, NoVectorStep DEF Finalize

(***************************************************************************)
(* fromNSData.                                                             *)
(***************************************************************************)
LEMMA FromNSDataIInv ==
  ASSUME IInv, NEW v \in Vector, NEW p \in Pointer, FromNSData(v, p)
  PROVE  IInv'
<1> DEFINE data == Ref(p, "_target")
           slot == <<v, 1>>
           bytes == object[data].bytes
           item == Buffered(bytes)
           items == <<item>>
<1>0. /\ Operation(1) /\ ~Reading(v) /\ vector[v] = <<>> /\ MaxItems > 0
      /\ data # NULL /\ UNCHANGED <<pc, call>>
      /\ vector' = [vector EXCEPT ![v] = items]
  BY DEF FromNSData, Copies
<1>1. /\ Balanced(heap) /\ slot \notin DOMAIN heap.ref
      /\ data \in Object /\ heap.count[data] > 0
  <2>1. Balanced(heap)
    BY DEF IInv
  <2>2. slot \notin DOMAIN heap.ref
    BY <1>0 DEF IInv, VectorSlots
  <2>3. <<p, "_target">> \in DOMAIN heap.ref /\ data = heap.ref[<<p, "_target">>]
    BY <1>0 DEF Ref, Target
  <2> QED
    BY <2>1, <2>2, <2>3, CountedIfHeld
<1>2. PICK s \in Fresh(heap, "any") :
        \E copy \in IF object[data].kind = "mutableData"
                      THEN Fresh(Retain(heap, slot, s), "any") ELSE {data} :
          /\ heap' = Retain(Retain(heap, slot, s), <<s, "left">>, copy)
          /\ object' = [object EXCEPT
               ![copy] = IF copy = data THEN @ ELSE Memory("data", {}, bytes),
               ![s] = Memory("storage", {"left"}, <<>>)]
  BY DEF FromNSData, Copies
<1> DEFINE h == Retain(heap, slot, s)
           field == <<s, "left">>
<1>3. PICK copy \in IF object[data].kind = "mutableData" THEN Fresh(h, "any") ELSE {data} :
        /\ heap' = Retain(h, field, copy)
        /\ object' = [object EXCEPT
             ![copy] = IF copy = data THEN @ ELSE Memory("data", {}, bytes),
             ![s] = Memory("storage", {"left"}, <<>>)]
  BY <1>2
<1>4. /\ s \in Object /\ heap.count[s] = 0 /\ field \notin DOMAIN heap.ref
  BY <1>1, <1>2, FreshIsUnused
<1>5. /\ Balanced(h) /\ DOMAIN h.ref = DOMAIN heap.ref \cup {slot}
      /\ \A x \in Object : h.count[x] = IF x = s THEN heap.count[x] + 1 ELSE heap.count[x]
  <2> HIDE DEF slot
  <2> QED
    BY <1>1, <1>4, RetainBalanced
<1>6. copy \in Object /\ (copy # data => copy \in Fresh(h, "any"))
  BY <1>1, <1>3, <1>5, FreshIsUnused
<1>7. field \notin DOMAIN h.ref
  BY <1>4, <1>5, OwnersApart
<1>8. heap' = Retain(h, field, copy)
  BY <1>3
<1>9. /\ Balanced(heap') /\ DOMAIN heap'.ref = DOMAIN heap.ref \cup {slot, field}
      /\ \A x \in Object : heap'.count[x] = IF x = copy THEN h.count[x] + 1 ELSE h.count[x]
  <2> HIDE DEF slot, field, h
  <2> QED
    BY <1>5, <1>6, <1>7, <1>8, RetainBalanced
<1>10. /\ ObjectsOK
       /\ Memory("data", {}, bytes) \in [kind : Kind, holds : SUBSET Field, bytes : Seq(Nat)]
       /\ Memory("storage", {"left"}, <<>>) \in [kind : Kind, holds : SUBSET Field, bytes : Seq(Nat)]
  BY <1>1 DEF IInv, TypeOK, ObjectsOK, Memory, Kind, Field
<1>11. /\ ObjectsOK'
       /\ \A x \in Object : object'[x].holds =
            IF x = s THEN {"left"} ELSE IF x = copy /\ copy # data THEN {} ELSE object[x].holds
  <2>1. Memory("data", {}, bytes).holds = {} /\ Memory("storage", {"left"}, <<>>).holds = {"left"}
    BY DEF Memory
  <2> QED
    BY <1>1, <1>3, <1>4, <1>6, <1>10, <2>1 DEF ObjectsOK
<1>12. Complete'
  <2>1. ASSUME NEW x \in Object, heap'.count[x] > 0
        PROVE  \/ heap.count[x] > 0 /\ object'[x].holds = object[x].holds
               \/ \A f \in object'[x].holds : <<x, f>> \in DOMAIN heap'.ref
    BY <1>1, <1>5, <1>9, <1>11, <2>1
  <2> QED
    BY <1>9, <2>1, CompleteStep
<1>13. Touched \subseteq OfObjects \cup ({v} \X Nat)
  BY <1>4, <1>9 DEF Touched, OfObjects, Field
<1>14. /\ item \in Item /\ item.kind = "Buffered" /\ Plain(item)
  BY <1>1 DEF IInv, TypeOK, Item, Buffered, Plain
<1>15. /\ items \in Seq(Item) /\ Len(items) <= MaxItems
       /\ \A i \in DOMAIN items : Plain(items[i])
       /\ \A i \in Nat : i \in DOMAIN items <=> i = 1
       /\ items[1].kind = "Buffered"
  BY <1>0, <1>14, BoundsAssumption
<1>16. ASSUME NEW i \in Nat
       PROVE  <<v, i>> \in DOMAIN heap'.ref <=>
                i \in DOMAIN items /\ items[i].kind = "Buffered"
  <2>1. <<v, i>> \in DOMAIN heap'.ref <=> i = 1
    <3>1. <<v, i>> \notin DOMAIN heap.ref
      BY <1>0 DEF IInv, VectorSlots
    <3> QED
      BY <1>4, <1>9, <3>1, OwnersApart
  <2> QED
    BY <1>15, <2>1
<1>17. steps' \in 0 .. MaxSteps
  BY <1>0, BoundsAssumption DEF IInv, TypeOK, Operation
<1> HIDE DEF items, item, data, slot, bytes, h, field
<1> QED
  BY <1>0, <1>9, <1>11, <1>12, <1>13, <1>15, <1>16, <1>17, VectorStep

(***************************************************************************)
(* Steps of a thread's call.                                               *)
(***************************************************************************)
LEMMA ThreadStep ==
  ASSUME IInv, NEW t \in Thread, UNCHANGED vector, steps' \in 0 .. MaxSteps,
         NEW place \in Place, pc' = [pc EXCEPT ![t] = place],
         NEW c \in Call, call' = [call EXCEPT ![t] = c],
         Touched \subseteq OfObjects \cup ({t} \X Local)
                             \cup (({call[t].pointer} \cap Pointer) \X {"_target"}),
         \A name \in Local : <<t, name>> \in DOMAIN heap'.ref => name \in Held(place),
         place = "idle" => c = Idle,
         place # "idle" => c.pointer \in Pointer /\ (c.pointer = call[t].pointer \/ ~InUse(c.pointer)),
         place \in {"iterate", "deliver", "fail"} => c.vector \in Vector,
         place \in {"iterate", "deliver"} => Iterating(c),
         place = "deliver" => c.item <= Len(vector[c.vector]) /\ <<t, "copy">> \in DOMAIN heap'.ref,
         place = "store" => <<c.pointer, "_target">> \notin DOMAIN heap'.ref,
         Balanced(heap'), ObjectsOK', Complete'
  PROVE  IInv'
<1>1. /\ pc \in [Thread -> Place] /\ call \in [Thread -> Call]
      /\ \A u \in Thread : u # t => pc'[u] = pc[u] /\ call'[u] = call[u]
      /\ pc'[t] = place /\ call'[t] = c
  BY DEF IInv, TypeOK
<1>2. TypeOK'
  <2>1. DOMAIN heap'.ref \subseteq Slot
    BY DEF IInv, TypeOK, Touched, OfObjects, Slot
  <2>2. pc' \in [Thread -> Place] /\ call' \in [Thread -> Call]
    BY <1>1
  <2> QED
    BY <2>1, <2>2 DEF IInv, TypeOK, Balanced, ObjectsOK
<1>3. PlainVectors'
  BY DEF IInv, PlainVectors
<1>4. VectorSlots'
  <2>1. ASSUME NEW v \in Vector, NEW i \in Nat
        PROVE  <<v, i>> \in DOMAIN heap'.ref <=> <<v, i>> \in DOMAIN heap.ref
    BY OwnersApart DEF Touched, OfObjects
  <2> QED
    BY <2>1 DEF IInv, VectorSlots
<1>5. Locals'
  <2>1. ASSUME NEW u \in Thread, u # t, NEW name \in Local
        PROVE  <<u, name>> \in DOMAIN heap'.ref <=> <<u, name>> \in DOMAIN heap.ref
    BY <2>1, OwnersApart DEF Touched, OfObjects
  <2> QED
    BY <1>1, <2>1 DEF IInv, Locals
<1>6. ASSUME NEW u \in Thread, u # t
      PROVE  /\ pc'[u] = "idle" => call'[u] = Idle
             /\ pc'[u] # "idle" => call'[u].pointer \in Pointer
             /\ pc'[u] \in {"iterate", "deliver", "fail"} => call'[u].vector \in Vector
             /\ pc'[u] \in {"iterate", "deliver"} => Iterating(call[u])'
             /\ pc'[u] = "deliver" => More(u)' /\ <<u, "copy">> \in DOMAIN heap'.ref
             /\ pc'[u] = "store" => <<call'[u].pointer, "_target">> \notin DOMAIN heap'.ref
  <2>1. pc'[u] = pc[u] /\ call'[u] = call[u] /\ vector' = vector
    BY <1>1, <1>6
  <2>2. /\ Iterating(call[u])' <=> Iterating(call[u])
        /\ More(u)' <=> More(u)
    BY <2>1 DEF Iterating, More, ItemOf
  <2>3. <<u, "copy">> \in DOMAIN heap.ref => <<u, "copy">> \in DOMAIN heap'.ref
    BY <1>6, OwnersApart DEF Touched, OfObjects
  <2>4. ASSUME pc[u] = "store" PROVE <<call[u].pointer, "_target">> \notin DOMAIN heap'.ref
    <3>1. call[u].pointer \in Pointer /\ <<call[u].pointer, "_target">> \notin DOMAIN heap.ref
      BY <2>4 DEF IInv, CallsOK
    <3>2. call[u].pointer # call[t].pointer
      BY <1>6, <3>1, OwnersApart DEF IInv, CallsOK
    <3> QED
      BY <3>1, <3>2, OwnersApart DEF Touched, OfObjects
  <2> QED
    BY <2>1, <2>2, <2>3, <2>4 DEF IInv, CallsOK
<1>7. /\ place \in {"iterate", "deliver"} => Iterating(call[t])'
      /\ place = "deliver" => More(t)'
  BY <1>1 DEF Iterating, More, ItemOf
<1>8. ASSUME NEW u \in Thread, u # t, c.pointer # NULL PROVE call[u].pointer # c.pointer
  <2>1. place # "idle"
    BY <1>8 DEF Idle
  <2>2. CASE c.pointer = call[t].pointer
    BY <1>8, <2>2 DEF IInv, CallsOK
  <2>3. CASE ~InUse(c.pointer)
    BY <2>3 DEF InUse
  <2> QED
    BY <2>1, <2>2, <2>3
<1>9. CallsOK'
  <2>1. ASSUME NEW x \in Thread, NEW y \in Thread,
               call'[x].pointer = call'[y].pointer, call'[x].pointer # NULL
        PROVE  x = y
    BY <1>1, <1>8, <2>1 DEF IInv, CallsOK
  <2> QED
    BY <1>1, <1>6, <1>7, <2>1 DEF CallsOK
<1> QED
  BY <1>2, <1>3, <1>4, <1>5, <1>9 DEF IInv

(* Where iterate() goes on.                                                *)
LEMMA AtItemOK ==
  ASSUME IInv, NEW c \in Call, c.vector \in Vector, NEW i \in Nat \ {0}
  PROVE  /\ AtItem(c, i) \in Call /\ Iterating(AtItem(c, i))
         /\ AtItem(c, i).vector = c.vector /\ AtItem(c, i).pointer = c.pointer
<1>1. /\ AtItem(c, i).vector = c.vector /\ AtItem(c, i).pointer = c.pointer
      /\ AtItem(c, i).item = i /\ AtItem(c, i).chunk = 1
      /\ AtItem(c, i).toSkip = IF i <= Len(vector[c.vector]) THEN vector[c.vector][i].offset ELSE 0
      /\ AtItem(c, i).toPass = IF i <= Len(vector[c.vector]) THEN vector[c.vector][i].length ELSE 0
  BY DEF AtItem, Call
<1>2. ASSUME i <= Len(vector[c.vector])
      PROVE  /\ vector[c.vector][i].offset \in Nat /\ vector[c.vector][i].length \in Nat
             /\ 1 \in DOMAIN vector[c.vector][i].chunks
  <2>1. vector[c.vector] \in Seq(Item) /\ i \in DOMAIN vector[c.vector]
    BY <1>2 DEF IInv, TypeOK
  <2>2. vector[c.vector][i] \in Item /\ Plain(vector[c.vector][i])
    BY <2>1 DEF IInv, PlainVectors
  <2> QED
    BY <2>2 DEF Item, Plain, InOneChunk
<1>3. AtItem(c, i) \in Call
  <2>1. AtItem(c, i).toSkip \in Nat /\ AtItem(c, i).toPass \in Int
    BY <1>1, <1>2
  <2> HIDE <1>2
  <2> QED
    BY <1>1, <2>1 DEF AtItem, Call
<1>4. Iterating(AtItem(c, i))
  BY <1>1, <1>2 DEF Iterating, ItemOf
<1> QED
  BY <1>1, <1>3, <1>4

LEMMA AtNextChunkOK ==
  ASSUME IInv, NEW c \in Call, c.vector \in Vector,
         c.item >= 1, c.item <= Len(vector[c.vector]), c.chunk \in DOMAIN ItemOf(c).chunks,
         ~ItemOf(c).view => c.toSkip = 0
  PROVE  /\ AtNextChunk(c) \in Call /\ Iterating(AtNextChunk(c))
         /\ AtNextChunk(c).vector = c.vector /\ AtNextChunk(c).pointer = c.pointer
<1>0. c.item \in Nat /\ c.item >= 1
  BY DEF Call
<1>1. CASE c.chunk < Len(ItemOf(c).chunks)
  <2> DEFINE d == [c EXCEPT !.chunk = @ + 1, !.again = FALSE]
  <2>1. AtNextChunk(c) = d
    BY <1>1 DEF AtNextChunk
  <2>2. /\ d \in Call /\ d.vector = c.vector /\ d.pointer = c.pointer
        /\ d.item = c.item /\ d.toSkip = c.toSkip /\ d.chunk = c.chunk + 1
    <3>1. d = [c EXCEPT !.chunk = c.chunk + 1, !.again = FALSE] /\ c.chunk + 1 \in Nat
      BY DEF Call
    <3>2. ASSUME NEW n \in Nat
          PROVE  LET e == [c EXCEPT !.chunk = n, !.again = FALSE]
                 IN  /\ e \in Call /\ e.vector = c.vector /\ e.pointer = c.pointer
                     /\ e.item = c.item /\ e.toSkip = c.toSkip /\ e.chunk = n
      BY DEF Call
    <3> QED
      BY <3>1, <3>2
  <2>3. c.item \in DOMAIN vector[c.vector] /\ vector[c.vector] \in Seq(Item)
    BY <1>0 DEF IInv, TypeOK
  <2>4. ItemOf(c) \in Item /\ Plain(ItemOf(c))
    BY <2>3 DEF ItemOf, IInv, PlainVectors
  <2>5. c.chunk + 1 \in DOMAIN ItemOf(c).chunks /\ ~ItemOf(c).view
    <3>1. ItemOf(c).chunks \in Seq(Seq(Nat)) /\ c.chunk \in DOMAIN ItemOf(c).chunks
      BY <2>4 DEF Item
    <3>2. Len(ItemOf(c).chunks) # 1
      <4>1. c.chunk \in 1 .. Len(ItemOf(c).chunks) /\ Len(ItemOf(c).chunks) \in Nat
        BY <3>1
      <4>2. ASSUME NEW m \in Nat, c.chunk \in 1 .. m, c.chunk < m PROVE m # 1
        BY <4>2
      <4> QED
        BY <1>1, <4>1, <4>2
    <3> QED
      BY <1>1, <2>4, <3>1, <3>2 DEF Plain, InOneChunk
  <2>6. c.toSkip = ItemOf(c).offset
    BY <2>4, <2>5 DEF Plain
  <2> HIDE DEF d
  <2>7. ItemOf(d) = ItemOf(c)
    BY <2>2 DEF ItemOf
  <2> QED
    BY <1>0, <2>1, <2>2, <2>5, <2>6, <2>7 DEF Iterating
<1>2. CASE ~(c.chunk < Len(ItemOf(c).chunks))
  <2>1. AtNextChunk(c) = AtItem(c, c.item + 1) /\ c.item + 1 \in Nat \ {0}
    BY <1>0, <1>2 DEF AtNextChunk
  <2> QED
    BY <2>1, AtItemOK
<1> QED
  BY <1>1, <1>2

(* What is known of the call that takes a step.                            *)
LEMMA InCall ==
  ASSUME IInv, NEW t \in Thread, pc[t] # "idle"
  PROVE  /\ Balanced(heap) /\ call[t] \in Call /\ call[t].pointer \in Pointer
         /\ steps \in 0 .. MaxSteps
         /\ \A name \in Local : <<t, name>> \in DOMAIN heap.ref => name \in Held(pc[t])
         /\ pc[t] \in {"iterate", "deliver", "fail"} => call[t].vector \in Vector
         /\ pc[t] \in {"iterate", "deliver"} => Iterating(call[t])
BY DEF IInv, TypeOK, CallsOK, Locals

(* The storage value that is read.                                         *)
LEMMA ItemRead ==
  ASSUME IInv, NEW t \in Thread, pc[t] \in {"iterate", "deliver"}, More(t)
  PROVE  /\ call[t].vector \in Vector /\ call[t].item \in DOMAIN vector[call[t].vector]
         /\ ItemOf(call[t]) \in Item /\ Plain(ItemOf(call[t]))
         /\ call[t].chunk \in DOMAIN ItemOf(call[t]).chunks
<1>1. /\ call[t] \in Call /\ call[t].vector \in Vector /\ Iterating(call[t])
  BY InCall
<1>2. call[t].item \in Nat /\ call[t].item >= 1 /\ call[t].item <= Len(vector[call[t].vector])
  BY <1>1 DEF Call, Iterating, More
<1>3. vector[call[t].vector] \in Seq(Item)
  BY <1>1 DEF IInv, TypeOK
<1>4. call[t].item \in DOMAIN vector[call[t].vector]
  BY <1>2, <1>3
<1>5. ItemOf(call[t]) \in Item /\ Plain(ItemOf(call[t]))
  BY <1>1, <1>3, <1>4 DEF IInv, PlainVectors, ItemOf
<1> QED
  BY <1>1, <1>2, <1>4, <1>5 DEF Iterating

LEMMA ToNSDataIInv ==
  ASSUME IInv, NEW t \in Thread, NEW v \in Vector, NEW p \in Pointer, ToNSData(t, v, p)
  PROVE  IInv'
<1> DEFINE begin == [Idle EXCEPT !.vector = v, !.pointer = p]
           c == AtItem(begin, 1)
<1>1. begin \in Call /\ begin.vector = v /\ begin.pointer = p
  BY IdleIsACall DEF Call
<1>2. c \in Call /\ Iterating(c) /\ c.vector = v /\ c.pointer = p
  <2> HIDE DEF begin
  <2> QED
    BY <1>1, AtItemOK
<1>3. /\ heap' = heap /\ object' = object /\ vector' = vector /\ Touched = {}
      /\ Balanced(heap') /\ ObjectsOK'
  BY DEF IInv, TypeOK, ObjectsOK, ToNSData, Touched
<1>4. Complete'
  BY <1>3, CompleteStep
<1>5. steps' \in 0 .. MaxSteps
  BY BoundsAssumption DEF IInv, TypeOK, ToNSData, Operation
<1>6. /\ pc[t] = "idle" /\ ~InUse(p)
      /\ pc' = [pc EXCEPT ![t] = "iterate"] /\ call' = [call EXCEPT ![t] = c]
      /\ "iterate" \in Place
  BY DEF ToNSData, At, Place
<1>7. \A name \in Local : <<t, name>> \notin DOMAIN heap'.ref
  BY <1>3, <1>6 DEF IInv, Locals, Held
<1> HIDE DEF c
<1> QED
  BY <1>2, <1>3, <1>4, <1>5, <1>6, <1>7, ThreadStep

(* A chunk that is copied for provideLongTermBytes.                        *)
LEMMA CopyIInv ==
  ASSUME IInv, NEW t \in Thread, pc[t] = "iterate", More(t),
         pc' = [pc EXCEPT ![t] = "deliver"], UNCHANGED <<vector, call, steps>>,
         NEW s \in Object, heap.count[s] = 0,
         ObjectsOK', \A x \in Object : x # s => object'[x] = object[x],
         Balanced(heap'), DOMAIN heap.ref \subseteq DOMAIN heap'.ref,
         <<t, "copy">> \in DOMAIN heap'.ref,
         \A x \in DOMAIN heap'.ref \ DOMAIN heap.ref : x = <<t, "copy">> \/ x \in OfObjects,
         \A x \in Object : x # s /\ heap'.count[x] > 0 => heap.count[x] > 0,
         \A f \in object'[s].holds : <<s, f>> \in DOMAIN heap'.ref
  PROVE  IInv'
<1>1. /\ call[t] \in Call /\ call[t].pointer \in Pointer /\ call[t].vector \in Vector
      /\ Iterating(call[t]) /\ steps' \in 0 .. MaxSteps
      /\ \A name \in Local : <<t, name>> \in DOMAIN heap.ref => name \in Held("iterate")
  BY InCall
<1>2. Complete'
  BY CompleteStep
<1>3. call' = [call EXCEPT ![t] = call[t]] /\ "deliver" \in Place
  BY DEF IInv, TypeOK, Place
<1>4. "copy" \in Local
  BY DEF Local
<1>5. Touched \subseteq OfObjects \cup ({t} \X Local)
  BY <1>4 DEF Touched
<1>6. \A name \in Local : <<t, name>> \in DOMAIN heap'.ref => name \in Held("deliver")
  <2>1. \A name \in Local : <<t, name>> \in DOMAIN heap'.ref =>
          name = "copy" \/ <<t, name>> \in DOMAIN heap.ref
    BY OwnersApart DEF OfObjects
  <2> QED
    BY <1>1, <2>1 DEF Held
<1>7. call[t].item <= Len(vector[call[t].vector])
  BY DEF More
<1> QED
  BY <1>1, <1>2, <1>3, <1>5, <1>6, <1>7, ThreadStep

LEMMA PlainCopyIInv ==
  ASSUME IInv, NEW t \in Thread, pc[t] = "iterate", More(t),
         pc' = [pc EXCEPT ![t] = "deliver"], UNCHANGED <<vector, call, steps>>,
         NEW bytes \in Seq(Nat), NEW s \in Fresh(heap, t),
         NEW slot, slot = <<t, "copy">>, heap' = Retain(heap, slot, s),
         object' = [object EXCEPT ![s] = Memory("chunk", {}, bytes)]
  PROVE  IInv'
<1>1. Balanced(heap) /\ s \in Object /\ heap.count[s] = 0
  BY FreshIsUnused DEF IInv
<1>2. slot \notin DOMAIN heap.ref
  BY DEF IInv, Locals, Held, Local
<1>4. /\ Balanced(heap') /\ DOMAIN heap'.ref = DOMAIN heap.ref \cup {slot}
      /\ \A x \in Object : heap'.count[x] = IF x = s THEN heap.count[x] + 1 ELSE heap.count[x]
  BY <1>1, <1>2, RetainBalanced
<1>5. /\ ObjectsOK' /\ object'[s].holds = {}
      /\ \A x \in Object : x # s => object'[x] = object[x]
  BY <1>1 DEF IInv, TypeOK, ObjectsOK, Memory, Kind, Field
<1> QED
  BY <1>1, <1>4, <1>5, CopyIInv

LEMMA CopyDirectValueIInv ==
  ASSUME IInv, NEW t \in Thread, CopyDirectValue(t)
  PROVE  IInv'
<1>1. /\ pc[t] = "iterate" /\ More(t)
      /\ pc' = [pc EXCEPT ![t] = "deliver"] /\ UNCHANGED <<vector, call, steps>>
  BY DEF CopyDirectValue, At
<1>2. PICK s \in Fresh(heap, t) :
        /\ heap' = Retain(heap, <<t, "copy">>, s)
        /\ object' = [object EXCEPT ![s] = Memory("chunk", {}, ItemOf(call[t]).chunks[1])]
  BY DEF CopyDirectValue
<1>3. ItemOf(call[t]) \in Item
  BY <1>1, ItemRead
<1>4. ItemOf(call[t]).chunks[1] \in Seq(Nat)
  BY <1>3 DEF Item
<1> QED
  BY <1>1, <1>2, <1>4, PlainCopyIInv

LEMMA ReadFileIInv ==
  ASSUME IInv, NEW t \in Thread, ReadFile(t)
  PROVE  IInv'
<1>1. /\ pc[t] = "iterate" /\ More(t)
      /\ pc' = [pc EXCEPT ![t] = "deliver"] /\ UNCHANGED <<vector, call, steps>>
  BY DEF ReadFile, At
<1>2. PICK s \in Fresh(heap, t) :
        /\ heap' = Retain(heap, <<t, "copy">>, s)
        /\ object' = [object EXCEPT ![s] =
             Memory("chunk", {}, ItemOf(call[t]).chunks[call[t].chunk])]
  BY DEF ReadFile
<1>3. ItemOf(call[t]) \in Item /\ call[t].chunk \in DOMAIN ItemOf(call[t]).chunks
  BY <1>1, ItemRead
<1>4. ItemOf(call[t]).chunks[call[t].chunk] \in Seq(Nat)
  <2>1. ItemOf(call[t]).chunks \in Seq(Seq(Nat))
    BY <1>3 DEF Item
  <2> QED
    BY <1>3, <2>1
<1> QED
  BY <1>1, <1>2, <1>4, PlainCopyIInv

LEMMA CopyBufferedIInv ==
  ASSUME IInv, NEW t \in Thread, CopyBuffered(t)
  PROVE  IInv'
<1> DEFINE storage == Ref(call[t].vector, call[t].item)
           slot == <<t, "copy">>
           bytes == StorageBytes(storage)
<1>1. /\ pc[t] = "iterate" /\ More(t) /\ ItemOf(call[t]).kind = "Buffered"
      /\ pc' = [pc EXCEPT ![t] = "deliver"] /\ UNCHANGED <<vector, call, steps>>
  BY DEF CopyBuffered, At
<1>2. PICK s \in Fresh(heap, t) :
        /\ heap' = Retain(Retain(heap, slot, s), <<s, "left">>, storage)
        /\ object' = [object EXCEPT ![s] = Memory("chunk", {"left"}, bytes)]
  BY DEF CopyBuffered
<1> DEFINE h == Retain(heap, slot, s)
           field == <<s, "left">>
<1>3. /\ Balanced(heap) /\ s \in Object /\ heap.count[s] = 0 /\ field \notin DOMAIN heap.ref
  BY <1>2, FreshIsUnused DEF IInv
<1>4. storage \in Object /\ heap.count[storage] > 0
  <2>1. /\ call[t].vector \in Vector /\ call[t].item \in DOMAIN vector[call[t].vector]
    BY <1>1, ItemRead
  <2>2. call[t].item \in Nat
    BY <1>1, InCall DEF Call
  <2>3. <<call[t].vector, call[t].item>> \in DOMAIN heap.ref
    BY <1>1, <2>1, <2>2 DEF IInv, VectorSlots, ItemOf
  <2> QED
    BY <1>3, <2>3, CountedIfHeld DEF Ref, Target
<1>5. slot \notin DOMAIN heap.ref /\ field # slot
  <2>1. slot \notin DOMAIN heap.ref
    BY <1>1 DEF IInv, Locals, Held, Local
  <2> QED
    BY <1>3, <2>1, OwnersApart
<1>6. /\ Balanced(h) /\ DOMAIN h.ref = DOMAIN heap.ref \cup {slot}
      /\ \A x \in Object : h.count[x] = IF x = s THEN heap.count[x] + 1 ELSE heap.count[x]
  <2> HIDE DEF slot
  <2> QED
    BY <1>3, <1>5, RetainBalanced
<1>7. heap' = Retain(h, field, storage) /\ field \notin DOMAIN h.ref
  BY <1>2, <1>3, <1>5, <1>6
<1>8. /\ Balanced(heap') /\ DOMAIN heap'.ref = DOMAIN heap.ref \cup {slot, field}
      /\ \A x \in Object : heap'.count[x] = IF x = storage THEN h.count[x] + 1 ELSE h.count[x]
  <2> HIDE DEF slot, field, h, storage
  <2> QED
    BY <1>4, <1>6, <1>7, RetainBalanced
<1>9. bytes \in Seq(Nat)
  <2>1. ASSUME Ref(storage, "left") # NULL PROVE Ref(storage, "left") \in Object
    BY <1>3, <2>1 DEF Ref, Target, Balanced
  <2> QED
    BY <1>4, <2>1 DEF StorageBytes, IInv, TypeOK
<1>10. /\ ObjectsOK' /\ object'[s].holds = {"left"}
       /\ \A x \in Object : x # s => object'[x] = object[x]
  <2> HIDE DEF bytes
  <2>1. /\ Memory("chunk", {"left"}, bytes) \in [kind : Kind, holds : SUBSET Field, bytes : Seq(Nat)]
        /\ Memory("chunk", {"left"}, bytes).holds = {"left"}
    BY <1>9 DEF Memory, Kind, Field
  <2> QED
    BY <1>2, <1>3, <2>1 DEF IInv, TypeOK, ObjectsOK
<1>11. \A x \in Object : x # s /\ heap'.count[x] > 0 => heap.count[x] > 0
  BY <1>4, <1>6, <1>8
<1>12. field \in OfObjects
  BY <1>3 DEF OfObjects, Field
<1>13. /\ DOMAIN heap.ref \subseteq DOMAIN heap'.ref /\ slot \in DOMAIN heap'.ref
       /\ \A x \in DOMAIN heap'.ref \ DOMAIN heap.ref : x = slot \/ x \in OfObjects
       /\ \A f \in object'[s].holds : <<s, f>> \in DOMAIN heap'.ref
  BY <1>8, <1>10, <1>12
<1> QED
  BY <1>1, <1>3, <1>8, <1>10, <1>11, <1>13, CopyIInv

LEMMA ObjectsKept ==
  ASSUME IInv, object' = object,
         \A s \in OfObjects : s \in DOMAIN heap.ref => s \in DOMAIN heap'.ref,
         \A x \in Object : heap'.count[x] > 0 => heap.count[x] > 0
  PROVE  ObjectsOK' /\ Complete'
<1>1. ObjectsOK'
  BY DEF IInv, TypeOK, ObjectsOK
<1> QED
  BY <1>1, CompleteStep

LEMMA ReadFailsIInv ==
  ASSUME IInv, NEW t \in Thread, ReadFails(t)
  PROVE  IInv'
<1> DEFINE slot == <<t, "copy">>
<1>1. /\ pc[t] = "iterate" /\ More(t) /\ UNCHANGED <<object, vector, steps>>
  BY DEF ReadFails, At
<1>2. /\ Balanced(heap) /\ call[t] \in Call /\ call[t].pointer \in Pointer
      /\ call[t].vector \in Vector /\ Iterating(call[t]) /\ steps' \in 0 .. MaxSteps
      /\ \A name \in Local : <<t, name>> \in DOMAIN heap.ref => name \in Held("iterate")
  BY <1>1, InCall
<1>3. PICK s \in Fresh(heap, t) : heap' = Release(Retain(heap, slot, s), slot)
  BY DEF ReadFails
<1>4. s \in Object
  BY <1>2, <1>3, FreshIsUnused
<1>5. slot \notin DOMAIN heap.ref
  BY <1>2 DEF Held, Local
<1>6. /\ Balanced(heap') /\ DOMAIN heap'.ref = DOMAIN heap.ref
      /\ \A x \in Object : heap'.count[x] <= heap.count[x]
  <2> DEFINE h == Retain(heap, slot, s)
  <2>1. /\ Balanced(h) /\ DOMAIN h.ref = DOMAIN heap.ref \cup {slot} /\ h.ref[slot] = s
        /\ \A x \in Object : h.count[x] = IF x = s THEN heap.count[x] + 1 ELSE heap.count[x]
    <3> HIDE DEF slot
    <3> QED
      BY <1>2, <1>4, <1>5, RetainBalanced
  <2>2. slot \in DOMAIN h.ref /\ heap' = Release(h, slot)
    BY <1>3, <2>1
  <2>3. /\ Balanced(heap') /\ DOMAIN heap'.ref = DOMAIN h.ref \ {slot}
        /\ \A x \in Object : heap'.count[x] = IF x = h.ref[slot] THEN h.count[x] - 1 ELSE h.count[x]
    <3> HIDE DEF slot, h
    <3> QED
      BY <2>1, <2>2, ReleaseBalanced
  <2>4. \A x \in Object : heap.count[x] \in Nat
    BY <1>2, CountsAreNatural
  <2> HIDE DEF slot, h
  <2> QED
    BY <1>5, <2>1, <2>3, <2>4
<1>7. \A x \in Object : heap'.count[x] > 0 => heap.count[x] > 0
  BY <1>2, <1>6, CountsAreNatural
<1>8. ObjectsOK' /\ Complete' /\ Touched = {}
  BY <1>1, <1>6, <1>7, ObjectsKept DEF Touched
<1>9. CASE ErrorReturned(call[t])
  <2>1. /\ pc' = [pc EXCEPT ![t] = "fail"] /\ call' = [call EXCEPT ![t] = call[t]]
        /\ "fail" \in Place
    BY <1>9 DEF IInv, TypeOK, ReadFails, Place
  <2>2. \A name \in Local : <<t, name>> \in DOMAIN heap'.ref => name \in Held("fail")
    BY <1>2, <1>6 DEF Held
  <2> QED
    BY <1>1, <1>2, <1>6, <1>8, <2>1, <2>2, ThreadStep
<1>10. CASE ~ErrorReturned(call[t])
  <2> DEFINE lost == [call[t] EXCEPT !.lost = TRUE]
             i == IF lost.item = 1 THEN 3 ELSE lost.item + 1
             c == AtItem(lost, i)
  <2>1. lost \in Call /\ lost.vector \in Vector /\ lost.pointer = call[t].pointer
    BY <1>2 DEF Call
  <2>2. i \in Nat \ {0}
    BY <2>1 DEF Call
  <2>3. c \in Call /\ Iterating(c) /\ c.vector = lost.vector /\ c.pointer = lost.pointer
    <3> HIDE DEF lost, i
    <3> QED
      BY <2>1, <2>2, AtItemOK
  <2>4. c = AfterError(call[t])
    <3>1. lost.item = call[t].item
      BY <1>2 DEF Call
    <3> QED
      BY <3>1 DEF AfterError
  <2>5. /\ pc' = [pc EXCEPT ![t] = "iterate"] /\ call' = [call EXCEPT ![t] = c]
        /\ "iterate" \in Place
    <3> HIDE DEF c
    <3> QED
      BY <1>1, <1>10, <2>4 DEF IInv, TypeOK, ReadFails, Place
  <2>6. \A name \in Local : <<t, name>> \in DOMAIN heap'.ref => name \in Held("iterate")
    BY <1>2, <1>6
  <2> HIDE DEF lost, c
  <2> QED
    BY <1>1, <1>2, <1>6, <1>8, <2>1, <2>3, <2>5, <2>6, ThreadStep
<1> QED
  BY <1>9, <1>10

LEMMA ReturnIInv ==
  ASSUME IInv, NEW t \in Thread, pc[t] # "idle", Return(t), UNCHANGED <<object, vector, steps>>,
         Touched \subseteq ({t} \X Local) \cup ({call[t].pointer} \X {"_target"}),
         \A name \in Local : <<t, name>> \notin DOMAIN heap'.ref,
         Balanced(heap'), \A x \in Object : heap'.count[x] <= heap.count[x]
  PROVE  IInv'
<1>1. Balanced(heap) /\ call[t].pointer \in Pointer /\ steps' \in 0 .. MaxSteps
  BY InCall
<1>2. \A s \in OfObjects : s \in DOMAIN heap.ref => s \in DOMAIN heap'.ref
  BY <1>1, OwnersApart DEF Touched, OfObjects
<1>3. \A x \in Object : heap'.count[x] > 0 => heap.count[x] > 0
  BY <1>1, CountsAreNatural
<1>4. ObjectsOK' /\ Complete'
  BY <1>2, <1>3, ObjectsKept
<1>5. /\ pc' = [pc EXCEPT ![t] = "idle"] /\ call' = [call EXCEPT ![t] = Idle]
      /\ "idle" \in Place
  BY DEF Return, Place
<1>6. Touched \subseteq OfObjects \cup ({t} \X Local)
                          \cup (({call[t].pointer} \cap Pointer) \X {"_target"})
  BY <1>1
<1> QED
  BY <1>1, <1>4, <1>5, <1>6, IdleIsACall, ThreadStep

LEMMA ReturnErrorIInv ==
  ASSUME IInv, NEW t \in Thread, ReturnError(t)
  PROVE  IInv'
<1> DEFINE slot == <<t, "data">>
<1>1. /\ pc[t] = "fail" /\ Return(t) /\ UNCHANGED <<object, vector, steps>>
      /\ heap' = ReleaseUnlessNull(heap, slot)
  BY DEF ReturnError, At
<1>2. /\ Balanced(heap)
      /\ \A name \in Local : <<t, name>> \in DOMAIN heap.ref => name = "data"
  BY <1>1, InCall DEF Held
<1>3. /\ Balanced(heap') /\ DOMAIN heap'.ref = DOMAIN heap.ref \ {slot}
      /\ \A x \in Object : heap'.count[x] <= heap.count[x]
  <2> HIDE DEF slot
  <2> QED
    BY <1>1, <1>2, ReleaseUnlessNullBalanced
<1>4. Touched \subseteq {t} \X Local
  BY <1>3 DEF Touched, Local
<1> QED
  BY <1>1, <1>2, <1>3, <1>4, ReturnIInv

(* The result of toNSData.                                                 *)
LEMMA ResultIInv ==
  ASSUME IInv, NEW t \in Thread, pc[t] = "iterate",
         pc' = [pc EXCEPT ![t] = "put"],
         call' = [call EXCEPT ![t].source = <<t, "returnValue">>],
         UNCHANGED <<vector, steps>>,
         Touched \subseteq {t} \X Local,
         \A name \in Local : <<t, name>> \in DOMAIN heap'.ref => name = "returnValue",
         Balanced(heap'), ObjectsOK', Complete'
  PROVE  IInv'
<1> DEFINE c == [call[t] EXCEPT !.source = <<t, "returnValue">>]
<1>1. call[t] \in Call /\ call[t].pointer \in Pointer /\ steps' \in 0 .. MaxSteps
  BY InCall
<1>2. <<t, "returnValue">> \in Slot
  BY DEF Slot, Local
<1>3. c \in Call /\ c.pointer = call[t].pointer
  BY <1>1, <1>2 DEF Call
<1>4. call' = [call EXCEPT ![t] = c] /\ "put" \in Place
  BY DEF Place
<1>5. PICK place \in Place : place = "put"
  BY <1>4
<1>6. \A name \in Local : <<t, name>> \in DOMAIN heap'.ref => name \in Held(place)
  BY <1>5 DEF Held
<1>7. place \notin {"idle", "iterate", "deliver", "fail", "store"}
  BY <1>5
<1> HIDE DEF c
<1>8. c \in Call /\ c.pointer \in Pointer /\ c.pointer = call[t].pointer
  BY <1>1, <1>3
<1>9. pc' = [pc EXCEPT ![t] = place] /\ call' = [call EXCEPT ![t] = c]
  BY <1>4, <1>5
<1> QED
  BY <1>1, <1>6, <1>7, <1>8, <1>9, ThreadStep

LEMMA ReturnDataIInv ==
  ASSUME IInv, NEW t \in Thread, ReturnData(t)
  PROVE  IInv'
<1> DEFINE data == <<t, "data">>
           result == <<t, "returnValue">>
           o == heap.ref[data]
           h == Retain(heap, result, o)
<1>1. /\ pc[t] = "iterate" /\ Ref(t, "data") # NULL
      /\ pc' = [pc EXCEPT ![t] = "put"]
      /\ call' = [call EXCEPT ![t].source = <<t, "returnValue">>]
      /\ UNCHANGED <<object, vector, steps>>
  BY DEF ReturnData, At
<1>2. /\ Balanced(heap)
      /\ \A name \in Local : <<t, name>> \in DOMAIN heap.ref => name = "data"
  BY <1>1, InCall DEF Held
<1>3. data \in DOMAIN heap.ref /\ heap' = Release(h, data)
  BY <1>1 DEF ReturnData, Ref, Target
<1>4. o \in Object /\ heap.count[o] > 0 /\ result \notin DOMAIN heap.ref /\ result # data
  <2>1. o \in Object /\ heap.count[o] > 0
    BY <1>2, <1>3, CountedIfHeld
  <2> QED
    BY <1>2, <2>1 DEF Local
<1>5. /\ Balanced(h) /\ DOMAIN h.ref = DOMAIN heap.ref \cup {result}
      /\ \A x \in Object : h.count[x] = IF x = o THEN heap.count[x] + 1 ELSE heap.count[x]
  <2> HIDE DEF result, o
  <2> QED
    BY <1>2, <1>4, RetainBalanced
<1>6. /\ Balanced(heap') /\ DOMAIN heap'.ref = (DOMAIN heap.ref \cup {result}) \ {data}
      /\ \A x \in Object : heap'.count[x] <= h.count[x]
  <2> HIDE DEF result, data, h
  <2> QED
    BY <1>3, <1>5, ReleaseBalanced
<1>7. \A x \in Object : heap'.count[x] > 0 => heap.count[x] > 0
  <2>1. \A x \in Object : heap.count[x] \in Nat /\ heap'.count[x] \in Nat
    BY <1>2, <1>6, CountsAreNatural
  <2> HIDE DEF o, h
  <2> QED
    BY <1>4, <1>5, <1>6, <2>1
<1>8. ObjectsOK' /\ Complete'
  <2>1. \A s \in OfObjects : s \in DOMAIN heap.ref => s \in DOMAIN heap'.ref
    BY <1>6, OwnersApart DEF OfObjects
  <2> QED
    BY <1>1, <1>7, <2>1, ObjectsKept
<1>9. Touched \subseteq {t} \X Local
  BY <1>6 DEF Touched, Local
<1>10. \A name \in Local : <<t, name>> \in DOMAIN heap'.ref => name = "returnValue"
  BY <1>2, <1>6
<1> QED
  BY <1>1, <1>6, <1>8, <1>9, <1>10, ResultIInv

LEMMA ReturnNoDataIInv ==
  ASSUME IInv, NEW t \in Thread, ReturnNoData(t)
  PROVE  IInv'
<1> DEFINE result == <<t, "returnValue">>
<1>1. /\ pc[t] = "iterate" /\ Ref(t, "data") = NULL
      /\ pc' = [pc EXCEPT ![t] = "put"]
      /\ call' = [call EXCEPT ![t].source = <<t, "returnValue">>]
      /\ UNCHANGED <<vector, steps>>
  BY DEF ReturnNoData, At
<1>2. PICK d \in Fresh(heap, t) :
        /\ heap' = Retain(heap, result, d)
        /\ object' = [object EXCEPT ![d] = Memory("data", {}, <<>>)]
  BY DEF ReturnNoData
<1>3. Balanced(heap) /\ d \in Object
  BY <1>1, <1>2, InCall, FreshIsUnused
<1>4. \A name \in Local : <<t, name>> \notin DOMAIN heap.ref
  <2>1. <<t, "data">> \in DOMAIN heap.ref => Ref(t, "data") \in Object
    BY <1>3 DEF Balanced, Ref, Target
  <2>2. \A name \in Local : <<t, name>> \in DOMAIN heap.ref => name = "data"
    BY <1>1, InCall DEF Held
  <2> QED
    BY <1>1, <2>1, <2>2, OwnersApart
<1>5. heap' = Retain(heap, result, d) /\ result \notin DOMAIN heap.ref
  BY <1>2, <1>4 DEF Local
<1>6. /\ Balanced(heap') /\ DOMAIN heap'.ref = DOMAIN heap.ref \cup {result}
      /\ \A x \in Object : heap'.count[x] = IF x = d THEN heap.count[x] + 1 ELSE heap.count[x]
  <2> HIDE DEF result
  <2> QED
    BY <1>3, <1>5, RetainBalanced
<1>7. /\ ObjectsOK'
      /\ \A x \in Object : object'[x].holds = IF x = d THEN {} ELSE object[x].holds
  <2>1. /\ Memory("data", {}, <<>>) \in [kind : Kind, holds : SUBSET Field, bytes : Seq(Nat)]
        /\ Memory("data", {}, <<>>).holds = {}
    BY DEF Memory, Kind
  <2> QED
    BY <1>2, <1>3, <2>1 DEF IInv, TypeOK, ObjectsOK
<1>8. Complete'
  BY <1>6, <1>7, CompleteStep
<1>9. Touched \subseteq {t} \X Local
  BY <1>6 DEF Touched, Local
<1>10. \A name \in Local : <<t, name>> \in DOMAIN heap'.ref => name = "returnValue"
  BY <1>4, <1>6
<1> QED
  BY <1>1, <1>6, <1>7, <1>8, <1>9, <1>10, ResultIInv

(***************************************************************************)
(* ns_ptr's assignment.                                                    *)
(***************************************************************************)
LEMMA AssignIInv ==
  ASSUME IInv, NEW t \in Thread, NEW p \in Pointer, NEW q \in Pointer, Assign(t, p, q)
  PROVE  IInv'
<1> DEFINE c == [Idle EXCEPT !.pointer = p, !.source = <<q, "_target">>]
<1>1. <<q, "_target">> \in Slot
  BY DEF Slot
<1>2. c \in Call /\ c.pointer = p
  BY <1>1, IdleIsACall DEF Call
<1>3. /\ heap' = heap /\ object' = object /\ vector' = vector /\ Touched = {}
      /\ Balanced(heap') /\ ObjectsOK'
  BY DEF IInv, TypeOK, ObjectsOK, Assign, Touched
<1>4. Complete'
  BY <1>3, CompleteStep
<1>5. steps' \in 0 .. MaxSteps
  BY BoundsAssumption DEF IInv, TypeOK, Assign, Operation
<1>6. /\ pc[t] = "idle" /\ ~InUse(p)
      /\ pc' = [pc EXCEPT ![t] = "put"] /\ call' = [call EXCEPT ![t] = c]
      /\ "put" \in Place
  BY DEF Assign, At, Place
<1>7. \A name \in Local : <<t, name>> \notin DOMAIN heap'.ref
  BY <1>3, <1>6 DEF IInv, Locals, Held
<1> HIDE DEF c
<1> QED
  BY <1>2, <1>3, <1>4, <1>5, <1>6, <1>7, ThreadStep

LEMMA PutSameIInv ==
  ASSUME IInv, NEW t \in Thread, PutSame(t)
  PROVE  IInv'
<1> DEFINE slot == <<t, "returnValue">>
<1>1. /\ pc[t] = "put" /\ Return(t) /\ UNCHANGED <<object, vector, steps>>
      /\ heap' = ReleaseUnlessNull(heap, slot)
  BY DEF PutSame, At
<1>2. /\ Balanced(heap)
      /\ \A name \in Local : <<t, name>> \in DOMAIN heap.ref => name = "returnValue"
  BY <1>1, InCall DEF Held
<1>3. /\ Balanced(heap') /\ DOMAIN heap'.ref = DOMAIN heap.ref \ {slot}
      /\ \A x \in Object : heap'.count[x] <= heap.count[x]
  <2> HIDE DEF slot
  <2> QED
    BY <1>1, <1>2, ReleaseUnlessNullBalanced
<1>4. Touched \subseteq {t} \X Local
  BY <1>3 DEF Touched, Local
<1> QED
  BY <1>1, <1>2, <1>3, <1>4, ReturnIInv

LEMMA PutRetainIInv ==
  ASSUME IInv, NEW t \in Thread, PutRetain(t)
  PROVE  IInv'
<1> DEFINE slot == <<t, "target">>
           o == Source(t)
<1>1. /\ pc[t] = "put" /\ UNCHANGED <<object, vector, call, steps>>
      /\ pc' = [pc EXCEPT ![t] = "release"] /\ "release" \in Place
      /\ heap' = IF o = NULL THEN heap ELSE Retain(heap, slot, o)
  BY DEF PutRetain, At, Place
<1>2. /\ Balanced(heap) /\ call[t] \in Call /\ call[t].pointer \in Pointer
      /\ steps' \in 0 .. MaxSteps
      /\ \A name \in Local : <<t, name>> \in DOMAIN heap.ref => name = "returnValue"
  BY <1>1, InCall DEF Held
<1>3. /\ Balanced(heap') /\ DOMAIN heap.ref \subseteq DOMAIN heap'.ref
      /\ DOMAIN heap'.ref \subseteq DOMAIN heap.ref \cup {slot}
      /\ \A x \in Object : heap'.count[x] > 0 => heap.count[x] > 0
  <2>1. CASE o = NULL
    BY <1>1, <1>2, <2>1
  <2>2. CASE o # NULL
    <3>1. o \in Object /\ heap.count[o] > 0
      BY <1>2, <2>2, CountedIfHeld DEF Source, Target
    <3>2. slot \notin DOMAIN heap.ref
      BY <1>2 DEF Local
    <3> HIDE DEF slot, o
    <3>3. /\ Balanced(heap') /\ DOMAIN heap'.ref = DOMAIN heap.ref \cup {slot}
          /\ \A x \in Object : heap'.count[x] = IF x = o THEN heap.count[x] + 1 ELSE heap.count[x]
      BY <1>1, <1>2, <2>2, <3>1, <3>2, RetainBalanced
    <3> QED
      BY <3>1, <3>3
  <2> QED
    BY <2>1, <2>2
<1>4. ObjectsOK' /\ Complete'
  BY <1>1, <1>3, ObjectsKept
<1>5. /\ Touched \subseteq {t} \X Local
      /\ \A name \in Local : <<t, name>> \in DOMAIN heap'.ref => name \in Held("release")
  BY <1>2, <1>3 DEF Touched, Local, Held
<1>6. call' = [call EXCEPT ![t] = call[t]]
  BY <1>1 DEF IInv, TypeOK
<1> QED
  BY <1>1, <1>2, <1>3, <1>4, <1>5, <1>6, ThreadStep

LEMMA PutReleaseIInv ==
  ASSUME IInv, NEW t \in Thread, PutRelease(t)
  PROVE  IInv'
<1> DEFINE slot == <<call[t].pointer, "_target">>
<1>1. /\ pc[t] = "release" /\ UNCHANGED <<object, vector, call, steps>>
      /\ pc' = [pc EXCEPT ![t] = "store"] /\ "store" \in Place
      /\ heap' = ReleaseUnlessNull(heap, slot)
  BY DEF PutRelease, At, Place
<1>2. /\ Balanced(heap) /\ call[t] \in Call /\ call[t].pointer \in Pointer
      /\ steps' \in 0 .. MaxSteps
      /\ \A name \in Local : <<t, name>> \in DOMAIN heap.ref => name \in Held("release")
  BY <1>1, InCall
<1>3. /\ Balanced(heap') /\ DOMAIN heap'.ref = DOMAIN heap.ref \ {slot}
      /\ \A x \in Object : heap'.count[x] <= heap.count[x]
  <2> HIDE DEF slot
  <2> QED
    BY <1>1, <1>2, ReleaseUnlessNullBalanced
<1>4. \A x \in Object : heap'.count[x] > 0 => heap.count[x] > 0
  BY <1>2, <1>3, CountsAreNatural
<1>5. ObjectsOK' /\ Complete'
  <2>1. \A s \in OfObjects : s # slot
    BY <1>2, OwnersApart DEF OfObjects
  <2> QED
    BY <1>1, <1>3, <1>4, <2>1, ObjectsKept
<1>6. /\ Touched \subseteq ({call[t].pointer} \cap Pointer) \X {"_target"}
      /\ \A name \in Local : <<t, name>> \in DOMAIN heap'.ref => name \in Held("store")
      /\ slot \notin DOMAIN heap'.ref
  BY <1>2, <1>3 DEF Touched, Held
<1>7. call' = [call EXCEPT ![t] = call[t]]
  BY <1>1 DEF IInv, TypeOK
<1> QED
  BY <1>1, <1>2, <1>3, <1>5, <1>6, <1>7, ThreadStep

LEMMA PutStoreIInv ==
  ASSUME IInv, NEW t \in Thread, PutStore(t)
  PROVE  IInv'
<1> DEFINE from == <<t, "target">>
           to == <<call[t].pointer, "_target">>
           result == <<t, "returnValue">>
           h == IF from \notin DOMAIN heap.ref THEN heap ELSE Move(heap, from, to)
<1>1. /\ pc[t] = "store" /\ Return(t) /\ UNCHANGED <<object, vector, steps>>
      /\ heap' = ReleaseUnlessNull(h, result)
  BY DEF PutStore, At
<1>2. /\ Balanced(heap) /\ call[t].pointer \in Pointer /\ to \notin DOMAIN heap.ref
      /\ \A name \in Local :
           <<t, name>> \in DOMAIN heap.ref => name = "returnValue" \/ name = "target"
  <2>1. to \notin DOMAIN heap.ref
    BY <1>1 DEF IInv, CallsOK
  <2> QED
    BY <1>1, <2>1, InCall DEF Held
<1>3. /\ Balanced(h) /\ h.count = heap.count
      /\ DOMAIN h.ref \ {to} = DOMAIN heap.ref \ {from}
  <2>1. CASE from \notin DOMAIN heap.ref
    BY <1>2, <2>1
  <2>2. CASE from \in DOMAIN heap.ref
    <3>1. h = Move(heap, from, to)
      BY <2>2
    <3>2. to \notin DOMAIN heap.ref
      BY <1>2
    <3> HIDE DEF from, to, h
    <3>3. /\ Balanced(h) /\ h.count = heap.count
          /\ DOMAIN h.ref = (DOMAIN heap.ref \ {from}) \cup {to}
      BY <1>2, <2>2, <3>1, <3>2, MoveBalanced
    <3> QED
      BY <3>2, <3>3
  <2> QED
    BY <2>1, <2>2
<1>4. /\ Balanced(heap') /\ DOMAIN heap'.ref = DOMAIN h.ref \ {result}
      /\ \A x \in Object : heap'.count[x] <= heap.count[x]
  <2> HIDE DEF result, h
  <2> QED
    BY <1>1, <1>3, ReleaseUnlessNullBalanced
<1>5. /\ from \in {t} \X Local /\ result \in {t} \X Local
      /\ \A name \in Local : <<t, name>> # to
  BY <1>2, OwnersApart DEF Local
<1>6. Touched \subseteq ({t} \X Local) \cup {to}
  <2> HIDE DEF from, to, result, h
  <2> QED
    BY <1>3, <1>4, <1>5 DEF Touched
<1>7. \A name \in Local : <<t, name>> \notin DOMAIN heap'.ref
  BY <1>2, <1>3, <1>4, <1>5
<1> HIDE DEF h
<1> QED
  BY <1>1, <1>4, <1>6, <1>7, ReturnIInv

(***************************************************************************)
(* toNSData's callback.                                                    *)
(***************************************************************************)

(* What is to be passed of a chunk is passed in one piece: all of it, or   *)
(* the part of it that its View is of.                                     *)
LEMMA PassedPlain ==
  ASSUME IInv, ChunksRead, NEW t \in Thread, pc[t] = "deliver"
  PROVE  LET item == ItemOf(call[t])
             chunk == item.chunks[call[t].chunk]
         IN  /\ ~Skipped(t) /\ ~PassesAgain(t)
             /\ <<t, "copy">> \in DOMAIN heap.ref /\ CreatedBytes(t) \in Seq(Nat)
             /\ CreatedBytes(t) = IF item.view
                                    THEN SubSeq(chunk, item.offset + 1, item.offset + item.length)
                                    ELSE chunk
             /\ Counted(t) \in Call /\ (~item.view => Counted(t).toSkip = 0)
             /\ Counted(t).vector = call[t].vector /\ Counted(t).pointer = call[t].pointer
             /\ Counted(t).item = call[t].item /\ Counted(t).chunk = call[t].chunk
             /\ Counted(t).lost = call[t].lost
<1> DEFINE item == ItemOf(call[t])
           chunk == item.chunks[call[t].chunk]
<1>1. /\ <<t, "copy">> \in DOMAIN heap.ref /\ More(t) /\ Balanced(heap)
      /\ call[t] \in Call /\ Iterating(call[t])
  BY InCall DEF IInv, CallsOK
<1>2. /\ item \in Item /\ Plain(item) /\ call[t].chunk \in DOMAIN item.chunks
      /\ call[t].toSkip = item.offset /\ (item.view => call[t].toPass = item.length)
  BY <1>1, ItemRead DEF Iterating, More
<1>3. ChunkBytes(t) = chunk
  BY <1>1 DEF ChunkBytes, ChunksRead, ChunkRead, Ref, Target
<1>4. /\ chunk \in Seq(Nat) /\ Len(chunk) \in Nat
      /\ item.offset \in Nat /\ item.length \in Nat /\ call[t].toPass \in Int
  <2>1. item.chunks \in Seq(Seq(Nat)) /\ item.offset \in Nat /\ item.length \in Nat
    BY <1>2 DEF Item
  <2>2. chunk \in Seq(Nat)
    BY <1>2, <2>1
  <2> QED
    BY <1>1, <2>1, <2>2 DEF Call
<1>5. item.view => chunk = item.chunks[1] /\ InOneChunk(item)
  <2>1. item.chunks \in Seq(Seq(Nat))
    BY <1>2 DEF Item
  <2> QED
    BY <1>2, <2>1 DEF Plain, InOneChunk
<1>6. Remaining(t) = Len(chunk) - item.offset
  BY <1>2, <1>3 DEF Remaining
<1> HIDE DEF item, chunk
<1>7. /\ ~Skipped(t) /\ ~PassesAgain(t) /\ Passed(t) \in Nat
      /\ Passed(t) = IF item.view THEN item.length ELSE Len(chunk)
  <2>1. CASE item.view
    <3>1. item.length > 0 /\ item.offset + item.length <= Len(chunk)
      BY <1>5, <2>1 DEF InOneChunk
    <3>2. call[t].toPass = item.length /\ item.length <= Len(chunk) - item.offset
      BY <1>2, <1>4, <2>1, <3>1
    <3>3. ~Skipped(t) /\ ~PassesAgain(t)
      BY <1>4, <1>6, <3>1, <3>2 DEF Skipped, PassesAgain
    <3>4. Passed(t) = item.length
      <4>1. Passed(t) = IF call[t].toPass < Remaining(t) THEN call[t].toPass ELSE Remaining(t)
        BY <2>1 DEF Passed, item
      <4>2. call[t].toPass = item.length /\ item.length <= Remaining(t) /\ Remaining(t) \in Int
        BY <1>4, <1>6, <3>2
      <4> QED
        BY <1>4, <4>1, <4>2
    <3> QED
      BY <1>4, <2>1, <3>3, <3>4
  <2>2. CASE ~item.view
    <3>1. item.offset = 0
      BY <1>2, <2>2 DEF Plain
    <3>2. ~Skipped(t) /\ ~PassesAgain(t) /\ Passed(t) = Remaining(t)
      BY <2>2 DEF Skipped, PassesAgain, Passed, item
    <3> QED
      BY <1>4, <1>6, <2>2, <3>1, <3>2
  <2> QED
    BY <2>1, <2>2
<1>8. /\ CreatedBytes(t) \in Seq(Nat)
      /\ CreatedBytes(t) = IF item.view
                             THEN SubSeq(chunk, item.offset + 1, item.offset + item.length)
                             ELSE chunk
  <2>1. CreatedBytes(t) = SubSeq(chunk, item.offset + 1, item.offset + Passed(t))
    BY <1>2, <1>3 DEF CreatedBytes
  <2>2. CASE item.view
    <3>1. item.offset + item.length <= Len(chunk)
      BY <1>5, <2>2 DEF InOneChunk
    <3>2. SubSeq(chunk, item.offset + 1, item.offset + item.length) \in Seq(Nat)
      <4>1. \A i \in item.offset + 1 .. item.offset + item.length : chunk[i] \in Nat
        BY <1>4, <3>1
      <4>2. item.offset + 1 \in Int /\ item.offset + item.length \in Int
        BY <1>4
      <4> QED
        BY <4>1, <4>2, SubSeqProperties
    <3> QED
      BY <1>7, <2>1, <2>2, <3>2
  <2>3. CASE ~item.view
    <3>1. item.offset = 0
      BY <1>2, <2>3 DEF Plain
    <3>2. SubSeq(chunk, 1, Len(chunk)) = chunk
      BY <1>4
    <3>3. CreatedBytes(t) = SubSeq(chunk, 1, Len(chunk))
      BY <1>4, <1>7, <2>1, <2>3, <3>1
    <3> QED
      BY <1>4, <2>3, <3>2, <3>3
  <2> QED
    BY <2>2, <2>3
<1>9. /\ Counted(t) \in Call /\ Counted(t).toSkip = 0
      /\ Counted(t).vector = call[t].vector /\ Counted(t).pointer = call[t].pointer
      /\ Counted(t).item = call[t].item /\ Counted(t).chunk = call[t].chunk
      /\ Counted(t).lost = call[t].lost
  <2>1. call[t].toPass - Passed(t) \in Int
    BY <1>4, <1>7
  <2>2. Counted(t) = [call[t] EXCEPT !.toSkip = 0, !.toPass = call[t].toPass - Passed(t)]
    BY <1>7 DEF Counted
  <2>3. ASSUME NEW n \in Int
        PROVE  LET c == [call[t] EXCEPT !.toSkip = 0, !.toPass = n]
               IN  /\ c \in Call /\ c.toSkip = 0
                   /\ c.vector = call[t].vector /\ c.pointer = call[t].pointer
                   /\ c.item = call[t].item /\ c.chunk = call[t].chunk
                   /\ c.lost = call[t].lost
    BY <1>1 DEF Call
  <2> QED
    BY <2>1, <2>2, <2>3
<1> QED
  BY <1>1, <1>7, <1>8, <1>9 DEF item, chunk

(* dispatch_data_create() takes the chunk over.                            *)
LEMMA CreatedBalanced ==
  ASSUME IInv, ChunksRead, NEW t \in Thread, pc[t] = "deliver", NEW d \in Fresh(heap, t)
  PROVE  /\ d \in Object /\ heap.count[d] = 0
         /\ Balanced(Created(heap, t, d))
         /\ DOMAIN Created(heap, t, d).ref =
              (DOMAIN heap.ref \ {<<t, "copy">>}) \cup {<<t, "localData">>, <<d, "left">>}
         /\ \A x \in Object : Created(heap, t, d).count[x] =
              IF x = d THEN heap.count[x] + 1 ELSE heap.count[x]
<1> DEFINE copy == <<t, "copy">>
           local == <<t, "localData">>
           left == <<d, "left">>
           h == Retain(heap, local, d)
<1>1. Balanced(heap) /\ d \in Object /\ heap.count[d] = 0 /\ left \notin DOMAIN heap.ref
  BY FreshIsUnused DEF IInv
<1>2. copy \in DOMAIN heap.ref /\ Created(heap, t, d) = Move(h, copy, left)
  BY PassedPlain DEF Created
<1>3. local \notin DOMAIN heap.ref /\ local # copy /\ local # left
  <2>1. local \notin DOMAIN heap.ref
    BY InCall DEF Held, Local
  <2> QED
    BY <1>2, <2>1, <1>1, OwnersApart
<1>4. /\ Balanced(h) /\ DOMAIN h.ref = DOMAIN heap.ref \cup {local}
      /\ \A x \in Object : h.count[x] = IF x = d THEN heap.count[x] + 1 ELSE heap.count[x]
  <2> HIDE DEF local
  <2> QED
    BY <1>1, <1>3, RetainBalanced
<1> HIDE DEF copy, local, left, h
<1>5. copy \in DOMAIN h.ref /\ left \notin DOMAIN h.ref
  BY <1>1, <1>2, <1>3, <1>4
<1>6. /\ Balanced(Move(h, copy, left))
      /\ DOMAIN Move(h, copy, left).ref = (DOMAIN h.ref \ {copy}) \cup {left}
      /\ Move(h, copy, left).count = h.count
  BY <1>4, <1>5, MoveBalanced
<1>7. DOMAIN Move(h, copy, left).ref = (DOMAIN heap.ref \ {copy}) \cup {local, left}
  BY <1>3, <1>4, <1>6
<1>8. /\ d \in Object /\ heap.count[d] = 0
      /\ Balanced(Created(heap, t, d))
      /\ DOMAIN Created(heap, t, d).ref = (DOMAIN heap.ref \ {copy}) \cup {local, left}
      /\ \A x \in Object : Created(heap, t, d).count[x] =
           IF x = d THEN heap.count[x] + 1 ELSE heap.count[x]
  BY <1>1, <1>2, <1>4, <1>6, <1>7
<1> QED
  BY <1>8 DEF copy, local, left

(* dispatch_data_create_concat(), and both operands released: here data    *)
(* and local are the operands' slots, target the result's.                 *)
Concat(h, k, target, left, right, data, local) ==
  Move(Release(Release(Retain(Retain(Retain(h, target, k), left, h.ref[data]),
                              right, h.ref[local]), data), local),
       target, data)
LEMMA ConcatenatedBalanced ==
  ASSUME NEW h, NEW k, NEW target, NEW left, NEW right, NEW data, NEW local,
         Balanced(h), k \in Object,
         target \notin DOMAIN h.ref, left \notin DOMAIN h.ref, right \notin DOMAIN h.ref,
         target # left, target # right, left # right,
         data \in DOMAIN h.ref, local \in DOMAIN h.ref, data # local
  PROVE  LET g == Concat(h, k, target, left, right, data, local)
         IN  /\ Balanced(g)
             /\ DOMAIN g.ref = (DOMAIN h.ref \ {local}) \cup {left, right}
             /\ \A x \in Object : g.count[x] > 0 => h.count[x] > 0 \/ x = k
<1> DEFINE g == Concat(h, k, target, left, right, data, local)
           a == h.ref[data]
           b == h.ref[local]
           h1 == Retain(h, target, k)
           h2 == Retain(h1, left, a)
           h3 == Retain(h2, right, b)
           h4 == Release(h3, data)
           h5 == Release(h4, local)
<1>0. g = Move(h5, target, data)
  BY DEF Concat
<1>1. a \in Object /\ b \in Object /\ h.count[a] > 0 /\ h.count[b] > 0
  BY CountedIfHeld
<1>2. /\ Balanced(h1) /\ DOMAIN h1.ref = DOMAIN h.ref \cup {target}
      /\ \A x \in Object : h1.count[x] = IF x = k THEN h.count[x] + 1 ELSE h.count[x]
  BY RetainBalanced
<1> HIDE DEF a, b, h1
<1>3. /\ Balanced(h2) /\ DOMAIN h2.ref = DOMAIN h1.ref \cup {left}
      /\ \A x \in Object : h2.count[x] = IF x = a THEN h1.count[x] + 1 ELSE h1.count[x]
  BY <1>1, <1>2, RetainBalanced
<1> HIDE DEF h2
<1>4. /\ Balanced(h3) /\ DOMAIN h3.ref = DOMAIN h2.ref \cup {right}
      /\ \A x \in Object : h3.count[x] = IF x = b THEN h2.count[x] + 1 ELSE h2.count[x]
  BY <1>1, <1>2, <1>3, RetainBalanced
<1> HIDE DEF h3
<1>5. /\ Balanced(h4) /\ DOMAIN h4.ref = DOMAIN h3.ref \ {data}
      /\ \A x \in Object : h4.count[x] <= h3.count[x]
  BY <1>2, <1>3, <1>4, ReleaseBalanced
<1> HIDE DEF h4
<1>6. /\ Balanced(h5) /\ DOMAIN h5.ref = DOMAIN h4.ref \ {local}
      /\ \A x \in Object : h5.count[x] <= h4.count[x]
  <2>1. local \in DOMAIN h4.ref
    BY <1>2, <1>3, <1>4, <1>5
  <2> QED
    BY <1>5, <2>1, ReleaseBalanced
<1> HIDE DEF h5
<1>7. target \in DOMAIN h5.ref /\ data \notin DOMAIN h5.ref
  BY <1>2, <1>3, <1>4, <1>5, <1>6
<1>8. /\ Balanced(g) /\ DOMAIN g.ref = (DOMAIN h5.ref \ {target}) \cup {data}
      /\ g.count = h5.count
  BY <1>0, <1>6, <1>7, MoveBalanced
<1> HIDE DEF g
<1>9. DOMAIN g.ref = (DOMAIN h.ref \ {local}) \cup {left, right}
  BY <1>2, <1>3, <1>4, <1>5, <1>6, <1>8
<1>10. ASSUME NEW x \in Object, g.count[x] > 0 PROVE h.count[x] > 0 \/ x = k
  <2>1. g.count[x] \in Nat /\ h4.count[x] \in Nat /\ h3.count[x] \in Nat /\ h.count[x] \in Nat
    BY <1>4, <1>5, <1>8, CountsAreNatural
  <2>2. h3.count[x] > 0
    BY <1>5, <1>6, <1>8, <1>10, <2>1
  <2>3. CASE x # a /\ x # b /\ x # k
    BY <1>2, <1>3, <1>4, <2>2, <2>3
  <2> QED
    BY <1>1, <2>3
<1> QED
  BY <1>8, <1>9, <1>10 DEF g

LEMMA DeliverIInv ==
  ASSUME IInv, ChunksRead, NEW t \in Thread, Deliver(t)
  PROVE  IInv'
<1> DEFINE data == <<t, "data">>
           local == <<t, "localData">>
           target == <<t, "target">>
           copy == <<t, "copy">>
           c == AtNextChunk(Counted(t))
<1>1. /\ pc[t] = "deliver" /\ UNCHANGED <<vector, steps>>
      /\ IF Skipped(t) THEN Skip(t)
         ELSE IF Ref(t, "data") = NULL THEN GatherFirst(t) ELSE Gather(t)
      /\ IF ~Skipped(t) /\ PassesAgain(t)
           THEN /\ call' = [call EXCEPT ![t] = [Counted(t) EXCEPT !.again = TRUE]]
                /\ UNCHANGED pc
           ELSE /\ call' = [call EXCEPT ![t] = AtNextChunk(Counted(t))]
                /\ pc' = [pc EXCEPT ![t] = "iterate"]
  BY DEF Deliver, At
<1>2. /\ Balanced(heap) /\ call[t].pointer \in Pointer /\ call[t].vector \in Vector
      /\ steps' \in 0 .. MaxSteps
      /\ \A name \in Local : <<t, name>> \in DOMAIN heap.ref => name \in {"copy", "data"}
  BY <1>1, InCall DEF Held
<1>3. /\ ~Skipped(t) /\ ~PassesAgain(t) /\ copy \in DOMAIN heap.ref /\ CreatedBytes(t) \in Seq(Nat)
      /\ Counted(t) \in Call /\ (~ItemOf(call[t]).view => Counted(t).toSkip = 0)
      /\ Counted(t).vector = call[t].vector /\ Counted(t).pointer = call[t].pointer
      /\ Counted(t).item = call[t].item /\ Counted(t).chunk = call[t].chunk
  BY <1>1, PassedPlain
<1>4. c \in Call /\ Iterating(c) /\ c.vector = call[t].vector /\ c.pointer = call[t].pointer
  <2>1. More(t) /\ Iterating(call[t])
    BY <1>1 DEF IInv, CallsOK
  <2>2. ItemOf(Counted(t)) = ItemOf(call[t])
    BY <1>3 DEF ItemOf
  <2>3. /\ Counted(t).item >= 1 /\ Counted(t).item <= Len(vector[Counted(t).vector])
        /\ Counted(t).chunk \in DOMAIN ItemOf(Counted(t)).chunks
    BY <1>3, <2>1, <2>2 DEF More, Iterating
  <2> QED
    BY <1>2, <1>3, <2>2, <2>3, AtNextChunkOK
<1>5. /\ pc' = [pc EXCEPT ![t] = "iterate"] /\ call' = [call EXCEPT ![t] = c]
      /\ "iterate" \in Place
  BY <1>1, <1>3 DEF Place
<1>6. /\ {data, local, target, copy} \subseteq {t} \X Local
      /\ \A o \in Object, f \in Field : <<o, f>> \in OfObjects
      /\ \A name \in Local, o \in Object : \A f : <<t, name>> # <<o, f>>
      /\ {"left", "right"} \subseteq Field
      /\ data # local /\ local # target /\ data # target /\ data # copy
      /\ local # copy /\ target # copy
  BY OwnersApart DEF Local, OfObjects, Field
<1>7. ASSUME NEW d \in Object, DOMAIN heap'.ref \subseteq
               (DOMAIN heap.ref \ {copy}) \cup {data} \cup OfObjects,
             DOMAIN heap.ref \ {copy} \subseteq DOMAIN heap'.ref,
             Balanced(heap'), ObjectsOK', Complete'
      PROVE  IInv'
  <2>1. Touched \subseteq OfObjects \cup ({t} \X Local)
    BY <1>6, <1>7 DEF Touched
  <2>2. \A name \in Local : <<t, name>> \in DOMAIN heap'.ref => name \in Held("iterate")
    BY <1>2, <1>7, OwnersApart DEF OfObjects, Held
  <2> HIDE DEF c
  <2> QED
    BY <1>1, <1>2, <1>4, <1>5, <1>7, <2>1, <2>2, ThreadStep
<1>8. CASE Ref(t, "data") = NULL
  <2>1. PICK d \in Fresh(heap, t) :
          /\ heap' = Move(Created(heap, t, d), local, data)
          /\ object' = [object EXCEPT ![d] = Memory("chunkData", {"left"}, CreatedBytes(t))]
    BY <1>1, <1>3, <1>8 DEF GatherFirst
  <2> DEFINE h == Created(heap, t, d)
             left == <<d, "left">>
  <2>2. /\ d \in Object /\ heap.count[d] = 0 /\ Balanced(h)
        /\ DOMAIN h.ref = (DOMAIN heap.ref \ {copy}) \cup {local, left}
        /\ \A x \in Object : h.count[x] = IF x = d THEN heap.count[x] + 1 ELSE heap.count[x]
    BY <1>1, <2>1, CreatedBalanced
  <2>3. data \notin DOMAIN heap.ref
    <3>1. data \in DOMAIN heap.ref => Ref(t, "data") \in Object
      BY <1>2 DEF Balanced, Ref, Target
    <3> QED
      BY <1>8, <3>1, OwnersApart
  <2>4. data # left /\ local # left /\ left \in OfObjects /\ local \notin DOMAIN heap.ref
    BY <1>2, <1>6, <2>2, OwnersApart DEF Local
  <2>5. /\ Balanced(heap') /\ DOMAIN heap'.ref = (DOMAIN heap.ref \ {copy}) \cup {left, data}
        /\ heap'.count = h.count
    <3> HIDE DEF data, local, left, h, copy
    <3>1. local \in DOMAIN h.ref /\ data \notin DOMAIN h.ref /\ heap' = Move(h, local, data)
      BY <1>6, <2>1, <2>2, <2>3, <2>4 DEF h
    <3>2. Balanced(h)
      BY <2>2
    <3>3. /\ Balanced(Move(h, local, data)) /\ Move(h, local, data).count = h.count
          /\ DOMAIN Move(h, local, data).ref = (DOMAIN h.ref \ {local}) \cup {data}
      BY <3>1, <3>2, MoveBalanced
    <3>4. /\ Balanced(heap') /\ DOMAIN heap'.ref = (DOMAIN h.ref \ {local}) \cup {data}
          /\ heap'.count = h.count
      BY <3>1, <3>3
    <3> QED
      BY <1>6, <2>2, <2>4, <3>4
  <2>6. /\ ObjectsOK'
        /\ \A x \in Object : object'[x].holds = IF x = d THEN {"left"} ELSE object[x].holds
    <3>1. /\ Memory("chunkData", {"left"}, CreatedBytes(t))
               \in [kind : Kind, holds : SUBSET Field, bytes : Seq(Nat)]
          /\ Memory("chunkData", {"left"}, CreatedBytes(t)).holds = {"left"}
      BY <1>3 DEF Memory, Kind, Field
    <3> QED
      BY <2>1, <2>2, <3>1 DEF IInv, TypeOK, ObjectsOK
  <2>7. Complete'
    <3>1. \A x \in Object : heap'.count[x] > 0 =>
            \/ heap.count[x] > 0 /\ object'[x].holds = object[x].holds
            \/ \A f \in object'[x].holds : <<x, f>> \in DOMAIN heap'.ref
      BY <2>2, <2>5, <2>6
    <3>2. \A s \in OfObjects : s \in DOMAIN heap.ref => s \in DOMAIN heap'.ref
      BY <2>5, OwnersApart DEF OfObjects
    <3> QED
      BY <3>1, <3>2, CompleteStep
  <2>8. /\ DOMAIN heap'.ref \subseteq (DOMAIN heap.ref \ {copy}) \cup {data} \cup OfObjects
        /\ DOMAIN heap.ref \ {copy} \subseteq DOMAIN heap'.ref
    BY <2>4, <2>5
  <2> QED
    BY <1>7, <2>2, <2>5, <2>6, <2>7, <2>8
<1>9. CASE Ref(t, "data") # NULL
  <2> DEFINE bytes == object[Ref(t, "data")].bytes \o CreatedBytes(t)
  <2>1. PICK d \in Fresh(heap, t) : \E k \in Fresh(Created(heap, t, d), t) :
          /\ heap' = Gathered(Created(heap, t, d), t, k)
          /\ object' = [object EXCEPT
               ![d] = Memory("chunkData", {"left"}, CreatedBytes(t)),
               ![k] = Memory("data", {"left", "right"}, bytes)]
    BY <1>1, <1>3, <1>9 DEF Gather
  <2> DEFINE h == Created(heap, t, d)
  <2>2. PICK k \in Fresh(h, t) :
          /\ heap' = Gathered(h, t, k)
          /\ object' = [object EXCEPT
               ![d] = Memory("chunkData", {"left"}, CreatedBytes(t)),
               ![k] = Memory("data", {"left", "right"}, bytes)]
    BY <2>1
  <2> DEFINE dLeft == <<d, "left">>
             left == <<k, "left">>
             right == <<k, "right">>
  <2>3. /\ d \in Object /\ heap.count[d] = 0 /\ Balanced(h)
        /\ DOMAIN h.ref = (DOMAIN heap.ref \ {copy}) \cup {local, dLeft}
        /\ \A x \in Object : h.count[x] = IF x = d THEN heap.count[x] + 1 ELSE heap.count[x]
    BY <1>1, <2>1, CreatedBalanced
  <2>4. /\ k \in Object /\ h.count[k] = 0 /\ left \notin DOMAIN h.ref /\ right \notin DOMAIN h.ref
    BY <2>2, <2>3, FreshIsUnused
  <2>5. /\ data \in DOMAIN heap.ref /\ Ref(t, "data") \in Object
    <3>1. data \in DOMAIN heap.ref
      BY <1>9 DEF Ref, Target
    <3> QED
      BY <1>2, <3>1 DEF Ref, Target, Balanced
  <2>6. /\ dLeft \in OfObjects /\ left \in OfObjects /\ right \in OfObjects /\ left # right
        /\ target # left /\ target # right /\ target # dLeft /\ data # dLeft /\ local # dLeft
        /\ local \notin DOMAIN heap.ref /\ target \notin DOMAIN heap.ref
    BY <1>2, <1>6, <2>3, <2>4, OwnersApart DEF Local
  <2>7. /\ Balanced(heap') /\ DOMAIN heap'.ref = (DOMAIN h.ref \ {local}) \cup {left, right}
        /\ \A x \in Object : heap'.count[x] > 0 => h.count[x] > 0 \/ x = k
    <3>1. heap' = Concat(h, k, target, left, right, data, local)
      BY <2>2 DEF Gathered, Concatenated, Concat
    <3> HIDE DEF data, local, target, copy, left, right, dLeft, h
    <3>2. data \in DOMAIN h.ref /\ local \in DOMAIN h.ref /\ target \notin DOMAIN h.ref
      BY <1>6, <2>3, <2>5, <2>6
    <3>3. /\ Balanced(h) /\ k \in Object /\ left \notin DOMAIN h.ref /\ right \notin DOMAIN h.ref
          /\ target # left /\ target # right /\ left # right /\ data # local
      BY <1>6, <2>3, <2>4, <2>6
    <3> DEFINE g == Concat(h, k, target, left, right, data, local)
    <3>4. /\ Balanced(g) /\ DOMAIN g.ref = (DOMAIN h.ref \ {local}) \cup {left, right}
          /\ \A x \in Object : g.count[x] > 0 => h.count[x] > 0 \/ x = k
      BY <3>2, <3>3, ConcatenatedBalanced
    <3> QED
      BY <3>1, <3>4
  <2>8. DOMAIN heap'.ref = (DOMAIN heap.ref \ {copy}) \cup {dLeft, left, right}
    <3> HIDE DEF data, local, target, copy, left, right, dLeft, h
    <3> QED
      BY <1>6, <2>3, <2>6, <2>7
  <2>9. d # k
    BY <2>3, <2>4
  <2>10. /\ ObjectsOK'
         /\ \A x \in Object : object'[x].holds =
              IF x = k THEN {"left", "right"} ELSE IF x = d THEN {"left"} ELSE object[x].holds
    <3>1. bytes \in Seq(Nat)
      <4>1. object[Ref(t, "data")].bytes \in Seq(Nat)
        BY <2>5 DEF IInv, TypeOK
      <4> QED
        BY <1>3, <4>1
    <3> HIDE DEF bytes
    <3>2. /\ Memory("chunkData", {"left"}, CreatedBytes(t))
               \in [kind : Kind, holds : SUBSET Field, bytes : Seq(Nat)]
          /\ Memory("chunkData", {"left"}, CreatedBytes(t)).holds = {"left"}
          /\ Memory("data", {"left", "right"}, bytes)
               \in [kind : Kind, holds : SUBSET Field, bytes : Seq(Nat)]
          /\ Memory("data", {"left", "right"}, bytes).holds = {"left", "right"}
      BY <1>3, <3>1 DEF Memory, Kind, Field
    <3> QED
      BY <2>2, <2>3, <2>4, <2>9, <3>2 DEF IInv, TypeOK, ObjectsOK
  <2>11. Complete'
    <3>1. \A x \in Object : heap'.count[x] > 0 =>
            \/ heap.count[x] > 0 /\ object'[x].holds = object[x].holds
            \/ \A f \in object'[x].holds : <<x, f>> \in DOMAIN heap'.ref
      BY <2>3, <2>7, <2>8, <2>10
    <3>2. \A s \in OfObjects : s \in DOMAIN heap.ref => s \in DOMAIN heap'.ref
      BY <2>8, OwnersApart DEF OfObjects
    <3> QED
      BY <3>1, <3>2, CompleteStep
  <2>12. /\ DOMAIN heap'.ref \subseteq (DOMAIN heap.ref \ {copy}) \cup {data} \cup OfObjects
         /\ DOMAIN heap.ref \ {copy} \subseteq DOMAIN heap'.ref
    BY <2>6, <2>8
  <2> QED
    BY <1>7, <2>3, <2>7, <2>10, <2>11, <2>12
<1> QED
  BY <1>8, <1>9

(***************************************************************************)
(* Every step preserves the invariant.                                     *)
(***************************************************************************)
LEMMA NextIInv == ViewsOfOneChunk /\ IInv /\ ChunksRead /\ [Next]_vars => IInv'
<1> SUFFICES ASSUME ViewsOfOneChunk, IInv, ChunksRead, [Next]_vars PROVE IInv'
  OBVIOUS
<1>1. CASE Vectors
  BY <1>1, AppendItemIInv, AppendSharedIInv, DropItemIInv DEF Vectors
<1>2. CASE Pointers
  <2>1. {"data", "mutableData"} \subseteq Kind
    BY DEF Kind
  <2> QED
    BY <1>2, <2>1, NewDataIInv, SetLengthIInv, DestroyPointerIInv DEF Pointers
<1>3. CASE Calls
  BY <1>3, ToNSDataIInv, AssignIInv, FromNSDataIInv DEF Calls
<1>4. CASE \E t \in Thread : Step(t)
  BY <1>4, CopyBufferedIInv, CopyDirectValueIInv, ReadFileIInv, ReadFailsIInv, DeliverIInv,
     ReturnErrorIInv, ReturnDataIInv, ReturnNoDataIInv,
     PutSameIInv, PutRetainIInv, PutReleaseIInv, PutStoreIInv DEF Step
<1>5. CASE Cleanup
  BY <1>5, FinalizeIInv DEF Cleanup
<1>6. CASE UNCHANGED vars
  BY <1>6, StutterIInv
<1> QED
  BY <1>1, <1>2, <1>3, <1>4, <1>5, <1>6 DEF Next
=============================================================================
