------------------------ MODULE NSDataReclaimProofs ------------------------
(***************************************************************************)
(* In NSDataBridge, reference counting frees all memory in the end: no     *)
(* objects keep each other alive.                                          *)
(***************************************************************************)
EXTENDS NSDataContentsProofs, FlattenProofs

(***************************************************************************)
(* Objects refer to objects of a lower rank only, r being the references   *)
(* of a heap.  There is a highest rank, above which new objects are put.   *)
(***************************************************************************)
Descends(r, rank) ==
  \A s \in OfObjects : s \in DOMAIN r => r[s] \in Object /\ rank[r[s]] < rank[s[1]]

Ranked(r) == \E n \in Nat : \E rank \in [Object -> 0 .. n] : Descends(r, rank)

(* No field of an object refers to d.                                      *)
Unreferenced(r, d) == \A s \in OfObjects : s \in DOMAIN r => r[s] # d

FieldsKept(r, q) == \A s \in OfObjects : s \in DOMAIN q => s \in DOMAIN r /\ q[s] = r[s]

LEMMA RankedKept ==
  ASSUME NEW r, NEW q, Ranked(r), FieldsKept(r, q)
  PROVE  Ranked(q)
BY DEF Ranked, Descends, FieldsKept

LEMMA UnreferencedKept ==
  ASSUME NEW r, NEW q, NEW d, Unreferenced(r, d), FieldsKept(r, q)
  PROVE  Unreferenced(q, d)
BY DEF Unreferenced, FieldsKept

LEMMA FieldsKeptTransitive ==
  ASSUME NEW q, NEW r, NEW w, FieldsKept(q, r), FieldsKept(r, w)
  PROVE  FieldsKept(q, w)
BY DEF FieldsKept

LEMMA SameFields ==
  ASSUME NEW S, S \cap OfObjects = {}, NEW r, NEW q, SameOutside(S, r, q)
  PROVE  FieldsKept(r, q)
BY DEF SameOutside, FieldsKept

LEMMA RetainFields ==
  ASSUME NEW h, NEW s, s \notin OfObjects, NEW o
  PROVE  FieldsKept(h.ref, Retain(h, s, o).ref)
BY RetainSame, SameFields

LEMMA ReleaseFields ==
  ASSUME NEW h, NEW s
  PROVE  FieldsKept(h.ref, Release(h, s).ref)
BY DEF FieldsKept, Release, Clear, Restrict

LEMMA ReleaseUnlessNullFields ==
  ASSUME NEW h, NEW s
  PROVE  FieldsKept(h.ref, ReleaseUnlessNull(h, s).ref)
BY ReleaseFields DEF ReleaseUnlessNull, FieldsKept

LEMMA MoveFields ==
  ASSUME NEW h, IsRecord(h), NEW from, NEW to, from \notin OfObjects, to \notin OfObjects
  PROVE  FieldsKept(h.ref, Move(h, from, to).ref)
<1>1. {from, to} \cap OfObjects = {}
  OBVIOUS
<1>2. SameOutside({from, to}, h.ref, Move(h, from, to).ref)
  BY MoveRefs
<1> QED
  BY <1>1, <1>2, SameFields

(* A field of an object that no other refers to is filled.                 *)
LEMMA RankedFilled ==
  ASSUME NEW r, NEW q, Ranked(r), NEW d \in Object, Unreferenced(r, d),
         NEW field \in Field, NEW s, s = <<d, field>>,
         SameOutside({s}, r, q), NEW x \in Object, x # d, q[s] = x
  PROVE  Ranked(q) /\ \A y : y # x /\ Unreferenced(r, y) => Unreferenced(q, y)
<1>0. PICK n \in Nat : \E rank \in [Object -> 0 .. n] : Descends(r, rank)
  BY DEF Ranked
<1>1. PICK rank \in [Object -> 0 .. n] : Descends(r, rank)
  BY <1>0
<1> DEFINE higher == [rank EXCEPT ![d] = n + 1]
<1>2. n + 1 \in Nat /\ higher \in [Object -> 0 .. n + 1]
  OBVIOUS
<1>3. ASSUME NEW y \in OfObjects, y \in DOMAIN q
      PROVE  q[y] \in Object /\ higher[q[y]] < higher[y[1]]
  <2>1. y[1] \in Object
    BY DEF OfObjects
  <2>2. CASE y = s
    BY <2>2
  <2>3. CASE y # s
    <3>1. y \in DOMAIN r /\ q[y] = r[y]
      BY <1>3, <2>3 DEF SameOutside
    <3>2. r[y] \in Object /\ r[y] # d /\ rank[r[y]] < rank[y[1]]
      BY <1>1, <3>1 DEF Descends, Unreferenced
    <3>3. rank[r[y]] \in 0 .. n /\ rank[y[1]] \in 0 .. n
      BY <2>1, <3>2
    <3> QED
      BY <2>1, <3>1, <3>2, <3>3
  <2> QED
    BY <2>2, <2>3
<1>4. Ranked(q)
  <2> HIDE DEF higher
  <2> QED
    BY <1>2, <1>3 DEF Ranked, Descends
<1> QED
  BY <1>4 DEF Unreferenced, SameOutside

(***************************************************************************)
(* Slots that are not of objects.                                          *)
(***************************************************************************)
LEMMA NotOfObjects ==
  /\ \A t \in Thread : \A name : <<t, name>> \notin OfObjects
  /\ \A v \in Vector : \A i : <<v, i>> \notin OfObjects
  /\ \A p \in Pointer : \A name : <<p, name>> \notin OfObjects
BY OwnersApart DEF OfObjects

(* A new object is not referred to, with or without its first reference.   *)
LEMMA FreshUnreferenced ==
  ASSUME NEW h, Balanced(h), NEW a \in Thread \cup {"any"}, NEW o \in Fresh(h, a)
  PROVE  o \in Object /\ Unreferenced(h.ref, o) /\ \A s \in DOMAIN h.ref : h.ref[s] # o
BY FreshIsUnused DEF Unreferenced

(* A new object o with a field of its own, whose reference is in a slot.   *)
LEMMA NewWithField ==
  ASSUME NEW h, Ranked(h.ref), NEW o \in Object, Unreferenced(h.ref, o),
         NEW slot, slot \notin OfObjects, NEW x \in Object, x # o
  PROVE  Ranked(Retain(Retain(h, slot, o), <<o, "left">>, x).ref)
<1> DEFINE g == Retain(h, slot, o)
           field == <<o, "left">>
<1>1. FieldsKept(h.ref, g.ref)
  BY RetainFields
<1>2. Ranked(g.ref) /\ Unreferenced(g.ref, o)
  <2> HIDE DEF g
  <2> QED
    BY <1>1, RankedKept, UnreferencedKept
<1> HIDE DEF g
<1>3. Retain(g, field, x).ref = Set(g.ref, field, x)
  BY DEF Retain
<1>4. SameOutside({field}, g.ref, Retain(g, field, x).ref)
  BY RetainSame
<1> DEFINE q == Retain(g, field, x).ref
<1>5. q[field] = x /\ "left" \in Field
  <2> HIDE DEF field
  <2> QED
    BY <1>3 DEF Set, Field
<1> HIDE DEF q
<1>6. Ranked(q)
  BY <1>2, <1>4, <1>5, RankedFilled DEF q
<1> QED
  BY <1>6 DEF q, g

(***************************************************************************)
(* Every step keeps objects ranked.                                        *)
(***************************************************************************)
LEMMA FromNSDataRanked ==
  ASSUME IInv, Ranked(heap.ref), NEW v \in Vector, NEW p \in Pointer, FromNSData(v, p)
  PROVE  Ranked(heap'.ref)
<1> DEFINE slot == <<v, 1>>
<1>1. PICK data \in Object : data = Ref(p, "_target") /\ heap.count[data] > 0
  <2>1. <<p, "_target">> \in DOMAIN heap.ref /\ Ref(p, "_target") = heap.ref[<<p, "_target">>]
    BY DEF FromNSData, Ref, Target
  <2> QED
    BY <2>1, CountedIfHeld DEF IInv
<1>2. PICK s \in Fresh(heap, "any") :
        \E copy \in Copies(Retain(heap, slot, s), data) :
          heap' = Retain(Retain(heap, slot, s), <<s, "left">>, copy)
  BY <1>1 DEF FromNSData
<1>3. /\ s \in Object /\ Unreferenced(heap.ref, s) /\ heap.count[s] = 0
      /\ Balanced(heap) /\ slot \notin OfObjects
  BY <1>2, FreshUnreferenced, FreshIsUnused, NotOfObjects DEF IInv
<1> DEFINE h == Retain(heap, slot, s)
<1>4. PICK copy \in Copies(h, data) : heap' = Retain(h, <<s, "left">>, copy)
  BY <1>2
<1>5. copy \in Object /\ copy # s
  <2>1. CASE object[data].kind = "mutableData"
    <3>1. slot \notin DOMAIN heap.ref
      BY DEF FromNSData, IInv, VectorSlots
    <3>2. Balanced(h) /\ h.count[s] = heap.count[s] + 1
      <4> HIDE DEF slot
      <4> QED
        BY <1>3, <3>1, RetainBalanced
    <3>3. copy \in Object /\ h.count[copy] = 0
      <4> HIDE DEF h
      <4> QED
        BY <1>4, <2>1, <3>2, FreshIsUnused DEF Copies
    <3> HIDE DEF h
    <3> QED
      BY <1>3, <3>2, <3>3
  <2>2. CASE object[data].kind # "mutableData"
    <3> HIDE DEF h
    <3> QED
      BY <1>1, <1>3, <1>4, <2>2 DEF Copies
  <2> QED
    BY <2>1, <2>2
<1> HIDE DEF slot
<1>6. Ranked(Retain(Retain(heap, slot, s), <<s, "left">>, copy).ref)
  BY <1>3, <1>5, NewWithField
<1> QED
  BY <1>4, <1>6

LEMMA CopyBufferedRanked ==
  ASSUME IInv, Ranked(heap.ref), NEW t \in Thread, CopyBuffered(t)
  PROVE  Ranked(heap'.ref)
<1> DEFINE storage == Ref(call[t].vector, call[t].item)
           slot == <<t, "copy">>
<1>1. PICK s \in Fresh(heap, t) :
        heap' = Retain(Retain(heap, slot, s), <<s, "left">>, storage)
  BY DEF CopyBuffered
<1>2. storage \in Object /\ heap.count[storage] > 0
  <2>1. /\ call[t].vector \in Vector /\ call[t].item \in DOMAIN vector[call[t].vector]
        /\ vector[call[t].vector][call[t].item].kind = "Buffered"
    BY ItemRead DEF CopyBuffered, At, ItemOf
  <2> QED
    BY <2>1, BufferedSlots
<1>3. /\ s \in Object /\ Unreferenced(heap.ref, s) /\ heap.count[s] = 0
      /\ slot \notin OfObjects
  BY <1>1, FreshUnreferenced, FreshIsUnused, NotOfObjects DEF IInv
<1> HIDE DEF slot, storage
<1>4. storage # s
  BY <1>2, <1>3
<1> QED
  BY <1>1, <1>2, <1>3, <1>4, NewWithField

(* The new chunk data refers to the chunk that has been copied.            *)
LEMMA CreatedRanked ==
  ASSUME IInv, ChunksRead, Ranked(heap.ref), NEW t \in Thread, pc[t] = "deliver",
         NEW d \in Fresh(heap, t)
  PROVE  Ranked(Created(heap, t, d).ref)
<1> DEFINE copy == <<t, "copy">>
           local == <<t, "localData">>
           left == <<d, "left">>
           g == Retain(heap, local, d)
           h == Move(g, copy, left)
           x == heap.ref[copy]
<1>1. Created(heap, t, d) = h /\ copy \in DOMAIN heap.ref
  BY PassedPlain DEF Created
<1>2. /\ d \in Object /\ Unreferenced(heap.ref, d) /\ x # d /\ x \in Object
      /\ copy \notin OfObjects /\ local \notin OfObjects /\ copy # local /\ left # copy
  <2>1. d \in Object /\ Unreferenced(heap.ref, d) /\ x # d /\ Balanced(heap)
    BY <1>1, FreshUnreferenced DEF IInv
  <2> QED
    BY <1>1, <2>1, NotOfObjects, OwnersApart DEF Balanced
<1>3. /\ IsRecord(g) /\ SameOutside({local}, heap.ref, g.ref)
      /\ FieldsKept(heap.ref, g.ref)
  BY <1>2, RetainSame, RetainFields DEF IsRecord, Retain
<1> HIDE DEF copy, local, left, g, h, x
<1>4. g.ref[copy] = x
  BY <1>1, <1>2, <1>3 DEF SameOutside, x
<1>5. /\ SameOutside({copy, left}, g.ref, h.ref) /\ h.ref[left] = x
  BY <1>3, <1>4, MoveRefs DEF h
<1>6. Ranked(g.ref) /\ Unreferenced(g.ref, d)
  BY <1>2, <1>3, RankedKept, UnreferencedKept
<1>7. PICK r : r = [s \in DOMAIN h.ref \cup {copy} |-> IF s = copy THEN g.ref[copy] ELSE h.ref[s]]
  OBVIOUS
<1>8. SameOutside({left}, g.ref, r) /\ r[left] = x
  <2>1. copy \in DOMAIN g.ref
    BY <1>1, <1>2, <1>3 DEF SameOutside
  <2>2. left \in DOMAIN h.ref
    BY <1>3, MoveRefs DEF h
  <2> QED
    BY <1>2, <1>5, <1>7, <2>1, <2>2 DEF SameOutside
<1>9. Ranked(r)
  <2>1. "left" \in Field
    BY DEF Field
  <2> QED
    BY <1>2, <1>6, <1>8, <2>1, RankedFilled DEF left
<1>10. FieldsKept(r, h.ref)
  BY <1>2, <1>7 DEF FieldsKept
<1> QED
  BY <1>1, <1>9, <1>10, RankedKept

(* A concatenation refers to both of its parts.                            *)
LEMMA FillRanked ==
  ASSUME NEW h, Ranked(h.ref), NEW k \in Object, Unreferenced(h.ref, k), NEW field \in Field,
         NEW x \in Object, x # k, NEW s, s = <<k, field>>
  PROVE  Ranked(Retain(h, s, x).ref) /\ Unreferenced(Retain(h, s, x).ref, k)
<1> DEFINE q == Retain(h, s, x).ref
<1>1. SameOutside({s}, h.ref, q) /\ q = Set(h.ref, s, x)
  BY RetainSame DEF Retain
<1> HIDE DEF q
<1>2. q[s] = x
  BY <1>1 DEF Set
<1>3. Ranked(q) /\ Unreferenced(q, k)
  BY <1>1, <1>2, RankedFilled
<1> QED
  BY <1>3 DEF q

LEMMA ConcatRanked ==
  ASSUME NEW h, Ranked(h.ref), NEW k \in Object, Unreferenced(h.ref, k),
         NEW target, NEW data, NEW local,
         target \notin OfObjects, data \notin OfObjects, local \notin OfObjects,
         h.ref[data] \in Object, h.ref[data] # k, h.ref[local] \in Object, h.ref[local] # k
  PROVE  Ranked(Concat(h, k, target, <<k, "left">>, <<k, "right">>, data, local).ref)
<1> DEFINE a == h.ref[data]
           b == h.ref[local]
           left == <<k, "left">>
           right == <<k, "right">>
           h1 == Retain(h, target, k)
           h2 == Retain(h1, left, a)
           h3 == Retain(h2, right, b)
           h4 == Release(h3, data)
           h5 == Release(h4, local)
           g == Move(h5, target, data)
<1>1. "left" \in Field /\ "right" \in Field
  BY DEF Field
<1>2. FieldsKept(h.ref, h1.ref)
  BY RetainFields
<1> HIDE DEF h1, a, b
<1>3. Ranked(h1.ref) /\ Unreferenced(h1.ref, k) /\ a \in Object /\ a # k /\ b \in Object /\ b # k
  BY <1>2, RankedKept, UnreferencedKept DEF a, b
<1>4. Ranked(h2.ref) /\ Unreferenced(h2.ref, k)
  BY <1>1, <1>3, FillRanked
<1> HIDE DEF h2
<1>5. Ranked(h3.ref)
  BY <1>1, <1>3, <1>4, FillRanked
<1> HIDE DEF h3, left, right
<1>6. FieldsKept(h3.ref, h4.ref)
  BY ReleaseFields
<1> HIDE DEF h4
<1>7. FieldsKept(h4.ref, h5.ref) /\ IsRecord(h5)
  BY ReleaseFields DEF IsRecord, Release
<1> HIDE DEF h5
<1>8. FieldsKept(h5.ref, g.ref)
  BY <1>7, MoveFields
<1> HIDE DEF g
<1>9. Ranked(g.ref)
  BY <1>5, <1>6, <1>7, <1>8, RankedKept
<1>10. g = Concat(h, k, target, left, right, data, local)
  BY DEF g, h5, h4, h3, h2, h1, a, b, Concat
<1> QED
  BY <1>9, <1>10 DEF left, right

LEMMA DeliverRanked ==
  ASSUME IInv, ChunksRead, Ranked(heap.ref), NEW t \in Thread, Deliver(t)
  PROVE  Ranked(heap'.ref)
<1> DEFINE data == <<t, "data">>
           local == <<t, "localData">>
           target == <<t, "target">>
           copy == <<t, "copy">>
<1>1. /\ pc[t] = "deliver" /\ Balanced(heap)
      /\ IF Ref(t, "data") = NULL THEN GatherFirst(t) ELSE Gather(t)
  BY PassedPlain DEF Deliver, At, IInv
<1>2. /\ data \notin OfObjects /\ local \notin OfObjects /\ target \notin OfObjects
      /\ data # local /\ data # copy
  BY NotOfObjects
<1>3. CASE Ref(t, "data") = NULL
  <2>1. PICK d \in Fresh(heap, t) : heap' = Move(Created(heap, t, d), local, data)
    BY <1>1, <1>3 DEF GatherFirst
  <2> DEFINE h == Created(heap, t, d)
  <2>2. IsRecord(h) /\ Ranked(h.ref)
    BY <1>1, CreatedRefs, CreatedRanked
  <2> HIDE DEF h, local, data
  <2>3. FieldsKept(h.ref, heap'.ref)
    BY <1>2, <2>1, <2>2, MoveFields DEF h
  <2> QED
    BY <2>2, <2>3, RankedKept
<1>4. CASE Ref(t, "data") # NULL
  <2>1. data \in DOMAIN heap.ref
    BY <1>4 DEF Ref, Target
  <2>2. PICK d \in Fresh(heap, t) : \E k \in Fresh(Created(heap, t, d), t) :
          heap' = Gathered(Created(heap, t, d), t, k)
    BY <1>1, <1>4, <2>1 DEF Gather
  <2> DEFINE h == Created(heap, t, d)
             dLeft == <<d, "left">>
  <2>3. PICK k \in Fresh(h, t) : heap' = Gathered(h, t, k)
    BY <2>2
  <2>4. /\ Balanced(h) /\ Ranked(h.ref) /\ d \in Object
        /\ SameOutside({copy, local, dLeft}, heap.ref, h.ref)
        /\ local \in DOMAIN h.ref
    BY <1>1, <2>2, CreatedBalanced, CreatedRefs, CreatedRanked
  <2>5. data \in DOMAIN h.ref
    <3>1. data # dLeft
      BY <2>4, OwnersApart
    <3> HIDE DEF data, local, copy, dLeft, h
    <3> QED
      BY <1>2, <2>1, <2>4, <3>1 DEF SameOutside
  <2>6. heap' = Concat(h, k, target, <<k, "left">>, <<k, "right">>, data, local)
    BY <2>3 DEF Gathered, Concatenated, Concat
  <2> HIDE DEF h, data, local, target, copy, dLeft
  <2>7. k \in Object /\ Unreferenced(h.ref, k) /\ \A s \in DOMAIN h.ref : h.ref[s] # k
    BY <2>3, <2>4, FreshUnreferenced
  <2>8. /\ h.ref[data] \in Object /\ h.ref[data] # k
        /\ h.ref[local] \in Object /\ h.ref[local] # k
    BY <2>4, <2>5, <2>7 DEF Balanced
  <2> QED
    BY <1>2, <2>4, <2>6, <2>7, <2>8, ConcatRanked
<1> QED
  BY <1>3, <1>4

(* In all other steps, objects get no references.                          *)
LEMMA VectorsKeepFields ==
  ASSUME NEW v \in Vector,
         \/ \E item \in Items : AppendItem(v, item)
         \/ \E w \in Vector : \E i \in DOMAIN vector[w] : AppendShared(v, w, i)
         \/ DropItem(v)
  PROVE  FieldsKept(heap.ref, heap'.ref)
<1>1. \A i : <<v, i>> \notin OfObjects
  BY NotOfObjects
<1>2. CASE \E item \in Items : AppendItem(v, item)
  BY <1>1, <1>2, RetainFields DEF AppendItem, FieldsKept
<1>3. CASE \E w \in Vector : \E i \in DOMAIN vector[w] : AppendShared(v, w, i)
  BY <1>1, <1>3, RetainFields DEF AppendShared
<1>4. CASE DropItem(v)
  BY <1>4, ReleaseUnlessNullFields DEF DropItem
<1> QED
  BY <1>2, <1>3, <1>4

LEMMA PointersKeepFields ==
  ASSUME Pointers
  PROVE  FieldsKept(heap.ref, heap'.ref)
<1>1. \A p \in Pointer : <<p, "_target">> \notin OfObjects
  BY NotOfObjects
<1>2. ASSUME NEW p \in Pointer, NEW kind, NEW bytes, NewData(p, kind, bytes)
      PROVE  FieldsKept(heap.ref, heap'.ref)
  BY <1>1, <1>2, RetainFields DEF NewData
<1>3. ASSUME NEW p \in Pointer, SetLength(p) PROVE FieldsKept(heap.ref, heap'.ref)
  BY <1>3 DEF SetLength, FieldsKept
<1>4. ASSUME NEW p \in Pointer, DestroyPointer(p) PROVE FieldsKept(heap.ref, heap'.ref)
  BY <1>4, ReleaseFields DEF DestroyPointer
<1> QED
  BY <1>2, <1>3, <1>4 DEF Pointers

LEMMA StepKeepsFields ==
  ASSUME IInv, NEW t \in Thread,
         \/ CopyDirectValue(t) \/ ReadFile(t) \/ ReadFails(t)
         \/ ReturnError(t) \/ ReturnData(t) \/ ReturnNoData(t)
         \/ PutSame(t) \/ PutRetain(t) \/ PutRelease(t) \/ PutStore(t)
  PROVE  FieldsKept(heap.ref, heap'.ref)
<1>1. \A name : <<t, name>> \notin OfObjects
  BY NotOfObjects
<1>2. ASSUME NEW h, NEW g, NEW s, s \notin OfObjects, NEW o, h = Retain(heap, s, o),
             g = Release(h, s) \/ g = ReleaseUnlessNull(h, s) \/ \E x : g = Release(h, x)
      PROVE  FieldsKept(heap.ref, g.ref)
  BY <1>2, RetainFields, ReleaseFields, ReleaseUnlessNullFields, FieldsKeptTransitive
<1>3. CASE CopyDirectValue(t) \/ ReadFile(t) \/ ReturnNoData(t)
  BY <1>1, <1>3, RetainFields DEF CopyDirectValue, ReadFile, ReturnNoData
<1>4. CASE ReadFails(t)
  BY <1>1, <1>2, <1>4 DEF ReadFails
<1>5. CASE ReturnData(t)
  BY <1>1, <1>2, <1>5 DEF ReturnData
<1>6. CASE ReturnError(t) \/ PutSame(t) \/ PutRelease(t)
  BY <1>6, ReleaseUnlessNullFields DEF ReturnError, PutSame, PutRelease
<1>7. CASE PutRetain(t)
  BY <1>1, <1>7, RetainFields DEF PutRetain, FieldsKept
<1>8. CASE PutStore(t)
  <2> DEFINE from == <<t, "target">>
             to == <<call[t].pointer, "_target">>
             h == IF from \notin DOMAIN heap.ref THEN heap ELSE Move(heap, from, to)
  <2>1. heap' = ReleaseUnlessNull(h, <<t, "returnValue">>)
    BY <1>8 DEF PutStore
  <2>2. from \notin OfObjects /\ to \notin OfObjects /\ IsRecord(heap)
    BY <1>1, <1>8, InCall, NotOfObjects DEF PutStore, At, IInv, Balanced, IsRecord
  <2> HIDE DEF from, to
  <2>3. FieldsKept(heap.ref, h.ref)
    BY <2>2, MoveFields DEF FieldsKept
  <2> HIDE DEF h
  <2> QED
    BY <2>1, <2>3, ReleaseUnlessNullFields, FieldsKeptTransitive
<1> QED
  BY <1>3, <1>4, <1>5, <1>6, <1>7, <1>8

LEMMA NextRanked == IInv /\ CInv /\ Ranked(heap.ref) /\ [Next]_vars => Ranked(heap.ref)'
<1> SUFFICES ASSUME IInv, CInv, Ranked(heap.ref), [Next]_vars PROVE Ranked(heap'.ref)
  OBVIOUS
<1>1. ASSUME FieldsKept(heap.ref, heap'.ref) PROVE Ranked(heap'.ref)
  BY <1>1, RankedKept
<1>2. CASE Vectors
  BY <1>1, <1>2, VectorsKeepFields DEF Vectors
<1>3. CASE Pointers
  BY <1>1, <1>3, PointersKeepFields
<1>4. CASE Calls
  <2>1. ASSUME heap' = heap PROVE Ranked(heap'.ref)
    BY <2>1
  <2> QED
    BY <1>4, <2>1, FromNSDataRanked DEF Calls, ToNSData, Assign
<1>5. ASSUME NEW t \in Thread, Step(t) PROVE Ranked(heap'.ref)
  <2>1. CASE CopyBuffered(t)
    BY <2>1, CopyBufferedRanked
  <2>2. CASE Deliver(t)
    BY <2>2, DeliverRanked DEF CInv
  <2>3. CASE ~(CopyBuffered(t) \/ Deliver(t))
    BY <1>1, <1>5, <2>3, StepKeepsFields DEF Step
  <2> QED
    BY <2>1, <2>2, <2>3
<1>6. CASE Cleanup
  BY <1>1, <1>6, ReleaseFields DEF Cleanup, Finalize
<1>7. CASE UNCHANGED vars
  BY <1>7 DEF vars
<1> QED
  BY <1>2, <1>3, <1>4, <1>5, <1>6, <1>7 DEF Next

LEMMA InitRanked == Init => Ranked(heap.ref)
<1> SUFFICES ASSUME Init PROVE Ranked(heap.ref)
  OBVIOUS
<1>1. DOMAIN heap.ref = {}
  BY DEF Init
<1>2. PICK rank : rank = [o \in Object |-> 0]
  OBVIOUS
<1>3. rank \in [Object -> 0 .. 0] /\ Descends(heap.ref, rank)
  BY <1>1, <1>2 DEF Descends
<1> QED
  BY <1>3 DEF Ranked

(* What is in use would have to be referred to by something of a higher    *)
(* rank, if only objects are left.                                         *)
LEMMA NothingLeft ==
  ASSUME IInv, Ranked(heap.ref),
         \A s \in DOMAIN heap.ref : s \in OfObjects /\ heap.count[s[1]] > 0,
         NEW x \in Object
  PROVE  ~(heap.count[x] > 0)
<1> SUFFICES ASSUME heap.count[x] > 0 PROVE FALSE
  OBVIOUS
<1>0. PICK n \in Nat : \E rank \in [Object -> 0 .. n] : Descends(heap.ref, rank)
  BY DEF Ranked
<1>1. PICK rank \in [Object -> 0 .. n] : Descends(heap.ref, rank)
  BY <1>0
<1> DEFINE used == {o \in Object : heap.count[o] > 0}
           depths == {n - rank[o] : o \in used}
<1>2. depths \subseteq Nat /\ depths # {}
  OBVIOUS
<1>3. PICK m \in depths : \A k \in depths : m <= k
  <2> HIDE DEF depths
  <2> QED
    BY <1>2, LeastElement
<1>4. PICK o \in used : m = n - rank[o]
  OBVIOUS
<1>5. PICK s \in DOMAIN heap.ref : heap.ref[s] = o
  <2>1. heap.count[o] = Cardinality(Holders(heap, o)) /\ heap.count[o] > 0
    BY DEF IInv, Balanced
  <2>2. Cardinality({}) = 0
    BY FS_EmptySet
  <2>3. Holders(heap, o) # {}
    <3> HIDE DEF used, depths
    <3> SUFFICES ASSUME Holders(heap, o) = {} PROVE FALSE
      OBVIOUS
    <3>1. heap.count[o] = 0
      BY <2>1, <2>2
    <3> QED
      BY <2>1, <3>1
  <2> QED
    BY <2>3 DEF Holders
<1>6. s[1] \in used /\ rank[o] < rank[s[1]]
  BY <1>1, <1>5 DEF OfObjects, Descends
<1>7. n - rank[s[1]] \in depths /\ rank[s[1]] \in 0 .. n /\ rank[o] \in 0 .. n
  BY <1>6
<1>8. m <= n - rank[s[1]]
  BY <1>3, <1>7
<1>9. PICK a \in 0 .. n, b \in 0 .. n : a = rank[o] /\ b = rank[s[1]]
  BY <1>7
<1>10. m = n - a /\ m <= n - b /\ a < b
  BY <1>4, <1>6, <1>8, <1>9
<1> HIDE DEF used, depths
<1> QED
  BY <1>10

(* When a program has let go of everything and the queue and the           *)
(* deallocations have run to their end, all memory has been freed: no      *)
(* cycle of references is ever made, through any number of conversions     *)
(* between vectors and NSData.                                             *)
THEOREM NothingKeepsItself == ASSUME ViewsOfOneChunk PROVE Spec => []NothingStranded
<1>1. ASSUME IInv, Ranked(heap.ref) PROVE NothingStranded
  <2> SUFFICES ASSUME Quiet, \A s \in DOMAIN heap.ref : s[1] \in Object => heap.count[s[1]] > 0,
                      NEW x \in Object
               PROVE  IsUnused(heap, x)
    BY DEF NothingStranded
  <2>1. ASSUME NEW s \in DOMAIN heap.ref PROVE s \in OfObjects
    <3>1. s \in Slot
      BY <1>1 DEF IInv, TypeOK
    <3>2. CASE s \in Thread \X Local
      BY <1>1, <3>2 DEF Quiet, IInv, Locals, Held
    <3>3. CASE s \in Vector \X (1 .. MaxItems)
      BY <1>1, <3>3 DEF Quiet, IInv, VectorSlots
    <3>4. CASE s \in Pointer \X {"_target"}
      <4>1. heap.ref[s] \in Object
        BY <1>1 DEF IInv, Balanced
      <4> QED
        BY <3>4, <4>1, OwnersApart DEF Quiet, Ref, Target
    <3> QED
      BY <3>1, <3>2, <3>3, <3>4 DEF Slot, OfObjects
  <2>2. \A s \in DOMAIN heap.ref : s \in OfObjects /\ heap.count[s[1]] > 0
    BY <2>1 DEF OfObjects
  <2>3. ~(heap.count[x] > 0) /\ heap.count[x] \in Nat
    BY <1>1, <2>2, NothingLeft, CountsAreNatural DEF IInv
  <2>4. \A f \in Field : <<x, f>> \notin DOMAIN heap.ref
    BY <2>2, <2>3
  <2> QED
    BY <2>3, <2>4 DEF IsUnused
<1>2. (IInv /\ CInv) /\ Ranked(heap.ref) /\ [Next]_vars => Ranked(heap.ref)'
  BY NextRanked
<1> QED
  BY <1>1, <1>2, InitRanked, InvariantHolds, PTL DEF Spec
=============================================================================
