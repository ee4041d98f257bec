------------------------ MODULE NSDataContentsProofs ------------------------
(***************************************************************************)
(* Whose bytes are where in NSDataBridge: what is in use is neither moved  *)
(* nor written to, so that vectors keep their bytes and toNSData() returns *)
(* those of its vector.                                                    *)
(***************************************************************************)
EXTENDS NSDataBridgeProofs, FlattenProofs

(***************************************************************************)
(* References that change are in the slots S.                              *)
(***************************************************************************)
SameOutside(S, r, q) ==
  \A s : s \notin S => /\ s \in DOMAIN q <=> s \in DOMAIN r
                       /\ s \in DOMAIN r => q[s] = r[s]

LEMMA SameTransitive ==
  ASSUME NEW S, NEW T, NEW U, S \subseteq U, T \subseteq U, NEW q, NEW r, NEW w,
         SameOutside(S, q, r), SameOutside(T, r, w)
  PROVE  SameOutside(U, q, w)
BY DEF SameOutside

LEMMA RetainSame ==
  ASSUME NEW h, NEW s, NEW o
  PROVE  SameOutside({s}, h.ref, Retain(h, s, o).ref)
BY DEF SameOutside, Retain, Set

LEMMA ReleaseSame ==
  ASSUME NEW h, NEW s
  PROVE  SameOutside({s}, h.ref, Release(h, s).ref)
BY DEF SameOutside, Release, Clear, Restrict

LEMMA ReleaseUnlessNullSame ==
  ASSUME NEW h, NEW s
  PROVE  SameOutside({s}, h.ref, ReleaseUnlessNull(h, s).ref)
BY ReleaseSame DEF SameOutside, ReleaseUnlessNull

IsRecord(h) == h = [count |-> h.count, ref |-> h.ref]

LEMMA MoveRefs ==
  ASSUME NEW h, IsRecord(h), NEW from, NEW to
  PROVE  /\ IsRecord(Move(h, from, to))
         /\ SameOutside({from, to}, h.ref, Move(h, from, to).ref)
         /\ to \in DOMAIN Move(h, from, to).ref /\ Move(h, from, to).ref[to] = h.ref[from]
<1>1. Move(h, from, to) = [count |-> h.count, ref |-> Set(Clear(h.ref, from), to, h.ref[from])]
  BY DEF Move, IsRecord
<1> DEFINE r == Set(Clear(h.ref, from), to, h.ref[from])
<1>2. SameOutside({from, to}, h.ref, r) /\ to \in DOMAIN r /\ r[to] = h.ref[from]
  BY DEF SameOutside, Set, Clear, Restrict
<1> HIDE DEF r
<1> QED
  BY <1>1, <1>2 DEF IsRecord, r

(***************************************************************************)
(* What a step leaves alone: references from objects in use, from pointers *)
(* unless it is about one and, outside of S, from variables of calls and   *)
(* from vectors; the bytes of objects in use, unless the program empties   *)
(* an NSMutableData.                                                       *)
(***************************************************************************)
Unused == {o \in Object : heap.count[o] = 0}

Repoints(p) ==
  \/ \E kind, bytes : NewData(p, kind, bytes)
  \/ DestroyPointer(p)
  \/ \E t \in Thread : call[t].pointer = p /\ (PutRelease(t) \/ PutStore(t))

PointerSlots == {p \in Pointer : Repoints(p)} \X {"_target"}

Shortens == \E p \in Pointer : SetLength(p)

StepKeeps(S) ==
  /\ SameOutside(S \cup (Unused \X Field) \cup PointerSlots, heap.ref, heap'.ref)
  /\ \A o \in Object : heap.count[o] > 0 =>
       /\ object'[o].kind = object[o].kind
       /\ object[o].kind # "mutableData" \/ ~Shortens => object'[o].bytes = object[o].bytes

(* A storage has the bytes, itself or in the NSData that it keeps alive.   *)
StorageHolds(s, bytes) ==
  /\ object[s].kind = "storage"
  /\ LET kept == heap.ref[<<s, "left">>]
     IN  IF <<s, "left">> \in DOMAIN heap.ref
           THEN object[kept].kind # "mutableData" /\ object[kept].bytes = bytes
           ELSE object[s].bytes = bytes

LEMMA FreshUnused ==
  ASSUME IInv, NEW a \in Thread \cup {"any"}, NEW o \in Fresh(heap, a)
  PROVE  o \in Unused /\ <<o, "left">> \in Unused \X Field /\ <<o, "right">> \in Unused \X Field
BY FreshIsUnused DEF IInv, Unused, Field

(* Only objects that were not in use, the objects U, are written to.       *)
LEMMA KeepsIfUnused ==
  ASSUME IInv, NEW S, NEW T, T \subseteq S \cup (Unused \X Field) \cup PointerSlots,
         SameOutside(T, heap.ref, heap'.ref),
         NEW U, U \subseteq Unused, \A o \in Object : o \notin U => object'[o] = object[o]
  PROVE  StepKeeps(S)
<1>1. \A o \in Object : heap.count[o] > 0 => o \notin U
  BY DEF Unused
<1>2. SameOutside(S \cup (Unused \X Field) \cup PointerSlots, heap.ref, heap'.ref)
  BY DEF SameOutside
<1> QED
  BY <1>1, <1>2 DEF StepKeeps

(* What is in use stays what it is.                                        *)
LEMMA SlotKept ==
  ASSUME IInv, NEW S, StepKeeps(S), NEW slot \in DOMAIN heap.ref,
         slot \notin S, slot \notin PointerSlots, slot \notin Unused \X Field
  PROVE  /\ slot \in DOMAIN heap'.ref /\ heap'.ref[slot] = heap.ref[slot]
         /\ LET o == heap.ref[slot]
            IN  /\ o \in Object /\ heap.count[o] > 0 /\ object'[o].kind = object[o].kind
                /\ object[o].kind # "mutableData" \/ ~Shortens => object'[o].bytes = object[o].bytes
<1>1. heap.ref[slot] \in Object /\ heap.count[heap.ref[slot]] > 0
  BY CountedIfHeld DEF IInv
<1> QED
  BY <1>1 DEF StepKeeps, SameOutside

LEMMA StorageKept ==
  ASSUME IInv, NEW S, StepKeeps(S), S \cap OfObjects = {},
         NEW s \in Object, heap.count[s] > 0, NEW bytes, StorageHolds(s, bytes)
  PROVE  StorageHolds(s, bytes)'
<1> DEFINE left == <<s, "left">>
<1>1. left \notin S /\ left \notin PointerSlots /\ left \notin Unused \X Field
  BY OwnersApart DEF OfObjects, Field, PointerSlots, Unused
<1>2. object'[s].kind = "storage" /\ object'[s].bytes = object[s].bytes
  BY DEF StorageHolds, StepKeeps
<1>3. left \in DOMAIN heap'.ref <=> left \in DOMAIN heap.ref
  BY <1>1 DEF StepKeeps, SameOutside
<1>4. CASE left \in DOMAIN heap.ref
  <2>1. object[heap.ref[left]].kind # "mutableData" /\ object[heap.ref[left]].bytes = bytes
    BY <1>4 DEF StorageHolds
  <2> HIDE DEF left
  <2>2. /\ heap'.ref[left] = heap.ref[left]
        /\ object'[heap.ref[left]].kind = object[heap.ref[left]].kind
        /\ object'[heap.ref[left]].bytes = bytes
    BY <1>1, <1>4, <2>1, SlotKept
  <2> QED
    BY <1>2, <1>3, <1>4, <2>1, <2>2 DEF StorageHolds, left
<1>5. CASE left \notin DOMAIN heap.ref
  BY <1>2, <1>3, <1>5 DEF StorageHolds
<1> QED
  BY <1>4, <1>5

LEMMA AppendItemKeeps ==
  ASSUME IInv, NEW v \in Vector, NEW item \in Items, AppendItem(v, item),
         NEW slot, slot = <<v, Len(vector[v]) + 1>>
  PROVE  /\ StepKeeps({slot})
         /\ item.kind = "Buffered" => StorageHolds(heap.ref[slot], item.chunks[1])'
<1>1. CASE item.kind = "Buffered"
  <2>1. PICK s \in Fresh(heap, "any") :
          /\ heap' = Retain(heap, slot, s)
          /\ object' = [object EXCEPT ![s] = Memory("storage", {}, item.chunks[1])]
    BY <1>1 DEF AppendItem
  <2>2. {s} \subseteq Unused
    BY <2>1, FreshUnused
  <2>3. /\ \A o \in Object : o \notin {s} => object'[o] = object[o]
        /\ object'[s] = Memory("storage", {}, item.chunks[1])
    BY <2>1, <2>2 DEF IInv, TypeOK, Unused
  <2>4. SameOutside({slot}, heap.ref, heap'.ref)
    BY <2>1, RetainSame
  <2>5. heap'.ref[slot] = s /\ <<s, "left">> \notin DOMAIN heap'.ref
    <3>1. <<s, "left">> \notin DOMAIN heap.ref /\ <<s, "left">> # slot
      <4>1. s \in Object /\ <<s, "left">> \notin DOMAIN heap.ref
        BY <2>1, FreshIsUnused DEF IInv
      <4>2. s # v
        BY <4>1, OwnersApart
      <4> QED
        BY <4>1, <4>2
    <3>2. heap'.ref = Set(heap.ref, slot, s)
      BY <2>1 DEF Retain
    <3> QED
      BY <3>1, <3>2 DEF Set
  <2>6. StorageHolds(heap.ref[slot], item.chunks[1])'
    BY <2>3, <2>5 DEF StorageHolds, Memory
  <2>7. StepKeeps({slot})
    BY <2>2, <2>3, <2>4, KeepsIfUnused
  <2> QED
    BY <2>6, <2>7
<1>2. CASE item.kind # "Buffered"
  BY <1>2 DEF AppendItem, StepKeeps, SameOutside
<1> QED
  BY <1>1, <1>2

LEMMA AppendSharedKeeps ==
  ASSUME IInv, NEW v \in Vector, NEW w \in Vector, NEW j \in DOMAIN vector[w], AppendShared(v, w, j)
  PROVE  LET slot == <<v, Len(vector[v]) + 1>>
         IN  StepKeeps({slot}) /\ heap'.ref[slot] = Ref(w, j)
<1> DEFINE slot == <<v, Len(vector[v]) + 1>>
<1>1. heap' = Retain(heap, slot, Ref(w, j)) /\ object' = object
  BY DEF AppendShared
<1>2. SameOutside({slot}, heap.ref, heap'.ref) /\ heap'.ref[slot] = Ref(w, j)
  <2>1. SameOutside({slot}, heap.ref, heap'.ref)
    BY <1>1, RetainSame
  <2> HIDE DEF slot
  <2> QED
    BY <1>1, <2>1 DEF Retain, Set
<1>3. StepKeeps({slot})
  <2> HIDE DEF slot
  <2> QED
    BY <1>1, <1>2, KeepsIfUnused
<1> QED
  BY <1>2, <1>3

LEMMA DropItemKeeps ==
  ASSUME IInv, NEW v \in Vector, DropItem(v)
  PROVE  StepKeeps({<<v, Len(vector[v])>>})
<1> DEFINE slot == <<v, Len(vector[v])>>
<1>1. SameOutside({slot}, heap.ref, heap'.ref) /\ object' = object
  <2>1. heap' = ReleaseUnlessNull(heap, slot) /\ object' = object
    BY DEF DropItem
  <2> QED
    BY <2>1, ReleaseUnlessNullSame
<1>2. StepKeeps({slot})
  <2> HIDE DEF slot
  <2> QED
    BY <1>1, KeepsIfUnused
<1> QED
  BY <1>2

LEMMA NewDataKeeps ==
  ASSUME IInv, NEW p \in Pointer, NEW kind, NEW bytes, NewData(p, kind, bytes)
  PROVE  StepKeeps({})
<1> DEFINE slot == <<p, "_target">>
<1>1. PICK d \in Fresh(heap, "any") :
        /\ heap' = Retain(heap, slot, d)
        /\ object' = [object EXCEPT ![d] = Memory(kind, {}, bytes)]
  BY DEF NewData
<1>2. {d} \subseteq Unused /\ slot \in PointerSlots
  BY <1>1, FreshUnused DEF PointerSlots, Repoints
<1>3. \A o \in Object : o \notin {d} => object'[o] = object[o]
  BY <1>1 DEF IInv, TypeOK
<1>4. SameOutside({slot}, heap.ref, heap'.ref)
  BY <1>1, RetainSame
<1> HIDE DEF slot
<1> QED
  BY <1>2, <1>3, <1>4, KeepsIfUnused

LEMMA SetLengthKeeps ==
  ASSUME IInv, NEW p \in Pointer, SetLength(p)
  PROVE  StepKeeps({})
<1> DEFINE d == Ref(p, "_target")
<1>1. /\ heap' = heap /\ object[d].kind = "mutableData"
      /\ object' = [object EXCEPT ![d] = [object[d] EXCEPT !.bytes = <<>>]]
  BY DEF SetLength
<1>2. object \in [Object -> [kind : Kind, holds : SUBSET Field, bytes : Seq(Nat)]]
  BY DEF IInv, TypeOK
<1> HIDE DEF d
<1>3. ASSUME NEW o \in Object
      PROVE  /\ object'[o].kind = object[o].kind
             /\ object[o].kind # "mutableData" => object'[o].bytes = object[o].bytes
  BY <1>1, <1>2
<1> QED
  BY <1>1, <1>3 DEF StepKeeps, SameOutside, Shortens

LEMMA DestroyPointerKeeps ==
  ASSUME IInv, NEW p \in Pointer, DestroyPointer(p)
  PROVE  StepKeeps({})
<1> DEFINE slot == <<p, "_target">>
<1>1. SameOutside({slot}, heap.ref, heap'.ref) /\ object' = object /\ slot \in PointerSlots
  BY ReleaseSame DEF DestroyPointer, PointerSlots, Repoints
<1> HIDE DEF slot
<1> QED
  BY <1>1, KeepsIfUnused

LEMMA FinalizeKeeps ==
  ASSUME IInv, NEW s \in DOMAIN heap.ref, s[1] \in Object, Finalize(s)
  PROVE  StepKeeps({})
<1>1. SameOutside({s}, heap.ref, heap'.ref) /\ object' = object
  BY ReleaseSame DEF Finalize
<1>2. s \in Unused \X Field
  <2>1. s \in Slot /\ heap.count[s[1]] = 0
    BY DEF IInv, TypeOK, Finalize
  <2> QED
    BY <2>1, OwnersApart DEF Slot, Unused
<1> QED
  BY <1>1, <1>2, KeepsIfUnused

LEMMA FromNSDataKeeps ==
  ASSUME IInv, NEW v \in Vector, NEW p \in Pointer, FromNSData(v, p)
  PROVE  /\ StepKeeps({<<v, 1>>})
         /\ \E bytes \in Seq(Nat) :
              /\ vector' = [vector EXCEPT ![v] = <<Buffered(bytes)>>]
              /\ StorageHolds(heap.ref[<<v, 1>>], bytes)'
<1> DEFINE slot == <<v, 1>>
<1>0. PICK data \in Object, bytes \in Seq(Nat) : data = Ref(p, "_target") /\ bytes = object[data].bytes
  <2>1. Ref(p, "_target") \in Object
    BY DEF FromNSData, Ref, Target, IInv, Balanced
  <2> QED
    BY <2>1 DEF IInv, TypeOK
<1>1. PICK s \in Fresh(heap, "any") :
        \E copy \in IF object[data].kind = "mutableData"
                      THEN Fresh(Retain(heap, slot, s), "any") ELSE {data} :
          /\ heap' = Retain(Retain(heap, slot, s), <<s, "left">>, copy)
          /\ object' = [object EXCEPT
               ![copy] = IF copy = data THEN @ ELSE Memory("data", {}, bytes),
               ![s] = Memory("storage", {"left"}, <<>>)]
  BY <1>0 DEF FromNSData, Copies
<1> DEFINE h == Retain(heap, slot, s)
           field == <<s, "left">>
<1>2. PICK copy \in IF object[data].kind = "mutableData" THEN Fresh(h, "any") ELSE {data} :
        /\ heap' = Retain(h, field, copy)
        /\ object' = [object EXCEPT
             ![copy] = IF copy = data THEN @ ELSE Memory("data", {}, bytes),
             ![s] = Memory("storage", {"left"}, <<>>)]
  BY <1>1
<1>3. /\ Balanced(heap) /\ data \in Object /\ heap.count[data] > 0
      /\ vector[v] = <<>> /\ vector' = [vector EXCEPT ![v] = <<Buffered(bytes)>>]
  <2>1. <<p, "_target">> \in DOMAIN heap.ref /\ data = heap.ref[<<p, "_target">>]
    BY <1>0 DEF FromNSData, Ref, Target
  <2>2. Balanced(heap)
    BY DEF IInv
  <2>3. data \in Object /\ heap.count[data] > 0
    BY <2>1, <2>2, CountedIfHeld
  <2> QED
    BY <1>0, <2>2, <2>3 DEF FromNSData
<1>4. /\ s \in Object /\ heap.count[s] = 0 /\ s \in Unused /\ field \in Unused \X Field
      /\ slot # field /\ s # data
  <2>1. s \in Object /\ heap.count[s] = 0 /\ s \in Unused /\ field \in Unused \X Field
    BY <1>1, <1>3, FreshIsUnused, FreshUnused
  <2> QED
    BY <1>3, <2>1, OwnersApart
<1>5. slot \notin DOMAIN heap.ref
  BY <1>3 DEF IInv, VectorSlots
<1>6. /\ Balanced(h)
      /\ \A x \in Object : h.count[x] = IF x = s THEN heap.count[x] + 1 ELSE heap.count[x]
  <2> HIDE DEF slot
  <2> QED
    BY <1>3, <1>4, <1>5, RetainBalanced
<1>7. \/ copy = data /\ object[data].kind # "mutableData"
      \/ copy \in Unused /\ copy # s
  <2>1. CASE object[data].kind = "mutableData"
    <3>1. copy \in Object /\ h.count[copy] = 0
      <4> HIDE DEF h
      <4> QED
        BY <1>2, <1>6, <2>1, FreshIsUnused
    <3> HIDE DEF h
    <3> QED
      BY <1>4, <1>6, <3>1 DEF Unused
  <2>2. CASE object[data].kind # "mutableData"
    <3>1. copy \in {data}
      <4> HIDE DEF h, slot, field
      <4> QED
        BY <1>2, <2>2
    <3> QED
      BY <2>2, <3>1
  <2> QED
    BY <2>1, <2>2
<1>8. /\ \A o \in Object : o \notin Unused => object'[o] = object[o]
      /\ object'[s] = Memory("storage", {"left"}, <<>>)
      /\ object'[copy] = IF copy = data THEN object[data] ELSE Memory("data", {}, bytes)
  <2>1. copy \in Object
    BY <1>3, <1>7 DEF Unused
  <2> QED
    BY <1>2, <1>3, <1>4, <1>7, <2>1 DEF IInv, TypeOK
<1>9. SameOutside({slot, field}, heap.ref, heap'.ref)
  <2>1. SameOutside({slot}, heap.ref, h.ref) /\ SameOutside({field}, h.ref, heap'.ref)
    BY <1>2, RetainSame
  <2> HIDE DEF slot, field, h
  <2> QED
    BY <2>1, SameTransitive
<1>10. StepKeeps({slot})
  <2> HIDE DEF slot, field
  <2> QED
    BY <1>4, <1>8, <1>9, KeepsIfUnused
<1>11. /\ heap'.ref[slot] = s /\ field \in DOMAIN heap'.ref /\ heap'.ref[field] = copy
  <2>1. h.ref[slot] = s /\ slot \in DOMAIN h.ref
    BY DEF Retain, Set
  <2>2. heap'.ref = Set(h.ref, field, copy)
    BY <1>2 DEF Retain
  <2> HIDE DEF slot, field, h
  <2> QED
    BY <1>4, <2>1, <2>2 DEF Set
<1>12. object'[copy].bytes = bytes /\ object'[copy].kind # "mutableData"
  BY <1>0, <1>3, <1>7, <1>8 DEF Memory, Unused
<1>13. StorageHolds(heap.ref[<<v, 1>>], bytes)'
  <2>1. object'[s].kind = "storage"
    BY <1>8 DEF Memory
  <2> QED
    BY <1>11, <1>12, <2>1 DEF StorageHolds
<1> QED
  BY <1>0, <1>3, <1>10, <1>13

(***************************************************************************)
(* The steps of a call.                                                    *)
(***************************************************************************)
LEMMA NoMemoryKeeps ==
  ASSUME IInv, UNCHANGED <<heap, object>>, NEW S
  PROVE  StepKeeps(S)
BY DEF StepKeeps, SameOutside

LEMMA PlainCopyKeeps ==
  ASSUME IInv, NEW t \in Thread, NEW bytes, NEW s \in Fresh(heap, t),
         heap' = Retain(heap, <<t, "copy">>, s),
         object' = [object EXCEPT ![s] = Memory("chunk", {}, bytes)]
  PROVE  /\ StepKeeps({<<t, "copy">>})
         /\ ChunkRead(t, bytes)'
<1> DEFINE slot == <<t, "copy">>
<1>1. {s} \subseteq Unused
  BY FreshUnused
<1>2. /\ \A o \in Object : o \notin {s} => object'[o] = object[o]
      /\ object'[s] = Memory("chunk", {}, bytes)
  BY <1>1 DEF IInv, TypeOK, Unused
<1>3. SameOutside({slot}, heap.ref, heap'.ref)
  BY RetainSame
<1>4. heap'.ref[slot] = s
  BY DEF Retain, Set
<1>5. StepKeeps({slot})
  <2> HIDE DEF slot
  <2> QED
    BY <1>1, <1>2, <1>3, KeepsIfUnused
<1> QED
  BY <1>2, <1>4, <1>5 DEF ChunkRead, Memory

LEMMA ReadFailsKeeps ==
  ASSUME IInv, NEW t \in Thread, ReadFails(t)
  PROVE  StepKeeps({<<t, "copy">>})
<1> DEFINE slot == <<t, "copy">>
<1>1. PICK s \in Fresh(heap, t) : heap' = Release(Retain(heap, slot, s), slot)
  BY DEF ReadFails
<1>2. SameOutside({slot}, heap.ref, heap'.ref)
  <2> DEFINE h == Retain(heap, slot, s)
  <2>1. SameOutside({slot}, heap.ref, h.ref) /\ SameOutside({slot}, h.ref, heap'.ref)
    BY <1>1, RetainSame, ReleaseSame
  <2> HIDE DEF slot, h
  <2> QED
    BY <2>1, SameTransitive
<1>3. object' = object
  BY DEF ReadFails
<1>4. StepKeeps({slot})
  <2> HIDE DEF slot
  <2> QED
    BY <1>2, <1>3, KeepsIfUnused
<1> QED
  BY <1>4

LEMMA ReturnDataKeeps ==
  ASSUME IInv, NEW t \in Thread, ReturnData(t)
  PROVE  /\ StepKeeps({t} \X Local) /\ UNCHANGED object
         /\ <<t, "data">> \in DOMAIN heap.ref
         /\ heap'.ref[<<t, "returnValue">>] = heap.ref[<<t, "data">>]
<1> DEFINE data == <<t, "data">>
           result == <<t, "returnValue">>
           h == Retain(heap, result, heap.ref[data])
<1>1. data \in DOMAIN heap.ref /\ heap' = Release(h, data) /\ object' = object
  BY DEF ReturnData, Ref, Target
<1>2. {data, result} \subseteq {t} \X Local /\ data # result
  BY DEF Local
<1>3. /\ SameOutside({result}, heap.ref, h.ref)
      /\ result \in DOMAIN h.ref /\ h.ref[result] = heap.ref[data]
  <2>1. SameOutside({result}, heap.ref, h.ref)
    BY RetainSame
  <2>2. h.ref = Set(heap.ref, result, heap.ref[data])
    BY DEF Retain
  <2> HIDE DEF data, result, h
  <2> QED
    BY <2>1, <2>2 DEF Set
<1> HIDE DEF data, result, h
<1>4. SameOutside({data}, h.ref, heap'.ref)
  BY <1>1, ReleaseSame
<1>5. SameOutside({data, result}, heap.ref, heap'.ref)
  BY <1>3, <1>4, SameTransitive
<1>6. heap'.ref[result] = heap.ref[data]
  BY <1>2, <1>3, <1>4 DEF SameOutside
<1>7. StepKeeps({t} \X Local)
  BY <1>1, <1>2, <1>5, KeepsIfUnused
<1> QED
  BY <1>1, <1>6, <1>7 DEF data, result

LEMMA ReturnNoDataKeeps ==
  ASSUME IInv, NEW t \in Thread, ReturnNoData(t)
  PROVE  /\ StepKeeps({t} \X Local)
         /\ LET o == heap.ref[<<t, "returnValue">>]
            IN  (object[o].kind = "data" /\ object[o].bytes = <<>>)'
<1> DEFINE slot == <<t, "returnValue">>
<1>1. PICK d \in Fresh(heap, t) :
        /\ heap' = Retain(heap, slot, d)
        /\ object' = [object EXCEPT ![d] = Memory("data", {}, <<>>)]
  BY DEF ReturnNoData
<1>2. {d} \subseteq Unused /\ slot \in {t} \X Local
  BY <1>1, FreshUnused DEF Local
<1>3. /\ \A o \in Object : o \notin {d} => object'[o] = object[o]
      /\ object'[d] = Memory("data", {}, <<>>)
  BY <1>1, <1>2 DEF IInv, TypeOK, Unused
<1>4. SameOutside({slot}, heap.ref, heap'.ref) /\ heap'.ref[slot] = d
  <2>1. SameOutside({slot}, heap.ref, heap'.ref)
    BY <1>1, RetainSame
  <2>2. heap'.ref = Set(heap.ref, slot, d)
    BY <1>1 DEF Retain
  <2> HIDE DEF slot
  <2> QED
    BY <2>1, <2>2 DEF Set
<1>5. StepKeeps({t} \X Local)
  <2> HIDE DEF slot
  <2> QED
    BY <1>2, <1>3, <1>4, KeepsIfUnused
<1> QED
  BY <1>3, <1>4, <1>5 DEF Memory

LEMMA ReturnErrorKeeps ==
  ASSUME IInv, NEW t \in Thread, ReturnError(t)
  PROVE  StepKeeps({t} \X Local)
<1> DEFINE slot == <<t, "data">>
<1>1. /\ SameOutside({slot}, heap.ref, heap'.ref) /\ object' = object
      /\ slot \in {t} \X Local
  BY ReleaseUnlessNullSame DEF ReturnError, Local
<1> HIDE DEF slot
<1> QED
  BY <1>1, KeepsIfUnused

LEMMA PutSameKeeps ==
  ASSUME IInv, NEW t \in Thread, PutSame(t)
  PROVE  StepKeeps({t} \X Local)
<1> DEFINE slot == <<t, "returnValue">>
<1>1. /\ SameOutside({slot}, heap.ref, heap'.ref) /\ object' = object
      /\ slot \in {t} \X Local
  BY ReleaseUnlessNullSame DEF PutSame, Local
<1> HIDE DEF slot
<1> QED
  BY <1>1, KeepsIfUnused

LEMMA PutRetainKeeps ==
  ASSUME IInv, NEW t \in Thread, PutRetain(t)
  PROVE  StepKeeps({<<t, "target">>})
<1> DEFINE slot == <<t, "target">>
<1>1. /\ SameOutside({slot}, heap.ref, heap'.ref) /\ object' = object
  <2>1. heap' = IF Source(t) = NULL THEN heap ELSE Retain(heap, slot, Source(t))
    BY DEF PutRetain
  <2>2. CASE Source(t) = NULL
    BY <2>1, <2>2 DEF SameOutside, PutRetain
  <2>3. CASE Source(t) # NULL
    <3>1. object' = object
      BY DEF PutRetain
    <3> HIDE DEF slot
    <3> QED
      BY <2>1, <2>3, <3>1, RetainSame
  <2> QED
    BY <2>2, <2>3
<1>2. StepKeeps({slot})
  <2> HIDE DEF slot
  <2> QED
    BY <1>1, KeepsIfUnused
<1> QED
  BY <1>2

LEMMA PutReleaseKeeps ==
  ASSUME IInv, NEW t \in Thread, PutRelease(t)
  PROVE  StepKeeps({})
<1> DEFINE slot == <<call[t].pointer, "_target">>
<1>1. /\ SameOutside({slot}, heap.ref, heap'.ref) /\ object' = object
      /\ slot \in PointerSlots
  BY InCall, ReleaseUnlessNullSame DEF PutRelease, At, PointerSlots, Repoints
<1> HIDE DEF slot
<1> QED
  BY <1>1, KeepsIfUnused

LEMMA PutStoreKeeps ==
  ASSUME IInv, NEW t \in Thread, PutStore(t)
  PROVE  StepKeeps({t} \X Local)
<1> DEFINE from == <<t, "target">>
           to == <<call[t].pointer, "_target">>
           result == <<t, "returnValue">>
           h == IF from \notin DOMAIN heap.ref THEN heap ELSE Move(heap, from, to)
<1>1. heap' = ReleaseUnlessNull(h, result) /\ object' = object
  BY DEF PutStore
<1>2. {from, result} \subseteq {t} \X Local /\ to \in PointerSlots
  <2>1. pc[t] = "store" /\ call[t].pointer \in Pointer
    BY InCall DEF PutStore, At
  <2> QED
    BY <2>1 DEF Local, PointerSlots, Repoints
<1>3. SameOutside({from, to}, heap.ref, h.ref)
  <2>1. Balanced(heap)
    BY DEF IInv
  <2>2. CASE from \in DOMAIN heap.ref
    <3> HIDE DEF from, to
    <3> QED
      BY <2>1, <2>2, MoveRefs DEF IsRecord, Balanced, h
  <2>3. CASE from \notin DOMAIN heap.ref
    BY <2>3 DEF SameOutside
  <2> QED
    BY <2>2, <2>3
<1> HIDE DEF from, to, result, h
<1>4. SameOutside({result}, h.ref, heap'.ref)
  BY <1>1, ReleaseUnlessNullSame
<1>5. SameOutside({from, to, result}, heap.ref, heap'.ref)
  BY <1>3, <1>4, SameTransitive
<1> QED
  BY <1>1, <1>2, <1>5, KeepsIfUnused

(***************************************************************************)
(* The bytes of vectors, and of the chunks that are copied from them.      *)
(***************************************************************************)
VectorsHold ==
  \A v \in Vector : \A i \in DOMAIN vector[v] :
    vector[v][i].kind = "Buffered" =>
      StorageHolds(heap.ref[<<v, i>>], vector[v][i].chunks[1])

LEMMA HoldsBytes ==
  ASSUME Balanced(heap), NEW s, NEW bytes, StorageHolds(s, bytes)
  PROVE  StorageBytes(s) = bytes
<1> DEFINE left == <<s, "left">>
<1>1. CASE left \in DOMAIN heap.ref
  <2>1. heap.ref[left] \in Object /\ Ref(s, "left") = heap.ref[left]
    BY <1>1 DEF Balanced, Ref, Target
  <2>2. Ref(s, "left") # NULL
    BY <2>1, OwnersApart
  <2> QED
    BY <1>1, <2>1, <2>2 DEF StorageHolds, StorageBytes
<1>2. CASE left \notin DOMAIN heap.ref
  BY <1>2 DEF StorageHolds, StorageBytes, Ref, Target
<1> QED
  BY <1>1, <1>2

LEMMA BufferedSlots ==
  ASSUME IInv, NEW v \in Vector, NEW i \in DOMAIN vector[v], vector[v][i].kind = "Buffered"
  PROVE  /\ <<v, i>> \in DOMAIN heap.ref /\ Ref(v, i) = heap.ref[<<v, i>>]
         /\ heap.ref[<<v, i>>] \in Object /\ heap.count[heap.ref[<<v, i>>]] > 0
<1>1. <<v, i>> \in DOMAIN heap.ref
  <2>1. i \in Nat
    BY DEF IInv, TypeOK
  <2> QED
    BY <2>1 DEF IInv, VectorSlots
<1> QED
  BY <1>1, CountedIfHeld DEF IInv, Ref, Target

LEMMA CopyBufferedKeeps ==
  ASSUME IInv, VectorsHold, NEW t \in Thread, CopyBuffered(t)
  PROVE  /\ StepKeeps({<<t, "copy">>})
         /\ \E bytes : bytes = ItemOf(call[t]).chunks[1] /\ ChunkRead(t, bytes)'
<1> DEFINE storage == Ref(call[t].vector, call[t].item)
           slot == <<t, "copy">>
<1>1. PICK bytes : bytes = ItemOf(call[t]).chunks[1]
  OBVIOUS
<1>2. PICK s \in Fresh(heap, t) :
        /\ heap' = Retain(Retain(heap, slot, s), <<s, "left">>, storage)
        /\ object' = [object EXCEPT ![s] = Memory("chunk", {"left"}, StorageBytes(storage))]
  BY DEF CopyBuffered
<1>3. StorageBytes(storage) = bytes
  <2>1. /\ call[t].vector \in Vector /\ call[t].item \in DOMAIN vector[call[t].vector]
        /\ vector[call[t].vector][call[t].item].kind = "Buffered"
    BY ItemRead DEF CopyBuffered, At, ItemOf
  <2>2. StorageHolds(storage, bytes)
    BY <1>1, <2>1, BufferedSlots DEF VectorsHold, ItemOf
  <2> QED
    BY <2>2, HoldsBytes DEF IInv
<1> DEFINE h == Retain(heap, slot, s)
           field == <<s, "left">>
<1>4. {s} \subseteq Unused /\ field \in Unused \X Field /\ field # slot
  <2>1. s \in Object
    BY <1>2, FreshIsUnused DEF IInv
  <2> QED
    BY <1>2, <2>1, FreshUnused, OwnersApart
<1>5. /\ \A o \in Object : o \notin {s} => object'[o] = object[o]
      /\ object'[s] = Memory("chunk", {"left"}, bytes)
  BY <1>2, <1>3, <1>4 DEF IInv, TypeOK, Unused
<1>6. SameOutside({slot, field}, heap.ref, heap'.ref) /\ heap'.ref[slot] = s
  <2>1. SameOutside({slot}, heap.ref, h.ref) /\ SameOutside({field}, h.ref, heap'.ref)
    BY <1>2, RetainSame
  <2>2. h.ref = Set(heap.ref, slot, s)
    BY DEF Retain
  <2> HIDE DEF slot, field, h
  <2>3. SameOutside({slot, field}, heap.ref, heap'.ref)
    BY <2>1, SameTransitive
  <2>4. slot \in DOMAIN h.ref /\ h.ref[slot] = s
    BY <2>2 DEF Set
  <2> QED
    BY <1>4, <2>1, <2>3, <2>4 DEF SameOutside
<1>7. StepKeeps({slot})
  <2> HIDE DEF slot, field
  <2> QED
    BY <1>4, <1>5, <1>6, KeepsIfUnused
<1>8. ChunkRead(t, bytes)'
  BY <1>5, <1>6 DEF ChunkRead, Memory
<1> QED
  BY <1>1, <1>7, <1>8

(***************************************************************************)
(* What the callback makes of a chunk.                                     *)
(***************************************************************************)
DataBytes(t) ==
  IF <<t, "data">> \in DOMAIN heap.ref THEN object[heap.ref[<<t, "data">>]].bytes ELSE <<>>

LEMMA CreatedRefs ==
  ASSUME IInv, ChunksRead, NEW t \in Thread, pc[t] = "deliver", NEW d \in Fresh(heap, t)
  PROVE  LET h == Created(heap, t, d)
         IN  /\ IsRecord(h)
             /\ SameOutside({<<t, "copy">>, <<t, "localData">>, <<d, "left">>}, heap.ref, h.ref)
             /\ <<t, "localData">> \in DOMAIN h.ref /\ h.ref[<<t, "localData">>] = d
<1> DEFINE copy == <<t, "copy">>
           local == <<t, "localData">>
           left == <<d, "left">>
           g == Retain(heap, local, d)
           h == Created(heap, t, d)
<1>1. h = Move(g, copy, left)
  BY PassedPlain DEF Created
<1>2. copy # local /\ left # local
  <2>1. d \in Object
    BY FreshIsUnused DEF IInv
  <2> QED
    BY <2>1, OwnersApart
<1>3. IsRecord(g) /\ SameOutside({local}, heap.ref, g.ref) /\ g.ref = Set(heap.ref, local, d)
  BY RetainSame DEF IsRecord, Retain
<1> HIDE DEF copy, local, left, g, h
<1>4. local \in DOMAIN g.ref /\ g.ref[local] = d
  BY <1>3 DEF Set
<1>5. IsRecord(h) /\ SameOutside({copy, left}, g.ref, h.ref)
  BY <1>1, <1>3, MoveRefs
<1>6. SameOutside({copy, local, left}, heap.ref, h.ref)
  BY <1>3, <1>5, SameTransitive
<1>7. local \in DOMAIN h.ref /\ h.ref[local] = d
  BY <1>2, <1>4, <1>5 DEF SameOutside
<1> QED
  BY <1>5, <1>6, <1>7 DEF copy, local, left, h

LEMMA ConcatRefs ==
  ASSUME NEW h, NEW k, NEW target, NEW left, NEW right, NEW data, NEW local,
         target # left, target # right, target # data, target # local,
         NEW U, U = {target, left, right, data, local}
  PROVE  LET g == Concat(h, k, target, left, right, data, local)
         IN  /\ SameOutside(U, h.ref, g.ref)
             /\ data \in DOMAIN g.ref /\ g.ref[data] = k
<1> DEFINE a == h.ref[data]
           b == h.ref[local]
           h1 == Retain(h, target, k)
           h2 == Retain(h1, left, a)
           h3 == Retain(h2, right, b)
           h4 == Release(h3, data)
           h5 == Release(h4, local)
           g == Move(h5, target, data)
<1>1. h1.ref = Set(h.ref, target, k)
  BY DEF Retain
<1>2. target \in DOMAIN h1.ref /\ h1.ref[target] = k
  <2> HIDE DEF h1
  <2> QED
    BY <1>1 DEF Set
<1>3. SameOutside({target}, h.ref, h1.ref)
  BY RetainSame
<1> HIDE DEF h1, a, b
<1>4. SameOutside({left}, h1.ref, h2.ref)
  BY RetainSame
<1> HIDE DEF h2
<1>5. SameOutside({right}, h2.ref, h3.ref)
  BY RetainSame
<1> HIDE DEF h3
<1>6. SameOutside({data}, h3.ref, h4.ref)
  BY ReleaseSame
<1>7. SameOutside({local}, h4.ref, h5.ref) /\ IsRecord(h5)
  BY ReleaseSame DEF IsRecord, Release
<1> HIDE DEF h4, h5
<1>8. /\ SameOutside({target, data}, h5.ref, g.ref)
      /\ data \in DOMAIN g.ref /\ g.ref[data] = h5.ref[target]
  BY <1>7, MoveRefs
<1> HIDE DEF g
<1>9. h5.ref[target] = k
  BY <1>2, <1>4, <1>5, <1>6, <1>7 DEF SameOutside
<1>10. SameOutside(U, h.ref, g.ref)
  <2>1. SameOutside(U, h.ref, h2.ref)
    BY <1>3, <1>4, SameTransitive
  <2>2. SameOutside(U, h2.ref, h4.ref)
    BY <1>5, <1>6, SameTransitive
  <2>3. SameOutside(U, h4.ref, g.ref)
    BY <1>7, <1>8, SameTransitive
  <2>4. SameOutside(U, h.ref, h4.ref)
    BY <2>1, <2>2, SameTransitive
  <2> QED
    BY <2>3, <2>4, SameTransitive
<1>11. g = Concat(h, k, target, left, right, data, local)
  BY DEF g, h5, h4, h3, h2, h1, a, b, Concat
<1> QED
  BY <1>8, <1>9, <1>10, <1>11

LEMMA DeliverKeeps ==
  ASSUME IInv, ChunksRead, NEW t \in Thread, Deliver(t),
         NEW bytes, bytes = DataBytes(t), NEW passed, passed = CreatedBytes(t)
  PROVE  /\ StepKeeps({t} \X Local)
         /\ <<t, "data">> \in DOMAIN heap'.ref
         /\ LET o == heap.ref[<<t, "data">>]
            IN  (object[o].kind \in {"data", "chunkData"} /\ object[o].bytes = bytes \o passed)'
<1> DEFINE data == <<t, "data">>
           local == <<t, "localData">>
           target == <<t, "target">>
           copy == <<t, "copy">>
           S == {t} \X Local
<1>1. /\ pc[t] = "deliver" /\ Balanced(heap) /\ passed \in Seq(Nat)
      /\ IF Ref(t, "data") = NULL THEN GatherFirst(t) ELSE Gather(t)
  BY PassedPlain DEF Deliver, At, IInv
<1>2. /\ {data, local, target, copy} \subseteq S
      /\ data # local /\ local # target /\ data # target /\ local # copy /\ target # copy
      /\ data # copy
  BY DEF Local
<1>3. CASE Ref(t, "data") = NULL
  <2>1. PICK d \in Fresh(heap, t) :
          /\ heap' = Move(Created(heap, t, d), local, data)
          /\ object' = [object EXCEPT ![d] = Memory("chunkData", {"left"}, passed)]
    BY <1>1, <1>3 DEF GatherFirst
  <2> DEFINE h == Created(heap, t, d)
             left == <<d, "left">>
  <2>2. {d} \subseteq Unused /\ left \in Unused \X Field
    BY <2>1, FreshUnused
  <2>3. /\ IsRecord(h) /\ SameOutside({copy, local, left}, heap.ref, h.ref)
        /\ local \in DOMAIN h.ref /\ h.ref[local] = d
    BY <1>1, CreatedRefs
  <2>4. /\ SameOutside({local, data}, h.ref, heap'.ref)
        /\ data \in DOMAIN heap'.ref /\ heap'.ref[data] = d
    <3> HIDE DEF local, data, copy, left, h
    <3> QED
      BY <2>1, <2>3, MoveRefs DEF h
  <2>5. /\ \A o \in Object : o \notin {d} => object'[o] = object[o]
        /\ object'[d] = Memory("chunkData", {"left"}, passed)
    BY <2>1, <2>2 DEF IInv, TypeOK, Unused
  <2>6. StepKeeps(S)
    <3> HIDE DEF local, data, copy, target, left, h, S
    <3>1. SameOutside({copy, local, left, data}, heap.ref, heap'.ref)
      BY <2>3, <2>4, SameTransitive
    <3> QED
      BY <1>2, <2>2, <2>5, <3>1, KeepsIfUnused
  <2>7. bytes = <<>>
    <3>1. data \in DOMAIN heap.ref => Ref(t, "data") \in Object
      BY <1>1 DEF Balanced, Ref, Target
    <3> QED
      BY <1>3, <3>1, OwnersApart DEF DataBytes
  <2>8. bytes \o passed = passed
    BY <1>1, <2>7
  <2> QED
    BY <2>4, <2>5, <2>6, <2>8 DEF Memory
<1>4. CASE Ref(t, "data") # NULL
  <2>1. data \in DOMAIN heap.ref /\ object[Ref(t, "data")].bytes = bytes
    BY <1>4 DEF Ref, Target, DataBytes
  <2>2. PICK d \in Fresh(heap, t) : \E k \in Fresh(Created(heap, t, d), t) :
          /\ heap' = Gathered(Created(heap, t, d), t, k)
          /\ object' = [object EXCEPT
               ![d] = Memory("chunkData", {"left"}, passed),
               ![k] = Memory("data", {"left", "right"}, bytes \o passed)]
    BY <1>1, <1>4, <2>1 DEF Gather
  <2> DEFINE h == Created(heap, t, d)
  <2>3. PICK k \in Fresh(h, t) :
          /\ heap' = Gathered(h, t, k)
          /\ object' = [object EXCEPT
               ![d] = Memory("chunkData", {"left"}, passed),
               ![k] = Memory("data", {"left", "right"}, bytes \o passed)]
    BY <2>2
  <2> DEFINE dLeft == <<d, "left">>
             left == <<k, "left">>
             right == <<k, "right">>
             U == {target, left, right, data, local}
  <2>4. /\ d \in Object /\ heap.count[d] = 0 /\ Balanced(h)
        /\ \A x \in Object : h.count[x] = IF x = d THEN heap.count[x] + 1 ELSE heap.count[x]
    BY <1>1, <2>2, CreatedBalanced
  <2>5. k \in Object /\ h.count[k] = 0
    BY <2>3, <2>4, FreshIsUnused
  <2>6. /\ {d, k} \subseteq Unused /\ d # k
        /\ dLeft \in Unused \X Field /\ left \in Unused \X Field /\ right \in Unused \X Field
    <3> HIDE DEF h
    <3>1. heap.count[k] \in Int /\ heap.count[d] = 0
      BY <1>1, <2>4, <2>5 DEF Balanced
    <3>2. d # k
      BY <2>4, <2>5
    <3>3. heap.count[k] = 0
      BY <2>4, <2>5, <3>1, <3>2
    <3> QED
      BY <2>4, <2>5, <3>2, <3>3 DEF Field, Unused
  <2>7. SameOutside({copy, local, dLeft}, heap.ref, h.ref)
    BY <1>1, CreatedRefs
  <2>8. /\ SameOutside(U, h.ref, heap'.ref)
        /\ data \in DOMAIN heap'.ref /\ heap'.ref[data] = k
    <3>1. heap' = Concat(h, k, target, left, right, data, local)
      BY <2>3 DEF Gathered, Concatenated, Concat
    <3>2. target # left /\ target # right /\ target # data /\ target # local
      BY <2>5, OwnersApart
    <3> HIDE DEF data, local, target, copy, left, right, dLeft, h
    <3> DEFINE g == Concat(h, k, target, left, right, data, local)
    <3>3. SameOutside(U, h.ref, g.ref) /\ data \in DOMAIN g.ref /\ g.ref[data] = k
      <4>1. U = {target, left, right, data, local}
        OBVIOUS
      <4> HIDE DEF U
      <4> QED
        BY <3>2, <4>1, ConcatRefs
    <3> HIDE DEF g
    <3>4. heap' = g
      BY <3>1 DEF g
    <3> QED
      BY <3>3, <3>4
  <2>9. /\ \A o \in Object : o \notin {d, k} => object'[o] = object[o]
        /\ object'[k] = Memory("data", {"left", "right"}, bytes \o passed)
    BY <2>3, <2>6 DEF IInv, TypeOK, Unused
  <2>10. StepKeeps(S)
    <3> HIDE DEF local, data, copy, target, left, right, dLeft, h, S
    <3>1. SameOutside({copy, local, dLeft, target, left, right, data}, heap.ref, heap'.ref)
      BY <2>7, <2>8, SameTransitive
    <3> QED
      BY <1>2, <2>6, <2>9, <3>1, KeepsIfUnused
  <2> QED
    BY <2>8, <2>9, <2>10 DEF Memory
<1> QED
  BY <1>3, <1>4

(***************************************************************************)
(* Vectors keep their bytes.                                               *)
(***************************************************************************)
CInv == VectorsHold /\ ChunksRead

LEMMA VectorsHoldStep ==
  ASSUME IInv, VectorsHold, NEW S, StepKeeps(S), S \cap OfObjects = {},
         \A v \in Vector : \A i \in DOMAIN vector'[v] : vector'[v][i].kind = "Buffered" =>
           \/ /\ <<v, i>> \notin S
              /\ i \in DOMAIN vector[v] /\ vector'[v][i] = vector[v][i]
           \/ StorageHolds(heap.ref[<<v, i>>], vector[v][i].chunks[1])'
  PROVE  VectorsHold'
<1> SUFFICES ASSUME NEW v \in Vector, NEW i \in DOMAIN vector'[v],
                    vector'[v][i].kind = "Buffered",
                    <<v, i>> \notin S, i \in DOMAIN vector[v], vector'[v][i] = vector[v][i]
             PROVE  StorageHolds(heap.ref[<<v, i>>], vector[v][i].chunks[1])'
  BY DEF VectorsHold
<1>1. PICK slot : slot = <<v, i>>
  OBVIOUS
<1>2. PICK bytes : bytes = vector[v][i].chunks[1]
  OBVIOUS
<1>3. PICK s : s = heap.ref[slot]
  OBVIOUS
<1>4. /\ slot \in DOMAIN heap.ref /\ s \in Object /\ heap.count[s] > 0
      /\ StorageHolds(s, bytes)
  BY <1>1, <1>2, <1>3, BufferedSlots DEF VectorsHold
<1>5. slot \notin PointerSlots /\ slot \notin Unused \X Field
  BY <1>1, OwnersApart DEF PointerSlots, Unused
<1>6. heap'.ref[slot] = s
  BY <1>1, <1>3, <1>4, <1>5, SlotKept
<1>7. StorageHolds(s, bytes)'
  BY <1>4, StorageKept
<1> QED
  BY <1>1, <1>2, <1>6, <1>7

LEMMA ChunksReadStep ==
  ASSUME IInv, ChunksRead, NEW S, StepKeeps(S), NEW T,
         \A u \in Thread \ T : <<u, "copy">> \notin S,
         \A u \in Thread \ T : pc'[u] = "deliver" =>
           /\ pc[u] = "deliver" /\ call'[u] = call[u]
           /\ vector'[call[u].vector] = vector[call[u].vector],
         \A u \in T : pc'[u] = "deliver" =>
           ChunkRead(u, ItemOf(call[u]).chunks[call[u].chunk])'
  PROVE  ChunksRead'
<1> SUFFICES ASSUME NEW u \in Thread \ T, pc'[u] = "deliver"
             PROVE  ChunkRead(u, ItemOf(call[u]).chunks[call[u].chunk])'
  BY DEF ChunksRead
<1>1. PICK slot : slot = <<u, "copy">>
  OBVIOUS
<1>2. /\ slot \in DOMAIN heap.ref /\ slot \notin S
      /\ ChunkRead(u, ItemOf(call[u]).chunks[call[u].chunk])
  BY <1>1 DEF IInv, CallsOK, ChunksRead
<1>3. slot \notin PointerSlots /\ slot \notin Unused \X Field
  BY <1>1, OwnersApart DEF PointerSlots, Unused
<1>4. /\ heap'.ref[slot] = heap.ref[slot]
      /\ object'[heap.ref[slot]].kind = object[heap.ref[slot]].kind
      /\ object[heap.ref[slot]].kind # "mutableData" =>
           object'[heap.ref[slot]].bytes = object[heap.ref[slot]].bytes
  BY <1>2, <1>3, SlotKept
<1>5. (ItemOf(call[u]).chunks[call[u].chunk])' = ItemOf(call[u]).chunks[call[u].chunk]
  BY DEF ItemOf
<1> QED
  BY <1>1, <1>2, <1>4, <1>5 DEF ChunkRead

(* A step of the program or of the queue on no vector.                     *)
LEMMA ObjectCInv ==
  ASSUME IInv, CInv, StepKeeps({}), UNCHANGED <<vector, pc, call>>
  PROVE  CInv'
<1>1. VectorsHold'
  BY VectorsHoldStep DEF CInv
<1>2. ChunksRead'
  <2> DEFINE T == {}
  <2>1. \A u \in Thread \ T : <<u, "copy">> \notin {}
    OBVIOUS
  <2>2. /\ \A u \in Thread \ T : pc'[u] = "deliver" =>
             /\ pc[u] = "deliver" /\ call'[u] = call[u]
             /\ vector'[call[u].vector] = vector[call[u].vector]
        /\ \A u \in T : pc'[u] = "deliver" =>
             ChunkRead(u, ItemOf(call[u]).chunks[call[u].chunk])'
    OBVIOUS
  <2> HIDE DEF T
  <2> QED
    BY <2>1, <2>2, ChunksReadStep DEF CInv
<1> QED
  BY <1>1, <1>2 DEF CInv

(* A step of the program on the vector v, which no thread reads.           *)
LEMMA VectorCInv ==
  ASSUME IInv, CInv, NEW v \in Vector, ~Reading(v), NEW i \in Nat, NEW slot, slot = <<v, i>>, StepKeeps({slot}),
         \A w \in Vector : w # v => vector'[w] = vector[w], UNCHANGED <<pc, call>>,
         \A j \in DOMAIN vector'[v] : vector'[v][j].kind = "Buffered" =>
           \/ j # i /\ j \in DOMAIN vector[v] /\ vector'[v][j] = vector[v][j]
           \/ StorageHolds(heap.ref[<<v, j>>], vector[v][j].chunks[1])'
  PROVE  CInv'
<1> DEFINE S == {slot}
<1>1. S \cap OfObjects = {}
  BY OwnersApart DEF OfObjects
<1>3. VectorsHold'
  <2>1. ASSUME NEW w \in Vector, NEW j \in DOMAIN vector'[w], vector'[w][j].kind = "Buffered"
        PROVE  \/ /\ <<w, j>> \notin S
                  /\ j \in DOMAIN vector[w] /\ vector'[w][j] = vector[w][j]
               \/ StorageHolds(heap.ref[<<w, j>>], vector[w][j].chunks[1])'
    <3>1. CASE w = v
      BY <2>1, <3>1
    <3>2. CASE w # v
      BY <2>1, <3>2
    <3> QED
      BY <3>1, <3>2
  <2> HIDE DEF S
  <2> QED
    BY <1>1, <2>1, VectorsHoldStep DEF CInv, S
<1>2. ChunksRead'
  <2> DEFINE T == {}
  <2>1. \A u \in Thread \ T : <<u, "copy">> \notin S
    BY OwnersApart
  <2>2. \A u \in Thread \ T : pc'[u] = "deliver" =>
          /\ pc[u] = "deliver" /\ call'[u] = call[u]
          /\ vector'[call[u].vector] = vector[call[u].vector]
    BY DEF IInv, CallsOK, Reading
  <2>3. \A u \in T : pc'[u] = "deliver" =>
          ChunkRead(u, ItemOf(call[u]).chunks[call[u].chunk])'
    OBVIOUS
  <2> HIDE DEF T, S
  <2> QED
    BY <2>1, <2>2, <2>3, ChunksReadStep DEF CInv, S
<1> QED
  BY <1>2, <1>3 DEF CInv

(* A step of the call of the thread t.                                     *)
LEMMA CallCInv ==
  ASSUME IInv, CInv, NEW t \in Thread, StepKeeps({t} \X Local), UNCHANGED vector,
         \A u \in Thread \ {t} : pc'[u] = pc[u] /\ call'[u] = call[u],
         pc'[t] = "deliver" => ChunkRead(t, ItemOf(call[t]).chunks[call[t].chunk])'
  PROVE  CInv'
<1> DEFINE S == {t} \X Local
<1>1. S \cap OfObjects = {} /\ \A v \in Vector : \A i : <<v, i>> \notin S
  BY OwnersApart DEF OfObjects
<1>2. VectorsHold'
  <2> HIDE DEF S
  <2> QED
    BY <1>1, VectorsHoldStep DEF CInv, S
<1>3. ChunksRead'
  <2> DEFINE T == {t}
  <2>1. /\ \A u \in Thread \ T : <<u, "copy">> \notin S
        /\ \A u \in Thread \ T : pc'[u] = "deliver" =>
             /\ pc[u] = "deliver" /\ call'[u] = call[u]
             /\ vector'[call[u].vector] = vector[call[u].vector]
        /\ \A u \in T : pc'[u] = "deliver" =>
             ChunkRead(u, ItemOf(call[u]).chunks[call[u].chunk])'
    OBVIOUS
  <2> HIDE DEF T, S
  <2> QED
    BY <2>1, ChunksReadStep DEF CInv, S
<1> QED
  BY <1>2, <1>3 DEF CInv

LEMMA KeepsMore ==
  ASSUME NEW S, NEW T, S \subseteq T, StepKeeps(S)
  PROVE  StepKeeps(T)
BY DEF StepKeeps, SameOutside

LEMMA AppendItemCInv ==
  ASSUME IInv, CInv, NEW v \in Vector, NEW item \in Items, AppendItem(v, item)
  PROVE  CInv'
<1> DEFINE n == Len(vector[v]) + 1
           items == Append(vector[v], item)
<1>1. /\ ~Reading(v) /\ vector' = [vector EXCEPT ![v] = items] /\ UNCHANGED <<pc, call>>
  BY DEF AppendItem
<1>2. PICK slot : slot = <<v, n>>
  OBVIOUS
<1>3. StepKeeps({slot}) /\ (item.kind = "Buffered" => StorageHolds(heap.ref[slot], item.chunks[1])')
  BY <1>2, AppendItemKeeps
<1>4. /\ n \in Nat /\ DOMAIN items = DOMAIN vector[v] \cup {n} /\ items[n] = item
      /\ \A j \in DOMAIN vector[v] : j # n /\ items[j] = vector[v][j]
  BY DEF IInv, TypeOK
<1>5. PICK m, list : m \in Nat /\ m = n /\ list = items /\ slot = <<v, m>>
  BY <1>2, <1>4
<1>6. \A j \in DOMAIN list : list[j].kind = "Buffered" =>
        \/ j # m /\ j \in DOMAIN vector[v] /\ list[j] = vector[v][j]
        \/ StorageHolds(heap.ref[<<v, j>>], list[j].chunks[1])'
  BY <1>2, <1>3, <1>4, <1>5
<1>7. vector'[v] = list /\ \A w \in Vector : w # v => vector'[w] = vector[w]
  BY <1>1, <1>5 DEF IInv, TypeOK
<1> HIDE DEF n, items
<1> QED
  BY <1>1, <1>3, <1>5, <1>6, <1>7, VectorCInv

LEMMA AppendSharedCInv ==
  ASSUME IInv, CInv, NEW v \in Vector, NEW w \in Vector, NEW k \in DOMAIN vector[w],
         AppendShared(v, w, k)
  PROVE  CInv'
<1> DEFINE n == Len(vector[v]) + 1
           items == Append(vector[v], vector[w][k])
<1>1. /\ ~Reading(v) /\ vector' = [vector EXCEPT ![v] = items] /\ UNCHANGED <<pc, call>>
      /\ vector[w][k].kind = "Buffered"
  BY DEF AppendShared
<1>2. PICK slot, s, bytes : slot = <<v, n>> /\ s = Ref(w, k) /\ bytes = vector[w][k].chunks[1]
  OBVIOUS
<1>3. StepKeeps({slot}) /\ heap'.ref[slot] = s
  BY <1>2, AppendSharedKeeps
<1>4. /\ n \in Nat /\ DOMAIN items = DOMAIN vector[v] \cup {n} /\ items[n] = vector[w][k]
      /\ \A j \in DOMAIN vector[v] : j # n /\ items[j] = vector[v][j]
  BY DEF IInv, TypeOK
<1>5. PICK m, list : m \in Nat /\ m = n /\ list = items /\ slot = <<v, m>>
  BY <1>2, <1>4
<1>6. StorageHolds(s, bytes)'
  <2>1. s \in Object /\ heap.count[s] > 0 /\ StorageHolds(s, bytes)
    BY <1>1, <1>2, BufferedSlots DEF CInv, VectorsHold
  <2>2. {slot} \cap OfObjects = {}
    BY <1>2, OwnersApart DEF OfObjects
  <2> QED
    BY <1>3, <2>1, <2>2, StorageKept
<1>7. \A j \in DOMAIN list : list[j].kind = "Buffered" =>
        \/ j # m /\ j \in DOMAIN vector[v] /\ list[j] = vector[v][j]
        \/ StorageHolds(heap.ref[<<v, j>>], list[j].chunks[1])'
  BY <1>2, <1>3, <1>4, <1>5, <1>6
<1>8. vector'[v] = list /\ \A x \in Vector : x # v => vector'[x] = vector[x]
  BY <1>1, <1>5 DEF IInv, TypeOK
<1> HIDE DEF n, items
<1> QED
  BY <1>1, <1>3, <1>5, <1>7, <1>8, VectorCInv

LEMMA DropItemCInv ==
  ASSUME IInv, CInv, NEW v \in Vector, DropItem(v)
  PROVE  CInv'
<1> DEFINE n == Len(vector[v])
           items == Front(vector[v])
<1>1. /\ ~Reading(v) /\ vector' = [vector EXCEPT ![v] = items] /\ UNCHANGED <<pc, call>>
      /\ vector[v] # <<>>
  BY DEF DropItem
<1>2. PICK slot : slot = <<v, n>>
  OBVIOUS
<1>3. StepKeeps({slot})
  BY <1>2, DropItemKeeps
<1>4. n \in Nat /\ \A j \in DOMAIN items : j # n /\ j \in DOMAIN vector[v] /\ items[j] = vector[v][j]
  <2>1. vector[v] \in Seq(Item)
    BY DEF IInv, TypeOK
  <2> QED
    BY <1>1, <2>1 DEF Front
<1>5. PICK m, list : m \in Nat /\ m = n /\ list = items /\ slot = <<v, m>>
  BY <1>2, <1>4
<1>6. \A j \in DOMAIN list : list[j].kind = "Buffered" =>
        \/ j # m /\ j \in DOMAIN vector[v] /\ list[j] = vector[v][j]
        \/ StorageHolds(heap.ref[<<v, j>>], list[j].chunks[1])'
  BY <1>4, <1>5
<1>7. vector'[v] = list /\ \A w \in Vector : w # v => vector'[w] = vector[w]
  BY <1>1, <1>5 DEF IInv, TypeOK
<1> HIDE DEF n, items
<1> QED
  BY <1>1, <1>3, <1>5, <1>6, <1>7, VectorCInv

LEMMA FromNSDataCInv ==
  ASSUME IInv, CInv, NEW v \in Vector, NEW p \in Pointer, FromNSData(v, p)
  PROVE  CInv'
<1>1. /\ ~Reading(v) /\ UNCHANGED <<pc, call>>
  BY DEF FromNSData
<1>2. PICK bytes \in Seq(Nat) :
        /\ vector' = [vector EXCEPT ![v] = <<Buffered(bytes)>>]
        /\ StorageHolds(heap.ref[<<v, 1>>], bytes)'
  BY FromNSDataKeeps
<1>3. PICK slot : slot = <<v, 1>> /\ StepKeeps({slot})
  BY FromNSDataKeeps
<1>4. PICK list : list = <<Buffered(bytes)>>
  OBVIOUS
<1>5. \A j \in DOMAIN list : j = 1 /\ list[j].chunks[1] = bytes
  BY <1>4 DEF Buffered
<1>6. \A j \in DOMAIN list : list[j].kind = "Buffered" =>
        \/ j # 1 /\ j \in DOMAIN vector[v] /\ list[j] = vector[v][j]
        \/ StorageHolds(heap.ref[<<v, j>>], list[j].chunks[1])'
  BY <1>2, <1>5
<1>7. /\ vector'[v] = list /\ \A w \in Vector : w # v => vector'[w] = vector[w]
      /\ 1 \in Nat
  BY <1>2, <1>4 DEF IInv, TypeOK
<1> QED
  BY <1>1, <1>3, <1>6, <1>7, VectorCInv

(* In the calls that copy a chunk.                                         *)
LEMMA CopyCInv ==
  ASSUME IInv, CInv, NEW t \in Thread, pc' = [pc EXCEPT ![t] = "deliver"],
         UNCHANGED <<vector, call, steps>>, StepKeeps({<<t, "copy">>}),
         NEW bytes, bytes = ItemOf(call[t]).chunks[call[t].chunk], ChunkRead(t, bytes)'
  PROVE  CInv'
<1>1. StepKeeps({t} \X Local)
  <2> DEFINE slot == <<t, "copy">>
  <2>1. {slot} \subseteq {t} \X Local
    BY DEF Local
  <2> HIDE DEF slot
  <2> QED
    BY <2>1, KeepsMore DEF slot
<1>2. ChunkRead(t, ItemOf(call[t]).chunks[call[t].chunk])'
  BY DEF ItemOf
<1>3. \A u \in Thread \ {t} : pc'[u] = pc[u] /\ call'[u] = call[u]
  BY DEF IInv, TypeOK
<1> QED
  BY <1>1, <1>2, <1>3, CallCInv

LEMMA OnlyChunk ==
  ASSUME IInv, NEW t \in Thread, pc[t] = "iterate", More(t), ItemOf(call[t]).kind # "File"
  PROVE  call[t].chunk = 1
<1>1. Plain(ItemOf(call[t])) /\ call[t].chunk \in DOMAIN ItemOf(call[t]).chunks
      /\ ItemOf(call[t]).chunks \in Seq(Seq(Nat))
  BY ItemRead DEF Item
<1> QED
  BY <1>1 DEF Plain

LEMMA CopyBufferedCInv ==
  ASSUME IInv, CInv, NEW t \in Thread, CopyBuffered(t)
  PROVE  CInv'
<1>1. /\ pc' = [pc EXCEPT ![t] = "deliver"] /\ UNCHANGED <<vector, call, steps>>
      /\ call[t].chunk = 1
  BY OnlyChunk DEF CopyBuffered, At
<1>2. PICK bytes : bytes = ItemOf(call[t]).chunks[1] /\ ChunkRead(t, bytes)'
  BY CopyBufferedKeeps DEF CInv
<1>3. StepKeeps({<<t, "copy">>})
  BY CopyBufferedKeeps DEF CInv
<1> QED
  BY <1>1, <1>2, <1>3, CopyCInv

LEMMA CopyDirectValueCInv ==
  ASSUME IInv, CInv, NEW t \in Thread, CopyDirectValue(t)
  PROVE  CInv'
<1>1. /\ pc' = [pc EXCEPT ![t] = "deliver"] /\ UNCHANGED <<vector, call, steps>>
      /\ call[t].chunk = 1
  BY OnlyChunk DEF CopyDirectValue, At
<1>2. PICK bytes : bytes = ItemOf(call[t]).chunks[1]
  OBVIOUS
<1>3. StepKeeps({<<t, "copy">>}) /\ ChunkRead(t, bytes)'
  BY <1>2, PlainCopyKeeps DEF CopyDirectValue
<1> QED
  BY <1>1, <1>2, <1>3, CopyCInv

LEMMA ReadFileCInv ==
  ASSUME IInv, CInv, NEW t \in Thread, ReadFile(t)
  PROVE  CInv'
<1>1. /\ pc' = [pc EXCEPT ![t] = "deliver"] /\ UNCHANGED <<vector, call, steps>>
  BY DEF ReadFile
<1>2. PICK bytes : bytes = ItemOf(call[t]).chunks[call[t].chunk]
  OBVIOUS
<1>3. StepKeeps({<<t, "copy">>}) /\ ChunkRead(t, bytes)'
  BY <1>2, PlainCopyKeeps DEF ReadFile
<1> QED
  BY <1>1, <1>2, <1>3, CopyCInv

(* All other steps of a call.                                              *)
LEMMA OtherStepKeeps ==
  ASSUME IInv, CInv, NEW t \in Thread,
         \/ ReadFails(t) \/ Deliver(t)
         \/ ReturnError(t) \/ ReturnData(t) \/ ReturnNoData(t)
         \/ PutSame(t) \/ PutRetain(t) \/ PutRelease(t) \/ PutStore(t)
  PROVE  /\ StepKeeps({t} \X Local) /\ UNCHANGED vector /\ pc'[t] # "deliver"
         /\ \A u \in Thread \ {t} : pc'[u] = pc[u] /\ call'[u] = call[u]
<1> DEFINE S == {t} \X Local
           Rest == /\ UNCHANGED vector /\ pc'[t] # "deliver"
                   /\ \A u \in Thread \ {t} : pc'[u] = pc[u] /\ call'[u] = call[u]
<1>0. pc \in [Thread -> Place] /\ call \in [Thread -> Call]
  BY DEF IInv, TypeOK
<1>1. CASE ReadFails(t)
  <2>1. StepKeeps({<<t, "copy">>})
    BY <1>1, ReadFailsKeeps
  <2>2. StepKeeps(S)
    <3> DEFINE slot == <<t, "copy">>
    <3>1. {slot} \subseteq S
      BY DEF Local
    <3> HIDE DEF slot, S
    <3> QED
      BY <2>1, <3>1, KeepsMore DEF slot
  <2>3. Rest
    BY <1>0, <1>1 DEF ReadFails, At
  <2> QED
    BY <2>2, <2>3
<1>2. CASE Deliver(t)
  <2>1. PICK bytes, passed : bytes = DataBytes(t) /\ passed = CreatedBytes(t)
    OBVIOUS
  <2>2. StepKeeps(S)
    BY <1>2, <2>1, DeliverKeeps DEF CInv
  <2>3. ~PassesAgain(t)
    BY <1>2, PassedPlain DEF CInv, Deliver, At
  <2>4. Rest
    BY <1>0, <1>2, <2>3 DEF Deliver
  <2> QED
    BY <2>2, <2>4
<1>3. CASE ReturnError(t)
  BY <1>0, <1>3, ReturnErrorKeeps DEF ReturnError, Return
<1>4. CASE ReturnData(t)
  BY <1>0, <1>4, ReturnDataKeeps DEF ReturnData
<1>5. CASE ReturnNoData(t)
  BY <1>0, <1>5, ReturnNoDataKeeps DEF ReturnNoData
<1>6. CASE PutSame(t)
  BY <1>0, <1>6, PutSameKeeps DEF PutSame, Return
<1>7. CASE PutRetain(t)
  <2>1. StepKeeps({<<t, "target">>})
    BY <1>7, PutRetainKeeps
  <2>2. StepKeeps(S)
    <3> DEFINE slot == <<t, "target">>
    <3>1. {slot} \subseteq S
      BY DEF Local
    <3> HIDE DEF slot, S
    <3> QED
      BY <2>1, <3>1, KeepsMore DEF slot
  <2>3. Rest
    BY <1>0, <1>7 DEF PutRetain
  <2> QED
    BY <2>2, <2>3
<1>8. CASE PutRelease(t)
  <2>1. StepKeeps({}) /\ {} \subseteq S
    BY <1>8, PutReleaseKeeps
  <2>2. StepKeeps(S)
    <3> HIDE DEF S
    <3> QED
      BY <2>1, KeepsMore
  <2>3. Rest
    BY <1>0, <1>8 DEF PutRelease
  <2> QED
    BY <2>2, <2>3
<1>9. CASE PutStore(t)
  BY <1>0, <1>9, PutStoreKeeps DEF PutStore, Return
<1> QED
  BY <1>1, <1>2, <1>3, <1>4, <1>5, <1>6, <1>7, <1>8, <1>9

LEMMA NextCInv == IInv /\ CInv /\ [Next]_vars => CInv'
<1> SUFFICES ASSUME IInv, CInv, [Next]_vars PROVE CInv'
  OBVIOUS
<1>1. CASE Vectors
  BY <1>1, AppendItemCInv, AppendSharedCInv, DropItemCInv DEF Vectors
<1>2. CASE Pointers
  <2>1. ASSUME NEW p \in Pointer, NEW kind, NEW bytes, NewData(p, kind, bytes) PROVE CInv'
    BY <2>1, NewDataKeeps, ObjectCInv DEF NewData
  <2>2. ASSUME NEW p \in Pointer, SetLength(p) PROVE CInv'
    BY <2>2, SetLengthKeeps, ObjectCInv DEF SetLength
  <2>3. ASSUME NEW p \in Pointer, DestroyPointer(p) PROVE CInv'
    BY <2>3, DestroyPointerKeeps, ObjectCInv DEF DestroyPointer
  <2> QED
    BY <1>2, <2>1, <2>2, <2>3 DEF Pointers
<1>3. CASE Calls
  <2>1. ASSUME NEW t \in Thread, NEW v \in Vector, NEW p \in Pointer, ToNSData(t, v, p)
        PROVE  CInv'
    <3>1. /\ StepKeeps({t} \X Local) /\ UNCHANGED vector /\ pc'[t] # "deliver"
          /\ \A u \in Thread \ {t} : pc'[u] = pc[u] /\ call'[u] = call[u]
      BY <2>1, NoMemoryKeeps DEF ToNSData, IInv, TypeOK
    <3> QED
      BY <3>1, CallCInv
  <2>2. ASSUME NEW t \in Thread, NEW p \in Pointer, NEW q \in Pointer, Assign(t, p, q)
        PROVE  CInv'
    <3>1. /\ StepKeeps({t} \X Local) /\ UNCHANGED vector /\ pc'[t] # "deliver"
          /\ \A u \in Thread \ {t} : pc'[u] = pc[u] /\ call'[u] = call[u]
      BY <2>2, NoMemoryKeeps DEF Assign, IInv, TypeOK
    <3> QED
      BY <3>1, CallCInv
  <2> QED
    BY <1>3, <2>1, <2>2, FromNSDataCInv DEF Calls
<1>4. ASSUME NEW t \in Thread, Step(t) PROVE CInv'
  <2>1. CASE CopyBuffered(t) \/ CopyDirectValue(t) \/ ReadFile(t)
    BY <2>1, CopyBufferedCInv, CopyDirectValueCInv, ReadFileCInv
  <2>2. CASE ~(CopyBuffered(t) \/ CopyDirectValue(t) \/ ReadFile(t))
    BY <1>4, <2>2, OtherStepKeeps, CallCInv DEF Step
  <2> QED
    BY <2>1, <2>2
<1>5. CASE Cleanup
  BY <1>5, FinalizeKeeps, ObjectCInv DEF Cleanup, Finalize
<1>6. CASE UNCHANGED vars
  BY <1>6, NoMemoryKeeps, ObjectCInv DEF vars
<1> QED
  BY <1>1, <1>2, <1>3, <1>4, <1>5, <1>6 DEF Next

LEMMA InitCInv == Init => CInv
<1> SUFFICES ASSUME Init PROVE CInv
  OBVIOUS
<1> QED
  BY DEF Init, CInv, VectorsHold, ChunksRead

(***************************************************************************)
(* The theorems.                                                           *)
(***************************************************************************)
LEMMA InvariantHolds == ASSUME ViewsOfOneChunk PROVE Spec => [](IInv /\ CInv)
<1>1. Init => IInv /\ CInv
  BY InitIInv, InitCInv
<1>2. (IInv /\ CInv) /\ [Next]_vars => (IInv /\ CInv)'
  BY NextIInv, NextCInv DEF CInv
<1> QED
  BY <1>1, <1>2, PTL DEF Spec

(* Counts are integers, and references are in slots and refer to objects,  *)
(* in every program whose Views are of one chunk.                          *)
THEOREM TypeCorrect == ASSUME ViewsOfOneChunk PROVE Spec => []TypeOK
<1>1. IInv => TypeOK
  BY DEF IInv
<1> QED
  BY <1>1, InvariantHolds, PTL

(* No call leaks a reference, and none releases one twice: whichever reads *)
(* fail, in whichever order the queue runs the destructors of chunks.      *)
THEOREM NothingLeaks == ASSUME ViewsOfOneChunk PROVE Spec => []CountsBalance
<1>1. IInv => CountsBalance
  BY IInvImplies
<1> QED
  BY <1>1, InvariantHolds, PTL

(* What can be reached is allocated, down to the bytes: vectors, NSData    *)
(* objects and chunks can be let go of in any order.                       *)
THEOREM NothingDangles == ASSUME ViewsOfOneChunk PROVE Spec => []BytesStayValid
<1>1. IInv => BytesStayValid
  BY IInvImplies
<1> QED
  BY <1>1, InvariantHolds, PTL

(* A vector keeps its bytes, whatever its program does to the NSData that  *)
(* some of them are in, or to vectors that share them.                     *)
THEOREM NothingOverwritten == ASSUME ViewsOfOneChunk PROVE Spec => []VectorsKeepBytes
<1>1. ASSUME IInv, CInv PROVE VectorsKeepBytes
  <2> SUFFICES ASSUME NEW v \in Vector, NEW i \in DOMAIN vector[v], vector[v][i].kind = "Buffered"
               PROVE  StorageBytes(Ref(v, i)) = vector[v][i].chunks[1]
    BY DEF VectorsKeepBytes
  <2>1. StorageHolds(Ref(v, i), vector[v][i].chunks[1])
    BY <1>1, BufferedSlots DEF CInv, VectorsHold
  <2> QED
    BY <1>1, <2>1, HoldsBytes DEF IInv
<1> QED
  BY <1>1, InvariantHolds, PTL
=============================================================================
