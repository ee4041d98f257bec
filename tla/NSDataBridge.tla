---------------------------- MODULE NSDataBridge ----------------------------
(***************************************************************************)
(* Memory that ByteVectors and NSData objects share                        *)
(* (src/src/byte_vector_objc.mm): toNSData() keeps the bytes that          *)
(* iterate() hands out, each chunk with a destructor, alive in dispatch    *)
(* data; fromNSData() keeps an NSData alive in a storage; ns_ptr counts    *)
(* the references that a C++ program has to the objects.                   *)
(*                                                                         *)
(* Threads share objects but not variables: while a call of one thread     *)
(* uses a variable, the others leave it alone.  The destructors of chunks  *)
(* run later, on a global queue, in any order.                             *)
(***************************************************************************)
EXTENDS Integers, Sequences, SequencesExt, FiniteSets, Functions

CONSTANTS
  Thread,
  Vector,    \* variables that hold a ByteVector
  Pointer,   \* variables that hold an ns_ptr<NSData *>
  NULL,
  Items,     \* storage values that programs append to a vector
  Datas,     \* contents of the NSData objects that programs make
  MaxItems,  \* bound: storage values in a vector
  MaxSteps,  \* bound: operations, and appended chunks, of the program in a behavior
  Arena      \* the addresses from which a thread allocates memory

(* Each thread allocates memory from an arena of its own; so does what     *)
(* happens in one step, on any thread.                                     *)
Object == UNION {Arena[a] : a \in Thread \cup {"any"}}

ASSUME ArenaAssumption ==
  /\ \A a \in Thread \cup {"any"} : Arena[a] \subseteq Nat
  /\ IsFiniteSet(Object)
ASSUME BoundsAssumption == MaxItems \in Nat /\ MaxSteps \in Nat
ASSUME DistinctAssumption ==
  /\ NULL \notin Object \cup Vector \cup Pointer
  /\ Thread \cap Vector = {} /\ Thread \cap Pointer = {} /\ Thread \cap Object = {}
  /\ Vector \cap Pointer = {} /\ Vector \cap Object = {} /\ Pointer \cap Object = {}

(* A storage value: Buffered, DirectValue or File, whole or in a View.     *)
(* chunks are the pieces in which iterate() reads it: one, except that a   *)
(* file is read through a buffer.  offset and length are those of a View.  *)
Item == [kind : {"Buffered", "DirectValue", "File"}, chunks : Seq(Seq(Nat)) \ {<<>>},
         view : BOOLEAN, offset : Nat, length : Nat]

ASSUME ItemsAssumption ==
  /\ Items \subseteq Item /\ Datas \subseteq Seq(Nat)
  /\ \A item \in Items :
       /\ item.kind # "File" => Len(item.chunks) = 1
       /\ ~item.view => item.offset = 0

VARIABLES
  heap,    \* reference counts, and who holds the references
  object,  \* what is in the memory
  vector,  \* a vector's storage values, from left to right
  pc,      \* where a thread's call is
  call,    \* its parameters and local variables
  steps    \* operations of the program so far

vars == <<heap, object, vector, pc, call, steps>>

(***************************************************************************)
(* Reference counting.  A slot is a place that can hold one reference: a   *)
(* variable, a member of a heap object, or a storage value of a vector.    *)
(* heap.count is what CFRetain, dispatch_release, shared_ptr and so on     *)
(* count; heap.ref[s] is the object that slot s has been counted for, and  *)
(* empty slots are not in its domain.                                      *)
(* What is not counted (the chunks of iterate) has count 1 until its       *)
(* destructor runs.                                                        *)
(***************************************************************************)
Local == {"copy", "data", "localData", "returnValue", "target"}
Field == {"left", "right"}

Slot == (Thread \X Local) \cup (Object \X Field)
          \cup (Vector \X (1 .. MaxItems)) \cup (Pointer \X {"_target"})

Set(r, s, o) == [x \in DOMAIN r \cup {s} |-> IF x = s THEN o ELSE r[x]]
Clear(r, s) == Restrict(r, DOMAIN r \ {s})

Retain(h, s, o) ==
  [count |-> [h.count EXCEPT ![o] = @ + 1], ref |-> Set(h.ref, s, o)]

Release(h, s) ==
  [count |-> [h.count EXCEPT ![h.ref[s]] = @ - 1], ref |-> Clear(h.ref, s)]

(* Hands a reference over, without counting.                               *)
Move(h, from, to) == [h EXCEPT !.ref = Set(Clear(@, from), to, h.ref[from])]

ReleaseUnlessNull(h, s) == IF s \in DOMAIN h.ref THEN Release(h, s) ELSE h

(* Memory for a new object.                                                *)
IsUnused(h, o) == h.count[o] = 0 /\ \A f \in Field : <<o, f>> \notin DOMAIN h.ref

Fresh(h, a) ==
  LET unused == {o \in Arena[a] : IsUnused(h, o)}
  IN  IF unused = {} THEN {} ELSE {CHOOSE o \in unused : TRUE}

Target(slot) == IF slot \in DOMAIN heap.ref THEN heap.ref[slot] ELSE NULL
Ref(owner, name) == Target(<<owner, name>>)

(* holds: the references without which the bytes are not valid.            *)
Memory(kind, holds, bytes) == [kind |-> kind, holds |-> holds, bytes |-> bytes]
Nothing == Memory("none", {}, <<>>)

(* A deallocation is over before the thread that caused it goes on; only   *)
(* the destructors of chunks are left to the queue.                        *)
Deallocated ==
  \A s \in DOMAIN heap.ref :
    s[1] \in Object /\ heap.count[s[1]] = 0 => object[s[1]].kind = "chunkData"

(***************************************************************************)
(* Contents of storage values.                                             *)
(***************************************************************************)
BytesOf(item) ==
  IF item.view
    THEN SubSeq(FlattenSeq(item.chunks), item.offset + 1, item.offset + item.length)
    ELSE FlattenSeq(item.chunks)

VectorBytes(v) == FlattenSeq([i \in DOMAIN vector[v] |-> BytesOf(vector[v][i])])

Buffered(bytes) ==
  [kind |-> "Buffered", chunks |-> <<bytes>>, view |-> FALSE, offset |-> 0, length |-> Len(bytes)]

(* Where a Buffered's bytes are: in an NSData, or its own allocation.      *)
StorageBytes(s) ==
  object[IF Ref(s, "left") = NULL THEN s ELSE Ref(s, "left")].bytes

(* append() copies small values into a Buffered operand, or makes one of   *)
(* two DirectValues (BufferedStorage): only what remains apart is here.    *)
StaysApart(items, item) ==
  items # <<>> /\ ~Last(items).view =>
    /\ Last(items).kind = "Buffered" =>
         item.kind = "Buffered" \/ (item.kind = "File" /\ Len(item.chunks) > 1)
    /\ Last(items).kind = "DirectValue" => item.kind # "DirectValue"

(***************************************************************************)
(* Variables of the program.                                               *)
(***************************************************************************)
Idle == [vector |-> NULL, pointer |-> NULL, source |-> <<>>, item |-> 0, chunk |-> 0,
         toSkip |-> 0, toPass |-> 0, again |-> FALSE, lost |-> FALSE]

Reading(v) == \E t \in Thread : call[t].vector = v

InUse(p) ==
  \E t \in Thread : call[t].pointer = p \/ call[t].source = <<p, "_target">>

(* An operation of the program, or the appending of so many chunks.        *)
Operation(cost) == Deallocated /\ steps + cost <= MaxSteps /\ steps' = steps + cost

(* v = v.append(item): with bytes of its own, or sharing a storage.        *)
AppendItem(v, item) ==
  /\ Operation(Len(item.chunks))
  /\ ~Reading(v)
  /\ Len(vector[v]) < MaxItems
  /\ StaysApart(vector[v], item)
  /\ vector' = [vector EXCEPT ![v] = Append(@, item)]
  /\ IF item.kind = "Buffered"
       THEN \E s \in Fresh(heap, "any") :
              /\ heap' = Retain(heap, <<v, Len(vector[v]) + 1>>, s)
              /\ object' = [object EXCEPT ![s] = Memory("storage", {}, item.chunks[1])]
       ELSE UNCHANGED <<heap, object>>
  /\ UNCHANGED <<pc, call>>

(* The same with a storage value of another vector.                        *)
AppendShared(v, w, i) ==
  /\ Operation(1)
  /\ ~Reading(v)
  /\ Len(vector[v]) < MaxItems
  /\ vector[w][i].kind = "Buffered" /\ StaysApart(vector[v], vector[w][i])
  /\ vector' = [vector EXCEPT ![v] = Append(@, vector[w][i])]
  /\ heap' = Retain(heap, <<v, Len(vector[v]) + 1>>, Ref(w, i))
  /\ UNCHANGED <<object, pc, call>>

(* Destroys a vector, from its end.                                        *)
DropItem(v) ==
  /\ Deallocated
  /\ ~Reading(v)
  /\ vector[v] # <<>>
  /\ vector' = [vector EXCEPT ![v] = Front(@)]
  /\ heap' = ReleaseUnlessNull(heap, <<v, Len(vector[v])>>)
  /\ UNCHANGED <<object, pc, call, steps>>

(* p(data), with an NSData or NSMutableData object of the program's.       *)
NewData(p, kind, bytes) ==
  /\ Operation(1)
  /\ ~InUse(p) /\ Ref(p, "_target") = NULL
  /\ \E d \in Fresh(heap, "any") :
       /\ heap' = Retain(heap, <<p, "_target">>, d)
       /\ object' = [object EXCEPT ![d] = Memory(kind, {}, bytes)]
  /\ UNCHANGED <<vector, pc, call>>

(* [data setLength: 0]                                                     *)
SetLength(p) ==
  /\ Deallocated
  /\ ~InUse(p) /\ Ref(p, "_target") # NULL
  /\ object[Ref(p, "_target")].kind = "mutableData"
  /\ object' = [object EXCEPT ![Ref(p, "_target")].bytes = <<>>]
  /\ UNCHANGED <<heap, vector, pc, call, steps>>

(* ~ns_ptr()                                                               *)
DestroyPointer(p) ==
  /\ Deallocated
  /\ ~InUse(p) /\ Ref(p, "_target") # NULL
  /\ heap' = Release(heap, <<p, "_target">>)
  /\ UNCHANGED <<object, vector, pc, call, steps>>

(***************************************************************************)
(* fromNSData: [data copy] is data itself, retained, unless it is mutable. *)
(***************************************************************************)
CopiesNothing(h, data) == {data}

Copies(h, data) ==
  IF object[data].kind = "mutableData" THEN Fresh(h, "any") ELSE {data}

FromNSData(v, p) ==
  /\ Operation(1)
  /\ ~Reading(v) /\ vector[v] = <<>> /\ MaxItems > 0
  /\ ~InUse(p) /\ Ref(p, "_target") # NULL
  /\ LET data == Ref(p, "_target")
     IN \E s \in Fresh(heap, "any") :
          LET h == Retain(heap, <<v, 1>>, s)
          IN \E copy \in Copies(h, data) :
               /\ heap' = Retain(h, <<s, "left">>, copy)
               /\ object' = [object EXCEPT
                    ![copy] = IF copy = data THEN @ ELSE Memory("data", {}, object[data].bytes),
                    ![s] = Memory("storage", {"left"}, <<>>)]
               /\ vector' = [vector EXCEPT ![v] = <<Buffered(object[data].bytes)>>]
  /\ UNCHANGED <<pc, call>>

(***************************************************************************)
(* toNSData: iterate() with provideLongTermBytes.                          *)
(***************************************************************************)
At(t, where) == Deallocated /\ pc[t] = where

ItemOf(c) == vector[c.vector][c.item]
More(t) == call[t].item <= Len(vector[call[t].vector])

(* The call c at its i-th storage value, where a View starts counting.     *)
AtItem(c, i) ==
  [c EXCEPT !.item = i, !.chunk = 1, !.again = FALSE,
            !.toSkip = IF i <= Len(vector[c.vector]) THEN vector[c.vector][i].offset ELSE 0,
            !.toPass = IF i <= Len(vector[c.vector]) THEN vector[c.vector][i].length ELSE 0]

AtNextChunk(c) ==
  IF c.chunk < Len(ItemOf(c).chunks) THEN [c EXCEPT !.chunk = @ + 1, !.again = FALSE]
  ELSE AtItem(c, c.item + 1)

ToNSData(t, v, p) ==
  /\ Operation(1)
  /\ At(t, "idle") /\ ~InUse(p)
  /\ pc' = [pc EXCEPT ![t] = "iterate"]
  /\ call' = [call EXCEPT ![t] = AtItem([Idle EXCEPT !.vector = v, !.pointer = p], 1)]
  /\ UNCHANGED <<heap, object, vector>>

CopyBufferedUncounted(t) ==
  /\ At(t, "iterate") /\ More(t) /\ ItemOf(call[t]).kind = "Buffered"
  /\ LET storage == Ref(call[t].vector, call[t].item)
     IN \E c \in Fresh(heap, t) :
          /\ heap' = [Retain(heap, <<t, "copy">>, c) EXCEPT !.ref = Set(@, <<c, "left">>, storage)]
          /\ object' = [object EXCEPT ![c] = Memory("chunk", {"left"}, StorageBytes(storage))]
  /\ pc' = [pc EXCEPT ![t] = "deliver"]
  /\ UNCHANGED <<vector, call, steps>>

(* new Buffered(bv), new DirectValue(bv), malloc(sizeof(localBuffer)).     *)
CopyBuffered(t) ==
  /\ At(t, "iterate") /\ More(t) /\ ItemOf(call[t]).kind = "Buffered"
  /\ LET storage == Ref(call[t].vector, call[t].item)
     IN \E c \in Fresh(heap, t) :
          /\ heap' = Retain(Retain(heap, <<t, "copy">>, c), <<c, "left">>, storage)
          /\ object' = [object EXCEPT ![c] = Memory("chunk", {"left"}, StorageBytes(storage))]
  /\ pc' = [pc EXCEPT ![t] = "deliver"]
  /\ UNCHANGED <<vector, call, steps>>

CopyDirectValue(t) ==
  /\ At(t, "iterate") /\ More(t) /\ ItemOf(call[t]).kind = "DirectValue"
  /\ \E c \in Fresh(heap, t) :
       /\ heap' = Retain(heap, <<t, "copy">>, c)
       /\ object' = [object EXCEPT ![c] = Memory("chunk", {}, ItemOf(call[t]).chunks[1])]
  /\ pc' = [pc EXCEPT ![t] = "deliver"]
  /\ UNCHANGED <<vector, call, steps>>

(* malloc(), then File::read() into it.                                    *)
ReadFile(t) ==
  /\ At(t, "iterate") /\ More(t) /\ ItemOf(call[t]).kind = "File"
  /\ \E c \in Fresh(heap, t) :
       /\ heap' = Retain(heap, <<t, "copy">>, c)
       /\ object' = [object EXCEPT ![c] =
            Memory("chunk", {}, ItemOf(call[t]).chunks[call[t].chunk])]
  /\ pc' = [pc EXCEPT ![t] = "deliver"]
  /\ UNCHANGED <<vector, call, steps>>

(* A tree of appends leans to the left.  Its root tells of an error of its *)
(* own operands, of which the left one is an Append if there are more than *)
(* two values; an Append inside drops the error, and its right operand.    *)
ErrorReturned(c) == Len(vector[c.vector]) <= 2 \/ c.item = Len(vector[c.vector])
AfterError(c) == AtItem([c EXCEPT !.lost = TRUE], IF c.item = 1 THEN 3 ELSE c.item + 1)

(* The buffer is freed again.                                              *)
ReadFails(t) ==
  /\ At(t, "iterate") /\ More(t) /\ ItemOf(call[t]).kind = "File"
  /\ \E c \in Fresh(heap, t) :
       heap' = Release(Retain(heap, <<t, "copy">>, c), <<t, "copy">>)
  /\ IF ErrorReturned(call[t])
       THEN pc' = [pc EXCEPT ![t] = "fail"] /\ UNCHANGED call
       ELSE call' = [call EXCEPT ![t] = AfterError(@)] /\ UNCHANGED pc
  /\ UNCHANGED <<object, vector, steps>>

(***************************************************************************)
(* wrapperF of a View, and the callback of toNSData.                       *)
(***************************************************************************)
ChunkBytes(t) == object[Ref(t, "copy")].bytes

Remaining(t) == Len(ChunkBytes(t)) - call[t].toSkip

Skipped(t) ==
  ItemOf(call[t]).view /\ (Remaining(t) <= 0 \/ call[t].toPass = 0)

(* How much is passed, and whether wrapperF goes on to pass more of the    *)
(* same chunk.                                                             *)
Passed(t) ==
  IF ItemOf(call[t]).view /\ call[t].toPass < Remaining(t) THEN call[t].toPass ELSE Remaining(t)

PassesAgain(t) ==
  /\ ItemOf(call[t]).view /\ ~call[t].again
  /\ call[t].toPass > Remaining(t)
  /\ call[t].toPass - Remaining(t) <= Remaining(t)

(* dispatch_data_create(): the block that calls the destructor belongs to  *)
(* the new object.                                                         *)
Created(h, t, d) ==
  LET created == Retain(h, <<t, "localData">>, d)
  IN  IF PassesAgain(t)
        THEN [created EXCEPT !.ref = Set(@, <<d, "left">>, h.ref[<<t, "copy">>])]
        ELSE Move(created, <<t, "copy">>, <<d, "left">>)

CreatedBytesFromStart(t) == SubSeq(ChunkBytes(t), 1, Passed(t))

CreatedBytes(t) ==
  SubSeq(ChunkBytes(t), call[t].toSkip + 1, call[t].toSkip + Passed(t))

(* dispatch_data_create_concat() retains both; then both are released.     *)
Concatenated(h, t, d) ==
  Retain(Retain(Retain(h, <<t, "target">>, d),
                <<d, "left">>, h.ref[<<t, "data">>]),
         <<d, "right">>, h.ref[<<t, "localData">>])

Gathered(h, t, d) ==
  Move(Release(Release(Concatenated(h, t, d), <<t, "data">>), <<t, "localData">>),
       <<t, "target">>, <<t, "data">>)

(* Of what is skipped nothing is passed on, and the destructor not called. *)
Skip(t) ==
  /\ heap' = [heap EXCEPT !.ref = Clear(@, <<t, "copy">>)]
  /\ UNCHANGED object

(* data = localData                                                        *)
GatherFirst(t) ==
  \E d \in Fresh(heap, t) :
    /\ heap' = Move(Created(heap, t, d), <<t, "localData">>, <<t, "data">>)
    /\ object' = [object EXCEPT ![d] = Memory("chunkData", {"left"}, CreatedBytes(t))]

Gather(t) ==
  \E d \in Fresh(heap, t) : \E h \in {Created(heap, t, d)} : \E k \in Fresh(h, t) :
    /\ heap' = Gathered(h, t, k)
    /\ object' = [object EXCEPT
         ![d] = Memory("chunkData", {"left"}, CreatedBytes(t)),
         ![k] = Memory("data", {"left", "right"},
                       object[Ref(t, "data")].bytes \o CreatedBytes(t))]

(* toSkip and toPass, after a chunk and before wrapperF's second call.     *)
Counted(t) ==
  IF Skipped(t)
    THEN [call[t] EXCEPT !.toSkip = IF Remaining(t) <= 0 THEN -Remaining(t) ELSE 0]
    ELSE [call[t] EXCEPT !.toSkip = IF PassesAgain(t) THEN @ ELSE 0,
                         !.toPass = @ - Passed(t)]

Deliver(t) ==
  /\ At(t, "deliver")
  /\ IF Skipped(t) THEN Skip(t)
     ELSE IF Ref(t, "data") = NULL THEN GatherFirst(t) ELSE Gather(t)
  /\ IF ~Skipped(t) /\ PassesAgain(t)
       THEN /\ call' = [call EXCEPT ![t] = [Counted(t) EXCEPT !.again = TRUE]]
            /\ UNCHANGED pc
       ELSE /\ call' = [call EXCEPT ![t] = AtNextChunk(Counted(t))]
            /\ pc' = [pc EXCEPT ![t] = "iterate"]
  /\ UNCHANGED <<vector, steps>>

Return(t) ==
  /\ pc' = [pc EXCEPT ![t] = "idle"]
  /\ call' = [call EXCEPT ![t] = Idle]

ReturnErrorKeepsData(t) ==
  /\ At(t, "fail")
  /\ Return(t)
  /\ UNCHANGED <<heap, object, vector, steps>>

(* dispatch_release(data), if there is any; the error is the result.       *)
ReturnError(t) ==
  /\ At(t, "fail")
  /\ heap' = ReleaseUnlessNull(heap, <<t, "data">>)
  /\ Return(t)
  /\ UNCHANGED <<object, vector, steps>>

ReturnDataKeepsData(t) ==
  /\ At(t, "iterate") /\ ~More(t)
  /\ Ref(t, "data") # NULL
  /\ heap' = Retain(heap, <<t, "returnValue">>, Ref(t, "data"))
  /\ pc' = [pc EXCEPT ![t] = "put"]
  /\ call' = [call EXCEPT ![t].source = <<t, "returnValue">>]
  /\ UNCHANGED <<object, vector, steps>>

(* make_ns_ptr(data), then dispatch_release(data); or [NSData data].       *)
ReturnData(t) ==
  /\ At(t, "iterate") /\ ~More(t)
  /\ Ref(t, "data") # NULL
  /\ heap' = Release(Retain(heap, <<t, "returnValue">>, Ref(t, "data")), <<t, "data">>)
  /\ pc' = [pc EXCEPT ![t] = "put"]
  /\ call' = [call EXCEPT ![t].source = <<t, "returnValue">>]
  /\ UNCHANGED <<object, vector, steps>>

ReturnNoData(t) ==
  /\ At(t, "iterate") /\ ~More(t)
  /\ Ref(t, "data") = NULL
  /\ \E d \in Fresh(heap, t) :
       /\ heap' = Retain(heap, <<t, "returnValue">>, d)
       /\ object' = [object EXCEPT ![d] = Memory("data", {}, <<>>)]
  /\ pc' = [pc EXCEPT ![t] = "put"]
  /\ call' = [call EXCEPT ![t].source = <<t, "returnValue">>]
  /\ UNCHANGED <<vector, steps>>

(***************************************************************************)
(* ns_ptr's assignment: of another variable, or of what toNSData returns.  *)
(***************************************************************************)
Assign(t, p, q) ==
  /\ Operation(1)
  /\ At(t, "idle") /\ ~InUse(p) /\ ~InUse(q)
  /\ pc' = [pc EXCEPT ![t] = "put"]
  /\ call' = [call EXCEPT ![t] = [Idle EXCEPT !.pointer = p, !.source = <<q, "_target">>]]
  /\ UNCHANGED <<heap, object, vector>>

Source(t) == Target(call[t].source)

(* Already referencing this value?  A temporary that was assigned, the     *)
(* result of toNSData, is destroyed.                                       *)
PutSame(t) ==
  /\ At(t, "put") /\ Ref(call[t].pointer, "_target") = Source(t)
  /\ heap' = ReleaseUnlessNull(heap, <<t, "returnValue">>)
  /\ Return(t)
  /\ UNCHANGED <<object, vector, steps>>

PutRetainUnchecked(t) ==
  /\ At(t, "put") /\ Ref(call[t].pointer, "_target") # Source(t)
  /\ heap' = Retain(heap, <<t, "target">>, Source(t))
  /\ pc' = [pc EXCEPT ![t] = "release"]
  /\ UNCHANGED <<object, vector, call, steps>>

PutRetainUnlessNull(t) ==
  /\ At(t, "put") /\ Ref(call[t].pointer, "_target") # Source(t)
  /\ IF Source(t) = NULL THEN Return(t) /\ UNCHANGED heap
     ELSE /\ heap' = Retain(heap, <<t, "target">>, Source(t))
          /\ pc' = [pc EXCEPT ![t] = "release"]
          /\ UNCHANGED call
  /\ UNCHANGED <<object, vector, steps>>

PutRetain(t) ==
  /\ At(t, "put") /\ Ref(call[t].pointer, "_target") # Source(t)
  /\ heap' = IF Source(t) = NULL THEN heap ELSE Retain(heap, <<t, "target">>, Source(t))
  /\ pc' = [pc EXCEPT ![t] = "release"]
  /\ UNCHANGED <<object, vector, call, steps>>

PutRelease(t) ==
  /\ At(t, "release")
  /\ heap' = ReleaseUnlessNull(heap, <<call[t].pointer, "_target">>)
  /\ pc' = [pc EXCEPT ![t] = "store"]
  /\ UNCHANGED <<object, vector, call, steps>>

PutStore(t) ==
  /\ At(t, "store")
  /\ \E h \in {IF <<t, "target">> \notin DOMAIN heap.ref THEN heap
               ELSE Move(heap, <<t, "target">>, <<call[t].pointer, "_target">>)} :
       heap' = ReleaseUnlessNull(h, <<t, "returnValue">>)
  /\ Return(t)
  /\ UNCHANGED <<object, vector, steps>>

(***************************************************************************)
(* What happens to an object without references: its own references are    *)
(* released.  For data of dispatch_data_create this is the destructor that *)
(* the global queue runs, for a storage its destructorFunction.            *)
(***************************************************************************)
Finalize(s) ==
  /\ heap.count[s[1]] = 0
  /\ s[2] = "right" => <<s[1], "left">> \notin DOMAIN heap.ref
  /\ object[s[1]].kind = "chunkData" => Deallocated
  /\ heap' = Release(heap, s)
  /\ UNCHANGED <<object, vector, pc, call, steps>>

(***************************************************************************)
(* The specification.                                                      *)
(***************************************************************************)
Init ==
  /\ heap = [count |-> [o \in Object |-> 0], ref |-> <<>>]
  /\ object \in [Object -> {Nothing}]
  /\ vector = [v \in Vector |-> <<>>]
  /\ pc = [t \in Thread |-> "idle"]
  /\ call = [t \in Thread |-> Idle]
  /\ steps = 0

Vectors ==
  \/ \E v \in Vector, item \in Items : AppendItem(v, item)
  \/ \E v, w \in Vector : \E i \in DOMAIN vector[w] : AppendShared(v, w, i)
  \/ \E v \in Vector : DropItem(v)

Pointers ==
  \/ \E p \in Pointer, bytes \in Datas, kind \in {"data", "mutableData"} : NewData(p, kind, bytes)
  \/ \E p \in Pointer : SetLength(p)
  \/ \E p \in Pointer : DestroyPointer(p)

Calls ==
  \/ \E t \in Thread, v \in Vector, p \in Pointer : ToNSData(t, v, p)
  \/ \E t \in Thread, p, q \in Pointer : Assign(t, p, q)
  \/ \E v \in Vector, p \in Pointer : FromNSData(v, p)

(* What a thread does within a call.                                       *)
Step(t) ==
  \/ CopyBuffered(t) \/ CopyDirectValue(t) \/ ReadFile(t) \/ ReadFails(t)
  \/ Deliver(t)
  \/ ReturnError(t) \/ ReturnData(t) \/ ReturnNoData(t)
  \/ PutSame(t) \/ PutRetain(t) \/ PutRelease(t) \/ PutStore(t)

Cleanup == \E s \in DOMAIN heap.ref : s[1] \in Object /\ Finalize(s)

Next ==
  \/ Vectors \/ Pointers \/ Calls
  \/ \E t \in Thread : Step(t)
  \/ Cleanup

Spec == Init /\ [][Next]_vars

(* The queue runs what is submitted to it.                                 *)
FairSpec == Spec /\ WF_vars(Cleanup)

(***************************************************************************)
(* Properties.                                                             *)
(***************************************************************************)
Kind == {"none", "storage", "chunk", "chunkData", "data", "mutableData"}
Place == {"idle", "iterate", "deliver", "fail", "put", "release", "store"}

Call == [vector : Vector \cup {NULL}, pointer : Pointer \cup {NULL}, source : Slot \cup {<<>>},
         item : Nat, chunk : Nat, toSkip : Nat, toPass : Int, again : BOOLEAN, lost : BOOLEAN]

(* Counts are integers, and references are in slots and refer to objects.  *)
TypeOK ==
  /\ heap = [count |-> heap.count, ref |-> heap.ref]
  /\ heap.count \in [Object -> Int]
  /\ DOMAIN heap.ref \subseteq Slot /\ heap.ref \in [DOMAIN heap.ref -> Object]
  /\ object \in [Object -> [kind : Kind, holds : SUBSET Field, bytes : Seq(Nat)]]
  /\ vector \in [Vector -> Seq(Item)] /\ \A v \in Vector : Len(vector[v]) <= MaxItems
  /\ pc \in [Thread -> Place]
  /\ call \in [Thread -> Call]
  /\ steps \in 0 .. MaxSteps

Holders(h, o) == {s \in DOMAIN h.ref : h.ref[s] = o}

(* Every reference that is counted is held by someone who will release it, *)
(* and by nobody twice: nothing leaks and nothing is released too often,   *)
(* whichever call fails where.                                             *)
CountsBalance ==
  /\ \A o \in Object : heap.count[o] = Cardinality(Holders(heap, o))
  /\ \A t \in Thread : pc[t] = "idle" => \A name \in Local : Ref(t, name) = NULL

(* What can be reached is allocated, all the way to the bytes: chunks of a *)
(* vector outlive it while data made from it is in use, and NSData objects *)
(* outlive the program's reference while a vector is.                      *)
BytesStayValid ==
  \A o \in Object : heap.count[o] > 0 =>
    \A f \in object[o].holds : Ref(o, f) # NULL /\ heap.count[Ref(o, f)] > 0

(* A vector made by fromNSData keeps its bytes when the program changes    *)
(* the NSMutableData it was made from.                                     *)
VectorsKeepBytes ==
  \A v \in Vector : \A i \in DOMAIN vector[v] :
    vector[v][i].kind = "Buffered" => StorageBytes(Ref(v, i)) = vector[v][i].chunks[1]

(* toNSData returns the vector's bytes, and until then has gathered a part *)
(* of them from the front, unless it dropped a read error of an Append.    *)
ToNSDataExact ==
  \A t \in Thread : call[t].vector # NULL /\ ~call[t].lost =>
    /\ Ref(t, "data") # NULL =>
         IsPrefix(object[Ref(t, "data")].bytes, VectorBytes(call[t].vector))
    /\ Ref(t, "returnValue") # NULL =>
         object[Ref(t, "returnValue")].bytes = VectorBytes(call[t].vector)

(* When the program has let go of everything, so do the queue and the      *)
(* objects: all memory is freed.                                           *)
Quiet ==
  /\ \A t \in Thread : pc[t] = "idle"
  /\ \A v \in Vector : vector[v] = <<>>
  /\ \A p \in Pointer : Ref(p, "_target") = NULL

Reclaimed == Quiet ~> (~Quiet \/ \A o \in Object : IsUnused(heap, o))

(* Nor can they get stuck before that: no objects keep each other alive.   *)
(* Data shares chunks of vectors whose storages show NSData, but never     *)
(* comes round to itself, whatever is made of what.                        *)
NothingStranded ==
  Quiet /\ (\A s \in DOMAIN heap.ref : s[1] \in Object => heap.count[s[1]] > 0) =>
    \A o \in Object : IsUnused(heap, o)

(***************************************************************************)
(* What a program can tell apart: the contents of DataValues.              *)
(***************************************************************************)

(* What is read of a vector now: a Buffered's bytes are those in memory.   *)
InMemory(v, i) ==
  IF vector[v][i].kind = "Buffered"
    THEN [vector[v][i] EXCEPT !.chunks = <<StorageBytes(Ref(v, i))>>]
    ELSE vector[v][i]

HasFile(v) == \E i \in DOMAIN vector[v] : vector[v][i].kind = "File"

Value(v) ==
  [bytes |-> FlattenSeq([i \in DOMAIN vector[v] |-> BytesOf(InMemory(v, i))]),
   file |-> HasFile(v)]

(* put() takes effect when it releases what the pointer referred to: that  *)
(* may be gone before _target is set.                                      *)
Stores(t, p) == pc[t] = "store" /\ call[t].pointer = p

Referenced(p) ==
  IF \E t \in Thread : Stores(t, p) THEN Ref(CHOOSE t \in Thread : Stores(t, p), "target")
  ELSE Ref(p, "_target")

Shown(o) ==
  [id |-> o,
   mutable |-> o # NULL /\ object[o].kind = "mutableData",
   bytes |-> IF o = NULL THEN <<>> ELSE object[o].bytes]

ReadFrom(c) ==
  IF c.vector # NULL \/ c.source = <<>> THEN c.vector ELSE c.source[1]

Pending(t) ==
  [from |-> ReadFrom(call[t]), to |-> call[t].pointer,
   lost |-> call[t].lost, stored |-> pc[t] = "store"]

(* Vectors and NSData objects behave as values: no result of a call, in    *)
(* whichever order threads go on and memory is freed and used again, is    *)
(* other than if every call were one step on values without memory.        *)
Abs == INSTANCE DataValues
         WITH value <- [v \in Vector |-> Value(v)],
              data <- [p \in Pointer |-> Shown(Referenced(p))],
              call <- [t \in Thread |-> Pending(t)]

Implements == Abs!Spec

(* ByteVector::iterate(): the destructor "MUST be called exactly once".    *)
DestroyedOnce == \A o \in Object : heap.count[o] >= 0
=============================================================================
