-------------------------- MODULE BufferedStorage ---------------------------
(***************************************************************************)
(* struct Buffered of src/src/byte_vector.hpp: in-memory vectors that may  *)
(* share one UnderlyingStorage, and Buffered::internalAppend run by many   *)
(* threads at once.  A Buffered is a (storage, length) pair; the storage   *)
(* holds usedLength bytes in an allocation of allocatedLength.  An append  *)
(* to a vector that ends exactly at usedLength claims the bytes after it   *)
(* with one compare-and-swap and writes them in place, in memory that      *)
(* other vectors are reading; any other append goes to a new allocation.   *)
(*                                                                         *)
(* The compare-and-swap is one step.  memcpy and read() are one step per   *)
(* byte, so that the threads' accesses interleave at the finest grain.     *)
(***************************************************************************)
EXTENDS Integers, Sequences

CONSTANTS
  Threads,
  Vectors,     \* Buffered objects: roots of a ByteVector, Append operands...
  Storages,    \* UnderlyingStorage objects
  Byte,
  Garbage,     \* what memory from new uint8_t[] holds before it is written
  None,        \* no vector, no storage
  Sources,     \* contents given to constructors
  FileBacked,  \* the vectors that stand for a File, whose read may fail
  MaxLength,   \* bound: longest vector an append may be asked for
  kMinimumUnderlyingStorageSize,
  kReallocationFactor,
  kMaximumAlwaysInternalAppendSize

ASSUME SourcesAssumption == Sources \subseteq Seq(Byte)
ASSUME NoneAssumption    == /\ None \notin [storage : Storages, length : Nat]
                            /\ None \notin Vectors \cup Storages
                            /\ None \notin Seq(Byte \cup {Garbage})
ASSUME FilesAssumption   == FileBacked \subseteq Vectors
ASSUME SizesAssumption   == /\ MaxLength \in Nat
                            /\ kMinimumUnderlyingStorageSize \in Nat
                            /\ kReallocationFactor \in Nat
                            /\ kMaximumAlwaysInternalAppendSize \in Nat

VARIABLES
  vec,             \* vec[v]: [storage, length] of a live vector, or None
  usedLength,      \* usedLength[s], the atomic of UnderlyingStorage
  allocatedLength, \* allocatedLength[s]
  bytes,           \* bytes[s]: the memory, indexed from 0
  pc,              \* pc[t]: "idle", "called" or "fill"
  lhs, rhs,        \* lhs[t], rhs[t]: operands of the append t is running
  dst,             \* dst[t]: the vector the append will return
  dest,            \* dest[t]: the storage the result is written to
  copied           \* copied[t]: leading bytes of the result in place

memory == <<usedLength, allocatedLength, bytes>>
calls  == <<pc, lhs, rhs, dst, dest, copied>>
vars   == <<vec, memory, calls>>

Cell == Byte \cup {Garbage}

NoMemory == [i \in 0 .. -1 |-> Garbage]

(***************************************************************************)
(* Vectors and storage.                                                    *)
(***************************************************************************)
Live(v) == vec[v] # None

Length(v) == vec[v].length

ByteAt(v, i) == bytes[vec[v].storage][i]

(* The bytes of a live vector: the value it stands for.                    *)
Contents(v) == [i \in 1 .. Length(v) |-> ByteAt(v, i - 1)]

Busy(t) == pc[t] # "idle"

Filling(t) == pc[t] = "fill"

(* The shared_ptrs to a storage, apart from that of vector v: those of the *)
(* live vectors and that of the result a running append is building.       *)
OwnedBesides(v, s) ==
  \/ \E w \in Vectors \ {v} : Live(w) /\ vec[w].storage = s
  \/ \E t \in Threads : Filling(t) /\ dest[t] = s

Owned(s) == OwnedBesides(None, s)

(* v can name a new vector: it is not live and no append will return it.   *)
Unused(v) == ~Live(v) /\ \A t \in Threads : Busy(t) => dst[t] # v

(***************************************************************************)
(* Construction, copies, destruction.                                      *)
(***************************************************************************)
Construct(v, s, data) ==
  /\ Unused(v) /\ ~Owned(s)
  /\ vec' = [vec EXCEPT ![v] = [storage |-> s, length |-> Len(data)]]
  /\ usedLength' = [usedLength EXCEPT ![s] = Len(data)]
  /\ allocatedLength' = [allocatedLength EXCEPT ![s] = Len(data)]
  /\ bytes' = [bytes EXCEPT ![s] = [i \in 0 .. Len(data) - 1 |-> data[i + 1]]]
  /\ UNCHANGED calls

(* Copies share the storage.  iterate() with provideLongTermBytes makes    *)
(* such a copy too, and its destructor callback destroys it.               *)
CopyConstruct(v, w) ==
  /\ Live(v) /\ Unused(w)
  /\ v \in FileBacked <=> w \in FileBacked
  /\ vec' = [vec EXCEPT ![w] = vec[v]]
  /\ UNCHANGED <<memory, calls>>

(* The last shared_ptr runs ~UnderlyingStorage, which frees the memory.    *)
Release(s) ==
  /\ usedLength' = [usedLength EXCEPT ![s] = 0]
  /\ allocatedLength' = [allocatedLength EXCEPT ![s] = 0]
  /\ bytes' = [bytes EXCEPT ![s] = NoMemory]

(* The caller of append() keeps both operands until the call returns.      *)
Destroy(v) ==
  /\ Live(v)
  /\ \A t \in Threads : Busy(t) => v \notin {lhs[t], rhs[t]}
  /\ vec' = [vec EXCEPT ![v] = None]
  /\ IF OwnedBesides(v, vec[v].storage) THEN UNCHANGED memory
                                       ELSE Release(vec[v].storage)
  /\ UNCHANGED calls

(***************************************************************************)
(* internalAppend.                                                         *)
(***************************************************************************)
Call(t, l, r, v) ==
  /\ ~Busy(t)
  /\ Live(l) /\ Live(r) /\ Unused(v)
  /\ l \notin FileBacked /\ v \notin FileBacked
  /\ Length(l) + Length(r) <= MaxLength
  /\ pc' = [pc EXCEPT ![t] = "called"]
  /\ lhs' = [lhs EXCEPT ![t] = l]
  /\ rhs' = [rhs EXCEPT ![t] = r]
  /\ dst' = [dst EXCEPT ![t] = v]
  /\ UNCHANGED <<vec, memory, dest, copied>>

OtherLength(t) == Length(rhs[t])

ResultLength(t) == Length(lhs[t]) + OtherLength(t)

(* Faulty variants, named for what they get wrong, precede the operator    *)
(* they replace when a run is tested for what it can detect.               *)
CanReserveNoRoomCheck(t) ==
  usedLength[vec[lhs[t]].storage] = Length(lhs[t])

CanReservePlainLoad(t) ==
  OtherLength(t) <= allocatedLength[vec[lhs[t]].storage] - Length(lhs[t])

(* otherLength <= allocatedLength - length, and the compare-and-swap of    *)
(* usedLength from length to length + otherLength finds length there.      *)
CanReserve(t) ==
  LET s == vec[lhs[t]].storage
  IN  /\ OtherLength(t) <= allocatedLength[s] - Length(lhs[t])
      /\ usedLength[s] = Length(lhs[t])

StartFill(t, s, done) ==
  /\ pc' = [pc EXCEPT ![t] = "fill"]
  /\ dest' = [dest EXCEPT ![t] = s]
  /\ copied' = [copied EXCEPT ![t] = done]
  /\ UNCHANGED <<lhs, rhs, dst>>

Reserve(t) ==
  /\ pc[t] = "called"
  /\ CanReserve(t)
  /\ LET s == vec[lhs[t]].storage
     IN  /\ usedLength' = [usedLength EXCEPT ![s] = ResultLength(t)]
         /\ StartFill(t, s, Length(lhs[t]))
  /\ UNCHANGED <<vec, allocatedLength, bytes>>

(* max({length + otherLength, length * kReallocationFactor, kMinimum...})  *)
NewLengths(t) ==
  LET candidates == { ResultLength(t),
                      Length(lhs[t]) * kReallocationFactor,
                      kMinimumUnderlyingStorageSize }
  IN  { n \in candidates : \A m \in candidates : m <= n }

ReallocateSwappedSizes(t, s) ==
  /\ pc[t] = "called"
  /\ ~CanReserve(t)
  /\ OtherLength(t) <= kMaximumAlwaysInternalAppendSize
  /\ ~Owned(s)
  /\ \E n \in NewLengths(t) :
       /\ usedLength' = [usedLength EXCEPT ![s] = n]
       /\ bytes' = [bytes EXCEPT ![s] = [i \in 0 .. n - 1 |-> Garbage]]
  /\ allocatedLength' = [allocatedLength EXCEPT ![s] = ResultLength(t)]
  /\ StartFill(t, s, 0)
  /\ UNCHANGED vec

ReallocateOldUsedLength(t, s) ==
  /\ pc[t] = "called"
  /\ ~CanReserve(t)
  /\ OtherLength(t) <= kMaximumAlwaysInternalAppendSize
  /\ ~Owned(s)
  /\ \E n \in NewLengths(t) :
       /\ allocatedLength' = [allocatedLength EXCEPT ![s] = n]
       /\ bytes' = [bytes EXCEPT ![s] = [i \in 0 .. n - 1 |-> Garbage]]
  /\ usedLength' = [usedLength EXCEPT ![s] = Length(lhs[t])]
  /\ StartFill(t, s, 0)
  /\ UNCHANGED vec

(* Allocates, tries the compare-and-swap again, frees, and so on.          *)
ReallocateRetries(t, s) ==
  /\ pc[t] = "called"
  /\ ~CanReserve(t)
  /\ OtherLength(t) <= kMaximumAlwaysInternalAppendSize
  /\ ~Owned(s) \/ dest[t] = s
  /\ dest' = [dest EXCEPT ![t] = IF @ = None THEN s ELSE None]
  /\ UNCHANGED <<vec, memory, pc, lhs, rhs, dst, copied>>

(* Either test failed and otherLength is small: a new storage, private to  *)
(* this call until it returns.  It starts with usedLength at the result's. *)
Reallocate(t, s) ==
  /\ pc[t] = "called"
  /\ ~CanReserve(t)
  /\ OtherLength(t) <= kMaximumAlwaysInternalAppendSize
  /\ ~Owned(s)
  /\ \E n \in NewLengths(t) :
       /\ allocatedLength' = [allocatedLength EXCEPT ![s] = n]
       /\ bytes' = [bytes EXCEPT ![s] = [i \in 0 .. n - 1 |-> Garbage]]
  /\ usedLength' = [usedLength EXCEPT ![s] = ResultLength(t)]
  /\ StartFill(t, s, 0)
  /\ UNCHANGED vec

(* The call returns and its locals are gone.                               *)
EndCall(t) ==
  /\ pc' = [pc EXCEPT ![t] = "idle"]
  /\ lhs' = [lhs EXCEPT ![t] = None]
  /\ rhs' = [rhs EXCEPT ![t] = None]
  /\ dst' = [dst EXCEPT ![t] = None]
  /\ dest' = [dest EXCEPT ![t] = None]
  /\ copied' = [copied EXCEPT ![t] = 0]

(* nothing<Buffered>(): append() builds an Append node over the operands.  *)
Decline(t) ==
  /\ pc[t] = "called"
  /\ ~CanReserve(t)
  /\ OtherLength(t) > kMaximumAlwaysInternalAppendSize
  /\ EndCall(t)
  /\ UNCHANGED <<vec, memory>>

(* operator new may throw std::bad_alloc; nothing was changed yet.         *)
BadAlloc(t) ==
  /\ pc[t] = "called"
  /\ ~CanReserve(t)
  /\ OtherLength(t) <= kMaximumAlwaysInternalAppendSize
  /\ EndCall(t)
  /\ UNCHANGED <<vec, memory>>

ResultByteSwapped(t, i) ==
  IF i < OtherLength(t) THEN ByteAt(rhs[t], i)
                        ELSE ByteAt(lhs[t], i - OtherLength(t))

(* The byte of the result at index i, read from the operand that has it.   *)
ResultByte(t, i) ==
  IF i < Length(lhs[t]) THEN ByteAt(lhs[t], i)
                        ELSE ByteAt(rhs[t], i - Length(lhs[t]))

(* The next byte of memcpy(newStorage, bytes(), length), then of read(rhs, *)
(* ... + length, 0, otherLength, true).                                    *)
FillByte(t) ==
  /\ Filling(t) /\ copied[t] < ResultLength(t)
  /\ bytes' = [bytes EXCEPT ![dest[t]][copied[t]] = ResultByte(t, copied[t])]
  /\ copied' = [copied EXCEPT ![t] = @ + 1]
  /\ UNCHANGED <<vec, usedLength, allocatedLength, pc, lhs, rhs, dst, dest>>

(* read(rhs, ...) of a file fails; internalAppend ignores what it returns. *)
ReadFails(t) ==
  /\ Filling(t)
  /\ rhs[t] \in FileBacked
  /\ copied[t] \in Length(lhs[t]) .. ResultLength(t) - 1
  /\ copied' = [copied EXCEPT ![t] = ResultLength(t)]
  /\ UNCHANGED <<vec, memory, pc, lhs, rhs, dst, dest>>

Return(t) ==
  /\ Filling(t) /\ copied[t] = ResultLength(t)
  /\ vec' = [vec EXCEPT ![dst[t]] =
               [storage |-> dest[t], length |-> ResultLength(t)]]
  /\ EndCall(t)
  /\ UNCHANGED memory

(***************************************************************************)
(* The specification.                                                      *)
(***************************************************************************)
Init ==
  /\ vec = [v \in Vectors |-> None]
  /\ usedLength = [s \in Storages |-> 0]
  /\ allocatedLength = [s \in Storages |-> 0]
  /\ bytes = [s \in Storages |-> NoMemory]
  /\ pc = [t \in Threads |-> "idle"]
  /\ lhs = [t \in Threads |-> None]
  /\ rhs = [t \in Threads |-> None]
  /\ dst = [t \in Threads |-> None]
  /\ dest = [t \in Threads |-> None]
  /\ copied = [t \in Threads |-> 0]

Step(t) ==
  \/ Reserve(t)
  \/ \E s \in Storages : Reallocate(t, s)
  \/ Decline(t)
  \/ BadAlloc(t)
  \/ FillByte(t)
  \/ ReadFails(t)
  \/ Return(t)

Next ==
  \/ \E v \in Vectors, s \in Storages, data \in Sources : Construct(v, s, data)
  \/ \E v, w \in Vectors : CopyConstruct(v, w)
  \/ \E v \in Vectors : Destroy(v)
  \/ \E t \in Threads, l, r, v \in Vectors : Call(t, l, r, v)
  \/ \E t \in Threads : Step(t)

Spec == Init /\ [][Next]_vars

(* The operating system keeps running every thread that can take a step.   *)
FairSpec == Spec /\ \A t \in Threads : WF_vars(Step(t))

(***************************************************************************)
(* Properties.                                                             *)
(***************************************************************************)

(* The ranges of the variables; a storage's memory has allocatedLength     *)
(* cells.                                                                  *)
TypeOK ==
  /\ vec \in [Vectors -> [storage : Storages, length : Nat] \cup {None}]
  /\ usedLength \in [Storages -> Nat]
  /\ allocatedLength \in [Storages -> Nat]
  /\ DOMAIN bytes = Storages
  /\ \A s \in Storages : bytes[s] \in [0 .. allocatedLength[s] - 1 -> Cell]
  /\ pc \in [Threads -> {"idle", "called", "fill"}]
  /\ lhs \in [Threads -> Vectors \cup {None}]
  /\ rhs \in [Threads -> Vectors \cup {None}]
  /\ dst \in [Threads -> Vectors \cup {None}]
  /\ dest \in [Threads -> Storages \cup {None}]
  /\ copied \in [Threads -> Nat]

(* Every vector lies in bytes its storage counts as used, and those in     *)
(* allocated memory: nothing is freed while a vector or a running append   *)
(* needs it, nothing is written past an allocation, and the subtraction    *)
(* allocatedLength - length of internalAppend never wraps around.          *)
VectorsFit ==
  /\ \A v \in Vectors :
       Live(v) => /\ Length(v) <= usedLength[vec[v].storage]
                  /\ usedLength[vec[v].storage] <= allocatedLength[vec[v].storage]
  /\ \A t \in Threads :
       Filling(t) => /\ ResultLength(t) <= usedLength[dest[t]]
                     /\ usedLength[dest[t]] <= allocatedLength[dest[t]]

Writing(t) == Filling(t) /\ copied[t] < ResultLength(t)

(* The byte a thread is about to write is read through no vector and is    *)
(* not about to be written by another thread: the unlocked memcpy of the   *)
(* in-place append is free of data races ("We must not overwrite them").   *)
DataRaceFree ==
  \A t \in Threads :
    Writing(t) =>
      /\ \A v \in Vectors :
           Live(v) /\ vec[v].storage = dest[t] => Length(v) <= copied[t]
      /\ \A u \in Threads \ {t} :
           Writing(u) => <<dest[u], copied[u]>> # <<dest[t], copied[t]>>

(* No step, of any thread, changes the bytes of a vector that exists       *)
(* before and after it: appends to a vector that shares its storage leave  *)
(* it alone.                                                               *)
Immutability ==
  [][\A v \in Vectors :
       Live(v) /\ vec'[v] = vec[v] => Contents(v)' = Contents(v)]_vars

(* Concurrent in-place and reallocating appends look like atomic appends   *)
(* of immutable values: a refinement of ImmutableVectors, in which a       *)
(* vector that append() has not returned yet has no value.                 *)
Abs == INSTANCE ImmutableVectors
         WITH value <- [v \in Vectors |-> IF Live(v) THEN Contents(v) ELSE None]

Implements == Abs!Spec

(* The bytes append() returns are those of its operands, in order: "this   *)
(* vector's data, followed by the provided vector's data".                 *)
AppendConcatenates ==
  [][\A t \in Threads, v \in Vectors :
       Filling(t) /\ dst[t] = v /\ ~Filling(t)' =>
         Contents(v)' = Contents(lhs[t]) \o Contents(rhs[t])]_vars

(* Every append ends, whatever the other threads do: a failed              *)
(* compare-and-swap is never retried.                                      *)
AppendsEnd == \A t \in Threads : Busy(t) ~> ~Busy(t)

(* The steps that an append has to take, at most.                          *)
StepsLeft(t) ==
  CASE pc[t] = "called" -> ResultLength(t) + 2
    [] pc[t] = "fill" -> ResultLength(t) - copied[t] + 1
    [] OTHER -> 0

(* Nor can the others delay it: each step of an append's own thread leaves *)
(* it fewer steps to take, and no step of another thread leaves it more.   *)
WaitFree ==
  [][\A t \in Threads :
       Busy(t) => /\ StepsLeft(t)' <= StepsLeft(t)
                  /\ Step(t) => StepsLeft(t)' < StepsLeft(t)]_vars

(***************************************************************************)
(* The inductive invariant.  An append owns the bytes of its result from   *)
(* ClaimStart on: what it appends in place, the whole of a new storage.    *)
(***************************************************************************)
ClaimStart(t) ==
  IF dest[t] = vec[lhs[t]].storage THEN Length(lhs[t]) ELSE 0

(* A running append keeps its operands and the name of its result to       *)
(* itself.                                                                 *)
CallsOK ==
  \A t \in Threads :
    Busy(t) => /\ {lhs[t], rhs[t], dst[t]} \subseteq Vectors
               /\ Live(lhs[t]) /\ Live(rhs[t]) /\ ~Live(dst[t])
               /\ \A u \in Threads \ {t} : Busy(u) => dst[u] # dst[t]
               /\ Filling(t) => /\ dest[t] \in Storages
                                /\ copied[t] \in ClaimStart(t) .. ResultLength(t)

(* A claim with bytes in it is the last one made on its storage, and       *)
(* starts after every vector and every other claim there.                  *)
ClaimsExclusive ==
  \A t \in Threads :
    Filling(t) /\ ClaimStart(t) < ResultLength(t) =>
      /\ usedLength[dest[t]] = ResultLength(t)
      /\ \A v \in Vectors :
           Live(v) /\ vec[v].storage = dest[t] => Length(v) <= ClaimStart(t)
      /\ \A u \in Threads \ {t} :
           Filling(u) /\ dest[u] = dest[t] => ResultLength(u) <= ClaimStart(t)

(* The bytes below copied are the operands'.                               *)
PrefixInPlace ==
  \A t \in Threads :
    Filling(t) /\ rhs[t] \notin FileBacked =>
      \A i \in 0 .. copied[t] - 1 : bytes[dest[t]][i] = ResultByte(t, i)

IInv == TypeOK /\ VectorsFit /\ CallsOK /\ ClaimsExclusive /\ PrefixInPlace
=============================================================================
