----------------------- MODULE BufferedStorageProofs ------------------------
(***************************************************************************)
(* Proofs about BufferedStorage, for any number of threads, vectors and    *)
(* storages, any bytes and any value of the three size constants.          *)
(***************************************************************************)
EXTENDS BufferedStorage, TLAPS

(* A live vector is a (storage, length) pair.                              *)
LEMMA LiveType ==
  ASSUME TypeOK, NEW v \in Vectors, Live(v)
  PROVE  /\ vec[v].storage \in Storages
         /\ vec[v].length \in Nat
         /\ vec[v] = [storage |-> vec[v].storage, length |-> vec[v].length]
  BY DEF TypeOK, Live

(* The lengths a running append computes are numbers.                      *)
LEMMA CallType ==
  ASSUME TypeOK, CallsOK, NEW t \in Threads, Busy(t)
  PROVE  /\ lhs[t] \in Vectors /\ rhs[t] \in Vectors /\ dst[t] \in Vectors
         /\ Live(lhs[t]) /\ Live(rhs[t]) /\ ~Live(dst[t])
         /\ vec[lhs[t]].storage \in Storages
         /\ Length(lhs[t]) \in Nat
         /\ OtherLength(t) \in Nat
         /\ ResultLength(t) \in Nat
         /\ ResultLength(t) = Length(lhs[t]) + OtherLength(t)
  <1>1. lhs[t] \in Vectors /\ rhs[t] \in Vectors /\ dst[t] \in Vectors
    BY DEF CallsOK
  <1>2. Live(lhs[t]) /\ Live(rhs[t]) /\ ~Live(dst[t])
    BY DEF CallsOK
  <1>3. /\ vec[lhs[t]].storage \in Storages
        /\ vec[lhs[t]].length \in Nat /\ vec[rhs[t]].length \in Nat
    BY <1>1, <1>2, LiveType
  <1> QED
    BY <1>1, <1>2, <1>3 DEF Length, OtherLength, ResultLength

(* What a filling append knows of its destination.                         *)
LEMMA FillType ==
  ASSUME TypeOK, CallsOK, NEW t \in Threads, Filling(t)
  PROVE  /\ Busy(t)
         /\ dest[t] \in Storages
         /\ copied[t] \in Nat
         /\ ClaimStart(t) \in Nat
         /\ ClaimStart(t) <= copied[t]
         /\ copied[t] <= ResultLength(t)
  <1>1. Busy(t)
    BY DEF Busy, Filling
  <1>2. dest[t] \in Storages /\ copied[t] \in ClaimStart(t) .. ResultLength(t)
    BY <1>1 DEF CallsOK
  <1>3. Length(lhs[t]) \in Nat /\ ResultLength(t) \in Nat
    BY <1>1, CallType
  <1>4. ClaimStart(t) \in Nat
    BY <1>3 DEF ClaimStart
  <1> QED
    BY <1>1, <1>2, <1>3, <1>4

(* The capacity of a new storage is enough for the result.                 *)
LEMMA NewLengthsFit ==
  ASSUME TypeOK, CallsOK, NEW t \in Threads, Busy(t), NEW n \in NewLengths(t)
  PROVE  n \in Nat /\ ResultLength(t) <= n
  <1>1. Length(lhs[t]) \in Nat /\ ResultLength(t) \in Nat
    BY CallType
  <1>2. Length(lhs[t]) * kReallocationFactor \in Nat
    BY <1>1, SizesAssumption
  <1> QED
    BY <1>1, <1>2, SizesAssumption DEF NewLengths

(* The byte an append copies next is a cell of memory.                     *)
LEMMA ResultByteType ==
  ASSUME TypeOK, VectorsFit, CallsOK, NEW t \in Threads, Filling(t),
         NEW i \in 0 .. ResultLength(t) - 1
  PROVE  ResultByte(t, i) \in Cell
  <1>1. ASSUME NEW v \in Vectors, Live(v), NEW j \in 0 .. Length(v) - 1
        PROVE  ByteAt(v, j) \in Cell
    <2>1. vec[v].storage \in Storages /\ Length(v) \in Nat
      BY <1>1, LiveType DEF Length
    <2>2. Length(v) <= allocatedLength[vec[v].storage]
      BY <1>1, <2>1 DEF VectorsFit, TypeOK
    <2>3. j \in 0 .. allocatedLength[vec[v].storage] - 1
      BY <2>1, <2>2 DEF TypeOK
    <2> QED
      BY <2>1, <2>3 DEF TypeOK, ByteAt
  <1>2. Busy(t)
    BY DEF Busy, Filling
  <1> QED
    BY <1>1, <1>2, CallType DEF ResultByte, OtherLength

(* The initial state satisfies the inductive invariant.                    *)
LEMMA InitIInv == Init => IInv
  <1> SUFFICES ASSUME Init PROVE IInv
    OBVIOUS
  <1>1. TypeOK
    BY DEF Init, TypeOK, NoMemory
  <1>2. \A v \in Vectors : ~Live(v)
    BY DEF Init, Live
  <1>3. \A t \in Threads : ~Busy(t) /\ ~Filling(t)
    BY DEF Init, Busy, Filling
  <1> QED
    BY <1>1, <1>2, <1>3
    DEF IInv, VectorsFit, CallsOK, ClaimsExclusive, PrefixInPlace

(***************************************************************************)
(* Facts about one step, proved action by action.                          *)
(***************************************************************************)

(* A step keeps the operands of every running append, and the calls of     *)
(* the threads that do not take it.                                        *)
LEMMA OperandsKept ==
  ASSUME IInv, Next, NEW t \in Threads, Busy(t)
  PROVE  vec'[lhs[t]] = vec[lhs[t]] /\ vec'[rhs[t]] = vec[rhs[t]]
  <1> USE DEF IInv
  <1>0. /\ lhs[t] \in Vectors /\ rhs[t] \in Vectors
        /\ Live(lhs[t]) /\ Live(rhs[t])
    BY CallType
  <1>1. ASSUME NEW v \in Vectors, NEW s \in Storages, NEW data \in Sources,
               Construct(v, s, data)
        PROVE  vec'[lhs[t]] = vec[lhs[t]] /\ vec'[rhs[t]] = vec[rhs[t]]
    BY <1>0, <1>1 DEF Construct, Unused, TypeOK
  <1>2. ASSUME NEW v \in Vectors, NEW w \in Vectors, CopyConstruct(v, w)
        PROVE  vec'[lhs[t]] = vec[lhs[t]] /\ vec'[rhs[t]] = vec[rhs[t]]
    BY <1>0, <1>2 DEF CopyConstruct, Unused, TypeOK
  <1>3. ASSUME NEW v \in Vectors, Destroy(v)
        PROVE  vec'[lhs[t]] = vec[lhs[t]] /\ vec'[rhs[t]] = vec[rhs[t]]
    BY <1>0, <1>3 DEF Destroy, TypeOK
  <1>4. ASSUME NEW u \in Threads, NEW l \in Vectors, NEW r \in Vectors,
               NEW v \in Vectors, Call(u, l, r, v)
        PROVE  vec'[lhs[t]] = vec[lhs[t]] /\ vec'[rhs[t]] = vec[rhs[t]]
    BY <1>4 DEF Call
  <1>5. ASSUME NEW u \in Threads, Step(u)
        PROVE  vec'[lhs[t]] = vec[lhs[t]] /\ vec'[rhs[t]] = vec[rhs[t]]
    <2>1. CASE Return(u)
      <3>1. Busy(u)
        BY <2>1 DEF Return, Busy, Filling
      <3>2. dst[u] \in Vectors /\ ~Live(dst[u])
        BY <3>1, CallType
      <3> QED
        BY <2>1, <3>2, <1>0 DEF Return, TypeOK
    <2>2. CASE ~Return(u)
      BY <1>5, <2>2
      DEF Step, Reserve, Reallocate, Decline, BadAlloc, FillByte, ReadFails
    <2> QED
      BY <2>1, <2>2
  <1> QED
    BY <1>1, <1>2, <1>3, <1>4, <1>5 DEF Next

(* Types are preserved; the memory of a storage keeps its size.            *)
LEMMA TypeStep ==
  ASSUME IInv, Next
  PROVE  TypeOK'
  <1> USE DEF IInv
  <1>1. ASSUME NEW v \in Vectors, NEW s \in Storages, NEW data \in Sources,
               Construct(v, s, data)
        PROVE  TypeOK'
    <2>1. /\ Len(data) \in Nat
          /\ [i \in 0 .. Len(data) - 1 |-> data[i + 1]]
               \in [0 .. Len(data) - 1 -> Cell]
      BY SourcesAssumption DEF Cell
    <2> QED
      BY <1>1, <2>1 DEF Construct, TypeOK, calls
  <1>2. ASSUME NEW v \in Vectors, NEW w \in Vectors, CopyConstruct(v, w)
        PROVE  TypeOK'
    BY <1>2 DEF CopyConstruct, TypeOK, calls, memory, Cell
  <1>3. ASSUME NEW v \in Vectors, Destroy(v)
        PROVE  TypeOK'
    <2>1. vec[v].storage \in Storages
      BY <1>3, LiveType DEF Destroy
    <2>2. CASE OwnedBesides(v, vec[v].storage)
      BY <1>3, <2>1, <2>2 DEF Destroy, TypeOK, calls, memory, Cell
    <2>3. CASE ~OwnedBesides(v, vec[v].storage)
      <3>1. /\ bytes' = [bytes EXCEPT ![vec[v].storage] = NoMemory]
            /\ allocatedLength' = [allocatedLength EXCEPT ![vec[v].storage] = 0]
            /\ usedLength' = [usedLength EXCEPT ![vec[v].storage] = 0]
        BY <1>3, <2>3 DEF Destroy, Release
      <3>2. NoMemory \in [0 .. 0 - 1 -> Cell]
        BY DEF NoMemory
      <3>3. ASSUME NEW s \in Storages
            PROVE  bytes'[s] \in [0 .. allocatedLength'[s] - 1 -> Cell]
        BY <2>1, <3>1, <3>2 DEF TypeOK
      <3>4. /\ DOMAIN bytes' = Storages
            /\ usedLength' \in [Storages -> Nat]
            /\ allocatedLength' \in [Storages -> Nat]
        BY <2>1, <3>1 DEF TypeOK
      <3>5. vec' \in [Vectors -> [storage : Storages, length : Nat] \cup {None}]
        BY <1>3 DEF Destroy, TypeOK
      <3>6. UNCHANGED <<pc, lhs, rhs, dst, dest, copied>>
        BY <1>3 DEF Destroy, calls
      <3> QED
        BY <3>3, <3>4, <3>5, <3>6, Zenon DEF TypeOK
    <2> QED
      BY <2>2, <2>3
  <1>4. ASSUME NEW t \in Threads, NEW l \in Vectors, NEW r \in Vectors,
               NEW v \in Vectors, Call(t, l, r, v)
        PROVE  TypeOK'
    BY <1>4 DEF Call, TypeOK, memory, Cell
  <1>5. ASSUME NEW t \in Threads, Step(t)
        PROVE  TypeOK'
    <2>0. /\ ResultLength(t) \in Nat
          /\ Length(lhs[t]) \in Nat
          /\ vec[lhs[t]].storage \in Storages
      <3>1. Busy(t)
        BY <1>5 DEF Step, Reserve, Reallocate, Decline, BadAlloc, FillByte,
                    ReadFails, Return, Busy, Filling
      <3> QED
        BY <3>1, CallType
    <2>1. CASE Reserve(t)
      BY <2>0, <2>1 DEF Reserve, StartFill, TypeOK, Cell
    <2>2. ASSUME NEW s \in Storages, Reallocate(t, s)
          PROVE  TypeOK'
      <3>1. PICK n \in NewLengths(t) :
                   /\ allocatedLength' = [allocatedLength EXCEPT ![s] = n]
                   /\ bytes' = [bytes EXCEPT ![s] = [i \in 0 .. n - 1 |-> Garbage]]
        BY <2>2 DEF Reallocate
      <3>2. n \in Nat
        BY <2>2, NewLengthsFit DEF Reallocate, Busy
      <3>3. [i \in 0 .. n - 1 |-> Garbage] \in [0 .. n - 1 -> Cell]
        BY DEF Cell
      <3>4. ASSUME NEW r \in Storages
            PROVE  bytes'[r] \in [0 .. allocatedLength'[r] - 1 -> Cell]
        BY <3>1, <3>2, <3>3 DEF TypeOK
      <3>5. /\ DOMAIN bytes' = Storages
            /\ allocatedLength' \in [Storages -> Nat]
        BY <3>1, <3>2 DEF TypeOK
      <3>6. /\ usedLength' \in [Storages -> Nat]
            /\ pc' \in [Threads -> {"idle", "called", "fill"}]
            /\ dest' \in [Threads -> Storages \cup {None}]
            /\ copied' \in [Threads -> Nat]
        BY <2>0, <2>2 DEF Reallocate, StartFill, TypeOK
      <3>7. UNCHANGED <<vec, lhs, rhs, dst>>
        BY <2>2 DEF Reallocate, StartFill
      <3> QED
        BY <3>4, <3>5, <3>6, <3>7, Zenon DEF TypeOK
    <2>3. CASE Decline(t) \/ BadAlloc(t)
      <3>1. EndCall(t) /\ UNCHANGED <<vec, memory>>
        BY <2>3 DEF Decline, BadAlloc
      <3> QED
        BY <3>1 DEF EndCall, TypeOK, memory
    <2>4. CASE FillByte(t)
      <3>1. dest[t] \in Storages /\ copied[t] \in Nat
        BY <2>4, FillType DEF FillByte
      <3>2. ResultByte(t, copied[t]) \in Cell
        BY <2>0, <2>4, <3>1, ResultByteType DEF FillByte
      <3>3. ASSUME NEW s \in Storages
            PROVE  bytes'[s] \in [0 .. allocatedLength[s] - 1 -> Cell]
        <4>1. CASE s = dest[t]
          BY <2>4, <3>1, <3>2, <4>1 DEF FillByte, TypeOK
        <4>2. CASE s # dest[t]
          BY <2>4, <3>1, <4>2 DEF FillByte, TypeOK
        <4> QED
          BY <4>1, <4>2
      <3> QED
        BY <2>4, <3>1, <3>3 DEF FillByte, TypeOK
    <2>5. CASE ReadFails(t)
      BY <2>0, <2>5 DEF ReadFails, TypeOK, memory, Cell
    <2>6. CASE Return(t)
      <3>1. dest[t] \in Storages
        BY <2>6, FillType DEF Return
      <3> QED
        BY <2>0, <2>6, <3>1 DEF Return, EndCall, TypeOK, memory, Cell
    <2> QED
      BY <1>5, <2>1, <2>2, <2>3, <2>4, <2>5, <2>6 DEF Step
  <1> QED
    BY <1>1, <1>2, <1>3, <1>4, <1>5 DEF Next

(* A step of another thread leaves a running call as it was.               *)
LEMMA CallKept ==
  ASSUME IInv, NEW t \in Threads, NEW u \in Threads \ {t}, Step(u)
  PROVE  /\ pc'[t] = pc[t] /\ lhs'[t] = lhs[t] /\ rhs'[t] = rhs[t]
         /\ dst'[t] = dst[t] /\ dest'[t] = dest[t] /\ copied'[t] = copied[t]
  BY DEF IInv, TypeOK, Step, Reserve, Reallocate, Decline, BadAlloc, FillByte,
         ReadFails, Return, StartFill, EndCall

(* What becomes of a storage that a surviving vector or a filling append   *)
(* owns: it is not freed or given away, only a compare-and-swap moves its  *)
(* usedLength, and only FillByte writes to it.                             *)
LEMMA OwnedKept ==
  ASSUME IInv, Next, NEW s \in Storages,
         \/ \E w \in Vectors : Live(w) /\ vec'[w] = vec[w] /\ vec[w].storage = s
         \/ \E t \in Threads : Filling(t) /\ dest[t] = s
  PROVE  /\ allocatedLength'[s] = allocatedLength[s]
         /\ \/ usedLength'[s] = usedLength[s]
            \/ \E u \in Threads : Reserve(u) /\ vec[lhs[u]].storage = s
         /\ \/ bytes'[s] = bytes[s]
            \/ \E u \in Threads : FillByte(u) /\ dest[u] = s
  <1> USE DEF IInv
  <1> DEFINE Kept ==
        /\ allocatedLength'[s] = allocatedLength[s]
        /\ \/ usedLength'[s] = usedLength[s]
           \/ \E u \in Threads : Reserve(u) /\ vec[lhs[u]].storage = s
        /\ \/ bytes'[s] = bytes[s]
           \/ \E u \in Threads : FillByte(u) /\ dest[u] = s
  <1>0. Owned(s)
    BY NoneAssumption DEF Owned, OwnedBesides
  <1>1. ASSUME NEW v \in Vectors, NEW r \in Storages, NEW data \in Sources,
               Construct(v, r, data)
        PROVE  Kept
    BY <1>0, <1>1 DEF Construct, TypeOK
  <1>2. ASSUME NEW v \in Vectors, NEW w \in Vectors, CopyConstruct(v, w)
        PROVE  Kept
    BY <1>2 DEF CopyConstruct, memory
  <1>3. ASSUME NEW v \in Vectors, Destroy(v)
        PROVE  Kept
    <2>1. CASE OwnedBesides(v, vec[v].storage)
      BY <1>3, <2>1 DEF Destroy, memory
    <2>2. CASE ~OwnedBesides(v, vec[v].storage)
      <3>1. vec[v].storage # s
        BY <1>3, <2>2 DEF Destroy, OwnedBesides, Live, TypeOK
      <3> QED
        BY <1>3, <2>2, <3>1 DEF Destroy, Release, TypeOK
    <2> QED
      BY <2>1, <2>2
  <1>4. ASSUME NEW t \in Threads, NEW l \in Vectors, NEW r \in Vectors,
               NEW v \in Vectors, Call(t, l, r, v)
        PROVE  Kept
    BY <1>4 DEF Call, memory
  <1>5. ASSUME NEW t \in Threads, Step(t)
        PROVE  Kept
    <2>1. CASE Reserve(t)
      BY <2>1 DEF Reserve, TypeOK
    <2>2. ASSUME NEW r \in Storages, Reallocate(t, r)
          PROVE  Kept
      BY <1>0, <2>2 DEF Reallocate, TypeOK
    <2>3. CASE FillByte(t)
      BY <2>3 DEF FillByte, TypeOK
    <2>4. CASE Decline(t) \/ BadAlloc(t) \/ ReadFails(t) \/ Return(t)
      BY <2>4 DEF Decline, BadAlloc, ReadFails, Return, memory
    <2> QED
      BY <1>5, <2>1, <2>2, <2>3, <2>4 DEF Step
  <1> QED
    BY <1>1, <1>2, <1>3, <1>4, <1>5 DEF Next

(* An append that fills before and after a step is the same append.        *)
LEMMA FillKept ==
  ASSUME IInv, Next, NEW t \in Threads, Filling(t), Filling(t)'
  PROVE  /\ lhs'[t] = lhs[t] /\ rhs'[t] = rhs[t] /\ dst'[t] = dst[t]
         /\ dest'[t] = dest[t]
         /\ Length(lhs[t])' = Length(lhs[t])
         /\ ResultLength(t)' = ResultLength(t)
         /\ ClaimStart(t)' = ClaimStart(t)
         /\ \/ copied'[t] = copied[t]
            \/ FillByte(t)
            \/ ReadFails(t)
  <1> USE DEF IInv
  <1>1. Busy(t)
    BY DEF Busy, Filling
  <1>2. vec'[lhs[t]] = vec[lhs[t]] /\ vec'[rhs[t]] = vec[rhs[t]]
    BY <1>1, OperandsKept
  <1> DEFINE SameCall ==
        /\ lhs'[t] = lhs[t] /\ rhs'[t] = rhs[t] /\ dst'[t] = dst[t]
        /\ dest'[t] = dest[t]
        /\ copied'[t] = copied[t] \/ FillByte(t) \/ ReadFails(t)
  <1>3. SameCall
    <2>1. ASSUME NEW v \in Vectors, NEW s \in Storages, NEW data \in Sources,
                 Construct(v, s, data)
          PROVE  UNCHANGED calls
      BY <2>1 DEF Construct
    <2>2. ASSUME NEW v \in Vectors, NEW w \in Vectors, CopyConstruct(v, w)
          PROVE  UNCHANGED calls
      BY <2>2 DEF CopyConstruct
    <2>3. ASSUME NEW v \in Vectors, Destroy(v)
          PROVE  UNCHANGED calls
      BY <2>3 DEF Destroy
    <2>4. ASSUME NEW u \in Threads, NEW l \in Vectors, NEW r \in Vectors,
                 NEW v \in Vectors, Call(u, l, r, v)
          PROVE  SameCall
      BY <1>1, <2>4 DEF Call, TypeOK
    <2>5. ASSUME NEW u \in Threads \ {t}, Step(u)
          PROVE  SameCall
      BY <2>5, CallKept
    <2>6. ASSUME Step(t)
          PROVE  SameCall
      BY <2>6 DEF Step, Reserve, Reallocate, Decline, BadAlloc, FillByte,
                  ReadFails, Return, EndCall, Filling, TypeOK
    <2> QED
      BY <2>1, <2>2, <2>3, <2>4, <2>5, <2>6 DEF Next, calls
  <1> QED
    BY <1>2, <1>3 DEF Length, OtherLength, ResultLength, ClaimStart

(* An append that begins to fill reserved or allocated its bytes.          *)
LEMMA FillStarts ==
  ASSUME IInv, Next, NEW t \in Threads, ~Filling(t), Filling(t)'
  PROVE  Reserve(t) \/ \E s \in Storages : Reallocate(t, s)
  <1> USE DEF IInv, Filling, TypeOK
  <1>1. ASSUME NEW u \in Threads, NEW l \in Vectors, NEW r \in Vectors,
               NEW v \in Vectors, Call(u, l, r, v)
        PROVE  FALSE
    BY <1>1 DEF Call
  <1>2. ASSUME NEW u \in Threads \ {t}, Step(u)
        PROVE  FALSE
    BY <1>2, CallKept
  <1>3. CASE Step(t)
    BY <1>3 DEF Step, Decline, BadAlloc, FillByte, ReadFails, Return, EndCall
  <1> QED
    BY <1>1, <1>2, <1>3 DEF Next, Construct, CopyConstruct, Destroy, calls

(* A vector that is live after a step existed before it, was built by a    *)
(* constructor, copies a vector, or was returned by an append.             *)
LEMMA WhereVectorsComeFrom ==
  ASSUME IInv, Next, NEW v \in Vectors, Live(v)'
  PROVE  \/ Live(v) /\ vec'[v] = vec[v]
         \/ /\ vec'[v].storage \in Storages
            /\ ~Owned(vec'[v].storage)
            /\ usedLength'[vec'[v].storage] = vec'[v].length
            /\ allocatedLength'[vec'[v].storage] = vec'[v].length
            /\ \A t \in Threads : Filling(t)' <=> Filling(t)
         \/ /\ \E w \in Vectors : Live(w) /\ vec'[w] = vec[w] /\ vec'[v] = vec[w]
            /\ ~Live(v)
         \/ \E t \in Threads :
              /\ Return(t) /\ v = dst[t]
              /\ vec'[v].storage = dest[t]
              /\ vec'[v].length = ResultLength(t)
  <1> USE DEF IInv
  <1> DEFINE Origin ==
         \/ Live(v) /\ vec'[v] = vec[v]
         \/ /\ vec'[v].storage \in Storages
            /\ ~Owned(vec'[v].storage)
            /\ usedLength'[vec'[v].storage] = vec'[v].length
            /\ allocatedLength'[vec'[v].storage] = vec'[v].length
            /\ \A t \in Threads : Filling(t)' <=> Filling(t)
         \/ /\ \E w \in Vectors : Live(w) /\ vec'[w] = vec[w] /\ vec'[v] = vec[w]
            /\ ~Live(v)
         \/ \E t \in Threads :
              /\ Return(t) /\ v = dst[t]
              /\ vec'[v].storage = dest[t]
              /\ vec'[v].length = ResultLength(t)
  <1>1. ASSUME NEW w \in Vectors, NEW s \in Storages, NEW data \in Sources,
               Construct(w, s, data)
        PROVE  Origin
    BY <1>1 DEF Construct, calls, Filling, Live, TypeOK
  <1>2. ASSUME NEW u \in Vectors, NEW w \in Vectors, CopyConstruct(u, w)
        PROVE  Origin
    BY <1>2 DEF CopyConstruct, Unused, Live, TypeOK
  <1>3. ASSUME NEW w \in Vectors, Destroy(w)
        PROVE  Origin
    BY <1>3 DEF Destroy, Live, TypeOK
  <1>4. ASSUME NEW t \in Threads, NEW l \in Vectors, NEW r \in Vectors,
               NEW w \in Vectors, Call(t, l, r, w)
        PROVE  Origin
    BY <1>4 DEF Call, Live
  <1>5. ASSUME NEW t \in Threads, Step(t)
        PROVE  Origin
    <2>1. CASE Return(t)
      BY <2>1 DEF Return, Live, TypeOK
    <2>2. CASE ~Return(t)
      BY <1>5, <2>2
      DEF Step, Reserve, Reallocate, Decline, BadAlloc, FillByte, ReadFails, Live
    <2> QED
      BY <2>1, <2>2
  <1> QED
    BY <1>1, <1>2, <1>3, <1>4, <1>5 DEF Next

(* A storage whose bytes are being appended has given its end away: no     *)
(* compare-and-swap on it can succeed until the append returns.            *)
LEMMA ClaimBlocksReserve ==
  ASSUME IInv, NEW t \in Threads, Filling(t), ClaimStart(t) < ResultLength(t),
         NEW u \in Threads, Reserve(u)
  PROVE  vec[lhs[u]].storage # dest[t]
  <1> USE DEF IInv
  <1>1. /\ ClaimStart(t) \in Nat /\ ResultLength(t) \in Nat
    BY FillType, CallType
  <1>2. /\ lhs[u] \in Vectors /\ Live(lhs[u]) /\ Length(lhs[u]) \in Nat
        /\ usedLength[vec[lhs[u]].storage] = Length(lhs[u])
    BY CallType DEF Reserve, CanReserve, Busy
  <1> QED
    BY <1>1, <1>2 DEF ClaimsExclusive

(* Vectors and running appends stay within used and allocated bytes.       *)
LEMMA FitStep ==
  ASSUME IInv, Next
  PROVE  VectorsFit'
  <1> USE DEF IInv
  <1> DEFINE Fits(s, n) == n <= usedLength'[s] /\ usedLength'[s] <= allocatedLength'[s]
  <1>1. ASSUME NEW s \in Storages, NEW n \in Nat,
               \/ \E w \in Vectors : Live(w) /\ vec'[w] = vec[w] /\ vec[w].storage = s
               \/ \E t \in Threads : Filling(t) /\ dest[t] = s,
               n <= usedLength[s], usedLength[s] <= allocatedLength[s]
        PROVE  Fits(s, n)
    <2>1. CASE usedLength'[s] = usedLength[s]
      BY <1>1, <2>1, OwnedKept
    <2>2. ASSUME NEW u \in Threads, Reserve(u), vec[lhs[u]].storage = s
          PROVE  Fits(s, n)
      <3>1. /\ ResultLength(u) = usedLength[s] + OtherLength(u)
            /\ OtherLength(u) \in Nat
            /\ ResultLength(u) <= allocatedLength[s]
        BY <2>2, CallType DEF Reserve, CanReserve, Busy, TypeOK
      <3> QED
        BY <1>1, <2>2, <3>1, OwnedKept DEF Reserve, TypeOK
    <2> QED
      BY <1>1, <2>1, <2>2, OwnedKept
  <1>2. ASSUME NEW v \in Vectors, Live(v)'
        PROVE  Fits(vec'[v].storage, vec'[v].length)
    <2>1. ASSUME NEW w \in Vectors, Live(w), vec'[w] = vec[w]
          PROVE  Fits(vec[w].storage, vec[w].length)
      BY <1>1, <2>1, LiveType DEF VectorsFit, Length
    <2>2. ASSUME NEW t \in Threads, Return(t)
          PROVE  Fits(dest[t], ResultLength(t))
      BY <1>1, <2>2, FillType, CallType DEF VectorsFit, Return
    <2>3. vec'[v].length \in Nat
      BY <1>2, TypeStep DEF TypeOK, Live
    <2> QED
      BY <1>2, <2>1, <2>2, <2>3, WhereVectorsComeFrom
  <1>3. ASSUME NEW t \in Threads, Filling(t)'
        PROVE  Fits(dest'[t], ResultLength(t)')
    <2>1. CASE Filling(t)
      BY <1>1, <1>3, <2>1, FillKept, FillType, CallType DEF VectorsFit
    <2>2. ASSUME Reserve(t)
          PROVE  Fits(dest'[t], ResultLength(t)')
      <3>1. /\ ResultLength(t) = Length(lhs[t]) + OtherLength(t)
            /\ Length(lhs[t]) \in Nat /\ OtherLength(t) \in Nat
            /\ vec[lhs[t]].storage \in Storages
        BY <2>2, CallType DEF Reserve, Busy
      <3>2. ResultLength(t)' = ResultLength(t) /\ dest'[t] = vec[lhs[t]].storage
        BY <2>2 DEF Reserve, StartFill, ResultLength, OtherLength, Length, TypeOK
      <3> QED
        BY <2>2, <3>1, <3>2 DEF Reserve, CanReserve, TypeOK
    <2>3. ASSUME NEW s \in Storages, Reallocate(t, s)
          PROVE  Fits(dest'[t], ResultLength(t)')
      <3>1. ResultLength(t)' = ResultLength(t) /\ dest'[t] = s
        BY <2>3 DEF Reallocate, StartFill, ResultLength, OtherLength, Length, TypeOK
      <3>2. \E n \in NewLengths(t) : allocatedLength'[s] = n
        BY <2>3 DEF Reallocate, TypeOK
      <3>3. usedLength'[s] = ResultLength(t) /\ ResultLength(t) <= allocatedLength'[s]
        BY <2>3, <3>2, NewLengthsFit DEF Reallocate, Busy, TypeOK
      <3>4. ResultLength(t) \in Nat
        BY <2>3, CallType DEF Reallocate, Busy
      <3> QED
        BY <3>1, <3>3, <3>4
    <2> QED
      BY <1>3, <2>1, <2>2, <2>3, FillStarts
  <1> QED
    BY <1>2, <1>3 DEF VectorsFit, Length

(* Running appends keep operands and results apart from each other's.      *)
LEMMA CallsStep ==
  ASSUME IInv, Next
  PROVE  CallsOK'
  <1> USE DEF IInv
  <1> SUFFICES ASSUME NEW t \in Threads, Busy(t)'
               PROVE  /\ {lhs'[t], rhs'[t], dst'[t]} \subseteq Vectors
                      /\ Live(lhs[t])' /\ Live(rhs[t])' /\ ~Live(dst[t])'
                      /\ \A u \in Threads \ {t} : Busy(u)' => dst'[u] # dst'[t]
                      /\ Filling(t)' =>
                           /\ dest'[t] \in Storages
                           /\ copied'[t] \in ClaimStart(t)' .. ResultLength(t)'
    BY DEF CallsOK
  <1>1. CASE ~Busy(t)
    <2>1. PICK l \in Vectors, r \in Vectors, v \in Vectors : Call(t, l, r, v)
      <3>1. ASSUME NEW u \in Threads, NEW l \in Vectors, NEW r \in Vectors,
                   NEW v \in Vectors, Call(u, l, r, v)
            PROVE  u = t
        BY <1>1, <3>1 DEF Call, Busy, TypeOK
      <3>2. ASSUME NEW u \in Threads, Step(u)
            PROVE  FALSE
        BY <1>1, <3>2, CallKept
        DEF Busy, Step, Reserve, Reallocate, Decline, BadAlloc, FillByte,
            ReadFails, Return, Filling
      <3> QED
        BY <1>1, <3>1, <3>2
        DEF Next, Construct, CopyConstruct, Destroy, calls, Busy
    <2>2. /\ lhs'[t] = l /\ rhs'[t] = r /\ dst'[t] = v
          /\ Live(l) /\ Live(r) /\ Unused(v) /\ vec' = vec
          /\ ~Filling(t)'
          /\ \A u \in Threads \ {t} : dst'[u] = dst[u] /\ pc'[u] = pc[u]
      BY <2>1 DEF Call, TypeOK, Filling
    <2> QED
      BY <2>1, <2>2 DEF Unused, Live, Busy
  <1>2. CASE Busy(t)
    <2>1. /\ {lhs[t], rhs[t], dst[t]} \subseteq Vectors
          /\ Live(lhs[t]) /\ Live(rhs[t]) /\ ~Live(dst[t])
          /\ \A u \in Threads \ {t} : Busy(u) => dst[u] # dst[t]
      BY <1>2 DEF CallsOK
    <2> DEFINE SameOperands ==
          lhs'[t] = lhs[t] /\ rhs'[t] = rhs[t] /\ dst'[t] = dst[t]
    <2>2. SameOperands
      <3>1. ASSUME NEW u \in Threads, NEW l \in Vectors, NEW r \in Vectors,
                   NEW v \in Vectors, Call(u, l, r, v)
            PROVE  SameOperands
        BY <1>2, <3>1 DEF Call, TypeOK
      <3>2. ASSUME NEW u \in Threads \ {t}, Step(u)
            PROVE  SameOperands
        BY <3>2, CallKept
      <3>3. ASSUME Step(t)
            PROVE  SameOperands
        BY <3>3 DEF Step, Reserve, Reallocate, Decline, BadAlloc, FillByte,
                    ReadFails, Return, StartFill, EndCall, Busy, TypeOK
      <3> QED
        BY <3>1, <3>2, <3>3 DEF Next, Construct, CopyConstruct, Destroy, calls
    <2>3. ~Live(dst[t])'
      <3>1. ASSUME NEW v \in Vectors, Unused(v)
            PROVE  v # dst[t]
        BY <1>2, <3>1 DEF Unused
      <3>2. ASSUME NEW u \in Threads, Return(u)
            PROVE  u # t /\ dst[u] # dst[t]
        BY <1>2, <2>1, <3>2 DEF Return, EndCall, Busy, Filling, TypeOK
      <3> DEFINE NewVectorsUnused ==
            \A v \in Vectors :
              vec'[v] # vec[v] /\ vec'[v] # None =>
                Unused(v) \/ \E u \in Threads : Return(u) /\ v = dst[u]
      <3>3. NewVectorsUnused
        <4>1. ASSUME NEW u \in Threads, Step(u)
              PROVE  NewVectorsUnused
          BY <4>1 DEF Step, Reserve, Reallocate, Decline, BadAlloc, FillByte,
                      ReadFails, Return, TypeOK
        <4> QED
          BY <4>1 DEF Next, Construct, CopyConstruct, Destroy, Call, TypeOK
      <3> QED
        BY <2>1, <2>2, <3>1, <3>2, <3>3 DEF Live
    <2>4. ASSUME NEW u \in Threads \ {t}, Busy(u)'
          PROVE  dst'[u] # dst'[t]
      <3>1. CASE pc'[u] = pc[u] /\ dst'[u] = dst[u]
        BY <2>1, <2>2, <2>4, <3>1 DEF Busy
      <3>2. ASSUME NEW l \in Vectors, NEW r \in Vectors, NEW v \in Vectors,
                   Call(u, l, r, v)
            PROVE  dst'[u] # dst'[t]
        BY <1>2, <2>2, <3>2 DEF Call, Unused, TypeOK
      <3>3. CASE Step(u)
        BY <2>1, <2>2, <2>4, <3>3
        DEF Step, Reserve, Reallocate, Decline, BadAlloc, FillByte, ReadFails,
            Return, StartFill, EndCall, Busy, Filling, TypeOK
      <3>4. ASSUME NEW w \in Threads \ {u}, Step(w)
            PROVE  pc'[u] = pc[u] /\ dst'[u] = dst[u]
        BY <3>4, CallKept
      <3>5. ASSUME NEW w \in Threads \ {u}, NEW l \in Vectors, NEW r \in Vectors,
                   NEW v \in Vectors, Call(w, l, r, v)
            PROVE  pc'[u] = pc[u] /\ dst'[u] = dst[u]
        BY <3>5 DEF Call, TypeOK
      <3> QED
        BY <3>1, <3>2, <3>3, <3>4, <3>5
        DEF Next, Construct, CopyConstruct, Destroy, calls
    <2>5. ASSUME Filling(t)'
          PROVE  /\ dest'[t] \in Storages
                 /\ copied'[t] \in ClaimStart(t)' .. ResultLength(t)'
      <3>1. CASE Filling(t)
        <4>1. /\ dest'[t] = dest[t]
              /\ ClaimStart(t)' = ClaimStart(t) /\ ResultLength(t)' = ResultLength(t)
              /\ copied'[t] = copied[t] \/ FillByte(t) \/ ReadFails(t)
          BY <2>5, <3>1, FillKept
        <4>2. /\ dest[t] \in Storages
              /\ copied[t] \in Nat /\ ClaimStart(t) \in Nat /\ ResultLength(t) \in Nat
              /\ ClaimStart(t) <= copied[t] /\ copied[t] <= ResultLength(t)
          BY <1>2, <3>1, FillType, CallType
        <4>3. CASE FillByte(t)
          <5>1. copied[t] < ResultLength(t) /\ copied'[t] = copied[t] + 1
            BY <4>3 DEF FillByte, TypeOK
          <5> QED
            BY <4>1, <4>2, <5>1
        <4>4. CASE ReadFails(t)
          <5>1. copied'[t] = ResultLength(t)
            BY <4>4 DEF ReadFails, TypeOK
          <5> QED
            BY <4>1, <4>2, <5>1
        <4> QED
          BY <4>1, <4>2, <4>3, <4>4
      <3>2. CASE ~Filling(t)
        <4>1. ResultLength(t)' = ResultLength(t) /\ Length(lhs[t])' = Length(lhs[t])
          BY <1>2, <2>2, OperandsKept DEF ResultLength, OtherLength, Length
        <4>2. /\ Length(lhs[t]) \in Nat /\ ResultLength(t) \in Nat
              /\ Length(lhs[t]) <= ResultLength(t)
              /\ vec[lhs[t]].storage \in Storages
          BY <1>2, CallType
        <4>3. CASE Reserve(t)
          BY <4>1, <4>2, <4>3 DEF Reserve, StartFill, ClaimStart, TypeOK
        <4>4. ASSUME NEW s \in Storages, Reallocate(t, s)
              PROVE  /\ dest'[t] = s /\ copied'[t] = 0
                     /\ ClaimStart(t)' = 0
          <5>1. /\ dest'[t] = s /\ copied'[t] = 0 /\ ~Owned(s)
                /\ vec' = vec /\ lhs' = lhs
            BY <4>4 DEF Reallocate, StartFill, TypeOK
          <5>2. vec[lhs[t]].storage # s
            BY <2>1, <5>1, NoneAssumption DEF Owned, OwnedBesides
          <5> QED
            BY <5>1, <5>2 DEF ClaimStart
        <4> QED
          BY <2>5, <3>2, <4>1, <4>2, <4>3, <4>4, FillStarts
      <3> QED
        BY <3>1, <3>2
    <2> QED
      BY <1>2, <2>1, <2>2, <2>3, <2>4, <2>5, OperandsKept DEF Live
  <1> QED
    BY <1>1, <1>2

(* The claim of an append stays exclusive until it returns.                *)
LEMMA ClaimsStep ==
  ASSUME IInv, Next
  PROVE  ClaimsExclusive'
  <1> USE DEF IInv
  <1> DEFINE Exclusive(t, s, start, result) ==
        /\ usedLength'[s] = result
        /\ \A v \in Vectors :
             Live(v)' /\ vec'[v].storage = s => vec'[v].length <= start
        /\ \A u \in Threads \ {t} :
             Filling(u)' /\ dest'[u] = s => ResultLength(u)' <= start
  <1> SUFFICES ASSUME NEW t \in Threads, Filling(t)',
                      ClaimStart(t)' < ResultLength(t)'
               PROVE  Exclusive(t, dest'[t], ClaimStart(t)', ResultLength(t)')
    BY DEF ClaimsExclusive, Length
  <1>1. CASE Filling(t)
    <2>1. /\ dest'[t] = dest[t]
          /\ ClaimStart(t)' = ClaimStart(t)
          /\ ResultLength(t)' = ResultLength(t)
          /\ ClaimStart(t) < ResultLength(t)
      BY <1>1, FillKept
    <2>2. /\ dest[t] \in Storages
          /\ usedLength[dest[t]] = ResultLength(t)
          /\ \A v \in Vectors :
               Live(v) /\ vec[v].storage = dest[t] => Length(v) <= ClaimStart(t)
          /\ \A u \in Threads \ {t} :
               Filling(u) /\ dest[u] = dest[t] => ResultLength(u) <= ClaimStart(t)
      BY <1>1, <2>1, FillType DEF ClaimsExclusive
    <2>3. usedLength'[dest[t]] = ResultLength(t)
      BY <1>1, <2>1, <2>2, OwnedKept, ClaimBlocksReserve
    <2>4. Owned(dest[t])
      BY <1>1 DEF Owned, OwnedBesides
    <2>5. ASSUME NEW v \in Vectors, Live(v)', vec'[v].storage = dest[t]
          PROVE  vec'[v].length <= ClaimStart(t)
      <3>1. ASSUME NEW u \in Threads, Return(u), v = dst[u],
                   vec'[v].storage = dest[u], vec'[v].length = ResultLength(u)
            PROVE  vec'[v].length <= ClaimStart(t)
        <4>1. u # t
          BY <3>1 DEF Return, EndCall, Filling, TypeOK
        <4> QED
          BY <2>2, <2>5, <3>1, <4>1 DEF Return
      <3> QED
        BY <2>2, <2>4, <2>5, <3>1, WhereVectorsComeFrom DEF Length
    <2>6. ASSUME NEW u \in Threads \ {t}, Filling(u)', dest'[u] = dest[t]
          PROVE  ResultLength(u)' <= ClaimStart(t)
      <3>1. CASE Filling(u)
        BY <2>2, <2>6, <3>1, FillKept
      <3>2. CASE Reserve(u)
        <4>1. dest'[u] = vec[lhs[u]].storage
          BY <3>2 DEF Reserve, StartFill, TypeOK
        <4> QED
          BY <1>1, <2>1, <2>6, <3>2, <4>1, ClaimBlocksReserve
      <3>3. ASSUME NEW s \in Storages, Reallocate(u, s)
            PROVE  FALSE
        <4>1. dest'[u] = s /\ ~Owned(s)
          BY <3>3 DEF Reallocate, StartFill, TypeOK
        <4> QED
          BY <2>4, <2>6, <4>1
      <3> QED
        BY <2>6, <3>1, <3>2, <3>3, FillStarts
    <2> QED
      BY <2>1, <2>3, <2>5, <2>6
  <1>2. CASE ~Filling(t)
    <2>0. Busy(t)
      BY <1>2, FillStarts DEF Reserve, Reallocate, Busy
    <2>1. /\ lhs[t] \in Vectors /\ Live(lhs[t])
          /\ vec[lhs[t]].storage \in Storages
          /\ Length(lhs[t]) \in Nat /\ ResultLength(t) \in Nat
      BY <2>0, CallType
    <2>2. ASSUME NEW u \in Threads \ {t}, Filling(u)', Step(t)
          PROVE  /\ Filling(u) /\ dest'[u] = dest[u]
                 /\ ResultLength(u)' = ResultLength(u)
      BY <2>2, CallKept, FillKept DEF Filling
    <2>3. CASE Reserve(t)
      <3>1. /\ dest'[t] = vec[lhs[t]].storage /\ vec' = vec /\ lhs' = lhs /\ rhs' = rhs
            /\ usedLength'[dest'[t]] = ResultLength(t)
            /\ usedLength[dest'[t]] = Length(lhs[t])
        BY <2>1, <2>3 DEF Reserve, CanReserve, StartFill, TypeOK
      <3>2. ClaimStart(t)' = Length(lhs[t]) /\ ResultLength(t)' = ResultLength(t)
        BY <3>1 DEF ClaimStart, ResultLength, OtherLength, Length
      <3>3. \A v \in Vectors :
              Live(v)' /\ vec'[v].storage = dest'[t] => vec'[v].length <= Length(lhs[t])
        BY <3>1 DEF VectorsFit, Live, Length
      <3>4. \A u \in Threads \ {t} :
              Filling(u)' /\ dest'[u] = dest'[t] => ResultLength(u)' <= Length(lhs[t])
        BY <2>2, <2>3, <3>1 DEF VectorsFit, Step
      <3> QED
        BY <3>1, <3>2, <3>3, <3>4
    <2>4. ASSUME NEW s \in Storages, Reallocate(t, s)
          PROVE  Exclusive(t, dest'[t], ClaimStart(t)', ResultLength(t)')
      <3>1. /\ dest'[t] = s /\ vec' = vec /\ lhs' = lhs /\ rhs' = rhs
            /\ ~Owned(s) /\ usedLength'[s] = ResultLength(t)
        BY <2>1, <2>4 DEF Reallocate, StartFill, TypeOK
      <3>2. ResultLength(t)' = ResultLength(t)
        BY <3>1 DEF ResultLength, OtherLength, Length
      <3>3. \A v \in Vectors : ~(Live(v)' /\ vec'[v].storage = s)
        BY <3>1, NoneAssumption DEF Owned, OwnedBesides, Live
      <3>4. \A u \in Threads \ {t} : ~(Filling(u)' /\ dest'[u] = s)
        BY <2>2, <2>4, <3>1 DEF Owned, OwnedBesides, Step
      <3> QED
        BY <3>1, <3>2, <3>3, <3>4
    <2> QED
      BY <1>2, <2>3, <2>4, FillStarts
  <1> QED
    BY <1>1, <1>2

(* The byte a filling append writes next belongs to no live vector.        *)
LEMMA WriteBeyondVectors ==
  ASSUME IInv, NEW t \in Threads, Writing(t),
         NEW v \in Vectors, Live(v), vec[v].storage = dest[t]
  PROVE  Length(v) <= copied[t]
  <1> USE DEF IInv
  <1>1. Filling(t) /\ copied[t] < ResultLength(t)
    BY DEF Writing
  <1>2. /\ ClaimStart(t) \in Nat /\ copied[t] \in Nat /\ ResultLength(t) \in Nat
        /\ ClaimStart(t) <= copied[t]
    BY <1>1, FillType, CallType
  <1>3. Length(v) <= ClaimStart(t)
    BY <1>1, <1>2 DEF ClaimsExclusive
  <1>4. Length(v) \in Nat
    BY LiveType DEF Length
  <1> QED
    BY <1>2, <1>3, <1>4

(* A step changes no byte of a vector that survives it.                    *)
LEMMA BytesKept ==
  ASSUME IInv, Next, NEW v \in Vectors, Live(v), vec'[v] = vec[v],
         NEW i \in 0 .. Length(v) - 1
  PROVE  ByteAt(v, i)' = ByteAt(v, i)
  <1> USE DEF IInv
  <1>1. vec[v].storage \in Storages /\ Length(v) \in Nat
    BY LiveType DEF Length
  <1>2. CASE bytes'[vec[v].storage] = bytes[vec[v].storage]
    BY <1>2 DEF ByteAt
  <1>3. ASSUME NEW t \in Threads, FillByte(t), dest[t] = vec[v].storage
        PROVE  ByteAt(v, i)' = ByteAt(v, i)
    <2>1. Length(v) <= copied[t]
      BY <1>3, WriteBeyondVectors DEF FillByte, Writing
    <2>2. i # copied[t]
      BY <1>1, <1>3, <2>1, FillType DEF FillByte
    <2> QED
      BY <1>1, <1>3, <2>2 DEF FillByte, ByteAt, TypeOK
  <1> QED
    BY <1>1, <1>2, <1>3, OwnedKept

(* The bytes of a result stay the same while the append runs.              *)
LEMMA ResultKept ==
  ASSUME IInv, Next, NEW t \in Threads, Filling(t), Filling(t)',
         NEW i \in 0 .. ResultLength(t) - 1
  PROVE  ResultByte(t, i)' = ResultByte(t, i)
  <1> USE DEF IInv
  <1>1. /\ lhs[t] \in Vectors /\ rhs[t] \in Vectors /\ Live(lhs[t]) /\ Live(rhs[t])
        /\ Length(lhs[t]) \in Nat /\ OtherLength(t) \in Nat
        /\ ResultLength(t) = Length(lhs[t]) + OtherLength(t)
    BY FillType, CallType
  <1>2. /\ vec'[lhs[t]] = vec[lhs[t]] /\ vec'[rhs[t]] = vec[rhs[t]]
        /\ lhs'[t] = lhs[t] /\ rhs'[t] = rhs[t]
        /\ Length(lhs[t])' = Length(lhs[t])
    BY FillKept, OperandsKept, FillType
  <1>3. CASE i < Length(lhs[t])
    <2>1. i \in 0 .. Length(lhs[t]) - 1
      BY <1>1, <1>3
    <2>2. bytes'[vec'[lhs[t]].storage][i] = bytes[vec[lhs[t]].storage][i]
      BY <1>1, <1>2, <2>1, BytesKept DEF ByteAt
    <2> QED
      BY <1>2, <1>3, <2>2 DEF ResultByte, ByteAt
  <1>4. CASE ~(i < Length(lhs[t]))
    <2> DEFINE j == i - Length(lhs[t])
    <2>1. j \in 0 .. Length(rhs[t]) - 1
      BY <1>1, <1>4 DEF OtherLength
    <2>2. bytes'[vec'[rhs[t]].storage][j] = bytes[vec[rhs[t]].storage][j]
      BY <1>1, <1>2, <2>1, BytesKept DEF ByteAt
    <2> QED
      BY <1>2, <1>4, <2>2 DEF ResultByte, ByteAt
  <1> QED
    BY <1>3, <1>4

(* What an append has copied stays the leading bytes of its result.        *)
LEMMA PrefixStep ==
  ASSUME IInv, Next
  PROVE  PrefixInPlace'
  <1> USE DEF IInv
  <1> SUFFICES ASSUME NEW t \in Threads, Filling(t)', rhs'[t] \notin FileBacked,
                      NEW i \in 0 .. copied'[t] - 1
               PROVE  bytes'[dest'[t]][i] = ResultByte(t, i)'
    BY DEF PrefixInPlace
  <1>1. CASE Filling(t)
    <2>1. /\ rhs'[t] = rhs[t] /\ dest'[t] = dest[t]
          /\ copied'[t] = copied[t] \/ FillByte(t)
      BY <1>1, FillKept DEF ReadFails
    <2>2. /\ dest[t] \in Storages /\ copied[t] \in Nat /\ ResultLength(t) \in Nat
          /\ copied[t] <= ResultLength(t)
      BY <1>1, FillType, CallType
    <2>3. CASE FillByte(t)
      <3>1. /\ copied[t] < ResultLength(t) /\ copied'[t] = copied[t] + 1
            /\ bytes' = [bytes EXCEPT ![dest[t]][copied[t]] = ResultByte(t, copied[t])]
        BY <2>3 DEF FillByte, TypeOK
      <3>2. i \in 0 .. ResultLength(t) - 1 /\ i \in 0 .. copied[t]
        BY <2>2, <3>1
      <3>3. bytes'[dest[t]][i] = ResultByte(t, i)
        <4>1. copied[t] \in DOMAIN bytes[dest[t]]
          BY <1>1, <2>2, <3>1 DEF VectorsFit, TypeOK
        <4>2. CASE i = copied[t]
          BY <2>2, <3>1, <4>1, <4>2 DEF TypeOK
        <4>3. CASE i # copied[t]
          <5>1. bytes[dest[t]][i] = ResultByte(t, i)
            BY <1>1, <2>1, <2>2, <3>2, <4>3 DEF PrefixInPlace
          <5> QED
            BY <2>2, <3>1, <4>3, <5>1 DEF TypeOK
        <4> QED
          BY <4>2, <4>3
      <3> QED
        BY <1>1, <2>1, <3>2, <3>3, ResultKept
    <2>4. CASE copied'[t] = copied[t] /\ ~FillByte(t)
      <3>1. i \in 0 .. copied[t] - 1 /\ i \in 0 .. ResultLength(t) - 1
        BY <2>2, <2>4
      <3>2. bytes[dest[t]][i] = ResultByte(t, i)
        BY <1>1, <2>1, <3>1 DEF PrefixInPlace
      <3>3. ASSUME NEW u \in Threads, FillByte(u), dest[u] = dest[t]
            PROVE  bytes'[dest[t]][i] = bytes[dest[t]][i]
        <4>1. u # t /\ Filling(u) /\ copied[u] < ResultLength(u)
          BY <2>4, <3>3 DEF FillByte
        <4>2. /\ ClaimStart(u) \in Nat /\ copied[u] \in Nat /\ ResultLength(u) \in Nat
              /\ ClaimStart(u) <= copied[u]
          BY <4>1, FillType, CallType
        <4>3. ResultLength(t) <= ClaimStart(u)
          BY <1>1, <3>3, <4>1, <4>2 DEF ClaimsExclusive
        <4>4. i # copied[u]
          BY <2>2, <3>1, <4>2, <4>3
        <4> QED
          BY <2>2, <3>3, <4>4 DEF FillByte, TypeOK
      <3>4. bytes'[dest[t]][i] = bytes[dest[t]][i]
        BY <1>1, <2>2, <3>3, OwnedKept
      <3> QED
        BY <1>1, <2>1, <3>1, <3>2, <3>4, ResultKept
    <2> QED
      BY <2>1, <2>3, <2>4
  <1>2. CASE ~Filling(t)
    <2>1. ~(\E s \in Storages : Reallocate(t, s))
      BY DEF Reallocate, StartFill, TypeOK
    <2>2. Reserve(t)
      BY <1>2, <2>1, FillStarts
    <2>3. /\ dest'[t] = vec[lhs[t]].storage /\ copied'[t] = Length(lhs[t])
          /\ vec' = vec /\ lhs' = lhs
      BY <2>2 DEF Reserve, StartFill, TypeOK
    <2>4. Length(lhs[t]) \in Nat /\ i < Length(lhs[t])
      BY <2>2, <2>3, CallType DEF Reserve, Busy
    <2> QED
      BY <2>3, <2>4 DEF ResultByte, ByteAt, Length
  <1> QED
    BY <1>1, <1>2

(***************************************************************************)
(* The theorems.                                                           *)
(***************************************************************************)

(* IInv is an inductive invariant of the concurrent appends.               *)
THEOREM Invariance == Spec => []IInv
  <1>1. IInv /\ [Next]_vars => IInv'
    <2> SUFFICES ASSUME IInv, [Next]_vars PROVE IInv'
      OBVIOUS
    <2>1. CASE Next
      BY <2>1, TypeStep, FitStep, CallsStep, ClaimsStep, PrefixStep DEF IInv
    <2>2. CASE UNCHANGED vars
      <3>1. /\ TypeOK' = TypeOK /\ VectorsFit' = VectorsFit
            /\ CallsOK' = CallsOK /\ ClaimsExclusive' = ClaimsExclusive
            /\ PrefixInPlace' = PrefixInPlace
        BY <2>2
        DEF vars, memory, calls, TypeOK, VectorsFit, CallsOK, ClaimsExclusive,
            PrefixInPlace, Live, Length, Filling, Busy, OtherLength,
            ResultLength, ClaimStart, ResultByte, ByteAt
      <3> QED
        BY <3>1 DEF IInv
    <2> QED
      BY <2>1, <2>2
  <1> QED
    BY InitIInv, <1>1, PTL DEF Spec

(* The variables keep their types, and no cell outside an allocation is    *)
(* ever given a value.                                                     *)
THEOREM TypeCorrect == Spec => []TypeOK
  <1>1. IInv => TypeOK
    BY DEF IInv
  <1> QED
    BY <1>1, Invariance, PTL

(* No vector, and no append in progress, outgrows or outlives its memory.  *)
THEOREM Fitting == Spec => []VectorsFit
  <1>1. IInv => VectorsFit
    BY DEF IInv
  <1> QED
    BY <1>1, Invariance, PTL

(* The unlocked copies of internalAppend never race with a reader or with  *)
(* one another, however many threads append to vectors that share storage. *)
THEOREM RaceFreedom == Spec => []DataRaceFree
  <1>1. IInv => DataRaceFree
    <2> SUFFICES ASSUME IInv, NEW t \in Threads, Writing(t)
                 PROVE  /\ \A v \in Vectors :
                             Live(v) /\ vec[v].storage = dest[t] =>
                               Length(v) <= copied[t]
                        /\ \A u \in Threads \ {t} :
                             Writing(u) =>
                               <<dest[u], copied[u]>> # <<dest[t], copied[t]>>
      BY DEF DataRaceFree
    <2>1. ASSUME NEW u \in Threads \ {t}, Writing(u), dest[u] = dest[t]
          PROVE  copied[u] # copied[t]
      <3>1. /\ Filling(t) /\ Filling(u)
            /\ copied[t] < ResultLength(t) /\ copied[u] < ResultLength(u)
        BY <2>1 DEF Writing
      <3>2. /\ ClaimStart(t) \in Nat /\ copied[t] \in Nat /\ ResultLength(t) \in Nat
            /\ ClaimStart(t) <= copied[t]
            /\ copied[u] \in Nat /\ ResultLength(u) \in Nat
        BY <3>1, FillType, CallType DEF IInv
      <3>3. ResultLength(u) <= ClaimStart(t)
        BY <2>1, <3>1, <3>2 DEF IInv, ClaimsExclusive
      <3> QED
        BY <3>1, <3>2, <3>3
    <2> QED
      BY <2>1, WriteBeyondVectors
  <1> QED
    BY <1>1, Invariance, PTL

(* ByteVectors are immutable: no append of any thread changes the bytes of *)
(* a vector that somebody holds.                                           *)
THEOREM VectorsImmutable == Spec => Immutability
  <1> DEFINE Kept == \A v \in Vectors :
                       Live(v) /\ vec'[v] = vec[v] => Contents(v)' = Contents(v)
  <1>1. IInv /\ [Next]_vars => [Kept]_vars
    <2> SUFFICES ASSUME IInv, Next, NEW v \in Vectors, Live(v), vec'[v] = vec[v]
                 PROVE  Contents(v)' = Contents(v)
      OBVIOUS
    <2>1. Length(v)' = Length(v) /\ Length(v) \in Nat
      BY LiveType DEF Length, IInv
    <2>2. \A i \in 1 .. Length(v) : ByteAt(v, i - 1)' = ByteAt(v, i - 1)
      <3> SUFFICES ASSUME NEW i \in 1 .. Length(v)
                   PROVE  ByteAt(v, i - 1)' = ByteAt(v, i - 1)
        OBVIOUS
      <3>1. i - 1 \in 0 .. Length(v) - 1
        BY <2>1
      <3> QED
        BY <3>1, BytesKept
    <2> QED
      BY <2>1, <2>2 DEF Contents
  <1> QED
    BY <1>1, Invariance, PTL DEF Spec, Immutability

(***************************************************************************)
(* Refinement.                                                             *)
(***************************************************************************)
Value == [v \in Vectors |-> IF Live(v) THEN Contents(v) ELSE None]

(* The value of a live vector is a sequence of its length.                 *)
LEMMA ContentsType ==
  ASSUME IInv, NEW v \in Vectors, Live(v)
  PROVE  /\ Contents(v) \in Seq(Cell)
         /\ Len(Contents(v)) = Length(v)
         /\ Contents(v) # None
         /\ \A i \in 1 .. Length(v) : Contents(v)[i] = ByteAt(v, i - 1)
  <1>1. /\ vec[v].storage \in Storages /\ Length(v) \in Nat
        /\ Length(v) <= allocatedLength[vec[v].storage]
    BY LiveType DEF IInv, VectorsFit, Length, TypeOK
  <1>2. ASSUME NEW i \in 1 .. Length(v)
        PROVE  ByteAt(v, i - 1) \in Cell
    <2>1. i - 1 \in 0 .. allocatedLength[vec[v].storage] - 1
      BY <1>1 DEF IInv, TypeOK
    <2> QED
      BY <1>1, <2>1 DEF IInv, TypeOK, ByteAt
  <1>3. Contents(v) \in [1 .. Length(v) -> Cell]
    BY <1>2 DEF Contents
  <1>4. Contents(v) \in Seq(Cell) /\ Len(Contents(v)) = Length(v)
    BY <1>1, <1>3
  <1> QED
    BY <1>4, NoneAssumption DEF Contents, Cell

(* A surviving vector keeps its value.                                     *)
LEMMA ValueKept ==
  ASSUME IInv, Next, NEW v \in Vectors, vec'[v] = vec[v]
  PROVE  Value'[v] = Value[v]
  <1>1. CASE Live(v)
    <2>1. Length(v)' = Length(v) /\ Length(v) \in Nat
      BY <1>1, LiveType DEF Length, IInv
    <2>2. ASSUME NEW i \in 1 .. Length(v)
          PROVE  ByteAt(v, i - 1)' = ByteAt(v, i - 1)
      <3>1. i - 1 \in 0 .. Length(v) - 1
        BY <2>1
      <3> QED
        BY <1>1, <3>1, BytesKept
    <2>3. Contents(v)' = Contents(v)
      BY <2>1, <2>2 DEF Contents
    <2> QED
      BY <1>1, <2>3 DEF Value, Live
  <1>2. CASE ~Live(v)
    BY <1>2 DEF Value, Live
  <1> QED
    BY <1>1, <1>2

(* append() returns its operands' bytes, in order, unless it reads a file.  *)
LEMMA ReturnConcatenates ==
  ASSUME IInv, NEW t \in Threads, Return(t), NEW l \in Vectors, NEW r \in Vectors,
         NEW v \in Vectors, l = lhs[t], r = rhs[t], v = dst[t], r \notin FileBacked
  PROVE  Contents(v)' = Contents(l) \o Contents(r)
  <1> USE DEF IInv
  <1>1. /\ l \in Vectors /\ r \in Vectors /\ v \in Vectors
        /\ Live(l) /\ Live(r) /\ ~Live(v)
        /\ Length(l) \in Nat /\ Length(r) \in Nat
        /\ ResultLength(t) = Length(l) + Length(r)
    BY CallType, FillType DEF Return, OtherLength
  <1>2. /\ vec'[v] = [storage |-> dest[t], length |-> ResultLength(t)]
        /\ bytes' = bytes
        /\ \A w \in Vectors \ {v} : vec'[w] = vec[w]
    BY <1>1 DEF Return, memory, TypeOK
  <1>3. Contents(v)' = [i \in 1 .. ResultLength(t) |-> bytes[dest[t]][i - 1]]
    BY <1>2 DEF Contents, ByteAt, Length
  <1>4. ASSUME NEW i \in 1 .. ResultLength(t)
        PROVE  bytes[dest[t]][i - 1] = (Contents(l) \o Contents(r))[i]
    <2>1. bytes[dest[t]][i - 1] = ResultByte(t, i - 1)
      <3>1. i - 1 \in 0 .. copied[t] - 1
        BY <1>1 DEF Return
      <3> QED
        BY <3>1 DEF Return, PrefixInPlace
    <2>2. /\ Contents(l) \in Seq(Cell) /\ Contents(r) \in Seq(Cell)
          /\ Len(Contents(l)) = Length(l) /\ Len(Contents(r)) = Length(r)
          /\ \A j \in 1 .. Length(l) : Contents(l)[j] = ByteAt(l, j - 1)
          /\ \A j \in 1 .. Length(r) : Contents(r)[j] = ByteAt(r, j - 1)
      BY <1>1, ContentsType
    <2>3. CASE i <= Length(l)
      <3>1. (Contents(l) \o Contents(r))[i] = Contents(l)[i]
        BY <1>1, <2>2, <2>3
      <3>2. Contents(l)[i] = ByteAt(l, i - 1)
        BY <1>1, <2>2, <2>3
      <3>3. i - 1 < Length(l)
        BY <1>1, <2>3
      <3> QED
        BY <2>1, <3>1, <3>2, <3>3 DEF ResultByte
    <2>4. CASE ~(i <= Length(l))
      <3>1. i - Length(l) \in 1 .. Length(r)
        BY <1>1, <2>4
      <3>2. (Contents(l) \o Contents(r))[i] = Contents(r)[i - Length(l)]
        BY <1>1, <2>2, <2>4
      <3>3. Contents(r)[i - Length(l)] = ByteAt(r, (i - Length(l)) - 1)
        BY <2>2, <3>1
      <3>4. ~(i - 1 < Length(l)) /\ (i - Length(l)) - 1 = (i - 1) - Length(l)
        BY <1>1, <2>4
      <3> QED
        BY <2>1, <3>2, <3>3, <3>4 DEF ResultByte
    <2> QED
      BY <2>3, <2>4
  <1>5. Contents(v)' = Contents(l) \o Contents(r)
    <2>1. /\ Contents(l) \in Seq(Cell) /\ Contents(r) \in Seq(Cell)
          /\ Len(Contents(l)) = Length(l) /\ Len(Contents(r)) = Length(r)
      BY <1>1, ContentsType
    <2> DEFINE c == Contents(l) \o Contents(r)
    <2>2. c \in Seq(Cell) /\ Len(c) = ResultLength(t)
      BY <1>1, <2>1
    <2>3. c = [i \in 1 .. ResultLength(t) |-> c[i]]
      <3> HIDE DEF c
      <3> QED
        BY <2>2
    <2> QED
      BY <1>3, <1>4, <2>3
  <1> QED
    BY <1>5

(* Without failing reads, each step of the concurrent appends is a step of *)
(* ImmutableVectors or leaves every value alone: an append takes effect    *)
(* when it returns.                                                        *)
LEMMA Simulation ==
  ASSUME IInv, Next, FileBacked = {}
  PROVE  Abs!Next \/ Value' = Value
  <1> USE DEF IInv
  <1> DEFINE Sets(v, x) == Value' = [Value EXCEPT ![v] = x]
  <1>0. ASSUME NEW v \in Vectors, NEW x, Value'[v] = x,
               \A w \in Vectors \ {v} : vec'[w] = vec[w]
        PROVE  Sets(v, x)
    <2>1. \A w \in Vectors \ {v} : Value'[w] = Value[w]
      BY <1>0, ValueKept
    <2> QED
      BY <1>0, <2>1 DEF Value
  <1>1. ASSUME NEW v \in Vectors, NEW s \in Storages, NEW data \in Sources,
               Construct(v, s, data)
        PROVE  Abs!Construct(v, data)
    <2>1. data \in Seq(Byte)
      BY SourcesAssumption
    <2>2. /\ vec'[v] = [storage |-> s, length |-> Len(data)]
          /\ bytes'[s] = [i \in 0 .. Len(data) - 1 |-> data[i + 1]]
          /\ \A w \in Vectors \ {v} : vec'[w] = vec[w]
      BY <1>1 DEF Construct, TypeOK
    <2>3. Contents(v)' = [i \in 1 .. Len(data) |-> bytes'[s][i - 1]]
      BY <2>2 DEF Contents, ByteAt, Length
    <2>4. \A i \in 1 .. Len(data) : bytes'[s][i - 1] = data[i]
      BY <2>1, <2>2
    <2>5. Contents(v)' = data
      BY <2>1, <2>3, <2>4
    <2>6. Live(v)'
      BY <2>1, <2>2, NoneAssumption DEF Live
    <2>7. Sets(v, data)
      BY <1>0, <2>2, <2>5, <2>6 DEF Value
    <2> QED
      BY <1>1, <2>7 DEF Abs!Construct, Abs!Live, Construct, Unused, Value
  <1>2. ASSUME NEW v \in Vectors, NEW w \in Vectors, CopyConstruct(v, w)
        PROVE  Abs!CopyConstruct(v, w)
    <2>1. /\ Live(v) /\ ~Live(w) /\ v # w
          /\ vec'[w] = vec[v]
          /\ \A u \in Vectors \ {w} : vec'[u] = vec[u]
      BY <1>2 DEF CopyConstruct, Unused, TypeOK
    <2>2. Value'[v] = Value[v]
      BY <2>1, ValueKept
    <2>3. Value'[w] = Value'[v]
      BY <2>1 DEF Value, Live, Contents, Length, ByteAt
    <2>4. Sets(w, Value[v])
      BY <1>0, <2>1, <2>2, <2>3
    <2>5. Value[v] # None /\ Value[w] = None
      BY <2>1, ContentsType DEF Value
    <2> QED
      BY <2>4, <2>5 DEF Abs!CopyConstruct, Abs!Live, Value
  <1>3. ASSUME NEW v \in Vectors, Destroy(v)
        PROVE  Abs!Destroy(v)
    <2>1. Live(v) /\ vec'[v] = None /\ \A w \in Vectors \ {v} : vec'[w] = vec[w]
      BY <1>3 DEF Destroy, TypeOK
    <2>2. Sets(v, None)
      BY <1>0, <2>1 DEF Value, Live
    <2>3. Value[v] # None
      BY <2>1, ContentsType DEF Value
    <2> QED
      BY <2>2, <2>3 DEF Abs!Destroy, Abs!Live, Value
  <1>4. ASSUME NEW t \in Threads, Return(t), NEW l \in Vectors, NEW r \in Vectors,
               NEW v \in Vectors, l = lhs[t], r = rhs[t], v = dst[t]
        PROVE  Abs!AppendTo(l, r, v)
    <2>1. /\ Live(l) /\ Live(r) /\ ~Live(v)
          /\ Length(l) \in Nat /\ Length(r) \in Nat
          /\ ResultLength(t) = Length(l) + Length(r)
      BY <1>4, CallType, FillType DEF Return, OtherLength
    <2>2. /\ vec'[v] = [storage |-> dest[t], length |-> ResultLength(t)]
          /\ \A w \in Vectors \ {v} : vec'[w] = vec[w]
      BY <1>4, <2>1 DEF Return, TypeOK
    <2>5. Contents(v)' = Contents(l) \o Contents(r)
      BY <1>4, ReturnConcatenates
    <2>6. Live(v)'
      <3>1. dest[t] \in Storages /\ ResultLength(t) \in Nat
        BY <1>4, <2>1, FillType DEF Return
      <3> QED
        BY <2>2, <3>1, NoneAssumption DEF Live
    <2>7. Value'[v] = Value[l] \o Value[r]
      BY <2>1, <2>5, <2>6 DEF Value
    <2>8. Sets(v, Value[l] \o Value[r])
      BY <1>0, <2>1, <2>2, <2>7
    <2>9. Value[l] # None /\ Value[r] # None /\ Value[v] = None
      BY <2>1, ContentsType DEF Value
    <2> QED
      BY <2>8, <2>9 DEF Abs!AppendTo, Abs!Live, Value
  <1>5. ASSUME vec' = vec
        PROVE  Value' = Value
    <2>1. \A w \in Vectors : Value'[w] = Value[w]
      BY <1>5, ValueKept
    <2> QED
      BY <2>1 DEF Value
  <1>6. ASSUME NEW t \in Threads, Step(t), ~Return(t)
        PROVE  vec' = vec
    BY <1>6 DEF Step, Reserve, Reallocate, Decline, BadAlloc, FillByte, ReadFails
  <1>7. ASSUME NEW t \in Threads, NEW l \in Vectors, NEW r \in Vectors,
               NEW v \in Vectors, Call(t, l, r, v)
        PROVE  vec' = vec
    BY <1>7 DEF Call
  <1>8. ASSUME NEW t \in Threads, Return(t)
        PROVE  Abs!Next
    <2>1. lhs[t] \in Vectors /\ rhs[t] \in Vectors /\ dst[t] \in Vectors
      BY <1>8, CallType, FillType DEF Return
    <2> QED
      BY <1>4, <1>8, <2>1 DEF Abs!Next
  <1> QED
    BY <1>1, <1>2, <1>3, <1>5, <1>6, <1>7, <1>8 DEF Next, Abs!Next

(* Without failing reads, append() returns "this vector's data, followed by *)
(* the provided vector's data", whatever the other threads do meanwhile.    *)
THEOREM Concatenation ==
  ASSUME FileBacked = {}
  PROVE  Spec => AppendConcatenates
  <1>1. IInv /\ [Next]_vars =>
          [\A t \in Threads, v \in Vectors :
             Filling(t) /\ dst[t] = v /\ ~Filling(t)' =>
               Contents(v)' = Contents(lhs[t]) \o Contents(rhs[t])]_vars
    <2> SUFFICES ASSUME IInv, Next, NEW t \in Threads, NEW v \in Vectors,
                        Filling(t), dst[t] = v, ~Filling(t)'
                 PROVE  Contents(v)' = Contents(lhs[t]) \o Contents(rhs[t])
      BY DEF vars
    <2>1. lhs[t] \in Vectors /\ rhs[t] \in Vectors
      BY CallType DEF IInv, Filling, Busy
    <2>2. Return(t)
      <3>1. ASSUME NEW u \in Threads, Step(u), ~Return(u) \/ u # t
            PROVE  Filling(t)'
        BY <3>1 DEF IInv, TypeOK, Step, Reserve, Reallocate, Decline, BadAlloc, FillByte,
                    ReadFails, Return, StartFill, EndCall, Filling
      <3>2. ASSUME NEW l \in Vectors, NEW r \in Vectors, NEW w \in Vectors,
                   NEW u \in Threads, Call(u, l, r, w)
            PROVE  Filling(t)'
        BY <3>2 DEF IInv, TypeOK, Call, Filling, Busy
      <3>3. CASE UNCHANGED calls
        BY <3>3 DEF calls, Filling
      <3> QED
        BY <3>1, <3>2, <3>3 DEF Next, Construct, CopyConstruct, Destroy
    <2> QED
      BY <2>1, <2>2, ReturnConcatenates
  <1> QED
    BY <1>1, Invariance, PTL DEF Spec, AppendConcatenates

(* Without failing reads, internalAppend under any interleaving implements *)
(* atomic appends of immutable byte vectors.                               *)
THEOREM Refinement ==
  ASSUME FileBacked = {}
  PROVE  Spec => Implements
  <1>1. Init => Abs!Init
    BY DEF Init, Abs!Init, Live
  <1>2. IInv /\ [Next]_vars => [Abs!Next]_Value
    <2> SUFFICES ASSUME IInv, [Next]_vars PROVE Abs!Next \/ Value' = Value
      OBVIOUS
    <2>1. CASE Next
      BY <2>1, Simulation
    <2>2. CASE UNCHANGED vars
      BY <2>2 DEF vars, memory, Value, Live, Contents, Length, ByteAt
    <2> QED
      BY <2>1, <2>2
  <1> QED
    BY <1>1, <1>2, Invariance, PTL DEF Spec, Implements, Abs!Spec, Value
(***************************************************************************)
(* Appends do not wait.                                                    *)
(***************************************************************************)

(* Each step that a thread takes in an append is one of those it has left. *)
LEMMA StepCounts ==
  ASSUME IInv, Next, NEW t \in Threads, Step(t)
  PROVE  Busy(t) /\ StepsLeft(t)' \in Int /\ StepsLeft(t)' < StepsLeft(t)
  <1>1. Busy(t) /\ pc[t] \in {"called", "fill"}
    BY DEF IInv, TypeOK, Step, Reserve, Reallocate, Decline, BadAlloc, FillByte, ReadFails,
           Return, Filling, Busy
  <1>2. /\ ResultLength(t) \in Nat /\ Length(lhs[t]) \in Nat
        /\ ResultLength(t) = Length(lhs[t]) + OtherLength(t) /\ OtherLength(t) \in Nat
    BY <1>1, CallType DEF IInv
  <1>3. Filling(t) => copied[t] \in Nat /\ copied[t] <= ResultLength(t)
    BY FillType DEF IInv
  <1>4. lhs'[t] = lhs[t] /\ rhs'[t] = rhs[t] => ResultLength(t)' = ResultLength(t)
    BY <1>1, OperandsKept DEF ResultLength, OtherLength, Length
  <1>5. ASSUME pc[t] = "called", NEW s \in Storages, NEW done \in 0 .. Length(lhs[t]),
               StartFill(t, s, done)
        PROVE  StepsLeft(t)' \in Int /\ StepsLeft(t)' < StepsLeft(t)
    <2>1. /\ pc'[t] = "fill" /\ copied'[t] = done
          /\ lhs'[t] = lhs[t] /\ rhs'[t] = rhs[t]
      BY <1>5 DEF StartFill, IInv, TypeOK
    <2>2. StepsLeft(t) = ResultLength(t) + 2 /\ StepsLeft(t)' = ResultLength(t) - done + 1
      BY <1>4, <1>5, <2>1 DEF StepsLeft
    <2> QED
      BY <1>2, <2>2
  <1>6. ASSUME EndCall(t) PROVE StepsLeft(t)' \in Int /\ StepsLeft(t)' < StepsLeft(t)
    <2>1. pc'[t] = "idle"
      BY <1>6 DEF EndCall, IInv, TypeOK
    <2>2. StepsLeft(t)' = 0
      BY <2>1 DEF StepsLeft
    <2>3. 0 < StepsLeft(t)
      BY <1>1, <1>2, <1>3 DEF StepsLeft, Filling
    <2> QED
      BY <2>2, <2>3
  <1>7. ASSUME Filling(t), pc' = pc, lhs' = lhs, rhs' = rhs,
               copied'[t] \in Nat, copied[t] < copied'[t]
        PROVE  StepsLeft(t)' \in Int /\ StepsLeft(t)' < StepsLeft(t)
    <2>1. /\ StepsLeft(t) = ResultLength(t) - copied[t] + 1
          /\ StepsLeft(t)' = ResultLength(t) - copied'[t] + 1
      BY <1>4, <1>7 DEF StepsLeft, Filling
    <2> QED
      BY <1>2, <1>3, <1>7, <2>1
  <1>8. CASE Reserve(t)
    <2>1. vec[lhs[t]].storage \in Storages
      BY <1>1, CallType DEF IInv
    <2> QED
      BY <1>1, <1>2, <1>5, <1>8, <2>1 DEF Reserve
  <1>9. ASSUME NEW s \in Storages, Reallocate(t, s)
        PROVE  StepsLeft(t)' \in Int /\ StepsLeft(t)' < StepsLeft(t)
    BY <1>2, <1>5, <1>9 DEF Reallocate
  <1>10. CASE FillByte(t) \/ ReadFails(t)
    <2>1. copied[t] < copied'[t] /\ copied'[t] \in Nat
      BY <1>2, <1>3, <1>10 DEF FillByte, ReadFails, IInv, TypeOK
    <2> QED
      BY <1>1, <1>7, <1>10, <2>1 DEF FillByte, ReadFails
  <1>11. CASE Decline(t) \/ BadAlloc(t) \/ Return(t)
    BY <1>1, <1>6, <1>11 DEF Decline, BadAlloc, Return
  <1> QED
    BY <1>1, <1>8, <1>9, <1>10, <1>11 DEF Step

(* append() is wait-free: what other threads do neither stops nor delays   *)
(* it, since a compare-and-swap that fails is not tried again.             *)
THEOREM WaitFreedom == Spec => WaitFree
  <1>1. IInv /\ [Next]_vars =>
          [\A t \in Threads :
             Busy(t) => /\ StepsLeft(t)' <= StepsLeft(t)
                        /\ Step(t) => StepsLeft(t)' < StepsLeft(t)]_vars
    <2> SUFFICES ASSUME IInv, Next, NEW t \in Threads, Busy(t)
                 PROVE  /\ StepsLeft(t)' <= StepsLeft(t)
                        /\ Step(t) => StepsLeft(t)' < StepsLeft(t)
      OBVIOUS
    <2>1. StepsLeft(t) \in Int
      <3>1. ResultLength(t) \in Nat /\ copied[t] \in Nat
        BY CallType DEF IInv, TypeOK
      <3> QED
        BY <3>1 DEF StepsLeft
    <2>2. CASE Step(t)
      <3>1. StepsLeft(t)' \in Int /\ StepsLeft(t)' < StepsLeft(t)
        BY <2>2, StepCounts
      <3> QED
        BY <2>1, <3>1
    <2>3. CASE ~Step(t)
      <3>1. /\ pc'[t] = pc[t] /\ lhs'[t] = lhs[t] /\ rhs'[t] = rhs[t]
            /\ copied'[t] = copied[t]
        BY <2>3, CallKept DEF Next, Construct, CopyConstruct, Destroy, calls, Call, Busy, IInv, TypeOK
      <3>2. StepsLeft(t)' = StepsLeft(t)
        BY <3>1, OperandsKept DEF StepsLeft, ResultLength, OtherLength, Length
      <3> QED
        BY <2>1, <2>3, <3>2
    <2> QED
      BY <2>2, <2>3
  <1> QED
    BY <1>1, Invariance, PTL DEF Spec, WaitFree
=============================================================================
