------------------------- MODULE ByteVectorStorage --------------------------
(***************************************************************************)
(* The storage algorithms of src/src/byte_vector.hpp, namespace            *)
(* bytevector: length, append, view, read, iterate over the sum type       *)
(* VTypeAll.  A storage value is a tree: Empty, DirectValue, Buffered and  *)
(* File are leaves, a View projects a leaf, an Append has two operands.    *)
(* BufferedStorage shows that vectors which share an UnderlyingStorage do  *)
(* not disturb each other, so a Buffered carries its own bytes here, and   *)
(* what is left of the sharing is a choice in InternalAppends.             *)
(*                                                                         *)
(* Results of type either<ParseError, T> are Left or Right(x); what is     *)
(* kept of a ParseError is its stack of contexts.                          *)
(***************************************************************************)
EXTENDS Integers, Sequences, SequencesExt

CONSTANTS
  Junk,       \* memory past the end of a vector, or never written
  MaxBytes,   \* DirectValue::MaxBytes
  ChunkSize,  \* sizeof(localBuffer) in iterate(File)
  SizeMax,    \* SIZE_MAX
  kMinimumUnderlyingStorageSize,
  kReallocationFactor,
  kMaximumAlwaysInternalAppendSize

(* The static_assert in append(DirectValue, DirectValue).                  *)
ASSUME InternalAppendAssumption ==
  kMaximumAlwaysInternalAppendSize >= 2 * MaxBytes

ASSUME ChunkAssumption == ChunkSize \in Nat \ {0}

Left == [ok |-> FALSE, context |-> <<>>]

Right(x) == [ok |-> TRUE, value |-> x]

(* size_t subtraction, which wraps around.                                 *)
SizeMinus(m, n) == (m - n) % (SizeMax + 1)

Least(m, n) == IF m <= n THEN m ELSE n

(***************************************************************************)
(* Storage values.                                                         *)
(***************************************************************************)
Empty == [kind |-> "Empty"]

DirectValue(bytes) == [kind |-> "DirectValue", bytes |-> bytes]

(* room: allocatedLength - length of the storage.                          *)
Buffered(bytes, room) == [kind |-> "Buffered", bytes |-> bytes, room |-> room]

(* readable: whether pread succeeds on its descriptor.                     *)
File(bytes, readable) ==
  [kind |-> "File", bytes |-> bytes, readable |-> readable]

ViewOf(storage, offset, length) ==
  [kind |-> "View", storage |-> storage, offset |-> offset, length |-> length]

Leaves == {"DirectValue", "Buffered", "File"}

Length(v) ==
  CASE v.kind = "Empty"   -> 0
    [] v.kind \in Leaves  -> Len(v.bytes)
    [] OTHER              -> v.length

AppendNode(l, r) ==
  [kind |-> "Append", lhs |-> l, rhs |-> r, length |-> Length(l) + Length(r)]

(* The bytes a vector stands for: what the operations below are held to.   *)
RECURSIVE Contents(_)
Contents(v) ==
  CASE v.kind = "Empty"   -> <<>>
    [] v.kind \in Leaves  -> v.bytes
    [] v.kind = "View"    ->
         SubSeq(Contents(v.storage), v.offset + 1, v.offset + v.length)
    [] v.kind = "Append"  -> Contents(v.lhs) \o Contents(v.rhs)

(* "Views are never computed over the entirity of an Append", and lie      *)
(* within the leaf they project.                                           *)
RECURSIVE WellFormed(_)
WellFormed(v) ==
  /\ v.kind = "View" => /\ v.storage.kind \in Leaves
                        /\ v.offset + v.length <= Length(v.storage)
  /\ v.kind = "Append" => /\ WellFormed(v.lhs) /\ WellFormed(v.rhs)
                          /\ v.length <= SizeMax

(* An Empty is, or is an operand somewhere in, v.                          *)
RECURSIVE HasEmpty(_)
HasEmpty(v) ==
  \/ v.kind = "Empty"
  \/ v.kind = "Append" /\ (HasEmpty(v.lhs) \/ HasEmpty(v.rhs))

(* A View of a file that iterate() reads in several chunks is in v.        *)
RECURSIVE HasChunkedView(_)
HasChunkedView(v) ==
  \/ /\ v.kind = "View" /\ v.storage.kind = "File"
     /\ Length(v.storage) > ChunkSize
  \/ v.kind = "Append" /\ (HasChunkedView(v.lhs) \/ HasChunkedView(v.rhs))

(* A file that cannot be read is in v.                                     *)
RECURSIVE HasUnreadable(_)
HasUnreadable(v) ==
  \/ v.kind = "File" /\ ~v.readable
  \/ v.kind = "View" /\ HasUnreadable(v.storage)
  \/ v.kind = "Append" /\ (HasUnreadable(v.lhs) \/ HasUnreadable(v.rhs))

(* Where an operation at offset of an Append goes on in its rhs.  As in    *)
(* every module, a faulty variant precedes the operator it stands in for   *)
(* when a run is tested for what it can detect.                            *)
RhsOffsetUnreduced(lhs_len, offset) == offset

RhsOffset(lhs_len, offset) ==
  IF lhs_len < offset THEN offset - lhs_len ELSE 0

(***************************************************************************)
(* read(v, bytes, offset, len, require_full_read): the bytes stored in the *)
(* caller's buffer.  require_full_read is passed along and never looked    *)
(* at.                                                                     *)
(***************************************************************************)

CopyFromStart(bytes, offset, len) == SubSeq(bytes, 1, Least(len, Len(bytes)))

(* memcpy of min(len, length) bytes from offset on, which goes past the    *)
(* end of the vector when offset is not 0.                                 *)
CopyFrom(bytes, offset, len) ==
  [i \in 1 .. Least(len, Len(bytes)) |->
     IF offset + i <= Len(bytes) THEN bytes[offset + i] ELSE Junk]

FileReadNoErrors(v, offset, len) ==
  Right(IF v.readable
          THEN SubSeq(v.bytes, offset + 1, Least(offset + len, Len(v.bytes)))
          ELSE <<>>)

(* File::read, for preads that return all there is: up to the end of the   *)
(* file, or an error.                                                      *)
FileRead(v, offset, len) ==
  IF len > 0 /\ ~v.readable THEN Left
  ELSE Right(SubSeq(v.bytes, offset + 1, Least(offset + len, Len(v.bytes))))

RECURSIVE Read(_, _, _)
Read(v, offset, len) ==
  IF offset > Length(v) THEN Left
  ELSE
  CASE v.kind = "Empty" -> Right(<<>>)
    [] v.kind \in {"DirectValue", "Buffered"} ->
         Right(CopyFrom(v.bytes, offset, len))
    [] v.kind = "File" -> FileRead(v, offset, len)
    [] v.kind = "View" ->
         IF SizeMax - v.offset < offset THEN Right(<<>>)
         ELSE Read(v.storage, v.offset + offset, Least(len, v.length))
    [] v.kind = "Append" ->
         LET lhs_len  == Length(v.lhs)
             lhs_read == IF offset < lhs_len
                           THEN Read(v.lhs, offset, Least(lhs_len - offset, len))
                           ELSE Right(<<>>)
         IN  IF ~lhs_read.ok THEN Left
             ELSE LET done == Len(lhs_read.value)
                      rhs_read == IF done < len
                                    THEN Read(v.rhs, RhsOffset(lhs_len, offset),
                                              len - done)
                                    ELSE Right(<<>>)
                  IN  IF rhs_read.ok THEN Right(lhs_read.value \o rhs_read.value)
                                     ELSE Left

(***************************************************************************)
(* view(v, offset, len): a projection of the bytes.                        *)
(***************************************************************************)
InRangeStartOnly(v, offset, len) == offset <= Length(v)

InRange(v, offset, len) ==
  /\ offset <= Length(v)
  /\ SizeMax - offset >= len
  /\ offset + len <= Length(v)

RECURSIVE View(_, _, _)
View(v, offset, len) ==
  IF ~InRange(v, offset, len) THEN Left
  ELSE
  CASE v.kind = "Empty" -> Left
    [] v.kind \in Leaves -> Right(ViewOf(v, offset, len))
    [] v.kind = "View" ->
         IF SizeMax - offset < v.offset THEN Left
         ELSE View(v.storage, v.offset + offset, len)
    [] v.kind = "Append" ->
         LET lhs_len == Length(v.lhs)
         IN  IF offset >= lhs_len THEN View(v.rhs, RhsOffset(lhs_len, offset), len)
             ELSE IF offset + len < lhs_len THEN View(v.lhs, offset, len)
             ELSE LET l == View(v.lhs, offset, lhs_len - offset)
                      r == View(v.rhs, 0, len - Length(l.value))
                  IN  IF l.ok /\ r.ok THEN Right(AppendNode(l.value, r.value))
                                      ELSE Left

ReadIntegerNoRemainder(v, size, offset) ==
  LET read == Read(v, offset, size)
  IN  IF Length(v) < size \/ ~read.ok THEN Left
      ELSE Right([value |-> read.value, remainder |-> v])

(* read<N>(v, offset), N of the given size: the integer's bytes and the    *)
(* remainder.  What the read does not fill stays uninitialized.            *)
ReadInteger(v, size, offset) ==
  IF Length(v) < size THEN Left
  ELSE LET remainder == View(v, size, Length(v) - size)
           read == Read(v, offset, size)
       IN  IF remainder.ok /\ read.ok
             THEN Right([value |-> [i \in 1 .. size |->
                                      IF i <= Len(read.value) THEN read.value[i]
                                                              ELSE Junk],
                         remainder |-> remainder.value])
             ELSE Left

(***************************************************************************)
(* append(lhs, rhs).                                                       *)
(***************************************************************************)

(* rhs read into new memory; the result of read() is ignored.              *)
ReadAll(v) ==
  LET read == Read(v, 0, Length(v))
  IN  [i \in 1 .. Length(v) |->
         IF read.ok /\ i <= Len(read.value) THEN read.value[i] ELSE Junk]

NewLength(length, other) ==
  Max({length + other, length * kReallocationFactor, kMinimumUnderlyingStorageSize})

(* What Buffered::internalAppend may return.  With room left the append is *)
(* in place if no other vector took the room first; if one did, or there   *)
(* is not enough, a small rhs goes to a new storage and a large one is     *)
(* declined.                                                               *)
InternalAppends(b, rhs) ==
  LET other == Length(rhs)
      joined == b.bytes \o ReadAll(rhs)
      inPlace == IF other <= b.room THEN {Right(Buffered(joined, b.room - other))}
                                    ELSE {}
      elsewhere == IF other <= kMaximumAlwaysInternalAppendSize
                     THEN {Right(Buffered(joined,
                              NewLength(Len(b.bytes), other) - Len(joined)))}
                     ELSE {Left}
  IN  inPlace \cup elsewhere

(* The storage values append(lhs, rhs) may return.                         *)
Appends(lhs, rhs) ==
  LET node == AppendNode(lhs, rhs)
  IN
  CASE lhs.kind = "Empty" -> {rhs}
    [] lhs.kind = "Buffered" ->
         {IF a.ok THEN a.value ELSE node : a \in InternalAppends(lhs, rhs)}
    [] lhs.kind = "Append" /\ lhs.rhs.kind = "Buffered" ->
         {IF a.ok THEN AppendNode(lhs.lhs, a.value) ELSE node :
            a \in InternalAppends(lhs.rhs, rhs)}
    [] lhs.kind = "DirectValue" /\ rhs.kind = "DirectValue" ->
         {b.value : b \in UNION {InternalAppends(a.value, rhs) :
                                   a \in InternalAppends(Buffered(<<>>, 0), lhs)}}
    [] OTHER -> {node}

(***************************************************************************)
(* iterate(v, f, ...), with an f that sets *stop in its limit-th call:     *)
(* [ok, calls], calls holding the bytes each call of f was passed.         *)
(***************************************************************************)

(* The successive chunks of a leaf.                                        *)
LeafChunks(v) ==
  IF v.kind = "File"
    THEN [i \in 1 .. (Length(v) + ChunkSize - 1) \div ChunkSize |->
            SubSeq(v.bytes, (i - 1) * ChunkSize + 1,
                            Least(i * ChunkSize, Length(v)))]
    ELSE <<v.bytes>>

(* iterate(v) of a leaf, or of a View's storage with wrapperF for f: the   *)
(* state holds wrapperF's toSkip and toPass.                               *)
PassLeaf(v, calls, limit) ==
  FoldLeft(LAMBDA cs, chunk : IF Len(cs) >= limit THEN cs ELSE Append(cs, chunk),
           calls, LeafChunks(v))

PassChunkKeepsPointer(st, chunk) ==
  IF st.skip >= Len(chunk) THEN [st EXCEPT !.skip = @ - Len(chunk)]
  ELSE IF st.pass = 0 THEN [st EXCEPT !.skip = 0]
  ELSE [calls |-> Append(st.calls, SubSeq(chunk, 1, Least(st.pass, Len(chunk)))),
        skip |-> 0, pass |-> 0]

(* One call of wrapperF.                                                   *)
PassChunk(st, chunk) ==
  LET skipped == SubSeq(chunk, st.skip + 1, Len(chunk))
      whole   == IF st.pass > Len(skipped)
                   THEN [calls |-> Append(st.calls, skipped), skip |-> 0,
                         pass |-> st.pass - Len(skipped)]
                   ELSE [st EXCEPT !.skip = 0]
  IN  IF st.skip >= Len(chunk) THEN [st EXCEPT !.skip = @ - Len(chunk)]
      ELSE IF st.pass = 0 THEN [st EXCEPT !.skip = 0]
      ELSE IF whole.pass <= Len(skipped)   \* the branch above did not return
        THEN [calls |-> Append(whole.calls, SubSeq(skipped, 1, whole.pass)),
              skip |-> 0, pass |-> 0]
        ELSE whole

PassView(v, calls, limit) ==
  FoldLeft(LAMBDA st, chunk : IF Len(st.calls) >= limit THEN st ELSE PassChunk(st, chunk),
           [calls |-> calls, skip |-> v.offset, pass |-> v.length],
           LeafChunks(v.storage)).calls

RECURSIVE IterateFrom(_, _, _)
IterateFrom(v, calls, limit) ==
  LET done(cs) == [ok |-> TRUE, calls |-> cs]
      failed   == [ok |-> FALSE, calls |-> calls]
      \* an operand that is an Append is a shared_ptr<Append>, whose result
      \* is dropped
      operand(w, cs) == LET r == IterateFrom(w, cs, limit)
                        IN  IF w.kind = "Append" THEN done(r.calls) ELSE r
      unreadable(w) == w.kind = "File" /\ ~w.readable /\ Length(w) > 0
  IN
  IF Len(calls) >= limit \/ v.kind = "Empty" THEN done(calls)
  ELSE
  CASE v.kind = "Append" ->
         LET l == operand(v.lhs, calls)
         IN  IF ~l.ok \/ Len(l.calls) >= limit THEN l ELSE operand(v.rhs, l.calls)
    [] v.kind = "View" -> IF unreadable(v.storage) THEN failed
                          ELSE done(PassView(v, calls, limit))
    [] OTHER -> IF unreadable(v) THEN failed ELSE done(PassLeaf(v, calls, limit))

Iterate(v, limit) == IterateFrom(v, <<>>, limit)
=============================================================================
