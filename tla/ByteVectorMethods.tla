------------------------- MODULE ByteVectorMethods --------------------------
(***************************************************************************)
(* Member functions of struct ByteVector (src/src/byte_vector.hpp) that    *)
(* programs and codecs call, over the storage values of ByteVectorStorage. *)
(***************************************************************************)
EXTENDS ByteVectorStorage

CONSTANT Zero  \* the byte 0

(* The initializer list, Memset and Bytes: small arrays are DirectValues.  *)
FromArray(bytes) ==
  IF Len(bytes) <= MaxBytes THEN DirectValue(bytes) ELSE Buffered(bytes, 0)

Memset(n) == FromArray([i \in 1 .. n |-> Zero])

(***************************************************************************)
(* Operations that only look.                                              *)
(***************************************************************************)

(* read(bytes, offset, length): "exactly length bytes".  The assertion in  *)
(* it fails when the storage reports fewer.                                *)
AssertionFails == [ok |-> FALSE, assertion |-> "nread == length"]

ReadExactly(v, offset, length) ==
  LET read == Read(v, offset, length)
  IN  IF read.ok /\ Len(read.value) # length THEN AssertionFails ELSE read

(* operator[]: fromRight throws on an error, which is Left here.           *)
UnsafeGet(v, idx) ==
  LET read == ReadInteger(v, 1, idx)
  IN  IF read.ok THEN Right(read.value.value[1]) ELSE Left

EqualUpToShorter(v, w) ==
  Right(\A i \in 0 .. Least(Length(v), Length(w)) - 1 : UnsafeGet(v, i) = UnsafeGet(w, i))

(* operator==, byte by byte up to the first difference or exception.       *)
Gets(v) == [i \in 0 .. Length(v) - 1 |-> UnsafeGet(v, i)]

EqualGets(lhs, rhs) ==
  LET ends == {i \in DOMAIN lhs : ~lhs[i].ok \/ lhs[i] # rhs[i]}
  IN  IF ends = {} THEN Right(TRUE)
      ELSE IF lhs[Min(ends)].ok /\ rhs[Min(ends)].ok THEN Right(FALSE)
      ELSE Left

Equal(v, w) ==
  IF Length(v) # Length(w) THEN Right(FALSE) ELSE EqualGets(Gets(v), Gets(w))

ToVector(v) == IF Length(v) = 0 THEN Right(<<>>) ELSE ReadExactly(v, 0, Length(v))

FromVector(bytes) == IF bytes = <<>> THEN Empty ELSE FromArray(bytes)

(***************************************************************************)
(* Operations that return a vector: sets of the storage values they may    *)
(* return, and Left for an error.                                          *)
(***************************************************************************)
CheckOffset(v, offset) == offset <= Length(v)

TakeOf(v, n) == View(v, 0, n)

DropKeepsStart(v, n) ==
  IF CheckOffset(v, n) THEN View(v, 0, n) ELSE Left

DropOf(v, n) ==
  IF CheckOffset(v, n) THEN View(v, n, SizeMinus(Length(v), n)) ELSE Left

DropRightOf(v, n) ==
  IF CheckOffset(v, n) THEN View(v, 0, SizeMinus(Length(v), n)) ELSE Left

PadLeftAfter(v, n) == {Right(a) : a \in Appends(v, Memset(n - Length(v)))}

PadLeftOf(v, n) ==
  IF Length(v) > n THEN {Left}
  ELSE {Right(a) : a \in Appends(Memset(n - Length(v)), v)}

PadRightOf(v, n) ==
  IF Length(v) > n THEN {Left}
  ELSE {Right(a) : a \in Appends(v, Memset(n - Length(v)))}
=============================================================================
