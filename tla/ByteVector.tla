----------------------------- MODULE ByteVector -----------------------------
(***************************************************************************)
(* struct ByteVector of src/src/byte_vector.hpp: a program applies the     *)
(* public operations to variables of type ByteVector.  A variable holds a  *)
(* storage value of ByteVectorStorage, and what an operation does depends  *)
(* on the shape that the earlier ones gave it.                             *)
(***************************************************************************)
EXTENDS ByteVectorMethods

CONSTANTS
  Registers,  \* variables of type ByteVector
  Arrays,     \* byte arrays that constructors are given
  Files,      \* contents of files that ByteVector::File is given
  Readable,   \* whether a file may be read: a subset of BOOLEAN
  Empties,    \* whether the program uses ByteVector::Empty
  Sizes,      \* sizes and offsets that callers ask for
  MaxLength,  \* bound: longest vector an append or a padding may make
  MaxSteps    \* bound: operations in a behavior

VARIABLES
  reg,      \* reg[x]: the _storage of variable x
  outcome,  \* the last call, and whether it returned a vector: [call, ok]
  steps     \* operations so far

vars == <<reg, outcome, steps>>

(***************************************************************************)
(* The specification.                                                      *)
(***************************************************************************)

(* x = the result, when there is one; a ParseError otherwise.              *)
Assign(x, call, result) ==
  /\ steps < MaxSteps
  /\ steps' = steps + 1
  /\ reg' = IF result.ok THEN [reg EXCEPT ![x] = result.value] ELSE reg
  /\ outcome' = [call |-> call, ok |-> result.ok]

Constructed ==
  {FromArray(bytes) : bytes \in Arrays}
    \cup {File(bytes, readable) : bytes \in Files, readable \in Readable}
    \cup (IF Empties THEN {Empty} ELSE {})

New(x) == \E v \in Constructed : Assign(x, <<"new", x>>, Right(v))

AppendOp(x, y, z) ==
  /\ Length(reg[y]) + Length(reg[z]) <= MaxLength
  /\ \E v \in Appends(reg[y], reg[z]) :
       Assign(x, <<"append", x, y, z>>, Right(v))

Take(x, n) == Assign(x, <<"take", x, n>>, TakeOf(reg[x], n))

Drop(x, n) == Assign(x, <<"drop", x, n>>, DropOf(reg[x], n))

DropRight(x, n) == Assign(x, <<"dropRight", x, n>>, DropRightOf(reg[x], n))

PadLeft(x, n) ==
  /\ n <= MaxLength
  /\ \E result \in PadLeftOf(reg[x], n) : Assign(x, <<"padLeft", x, n>>, result)

PadRight(x, n) ==
  /\ n <= MaxLength
  /\ \E result \in PadRightOf(reg[x], n) : Assign(x, <<"padRight", x, n>>, result)

Init ==
  /\ reg \in [Registers -> Constructed]
  /\ outcome = [call |-> <<"main">>, ok |-> TRUE]
  /\ steps = 0

Next ==
  \E x \in Registers :
    \/ New(x)
    \/ \E y, z \in Registers : AppendOp(x, y, z)
    \/ \E n \in Sizes :
         Take(x, n) \/ Drop(x, n) \/ DropRight(x, n) \/ PadLeft(x, n) \/ PadRight(x, n)

Spec == Init /\ [][Next]_vars

(***************************************************************************)
(* Properties.                                                             *)
(***************************************************************************)
Vectors == {reg[x] : x \in Registers}

(* Every tree the operations build is one the algorithms expect: Views     *)
(* project leaves, inside their bounds, and no length overflows.           *)
WellFormedVectors ==
  /\ \A v \in Vectors : WellFormed(v) /\ Len(Contents(v)) = Length(v)
  /\ outcome.ok \in BOOLEAN /\ steps \in 0 .. MaxSteps

(* read() of bytes that exist returns those bytes, whatever the operations *)
(* that built the vector: offsets are split right between the operands of  *)
(* Appends and composed right through Views.  It fails only if a file      *)
(* does, and then never with half of the bytes.                            *)
ReadExact ==
  \A v \in Vectors : \A offset \in 0 .. Length(v) : \A len \in 0 .. Length(v) - offset :
    LET r == ReadExactly(v, offset, len)
    IN  \/ r = Right(SubSeq(Contents(v), offset + 1, offset + len))
        \/ r = Left /\ HasUnreadable(v)

(* view() selects exactly the bytes asked for, refuses what is out of      *)
(* range, and refuses nothing else unless an Empty is involved.            *)
ViewExact ==
  \A v \in Vectors : \A offset, len \in Sizes :
    LET r == View(v, offset, len)
        inRange == offset + len <= Length(v)
    IN  /\ r.ok => /\ inRange /\ WellFormed(r.value) /\ Length(r.value) = len
                   /\ Contents(r.value) = SubSeq(Contents(v), offset + 1, offset + len)
        /\ inRange /\ ~HasEmpty(v) => r.ok

(* read<N>() takes the first bytes and returns the others as remainder, or *)
(* fails when there are too few: the step a decoder is made of.  No other  *)
(* failure without an Empty or an unreadable file.                         *)
IntegerAtStart ==
  \A v \in Vectors : \A size \in 1 .. 2 :
    LET r == ReadInteger(v, size, 0)
    IN  /\ r.ok => /\ r.value.value = SubSeq(Contents(v), 1, size)
                   /\ Contents(r.value.remainder)
                        = SubSeq(Contents(v), size + 1, Length(v))
        /\ Length(v) >= size /\ ~HasEmpty(v) /\ ~HasUnreadable(v) => r.ok

(* Vectors are equal when their bytes are, however they are stored.        *)
EqualityByContent ==
  \A v, w \in Vectors :
    (\A u \in {v, w} : ~HasEmpty(u) /\ ~HasUnreadable(u)) =>
      Equal(v, w) = Right(Contents(v) = Contents(w))

(* iterate() passes every byte once and in order, and nothing after its    *)
(* function asked it to stop, unless a View of a file in several chunks is *)
(* involved.                                                               *)
IterateExact ==
  \A v \in Vectors :
    ~HasChunkedView(v) /\ ~HasUnreadable(v) =>
      LET all == Iterate(v, SizeMax).calls
      IN  /\ FlattenSeq(all) = Contents(v)
          /\ \A limit \in 1 .. Len(all) :
               Iterate(v, limit).calls = SubSeq(all, 1, limit)

(* A program sees byte sequences: each operation has the result and the    *)
(* error that ByteSequence states, for any shapes of its operands.         *)
Abs == INSTANCE ByteSequence
         WITH value <- [x \in Registers |-> Contents(reg[x])],
              Arrays <- Arrays \cup Files

Implements == Abs!Spec
=============================================================================
