------------------------------- MODULE Codecs -------------------------------
(***************************************************************************)
(* The codecs of src/src/codec.hpp.  A codec is a term, a record made by   *)
(* one of the constructors below; Encode and Decode are the functions that *)
(* the term's Codec<T> object holds.                                       *)
(*                                                                         *)
(* Values: numbers for integral types, storage values for ByteVector,      *)
(* sequences of bytes for std::vector<uint8_t>, tuples, and Unit.  A       *)
(* byte has Radix values, so that the limits of integral types are near.   *)
(* An encoding has a set of results, since appending has one; a decoding   *)
(* has one result, whose value is a DecodeResult.                          *)
(***************************************************************************)
EXTENDS ByteVectorMethods

CONSTANT Radix  \* number of values of a byte: 0 .. Radix - 1

Unit == "unit"

(* ftl::fromRight of a Left: an exception leaves encode() or decode().     *)
Throw == [ok |-> FALSE, thrown |-> TRUE]

DecodeResult(value, remainder) == [value |-> value, remainder |-> remainder]

(* r >>= f, of a result and of a set of results.                           *)
Then(r, f(_)) == IF r.ok THEN f(r.value) ELSE r

ThenEach(results, f(_)) == UNION {IF r.ok THEN f(r.value) ELSE {r} : r \in results}

(* left_map of ParseError::pushContext: the outermost context comes first. *)
PushContextBack(r, context) ==
  IF r.ok \/ r = Throw THEN r ELSE [r EXCEPT !.context = Append(@, context)]

PushContext(r, context) ==
  IF r.ok \/ r = Throw THEN r ELSE [r EXCEPT !.context = <<context>> \o @]

(***************************************************************************)
(* The constructors.  VariableSizeBytes has a lengthCodec of an integral   *)
(* type of the given size; FlatPrepend's fn maps each value of its head to *)
(* a sequence of codecs; Skip(unit, of) is unit >> of.                     *)
(***************************************************************************)
Integral(size, order) == [kind |-> "integral", size |-> size, order |-> order]

IdentityBytes == [kind |-> "identityBytes"]

FixedSizeBytes(length, of) ==
  [kind |-> "fixedSizeBytes", length |-> length, of |-> of]

Bytes(length) == FixedSizeBytes(length, IdentityBytes)

Eager(of) == [kind |-> "eager", of |-> of]

VariableSizeBytes(size, lengthCodec, of) ==
  [kind |-> "variableSizeBytes", size |-> size, lengthCodec |-> lengthCodec, of |-> of]

Ignore(length) == [kind |-> "ignore", length |-> length]

Constant(bytes) == [kind |-> "constant", bytes |-> bytes]

Context(context, of) == [kind |-> "context", context |-> context, of |-> of]

Tupled(codecs) == [kind |-> "tupled", codecs |-> codecs]

FlatPrepend(of, fn) == [kind |-> "flatPrepend", of |-> of, fn |-> fn]

Skip(unit, of) == [kind |-> "skip", unit |-> unit, of |-> of]

(***************************************************************************)
(* Integral types: memory holds the least significant byte first (Native), *)
(* and swap reverses it.                                                   *)
(***************************************************************************)
MaxValue(size) == Radix^size - 1

NativeBytes(n, size) == [i \in 1 .. size |-> (n \div Radix^(i - 1)) % Radix]

NativeValue(bytes) == FoldRight(LAMBDA b, n : b + Radix * n, bytes, 0)

Swap(bytes, order) == IF order = "Big" THEN Reverse(bytes) ELSE bytes

(* What a length type of the given size can hold.                          *)
FitsStrictly(length, size) == length < MaxValue(size)

Fits(length, size) == length <= MaxValue(size)

(***************************************************************************)
(* Encode.                                                                 *)
(***************************************************************************)
EncodeIntegral(n, size, order) == {Right(DirectValue(Swap(NativeBytes(n, size), order)))}

(* "right padded with low bytes", or an error.                             *)
EncodeFixed(encoded, length) ==
  IF Length(encoded) > length THEN {Left} ELSE PadRightOf(encoded, length)

Concat(lhs, rhs) == {Right(v) : v \in Appends(lhs, rhs)}

(* The codecs that the parts of a value are encoded with, and the parts.   *)
TupleKinds == {"tupled", "flatPrepend", "skip"}

CodecsOf(c, value) ==
  CASE c.kind = "tupled"      -> c.codecs
    [] c.kind = "flatPrepend" -> <<c.of>> \o c.fn[Head(value)]
    [] c.kind = "skip"        -> <<c.unit, c.of>>

ValuesOf(c, value) == IF c.kind = "skip" THEN <<Unit, value>> ELSE value

RECURSIVE Encode(_, _)

EncodeTuple(codecs, values) ==
  FoldLeftDomain(
    LAMBDA accum, i :
      ThenEach(accum, LAMBDA a :
        ThenEach(Encode(codecs[i], values[i]), LAMBDA n : Concat(a, n))),
    {Right(Empty)}, codecs)

Encode(c, value) ==
  CASE c.kind = "integral" -> EncodeIntegral(value, c.size, c.order)
    [] c.kind = "identityBytes" -> {Right(value)}
    [] c.kind = "fixedSizeBytes" ->
         ThenEach(Encode(c.of, value), LAMBDA e : EncodeFixed(e, c.length))
    [] c.kind = "eager" -> Encode(c.of, FromVector(value))
    [] c.kind = "variableSizeBytes" ->
         ThenEach(Encode(c.of, value), LAMBDA e :
           IF Fits(Length(e), c.size)
             THEN ThenEach(Encode(c.lengthCodec, Length(e)), LAMBDA l : Concat(l, e))
             ELSE {Left})
    [] c.kind = "ignore" -> {Right(Memset(c.length))}
    [] c.kind = "constant" -> {Right(c.bytes)}
    [] c.kind = "context" -> {PushContext(r, c.context) : r \in Encode(c.of, value)}
    [] c.kind \in TupleKinds -> EncodeTuple(CodecsOf(c, value), ValuesOf(c, value))

(***************************************************************************)
(* Decode.                                                                 *)
(***************************************************************************)
DecodeIntegralUnswapped(v, size, order) ==
  Then(ReadInteger(v, size, 0), LAMBDA next :
    Right(DecodeResult(NativeValue(next.value), next.remainder)))

DecodeIntegral(v, size, order) ==
  Then(ReadInteger(v, size, 0), LAMBDA next :
    Right(DecodeResult(NativeValue(Swap(next.value, order)), next.remainder)))

(* fromRight(bv.drop(length)), as the remainder of a value.                *)
WithRest(value, v, length) ==
  LET rest == DropOf(v, length)
  IN  IF rest.ok THEN Right(DecodeResult(value, rest.value)) ELSE Throw

RECURSIVE Decode(_, _)

DecodeFixedUnlimited(of, v, length) ==
  Then(Decode(of, v), LAMBDA result : WithRest(result.value, v, length))

DecodeFixedKeepsPadding(of, v, length) ==
  Then(TakeOf(v, length), LAMBDA taken : Decode(of, taken))

DecodeFixed(of, v, length) ==
  Then(TakeOf(v, length), LAMBDA taken :
    Then(Decode(of, taken), LAMBDA result : WithRest(result.value, v, length)))

DecodeEager(of, v) ==
  Then(Decode(of, v), LAMBDA result :
    Then(ToVector(result.value), LAMBDA bytes :
      Right(DecodeResult(bytes, result.remainder))))

(* operator== throws when a byte cannot be read, and so does toString() of *)
(* the error message.                                                      *)
DecodeConstant(bytes, v) ==
  LET printable(u) == \A i \in 0 .. Length(u) - 1 : UnsafeGet(u, i).ok
      matched(same, taken) ==
        IF ~same.ok THEN Throw
        ELSE IF same.value THEN WithRest(Unit, v, Length(bytes))
        ELSE IF printable(bytes) /\ printable(taken) THEN Left ELSE Throw
  IN  Then(TakeOf(v, Length(bytes)), LAMBDA taken : matched(Equal(taken, bytes), taken))

(* Each codec decodes what the one before it left.                         *)
DecodeTuple(codecs, v) ==
  FoldLeft(
    LAMBDA decoded, c :
      Then(decoded, LAMBDA done :
        Then(Decode(c, done.remainder), LAMBDA next :
          Right(DecodeResult(Append(done.value, next.value), next.remainder)))),
    Right(DecodeResult(<<>>, v)), codecs)

Decode(c, v) ==
  CASE c.kind = "integral" -> DecodeIntegral(v, c.size, c.order)
    [] c.kind = "identityBytes" -> Right(DecodeResult(v, Empty))
    [] c.kind = "fixedSizeBytes" -> DecodeFixed(c.of, v, c.length)
    [] c.kind = "eager" -> DecodeEager(c.of, v)
    [] c.kind = "variableSizeBytes" ->
         Then(Decode(c.lengthCodec, v), LAMBDA length :
           DecodeFixed(c.of, length.remainder, length.value))
    [] c.kind = "ignore" ->
         Then(DropOf(v, c.length), LAMBDA rest : Right(DecodeResult(Unit, rest)))
    [] c.kind = "constant" -> DecodeConstant(c.bytes, v)
    [] c.kind = "context" -> PushContext(Decode(c.of, v), c.context)
    [] c.kind = "tupled" -> DecodeTuple(c.codecs, v)
    [] c.kind = "flatPrepend" ->
         Then(Decode(c.of, v), LAMBDA lhs :
           Then(DecodeTuple(c.fn[lhs.value], lhs.remainder), LAMBDA rhs :
             Right(DecodeResult(<<lhs.value>> \o rhs.value, rhs.remainder))))
    [] c.kind = "skip" ->
         Then(DecodeTuple(<<c.unit, c.of>>, v), LAMBDA both :
           Right(DecodeResult(both.value[2], both.remainder)))

(***************************************************************************)
(* What a value means, and where a part of it is: what the properties      *)
(* hold the codecs to.                                                     *)
(***************************************************************************)

(* A value as its program compares it: a vector by its bytes.              *)
RECURSIVE Meaning(_, _)
Meaning(c, value) ==
  CASE c.kind = "identityBytes" -> Contents(value)
    [] c.kind \in {"integral", "eager", "ignore", "constant"} -> value
    [] c.kind = "tupled" -> [i \in DOMAIN value |-> Meaning(c.codecs[i], value[i])]
    [] c.kind = "flatPrepend" ->
         <<Meaning(c.of, Head(value))>>
           \o Meaning(Tupled(c.fn[Head(value)]), Tail(value))
    [] OTHER -> Meaning(c.of, value)

EncodedLength(c, value) == Length((CHOOSE r \in Encode(c, value) : r.ok).value)

(* The contexts around the field that byte n of value's encoding, counted  *)
(* from 0, belongs to.                                                     *)
RECURSIVE FieldAt(_, _, _)

RECURSIVE FieldIn(_, _, _)
FieldIn(codecs, values, n) ==
  LET Go(length) == IF n < length THEN FieldAt(Head(codecs), Head(values), n)
                    ELSE FieldIn(Tail(codecs), Tail(values), n - length)
  IN  Go(EncodedLength(Head(codecs), Head(values)))

FieldAt(c, value, n) ==
  CASE c.kind = "context" -> <<c.context>> \o FieldAt(c.of, value, n)
    [] c.kind \in TupleKinds -> FieldIn(CodecsOf(c, value), ValuesOf(c, value), n)
    [] c.kind = "eager" -> FieldAt(c.of, FromVector(value), n)
    [] c.kind = "variableSizeBytes" ->
         LET length == EncodedLength(c.of, value)
         IN  IF n < EncodedLength(c.lengthCodec, length)
               THEN FieldAt(c.lengthCodec, length, n) ELSE <<>>
    [] OTHER -> <<>>
=============================================================================
