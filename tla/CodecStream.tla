---------------------------- MODULE CodecStream -----------------------------
(***************************************************************************)
(* A program that uses the codecs of src/src/codec.hpp: it encodes values, *)
(* appends the encodings to a ByteVector, and decodes values from its      *)
(* front, each time going on with the remainder.  A ByteVector it decodes  *)
(* may also come from elsewhere (ForeignSpec).                             *)
(***************************************************************************)
EXTENDS Codecs

CONSTANTS
  CodecOf,    \* CodecOf[s]: the codec of schema s
  Values,     \* Values[s]: values that its format has room for
  TooLong,    \* TooLong[s]: values that it does not
  Greedy,     \* schemas that take all bytes there are
  Foreign,    \* vectors from elsewhere
  MaxWrites   \* bound: encodings in a behavior

VARIABLES
  schema,  \* the schema in use
  stream,  \* the _storage of the vector that is written and read
  queue,   \* history: the values written to it and not yet read
  last,    \* the last call and its result
  writes   \* encodings so far

vars == <<schema, stream, queue, last, writes>>

Codec == CodecOf[schema]

Schemas == DOMAIN CodecOf

(* A decoded value may be encoded again: its vectors are still views of    *)
(* the stream they came from.                                              *)
Received ==
  IF last.call = "decode" /\ last.result.ok THEN {last.result.value.value} ELSE {}

WriteValue(value) ==
  /\ writes < MaxWrites
  /\ schema \in Greedy => queue = <<>>
  /\ writes' = writes + 1
  /\ \E encoded \in Encode(Codec, value) :
       /\ last' = [call |-> "encode", value |-> value, result |-> encoded]
       /\ IF encoded.ok
            THEN /\ stream' \in Appends(stream, encoded.value)
                 /\ queue' = Append(queue, Meaning(Codec, value))
            ELSE UNCHANGED <<stream, queue>>
  /\ UNCHANGED schema

ReadValue ==
  \E decoded \in {Decode(Codec, stream)} :
    /\ last' = [call |-> "decode", result |-> decoded]
    /\ IF decoded.ok
         THEN /\ stream' = decoded.value.remainder
              /\ queue' = IF queue = <<>> THEN <<>> ELSE Tail(queue)
         ELSE UNCHANGED <<stream, queue>>
    /\ UNCHANGED <<schema, writes>>

InitWith(vectors) ==
  /\ schema \in Schemas
  /\ stream \in vectors
  /\ queue = <<>>
  /\ last = [call |-> "none"]
  /\ writes = 0

Init == InitWith({Empty})

Next ==
  \/ \E value \in Values[schema] \cup TooLong[schema] \cup Received : WriteValue(value)
  \/ ReadValue

Spec == Init /\ [][Next]_vars

ForeignInit == InitWith(Foreign)

ForeignSpec == ForeignInit /\ [][ReadValue]_vars

(***************************************************************************)
(* Properties of a program's own stream.                                   *)
(***************************************************************************)

(* The stream is a vector the algorithms expect, and reader and writer     *)
(* agree where values end: no bytes are left when all values were read.    *)
InStep ==
  /\ schema \in Schemas /\ writes \in 0 .. MaxWrites
  /\ WellFormed(stream) /\ Len(Contents(stream)) = Length(stream)
  /\ queue = <<>> <=> Length(stream) = 0

(* Values come out of a stream whole and in order, whatever shapes their   *)
(* encodings and the remainders have; only values that do not fit their    *)
(* length type or fixed size are refused.                                  *)
Event ==
  LET result == IF last.call = "none" THEN Left ELSE last.result
      meaning(v) == Meaning(Codec, v)
  IN
  CASE last.call = "none" -> <<"start">>
    [] last.call = "encode" ->
         <<IF result.ok THEN "written" ELSE "refused", meaning(last.value)>>
    [] last.call = "decode" ->
         IF result.ok THEN <<"read", meaning(result.value.value)>> ELSE <<"nothing">>

Meanings(values) == [s \in Schemas |-> {Meaning(CodecOf[s], v) : v \in values[s]}]

Abs == INSTANCE MessageQueue
         WITH event <- Event, Messages <- Meanings(Values),
              Oversized <- Meanings(TooLong)

Implements == Abs!Spec

(* An encoding that was cut off anywhere is not taken for a value: it is   *)
(* an error, and the error's contexts are those of the field that was cut. *)
CutEncodingsFail ==
  last.call = "encode" /\ last.result.ok /\ schema \notin Greedy =>
    \A n \in 0 .. Length(last.result.value) - 1 :
      Decode(Codec, TakeOf(last.result.value, n).value)
        = [Left EXCEPT !.context = FieldAt(Codec, last.value, n)]

(***************************************************************************)
(* Properties of decoding what comes from elsewhere.                       *)
(***************************************************************************)

(* fromRight is applied to results that are known to be values: bytes that *)
(* do not fit the format are an error and no exception.  An Empty operand  *)
(* or a file that cannot be read may cause one.                            *)
NothingThrown ==
  ~HasEmpty(stream) /\ ~HasUnreadable(stream) => Decode(Codec, stream) # Throw

(* The remainder is the end of what was decoded: a codec consumes bytes    *)
(* from the front only, and hands on none that are not there.              *)
RemainderIsRest ==
  LET decoded == Decode(Codec, stream)
  IN  decoded.ok => /\ WellFormed(decoded.value.remainder)
                    /\ IsSuffix(Contents(decoded.value.remainder), Contents(stream))

(* What was decoded can be encoded, and decodes to the same value again:   *)
(* the two directions of a codec agree on the values they have, although   *)
(* not on the bytes (padding and ignored bytes become 0).  An encoding     *)
(* with an Empty operand, as that of an empty std::vector, may be refused, *)
(* but is never read as another value.                                     *)
DecodedIsEncodable ==
  LET decoded == Decode(Codec, stream)
  IN  decoded.ok /\ ~HasEmpty(stream) =>
        \A encoded \in Encode(Codec, decoded.value.value) :
          /\ encoded.ok
          /\ LET again == Decode(Codec, encoded.value)
             IN  /\ again.ok => Meaning(Codec, again.value.value)
                                   = Meaning(Codec, decoded.value.value)
                 /\ again.ok \/ HasEmpty(encoded.value)
=============================================================================
