-------------------------- MODULE ImmutableVectors --------------------------
(***************************************************************************)
(* What ByteVector promises its users (src/src/byte_vector.hpp, "An        *)
(* immutable vector of bytes"): a vector has a value from the moment a     *)
(* constructor or append() returns it to the moment it is destroyed, and   *)
(* the value never changes in between.  There is no memory, no sharing and *)
(* no thread here: each operation is one step.                             *)
(***************************************************************************)
EXTENDS Sequences

CONSTANTS Vectors,  \* names of vector objects
          Sources,  \* byte sequences that constructors are given
          None      \* the value of a name no vector has

VARIABLE value      \* value[v]: the bytes of vector v, or None

Init == value = [v \in Vectors |-> None]

Live(v) == value[v] # None

(* A constructor: Memset, Bytes, Value, the initializer list, ...          *)
Construct(v, data) ==
  /\ ~Live(v)
  /\ value' = [value EXCEPT ![v] = data]

CopyConstruct(v, w) ==
  /\ Live(v) /\ ~Live(w)
  /\ value' = [value EXCEPT ![w] = value[v]]

(* v = l.append(r): "this vector's data, followed by the provided vector's *)
(* data", at some instant between the call and its return.                 *)
AppendTo(l, r, v) ==
  /\ Live(l) /\ Live(r) /\ ~Live(v)
  /\ value' = [value EXCEPT ![v] = value[l] \o value[r]]

Destroy(v) ==
  /\ Live(v)
  /\ value' = [value EXCEPT ![v] = None]

Next ==
  \/ \E v \in Vectors, data \in Sources : Construct(v, data)
  \/ \E v, w \in Vectors : CopyConstruct(v, w)
  \/ \E l, r, v \in Vectors : AppendTo(l, r, v)
  \/ \E v \in Vectors : Destroy(v)

Spec == Init /\ [][Next]_value
=============================================================================
