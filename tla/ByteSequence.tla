---------------------------- MODULE ByteSequence ----------------------------
(***************************************************************************)
(* What the operations of ByteVector return (the comments of struct        *)
(* ByteVector in src/src/byte_vector.hpp), with a vector's value for its   *)
(* storage.  An operation that cannot be carried out reports an error and  *)
(* leaves its vector as it was.                                            *)
(***************************************************************************)
EXTENDS Integers, Sequences

CONSTANTS Registers,  \* variables of type ByteVector in a program
          Zero,       \* the byte 0
          Arrays,     \* what constructors are given: arrays, the bytes of files
          Sizes       \* sizes and offsets that callers ask for

VARIABLES value,      \* value[x]: the bytes of variable x
          outcome     \* the last call, and whether it succeeded: [call, ok]

Init ==
  /\ value \in [Registers -> Arrays]
  /\ outcome = [call |-> <<"main">>, ok |-> TRUE]

Zeros(n) == [i \in 1 .. n |-> Zero]

Yields(x, call, bytes) ==
  /\ value' = [value EXCEPT ![x] = bytes]
  /\ outcome' = [call |-> call, ok |-> TRUE]

(* x = bytes if the condition holds, an error otherwise.                   *)
YieldsIf(condition, x, call, bytes) ==
  \/ condition /\ Yields(x, call, bytes)
  \/ ~condition /\ UNCHANGED value /\ outcome' = [call |-> call, ok |-> FALSE]

(* x = y.append(z)                                                         *)
AppendOp(x, y, z) == Yields(x, <<"append", x, y, z>>, value[y] \o value[z])

Take(x, n) ==
  YieldsIf(n <= Len(value[x]), x, <<"take", x, n>>, SubSeq(value[x], 1, n))

Drop(x, n) ==
  YieldsIf(n <= Len(value[x]), x, <<"drop", x, n>>,
           SubSeq(value[x], n + 1, Len(value[x])))

DropRight(x, n) ==
  YieldsIf(n <= Len(value[x]), x, <<"dropRight", x, n>>,
           SubSeq(value[x], 1, Len(value[x]) - n))

PadLeft(x, n) ==
  YieldsIf(Len(value[x]) <= n, x, <<"padLeft", x, n>>,
           Zeros(n - Len(value[x])) \o value[x])

PadRight(x, n) ==
  YieldsIf(Len(value[x]) <= n, x, <<"padRight", x, n>>,
           value[x] \o Zeros(n - Len(value[x])))

(* A constructor.                                                          *)
New(x) == \E bytes \in Arrays : Yields(x, <<"new", x>>, bytes)

Next ==
  \E x \in Registers :
    \/ New(x)
    \/ \E y, z \in Registers : AppendOp(x, y, z)
    \/ \E n \in Sizes :
         Take(x, n) \/ Drop(x, n) \/ DropRight(x, n) \/ PadLeft(x, n) \/ PadRight(x, n)

Spec == Init /\ [][Next]_<<value, outcome>>
=============================================================================
