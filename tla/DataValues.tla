----------------------------- MODULE DataValues -----------------------------
(***************************************************************************)
(* What programs that exchange ByteVectors and NSData objects              *)
(* (src/src/byte_vector_objc.mm) may rely on.  A vector has a value, which *)
(* changes only when something is appended to it or it is destroyed; a     *)
(* pointer refers to an NSData, which changes only when the program        *)
(* changes it; toNSData() and the assignment of an ns_ptr take effect at   *)
(* an instant between call and return.  There is no memory here, nothing   *)
(* is counted or shared, and nothing is done in steps.                     *)
(***************************************************************************)
EXTENDS Integers, Sequences, SequencesExt

CONSTANTS
  Thread,
  Vector,   \* variables that hold a ByteVector
  Pointer,  \* variables that hold an ns_ptr<NSData *>
  NULL

VARIABLES
  value,  \* value[v]: the bytes of a vector, and whether a file has some of them
  data,   \* data[p]: the NSData that a pointer refers to
  call    \* call[t]: the call that a thread is in

vars == <<value, data, call>>

(* A pointer to nothing, and a thread that is in no call.                  *)
NoData == [id |-> NULL, mutable |-> FALSE, bytes |-> <<>>]
NoCall == [from |-> NULL, to |-> NULL, lost |-> FALSE, stored |-> FALSE]

Init ==
  /\ value = [v \in Vector |-> [bytes |-> <<>>, file |-> FALSE]]
  /\ data = [p \in Pointer |-> NoData]
  /\ call = [t \in Thread |-> NoCall]

InUse(x) == \E t \in Thread : call[t].from = x \/ call[t].to = x

(* One vector, one pointer changes.                                        *)
Changes(v) == value' = [value EXCEPT ![v] = value'[v]] /\ UNCHANGED <<data, call>>
Refers(p, d) == data' = [data EXCEPT ![p] = d]

(***************************************************************************)
(* What the program does with variables that no call is using.             *)
(***************************************************************************)
AppendTo(v) ==
  /\ ~InUse(v)
  /\ Changes(v)
  /\ IsPrefix(value[v].bytes, value'[v].bytes)
  /\ value[v].file => value'[v].file

Destroy(v) ==
  /\ ~InUse(v)
  /\ Changes(v)
  /\ IsPrefix(value'[v].bytes, value[v].bytes)
  /\ value'[v].file => value[v].file

(* A new object is not one that a pointer refers to.                       *)
NewData(p) ==
  /\ ~InUse(p) /\ data[p].id = NULL
  /\ Refers(p, data'[p])
  /\ \A q \in Pointer : data[q].id # data'[p].id
  /\ UNCHANGED <<value, call>>

(* All pointers to an NSMutableData see the change, and no vector does.    *)
SetLength(p) ==
  /\ ~InUse(p) /\ data[p].mutable
  /\ data' = [q \in Pointer |-> IF data[q] = data[p] THEN [data[q] EXCEPT !.bytes = <<>>]
                                ELSE data[q]]
  /\ UNCHANGED <<value, call>>

DestroyPointer(p) ==
  /\ ~InUse(p)
  /\ Refers(p, NoData)
  /\ UNCHANGED <<value, call>>

FromNSData(v, p) ==
  /\ ~InUse(v) /\ value[v].bytes = <<>>
  /\ ~InUse(p) /\ data[p].id # NULL
  /\ value' = [value EXCEPT ![v] = [bytes |-> data[p].bytes, file |-> FALSE]]
  /\ UNCHANGED <<data, call>>

(***************************************************************************)
(* Calls.  to = from.toNSData() reads a vector, to = from a pointer.       *)
(***************************************************************************)
Begin(t, from, to) ==
  /\ call[t] = NoCall
  /\ call' = [call EXCEPT ![t] = [from |-> from, to |-> to, lost |-> FALSE, stored |-> FALSE]]
  /\ UNCHANGED <<value, data>>

ToNSData(t, v, p) == ~InUse(p) /\ Begin(t, v, p)

Assign(t, p, q) == ~InUse(p) /\ ~InUse(q) /\ Begin(t, q, p)

Active(t) == call[t].to # NULL /\ ~call[t].stored
Return(t) == call' = [call EXCEPT ![t] = NoCall]

(* Only files can fail to be read.                                         *)
ReadsFile(t) == Active(t) /\ call[t].from \in Vector /\ value[call[t].from].file

Fail(t) == ReadsFile(t) /\ Return(t) /\ UNCHANGED <<value, data>>

(* An error that is not returned.                                          *)
Lose(t) ==
  /\ ReadsFile(t)
  /\ call' = [call EXCEPT ![t].lost = TRUE]
  /\ UNCHANGED <<value, data>>

(* What a call returns: the same object, or one that has the vector's      *)
(* bytes and that nobody can change.                                       *)
IsResult(t, d) ==
  IF call[t].from \in Pointer THEN d = data[call[t].from]
  ELSE d.id # NULL /\ ~d.mutable /\ (~call[t].lost => d.bytes = value[call[t].from].bytes)

Store(t) ==
  /\ Active(t)
  /\ IsResult(t, data'[call[t].to])
  /\ Refers(call[t].to, data'[call[t].to])
  /\ call' = [call EXCEPT ![t].stored = TRUE]
  /\ UNCHANGED value

ReturnStored(t) == call[t].stored /\ Return(t) /\ UNCHANGED <<value, data>>

(* The pointer has the result already.                                     *)
ReturnSame(t) ==
  /\ Active(t)
  /\ IsResult(t, data[call[t].to])
  /\ Return(t)
  /\ UNCHANGED <<value, data>>

Next ==
  \/ \E v \in Vector : AppendTo(v) \/ Destroy(v)
  \/ \E p \in Pointer : NewData(p) \/ SetLength(p) \/ DestroyPointer(p)
  \/ \E v \in Vector, p \in Pointer : FromNSData(v, p)
  \/ \E t \in Thread, v \in Vector, p \in Pointer : ToNSData(t, v, p)
  \/ \E t \in Thread, p, q \in Pointer : Assign(t, p, q)
  \/ \E t \in Thread : Fail(t) \/ Lose(t) \/ Store(t) \/ ReturnStored(t) \/ ReturnSame(t)

Spec == Init /\ [][Next]_vars
=============================================================================
