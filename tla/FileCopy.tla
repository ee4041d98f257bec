------------------------------ MODULE FileCopy ------------------------------
(***************************************************************************)
(* What writeToFile() of src/src/byte_vector.hpp promises for a vector     *)
(* backed by a file: "Write the byte vector's contents to a file", with    *)
(* "A success result, or a ParseError if writing failed".  The file fills  *)
(* up from the front, and success means that all of it is there.           *)
(***************************************************************************)
EXTENDS Integers, Sequences

CONSTANT Contents   \* what files may hold

VARIABLES vector,   \* the bytes of the vector
          file,     \* the file it is written to
          status    \* "idle", "writing", "ok" or "error"

vars == <<vector, file, status>>

Init == vector = <<>> /\ file \in Contents /\ status = "idle"

Create(bytes) ==
  /\ status = "idle"
  /\ vector' = bytes
  /\ UNCHANGED <<file, status>>

Start ==
  /\ status = "idle"
  /\ status' = "writing" /\ file' = <<>>
  /\ UNCHANGED vector

Extend(n) ==
  /\ status = "writing"
  /\ file' = SubSeq(vector, 1, n)
  /\ UNCHANGED <<vector, status>>

Succeed == status = "writing" /\ file = vector /\ status' = "ok" /\ UNCHANGED <<vector, file>>

Fail == status \in {"idle", "writing"} /\ status' = "error" /\ UNCHANGED <<vector, file>>

Next ==
  \/ \E bytes \in Contents : Create(bytes)
  \/ Start
  \/ \E n \in Len(file) + 1 .. Len(vector) : Extend(n)
  \/ Succeed
  \/ Fail

Spec == Init /\ [][Next]_vars
=============================================================================
