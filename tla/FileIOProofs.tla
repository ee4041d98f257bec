---------------------------- MODULE FileIOProofs ----------------------------
(***************************************************************************)
(* Proofs about FileIO, for files and chunks of any size: first when       *)
(* nothing worse happens than BenignFaults (calls fail, writes are short,  *)
(* other processes truncate the backing file), then with interrupted       *)
(* writes and files that grow.  The run FileShortReads shows what short    *)
(* reads lead to.                                                          *)
(***************************************************************************)
EXTENDS FileIO, TLAPS

(* No pread() is short, no write() interrupted, and the file behind the    *)
(* vector does not grow.                                                   *)
Benign == Faults \subseteq BenignFaults

LEMMA OnlyBenign ==
  ASSUME Benign
  PROVE  /\ ~May("short read") /\ ~May("write interrupted") /\ ~May("grow")
BY DEF Benign, BenignFaults, May

(***************************************************************************)
(* The inductive invariant.                                                *)
(***************************************************************************)
LEMMA InitIInv == Init => IInv
<1> SUFFICES ASSUME Init PROVE IInv
  OBVIOUS
<1>1. Zero \in Byte /\ Contents \subseteq Seq(Byte) /\ ChunkSize \in Nat \ {0}
  BY BytesAssumption, ContentsAssumption, NumbersAssumption
<1>2. backing \in Seq(Byte) /\ target \in Seq(Byte)
  BY <1>1 DEF Init
<1>3. target \in Seq(Byte \cup {Junk})
  BY <1>2
<1>4. buffer \in [0 .. ChunkSize - 1 -> Byte \cup {Junk}]
  BY DEF Init
<1>5. TypeOK
  BY <1>1, <1>2, <1>3, <1>4 DEF Init, TypeOK
<1> QED
  BY <1>5 DEF Init, IInv, Active

LEMMA StutterIInv == ASSUME IInv, UNCHANGED vars PROVE IInv'
BY DEF IInv, vars, files, reading, writing, TypeOK, Active, Copied, BackingHolds,
       BufferHolds, Available

(* Opening the two files.                                                  *)
LEMMA CreateIInv == ASSUME IInv, Create PROVE IInv'
<1>1. BackingHolds'
  BY ContentsAssumption DEF IInv, TypeOK, Create, BackingHolds, files
<1>2. TypeOK'
  BY DEF IInv, TypeOK, Create, files, reading, writing
<1> QED
  BY <1>1, <1>2 DEF IInv, Create, Active, files, reading, writing

LEMMA OpenFailsIInv == ASSUME IInv, OpenFails PROVE IInv'
BY DEF IInv, OpenFails, TypeOK, Active, files, reading, writing

LEMMA WriteToFileIInv == ASSUME IInv, WriteToFile PROVE IInv'
<1>1. TypeOK'
  BY DEF IInv, TypeOK, WriteToFile
<1>2. Copied'
  BY DEF IInv, TypeOK, WriteToFile, Copied, BackingHolds
<1> QED
  BY <1>1, <1>2 DEF IInv, WriteToFile, Active

(* Reading a chunk.                                                        *)
LEMMA FetchChunkIInv == ASSUME IInv, FetchChunk PROVE IInv'
<1>1. TypeOK'
  BY NumbersAssumption DEF IInv, TypeOK, FetchChunk, files, writing
<1>2. result = "ok"
  BY DEF IInv, FetchChunk, stop, Active, Copied, TypeOK
<1>3. Copied'
  BY DEF IInv, Active, FetchChunk, Copied, BackingHolds, files, writing
<1>4. BufferHolds(0, totalRead, cursor)'
  BY DEF FetchChunk, BufferHolds
<1> QED
  BY <1>1, <1>2, <1>3, <1>4 DEF IInv, FetchChunk, files, writing, Active, TypeOK

LEMMA FinishIInv == ASSUME IInv, Finish PROVE IInv'
<1>1. TypeOK'
  BY DEF IInv, TypeOK, Finish, files, reading, writing
<1>2. Copied
  BY DEF IInv, Active, Finish
<1>3. ASSUME result = "ok" PROVE target = vector
  <2>1. toRead = 0 /\ position = cursor
    BY <1>3 DEF IInv, TypeOK, Finish, stop
  <2>2. Len(target) = Len(vector)
    BY <1>2, <2>1 DEF Copied, IInv, TypeOK
  <2> QED
    BY <1>2, <2>1, <2>2 DEF Copied, IInv, TypeOK
<1> QED
  BY <1>1, <1>2, <1>3
  DEF IInv, Finish, files, reading, writing, Active, Copied

LEMMA PreadIInv ==
  ASSUME IInv, Benign, NEW n \in 1 .. ChunkSize, Pread(n)
  PROVE  IInv'
<1>1. ChunkSize \in Nat \ {0} /\ n \in Nat \ {0}
  BY NumbersAssumption
<1>2. pc = "pread" /\ pc' = "pread"
  BY DEF Pread
<1>3. /\ TypeOK /\ Copied
      /\ result = "ok" /\ position = cursor /\ 0 < toRead
      /\ totalRead \in {0, ChunkSize} \/ Available = 0
  BY <1>2 DEF IInv, Active
<1>4. /\ cursor \in Nat /\ toRead \in Nat /\ totalRead \in Nat
      /\ Len(backing) \in Nat /\ Len(vector) \in Nat
      /\ Len(backing) <= Len(vector) /\ cursor + toRead = Len(vector)
      /\ \A i \in 1 .. Len(backing) : backing[i] = vector[i]
  BY <1>1, <1>3 DEF TypeOK, Copied, BackingHolds
<1>5. /\ n \in 1 .. Available /\ totalRead < ChunkSize
      /\ n <= Wanted /\ n \in {Available, Wanted} /\ totalRead' = totalRead + n
  BY OnlyBenign DEF Pread
<1>6. totalRead = 0
  <2>1. Available # 0
    BY <1>1, <1>5
  <2> QED
    BY <1>1, <1>3, <1>5, <2>1
<1>7. cursor + n <= Len(backing) /\ Wanted = ChunkSize
  BY <1>1, <1>4, <1>5, <1>6 DEF Available, Wanted
<1>8. n <= toRead /\ n <= ChunkSize /\ totalRead' = n
  BY <1>1, <1>4, <1>5, <1>6, <1>7
<1>9. totalRead' \in {0, ChunkSize} \/ Available' = 0
  <2>1. CASE n = Wanted
    BY <1>7, <1>8, <2>1
  <2>2. CASE n = Available
    <3>1. cursor + n = Len(backing)
      BY <1>1, <1>4, <1>5, <1>6, <2>2 DEF Available
    <3>2. cursor' = cursor /\ backing' = backing
      BY DEF Pread, files
    <3> QED
      BY <1>4, <1>8, <3>1, <3>2 DEF Available
  <2> QED
    BY <1>5, <2>1, <2>2
<1>10. buffer' = [i \in 0 .. ChunkSize - 1 |->
                   IF i < n THEN backing[cursor + totalRead + i + 1] ELSE buffer[i]]
  BY DEF Pread
<1>11. ASSUME NEW i \in 0 .. n - 1 PROVE buffer'[i] = vector[cursor + i + 1]
  <2>1. i \in 0 .. ChunkSize - 1 /\ i < n /\ cursor + totalRead + i + 1 = cursor + i + 1
    BY <1>1, <1>4, <1>6, <1>8
  <2>2. cursor + i + 1 \in 1 .. Len(backing)
    BY <1>1, <1>4, <1>7
  <2>3. backing[cursor + i + 1] = vector[cursor + i + 1]
    BY <1>4, <2>2
  <2> QED
    BY <1>10, <2>1, <2>3
<1>12. BufferHolds(0, totalRead, cursor)'
  <2>1. vector' = vector /\ cursor' = cursor
    BY DEF Pread
  <2>2. \A i \in 0 .. n - 1 : (i - 0) = i
    BY <1>1
  <2> QED
    BY <1>8, <1>11, <2>1, <2>2 DEF BufferHolds
<1>13. buffer' \in [0 .. ChunkSize - 1 -> Byte \cup {Junk}]
  <2>1. ASSUME NEW i \in 0 .. ChunkSize - 1, i < n
        PROVE  backing[cursor + totalRead + i + 1] \in Byte
    <3>1. cursor + totalRead + i + 1 \in 1 .. Len(backing)
      BY <1>1, <1>4, <1>6, <1>7, <2>1
    <3>2. backing \in Seq(Byte)
      BY <1>3 DEF TypeOK
    <3> QED
      BY <3>1, <3>2
  <2>2. \A i \in 0 .. ChunkSize - 1 : buffer[i] \in Byte \cup {Junk}
    BY <1>3 DEF TypeOK
  <2> QED
    BY <1>10, <2>1, <2>2
<1>14. TypeOK'
  <2>1. totalRead' \in 0 .. ChunkSize
    BY <1>1, <1>8
  <2> QED
    BY <1>3, <1>13, <2>1 DEF TypeOK, Pread, files, writing
<1>15. Copied'
  BY <1>3 DEF Copied, BackingHolds, Pread, files, writing
<1>16. totalRead' <= toRead' /\ 0 < toRead'
  BY <1>3, <1>8 DEF Pread
<1>17. result' = "ok" /\ position' = cursor'
  BY <1>3 DEF Pread, writing
<1> QED
  BY <1>2, <1>9, <1>12, <1>14, <1>15, <1>16, <1>17 DEF IInv, Active

LEMMA PreadFailsIInv == ASSUME IInv, PreadFails PROVE IInv'
BY DEF IInv, PreadFails, TypeOK, Active, files, reading, writing

LEMMA DeliverIInv == ASSUME IInv, Deliver PROVE IInv'
<1>1. /\ ChunkSize \in Nat \ {0}
      /\ pc = "pread" /\ pc' = "write" /\ Copied /\ TypeOK
      /\ totalRead <= toRead /\ position = cursor /\ result = "ok"
      /\ BufferHolds(0, totalRead, cursor)
  BY NumbersAssumption DEF IInv, Deliver, Active
<1>2. toRead' = toRead - totalRead
  BY <1>1 DEF Deliver, SizeMinus, TypeOK
<1>3. TypeOK'
  BY <1>1, <1>2 DEF TypeOK, Deliver, files
<1>4. Copied'
  <2>1. BackingHolds'
    BY <1>1 DEF Copied, BackingHolds, Deliver, files
  <2>2. /\ position \in Nat /\ cursor \in Nat /\ toRead \in Nat /\ totalRead \in Nat
        /\ position' = position /\ target' = target /\ vector' = vector
      /\ result' = result /\ cursor' = cursor + totalRead
    BY <1>1 DEF TypeOK, Deliver, files
  <2>3. cursor' + toRead' = Len(vector') /\ position' <= cursor'
    BY <1>1, <1>2, <2>2 DEF Copied
  <2> QED
    BY <1>1, <2>1, <2>2, <2>3 DEF Copied
<1>5. BufferHolds(ptr, ptr + len, position)'
  BY <1>1 DEF BufferHolds, Deliver, TypeOK
<1> QED
  BY <1>1, <1>3, <1>4, <1>5 DEF IInv, Deliver, Active, TypeOK

(* Writing a chunk.                                                        *)

(* Writing at the end of a file appends the bytes from ptr on.             *)
LEMMA WrittenAppends ==
  ASSUME TypeOK, NEW n \in Nat, Len(target) = position
  PROVE  /\ Written(target, n) \in Seq(Byte \cup {Junk})
         /\ Len(Written(target, n)) = position + n
         /\ \A i \in 1 .. position : Written(target, n)[i] = target[i]
         /\ \A i \in position + 1 .. position + n :
              Written(target, n)[i] = BufferAt(ptr + (i - position) - 1)
<1> DEFINE w == Written(target, n)
<1>1. \A i : BufferAt(i) \in Byte \cup {Junk}
  BY DEF BufferAt, TypeOK
<1>2. w = [i \in 1 .. position + n |->
             IF i \in position + 1 .. position + n
             THEN BufferAt(ptr + (i - position) - 1)
             ELSE IF i <= Len(target) THEN target[i] ELSE Zero]
  BY DEF Written, TypeOK
<1>3. \A i \in 1 .. position + n : w[i] \in Byte \cup {Junk}
  BY <1>1, <1>2 DEF TypeOK
<1>4. w \in [1 .. position + n -> Byte \cup {Junk}]
  BY <1>2, <1>3
<1>5. w \in Seq(Byte \cup {Junk}) /\ Len(w) = position + n
  BY <1>4 DEF TypeOK
<1>6. /\ \A i \in 1 .. position : w[i] = target[i]
      /\ \A i \in position + 1 .. position + n :
              w[i] = BufferAt(ptr + (i - position) - 1)
  BY <1>2 DEF TypeOK
<1> QED
  BY <1>5, <1>6

(* What the invariant says when write() is called.                         *)
LEMMA WriteFacts ==
  ASSUME IInv, NEW n \in 1 .. len, Write(n)
  PROVE  /\ ChunkSize \in Nat \ {0} /\ n \in Nat \ {0} /\ n <= len
         /\ pc = "write" /\ pc' = "write" /\ Copied /\ TypeOK
         /\ position = cursor - len /\ result = "ok"
         /\ 0 <= ptr /\ ptr + len <= ChunkSize
         /\ BufferHolds(ptr, ptr + len, position)
<1>1. pc = "write" /\ pc' = "write"
  BY DEF Write
<1>2. /\ Copied /\ TypeOK
      /\ position = cursor - len /\ result = "ok"
      /\ 0 <= ptr /\ ptr + len <= ChunkSize
      /\ BufferHolds(ptr, ptr + len, position)
  BY <1>1 DEF IInv, Active
<1>3. len \in Nat
  BY <1>2 DEF TypeOK
<1>4. ChunkSize \in Nat \ {0} /\ n \in Nat \ {0} /\ n <= len
  BY <1>3, NumbersAssumption
<1> QED
  BY <1>1, <1>2, <1>4

(* write() passes on n more bytes of the vector.                           *)
LEMMA WriteExtends ==
  ASSUME IInv, NEW n \in 1 .. len, Write(n)
  PROVE  /\ target' \in Seq(Byte \cup {Junk})
         /\ Len(target') = position + n
         /\ position + n <= cursor /\ cursor <= Len(vector)
         /\ \A i \in 1 .. position + n : target'[i] = vector[i]
<1>1. /\ ChunkSize \in Nat \ {0} /\ n \in Nat \ {0} /\ n <= len
      /\ Copied /\ TypeOK /\ position = cursor - len
      /\ 0 <= ptr /\ ptr + len <= ChunkSize
      /\ BufferHolds(ptr, ptr + len, position)
  BY WriteFacts
<1>2. target' = Written(target, n) /\ Len(target) = position
  BY <1>1 DEF Write, Copied
<1>3. position + n <= cursor /\ cursor <= Len(vector)
  BY <1>1 DEF Copied, TypeOK
<1>4. \A i \in 1 .. position : target'[i] = vector[i]
  BY <1>1, <1>2, WrittenAppends DEF Copied
<1>5. ASSUME NEW i \in position + 1 .. position + n
      PROVE  target'[i] = vector[i]
  <2> DEFINE j == ptr + (i - position) - 1
  <2>1. j \in ptr .. ptr + len - 1 /\ j \in 0 .. ChunkSize - 1
    BY <1>1 DEF TypeOK
  <2>2. target'[i] = buffer[j]
    BY <1>1, <1>2, <2>1, WrittenAppends DEF BufferAt
  <2>3. position + (j - ptr) + 1 = i
    BY <1>1 DEF TypeOK
  <2> HIDE DEF j
  <2>4. \A k \in ptr .. ptr + len - 1 : buffer[k] = vector[position + (k - ptr) + 1]
    <3>1. ptr \in Int /\ len \in Nat
      BY <1>1 DEF TypeOK
    <3> QED
      BY <1>1, <3>1 DEF BufferHolds
  <2> QED
    BY <2>1, <2>2, <2>3, <2>4
<1>6. \A i \in 1 .. position + n : target'[i] = vector[i]
  <2> SUFFICES ASSUME NEW i \in 1 .. position + n PROVE target'[i] = vector[i]
    OBVIOUS
  <2>1. i \in 1 .. position \/ i \in position + 1 .. position + n
    BY <1>1 DEF TypeOK
  <2> QED
    BY <1>4, <1>5, <2>1
<1>7. target' \in Seq(Byte \cup {Junk}) /\ Len(target') = position + n
  BY <1>1, <1>2, WrittenAppends
<1> QED
  BY <1>3, <1>6, <1>7

LEMMA WriteIInv == ASSUME IInv, NEW n \in 1 .. len, Write(n) PROVE IInv'
<1>1. /\ ChunkSize \in Nat \ {0} /\ n \in Nat \ {0} /\ n <= len
      /\ pc = "write" /\ pc' = "write" /\ Copied /\ TypeOK
      /\ position = cursor - len /\ result = "ok"
      /\ 0 <= ptr /\ ptr + len <= ChunkSize
      /\ BufferHolds(ptr, ptr + len, position)
  BY WriteFacts
<1>2. /\ backing' = backing /\ vector' = vector /\ buffer' = buffer
      /\ position' = position + n /\ ptr' = ptr + n /\ len' = len - n
      /\ cursor' = cursor /\ toRead' = toRead /\ totalRead' = totalRead
      /\ result' = result
  BY <1>1 DEF Write, Copied, reading
<1>3. TypeOK'
  <2>1. target' \in Seq(Byte \cup {Junk}) /\ position' \in Nat
    BY <1>1, <1>2, WriteExtends DEF TypeOK
  <2>2. len' \in Nat /\ ptr' \in Int
    BY <1>1, <1>2 DEF TypeOK
  <2> QED
    BY <1>1, <1>2, <2>1, <2>2 DEF TypeOK
<1>4. Copied'
  <2>1. BackingHolds'
    BY <1>1, <1>2 DEF Copied, BackingHolds
  <2>2. /\ position' = Len(target') /\ position' <= cursor'
        /\ \A i \in 1 .. position' : target'[i] = vector'[i]
    BY <1>2, WriteExtends
  <2> QED
    BY <1>1, <1>2, <2>1, <2>2 DEF Copied
<1>5. BufferHolds(ptr, ptr + len, position)'
  BY <1>1, <1>2 DEF BufferHolds, TypeOK
<1> QED
  BY <1>1, <1>2, <1>3, <1>4, <1>5 DEF IInv, Active, TypeOK

LEMMA WriteFailsIInv == ASSUME IInv, WriteFails PROVE IInv'
<1>1. TypeOK' /\ Copied'
  BY DEF IInv, WriteFails, TypeOK, Active, Copied, BackingHolds, files, reading, writing
<1> QED
  BY <1>1 DEF IInv, WriteFails, Active

LEMMA ChunkWrittenIInv == ASSUME IInv, ChunkWritten PROVE IInv'
<1>1. TypeOK' /\ Copied'
  BY DEF IInv, ChunkWritten, TypeOK, Active, Copied, BackingHolds, files, reading, writing
<1>2. position' = cursor'
  BY DEF IInv, ChunkWritten, TypeOK, reading, writing
<1> QED
  BY <1>1, <1>2 DEF IInv, ChunkWritten, Active

(* Another process truncates the file: less is left of it, none of it new. *)
LEMMA ShrinkIInv ==
  ASSUME IInv, NEW n \in 0 .. Len(backing) - 1, Shrink(n)
  PROVE  IInv'
<1>1. TypeOK /\ BackingHolds /\ pc \notin {"start", "done"}
  BY DEF IInv, Active, Copied, Shrink, InUse, TypeOK
<1>2. /\ backing \in Seq(Byte) /\ Len(backing) \in Nat /\ Len(vector) \in Nat
      /\ n \in Nat /\ n <= Len(backing) /\ backing' = SubSeq(backing, 1, n)
  BY <1>1 DEF TypeOK, Shrink
<1>3. /\ backing' \in Seq(Byte) /\ Len(backing') = n
      /\ \A i \in 1 .. n : backing'[i] = backing[i]
  BY <1>2
<1>4. /\ vector' = vector /\ target' = target /\ pc' = pc
      /\ toRead' = toRead /\ cursor' = cursor /\ buffer' = buffer
      /\ totalRead' = totalRead /\ result' = result
      /\ ptr' = ptr /\ len' = len /\ position' = position
  BY DEF Shrink, reading, writing
<1>5. TypeOK'
  BY <1>1, <1>3, <1>4 DEF TypeOK
<1>6. BackingHolds'
  BY <1>1, <1>2, <1>3, <1>4 DEF BackingHolds
<1>7. Copied => Copied'
  BY <1>4, <1>6 DEF Copied
<1>8. Available = 0 => Available' = 0
  BY <1>1, <1>2, <1>3, <1>4 DEF Available, TypeOK
<1>9. \A i, j, k : BufferHolds(i, j, k) => BufferHolds(i, j, k)'
  BY <1>4 DEF BufferHolds
<1> QED
  BY <1>1, <1>4, <1>5, <1>6, <1>7, <1>8, <1>9 DEF IInv, Active

LEMMA NextIInv == ASSUME IInv, Benign, [Next]_vars PROVE IInv'
<1>1. CASE Create
  BY <1>1, CreateIInv
<1>2. CASE WriteToFile
  BY <1>2, WriteToFileIInv
<1>3. CASE FetchChunk
  BY <1>3, FetchChunkIInv
<1>4. CASE Finish
  BY <1>4, FinishIInv
<1>5. CASE \E n \in 1 .. ChunkSize : Pread(n)
  BY <1>5, PreadIInv
<1>6. CASE Deliver
  BY <1>6, DeliverIInv
<1>7. CASE \E n \in 1 .. len : Write(n)
  BY <1>7, WriteIInv
<1>8. CASE ChunkWritten
  BY <1>8, ChunkWrittenIInv
<1>9. CASE OpenFails
  BY <1>9, OpenFailsIInv
<1>10. CASE PreadFails
  BY <1>10, PreadFailsIInv
<1>11. CASE WriteFails
  BY <1>11, WriteFailsIInv
<1>12. CASE UNCHANGED vars
  BY <1>12, StutterIInv
<1>13. ~WriteInterrupted
  BY OnlyBenign DEF WriteInterrupted
<1>14. CASE \E n \in 0 .. Len(backing) - 1 : Shrink(n)
  BY <1>14, ShrinkIInv
<1>15. ~(\E byte \in Byte : Grow(byte))
  BY OnlyBenign DEF Grow
<1> QED
  BY <1>1, <1>2, <1>3, <1>4, <1>5, <1>6, <1>7, <1>8, <1>9, <1>10, <1>11,
     <1>12, <1>13, <1>14, <1>15 DEF Next, Progress

(* In every reachable state what has been written is the beginning of the  *)
(* vector, and the part of the current chunk that remains is in the buffer *)
(* where ptr and len say.                                                  *)
THEOREM CopyInvariance ==
  ASSUME Benign
  PROVE  Spec => []IInv
<1>1. Init => IInv
  BY InitIInv
<1>2. IInv /\ [Next]_vars => IInv'
  BY NextIInv
<1> QED
  BY <1>1, <1>2, PTL DEF Spec

(***************************************************************************)
(* FileIO implements FileCopy.                                             *)
(***************************************************************************)
Caller == <<vector, target, Status>>

LEMMA CreateSimulation == ASSUME IInv, Create PROVE Abs!Next
<1>1. backing \in Contents /\ Status = "idle" /\ Status' = "idle"
  BY DEF IInv, Create, Status, Active
<1>2. Abs!Create(backing)
  BY <1>1 DEF Create, files, Abs!Create
<1> QED
  BY <1>1, <1>2 DEF Abs!Next

LEMMA WriteToFileSimulation == ASSUME IInv, WriteToFile PROVE Abs!Next
<1>1. Status = "idle" /\ Status' = "writing"
  BY DEF IInv, WriteToFile, Status, Active
<1>2. Abs!Start
  BY <1>1 DEF WriteToFile, Abs!Start
<1> QED
  BY <1>2 DEF Abs!Next

LEMMA WriteSimulation ==
  ASSUME IInv, NEW n \in 1 .. len, Write(n)
  PROVE  Abs!Next
<1>1. Status = "writing" /\ Status' = "writing" /\ vector' = vector
  BY DEF Write, Status, Active
<1>2. /\ position \in Nat /\ n \in Nat \ {0} /\ Len(target) = position
      /\ vector \in Seq(Byte) /\ cursor \in Nat
  BY WriteFacts DEF TypeOK, Copied
<1>3. position + n \in Len(target) + 1 .. Len(vector)
  BY <1>2, WriteExtends
<1>4. target' = SubSeq(vector, 1, position + n)
  BY <1>2, <1>3, WriteExtends
<1>5. Abs!Extend(position + n)
  BY <1>1, <1>4 DEF Abs!Extend
<1> QED
  BY <1>3, <1>5 DEF Abs!Next

LEMMA FinishSimulation == ASSUME IInv, Finish PROVE Abs!Next
<1>1. vector' = vector /\ target' = target /\ result' = result
  BY DEF Finish, files
<1>2. Status = "writing" /\ Status' = result /\ result \in {"ok", "error"}
  BY DEF IInv, Finish, Status, Active, Copied, TypeOK
<1>3. CASE result = "ok"
  <2>1. target' = vector'
    BY <1>1, <1>3, FinishIInv DEF IInv, Finish
  <2>2. Abs!Succeed
    BY <1>1, <1>2, <1>3, <2>1 DEF Abs!Succeed
  <2> QED
    BY <2>2 DEF Abs!Next
<1>4. CASE result = "error"
  BY <1>1, <1>2, <1>4 DEF Abs!Fail, Abs!Next
<1> QED
  BY <1>2, <1>3, <1>4

LEMMA FailSimulation == ASSUME IInv, OpenFails \/ PreadFails PROVE Abs!Next
<1>1. Status \in {"idle", "writing"} /\ Status' = "error"
  BY DEF IInv, OpenFails, PreadFails, Status, Active
<1>2. UNCHANGED <<vector, target>>
  BY DEF OpenFails, PreadFails, files
<1> QED
  BY <1>1, <1>2 DEF Abs!Fail, Abs!Next

(* The steps that the caller of writeToFile() does not see.                *)
LEMMA ShrinkStutter ==
  ASSUME NEW n \in 0 .. Len(backing) - 1, Shrink(n)
  PROVE  UNCHANGED Caller
BY DEF Shrink, Caller, Status, Active

LEMMA Stutter ==
  ASSUME FetchChunk \/ (\E n \in 1 .. ChunkSize : Pread(n)) \/ Deliver
           \/ ChunkWritten \/ WriteFails
  PROVE  UNCHANGED Caller
<1>1. Status = "writing" /\ Status' = "writing"
  BY DEF FetchChunk, Pread, Deliver, ChunkWritten, WriteFails, Status, Active
<1>2. UNCHANGED <<vector, target>>
  BY DEF FetchChunk, Pread, Deliver, ChunkWritten, WriteFails, files
<1> QED
  BY <1>1, <1>2 DEF Caller

LEMMA CopySimulation ==
  ASSUME IInv, Benign, Next
  PROVE  Abs!Next \/ UNCHANGED Caller
<1>1. CASE Create
  BY <1>1, CreateSimulation
<1>2. CASE WriteToFile
  BY <1>2, WriteToFileSimulation
<1>3. CASE \E n \in 1 .. len : Write(n)
  BY <1>3, WriteSimulation
<1>4. CASE Finish
  BY <1>4, FinishSimulation
<1>5. CASE OpenFails \/ PreadFails
  BY <1>5, FailSimulation
<1>6. CASE FetchChunk \/ (\E n \in 1 .. ChunkSize : Pread(n)) \/ Deliver
             \/ ChunkWritten \/ WriteFails
  BY <1>6, Stutter
<1>7. CASE \E n \in 0 .. Len(backing) - 1 : Shrink(n)
  BY <1>7, ShrinkStutter
<1>8. ~WriteInterrupted /\ ~(\E byte \in Byte : Grow(byte))
  BY OnlyBenign DEF WriteInterrupted, Grow
<1> QED
  BY <1>1, <1>2, <1>3, <1>4, <1>5, <1>6, <1>7, <1>8 DEF Next, Progress

(* When system calls only fail or write less than asked for, even while    *)
(* other processes truncate the backing file, writeToFile() extends the    *)
(* file with the vector's next bytes and nothing else, and reports success *)
(* only when all of them are in it.                                        *)
THEOREM CopyRefinement ==
  ASSUME Benign
  PROVE  Spec => Implements
<1>1. Init => Abs!Init
  BY DEF Init, Abs!Init, Status, Active
<1>2. IInv /\ [Next]_vars => [Abs!Next]_Caller
  <2> SUFFICES ASSUME IInv, [Next]_vars PROVE Abs!Next \/ UNCHANGED Caller
    OBVIOUS
  <2>1. CASE Next
    BY <2>1, CopySimulation
  <2>2. CASE UNCHANGED vars
    BY <2>2 DEF vars, files, Caller, Status, Active
  <2> QED
    BY <2>1, <2>2
<1> QED
  BY <1>1, <1>2, CopyInvariance, PTL
  DEF Spec, Implements, Abs!Spec, Abs!vars, Caller

(* The backing file has all that is left to read: pread() does not return  *)
(* 0, and what it returns counts.                                          *)
LEMMA DeliverAdvances ==
  ASSUME IInv, Deliver, Len(vector) <= Len(backing)
  PROVE  toRead' < toRead
<1>1. /\ ChunkSize \in Nat \ {0} /\ toRead \in Nat /\ cursor \in Nat /\ totalRead \in Nat
      /\ backing \in Seq(Byte) /\ vector \in Seq(Byte)
      /\ 0 < toRead /\ totalRead <= toRead /\ cursor + toRead = Len(vector)
  BY NumbersAssumption DEF IInv, TypeOK, Deliver, Active, Copied
<1>2. 0 < totalRead
  BY <1>1 DEF Deliver, Available
<1>3. toRead' = toRead - totalRead
  BY <1>1 DEF Deliver, SizeMinus
<1> QED
  BY <1>1, <1>2, <1>3

LEMMA LeftOfChunkIs ==
  /\ pc = "write" => LeftOfChunk = ChunkSize + 2 + len
  /\ pc = "iterate" => LeftOfChunk = ChunkSize + 1
  /\ pc = "pread" => LeftOfChunk = ChunkSize - totalRead
  /\ pc = "done" => LeftOfChunk = -1
BY DEF LeftOfChunk

LEMMA LeftOfChunkBecomes ==
  /\ pc' = "write" => LeftOfChunk' = ChunkSize + 2 + len'
  /\ pc' = "iterate" => LeftOfChunk' = ChunkSize + 1
  /\ pc' = "pread" => LeftOfChunk' = ChunkSize - totalRead'
  /\ pc' = "done" => LeftOfChunk' = -1
BY DEF LeftOfChunk

LEMMA StepAdvances ==
  ASSUME IInv, Benign, Next, Active, Len(vector) <= Len(backing), UNCHANGED backing
  PROVE  \/ toRead' < toRead
         \/ toRead' = toRead /\ LeftOfChunk' < LeftOfChunk
<1>1. ChunkSize \in Nat \ {0} /\ totalRead \in 0 .. ChunkSize /\ len \in Nat
  BY NumbersAssumption DEF IInv, TypeOK
<1>2. CASE FetchChunk
  BY <1>1, <1>2, LeftOfChunkIs, LeftOfChunkBecomes DEF FetchChunk
<1>3. CASE Finish
  BY <1>1, <1>3, LeftOfChunkIs, LeftOfChunkBecomes DEF Finish, reading
<1>4. ASSUME NEW n \in 1 .. ChunkSize, Pread(n)
      PROVE  toRead' = toRead /\ LeftOfChunk' < LeftOfChunk
  <2>1. pc = "pread" /\ pc' = pc /\ toRead' = toRead /\ totalRead' = totalRead + n
    BY <1>4 DEF Pread
  <2> QED
    BY <1>1, <2>1, LeftOfChunkIs, LeftOfChunkBecomes
<1>5. CASE Deliver
  BY <1>5, DeliverAdvances
<1>6. ASSUME NEW n \in 1 .. len, Write(n)
      PROVE  toRead' = toRead /\ LeftOfChunk' < LeftOfChunk
  <2>1. pc = "write" /\ pc' = pc /\ toRead' = toRead /\ len' = len - n
    BY <1>6 DEF Write, reading
  <2> QED
    BY <1>1, <2>1, LeftOfChunkIs, LeftOfChunkBecomes
<1>7. CASE ChunkWritten \/ WriteFails
  <2>1. pc = "write" /\ pc' = "iterate" /\ toRead' = toRead
    BY <1>7 DEF ChunkWritten, WriteFails, reading
  <2> QED
    BY <1>1, <2>1, LeftOfChunkIs, LeftOfChunkBecomes
<1>8. CASE PreadFails
  <2>1. pc = "pread" /\ pc' = "done" /\ toRead' = toRead
    BY <1>8 DEF PreadFails, reading
  <2> QED
    BY <1>1, <2>1, LeftOfChunkIs, LeftOfChunkBecomes
<1>9. ~Create /\ ~OpenFails /\ ~WriteToFile
  BY DEF Active, Create, OpenFails, WriteToFile
<1>10. ~(\E n \in 0 .. Len(backing) - 1 : Shrink(n))
  <2>1. ASSUME NEW n \in 0 .. Len(backing) - 1, Shrink(n) PROVE FALSE
    <3>1. backing \in Seq(Byte)
      BY DEF IInv, TypeOK
    <3>2. Len(SubSeq(backing, 1, n)) = n
      BY <3>1
    <3> QED
      BY <2>1, <3>1, <3>2 DEF Shrink
  <2> QED
    BY <2>1
<1>11. ~WriteInterrupted /\ ~(\E byte \in Byte : Grow(byte))
  BY OnlyBenign DEF WriteInterrupted, Grow
<1> QED
  BY <1>2, <1>3, <1>4, <1>5, <1>6, <1>7, <1>8, <1>9, <1>10, <1>11 DEF Next, Progress

(* While no bytes are missing from the backing file, the loops of          *)
(* iterate() and writeToFileDescriptor() never go round in vain.           *)
THEOREM CopyAdvances ==
  ASSUME Benign
  PROVE  Spec => Advances
<1>1. IInv /\ [Next]_vars =>
        [Active /\ Len(vector) <= Len(backing) /\ UNCHANGED backing =>
           \/ toRead' < toRead
           \/ toRead' = toRead /\ LeftOfChunk' < LeftOfChunk]_vars
  BY StepAdvances
<1> QED
  BY <1>1, CopyInvariance, PTL DEF Spec, Advances

(***************************************************************************)
(* writeToFile() loses nothing of a vector whose file grows while it is    *)
(* read, however often write() is interrupted, when no pread() is short    *)
(* and the file does not shrink.                                           *)
(***************************************************************************)
WholeReads == ~May("short read") /\ ~May("shrink")

(***************************************************************************)
(* Places of the vector's bytes in the written file.                       *)
(***************************************************************************)
LEMMA EmbeddedNothing == Embedded(0) /\ Embedded(0)'
<1> DEFINE place == [i \in 1 .. 0 |-> 1]
<1>1. \A n : place \in [1 .. 0 -> 1 .. n]
  OBVIOUS
<1>2. /\ \A i, j \in 1 .. 0 : i < j => place[i] < place[j]
      /\ \A i \in 1 .. 0 : target[place[i]] = vector[i]
      /\ \A i \in 1 .. 0 : target'[place[i]] = vector'[i]
  OBVIOUS
<1> HIDE DEF place
<1> QED
  BY <1>1, <1>2 DEF Embedded

LEMMA EmbeddedKept ==
  ASSUME NEW m, Embedded(m), UNCHANGED <<target, vector>>
  PROVE  Embedded(m)'
BY DEF Embedded

LEMMA EmbeddedLess ==
  ASSUME NEW m \in Nat, Embedded(m), NEW n \in 0 .. m
  PROVE  Embedded(n)
<1>1. PICK place \in [1 .. m -> 1 .. Len(target)] :
        /\ \A i, j \in 1 .. m : i < j => place[i] < place[j]
        /\ \A i \in 1 .. m : target[place[i]] = vector[i]
  BY DEF Embedded
<1> DEFINE less == [i \in 1 .. n |-> place[i]]
<1>2. less \in [1 .. n -> 1 .. Len(target)]
  OBVIOUS
<1>3. /\ \A i, j \in 1 .. n : i < j => less[i] < less[j]
      /\ \A i \in 1 .. n : target[less[i]] = vector[i]
  BY <1>1
<1> HIDE DEF less
<1> QED
  BY <1>2, <1>3 DEF Embedded

(* n more bytes in the file; those from skip on are the vector's next.     *)
LEMMA EmbeddedExtends ==
  ASSUME TypeOK, NEW m \in Nat, Embedded(m), vector' = vector,
         NEW n \in Nat, NEW skip \in 0 .. n,
         Len(target') = Len(target) + n,
         \A i \in 1 .. Len(target) : target'[i] = target[i],
         \A k \in 1 .. n - skip :
           target'[Len(target) + skip + k] = vector[m + k]
  PROVE  Embedded(m + n - skip)'
<1> DEFINE l == Len(target)
<1>1. l \in Nat
  BY DEF TypeOK
<1>2. PICK place \in [1 .. m -> 1 .. l] :
        /\ \A i, j \in 1 .. m : i < j => place[i] < place[j]
        /\ \A i \in 1 .. m : target[place[i]] = vector[i]
  BY DEF Embedded
<1> DEFINE more == [i \in 1 .. m + n - skip |->
                      IF i <= m THEN place[i] ELSE l + skip + (i - m)]
<1> HIDE DEF l
<1>3. more \in [1 .. m + n - skip -> 1 .. l + n]
  <2> SUFFICES ASSUME NEW i \in 1 .. m + n - skip PROVE more[i] \in 1 .. l + n
    OBVIOUS
  <2>1. CASE i <= m
    <3>1. place[i] \in 1 .. l
      BY <2>1
    <3> QED
      BY <1>1, <2>1, <3>1
  <2>2. CASE ~(i <= m)
    BY <1>1, <2>2
  <2> QED
    BY <2>1, <2>2
<1>4. ASSUME NEW i \in 1 .. m + n - skip, NEW j \in 1 .. m + n - skip, i < j
      PROVE  more[i] < more[j]
  <2>1. CASE j <= m
    BY <1>2, <1>4, <2>1
  <2>2. CASE i <= m /\ ~(j <= m)
    <3>1. place[i] \in 1 .. l
      BY <2>2
    <3>2. more[i] = place[i] /\ more[j] = l + skip + (j - m) /\ j - m > 0
      BY <2>2
    <3> HIDE DEF more
    <3> QED
      BY <1>1, <3>1, <3>2
  <2>3. CASE ~(i <= m)
    <3>1. more[i] = l + skip + (i - m) /\ more[j] = l + skip + (j - m)
      BY <1>4, <2>3
    <3> HIDE DEF more
    <3> QED
      BY <1>1, <1>4, <3>1
  <2> QED
    BY <2>1, <2>2, <2>3
<1>5. ASSUME NEW i \in 1 .. m + n - skip
      PROVE  target'[more[i]] = vector'[i]
  <2>1. CASE i <= m
    <3>1. i \in 1 .. m
      BY <2>1
    <3>2. place[i] \in 1 .. l /\ more[i] = place[i]
      BY <2>1, <3>1
    <3>3. target'[place[i]] = target[place[i]]
      BY <3>2 DEF l
    <3> HIDE DEF more
    <3> QED
      BY <1>2, <3>1, <3>2, <3>3
  <2>2. CASE ~(i <= m)
    <3> DEFINE k == i - m
    <3>1. k \in 1 .. n - skip /\ m + k = i /\ more[i] = l + skip + k
      BY <2>2
    <3> HIDE DEF k, more
    <3> QED
      BY <3>1 DEF l
  <2> QED
    BY <2>1, <2>2
<1>6. Len(target') = l + n
  BY DEF l
<1> HIDE DEF more
<1> QED
  BY <1>3, <1>4, <1>5, <1>6 DEF Embedded

(***************************************************************************)
(* The inductive invariant.                                                *)
(***************************************************************************)
LEMMA InitGrowthInv == Init => GrowthInv
<1> SUFFICES ASSUME Init PROVE GrowthInv
  OBVIOUS
<1>1. Zero \in Byte /\ Contents \subseteq Seq(Byte) /\ ChunkSize \in Nat \ {0}
  BY BytesAssumption, ContentsAssumption, NumbersAssumption
<1>2. backing \in Seq(Byte) /\ target \in Seq(Byte)
  BY <1>1 DEF Init
<1>3. target \in Seq(Byte \cup {Junk})
  BY <1>2
<1>4. TypeOK
  BY <1>1, <1>2, <1>3 DEF Init, TypeOK
<1> QED
  BY <1>4 DEF Init, GrowthInv, Active, NothingLost

LEMMA StutterGrowthInv == ASSUME GrowthInv, UNCHANGED vars PROVE GrowthInv'
<1>1. TypeOK' /\ (BackingGrows => BackingGrows')
  BY DEF GrowthInv, TypeOK, BackingGrows, vars, files, reading, writing
<1>2. \A m : Embedded(m) => Embedded(m)'
  BY EmbeddedKept DEF vars, files
<1>3. \A first, last, offset :
        BufferHolds(first, last, offset) => BufferHolds(first, last, offset)'
  BY DEF BufferHolds, vars, reading
<1> QED
  BY <1>1, <1>2, <1>3
  DEF GrowthInv, vars, files, reading, writing, Active, Counted, Wrapped, Given, NothingLost

LEMMA CreateGrowthInv == ASSUME GrowthInv, Create PROVE GrowthInv'
<1>1. BackingGrows'
  BY ContentsAssumption DEF GrowthInv, TypeOK, Create, BackingGrows, files
<1>2. TypeOK'
  BY DEF GrowthInv, TypeOK, Create, files, reading, writing
<1> QED
  BY <1>1, <1>2 DEF GrowthInv, Create, Active, files, reading, writing

(* An error ends the call.                                                 *)
LEMMA FailsGrowthInv ==
  ASSUME GrowthInv, OpenFails \/ PreadFails
  PROVE  GrowthInv'
<1>1. pc' = "done" /\ result' = "error" /\ UNCHANGED <<files, vector, reading, writing>>
  BY DEF OpenFails, PreadFails
<1>2. TypeOK'
  BY <1>1 DEF GrowthInv, TypeOK, files, reading, writing
<1> QED
  BY <1>1, <1>2 DEF GrowthInv, Active, NothingLost

LEMMA WriteToFileGrowthInv == ASSUME GrowthInv, WriteToFile PROVE GrowthInv'
<1>1. TypeOK'
  BY DEF GrowthInv, TypeOK, WriteToFile
<1>2. BackingGrows' /\ position' = Len(target') /\ cursor' <= Len(backing')
  BY DEF GrowthInv, TypeOK, WriteToFile, BackingGrows
<1>3. Counted' /\ Embedded(cursor)'
  <2>1. cursor' = 0 /\ Counted'
    BY DEF GrowthInv, TypeOK, WriteToFile, Counted
  <2>2. Embedded(0)'
    BY EmbeddedNothing
  <2> QED
    BY <2>1, <2>2 DEF Embedded
<1> QED
  BY <1>1, <1>2, <1>3 DEF GrowthInv, WriteToFile, Active, NothingLost

(* What the invariant says inside of iterate(), in one place.              *)
LEMMA ActiveFacts ==
  ASSUME GrowthInv, Active
  PROVE  /\ TypeOK /\ result # "none" /\ BackingGrows
         /\ position = Len(target) /\ cursor <= Len(backing)
         /\ Counted \/ Wrapped
         /\ ChunkSize \in Nat \ {0} /\ SizeMax \in Nat
         /\ cursor \in Nat /\ toRead \in Nat /\ totalRead \in 0 .. ChunkSize
         /\ Len(vector) \in Nat /\ Len(backing) \in Nat /\ Len(target) \in Nat
         /\ Len(vector) <= Len(backing) /\ Len(backing) <= SizeMax
BY NumbersAssumption DEF GrowthInv, TypeOK, BackingGrows

LEMMA ActiveNumbers ==
  ASSUME GrowthInv, Active
  PROVE  /\ ChunkSize \in Nat /\ SizeMax \in Nat /\ cursor \in Nat /\ toRead \in Nat
         /\ totalRead \in Nat /\ totalRead <= ChunkSize
         /\ Len(vector) \in Nat /\ Len(backing) \in Nat
         /\ cursor <= Len(backing) /\ Len(vector) <= Len(backing) /\ Len(backing) <= SizeMax
BY ActiveFacts

LEMMA FetchChunkGrowthInv == ASSUME GrowthInv, FetchChunk PROVE GrowthInv'
<1>1. Active /\ result = "ok"
  BY DEF GrowthInv, TypeOK, FetchChunk, stop, Active
<1>2. TypeOK'
  BY <1>1, ActiveFacts DEF TypeOK, FetchChunk, files, writing
<1>3. /\ UNCHANGED <<backing, vector, target, toRead, cursor, position, buffer, result>>
      /\ pc = "iterate" /\ pc' = "pread" /\ totalRead' = 0 /\ toRead > 0
  BY DEF FetchChunk, files, writing
<1>4. /\ result' # "none" /\ BackingGrows' /\ position' = Len(target')
      /\ Counted' \/ Wrapped'
      /\ cursor' <= Len(backing')
      /\ (cursor + totalRead <= Len(backing))'
  BY <1>1, <1>3, ActiveFacts DEF BackingGrows, Counted, Wrapped
<1>5. ASSUME Counted' PROVE Embedded(cursor)' /\ BufferHolds(0, totalRead, cursor)'
  <2>1. Embedded(cursor)
    BY <1>1, <1>3, <1>5 DEF GrowthInv, Counted
  <2>2. Embedded(cursor)'
    BY <1>3, <2>1 DEF Embedded
  <2> QED
    BY <1>3, <2>2 DEF BufferHolds
<1>6. result' = "ok" /\ 0 < toRead' /\ totalRead' \in {0, ChunkSize}
  BY <1>1, <1>3, ActiveFacts
<1> QED
  BY <1>2, <1>3, <1>4, <1>5, <1>6 DEF GrowthInv

(* Success: toRead is 0, which it is only when it has not wrapped around.  *)
LEMMA FinishGrowthInv == ASSUME GrowthInv, Finish PROVE GrowthInv'
<1>1. Active /\ pc = "iterate" /\ pc' = "done"
      /\ UNCHANGED <<files, vector, reading, writing, result>>
  BY DEF Finish, Active
<1>2. TypeOK'
  BY <1>1, ActiveFacts DEF TypeOK, files, reading, writing
<1>3. ASSUME result = "ok" PROVE Embedded(Len(vector))'
  <2>1. toRead = 0
    BY <1>1, <1>3, ActiveFacts DEF Finish, stop
  <2>2. Counted /\ cursor = Len(vector)
    BY <1>1, <2>1, ActiveFacts DEF Counted, Wrapped
  <2>3. Embedded(Len(vector))
    BY <1>1, <1>3, <2>2 DEF GrowthInv
  <2> QED
    BY <1>1, <2>3 DEF Embedded, files
<1> QED
  BY <1>1, <1>2, <1>3, ActiveFacts DEF GrowthInv, Active, NothingLost

(* The first pread() of a chunk reads all that is wanted or all there is,  *)
(* which is no less than toRead; a second one makes too much.              *)
LEMMA PreadGrowthInv ==
  ASSUME GrowthInv, WholeReads, NEW n \in 1 .. ChunkSize, Pread(n)
  PROVE  GrowthInv'
<1>1. Active /\ pc = "pread" /\ pc' = "pread"
  BY DEF Pread, Active
<1>2. UNCHANGED <<backing, target, vector, pc, toRead, cursor, position, ptr, len, result>>
  BY DEF Pread, files, writing
<1>3. /\ result = "ok" /\ cursor + totalRead <= Len(backing)
      /\ Counted => /\ 0 < toRead /\ Embedded(cursor)
                    /\ totalRead \in {0, ChunkSize} \/ toRead <= totalRead
  BY <1>1 DEF GrowthInv
<1>4. /\ n \in Nat \ {0} /\ n <= Available /\ n <= Wanted
      /\ n \in {Available, Wanted} /\ totalRead < ChunkSize
      /\ totalRead' = totalRead + n
  <2>1. Available \in Nat
    BY <1>1, ActiveFacts DEF Available
  <2>2. /\ n \in 1 .. Available /\ n <= Wanted
        /\ n \in {Available, Wanted} /\ totalRead < ChunkSize
        /\ totalRead' = totalRead + n
    BY DEF Pread, WholeReads
  <2> QED
    BY <2>1, <2>2, NumbersAssumption
<1>5. cursor + totalRead + n <= Len(backing) /\ totalRead + n <= ChunkSize
  <2>1. Available = Len(backing) - (cursor + totalRead)
    BY <1>1, <1>3, ActiveNumbers DEF Available
  <2>2. n <= Len(backing) - (cursor + totalRead) /\ n <= ChunkSize - totalRead
    BY <1>4, <2>1 DEF Wanted
  <2> QED
    BY <1>1, <1>4, <2>2, ActiveNumbers
<1>6. TypeOK'
  <2>1. buffer' \in [0 .. ChunkSize - 1 -> Byte \cup {Junk}]
    <3>1. ASSUME NEW i \in 0 .. ChunkSize - 1, i < n
          PROVE  backing[cursor + totalRead + i + 1] \in Byte
      <4>1. cursor + totalRead + i + 1 \in 1 .. Len(backing)
        <5>1. i \in Nat /\ i < n /\ n \in Nat
          BY <1>4, <3>1
        <5>2. PICK l \in Nat : l = cursor + totalRead /\ l + n <= Len(backing)
          BY <1>1, <1>5, ActiveNumbers
        <5>3. l + i + 1 \in Nat /\ 1 <= l + i + 1 /\ l + i + 1 <= l + n
          BY <5>1, <5>2
        <5> QED
          BY <1>1, <5>1, <5>2, <5>3, ActiveNumbers
      <4>2. backing \in Seq(Byte)
        BY <1>1, ActiveFacts DEF TypeOK
      <4> QED
        BY <4>1, <4>2
    <3>2. buffer \in [0 .. ChunkSize - 1 -> Byte \cup {Junk}]
      BY <1>1, ActiveFacts DEF TypeOK
    <3> QED
      BY <3>1, <3>2 DEF Pread
  <2>2. totalRead' \in 0 .. ChunkSize
    BY <1>1, <1>4, <1>5, ActiveNumbers
  <2> QED
    BY <1>1, <1>2, <2>1, <2>2, ActiveFacts DEF TypeOK
<1>7. /\ BackingGrows' /\ position' = Len(target')
      /\ Counted' \/ Wrapped'
      /\ (cursor <= Len(backing))' /\ (cursor + totalRead <= Len(backing))'
  <2>1. BackingGrows' /\ position' = Len(target') /\ (cursor <= Len(backing))'
    BY <1>1, <1>2, ActiveFacts DEF BackingGrows
  <2>2. Counted' \/ Wrapped'
    BY <1>1, <1>2, ActiveFacts DEF Counted, Wrapped
  <2>3. (cursor + totalRead <= Len(backing))'
    <3>1. cursor' + totalRead' = cursor + totalRead + n
      BY <1>1, <1>2, <1>4, ActiveNumbers
    <3> QED
      BY <1>2, <1>5, <3>1
  <2> QED
    BY <2>1, <2>2, <2>3
<1>8. ASSUME Counted'
      PROVE  /\ Embedded(cursor)'
             /\ totalRead' \in {0, ChunkSize} \/ toRead' <= totalRead'
             /\ totalRead' <= toRead' => BufferHolds(0, totalRead, cursor)'
  <2>1. Counted /\ cursor + toRead = Len(vector)
    BY <1>2, <1>8 DEF Counted
  <2>2. Embedded(cursor)'
    BY <1>2, <1>3, <2>1 DEF Embedded
  <2>3. CASE totalRead = 0
    <3>1. totalRead' = n
      BY <1>4, <2>3
    <3>2. n = ChunkSize \/ toRead <= n
      <4>1. n = Len(backing) - cursor \/ n = ChunkSize
        BY <1>1, <1>3, <1>4, <2>3, ActiveNumbers DEF Available, Wanted
      <4> QED
        BY <1>1, <2>1, <4>1, ActiveNumbers
    <3>3. ASSUME n <= toRead PROVE BufferHolds(0, totalRead, cursor)'
      <4> SUFFICES ASSUME NEW i \in 0 .. n - 1
                   PROVE  buffer'[i] = vector[cursor + i + 1]
        BY <1>2, <1>4, <3>1 DEF BufferHolds
      <4>1. i \in 0 .. ChunkSize - 1 /\ i < n /\ cursor + i + 1 \in 1 .. Len(vector)
        <5>1. i \in Nat /\ i < n /\ n <= ChunkSize /\ n <= toRead
          BY <1>1, <1>4, <1>5, <3>3, ActiveNumbers
        <5> QED
          BY <1>1, <2>1, <5>1, ActiveNumbers
      <4>2. buffer'[i] = backing[cursor + totalRead + i + 1]
        BY <4>1 DEF Pread
      <4>3. cursor + totalRead + i + 1 = cursor + i + 1
        BY <1>1, <2>3, <4>1, ActiveNumbers
      <4> QED
        BY <1>1, <4>1, <4>2, <4>3, ActiveFacts DEF BackingGrows
    <3> QED
      BY <1>2, <2>2, <3>1, <3>2, <3>3
  <2>4. CASE totalRead # 0
    <3>1. toRead <= totalRead
      <4>1. totalRead # ChunkSize
        BY <1>1, <1>4, ActiveNumbers
      <4> QED
        BY <1>3, <2>1, <2>4, <4>1
    <3>2. toRead' \in Nat /\ totalRead' \in Nat /\ toRead' < totalRead'
      BY <1>1, <1>2, <1>4, <3>1, ActiveNumbers
    <3>3. toRead' <= totalRead' /\ ~(totalRead' <= toRead')
      BY <3>2
    <3> QED
      BY <2>2, <3>3
  <2> QED
    BY <2>3, <2>4
<1> QED
  BY <1>1, <1>2, <1>3, <1>6, <1>7, <1>8, ActiveFacts DEF GrowthInv, Counted

(* File::read() was asked for a whole buffer, so the file's last chunk may *)
(* be longer than toRead by now: then toRead wraps around.                 *)
LEMMA DeliverGrowthInv == ASSUME GrowthInv, Deliver PROVE GrowthInv'
<1>1. /\ Active /\ pc = "pread" /\ pc' = "write"
      /\ UNCHANGED <<backing, target, vector, buffer, totalRead, position, result>>
      /\ toRead' = SizeMinus(toRead, totalRead) /\ cursor' = cursor + totalRead
      /\ ptr' = 0 /\ len' = totalRead
      /\ totalRead = ChunkSize \/ Available = 0
  BY DEF Deliver, Active, files
<1>2. /\ result = "ok" /\ cursor + totalRead <= Len(backing)
      /\ Counted => /\ 0 < toRead /\ Embedded(cursor)
                    /\ totalRead <= toRead => BufferHolds(0, totalRead, cursor)
  BY <1>1 DEF GrowthInv
<1>3. CASE Counted /\ totalRead <= toRead
  <2>1. toRead' = toRead - totalRead /\ Counted' /\ toRead' \in Nat
    <3>1. toRead' = toRead - totalRead /\ toRead' \in Nat
      BY <1>1, <1>3, ActiveNumbers DEF SizeMinus
    <3>2. cursor' + toRead' = cursor + toRead
      BY <1>1, <3>1, ActiveNumbers
    <3> QED
      BY <1>1, <1>3, <3>1, <3>2 DEF Counted
  <2>2. /\ (ptr + len = totalRead)' /\ (totalRead <= cursor)'
        /\ (cursor - totalRead)' = cursor /\ (cursor - totalRead + Given)' = cursor
    BY <1>1, ActiveFacts DEF Given
  <2>3. BufferHolds(0, totalRead, cursor - totalRead)'
    BY <1>1, <1>2, <1>3, <2>2 DEF BufferHolds
  <2>4. Embedded(cursor - totalRead + Given)'
    BY <1>1, <1>2, <1>3, <2>2 DEF Embedded
  <2>5. TypeOK'
    <3>1. cursor' \in Nat /\ ptr' \in Int /\ len' \in Nat
      BY <1>1, ActiveNumbers
    <3> QED
      BY <1>1, <2>1, <3>1, ActiveFacts DEF TypeOK
  <2>6. BackingGrows' /\ position' = Len(target') /\ (cursor <= Len(backing))'
    BY <1>1, <1>2, ActiveFacts DEF BackingGrows
  <2> QED
    BY <1>1, <1>2, <2>1, <2>2, <2>3, <2>4, <2>5, <2>6 DEF GrowthInv, Active
<1>4. CASE ~(Counted /\ totalRead <= toRead)
  <2>1. Wrapped' /\ ~Counted' /\ toRead' \in Nat
    <3>1. CASE Counted
      <4>1. toRead' = toRead - totalRead + SizeMax + 1
        BY <1>1, <1>4, <3>1, ActiveNumbers DEF SizeMinus
      <4>2. totalRead <= SizeMax
        BY <1>1, <1>2, ActiveNumbers
      <4>3. /\ cursor + toRead = Len(vector) /\ cursor' = cursor + totalRead
            /\ vector' = vector
        BY <1>1, <3>1 DEF Counted
      <4>4. /\ cursor \in Nat /\ toRead \in Nat /\ totalRead \in Nat
            /\ SizeMax \in Nat /\ Len(vector) \in Nat
        BY <1>1, ActiveNumbers
      <4>5. /\ cursor' + toRead' = Len(vector) + SizeMax + 1
            /\ cursor' + toRead' # Len(vector) /\ toRead' \in Nat
        BY <4>1, <4>2, <4>3, <4>4
      <4> QED
        BY <4>3, <4>5 DEF Counted, Wrapped
    <3>2. CASE Wrapped
      <4>1. totalRead <= toRead
        BY <1>1, <1>2, <3>2, ActiveNumbers DEF Wrapped
      <4>2. toRead' = toRead - totalRead /\ toRead' \in Nat
        BY <1>1, <4>1, ActiveNumbers DEF SizeMinus
      <4>3. cursor' + toRead' = cursor + toRead /\ vector' = vector
        BY <1>1, <4>2, ActiveNumbers
      <4>4. Wrapped'
        BY <3>2, <4>3 DEF Wrapped
      <4>5. ~Counted'
        BY <1>1, <4>3, <4>4, ActiveNumbers DEF Counted, Wrapped
      <4> QED
        BY <4>2, <4>4, <4>5
    <3> QED
      BY <1>1, <3>1, <3>2, ActiveFacts
  <2>2. TypeOK'
    <3>1. cursor' \in Nat /\ ptr' \in Int /\ len' \in Nat
      BY <1>1, ActiveNumbers
    <3> QED
      BY <1>1, <2>1, <3>1, ActiveFacts DEF TypeOK
  <2>3. BackingGrows' /\ position' = Len(target') /\ (cursor <= Len(backing))'
    BY <1>1, <1>2, ActiveFacts DEF BackingGrows
  <2> QED
    BY <1>1, <1>2, <2>1, <2>2, <2>3 DEF GrowthInv, Active
<1> QED
  BY <1>3, <1>4

(* write() is given the rest of the buffer, or with a negative ptr also    *)
(* what is before it.                                                      *)
LEMMA WriteEmbeds ==
  ASSUME GrowthInv, NEW n \in 1 .. len, Write(n), Counted
  PROVE  Embedded(cursor - totalRead + Given)'
<1>1. /\ Active /\ TypeOK /\ position = Len(target)
      /\ cursor \in Nat /\ totalRead \in Nat /\ totalRead <= ChunkSize
      /\ ChunkSize \in Nat /\ Len(target) \in Nat
      /\ ptr \in Int /\ len \in Nat /\ n \in Nat /\ n <= len
  <2>1. Active
    BY DEF Write, Active
  <2>2. TypeOK
    BY DEF GrowthInv
  <2> QED
    BY <2>1, <2>2, ActiveFacts DEF TypeOK
<1>2. /\ ptr + len = totalRead /\ totalRead <= cursor
      /\ BufferHolds(0, totalRead, cursor - totalRead)
      /\ Embedded(cursor - totalRead + Given)
  BY DEF GrowthInv, Write
<1>3. /\ target' = Written(target, n) /\ ptr' = ptr + n
      /\ UNCHANGED <<vector, buffer, cursor, totalRead>>
  BY DEF Write, reading
<1>4. PICK m \in Nat : m = cursor - totalRead + Given
  BY <1>1, <1>2 DEF Given
<1>5. PICK skip \in 0 .. n : skip = IF 0 <= ptr THEN 0 ELSE IF n <= -ptr THEN n ELSE -ptr
  BY <1>1
<1>6. (cursor - totalRead + Given)' = m + n - skip
  BY <1>1, <1>2, <1>3, <1>4, <1>5 DEF Given
<1>7. ASSUME NEW k \in 1 .. n - skip
      PROVE  target'[Len(target) + skip + k] = vector[m + k]
  <2>1. /\ Given + k - 1 \in 0 .. totalRead - 1 /\ ptr + skip + k - 1 = Given + k - 1
        /\ Given \in Nat
    BY <1>1, <1>2, <1>5 DEF Given
  <2> DEFINE j == Given + k - 1
             i == position + skip + k
  <2>2. j \in 0 .. totalRead - 1 /\ j \in 0 .. ChunkSize - 1 /\ m + k = cursor - totalRead + j + 1
    BY <1>1, <1>2, <1>4, <2>1
  <2>3. i \in position + 1 .. position + n /\ ptr + (i - position) - 1 = j
    BY <1>1, <1>5, <2>1
  <2> HIDE DEF i, j
  <2>4. target'[i] = BufferAt(j)
    BY <1>1, <1>3, <2>3, WrittenAppends
  <2>5. BufferAt(j) = vector[cursor - totalRead + j + 1]
    <3>1. j \in Int /\ j - 0 = j
      BY <2>2
    <3> QED
      BY <1>2, <2>2, <3>1 DEF BufferAt, BufferHolds
  <2> QED
    BY <1>1, <2>2, <2>4, <2>5 DEF i
<1>8. /\ Len(target') = Len(target) + n
      /\ \A i \in 1 .. Len(target) : target'[i] = target[i]
  BY <1>1, <1>3, WrittenAppends
<1>9. Embedded(m + n - skip)'
  BY <1>1, <1>2, <1>3, <1>4, <1>5, <1>7, <1>8, EmbeddedExtends
<1> QED
  BY <1>6, <1>9 DEF Embedded

LEMMA WriteGrowthInv == ASSUME GrowthInv, NEW n \in 1 .. len, Write(n) PROVE GrowthInv'
<1>1. /\ Active /\ pc = "write" /\ pc' = "write" /\ result = "ok"
      /\ UNCHANGED <<backing, vector, toRead, cursor, buffer, totalRead, result>>
      /\ target' = Written(target, n)
      /\ position' = position + n /\ ptr' = ptr + n /\ len' = len - n
  BY DEF GrowthInv, Write, Active, reading
<1>2. n \in Nat /\ n <= len /\ len \in Nat /\ ptr \in Int /\ position = Len(target) /\ TypeOK
  BY <1>1, ActiveFacts DEF TypeOK
<1>3. TypeOK' /\ position' = Len(target')
  <2>1. target' \in Seq(Byte \cup {Junk}) /\ Len(target') = position + n
    BY <1>1, <1>2, WrittenAppends
  <2>2. position' \in Nat /\ len' \in Nat /\ ptr' \in Int
    <3>1. position \in Nat
      BY <1>2 DEF TypeOK
    <3> QED
      BY <1>1, <1>2, <3>1
  <2> QED
    BY <1>1, <1>2, <2>1, <2>2 DEF TypeOK
<1>4. BackingGrows' /\ (cursor <= Len(backing))'
  <2>1. BackingGrows /\ cursor <= Len(backing)
    BY <1>1, ActiveFacts
  <2> QED
    BY <1>1, <2>1 DEF BackingGrows
<1>5. /\ Counted' <=> Counted
      /\ Wrapped' <=> Wrapped
  BY <1>1 DEF Counted, Wrapped
<1>6. ASSUME Counted
      PROVE  /\ (ptr + len = totalRead)' /\ (totalRead <= cursor)'
             /\ BufferHolds(0, totalRead, cursor - totalRead)'
  <2>1. /\ ptr + len = totalRead /\ totalRead <= cursor
        /\ BufferHolds(0, totalRead, cursor - totalRead)
    BY <1>1, <1>6 DEF GrowthInv
  <2>2. BufferHolds(0, totalRead, cursor - totalRead)'
    BY <1>1, <2>1 DEF BufferHolds
  <2> QED
    BY <1>1, <1>2, <2>1, <2>2
<1>7. Counted => Embedded(cursor - totalRead + Given)'
  BY WriteEmbeds
<1>8. Counted \/ Wrapped
  BY <1>1, ActiveFacts
<1>9. position' = Len(target') /\ (cursor <= Len(backing))' /\ (Counted' \/ Wrapped') /\ result' # "none"
  BY <1>1, <1>3, <1>4, <1>5, <1>8
<1>10. Counted' => /\ (ptr + len = totalRead)' /\ (totalRead <= cursor)'
                   /\ BufferHolds(0, totalRead, cursor - totalRead)'
                   /\ Embedded(cursor - totalRead + Given)'
  BY <1>5, <1>6, <1>7
<1> QED
  BY <1>1, <1>3, <1>4, <1>9, <1>10 DEF GrowthInv

(* EINTR and EAGAIN move ptr back: what follows is written once more.      *)
LEMMA WriteInterruptedGrowthInv ==
  ASSUME GrowthInv, WriteInterrupted
  PROVE  GrowthInv'
<1>1. /\ Active /\ pc = "write" /\ pc' = "write" /\ result = "ok"
      /\ UNCHANGED <<backing, target, vector, toRead, cursor, buffer, totalRead, position, result>>
      /\ ptr' = ptr - 1 /\ len' = len + 1
  BY DEF GrowthInv, WriteInterrupted, Active, files, reading
<1>2. TypeOK'
  <2>1. TypeOK
    BY <1>1, ActiveFacts
  <2>2. ptr' \in Int /\ len' \in Nat
    BY <1>1, <2>1 DEF TypeOK
  <2> QED
    BY <1>1, <2>1, <2>2 DEF TypeOK
<1>3. /\ BackingGrows' /\ (cursor <= Len(backing))' /\ position' = Len(target')
      /\ Counted' \/ Wrapped'
      /\ Counted' <=> Counted
  BY <1>1, ActiveFacts DEF BackingGrows, Counted, Wrapped
<1>4. ASSUME Counted
      PROVE  /\ (ptr + len = totalRead)' /\ (totalRead <= cursor)'
             /\ BufferHolds(0, totalRead, cursor - totalRead)'
             /\ Embedded(cursor - totalRead + Given)'
  <2>1. /\ ptr + len = totalRead /\ totalRead <= cursor
        /\ BufferHolds(0, totalRead, cursor - totalRead)
        /\ Embedded(cursor - totalRead + Given)
    BY <1>1, <1>4 DEF GrowthInv
  <2>2. /\ cursor \in Nat /\ totalRead \in Nat /\ ptr \in Int /\ len \in Nat
    BY <1>1, ActiveFacts DEF TypeOK
  <2>3. /\ cursor - totalRead + Given \in Nat
        /\ (cursor - totalRead + Given)' \in 0 .. cursor - totalRead + Given
    BY <1>1, <2>1, <2>2 DEF Given
  <2>4. PICK m \in 0 .. cursor - totalRead + Given : m = (cursor - totalRead + Given)'
    BY <2>3
  <2>5. Embedded(cursor - totalRead + Given)'
    <3>1. Embedded(m)
      BY <2>1, <2>3, EmbeddedLess
    <3>2. Embedded(m)'
      BY <1>1, <3>1, EmbeddedKept
    <3> QED
      BY <2>4, <3>2 DEF Embedded
  <2>6. BufferHolds(0, totalRead, cursor - totalRead)'
    BY <1>1, <2>1 DEF BufferHolds
  <2> QED
    BY <1>1, <2>1, <2>2, <2>5, <2>6
<1> QED
  BY <1>1, <1>2, <1>3, <1>4 DEF GrowthInv

LEMMA WriteFailsGrowthInv == ASSUME GrowthInv, WriteFails PROVE GrowthInv'
<1>1. /\ Active /\ pc' = "iterate" /\ result' = "error"
      /\ UNCHANGED <<files, vector, reading, writing>>
  BY DEF WriteFails, Active
<1>2. TypeOK'
  BY <1>1, ActiveFacts DEF TypeOK, files, reading, writing
<1>3. /\ BackingGrows' /\ (cursor <= Len(backing))' /\ position' = Len(target')
      /\ Counted' \/ Wrapped'
  BY <1>1, ActiveFacts DEF BackingGrows, Counted, Wrapped, files, reading, writing
<1> QED
  BY <1>1, <1>2, <1>3 DEF GrowthInv

LEMMA ChunkWrittenGrowthInv == ASSUME GrowthInv, ChunkWritten PROVE GrowthInv'
<1>1. /\ Active /\ pc = "write" /\ len = 0 /\ pc' = "iterate"
      /\ UNCHANGED <<files, vector, reading, writing, result>>
  BY DEF ChunkWritten, Active
<1>2. TypeOK'
  BY <1>1, ActiveFacts DEF TypeOK, files, reading, writing
<1>3. /\ BackingGrows' /\ (cursor <= Len(backing))' /\ position' = Len(target')
      /\ Counted' \/ Wrapped'
      /\ Counted' <=> Counted
      /\ result' # "none"
  BY <1>1, ActiveFacts DEF BackingGrows, Counted, Wrapped, files, reading, writing
<1>4. ASSUME Counted PROVE Embedded(cursor)'
  <2>1. ptr = totalRead /\ Embedded(cursor - totalRead + Given)
    BY <1>1, <1>4, ActiveFacts DEF GrowthInv, TypeOK
  <2>2. cursor - totalRead + Given = cursor
    BY <1>1, <2>1, ActiveFacts DEF Given
  <2>3. Embedded(cursor)
    BY <2>1, <2>2
  <2> QED
    BY <1>1, <2>3 DEF Embedded, files, reading
<1> QED
  BY <1>1, <1>2, <1>3, <1>4 DEF GrowthInv

(* More bytes behind the vector's: never a file of more than SizeMax.      *)
LEMMA GrowGrowthInv == ASSUME GrowthInv, NEW byte \in Byte, Grow(byte) PROVE GrowthInv'
<1>1. /\ pc' = pc /\ backing' = Append(backing, byte) /\ Len(backing) < MaxLength
      /\ pc \in {"ready", "iterate", "pread", "write"}
      /\ UNCHANGED <<target, vector, reading, writing, result>>
  BY DEF Grow, InUse, GrowthInv, TypeOK
<1>2. TypeOK /\ BackingGrows
  BY <1>1 DEF GrowthInv, Active
<1>3. /\ backing' \in Seq(Byte) /\ Len(backing') = Len(backing) + 1 /\ Len(backing) \in Nat
      /\ \A i \in 1 .. Len(backing) : backing'[i] = backing[i]
  BY <1>1, <1>2 DEF TypeOK
<1>4. TypeOK'
  BY <1>1, <1>2, <1>3 DEF TypeOK, reading, writing
<1>5. BackingGrows'
  BY <1>1, <1>2, <1>3, NumbersAssumption DEF BackingGrows, TypeOK
<1>6. /\ cursor <= Len(backing) => (cursor <= Len(backing))'
      /\ cursor + totalRead <= Len(backing) => (cursor + totalRead <= Len(backing))'
  BY <1>1, <1>2, <1>3, NumbersAssumption DEF TypeOK, reading
<1>7. \A m : Embedded(m) => Embedded(m)'
  BY <1>1, EmbeddedKept
<1>8. \A first, last, offset :
        BufferHolds(first, last, offset) => BufferHolds(first, last, offset)'
  BY <1>1 DEF BufferHolds, reading
<1> QED
  BY <1>1, <1>4, <1>5, <1>6, <1>7, <1>8
  DEF GrowthInv, Active, Counted, Wrapped, Given, NothingLost, reading, writing

LEMMA NextGrowthInv == ASSUME GrowthInv, WholeReads, [Next]_vars PROVE GrowthInv'
<1>1. CASE Create
  BY <1>1, CreateGrowthInv
<1>2. CASE WriteToFile
  BY <1>2, WriteToFileGrowthInv
<1>3. CASE FetchChunk
  BY <1>3, FetchChunkGrowthInv
<1>4. CASE Finish
  BY <1>4, FinishGrowthInv
<1>5. CASE \E n \in 1 .. ChunkSize : Pread(n)
  BY <1>5, PreadGrowthInv
<1>6. CASE Deliver
  BY <1>6, DeliverGrowthInv
<1>7. CASE \E n \in 1 .. len : Write(n)
  BY <1>7, WriteGrowthInv
<1>8. CASE ChunkWritten
  BY <1>8, ChunkWrittenGrowthInv
<1>9. CASE OpenFails \/ PreadFails
  BY <1>9, FailsGrowthInv
<1>10. CASE WriteFails
  BY <1>10, WriteFailsGrowthInv
<1>11. CASE WriteInterrupted
  BY <1>11, WriteInterruptedGrowthInv
<1>12. CASE \E byte \in Byte : Grow(byte)
  BY <1>12, GrowGrowthInv
<1>13. CASE UNCHANGED vars
  BY <1>13, StutterGrowthInv
<1>14. ~(\E n \in 0 .. Len(backing) - 1 : Shrink(n))
  BY DEF Shrink, WholeReads
<1> QED
  BY <1>1, <1>2, <1>3, <1>4, <1>5, <1>6, <1>7, <1>8, <1>9, <1>10, <1>11,
     <1>12, <1>13, <1>14 DEF Next, Progress

(* However calls fail, are interrupted or write less than they were asked  *)
(* for, and however the file behind the vector grows: what iterate() has   *)
(* passed on is in the written file, in order, as long as toRead counts.   *)
THEOREM GrowthInvariance ==
  ASSUME WholeReads
  PROVE  Spec => []GrowthInv
<1>1. Init => GrowthInv
  BY InitGrowthInv
<1>2. GrowthInv /\ [Next]_vars => GrowthInv'
  BY NextGrowthInv
<1> QED
  BY <1>1, <1>2, PTL DEF Spec

(* When writeToFile() reports success all of the vector's bytes are in the *)
(* file, in order, whatever else is.                                       *)
THEOREM LosesNothing ==
  ASSUME WholeReads
  PROVE  Spec => []NothingLost
<1>1. GrowthInv => NothingLost
  BY DEF GrowthInv, NothingLost
<1> QED
  BY <1>1, GrowthInvariance, PTL
=============================================================================
