------------------------------- MODULE FileIO -------------------------------
(***************************************************************************)
(* File storage and descriptor I/O of src/src/byte_vector.hpp: a program   *)
(* makes a vector backed by a file (File::Create) and writes it to a file  *)
(* (writeToFile, writeToFileDescriptor), which iterates over it in chunks  *)
(* (iterate) that pread() fills (File::read) and write() empties.  Every   *)
(* system call is a step; between two of them other processes may change   *)
(* the backing file.                                                       *)
(*                                                                         *)
(* An interrupted pread() is repeated with nothing changed: a stuttering   *)
(* step.  What else the environment does is in Faults.                     *)
(***************************************************************************)
EXTENDS Integers, Sequences

CONSTANTS
  Byte,
  Zero,       \* the byte that a hole in a file reads as
  Junk,       \* stack memory that no pread() has written
  Contents,   \* what the files may hold
  ChunkSize,  \* sizeof(localBuffer) in iterate(File)
  SizeMax,    \* SIZE_MAX
  Faults,     \* what may happen: a subset of AllFaults
  MaxLength   \* bound: how long growth and interrupted calls make a file

(* What writeToFile() copes with: FileIOProofs.                            *)
BenignFaults == {"open error", "read error", "write error", "short write", "shrink"}

AllFaults == BenignFaults \cup {"short read", "write interrupted", "grow"}

ASSUME BytesAssumption    == Zero \in Byte
ASSUME ContentsAssumption == /\ Contents \subseteq Seq(Byte)
                             /\ \A c \in Contents : Len(c) <= SizeMax
ASSUME NumbersAssumption  == /\ ChunkSize \in Nat \ {0}
                             /\ SizeMax \in Nat
                             /\ MaxLength \in 0 .. SizeMax
ASSUME FaultsAssumption   == Faults \subseteq AllFaults

VARIABLES
  backing,    \* the file behind the vector
  target,     \* the file that is written
  vector,     \* the vector's bytes: those of backing when it was opened
  pc,         \* "start", "ready", "iterate", "pread", "write" or "done"
  position,   \* the file offset of target's descriptor
  toRead, cursor,  \* of iterate(File)
  buffer,     \* localBuffer of iterate(File), indexed from 0
  totalRead,  \* of File::read
  ptr, len,   \* of the lambda in writeToFileDescriptor; ptr indexes buffer
  result      \* of writeToFile: "none", "ok" or "error"

files   == <<backing, target>>
reading == <<toRead, cursor, buffer, totalRead>>
writing == <<ptr, len, position>>
vars    == <<files, vector, pc, reading, writing, result>>

May(fault) == fault \in Faults

(* size_t subtraction, which wraps around.                                 *)
SizeMinus(m, n) == IF n <= m THEN m - n ELSE m - n + SizeMax + 1

(***************************************************************************)
(* Opening.                                                                *)
(***************************************************************************)
Create ==
  /\ pc = "start"
  /\ pc' = "ready"
  /\ vector' = backing
  /\ UNCHANGED <<files, reading, writing, result>>

(* open() or fstat() fails, in File::Create or in writeToFile.             *)
OpenFails ==
  /\ May("open error")
  /\ pc \in {"start", "ready"}
  /\ pc' = "done"
  /\ result' = "error"
  /\ UNCHANGED <<files, vector, reading, writing>>

(* open(path, O_WRONLY | O_CREAT | O_TRUNC | ...), then iterate().         *)
WriteToFile ==
  /\ pc = "ready"
  /\ pc' = "iterate"
  /\ target' = <<>>
  /\ position' = 0
  /\ toRead' = Len(vector)
  /\ cursor' = 0
  /\ result' = "ok"
  /\ UNCHANGED <<backing, vector, buffer, totalRead, ptr, len>>

(***************************************************************************)
(* iterate(File) and File::read.                                           *)
(***************************************************************************)
stop == result = "error"

FetchChunkUnlessLast ==
  /\ pc = "iterate"
  /\ toRead > ChunkSize /\ ~stop
  /\ pc' = "pread"
  /\ totalRead' = 0
  /\ UNCHANGED <<files, vector, toRead, cursor, buffer, writing, result>>

FetchChunk ==
  /\ pc = "iterate"
  /\ toRead > 0 /\ ~stop
  /\ pc' = "pread"
  /\ totalRead' = 0
  /\ UNCHANGED <<files, vector, toRead, cursor, buffer, writing, result>>

(* Faulty variants stand before what they replace, as in every module.     *)
FinishUnlessLast ==
  /\ pc = "iterate"
  /\ ~(toRead > ChunkSize) \/ stop
  /\ pc' = "done"
  /\ UNCHANGED <<files, vector, reading, writing, result>>

Finish ==
  /\ pc = "iterate"
  /\ ~(toRead > 0) \/ stop
  /\ pc' = "done"
  /\ UNCHANGED <<files, vector, reading, writing, result>>

(* What pread() can still return.                                          *)
Available ==
  LET offset == cursor + totalRead
  IN  IF offset < Len(backing) THEN Len(backing) - offset ELSE 0

Wanted == ChunkSize - totalRead

(* pread(fd, bytes, len - totalRead, offset + totalRead) returns n > 0: it *)
(* has written to the start of the buffer, whatever totalRead is.          *)
Pread(n) ==
  /\ pc = "pread" /\ totalRead < ChunkSize
  /\ n \in 1 .. Available /\ n <= Wanted
  /\ n \in {Available, Wanted} \/ May("short read")
  /\ buffer' = [i \in 0 .. ChunkSize - 1 |->
                  IF i < n THEN backing[cursor + totalRead + i + 1] ELSE buffer[i]]
  /\ totalRead' = totalRead + n
  /\ UNCHANGED <<files, vector, pc, toRead, cursor, writing, result>>

DeliverUncounted ==
  /\ pc = "pread"
  /\ totalRead = ChunkSize \/ Available = 0
  /\ pc' = "write"
  /\ cursor' = cursor + totalRead
  /\ ptr' = 0
  /\ len' = totalRead
  /\ UNCHANGED <<files, vector, toRead, buffer, totalRead, position, result>>

(* File::read returns, with all it was asked for or because pread()        *)
(* returned 0; the chunk is accounted for and passed to the lambda.        *)
Deliver ==
  /\ pc = "pread"
  /\ totalRead = ChunkSize \/ Available = 0
  /\ pc' = "write"
  /\ toRead' = SizeMinus(toRead, totalRead)
  /\ cursor' = cursor + totalRead
  /\ ptr' = 0
  /\ len' = totalRead
  /\ UNCHANGED <<files, vector, buffer, totalRead, position, result>>

(* iterate() returns the error, and so does writeToFileDescriptor().       *)
PreadFails ==
  /\ May("read error")
  /\ pc = "pread" /\ totalRead < ChunkSize
  /\ pc' = "done"
  /\ result' = "error"
  /\ UNCHANGED <<files, vector, reading, writing>>

(***************************************************************************)
(* The loop around write() in writeToFileDescriptor.                       *)
(***************************************************************************)
BufferAt(i) == IF i \in 0 .. ChunkSize - 1 THEN buffer[i] ELSE Junk

(* A file after n bytes were written at the descriptor's offset.           *)
Written(file, n) ==
  [i \in 1 .. (IF Len(file) < position + n THEN position + n ELSE Len(file)) |->
     IF i \in position + 1 .. position + n THEN BufferAt(ptr + (i - position) - 1)
     ELSE IF i <= Len(file) THEN file[i]
     ELSE Zero]

WriteKeepsPointer(n) ==
  /\ pc = "write"
  /\ n \in 1 .. len
  /\ n = len \/ May("short write")
  /\ target' = Written(target, n)
  /\ position' = position + n
  /\ len' = len - n
  /\ UNCHANGED <<backing, vector, pc, reading, ptr, result>>

Write(n) ==
  /\ pc = "write"
  /\ n \in 1 .. len
  /\ n = len \/ May("short write")
  /\ target' = Written(target, n)
  /\ position' = position + n
  /\ ptr' = ptr + n
  /\ len' = len - n
  /\ UNCHANGED <<backing, vector, pc, reading, result>>

(* write() returns -1 with EINTR or EAGAIN, which goes into ptr and len.   *)
WriteInterrupted ==
  /\ May("write interrupted")
  /\ pc = "write" /\ len > 0
  /\ position + len < MaxLength
  /\ ptr' = ptr - 1
  /\ len' = len + 1
  /\ UNCHANGED <<files, vector, pc, reading, position, result>>

WriteFailsSilently ==
  /\ May("write error")
  /\ pc = "write" /\ len > 0
  /\ pc' = "iterate"
  /\ UNCHANGED <<files, vector, reading, writing, result>>

(* Any other error sets result and *stop.                                  *)
WriteFails ==
  /\ May("write error")
  /\ pc = "write" /\ len > 0
  /\ pc' = "iterate"
  /\ result' = "error"
  /\ UNCHANGED <<files, vector, reading, writing>>

ChunkWritten ==
  /\ pc = "write" /\ len = 0
  /\ pc' = "iterate"
  /\ UNCHANGED <<files, vector, reading, writing, result>>

(***************************************************************************)
(* Other processes.                                                        *)
(***************************************************************************)
InUse == pc \notin {"start", "done"}

Shrink(n) ==
  /\ May("shrink") /\ InUse
  /\ backing' = SubSeq(backing, 1, n)
  /\ UNCHANGED <<target, vector, pc, reading, writing, result>>

Grow(byte) ==
  /\ May("grow") /\ InUse
  /\ Len(backing) < MaxLength
  /\ backing' = Append(backing, byte)
  /\ UNCHANGED <<target, vector, pc, reading, writing, result>>

(***************************************************************************)
(* The specification.                                                      *)
(***************************************************************************)
Init ==
  /\ backing \in Contents /\ target \in Contents
  /\ vector = <<>>
  /\ pc = "start" /\ result = "none"
  /\ toRead = 0 /\ cursor = 0 /\ totalRead = 0
  /\ buffer = [i \in 0 .. ChunkSize - 1 |-> Junk]
  /\ ptr = 0 /\ len = 0 /\ position = 0

(* A step that gets the program on.                                        *)
Progress ==
  \/ Create
  \/ WriteToFile
  \/ FetchChunk \/ Finish
  \/ \E n \in 1 .. ChunkSize : Pread(n)
  \/ Deliver
  \/ \E n \in 1 .. len : Write(n)
  \/ ChunkWritten

Next ==
  \/ Progress
  \/ OpenFails \/ PreadFails \/ WriteFails
  \/ WriteInterrupted
  \/ \E n \in 0 .. Len(backing) - 1 : Shrink(n)
  \/ \E byte \in Byte : Grow(byte)

Spec == Init /\ [][Next]_vars

(* The program runs, and its system calls return: interruptions end.       *)
FairSpec == Spec /\ WF_vars(Progress)

(***************************************************************************)
(* Properties.                                                             *)
(***************************************************************************)
Active == pc \in {"iterate", "pread", "write"}

(* Where writeToFile() is, to its caller.                                  *)
Status == IF Active THEN "writing" ELSE IF result = "none" THEN "idle" ELSE result

(* The written file fills up with the vector's bytes from the front and    *)
(* holds all of them when writeToFile() returns success: "Write the byte   *)
(* vector's contents to a file".                                           *)
Abs == INSTANCE FileCopy WITH file <- target, status <- Status

Implements == Abs!Spec

(* What writeToFile() has written is the vector's, as far as it got.       *)
WritesPrefix ==
  Active \/ result = "ok" =>
    /\ Len(target) <= Len(vector)
    /\ \A i \in 1 .. Len(target) : target[i] = vector[i]

(* The first m bytes of the vector are in the file, in order.              *)
Embedded(m) ==
  \E place \in [1 .. m -> 1 .. Len(target)] :
    /\ \A i, j \in 1 .. m : i < j => place[i] < place[j]
    /\ \A i \in 1 .. m : target[place[i]] = vector[i]

(* Whatever interruptions and a growing file add to what is written, when  *)
(* writeToFile() reports success the vector's bytes are all there, in      *)
(* order: no chunk is skipped, cut short, or lost with an error.           *)
NothingLost == pc = "done" /\ result = "ok" => Embedded(Len(vector))

(* writeToFile() returns: the two loops end together, however the calls    *)
(* split the bytes.  Only when another process has truncated the backing   *)
(* file they may not: iterate() then asks for its end again and again.     *)
TerminatesUnlessTruncated == Active ~> (pc = "done" \/ Len(backing) < Len(vector))

(* What is left to do before toRead changes: it does after a pread().      *)
LeftOfChunk ==
  CASE pc = "write" -> ChunkSize + 2 + len
    [] pc = "iterate" -> ChunkSize + 1
    [] pc = "pread" -> ChunkSize - totalRead
    [] OTHER -> -1

(* Until then every step but those of other processes gets writeToFile()   *)
(* on: fewer bytes are left to read, or less is left to do for the chunk.  *)
Advances ==
  [][Active /\ Len(vector) <= Len(backing) /\ UNCHANGED backing =>
       \/ toRead' < toRead
       \/ toRead' = toRead /\ LeftOfChunk' < LeftOfChunk]_vars

(***************************************************************************)
(* The inductive invariant, for BenignFaults.                              *)
(***************************************************************************)
TypeOK ==
  /\ backing \in Seq(Byte) /\ vector \in Seq(Byte)
  /\ target \in Seq(Byte \cup {Junk})
  /\ pc \in {"start", "ready", "iterate", "pread", "write", "done"}
  /\ result \in {"none", "ok", "error"}
  /\ toRead \in Nat /\ cursor \in Nat /\ totalRead \in 0 .. ChunkSize
  /\ buffer \in [0 .. ChunkSize - 1 -> Byte \cup {Junk}]
  /\ position \in Nat /\ len \in Nat /\ ptr \in Int

(* What other processes have left of the backing file is the vector's.     *)
BackingHolds ==
  /\ Len(backing) <= Len(vector) /\ Len(vector) <= SizeMax
  /\ \A i \in 1 .. Len(backing) : backing[i] = vector[i]

(* What is written is the beginning of the vector: up to cursor, but for   *)
(* the len bytes still in the buffer.                                      *)
Copied ==
  /\ result # "none"
  /\ BackingHolds
  /\ position = Len(target)
  /\ cursor + toRead = Len(vector)
  /\ position <= cursor
  /\ \A i \in 1 .. position : target[i] = vector[i]

BufferHolds(first, last, offset) ==
  \A i \in first .. last - 1 : buffer[i] = vector[offset + (i - first) + 1]

IInv ==
  /\ TypeOK
  /\ pc = "start" => result = "none" /\ backing \in Contents
  /\ pc = "ready" => result = "none" /\ BackingHolds
  /\ Active => Copied
  /\ pc = "iterate" /\ result = "ok" => position = cursor
  /\ pc = "pread" => /\ result = "ok" /\ position = cursor
                     /\ 0 < toRead
                     /\ totalRead \in {0, ChunkSize} \/ Available = 0
                     /\ totalRead <= toRead
                     /\ BufferHolds(0, totalRead, cursor)
  /\ pc = "write" => /\ result = "ok" /\ position = cursor - len
                     /\ 0 <= ptr /\ ptr + len <= ChunkSize
                     /\ BufferHolds(ptr, ptr + len, position)
  /\ pc = "done" => /\ result # "none"
                    /\ result = "ok" => target = vector

(***************************************************************************)
(* The inductive invariant for faults that repeat or add bytes: a file     *)
(* that grows, and interrupted calls.                                      *)
(***************************************************************************)

(* What the vector was made of is still there, maybe with more after it.   *)
BackingGrows ==
  /\ Len(vector) <= Len(backing) /\ Len(backing) <= SizeMax
  /\ \A i \in 1 .. Len(vector) : backing[i] = vector[i]

(* toRead has not wrapped around.  Once it has, iterate() cannot come to   *)
(* its end again: that is more than SizeMax bytes away.                    *)
Counted == cursor + toRead = Len(vector)

Wrapped == cursor + toRead = Len(vector) + SizeMax + 1

(* The first byte of the chunk that write() has not been given yet.  ptr   *)
(* is negative when interruptions moved it out of the buffer.              *)
Given == IF ptr < 0 THEN 0 ELSE ptr

(* Everything before the current chunk is in the written file, and of the  *)
(* chunk what ptr has passed.  A chunk that File::read() has filled in     *)
(* more than one pread() is wrong, but also longer than toRead.            *)
GrowthInv ==
  /\ TypeOK
  /\ pc = "start" => result = "none" /\ backing \in Contents
  /\ pc = "ready" => result = "none" /\ BackingGrows
  /\ Active => /\ result # "none" /\ BackingGrows
               /\ position = Len(target)
               /\ Counted \/ Wrapped
               /\ cursor <= Len(backing)
  /\ pc = "iterate" /\ result = "ok" /\ Counted => Embedded(cursor)
  /\ pc = "pread" =>
       /\ result = "ok" /\ cursor + totalRead <= Len(backing)
       /\ Counted => /\ 0 < toRead /\ Embedded(cursor)
                     /\ totalRead \in {0, ChunkSize} \/ toRead <= totalRead
                     /\ totalRead <= toRead => BufferHolds(0, totalRead, cursor)
  /\ pc = "write" =>
       /\ result = "ok"
       /\ Counted => /\ ptr + len = totalRead /\ totalRead <= cursor
                     /\ BufferHolds(0, totalRead, cursor - totalRead)
                     /\ Embedded(cursor - totalRead + Given)
  /\ pc = "done" => result # "none" /\ NothingLost
=============================================================================
