------------------------- MODULE NSDataGatherProofs -------------------------
(***************************************************************************)
(* toNSData() in NSDataBridge gathers the bytes of its vector, from left   *)
(* to right, and returns all of them.                                      *)
(***************************************************************************)
EXTENDS NSDataContentsProofs

(***************************************************************************)
(* The bytes in front of the chunk at which a call is.                     *)
(***************************************************************************)
Contents(items) == [i \in DOMAIN items |-> BytesOf(items[i])]

ChunksBefore(item, n) == FlattenSeq(SubSeq(item.chunks, 1, n - 1))

Before(items, i, n) ==
  FlattenSeq(SubSeq(Contents(items), 1, i - 1))
    \o (IF i <= Len(items) THEN ChunksBefore(items[i], n) ELSE <<>>)

LEMMA VectorBytesAre ==
  ASSUME NEW v
  PROVE  VectorBytes(v) = FlattenSeq(Contents(vector[v]))
BY DEF VectorBytes, Contents

LEMMA ItemBytes ==
  ASSUME NEW item \in Item, Plain(item)
  PROVE  /\ item.chunks \in Seq(Seq(Nat)) /\ BytesOf(item) \in Seq(Nat)
         /\ ~item.view => BytesOf(item) = FlattenSeq(item.chunks)
         /\ item.view => /\ Len(item.chunks) = 1
                         /\ BytesOf(item) = SubSeq(item.chunks[1], item.offset + 1,
                                                   item.offset + item.length)
<1>1. /\ item.chunks \in Seq(Seq(Nat)) /\ FlattenSeq(item.chunks) \in Seq(Nat)
      /\ item.offset \in Nat /\ item.length \in Nat
  BY FlattenAll DEF Item
<1>2. CASE ~item.view
  BY <1>1, <1>2 DEF BytesOf
<1>3. CASE item.view
  <2>1. /\ Len(item.chunks) = 1 /\ item.chunks[1] \in Seq(Nat)
        /\ item.offset + item.length <= Len(item.chunks[1])
    BY <1>1, <1>3 DEF Plain, InOneChunk
  <2>2. FlattenSeq(item.chunks) = item.chunks[1]
    BY <1>1, <2>1, FlattenOne
  <2>3. BytesOf(item) = SubSeq(item.chunks[1], item.offset + 1, item.offset + item.length)
    BY <1>3, <2>2 DEF BytesOf
  <2>4. SubSeq(item.chunks[1], item.offset + 1, item.offset + item.length) \in Seq(Nat)
    <3>1. ASSUME NEW chunk \in Seq(Nat), NEW m \in Nat, NEW n \in Nat, m + n <= Len(chunk)
          PROVE  SubSeq(chunk, m + 1, m + n) \in Seq(Nat)
      BY <3>1
    <3> QED
      BY <1>1, <2>1, <3>1
  <2> QED
    BY <1>1, <1>3, <2>1, <2>3, <2>4
<1> QED
  BY <1>2, <1>3

LEMMA ContentsAreBytes ==
  ASSUME NEW items \in Seq(Item), \A i \in DOMAIN items : Plain(items[i])
  PROVE  Contents(items) \in Seq(Seq(Nat)) /\ Len(Contents(items)) = Len(items)
<1>1. \A i \in 1 .. Len(items) : BytesOf(items[i]) \in Seq(Nat)
  BY ItemBytes
<1>2. Contents(items) = [i \in 1 .. Len(items) |-> BytesOf(items[i])] /\ Len(items) \in Nat
  BY DEF Contents
<1> QED
  BY <1>1, <1>2

(* What is passed on of the chunk n of a storage value.                    *)
PassedOf(item, n) ==
  IF item.view THEN SubSeq(item.chunks[n], item.offset + 1, item.offset + item.length)
  ELSE item.chunks[n]

LEMMA ChunksBeforeNext ==
  ASSUME NEW item \in Item, Plain(item), NEW n \in DOMAIN item.chunks
  PROVE  /\ PassedOf(item, n) \in Seq(Nat)
         /\ ChunksBefore(item, n) \in Seq(Nat)
         /\ n < Len(item.chunks) =>
              ChunksBefore(item, n + 1) = ChunksBefore(item, n) \o PassedOf(item, n)
         /\ ~(n < Len(item.chunks)) =>
              BytesOf(item) = ChunksBefore(item, n) \o PassedOf(item, n)
<1> DEFINE chunks == item.chunks
<1>1. /\ chunks \in Seq(Seq(Nat)) /\ Len(chunks) \in Nat /\ n \in 1 .. Len(chunks)
      /\ BytesOf(item) \in Seq(Nat)
  BY ItemBytes
<1>2. ChunksBefore(item, n) \in Seq(Nat)
  <2>1. n - 1 \in 0 .. Len(chunks)
    BY <1>1
  <2>2. FlattenSeq(SubSeq(chunks, 1, n - 1)) \in Seq(Nat)
    BY <1>1, <2>1, FlattenPart
  <2> QED
    BY <2>2 DEF ChunksBefore
<1>3. CASE item.view
  <2>1. /\ Len(chunks) = 1 /\ n = 1
        /\ BytesOf(item) = PassedOf(item, 1)
    BY <1>1, <1>3, ItemBytes DEF PassedOf
  <2>2. ChunksBefore(item, 1) = <<>>
    BY <1>1, FlattenNothing DEF ChunksBefore
  <2>3. <<>> \o BytesOf(item) = BytesOf(item)
    BY <1>1, ConcatEmptySeq
  <2>4. /\ PassedOf(item, n) = BytesOf(item) /\ ~(n < Len(chunks))
        /\ ChunksBefore(item, n) = <<>>
    BY <2>1, <2>2
  <2> QED
    BY <1>1, <1>2, <2>3, <2>4
<1>4. CASE ~item.view
  <2>1. PassedOf(item, n) = chunks[n] /\ chunks[n] \in Seq(Nat)
    BY <1>1, <1>4 DEF PassedOf
  <2>2. FlattenSeq(SubSeq(chunks, 1, n)) = ChunksBefore(item, n) \o PassedOf(item, n)
    BY <1>1, <2>1, FlattenNext DEF ChunksBefore
  <2>3. ChunksBefore(item, n + 1) = FlattenSeq(SubSeq(chunks, 1, n))
    <3>1. (n + 1) - 1 = n
      BY <1>1
    <3> QED
      BY <3>1 DEF ChunksBefore
  <2>4. ~(n < Len(chunks)) => FlattenSeq(SubSeq(chunks, 1, n)) = BytesOf(item)
    <3>1. ~(n < Len(chunks)) => n = Len(chunks)
      BY <1>1
    <3>2. SubSeq(chunks, 1, Len(chunks)) = chunks /\ BytesOf(item) = FlattenSeq(chunks)
      BY <1>1, <1>4, ItemBytes
    <3> QED
      BY <3>1, <3>2
  <2> QED
    BY <1>2, <2>1, <2>2, <2>3, <2>4
<1> QED
  BY <1>3, <1>4

(* A vector's storage values, and what is in front of one of them.         *)
LEMMA ContentsBefore ==
  ASSUME NEW items \in Seq(Item), \A i \in DOMAIN items : Plain(items[i]),
         NEW i \in DOMAIN items
  PROVE  LET before == FlattenSeq(SubSeq(Contents(items), 1, i - 1))
         IN  /\ before \in Seq(Nat)
             /\ FlattenSeq(SubSeq(Contents(items), 1, i)) = before \o BytesOf(items[i])
             /\ FlattenSeq(SubSeq(Contents(items), 1, i)) \in Seq(Nat)
<1> DEFINE contents == Contents(items)
<1>1. contents \in Seq(Seq(Nat)) /\ Len(contents) = Len(items)
  BY ContentsAreBytes
<1>2. contents[i] = BytesOf(items[i])
  BY DEF Contents
<1>3. i \in 1 .. Len(contents) /\ i - 1 \in 0 .. Len(contents) /\ i \in 0 .. Len(contents)
  <2>1. i \in 1 .. Len(items) /\ Len(items) \in Nat
    OBVIOUS
  <2> QED
    BY <1>1, <2>1
<1> HIDE DEF contents
<1>4. FlattenSeq(SubSeq(contents, 1, i)) = FlattenSeq(SubSeq(contents, 1, i - 1)) \o contents[i]
  BY <1>1, <1>3, FlattenNext
<1>5. /\ FlattenSeq(SubSeq(contents, 1, i - 1)) \in Seq(Nat)
      /\ FlattenSeq(SubSeq(contents, 1, i)) \in Seq(Nat)
  BY <1>1, <1>3, FlattenPart
<1> QED
  BY <1>2, <1>4, <1>5 DEF contents

LEMMA BeforeFirst ==
  ASSUME NEW items \in Seq(Item)
  PROVE  Before(items, 1, 1) = <<>>
<1>1. FlattenSeq(SubSeq(Contents(items), 1, 1 - 1)) = <<>>
  <2>1. 1 - 1 = 0
    OBVIOUS
  <2> QED
    BY <2>1, FlattenNothing
<1>2. \A item : ChunksBefore(item, 1) = <<>>
  <2>1. 1 - 1 = 0
    OBVIOUS
  <2> QED
    BY <2>1, FlattenNothing DEF ChunksBefore
<1>3. <<>> \o <<>> = <<>>
  OBVIOUS
<1> QED
  BY <1>1, <1>2, <1>3 DEF Before

(* At a storage value, before any of its chunks.                           *)
LEMMA BeforeItem ==
  ASSUME NEW items \in Seq(Item), \A i \in DOMAIN items : Plain(items[i]),
         NEW i \in DOMAIN items, NEW j, j = i + 1
  PROVE  Before(items, j, 1) = FlattenSeq(SubSeq(Contents(items), 1, i))
<1>1. j - 1 = i
  OBVIOUS
<1>2. ChunksBefore(items[j], 1) = <<>>
  <2>1. 1 - 1 = 0
    OBVIOUS
  <2> QED
    BY <2>1, FlattenNothing DEF ChunksBefore
<1>3. FlattenSeq(SubSeq(Contents(items), 1, i)) \in Seq(Nat)
  BY ContentsBefore
<1>4. Before(items, j, 1) = FlattenSeq(SubSeq(Contents(items), 1, i)) \o <<>>
  BY <1>1, <1>2 DEF Before
<1> DEFINE bytes == FlattenSeq(SubSeq(Contents(items), 1, i))
<1>5. bytes \o <<>> = bytes
  <2>1. bytes \in Seq(Nat)
    BY <1>3
  <2> HIDE DEF bytes
  <2> QED
    BY <2>1
<1> QED
  BY <1>4, <1>5

(* What one chunk adds.                                                    *)
LEMMA BeforeNext ==
  ASSUME NEW items \in Seq(Item), \A i \in DOMAIN items : Plain(items[i]),
         NEW i \in DOMAIN items, NEW n \in DOMAIN items[i].chunks,
         NEW next, next = Before(items, i, n) \o PassedOf(items[i], n)
  PROVE  /\ Before(items, i, n) \in Seq(Nat)
         /\ n < Len(items[i].chunks) => Before(items, i, n + 1) = next
         /\ ~(n < Len(items[i].chunks)) => Before(items, i + 1, 1) = next
<1> DEFINE before == FlattenSeq(SubSeq(Contents(items), 1, i - 1))
           chunks == ChunksBefore(items[i], n)
           passed == PassedOf(items[i], n)
<1>1. i <= Len(items) /\ items[i] \in Item /\ Plain(items[i])
  OBVIOUS
<1>2. before \in Seq(Nat) /\ chunks \in Seq(Nat) /\ passed \in Seq(Nat)
  BY <1>1, ContentsBefore, ChunksBeforeNext
<1>3. /\ Before(items, i, n) = before \o chunks
      /\ Before(items, i, n) \in Seq(Nat)
  <2>1. Before(items, i, n) = before \o chunks
    BY <1>1 DEF Before
  <2> QED
    BY <1>2, <2>1, ConcatProperties
<1>4. next = before \o (chunks \o passed)
  <2>1. Joined(Before(items, i, n), before, chunks) /\ Joined(next, Before(items, i, n), passed)
    BY <1>3 DEF Joined
  <2>2. PICK rest : Joined(rest, chunks, passed)
    BY DEF Joined
  <2> HIDE DEF before, chunks, passed
  <2>3. Joined(next, before, rest)
    BY <1>2, <2>1, <2>2, JoinedAssociative
  <2> QED
    BY <2>2, <2>3 DEF Joined
<1>5. ASSUME n < Len(items[i].chunks) PROVE Before(items, i, n + 1) = next
  <2>1. ChunksBefore(items[i], n + 1) = chunks \o passed
    BY <1>1, <1>5, ChunksBeforeNext
  <2> QED
    BY <1>1, <1>3, <1>4, <2>1 DEF Before
<1>6. ASSUME ~(n < Len(items[i].chunks)) PROVE Before(items, i + 1, 1) = next
  <2>1. BytesOf(items[i]) = chunks \o passed
    BY <1>1, <1>6, ChunksBeforeNext
  <2>2. FlattenSeq(SubSeq(Contents(items), 1, i)) = before \o BytesOf(items[i])
    BY ContentsBefore
  <2>3. PICK j : j = i + 1
    OBVIOUS
  <2>4. Before(items, j, 1) = FlattenSeq(SubSeq(Contents(items), 1, i))
    BY <2>3, BeforeItem
  <2> QED
    BY <1>3, <1>4, <2>1, <2>2, <2>3, <2>4
<1> QED
  BY <1>3, <1>4, <1>5, <1>6

LEMMA PrefixIfExtends ==
  ASSUME NEW S, NEW a \in Seq(S), NEW b \in Seq(S)
  PROVE  IsPrefix(a, a \o b)
<1>1. Len(a) <= Len(a \o b)
  OBVIOUS
<1>2. SubSeq(a \o b, 1, Len(a)) = SubSeq(a, 1, Len(a))
  OBVIOUS
<1> QED
  BY <1>1, <1>2 DEF IsPrefix

LEMMA ChunksBeforePrefix ==
  ASSUME NEW item \in Item, Plain(item), NEW n \in DOMAIN item.chunks
  PROVE  \E rest \in Seq(Nat) : BytesOf(item) = ChunksBefore(item, n) \o rest
<1> DEFINE chunks == item.chunks
<1>1. /\ chunks \in Seq(Seq(Nat)) /\ Len(chunks) \in Nat /\ n \in 1 .. Len(chunks)
      /\ BytesOf(item) \in Seq(Nat)
  BY ItemBytes
<1>2. CASE item.view
  <2>1. n = 1 /\ <<>> \o BytesOf(item) = BytesOf(item)
    BY <1>1, <1>2, ItemBytes, ConcatEmptySeq
  <2>2. ChunksBefore(item, 1) = <<>>
    BY <1>1, FlattenNothing DEF ChunksBefore
  <2> QED
    BY <1>1, <2>1, <2>2
<1>3. CASE ~item.view
  <2>1. n - 1 \in 0 .. Len(chunks) /\ BytesOf(item) = FlattenSeq(chunks)
    BY <1>1, <1>3, ItemBytes
  <2>2. PICK m \in 0 .. Len(chunks) : m = n - 1
    BY <2>1
  <2>3. \E rest \in Seq(Nat) : FlattenSeq(chunks) = FlattenSeq(SubSeq(chunks, 1, m)) \o rest
    <3> HIDE DEF chunks
    <3> QED
      BY <1>1, FlattenPrefix
  <2>4. ChunksBefore(item, n) = FlattenSeq(SubSeq(chunks, 1, m))
    BY <2>2 DEF ChunksBefore
  <2> QED
    BY <2>1, <2>3, <2>4
<1> QED
  BY <1>2, <1>3

LEMMA BeforeIsPrefix ==
  ASSUME NEW items \in Seq(Item), \A i \in DOMAIN items : Plain(items[i]),
         NEW i \in DOMAIN items, NEW n \in DOMAIN items[i].chunks
  PROVE  IsPrefix(Before(items, i, n), FlattenSeq(Contents(items)))
<1> DEFINE contents == Contents(items)
           before == FlattenSeq(SubSeq(contents, 1, i - 1))
           chunks == ChunksBefore(items[i], n)
<1>1. i <= Len(items) /\ items[i] \in Item /\ Plain(items[i])
  OBVIOUS
<1>2. before \in Seq(Nat) /\ chunks \in Seq(Nat) /\ BytesOf(items[i]) \in Seq(Nat)
  BY <1>1, ContentsBefore, ChunksBeforeNext, ItemBytes
<1>3. Before(items, i, n) = before \o chunks
  BY <1>1 DEF Before
<1>4. PICK rest \in Seq(Nat) : BytesOf(items[i]) = chunks \o rest
  BY <1>1, ChunksBeforePrefix
<1>5. PICK more \in Seq(Nat) :
        FlattenSeq(contents) = FlattenSeq(SubSeq(contents, 1, i)) \o more
  <2>1. contents \in Seq(Seq(Nat)) /\ i \in 0 .. Len(contents)
    BY ContentsAreBytes
  <2> HIDE DEF contents
  <2> QED
    BY <2>1, FlattenPrefix
<1>6. FlattenSeq(SubSeq(contents, 1, i)) = before \o BytesOf(items[i])
  BY ContentsBefore
<1>7. PICK tail, later : Joined(tail, BytesOf(items[i]), more) /\ Joined(later, rest, more)
  BY DEF Joined
<1> HIDE DEF before, chunks
<1>8. later \in Seq(Nat) /\ before \o chunks \in Seq(Nat)
  BY <1>2, <1>7 DEF Joined
<1>9. Joined(FlattenSeq(contents), before, tail)
  <2>1. /\ Joined(FlattenSeq(contents), FlattenSeq(SubSeq(contents, 1, i)), more)
        /\ Joined(FlattenSeq(SubSeq(contents, 1, i)), before, BytesOf(items[i]))
    BY <1>5, <1>6 DEF Joined
  <2> QED
    BY <1>2, <1>7, <2>1, JoinedAssociative
<1>10. Joined(tail, chunks, later)
  <2>1. Joined(BytesOf(items[i]), chunks, rest)
    BY <1>4 DEF Joined
  <2> QED
    BY <1>2, <1>7, <2>1, JoinedAssociative
<1>11. Joined(FlattenSeq(contents), before \o chunks, later)
  <2>1. Joined(before \o chunks, before, chunks)
    BY DEF Joined
  <2> QED
    BY <1>2, <1>8, <1>9, <1>10, <2>1, JoinedAssociative
<1>12. PICK a \in Seq(Nat), b \in Seq(Nat) : a = before \o chunks /\ b = later
  BY <1>8
<1>13. IsPrefix(a, a \o b)
  BY PrefixIfExtends
<1> QED
  BY <1>3, <1>11, <1>12, <1>13 DEF Joined

LEMMA BeforeAll ==
  ASSUME NEW items \in Seq(Item), \A i \in DOMAIN items : Plain(items[i]),
         NEW i \in Nat, i = Len(items) + 1, NEW n
  PROVE  /\ Before(items, i, n) = FlattenSeq(Contents(items))
         /\ FlattenSeq(Contents(items)) \in Seq(Nat)
<1> DEFINE contents == Contents(items)
           bytes == FlattenSeq(contents)
<1>1. contents \in Seq(Seq(Nat)) /\ Len(contents) = Len(items) /\ Len(items) \in Nat
  BY ContentsAreBytes
<1>2. i - 1 = Len(contents) /\ ~(i <= Len(items))
  BY <1>1
<1>3. Before(items, i, n) = FlattenSeq(SubSeq(contents, 1, Len(contents))) \o <<>>
  BY <1>2 DEF Before
<1>4. FlattenSeq(SubSeq(contents, 1, Len(contents))) = bytes /\ bytes \in Seq(Nat)
  <2> HIDE DEF contents
  <2> QED
    BY <1>1, FlattenAll
<1>5. bytes \o <<>> = bytes
  <2> HIDE DEF bytes
  <2> QED
    BY <1>4
<1> QED
  BY <1>3, <1>4, <1>5

(***************************************************************************)
(* What toNSData has gathered, and what it returns.                        *)
(***************************************************************************)
Reads == {"iterate", "deliver", "fail"}
Puts == {"put", "release", "store"}

GathersData(t) ==
  <<t, "data">> \in DOMAIN heap.ref => object[heap.ref[<<t, "data">>]].kind \in {"data", "chunkData"}

GathersFromFront(t) ==
  LET c == call[t]
      items == vector[c.vector]
  IN  pc[t] \in Reads /\ ~c.lost =>
        /\ Iterating(c) /\ c.item <= Len(items) + 1
        /\ DataBytes(t) = Before(items, c.item, c.chunk)

ReturnsAll(t) ==
  LET c == call[t]
      result == heap.ref[<<t, "returnValue">>]
  IN  pc[t] \in Puts /\ c.vector # NULL /\ ~c.lost /\ <<t, "returnValue">> \in DOMAIN heap.ref =>
        /\ object[result].kind # "mutableData"
        /\ object[result].bytes = FlattenSeq(Contents(vector[c.vector]))

GInv == \A t \in Thread : GathersData(t) /\ GathersFromFront(t) /\ ReturnsAll(t)

LEMMA LocalKept ==
  ASSUME IInv, NEW S, StepKeeps(S), NEW u \in Thread, NEW name, <<u, name>> \notin S
  PROVE  /\ <<u, name>> \in DOMAIN heap'.ref <=> <<u, name>> \in DOMAIN heap.ref
         /\ <<u, name>> \in DOMAIN heap.ref =>
              LET o == heap.ref[<<u, name>>]
              IN  /\ heap'.ref[<<u, name>>] = o /\ object'[o].kind = object[o].kind
                  /\ object[o].kind # "mutableData" \/ ~Shortens => object'[o].bytes = object[o].bytes
<1>1. PICK slot : slot = <<u, name>>
  OBVIOUS
<1>2. slot \notin S /\ slot \notin PointerSlots /\ slot \notin Unused \X Field
  BY <1>1, OwnersApart DEF PointerSlots, Unused
<1>3. slot \in DOMAIN heap'.ref <=> slot \in DOMAIN heap.ref
  BY <1>2 DEF StepKeeps, SameOutside
<1>4. ASSUME slot \in DOMAIN heap.ref
      PROVE  LET o == heap.ref[slot]
             IN  /\ heap'.ref[slot] = o /\ object'[o].kind = object[o].kind
                 /\ object[o].kind # "mutableData" \/ ~Shortens => object'[o].bytes = object[o].bytes
  BY <1>2, <1>4, SlotKept
<1> QED
  BY <1>1, <1>3, <1>4

LEMMA DataKept ==
  ASSUME IInv, NEW S, StepKeeps(S), NEW u \in Thread, GathersData(u), <<u, "data">> \notin S
  PROVE  GathersData(u)' /\ DataBytes(u)' = DataBytes(u)
<1>1. /\ <<u, "data">> \in DOMAIN heap'.ref <=> <<u, "data">> \in DOMAIN heap.ref
      /\ <<u, "data">> \in DOMAIN heap.ref =>
           LET o == heap.ref[<<u, "data">>]
           IN  /\ heap'.ref[<<u, "data">>] = o /\ object'[o].kind = object[o].kind
               /\ object[o].kind # "mutableData" => object'[o].bytes = object[o].bytes
  BY LocalKept
<1> QED
  BY <1>1 DEF GathersData, DataBytes

(* A step that leaves a thread's call alone, or what matters of it.        *)
LEMMA GatherKept ==
  ASSUME IInv, GInv, NEW S, StepKeeps(S), NEW u \in Thread,
         <<u, "data">> \notin S, <<u, "returnValue">> \notin S, call'[u] = call[u],
         call[u].vector \in Vector => vector'[call[u].vector] = vector[call[u].vector],
         pc'[u] \in Reads => pc[u] \in Reads, pc'[u] \in Puts => pc[u] \in Puts
  PROVE  (GathersData(u) /\ GathersFromFront(u) /\ ReturnsAll(u))'
<1>0. GathersData(u) /\ GathersFromFront(u) /\ ReturnsAll(u)
  BY DEF GInv
<1>1. GathersData(u)' /\ DataBytes(u)' = DataBytes(u)
  BY <1>0, DataKept
<1>2. PICK c, items : c = call[u] /\ items = vector[c.vector]
  OBVIOUS
<1>3. call'[u] = c /\ call[u] = c /\ (c.vector \in Vector => vector'[c.vector] = items)
  BY <1>2
<1>4. ASSUME (pc[u] \in Reads)', ~c.lost
      PROVE  (/\ Iterating(c) /\ c.item <= Len(vector[c.vector]) + 1
              /\ DataBytes(u) = Before(vector[c.vector], c.item, c.chunk))'
  <2>1. pc[u] \in Reads /\ c.vector \in Vector
    BY <1>3, <1>4 DEF IInv, CallsOK, Reads
  <2>2. /\ Iterating(c) /\ c.item <= Len(items) + 1
        /\ DataBytes(u) = Before(items, c.item, c.chunk)
    BY <1>0, <1>2, <1>4, <2>1 DEF GathersFromFront
  <2>3. Iterating(c)'
    BY <1>2, <1>3, <2>1, <2>2 DEF Iterating, ItemOf
  <2> QED
    BY <1>1, <1>3, <2>1, <2>2, <2>3
<1>5. GathersFromFront(u)'
  BY <1>3, <1>4 DEF GathersFromFront
<1>6. ASSUME (pc[u] \in Puts)', c.vector # NULL, ~c.lost, <<u, "returnValue">> \in DOMAIN heap'.ref
      PROVE  /\ object'[heap'.ref[<<u, "returnValue">>]].kind # "mutableData"
             /\ object'[heap'.ref[<<u, "returnValue">>]].bytes =
                  FlattenSeq(Contents(vector'[c.vector]))
  <2>1. pc[u] \in Puts
    BY <1>6
  <2>2. c.vector \in Vector
    BY <1>2, <1>6 DEF IInv, TypeOK, Call
  <2>3. /\ <<u, "returnValue">> \in DOMAIN heap'.ref <=> <<u, "returnValue">> \in DOMAIN heap.ref
        /\ <<u, "returnValue">> \in DOMAIN heap.ref =>
             LET o == heap.ref[<<u, "returnValue">>]
             IN  /\ heap'.ref[<<u, "returnValue">>] = o /\ object'[o].kind = object[o].kind
                 /\ object[o].kind # "mutableData" => object'[o].bytes = object[o].bytes
    BY LocalKept
  <2>4. PICK o : o = heap.ref[<<u, "returnValue">>]
    OBVIOUS
  <2>5. object[o].kind # "mutableData" /\ object[o].bytes = FlattenSeq(Contents(items))
    BY <1>0, <1>2, <1>6, <2>1, <2>3, <2>4 DEF ReturnsAll
  <2>6. heap'.ref[<<u, "returnValue">>] = o /\ object'[o].kind = object[o].kind
        /\ object'[o].bytes = object[o].bytes
    BY <1>6, <2>3, <2>4, <2>5
  <2> QED
    BY <1>3, <2>2, <2>5, <2>6
<1>7. ReturnsAll(u)'
  BY <1>3, <1>6 DEF ReturnsAll
<1> QED
  BY <1>1, <1>5, <1>7

(* A step outside of the calls.                                            *)
LEMMA OutsideGInv ==
  ASSUME IInv, GInv, NEW S, StepKeeps(S), \A u \in Thread : \A name : <<u, name>> \notin S,
         UNCHANGED <<pc, call>>,
         \A v \in Vector : Reading(v) => vector'[v] = vector[v]
  PROVE  GInv'
<1> SUFFICES ASSUME NEW u \in Thread
             PROVE  (GathersData(u) /\ GathersFromFront(u) /\ ReturnsAll(u))'
  BY DEF GInv
<1>1. call[u].vector \in Vector => vector'[call[u].vector] = vector[call[u].vector]
  BY DEF Reading
<1> QED
  BY <1>1, GatherKept

(* A step of the call of t, of which the rest is shown for t.              *)
LEMMA CallGInv ==
  ASSUME IInv, IInv', GInv, NEW t \in Thread, StepKeeps({t} \X Local), UNCHANGED vector,
         \A u \in Thread \ {t} : pc'[u] = pc[u] /\ call'[u] = call[u],
         pc'[t] \in Reads => GathersData(t)',
         GathersFromFront(t)', ReturnsAll(t)'
  PROVE  GInv'
<1>1. ASSUME NEW u \in Thread \ {t}
      PROVE  (GathersData(u) /\ GathersFromFront(u) /\ ReturnsAll(u))'
  <2> DEFINE S == {t} \X Local
  <2>1. <<u, "data">> \notin S /\ <<u, "returnValue">> \notin S
    OBVIOUS
  <2> HIDE DEF S
  <2> QED
    BY <2>1, GatherKept DEF S
<1>2. GathersData(t)'
  <2>1. CASE pc'[t] \in Reads
    BY <2>1
  <2>2. CASE pc'[t] \notin Reads
    <3>1. pc'[t] \in Place /\ "data" \in Local
      BY DEF IInv, TypeOK, Local
    <3>2. <<t, "data">> \notin DOMAIN heap'.ref
      BY <2>2, <3>1 DEF IInv, Locals, Held, Reads, Place
    <3> QED
      BY <3>2 DEF GathersData
  <2> QED
    BY <2>1, <2>2
<1> QED
  BY <1>1, <1>2 DEF GInv

(* A step of t's call that neither gathers nor returns anything.           *)
LEMMA CallKeptGInv ==
  ASSUME IInv, GInv, NEW t \in Thread, NEW name \in Local \ {"data", "returnValue"},
         StepKeeps({<<t, name>>}), UNCHANGED <<vector, call>>,
         \A u \in Thread \ {t} : pc'[u] = pc[u],
         pc'[t] \in Reads => pc[t] \in Reads, pc'[t] \in Puts => pc[t] \in Puts
  PROVE  GInv'
<1> SUFFICES ASSUME NEW u \in Thread
             PROVE  (GathersData(u) /\ GathersFromFront(u) /\ ReturnsAll(u))'
  BY DEF GInv
<1>1. PICK slot : slot = <<t, name>>
  OBVIOUS
<1>2. /\ StepKeeps({slot}) /\ <<u, "data">> \notin {slot} /\ <<u, "returnValue">> \notin {slot}
      /\ (pc'[u] \in Reads => pc[u] \in Reads) /\ (pc'[u] \in Puts => pc[u] \in Puts)
  BY <1>1
<1> QED
  BY <1>2, GatherKept

LEMMA IdleGInv ==
  ASSUME IInv, IInv', GInv, NEW t \in Thread, StepKeeps({t} \X Local), UNCHANGED vector,
         \A u \in Thread \ {t} : pc'[u] = pc[u] /\ call'[u] = call[u],
         pc'[t] = "idle"
  PROVE  GInv'
BY CallGInv DEF GathersFromFront, ReturnsAll, Reads, Puts

LEMMA ToNSDataGInv ==
  ASSUME IInv, IInv', GInv, NEW t \in Thread, NEW v \in Vector, NEW p \in Pointer, ToNSData(t, v, p)
  PROVE  GInv'
<1>1. /\ StepKeeps({t} \X Local) /\ UNCHANGED vector
      /\ \A u \in Thread \ {t} : pc'[u] = pc[u] /\ call'[u] = call[u]
      /\ pc[t] = "idle" /\ pc'[t] = "iterate" /\ heap' = heap
      /\ call'[t] = AtItem([Idle EXCEPT !.vector = v, !.pointer = p], 1)
  BY NoMemoryKeeps DEF ToNSData, At, IInv, TypeOK
<1>2. /\ call'[t].vector = v /\ call'[t].item = 1 /\ call'[t].chunk = 1
  <2>1. PICK c : c = [Idle EXCEPT !.vector = v, !.pointer = p]
    OBVIOUS
  <2>2. c \in Call /\ c.vector = v
    BY <2>1, IdleIsACall DEF Call
  <2>3. AtItem(c, 1).vector = v /\ AtItem(c, 1).item = 1 /\ AtItem(c, 1).chunk = 1
    BY <2>2 DEF AtItem, Call
  <2> QED
    BY <1>1, <2>1, <2>3
<1>3. <<t, "data">> \notin DOMAIN heap'.ref
  BY <1>1 DEF IInv, Locals, Held, Local
<1>4. Iterating(call[t])'
  BY <1>1 DEF IInv, CallsOK
<1>5. vector'[v] \in Seq(Item) /\ Before(vector'[v], 1, 1) = <<>> /\ 1 <= Len(vector'[v]) + 1
  <2>1. vector'[v] \in Seq(Item)
    BY DEF IInv, TypeOK
  <2> QED
    BY <2>1, BeforeFirst
<1>6. GathersFromFront(t)'
  BY <1>2, <1>3, <1>4, <1>5 DEF GathersFromFront, DataBytes
<1>7. GathersData(t)' /\ ReturnsAll(t)'
  BY <1>1, <1>3 DEF GathersData, ReturnsAll, Puts
<1> QED
  BY <1>1, <1>6, <1>7, CallGInv

LEMMA AssignGInv ==
  ASSUME IInv, IInv', GInv, NEW t \in Thread, NEW p \in Pointer, NEW q \in Pointer, Assign(t, p, q)
  PROVE  GInv'
<1>1. /\ StepKeeps({t} \X Local) /\ UNCHANGED vector
      /\ \A u \in Thread \ {t} : pc'[u] = pc[u] /\ call'[u] = call[u]
      /\ pc'[t] = "put"
      /\ call'[t] = [Idle EXCEPT !.pointer = p, !.source = <<q, "_target">>]
  BY NoMemoryKeeps DEF Assign, At, IInv, TypeOK
<1>2. call'[t].vector = NULL
  BY <1>1 DEF Idle
<1>3. GathersFromFront(t)' /\ ReturnsAll(t)' /\ pc'[t] \notin Reads
  BY <1>1, <1>2 DEF GathersFromFront, ReturnsAll, Reads
<1> QED
  BY <1>1, <1>3, CallGInv

(* Steps within a call that neither gather nor return anything.            *)
LEMMA CopyGInv ==
  ASSUME IInv, CInv, GInv, NEW t \in Thread,
         CopyBuffered(t) \/ CopyDirectValue(t) \/ ReadFile(t)
  PROVE  GInv'
<1>1. /\ UNCHANGED <<vector, call>> /\ pc[t] \in Reads
      /\ pc' = [pc EXCEPT ![t] = "deliver"]
  BY DEF CopyBuffered, CopyDirectValue, ReadFile, At, Reads
<1>2. /\ \A u \in Thread \ {t} : pc'[u] = pc[u]
      /\ pc'[t] = "deliver" /\ "deliver" \notin Puts
  BY <1>1 DEF IInv, TypeOK, Puts
<1>3. StepKeeps({<<t, "copy">>})
  BY CopyBufferedKeeps, PlainCopyKeeps DEF CInv, CopyDirectValue, ReadFile
<1>4. PICK name : name = "copy"
  OBVIOUS
<1>5. name \in Local \ {"data", "returnValue"} /\ StepKeeps({<<t, name>>})
  BY <1>3, <1>4 DEF Local
<1> QED
  BY <1>1, <1>2, <1>5, CallKeptGInv

LEMMA PutRetainGInv ==
  ASSUME IInv, GInv, NEW t \in Thread, PutRetain(t)
  PROVE  GInv'
<1>1. /\ UNCHANGED <<vector, call>> /\ pc[t] = "put"
      /\ pc' = [pc EXCEPT ![t] = "release"]
  BY DEF PutRetain, At
<1>2. /\ \A u \in Thread \ {t} : pc'[u] = pc[u]
      /\ pc'[t] \notin Reads /\ pc[t] \in Puts
  BY <1>1 DEF IInv, TypeOK, Puts, Reads
<1>3. PICK name : name = "target"
  OBVIOUS
<1>4. name \in Local \ {"data", "returnValue"} /\ StepKeeps({<<t, name>>})
  BY <1>3, PutRetainKeeps DEF Local
<1> QED
  BY <1>1, <1>2, <1>4, CallKeptGInv

LEMMA PutReleaseGInv ==
  ASSUME IInv, GInv, NEW t \in Thread, PutRelease(t)
  PROVE  GInv'
<1>1. /\ UNCHANGED <<vector, call>> /\ pc[t] = "release"
      /\ pc' = [pc EXCEPT ![t] = "store"]
  BY DEF PutRelease, At
<1>2. /\ \A u \in Thread \ {t} : pc'[u] = pc[u]
      /\ pc'[t] \notin Reads /\ pc[t] \in Puts
  BY <1>1 DEF IInv, TypeOK, Puts, Reads
<1>3. PICK name : name = "target"
  OBVIOUS
<1>4. name \in Local \ {"data", "returnValue"}
  BY <1>3 DEF Local
<1>5. StepKeeps({<<t, name>>})
  <2>1. StepKeeps({}) /\ {} \subseteq {<<t, name>>}
    BY PutReleaseKeeps
  <2>2. PICK S : S = {<<t, name>>}
    OBVIOUS
  <2> QED
    BY <2>1, <2>2, KeepsMore
<1> QED
  BY <1>1, <1>2, <1>4, <1>5, CallKeptGInv

LEMMA ReadFailsGInv ==
  ASSUME IInv, IInv', CInv, GInv, NEW t \in Thread, ReadFails(t)
  PROVE  GInv'
<1>1. /\ UNCHANGED vector /\ pc[t] = "iterate" /\ StepKeeps({<<t, "copy">>})
      /\ \A u \in Thread \ {t} : pc'[u] = pc[u] /\ call'[u] = call[u]
      /\ call[t].vector \in Vector /\ call[t] \in Call
  BY ReadFailsKeeps, OtherStepKeeps, InCall DEF ReadFails, At
<1>2. CASE ErrorReturned(call[t])
  <2>1. pc' = [pc EXCEPT ![t] = "fail"] /\ UNCHANGED call
    BY <1>2 DEF ReadFails
  <2>2. pc[t] \in Reads /\ pc'[t] = "fail" /\ "fail" \notin Puts
    BY <1>1, <2>1 DEF IInv, TypeOK, Reads, Puts
  <2>3. PICK name : name = "copy"
    OBVIOUS
  <2>4. name \in Local \ {"data", "returnValue"} /\ StepKeeps({<<t, name>>})
    BY <1>1, <2>3 DEF Local
  <2> QED
    BY <1>1, <2>1, <2>2, <2>4, CallKeptGInv
<1>3. CASE ~ErrorReturned(call[t])
  <2>1. call' = [call EXCEPT ![t] = AfterError(@)] /\ UNCHANGED pc
    BY <1>3 DEF ReadFails
  <2>2. call'[t].lost
    <3>1. call'[t] = AfterError(call[t])
      BY <2>1 DEF IInv, TypeOK
    <3>2. PICK c : c = [call[t] EXCEPT !.lost = TRUE]
      OBVIOUS
    <3>3. \A i : AtItem(c, i).lost
      BY <1>1, <3>2 DEF AtItem, Call
    <3> QED
      BY <3>1, <3>2, <3>3 DEF AfterError
  <2>3. GathersFromFront(t)' /\ ReturnsAll(t)'
    BY <2>2 DEF GathersFromFront, ReturnsAll
  <2>4. GathersData(t)'
    <3>1. PICK slot : slot = <<t, "copy">>
      OBVIOUS
    <3>2. StepKeeps({slot}) /\ <<t, "data">> \notin {slot}
      BY <1>1, <3>1
    <3> QED
      BY <3>2, DataKept DEF GInv
  <2>5. StepKeeps({t} \X Local)
    BY OtherStepKeeps
  <2> QED
    BY <1>1, <2>3, <2>4, <2>5, CallGInv
<1> QED
  BY <1>2, <1>3

LEMMA DoneGInv ==
  ASSUME IInv, IInv', CInv, GInv, NEW t \in Thread, ReturnError(t) \/ PutSame(t) \/ PutStore(t)
  PROVE  GInv'
<1>1. /\ StepKeeps({t} \X Local) /\ UNCHANGED vector
      /\ \A u \in Thread \ {t} : pc'[u] = pc[u] /\ call'[u] = call[u]
  BY OtherStepKeeps
<1>2. pc'[t] = "idle"
  BY DEF ReturnError, PutSame, PutStore, Return, IInv, TypeOK
<1> QED
  BY <1>1, <1>2, IdleGInv

(* What toNSData returns at the end is all that there was.                 *)
LEMMA AllGathered ==
  ASSUME IInv, GInv, NEW t \in Thread, pc[t] = "iterate", ~More(t), ~call[t].lost
  PROVE  DataBytes(t) = FlattenSeq(Contents(vector[call[t].vector]))
<1>1. PICK c, items : c = call[t] /\ items = vector[c.vector]
  OBVIOUS
<1>2. /\ c \in Call /\ c.vector \in Vector /\ c.item \in Nat
      /\ items \in Seq(Item) /\ \A i \in DOMAIN items : Plain(items[i])
  BY <1>1, InCall DEF IInv, TypeOK, PlainVectors, Call
<1>3. c.item <= Len(items) + 1 /\ DataBytes(t) = Before(items, c.item, c.chunk)
  BY <1>1 DEF GInv, GathersFromFront, Reads
<1>4. c.item = Len(items) + 1
  BY <1>1, <1>2, <1>3 DEF More
<1> QED
  BY <1>1, <1>2, <1>3, <1>4, BeforeAll

LEMMA ReturnGInv ==
  ASSUME IInv, IInv', GInv, NEW t \in Thread, StepKeeps({t} \X Local), UNCHANGED vector,
         pc[t] = "iterate", ~More(t),
         \A u \in Thread \ {t} : pc'[u] = pc[u] /\ call'[u] = call[u],
         pc'[t] = "put", call' = [call EXCEPT ![t].source = <<t, "returnValue">>],
         object'[heap'.ref[<<t, "returnValue">>]].kind # "mutableData",
         object'[heap'.ref[<<t, "returnValue">>]].bytes = DataBytes(t)
  PROVE  GInv'
<1>1. /\ call'[t].vector = call[t].vector /\ call'[t].lost = call[t].lost
  BY DEF IInv, TypeOK, Call
<1>2. PICK o : o = heap'.ref[<<t, "returnValue">>]
  OBVIOUS
<1>3. ASSUME ~call[t].lost
      PROVE  /\ object'[o].kind # "mutableData"
             /\ object'[o].bytes = FlattenSeq(Contents(vector'[call[t].vector]))
  BY <1>2, <1>3, AllGathered
<1>4. ReturnsAll(t)'
  BY <1>1, <1>2, <1>3 DEF ReturnsAll
<1>5. pc'[t] \notin Reads
  BY DEF Reads
<1>6. GathersFromFront(t)'
  BY <1>5 DEF GathersFromFront
<1> QED
  BY <1>4, <1>5, <1>6, CallGInv

LEMMA ReturnDataGInv ==
  ASSUME IInv, IInv', CInv, GInv, NEW t \in Thread, ReturnData(t)
  PROVE  GInv'
<1>1. /\ StepKeeps({t} \X Local) /\ UNCHANGED vector
      /\ \A u \in Thread \ {t} : pc'[u] = pc[u] /\ call'[u] = call[u]
      /\ pc[t] = "iterate" /\ ~More(t)
      /\ call' = [call EXCEPT ![t].source = <<t, "returnValue">>]
  BY OtherStepKeeps DEF ReturnData, At
<1>2. pc'[t] = "put"
  BY DEF ReturnData, IInv, TypeOK
<1>3. PICK o : o = heap.ref[<<t, "data">>]
  OBVIOUS
<1>4. object' = object /\ heap'.ref[<<t, "returnValue">>] = o /\ <<t, "data">> \in DOMAIN heap.ref
  BY <1>3, ReturnDataKeeps
<1>5. object[o].kind # "mutableData" /\ object[o].bytes = DataBytes(t)
  BY <1>3, <1>4 DEF GInv, GathersData, DataBytes
<1> QED
  BY <1>1, <1>2, <1>4, <1>5, ReturnGInv

LEMMA ReturnNoDataGInv ==
  ASSUME IInv, IInv', CInv, GInv, NEW t \in Thread, ReturnNoData(t)
  PROVE  GInv'
<1>1. /\ StepKeeps({t} \X Local) /\ UNCHANGED vector
      /\ \A u \in Thread \ {t} : pc'[u] = pc[u] /\ call'[u] = call[u]
      /\ pc[t] = "iterate" /\ ~More(t)
      /\ call' = [call EXCEPT ![t].source = <<t, "returnValue">>]
  BY OtherStepKeeps DEF ReturnNoData, At
<1>2. pc'[t] = "put"
  BY DEF ReturnNoData, IInv, TypeOK
<1>3. DataBytes(t) = <<>>
  <2>1. Ref(t, "data") = NULL
    BY DEF ReturnNoData
  <2>2. <<t, "data">> \notin DOMAIN heap.ref
    <3> DEFINE slot == <<t, "data">>
    <3>1. slot \in DOMAIN heap.ref => heap.ref[slot] \in Object
      <4> HIDE DEF slot
      <4> QED
        BY DEF IInv, Balanced
    <3> QED
      BY <2>1, <3>1, OwnersApart DEF Ref, Target
  <2> QED
    BY <2>2 DEF DataBytes
<1>4. PICK o : o = heap'.ref[<<t, "returnValue">>]
  OBVIOUS
<1>5. object'[o].kind = "data" /\ object'[o].bytes = <<>>
  BY <1>4, ReturnNoDataKeeps
<1> QED
  BY <1>1, <1>2, <1>3, <1>4, <1>5, ReturnGInv

(* One chunk more.                                                         *)
LEMMA DeliverGInv ==
  ASSUME IInv, IInv', CInv, GInv, NEW t \in Thread, Deliver(t)
  PROVE  GInv'
<1>1. /\ StepKeeps({t} \X Local) /\ UNCHANGED vector
      /\ \A u \in Thread \ {t} : pc'[u] = pc[u] /\ call'[u] = call[u]
      /\ pc[t] = "deliver"
  BY OtherStepKeeps DEF Deliver, At
<1>2. PICK c, items, item, n : /\ c = call[t] /\ items = vector[c.vector]
                               /\ item = items[c.item] /\ n = c.chunk
  OBVIOUS
<1>3. More(t)
  BY <1>1 DEF IInv, CallsOK
<1>4. /\ c \in Call /\ c.vector \in Vector /\ c.item \in DOMAIN items
      /\ items \in Seq(Item) /\ (\A i \in DOMAIN items : Plain(items[i]))
      /\ n \in DOMAIN item.chunks /\ ItemOf(c) = item
      /\ item.chunks \in Seq(Seq(Nat)) /\ ~Skipped(t) /\ ~PassesAgain(t)
  <2>1. c \in Call /\ c.vector \in Vector /\ c.item \in DOMAIN items /\ n \in DOMAIN item.chunks
        /\ ItemOf(c) = item /\ item \in Item
    BY <1>1, <1>2, <1>3, InCall, ItemRead DEF ItemOf
  <2>2. items \in Seq(Item) /\ (\A i \in DOMAIN items : Plain(items[i]))
    BY <1>2, <2>1 DEF IInv, TypeOK, PlainVectors
  <2>3. ~Skipped(t) /\ ~PassesAgain(t)
    BY <1>1, PassedPlain DEF CInv
  <2> QED
    BY <2>1, <2>2, <2>3 DEF Item
<1>5. PICK counted : counted = Counted(t)
  OBVIOUS
<1>6. /\ call'[t] = AtNextChunk(counted) /\ pc'[t] = "iterate"
      /\ counted \in Call /\ counted.vector = c.vector /\ counted.item = c.item
      /\ counted.chunk = n /\ counted.lost = c.lost /\ ItemOf(counted) = item
  <2>1. call'[t] = AtNextChunk(counted) /\ pc'[t] = "iterate"
    BY <1>4, <1>5 DEF Deliver, IInv, TypeOK
  <2>2. /\ counted \in Call /\ counted.vector = c.vector /\ counted.item = c.item
        /\ counted.chunk = n /\ counted.lost = c.lost
    BY <1>1, <1>2, <1>5, PassedPlain DEF CInv
  <2> QED
    BY <1>2, <2>1, <2>2 DEF ItemOf
<1>7. PICK d : d = call'[t]
  OBVIOUS
<1>8. /\ d.vector = c.vector /\ d.lost = c.lost
      /\ \/ n < Len(item.chunks) /\ d.item = c.item /\ d.chunk = n + 1
         \/ ~(n < Len(item.chunks)) /\ d.item = c.item + 1 /\ d.chunk = 1
  <2>1. CASE n < Len(item.chunks)
    BY <1>6, <1>7, <2>1 DEF AtNextChunk, Call
  <2>2. CASE ~(n < Len(item.chunks))
    <3>1. d = AtItem(counted, c.item + 1)
      BY <1>6, <1>7, <2>2 DEF AtNextChunk
    <3> QED
      BY <1>6, <2>2, <3>1 DEF AtItem, Call
  <2> QED
    BY <2>1, <2>2
<1>9. PICK bytes, passed : bytes = DataBytes(t) /\ passed = CreatedBytes(t)
  OBVIOUS
<1>10. PICK o : o = heap'.ref[<<t, "data">>]
  OBVIOUS
<1>11. /\ object'[o].kind \in {"data", "chunkData"} /\ object'[o].bytes = bytes \o passed
       /\ <<t, "data">> \in DOMAIN heap'.ref
  BY <1>9, <1>10, DeliverKeeps DEF CInv
<1>12. GathersData(t)'
  BY <1>10, <1>11 DEF GathersData
<1>13. ASSUME ~c.lost PROVE DataBytes(t)' = Before(items, d.item, d.chunk)
  <2>1. bytes = Before(items, c.item, n)
    BY <1>1, <1>2, <1>9, <1>13 DEF GInv, GathersFromFront, Reads
  <2>2. passed = PassedOf(item, n)
    BY <1>1, <1>2, <1>4, <1>9, PassedPlain DEF CInv, PassedOf
  <2>3. PICK next : next = bytes \o passed
    OBVIOUS
  <2>4. /\ n < Len(item.chunks) => Before(items, c.item, n + 1) = next
        /\ ~(n < Len(item.chunks)) => Before(items, c.item + 1, 1) = next
    <3>1. next = Before(items, c.item, n) \o PassedOf(items[c.item], n)
      BY <1>2, <1>4, <2>1, <2>2, <2>3
    <3>2. /\ items \in Seq(Item) /\ \A i \in DOMAIN items : Plain(items[i])
          /\ c.item \in DOMAIN items /\ items[c.item] = item
          /\ n \in DOMAIN items[c.item].chunks
      BY <1>2, <1>4
    <3>3. PICK j \in DOMAIN items : j = c.item
      BY <3>2
    <3> QED
      BY <3>1, <3>2, <3>3, BeforeNext
  <2>5. DataBytes(t)' = next
    BY <1>10, <1>11, <2>3 DEF DataBytes
  <2> QED
    BY <1>8, <2>4, <2>5
<1>14. d.item <= Len(items) + 1
  BY <1>4, <1>8
<1>15. Iterating(call[t])'
  BY <1>6 DEF IInv, CallsOK
<1>16. GathersFromFront(t)'
  BY <1>1, <1>2, <1>7, <1>8, <1>13, <1>14, <1>15 DEF GathersFromFront
<1>17. ReturnsAll(t)'
  BY <1>6 DEF ReturnsAll, Puts
<1> QED
  BY <1>1, <1>12, <1>16, <1>17, CallGInv

(* Steps of the program that change a vector, and all other ones.          *)
LEMMA VectorsGInv ==
  ASSUME IInv, GInv, NEW v \in Vector,
         \/ \E item \in Items : AppendItem(v, item)
         \/ \E w \in Vector : \E i \in DOMAIN vector[w] : AppendShared(v, w, i)
         \/ DropItem(v)
         \/ \E p \in Pointer : FromNSData(v, p)
  PROVE  GInv'
<1>1. PICK n, slot : slot = <<v, n>> /\ StepKeeps({slot})
  BY AppendItemKeeps, AppendSharedKeeps, DropItemKeeps, FromNSDataKeeps
<1>2. /\ ~Reading(v) /\ UNCHANGED <<pc, call>>
      /\ \A w \in Vector : w # v => vector'[w] = vector[w]
  BY DEF AppendItem, AppendShared, DropItem, FromNSData, IInv, TypeOK
<1>3. \A u \in Thread : \A name : <<u, name>> \notin {slot}
  BY <1>1, OwnersApart
<1>4. \A w \in Vector : Reading(w) => vector'[w] = vector[w]
  BY <1>2
<1> QED
  BY <1>1, <1>2, <1>3, <1>4, OutsideGInv

LEMMA NextGInv == IInv /\ IInv' /\ CInv /\ GInv /\ [Next]_vars => GInv'
<1> SUFFICES ASSUME IInv, IInv', CInv, GInv, [Next]_vars PROVE GInv'
  OBVIOUS
<1>1. CASE Vectors
  BY <1>1, VectorsGInv DEF Vectors
<1>2. ASSUME StepKeeps({}), UNCHANGED <<vector, pc, call>> PROVE GInv'
  BY <1>2, OutsideGInv
<1>3. CASE Pointers
  <2>1. ASSUME NEW p \in Pointer, NEW kind, NEW bytes, NewData(p, kind, bytes) PROVE GInv'
    BY <1>2, <2>1, NewDataKeeps DEF NewData
  <2>2. ASSUME NEW p \in Pointer, SetLength(p) PROVE GInv'
    BY <1>2, <2>2, SetLengthKeeps DEF SetLength
  <2>3. ASSUME NEW p \in Pointer, DestroyPointer(p) PROVE GInv'
    BY <1>2, <2>3, DestroyPointerKeeps DEF DestroyPointer
  <2> QED
    BY <1>3, <2>1, <2>2, <2>3 DEF Pointers
<1>4. CASE Calls
  BY <1>4, ToNSDataGInv, AssignGInv, VectorsGInv DEF Calls
<1>5. ASSUME NEW t \in Thread, Step(t) PROVE GInv'
  BY <1>5, CopyGInv, ReadFailsGInv, DeliverGInv, DoneGInv, ReturnDataGInv, ReturnNoDataGInv,
     PutRetainGInv, PutReleaseGInv DEF Step
<1>6. CASE Cleanup
  BY <1>2, <1>6, FinalizeKeeps DEF Cleanup, Finalize
<1>7. CASE UNCHANGED vars
  BY <1>2, <1>7, NoMemoryKeeps DEF vars
<1> QED
  BY <1>1, <1>3, <1>4, <1>5, <1>6, <1>7 DEF Next

LEMMA InitGInv == Init => GInv
BY DEF Init, GInv, GathersData, GathersFromFront, ReturnsAll, Reads, Puts

LEMMA GathersInvariantHolds == ASSUME ViewsOfOneChunk PROVE Spec => [](IInv /\ GInv)
<1>1. Init => GInv
  BY InitGInv
<1>2. (IInv /\ CInv) /\ (IInv /\ CInv)' /\ GInv /\ [Next]_vars => GInv'
  BY NextGInv
<1>3. Spec => [](IInv /\ CInv)
  BY InvariantHolds
<1> QED
  BY <1>1, <1>2, <1>3, PTL DEF Spec

(* What is in a local variable of a call.                                  *)
LEMMA LocalHeld ==
  ASSUME IInv, NEW t \in Thread, NEW name \in Local, Ref(t, name) # NULL
  PROVE  /\ <<t, name>> \in DOMAIN heap.ref /\ name \in Held(pc[t]) /\ pc[t] \in Place
         /\ Ref(t, name) = heap.ref[<<t, name>>]
BY DEF IInv, TypeOK, Locals, Ref, Target

(* Whatever other threads do to their vectors and objects meanwhile,       *)
(* toNSData gathers the bytes of its vector from the front and returns all *)
(* of them, also those of files and of Views; unless a File could not be   *)
(* read and the error was dropped on its way through the appends.          *)
THEOREM GathersExactly == ASSUME ViewsOfOneChunk PROVE Spec => []ToNSDataExact
<1>1. ASSUME IInv, GInv PROVE ToNSDataExact
  <2> SUFFICES ASSUME NEW t \in Thread, call[t].vector # NULL, ~call[t].lost
               PROVE  /\ Ref(t, "data") # NULL =>
                           IsPrefix(object[Ref(t, "data")].bytes, VectorBytes(call[t].vector))
                      /\ Ref(t, "returnValue") # NULL =>
                           object[Ref(t, "returnValue")].bytes = VectorBytes(call[t].vector)
    BY DEF ToNSDataExact
  <2>1. PICK c, items : c = call[t] /\ items = vector[c.vector]
    OBVIOUS
  <2>2. /\ c \in Call /\ c.vector \in Vector /\ c.item \in Nat
        /\ items \in Seq(Item) /\ \A i \in DOMAIN items : Plain(items[i])
        /\ VectorBytes(c.vector) = FlattenSeq(Contents(items))
    <3>1. c \in Call /\ c.vector \in Vector /\ c.item \in Nat
      BY <1>1, <2>1 DEF IInv, TypeOK, Call
    <3> QED
      BY <1>1, <2>1, <3>1, VectorBytesAre DEF IInv, TypeOK, PlainVectors
  <2>3. ASSUME Ref(t, "data") # NULL
        PROVE  IsPrefix(object[Ref(t, "data")].bytes, FlattenSeq(Contents(items)))
    <3>1. /\ <<t, "data">> \in DOMAIN heap.ref /\ Ref(t, "data") = heap.ref[<<t, "data">>]
          /\ pc[t] \in Reads
      <4>1. "data" \in Local
        BY DEF Local
      <4> QED
        BY <1>1, <2>3, <4>1, LocalHeld DEF Held, Reads, Place
    <3>2. object[Ref(t, "data")].bytes = DataBytes(t)
      BY <3>1 DEF DataBytes
    <3>3. /\ DataBytes(t) = Before(items, c.item, c.chunk)
          /\ c.item <= Len(items) + 1 /\ Iterating(c)
      BY <1>1, <2>1, <3>1 DEF GInv, GathersFromFront
    <3>4. CASE c.item <= Len(items)
      <4>1. c.item \in DOMAIN items /\ c.chunk \in DOMAIN items[c.item].chunks
        BY <2>1, <2>2, <3>3, <3>4 DEF Iterating, ItemOf
      <4> QED
        BY <2>2, <3>2, <3>3, <4>1, BeforeIsPrefix
    <3>5. CASE ~(c.item <= Len(items))
      <4>1. c.item = Len(items) + 1
        BY <2>2, <3>3, <3>5
      <4>2. PICK bytes \in Seq(Nat) : bytes = FlattenSeq(Contents(items)) /\ bytes = DataBytes(t)
        BY <2>2, <3>3, <4>1, BeforeAll
      <4>3. IsPrefix(bytes, bytes)
        BY DEF IsPrefix
      <4> QED
        BY <3>2, <4>2, <4>3
    <3> QED
      BY <3>4, <3>5
  <2>4. ASSUME Ref(t, "returnValue") # NULL
        PROVE  object[Ref(t, "returnValue")].bytes = FlattenSeq(Contents(items))
    <3>1. /\ <<t, "returnValue">> \in DOMAIN heap.ref /\ pc[t] \in Puts
          /\ Ref(t, "returnValue") = heap.ref[<<t, "returnValue">>]
      <4>1. "returnValue" \in Local
        BY DEF Local
      <4> QED
        BY <1>1, <2>4, <4>1, LocalHeld DEF Held, Puts, Place
    <3> QED
      BY <1>1, <2>1, <3>1 DEF GInv, ReturnsAll
  <2> QED
    BY <2>1, <2>2, <2>3, <2>4
<1> QED
  BY <1>1, GathersInvariantHolds, PTL
=============================================================================
