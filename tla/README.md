# Verification of plcodec

plcodec is a C++ library for composing binary encoders and decoders. At its
heart is `ByteVector` (`src/byte_vector.hpp`), an immutable vector of bytes that
is really a tree of storage values and that shares memory between vectors; the
codecs are built from its `append`, `take`, `drop` and `read<N>`. This directory
holds TLA+ models of it, the TLC configurations that check them, and proofs.

Line numbers below are those of `src/byte_vector.hpp` unless another file is
named. `PROJECT.json` maps every definition to the lines it models.

## The system

| part | state | operations | hard behaviour |
|---|---|---|---|
| `Buffered`, `UnderlyingStorage` (82-190) | the allocation, `allocatedLength`, atomic `usedLength`; per vector a `length` and a `shared_ptr` | constructor, copy, destructor, `internalAppend` | threads append in place, without a lock, into memory other vectors are read from |
| storage sum type: `Empty`, `DirectValue`, `Buffered`, `File`, `View`, `Append` (78-510) | immutable trees | `length`, `append`, `view`, `read`, `read<N>`, `iterate`, `describe` | offsets split at operand boundaries and composed through views; what an operation does depends on the sequence that built the tree |
| `File` (303-396) | a shared descriptor, the length when it was opened | `Create`, `read` | short reads, `EINTR`, errors, files that change |
| `ByteVector` (986-1418, `byte_vector.cpp`) | a storage value | constructors, `append`, `take`, `drop`, `dropRight`, `padLeft`, `padRight`, `read`, `read<N>`, `operator[]`, `==`, `iterate`, `writeToFile`, `toVector`, `toString` | errors as `either<ParseError, T>`; assertions and exceptions inside |
| NSData bridge (`byte_vector_objc.mm`) | dispatch data built chunk by chunk; objects and storages that keep each other's bytes alive | `toNSData`, `fromNSData` | every chunk's destructor runs exactly once, after the last use of its bytes, on a queue, also on errors |
| codecs (`codec.hpp`) | none: pairs of functions | integral, `identityBytes`, `fixedSizeBytes`, `bytes`, `eager`, `variableSizeBytes`, `ignore`, `constant`, context, `TupledCodec`, `flatPrepend`, `xmap`, `as` | decoding what was encoded; remainders; limits of length types; `fromRight` on results taken for granted |
| `Encoder`, `Decoder`, `DecodeResult`, `ParseError` | a context stack in errors | `fmap`, `as`, `pushContext`, `left_map` | order of contexts |
| property lists (`plist_record_type.hpp`, `Dependencies/PLStdCPP/src/record_type.hpp`) | the fields of a record and its extra keys | `from_plist`, `to_plist`, `plist_record_codec`, modifiers | missing, optional, unknown and unfit values at any depth; keys that come back unchanged |
| `ns_ptr` (`Dependencies/PLObjCPP/src/ns_ptr.hpp`) | one counted reference | copy, assignment, destruction | retain and release in balance while other threads use the same object |
| `hlist`, `product`, `record`, `unit` (`Dependencies/PLStdCPP/src`) | none | type computations, `sequence`, `apply` | order of concatenation |
| ftl (an empty submodule) | none | `either`, `maybe`, `sum_type` | external |

They interact by calls only, except in three places: `Buffered` vectors share an
`UnderlyingStorage` (and `File`s a descriptor); `iterate` calls back, handing out bytes
that may outlive it together with a destructor for them; and NSData objects and
storages hold references to each other, which several threads and a queue release.

## Modules

| module | models | checked by |
|---|---|---|
| `BufferedStorage` | `Buffered`, `UnderlyingStorage`, `internalAppend` run by threads | `buffered_*`, proofs |
| `ImmutableVectors` | what `BufferedStorage` promises: vectors have values, an append is one step | refined by `BufferedStorage` |
| `BufferedStorageProofs` | theorems about `BufferedStorage` | TLAPS |
| `ByteVectorStorage` | the algorithms on storage trees, as operators | through `ByteVector` |
| `ByteVectorMethods` | member functions of `ByteVector` that programs and codecs call, as operators | through `ByteVector` and `Codecs` |
| `ByteVector` | a program that applies the public operations to variables | `vector_*` |
| `ByteSequence` | what the operations promise, on byte sequences | refined by `ByteVector` |
| `FileIO` | `File::Create`, `File::read`, `iterate` of a file, `writeToFile`, with other processes | `file_*`, proofs |
| `FileCopy` | what `writeToFile` promises: the file fills up with the vector's bytes | refined by `FileIO` |
| `FileIOProofs` | theorems about `FileIO`: with calls that fail and a file that shrinks; with interrupted calls and a file that grows | TLAPS |
| `Codecs` | every codec of `codec.hpp`, encoder and decoder, as operators | through `CodecStream` |
| `CodecStream` | a program that encodes values into a vector and decodes them from it | `codec_*` |
| `MessageQueue` | what that program may rely on: a queue of values | refined by `CodecStream` |
| `NSDataBridge` | `toNSData` with what `iterate` hands out, `fromNSData` and `ns_ptr`: reference counts and what they keep alive | `nsdata_*`, proofs |
| `DataValues` | what programs that exchange vectors and NSData may rely on: both are values | refined by `NSDataBridge` |
| `NSDataBridgeProofs` | the invariant of `NSDataBridge`: counts, and which slots are filled when | TLAPS |
| `NSDataContentsProofs` | theorems about its counts and about what is in memory | TLAPS |
| `NSDataGatherProofs` | theorem about the data that `toNSData` returns | TLAPS |
| `NSDataReclaimProofs` | theorem that no objects keep each other alive | TLAPS |
| `NSDataValuesProofs` | theorem that `NSDataBridge` implements `DataValues` | TLAPS |
| `FlattenProofs` | lemmas about the bytes of a sequence of pieces, used by those | TLAPS |
| `PlistRecords` | `from_plist` and `to_plist` of every type, and the codec, as operators | through `PlistEditor` |
| `PlistEditor` | a program that reads, changes and writes property list records | `plist_documents` |
| `PlistDocument` | what that program may rely on: a dictionary changed one key at a time | refined by `PlistEditor` |
| `MCBufferedStorage`, `MCByteVector`, `MCFileIO`, `MCCodecStream`, `MCNSDataBridge`, `MCPlistEditor` | small instances | |

### BufferedStorage

A live vector `vec[v]` is a `[storage, length]` record; a storage has
`usedLength`, `allocatedLength` and `bytes`. What happens to `shared_ptr`s is
implicit: a storage is owned by the live vectors and running appends that refer to
it (`Owned`), and `Destroy` of the last one runs `~UnderlyingStorage` (`Release`).

One `internalAppend` (158-189) is the steps `Call`; then `Reserve` (the test of
line 160 and a successful compare-and-swap), `Reallocate` (174-177 and the storage
built at 182), `Decline` (188) or `BadAlloc`; then `FillByte` once for each byte that
`memcpy` and `read` store; then `Return`. The compare-and-swap and the room test are
one step because `allocatedLength` never changes. An append's operands are kept
alive by its caller. `FileBacked` vectors stand for an operand that is a file: their
read may stop with an error (`ReadFails`), which the code ignores. The bytes are
filled in ascending order; `memcpy` promises no order, but which bytes a thread has
yet to write is what matters, and `DataRaceFree` speaks of each as it is written.
A null storage (the temporary of line 687) behaves as one with no room.

### ByteVectorStorage and ByteVector

A storage value is a record with a `kind`. The algorithms are translated case by
case: `View`, `Read`, `ReadInteger`, `Appends`, `Iterate`. `BufferedStorage` shows
that vectors sharing memory do not disturb each other, so a `Buffered` holds its own
bytes here; what remains of the sharing is whether its room is still free, which
`InternalAppends` leaves open (both outcomes are possible when there is room). Bytes
that come from outside a vector, or that are never written, are `Junk`. `size_t` is
`0 .. SizeMax`. A file can be read or cannot (`readable`).

In `ByteVector` a variable of a program holds such a value; each operation is an
action with the shape it produces or the error it reports, and `outcome` records the
call with its arguments, so that `ByteSequence` cannot explain one operation as
another. The runs whose properties do not look at `outcome` use the view
`VectorsOnly`, which leaves it out: no operation depends on it.

### FileIO

A program opens the file `backing` as a vector (`Create`) and writes that vector to
`target` (`WriteToFile`, 1291-1308). `pc` says which loop it is in: `"iterate"` (910),
`"pread"` (382) or `"write"` (1312); `toRead`, `cursor`, `buffer`, `totalRead`, `ptr` and
`len` are the code's variables. One step is one system call: `Pread`, `Write`,
`WriteInterrupted`, `PreadFails`, `WriteFails`; `FetchChunk`, `Deliver`, `ChunkWritten`
and `Finish` are the tests and assignments between them. `Pread` stores at the start of
`buffer` whatever `totalRead` is (383), and `ptr` may leave the buffer, where it reads
`Junk` (1320). An interrupted `pread` changes nothing and is a stuttering step. The
length of the vector is that of the file when it was opened.

What may happen besides is the constant `Faults`: calls that fail, transfer less
than asked for or are interrupted, and other processes that truncate (`Shrink`) or append
to (`Grow`) the backing file. `BenignFaults` are those `writeToFile` copes with. A vector that is a tree containing files goes through the
same loops leaf by leaf; that part is `Iterate` of `ByteVectorStorage`.

### Codecs and CodecStream

A codec is a term made by the library's constructors (`Integral`, `FixedSizeBytes`,
`Tupled`, ...), and `Encode` and `Decode` are the two functions its `Codec<T>` holds. They
work on the storage values of `ByteVectorStorage`, not on byte strings: a decoded vector
is a view of its input, an encoding is a tree of appends. `Encode` has a set of results
because an append has. `ftl`'s `>>=` and `%` are `Then`; `fromRight` of an error is
`Throw`, which nothing catches. An error keeps its contexts and not its message. A tuple is
encoded by `hlist::sequence` (`EncodeTuple`: a fold from `Empty`) and decoded by
`TupledDecoder` (`DecodeTuple`). Memory is little endian, as the code assumes unless
`__BIG_ENDIAN__` is defined, and a byte has `Radix` values, which puts the limit of a
one-byte length at 3. `as<C>` renames a tuple and is left out; `xmap` occurs as `Skip`
(`Codec<Unit> >> Codec<T>`).

In `CodecStream` a program has one codec, `CodecOf[schema]`, and one vector: `WriteValue`
encodes a value and appends the encoding, `ReadValue` decodes from the front and goes on
with the remainder. The values are constants or the last one decoded. `queue` is history.
`ForeignSpec` starts from any vector and only reads.

### NSDataBridge

`heap.count` are the counts that `CFRetain`, `dispatch_release`, `shared_ptr` and so on
keep; `heap.ref` says which *slot* holds each reference: a variable of the program
(`<<p, "_target">>`), a storage value of a vector (`<<v, i>>`), a local variable of a call
(`<<t, "data">>`), or a field of a heap object (`<<o, "left">>`). The actions change both
as the code does, so the question is whether they stay in step. `object[o]` is the memory:
its kind, its bytes, and in `holds` the fields without which the bytes are not valid:

| kind | is | holds |
|---|---|---|
| `storage` | an `UnderlyingStorage`; `left` is the NSData whose bytes it shows, if `fromNSData` made it (105-113) | that NSData |
| `chunk` | what `iterate` allocates for a chunk: a `Buffered` (889), a `DirectValue` (898), a buffer for a file (915) | the storage of a `Buffered` |
| `chunkData` | `dispatch_data_create`'s object with the block that calls the destructor (64) | the chunk |
| `data` | an NSData, or `dispatch_data_create_concat`'s (68) | both parts |
| `mutableData` | an NSMutableData of the program's | |

A vector is the list of its leaves from left to right. A call of `toNSData` walks it
(`call[t].item`, `chunk`), and `wrapperF`'s `toSkip` and `toPass` are in `call` too: `Deliver`
is one call of the lambda at 63, `Gather` and `GatherFirst` its two branches, `Skip` what
`wrapperF` does with chunks before and after the View; `again` is its second call of the
same chunk (disagreement 3). `ReadFails` may happen at every chunk of a file; whether the
error comes back depends on where in the tree of appends the file is (871), which
`ErrorReturned` and `AfterError` compute for a tree that leans to the left. `put` of
`ns_ptr` is the four steps `PutSame`, `PutRetain`, `PutRelease` and `PutStore`.

Threads share objects and not variables, as neither `ByteVector` nor `ns_ptr` is safe
otherwise: the guards `Reading` and `InUse` keep other operations from the variables that
a running call uses. When a count falls to 0, `Finalize` releases the object's own
references, one at a time. That is over before the thread goes on (`Deallocated`), except
for `chunkData`, whose destructors the global queue runs in any order and at any time. An
address is used again when its object is gone; `Arena` gives each thread addresses of its
own, which takes nothing away (allocators choose any free address) and keeps TLC from
telling apart which one it was. `dispatch_data_create` of no bytes is an object as well.

`DataValues` has none of this: a vector has bytes, and whether some are a file's; a pointer
refers to an NSData with bytes, which only `SetLength` changes; a call of `toNSData` or an
assignment has its result at one instant (`Store`, or `ReturnSame` where the pointer has it
already) and returns later. The mapping (`Abs`) reads a vector's `Buffered` values from
memory, so that a byte that was freed or overwritten shows. An assignment takes
effect when `put` releases what the pointer referred to (68), and not when it
sets `_target` (71): in between, `_target` refers to an object that may be gone, and its
address may be used again.

### PlistRecords and PlistEditor

Types and property lists are terms: a type is made of the specializations of
`PropertyListType` (`String`, `Number(bits, signed)`, `Maybe`, `Vector`, `Record`, ...), a
property list is an object with its class. `FromPlist` and `ToPlist` are translated
specialization by specialization, with the classes they test and what they leave
untested: a message to nil, a `for` loop over what need not be an array, `addObject: nil`.
An Objective-C exception is `Throw`, which nothing catches, or, inside `to_plist`,
`Unsaveable`. `Narrow` keeps the low bits as `charValue` and its like do. A record has its
`fields` and `extra`, the dictionary left when the fields' keys are removed. Classes that
are converted to themselves (`NSData`, `CFDataRef`, ...) are `Object(class)`. The data a
codec reads is the property list that was serialized in it: the serialization is external.

In `PlistEditor` a program has a file and at most one record: `ReadFile` and `WriteFile` are
`plist_record_codec`'s two functions, `Construct` and `Modify` the constructor and the
modifiers of `record_type.hpp` (111). `PlistDocument` knows no types: a document is a
dictionary.

## Runs

| run | question | bounds |
|---|---|---|
| `buffered_append` | is the in-place append race-free, does it leave every other vector alone, and does a program see atomic appends of immutable values? | 2 threads, 4 vectors, 3 storages, 2 bytes, length <= 3 |
| `buffered_files` | does the invariant of the proofs hold with failing file reads, and does every append end, undelayed by others? | 2 threads, 3 vectors and a file, 3 storages, no symmetry |
| `vector_views` | do `read`, `view`, `read<N>`, `==`, `iterate` agree with the bytes of every vector three operations can build? | 2 variables, arrays of 1 and 3 bytes, files of 2 and 3 (readable or not), `MaxBytes` = 2, chunks of 2, length <= 4 |
| `vector_values` | do programs of three operations see byte sequences? | 2 variables, one file, length <= 4 |
| `file_copying` | does `writeToFile` copy the vector, report every failure, get on with every step and return? | files of 0, 1, 2, 3 and 5 bytes, chunks of 2, `BenignFaults` |
| `file_nothing_lost` | can a success hide missing bytes when writes are interrupted and the file grows? Does the invariant of the proof hold? | a file of 3 bytes, chunks of 2, growth and interruptions to 5 |
| `codec_messages` | does a stream of encoded values behave as a queue of values, and does a cut encoding fail, in the right field? | six formats, one or two values each and one too long; 4 encodings |
| `codec_foreign` | can any input make a decoder throw, lose its place or return a value it cannot encode? | the six formats; all 1365 byte strings of length <= 5, in memory, in a file (readable or not), in two parts and before an `Empty` |
| `nsdata_sharing` | is every reference released exactly once and nothing freed while in use, whatever fails and in whatever order the queue runs; are the bytes right; can objects keep each other alive; is all memory freed in the end; and does a program see values, on which calls take effect at once? | 2 threads, a vector of up to 3 leaves (a `Buffered`, files of one and two chunks, a View), 2 pointers, one content of NSData, 4 operations (an appended chunk counts as one), 28 addresses |
| `plist_documents` | can any file make a record lose or invent keys, hold a value of the wrong type, or write what does not read back? | two record types with every kind of field and nesting, 140 files, 2 changes |
| `file_short_reads` | see *Disagreements* | a file of 3 bytes, chunks of 2, short reads only |
| `nsdata_once` | see *Disagreements* | a View of a file of two chunks |

Why the bounds are enough. In `BufferedStorage` a race needs two threads and two
vectors that end at the same byte of one storage; the third storage lets both of
them reallocate, the fourth vector is the result of the second append; with
`kMinimumUnderlyingStorageSize` = 3 a reallocated storage has room for two more
appends, so room is exhausted as well. `kMaximumAlwaysInternalAppendSize` = 1 makes
both `Decline` and `Reallocate` reachable. In `ByteVector`, arrays of 1 and 3 bytes
are a `DirectValue` and a `Buffered`, files of 2 and 3 bytes take one and two chunks,
and three operations give an `Append` of `Append`s of views, every split of an offset
included. `SizeMax` = 15 is far above any length and is itself an argument, so the
overflow tests are exercised. The two variables, threads, vectors and storages are
interchangeable, which is the symmetry used; `buffered_files` and the `file_*` runs use none because
symmetry is unsound for liveness. In `FileIO` chunks of 2 bytes
and files of 0 to 5 give no, a partial, a whole, and several chunks with and without a
partial last one, and a chunk whose write is split; `MaxLength` bounds growth and, through
`position + len`, interruptions; `SizeMax` = 15 exceeds every length, so a `toRead` that
wraps around stands out. In `CodecStream` the formats of `MCCodecOf` contain every
combinator, and each takes at most 5 bytes of its smallest values, so that `codec_foreign`
decodes all of them; values have lengths 0, 1, 3 (the most a one-byte length can say) and
4; `MaxBytes` = 2 makes encodings grow out of `DirectValue` into `Buffered` and `Append`.
In `NSDataBridge`, four operations let two threads gather three
chunks at once or one thread gather while the other assigns the pointers involved, and let
a vector that was made from an NSData be turned into data again; addresses never run out.
Its view `InUseOnly` leaves out what is in memory that is free. The files of
`MCPlistEditor` have, for each key, a fit value, an unfit one (of the wrong class, or too
large for the 2-bit numbers) or none, at both depths.
`CHECK_DEADLOCK FALSE` in the `ByteVector`, `NSDataBridge` and `PlistEditor` runs:
the program ends after `MaxSteps` operations; in the `CodecStream` runs, where a stream of
errors changes nothing; and in the `FileIO` runs: it ends when
`writeToFile` has returned.

### What the properties say

* `VectorsFit`: nothing is freed while needed, nothing is written past an
  allocation, and the subtraction of line 160 does not wrap around.
* `DataRaceFree`: the byte a thread is about to write shows through no vector and is
  not about to be written by another thread.
* `Immutability`: no step changes the bytes of a vector that exists before and after
  it.
* `Implements` (BufferedStorage): refinement of `ImmutableVectors`; the result of
  `append` gets its value in one step, from its operands as they are then.
  `AppendConcatenates` adds that the value is the operands' own, which the refinement
  alone might also explain as a construction.
* `AppendsEnd`: weak fairness of each thread's steps, which is what the operating
  system's scheduler gives a runnable thread. No retry loop exists, so no stronger
  fairness is needed.
  `WaitFree` is what remains without fairness: an append has at most its result's length
  and two steps to take, and nothing that other threads do makes them more.
* `ReadExact`, `ViewExact`, `IntegerAtStart`, `EqualityByContent`, `IterateExact`:
  each operation, at every offset and length, against the byte sequence the tree
  stands for. Their exceptions are named in them: an `Empty` among the operands for
  views, an unreadable file, a view of a file of several chunks for `iterate`, reads past the end.
* `Implements` (ByteVector): whole programs, with results and errors, against
  `ByteSequence`; run without `Empty`.
* `Implements` (FileIO): refinement of `FileCopy`; the target only ever grows by the
  vector's next bytes, and success means all of them, also while another process
  truncates the backing file.
* `NothingLost`: on success the vector's bytes are in the target in order, although
  interrupted writes and a growing file may have put others among them. `GrowthInv` is the
  inductive invariant behind it.
* `TerminatesUnlessTruncated`: weak fairness of the program's own steps and of system
  calls returning (`Progress`); failures and other processes' steps need not happen, and
  an interruption may not repeat for ever. `Advances` is the reason, step by step: while
  the file has the vector's bytes, no step of the program or failure of a call leaves as
  much to do as before.
* `Implements` (CodecStream): refinement of `MessageQueue`. Values come out whole and in
  order, an empty stream yields none, and exactly the values that are too long for their
  length type or fixed size are refused.
* `InStep`: no bytes are left in the stream when all values have been read, padding and
  ignored bytes included.
* `CutEncodingsFail`: every strict prefix of an encoding is an error, and its contexts
  (`"record"`, `"size"`) are those of the field that holds the first missing byte
  (`FieldAt`). A format that takes all bytes there are (`Greedy`) is excepted.
* `NothingThrown`, `RemainderIsRest`, `DecodedIsEncodable`: decoders given arbitrary
  bytes. The two `fromRight`s (`codec.hpp` 609, 727) are safe because a `take` succeeded
  before, unless an `Empty` or an unreadable file is in the vector; decoding then encoding
  loses nothing a program can see. An encoding with an `Empty` in it may be refused
  (disagreement 1) but is never read as another value.
* `CountsBalance`: each object is counted once for each reference that somebody holds, and
  a call that has returned holds none: no leak, and no release too many, also after a
  failed read. `BytesStayValid`: whatever is in use has all it needs in use: chunks
  outlive their vector while data is made of them, and an NSData the program's reference
  while a vector shows its bytes.
* `VectorsKeepBytes`: `setLength: 0` of the NSMutableData a vector was made from changes
  nothing in the vector. `ToNSDataExact`: the data gathered is always a prefix of the
  vector's bytes, and what is returned is all of them.
* `Reclaimed`: when the program has let go of everything, all memory is freed. The only
  fairness is that of `Cleanup`: the queue runs the blocks submitted to it, and
  deallocations end. `NothingStranded` is the part of it that is no liveness: when the
  program has let go of everything and nothing remains to be deallocated, nothing is in use.
  With `CountsBalance` this is false exactly if objects refer to each other in a circle.
* `Implements` (NSDataBridge): refinement of `DataValues`, which puts several of these
  together: whatever threads and the queue do in between, each object that a pointer is
  given has the vector's bytes, cannot be changed by anyone, and stays as it is for as long
  as a pointer refers to it, although its memory belongs to vectors, chunks and other
  objects that come and go; only a vector with a file in it can fail to be read.
* `ExtraKeysApart`: the extra keys of a record, at any depth, are never the key of a field,
  on which `to_plist` relies when it writes both to one dictionary.
* `WrittenReadsBack`: what was written is read as the same record, extra keys included if
  they were asked for; excepted are values that have no property list (`Expressible`).
* `Implements` (PlistEditor): refinement of `PlistDocument`. A change concerns one key and
  all others are saved as they were read, also those no type knows of; a file that a type
  represents exactly (`IsNormal`) can be read, and one that it does not either fails or
  keeps at least its unknown keys; saving without extra keys removes exactly these, at
  every depth.
* `DestroyedOnce` is what the comment on `iterate` asks of callers; the run that ends in a
  violation checks it.
* `WritesPrefix` is what the comments promise without regard to faults; the runs that
  end in a violation check it.

## Disagreements between the code and its comments

Two of these are runs in which TLC finds the violation: `file_short_reads` and
`nsdata_once`. The models have the others as well, without a run of their own.

1. The encoding of an empty `std::vector` (or of `ByteVector::Empty`) by
   `variableSizeBytes` has an `Empty` operand, and decoding it is an error (`codec.hpp`
   677): a view of an `Empty` fails even for no bytes (774).
2. `bytes(length)` pads a shorter vector where its comment promises an error
   (`codec.hpp` 620, 627).
3. A missing `return` in `wrapperF` (964-967) passes the head of a chunk twice and omits
   the next; `toNSData` then frees the first chunk twice (`nsdata_once`). Chunks that a
   View skips (945, 959) are never freed: neither branch calls their destructor.
   (`IterateExact`, `nsdata_sharing` and the proofs about `NSDataBridge` except such Views.)
4. `file_short_reads`: after a short `pread`, the next bytes overwrite the first (383).
5. An `Append` asks its right operand for nothing when a request ends exactly where the
   left one ends (742), so `take` of bytes that are there may fail when that operand is
   `Empty` (774); `take` of fewer succeeds and the `drop` after it fails, which in
   `fixedSizeBytes` is an exception (`codec.hpp` 609). (`ViewExact` and `NothingThrown`
   except vectors with an `Empty`.)
6. `read<N>(offset)` checks and forms the remainder as if `offset` were 0 (548, 553).
   (`IntegerAtStart` is about offset 0.)
7. `iterate` drops the result for a nested `Append` (871): a file in it that cannot be
   read is left out without an error. (`IterateExact` excepts unreadable files.)
8. An interrupted `write` moves `ptr` one byte back and makes `len` one more
   (1320-1321). (`NothingLost` allows for it.)
9. `read` past the end copies what lies behind the vector (616, 625) or trips the
   assertion at 1179; it never returns the error line 1170 promises. (`ReadExact` asks
   for bytes that exist.)
10. `internalAppend` ignores a failed `read` (168, 179): the result has bytes that were
   never written. (`AppendConcatenates` is checked and proved for `FileBacked = {}`.)
11. `iterate` of a file that grew passes all that `read` returns, not the `toRead` bytes
   of the vector, and `toRead` wraps around (921, 928). (`NothingLost` allows for it.)
12. `iterate` of a file that was truncated reads 0 bytes for ever (910); `writeToFile`
    to the vector's own file truncates it first (1292). (`TerminatesUnlessTruncated`
    excepts it.)
13. `constant` throws, rather than fails, when its input cannot be read: `operator==` and
    `toString` use `unsafe_get` (`codec.hpp` 726, 729). (`NothingThrown` excepts
    unreadable files.)
14. `operator>>(Codec<Unit>, TupledCodec)` (`codec.hpp` 413) returns a `Codec` where it
    declares a `TupledCodec`; nothing instantiates it.
15. The field of a vector accepts nil, which gives no elements, and a dictionary, which
    gives its keys. A value of any other class, and for a record's field a value that is no
    dictionary, raises an exception (`plist_record_type.hpp` 267, 51), and not the error
    that an unfit value within it gives (`plist_record_type_tests.mm` 165, "bad nested
    plists should fail"). (`PlistDocument` allows both for files that are not `Normal`.)
16. A number that does not fit its field is narrowed without an error
    (`plist_record_type.hpp` 175-185). (`Open` of `PlistDocument` allows for it.)
17. A `std::string` that is not UTF-8 has no NSString: the field is left out, and what was
    written cannot be read (63); within a vector it is an exception (283), as is `nothing`.
    (`WrittenReadsBack` is about `Expressible` values.)
18. `from_plist` never releases its `mutableCopy` (105), unless it is compiled with ARC.

## Proofs

`BufferedStorageProofs` proves, for any sets of threads, vectors, storages and bytes
and any sizes: `Invariance` (`Spec => []IInv`), `TypeCorrect`, `Fitting`,
`RaceFreedom` and `VectorsImmutable`; and, when `FileBacked = {}`, `Concatenation`
and `Refinement`, that `Spec` implements `ImmutableVectors` (a failing read leaves
garbage, so the condition is needed: see disagreement 10).

The assumptions are those of the module: `SourcesAssumption` (constructors are given
byte sequences), `NoneAssumption` (`None` is no vector, storage, record or sequence),
`FilesAssumption`, and `SizesAssumption` (sizes are natural numbers; nothing is
assumed about their order).

The argument. `VectorsFit` and `DataRaceFree` are not inductive: they do not say why
two running appends never meet. The invariant `IInv` adds the notion of a *claim*:
from `ClaimStart` to `ResultLength`, a running append owns its part of `dest`.
`ClaimsExclusive` says that a non-empty claim ends at `usedLength`, and that every
vector and every other claim of that storage ends where it starts or before. `Reserve`
keeps this because it only succeeds when `usedLength` is the left operand's length, so
everything else in that storage ends there or before; a second `Reserve` on the same
storage would have to find `usedLength` at the end of a vector that does not exist
yet. `CallsOK` says operands stay alive and names are not shared; `PrefixInPlace` that
the bytes copied so far are the operands'. From a claim's exclusiveness follow
`DataRaceFree` and `Immutability` (a step writes only inside its claim, above every
vector); from `PrefixInPlace`, at `Return`, the value of the result, hence the
refinement. `WaitFreedom` (`Spec => WaitFree`) follows from the operands' staying as they
are and `copied`'s staying within the result's length.

`FileIOProofs` proves, for files, chunks and `size_t` of any size and when
`Faults \subseteq BenignFaults`, `CopyInvariance` (`Spec => []IInv`), `CopyRefinement`
(`Spec` implements `FileCopy`) and `CopyAdvances` (`Spec => Advances`). The condition is needed: the other faults are
disagreements 4, 8 and 11. `FileCopy` does not mention buffers; `IInv` says where the
vector's next bytes are between two calls. In `"write"` the `len` bytes at `ptr` are those
that follow the `position` bytes already in the target, and end at `cursor`; in `"pread"`
the first `totalRead` bytes of the buffer are those that follow `cursor`, and a partial
chunk means that no more of the file is left, so that no second `pread` overwrites it.
`BackingHolds` is what truncation leaves true. For `CopyAdvances` the pair of `toRead` and
`LeftOfChunk` decreases: a `pread` that returns something reduces the first, as `IInv` says
that `totalRead` does not exceed `toRead`, and it does return something while the file is
as long as the vector.

It also proves `GrowthInvariance` (`Spec => []GrowthInv`) and `LosesNothing`
(`Spec => []NothingLost`) under `WholeReads`: calls may fail, writes may be short or
interrupted, and other processes may append to the backing file, but a `pread` is not short
and the file does not shrink (disagreements 4 and 12). The difficulty is that both
`iterate` and the loop of writes lose count: an interruption moves `ptr` back, so that bytes
are written again and `len` no longer fits the buffer, and a `read` that returns more than `toRead`
makes it wrap around. `GrowthInv` says, as long as `toRead` is right (`Counted`), that the
vector's bytes up to `Given`, what `ptr` has passed of the chunk, are *embedded* in the target:
there is an increasing function from their indices to places that hold them. Once `toRead` has wrapped around
(`Wrapped`) nothing is said of the target, and nothing needs to be: `cursor + toRead` is
then more than `SizeMax`, while `cursor` is within the file, so that `toRead` is never 0
again and `iterate` never reports success. This is why `NumbersAssumption` bounds the
lengths of files, `MaxLength`, by `SizeMax`.

The other five modules are about `NSDataBridge`, and hold for any threads, vectors, pointers,
addresses and contents. They prove `TypeCorrect`, `NothingLeaks` (`CountsBalance`),
`NothingDangles` (`BytesStayValid`), `NothingOverwritten` (`VectorsKeepBytes`), `GathersExactly`
(`ToNSDataExact`), `NothingKeepsItself` (`NothingStranded`) and `ValuesRefinement` (that `Spec`
implements `DataValues`), under `ViewsOfOneChunk`: the
Views that programs append are not empty, and are of memory or of a file of a single chunk.
The condition is needed (disagreement 3). The assumptions are those of
the module: `Object` is a finite set of numbers, variables and addresses are distinct, bounds are
natural numbers, `Items` are storage values.

The argument. That counts and references agree is not inductive: an action that retains
into a slot that is already filled, or moves a reference out of an empty one, breaks it. The
invariant `IInv` therefore says which slots are filled when. `VectorSlots`: a slot of a
vector is filled exactly if that storage value is a `Buffered`. `Locals`: between two steps
of a call exactly the local variables are filled that its place in the code and its
progress say (`"copy"` in `"deliver"`, `"returnValue"` and `"target"` in the steps of `put`,
none when idle). `CallsOK`: a call's vector and pointers are its own, and its item and chunk
exist. `PlainVectors`: every View is of one chunk, and within it. Given that,
`RetainBalanced`, `ReleaseBalanced` and
`MoveBalanced` say for the three ways to change `heap` that it stays balanced and which
counts change, and each action's lemma applies them in the order of the code. `Complete`,
that an object in use has filled all the fields it `holds`, is kept because `Finalize`
empties only fields of objects with count 0, and a balanced count of 0 means that nobody
refers to the object (`CompleteStep`). A filled slot refers to an object that is counted
(`CountedIfHeld`), hence `BytesStayValid`.

With Views, `IInv` alone is not inductive: which bytes of the chunk are passed on, and so whether `wrapperF` is called
again, depends on the chunk being as long as the View believes. `CInv` adds that:
`ChunksRead`, that what is about to be delivered has the bytes of the storage value it is a
chunk of, and `VectorsHold`, that a `Buffered` refers to a storage with its bytes, which is a
`storage` of its own or shows an NSData that is not mutable. Every step is described once by
`StepKeeps(S)`: outside the slots `S`, the pointers it sets or clears and free memory it
changes no reference, no kind and, except in an NSMutableData by `SetLength`, no bytes. So an object that is in use before and
after a step keeps its bytes, which is what `VectorsHold`, and later `GInv`, need of all
the steps that are not about them.

`GInv` says what a call has gathered: until an error is dropped (disagreement 7), the object in `"data"` has
`Before(items, item, chunk)`, the bytes of all storage values before the current one
and of its chunks so far, and the one in `"returnValue"` has all bytes of the vector. That these
are prefixes of each other is `FlattenProofs`: `FlattenSeq` of the community modules
is recursive on sequences, and its two equations, for an appended piece and for a prefix,
are proved by induction on lengths. The library's induction theorem takes an operator; the
same is done here with a set (`LeastElement`: every nonempty subset of `Nat` has a least
element), which the provers can instantiate.

For `NothingKeepsItself` the step invariant is `Ranked`: objects can be numbered so that
their fields refer to lower numbers only. A new object, which no field refers to yet, is
numbered above all others; every other step only drops fields (`FieldsKept`). If at the end only fields of objects in use are references, the
highest-ranked object in use would have to be referred to by a higher one.

For `ValuesRefinement` each action either changes one of the three variables of
`DataValues`, as its counterpart there does, or none of them; the second needs as much proof
as the first, since any step may free or write memory. `ValuesHold` turns a vector's value, as
read from memory, into the bytes of its storage values, with `CInv`; `ShownKept` and
`PointerKept` say that an object in use shows what it did, from `StepKeeps`, which also says
which pointers a step repoints (`Repoints`) and whether it shortens an object (`Shortens`,
which only `SetLength` does). What the earlier invariants do not say is what a call is about to
store: `VInv` adds that `put` in `toNSData` has an object in `"returnValue"` that is not
an NSMutableData (`PutsResult`), so that nobody can change it before it is stored; that an
assignment reads a pointer that no other call writes (`Apart`, `PutsPointer`); that
`"target"` is what it was given until it is stored (`Retained`); and that only a vector with a file
in it is in `"fail"` (`FailsOnFile`). `PutRelease` is then the instant of `Store`
(`PutReleaseRefines`), with `GInv` for the bytes of the result (`ResultIs`).

Only model-checked: `AppendsEnd`, `TerminatesUnlessTruncated` and `Reclaimed` (liveness is
out of the proof system's reach); Views of a file's inner chunks in `NSDataBridge`; and all
of `ByteVector`, `CodecStream` and `PlistEditor`, whose operators
are recursive on trees, codec terms and types, and what they compute for every tree cannot
be stated to the provers.

## Not modelled

`describe`, `description` and `toString` only format. `std::shared_ptr`'s own counting
and the memory model below `std::atomic` are taken as specified: the compare-and-swap
is sequentially consistent. XSmallTest is vendored; ftl is not in the tree. The branch of
`toNSData` for systems whose dispatch data is not an NSData (90-102 of
`byte_vector_objc.mm`) copies into an NSMutableData and holds no references. Serialization
of property lists, `NSNumber`s that are fractions, and ARC are Apple's. `hlist`, `product`
and most of `record_type.hpp` are computations on types and preprocessor lists, and
`File`'s descriptor is closed by a `shared_ptr`'s deleter (314-319), which `BufferedStorage`
shows for memory. The rest is in the plan.

## Plan

In this order.

1. Action properties that no call waits for another one, from the invariants that are proved: every
   step of a thread brings its `internalAppend`, and every system call that moves bytes its
   `writeToFile`, nearer to the end.
2. A lemma library for `View`'s ranges, without the recursion on trees.
3. `toNSData` of a vector whose file changes between its chunks: `FileIO`'s faults inside
   `NSDataBridge`'s calls.
4. `FDWrapper` with `NSDataBridge`'s counting, so that a descriptor is closed once and not
   while a read is running.
