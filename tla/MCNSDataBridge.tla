--------------------------- MODULE MCNSDataBridge ---------------------------
(* Small instances of NSDataBridge.                                        *)
EXTENDS NSDataBridge, TLC

CONSTANTS t1, t2

Whole(kind, chunks) ==
  [kind |-> kind, chunks |-> chunks, view |-> FALSE, offset |-> 0, length |-> 0]

Slice(item, offset, length) ==
  [item EXCEPT !.view = TRUE, !.offset = offset, !.length = length]

MCBuffered == Buffered(<<2, 3>>)
MCSmallFile == Whole("File", <<<<4>>>>)
MCFile == Whole("File", <<<<4, 5>>, <<6>>>>)
MCView == Slice(Whole("DirectValue", <<<<1, 2, 3>>>>), 1, 1)

MCItems == {MCBuffered, MCSmallFile, MCFile, MCView}

(* A View that ends in the second chunk of its file.                       *)
MCFileViews == {Slice(MCFile, 0, 3)}

MCDatas == {<<7>>}

(* What is left in memory that is not in use makes no difference.          *)
InUseOnly == <<heap, [o \in {x \in Object : ~IsUnused(heap, x)} |-> object[o]], vector, pc, call, steps>>

MCThread == {t1, t2}
MCArena == (t1 :> 1 .. 11) @@ (t2 :> 12 .. 22) @@ ("any" :> 23 .. 28)
=============================================================================
