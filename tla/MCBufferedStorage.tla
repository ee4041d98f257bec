------------------------- MODULE MCBufferedStorage --------------------------
(* Small instances of BufferedStorage.                                     *)
EXTENDS BufferedStorage, TLC

CONSTANTS a, b   \* two bytes

MCSources == {<<>>, <<a>>, <<b>>}

MCOneSource == {<<a>>}

(* File vectors differ from the others; names are otherwise arbitrary.     *)
Symmetry == Permutations(Threads) \cup Permutations(Vectors \ FileBacked)
              \cup Permutations(Storages)
=============================================================================
