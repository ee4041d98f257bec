---------------------------- MODULE MCByteVector ----------------------------
(* Small instances of ByteVector.                                          *)
EXTENDS ByteVector, TLC

MCSizes == 0 .. MaxLength + 1 \cup {SizeMax}

MCArrays == {<<1>>, <<2, 3, 4>>}

MCFiles == {<<5, 6>>, <<7, 8, 9>>}

MCSmallFiles == {<<5, 6>>}

(* For the runs whose properties do not look at outcome, on which no       *)
(* operation depends.                                                      *)
VectorsOnly == <<reg, steps>>

Symmetry == Permutations(Registers)
=============================================================================
