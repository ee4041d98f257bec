--------------------------- MODULE MCCodecStream ----------------------------
(* Small instances of CodecStream: a byte has 4 values.                    *)
EXTENDS CodecStream, TLC

U8 == Integral(1, "Big")
U16 == Integral(2, "Big")
U16L == Integral(2, "Little")

Direct(bytes) == DirectValue(bytes)
Three == Buffered(<<1, 2, 3>>, 1)
Four == AppendNode(ViewOf(Three, 0, 2), Direct(<<2, 1>>))

(* A record with a constant, contexts and both byte orders; a blob with    *)
(* its length, lazily and eagerly; padding, ignored and fixed-size bytes;  *)
(* a length that later codecs depend on; a value that takes what is left.  *)
MCCodecOf ==
  [record |->
     Context("record",
       Tupled(<<Skip(Context("magic", Constant(Direct(<<3>>))), Context("version", U16)),
                Context("size", U16L)>>)),
   blob |-> VariableSizeBytes(1, Context("length", U8), IdentityBytes),
   vec |-> Context("vec", Eager(VariableSizeBytes(1, Context("length", U8), IdentityBytes))),
   padded |->
     Tupled(<<FixedSizeBytes(2, Context("inner", U8)), Ignore(1),
              Context("rest", FixedSizeBytes(2, VariableSizeBytes(1, U8, IdentityBytes)))>>),
   dependent |->
     FlatPrepend(Context("count", U8),
       [n \in 0 .. 3 |-> <<Context("bytes", Bytes(n)), Context("check", U16L)>>]),
   greedy |-> Tupled(<<U8, IdentityBytes>>)]

MCValues ==
  [record |-> {<<1, 6>>, <<9, 2>>},
   blob |-> {Direct(<<>>), Direct(<<2>>), Three},
   vec |-> {<<3>>, <<1, 2, 3>>},
   padded |-> {<<3, Unit, Direct(<<2>>)>>, <<1, Unit, Direct(<<>>)>>},
   dependent |-> {<<0, Direct(<<>>), 6>>, <<3, Three, 1>>},
   greedy |-> {<<1, Three>>}]

MCTooLong ==
  [record |-> {},
   blob |-> {Four},
   vec |-> {<<1, 2, 2, 1>>},
   padded |-> {<<3, Unit, Direct(<<1, 2>>)>>},
   dependent |-> {<<1, Three, 6>>},
   greedy |-> {}]

(* What codecs are given from elsewhere: all short strings of bytes, as    *)
(* one vector, as a file, or in two parts.                                 *)
Strings == UNION {[1 .. n -> 0 .. Radix - 1] : n \in 0 .. 5}

MCForeign ==
  {FromArray(s) : s \in Strings}
    \cup {File(s, readable) : s \in Strings, readable \in BOOLEAN}
    \cup {AppendNode(Direct(SubSeq(s, 1, 2)), File(SubSeq(s, 3, Len(s)), TRUE)) :
             s \in {t \in Strings : Len(t) > 2}}
    \cup {AppendNode(FromArray(s), Empty) : s \in Strings}

NoForeign == {}
=============================================================================
