---------------------------- MODULE FlattenProofs ----------------------------
(***************************************************************************)
(* What FlattenSeq of the community modules computes: the bytes of a       *)
(* vector are those of its storage values, one after the other.            *)
(*                                                                         *)
(* Its definition is recursive.  The library states induction over Nat     *)
(* for operators; what is used here is the same principle for sets, from   *)
(* the fact that Nat is well-founded.                                      *)
(***************************************************************************)
EXTENDS Integers, Sequences, SequencesExt, WellFoundedInduction, SequenceTheorems, TLAPS

LEMMA LeastElement ==
  ASSUME NEW T, T \subseteq Nat, T # {}
  PROVE  \E m \in T : \A n \in T : m <= n
<1> DEFINE R == {ss \in Nat \X Nat : ss[1] < ss[2]}
<1>1. IsWellFoundedOn(R, Nat)
  <2>1. OpToRel(<, Nat) = R
    BY DEF OpToRel
  <2> QED
    BY <2>1, NatLessThanWellFounded
<1>2. PICK m \in T : \A n \in T : <<n, m>> \notin R
  <2> HIDE DEF R
  <2> QED
    BY <1>1, WFMin
<1>3. ASSUME NEW n \in T PROVE m <= n
  <2>1. <<n, m>> \in Nat \X Nat /\ <<n, m>> \notin R
    BY <1>2
  <2>2. ~ (n < m)
    BY <2>1
  <2> QED
    BY <2>2
<1> QED
  BY <1>3

LEMMA SetInduction ==
  ASSUME NEW T, 0 \in T, \A n \in Nat : n \in T => n + 1 \in T
  PROVE  Nat \subseteq T
<1> SUFFICES ASSUME Nat \ T # {} PROVE FALSE
  OBVIOUS
<1>1. PICK m \in Nat \ T : \A n \in Nat \ T : m <= n
  BY LeastElement
<1>2. m - 1 \in Nat /\ m - 1 \in T /\ (m - 1) + 1 = m
  BY <1>1
<1> QED
  BY <1>1, <1>2

(***************************************************************************)
(* The concatenations of the first n elements of s, for n up to k.         *)
(***************************************************************************)
IsTable(f, s, k) == f[0] = <<>> /\ \A i \in 1 .. k : f[i] = f[i - 1] \o s[i]

LEMMA TableExists ==
  ASSUME NEW S, NEW s \in Seq(Seq(S))
  PROVE  \E f \in [0 .. Len(s) -> Seq(S)] : IsTable(f, s, Len(s))
<1> DEFINE T == {k \in Nat : k <= Len(s) => \E f \in [0 .. k -> Seq(S)] : IsTable(f, s, k)}
<1>1. 0 \in T
  <2>1. [i \in 0 .. 0 |-> <<>>] \in [0 .. 0 -> Seq(S)]
    BY EmptySeq
  <2>2. IsTable([i \in 0 .. 0 |-> <<>>], s, 0)
    BY DEF IsTable
  <2> QED
    BY <2>1, <2>2
<1>2. ASSUME NEW n \in Nat, n \in T, n + 1 <= Len(s)
      PROVE  \E f \in [0 .. n + 1 -> Seq(S)] : IsTable(f, s, n + 1)
  <2>1. PICK f \in [0 .. n -> Seq(S)] : IsTable(f, s, n)
    BY <1>2
  <2> DEFINE x == f[n] \o s[n + 1]
             g == [i \in 0 .. n + 1 |-> IF i = n + 1 THEN x ELSE f[i]]
  <2>2. x \in Seq(S)
    <3>1. n + 1 \in 1 .. Len(s) /\ n \in 0 .. n
      BY <1>2
    <3> QED
      BY <2>1, <3>1, ConcatProperties, ElementOfSeq
  <2> HIDE DEF x
  <2>3. g \in [0 .. n + 1 -> Seq(S)]
    BY <2>1, <2>2
  <2>4. g[0] = <<>> /\ g[n + 1] = x /\ g[n] = f[n]
    <3>1. 0 \in 0 .. n + 1 /\ n \in 0 .. n + 1 /\ n + 1 \in 0 .. n + 1 /\ 0 # n + 1 /\ n # n + 1
      OBVIOUS
    <3>2. f[0] = <<>>
      BY <2>1 DEF IsTable
    <3> QED
      BY <3>1, <3>2
  <2>5. ASSUME NEW i \in 1 .. n PROVE g[i] = g[i - 1] \o s[i]
    <3>1. g[i] = f[i] /\ g[i - 1] = f[i - 1]
      OBVIOUS
    <3> QED
      BY <2>1, <3>1 DEF IsTable
  <2>6. \A i \in 1 .. n + 1 : i \in 1 .. n \/ (i = n + 1 /\ i - 1 = n)
    OBVIOUS
  <2> HIDE DEF g
  <2>7. IsTable(g, s, n + 1)
    BY <2>4, <2>5, <2>6 DEF IsTable, x
  <2> QED
    BY <2>3, <2>7
<1>3. Nat \subseteq T
  <2>1. ASSUME NEW n \in Nat, n \in T PROVE n + 1 \in T
    <3>1. n + 1 <= Len(s) => \E f \in [0 .. n + 1 -> Seq(S)] : IsTable(f, s, n + 1)
      <4> HIDE DEF T
      <4> QED
        BY <1>2, <2>1
    <3> QED
      BY <3>1
  <2> HIDE DEF T
  <2> QED
    BY <1>1, <2>1, SetInduction
<1>4. Len(s) \in T
  BY <1>3, LenProperties
<1> QED
  BY <1>4

LEMMA FlattenTable ==
  ASSUME NEW S, NEW s \in Seq(Seq(S)),
         NEW f \in [0 .. Len(s) -> Seq(S)], IsTable(f, s, Len(s)),
         NEW n \in 0 .. Len(s)
  PROVE  FlattenSeq(SubSeq(s, 1, n)) = f[n]
<1> DEFINE r == SubSeq(s, 1, n)
<1>0. Len(s) \in Nat /\ n \in Nat
  BY LenProperties
<1>1. CASE n = 0
  <2>1. r = <<>>
    BY <1>1, SubSeqEmpty
  <2>2. FlattenSeq(<<>>) = <<>>
    BY DEF FlattenSeq
  <2> QED
    BY <1>1, <2>1, <2>2 DEF IsTable
<1>2. CASE n # 0
  <2>1. Len(r) = n /\ \A i \in 1 .. n : r[i] = s[i]
    BY <1>0, LenProperties
  <2> DEFINE Right(h) == h = [i \in 1 .. Len(r) |-> IF i = 1 THEN r[i] ELSE h[i - 1] \o r[i]]
             g == [i \in 1 .. n |-> f[i]]
  <2>2. FlattenSeq(r) = (CHOOSE h : Right(h))[Len(r)]
    <3> HIDE DEF r
    <3> QED
      BY <1>2, <2>1 DEF FlattenSeq
  <2>3. Right(g)
    <3>1. ASSUME NEW i \in 1 .. n PROVE g[i] = IF i = 1 THEN s[i] ELSE g[i - 1] \o s[i]
      <4>0. i \in 1 .. Len(s)
        BY <1>0
      <4>1. f[i] = f[i - 1] \o s[i]
        BY <4>0 DEF IsTable
      <4>2. CASE i = 1
        <5>1. f[i - 1] = <<>>
          BY <4>2 DEF IsTable
        <5>2. s[i] \in Seq(S)
          BY <1>0, ElementOfSeq
        <5> QED
          BY <4>1, <4>2, <5>1, <5>2, ConcatEmptySeq
      <4>3. CASE i # 1
        <5>1. i - 1 \in 1 .. n
          BY <1>0, <4>3
        <5>2. g[i - 1] = f[i - 1]
          BY <5>1
        <5> QED
          BY <4>1, <4>3, <5>2
      <4> QED
        BY <4>2, <4>3
    <3> HIDE DEF r
    <3>2. \A i \in 1 .. n : g[i] = IF i = 1 THEN r[i] ELSE g[i - 1] \o r[i]
      BY <2>1, <3>1
    <3> QED
      BY <2>1, <3>2
  <2>4. PICK h : Right(h) /\ FlattenSeq(r) = h[n]
    <3> HIDE DEF Right, r
    <3> QED
      BY <2>1, <2>2, <2>3
  <2>5. \A i \in 1 .. n : h[i] = IF i = 1 THEN s[i] ELSE h[i - 1] \o s[i]
    <3> HIDE DEF r
    <3> QED
      BY <2>1, <2>4
  <2> DEFINE T == {k \in Nat : k + 1 <= n => h[k + 1] = f[k + 1]}
  <2>6. 0 \in T
    <3>0. 1 \in 1 .. Len(s) /\ 1 - 1 = 0
      BY <1>0, <1>2
    <3>1. f[1] = <<>> \o s[1] /\ s[1] \in Seq(S)
      BY <3>0, ElementOfSeq DEF IsTable
    <3>2. h[1] = s[1]
      BY <1>0, <1>2, <2>5
    <3> QED
      BY <3>1, <3>2, ConcatEmptySeq
  <2>7. ASSUME NEW k \in Nat, k \in T PROVE k + 1 \in T
    <3>1. SUFFICES ASSUME (k + 1) + 1 <= n PROVE h[(k + 1) + 1] = f[(k + 1) + 1]
      BY <2>7
    <3>2. h[k + 1] = f[k + 1]
      BY <2>7, <3>1, <1>0
    <3>3. (k + 1) + 1 \in 1 .. n /\ (k + 1) + 1 # 1 /\ ((k + 1) + 1) - 1 = k + 1
          /\ (k + 1) + 1 \in 1 .. Len(s)
      BY <3>1, <1>0
    <3>4. h[(k + 1) + 1] = h[k + 1] \o s[(k + 1) + 1]
      BY <2>5, <3>3
    <3>5. f[(k + 1) + 1] = f[k + 1] \o s[(k + 1) + 1]
      BY <3>3 DEF IsTable
    <3> QED
      BY <3>2, <3>4, <3>5
  <2>8. Nat \subseteq T
    <3> HIDE DEF T
    <3> QED
      BY <2>6, <2>7, SetInduction
  <2>9. n - 1 \in T /\ (n - 1) + 1 = n
    <3>1. n - 1 \in Nat /\ (n - 1) + 1 = n
      BY <1>0, <1>2
    <3> HIDE DEF T
    <3> QED
      BY <2>8, <3>1
  <2>10. h[n] = f[n]
    BY <2>9, <1>0
  <2> QED
    BY <2>4, <2>10
<1> QED
  BY <1>1, <1>2

(***************************************************************************)
(* The facts that proofs about gathered bytes use.                         *)
(***************************************************************************)
LEMMA FlattenNothing == \A s : FlattenSeq(SubSeq(s, 1, 0)) = <<>>
<1>1. \A s : SubSeq(s, 1, 0) = <<>>
  BY SubSeqEmpty
<1> QED
  BY <1>1 DEF FlattenSeq

LEMMA FlattenPart ==
  ASSUME NEW S, NEW s \in Seq(Seq(S)), NEW n \in 0 .. Len(s)
  PROVE  FlattenSeq(SubSeq(s, 1, n)) \in Seq(S)
<1>1. PICK f \in [0 .. Len(s) -> Seq(S)] : IsTable(f, s, Len(s))
  BY TableExists
<1> QED
  BY <1>1, FlattenTable

LEMMA FlattenNext ==
  ASSUME NEW S, NEW s \in Seq(Seq(S)), NEW n \in 1 .. Len(s)
  PROVE  FlattenSeq(SubSeq(s, 1, n)) = FlattenSeq(SubSeq(s, 1, n - 1)) \o s[n]
<1>1. PICK f \in [0 .. Len(s) -> Seq(S)] : IsTable(f, s, Len(s))
  BY TableExists
<1>2. n \in 0 .. Len(s) /\ n - 1 \in 0 .. Len(s)
  BY LenProperties
<1>3. FlattenSeq(SubSeq(s, 1, n)) = f[n] /\ FlattenSeq(SubSeq(s, 1, n - 1)) = f[n - 1]
  BY <1>1, <1>2, FlattenTable
<1> QED
  BY <1>1, <1>3 DEF IsTable

LEMMA FlattenAll ==
  ASSUME NEW S, NEW s \in Seq(Seq(S))
  PROVE  /\ FlattenSeq(SubSeq(s, 1, Len(s))) = FlattenSeq(s)
         /\ FlattenSeq(s) \in Seq(S)
<1>1. SubSeq(s, 1, Len(s)) = s /\ Len(s) \in 0 .. Len(s)
  BY SubSeqFull, LenProperties
<1> QED
  BY <1>1, FlattenPart

LEMMA FlattenOne ==
  ASSUME NEW S, NEW s \in Seq(Seq(S)), Len(s) = 1
  PROVE  FlattenSeq(s) = s[1] /\ s[1] \in Seq(S)
<1>1. PICK n : n = 1
  OBVIOUS
<1>2. n \in 1 .. Len(s) /\ n - 1 = 0 /\ n = Len(s)
  BY <1>1
<1>3. FlattenSeq(SubSeq(s, 1, n)) = FlattenSeq(SubSeq(s, 1, n - 1)) \o s[n]
  BY <1>2, FlattenNext
<1>4. FlattenSeq(SubSeq(s, 1, n - 1)) = <<>>
  BY <1>2, FlattenNothing
<1>5. s[n] \in Seq(S)
  BY <1>2
<1>6. FlattenSeq(SubSeq(s, 1, n)) = s[n]
  <2>1. <<>> \o s[n] = s[n]
    BY <1>5
  <2> QED
    BY <1>3, <1>4, <2>1
<1>7. FlattenSeq(SubSeq(s, 1, n)) = FlattenSeq(s)
  BY <1>2, FlattenAll
<1> QED
  BY <1>1, <1>5, <1>6, <1>7

Joined(s, a, b) == s = a \o b

LEMMA JoinedAssociative ==
  ASSUME NEW S, NEW a \in Seq(S), NEW b \in Seq(S), NEW c \in Seq(S), NEW ab, NEW bc, NEW abc,
         Joined(ab, a, b), Joined(bc, b, c)
  PROVE  Joined(abc, ab, c) <=> Joined(abc, a, bc)
<1>1. (a \o b) \o c = a \o (b \o c)
  OBVIOUS
<1> QED
  BY <1>1 DEF Joined

LEMMA FlattenPrefix ==
  ASSUME NEW S, NEW s \in Seq(Seq(S)), NEW n \in 0 .. Len(s)
  PROVE  \E rest \in Seq(S) : FlattenSeq(s) = FlattenSeq(SubSeq(s, 1, n)) \o rest
<1>0. n \in Nat /\ Len(s) \in Nat /\ n + 0 = n
  BY LenProperties
<1>1. PICK f \in [0 .. Len(s) -> Seq(S)] : IsTable(f, s, Len(s))
  BY TableExists
<1> DEFINE Extends(m) == \E rest \in Seq(S) : f[m] = f[n] \o rest
           T == {m \in Nat : n <= m /\ m <= Len(s) => Extends(m)}
<1>2. Extends(n)
  <2>1. f[n] = f[n] \o <<>> /\ <<>> \in Seq(S)
    BY ConcatEmptySeq, EmptySeq
  <2> QED
    BY <2>1
<1>3. ASSUME NEW m \in Nat, Extends(m), m + 1 <= Len(s) PROVE Extends(m + 1)
  <2>1. PICK rest \in Seq(S) : f[m] = f[n] \o rest
    BY <1>3
  <2>2. m + 1 \in 1 .. Len(s) /\ (m + 1) - 1 = m
    BY <1>0, <1>3
  <2>3. f[m + 1] = f[m] \o s[m + 1]
    BY <1>1, <2>2 DEF IsTable
  <2> DEFINE x == f[n]
             y == s[m + 1]
  <2>4. x \in Seq(S) /\ y \in Seq(S)
    BY <2>2, ElementOfSeq
  <2>5. PICK more : more = rest \o y
    OBVIOUS
  <2>6. Joined(f[m], x, rest) /\ Joined(f[m + 1], f[m], y) /\ Joined(more, rest, y)
    BY <2>1, <2>3, <2>5 DEF Joined
  <2> HIDE DEF x, y
  <2>7. Joined(f[m + 1], x, more)
    BY <2>1, <2>4, <2>6, JoinedAssociative
  <2>8. more \in Seq(S)
    BY <2>1, <2>4, <2>5, ConcatProperties
  <2> QED
    BY <2>7, <2>8 DEF Joined, x
<1> HIDE DEF Extends
<1>4. Nat \subseteq T
  <2>1. 0 \in T
    <3>1. n <= 0 => n = 0
      BY <1>0
    <3> QED
      BY <1>2, <3>1
  <2>2. ASSUME NEW m \in Nat, m \in T PROVE m + 1 \in T
    <3>1. n <= m /\ m + 1 <= Len(s) => Extends(m + 1)
      BY <1>0, <1>3, <2>2
    <3>2. n <= m + 1 => n <= m \/ n = m + 1
      BY <1>0
    <3> QED
      BY <1>2, <3>1, <3>2
  <2> HIDE DEF T
  <2> QED
    BY <2>1, <2>2, SetInduction
<1>5. Extends(Len(s))
  BY <1>0, <1>4
<1>6. /\ FlattenSeq(SubSeq(s, 1, n)) = f[n]
      /\ FlattenSeq(SubSeq(s, 1, Len(s))) = f[Len(s)]
  <2>1. Len(s) \in 0 .. Len(s)
    BY <1>0
  <2> QED
    BY <1>1, <2>1, FlattenTable
<1> QED
  BY <1>5, <1>6, FlattenAll DEF Extends
=============================================================================
