------------------------- MODULE NSDataValuesProofs -------------------------
(***************************************************************************)
(* NSDataBridge implements DataValues: vectors and NSData objects behave   *)
(* as values.                                                              *)
(***************************************************************************)
EXTENDS NSDataGatherProofs

(***************************************************************************)
(* What a call is about to put into its pointer: the result of toNSData,   *)
(* which nobody can change, or what another pointer references, which no   *)
(* other call touches.                                                     *)
(***************************************************************************)
PutsResult(t) ==
  pc[t] \in Puts /\ call[t].vector # NULL =>
    /\ call[t].source = <<t, "returnValue">> /\ <<t, "returnValue">> \in DOMAIN heap.ref
    /\ object[heap.ref[<<t, "returnValue">>]].kind # "mutableData"

PutsPointer(t) ==
  pc[t] \in Puts /\ call[t].vector = NULL =>
    \E q \in Pointer : call[t].source = <<q, "_target">>

Retained(t) ==
  pc[t] = "release" =>
    Ref(t, "target") = Source(t) /\ call[t].source # <<call[t].pointer, "_target">>

FailsOnFile(t) == pc[t] = "fail" => HasFile(call[t].vector)

Effect(t) == PutsResult(t) /\ PutsPointer(t) /\ Retained(t) /\ FailsOnFile(t)

(* No call writes to the pointer that another one assigns.                 *)
Apart ==
  \A t, u \in Thread :
    /\ pc[t] \in Puts /\ call[u].pointer # NULL
    /\ call[t].source = <<call[u].pointer, "_target">>
    => t = u

VInv == Apart /\ \A t \in Thread : Effect(t)

(* A pointer that is assigned stays what it is until it is.                *)
LEMMA AssignedKept ==
  ASSUME IInv, Apart, NEW u \in Thread, pc[u] \in Puts, pc'[u] = pc[u],
         NEW q \in Pointer, call[u].source = <<q, "_target">>
  PROVE  ~Repoints(q)
<1>1. InUse(q)
  BY DEF InUse
<1>2. ASSUME NEW w \in Thread, call[w].pointer = q, PutRelease(w) \/ PutStore(w)
      PROVE  FALSE
  <2>1. q # NULL
    BY OwnersApart
  <2>2. w = u
    BY <1>2, <2>1 DEF Apart
  <2> QED
    BY <1>2, <2>2 DEF PutRelease, PutStore, Return, At, IInv, TypeOK
<1> QED
  BY <1>1, <1>2 DEF Repoints, NewData, DestroyPointer

LEMMA SourceKept ==
  ASSUME IInv, VInv, NEW S, StepKeeps(S), \A q \in Pointer : <<q, "_target">> \notin S,
         NEW u \in Thread, <<u, "returnValue">> \notin S,
         pc[u] \in Puts, pc'[u] = pc[u], call'[u] = call[u]
  PROVE  Source(u)' = Source(u)
<1>0. PutsResult(u) /\ PutsPointer(u)
  BY DEF VInv, Effect
<1>1. PICK slot : slot = call[u].source
  OBVIOUS
<1>2. slot \notin S /\ slot \notin PointerSlots /\ slot \notin Unused \X Field
  <2>1. CASE call[u].vector # NULL
    <3>1. slot = <<u, "returnValue">>
      BY <1>0, <1>1, <2>1 DEF PutsResult
    <3> QED
      BY <3>1, OwnersApart DEF PointerSlots, Unused
  <2>2. CASE call[u].vector = NULL
    <3>1. PICK q \in Pointer : slot = <<q, "_target">>
      BY <1>0, <1>1, <2>2 DEF PutsPointer
    <3>2. ~Repoints(q)
      BY <1>1, <3>1, AssignedKept DEF VInv
    <3> QED
      BY <3>1, <3>2, OwnersApart DEF PointerSlots, Unused
  <2> QED
    BY <2>1, <2>2
<1>3. slot \in DOMAIN heap'.ref <=> slot \in DOMAIN heap.ref
  BY <1>2 DEF StepKeeps, SameOutside
<1>4. slot \in DOMAIN heap.ref => heap'.ref[slot] = heap.ref[slot]
  BY <1>2 DEF StepKeeps, SameOutside
<1> QED
  BY <1>1, <1>3, <1>4 DEF Source, Target

(* A step that leaves a call alone.                                        *)
LEMMA EffectKept ==
  ASSUME IInv, VInv, NEW S, StepKeeps(S), \A q \in Pointer : <<q, "_target">> \notin S,
         NEW u \in Thread, \A name : <<u, name>> \notin S,
         pc'[u] = pc[u], call'[u] = call[u],
         call[u].vector \in Vector => vector'[call[u].vector] = vector[call[u].vector]
  PROVE  Effect(u)'
<1>0. Effect(u)
  BY DEF VInv
<1>1. PutsResult(u)'
  <2> SUFFICES ASSUME pc[u] \in Puts, call[u].vector # NULL
               PROVE  /\ <<u, "returnValue">> \in DOMAIN heap'.ref
                      /\ object'[heap'.ref[<<u, "returnValue">>]].kind # "mutableData"
    BY <1>0 DEF PutsResult, Effect
  <2> QED
    BY <1>0, LocalKept DEF PutsResult, Effect
<1>2. PutsPointer(u)'
  BY <1>0 DEF PutsPointer, Effect
<1>3. Retained(u)'
  <2> SUFFICES ASSUME pc[u] = "release" PROVE Ref(u, "target")' = Source(u)'
    BY <1>0 DEF Retained, Effect
  <2>1. Ref(u, "target")' = Ref(u, "target")
    BY LocalKept DEF Ref, Target
  <2>2. Source(u)' = Source(u)
    BY SourceKept DEF Puts
  <2> QED
    BY <1>0, <2>1, <2>2 DEF Retained, Effect
<1>4. FailsOnFile(u)'
  BY <1>0 DEF FailsOnFile, Effect, HasFile, IInv, CallsOK
<1> QED
  BY <1>1, <1>2, <1>3, <1>4 DEF Effect

(* A step outside of the calls.                                            *)
LEMMA OutsideVInv ==
  ASSUME IInv, VInv, NEW S, StepKeeps(S), \A u \in Thread : \A name : <<u, name>> \notin S,
         \A q \in Pointer : <<q, "_target">> \notin S,
         UNCHANGED <<pc, call>>,
         \A v \in Vector : Reading(v) => vector'[v] = vector[v]
  PROVE  VInv'
<1>1. ASSUME NEW u \in Thread PROVE Effect(u)'
  <2>1. call[u].vector \in Vector => vector'[call[u].vector] = vector[call[u].vector]
    BY DEF Reading
  <2> QED
    BY <2>1, EffectKept
<1>2. Apart'
  BY DEF VInv, Apart
<1> QED
  BY <1>1, <1>2 DEF VInv

(* A step of the call of t, of which the rest is shown for t.              *)
LEMMA CallVInv ==
  ASSUME IInv, VInv, NEW t \in Thread, StepKeeps({t} \X Local), UNCHANGED vector,
         \A u \in Thread \ {t} : pc'[u] = pc[u] /\ call'[u] = call[u],
         Effect(t)',
         \A u \in Thread \ {t} : pc'[t] \in Puts /\ call[u].pointer # NULL =>
           call'[t].source # <<call[u].pointer, "_target">>,
         \A u \in Thread \ {t} : pc[u] \in Puts /\ call'[t].pointer # NULL =>
           call[u].source # <<call'[t].pointer, "_target">>
  PROVE  VInv'
<1>1. ASSUME NEW u \in Thread \ {t} PROVE Effect(u)'
  <2> DEFINE S == {t} \X Local
  <2>1. /\ \A q \in Pointer : <<q, "_target">> \notin S
        /\ \A name : <<u, name>> \notin S
    BY OwnersApart
  <2> HIDE DEF S
  <2> QED
    BY <2>1, EffectKept DEF S
<1>2. Apart'
  BY DEF VInv, Apart
<1> QED
  BY <1>1, <1>2 DEF VInv

(* The same, when t is not about to put anything into its pointer.         *)
LEMMA QuietVInv ==
  ASSUME IInv, VInv, NEW t \in Thread, StepKeeps({t} \X Local), UNCHANGED vector,
         \A u \in Thread \ {t} : pc'[u] = pc[u] /\ call'[u] = call[u],
         pc'[t] \notin Puts, FailsOnFile(t)',
         call'[t].pointer \in {NULL, call[t].pointer}
  PROVE  VInv'
<1>1. Effect(t)'
  BY DEF Effect, PutsResult, PutsPointer, Retained, Puts
<1>2. \A u \in Thread \ {t} : pc[u] \in Puts /\ call'[t].pointer # NULL =>
        call[u].source # <<call'[t].pointer, "_target">>
  BY DEF VInv, Apart
<1> QED
  BY <1>1, <1>2, CallVInv

(***************************************************************************)
(* Each step of a call.                                                    *)
(***************************************************************************)

(* What iterate() leaves alone of a call.                                  *)
SameCall(c, d) ==
  c.vector = d.vector /\ c.pointer = d.pointer /\ c.source = d.source /\ c.lost = d.lost

LEMMA IterationSame ==
  ASSUME NEW c \in Call
  PROVE  /\ \A i : SameCall(AtItem(c, i), c)
         /\ SameCall(AtNextChunk(c), c)
<1>1. ASSUME NEW i PROVE SameCall(AtItem(c, i), c)
  BY DEF SameCall, AtItem, Call
<1>2. SameCall([c EXCEPT !.chunk = @ + 1, !.again = FALSE], c)
  BY DEF SameCall, Call
<1> QED
  BY <1>1, <1>2 DEF AtNextChunk

LEMMA CountedSame ==
  ASSUME NEW t \in Thread, call[t] \in Call
  PROVE  SameCall(AtNextChunk(Counted(t)), call[t])
<1>1. ASSUME NEW c \in Call, NEW n, NEW m
      PROVE  LET d == [c EXCEPT !.toSkip = n, !.toPass = m]
             IN  /\ SameCall(d, c)
                 /\ \A i : SameCall(AtItem(d, i), c)
                 /\ SameCall(AtNextChunk(d), c)
  <2>1. PICK d : d = [c EXCEPT !.toSkip = n, !.toPass = m]
    OBVIOUS
  <2>2. SameCall(d, c)
    BY <2>1 DEF SameCall, Call
  <2>3. ASSUME NEW i PROVE SameCall(AtItem(d, i), c)
    BY <2>1 DEF SameCall, AtItem, Call
  <2>4. SameCall([d EXCEPT !.chunk = @ + 1, !.again = FALSE], c)
    BY <2>1 DEF SameCall, Call
  <2>5. SameCall(AtNextChunk(d), c)
    BY <2>3, <2>4 DEF AtNextChunk
  <2> QED
    BY <2>1, <2>2, <2>3, <2>5
<1>2. PICK n, m : Counted(t) = [call[t] EXCEPT !.toSkip = n, !.toPass = m]
  <2>1. CASE Skipped(t)
    <3>1. PICK n : n = IF Remaining(t) <= 0 THEN -Remaining(t) ELSE 0
      OBVIOUS
    <3>2. Counted(t) = [call[t] EXCEPT !.toSkip = n]
      BY <2>1, <3>1 DEF Counted
    <3>3. [call[t] EXCEPT !.toSkip = n] = [call[t] EXCEPT !.toSkip = n, !.toPass = call[t].toPass]
      BY DEF Call
    <3> QED
      BY <3>2, <3>3
  <2>2. CASE ~Skipped(t)
    <3>1. PICK n, m : /\ n = IF PassesAgain(t) THEN call[t].toSkip ELSE 0
                      /\ m = call[t].toPass - Passed(t)
      OBVIOUS
    <3>2. Counted(t) = [call[t] EXCEPT !.toSkip = IF PassesAgain(t) THEN @ ELSE 0,
                                       !.toPass = @ - Passed(t)]
      BY <2>2 DEF Counted
    <3>3. [call[t] EXCEPT !.toSkip = IF PassesAgain(t) THEN @ ELSE 0,
                          !.toPass = @ - Passed(t)]
          = [call[t] EXCEPT !.toSkip = n, !.toPass = m]
      BY <3>1 DEF Call
    <3> QED
      BY <3>2, <3>3
  <2> QED
    BY <2>1, <2>2
<1> QED
  BY <1>1, <1>2

(* Until the end of iterate(), a call keeps what it is a call of.          *)
LEMMA Iterates ==
  ASSUME IInv, CInv, NEW t \in Thread,
         CopyBuffered(t) \/ CopyDirectValue(t) \/ ReadFile(t) \/ Deliver(t)
  PROVE  /\ pc[t] \in {"iterate", "deliver"} /\ pc'[t] \in {"iterate", "deliver"}
         /\ SameCall(call'[t], call[t])
<1>0. pc \in [Thread -> Place] /\ call \in [Thread -> Call]
  BY DEF IInv, TypeOK
<1>1. CASE CopyBuffered(t) \/ CopyDirectValue(t) \/ ReadFile(t)
  BY <1>0, <1>1 DEF CopyBuffered, CopyDirectValue, ReadFile, At, SameCall
<1>2. CASE Deliver(t)
  <2>1. pc[t] = "deliver"
    BY <1>2 DEF Deliver, At
  <2>2. ~PassesAgain(t)
    BY <2>1, PassedPlain DEF CInv
  <2>3. /\ call' = [call EXCEPT ![t] = AtNextChunk(Counted(t))]
        /\ pc' = [pc EXCEPT ![t] = "iterate"]
    BY <1>2, <2>2 DEF Deliver
  <2> QED
    BY <1>0, <2>1, <2>3, CountedSame
<1> QED
  BY <1>1, <1>2

(* A file cannot be read: the error is returned, or lost.                  *)
LEMMA ReadFailsHow ==
  ASSUME IInv, NEW t \in Thread, ReadFails(t)
  PROVE  /\ pc[t] = "iterate" /\ call[t].vector \in Vector /\ HasFile(call[t].vector)
         /\ \/ pc'[t] = "fail" /\ UNCHANGED call
            \/ /\ pc'[t] = "iterate" /\ call'[t].lost
               /\ call'[t].vector = call[t].vector /\ call'[t].pointer = call[t].pointer
<1>0. pc \in [Thread -> Place] /\ call \in [Thread -> Call]
  BY DEF IInv, TypeOK
<1>1. pc[t] = "iterate" /\ More(t) /\ ItemOf(call[t]).kind = "File"
  BY DEF ReadFails, At
<1>2. call[t].vector \in Vector /\ HasFile(call[t].vector)
  BY <1>1, ItemRead DEF HasFile, ItemOf
<1>3. CASE ErrorReturned(call[t])
  BY <1>0, <1>1, <1>2, <1>3 DEF ReadFails
<1>4. CASE ~ErrorReturned(call[t])
  <2>1. call' = [call EXCEPT ![t] = AfterError(@)] /\ UNCHANGED pc
    BY <1>4 DEF ReadFails
  <2>2. PICK c : c = [call[t] EXCEPT !.lost = TRUE]
    OBVIOUS
  <2>3. c \in Call /\ c.lost /\ c.vector = call[t].vector /\ c.pointer = call[t].pointer
    BY <1>0, <2>2 DEF Call
  <2>4. \A i : SameCall(AtItem(c, i), c)
    BY <2>3, IterationSame
  <2>5. \E i : AfterError(call[t]) = AtItem(c, i)
    BY <2>2 DEF AfterError
  <2> QED
    BY <1>0, <1>1, <1>2, <2>1, <2>3, <2>4, <2>5 DEF SameCall
<1> QED
  BY <1>3, <1>4

(***************************************************************************)
(* VInv is kept.                                                           *)
(***************************************************************************)
LEMMA ToNSDataVInv ==
  ASSUME IInv, VInv, NEW t \in Thread, NEW v \in Vector, NEW p \in Pointer, ToNSData(t, v, p)
  PROVE  VInv'
<1>1. /\ StepKeeps({t} \X Local) /\ UNCHANGED vector /\ ~InUse(p)
      /\ \A u \in Thread \ {t} : pc'[u] = pc[u] /\ call'[u] = call[u]
      /\ pc'[t] = "iterate"
      /\ call'[t] = AtItem([Idle EXCEPT !.vector = v, !.pointer = p], 1)
  BY NoMemoryKeeps DEF ToNSData, At, IInv, TypeOK
<1>2. call'[t].pointer = p
  <2>1. PICK c : c = [Idle EXCEPT !.vector = v, !.pointer = p]
    OBVIOUS
  <2>2. c \in Call /\ c.pointer = p
    BY <2>1, IdleIsACall DEF Call
  <2>3. AtItem(c, 1).pointer = p
    BY <2>2, IterationSame DEF SameCall
  <2> QED
    BY <1>1, <2>1, <2>3
<1>3. Effect(t)' /\ pc'[t] \notin Puts
  BY <1>1 DEF Effect, PutsResult, PutsPointer, Retained, FailsOnFile, Puts
<1>4. \A u \in Thread \ {t} : call[u].source # <<call'[t].pointer, "_target">>
  BY <1>1, <1>2 DEF InUse
<1> QED
  BY <1>1, <1>3, <1>4, CallVInv

LEMMA AssignVInv ==
  ASSUME IInv, VInv, NEW t \in Thread, NEW p \in Pointer, NEW q \in Pointer, Assign(t, p, q)
  PROVE  VInv'
<1>1. /\ StepKeeps({t} \X Local) /\ UNCHANGED vector /\ ~InUse(p) /\ ~InUse(q)
      /\ \A u \in Thread \ {t} : pc'[u] = pc[u] /\ call'[u] = call[u]
      /\ pc'[t] = "put"
      /\ call'[t] = [Idle EXCEPT !.pointer = p, !.source = <<q, "_target">>]
  BY NoMemoryKeeps DEF Assign, At, IInv, TypeOK
<1>2. /\ call'[t].vector = NULL /\ call'[t].pointer = p
      /\ call'[t].source = <<q, "_target">>
  BY <1>1 DEF Idle
<1>3. Effect(t)'
  BY <1>1, <1>2 DEF Effect, PutsResult, PutsPointer, Retained, FailsOnFile
<1>4. /\ \A u \in Thread \ {t} : call'[t].source # <<call[u].pointer, "_target">>
      /\ \A u \in Thread \ {t} : call[u].source # <<call'[t].pointer, "_target">>
  BY <1>1, <1>2 DEF InUse
<1> QED
  BY <1>1, <1>3, <1>4, CallVInv

LEMMA IterateKeeps ==
  ASSUME IInv, CInv, NEW t \in Thread,
         CopyBuffered(t) \/ CopyDirectValue(t) \/ ReadFile(t) \/ Deliver(t)
  PROVE  /\ StepKeeps({t} \X Local) /\ UNCHANGED vector
         /\ \A u \in Thread \ {t} : pc'[u] = pc[u] /\ call'[u] = call[u]
<1>1. CASE Deliver(t)
  BY <1>1, OtherStepKeeps
<1>2. CASE CopyBuffered(t) \/ CopyDirectValue(t) \/ ReadFile(t)
  <2>1. StepKeeps({<<t, "copy">>})
    BY <1>2, CopyBufferedKeeps, PlainCopyKeeps DEF CInv, CopyDirectValue, ReadFile
  <2>2. PICK S, T : S = {<<t, "copy">>} /\ T = {t} \X Local
    OBVIOUS
  <2>3. StepKeeps(S) /\ S \subseteq T
    BY <2>1, <2>2 DEF Local
  <2>4. StepKeeps(T)
    BY <2>3, KeepsMore
  <2> QED
    BY <1>2, <2>2, <2>4 DEF CopyBuffered, CopyDirectValue, ReadFile, IInv, TypeOK
<1> QED
  BY <1>1, <1>2

LEMMA IteratesVInv ==
  ASSUME IInv, CInv, VInv, NEW t \in Thread,
         CopyBuffered(t) \/ CopyDirectValue(t) \/ ReadFile(t) \/ Deliver(t)
  PROVE  VInv'
<1>1. pc'[t] \in {"iterate", "deliver"} /\ call'[t].pointer = call[t].pointer
  BY Iterates DEF SameCall
<1>2. pc'[t] \notin Puts /\ FailsOnFile(t)'
  BY <1>1 DEF Puts, FailsOnFile
<1>3. /\ StepKeeps({t} \X Local) /\ UNCHANGED vector
      /\ \A u \in Thread \ {t} : pc'[u] = pc[u] /\ call'[u] = call[u]
  BY IterateKeeps
<1> QED
  BY <1>1, <1>2, <1>3, QuietVInv

LEMMA ReadFailsVInv ==
  ASSUME IInv, CInv, VInv, NEW t \in Thread, ReadFails(t)
  PROVE  VInv'
<1>1. /\ StepKeeps({t} \X Local) /\ UNCHANGED vector
      /\ \A u \in Thread \ {t} : pc'[u] = pc[u] /\ call'[u] = call[u]
  BY OtherStepKeeps
<1>2. pc'[t] \notin Puts /\ call'[t].pointer = call[t].pointer /\ FailsOnFile(t)'
  BY <1>1, ReadFailsHow DEF Puts, FailsOnFile, HasFile
<1> QED
  BY <1>1, <1>2, QuietVInv

LEMMA DoneVInv ==
  ASSUME IInv, CInv, VInv, NEW t \in Thread, ReturnError(t) \/ PutSame(t) \/ PutStore(t)
  PROVE  VInv'
<1>1. /\ StepKeeps({t} \X Local) /\ UNCHANGED vector
      /\ \A u \in Thread \ {t} : pc'[u] = pc[u] /\ call'[u] = call[u]
  BY OtherStepKeeps
<1>2. pc'[t] = "idle" /\ call'[t] = Idle
  BY DEF ReturnError, PutSame, PutStore, Return, IInv, TypeOK
<1>3. pc'[t] \notin Puts /\ FailsOnFile(t)' /\ call'[t].pointer = NULL
  BY <1>2 DEF Puts, FailsOnFile, Idle
<1> QED
  BY <1>1, <1>3, QuietVInv

LEMMA ReturnsVInv ==
  ASSUME IInv, CInv, GInv, VInv, NEW t \in Thread, ReturnData(t) \/ ReturnNoData(t)
  PROVE  VInv'
<1> DEFINE slot == <<t, "returnValue">>
<1>1. /\ StepKeeps({t} \X Local) /\ UNCHANGED vector
      /\ \A u \in Thread \ {t} : pc'[u] = pc[u] /\ call'[u] = call[u]
  BY OtherStepKeeps
<1>2. /\ pc[t] = "iterate" /\ pc'[t] = "put"
      /\ call'[t].vector = call[t].vector /\ call'[t].pointer = call[t].pointer
      /\ call'[t].source = slot /\ call[t].vector \in Vector
  <2>1. /\ pc[t] = "iterate" /\ pc' = [pc EXCEPT ![t] = "put"]
        /\ call' = [call EXCEPT ![t].source = slot]
    BY DEF ReturnData, ReturnNoData, At
  <2>2. call \in [Thread -> Call] /\ pc \in [Thread -> Place] /\ call[t].vector \in Vector
    BY <2>1, InCall DEF IInv, TypeOK
  <2> QED
    BY <2>1, <2>2 DEF Call
<1>3. slot \in DOMAIN heap'.ref /\ object'[heap'.ref[slot]].kind # "mutableData"
  <2>1. CASE ReturnData(t)
    <3>1. PICK o, data : o = heap.ref[data] /\ data = <<t, "data">>
      OBVIOUS
    <3>2. /\ UNCHANGED object /\ data \in DOMAIN heap.ref /\ heap'.ref[slot] = o
      BY <2>1, <3>1, ReturnDataKeeps
    <3>3. object[o].kind # "mutableData"
      BY <3>1, <3>2 DEF GInv, GathersData
    <3>4. slot \in DOMAIN heap'.ref
      <4>1. heap' = Release(Retain(heap, slot, Ref(t, "data")), data) /\ slot # data
        BY <2>1, <3>1 DEF ReturnData
      <4> HIDE DEF slot
      <4> QED
        BY <4>1 DEF Release, Retain, Clear, Restrict, Set
    <3> QED
      BY <3>2, <3>3, <3>4
  <2>2. CASE ReturnNoData(t)
    <3>1. object'[heap'.ref[slot]].kind = "data"
      BY <2>2, ReturnNoDataKeeps
    <3>2. slot \in DOMAIN heap'.ref
      <4>1. \E d : heap' = Retain(heap, slot, d)
        BY <2>2 DEF ReturnNoData
      <4> HIDE DEF slot
      <4> QED
        BY <4>1 DEF Retain, Set
    <3> QED
      BY <3>1, <3>2
  <2> QED
    BY <2>1, <2>2
<1>4. Effect(t)'
  <2>1. call'[t].vector # NULL
    BY <1>2, OwnersApart
  <2> QED
    BY <1>2, <1>3, <2>1 DEF Effect, PutsResult, PutsPointer, Retained, FailsOnFile
<1>5. /\ \A u \in Thread \ {t} : call'[t].source # <<call[u].pointer, "_target">>
      /\ \A u \in Thread \ {t} : pc[u] \in Puts /\ call'[t].pointer # NULL =>
           call[u].source # <<call'[t].pointer, "_target">>
  BY <1>2 DEF VInv, Apart
<1> QED
  BY <1>1, <1>4, <1>5, CallVInv

LEMMA PutRetainVInv ==
  ASSUME IInv, CInv, VInv, NEW t \in Thread, PutRetain(t)
  PROVE  VInv'
<1> DEFINE slot == <<t, "target">>
<1>1. /\ StepKeeps({t} \X Local) /\ UNCHANGED <<vector, call, object>>
      /\ \A u \in Thread \ {t} : pc'[u] = pc[u] /\ call'[u] = call[u]
      /\ pc[t] = "put" /\ pc'[t] = "release"
  BY OtherStepKeeps DEF PutRetain, At, IInv, TypeOK
<1>2. /\ heap' = IF Source(t) = NULL THEN heap ELSE Retain(heap, slot, Source(t))
      /\ Ref(call[t].pointer, "_target") # Source(t)
  BY DEF PutRetain
<1>3. PutsResult(t) /\ PutsPointer(t)
  BY DEF VInv, Effect
<1>4. call[t].source # slot
  BY <1>1, <1>3, OwnersApart DEF PutsResult, PutsPointer, Puts
<1>5. slot \notin DOMAIN heap.ref
  BY <1>1 DEF IInv, Locals, Held, Local
<1>6. \A s : s # slot => /\ s \in DOMAIN heap'.ref <=> s \in DOMAIN heap.ref
                         /\ heap'.ref[s] = heap.ref[s] \/ s \notin DOMAIN heap.ref
  <2> HIDE DEF slot
  <2> QED
    BY <1>2 DEF Retain, Set
<1>7. Target(slot)' = Source(t)
  <2>1. CASE Source(t) = NULL
    BY <1>2, <1>5, <2>1 DEF Target
  <2>2. CASE Source(t) # NULL
    <3> HIDE DEF slot
    <3> QED
      BY <1>2, <2>2 DEF Target, Retain, Set
  <2> QED
    BY <2>1, <2>2
<1>8. Source(t)' = Source(t)
  BY <1>1, <1>4, <1>6 DEF Source, Target
<1>9. call[t].source # <<call[t].pointer, "_target">>
  BY <1>2 DEF Source, Ref
<1>10. Effect(t)'
  <2>1. PutsPointer(t)' /\ FailsOnFile(t)'
    BY <1>1, <1>3 DEF PutsPointer, FailsOnFile, Puts
  <2>2. Retained(t)'
    BY <1>1, <1>7, <1>8, <1>9 DEF Retained, Ref
  <2>3. PutsResult(t)'
    <3> SUFFICES ASSUME call[t].vector # NULL
                 PROVE  /\ call[t].source = <<t, "returnValue">>
                        /\ <<t, "returnValue">> \in DOMAIN heap'.ref
                        /\ object[heap'.ref[<<t, "returnValue">>]].kind # "mutableData"
      BY <1>1 DEF PutsResult
    <3> QED
      BY <1>1, <1>3, <1>6 DEF PutsResult, Puts
  <2> QED
    BY <2>1, <2>2, <2>3 DEF Effect
<1>11. \A u \in Thread \ {t} : call[u].pointer # NULL => call[t].source # <<call[u].pointer, "_target">>
  BY <1>1 DEF VInv, Apart, Puts
<1>12. \A u \in Thread \ {t} : pc[u] \in Puts /\ call[t].pointer # NULL =>
          call[u].source # <<call[t].pointer, "_target">>
  BY DEF VInv, Apart
<1> QED
  BY <1>1, <1>10, <1>11, <1>12, CallVInv

LEMMA PutReleaseVInv ==
  ASSUME IInv, CInv, VInv, NEW t \in Thread, PutRelease(t)
  PROVE  VInv'
<1>1. /\ StepKeeps({t} \X Local) /\ UNCHANGED <<vector, call>>
      /\ \A u \in Thread \ {t} : pc'[u] = pc[u] /\ call'[u] = call[u]
      /\ pc[t] = "release" /\ pc'[t] = "store"
  BY OtherStepKeeps DEF PutRelease, At, IInv, TypeOK
<1>2. PutsResult(t) /\ PutsPointer(t)
  BY DEF VInv, Effect
<1>3. Effect(t)'
  <2>1. PutsPointer(t)' /\ FailsOnFile(t)' /\ Retained(t)'
    BY <1>1, <1>2 DEF PutsPointer, FailsOnFile, Retained, Puts
  <2>2. PutsResult(t)'
    <3>1. StepKeeps({})
      BY PutReleaseKeeps
    <3> SUFFICES ASSUME call[t].vector # NULL
                 PROVE  /\ call[t].source = <<t, "returnValue">>
                        /\ <<t, "returnValue">> \in DOMAIN heap'.ref
                        /\ object'[heap'.ref[<<t, "returnValue">>]].kind # "mutableData"
      BY <1>1 DEF PutsResult
    <3>2. PICK name : name = "returnValue"
      OBVIOUS
    <3>3. <<t, name>> \in DOMAIN heap.ref /\ object[heap.ref[<<t, name>>]].kind # "mutableData"
      BY <1>1, <1>2, <3>2 DEF PutsResult, Puts
    <3>4. /\ <<t, name>> \in DOMAIN heap'.ref /\ heap'.ref[<<t, name>>] = heap.ref[<<t, name>>]
          /\ object'[heap.ref[<<t, name>>]].kind = object[heap.ref[<<t, name>>]].kind
      <4>1. <<t, name>> \notin {}
        OBVIOUS
      <4> QED
        BY <3>1, <3>3, <4>1, LocalKept
    <3> QED
      BY <1>1, <1>2, <3>2, <3>3, <3>4 DEF PutsResult, Puts
  <2> QED
    BY <2>1, <2>2 DEF Effect
<1>4. \A u \in Thread \ {t} : call[u].pointer # NULL => call[t].source # <<call[u].pointer, "_target">>
  BY <1>1 DEF VInv, Apart, Puts
<1>5. \A u \in Thread \ {t} : pc[u] \in Puts /\ call[t].pointer # NULL =>
         call[u].source # <<call[t].pointer, "_target">>
  BY DEF VInv, Apart
<1> QED
  BY <1>1, <1>3, <1>4, <1>5, CallVInv

LEMMA VectorsVInv ==
  ASSUME IInv, VInv, NEW v \in Vector,
         \/ \E item \in Items : AppendItem(v, item)
         \/ \E w \in Vector : \E i \in DOMAIN vector[w] : AppendShared(v, w, i)
         \/ DropItem(v)
         \/ \E p \in Pointer : FromNSData(v, p)
  PROVE  VInv'
<1>1. PICK n, slot : slot = <<v, n>> /\ StepKeeps({slot})
  BY AppendItemKeeps, AppendSharedKeeps, DropItemKeeps, FromNSDataKeeps
<1>2. /\ ~Reading(v) /\ UNCHANGED <<pc, call>>
      /\ \A w \in Vector : w # v => vector'[w] = vector[w]
  BY DEF AppendItem, AppendShared, DropItem, FromNSData, IInv, TypeOK
<1>3. /\ \A u \in Thread : \A name : <<u, name>> \notin {slot}
      /\ \A q \in Pointer : <<q, "_target">> \notin {slot}
  BY <1>1, OwnersApart
<1>4. \A w \in Vector : Reading(w) => vector'[w] = vector[w]
  BY <1>2
<1> QED
  BY <1>1, <1>2, <1>3, <1>4, OutsideVInv

LEMMA NextVInv == IInv /\ CInv /\ GInv /\ VInv /\ [Next]_vars => VInv'
<1> SUFFICES ASSUME IInv, CInv, GInv, VInv, [Next]_vars PROVE VInv'
  OBVIOUS
<1>1. CASE Vectors
  BY <1>1, VectorsVInv DEF Vectors
<1>2. ASSUME StepKeeps({}), UNCHANGED <<vector, pc, call>> PROVE VInv'
  <2>1. \A x : x \notin {}
    OBVIOUS
  <2> QED
    BY <1>2, <2>1, OutsideVInv
<1>3. CASE Pointers
  <2>1. ASSUME NEW p \in Pointer, NEW kind, NEW bytes, NewData(p, kind, bytes) PROVE VInv'
    BY <1>2, <2>1, NewDataKeeps DEF NewData
  <2>2. ASSUME NEW p \in Pointer, SetLength(p) PROVE VInv'
    BY <1>2, <2>2, SetLengthKeeps DEF SetLength
  <2>3. ASSUME NEW p \in Pointer, DestroyPointer(p) PROVE VInv'
    BY <1>2, <2>3, DestroyPointerKeeps DEF DestroyPointer
  <2> QED
    BY <1>3, <2>1, <2>2, <2>3 DEF Pointers
<1>4. CASE Calls
  BY <1>4, ToNSDataVInv, AssignVInv, VectorsVInv DEF Calls
<1>5. ASSUME NEW t \in Thread, Step(t) PROVE VInv'
  BY <1>5, IteratesVInv, ReadFailsVInv, DoneVInv, ReturnsVInv, PutRetainVInv, PutReleaseVInv
  DEF Step
<1>6. CASE Cleanup
  BY <1>2, <1>6, FinalizeKeeps DEF Cleanup, Finalize
<1>7. CASE UNCHANGED vars
  BY <1>2, <1>7, NoMemoryKeeps DEF vars
<1> QED
  BY <1>1, <1>3, <1>4, <1>5, <1>6, <1>7 DEF Next

LEMMA InitVInv == Init => VInv
BY DEF Init, VInv, Apart, Effect, PutsResult, PutsPointer, Retained, FailsOnFile, Puts

(***************************************************************************)
(* The mapping: vectors.                                                   *)
(***************************************************************************)
Values == [v \in Vector |-> Value(v)]

BytesIn(v) == FlattenSeq(Contents(vector[v]))

(* The bytes in memory are those of the storage values.                    *)
ValuesOK == Values = [v \in Vector |-> [bytes |-> BytesIn(v), file |-> HasFile(v)]]

LEMMA OneChunk ==
  ASSUME NEW item \in Item, Len(item.chunks) = 1, NEW bytes, bytes = item.chunks[1]
  PROVE  [item EXCEPT !.chunks = <<bytes>>] = item
<1>1. item.chunks = <<bytes>>
  BY DEF Item
<1> QED
  BY <1>1 DEF Item

LEMMA ValuesHold == IInv /\ CInv => ValuesOK
<1> SUFFICES ASSUME IInv, CInv, NEW v \in Vector
             PROVE  Value(v) = [bytes |-> BytesIn(v), file |-> HasFile(v)]
  BY DEF ValuesOK, Values
<1>1. ASSUME NEW i \in DOMAIN vector[v] PROVE InMemory(v, i) = vector[v][i]
  <2>1. CASE vector[v][i].kind = "Buffered"
    <3>1. PICK item : item = vector[v][i]
      OBVIOUS
    <3>2. item \in Item /\ Len(item.chunks) = 1
      <4>1. vector[v] \in Seq(Item) /\ Plain(item)
        BY <3>1 DEF IInv, TypeOK, PlainVectors
      <4> QED
        BY <2>1, <3>1, <4>1 DEF Plain
    <3>3. StorageBytes(Ref(v, i)) = item.chunks[1]
      <4>1. StorageHolds(Ref(v, i), item.chunks[1])
        BY <2>1, <3>1, BufferedSlots DEF CInv, VectorsHold
      <4> QED
        BY <4>1, HoldsBytes DEF IInv
    <3> QED
      BY <2>1, <3>1, <3>2, <3>3, OneChunk DEF InMemory
  <2>2. CASE vector[v][i].kind # "Buffered"
    BY <2>2 DEF InMemory
  <2> QED
    BY <2>1, <2>2
<1>2. [i \in DOMAIN vector[v] |-> BytesOf(InMemory(v, i))] = Contents(vector[v])
  BY <1>1 DEF Contents
<1> QED
  BY <1>2 DEF Value, BytesIn

LEMMA ValuesKept ==
  ASSUME IInv, CInv, ValuesOK, ValuesOK', UNCHANGED vector
  PROVE  Values' = Values
<1>1. \A v \in Vector : BytesIn(v)' = BytesIn(v) /\ (HasFile(v)' <=> HasFile(v))
  BY DEF BytesIn, HasFile
<1> QED
  BY <1>1 DEF ValuesOK, HasFile

(* A step on one vector.                                                   *)
LEMMA ValueStep ==
  ASSUME ValuesOK, ValuesOK', NEW v \in Vector, \A w \in Vector : w # v => vector'[w] = vector[w]
  PROVE  /\ Values' = [Values EXCEPT ![v] = Values'[v]]
         /\ Values[v].bytes = BytesIn(v) /\ Values'[v].bytes = BytesIn(v)'
         /\ Values[v].file = HasFile(v) /\ Values'[v].file = HasFile(v)'
<1>1. \A w \in Vector : w # v => BytesIn(w)' = BytesIn(w) /\ HasFile(w)' = HasFile(w)
  BY DEF BytesIn, HasFile
<1> QED
  BY <1>1 DEF ValuesOK

(***************************************************************************)
(* The mapping: pointers.                                                  *)
(***************************************************************************)
Shows == [p \in Pointer |-> Shown(Referenced(p))]

ReferencedOK ==
  \A p \in Pointer :
    /\ \A t \in Thread : Stores(t, p) => Referenced(p) = Ref(t, "target")
    /\ (\A t \in Thread : ~Stores(t, p)) => Referenced(p) = Ref(p, "_target")

LEMMA ReferencedHolds == IInv => ReferencedOK
<1> SUFFICES ASSUME IInv, NEW p \in Pointer, NEW t \in Thread, Stores(t, p)
             PROVE  Referenced(p) = Ref(t, "target")
  BY DEF ReferencedOK, Referenced
<1>1. PICK u : u = CHOOSE w \in Thread : Stores(w, p)
  OBVIOUS
<1>2. u \in Thread /\ Stores(u, p)
  BY <1>1
<1>3. u = t
  BY <1>2, OwnersApart DEF IInv, CallsOK, Stores
<1> QED
  BY <1>1, <1>3 DEF Referenced

LEMMA MappingHolds ==
  /\ IInv /\ CInv => ValuesOK /\ ReferencedOK
  /\ IInv' /\ CInv' => ValuesOK' /\ ReferencedOK'
<1>1. IInv /\ CInv => ValuesOK /\ ReferencedOK
  BY ValuesHold, ReferencedHolds
<1> QED
  BY <1>1, PTL

(* What is in use stays what it is.                                        *)
ObjectsStay ==
  \A o \in Object : heap.count[o] > 0 =>
    object'[o].kind = object[o].kind /\ object'[o].bytes = object[o].bytes

LEMMA ShownKept ==
  ASSUME IInv, ObjectsStay, NEW T, SameOutside(T, heap.ref, heap'.ref), NEW slot, slot \notin T
  PROVE  Target(slot)' = Target(slot) /\ Shown(Target(slot))' = Shown(Target(slot))
<1>1. slot \in DOMAIN heap'.ref <=> slot \in DOMAIN heap.ref
  BY DEF SameOutside
<1>2. CASE slot \notin DOMAIN heap.ref
  BY <1>1, <1>2 DEF Target, Shown
<1>3. CASE slot \in DOMAIN heap.ref
  <2>1. PICK o : o = heap.ref[slot]
    OBVIOUS
  <2>2. o \in Object /\ heap.count[o] > 0 /\ o # NULL
    BY <1>3, <2>1, CountedIfHeld, OwnersApart DEF IInv
  <2>3. heap'.ref[slot] = o /\ object'[o].kind = object[o].kind /\ object'[o].bytes = object[o].bytes
    BY <1>3, <2>1, <2>2 DEF SameOutside, ObjectsStay
  <2> QED
    BY <1>1, <1>3, <2>1, <2>2, <2>3 DEF Target, Shown
<1> QED
  BY <1>2, <1>3

(* A step that changes references in T, but not that of the pointer.       *)
LEMMA PointerKept ==
  ASSUME IInv, ReferencedOK, ReferencedOK', ObjectsStay, NEW T, SameOutside(T, heap.ref, heap'.ref),
         NEW p \in Pointer, <<p, "_target">> \notin T,
         \A u \in Thread : Stores(u, p)' <=> Stores(u, p),
         \A u \in Thread : Stores(u, p) => <<u, "target">> \notin T
  PROVE  Shown(Referenced(p))' = Shown(Referenced(p))
<1>1. ASSUME NEW u \in Thread, Stores(u, p)
      PROVE  Shown(Referenced(p))' = Shown(Referenced(p))
  <2>1. PICK slot : slot = <<u, "target">>
    OBVIOUS
  <2>2. Shown(Target(slot))' = Shown(Target(slot))
    BY <1>1, <2>1, ShownKept
  <2>3. Referenced(p) = Target(slot) /\ Referenced(p)' = Target(slot)'
    BY <1>1, <2>1 DEF ReferencedOK, Ref
  <2> QED
    BY <2>2, <2>3 DEF Shown
<1>2. CASE \A u \in Thread : ~Stores(u, p)
  <2>1. PICK slot : slot = <<p, "_target">>
    OBVIOUS
  <2>2. Shown(Target(slot))' = Shown(Target(slot))
    BY <2>1, ShownKept
  <2>3. Referenced(p) = Target(slot) /\ Referenced(p)' = Target(slot)'
    BY <1>2, <2>1 DEF ReferencedOK, Ref
  <2> QED
    BY <2>2, <2>3 DEF Shown
<1> QED
  BY <1>1, <1>2

(* A step that is about no pointer.                                        *)
LEMMA ShowsKept ==
  ASSUME IInv, ReferencedOK, ReferencedOK', NEW S, StepKeeps(S), ~Shortens,
         \A q \in Pointer : ~Repoints(q) /\ <<q, "_target">> \notin S,
         \A u \in Thread : pc'[u] = "store" <=> pc[u] = "store",
         \A u \in Thread : pc[u] = "store" => call'[u].pointer = call[u].pointer /\ <<u, "target">> \notin S
  PROVE  Shows' = Shows
<1> SUFFICES ASSUME NEW p \in Pointer
             PROVE  Shown(Referenced(p))' = Shown(Referenced(p))
  BY DEF Shows
<1>1. PICK T : T = S \cup (Unused \X Field) \cup PointerSlots
  OBVIOUS
<1>2. ObjectsStay /\ SameOutside(T, heap.ref, heap'.ref)
  BY <1>1 DEF StepKeeps, ObjectsStay
<1>3. \A u \in Thread : Stores(u, p)' <=> Stores(u, p)
  BY DEF Stores
<1>4. /\ <<p, "_target">> \notin T
      /\ \A u \in Thread : Stores(u, p) => <<u, "target">> \notin T
  BY <1>1, OwnersApart DEF PointerSlots, Unused, Stores
<1> QED
  BY <1>2, <1>3, <1>4, PointerKept

(***************************************************************************)
(* The mapping: calls.                                                     *)
(***************************************************************************)
Pendings == [t \in Thread |-> Pending(t)]

LEMMA PendingsKept ==
  ASSUME NEW t \in Thread, \A u \in Thread \ {t} : pc'[u] = pc[u] /\ call'[u] = call[u]
  PROVE  /\ Pendings' = [Pendings EXCEPT ![t] = Pending(t)'] /\ Pendings[t] = Pending(t)
         /\ Pending(t)' = Pending(t) => Pendings' = Pendings
<1>1. \A u \in Thread \ {t} : Pending(u)' = Pending(u)
  BY DEF Pending
<1> QED
  BY <1>1 DEF Pendings

LEMMA PendingSame ==
  ASSUME NEW t \in Thread, pc[t] = "store" <=> pc'[t] = "store",
         call'[t].vector = call[t].vector, call'[t].pointer = call[t].pointer,
         call'[t].lost = call[t].lost,
         call[t].vector = NULL => call'[t].source = call[t].source
  PROVE  Pending(t)' = Pending(t)
BY DEF Pending, ReadFrom

LEMMA PendingIs ==
  ASSUME IInv, VInv, NEW t \in Thread
  PROVE  LET c == Pendings[t]
         IN  /\ c = Pending(t)
             /\ c.to = call[t].pointer /\ c.lost = call[t].lost
             /\ c.stored = (pc[t] = "store")
             /\ pc[t] = "idle" =>
                  c = [from |-> NULL, to |-> NULL, lost |-> FALSE, stored |-> FALSE]
             /\ pc[t] # "idle" /\ call[t].vector # NULL =>
                  c.from = call[t].vector /\ call[t].vector \in Vector
             /\ pc[t] # "idle" /\ call[t].vector = NULL =>
                  pc[t] \in Puts /\ c.from \in Pointer /\ call[t].source = <<c.from, "_target">>
<1>1. Pendings[t] = Pending(t)
  BY DEF Pendings
<1>2. ASSUME pc[t] # "idle", call[t].vector = NULL
      PROVE  /\ pc[t] \in Puts /\ Pending(t).from \in Pointer
             /\ call[t].source = <<Pending(t).from, "_target">>
  <2>1. pc[t] \in Puts
    <3>1. pc[t] \in Place /\ call[t].vector \notin Vector
      BY <1>2, OwnersApart DEF IInv, TypeOK
    <3> QED
      BY <1>2, <3>1 DEF IInv, CallsOK, Puts, Place
  <2>2. PICK q \in Pointer : call[t].source = <<q, "_target">>
    BY <1>2, <2>1 DEF VInv, Effect, PutsPointer
  <2>3. call[t].source # <<>> /\ call[t].source[1] = q
    BY <2>2
  <2>4. Pending(t).from = q
    BY <1>2, <2>3 DEF Pending, ReadFrom
  <2> QED
    BY <2>1, <2>2, <2>4
<1>3. ASSUME pc[t] # "idle", call[t].vector # NULL
      PROVE  Pending(t).from = call[t].vector /\ call[t].vector \in Vector
  BY <1>3 DEF Pending, ReadFrom, IInv, TypeOK, Call
<1>4. ASSUME pc[t] = "idle"
      PROVE  Pending(t) = [from |-> NULL, to |-> NULL, lost |-> FALSE, stored |-> FALSE]
  <2>1. /\ call[t].vector = NULL /\ call[t].pointer = NULL /\ call[t].lost = FALSE
        /\ call[t].source = <<>>
    <3>1. call[t] = Idle
      BY <1>4 DEF IInv, CallsOK
    <3> QED
      BY <3>1 DEF Idle
  <2>2. (pc[t] = "store") = FALSE
    BY <1>4
  <2>3. ReadFrom(call[t]) = NULL
    BY <2>1 DEF ReadFrom
  <2> HIDE <1>4
  <2> QED
    BY <2>1, <2>2, <2>3 DEF Pending
<1>5. /\ Pending(t).to = call[t].pointer /\ Pending(t).lost = call[t].lost
      /\ Pending(t).stored = (pc[t] = "store")
  BY DEF Pending
<1> QED
  BY <1>1, <1>2, <1>3, <1>4, <1>5

(* What no call uses here, no call uses in DataValues.                     *)
LEMMA InUseAbs ==
  ASSUME IInv, VInv
  PROVE  /\ \A p \in Pointer : ~InUse(p) => ~Abs!InUse(p)
         /\ \A v \in Vector : ~Reading(v) => ~Abs!InUse(v)
<1>1. ASSUME NEW p \in Pointer, NEW t \in Thread, Pendings[t].from = p \/ Pendings[t].to = p
      PROVE  InUse(p)
  BY <1>1, PendingIs, OwnersApart DEF InUse
<1>2. ASSUME NEW v \in Vector, NEW t \in Thread, Pendings[t].from = v \/ Pendings[t].to = v
      PROVE  Reading(v)
  <2>1. pc[t] # "idle"
    BY <1>2, PendingIs, OwnersApart
  <2>2. call[t].pointer \in Pointer /\ Pendings[t].to = call[t].pointer
    BY <2>1, PendingIs DEF IInv, CallsOK
  <2>3. Pendings[t].from = v
    BY <1>2, <2>2, OwnersApart
  <2> QED
    BY <2>1, <2>3, PendingIs, OwnersApart DEF Reading
<1> QED
  BY <1>1, <1>2 DEF Abs!InUse, Pendings

(***************************************************************************)
(* Each step is one of DataValues, or changes nothing there.  First those  *)
(* that change what pointers refer to.                                     *)
(***************************************************************************)
Mapped ==
  /\ IInv /\ IInv' /\ CInv /\ GInv /\ VInv
  /\ ValuesOK /\ ReferencedOK /\ ValuesOK' /\ ReferencedOK'

LEMMA SetLengthRefines ==
  ASSUME Mapped, NEW p \in Pointer, SetLength(p)
  PROVE  Abs!SetLength(p)
<1>0. UNCHANGED <<heap, vector, pc, call>> /\ ~InUse(p)
  BY DEF SetLength
<1>1. PICK d \in Object : d = Ref(p, "_target")
  BY DEF SetLength, Ref, Target, Mapped, IInv, Balanced
<1>2. /\ object[d].kind = "mutableData" /\ d # NULL
      /\ object' = [object EXCEPT ![d] = [object[d] EXCEPT !.bytes = <<>>]]
  BY <1>1 DEF SetLength
<1>3. /\ object'[d].kind = "mutableData" /\ object'[d].bytes = <<>>
      /\ \A o \in Object : o # d => object'[o] = object[o]
  BY <1>2 DEF Mapped, IInv, TypeOK
<1>4. Values' = Values /\ Pendings' = Pendings
  <2>1. Pendings' = Pendings
    BY <1>0 DEF Pendings, Pending
  <2> QED
    BY <1>0, <2>1, ValuesKept DEF Mapped
<1>5. \A t \in Thread : ~Stores(t, p)
  BY <1>0 DEF InUse, Stores
<1>6. Referenced(p) = d
  BY <1>1, <1>5 DEF Mapped, ReferencedOK
<1>7. Shows[p] = [id |-> d, mutable |-> TRUE, bytes |-> object[d].bytes]
  <2>1. (d # NULL /\ object[d].kind = "mutableData") = TRUE
    BY <1>2
  <2> QED
    BY <1>2, <1>6, <2>1 DEF Shows, Shown
<1>8. ASSUME NEW q \in Pointer
      PROVE  Shows'[q] = IF Shows[q] = Shows[p] THEN [Shows[q] EXCEPT !.bytes = <<>>] ELSE Shows[q]
  <2>1. PICK o : o = Referenced(q)
    OBVIOUS
  <2>2. Referenced(q)' = o
    BY <1>0, <2>1 DEF Referenced, Stores, Ref, Target
  <2>3. o \in Object \cup {NULL}
    <3>1. \A slot : Target(slot) \in Object \cup {NULL}
      BY DEF Target, Mapped, IInv, Balanced
    <3>2. \/ \E t \in Thread : o = Ref(t, "target")
          \/ o = Ref(q, "_target")
      BY <2>1 DEF Mapped, ReferencedOK
    <3> QED
      BY <3>1, <3>2 DEF Ref
  <2>4. CASE o = d
    <3>1. Shows[q] = Shows[p]
      BY <1>6, <2>1, <2>4 DEF Shows
    <3>2. Shows'[q] = Shown(d)'
      BY <2>2, <2>4 DEF Shows, Shown
    <3>3. (d # NULL /\ object'[d].kind = "mutableData") = TRUE
      BY <1>2, <1>3
    <3>4. Shown(d)' = [id |-> d, mutable |-> TRUE, bytes |-> <<>>]
      BY <1>2, <1>3, <3>3 DEF Shown
    <3>5. [Shows[p] EXCEPT !.bytes = <<>>] = [id |-> d, mutable |-> TRUE, bytes |-> <<>>]
      <4>1. \A i, m, b : [[id |-> i, mutable |-> m, bytes |-> b] EXCEPT !.bytes = <<>>]
                        = [id |-> i, mutable |-> m, bytes |-> <<>>]
        OBVIOUS
      <4>2. [[id |-> d, mutable |-> TRUE, bytes |-> object[d].bytes] EXCEPT !.bytes = <<>>]
            = [id |-> d, mutable |-> TRUE, bytes |-> <<>>]
        BY <4>1, Zenon
      <4> QED
        BY <1>7, <4>2, Zenon
    <3> QED
      BY <3>1, <3>2, <3>4, <3>5
  <2>5. CASE o # d
    <3>1. Shows[q].id = o /\ Shows[p].id = d
      BY <1>7, <2>1 DEF Shows, Shown
    <3>2. Shown(o)' = Shown(o)
      BY <1>3, <2>3, <2>5 DEF Shown
    <3>3. Shows'[q] = Shows[q]
      BY <2>1, <2>2, <3>2 DEF Shows, Shown
    <3> QED
      BY <2>5, <3>1, <3>3
  <2> QED
    BY <2>4, <2>5
<1>9. Shows' = [q \in Pointer |-> IF Shows[q] = Shows[p] THEN [Shows[q] EXCEPT !.bytes = <<>>]
                                  ELSE Shows[q]]
  BY <1>8 DEF Shows
<1>10. ~Abs!InUse(p) /\ Shows[p].mutable
  BY <1>0, <1>7, InUseAbs DEF Mapped
<1> QED
  BY <1>4, <1>9, <1>10 DEF Abs!SetLength, Values, Shows, Pendings

(* A step that is about one pointer.                                       *)
LEMMA OnePointer ==
  ASSUME Mapped, ObjectsStay, NEW p \in Pointer, NEW T, SameOutside(T, heap.ref, heap'.ref),
         \A q \in Pointer \ {p} :
           /\ <<q, "_target">> \notin T
           /\ \A u \in Thread : Stores(u, q)' <=> Stores(u, q)
           /\ \A u \in Thread : Stores(u, q) => <<u, "target">> \notin T
  PROVE  /\ Shows' = [Shows EXCEPT ![p] = Shows'[p]]
         /\ Shows[p] = Shown(Referenced(p)) /\ Shows'[p] = Shown(Referenced(p))'
<1>1. ASSUME NEW q \in Pointer \ {p} PROVE Shown(Referenced(q))' = Shown(Referenced(q))
  BY PointerKept DEF Mapped
<1> QED
  BY <1>1 DEF Shows

LEMMA ShownNull ==
  /\ Shown(NULL) = [id |-> NULL, mutable |-> FALSE, bytes |-> <<>>]
  /\ Shown(NULL)' = [id |-> NULL, mutable |-> FALSE, bytes |-> <<>>]
<1>1. \A b : (NULL # NULL /\ b) = FALSE
  OBVIOUS
<1> QED
  BY <1>1 DEF Shown

LEMMA NewDataRefines ==
  ASSUME Mapped, NEW p \in Pointer, NEW kind, NEW bytes, NewData(p, kind, bytes)
  PROVE  Abs!NewData(p)
<1> DEFINE slot == <<p, "_target">>
<1>0. UNCHANGED <<vector, pc, call>> /\ ~InUse(p) /\ Target(slot) = NULL
  BY DEF NewData, Ref
<1>1. PICK d \in Fresh(heap, "any") :
        /\ heap' = Retain(heap, slot, d)
        /\ object' = [object EXCEPT ![d] = Memory(kind, {}, bytes)]
  BY DEF NewData
<1>2. d \in Object /\ heap.count[d] = 0 /\ d # NULL
  BY <1>1, FreshIsUnused, OwnersApart DEF Mapped, IInv
<1>3. ObjectsStay
  BY <1>1, <1>2 DEF ObjectsStay, Mapped, IInv, TypeOK
<1>4. SameOutside({slot}, heap.ref, heap'.ref) /\ Target(slot)' = d
  <2>1. SameOutside({slot}, heap.ref, heap'.ref)
    BY <1>1, RetainSame
  <2> HIDE DEF slot
  <2> QED
    BY <1>1, <2>1 DEF Target, Retain, Set
<1>5. \A t \in Thread : ~Stores(t, p) /\ ~Stores(t, p)'
  BY <1>0 DEF InUse, Stores
<1>6. Referenced(p) = NULL /\ Referenced(p)' = d
  BY <1>0, <1>4, <1>5 DEF Mapped, ReferencedOK, Ref
<1>7. /\ Shows' = [Shows EXCEPT ![p] = Shows'[p]]
      /\ Shows[p] = Shown(Referenced(p)) /\ Shows'[p] = Shown(Referenced(p))'
  <2>1. \A q \in Pointer \ {p} : \A u \in Thread : Stores(u, q)' <=> Stores(u, q)
    BY <1>0 DEF Stores
  <2>2. \A q \in Pointer \ {p} : <<q, "_target">> \notin {slot}
    OBVIOUS
  <2>3. \A u \in Thread : <<u, "target">> \notin {slot}
    BY OwnersApart
  <2> HIDE DEF slot
  <2> QED
    BY <1>3, <1>4, <2>1, <2>2, <2>3, OnePointer
<1>8. Shows[p].id = NULL /\ Shows'[p].id = d
  BY <1>6, <1>7 DEF Shown
<1>9. ASSUME NEW q \in Pointer PROVE Shows[q].id # d
  <2>1. Shows[q].id = Referenced(q)
    BY DEF Shows, Shown
  <2>2. \A s \in DOMAIN heap.ref : heap.ref[s] # d
    BY <1>1, FreshIsUnused DEF Mapped, IInv
  <2>3. \A s : Target(s) # d
    BY <1>2, <2>2 DEF Target
  <2>4. Referenced(q) # d
    BY <2>3 DEF Mapped, ReferencedOK, Ref
  <2> QED
    BY <2>1, <2>4
<1>10. Values' = Values /\ Pendings' = Pendings
  <2>1. Pendings' = Pendings
    BY <1>0 DEF Pendings, Pending
  <2> QED
    BY <1>0, <2>1, ValuesKept DEF Mapped
<1>11. ~Abs!InUse(p)
  BY <1>0, InUseAbs DEF Mapped
<1>12. \A q \in Pointer : Shows[q].id # Shows'[p].id
  BY <1>8, <1>9
<1> QED
  BY <1>7, <1>8, <1>10, <1>11, <1>12 DEF Abs!NewData, Abs!Refers, Values, Shows, Pendings

LEMMA DestroyPointerRefines ==
  ASSUME Mapped, NEW p \in Pointer, DestroyPointer(p)
  PROVE  Abs!DestroyPointer(p)
<1> DEFINE slot == <<p, "_target">>
<1>0. UNCHANGED <<object, vector, pc, call>> /\ ~InUse(p) /\ heap' = Release(heap, slot)
  BY DEF DestroyPointer
<1>1. ObjectsStay
  BY <1>0 DEF ObjectsStay
<1>2. SameOutside({slot}, heap.ref, heap'.ref) /\ Target(slot)' = NULL
  <2>1. SameOutside({slot}, heap.ref, heap'.ref)
    BY <1>0, ReleaseSame
  <2> HIDE DEF slot
  <2> QED
    BY <1>0, <2>1 DEF Target, Release, Clear, Restrict
<1>3. \A t \in Thread : ~Stores(t, p)'
  BY <1>0 DEF InUse, Stores
<1>4. Referenced(p)' = NULL
  BY <1>2, <1>3 DEF Mapped, ReferencedOK, Ref
<1>5. /\ Shows' = [Shows EXCEPT ![p] = Shows'[p]]
      /\ Shows'[p] = Shown(Referenced(p))'
  <2>1. \A q \in Pointer \ {p} : \A u \in Thread : Stores(u, q)' <=> Stores(u, q)
    BY <1>0 DEF Stores
  <2>2. \A q \in Pointer \ {p} : <<q, "_target">> \notin {slot}
    OBVIOUS
  <2>3. \A u \in Thread : <<u, "target">> \notin {slot}
    BY OwnersApart
  <2> HIDE DEF slot
  <2> QED
    BY <1>1, <1>2, <2>1, <2>2, <2>3, OnePointer
<1>6. Shows'[p] = [id |-> NULL, mutable |-> FALSE, bytes |-> <<>>]
  <2>1. Shown(Referenced(p))' = Shown(NULL)'
    BY <1>4 DEF Shown
  <2> QED
    BY <1>5, <2>1, ShownNull
<1>7. Values' = Values /\ Pendings' = Pendings
  <2>1. Pendings' = Pendings
    BY <1>0 DEF Pendings, Pending
  <2> QED
    BY <1>0, <2>1, ValuesKept DEF Mapped
<1>8. ~Abs!InUse(p)
  BY <1>0, InUseAbs DEF Mapped
<1> QED
  BY <1>5, <1>6, <1>7, <1>8 DEF Abs!DestroyPointer, Abs!Refers, Abs!NoData, Values, Shows, Pendings

(* What put() is about to store is the result of its call.                 *)
LEMMA ResultIs ==
  ASSUME Mapped, NEW t \in Thread, pc[t] \in {"put", "release"}
  PROVE  Abs!IsResult(t, Shown(Source(t)))
<1>0. /\ pc[t] \in Puts /\ pc[t] # "idle" /\ pc[t] # "store"
      /\ PutsResult(t) /\ PutsPointer(t) /\ ReturnsAll(t)
  BY DEF Puts, Mapped, VInv, Effect, GInv
<1>1. CASE call[t].vector = NULL
  <2>1. PICK q \in Pointer : q = Pendings[t].from /\ call[t].source = <<q, "_target">>
    BY <1>0, <1>1, PendingIs DEF Mapped
  <2>2. ASSUME NEW u \in Thread, Stores(u, q) PROVE FALSE
    <3>1. pc[u] = "store" /\ call[u].pointer = q /\ q # NULL
      BY <2>2, OwnersApart DEF Stores
    <3>2. t = u
      BY <1>0, <2>1, <3>1 DEF Mapped, VInv, Apart
    <3> QED
      BY <1>0, <3>1, <3>2
  <2>3. Referenced(q) = Source(t)
    BY <2>1, <2>2 DEF Mapped, ReferencedOK, Source, Ref
  <2>4. Shows[q] = Shown(Source(t))
    BY <2>3 DEF Shows
  <2> QED
    BY <2>1, <2>4 DEF Abs!IsResult, Shows, Pendings
<1>2. CASE call[t].vector # NULL
  <2>1. PICK v \in Vector : v = Pendings[t].from /\ v = call[t].vector
    BY <1>0, <1>2, PendingIs DEF Mapped
  <2>2. PICK o : o = heap.ref[<<t, "returnValue">>]
    OBVIOUS
  <2>3. /\ <<t, "returnValue">> \in DOMAIN heap.ref /\ call[t].source = <<t, "returnValue">>
        /\ object[o].kind # "mutableData"
    BY <1>0, <1>2, <2>2 DEF PutsResult
  <2>4. Source(t) = o /\ o \in Object /\ o # NULL
    <3>1. Source(t) = o
      BY <2>2, <2>3 DEF Source, Target
    <3>2. \A s \in DOMAIN heap.ref : heap.ref[s] \in Object
      BY DEF Mapped, IInv, Balanced
    <3> QED
      BY <2>2, <2>3, <3>1, <3>2, OwnersApart
  <2>5. ~call[t].lost => object[o].bytes = Values[v].bytes
    <3>1. ~call[t].lost => object[o].bytes = BytesIn(v)
      BY <1>0, <1>2, <2>1, <2>2, <2>3 DEF ReturnsAll, BytesIn
    <3>2. Values[v].bytes = BytesIn(v)
      BY DEF Mapped, ValuesOK
    <3> QED
      BY <3>1, <3>2
  <2>6. /\ Shown(Source(t)).id # NULL /\ ~Shown(Source(t)).mutable
        /\ Shown(Source(t)).bytes = object[o].bytes
    BY <2>3, <2>4 DEF Shown
  <2>7. v \notin Pointer /\ Pendings[t].lost = call[t].lost
    BY OwnersApart, PendingIs DEF Mapped
  <2> QED
    BY <2>1, <2>5, <2>6, <2>7 DEF Abs!IsResult, Values, Shows, Pendings
<1> QED
  BY <1>1, <1>2

LEMMA StoredRecord ==
  ASSUME NEW r, \E x, y, z, d : r = [from |-> x, to |-> y, lost |-> z, stored |-> d],
         NEW s, s = [from |-> r.from, to |-> r.to, lost |-> r.lost, stored |-> TRUE]
  PROVE  s = [r EXCEPT !.stored = TRUE]
<1>1. PICK x, y, z, d : r = [from |-> x, to |-> y, lost |-> z, stored |-> d]
  OBVIOUS
<1>2. \A e : [r EXCEPT !.stored = e] = [from |-> x, to |-> y, lost |-> z, stored |-> e]
  BY <1>1
<1>3. r.from = x /\ r.to = y /\ r.lost = z
  BY <1>1
<1> QED
  BY <1>2, <1>3, Zenon

LEMMA PutReleaseRefines ==
  ASSUME Mapped, NEW t \in Thread, PutRelease(t)
  PROVE  Abs!Store(t)
<1>p. PICK p \in Pointer : p = call[t].pointer
  BY InCall DEF Mapped, PutRelease, At
<1>0. PICK slot : p = call[t].pointer /\ slot = <<p, "_target">>
  BY <1>p
<1>1. /\ pc[t] = "release" /\ pc'[t] = "store" /\ UNCHANGED <<object, vector, call>>
      /\ \A u \in Thread \ {t} : pc'[u] = pc[u]
      /\ heap' = ReleaseUnlessNull(heap, slot)
  BY <1>0 DEF PutRelease, At, Mapped, IInv, TypeOK
<1>2. ObjectsStay /\ SameOutside({slot}, heap.ref, heap'.ref)
  BY <1>1, ReleaseUnlessNullSame DEF ObjectsStay
<1>3. \A u \in Thread : <<u, "target">> \notin {slot}
  BY <1>0, OwnersApart
<1>4. /\ Shows' = [Shows EXCEPT ![p] = Shows'[p]]
      /\ Shows'[p] = Shown(Referenced(p))'
  <2>1. \A q \in Pointer \ {p} : \A u \in Thread : Stores(u, q)' <=> Stores(u, q)
    BY <1>0, <1>1 DEF Stores
  <2>2. \A q \in Pointer \ {p} : <<q, "_target">> \notin {slot}
    BY <1>0
  <2> QED
    BY <1>2, <1>3, <2>1, <2>2, OnePointer
<1>5. Shown(Referenced(p))' = Shown(Source(t))
  <2>1. Retained(t)
    BY DEF Mapped, VInv, Effect
  <2>2. PICK mine : mine = <<t, "target">>
    OBVIOUS
  <2>3. Target(mine) = Source(t)
    BY <1>1, <2>1, <2>2 DEF Retained, Ref
  <2>4. Shown(Target(mine))' = Shown(Target(mine))
    BY <1>2, <1>3, <2>2, ShownKept DEF Mapped
  <2>5. Referenced(p)' = Target(mine)'
    <3>1. Stores(t, p)'
      BY <1>0, <1>1 DEF Stores
    <3> QED
      BY <2>2, <3>1 DEF Mapped, ReferencedOK, Ref
  <2> QED
    BY <2>3, <2>4, <2>5 DEF Shown
<1>6. Abs!IsResult(t, Shows'[p])
  BY <1>1, <1>4, <1>5, ResultIs
<1>7. /\ Pendings[t].to = p /\ p # NULL /\ ~Pendings[t].stored
  BY <1>0, <1>1, PendingIs, OwnersApart DEF Mapped
<1>8. Pendings' = [Pendings EXCEPT ![t].stored = TRUE]
  <2>1. Pendings' = [Pendings EXCEPT ![t] = Pending(t)'] /\ Pendings[t] = Pending(t)
    BY <1>1, PendingsKept
  <2>2. Pending(t)' = [Pending(t) EXCEPT !.stored = TRUE]
    <3>1. PICK r : r = Pending(t)
      OBVIOUS
    <3>2. \E x, y, z, d : r = [from |-> x, to |-> y, lost |-> z, stored |-> d]
      BY <3>1, Zenon DEF Pending
    <3>3. (pc'[t] = "store") = TRUE
      BY <1>1
    <3>4. Pending(t)' = [from |-> r.from, to |-> r.to, lost |-> r.lost, stored |-> TRUE]
      BY <1>1, <3>1, <3>3 DEF Pending
    <3> QED
      BY <3>1, <3>2, <3>4, StoredRecord
  <2> QED
    BY <2>1, <2>2
<1>9. Values' = Values
  BY <1>1, ValuesKept DEF Mapped
<1> QED
  BY <1>4, <1>6, <1>7, <1>8, <1>9 DEF Abs!Store, Abs!Active, Abs!Refers, Values, Shows, Pendings

LEMMA Returns ==
  ASSUME IInv, NEW t \in Thread, Return(t)
  PROVE  /\ pc'[t] = "idle" /\ call'[t] = Idle
         /\ \A u \in Thread \ {t} : pc'[u] = pc[u] /\ call'[u] = call[u]
         /\ Abs!Return(t)
<1>1. /\ pc'[t] = "idle" /\ call'[t] = Idle
      /\ \A u \in Thread \ {t} : pc'[u] = pc[u] /\ call'[u] = call[u]
  BY DEF Return, IInv, TypeOK
<1>2. Pendings' = [Pendings EXCEPT ![t] = Pending(t)']
  BY <1>1, PendingsKept
<1>3. Pending(t)' = [from |-> NULL, to |-> NULL, lost |-> FALSE, stored |-> FALSE]
  <2>1. (pc'[t] = "store") = FALSE
    BY <1>1
  <2>2. /\ call'[t].vector = NULL /\ call'[t].pointer = NULL /\ call'[t].lost = FALSE
        /\ call'[t].source = <<>>
    BY <1>1 DEF Idle
  <2>3. ReadFrom(call'[t]) = NULL
    BY <2>2 DEF ReadFrom
  <2> QED
    BY <2>1, <2>2, <2>3 DEF Pending
<1> QED
  BY <1>1, <1>2, <1>3 DEF Abs!Return, Abs!NoCall, Pendings

LEMMA PutStoreRefines ==
  ASSUME Mapped, NEW t \in Thread, PutStore(t)
  PROVE  Abs!ReturnStored(t)
<1>p. PICK p \in Pointer : p = call[t].pointer
  BY InCall DEF Mapped, PutStore, At
<1>0. PICK from, to, result :
        /\ p = call[t].pointer /\ from = <<t, "target">> /\ to = <<p, "_target">>
        /\ result = <<t, "returnValue">>
  BY <1>p
<1>1. PICK h : h = IF from \notin DOMAIN heap.ref THEN heap ELSE Move(heap, from, to)
  OBVIOUS
<1>2. /\ pc[t] = "store" /\ UNCHANGED <<object, vector>> /\ Return(t)
      /\ heap' = ReleaseUnlessNull(h, result)
  BY <1>0, <1>1 DEF PutStore, At
<1>3. /\ pc'[t] = "idle" /\ call'[t] = Idle
      /\ \A u \in Thread \ {t} : pc'[u] = pc[u] /\ call'[u] = call[u]
      /\ Abs!Return(t)
  BY <1>2, Returns DEF Mapped
<1>4. SameOutside({from, to}, heap.ref, h.ref) /\ Target(from) = IF to \in DOMAIN h.ref THEN h.ref[to] ELSE NULL
  <2>1. IsRecord(heap) /\ to \notin DOMAIN heap.ref
    BY <1>0, <1>2 DEF IsRecord, Mapped, IInv, Balanced, CallsOK
  <2>2. CASE from \in DOMAIN heap.ref
    BY <1>1, <2>1, <2>2, MoveRefs DEF Target
  <2>3. CASE from \notin DOMAIN heap.ref
    BY <1>1, <2>1, <2>3 DEF SameOutside, Target
  <2> QED
    BY <2>2, <2>3
<1>5. SameOutside({result}, h.ref, heap'.ref) /\ to # result
  BY <1>0, <1>2, ReleaseUnlessNullSame, OwnersApart
<1>6. ObjectsStay /\ SameOutside({from, to, result}, heap.ref, heap'.ref)
  BY <1>2, <1>4, <1>5, SameTransitive DEF ObjectsStay
<1>7. Target(to)' = Target(from)
  BY <1>4, <1>5 DEF SameOutside, Target
<1>8. \A u \in Thread : call[u].pointer = p => u = t
  BY <1>0, OwnersApart DEF Mapped, IInv, CallsOK
<1>9. Shown(Referenced(p))' = Shown(Referenced(p))
  <2>1. Referenced(p) = Target(from)
    BY <1>0, <1>2 DEF Mapped, ReferencedOK, Stores, Ref
  <2>2. \A u \in Thread : ~Stores(u, p)'
    BY <1>3, <1>8 DEF Stores
  <2>3. Referenced(p)' = Target(from)
    BY <1>0, <1>7, <2>2 DEF Mapped, ReferencedOK, Ref
  <2> QED
    BY <1>2, <2>1, <2>3 DEF Shown
<1>10. Shows' = Shows
  <2>1. ASSUME NEW q \in Pointer \ {p}
        PROVE  /\ <<q, "_target">> \notin {from, to, result}
               /\ \A u \in Thread : Stores(u, q)' <=> Stores(u, q)
               /\ \A u \in Thread : Stores(u, q) => <<u, "target">> \notin {from, to, result}
    <3>1. ASSUME NEW u \in Thread, Stores(u, q) \/ Stores(u, q)' PROVE u # t
      <4>1. ~Stores(t, q) /\ ~Stores(t, q)'
        BY <1>0, <1>3 DEF Stores
      <4> QED
        BY <3>1, <4>1
    <3>2. \A u \in Thread : Stores(u, q)' <=> Stores(u, q)
      <4>1. \A u \in Thread \ {t} : Stores(u, q)' <=> Stores(u, q)
        BY <1>3 DEF Stores
      <4> QED
        BY <3>1, <4>1
    <3> QED
      BY <1>0, <3>1, <3>2, OwnersApart
  <2>2. /\ Shows' = [Shows EXCEPT ![p] = Shows'[p]]
        /\ Shows[p] = Shown(Referenced(p)) /\ Shows'[p] = Shown(Referenced(p))'
    BY <1>6, <2>1, OnePointer
  <2> QED
    BY <1>9, <2>2 DEF Shows
<1>11. Values' = Values /\ Pendings[t].stored
  BY <1>2, ValuesKept, PendingIs DEF Mapped
<1> QED
  BY <1>3, <1>10, <1>11 DEF Abs!ReturnStored, Values, Shows, Pendings

(***************************************************************************)
(* Steps that leave pointers alone.                                        *)
(***************************************************************************)
Elsewhere == ~Shortens /\ \A q \in Pointer : ~Repoints(q)

(* The first storage values have the first bytes.                          *)
LEMMA ContentsPrefix ==
  ASSUME NEW items \in Seq(Item), \A i \in DOMAIN items : Plain(items[i]),
         NEW n \in 0 .. Len(items), NEW front, front = SubSeq(items, 1, n)
  PROVE  IsPrefix(FlattenSeq(Contents(front)), FlattenSeq(Contents(items)))
<1>1. PICK contents : contents = Contents(items)
  OBVIOUS
<1>2. contents \in Seq(Seq(Nat)) /\ Len(contents) = Len(items) /\ n \in 0 .. Len(contents)
  BY <1>1, ContentsAreBytes
<1>3. Contents(front) = SubSeq(contents, 1, n)
  <2>1. /\ front \in Seq(Item) /\ Len(front) = n /\ Len(items) \in Nat
        /\ \A i \in 1 .. n : front[i] = items[i] /\ i \in DOMAIN items
    OBVIOUS
  <2>2. Contents(front) = [i \in 1 .. n |-> BytesOf(items[i])]
    BY <2>1 DEF Contents
  <2>3. \A i \in 1 .. n : contents[i] = BytesOf(items[i])
    BY <1>1, <2>1 DEF Contents
  <2>4. SubSeq(contents, 1, n) = [i \in 1 .. n |-> contents[i]]
    BY <1>2
  <2> QED
    BY <2>2, <2>3, <2>4
<1>4. PICK a \in Seq(Nat) : a = FlattenSeq(SubSeq(contents, 1, n))
  BY <1>2, FlattenPart
<1>5. PICK rest \in Seq(Nat) : FlattenSeq(contents) = a \o rest
  BY <1>2, <1>4, FlattenPrefix
<1>6. IsPrefix(a, a \o rest)
  BY PrefixIfExtends
<1> QED
  BY <1>1, <1>3, <1>4, <1>5, <1>6

(* A step on a vector that no call reads.                                  *)
LEMMA VectorStepRefines ==
  ASSUME Mapped, Elsewhere, NEW v \in Vector, NEW n, StepKeeps({<<v, n>>}),
         ~Reading(v), UNCHANGED <<pc, call>>, \A w \in Vector : w # v => vector'[w] = vector[w]
  PROVE  /\ Shows' = Shows /\ Pendings' = Pendings /\ ~Abs!InUse(v)
         /\ Values' = [Values EXCEPT ![v] = Values'[v]]
         /\ Values[v].bytes = BytesIn(v) /\ Values'[v].bytes = BytesIn(v)'
         /\ Values[v].file = HasFile(v) /\ Values'[v].file = HasFile(v)'
<1>1. Pendings' = Pendings
  BY DEF Pendings, Pending
<1>2. Shows' = Shows
  <2>1. PICK slot : slot = <<v, n>>
    OBVIOUS
  <2>2. /\ \A q \in Pointer : <<q, "_target">> \notin {slot}
        /\ \A u \in Thread : <<u, "target">> \notin {slot}
    BY <2>1, OwnersApart
  <2>3. StepKeeps({slot})
    BY <2>1
  <2> QED
    BY <2>2, <2>3, ShowsKept DEF Mapped, Elsewhere
<1>3. ~Abs!InUse(v)
  BY InUseAbs DEF Mapped
<1> QED
  BY <1>1, <1>2, <1>3, ValueStep DEF Mapped

LEMMA AppendRefines ==
  ASSUME Mapped, Elsewhere, NEW v \in Vector,
         \/ \E item \in Items : AppendItem(v, item)
         \/ \E w \in Vector : \E i \in DOMAIN vector[w] : AppendShared(v, w, i)
  PROVE  Abs!AppendTo(v)
<1>1. PICK n : StepKeeps({<<v, n>>})
  BY AppendItemKeeps, AppendSharedKeeps DEF Mapped
<1>2. PICK item : vector' = [vector EXCEPT ![v] = Append(@, item)]
  BY DEF AppendItem, AppendShared
<1>3. ~Reading(v) /\ UNCHANGED <<pc, call>> /\ \A w \in Vector : w # v => vector'[w] = vector[w]
  BY <1>2 DEF AppendItem, AppendShared, Mapped, IInv, TypeOK
<1>4. PICK items, more : items = vector[v] /\ more = vector'[v]
  OBVIOUS
<1>5. /\ items \in Seq(Item) /\ more \in Seq(Item) /\ more = Append(items, item)
      /\ \A i \in DOMAIN more : Plain(more[i])
  BY <1>2, <1>4 DEF Mapped, IInv, TypeOK, PlainVectors
<1>6. IsPrefix(BytesIn(v), BytesIn(v)')
  <2>1. items = SubSeq(more, 1, Len(items)) /\ Len(items) \in 0 .. Len(more)
    BY <1>5
  <2>2. IsPrefix(FlattenSeq(Contents(items)), FlattenSeq(Contents(more)))
    BY <1>5, <2>1, ContentsPrefix
  <2> QED
    BY <1>4, <2>2 DEF BytesIn
<1>7. HasFile(v) => HasFile(v)'
  <2>1. \A i \in DOMAIN items : i \in DOMAIN more /\ more[i] = items[i]
    BY <1>5
  <2> QED
    BY <1>4, <2>1 DEF HasFile
<1>8. /\ Shows' = Shows /\ Pendings' = Pendings /\ ~Abs!InUse(v)
      /\ Values' = [Values EXCEPT ![v] = Values'[v]]
      /\ IsPrefix(Values[v].bytes, Values'[v].bytes)
      /\ Values[v].file => Values'[v].file
  BY <1>1, <1>3, <1>6, <1>7, VectorStepRefines
<1>9. Abs!Changes(v)
  BY <1>8 DEF Abs!Changes, Values, Shows, Pendings
<1>10. Abs!IsPrefix(Values[v].bytes, Values'[v].bytes)
  BY <1>8 DEF IsPrefix, Abs!IsPrefix
<1> QED
  BY <1>8, <1>9, <1>10 DEF Abs!AppendTo, Values

LEMMA DropItemRefines ==
  ASSUME Mapped, Elsewhere, NEW v \in Vector, DropItem(v)
  PROVE  Abs!Destroy(v)
<1>1. PICK n : StepKeeps({<<v, n>>})
  BY DropItemKeeps DEF Mapped
<1>2. vector' = [vector EXCEPT ![v] = Front(@)] /\ vector[v] # <<>>
  BY DEF DropItem
<1>3. ~Reading(v) /\ UNCHANGED <<pc, call>> /\ \A w \in Vector : w # v => vector'[w] = vector[w]
  BY <1>2 DEF DropItem, Mapped, IInv, TypeOK
<1>4. PICK items, front : items = vector[v] /\ front = vector'[v]
  OBVIOUS
<1>5. /\ items \in Seq(Item) /\ items # <<>> /\ front = SubSeq(items, 1, Len(items) - 1)
      /\ \A i \in DOMAIN items : Plain(items[i])
  BY <1>2, <1>4 DEF Mapped, IInv, TypeOK, PlainVectors, Front
<1>6. IsPrefix(BytesIn(v)', BytesIn(v))
  <2>1. Len(items) - 1 \in 0 .. Len(items)
    BY <1>5
  <2>2. IsPrefix(FlattenSeq(Contents(front)), FlattenSeq(Contents(items)))
    BY <1>5, <2>1, ContentsPrefix
  <2> QED
    BY <1>4, <2>2 DEF BytesIn
<1>7. HasFile(v)' => HasFile(v)
  <2>1. \A i \in DOMAIN front : i \in DOMAIN items /\ front[i] = items[i]
    BY <1>5
  <2> QED
    BY <1>4, <2>1 DEF HasFile
<1>8. /\ Shows' = Shows /\ Pendings' = Pendings /\ ~Abs!InUse(v)
      /\ Values' = [Values EXCEPT ![v] = Values'[v]]
      /\ IsPrefix(Values'[v].bytes, Values[v].bytes)
      /\ Values'[v].file => Values[v].file
  BY <1>1, <1>3, <1>6, <1>7, VectorStepRefines
<1>9. Abs!Changes(v)
  BY <1>8 DEF Abs!Changes, Values, Shows, Pendings
<1>10. Abs!IsPrefix(Values'[v].bytes, Values[v].bytes)
  BY <1>8 DEF IsPrefix, Abs!IsPrefix
<1> QED
  BY <1>8, <1>9, <1>10 DEF Abs!Destroy, Values

LEMMA FromNSDataRefines ==
  ASSUME Mapped, Elsewhere, NEW v \in Vector, NEW p \in Pointer, FromNSData(v, p)
  PROVE  Abs!FromNSData(v, p)
<1>1. PICK data \in Object, bytes \in Seq(Nat) :
        data = Ref(p, "_target") /\ bytes = object[data].bytes
  <2>1. Ref(p, "_target") \in Object
    BY DEF FromNSData, Ref, Target, Mapped, IInv, Balanced
  <2> QED
    BY <2>1 DEF Mapped, IInv, TypeOK
<1>2. /\ StepKeeps({<<v, 1>>})
      /\ ~Reading(v) /\ ~InUse(p) /\ UNCHANGED <<pc, call>> /\ vector[v] = <<>>
      /\ vector' = [vector EXCEPT ![v] = <<Buffered(bytes)>>]
  BY <1>1, FromNSDataKeeps DEF FromNSData, Mapped
<1>3. vector'[v] = <<Buffered(bytes)>> /\ \A w \in Vector : w # v => vector'[w] = vector[w]
  BY <1>2 DEF Mapped, IInv, TypeOK
<1>4. BytesIn(v) = <<>>
  <2>1. Contents(<<>>) = <<>>
    BY DEF Contents
  <2>2. SubSeq(<<>>, 1, 0) = <<>>
    BY SubSeqEmpty
  <2>3. FlattenSeq(<<>>) = <<>>
    BY <2>2, FlattenNothing
  <2> QED
    BY <1>2, <2>1, <2>3 DEF BytesIn
<1>5. BytesIn(v)' = bytes
  <2>1. PICK item : item = Buffered(bytes)
    OBVIOUS
  <2>2. FlattenSeq(<<bytes>>) = bytes
    <3>1. <<bytes>> \in Seq(Seq(Nat)) /\ Len(<<bytes>>) = 1 /\ <<bytes>>[1] = bytes
      OBVIOUS
    <3> QED
      BY <3>1, FlattenOne
  <2>3. BytesOf(item) = bytes
    BY <2>1, <2>2 DEF BytesOf, Buffered
  <2>4. Contents(<<item>>) = <<bytes>>
    <3>1. PICK one : one = <<item>>
      OBVIOUS
    <3>2. DOMAIN one = 1 .. 1 /\ one[1] = item
      BY <3>1
    <3>3. Contents(one) = [i \in 1 .. 1 |-> bytes]
      BY <2>3, <3>2 DEF Contents
    <3> QED
      BY <3>1, <3>3
  <2> QED
    BY <1>3, <2>1, <2>2, <2>4 DEF BytesIn
<1>6. ~HasFile(v)'
  BY <1>3 DEF HasFile, Buffered
<1>7. /\ Shows' = Shows /\ Pendings' = Pendings /\ ~Abs!InUse(v)
      /\ Values' = [Values EXCEPT ![v] = Values'[v]]
      /\ Values[v].bytes = <<>>
  BY <1>2, <1>3, <1>4, VectorStepRefines
<1>8. Values'[v] = [bytes |-> bytes, file |-> FALSE]
  <2>1. HasFile(v)' = FALSE
    BY <1>6
  <2> QED
    BY <1>5, <2>1 DEF Mapped, ValuesOK
<1>9. Shows[p].id # NULL /\ Shows[p].bytes = bytes
  <2>1. \A t \in Thread : ~Stores(t, p)
    BY <1>2 DEF InUse, Stores
  <2>2. Referenced(p) = data /\ data # NULL
    BY <1>1, <2>1, OwnersApart DEF Mapped, ReferencedOK
  <2> QED
    BY <1>1, <2>2 DEF Shows, Shown
<1>10. ~Abs!InUse(p)
  BY <1>2, InUseAbs DEF Mapped
<1> QED
  BY <1>7, <1>8, <1>9, <1>10 DEF Abs!FromNSData, Values, Shows, Pendings

(* A step of the call of t that stores nothing.                            *)
LEMMA CallKept ==
  ASSUME Mapped, Elsewhere, NEW t \in Thread, StepKeeps({t} \X Local), UNCHANGED vector,
         \A u \in Thread \ {t} : pc'[u] = pc[u] /\ call'[u] = call[u],
         pc[t] # "store", pc'[t] # "store"
  PROVE  /\ Shows' = Shows /\ Values' = Values
         /\ Pendings' = [Pendings EXCEPT ![t] = Pending(t)'] /\ Pendings[t] = Pending(t)
         /\ Pending(t)' = Pending(t) => Pendings' = Pendings
<1>1. Shows' = Shows
  <2>1. PICK S : S = {t} \X Local
    OBVIOUS
  <2>2. /\ \A q \in Pointer : <<q, "_target">> \notin S
        /\ \A u \in Thread \ {t} : <<u, "target">> \notin S
    BY <2>1, OwnersApart
  <2>3. StepKeeps(S)
    BY <2>1
  <2>4. /\ \A u \in Thread : pc'[u] = "store" <=> pc[u] = "store"
        /\ \A u \in Thread : pc[u] = "store" =>
             call'[u].pointer = call[u].pointer /\ <<u, "target">> \notin S
    <3>1. \A u \in Thread : u = t \/ u \in Thread \ {t}
      OBVIOUS
    <3> QED
      BY <2>2, <3>1
  <2> QED
    BY <2>2, <2>3, <2>4, ShowsKept DEF Mapped, Elsewhere
<1> QED
  BY <1>1, ValuesKept, PendingsKept DEF Mapped

LEMMA BeginsRefines ==
  ASSUME Mapped, Elsewhere, NEW t \in Thread, UNCHANGED <<heap, object, vector>>,
         \A u \in Thread \ {t} : pc'[u] = pc[u] /\ call'[u] = call[u],
         pc[t] = "idle", pc'[t] # "store",
         NEW from, ReadFrom(call'[t]) = from, NEW p \in Pointer, call'[t].pointer = p,
         call'[t].lost = FALSE
  PROVE  Abs!Begin(t, from, p)
<1>1. StepKeeps({t} \X Local)
  BY NoMemoryKeeps DEF Mapped
<1>2. /\ Shows' = Shows /\ Values' = Values
      /\ Pendings' = [Pendings EXCEPT ![t] = Pending(t)'] /\ Pendings[t] = Pending(t)
  BY <1>1, CallKept
<1>3. Pending(t)' = [from |-> from, to |-> p, lost |-> FALSE, stored |-> FALSE]
  <2>1. (pc'[t] = "store") = FALSE
    OBVIOUS
  <2> QED
    BY <2>1 DEF Pending
<1>4. Pendings[t] = [from |-> NULL, to |-> NULL, lost |-> FALSE, stored |-> FALSE]
  BY PendingIs DEF Mapped
<1> QED
  BY <1>2, <1>3, <1>4 DEF Abs!Begin, Abs!NoCall, Values, Shows, Pendings

LEMMA ToNSDataRefines ==
  ASSUME Mapped, Elsewhere, NEW t \in Thread, NEW v \in Vector, NEW p \in Pointer, ToNSData(t, v, p)
  PROVE  Abs!ToNSData(t, v, p)
<1>1. PICK c : c = [Idle EXCEPT !.vector = v, !.pointer = p]
  OBVIOUS
<1>2. /\ UNCHANGED <<heap, object, vector>> /\ ~InUse(p)
      /\ \A u \in Thread \ {t} : pc'[u] = pc[u] /\ call'[u] = call[u]
      /\ pc[t] = "idle" /\ pc'[t] = "iterate" /\ call'[t] = AtItem(c, 1)
  BY <1>1 DEF ToNSData, At, Mapped, IInv, TypeOK
<1>3. c \in Call /\ c.vector = v /\ c.pointer = p /\ c.lost = FALSE
  <2>1. /\ Idle \in Call /\ Idle.lost = FALSE
        /\ v \in Vector \cup {NULL} /\ p \in Pointer \cup {NULL}
    BY IdleIsACall DEF Idle
  <2> QED
    BY <1>1, <2>1 DEF Call
<1>4. SameCall(AtItem(c, 1), c)
  BY <1>3, IterationSame
<1>5. /\ call'[t].vector = v /\ call'[t].pointer = p /\ call'[t].lost = FALSE
  BY <1>2, <1>3, <1>4 DEF SameCall
<1>6. ReadFrom(call'[t]) = v
  BY <1>5, OwnersApart DEF ReadFrom
<1>7. Abs!Begin(t, v, p)
  BY <1>2, <1>5, <1>6, BeginsRefines
<1> QED
  BY <1>2, <1>7, InUseAbs DEF Abs!ToNSData, Mapped

LEMMA AssignRefines ==
  ASSUME Mapped, Elsewhere, NEW t \in Thread, NEW p \in Pointer, NEW q \in Pointer, Assign(t, p, q)
  PROVE  Abs!Assign(t, p, q)
<1>1. PICK source : source = <<q, "_target">>
  OBVIOUS
<1>2. /\ UNCHANGED <<heap, object, vector>> /\ ~InUse(p) /\ ~InUse(q)
      /\ \A u \in Thread \ {t} : pc'[u] = pc[u] /\ call'[u] = call[u]
      /\ pc[t] = "idle" /\ pc'[t] = "put"
      /\ call'[t] = [Idle EXCEPT !.pointer = p, !.source = source]
  BY <1>1 DEF Assign, At, Mapped, IInv, TypeOK
<1>3. /\ call'[t].vector = NULL /\ call'[t].pointer = p /\ call'[t].lost = FALSE
      /\ call'[t].source = source
  BY <1>2 DEF Idle
<1>4. source # <<>> /\ source[1] = q
  BY <1>1
<1>5. ReadFrom(call'[t]) = q
  BY <1>3, <1>4 DEF ReadFrom
<1>6. Abs!Begin(t, q, p)
  BY <1>2, <1>3, <1>5, BeginsRefines
<1> QED
  BY <1>2, <1>6, InUseAbs DEF Abs!Assign, Mapped

(* Steps that do not show.                                                 *)
LEMMA CallStutters ==
  ASSUME Mapped, Elsewhere, NEW t \in Thread,
         \/ CopyBuffered(t) \/ CopyDirectValue(t) \/ ReadFile(t) \/ Deliver(t)
         \/ ReturnData(t) \/ ReturnNoData(t) \/ PutRetain(t)
  PROVE  UNCHANGED <<Values, Shows, Pendings>>
<1>1. CASE CopyBuffered(t) \/ CopyDirectValue(t) \/ ReadFile(t) \/ Deliver(t)
  <2>1. /\ StepKeeps({t} \X Local) /\ UNCHANGED vector
        /\ \A u \in Thread \ {t} : pc'[u] = pc[u] /\ call'[u] = call[u]
    BY <1>1, IterateKeeps DEF Mapped
  <2>2. /\ pc[t] # "store" /\ pc'[t] # "store" /\ SameCall(call'[t], call[t])
    BY <1>1, Iterates DEF Mapped
  <2>3. Pending(t)' = Pending(t)
    BY <2>2, PendingSame DEF SameCall
  <2> QED
    BY <2>1, <2>2, <2>3, CallKept
<1>2. CASE ReturnData(t) \/ ReturnNoData(t)
  <2>1. /\ StepKeeps({t} \X Local) /\ UNCHANGED vector
        /\ \A u \in Thread \ {t} : pc'[u] = pc[u] /\ call'[u] = call[u]
    BY <1>2, OtherStepKeeps DEF Mapped
  <2>2. /\ pc[t] = "iterate" /\ pc' = [pc EXCEPT ![t] = "put"]
        /\ call' = [call EXCEPT ![t].source = <<t, "returnValue">>]
    BY <1>2 DEF ReturnData, ReturnNoData, At
  <2>3. call \in [Thread -> Call] /\ pc \in [Thread -> Place] /\ call[t].vector \in Vector
    BY <2>2, InCall DEF Mapped, IInv, TypeOK
  <2>4. /\ pc[t] # "store" /\ pc'[t] # "store" /\ call[t].vector # NULL
        /\ call'[t].vector = call[t].vector /\ call'[t].pointer = call[t].pointer
        /\ call'[t].lost = call[t].lost
    BY <2>2, <2>3, OwnersApart DEF Call
  <2>5. Pending(t)' = Pending(t)
    BY <2>4, PendingSame
  <2> QED
    BY <2>1, <2>4, <2>5, CallKept
<1>3. CASE PutRetain(t)
  <2>1. /\ StepKeeps({t} \X Local) /\ UNCHANGED <<vector, call>>
        /\ \A u \in Thread \ {t} : pc'[u] = pc[u] /\ call'[u] = call[u]
        /\ pc[t] = "put" /\ pc'[t] = "release"
    BY <1>3, OtherStepKeeps DEF PutRetain, At, Mapped, IInv, TypeOK
  <2>2. Pending(t)' = Pending(t)
    BY <2>1, PendingSame
  <2> QED
    BY <2>1, <2>2, CallKept
<1> QED
  BY <1>1, <1>2, <1>3

LEMMA LostRecord ==
  ASSUME NEW r, \E x, y, z, d : r = [from |-> x, to |-> y, lost |-> z, stored |-> d],
         NEW s, s = [from |-> r.from, to |-> r.to, lost |-> TRUE, stored |-> r.stored]
  PROVE  s = [r EXCEPT !.lost = TRUE]
<1>1. PICK x, y, z, d : r = [from |-> x, to |-> y, lost |-> z, stored |-> d]
  OBVIOUS
<1>2. \A e : [r EXCEPT !.lost = e] = [from |-> x, to |-> y, lost |-> e, stored |-> d]
  BY <1>1
<1>3. r.from = x /\ r.to = y /\ r.stored = d
  BY <1>1
<1> QED
  BY <1>2, <1>3, Zenon

LEMMA ReadsFileAbs ==
  ASSUME Mapped, NEW t \in Thread, pc[t] \in {"iterate", "fail"},
         call[t].vector \in Vector, HasFile(call[t].vector)
  PROVE  Abs!ReadsFile(t)
<1>1. PICK v \in Vector : v = call[t].vector
  OBVIOUS
<1>2. /\ Pendings[t].from = v /\ Pendings[t].to = call[t].pointer /\ ~Pendings[t].stored
      /\ call[t].pointer # NULL
  BY <1>1, PendingIs, InCall, OwnersApart DEF Mapped
<1>3. Values[v].file
  BY <1>1 DEF Mapped, ValuesOK
<1> QED
  BY <1>2, <1>3 DEF Abs!ReadsFile, Abs!Active, Values, Pendings

LEMMA ReadFailsRefines ==
  ASSUME Mapped, Elsewhere, NEW t \in Thread, ReadFails(t)
  PROVE  Abs!Lose(t) \/ UNCHANGED <<Values, Shows, Pendings>>
<1>1. /\ StepKeeps({t} \X Local) /\ UNCHANGED vector
      /\ \A u \in Thread \ {t} : pc'[u] = pc[u] /\ call'[u] = call[u]
  BY OtherStepKeeps DEF Mapped
<1>2. /\ pc[t] = "iterate" /\ call[t].vector \in Vector /\ HasFile(call[t].vector)
      /\ pc'[t] # "store"
  BY ReadFailsHow DEF Mapped
<1>3. /\ Shows' = Shows /\ Values' = Values
      /\ Pendings' = [Pendings EXCEPT ![t] = Pending(t)'] /\ Pendings[t] = Pending(t)
      /\ Pending(t)' = Pending(t) => Pendings' = Pendings
  BY <1>1, <1>2, CallKept
<1>4. CASE UNCHANGED call
  <2>1. Pending(t)' = Pending(t)
    BY <1>2, <1>4, PendingSame
  <2> QED
    BY <1>3, <2>1
<1>5. CASE /\ pc'[t] = "iterate" /\ call'[t].lost
           /\ call'[t].vector = call[t].vector /\ call'[t].pointer = call[t].pointer
  <2>1. call[t].vector # NULL
    BY <1>2, OwnersApart
  <2>2. PICK r : r = Pending(t)
    OBVIOUS
  <2>3. \E x, y, z, d : r = [from |-> x, to |-> y, lost |-> z, stored |-> d]
    BY <2>2, Zenon DEF Pending
  <2>4. Pending(t)' = [from |-> r.from, to |-> r.to, lost |-> TRUE, stored |-> r.stored]
    <3>1. call'[t].lost = TRUE
      BY <1>5 DEF Mapped, IInv, TypeOK, Call
    <3>2. ReadFrom(call'[t]) = ReadFrom(call[t])
      BY <1>5, <2>1 DEF ReadFrom
    <3>3. (pc'[t] = "store") = FALSE /\ r.stored = FALSE
      BY <1>2, <2>2 DEF Pending
    <3>4. r.from = ReadFrom(call[t]) /\ r.to = call[t].pointer
      BY <2>2 DEF Pending
    <3> QED
      BY <1>5, <3>1, <3>2, <3>3, <3>4 DEF Pending
  <2>5. Pending(t)' = [Pending(t) EXCEPT !.lost = TRUE]
    BY <2>2, <2>3, <2>4, LostRecord
  <2>6. Pendings' = [Pendings EXCEPT ![t].lost = TRUE]
    BY <1>3, <2>5
  <2>7. Abs!ReadsFile(t)
    BY <1>2, ReadsFileAbs
  <2> QED
    BY <1>3, <2>6, <2>7 DEF Abs!Lose, Values, Shows, Pendings
<1> QED
  BY <1>4, <1>5, ReadFailsHow DEF Mapped

LEMMA ReturnErrorRefines ==
  ASSUME Mapped, Elsewhere, NEW t \in Thread, ReturnError(t)
  PROVE  Abs!Fail(t)
<1>1. /\ StepKeeps({t} \X Local) /\ UNCHANGED vector
      /\ pc[t] = "fail" /\ Return(t)
  BY OtherStepKeeps DEF ReturnError, At, Mapped
<1>2. /\ pc'[t] = "idle" /\ Abs!Return(t)
      /\ \A u \in Thread \ {t} : pc'[u] = pc[u] /\ call'[u] = call[u]
  BY <1>1, Returns DEF Mapped
<1>3. Shows' = Shows /\ Values' = Values
  BY <1>1, <1>2, CallKept
<1>4. call[t].vector \in Vector /\ HasFile(call[t].vector)
  BY <1>1 DEF Mapped, VInv, Effect, FailsOnFile, IInv, CallsOK
<1>5. Abs!ReadsFile(t)
  BY <1>1, <1>4, ReadsFileAbs
<1> QED
  BY <1>2, <1>3, <1>5 DEF Abs!Fail, Values, Shows

LEMMA PutSameRefines ==
  ASSUME Mapped, Elsewhere, NEW t \in Thread, PutSame(t)
  PROVE  Abs!ReturnSame(t)
<1>1. /\ StepKeeps({t} \X Local) /\ UNCHANGED vector
      /\ pc[t] = "put" /\ Return(t) /\ Ref(call[t].pointer, "_target") = Source(t)
  BY OtherStepKeeps DEF PutSame, At, Mapped
<1>2. /\ pc'[t] = "idle" /\ Abs!Return(t)
      /\ \A u \in Thread \ {t} : pc'[u] = pc[u] /\ call'[u] = call[u]
  BY <1>1, Returns DEF Mapped
<1>3. Shows' = Shows /\ Values' = Values
  BY <1>1, <1>2, CallKept
<1>4. PICK p \in Pointer : p = call[t].pointer
  BY <1>1, InCall DEF Mapped
<1>5. Shows[p] = Shown(Source(t))
  <2>1. ASSUME NEW u \in Thread, Stores(u, p) PROVE FALSE
    <3>1. u = t
      BY <1>4, <2>1, OwnersApart DEF Stores, Mapped, IInv, CallsOK
    <3> QED
      BY <1>1, <2>1, <3>1 DEF Stores
  <2>2. Referenced(p) = Source(t)
    BY <1>1, <1>4, <2>1 DEF Mapped, ReferencedOK
  <2> QED
    BY <2>2 DEF Shows
<1>6. Abs!IsResult(t, Shows[p])
  BY <1>1, <1>5, ResultIs
<1>7. Pendings[t].to = p /\ p # NULL /\ ~Pendings[t].stored
  BY <1>1, <1>4, PendingIs, OwnersApart DEF Mapped
<1> QED
  BY <1>2, <1>3, <1>6, <1>7 DEF Abs!ReturnSame, Abs!Active, Values, Shows, Pendings

LEMMA ProgramStutters ==
  ASSUME Mapped, Elsewhere, StepKeeps({}), UNCHANGED <<vector, pc, call>>
  PROVE  UNCHANGED <<Values, Shows, Pendings>>
<1>1. Pendings' = Pendings
  BY DEF Pendings, Pending
<1>2. Shows' = Shows
  <2>1. \A x : x \notin {}
    OBVIOUS
  <2> QED
    BY <2>1, ShowsKept DEF Mapped, Elsewhere
<1> QED
  BY <1>1, <1>2, ValuesKept DEF Mapped

(***************************************************************************)
(* The refinement.                                                         *)
(***************************************************************************)
LEMMA NextRefines ==
  ASSUME Mapped, [Next]_vars
  PROVE  Abs!Next \/ UNCHANGED <<Values, Shows, Pendings>>
<1>1. CASE Shortens
  <2>1. PICK p \in Pointer : SetLength(p)
    BY <1>1 DEF Shortens
  <2> QED
    BY <2>1, SetLengthRefines DEF Abs!Next
<1>2. ASSUME NEW q \in Pointer, Repoints(q) PROVE Abs!Next
  <2>1. CASE \E kind, bytes : NewData(q, kind, bytes)
    BY <2>1, NewDataRefines DEF Abs!Next
  <2>2. CASE DestroyPointer(q)
    BY <2>2, DestroyPointerRefines DEF Abs!Next
  <2>3. CASE \E t \in Thread : PutRelease(t)
    BY <2>3, PutReleaseRefines DEF Abs!Next
  <2>4. CASE \E t \in Thread : PutStore(t)
    BY <2>4, PutStoreRefines DEF Abs!Next
  <2> QED
    BY <1>2, <2>1, <2>2, <2>3, <2>4 DEF Repoints
<1>3. CASE Elsewhere
  <2>1. CASE Vectors
    <3>1. ASSUME NEW v \in Vector, NEW item \in Items, AppendItem(v, item) PROVE Abs!AppendTo(v)
      BY <1>3, <3>1, AppendRefines
    <3>2. ASSUME NEW v \in Vector, NEW w \in Vector, NEW i \in DOMAIN vector[w], AppendShared(v, w, i)
          PROVE  Abs!AppendTo(v)
      BY <1>3, <3>2, AppendRefines
    <3>3. ASSUME NEW v \in Vector, DropItem(v) PROVE Abs!Destroy(v)
      BY <1>3, <3>3, DropItemRefines
    <3> QED
      BY <2>1, <3>1, <3>2, <3>3 DEF Vectors, Abs!Next
  <2>2. CASE Pointers
    <3>1. ASSUME NEW p \in Pointer,
                 SetLength(p) \/ DestroyPointer(p) \/ \E kind, bytes : NewData(p, kind, bytes)
          PROVE  FALSE
      BY <1>3, <3>1 DEF Elsewhere, Shortens, Repoints
    <3> QED
      BY <2>2, <3>1 DEF Pointers
  <2>3. CASE Calls
    <3>1. ASSUME NEW t \in Thread, NEW v \in Vector, NEW p \in Pointer, ToNSData(t, v, p)
          PROVE  Abs!ToNSData(t, v, p)
      BY <1>3, <3>1, ToNSDataRefines
    <3>2. ASSUME NEW t \in Thread, NEW p \in Pointer, NEW q \in Pointer, Assign(t, p, q)
          PROVE  Abs!Assign(t, p, q)
      BY <1>3, <3>2, AssignRefines
    <3>3. ASSUME NEW v \in Vector, NEW p \in Pointer, FromNSData(v, p) PROVE Abs!FromNSData(v, p)
      BY <1>3, <3>3, FromNSDataRefines
    <3> QED
      BY <2>3, <3>1, <3>2, <3>3 DEF Calls, Abs!Next
  <2>4. ASSUME NEW t \in Thread, Step(t)
        PROVE  Abs!Next \/ UNCHANGED <<Values, Shows, Pendings>>
    <3>1. CASE ReadFails(t)
      BY <1>3, <3>1, ReadFailsRefines DEF Abs!Next
    <3>2. CASE ReturnError(t)
      BY <1>3, <3>2, ReturnErrorRefines DEF Abs!Next
    <3>3. CASE PutSame(t)
      BY <1>3, <3>3, PutSameRefines DEF Abs!Next
    <3>4. CASE PutRelease(t)
      BY <3>4, PutReleaseRefines DEF Abs!Next
    <3>5. CASE PutStore(t)
      BY <3>5, PutStoreRefines DEF Abs!Next
    <3> QED
      BY <1>3, <2>4, <3>1, <3>2, <3>3, <3>4, <3>5, CallStutters DEF Step
  <2>5. CASE Cleanup
    BY <1>3, <2>5, FinalizeKeeps, ProgramStutters DEF Cleanup, Finalize, Mapped
  <2>6. CASE UNCHANGED vars
    BY <1>3, <2>6, NoMemoryKeeps, ProgramStutters DEF vars, Mapped
  <2> QED
    BY <2>1, <2>2, <2>3, <2>4, <2>5, <2>6 DEF Next
<1> QED
  BY <1>1, <1>2, <1>3 DEF Elsewhere

LEMMA InitRefines == Init => Abs!Init
<1> SUFFICES ASSUME Init PROVE Abs!Init
  OBVIOUS
<1>1. IInv /\ CInv /\ VInv /\ ValuesOK /\ ReferencedOK
  BY InitIInv, InitCInv, InitVInv, ValuesHold, ReferencedHolds
<1>2. ASSUME NEW v \in Vector PROVE Values[v] = [bytes |-> <<>>, file |-> FALSE]
  <2>1. Contents(<<>>) = <<>>
    BY DEF Contents
  <2>2. SubSeq(<<>>, 1, 0) = <<>>
    BY SubSeqEmpty
  <2>3. FlattenSeq(<<>>) = <<>>
    BY <2>2, FlattenNothing
  <2>4. BytesIn(v) = <<>>
    BY <2>1, <2>3 DEF Init, BytesIn
  <2>5. HasFile(v) = FALSE
    BY DEF Init, HasFile
  <2> QED
    BY <1>1, <2>4, <2>5 DEF ValuesOK
<1>3. ASSUME NEW p \in Pointer
      PROVE  Shows[p] = [id |-> NULL, mutable |-> FALSE, bytes |-> <<>>]
  <2>1. \A t \in Thread : ~Stores(t, p)
    BY DEF Init, Stores
  <2>2. DOMAIN heap.ref = {}
    BY DEF Init
  <2>3. Referenced(p) = NULL
    BY <1>1, <2>1, <2>2 DEF ReferencedOK, Ref, Target
  <2> QED
    BY <2>3, ShownNull DEF Shows
<1>4. ASSUME NEW t \in Thread
      PROVE  Pendings[t] = [from |-> NULL, to |-> NULL, lost |-> FALSE, stored |-> FALSE]
  <2>1. pc[t] = "idle"
    BY DEF Init
  <2> QED
    BY <1>1, <2>1, PendingIs
<1>5. Values = [v \in Vector |-> [bytes |-> <<>>, file |-> FALSE]]
  BY <1>2 DEF Values
<1>6. Shows = [p \in Pointer |-> [id |-> NULL, mutable |-> FALSE, bytes |-> <<>>]]
  BY <1>3 DEF Shows
<1>7. Pendings = [t \in Thread |-> [from |-> NULL, to |-> NULL, lost |-> FALSE, stored |-> FALSE]]
  BY <1>4 DEF Pendings
<1> QED
  BY <1>5, <1>6, <1>7 DEF Abs!Init, Abs!NoData, Abs!NoCall, Values, Shows, Pendings

LEMMA ValuesInvariantHolds ==
  ASSUME ViewsOfOneChunk
  PROVE  Spec => [](IInv /\ CInv /\ GInv /\ VInv)
<1>1. Init => VInv
  BY InitVInv
<1>2. IInv /\ CInv /\ GInv /\ VInv /\ [Next]_vars => VInv'
  BY NextVInv
<1>3. Spec => [](IInv /\ CInv) /\ [](IInv /\ GInv)
  BY InvariantHolds, GathersInvariantHolds
<1> QED
  BY <1>1, <1>2, <1>3, PTL DEF Spec

(* Vectors and NSData objects are values to their programs: whatever       *)
(* threads, destructors and failing reads do in between, every toNSData,   *)
(* fromNSData and assignment has the effect of one step of DataValues.     *)
THEOREM ValuesRefinement == ASSUME ViewsOfOneChunk PROVE Spec => Implements
<1>1. Init => Abs!Init
  BY InitRefines
<1>2. /\ IInv /\ CInv /\ GInv /\ VInv /\ [Next]_vars
      /\ IInv' /\ CInv'
      => [Abs!Next]_(Abs!vars)
  <2> SUFFICES ASSUME IInv, IInv', CInv, CInv', GInv, VInv, [Next]_vars
               PROVE  Abs!Next \/ UNCHANGED <<Values, Shows, Pendings>>
    BY DEF Abs!vars, Values, Shows, Pendings
  <2>1. Mapped
    BY MappingHolds DEF Mapped
  <2> QED
    BY <2>1, NextRefines
<1>3. Spec => [](IInv /\ CInv /\ GInv /\ VInv)
  BY ValuesInvariantHolds
<1> QED
  BY <1>1, <1>2, <1>3, PTL DEF Spec, Implements, Abs!Spec
=============================================================================
