------------------------- MODULE FrameDecoderProofs -------------------------
(***************************************************************************)
(* Proofs about FrameDecoder, for every input, header layout, CRC and      *)
(* chunking.                                                               *)
(*                                                                         *)
(* NothingSkipped and EmittedInOrder are inductive together with TypeOK,   *)
(* given what Resync returns: every step moves consumed over bytes where   *)
(* no frame starts, or over a frame it emits.                              *)
(*                                                                         *)
(* ChunksDoNotShow compares with a scan of all that arrived. The invariant *)
(* is ScanAhead: for every number of bytes, also those still to come, what *)
(* was emitted followed by what a scan takes from consumed on is the whole *)
(* scan. That the scan exists, and that it is the one Scan chooses, is by  *)
(* induction from the last byte back.                                      *)
(***************************************************************************)
EXTENDS FrameDecoder, SequenceTheorems, WellFoundedInduction, TLAPS

-----------------------------------------------------------------------------
(* The operators *)

\* A non-empty set of naturals has a smallest member.
LEMMA SmallestMember ==
    ASSUME NEW S \in SUBSET Nat, S # {}
    PROVE  \E m \in S : \A j \in S : m <= j
<1> DEFINE less == {ss \in Nat \X Nat : ss[1] < ss[2]}
<1>1. IsWellFoundedOn(less, Nat)
  BY NatLessThanWellFounded DEF OpToRel
<1>2. PICK m \in S : \A j \in S : ~ (<<j, m>> \in less)
  <2> HIDE DEF less
  <2> QED BY <1>1, WFMin
<1>3. \A j \in S : m <= j
  <2> TAKE j \in S
  <2>1. <<j, m>> \in Nat \X Nat /\ ~ (j < m)
    BY <1>2
  <2> QED BY <2>1
<1> QED BY <1>3

\* _resync_to_magic stays within the buffer, stops at a magic if it leaves two
\* bytes, and passes over none.
LEMMA ResyncFacts ==
    ASSUME TypeOK
    PROVE  /\ Resync \in consumed..arrived
           /\ arrived - Resync >= 2 => MagicAt(Resync)
           /\ \A i \in consumed..(Resync - 1) : ~ MagicAt(i)
<1> DEFINE magics == {i \in consumed..(arrived - 2) : MagicAt(i)}
<1>1. consumed \in Nat /\ arrived \in Nat /\ consumed <= arrived
  BY DEF TypeOK
<1>2. CASE magics # {}
  <2>1. PICK m \in magics : \A j \in magics : m <= j
    <3>1. magics \in SUBSET Nat
      BY <1>1
    <3> HIDE DEF magics
    <3> QED BY <1>2, <3>1, SmallestMember
  <2>2. Resync = CHOOSE i \in magics : \A j \in magics : i <= j
    BY <1>2 DEF Resync
  <2>3. Resync \in magics /\ \A j \in magics : Resync <= j
    BY <2>1, <2>2
  <2> QED BY <1>1, <2>3
<1>3. CASE magics = {}
  <2>1. Resync = IF arrived > consumed /\ input[arrived] = Magic0
                 THEN arrived - 1 ELSE arrived
    BY <1>3 DEF Resync
  <2>2. \A i \in consumed..(Resync - 1) : ~ MagicAt(i)
    <3> TAKE i \in consumed..(Resync - 1)
    <3>1. CASE i <= arrived - 2
      BY <1>1, <1>3, <3>1
    <3>2. CASE i > arrived - 2
      <4>1. i = arrived - 1 /\ arrived > consumed /\ input[arrived] # Magic0
        BY <1>1, <2>1, <3>2
      <4> QED BY <1>1, <4>1 DEF MagicAt
    <3> QED BY <1>1, <2>1, <3>1, <3>2
  <2> QED BY <1>1, <2>1, <2>2
<1> QED BY <1>2, <1>3

\* A whole header in the input announces a payload within the limit.
LEMMA FrameSizeFacts ==
    ASSUME TypeOK, NEW i \in Nat, i + MinFrameSize <= Len(input)
    PROVE  FrameSize(i) \in MinFrameSize..(MinFrameSize + MaxPayload)
<1>1. input \in Inputs /\ Len(input) \in Nat
  BY FrameDecoderAssumption DEF TypeOK
<1>2. i \in 0..(Len(input) - HeaderSize)
  BY <1>1, FrameDecoderAssumption DEF MinFrameSize
<1>3. PayloadLength(SubSeq(input, i + 1, i + HeaderSize)) \in 0..MaxPayload
  BY <1>1, <1>2, FrameDecoderAssumption
<1> QED BY <1>3, FrameDecoderAssumption DEF FrameSize, Header, MinFrameSize

\* What a candidate for a frame at the front of the buffer is.
LEMMA CandidateFacts ==
    ASSUME TypeOK, Candidate
    PROVE  /\ Resync \in Nat /\ consumed <= Resync
           /\ FrameSize(Resync) \in MinFrameSize..(MinFrameSize + MaxPayload)
           /\ Resync + FrameSize(Resync) <= arrived
           /\ MagicAt(Resync)
           /\ FrameAt(Resync) <=> CrcMatches(Resync)
<1>1. consumed \in Nat /\ arrived \in Nat /\ arrived <= Len(input) /\ Len(input) \in Nat
  BY FrameDecoderAssumption DEF TypeOK
<1>2. Resync \in Nat /\ consumed <= Resync
  BY <1>1, ResyncFacts
<1>3. MinFrameSize \in Nat /\ MinFrameSize >= 2
  BY FrameDecoderAssumption DEF MinFrameSize
<1>4. arrived - Resync >= MinFrameSize /\ MagicAt(Resync)
  BY <1>1, <1>2, <1>3, ResyncFacts DEF Candidate
<1>5. FrameSize(Resync) \in MinFrameSize..(MinFrameSize + MaxPayload)
  BY <1>1, <1>2, <1>3, <1>4, FrameSizeFacts
<1>6. Resync + FrameSize(Resync) <= arrived
  BY <1>1, <1>2, <1>3, <1>5, FrameDecoderAssumption DEF Candidate
<1>7. FrameAt(Resync) <=> CrcMatches(Resync)
  BY <1>1, <1>2, <1>3, <1>4, <1>5, <1>6, FrameDecoderAssumption DEF FrameAt, Candidate
<1> QED BY <1>2, <1>4, <1>5, <1>6, <1>7

-----------------------------------------------------------------------------
(* Type correctness *)

LEMMA TypeInit == Init => TypeOK
<1> SUFFICES ASSUME Init PROVE TypeOK
  OBVIOUS
<1>1. input \in Inputs /\ Len(input) \in Nat
  BY FrameDecoderAssumption DEF Init
<1>2. parsing \in BOOLEAN /\ raised \in BOOLEAN /\ emitted = <<>>
  BY DEF Init
<1>3. arrived \in 0..Len(input) /\ consumed \in 0..arrived
  BY <1>1 DEF Init
<1>4. emitted \in Seq(Nat \X Nat)
  BY <1>2
<1> QED BY <1>1, <1>2, <1>3, <1>4 DEF TypeOK

LEMMA TypeNext == TypeOK /\ [Next]_vars => TypeOK'
<1> SUFFICES ASSUME TypeOK, [Next]_vars PROVE TypeOK'
  OBVIOUS
<1>1. Len(input) \in Nat /\ consumed \in Nat /\ arrived \in Nat
  BY FrameDecoderAssumption DEF TypeOK
<1>2. ASSUME NEW n \in 0..Len(input), OnBytes(n) PROVE TypeOK'
  <2>1. arrived' \in 0..Len(input') /\ consumed' \in 0..arrived'
    BY <1>1, <1>2 DEF OnBytes, TypeOK
  <2>2. parsing' \in BOOLEAN /\ raised' \in BOOLEAN
    BY <1>2 DEF OnBytes
  <2> QED BY <1>2, <2>1, <2>2 DEF OnBytes, TypeOK
<1>3. CASE Wait
  <2>1. Resync \in 0..arrived
    BY <1>1, ResyncFacts
  <2>2. parsing' \in BOOLEAN
    BY <1>3 DEF Wait
  <2> QED BY <1>3, <2>1, <2>2 DEF Wait, TypeOK
<1>4. CASE RejectHeader
  <2>1. Resync + 1 \in 0..arrived
    BY <1>1, <1>4, ResyncFacts, FrameDecoderAssumption DEF RejectHeader, MinFrameSize
  <2> QED BY <1>4, <2>1 DEF RejectHeader, TypeOK
<1>5. CASE RejectCrc
  <2>1. Resync + 1 \in 0..arrived
    BY <1>1, <1>5, CandidateFacts, FrameDecoderAssumption DEF RejectCrc, MinFrameSize
  <2> QED BY <1>5, <2>1 DEF RejectCrc, TypeOK
<1>6. CASE TakeFrame
  <2>1. /\ Resync \in Nat /\ FrameSize(Resync) \in Nat
        /\ Resync + FrameSize(Resync) \in 0..arrived
    BY <1>1, <1>6, CandidateFacts, FrameDecoderAssumption DEF TakeFrame, MinFrameSize
  <2>2. emitted' \in Seq(Nat \X Nat)
    BY <1>6, <2>1 DEF TakeFrame, TypeOK
  <2>3. parsing' \in BOOLEAN /\ raised' \in BOOLEAN
    BY <1>6 DEF TakeFrame
  <2> QED BY <1>6, <2>1, <2>2, <2>3 DEF TakeFrame, TypeOK
<1>7. CASE UNCHANGED vars
  BY <1>7 DEF vars, TypeOK
<1> QED BY <1>2, <1>3, <1>4, <1>5, <1>6, <1>7 DEF Next, ParseLoop

\* The buffer is always a stretch of the bytes that arrived.
THEOREM TypeCorrect == Spec => []TypeOK
  BY TypeInit, TypeNext, PTL DEF Spec

-----------------------------------------------------------------------------
(* What is a frame depends on the input alone, and every step leaves it.     *)

LEMMA FrameStable ==
    ASSUME input' = input, NEW i
    PROVE  (FrameAt(i)' <=> FrameAt(i)) /\ FrameSize(i)' = FrameSize(i)
  BY DEF FrameAt, FrameSize, Header, MagicAt, CrcMatches, MinFrameSize

LEMMA InputFixed == [Next]_vars => input' = input
  BY DEF Next, vars, OnBytes, ParseLoop, Wait, RejectHeader, RejectCrc, TakeFrame

\* The shape of a step: how far it consumes, and what it emits.
LEMMA StepFacts ==
    ASSUME TypeOK, [Next]_vars
    PROVE  \/ consumed' = consumed /\ emitted' = emitted
           \/ /\ consumed' = Resync /\ emitted' = emitted
           \/ /\ consumed' = Resync + 1 /\ emitted' = emitted /\ ~ FrameAt(Resync)
           \/ /\ Candidate /\ CrcMatches(Resync)
              /\ consumed' = Resync + FrameSize(Resync)
              /\ emitted' = Append(emitted, <<Resync, FrameSize(Resync)>>)
<1>1. ASSUME NEW n \in 0..Len(input), OnBytes(n)
      PROVE  consumed' = consumed /\ emitted' = emitted
  BY <1>1 DEF OnBytes
<1>2. CASE Wait
  BY <1>2 DEF Wait
<1>3. CASE RejectHeader
  BY <1>3 DEF RejectHeader, FrameAt
<1>4. CASE RejectCrc
  BY <1>4 DEF RejectCrc, FrameAt
<1>5. CASE TakeFrame
  BY <1>5 DEF TakeFrame
<1>6. CASE UNCHANGED vars
  BY <1>6 DEF vars
<1> QED BY <1>1, <1>2, <1>3, <1>4, <1>5, <1>6 DEF Next, ParseLoop

-----------------------------------------------------------------------------
(* The emitted frames are in order and well formed *)

LEMMA OrderNext == TypeOK /\ EmittedInOrder /\ [Next]_vars => EmittedInOrder'
<1> SUFFICES ASSUME TypeOK, EmittedInOrder, [Next]_vars,
                    NEW k \in 1..Len(emitted')
             PROVE  /\ FrameAt(emitted'[k][1])
                    /\ emitted'[k][2] = FrameSize(emitted'[k][1])
                    /\ emitted'[k][1] + emitted'[k][2] <=
                          IF k = Len(emitted') THEN consumed' ELSE emitted'[k + 1][1]
  BY InputFixed DEF EmittedInOrder, FrameAt, FrameSize, Header, MagicAt, CrcMatches,
                    MinFrameSize
<1>1. /\ consumed \in Nat /\ Resync \in Nat /\ consumed <= Resync
      /\ emitted \in Seq(Nat \X Nat) /\ Len(emitted) \in Nat
  <2>1. consumed \in Nat /\ arrived \in Nat /\ emitted \in Seq(Nat \X Nat)
    BY DEF TypeOK
  <2> QED BY <2>1, ResyncFacts
<1>2. CASE emitted' = emitted /\ consumed' \in Nat /\ consumed <= consumed'
  <2>1. /\ FrameAt(emitted[k][1]) /\ emitted[k][2] = FrameSize(emitted[k][1])
        /\ emitted[k][1] + emitted[k][2] <=
              IF k = Len(emitted) THEN consumed ELSE emitted[k + 1][1]
    BY <1>2 DEF EmittedInOrder
  <2>2. emitted[k] \in Nat \X Nat
    BY <1>1, <1>2
  <2>3. emitted[k][1] + emitted[k][2] \in Nat
    BY <2>2
  <2> QED BY <1>1, <1>2, <2>1, <2>3
<1>3. CASE /\ Candidate /\ CrcMatches(Resync)
           /\ consumed' = Resync + FrameSize(Resync)
           /\ emitted' = Append(emitted, <<Resync, FrameSize(Resync)>>)
  <2>1. FrameAt(Resync) /\ FrameSize(Resync) \in Nat
    BY <1>3, CandidateFacts, FrameDecoderAssumption DEF MinFrameSize
  <2>2. /\ Len(emitted') = Len(emitted) + 1
        /\ emitted'[Len(emitted) + 1] = <<Resync, FrameSize(Resync)>>
        /\ \A j \in 1..Len(emitted) : emitted'[j] = emitted[j]
    BY <1>1, <1>3
  <2>3. CASE k = Len(emitted) + 1
    BY <1>1, <1>3, <2>1, <2>2, <2>3
  <2>4. CASE k \in 1..Len(emitted)
    <3>1. /\ FrameAt(emitted[k][1]) /\ emitted[k][2] = FrameSize(emitted[k][1])
          /\ emitted[k][1] + emitted[k][2] <=
                IF k = Len(emitted) THEN consumed ELSE emitted[k + 1][1]
      BY <2>4 DEF EmittedInOrder
    <3>2. emitted[k] \in Nat \X Nat /\ emitted'[k] = emitted[k]
      BY <1>1, <2>2, <2>4
    <3>3. emitted[k][1] + emitted[k][2] \in Nat
      BY <3>2
    <3>4. CASE k = Len(emitted)
      BY <1>1, <2>2, <3>1, <3>2, <3>3, <3>4
    <3>5. CASE k # Len(emitted)
      <4>1. k + 1 \in 1..Len(emitted) /\ emitted'[k + 1] = emitted[k + 1]
        BY <1>1, <2>2, <2>4, <3>5
      <4> QED BY <1>1, <2>2, <2>4, <3>1, <3>2, <3>5, <4>1
    <3> QED BY <3>4, <3>5
  <2> QED BY <1>1, <2>2, <2>3, <2>4
<1> QED BY <1>1, <1>2, <1>3, StepFacts

\* The frames handed to the sink are well formed, disjoint and in the order of
\* the bytes (_parse_loop, codec.py:73-131).
THEOREM OrderCorrect == Spec => []EmittedInOrder
<1>1. Init => EmittedInOrder
  BY DEF Init, EmittedInOrder
<1> QED BY <1>1, TypeCorrect, OrderNext, PTL DEF Spec

-----------------------------------------------------------------------------
(* No frame is passed over *)

LEMMA SkipNext == TypeOK /\ NothingSkipped /\ [Next]_vars => NothingSkipped'
<1> SUFFICES ASSUME TypeOK, NothingSkipped, [Next]_vars,
                    NEW i \in 0..(consumed' - 1), FrameAt(i)
             PROVE  \E k \in 1..Len(emitted') : Covers(emitted'[k], i)
  BY InputFixed, FrameStable DEF NothingSkipped, Covers
<1>1. consumed \in Nat /\ emitted \in Seq(Nat \X Nat) /\ Len(emitted) \in Nat
  BY DEF TypeOK
<1>2. /\ Resync \in Nat /\ consumed <= Resync
      /\ \A j \in consumed..(Resync - 1) : ~ MagicAt(j)
  <2>1. arrived \in Nat
    BY DEF TypeOK
  <2> QED BY <1>1, <2>1, ResyncFacts
<1>3. i \in Nat /\ i \notin consumed..(Resync - 1)
  BY <1>1, <1>2 DEF FrameAt
<1>4. CASE i < consumed
  <2>1. PICK k \in 1..Len(emitted) : Covers(emitted[k], i)
    BY <1>1, <1>3, <1>4 DEF NothingSkipped
  <2>2. CASE emitted' = emitted
    BY <2>1, <2>2
  <2>3. CASE emitted' = Append(emitted, <<Resync, FrameSize(Resync)>>)
    <3>1. k \in 1..Len(emitted') /\ emitted'[k] = emitted[k]
      BY <1>1, <2>3
    <3> QED BY <2>1, <3>1
  <2> QED BY <2>2, <2>3, StepFacts
<1>5. CASE i >= consumed
  <2>1. i >= Resync
    BY <1>1, <1>2, <1>3, <1>5
  <2>2. /\ Candidate
        /\ consumed' = Resync + FrameSize(Resync)
        /\ emitted' = Append(emitted, <<Resync, FrameSize(Resync)>>)
    BY <1>1, <1>2, <1>3, <1>5, <2>1, StepFacts
  <2>3. FrameSize(Resync) \in Nat
    BY <2>2, CandidateFacts, FrameDecoderAssumption DEF MinFrameSize
  <2>4. /\ Len(emitted') = Len(emitted) + 1
        /\ emitted'[Len(emitted) + 1] = <<Resync, FrameSize(Resync)>>
    BY <1>1, <2>2
  <2>5. Covers(emitted'[Len(emitted) + 1], i)
    BY <1>2, <1>3, <2>1, <2>2, <2>3, <2>4 DEF Covers
  <2> QED BY <1>1, <2>4, <2>5
<1> QED BY <1>1, <1>3, <1>4, <1>5

\* Whatever noise, false magic or corrupt header precedes a frame, the decoder
\* never moves past it without emitting it or a frame that covers its first byte
\* (_resync_to_magic and the _consume(1) of codec.py:73-116).
THEOREM SkipCorrect == Spec => []NothingSkipped
<1>1. Init => NothingSkipped
  BY DEF Init, NothingSkipped
<1> QED BY <1>1, TypeCorrect, SkipNext, PTL DEF Spec

-----------------------------------------------------------------------------
(* The buffer is bounded *)

LEMMA BoundNext == TypeOK /\ BufferBounded /\ [Next]_vars => BufferBounded'
<1> SUFFICES ASSUME TypeOK, BufferBounded, [Next]_vars, ~ parsing', ~ raised'
             PROVE  arrived' - consumed' < MinFrameSize + MaxPayload
  BY DEF BufferBounded, MinFrameSize
<1>1. arrived \in Nat /\ consumed \in Nat /\ arrived <= Len(input) /\ Len(input) \in Nat
  BY FrameDecoderAssumption DEF TypeOK
<1>2. Resync \in Nat /\ MinFrameSize \in Nat /\ MaxPayload \in Nat /\ MinFrameSize > 0
  BY <1>1, ResyncFacts, FrameDecoderAssumption DEF MinFrameSize
<1>3. CASE Wait
  <2>1. CASE arrived - Resync < MinFrameSize
    BY <1>1, <1>2, <1>3, <2>1 DEF Wait
  <2>2. CASE arrived - Resync >= MinFrameSize
    <3>1. FrameSize(Resync) \in MinFrameSize..(MinFrameSize + MaxPayload)
      BY <1>1, <1>2, <2>2, FrameSizeFacts
    <3> QED BY <1>1, <1>2, <1>3, <2>2, <3>1 DEF Wait
  <2> QED BY <1>1, <1>2, <2>1, <2>2
<1>4. CASE UNCHANGED vars
  BY <1>4 DEF vars, BufferBounded
<1>5. ASSUME NEW n \in 0..Len(input), OnBytes(n) PROVE FALSE
  BY <1>5 DEF OnBytes
<1>6. ~ RejectHeader /\ ~ RejectCrc
  BY DEF RejectHeader, RejectCrc, Candidate
<1>7. ~ TakeFrame
  <2> SUFFICES ASSUME TakeFrame PROVE FALSE
    OBVIOUS
  <2>1. parsing' = ~ raised'
    BY DEF TakeFrame
  <2> QED BY <2>1
<1> QED BY <1>3, <1>4, <1>5, <1>6, <1>7 DEF Next, ParseLoop

\* After a call that did not raise, what waits in the buffer is shorter than the
\* largest frame, so a peer cannot make it grow without end (codec.py:87, 109).
THEOREM BoundCorrect == Spec => []BufferBounded
<1>1. Init => BufferBounded
  BY FrameDecoderAssumption DEF Init, BufferBounded, MinFrameSize
<1> QED BY <1>1, TypeCorrect, BoundNext, PTL DEF Spec

-----------------------------------------------------------------------------
(* The scan, by induction from its end: what it takes from byte i on depends *)
(* on what it takes from later bytes on.                                     *)

Taken == Seq(Nat \X Nat)

\* What the scan of n bytes takes from byte i on, g[j] being what it takes from j on.
ScanStep(g, n, i) ==
    CASE i = n \/ i + MinFrameSize > n   -> <<>>
      [] i + MinFrameSize <= n /\ ~ (MagicAt(i) /\ Acceptable(Header(i)))
                                        -> g[i + 1]
      [] OTHER -> IF i + FrameSize(i) > n THEN <<>>
                  ELSE IF CrcMatches(i)
                       THEN <<<<i, FrameSize(i)>>>> \o g[i + FrameSize(i)]
                       ELSE g[i + 1]

\* g is the scan of n bytes, from each byte between k and n on.
ScanFrom(g, n, k) == \A i \in k..n : g[i] = ScanStep(g, n, i) /\ g[i] \in Taken

LEMMA ScanStepCases ==
    ASSUME NEW g, NEW n \in Nat, NEW i \in 0..n
    PROVE  /\ i = n \/ i + MinFrameSize > n => ScanStep(g, n, i) = <<>>
           /\ i < n /\ ~ (MagicAt(i) /\ Acceptable(Header(i))) =>
                 ScanStep(g, n, i) \in {<<>>, g[i + 1]}
           /\ i + MinFrameSize <= n /\ ~ (MagicAt(i) /\ Acceptable(Header(i))) =>
                 ScanStep(g, n, i) = g[i + 1]
           /\ i + MinFrameSize <= n /\ MagicAt(i) /\ Acceptable(Header(i)) =>
                 ScanStep(g, n, i) = IF i + FrameSize(i) > n THEN <<>>
                                     ELSE IF CrcMatches(i)
                                          THEN <<<<i, FrameSize(i)>>>> \o g[i + FrameSize(i)]
                                          ELSE g[i + 1]
<1>1. MinFrameSize \in Nat /\ MinFrameSize >= 2
  BY FrameDecoderAssumption DEF MinFrameSize
<1>2. CASE i = n \/ i + MinFrameSize > n
  <2>1. ~ (i + MinFrameSize <= n)
    BY <1>1, <1>2
  <2>2. ScanStep(g, n, i) = <<>>
    BY <1>2, <2>1 DEF ScanStep
  <2> QED BY <1>1, <1>2, <2>1, <2>2
<1>3. CASE i + MinFrameSize <= n /\ ~ (MagicAt(i) /\ Acceptable(Header(i)))
  <2>1. ScanStep(g, n, i) = g[i + 1]
    BY <1>1, <1>3 DEF ScanStep
  <2> QED BY <1>1, <1>3, <2>1
<1>4. CASE i + MinFrameSize <= n /\ MagicAt(i) /\ Acceptable(Header(i))
  <2>1. ScanStep(g, n, i) = IF i + FrameSize(i) > n THEN <<>>
                            ELSE IF CrcMatches(i)
                                 THEN <<<<i, FrameSize(i)>>>> \o g[i + FrameSize(i)]
                                 ELSE g[i + 1]
    <3>1. ~ (i = n \/ i + MinFrameSize > n)
      BY <1>1, <1>4
    <3> QED BY <1>4, <3>1 DEF ScanStep
  <2> QED BY <1>1, <1>4, <2>1
<1> QED BY <1>1, <1>2, <1>3, <1>4

LEMMA ScanStepAgrees ==
    ASSUME TypeOK, NEW n \in Nat, n <= Len(input), NEW i \in 0..n, NEW g, NEW h,
           \A j \in (i + 1)..n : g[j] = h[j] /\ g[j] \in Taken
    PROVE  ScanStep(g, n, i) = ScanStep(h, n, i) /\ ScanStep(g, n, i) \in Taken
<1>1. MinFrameSize \in Nat /\ MinFrameSize >= 2 /\ Len(input) \in Nat
  BY FrameDecoderAssumption DEF MinFrameSize, TypeOK
<1>2. <<>> \in Taken
  BY DEF Taken
<1>3. i < n => g[i + 1] = h[i + 1] /\ g[i + 1] \in Taken
  OBVIOUS
<1>4. CASE i = n \/ i + MinFrameSize > n
  <2>1. \A f : ScanStep(f, n, i) = <<>>
    BY <1>4, ScanStepCases
  <2> QED BY <1>2, <2>1
<1>5. CASE i + MinFrameSize <= n /\ ~ (MagicAt(i) /\ Acceptable(Header(i)))
  <2>1. \A f : ScanStep(f, n, i) = f[i + 1]
    BY <1>5, ScanStepCases
  <2>2. i < n
    BY <1>1, <1>5
  <2> QED BY <1>3, <2>1, <2>2
<1>6. CASE i + MinFrameSize <= n /\ MagicAt(i) /\ Acceptable(Header(i))
  <2>1. FrameSize(i) \in Nat /\ FrameSize(i) >= 2
    BY <1>1, <1>6, FrameSizeFacts, FrameDecoderAssumption
  <2>2. /\ ScanStep(g, n, i) = IF i + FrameSize(i) > n THEN <<>>
                               ELSE IF CrcMatches(i)
                                    THEN <<<<i, FrameSize(i)>>>> \o g[i + FrameSize(i)]
                                    ELSE g[i + 1]
        /\ ScanStep(h, n, i) = IF i + FrameSize(i) > n THEN <<>>
                               ELSE IF CrcMatches(i)
                                    THEN <<<<i, FrameSize(i)>>>> \o h[i + FrameSize(i)]
                                    ELSE h[i + 1]
    BY <1>6, ScanStepCases
  <2>3. CASE i + FrameSize(i) > n
    BY <1>2, <2>2, <2>3
  <2>4. CASE i + FrameSize(i) <= n /\ CrcMatches(i)
    <3>1. g[i + FrameSize(i)] = h[i + FrameSize(i)] /\ g[i + FrameSize(i)] \in Taken
      BY <2>1, <2>4
    <3>2. <<<<i, FrameSize(i)>>>> \in Taken
      BY <2>1 DEF Taken
    <3>3. <<<<i, FrameSize(i)>>>> \o g[i + FrameSize(i)] \in Taken
      BY <3>1, <3>2, ConcatProperties DEF Taken
    <3>4. ~ (i + FrameSize(i) > n)
      BY <2>1, <2>4
    <3> QED BY <2>2, <2>4, <3>1, <3>3, <3>4
  <2>5. CASE i + FrameSize(i) <= n /\ ~ CrcMatches(i)
    <3>1. ~ (i + FrameSize(i) > n) /\ i < n
      BY <2>1, <2>5
    <3> QED BY <1>3, <2>2, <2>5, <3>1
  <2> QED BY <2>1, <2>3, <2>4, <2>5
<1> QED BY <1>1, <1>4, <1>5, <1>6

LEMMA Induction ==
    ASSUME NEW A, 0 \in A, \A n \in Nat : n \in A => n + 1 \in A
    PROVE  Nat \subseteq A
<1> DEFINE T == Nat \ A
<1> SUFFICES ASSUME T # {} PROVE FALSE
  OBVIOUS
<1>1. PICK x \in T : \A y \in T : x <= y
  BY SmallestMember
<1>2. x # 0 /\ x \in Nat
  OBVIOUS
<1>3. x - 1 \in Nat /\ x - 1 \notin T
  BY <1>1, <1>2
<1>4. (x - 1) + 1 \in A
  BY <1>3
<1> QED BY <1>2, <1>4

LEMMA ScanExists ==
    ASSUME TypeOK, NEW n \in Nat, n <= Len(input)
    PROVE  \E g : g = [i \in 0..n |-> g[i]] /\ ScanFrom(g, n, 0)
<1> DEFINE Partial(k) == \E g : g = [i \in (n - k)..n |-> g[i]] /\ ScanFrom(g, n, n - k)
           A == {k \in Nat : k <= n => Partial(k)}
<1>1. Partial(0)
  <2> DEFINE g == [i \in n..n |-> <<>>]
  <2>1. g[n] = ScanStep(g, n, n) /\ g[n] \in Taken
    <3>1. g[n] = <<>> /\ n \in 0..n
      OBVIOUS
    <3> HIDE DEF g
    <3>2. ScanStep(g, n, n) = <<>>
      BY <3>1, ScanStepCases
    <3> QED BY <3>1, <3>2 DEF Taken
  <2>2. g = [i \in (n - 0)..n |-> g[i]]
    OBVIOUS
  <2> HIDE DEF g
  <2>3. ScanFrom(g, n, n - 0)
    BY <2>1 DEF ScanFrom
  <2> QED BY <2>2, <2>3
<1>2. ASSUME NEW k \in Nat, k + 1 <= n, Partial(k) PROVE Partial(k + 1)
  <2>1. PICK g : g = [i \in (n - k)..n |-> g[i]] /\ ScanFrom(g, n, n - k)
    BY <1>2
  <2> DEFINE f == n - (k + 1)
             h == [i \in f..n |-> IF i = f THEN ScanStep(g, n, f) ELSE g[i]]
  <2>2. f \in 0..n /\ f + 1 = n - k
    BY <1>2
  <2>3. \A j \in (f + 1)..n : g[j] = h[j] /\ g[j] \in Taken /\ g[j] = ScanStep(g, n, j)
    <3>1. \A j \in (f + 1)..n : j \in f..n /\ j # f
      BY <2>2
    <3> QED BY <2>1, <2>2, <3>1 DEF ScanFrom
  <2>4. h[f] = ScanStep(g, n, f)
    BY <2>2
  <2>5. h = [i \in f..n |-> h[i]]
    OBVIOUS
  <2> HIDE DEF h, f
  <2>6. ASSUME NEW i \in f..n PROVE ScanStep(g, n, i) = ScanStep(h, n, i) /\ ScanStep(g, n, i) \in Taken
    <3>1. i \in 0..n /\ \A j \in (i + 1)..n : g[j] = h[j] /\ g[j] \in Taken
      BY <2>2, <2>3
    <3> QED BY <3>1, ScanStepAgrees
  <2>7. ASSUME NEW i \in f..n PROVE h[i] = ScanStep(h, n, i) /\ h[i] \in Taken
    <3>1. CASE i = f
      BY <2>4, <2>6, <3>1
    <3>2. CASE i # f
      <4>1. i \in (f + 1)..n
        BY <2>2, <3>2
      <4> QED BY <2>3, <2>6, <4>1
    <3> QED BY <3>1, <3>2
  <2>8. ScanFrom(h, n, f)
    BY <2>7 DEF ScanFrom
  <2> QED BY <2>5, <2>8 DEF f
<1> HIDE DEF Partial
<1>3. 0 \in A /\ \A k \in Nat : k \in A => k + 1 \in A
  BY <1>1, <1>2
<1> HIDE DEF A
<1>4. n \in A
  BY <1>3, Induction
<1>5. Partial(n)
  BY <1>4 DEF A
<1>6. n - n = 0
  OBVIOUS
<1> QED BY <1>5, <1>6 DEF Partial

\* Scan is the scan it is written as.
LEMMA ScanIs ==
    TypeOK => \A n \in 0..Len(input) : \E g : ScanFrom(g, n, 0) /\ Scan(n) = g[0]
<1> SUFFICES ASSUME TypeOK, NEW n \in 0..Len(input)
             PROVE  \E g : ScanFrom(g, n, 0) /\ Scan(n) = g[0]
  OBVIOUS
<1>1. Len(input) \in Nat /\ n \in Nat /\ n <= Len(input)
  BY FrameDecoderAssumption DEF TypeOK
<1> DEFINE IsScan(from) ==
             from = [i \in 0..n |->
               CASE i = n \/ i + MinFrameSize > n   -> <<>>
                 [] i + MinFrameSize <= n /\ ~ (MagicAt(i) /\ Acceptable(Header(i)))
                                                   -> from[i + 1]
                 [] OTHER -> IF i + FrameSize(i) > n THEN <<>>
                             ELSE IF CrcMatches(i)
                                  THEN <<<<i, FrameSize(i)>>>> \o from[i + FrameSize(i)]
                                  ELSE from[i + 1]]
           c == CHOOSE from : IsScan(from)
<1>2. Scan(n) = c[0]
  BY Zenon DEF Scan
<1>3. PICK g : g = [i \in 0..n |-> g[i]] /\ ScanFrom(g, n, 0)
  BY <1>1, ScanExists
<1>4. \A f : IsScan(f) <=> f = [i \in 0..n |-> ScanStep(f, n, i)]
  BY Zenon DEF ScanStep
<1> HIDE DEF IsScan
<1>5. g = [i \in 0..n |-> ScanStep(g, n, i)]
  BY <1>3 DEF ScanFrom
<1>6. IsScan(c)
  BY <1>4, <1>5
<1> HIDE DEF c
<1>7. c = [i \in 0..n |-> ScanStep(c, n, i)]
  BY <1>4, <1>6
<1> DEFINE Same(k) == k <= n => \A i \in (n - k)..n : c[i] = g[i]
           A == {k \in Nat : Same(k)}
<1>8. Same(0)
  <2>1. n \in 0..n
    OBVIOUS
  <2>2. c[n] = ScanStep(c, n, n)
    BY <1>7, <2>1
  <2>3. g[n] = ScanStep(g, n, n)
    BY <1>5, <2>1
  <2>4. \A f : ScanStep(f, n, n) = <<>>
    BY <1>1, <2>1, ScanStepCases
  <2> QED BY <2>2, <2>3, <2>4
<1>9. ASSUME NEW k \in Nat, Same(k) PROVE Same(k + 1)
  <2> SUFFICES ASSUME k + 1 <= n, NEW i \in (n - (k + 1))..n PROVE c[i] = g[i]
    OBVIOUS
  <2>1. \A j \in (n - k)..n : c[j] = g[j]
    BY <1>9
  <2>2. CASE i \in (n - k)..n
    BY <2>1, <2>2
  <2>3. CASE i = n - (k + 1)
    <3>1. i \in 0..n /\ \A j \in (i + 1)..n : j \in (n - k)..n /\ j \in 0..n
      BY <2>3
    <3>2. \A j \in (i + 1)..n : g[j] = c[j] /\ g[j] \in Taken
      BY <1>3, <2>1, <3>1 DEF ScanFrom
    <3>3. ScanStep(g, n, i) = ScanStep(c, n, i)
      BY <1>1, <3>1, <3>2, ScanStepAgrees
    <3>4. c[i] = ScanStep(c, n, i)
      BY <1>7, <3>1
    <3>5. g[i] = ScanStep(g, n, i)
      BY <1>5, <3>1
    <3> QED BY <3>3, <3>4, <3>5
  <2> QED BY <2>2, <2>3
<1> HIDE DEF Same
<1>10. 0 \in A /\ \A k \in Nat : k \in A => k + 1 \in A
  BY <1>8, <1>9
<1> HIDE DEF A
<1>11. n \in A
  BY <1>1, <1>10, Induction
<1>12. Same(n)
  BY <1>11 DEF A
<1>13. c[0] = g[0]
  BY <1>1, <1>12 DEF Same
<1> QED BY <1>2, <1>3, <1>13

-----------------------------------------------------------------------------
(* How the bytes were cut into chunks does not show                          *)

\* What was emitted and what a scan takes from the front of the buffer on is what it
\* takes in all, of however many bytes that have arrived or will.
ScanAhead ==
    \A n \in arrived..Len(input) : \A g :
        ScanFrom(g, n, 0) => g[0] = emitted \o g[consumed]

\* A call that returned left nothing that a scan of what arrived would take.
NothingLeft ==
    ~ parsing /\ ~ raised => \A g : ScanFrom(g, arrived, 0) => g[consumed] = <<>>

\* Nothing is taken where no magic is.
LEMMA ScanPasses ==
    ASSUME TypeOK, NEW n \in 0..Len(input), NEW g, ScanFrom(g, n, 0),
           NEW i \in 0..n, ~ MagicAt(i) \/ ~ Acceptable(Header(i)), i < n
    PROVE  g[i] = g[i + 1]
<1>1. Len(input) \in Nat /\ n \in Nat /\ i \in Nat /\ i + 1 \in 0..n
  BY FrameDecoderAssumption DEF TypeOK
<1>2. MinFrameSize \in Nat /\ MinFrameSize >= 2
  BY FrameDecoderAssumption DEF MinFrameSize
<1>3. g[i] = ScanStep(g, n, i) /\ g[i + 1] = ScanStep(g, n, i + 1)
  BY <1>1 DEF ScanFrom
<1>4. CASE i + MinFrameSize <= n
  BY <1>1, <1>3, <1>4, ScanStepCases
<1>5. CASE i + MinFrameSize > n
  <2>1. g[i] = <<>>
    BY <1>1, <1>3, <1>5, ScanStepCases
  <2>2. i + 1 + MinFrameSize > n
    BY <1>1, <1>2, <1>5
  <2>3. g[i + 1] = <<>>
    BY <1>1, <1>3, <2>2, ScanStepCases
  <2> QED BY <2>1, <2>3
<1> QED BY <1>1, <1>2, <1>4, <1>5

\* The bytes that Resync passes over do not matter to the scan.
LEMMA ScanResync ==
    ASSUME TypeOK, NEW n \in arrived..Len(input), NEW g, ScanFrom(g, n, 0)
    PROVE  g[consumed] = g[Resync]
<1>1. consumed \in Nat /\ arrived \in Nat /\ Len(input) \in Nat /\ n \in 0..Len(input) /\ n \in Nat
      /\ consumed <= arrived /\ arrived <= n
  BY FrameDecoderAssumption DEF TypeOK
<1>2. /\ Resync \in consumed..arrived
      /\ \A i \in consumed..(Resync - 1) : ~ MagicAt(i)
  BY ResyncFacts
<1> DEFINE P(k) == consumed + k <= Resync => g[consumed] = g[consumed + k]
           A == {k \in Nat : P(k)}
<1>3. P(0)
  BY <1>1
<1>4. ASSUME NEW k \in Nat, P(k) PROVE P(k + 1)
  <2> SUFFICES ASSUME consumed + (k + 1) <= Resync PROVE g[consumed] = g[consumed + (k + 1)]
    OBVIOUS
  <2>1. PICK i \in Nat : i = consumed + k
    BY <1>1
  <2>2. i \in 0..n /\ i < n /\ i \in consumed..(Resync - 1) /\ i + 1 = consumed + (k + 1)
    BY <1>1, <1>2, <2>1
  <2>3. g[i] = g[i + 1]
    BY <1>1, <1>2, <2>2, ScanPasses
  <2>4. g[consumed] = g[i]
    BY <1>1, <1>2, <1>4, <2>1, <2>2
  <2> QED BY <2>2, <2>3, <2>4
<1> HIDE DEF P
<1>5. 0 \in A /\ \A k \in Nat : k \in A => k + 1 \in A
  BY <1>3, <1>4
<1> HIDE DEF A
<1>6. Resync - consumed \in Nat /\ consumed + (Resync - consumed) = Resync
  BY <1>1, <1>2
<1>7. Resync - consumed \in A
  BY <1>5, <1>6, Induction
<1>8. P(Resync - consumed)
  BY <1>7 DEF A
<1> QED BY <1>1, <1>2, <1>6, <1>8 DEF P

\* A frame that can be taken is.
LEMMA ScanTakes ==
    ASSUME TypeOK, NEW n \in arrived..Len(input), NEW g, ScanFrom(g, n, 0), Candidate
    PROVE  /\ CrcMatches(Resync) =>
                 /\ g[Resync] = <<<<Resync, FrameSize(Resync)>>>> \o g[Resync + FrameSize(Resync)]
                 /\ g[Resync + FrameSize(Resync)] \in Taken
           /\ ~ CrcMatches(Resync) => g[Resync] = g[Resync + 1]
<1> DEFINE r == Resync
           s == FrameSize(Resync)
<1>1. /\ arrived \in Nat /\ Len(input) \in Nat /\ n \in Nat /\ arrived <= n
      /\ MinFrameSize \in Nat /\ MinFrameSize >= 2
  BY FrameDecoderAssumption DEF TypeOK, MinFrameSize
<1>2. /\ r \in Nat /\ s \in MinFrameSize..(MinFrameSize + MaxPayload) /\ r + s <= arrived
      /\ MagicAt(r) /\ Acceptable(Header(r))
  BY CandidateFacts DEF Candidate
<1>3. s \in Nat /\ s >= MinFrameSize
  BY <1>1, <1>2, FrameDecoderAssumption
<1>4. r \in 0..n /\ r + MinFrameSize <= n /\ ~ (r + s > n) /\ r + s \in 0..n
  BY <1>1, <1>2, <1>3
<1>5. g[r] = ScanStep(g, n, r) /\ g[r + s] \in Taken
  BY <1>4 DEF ScanFrom
<1>6. ScanStep(g, n, r) = IF r + s > n THEN <<>>
                          ELSE IF CrcMatches(r) THEN <<<<r, s>>>> \o g[r + s] ELSE g[r + 1]
  BY <1>1, <1>2, <1>4, ScanStepCases
<1> HIDE DEF r, s
<1>7. g[r] = IF CrcMatches(r) THEN <<<<r, s>>>> \o g[r + s] ELSE g[r + 1]
  BY <1>4, <1>5, <1>6
<1> QED BY <1>5, <1>7 DEF r, s

\* Where the decoder waits, the scan stops.
LEMMA ScanStops ==
    ASSUME TypeOK, NEW g, ScanFrom(g, arrived, 0), Wait
    PROVE  g[Resync] = <<>>
<1>1. /\ arrived \in Nat /\ consumed \in Nat /\ arrived <= Len(input) /\ Len(input) \in Nat
      /\ MinFrameSize \in Nat /\ MinFrameSize >= 2
  BY FrameDecoderAssumption DEF TypeOK, MinFrameSize
<1>2. Resync \in consumed..arrived /\ (arrived - Resync >= 2 => MagicAt(Resync))
  BY ResyncFacts
<1>3. Resync \in 0..arrived /\ Resync \in Nat
  BY <1>1, <1>2
<1>4. g[Resync] = ScanStep(g, arrived, Resync)
  BY <1>3 DEF ScanFrom
<1>5. CASE arrived - Resync < MinFrameSize
  <2>1. Resync + MinFrameSize > arrived
    BY <1>1, <1>3, <1>5
  <2> QED BY <1>1, <1>3, <1>4, <2>1, ScanStepCases
<1>6. CASE /\ arrived - Resync >= MinFrameSize /\ Acceptable(Header(Resync))
           /\ arrived - Resync < FrameSize(Resync)
  <2>1. Resync + MinFrameSize <= arrived /\ MagicAt(Resync)
    BY <1>1, <1>2, <1>3, <1>6
  <2>2. FrameSize(Resync) \in Nat
    BY <1>1, <1>3, <2>1, FrameSizeFacts, FrameDecoderAssumption
  <2>3. Resync + FrameSize(Resync) > arrived
    BY <1>1, <1>3, <1>6, <2>2
  <2> QED BY <1>1, <1>3, <1>4, <1>6, <2>1, <2>3, ScanStepCases
<1> QED BY <1>5, <1>6 DEF Wait

LEMMA ScanFixed ==
    ASSUME input' = input, NEW g, NEW n, NEW k
    PROVE  ScanFrom(g, n, k)' <=> ScanFrom(g, n, k)
  BY DEF ScanFrom, ScanStep, MinFrameSize, MagicAt, Header, FrameSize, CrcMatches

\* A frame taken moves from what is ahead to what was emitted.
LEMMA AppendConcat ==
    ASSUME NEW S, NEW s \in Seq(S), NEW e \in S, NEW t \in Seq(S)
    PROVE  Append(s, e) \o t = s \o (<<e>> \o t)
<1>1. PICK u \in Seq(S) : u = <<e>>
  <2>1. <<e>> \in Seq(S)
    OBVIOUS
  <2> QED BY <2>1, Zenon
<1>2. Append(s, e) = s \o u
  BY <1>1, AppendIsConcat
<1>3. (s \o u) \o t = s \o (u \o t)
  BY ConcatAssociative
<1> QED BY <1>1, <1>2, <1>3

LEMMA ScanNext ==
    ASSUME TypeOK, ScanAhead, NothingLeft, [Next]_vars
    PROVE  ScanAhead' /\ NothingLeft'
<1>1. /\ input' = input /\ Len(input) \in Nat /\ arrived \in Nat /\ consumed \in Nat
      /\ arrived <= Len(input) /\ consumed <= arrived /\ emitted \in Taken
  BY InputFixed, FrameDecoderAssumption DEF TypeOK, Taken
<1>2. arrived' \in arrived..Len(input)
  <2>1. TypeOK'
    BY TypeNext
  <2>2. arrived' \in 0..Len(input) /\ arrived' >= arrived
    BY <1>1, <2>1 DEF TypeOK, Next, vars, OnBytes, ParseLoop, Wait, RejectHeader, RejectCrc, TakeFrame
  <2> QED BY <1>1, <2>2
<1>3. ScanAhead'
  <2> SUFFICES ASSUME NEW n \in arrived'..Len(input), NEW g, ScanFrom(g, n, 0)
               PROVE  g[0] = emitted' \o g[consumed']
    BY <1>1, ScanFixed DEF ScanAhead
  <2>1. n \in arrived..Len(input)
    BY <1>1, <1>2
  <2>2. g[0] = emitted \o g[consumed] /\ g[consumed] = g[Resync]
    BY <2>1, ScanResync DEF ScanAhead
  <2>3. n \in 0..Len(input) /\ n \in Nat /\ Resync \in Nat /\ Resync <= arrived /\ arrived <= n
    BY <1>1, <2>1, ResyncFacts
  <2>4. CASE consumed' = consumed /\ emitted' = emitted
    BY <2>2, <2>4
  <2>5. CASE consumed' = Resync /\ emitted' = emitted
    BY <2>2, <2>5
  <2>6. CASE RejectHeader
    <3>1. Resync < n
      BY <1>1, <2>3, <2>6, FrameDecoderAssumption DEF RejectHeader, MinFrameSize
    <3>2. Resync \in 0..n
      BY <1>1, <2>3
    <3>3. g[Resync] = g[Resync + 1]
      BY <2>3, <2>6, <3>1, <3>2, ScanPasses DEF RejectHeader
    <3> QED BY <2>2, <2>6, <3>3 DEF RejectHeader
  <2>7. CASE RejectCrc
    BY <2>1, <2>2, <2>7, ScanTakes DEF RejectCrc
  <2>8. CASE TakeFrame
    <3> DEFINE e == <<Resync, FrameSize(Resync)>>
               t == g[Resync + FrameSize(Resync)]
    <3>1. g[Resync] = <<e>> \o t /\ t \in Taken
      BY <2>1, <2>8, ScanTakes DEF TakeFrame
    <3>2. emitted' = Append(emitted, e) /\ consumed' = Resync + FrameSize(Resync)
      BY <2>8 DEF TakeFrame
    <3>3. e \in Nat \X Nat
      <4>1. FrameSize(Resync) \in Nat
        BY <2>8, CandidateFacts, FrameDecoderAssumption DEF TakeFrame, MinFrameSize
      <4> QED BY <2>3, <4>1
    <3> HIDE DEF e, t
    <3>4. Append(emitted, e) \o t = emitted \o (<<e>> \o t)
      <4>1. PICK S, s, x, u : S = Nat \X Nat /\ s = emitted /\ x = e /\ u = t
        OBVIOUS
      <4>2. s \in Seq(S) /\ x \in S /\ u \in Seq(S)
        BY <1>1, <3>1, <3>3, <4>1 DEF Taken
      <4>3. Append(s, x) \o u = s \o (<<x>> \o u)
        BY <4>2, AppendConcat
      <4> QED BY <4>1, <4>3
    <3>5. emitted' \o t = emitted \o g[Resync]
      BY <3>1, <3>2, <3>4
    <3>6. emitted' \o g[consumed'] = emitted' \o t
      BY <3>2 DEF t
    <3> QED BY <2>2, <3>5, <3>6
  <2>9. ASSUME NEW m \in 0..Len(input), OnBytes(m) PROVE consumed' = consumed /\ emitted' = emitted
    BY <2>9 DEF OnBytes
  <2> QED BY <2>4, <2>5, <2>6, <2>7, <2>8, <2>9 DEF Next, ParseLoop, Wait, vars
<1>4. NothingLeft'
  <2> SUFFICES ASSUME ~ parsing', ~ raised', NEW g, ScanFrom(g, arrived', 0)
               PROVE  g[consumed'] = <<>>
    BY <1>1, ScanFixed DEF NothingLeft
  <2>1. CASE Wait
    <3>1. arrived' = arrived /\ consumed' = Resync
      BY <2>1 DEF Wait
    <3> QED BY <2>1, <3>1, ScanStops
  <2>2. CASE UNCHANGED vars
    BY <2>2 DEF vars, NothingLeft
  <2>3. ASSUME NEW m \in 0..Len(input), OnBytes(m) PROVE FALSE
    BY <2>3 DEF OnBytes
  <2>4. ~ RejectHeader /\ ~ RejectCrc
    BY DEF RejectHeader, RejectCrc, Candidate
  <2>5. ~ TakeFrame
    <3> SUFFICES ASSUME TakeFrame PROVE FALSE
      OBVIOUS
    <3>1. parsing' = ~ raised'
      BY DEF TakeFrame
    <3> QED BY <3>1
  <2> QED BY <2>1, <2>2, <2>3, <2>4, <2>5 DEF Next, ParseLoop
<1> QED BY <1>3, <1>4

\* However the bytes are cut into chunks and wherever the sink raises, what is emitted is
\* what one scan of all the bytes takes, in its order (on_bytes, codec.py:66-131).
THEOREM ChunksCorrect == Spec => []ChunksDoNotShow
<1>1. Init => ScanAhead /\ NothingLeft
  <2> SUFFICES ASSUME Init PROVE ScanAhead /\ NothingLeft
    OBVIOUS
  <2>1. TypeOK /\ arrived = 0 /\ consumed = 0 /\ emitted = <<>> /\ Len(input) \in Nat
    BY TypeInit, FrameDecoderAssumption DEF Init
  <2>2. ASSUME NEW n \in 0..Len(input), NEW g, ScanFrom(g, n, 0) PROVE g[0] = <<>> \o g[0]
    <3>1. g[0] \in Taken
      BY <2>1, <2>2 DEF ScanFrom
    <3> QED BY <3>1, ConcatEmptySeq DEF Taken
  <2>3. ASSUME NEW g, ScanFrom(g, 0, 0) PROVE g[0] = <<>>
    <3>1. 0 \in Nat /\ 0 \in 0..0
      OBVIOUS
    <3>2. g[0] = ScanStep(g, 0, 0)
      BY <2>3, <3>1 DEF ScanFrom
    <3>3. ScanStep(g, 0, 0) = <<>>
      BY <3>1, ScanStepCases
    <3> QED BY <3>2, <3>3
  <2> QED BY <2>1, <2>2, <2>3 DEF ScanAhead, NothingLeft
<1>2. TypeOK /\ ScanAhead /\ NothingLeft /\ [Next]_vars => ScanAhead' /\ NothingLeft'
  BY ScanNext
<1>3. TypeOK /\ ScanAhead /\ NothingLeft => ChunksDoNotShow
  <2> SUFFICES ASSUME TypeOK, ScanAhead, NothingLeft, ~ parsing
               PROVE  /\ Len(emitted) <= Len(Scan(arrived))
                      /\ \A k \in 1..Len(emitted) : emitted[k] = Scan(arrived)[k]
                      /\ ~ raised => Len(emitted) = Len(Scan(arrived))
    BY DEF ChunksDoNotShow
  <2>1. arrived \in 0..Len(input) /\ arrived \in arrived..Len(input) /\ consumed \in 0..arrived
        /\ emitted \in Taken
    BY FrameDecoderAssumption DEF TypeOK, Taken
  <2>2. PICK g : ScanFrom(g, arrived, 0) /\ Scan(arrived) = g[0]
    BY <2>1, ScanIs
  <2>3. Scan(arrived) = emitted \o g[consumed]
    BY <2>1, <2>2 DEF ScanAhead
  <2>4. g[consumed] \in Taken
    BY <2>1, <2>2 DEF ScanFrom
  <2>5. ~ raised => g[consumed] = <<>>
    BY <2>2 DEF NothingLeft
  <2>6. PICK t \in Taken : t = g[consumed]
    BY <2>4
  <2>7. /\ Len(emitted \o t) = Len(emitted) + Len(t)
        /\ \A k \in 1..Len(emitted) : (emitted \o t)[k] = emitted[k]
        /\ Len(emitted) \in Nat /\ Len(t) \in Nat
    BY <2>1, <2>6 DEF Taken
  <2>8. ~ raised => Len(t) = 0
    BY <2>5, <2>6
  <2> QED BY <2>3, <2>6, <2>7, <2>8
<1> QED BY <1>1, <1>2, <1>3, TypeCorrect, PTL DEF Spec

-----------------------------------------------------------------------------
(* The loop comes to an end                                                *)

\* Each pass through the loop that does not end it leaves fewer bytes to look at.
LoopAdvances ==
    [][parsing /\ parsing' => arrived' = arrived /\ consumed < consumed' /\ consumed' <= arrived']_vars

\* The part of LoopEnds that is safety: a call of on_bytes is through after at most as many
\* passes as there are bytes in the buffer, whatever they are (_parse_loop, codec.py:79-131).
THEOREM EveryPassAdvances == Spec => LoopAdvances
<1>1. TypeOK /\ TypeOK' /\ [Next]_vars =>
          [parsing /\ parsing' => arrived' = arrived /\ consumed < consumed' /\ consumed' <= arrived']_vars
  <2> SUFFICES ASSUME TypeOK, TypeOK', Next, parsing, parsing'
               PROVE  arrived' = arrived /\ consumed < consumed' /\ consumed' <= arrived'
    OBVIOUS
  <2>1. arrived' = arrived
    BY DEF Next, OnBytes, ParseLoop, Wait, RejectHeader, RejectCrc, TakeFrame
  <2>2. consumed <= Resync /\ Resync \in Nat
    BY ResyncFacts DEF TypeOK
  <2>3. consumed' = Resync + 1 \/ (Candidate /\ consumed' = Resync + FrameSize(Resync))
    BY DEF Next, OnBytes, ParseLoop, Wait, RejectHeader, RejectCrc, TakeFrame
  <2>4. consumed < consumed'
    <3>1. consumed \in Nat /\ arrived \in Nat /\ Resync \in Nat
      BY <2>2 DEF TypeOK
    <3>2. CASE consumed' = Resync + 1
      BY <2>2, <3>1, <3>2
    <3>3. CASE Candidate /\ consumed' = Resync + FrameSize(Resync)
      <4>1. FrameSize(Resync) \in MinFrameSize..(MinFrameSize + MaxPayload)
        BY <3>3, CandidateFacts
      <4>2. MinFrameSize \in Nat /\ MinFrameSize >= 2 /\ MaxPayload \in Nat
        BY FrameDecoderAssumption DEF MinFrameSize
      <4> QED BY <2>2, <3>1, <3>3, <4>1, <4>2
    <3> QED BY <2>3, <3>2, <3>3
  <2>5. consumed' <= arrived'
    BY DEF TypeOK
  <2> QED BY <2>1, <2>4, <2>5
<1> QED BY <1>1, TypeCorrect, PTL DEF Spec, LoopAdvances
=============================================================================
