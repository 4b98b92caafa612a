--------------------------- MODULE LiveCppProofs ----------------------------
(***************************************************************************)
(* What holds of live.cpp for every capacity and every number of chunks:   *)
(* what size() of speech_buffer says, when a segment ends, which chunks    *)
(* are kept, and that the program implements Captions.                     *)
(***************************************************************************)
EXTENDS LiveCpp, SequenceTheorems, TLAPS
-----------------------------------------------------------------------------
(* Arithmetic.                                                             *)

LEMMA DivOfMultiple ==
  ASSUME NEW a \in Nat
  PROVE  (a * Chunk) \div Chunk = a
  BY CppAssumption

LEMMA ChunksWithoutSome ==
  ASSUME NEW b \in Nat, NEW a \in Nat
  PROVE  (b - a) * Chunk = b * Chunk - a * Chunk
  BY CppAssumption

LEMMA FewerChunksFewerSamples ==
  ASSUME NEW b \in Nat, NEW a \in 0 .. b
  PROVE  a * Chunk \in Nat /\ a * Chunk <= b * Chunk
<1>1. PICK d \in Nat : b = a + d
  <2>1. b - a \in Nat /\ b = a + (b - a)
    OBVIOUS
  <2> QED BY <2>1
<1>2. b * Chunk = a * Chunk + d * Chunk
  BY <1>1, CppAssumption
<1>3. a * Chunk \in Nat /\ d * Chunk \in Nat /\ b * Chunk \in Nat
  BY CppAssumption
<1> QED BY <1>2, <1>3

LEMMA CapacityIsNoMultiple ==
  ASSUME NEW a \in Nat
  PROVE  a * Chunk # SpeechCapacity
<1>1. (a * Chunk) % Chunk = 0
  BY CppAssumption
<1> QED BY <1>1, CppAssumption

Positions == 0 .. SpeechCapacity - 1

LEMMA AdvanceType ==
  ASSUME NEW p \in Positions, NEW n \in Int
  PROVE  Advance(p, n) \in Positions
  BY CppAssumption DEF Advance, Positions

\* The slot i places after p, for i below cap.
SlotAfter(p, i, cap) == IF p + i < cap THEN p + i ELSE p + i - cap

LEMMA AdvanceStep ==
  ASSUME NEW p \in Positions, NEW n \in Positions
  PROVE  Advance(p, n) = SlotAfter(p, n, SpeechCapacity)
<1>1. CASE p + n < SpeechCapacity
  BY <1>1, CppAssumption DEF Advance, Positions, SlotAfter
<1>2. CASE p + n >= SpeechCapacity
  <2>1. p + n = (p + n - SpeechCapacity) + SpeechCapacity
    BY CppAssumption DEF Positions
  <2>2. p + n - SpeechCapacity \in Positions
    BY <1>2, CppAssumption DEF Positions
  <2>3. \A x \in Positions : (x + SpeechCapacity) % SpeechCapacity = x
    BY CppAssumption DEF Positions
  <2> QED BY <1>2, <2>1, <2>2, <2>3, CppAssumption DEF Advance, Positions, SlotAfter
<1> QED BY <1>1, <1>2, CppAssumption DEF Positions

\* A push that leaves a slot free adds its samples to the size.
LEMMA SizeAfterPush ==
  ASSUME NEW h \in Positions, NEW t \in Positions, NEW n \in Positions,
         RingSize(h, t, SpeechCapacity) + n < SpeechCapacity
  PROVE  RingSize(Advance(h, n), t, SpeechCapacity)
           = RingSize(h, t, SpeechCapacity) + n
<1>1. Advance(h, n) = SlotAfter(h, n, SpeechCapacity)
  BY AdvanceStep
<1> QED BY <1>1, CppAssumption DEF Positions, RingSize, SizeWhen, SlotAfter

\* A pop takes its samples from the size.
LEMMA SizeAfterPop ==
  ASSUME NEW h \in Positions, NEW t \in Positions, NEW n \in Positions,
         n <= RingSize(h, t, SpeechCapacity)
  PROVE  RingSize(h, Advance(t, n), SpeechCapacity)
           = RingSize(h, t, SpeechCapacity) - n
<1>1. Advance(t, n) = SlotAfter(t, n, SpeechCapacity)
  BY AdvanceStep
<1> QED BY <1>1, CppAssumption DEF Positions, RingSize, SizeWhen, SlotAfter
-----------------------------------------------------------------------------
(* The invariant of speech_buffer.                                         *)

Placed == head \in Positions /\ tail \in Positions

RingInv ==
  /\ Placed
  /\ taken \in Nat /\ speech \in Seq(Nat)
  /\ SizeIsHonest

LEMMA InitRingInv == Init => RingInv
  BY CppAssumption DEF Init, RingInv, Placed, Positions, SizeIsHonest, SpeechSize,
                       RingSize, SizeWhen

\* The size is that of whole chunks and leaves a slot free.
LEMMA SizeType ==
  ASSUME Placed
  PROVE  SpeechSize \in Positions
  BY CppAssumption DEF Placed, Positions, SpeechSize, RingSize, SizeWhen

\* A chunk that is taken is pushed or refused.
LEMMA PushKeepsRing ==
  ASSUME RingInv, NEW c \in Nat, PushSpeech(c)
  PROVE  Placed' /\ speech' \in Seq(Nat) /\ SizeIsHonest'
<1> USE CppAssumption DEF RingInv
<1>1. CASE Fits(Chunk, SpeechSize, SpeechCapacity)
  <2>1. /\ speech' = Append(speech, c) /\ head' = Advance(head, Chunk)
        /\ tail' = tail
    BY <1>1 DEF PushSpeech
  <2>2. Len(speech) \in Nat /\ SpeechSize = Len(speech) * Chunk
    BY DEF SizeIsHonest
  <2>3. speech' \in Seq(Nat) /\ Len(speech') = Len(speech) + 1
    BY <2>1
  <2>4. (Len(speech) + 1) * Chunk = Len(speech) * Chunk + Chunk
    BY <2>2
  <2>5. (Len(speech) + 1) * Chunk # SpeechCapacity
    <3>1. Len(speech) + 1 \in Nat
      BY <2>2
    <3> QED BY <3>1, CapacityIsNoMultiple
  <2>6. SpeechSize \in Int
    BY SizeType DEF Positions
  <2>7. SpeechSize + Chunk < SpeechCapacity
    <3>1. SpeechSize + Chunk <= SpeechCapacity
      BY <1>1, <2>6 DEF Fits
    <3>2. SpeechSize + Chunk # SpeechCapacity
      BY <2>2, <2>4, <2>5
    <3> QED BY <2>6, <3>1, <3>2
  <2>8. Chunk \in Positions /\ head \in Positions /\ tail \in Positions
    <3>1. SpeechSize \in Positions
      BY SizeType
    <3> QED BY <2>7, <3>1 DEF Positions, Placed
  <2>9. SpeechSize' = SpeechSize + Chunk
    BY <2>1, <2>7, <2>8, SizeAfterPush DEF SpeechSize
  <2>10. Placed'
    <3>1. Advance(head, Chunk) \in Positions
      BY <2>8, AdvanceType
    <3> QED BY <2>1, <2>8, <3>1 DEF Placed
  <2> QED BY <2>2, <2>3, <2>4, <2>9, <2>10 DEF SizeIsHonest
<1>2. CASE ~Fits(Chunk, SpeechSize, SpeechCapacity)
  BY <1>2 DEF PushSpeech, ring, Placed, SizeIsHonest, SpeechSize
<1> QED BY <1>1, <1>2

\* Popping whole chunks leaves the others.
LEMMA PopKeepsRing ==
  ASSUME RingInv, NEW a \in 0 .. Len(speech), PopSpeech(a * Chunk)
  PROVE  Placed' /\ speech' \in Seq(Nat) /\ SizeIsHonest'
<1> USE CppAssumption DEF RingInv
<1>1. Len(speech) \in Nat /\ SpeechSize = Len(speech) * Chunk
  BY DEF SizeIsHonest
<1>2. a * Chunk \in Nat /\ a * Chunk <= Len(speech) * Chunk
  BY <1>1, FewerChunksFewerSamples
<1>3. SpeechSize \in Positions
  BY SizeType
<1>4. a * Chunk \in Positions
  BY <1>1, <1>2, <1>3 DEF Positions
<1>5. /\ speech' = SubSeq(speech, a + 1, Len(speech))
      /\ tail' = Advance(tail, a * Chunk) /\ head' = head
  <2>1. a \in Nat
    BY <1>1
  <2>2. (a * Chunk) \div Chunk = a
    BY <2>1, DivOfMultiple
  <2> HIDE DEF RingInv
  <2> QED BY <2>2 DEF PopSpeech
<1>6. speech' \in Seq(Nat) /\ Len(speech') = Len(speech) - a
  BY <1>1, <1>5
<1>7. SpeechSize' = SpeechSize - a * Chunk
  BY <1>1, <1>2, <1>4, <1>5, SizeAfterPop DEF SpeechSize, Placed
<1>8. (Len(speech) - a) * Chunk = Len(speech) * Chunk - a * Chunk
  BY <1>1, ChunksWithoutSome
<1>9. Placed'
  <2>1. Advance(tail, a * Chunk) \in Positions
    BY <1>2, AdvanceType DEF Placed
  <2> QED BY <1>5, <2>1 DEF Placed
<1> QED BY <1>1, <1>6, <1>7, <1>8, <1>9 DEF SizeIsHonest

\* What is not the transcriber's leaves its variables alone.
Elsewhere == DeviceHears \/ Signal \/ MainNext \/ CaptureNext

LEMMA ElsewhereNothing ==
  ASSUME Elsewhere
  PROVE  UNCHANGED <<segment, printed, history, lost, tpc>>
BY DEF Elsewhere, DeviceHears, Signal, MainNext, Pause, JoinCapture, JoinTranscribe, Main,
       CaptureNext, CaptureOn, CaptureOff, CaptureSleeps, CapturePush, Capture

LEMMA NextRingInv == RingInv /\ [Next]_vars => RingInv'
<1> SUFFICES ASSUME RingInv, [Next]_vars PROVE RingInv'
  OBVIOUS
<1>1. ASSUME UNCHANGED <<ring, taken>>
      PROVE  RingInv'
  BY <1>1 DEF RingInv, ring, Placed, SizeIsHonest, SpeechSize
<1>2. CASE Elsewhere
  BY <1>1, <1>2, ElsewhereNothing DEF segment, history
<1>4. CASE LoopOn \/ LoopOff \/ TranscribeSleeps \/ Detect \/ Partial
  <2>1. UNCHANGED <<ring, taken>>
    BY <1>4 DEF LoopOn, LoopOff, TranscribeSleeps, Detect, Partial, segment, history
  <2> QED BY <1>1, <2>1
<1>5. CASE Take
  <2>1. taken' = taken + 1 /\ PushSpeech(taken + 1)
    BY <1>5 DEF Take, Popped
  <2>2. taken + 1 \in Nat
    BY DEF RingInv
  <2> QED BY <2>1, <2>2, PushKeepsRing DEF RingInv
<1>6. ASSUME taken' = taken, NEW a \in 0 .. Len(speech), PopSpeech(a * Chunk)
      PROVE  RingInv'
  BY <1>6, PopKeepsRing DEF RingInv
<1>7. ASSUME taken' = taken, PopSpeech(SpeechSize)
      PROVE  RingInv'
  BY <1>6, <1>7 DEF RingInv, SizeIsHonest
<1>8. CASE Trim
  <2>1. taken' = taken
    BY <1>8 DEF Trim, history
  <2>2. CASE ~recording /\ SpeechSize > Lookback * Chunk
    <3>1. PopSpeech(SpeechSize - Lookback * Chunk)
      BY <1>8, <2>2 DEF Trim, Trims
    <3>2. Len(speech) \in Nat /\ SpeechSize = Len(speech) * Chunk
      BY DEF RingInv, SizeIsHonest
    <3>3. Len(speech) > Lookback
      BY <2>2, <3>2, CppAssumption
    <3>4. SpeechSize - Lookback * Chunk = (Len(speech) - Lookback) * Chunk
      BY <3>2, CppAssumption
    <3>5. Len(speech) - Lookback \in 0 .. Len(speech)
      BY <3>2, <3>3, CppAssumption
    <3> QED BY <1>6, <2>1, <3>1, <3>4, <3>5
  <2>3. CASE ~(~recording /\ SpeechSize > Lookback * Chunk)
    <3>1. UNCHANGED ring
      BY <1>8, <2>3 DEF Trim, Trims
    <3> QED BY <1>1, <2>1, <3>1
  <2> QED BY <2>2, <2>3
<1>9. CASE EndSegment
  BY <1>7, <1>9 DEF EndSegment, PopAll, history
<1>10. CASE FlushRemaining
  <2>1. taken' = taken
    BY <1>10 DEF FlushRemaining, history
  <2>2. PopSpeech(SpeechSize) \/ UNCHANGED ring
    BY <1>10 DEF FlushRemaining
  <2> QED BY <1>1, <1>7, <2>1, <2>2
<1>11. CASE UNCHANGED vars
  BY <1>1, <1>11 DEF vars, segment, history
<1> QED BY <1>2, <1>4, <1>5, <1>8, <1>9, <1>10, <1>11 DEF Next, TranscribeNext, Elsewhere

\* size() of speech_buffer is the number of samples in it: a ring whose capacity
\* is no multiple of a chunk is never exactly full.
THEOREM SizeHonest == Spec => []SizeIsHonest
<1>1. RingInv => SizeIsHonest
  BY DEF RingInv
<1> QED BY <1>1, InitRingInv, NextRingInv, PTL DEF Spec


LEMMA RingInvariant == Spec => []RingInv
  BY InitRingInv, NextRingInv, PTL DEF Spec
-----------------------------------------------------------------------------
(* The chunks that were looked at.                                         *)

\* The chunk in hand was not looked at yet.
InHand == tpc \in {"trim", "detect"}

OrderInv ==
  /\ taken \in Nat
  /\ tpc \in {"loop", "poll", "trim", "detect", "partial", "end", "flush", "done"}
  /\ \A c \in loud : c \in Nat /\ c <= taken
  /\ InHand => taken # 0 /\ taken \notin loud

LEMMA InitOrderInv == Init => OrderInv
  BY DEF Init, OrderInv, InHand

LEMMA NextOrderInv == OrderInv /\ [Next]_vars => OrderInv'
<1> SUFFICES ASSUME OrderInv, [Next]_vars PROVE OrderInv'
  OBVIOUS
<1>1. ASSUME UNCHANGED <<taken, loud>>, InHand' => InHand,
             tpc' \in {"loop", "poll", "trim", "detect", "partial", "end", "flush",
                       "done"}
      PROVE  OrderInv'
  BY <1>1 DEF OrderInv, InHand
<1>2. CASE Elsewhere
  BY <1>1, <1>2, ElsewhereNothing DEF OrderInv, InHand, history
<1>3. CASE LoopOn \/ LoopOff \/ TranscribeSleeps \/ Partial \/ Trim
  BY <1>1, <1>3 DEF InHand, LoopOn, LoopOff, TranscribeSleeps, Partial, Trim,
     Transcribe, history
<1>4. CASE Take
  <2>1. taken' = taken + 1 /\ tpc' = "trim" /\ loud' = loud
    BY <1>4 DEF Take, Popped, Transcribe
  <2> QED BY <2>1 DEF OrderInv, InHand
<1>5. CASE Detect
  <2>1. /\ taken' = taken /\ tpc = "detect" /\ tpc' \in {"loop", "partial", "end"}
        /\ loud' = loud \cup {taken} \/ loud' = loud
    BY <1>5 DEF Detect, Transcribe
  <2> QED BY <2>1 DEF OrderInv, InHand
<1>6. CASE EndSegment \/ FlushRemaining
  BY <1>1, <1>6 DEF InHand, EndSegment, FlushRemaining, Transcribe, history
<1>7. CASE UNCHANGED vars
  BY <1>1, <1>7 DEF OrderInv, InHand, vars, history
<1> QED BY <1>2, <1>3, <1>4, <1>5, <1>6, <1>7 DEF Next, TranscribeNext, Elsewhere

LEMMA OrderInvariant == Spec => []OrderInv
  BY InitOrderInv, NextOrderInv, PTL DEF Spec
-----------------------------------------------------------------------------
(* The count of quiet chunks.                                              *)

\* Before the n-th chunk taken there are silence_chunks quiet ones after a loud one,
\* itself included.
QuietAt(n) ==
  /\ silence_chunks < n
  /\ \A k \in 0 .. silence_chunks - 1 : n - k \notin loud
  /\ n - silence_chunks \in loud

CountInv ==
  /\ silence_chunks \in Nat /\ recording \in BOOLEAN
  /\ recording => QuietAt(IF InHand THEN taken - 1 ELSE taken)
  /\ recording /\ tpc \notin {"end", "flush", "done"} => silence_chunks < SilenceToEnd
  /\ tpc = "end" => recording /\ silence_chunks = SilenceToEnd

LEMMA InitCountInv == Init => CountInv
<1> SUFFICES ASSUME Init PROVE CountInv
  OBVIOUS
<1>1. silence_chunks = 0 /\ recording = FALSE /\ tpc = "loop"
  BY DEF Init
<1> QED BY <1>1 DEF CountInv

\* The level of the chunk in hand is counted.
LEMMA LevelIsCounted ==
  ASSUME RingInv, OrderInv, CountInv, Detect
  PROVE  CountInv'
<1>1. PICK isLoud \in BOOLEAN :
        /\ loud' = IF isLoud THEN loud \cup {taken} ELSE loud
        /\ recording' = (recording \/ isLoud)
        /\ silence_chunks' = IF recording \/ isLoud
                             THEN IF isLoud THEN 0 ELSE silence_chunks + 1
                             ELSE silence_chunks
        /\ tpc' = IF ~(recording \/ isLoud) THEN "loop"
                  ELSE IF \/ (IF isLoud THEN 0 ELSE silence_chunks + 1) >= SilenceToEnd
                          \/ SpeechSize >= SpeechCapacity
                       THEN "end" ELSE "partial"
  BY DEF Detect, Silent, Transcribe
<1>2. tpc = "detect" /\ taken' = taken /\ InHand /\ ~InHand'
  BY <1>1 DEF Detect, Silent, InHand
<1>3. SpeechSize \in Int /\ ~(SpeechSize >= SpeechCapacity)
  BY SizeType, CppAssumption DEF RingInv, Positions
<1>4. /\ taken \in Nat \ {0} /\ taken \notin loud
      /\ silence_chunks \in Nat
  BY <1>2 DEF OrderInv, CountInv
<1>5. CASE isLoud
  <2>1. /\ silence_chunks' = 0 /\ recording' = TRUE /\ tpc' = "partial"
        /\ taken \in loud'
    <3>1. recording' = TRUE
      BY <1>1, <1>5
    <3>2. silence_chunks' = 0 /\ taken \in loud'
      BY <1>1, <1>5
    <3>3. ~(0 >= SilenceToEnd)
      BY CppAssumption
    <3>4. tpc' = "partial"
      BY <1>1, <1>3, <1>5, <3>3
    <3> QED BY <3>1, <3>2, <3>4
  <2> QED BY <1>2, <1>4, <2>1, CppAssumption DEF CountInv, QuietAt
<1>6. CASE ~isLoud /\ recording
  <2>1. /\ silence_chunks' = silence_chunks + 1 /\ recording' = TRUE /\ loud' = loud
        /\ tpc' = IF silence_chunks + 1 >= SilenceToEnd THEN "end" ELSE "partial"
    BY <1>1, <1>3, <1>6
  <2>2. QuietAt(taken - 1) /\ silence_chunks < SilenceToEnd
    BY <1>2, <1>6 DEF CountInv
  <2>3. QuietAt(taken)'
    <3>1. \A k \in 0 .. silence_chunks : taken - k \notin loud
      <4> TAKE k \in 0 .. silence_chunks
      <4>1. CASE k = 0
        BY <1>4, <4>1
      <4>2. CASE k # 0
        <5>1. k - 1 \in 0 .. silence_chunks - 1
          BY <1>4, <4>2
        <5>2. taken - 1 - (k - 1) = taken - k
          BY <1>4
        <5> QED BY <2>2, <5>1, <5>2 DEF QuietAt
      <4> QED BY <4>1, <4>2
    <3>2. taken - 1 - silence_chunks = taken - (silence_chunks + 1)
      BY <1>4
    <3> QED BY <1>2, <1>4, <2>1, <2>2, <3>1, <3>2 DEF QuietAt
  <2> QED BY <1>2, <1>4, <2>1, <2>2, <2>3, CppAssumption DEF CountInv
<1>7. CASE ~isLoud /\ ~recording
  BY <1>1, <1>2, <1>7 DEF CountInv
<1> QED BY <1>5, <1>6, <1>7 DEF CountInv

LEMMA NextCountInv ==
  RingInv /\ OrderInv /\ CountInv /\ [Next]_vars => CountInv'
<1> SUFFICES ASSUME RingInv, OrderInv, CountInv, [Next]_vars PROVE CountInv'
  OBVIOUS
<1>1. ASSUME UNCHANGED <<silence_chunks, recording, taken, loud>>, InHand' <=> InHand,
             tpc' = "end" => tpc = "end",
             tpc' \notin {"end", "flush", "done"} => tpc \notin {"end", "flush", "done"}
      PROVE  CountInv'
  BY <1>1 DEF CountInv, QuietAt
<1>2. CASE Elsewhere
  <2>1. UNCHANGED <<silence_chunks, recording, taken, loud, tpc>>
    BY <1>2, ElsewhereNothing DEF segment, history
  <2> QED BY <1>1, <2>1 DEF InHand
<1>6. CASE LoopOn \/ LoopOff \/ TranscribeSleeps \/ Partial
  <2>1. /\ UNCHANGED <<silence_chunks, recording, taken, loud>>
        /\ tpc \in {"loop", "poll", "partial"} /\ tpc' \in {"loop", "poll", "flush"}
    BY <1>6 DEF LoopOn, LoopOff, TranscribeSleeps, Partial, Transcribe, segment, history
  <2> QED BY <1>1, <2>1 DEF InHand
<1>7. CASE Trim
  <2>1. /\ UNCHANGED <<silence_chunks, recording, taken, loud>>
        /\ tpc = "trim" /\ tpc' = "detect"
    BY <1>7 DEF Trim, Transcribe, history
  <2> QED BY <1>1, <2>1 DEF InHand
<1>8. CASE FlushRemaining
  <2>1. /\ UNCHANGED <<silence_chunks, recording, taken, loud>>
        /\ tpc = "flush" /\ tpc' = "done"
    BY <1>8 DEF FlushRemaining, Transcribe, history
  <2> QED BY <1>1, <2>1 DEF InHand
<1>9. CASE Take
  <2>1. /\ taken' = taken + 1 /\ UNCHANGED <<silence_chunks, recording, loud>>
        /\ tpc = "poll" /\ tpc' = "trim"
    BY <1>9 DEF Take, Popped, Transcribe
  <2>2. taken \in Nat /\ taken' - 1 = taken
    BY <2>1 DEF OrderInv
  <2>3. ASSUME recording PROVE QuietAt(taken - 1)'
    <3>1. QuietAt(taken)
      BY <2>1, <2>3 DEF CountInv, InHand
    <3> QED BY <2>1, <2>2, <3>1 DEF QuietAt
  <2> QED BY <2>1, <2>3 DEF CountInv, InHand
<1>10. CASE Detect
  BY <1>10, LevelIsCounted
<1>11. CASE EndSegment
  <2>1. recording' = FALSE /\ silence_chunks' = 0 /\ tpc' = "loop"
    BY <1>11 DEF EndSegment, Transcribe
  <2> QED BY <2>1 DEF CountInv
<1>12. CASE UNCHANGED vars
  BY <1>1, <1>12 DEF vars, segment, history, InHand
<1> QED BY <1>2, <1>6, <1>7, <1>8, <1>9, <1>10, <1>11, <1>12
        DEF Next, TranscribeNext, Elsewhere

LEMMA CountInvariant == Spec => []CountInv
  BY InitCountInv, NextCountInv, RingInvariant, OrderInvariant, PTL DEF Spec

\* silence_chunks counts the quiet chunks since the last loud one, whatever is
\* refused, and for however many chunks and segments.
THEOREM SilenceIsCounted == Spec => []SilenceCounted
<1>1. CountInv => SilenceCounted
  BY DEF CountInv, QuietAt, InHand, SilenceCounted
<1> QED BY <1>1, CountInvariant, PTL

\* Nothing but silence ends a segment, with whatever capacity: the test that
\* should cap it is dead code.
THEOREM OnlySilenceEnds == Spec => []SegmentEndsInSilence
<1>1. CountInv => SegmentEndsInSilence
  BY DEF CountInv, QuietAt, InHand, SegmentEndsInSilence
<1> QED BY <1>1, CountInvariant, PTL
-----------------------------------------------------------------------------
(* Types.                                                                  *)

\* The cut leaves the lookback.
LEMMA TrimCuts ==
  ASSUME RingInv, Trim
  PROVE  \/ speech' = speech
         \/ /\ ~recording /\ Len(speech) > Lookback
            /\ speech' = SubSeq(speech, Len(speech) - Lookback + 1, Len(speech))
<1>1. CASE Trims
  <2>1. ~recording /\ PopSpeech(SpeechSize - Lookback * Chunk)
    BY <1>1 DEF Trim, Trims
  <2>2. Len(speech) \in Nat /\ SpeechSize = Len(speech) * Chunk
    BY DEF RingInv, SizeIsHonest
  <2>3. Len(speech) > Lookback
    BY <1>1, <2>2, CppAssumption DEF Trims
  <2>4. SpeechSize - Lookback * Chunk = (Len(speech) - Lookback) * Chunk
    BY <2>2, ChunksWithoutSome, CppAssumption
  <2>5. (SpeechSize - Lookback * Chunk) \div Chunk = Len(speech) - Lookback
    BY <2>2, <2>3, <2>4, DivOfMultiple, CppAssumption
  <2> QED BY <2>1, <2>3, <2>5 DEF PopSpeech
<1>2. CASE ~Trims
  BY <1>2 DEF Trim, ring
<1> QED BY <1>1, <1>2

\* A pop of the whole size leaves nothing.
LEMMA AllIsPopped ==
  ASSUME RingInv, PopSpeech(SpeechSize)
  PROVE  speech' = <<>>
<1>1. Len(speech) \in Nat /\ SpeechSize = Len(speech) * Chunk
  BY DEF RingInv, SizeIsHonest
<1>2. SpeechSize \div Chunk = Len(speech)
  BY <1>1, DivOfMultiple
<1>3. speech' = SubSeq(speech, Len(speech) + 1, Len(speech))
  BY <1>2 DEF PopSpeech
<1> QED BY <1>1, <1>3, SubSeqEmpty

LEMMA InitTypeOK == Init => TypeOK
<1> SUFFICES ASSUME Init PROVE TypeOK
  OBVIOUS
<1>1. /\ 0 \in 0 .. MaxHeard /\ 0 \in 0 .. MaxTaken /\ 0 \in 0 .. 0
      /\ 0 \in 0 .. SpeechCapacity - 1 /\ 0 \in 0 .. SilenceToEnd
  BY CppAssumption
<1>2. <<>> \in Seq(Taken) /\ <<>> \in Seq(Seq(Taken))
  OBVIOUS
<1> QED BY <1>1, <1>2 DEF Init, TypeOK

\* What is shown of the speech is a transcription or a failure.
LEMMA ShowTypes ==
  ASSUME TypeOK, NEW ok \in BOOLEAN, Show(ok)
  PROVE  captions' \in Seq(Seq(Taken)) /\ failed' \subseteq Taken
<1>1. captions \in Seq(Seq(Taken)) /\ speech \in Seq(Taken) /\ failed \subseteq Taken
  BY DEF TypeOK
<1>2. captions' \in Seq(Seq(Taken))
  BY <1>1 DEF Show
<1>3. ToSet(speech) \subseteq Taken
  BY <1>1 DEF ToSet
<1> QED BY <1>1, <1>2, <1>3 DEF Show

LEMMA NextTypeOK ==
  ASSUME RingInv, RingInv', OrderInv, CountInv, TypeOK, [Next]_vars
  PROVE  TypeOK'
<1>1. head' \in 0 .. SpeechCapacity - 1 /\ tail' \in 0 .. SpeechCapacity - 1
  BY DEF RingInv, Placed, Positions
<1> USE DEF TypeOK
<1>2. ASSUME UNCHANGED <<segment, printed, history, lost, tpc>>,
             mpc' \in {"wait", "joincapture", "jointranscribe", "done"},
             cpc' \in {"loop", "queue", "done"}, running' \in BOOLEAN,
             heard' \in 0 .. MaxHeard, queued' \in 0 .. heard'
      PROVE  TypeOK'
  BY <1>2 DEF segment, ring, printed, history
<1>3. CASE DeviceHears
  <2>1. heard' \in 0 .. MaxHeard /\ queued' \in 0 .. heard'
    BY <1>3, CppAssumption DEF DeviceHears
  <2> QED BY <1>2, <1>3, <2>1 DEF DeviceHears
<1>4. CASE Signal
  BY <1>2, <1>4 DEF Signal
<1>5. CASE MainNext
  BY <1>2, <1>5 DEF MainNext, Pause, JoinCapture, JoinTranscribe, Main
<1>6. CASE CaptureNext
  <2>1. /\ UNCHANGED <<running, mpc, tpc, heard, segment, printed, history, lost>>
        /\ cpc' \in {"loop", "queue", "done"}
    BY <1>6 DEF CaptureNext, CaptureOn, CaptureOff, CaptureSleeps, CapturePush, Capture
  <2>2. queued' = queued \/ (queued > 0 /\ queued' = queued - 1)
    BY <1>6 DEF CaptureNext, CaptureOn, CaptureOff, CaptureSleeps, CapturePush
  <2>3. queued' \in 0 .. heard'
    BY <2>1, <2>2
  <2> QED BY <1>2, <2>1, <2>3
<1>7. CASE LoopOn \/ LoopOff \/ TranscribeSleeps \/ Partial
  BY <1>7 DEF LoopOn, LoopOff, TranscribeSleeps, Partial, Transcribe, segment, ring,
     printed, history
<1>8. CASE Take
  <2>1. taken' = taken + 1 /\ taken + 1 \in Taken /\ taken' \in 0 .. MaxTaken
    BY <1>8, CppAssumption DEF Take, Popped, Taken
  <2>2. speech' \in Seq(Taken) /\ lost' \subseteq Taken
    <3>1. PushSpeech(taken + 1)
      BY <1>8 DEF Take, Popped
    <3>2. \/ speech' = Append(speech, taken + 1) /\ lost' = lost
          \/ speech' = speech /\ lost' = lost \cup {taken + 1}
      BY <3>1 DEF PushSpeech, ring
    <3>3. Append(speech, taken + 1) \in Seq(Taken)
      BY <2>1
    <3> QED BY <2>1, <3>2, <3>3
  <2>3. /\ UNCHANGED <<running, mpc, cpc, heard, queued, recording, silence_chunks,
                       printed, loud>>
        /\ tpc' = "trim"
    BY <1>8 DEF Take, Transcribe
  <2> QED BY <1>1, <2>1, <2>2, <2>3 DEF printed
<1>9. CASE Trim
  <2>1. speech' \in Seq(Taken)
    <3>1. CASE /\ Len(speech) > Lookback
               /\ speech' = SubSeq(speech, Len(speech) - Lookback + 1, Len(speech))
      BY <3>1, CppAssumption
    <3> QED BY <1>9, <3>1, TrimCuts
  <2>2. /\ UNCHANGED <<running, mpc, cpc, heard, queued, recording,
                       silence_chunks, printed, history, lost>>
        /\ tpc' = "detect"
    BY <1>9 DEF Trim, Transcribe
  <2> QED BY <1>1, <2>1, <2>2 DEF printed, history
<1>10. CASE Detect
  <2>1. PICK isLoud \in BOOLEAN :
          /\ loud' = IF isLoud THEN loud \cup {taken} ELSE loud
          /\ recording' = (recording \/ isLoud)
          /\ silence_chunks' = IF recording \/ isLoud
                               THEN IF isLoud THEN 0 ELSE silence_chunks + 1
                               ELSE silence_chunks
    BY <1>10 DEF Detect, Silent
  <2>2. /\ UNCHANGED <<running, mpc, cpc, heard, queued, ring, printed, taken,
                       lost>>
        /\ tpc = "detect" /\ tpc' \in {"loop", "end", "partial"}
    BY <1>10 DEF Detect, Transcribe
  <2>3. recording' \in BOOLEAN
    BY <2>1
  <2>4. silence_chunks' \in 0 .. SilenceToEnd
    <3>1. recording => silence_chunks < SilenceToEnd
      BY <2>2 DEF CountInv
    <3> QED BY <2>1, <3>1, CppAssumption
  <2>5. loud' \subseteq Taken
    <3>1. taken \in Taken
      BY <2>2 DEF OrderInv, InHand, Taken
    <3> QED BY <2>1, <3>1
  <2> QED BY <2>2, <2>3, <2>4, <2>5 DEF ring, printed
<1>11. CASE EndSegment \/ FlushRemaining
  <2>1. speech' \in Seq(Taken)
    <3>1. PopSpeech(SpeechSize) \/ UNCHANGED ring
      BY <1>11 DEF EndSegment, PopAll, FlushRemaining
    <3>2. CASE PopSpeech(SpeechSize)
      BY <3>2, AllIsPopped
    <3> QED BY <3>1, <3>2 DEF ring
  <2>2. captions' \in Seq(Seq(Taken)) /\ failed' \subseteq Taken
    <3>1. (\E ok \in BOOLEAN : Show(ok)) \/ UNCHANGED printed
      BY <1>11 DEF EndSegment, FlushRemaining
    <3> QED BY <3>1, ShowTypes DEF printed
  <2>3. /\ UNCHANGED <<running, mpc, cpc, heard, queued, history, lost>>
        /\ tpc' \in {"loop", "done"}
    BY <1>11 DEF EndSegment, FlushRemaining, Transcribe
  <2>4. recording' \in BOOLEAN /\ silence_chunks' \in 0 .. SilenceToEnd
    <3>1. \/ recording' = FALSE /\ silence_chunks' = 0
          \/ UNCHANGED <<recording, silence_chunks>>
      BY <1>11 DEF EndSegment, FlushRemaining
    <3>2. 0 \in 0 .. SilenceToEnd
      BY CppAssumption
    <3>3. recording \in BOOLEAN /\ silence_chunks \in 0 .. SilenceToEnd
      OBVIOUS
    <3> HIDE DEF TypeOK
    <3>4. CASE recording' = FALSE /\ silence_chunks' = 0
      BY <3>2, <3>4
    <3>5. CASE UNCHANGED <<recording, silence_chunks>>
      BY <3>3, <3>5
    <3> QED BY <3>1, <3>4, <3>5
  <2> QED BY <1>1, <2>1, <2>2, <2>3, <2>4 DEF history
<1>12. CASE UNCHANGED vars
  BY <1>12 DEF vars, segment, ring, printed, history
<1> QED BY <1>3, <1>4, <1>5, <1>6, <1>7, <1>8, <1>9, <1>10, <1>11, <1>12
        DEF Next, TranscribeNext

\* Every variable of the threads, the rings and the printed texts keeps its type.
THEOREM CppTypes == Spec => []TypeOK
  BY InitTypeOK, NextTypeOK, RingInvariant, OrderInvariant, CountInvariant, PTL DEF Spec
-----------------------------------------------------------------------------
(* No loud chunk gets away.                                                *)

\* Where a loud chunk is until it is printed.
Open == IF recording \/ tpc = "end" THEN ToSet(speech) ELSE {}

LoudInv ==
  /\ loud \subseteq InCaptions \cup failed \cup lost \cup Open
  /\ InHand => \/ taken \in lost
               \/ speech # <<>> /\ speech[Len(speech)] = taken

LEMMA InitLoudInv == Init => LoudInv
  BY DEF Init, LoudInv, InHand

\* A text that is printed, or whose printing fails, takes the speech with it.
LEMMA ShowKeepsSpeech ==
  ASSUME TypeOK, NEW ok \in BOOLEAN, Show(ok)
  PROVE  InCaptions' \cup failed' = InCaptions \cup failed \cup ToSet(speech)
<1>1. captions \in Seq(Seq(Taken)) /\ speech \in Seq(Taken)
  BY DEF TypeOK
<1>2. CASE ok
  <2>1. captions' = Append(captions, speech) /\ failed' = failed
    BY <1>2 DEF Show
  <2>2. /\ DOMAIN captions = 1 .. Len(captions) /\ Len(captions) \in Nat
        /\ DOMAIN captions' = 1 .. Len(captions) + 1
        /\ \A k \in DOMAIN captions : captions'[k] = captions[k]
        /\ captions'[Len(captions) + 1] = speech
    BY <1>1, <2>1
  <2>3. Runs' = Runs \cup {speech}
    BY <2>2 DEF Runs
  <2> QED BY <2>1, <2>3 DEF InCaptions
<1>3. CASE ~ok
  BY <1>3 DEF Show, InCaptions, Runs
<1> QED BY <1>2, <1>3

LEMMA PushedIsLast ==
  ASSUME TypeOK, NEW c \in Taken, PushSpeech(c)
  PROVE  /\ \/ c \in lost'
            \/ speech' # <<>> /\ speech'[Len(speech')] = c
         /\ ToSet(speech) \subseteq ToSet(speech') /\ lost \subseteq lost'
<1>1. speech \in Seq(Taken)
  BY DEF TypeOK
<1>2. CASE speech' = Append(speech, c) /\ lost' = lost
  <2>1. /\ Len(speech) \in Nat /\ DOMAIN speech = 1 .. Len(speech)
        /\ Len(speech') = Len(speech) + 1 /\ DOMAIN speech' = 1 .. Len(speech) + 1
        /\ speech'[Len(speech) + 1] = c /\ speech' # <<>>
        /\ \A k \in DOMAIN speech : speech'[k] = speech[k]
    BY <1>1, <1>2
  <2> QED BY <1>2, <2>1 DEF ToSet
<1>3. CASE speech' = speech /\ lost' = lost \cup {c}
  BY <1>3
<1> QED BY <1>2, <1>3 DEF PushSpeech, ring

\* The cut keeps the chunk that has just come.
LEMMA CutKeepsLast ==
  ASSUME TypeOK, Len(speech) > Lookback,
         speech' = SubSeq(speech, Len(speech) - Lookback + 1, Len(speech))
  PROVE  speech' # <<>> /\ speech'[Len(speech')] = speech[Len(speech)]
<1>1. speech \in Seq(Taken) /\ Len(speech) \in Nat /\ Lookback \in Nat \ {0}
  BY CppAssumption DEF TypeOK
<1>2. Len(speech') = Lookback
  BY <1>1
<1>3. speech'[Lookback] = speech[Len(speech)]
  BY <1>1
<1> QED BY <1>1, <1>2, <1>3

LEMMA NextLoudInv ==
  ASSUME RingInv, OrderInv, CountInv, TypeOK, LoudInv, [Next]_vars
  PROVE  LoudInv'
<1> USE DEF LoudInv
<1>1. ASSUME UNCHANGED <<ring, recording, printed, history>>, lost \subseteq lost',
             InHand' => InHand, tpc = "end" <=> tpc' = "end"
      PROVE  LoudInv'
  BY <1>1 DEF ring, printed, history, InCaptions, Runs, Open
<1>2. CASE Elsewhere
  BY <1>1, <1>2, ElsewhereNothing DEF segment, InHand
<1>4. CASE LoopOn \/ LoopOff \/ TranscribeSleeps \/ Partial
  <2>1. /\ UNCHANGED <<segment, printed, history, lost>>
        /\ tpc \in {"loop", "poll", "partial"} /\ tpc' \in {"loop", "poll", "flush"}
    BY <1>4 DEF LoopOn, LoopOff, TranscribeSleeps, Partial, Transcribe
  <2> QED BY <1>1, <2>1 DEF segment, InHand
<1>5. CASE Take
  <2>1. /\ taken' = taken + 1 /\ PushSpeech(taken + 1) /\ taken + 1 <= MaxTaken
        /\ UNCHANGED <<recording, printed, loud>> /\ tpc = "poll" /\ tpc' = "trim"
    BY <1>5 DEF Take, Popped, Transcribe
  <2>2. taken + 1 \in Taken
    BY <2>1, CppAssumption DEF TypeOK, Taken
  <2>3. /\ \/ taken + 1 \in lost'
           \/ speech' # <<>> /\ speech'[Len(speech')] = taken + 1
        /\ ToSet(speech) \subseteq ToSet(speech') /\ lost \subseteq lost'
    BY <2>1, <2>2, PushedIsLast
  <2> QED BY <2>1, <2>3 DEF printed, InCaptions, Runs, Open
<1>6. CASE Trim
  <2>1. /\ UNCHANGED <<recording, printed, history, lost>>
        /\ tpc = "trim" /\ tpc' = "detect"
    BY <1>6 DEF Trim, Transcribe
  <2>2. \/ speech' = speech
        \/ ~recording /\ speech' # <<>> /\ speech'[Len(speech')] = speech[Len(speech)]
    BY <1>6, TrimCuts, CutKeepsLast
  <2> QED BY <2>1, <2>2 DEF InHand, printed, history, InCaptions, Runs, Open
<1>7. CASE Detect
  <2>1. PICK isLoud \in BOOLEAN :
          /\ loud' = IF isLoud THEN loud \cup {taken} ELSE loud
          /\ recording' = (recording \/ isLoud)
    BY <1>7 DEF Detect
  <2>2. /\ UNCHANGED <<ring, printed, taken, lost>>
        /\ tpc = "detect" /\ tpc' \in {"loop", "end", "partial"}
    BY <1>7 DEF Detect, Transcribe
  <2>3. UNCHANGED <<InCaptions, failed, speech>> /\ ~InHand' /\ Open \subseteq Open'
    BY <2>1, <2>2 DEF ring, printed, InCaptions, Runs, InHand, Open
  <2>4. CASE isLoud
    <3>1. taken \in lost \cup ToSet(speech)
      <4>1. CASE speech # <<>> /\ speech[Len(speech)] = taken
        <5>1. Len(speech) \in DOMAIN speech
          BY <4>1 DEF TypeOK
        <5> QED BY <4>1, <5>1 DEF ToSet
      <4> QED BY <2>2, <4>1 DEF InHand
    <3>2. Open' = ToSet(speech)
      BY <2>1, <2>3, <2>4 DEF Open
    <3> QED BY <2>1, <2>2, <2>3, <2>4, <3>1, <3>2
  <2>5. CASE ~isLoud
    BY <2>1, <2>2, <2>3, <2>5
  <2> QED BY <2>4, <2>5
<1>8. CASE EndSegment \/ FlushRemaining
  <2>1. /\ UNCHANGED <<history, lost>> /\ tpc' \in {"loop", "done"}
    BY <1>8 DEF EndSegment, FlushRemaining, Transcribe
  <2>2. CASE \E ok \in BOOLEAN : Show(ok)
    <3>1. InCaptions' \cup failed' = InCaptions \cup failed \cup ToSet(speech)
      BY <2>2, ShowKeepsSpeech
    <3> QED BY <2>1, <3>1 DEF history, InHand, Open
  <2>3. CASE ~(SpeechSize > 0) /\ UNCHANGED <<ring, printed, recording>> /\ tpc' = "done"
    <3>1. /\ Len(speech) \in Nat /\ SpeechSize = Len(speech) * Chunk
          /\ Chunk \in Nat \ {0}
      BY CppAssumption DEF RingInv, SizeIsHonest
    <3>2. speech \in Seq(Taken) /\ Len(speech) = 0
      BY <2>3, <3>1 DEF TypeOK
    <3>3. ToSet(speech) = {}
      BY <3>2 DEF ToSet
    <3> QED BY <2>1, <2>3, <3>3 DEF history, printed, InCaptions, Runs, InHand, Open
  <2> QED BY <1>8, <2>2, <2>3 DEF EndSegment, FlushRemaining, Transcribe
<1>9. CASE UNCHANGED vars
  BY <1>1, <1>9 DEF vars, segment, InHand
<1> QED BY <1>2, <1>4, <1>5, <1>6, <1>7, <1>8, <1>9
        DEF Next, TranscribeNext, Elsewhere

\* A loud chunk that was taken is printed, or being recorded, or its text failed,
\* or the full speech buffer refused it: the lookback never cuts it off.
THEOREM LoudKept == Spec => []LoudIsKept
<1>1. ASSUME LoudInv PROVE LoudIsKept
  <2> SUFFICES ASSUME tpc \in {"loop", "poll", "done"}
               PROVE  loud \subseteq InCaptions \cup failed \cup lost
                              \cup (IF recording THEN ToSet(speech) ELSE {})
    BY DEF LoudIsKept
  <2>1. Open = IF recording THEN ToSet(speech) ELSE {}
    BY DEF Open
  <2> QED BY <1>1, <2>1 DEF LoudInv
<1> QED BY <1>1, InitLoudInv, NextLoudInv, CppTypes, RingInvariant, OrderInvariant,
           CountInvariant, PTL DEF Spec
-----------------------------------------------------------------------------
(* Nothing is missing but what was refused.                                *)

\* The speech is the end of what was taken, without what was refused.
Contiguous ==
  /\ ToSet(speech) \subseteq 1 .. taken
  /\ \A i, j \in DOMAIN speech : i < j => speech[i] < speech[j]
  /\ speech # <<>> =>
       \A c \in 1 .. taken : c >= speech[1] => c \in ToSet(speech) \cup lost

\* A segment is never empty.
Filled == ((recording /\ tpc # "done") \/ InHand) => speech # <<>>

MissInv == Contiguous /\ Filled /\ MissingWasRefused

LEMMA InitMissInv == Init => MissInv
<1> SUFFICES ASSUME Init PROVE MissInv
  OBVIOUS
<1>1. DOMAIN captions = {} /\ DOMAIN speech = {}
  BY DEF Init
<1>2. /\ recording = FALSE /\ tpc = "loop" /\ speech = <<>>
      /\ ToSet(speech) = {} /\ Runs = {}
  BY <1>1 DEF Init, ToSet, Runs
<1>3. Contiguous
  BY <1>1, <1>2 DEF Contiguous
<1> QED BY <1>2, <1>3 DEF MissInv, Filled, InHand, MissingWasRefused

\* What a sequence has once an element is appended.
LEMMA AppendedSet ==
  ASSUME NEW s \in Seq(Taken), NEW c \in Taken
  PROVE  ToSet(Append(s, c)) = ToSet(s) \cup {c}
<1> DEFINE l == Append(s, c)
<1>1. /\ DOMAIN s = 1 .. Len(s) /\ DOMAIN l = 1 .. Len(s) + 1
      /\ \A i \in DOMAIN s : l[i] = s[i]
      /\ l[Len(s) + 1] = c /\ Len(s) \in Nat
  OBVIOUS
<1> HIDE DEF l
<1>2. ToSet(l) = ToSet(s) \cup {c}
  BY <1>1 DEF ToSet
<1> QED BY <1>2 DEF l

\* A chunk that is taken is the next one.
LEMMA TakesNext ==
  ASSUME TypeOK, Take
  PROVE  /\ taken' = taken + 1 /\ PushSpeech(taken + 1)
         /\ taken \in Nat /\ taken + 1 \in Taken
<1>1. taken \in Nat /\ taken' = taken + 1 /\ taken + 1 <= MaxTaken /\ PushSpeech(taken + 1)
  BY CppAssumption DEF Take, Popped, TypeOK
<1> QED BY <1>1, CppAssumption DEF Taken

\* A chunk that is taken continues the speech or is refused.
LEMMA TakeKeepsContiguous ==
  ASSUME RingInv, TypeOK, Contiguous, Take
  PROVE  Contiguous' /\ speech' # <<>>
<1> DEFINE new == taken + 1
<1>1. /\ taken' = new /\ PushSpeech(new)
      /\ taken \in Nat /\ new \in Taken /\ new \in Nat
  BY TakesNext
<1>2. speech \in Seq(Taken)
  BY DEF TypeOK
<1>4. \A c \in 1 .. taken' : c \in 1 .. taken \/ c = new
  BY <1>1
<1>5. \A c \in 1 .. taken : c \in Nat /\ c < new
  BY <1>1
<1>6. 1 .. taken \subseteq 1 .. taken' /\ new \in 1 .. taken'
  BY <1>1
<1> HIDE DEF new
<1>7. CASE speech' = Append(speech, new) /\ lost' = lost
  <2>1. ToSet(speech') = ToSet(speech) \cup {new}
    BY <1>1, <1>2, <1>7, AppendedSet
  <2>2. /\ DOMAIN speech = 1 .. Len(speech) /\ Len(speech) \in Nat
        /\ DOMAIN speech' = 1 .. Len(speech) + 1 /\ speech'[Len(speech) + 1] = new
        /\ \A k \in DOMAIN speech : speech'[k] = speech[k]
        /\ speech' # <<>>
    BY <1>1, <1>2, <1>7
  <2>3. \A i, j \in DOMAIN speech' : i < j => speech'[i] < speech'[j]
    <3> SUFFICES ASSUME NEW i \in DOMAIN speech', NEW j \in DOMAIN speech', i < j
                 PROVE  speech'[i] < speech'[j]
      OBVIOUS
    <3>1. i \in DOMAIN speech /\ speech'[i] = speech[i]
      BY <2>2
    <3>2. CASE j \in DOMAIN speech
      BY <2>2, <3>1, <3>2 DEF Contiguous
    <3>3. CASE j = Len(speech) + 1
      <4>1. speech[i] \in 1 .. taken
        BY <3>1 DEF ToSet, Contiguous
      <4> QED BY <1>5, <2>2, <3>1, <3>3, <4>1
    <3> QED BY <2>2, <3>2, <3>3
  <2>4. ASSUME NEW c \in 1 .. taken', c >= speech'[1]
        PROVE  c \in ToSet(speech') \cup lost'
    <3>1. CASE c = new
      BY <2>1, <3>1
    <3>2. CASE c \in 1 .. taken /\ speech # <<>>
      <4>1. speech'[1] = speech[1]
        BY <1>2, <2>2, <3>2
      <4> QED BY <1>7, <2>1, <2>4, <3>2, <4>1 DEF Contiguous
    <3>3. CASE c \in 1 .. taken /\ speech = <<>>
      <4>1. speech'[1] = new
        BY <2>2, <3>3
      <4> QED BY <1>1, <1>5, <2>4, <3>3, <4>1
    <3> QED BY <1>4, <3>1, <3>2, <3>3
  <2>5. ToSet(speech') \subseteq 1 .. taken'
    BY <1>6, <2>1 DEF Contiguous
  <2> QED BY <2>2, <2>3, <2>4, <2>5 DEF Contiguous
<1>8. CASE /\ speech' = speech /\ lost' = lost \cup {new}
           /\ ~Fits(Chunk, SpeechSize, SpeechCapacity)
  <2>1. speech # <<>>
    <3> SUFFICES ASSUME speech = <<>> PROVE FALSE
      OBVIOUS
    <3>1. SpeechSize = 0
      BY CppAssumption DEF RingInv, SizeIsHonest
    <3>2. Chunk <= SpeechCapacity
      <4>1. (Lookback + 1) * Chunk = Lookback * Chunk + Chunk /\ Lookback * Chunk \in Nat
        BY CppAssumption
      <4> QED BY <4>1, CppAssumption
    <3> QED BY <1>8, <3>1, <3>2, CppAssumption DEF Fits
  <2>2. ToSet(speech') \subseteq 1 .. taken'
    BY <1>6, <1>8 DEF Contiguous
  <2>3. \A c \in 1 .. taken' : c >= speech'[1] => c \in ToSet(speech') \cup lost'
    BY <1>4, <1>8, <2>1 DEF Contiguous
  <2> QED BY <1>8, <2>1, <2>2, <2>3 DEF Contiguous
<1> QED BY <1>1, <1>7, <1>8 DEF PushSpeech, ring

\* The cut drops the oldest of the speech.
LEMMA CutKeepsContiguous ==
  ASSUME TypeOK, Contiguous, Len(speech) > Lookback, UNCHANGED <<taken, lost>>,
         speech' = SubSeq(speech, Len(speech) - Lookback + 1, Len(speech))
  PROVE  Contiguous'
<1> DEFINE d == Len(speech) - Lookback
<1>1. /\ speech \in Seq(Taken) /\ Len(speech) \in Nat /\ Lookback \in Nat \ {0}
      /\ d \in Nat /\ Len(speech) = d + Lookback /\ DOMAIN speech = 1 .. Len(speech)
  BY CppAssumption DEF TypeOK
<1>2. speech' = SubSeq(speech, d + 1, Len(speech))
  OBVIOUS
<1> HIDE DEF d
<1>0. \A i \in DOMAIN speech : speech[i] \in Nat
  <2>1. \A i \in DOMAIN speech : speech[i] \in Taken
    BY <1>1
  <2> QED BY <2>1 DEF Taken
<1>3. /\ DOMAIN speech' = 1 .. Lookback
      /\ \A i \in 1 .. Lookback : speech'[i] = speech[i + d]
  BY <1>1, <1>2
<1>4. \A i \in DOMAIN speech' : i + d \in DOMAIN speech /\ speech'[i] = speech[i + d]
  BY <1>1, <1>3
<1>5. ToSet(speech') \subseteq ToSet(speech)
  BY <1>4 DEF ToSet
<1>6. \A i, j \in DOMAIN speech' : i < j => speech'[i] < speech'[j]
  <2> SUFFICES ASSUME NEW i \in DOMAIN speech', NEW j \in DOMAIN speech', i < j
               PROVE  speech'[i] < speech'[j]
    OBVIOUS
  <2>1. i + d < j + d
    BY <1>1, <1>3
  <2> QED BY <1>4, <2>1 DEF Contiguous
<1>7. ASSUME NEW c \in 1 .. taken, c >= speech'[1]
      PROVE  c \in ToSet(speech') \cup lost
  <2>1. 1 \in DOMAIN speech' /\ speech'[1] = speech[1 + d] /\ 1 + d \in DOMAIN speech
    <3>1. 1 \in 1 .. Lookback
      BY <1>1
    <3> QED BY <1>3, <1>4, <3>1
  <2>2. speech[1] <= speech[1 + d] /\ 1 \in DOMAIN speech
    <3>1. 1 \in DOMAIN speech
      BY <1>1
    <3>2. CASE d = 0
      BY <1>0, <2>1, <3>1, <3>2
    <3>3. CASE d # 0
      <4>1. 1 < 1 + d
        BY <1>1, <3>3
      <4> QED BY <1>0, <2>1, <3>1, <4>1 DEF Contiguous
    <3> QED BY <3>2, <3>3, <3>1
  <2>3. c \in Nat /\ speech[1] \in Nat /\ speech[1 + d] \in Nat
    BY <1>0, <2>1, <2>2
  <2>4. c \in ToSet(speech) \cup lost
    <3>1. c >= speech[1] /\ speech # <<>>
      BY <1>1, <1>7, <2>1, <2>2, <2>3
    <3> QED BY <3>1 DEF Contiguous
  <2>5. ASSUME NEW i \in DOMAIN speech, c = speech[i]
        PROVE  c \in ToSet(speech')
    <3>0. i \in Nat /\ 1 + d \in Nat
      BY <1>1
    <3>1. i >= 1 + d
      <4>1. i < 1 + d => speech[i] < speech[1 + d]
        BY <2>1, <2>5 DEF Contiguous
      <4>2. speech[i] >= speech[1 + d]
        BY <1>7, <2>1, <2>5
      <4> QED BY <2>3, <2>5, <3>0, <4>1, <4>2
    <3>2. i - d \in DOMAIN speech' /\ speech'[i - d] = speech[i]
      <4>1. i <= d + Lookback /\ d \in Nat /\ Lookback \in Nat
        BY <1>1
      <4>2. i - d \in 1 .. Lookback /\ (i - d) + d = i
        BY <3>0, <3>1, <4>1
      <4> QED BY <1>3, <4>2
    <3> QED BY <2>5, <3>2 DEF ToSet
  <2> QED BY <2>4, <2>5 DEF ToSet
<1>8. ToSet(speech') \subseteq 1 .. taken'
  BY <1>5 DEF Contiguous
<1>9. \A c \in 1 .. taken' : c >= speech'[1] => c \in ToSet(speech') \cup lost'
  BY <1>7
<1> QED BY <1>6, <1>8, <1>9 DEF Contiguous

LEMMA NextContiguous ==
  ASSUME RingInv, TypeOK, Contiguous, Filled, [Next]_vars
  PROVE  Contiguous' /\ Filled'
<1>2. ASSUME UNCHANGED <<taken, speech>>, lost \subseteq lost'
      PROVE  Contiguous'
  BY <1>2 DEF Contiguous
<1>3. CASE Elsewhere
  BY <1>2, <1>3, ElsewhereNothing DEF segment, ring, history, Filled, InHand
<1>5. CASE LoopOn \/ LoopOff \/ TranscribeSleeps \/ Partial
  <2>1. /\ UNCHANGED <<segment, history, lost>>
        /\ tpc \in {"loop", "poll", "partial"} /\ tpc' \in {"loop", "poll", "flush"}
    BY <1>5 DEF LoopOn, LoopOff, TranscribeSleeps, Partial, Transcribe
  <2> QED BY <1>2, <2>1 DEF segment, ring, history, Filled, InHand
<1>6. CASE Take
  BY <1>6, TakeKeepsContiguous DEF Filled
<1>7. CASE Trim
  <2>1. UNCHANGED <<taken, lost>> /\ tpc = "trim"
    BY <1>7 DEF Trim, Transcribe, history
  <2>2. speech # <<>>
    BY <2>1 DEF Filled, InHand
  <2>3. CASE speech' = speech
    BY <1>2, <2>1, <2>2, <2>3 DEF Filled
  <2>4. CASE /\ Len(speech) > Lookback
             /\ speech' = SubSeq(speech, Len(speech) - Lookback + 1, Len(speech))
    BY <2>1, <2>4, CutKeepsContiguous, CutKeepsLast DEF Filled
  <2> QED BY <1>7, <2>3, <2>4, TrimCuts
<1>8. CASE Detect
  <2>1. UNCHANGED <<taken, lost, speech>> /\ tpc = "detect" /\ tpc' # "trim"
    BY <1>8 DEF Detect, Transcribe, ring
  <2> QED BY <1>2, <2>1 DEF Filled, InHand
<1>9. CASE EndSegment \/ FlushRemaining
  <2>1. UNCHANGED <<taken, lost>>
    BY <1>9 DEF EndSegment, FlushRemaining, Transcribe, history
  <2>2. Filled'
    BY <1>9 DEF EndSegment, FlushRemaining, Transcribe, Filled, InHand
  <2>3. CASE speech' = <<>>
    <3>1. DOMAIN speech' = {} /\ ToSet(speech') = {}
      BY <2>3 DEF ToSet
    <3> QED BY <2>1, <2>2, <2>3, <3>1 DEF Contiguous
  <2>4. CASE UNCHANGED ring
    BY <1>2, <2>1, <2>2, <2>4 DEF ring
  <2>5. PopSpeech(SpeechSize) \/ UNCHANGED ring
    BY <1>9 DEF EndSegment, PopAll, FlushRemaining
  <2> QED BY <2>3, <2>4, <2>5, AllIsPopped
<1>10. CASE UNCHANGED vars
  BY <1>2, <1>10 DEF vars, segment, ring, history, Filled, InHand
<1> QED BY <1>3, <1>5, <1>6, <1>7, <1>8, <1>9, <1>10
        DEF Next, TranscribeNext, Elsewhere

\* Of what lies between the ends of the speech, only refused chunks are missing.
LEMMA SpeechIsWhole ==
  ASSUME TypeOK, Contiguous, speech # <<>>
  PROVE  (speech[1] .. speech[Len(speech)]) \ ToSet(speech) \subseteq lost
<1>1. /\ speech \in Seq(Taken) /\ 1 \in DOMAIN speech /\ Len(speech) \in DOMAIN speech
      /\ taken \in Nat
  BY DEF TypeOK
<1>2. speech[1] \in 1 .. taken /\ speech[Len(speech)] \in 1 .. taken
  BY <1>1 DEF Contiguous, ToSet
<1> SUFFICES ASSUME NEW c \in speech[1] .. speech[Len(speech)]
             PROVE  c \in ToSet(speech) \cup lost
  OBVIOUS
<1>3. c \in 1 .. taken /\ c >= speech[1]
  BY <1>1, <1>2
<1> QED BY <1>3 DEF Contiguous

LEMMA NextMissInv ==
  ASSUME RingInv, CountInv, TypeOK, MissInv, [Next]_vars
  PROVE  MissInv'
<1>1. Contiguous' /\ Filled'
  BY NextContiguous DEF MissInv
<1> SUFFICES MissingWasRefused'
  BY <1>1 DEF MissInv
<1>2. ASSUME captions' = captions, lost \subseteq lost'
      PROVE  MissingWasRefused'
  BY <1>2 DEF MissInv, MissingWasRefused, Runs
<1>3. CASE EndSegment \/ FlushRemaining
  <2>1. lost' = lost
    BY <1>3 DEF EndSegment, FlushRemaining
  <2>2. CASE captions' = Append(captions, speech) /\ speech # <<>>
    <3>1. captions \in Seq(Seq(Taken)) /\ speech \in Seq(Taken)
      BY DEF TypeOK
    <3>2. /\ DOMAIN captions = 1 .. Len(captions) /\ Len(captions) \in Nat
          /\ DOMAIN captions' = 1 .. Len(captions) + 1
          /\ \A k \in DOMAIN captions : captions'[k] = captions[k]
          /\ captions'[Len(captions) + 1] = speech
      BY <2>2, <3>1
    <3>3. Runs' = Runs \cup {speech}
      BY <3>2 DEF Runs
    <3>4. (speech[1] .. speech[Len(speech)]) \ ToSet(speech) \subseteq lost
      BY <2>2, SpeechIsWhole DEF MissInv
    <3> QED BY <2>1, <3>3, <3>4 DEF MissInv, MissingWasRefused
  <2>3. CASE EndSegment
    <3>1. speech # <<>>
      BY <2>3 DEF EndSegment, Transcribe, CountInv, MissInv, Filled
    <3> QED BY <1>2, <2>1, <2>2, <2>3, <3>1 DEF EndSegment, Show
  <2>4. CASE FlushRemaining
    <3>1. SpeechSize > 0 => speech # <<>>
      <4>1. speech = <<>> => SpeechSize = 0
        BY CppAssumption DEF RingInv, SizeIsHonest
      <4> QED BY <4>1
    <3> QED BY <1>2, <2>1, <2>2, <2>4, <3>1 DEF FlushRemaining, Show, printed
  <2> QED BY <1>3, <2>3, <2>4
<1>4. CASE Take
  BY <1>2, <1>4 DEF Take, PushSpeech, printed
<1>5. CASE Elsewhere
  BY <1>2, <1>5, ElsewhereNothing DEF printed
<1>7. CASE LoopOn \/ LoopOff \/ TranscribeSleeps \/ Trim \/ Partial \/ Detect
  BY <1>2, <1>7 DEF LoopOn, LoopOff, TranscribeSleeps, Trim, Partial, Detect, printed
<1>8. CASE UNCHANGED vars
  BY <1>2, <1>8 DEF vars, printed
<1> QED BY <1>3, <1>4, <1>5, <1>7, <1>8 DEF Next, TranscribeNext, Elsewhere

\* Whatever the threads and the lookback do, a transcription lacks nothing between
\* its ends but what the full speech buffer refused.
THEOREM OnlyRefusedMissing == Spec => []MissingWasRefused
<1>1. MissInv => MissingWasRefused
  BY DEF MissInv
<1> QED BY <1>1, InitMissInv, NextMissInv, CppTypes, RingInvariant, CountInvariant,
           PTL DEF Spec
-----------------------------------------------------------------------------
(* A segment starts with speech.                                           *)

HasLoud(run) == \E i \in 1 .. Lookback : i \in DOMAIN run /\ run[i] \in loud

\* Nothing is refused while nothing is recorded, and no more than the lookback
\* is kept.
Waiting ==
  ~recording =>
    /\ Len(speech) <= IF tpc = "trim" THEN Lookback + 1 ELSE Lookback
    /\ InHand => speech # <<>> /\ speech[Len(speech)] = taken

Started ==
  tpc # "done" =>
    /\ recording => HasLoud(speech)
    /\ \A run \in Runs : HasLoud(run)

StartInv == Waiting /\ Started

LEMMA InitStartInv == Init => StartInv
<1> SUFFICES ASSUME Init PROVE StartInv
  OBVIOUS
<1>1. /\ Len(speech) = 0 /\ recording = FALSE /\ tpc = "loop" /\ DOMAIN captions = {}
      /\ Lookback \in Nat
  BY CppAssumption DEF Init
<1> QED BY <1>1 DEF StartInv, Waiting, Started, InHand, Runs

\* What a chunk that comes while nothing is recorded does.
LEMMA TakeWaiting ==
  ASSUME RingInv, TypeOK, Waiting, Take, ~recording
  PROVE  Waiting'
<1>1. /\ speech \in Seq(Taken) /\ Len(speech) \in Nat /\ SpeechSize = Len(speech) * Chunk
      /\ Lookback \in Nat \ {0} /\ Chunk \in Nat \ {0}
  BY CppAssumption DEF RingInv, SizeIsHonest, TypeOK
<1>2. tpc = "poll" /\ tpc' = "trim" /\ recording' = recording
  BY DEF Take, Transcribe
<1>3. taken' = taken + 1 /\ PushSpeech(taken + 1) /\ taken + 1 \in Taken
  BY TakesNext
<1>4. Len(speech) \in 0 .. Lookback
  BY <1>1, <1>2 DEF Waiting
<1>5. Fits(Chunk, SpeechSize, SpeechCapacity)
  <2>1. Len(speech) * Chunk \in Nat /\ Len(speech) * Chunk <= Lookback * Chunk
    BY <1>1, <1>4, FewerChunksFewerSamples
  <2>2. (Lookback + 1) * Chunk = Lookback * Chunk + Chunk /\ Lookback * Chunk \in Nat
    BY CppAssumption
  <2> QED BY <1>1, <2>1, <2>2, CppAssumption DEF Fits
<1>6. speech' = Append(speech, taken + 1)
  BY <1>3, <1>5 DEF PushSpeech
<1>7. /\ Len(speech') = Len(speech) + 1 /\ speech' # <<>>
      /\ speech'[Len(speech) + 1] = taken'
  BY <1>1, <1>3, <1>6
<1> QED BY <1>1, <1>2, <1>4, <1>7 DEF Waiting

\* The cut leaves no more than the lookback.
LEMMA TrimWaiting ==
  ASSUME RingInv, TypeOK, Waiting, Trim, ~recording
  PROVE  Waiting'
<1>1. /\ speech \in Seq(Taken) /\ Len(speech) \in Nat /\ SpeechSize = Len(speech) * Chunk
      /\ Lookback \in Nat \ {0} /\ Chunk \in Nat \ {0}
  BY CppAssumption DEF RingInv, SizeIsHonest, TypeOK
<1>2. tpc = "trim" /\ tpc' = "detect" /\ UNCHANGED <<recording, taken>>
  BY DEF Trim, Transcribe, history
<1>3. InHand /\ speech # <<>> /\ speech[Len(speech)] = taken
  BY <1>2 DEF Waiting, InHand
<1>4. CASE Len(speech) > Lookback
  <2>1. Trims
    <3>1. Lookback + 1 \in 0 .. Len(speech)
      BY <1>1, <1>4
    <3>2. (Lookback + 1) * Chunk <= Len(speech) * Chunk
      BY <1>1, <3>1, FewerChunksFewerSamples
    <3>3. /\ (Lookback + 1) * Chunk = Lookback * Chunk + Chunk
          /\ Lookback * Chunk \in Nat /\ Len(speech) * Chunk \in Nat
      BY <1>1
    <3> QED BY <1>1, <3>2, <3>3 DEF Trims
  <2>2. SpeechSize - Lookback * Chunk = (Len(speech) - Lookback) * Chunk
    BY <1>1, ChunksWithoutSome
  <2>3. (SpeechSize - Lookback * Chunk) \div Chunk = Len(speech) - Lookback
    BY <1>1, <1>4, <2>2, DivOfMultiple
  <2>4. speech' = SubSeq(speech, Len(speech) - Lookback + 1, Len(speech))
    BY <2>1, <2>3 DEF Trim, PopSpeech
  <2>5. Len(speech') = Lookback
    BY <1>1, <1>4, <2>4
  <2>6. speech' # <<>> /\ speech'[Len(speech')] = speech[Len(speech)]
    BY <1>4, <2>4, CutKeepsLast
  <2> QED BY <1>1, <1>2, <1>3, <2>5, <2>6 DEF Waiting
<1>5. CASE ~(Len(speech) > Lookback)
  <2>1. speech' = speech
    BY <1>5, TrimCuts
  <2> QED BY <1>1, <1>2, <1>3, <1>5, <2>1 DEF Waiting
<1> QED BY <1>4, <1>5

\* More speech, or another loud chunk, keeps the start of a run.
LEMMA LoudStart ==
  ASSUME NEW s \in Seq(Taken), NEW c \in Taken, HasLoud(s)
  PROVE  HasLoud(Append(s, c))
<1>1. PICK i \in 1 .. Lookback : i \in DOMAIN s /\ s[i] \in loud
  BY DEF HasLoud
<1>2. i \in DOMAIN Append(s, c) /\ Append(s, c)[i] = s[i]
  BY <1>1
<1> QED BY <1>1, <1>2 DEF HasLoud

LEMMA NextStartInv ==
  ASSUME RingInv, CountInv, TypeOK, StartInv, [Next]_vars
  PROVE  StartInv'
<1> USE DEF StartInv
<1>1. ASSUME UNCHANGED <<speech, recording, captions, taken, loud>>,
             tpc' \notin {"trim", "done"}, tpc \notin {"trim", "done"}, InHand' => InHand
      PROVE  StartInv'
  BY <1>1 DEF Waiting, Started, HasLoud, Runs
<1>2. ASSUME UNCHANGED <<speech, recording, captions, taken, loud, tpc>>
      PROVE  StartInv'
  BY <1>2 DEF Waiting, Started, HasLoud, Runs, InHand
<1>3. CASE Elsewhere
  BY <1>2, <1>3, ElsewhereNothing DEF segment, ring, history, printed
<1>5. CASE LoopOn \/ LoopOff \/ TranscribeSleeps \/ Partial
  <2>1. /\ UNCHANGED <<speech, recording, captions, taken, loud>>
        /\ tpc \in {"loop", "poll", "partial"} /\ tpc' \in {"loop", "poll", "flush"}
    BY <1>5 DEF LoopOn, LoopOff, TranscribeSleeps, Partial, Transcribe, segment, ring,
       history, printed
  <2> QED BY <1>1, <2>1 DEF InHand
<1>6. CASE Take
  <2>1. /\ tpc = "poll" /\ tpc' = "trim"
        /\ UNCHANGED <<recording, captions, loud>>
    BY <1>6 DEF Take, Transcribe, printed
  <2>2. PushSpeech(taken + 1) /\ taken + 1 \in Taken /\ speech \in Seq(Taken)
    BY <1>6, TakesNext DEF TypeOK
  <2>3. speech' = Append(speech, taken + 1) \/ speech' = speech
    BY <2>2 DEF PushSpeech, ring
  <2>4. HasLoud(speech) => HasLoud(speech')
    BY <2>2, <2>3, LoudStart
  <2>5. Started'
    BY <2>1, <2>4 DEF Started, HasLoud, Runs
  <2>6. Waiting'
    BY <1>6, <2>1, TakeWaiting DEF Waiting
  <2> QED BY <2>5, <2>6
<1>7. CASE Trim
  <2>1. /\ UNCHANGED <<recording, captions, loud>>
        /\ tpc = "trim" /\ tpc' = "detect"
    BY <1>7 DEF Trim, Transcribe, printed, history
  <2>2. recording => speech' = speech
    BY <1>7, TrimCuts
  <2>3. Started'
    BY <2>1, <2>2 DEF Started, HasLoud, Runs
  <2>4. Waiting'
    BY <1>7, <2>1, TrimWaiting DEF Waiting
  <2> QED BY <2>3, <2>4
<1>8. CASE Detect
  <2>1. PICK isLoud \in BOOLEAN :
          /\ loud' = IF isLoud THEN loud \cup {taken} ELSE loud
          /\ recording' = (recording \/ isLoud)
    BY <1>8 DEF Detect
  <2>2. /\ UNCHANGED <<speech, captions, taken>>
        /\ tpc = "detect" /\ tpc' \in {"loop", "end", "partial"}
    BY <1>8 DEF Detect, Transcribe, ring, printed
  <2>3. loud \subseteq loud'
    BY <2>1
  <2>4. \A run \in Runs' : HasLoud(run)'
    BY <2>2, <2>3 DEF Started, HasLoud, Runs
  <2>5. recording' => HasLoud(speech)'
    <3>1. CASE recording
      BY <2>2, <2>3, <3>1 DEF Started, HasLoud
    <3>2. CASE ~recording /\ isLoud
      <4>1. /\ Len(speech) <= Lookback /\ speech # <<>>
            /\ speech[Len(speech)] = taken
        BY <2>2, <3>2 DEF Waiting, InHand
      <4>2. speech \in Seq(Taken) /\ Lookback \in Nat
        BY CppAssumption DEF TypeOK
      <4>3. Len(speech) \in 1 .. Lookback /\ Len(speech) \in DOMAIN speech
        BY <4>1, <4>2
      <4> QED BY <2>1, <2>2, <3>2, <4>1, <4>3 DEF HasLoud
    <3> QED BY <2>1, <3>1, <3>2
  <2>6. Waiting'
    BY <2>1, <2>2 DEF Waiting, InHand
  <2> QED BY <2>4, <2>5, <2>6 DEF Started
<1>9. CASE EndSegment
  <2>1. /\ recording /\ tpc = "end" /\ tpc' = "loop" /\ recording' = FALSE
        /\ loud' = loud
    BY <1>9 DEF EndSegment, Transcribe, CountInv, history
  <2>2. speech' = <<>>
    BY <1>9, AllIsPopped DEF EndSegment, PopAll
  <2>3. Waiting'
    BY <2>1, <2>2, CppAssumption DEF Waiting, InHand
  <2>4. \A run \in Runs' : run \in Runs \/ run = speech
    <3>1. captions' = Append(captions, speech) \/ captions' = captions
      BY <1>9 DEF EndSegment, Show
    <3>2. captions \in Seq(Seq(Taken)) /\ speech \in Seq(Taken)
      BY DEF TypeOK
    <3>3. CASE captions' = Append(captions, speech)
      <4>1. /\ DOMAIN captions = 1 .. Len(captions) /\ Len(captions) \in Nat
            /\ DOMAIN captions' = 1 .. Len(captions) + 1
            /\ \A k \in DOMAIN captions : captions'[k] = captions[k]
            /\ captions'[Len(captions) + 1] = speech
        BY <3>2, <3>3
      <4> QED BY <4>1 DEF Runs
    <3>4. CASE captions' = captions
      BY <3>4 DEF Runs
    <3> QED BY <3>1, <3>3, <3>4
  <2>5. HasLoud(speech) /\ \A run \in Runs : HasLoud(run)
    BY <2>1 DEF Started
  <2>6. \A run \in Runs' : HasLoud(run)'
    BY <2>1, <2>4, <2>5 DEF HasLoud
  <2> QED BY <2>1, <2>3, <2>6 DEF Started
<1>10. CASE FlushRemaining
  <2>1. tpc = "flush" /\ tpc' = "done" /\ recording' = recording
    BY <1>10 DEF FlushRemaining, Transcribe
  <2>2. speech' = speech \/ speech' = <<>>
    BY <1>10, AllIsPopped DEF FlushRemaining, ring
  <2>3. Waiting'
    BY <2>1, <2>2, CppAssumption DEF Waiting, InHand
  <2> QED BY <2>1, <2>3 DEF Started
<1>11. CASE UNCHANGED vars
  BY <1>2, <1>11 DEF vars, segment, ring, history, printed
<1> QED BY <1>3, <1>5, <1>6, <1>7, <1>8, <1>9, <1>10, <1>11
        DEF Next, TranscribeNext, Elsewhere

\* A transcription printed at the end of a segment has a loud chunk among its first
\* Lookback chunks, whatever the lookback: nothing is refused before it.
THEOREM SpeechAtStart == Spec => []StartsWithSpeech
<1>1. StartInv => StartsWithSpeech
  BY DEF StartInv, Started, HasLoud, StartsWithSpeech
<1> QED BY <1>1, InitStartInv, NextStartInv, CppTypes, RingInvariant, CountInvariant,
           PTL DEF Spec
-----------------------------------------------------------------------------
(* The transcriptions are those of a captioner.                            *)

\* What was transcribed last was taken before anything in the speech.
CaptionedInv ==
  /\ captions # <<>> =>
       /\ Promise!Captioned \in 1 .. taken
       /\ \A i \in DOMAIN speech : Promise!Captioned < speech[i]
  /\ \A k \in DOMAIN captions : captions[k] # <<>>

LEMMA InitCaptionedInv == Init => CaptionedInv
<1> SUFFICES ASSUME Init PROVE CaptionedInv
  OBVIOUS
<1>1. captions = <<>> /\ DOMAIN captions = {}
  BY DEF Init
<1> QED BY <1>1 DEF CaptionedInv

\* A transcription that is printed is a run after those before.
LEMMA CaptionIsRun ==
  ASSUME TypeOK, Contiguous, CaptionedInv, speech # <<>>, speech' = <<>>,
         captions' = Append(captions, speech), taken' = taken
  PROVE  Promise!Caption(MaxTaken) /\ CaptionedInv'
<1>1. /\ speech \in Seq(Taken) /\ Len(speech) \in Nat \ {0}
      /\ DOMAIN speech = 1 .. Len(speech)
      /\ captions \in Seq(Seq(Taken)) /\ taken \in Nat
  BY DEF TypeOK
<1>2. /\ captions' # <<>> /\ Len(captions') = Len(captions) + 1 /\ Len(captions) \in Nat
      /\ captions'[Len(captions) + 1] = speech
      /\ DOMAIN captions' = 1 .. Len(captions) + 1 /\ DOMAIN captions = 1 .. Len(captions)
      /\ \A k \in DOMAIN captions : captions'[k] = captions[k]
  BY <1>1
<1>3. 1 \in DOMAIN speech /\ Len(speech) \in DOMAIN speech
  BY <1>1
<1>4. \A i \in DOMAIN speech : speech[i] \in Taken /\ speech[i] \in 1 .. taken
  <2>1. \A i \in DOMAIN speech : speech[i] \in Taken
    BY <1>1
  <2>2. \A i \in DOMAIN speech : speech[i] \in ToSet(speech)
    BY DEF ToSet
  <2> QED BY <2>1, <2>2 DEF Contiguous
<1>5. speech[1] \in Nat \ {0} /\ speech[Len(speech)] \in Nat
  BY <1>3, <1>4 DEF Taken
<1>6. Promise!Captioned < speech[1]
  BY <1>3, <1>5 DEF CaptionedInv, Promise!Captioned
<1>7. speech[Len(speech)] <= taken
  BY <1>1, <1>3, <1>4
<1>8. \A i \in 1 .. Len(speech) - 1 : speech[i] < speech[i + 1]
  <2> TAKE i \in 1 .. Len(speech) - 1
  <2>1. i \in DOMAIN speech /\ i + 1 \in DOMAIN speech /\ i < i + 1
    BY <1>1
  <2> QED BY <2>1 DEF Contiguous
<1>9. speech[Len(speech)] - speech[1] + 1 - Len(speech) <= MaxTaken
  <2>1. speech[Len(speech)] <= MaxTaken
    BY <1>3, <1>4 DEF Taken
  <2> QED BY <1>1, <1>5, <2>1, CppAssumption
<1>10. Promise!Run(speech, MaxTaken)
  BY <1>6, <1>7, <1>8, <1>9 DEF Promise!Run
<1>11. Promise!Caption(MaxTaken)
  BY <1>2, <1>10 DEF Promise!Caption
<1>12. Promise!Captioned' = speech[Len(speech)]
  BY <1>2 DEF Promise!Captioned
<1>13. DOMAIN speech' = {}
  OBVIOUS
<1> QED BY <1>2, <1>3, <1>4, <1>11, <1>12, <1>13 DEF CaptionedInv

\* Every step is one of the promise, or none.
LEMMA NextCaptioned ==
  ASSUME RingInv, CountInv, TypeOK, MissInv, CaptionedInv, [Next]_vars
  PROVE  [Promise!Next]_(Promise!vars) /\ CaptionedInv'
<1>1. ASSUME UNCHANGED <<captions, taken, speech>>
      PROVE  CaptionedInv'
  BY <1>1 DEF CaptionedInv, Promise!Captioned
<1>2. ASSUME UNCHANGED <<taken, captions>>,
             tpc = tpc' \/ {tpc, tpc'} \cap {"flush", "done"} = {}
      PROVE  [Promise!Next]_(Promise!vars)
  BY <1>2 DEF Promise!vars
<1>3. CASE Elsewhere
  <2>1. UNCHANGED <<captions, tpc, taken, speech>>
    BY <1>3, ElsewhereNothing DEF printed, history, segment, ring
  <2> QED BY <1>1, <1>2, <2>1
<1>5. CASE LoopOff
  <2>1. /\ UNCHANGED <<captions, taken, speech>>
        /\ tpc = "loop" /\ tpc' = "flush"
    BY <1>5 DEF LoopOff, Transcribe, printed, history, segment, ring
  <2>2. Promise!Stop
    BY <2>1 DEF Promise!Stop
  <2> QED BY <1>1, <2>1, <2>2 DEF Promise!Next
<1>6. CASE LoopOn \/ TranscribeSleeps \/ Partial \/ Detect
  <2>1. /\ UNCHANGED <<captions, taken, speech>>
        /\ tpc \in {"loop", "poll", "partial", "detect"}
        /\ tpc' \in {"loop", "poll", "partial", "end"}
    BY <1>6 DEF LoopOn, TranscribeSleeps, Partial, Detect, Transcribe, printed, history,
       segment, ring
  <2> QED BY <1>1, <1>2, <2>1
<1>7. CASE Take
  <2>1. UNCHANGED captions /\ tpc = "poll" /\ tpc' = "trim"
    BY <1>7 DEF Take, Transcribe, printed
  <2>2. /\ taken' = taken + 1 /\ PushSpeech(taken + 1) /\ taken \in Nat
        /\ taken + 1 \in Taken /\ speech \in Seq(Taken)
    BY <1>7, TakesNext DEF TypeOK
  <2>3. Promise!Hear
    BY <2>1, <2>2 DEF Promise!Hear
  <2>4. speech' = Append(speech, taken + 1) \/ speech' = speech
    BY <2>2 DEF PushSpeech, ring
  <2>5. \A i \in DOMAIN speech' : \/ speech'[i] = taken + 1
                                  \/ i \in DOMAIN speech /\ speech'[i] = speech[i]
    BY <2>2, <2>4
  <2>6. Promise!Captioned' = Promise!Captioned
    BY <2>1 DEF Promise!Captioned
  <2>7. captions # <<>> =>
          Promise!Captioned < taken + 1 /\ Promise!Captioned \in 1 .. taken'
    BY <2>2 DEF CaptionedInv
  <2>8. CaptionedInv'
    BY <2>1, <2>5, <2>6, <2>7 DEF CaptionedInv
  <2> QED BY <2>3, <2>8 DEF Promise!Next
<1>8. CASE Trim
  <2>1. /\ UNCHANGED <<captions, taken>> /\ tpc = "trim" /\ tpc' = "detect"
    BY <1>8 DEF Trim, Transcribe, printed, history
  <2>2. \A i \in DOMAIN speech' : \E j \in DOMAIN speech : speech'[i] = speech[j]
    <3>1. CASE /\ Len(speech) > Lookback
               /\ speech' = SubSeq(speech, Len(speech) - Lookback + 1, Len(speech))
      <4>1. /\ speech \in Seq(Taken) /\ Len(speech) \in Nat /\ Lookback \in Nat \ {0}
        BY CppAssumption DEF TypeOK
      <4>2. /\ DOMAIN speech' = 1 .. Lookback
            /\ \A i \in 1 .. Lookback : speech'[i] = speech[Len(speech) - Lookback + i]
        BY <3>1, <4>1
      <4>3. \A i \in 1 .. Lookback : Len(speech) - Lookback + i \in DOMAIN speech
        BY <3>1, <4>1
      <4> QED BY <4>2, <4>3
    <3> QED BY <1>8, <3>1, TrimCuts
  <2>3. CaptionedInv'
    BY <2>1, <2>2 DEF CaptionedInv, Promise!Captioned
  <2> QED BY <1>2, <2>1, <2>3
<1>9. CASE EndSegment
  <2>1. /\ taken' = taken /\ tpc = "end" /\ tpc' = "loop" /\ speech' = <<>>
    BY <1>9, AllIsPopped DEF EndSegment, PopAll, Transcribe, history
  <2>2. speech # <<>>
    BY <2>1 DEF CountInv, MissInv, Filled
  <2>3. CASE captions' = Append(captions, speech)
    <3>1. Promise!Caption(MaxTaken) /\ CaptionedInv'
      BY <2>1, <2>2, <2>3, CaptionIsRun DEF MissInv
    <3>2. Promise!CaptionRun
      BY <2>1, <3>1 DEF Promise!CaptionRun
    <3> QED BY <3>1, <3>2 DEF Promise!Next
  <2>4. CASE captions' = captions
    <3>1. DOMAIN speech' = {}
      BY <2>1
    <3>2. CaptionedInv'
      BY <2>1, <2>4, <3>1 DEF CaptionedInv, Promise!Captioned
    <3> QED BY <1>2, <2>1, <2>4, <3>2
  <2> QED BY <1>9, <2>3, <2>4 DEF EndSegment, Show
<1>10. CASE FlushRemaining
  <2>1. taken' = taken /\ tpc = "flush" /\ tpc' = "done"
    BY <1>10 DEF FlushRemaining, Transcribe, history
  <2>2. CASE captions' = Append(captions, speech) /\ SpeechSize > 0 /\ speech' = <<>>
    <3>1. speech # <<>>
      <4>1. speech = <<>> => SpeechSize = 0
        BY CppAssumption DEF RingInv, SizeIsHonest
      <4> QED BY <2>2, <4>1
    <3>2. Promise!Caption(MaxTaken) /\ CaptionedInv'
      BY <2>1, <2>2, <3>1, CaptionIsRun DEF MissInv
    <3>3. Promise!Close
      BY <2>1, <3>2 DEF Promise!Close
    <3> QED BY <3>2, <3>3 DEF Promise!Next
  <2>3. CASE captions' = captions /\ (speech' = <<>> \/ speech' = speech)
    <3>1. CaptionedInv'
      <4>1. speech' = <<>> => DOMAIN speech' = {}
        OBVIOUS
      <4> QED BY <2>1, <2>3, <4>1 DEF CaptionedInv, Promise!Captioned
    <3>2. Promise!Close
      BY <2>1, <2>3 DEF Promise!Close
    <3> QED BY <3>1, <3>2 DEF Promise!Next
  <2>4. CASE SpeechSize > 0
    BY <1>10, <2>2, <2>3, <2>4, AllIsPopped DEF FlushRemaining, Show
  <2>5. CASE ~(SpeechSize > 0)
    BY <1>10, <2>3, <2>5 DEF FlushRemaining, printed, ring
  <2> QED BY <2>4, <2>5
<1>11. CASE UNCHANGED vars
  <2>1. UNCHANGED <<captions, tpc, taken, speech>>
    BY <1>11 DEF vars, printed, history, segment, ring
  <2> QED BY <1>1, <1>2, <2>1
<1> QED BY <1>3, <1>5, <1>6, <1>7, <1>8, <1>9, <1>10, <1>11
        DEF Next, TranscribeNext, Elsewhere

LEMMA InitPromise == Init => Promise!Init
  BY DEF Init, Promise!Init

\* For every capacity, lookback and length of silence, and whatever audio_buffer
\* gives to each pop, the program captions runs of the chunks it popped, each once
\* and in order; after SIGINT it adds at most one.
THEOREM CppImplementsCaptions == Spec => ImplementsCaptions
<1>1. Spec => [](RingInv /\ CountInv /\ TypeOK)
  BY CppTypes, RingInvariant, CountInvariant, PTL
<1>2. Spec => []MissInv
  BY <1>1, InitMissInv, NextMissInv, PTL DEF Spec
<1>3. Spec => []CaptionedInv
  BY <1>1, <1>2, InitCaptionedInv, NextCaptioned, PTL DEF Spec
<1> QED BY <1>1, <1>2, <1>3, InitPromise, NextCaptioned, PTL
        DEF Spec, ImplementsCaptions, Promise!Spec
=============================================================================
