------------------------- MODULE PyCaptionersProofs -------------------------
(***************************************************************************)
(* What holds of the Python captioners: of the Moonshine one for every     *)
(* lookback, cap and length of silence, and however the interrupt falls,   *)
(* of the Vosk one wherever its recognizer ends an utterance.              *)
(***************************************************************************)
EXTENDS PyCaptioners, SequenceFacts, FiniteSetTheorems
-----------------------------------------------------------------------------
(* Recording and the VAD agree.                                            *)

\* Where the handler of the interrupt can be, and where it cannot.
Handling ==
  /\ pc \in InLoop \cup {"close", "drain", "done", "aborted"}
  /\ recording \in BOOLEAN /\ triggered \in BOOLEAN /\ interrupted \in BOOLEAN
  /\ returns \in {"get", "reset", "done"}
  /\ ~interrupted => pc \in InLoop \cup {"aborted"} /\ returns # "done"
  /\ interrupted => \/ pc \in {"close", "drain", "done", "aborted"}
                    \/ pc \in {"transcribe", "clear"} /\ returns = "done"

\* How recording and triggered differ while a chunk is dealt with.
Agreement ==
  /\ pc \in {"get", "concat", "vad", "refresh"} => (recording <=> triggered)
  /\ pc = "begin" => triggered /\ ~recording
  /\ pc = "stop"  => recording /\ ~triggered
  /\ pc = "cap"   => recording /\ triggered
  /\ pc = "reset" => ~recording
  /\ (pc \in {"transcribe", "clear"} /\ ~interrupted) =>
       ~recording /\ (returns = "get" => ~triggered)

VadInv == Handling /\ Agreement

LEMMA InitVadInv == Init => VadInv
  BY DEF Init, VadInv, Handling, Agreement, InLoop

LEMMA NextVadInv == VadInv /\ [Next]_vars => VadInv'
<1> SUFFICES ASSUME VadInv, [Next]_vars PROVE VadInv'
  OBVIOUS
<1> USE DEF VadInv, Handling, Agreement, InLoop
<1>1. CASE InputCallback
  BY <1>1 DEF InputCallback, loop, vad
<1>2. CASE Get \/ Concatenate
  BY <1>2 DEF Get, Concatenate, Go, vad
<1>3. CASE AskVad
  <2>1. PICK level \in Level, answer \in {"start", "end", "nothing"} :
          VadIterator(level, answer) /\ React(answer)
    BY <1>3 DEF AskVad
  <2>2. pc = "vad" /\ UNCHANGED <<recording, returns, interrupted>>
    BY <1>3, <2>1 DEF AskVad, loop, Go, React
  <2>3. ~interrupted /\ (recording <=> triggered)
    BY <2>2
  <2>4. CASE answer = "start"
    <3>1. ~triggered /\ triggered' = TRUE
      BY <2>1, <2>4 DEF VadIterator
    <3>2. pc' = "begin"
      BY <2>1, <2>3, <2>4, <3>1 DEF Go, React
    <3> QED BY <2>2, <2>3, <3>1, <3>2
  <2>5. CASE answer = "end"
    <3>1. triggered /\ triggered' = FALSE
      BY <2>1, <2>5 DEF VadIterator
    <3>2. pc' = "stop"
      BY <2>1, <2>3, <2>5, <3>1 DEF Go, React
    <3> QED BY <2>2, <2>3, <3>1, <3>2
  <2>6. CASE answer = "nothing"
    <3>1. triggered' = triggered
      BY <2>1, <2>6 DEF VadIterator
    <3>2. pc' = IF recording THEN "cap" ELSE "get"
      BY <2>1, <2>6 DEF Go, React
    <3> QED BY <2>2, <2>3, <3>1, <3>2
  <2> QED BY <2>4, <2>5, <2>6
<1>4. CASE Begin \/ SpeechFits \/ SoftReset \/ Refresh
  <2>1. CASE Begin
    BY <2>1 DEF Begin, Go, vad
  <2>2. CASE SpeechFits
    BY <2>2 DEF SpeechFits, Go, loop, vad
  <2>3. CASE SoftReset
    BY <2>3 DEF SoftReset, Go, loop
  <2>4. CASE Refresh
    BY <2>4 DEF Refresh, Go, loop, vad
  <2> QED BY <1>4, <2>1, <2>2, <2>3, <2>4
<1>5. CASE StopSpeech \/ CapSpeech
  <2>1. CASE StopSpeech
    BY <2>1 DEF StopSpeech, EndRecording, Go, vad
  <2>2. CASE CapSpeech
    BY <2>2 DEF CapSpeech, EndRecording, Go, vad
  <2> QED BY <1>5, <2>1, <2>2
<1>6. CASE CacheCaption \/ Clear
  BY <1>6 DEF CacheCaption, Clear, Go, vad
<1>7. CASE CloseStream \/ Drain \/ Flush
  BY <1>7 DEF CloseStream, Drain, Flush, Go, loop, vad
<1>8. CASE Interrupt
  BY <1>8 DEF Interrupt, loop, vad
<1>9. CASE Abort
  BY <1>9 DEF Abort, Go, loop, vad
<1>10. CASE UNCHANGED vars
  BY <1>10 DEF vars, loop, vad
<1> QED BY <1>1, <1>2, <1>3, <1>4, <1>5, <1>6, <1>7, <1>8, <1>9, <1>10 DEF Next, Main

\* A "start" of the VAD is never ignored and an "end" never missed: at every
\* q.get() the loop records exactly while the VAD is triggered.
THEOREM VadInStep == Spec => []RecordingMatchesVad
<1>1. VadInv => RecordingMatchesVad
  BY DEF VadInv, Agreement, RecordingMatchesVad
<1> QED BY <1>1, InitVadInv, NextVadInv, PTL DEF Spec
-----------------------------------------------------------------------------
(* The cap on a segment.                                                   *)

Sequenced ==
  /\ heard \in Nat /\ chunk \in Nat
  /\ q \in Seq(Nat) /\ speech \in Seq(Nat)

\* A chunk more than the cap is only there until the cap has been looked at.
Capped ==
  ~interrupted =>
    /\ Len(speech) <= MaxSpeech + 1
    /\ (pc \in {"vad", "begin"} /\ ~recording) => Len(speech) <= MaxSpeech
    /\ (pc \in {"get", "concat", "refresh"} /\ recording) => Len(speech) <= MaxSpeech

CapInv == VadInv /\ Sequenced /\ Capped

\* The lookback keeps at most Lookback chunks.
LEMMA LookbackLen ==
  ASSUME NEW s \in Seq(Nat)
  PROVE  LastChunks(s) \in Seq(Nat) /\ Len(LastChunks(s)) <= Lookback
<1>1. CASE Len(s) <= Lookback
  BY <1>1 DEF LastChunks
<1>2. CASE Len(s) > Lookback
  <2>1. LastChunks(s) = SubSeq(s, Len(s) - Lookback + 1, Len(s))
    BY <1>2, LiveAssumption DEF LastChunks
  <2> QED BY <1>2, <2>1, LiveAssumption
<1> QED BY <1>1, <1>2, LiveAssumption

\* Zeroing the samples keeps their number (speech *= 0.0).
LEMMA ZeroedLen ==
  ASSUME NEW s \in Seq(Nat)
  PROVE  /\ [i \in DOMAIN s |-> Zero] \in Seq(Nat)
         /\ Len([i \in DOMAIN s |-> Zero]) = Len(s)
  BY DEF Zero

LEMMA InitCapInv == Init => CapInv
  BY InitVadInv, LiveAssumption DEF Init, CapInv, Sequenced, Capped, Zero

LEMMA NextCapInv == CapInv /\ [Next]_vars => CapInv'
<1> SUFFICES ASSUME CapInv, [Next]_vars PROVE CapInv'
  OBVIOUS
<1>0. VadInv'
  BY NextVadInv DEF CapInv
<1> USE LiveAssumption DEF CapInv
<1> SUFFICES Sequenced' /\ Capped'
  BY <1>0
<1> USE DEF Sequenced, Capped
<1>1. CASE InputCallback
  BY <1>1 DEF InputCallback, loop
<1>2. CASE Get
  BY <1>2 DEF Get, Go
<1>3. CASE Concatenate
  <2> DEFINE longer == Append(speech, chunk)
  <2>1. /\ pc = "concat" /\ pc' = "vad"
        /\ UNCHANGED <<heard, q, chunk, recording, interrupted>>
        /\ speech' = IF recording THEN longer ELSE LastChunks(longer)
    BY <1>3 DEF Concatenate, Kept, Go
  <2>2. longer \in Seq(Nat) /\ Len(longer) = Len(speech) + 1
    OBVIOUS
  <2>3. CASE recording
    BY <2>1, <2>2, <2>3
  <2>4. CASE ~recording
    <3>1. speech' \in Seq(Nat) /\ Len(speech') <= Lookback
      BY <2>1, <2>2, <2>4, LookbackLen
    <3> QED BY <2>1, <3>1
  <2> QED BY <2>3, <2>4
<1>4. CASE AskVad
  <2>1. PICK level \in Level, answer \in {"start", "end", "nothing"} :
          VadIterator(level, answer) /\ React(answer)
    BY <1>4 DEF AskVad
  <2>2. pc = "vad" /\ UNCHANGED <<q, chunk, speech, recording, heard, interrupted>>
    BY <1>4, <2>1 DEF AskVad, loop, Go, React
  <2>3. answer = "start" => ~triggered
    BY <2>1 DEF VadIterator
  <2>4. recording <=> triggered
    BY <2>2 DEF VadInv, Agreement
  <2>5. \/ pc' = "begin" /\ ~recording
        \/ pc' = "stop"
        \/ pc' = "cap"
        \/ pc' = "get" /\ ~recording
    BY <2>1, <2>3, <2>4 DEF React, Go
  <2> QED BY <2>2, <2>5
<1>5. CASE Begin
  BY <1>5 DEF Begin, Go, VadInv, Agreement
<1>6. CASE StopSpeech \/ CapSpeech
  BY <1>6 DEF StopSpeech, CapSpeech, EndRecording, Go
<1>7. CASE SpeechFits
  BY <1>7 DEF SpeechFits, Go, loop
<1>8. CASE CacheCaption
  BY <1>8 DEF CacheCaption, Go
<1>9. CASE Clear
  <2>1. /\ pc = "clear" /\ pc' = returns
        /\ UNCHANGED <<heard, q, chunk, recording, interrupted>>
        /\ speech' = [i \in DOMAIN speech |-> Zero]
    BY <1>9 DEF Clear, Go
  <2>2. speech' \in Seq(Nat) /\ Len(speech') = Len(speech)
    BY <2>1, ZeroedLen
  <2>3. ~interrupted => ~recording
    BY <2>1 DEF VadInv, Agreement
  <2>4. returns \in {"get", "reset", "done"}
    BY DEF VadInv, Handling
  <2> QED BY <2>1, <2>2, <2>3, <2>4
<1>10. CASE SoftReset
  BY <1>10 DEF SoftReset, Go, loop, VadInv, Agreement
<1>11. CASE Refresh
  BY <1>11 DEF Refresh, Go, loop
<1>12. CASE CloseStream \/ Drain \/ Flush
  <2>1. interrupted
    BY <1>12 DEF CloseStream, Drain, Flush, VadInv, Handling, InLoop
  <2>2. interrupted' /\ Sequenced'
    <3>1. CASE CloseStream
      BY <2>1, <3>1 DEF CloseStream, Go, loop
    <3>2. CASE Drain
      BY <2>1, <3>2 DEF Drain
    <3>3. CASE Flush
      BY <2>1, <3>3 DEF Flush, Go
    <3> QED BY <1>12, <3>1, <3>2, <3>3
  <2> QED BY <2>2
<1>13. CASE Interrupt
  BY <1>13 DEF Interrupt, loop
<1>14. CASE Abort
  BY <1>14 DEF Abort, Go, loop
<1>15. CASE UNCHANGED vars
  BY <1>15 DEF vars, loop
<1> QED BY <1>1, <1>2, <1>3, <1>4, <1>5, <1>6, <1>7, <1>8, <1>9, <1>10, <1>11,
           <1>12, <1>13, <1>14, <1>15 DEF Next, Main

\* Whatever the VAD answers, a segment is cut before it holds two chunks more
\* than MAX_SPEECH_SECS: the branch that skips the cap cannot be taken while
\* a full segment goes on.
THEOREM CapHolds == Spec => []SegmentBounded
<1>1. CapInv => SegmentBounded
  BY DEF CapInv, Capped, SegmentBounded
<1> QED BY <1>1, InitCapInv, NextCapInv, PTL DEF Spec
-----------------------------------------------------------------------------
(* Types.                                                                  *)

\* The VAD has counted no more chunks than were taken off the queue, and the
\* chunk in hand is one of those the microphone delivered.
Counted ==
  /\ temp_end <= current_sample
  /\ current_sample + Len(q) <= heard
  /\ pc \in {"concat", "vad"} => chunk # Zero /\ current_sample + Len(q) < heard

TypeInv == TypeOK /\ Counted

LEMMA InitTypeInv == Init => TypeInv
<1> SUFFICES ASSUME Init PROVE TypeInv
  OBVIOUS
<1>1. q = <<>> /\ speech = <<>> /\ caption_cache = <<>>
  BY DEF Init
<1>2. /\ q \in Seq(1 .. MaxHeard) /\ speech \in Seq(0 .. MaxHeard)
      /\ caption_cache \in Seq(Seq(0 .. MaxHeard)) /\ Len(q) = 0
  BY <1>1
<1>3. heard = 0 /\ temp_end = 0 /\ current_sample = 0 /\ pc = "get"
  BY DEF Init
<1>4. Counted
  BY <1>2, <1>3 DEF Counted
<1>5. 0 \in 0 .. MaxHeard
  BY LiveAssumption
<1> QED BY <1>2, <1>4, <1>5 DEF Init, TypeInv, TypeOK, InLoop, Zero

LEMMA LookbackType ==
  ASSUME NEW S, NEW s \in Seq(S)
  PROVE  LastChunks(s) \in Seq(S)
<1>1. CASE Len(s) <= Lookback
  BY <1>1 DEF LastChunks
<1>2. CASE Len(s) > Lookback
  <2>1. LastChunks(s) = SubSeq(s, Len(s) - Lookback + 1, Len(s))
    BY <1>2, LiveAssumption DEF LastChunks
  <2> QED BY <1>2, <2>1, LiveAssumption
<1> QED BY <1>1, <1>2, LiveAssumption

LEMMA NextTypeInv == TypeInv /\ [Next]_vars => TypeInv'
<1> SUFFICES ASSUME TypeInv, [Next]_vars PROVE TypeInv'
  OBVIOUS
<1> USE LiveAssumption DEF TypeInv, TypeOK, Counted, Zero
<1>1. CASE InputCallback
  <2>1. heard + 1 \in 1 .. MaxHeard
    BY <1>1 DEF InputCallback
  <2>2. q' \in Seq(1 .. MaxHeard) /\ Len(q') = Len(q) + 1
    BY <1>1, <2>1 DEF InputCallback
  <2>3. heard' = heard + 1 /\ UNCHANGED <<pc, loop, vad, interrupted, voiced>>
    BY <1>1 DEF InputCallback
  <2> QED BY <2>1, <2>2, <2>3 DEF loop, vad
<1>2. CASE Get
  <2>1. /\ Head(q) \in 1 .. MaxHeard /\ q' \in Seq(1 .. MaxHeard)
        /\ Len(q') = Len(q) - 1
    BY <1>2 DEF Get
  <2> QED BY <1>2, <2>1 DEF Get, Go, vad, InLoop
<1>3. CASE Concatenate
  <2>1. Append(speech, chunk) \in Seq(0 .. MaxHeard)
    OBVIOUS
  <2>2. speech' \in Seq(0 .. MaxHeard)
    BY <1>3, <2>1, LookbackType DEF Concatenate, Kept
  <2> QED BY <1>3, <2>2 DEF Concatenate, Go, vad, InLoop
<1>4. CASE AskVad
  <2>1. PICK level \in Level, answer \in {"start", "end", "nothing"} :
          /\ VadIterator(level, answer) /\ React(answer)
          /\ voiced' = IF level = "speech" THEN voiced \cup {chunk} ELSE voiced
    BY <1>4 DEF AskVad
  <2>2. /\ pc = "vad" /\ UNCHANGED <<q, loop, heard, interrupted>>
        /\ pc' \in {"begin", "stop", "cap", "get"}
    BY <1>4, <2>1 DEF AskVad, Go, React
  <2>3. chunk \in 1 .. MaxHeard /\ voiced' \subseteq 1 .. MaxHeard
    BY <2>1, <2>2
  <2>4. current_sample' = current_sample + 1 /\ current_sample' <= heard - Len(q)
    BY <2>1, <2>2 DEF VadIterator
  <2>5. triggered' \in BOOLEAN
    BY <2>1 DEF VadIterator
  <2>6. temp_end' \in {0, temp_end, current_sample + 1}
    BY <2>1 DEF VadIterator
  <2>7. temp_end' \in 0 .. MaxHeard /\ temp_end' <= current_sample'
    BY <2>4, <2>6
  <2> QED BY <2>2, <2>3, <2>4, <2>5, <2>7 DEF loop, InLoop
<1>5. CASE Begin \/ SpeechFits \/ SoftReset \/ Refresh
  <2>1. CASE Begin
    BY <2>1 DEF Begin, Go, vad, InLoop
  <2>2. CASE SpeechFits
    BY <2>2 DEF SpeechFits, Go, loop, vad, InLoop
  <2>3. CASE SoftReset
    <3>1. /\ temp_end' = 0 /\ current_sample' = 0 /\ triggered' = FALSE
          /\ pc' = "refresh" /\ UNCHANGED <<heard, q, interrupted, loop, voiced>>
      BY <2>3 DEF SoftReset, Go
    <3>2. Len(q) \in Nat /\ Len(q) <= heard /\ 0 \in 0 .. MaxHeard
      OBVIOUS
    <3>3. Counted'
      BY <3>1, <3>2
    <3>4. TypeOK'
      BY <3>1, <3>2 DEF loop, InLoop
    <3> QED BY <3>3, <3>4
  <2>4. CASE Refresh
    BY <2>4 DEF Refresh, Go, loop, vad, InLoop
  <2> QED BY <1>5, <2>1, <2>2, <2>3, <2>4
<1>6. CASE StopSpeech \/ CapSpeech
  BY <1>6 DEF StopSpeech, CapSpeech, EndRecording, Go, vad, InLoop
<1>7. CASE CacheCaption
  <2>1. caption_cache' \in Seq(Seq(0 .. MaxHeard))
    BY <1>7 DEF CacheCaption
  <2> QED BY <1>7, <2>1 DEF CacheCaption, Go, vad, InLoop
<1>8. CASE Clear
  <2>1. speech' \in Seq(0 .. MaxHeard)
    <3>1. speech' = [i \in 1 .. Len(speech) |-> 0] /\ Len(speech) \in Nat
      BY <1>8 DEF Clear
    <3>2. 0 \in 0 .. MaxHeard
      OBVIOUS
    <3> QED BY <3>1, <3>2
  <2> QED BY <1>8, <2>1 DEF Clear, Go, vad, InLoop
<1>9. CASE CloseStream
  BY <1>9 DEF CloseStream, Go, loop, vad
<1>10. CASE Drain
  <2>1. /\ Head(q) \in 1 .. MaxHeard /\ q' \in Seq(1 .. MaxHeard)
        /\ Len(q') = Len(q) - 1
    BY <1>10 DEF Drain
  <2>2. speech' \in Seq(0 .. MaxHeard)
    BY <1>10, <2>1 DEF Drain
  <2> QED BY <1>10, <2>1, <2>2 DEF Drain, vad
<1>11. CASE Flush
  BY <1>11 DEF Flush, Go, vad, InLoop
<1>12. CASE Interrupt
  BY <1>12 DEF Interrupt, loop, vad
<1>13. CASE Abort
  BY <1>13 DEF Abort, Go, loop, vad
<1>14. CASE UNCHANGED vars
  BY <1>14 DEF vars, loop, vad
<1> QED BY <1>1, <1>2, <1>3, <1>4, <1>5, <1>6, <1>7, <1>8, <1>9, <1>10, <1>11,
           <1>12, <1>13, <1>14 DEF Next, Main

\* Every variable of the main loop, the stream and the VAD keeps its type: the
\* sample counter of the VAD never passes what was taken off the queue.
THEOREM LoopTypes == Spec => []TypeOK
<1>1. TypeInv => TypeOK
  BY DEF TypeInv
<1> QED BY <1>1, InitTypeInv, NextTypeInv, PTL DEF Spec
-----------------------------------------------------------------------------
(* Nothing the VAD took for speech is dropped.                             *)

\* Where a chunk of speech is kept until it is in a caption.
Held == IF recording \/ pc \in {"begin", "transcribe"} THEN ToSet(speech) ELSE {}

VoiceHeld ==
  (~interrupted /\ pc # "aborted") =>
    /\ voiced \subseteq InCaptions \cup Held
    /\ pc = "vad" => chunk \in ToSet(speech)

VoiceInv == VadInv /\ TypeInv /\ VoiceHeld

\* The lookback keeps the chunk that has just come.
LEMMA LookbackKeepsLast ==
  ASSUME NEW S, NEW s \in Seq(S), NEW c \in S
  PROVE  c \in ToSet(LastChunks(Append(s, c)))
<1> DEFINE l == Append(s, c)
           k == LastChunks(l)
<1>1. l \in Seq(S) /\ Len(l) = Len(s) + 1 /\ l[Len(l)] = c /\ Len(s) \in Nat
  OBVIOUS
<1> HIDE DEF l
<1>2. Len(k) \in DOMAIN k /\ k[Len(k)] = c
  <2>1. CASE Len(l) <= Lookback
    BY <1>1, <2>1 DEF LastChunks
  <2>2. CASE Len(l) > Lookback
    <3>1. k = SubSeq(l, Len(l) - Lookback + 1, Len(l))
      BY <1>1, <2>2, LiveAssumption DEF LastChunks
    <3>2. Len(k) = Lookback /\ k[Lookback] = l[Len(l)]
      BY <1>1, <2>2, <3>1, LiveAssumption
    <3>3. k \in Seq(S) /\ Lookback \in 1 .. Len(k)
      BY <1>1, <3>2, LookbackType, LiveAssumption
    <3> HIDE DEF k
    <3>4. DOMAIN k = 1 .. Len(k)
      BY <3>3
    <3> QED BY <1>1, <3>2, <3>3, <3>4
  <2> QED BY <1>1, <2>1, <2>2, LiveAssumption
<1> QED BY <1>2 DEF ToSet, l

LEMMA AppendKeepsAll ==
  ASSUME NEW s \in Seq(0 .. MaxHeard), NEW c \in 0 .. MaxHeard,
         NEW l, l = Append(s, c)
  PROVE  ToSet(l) = ToSet(s) \cup {c}
<1>1. /\ DOMAIN s = 1 .. Len(s) /\ DOMAIN l = 1 .. Len(s) + 1
      /\ \A i \in DOMAIN s : l[i] = s[i]
      /\ l[Len(s) + 1] = c /\ Len(s) \in Nat
  OBVIOUS
<1> QED BY <1>1 DEF ToSet

\* A caption that is cached adds what it was made from.
LEMMA CachedIsAdded ==
  ASSUME NEW S, caption_cache \in Seq(S), NEW c \in S,
         caption_cache' = Append(caption_cache, c)
  PROVE  InCaptions' = InCaptions \cup ToSet(c)
<1>1. /\ DOMAIN caption_cache = 1 .. Len(caption_cache) /\ Len(caption_cache) \in Nat
      /\ DOMAIN caption_cache' = 1 .. Len(caption_cache) + 1
      /\ \A i \in DOMAIN caption_cache : caption_cache'[i] = caption_cache[i]
      /\ caption_cache'[Len(caption_cache) + 1] = c
  OBVIOUS
<1> DEFINE last == Len(caption_cache) + 1
<1>2. /\ DOMAIN caption_cache' = DOMAIN caption_cache \cup {last}
      /\ caption_cache'[last] = c
  BY <1>1
<1> HIDE DEF last
<1>3. {ToSet(caption_cache'[k]) : k \in DOMAIN caption_cache'}
        = {ToSet(caption_cache[k]) : k \in DOMAIN caption_cache} \cup {ToSet(c)}
  BY <1>1, <1>2
<1> QED BY <1>3 DEF InCaptions

LEMMA InitVoiceInv == Init => VoiceInv
  BY InitVadInv, InitTypeInv DEF Init, VoiceInv, VoiceHeld

LEMMA NextVoiceInv == VoiceInv /\ [Next]_vars => VoiceInv'
<1> SUFFICES ASSUME VoiceInv, [Next]_vars PROVE VoiceHeld'
  BY NextVadInv, NextTypeInv DEF VoiceInv
<1> USE DEF VoiceInv, VoiceHeld
<1>0. /\ speech \in Seq(0 .. MaxHeard) /\ chunk \in 0 .. MaxHeard
      /\ caption_cache \in Seq(Seq(0 .. MaxHeard))
  BY DEF TypeInv, TypeOK
<1>1. CASE InputCallback
  BY <1>1 DEF InputCallback, loop, Held, InCaptions
<1>2. CASE Get
  BY <1>2 DEF Get, Go, Held, InCaptions
<1>3. CASE Concatenate
  <2>1. /\ pc = "concat" /\ pc' = "vad" /\ speech' = Kept(Append(speech, chunk))
        /\ UNCHANGED <<chunk, recording, caption_cache, interrupted, voiced>>
    BY <1>3 DEF Concatenate, Go
  <2>2. InCaptions' = InCaptions
    BY <2>1 DEF InCaptions
  <2>3. CASE recording
    <3>1. speech' = Append(speech, chunk)
      BY <2>1, <2>3 DEF Kept
    <3>2. ToSet(speech') = ToSet(speech) \cup {chunk}
      BY <1>0, <3>1, AppendKeepsAll
    <3> QED BY <2>1, <2>2, <2>3, <3>2 DEF Held
  <2>4. CASE ~recording
    <3>1. chunk \in ToSet(speech')
      BY <1>0, <2>1, <2>4, LookbackKeepsLast DEF Kept
    <3> QED BY <2>1, <2>2, <2>4, <3>1 DEF Held
  <2> QED BY <2>3, <2>4
<1>4. CASE AskVad
  <2>1. PICK level \in Level, answer \in {"start", "end", "nothing"} :
          /\ VadIterator(level, answer) /\ React(answer)
          /\ voiced' = IF level = "speech" THEN voiced \cup {chunk} ELSE voiced
    BY <1>4 DEF AskVad
  <2>2. /\ pc = "vad" /\ UNCHANGED <<q, loop, heard, interrupted>>
        /\ pc' \in {"begin", "stop", "cap", "get"}
    BY <1>4, <2>1 DEF AskVad, Go, React
  <2>3. UNCHANGED <<chunk, speech, recording, InCaptions>>
    BY <2>2 DEF loop, InCaptions
  <2>4. recording <=> triggered
    BY <2>2 DEF VadInv, Agreement
  <2>5. level = "speech" => recording \/ pc' = "begin"
    <3>1. (level = "speech" /\ ~triggered) => answer = "start"
      BY <2>1 DEF VadIterator
    <3> QED BY <2>1, <2>4, <3>1 DEF React, Go
  <2>6. CASE recording \/ pc' = "begin"
    <3>1. Held' = ToSet(speech) /\ Held \subseteq ToSet(speech)
      BY <2>3, <2>6 DEF Held
    <3>2. ~interrupted => chunk \in ToSet(speech)
      BY <2>2
    <3> QED BY <2>1, <2>2, <2>3, <3>1, <3>2
  <2>7. CASE ~recording /\ pc' # "begin"
    <3>1. voiced' = voiced /\ Held = {}
      BY <2>1, <2>2, <2>5, <2>7 DEF Held
    <3> QED BY <2>2, <2>3, <3>1
  <2> QED BY <2>6, <2>7
<1>5. CASE Begin
  BY <1>5 DEF Begin, Go, Held, InCaptions
<1>6. CASE StopSpeech \/ CapSpeech
  <2>1. /\ pc \in {"stop", "cap"} /\ pc' = "transcribe"
        /\ UNCHANGED <<speech, caption_cache, voiced, interrupted>>
    BY <1>6 DEF StopSpeech, CapSpeech, EndRecording, Go
  <2>2. recording
    BY <2>1 DEF VadInv, Agreement
  <2>3. Held' = Held /\ InCaptions' = InCaptions
    BY <2>1, <2>2 DEF Held, InCaptions
  <2> QED BY <2>1, <2>3
<1>7. CASE CacheCaption
  <2>1. /\ pc = "transcribe" /\ pc' = "clear" /\ UNCHANGED <<voiced, interrupted>>
        /\ caption_cache' = Append(caption_cache, speech)
    BY <1>7 DEF CacheCaption, Go
  <2>2. InCaptions' = InCaptions \cup ToSet(speech)
    BY <1>0, <2>1, CachedIsAdded
  <2>3. Held = ToSet(speech)
    BY <2>1 DEF Held
  <2> QED BY <2>1, <2>2, <2>3
<1>8. CASE Clear
  <2>1. /\ pc = "clear" /\ pc' \in {"get", "reset", "done"}
        /\ UNCHANGED <<voiced, interrupted, recording, caption_cache>>
    BY <1>8 DEF Clear, Go, VadInv, Handling
  <2>2. InCaptions' = InCaptions
    BY <2>1 DEF InCaptions
  <2>3. ~interrupted => ~recording
    BY <2>1 DEF VadInv, Agreement
  <2> QED BY <2>1, <2>2, <2>3 DEF Held
<1>9. CASE SpeechFits \/ SoftReset \/ Refresh
  <2>1. /\ pc' \in {"refresh", "get"} /\ pc \in {"cap", "reset", "refresh"}
        /\ UNCHANGED <<loop, voiced, interrupted>>
    BY <1>9 DEF SpeechFits, SoftReset, Refresh, Go
  <2> QED BY <2>1 DEF loop, Held, InCaptions
<1>10. CASE CloseStream \/ Drain \/ Flush
  <2>1. interrupted
    BY <1>10 DEF CloseStream, Drain, Flush, VadInv, Handling, InLoop
  <2>2. interrupted' = interrupted
    BY <1>10 DEF CloseStream, Drain, Flush, Go
  <2> QED BY <2>1, <2>2
<1>11. CASE Interrupt
  BY <1>11 DEF Interrupt
<1>12. CASE Abort
  BY <1>12 DEF Abort, Go
<1>13. CASE UNCHANGED vars
  BY <1>13 DEF vars, loop, Held, InCaptions
<1> QED BY <1>1, <1>2, <1>3, <1>4, <1>5, <1>6, <1>7, <1>8, <1>9, <1>10, <1>11,
           <1>12, <1>13 DEF Next, Main

\* Until Ctrl+C, every chunk the VAD took for speech is in a caption or in the
\* segment being recorded: the lookback never trims the chunk that starts a
\* segment and the buffer is zeroed only once it is cached.
THEOREM NoVoiceIsDropped == Spec => []NoVoiceDropped
<1>1. VoiceInv => NoVoiceDropped
  BY DEF VoiceInv, VoiceHeld, NoVoiceDropped, Held
<1> QED BY <1>1, InitVoiceInv, NextVoiceInv, PTL DEF Spec
-----------------------------------------------------------------------------
(* The zeros of an earlier segment.                                        *)

\* The first z chunks of s, and no others, are zeros.
PadOf(s, z) == \A i \in DOMAIN s : s[i] = Zero <=> i <= z

Padded(s)   == \E z \in 0 .. Len(s) : PadOf(s, z)
ShortPad(s) == \E z \in 0 .. Len(s) : z < Lookback /\ PadOf(s, z)

\* The buffer may become a caption.
InSegment ==
  (recording \/ pc \in {"vad", "begin", "transcribe", "drain"}) /\ pc # "done"

Padding ==
  /\ Padded(speech)
  /\ InSegment => ShortPad(speech)
  /\ \A k \in DOMAIN caption_cache : ShortPad(caption_cache[k])

PadInv == VadInv /\ TypeInv /\ Padding

LEMMA ShortIsPad ==
  ASSUME NEW s, ShortPad(s)
  PROVE  Padded(s)
BY DEF ShortPad, Padded

LEMMA AppendKeepsPad ==
  ASSUME NEW s \in Seq(0 .. MaxHeard), NEW c \in 1 .. MaxHeard,
         NEW z \in 0 .. Len(s), PadOf(s, z)
  PROVE  z \in 0 .. Len(Append(s, c)) /\ PadOf(Append(s, c), z)
<1> DEFINE l == Append(s, c)
<1>1. /\ DOMAIN s = 1 .. Len(s) /\ DOMAIN l = 1 .. Len(s) + 1
      /\ \A i \in DOMAIN s : l[i] = s[i]
      /\ l[Len(s) + 1] = c /\ Len(s) \in Nat /\ Len(l) = Len(s) + 1
  OBVIOUS
<1> HIDE DEF l
<1>2. ASSUME NEW i \in DOMAIN l
      PROVE  l[i] = Zero <=> i <= z
  <2>1. CASE i \in DOMAIN s
    BY <1>1, <2>1 DEF PadOf
  <2>2. CASE i = Len(s) + 1
    BY <1>1, <2>2 DEF Zero
  <2> QED BY <1>1, <2>1, <2>2
<1>3. z \in 0 .. Len(l) /\ PadOf(l, z)
  BY <1>1, <1>2 DEF PadOf
<1> QED BY <1>3 DEF l

\* A chunk that comes while nothing is recorded leaves room for fewer zeros
\* than the lookback has.
LEMMA LookbackShortens ==
  ASSUME NEW s \in Seq(0 .. MaxHeard), NEW c \in 1 .. MaxHeard, Padded(s)
  PROVE  ShortPad(LastChunks(Append(s, c)))
<1> DEFINE l == Append(s, c)
           k == LastChunks(l)
<1>1. /\ l \in Seq(0 .. MaxHeard) /\ Len(l) = Len(s) + 1 /\ Len(s) \in Nat
      /\ DOMAIN l = 1 .. Len(l)
  OBVIOUS
<1>2. PICK z \in 0 .. Len(s) : PadOf(s, z)
  BY DEF Padded
<1>3. z \in Nat /\ z < Len(l) /\ PadOf(l, z)
  BY <1>1, <1>2, AppendKeepsPad
<1> HIDE DEF l
<1>4. CASE Len(l) <= Lookback
  <2>1. k = l
    BY <1>4 DEF LastChunks
  <2>2. z < Lookback
    BY <1>1, <1>3, <1>4, LiveAssumption
  <2> QED BY <1>1, <1>3, <2>1, <2>2 DEF ShortPad, l
<1>5. CASE Len(l) > Lookback
  <2> DEFINE d == Len(l) - Lookback
  <2>1. d \in Nat
    BY <1>1, <1>5, LiveAssumption
  <2>2. /\ Len(k) = Lookback /\ DOMAIN k = 1 .. Lookback
        /\ \A i \in 1 .. Lookback : k[i] = l[i + d] /\ i + d \in DOMAIN l
    <3>1. k = SubSeq(l, d + 1, Len(l))
      BY <1>1, <1>5, LiveAssumption DEF LastChunks
    <3>2. /\ Len(l) \in Nat /\ d + 1 \in 1 .. Len(l) + 1 /\ Len(l) - d = Lookback
          /\ Lookback \in Nat
      BY <1>1, <1>5, LiveAssumption
    <3> HIDE DEF d, k
    <3>3. Len(k) = Lookback /\ DOMAIN k = 1 .. Lookback
      BY <1>1, <2>1, <3>1, <3>2
    <3>4. ASSUME NEW i \in 1 .. Lookback
          PROVE  k[i] = l[i + d] /\ i + d \in DOMAIN l
      BY <1>1, <2>1, <3>1, <3>2
    <3> QED BY <3>3, <3>4
  <2> HIDE DEF k
  <2> DEFINE y == IF z <= d THEN 0 ELSE z - d
  <2>3. y \in 0 .. Len(k) /\ y < Lookback
    <3>1. z \in Nat /\ z < d + Lookback /\ Lookback \in Nat \ {0}
      BY <1>1, <1>3, LiveAssumption
    <3>2. Len(k) = Lookback
      BY <2>2
    <3> HIDE DEF d
    <3>3. y \in 0 .. Lookback /\ y < Lookback
      BY <2>1, <3>1
    <3> QED BY <3>2, <3>3
  <2>4. ASSUME NEW i \in 1 .. Lookback
        PROVE  k[i] = Zero <=> i <= y
    <3>1. k[i] = Zero <=> i + d <= z
      BY <1>3, <2>2 DEF PadOf
    <3> QED BY <1>3, <2>1, <3>1, LiveAssumption
  <2> HIDE DEF y
  <2>5. PadOf(k, y)
    BY <2>2, <2>4 DEF PadOf
  <2> QED BY <2>3, <2>5 DEF ShortPad, k, l
<1> QED BY <1>1, <1>4, <1>5, LiveAssumption

LEMMA ZeroedIsPadded ==
  ASSUME NEW s \in Seq(0 .. MaxHeard), NEW l, l = [i \in DOMAIN s |-> Zero]
  PROVE  Padded(l)
<1>1. DOMAIN l = 1 .. Len(l) /\ Len(l) \in Nat /\ \A i \in DOMAIN l : l[i] = Zero
  BY DEF Zero
<1>2. Len(l) \in 0 .. Len(l) /\ PadOf(l, Len(l))
  BY <1>1 DEF PadOf
<1> QED BY <1>2 DEF Padded

LEMMA InitPadInv == Init => PadInv
<1> SUFFICES ASSUME Init PROVE Padding
  BY InitVadInv, InitTypeInv DEF PadInv
<1>1. speech = <<>> /\ caption_cache = <<>> /\ ~InSegment
  BY DEF Init, InSegment
<1>2. Len(speech) = 0 /\ DOMAIN speech = {} /\ DOMAIN caption_cache = {}
  BY <1>1
<1>3. Padded(speech)
  BY <1>2 DEF Padded, PadOf
<1> QED BY <1>1, <1>2, <1>3 DEF Padding

LEMMA NextPadInv == PadInv /\ [Next]_vars => PadInv'
<1> SUFFICES ASSUME PadInv, [Next]_vars PROVE Padding'
  BY NextVadInv, NextTypeInv DEF PadInv
<1> USE DEF PadInv, Padding
<1>0. /\ speech \in Seq(0 .. MaxHeard) /\ chunk \in 0 .. MaxHeard
      /\ q \in Seq(1 .. MaxHeard) /\ caption_cache \in Seq(Seq(0 .. MaxHeard))
  BY DEF TypeInv, TypeOK
<1>1. ASSUME UNCHANGED <<speech, caption_cache>>, InSegment' => InSegment
      PROVE  Padding'
  BY <1>1
<1>2. CASE InputCallback \/ Get \/ Begin
  <2>1. UNCHANGED <<speech, caption_cache>>
    BY <1>2 DEF InputCallback, loop, Get, Begin
  <2>2. InSegment' => InSegment
    BY <1>2 DEF InputCallback, loop, Get, Begin, Go, InSegment
  <2> QED BY <1>1, <2>1, <2>2
<1>3. CASE Concatenate
  <2>1. /\ pc = "concat" /\ speech' = Kept(Append(speech, chunk))
        /\ UNCHANGED <<recording, caption_cache>>
    BY <1>3 DEF Concatenate, Go
  <2>2. chunk \in 1 .. MaxHeard
    BY <1>0, <2>1 DEF TypeInv, Counted, Zero
  <2>3. ShortPad(speech')
    <3>1. CASE recording
      <4>1. PICK z \in 0 .. Len(speech) : z < Lookback /\ PadOf(speech, z)
        BY <2>1, <3>1 DEF InSegment, ShortPad
      <4>2. speech' = Append(speech, chunk)
        BY <2>1, <3>1 DEF Kept
      <4>3. z \in 0 .. Len(speech') /\ PadOf(speech', z)
        BY <1>0, <2>2, <4>1, <4>2, AppendKeepsPad
      <4> QED BY <4>1, <4>3 DEF ShortPad
    <3>2. CASE ~recording
      <4>1. speech' = LastChunks(Append(speech, chunk))
        BY <2>1, <3>2 DEF Kept
      <4> QED BY <1>0, <2>2, <4>1, LookbackShortens
    <3> QED BY <3>1, <3>2
  <2> QED BY <2>1, <2>3, ShortIsPad
<1>4. CASE AskVad
  <2>1. pc = "vad" /\ UNCHANGED <<speech, caption_cache>>
    BY <1>4 DEF AskVad, loop
  <2> QED BY <1>1, <2>1 DEF InSegment
<1>5. CASE StopSpeech \/ CapSpeech
  <2>1. pc \in {"stop", "cap"} /\ UNCHANGED <<speech, caption_cache>>
    BY <1>5 DEF StopSpeech, CapSpeech, EndRecording
  <2>2. recording
    BY <2>1 DEF VadInv, Agreement
  <2> QED BY <1>1, <2>1, <2>2 DEF InSegment
<1>6. CASE SpeechFits \/ SoftReset \/ Refresh
  <2>1. /\ UNCHANGED loop /\ pc \in {"cap", "reset", "refresh"}
        /\ pc' \in {"refresh", "get"}
    BY <1>6 DEF SpeechFits, SoftReset, Refresh, Go
  <2> QED BY <1>1, <2>1 DEF loop, InSegment
<1>7. CASE CacheCaption
  <2>1. /\ pc = "transcribe" /\ pc' = "clear" /\ UNCHANGED <<speech, recording>>
        /\ caption_cache' = Append(caption_cache, speech)
    BY <1>7 DEF CacheCaption, Go
  <2>2. ShortPad(speech)
    BY <2>1 DEF InSegment
  <2>3. \A k \in DOMAIN caption_cache' : \/ k \in DOMAIN caption_cache
                                            /\ caption_cache'[k] = caption_cache[k]
                                         \/ caption_cache'[k] = speech
    BY <1>0, <2>1
  <2> QED BY <2>1, <2>2, <2>3
<1>8. CASE Clear
  <2>1. /\ pc = "clear" /\ speech' = [i \in DOMAIN speech |-> Zero]
        /\ pc' = returns /\ UNCHANGED <<caption_cache, recording>>
    BY <1>8 DEF Clear, Go
  <2>2. ~InSegment'
    <3>1. CASE interrupted
      BY <2>1, <3>1 DEF VadInv, Handling, InLoop, InSegment
    <3>2. CASE ~interrupted
      BY <2>1, <3>2 DEF VadInv, Handling, Agreement, InSegment
    <3> QED BY <3>1, <3>2
  <2>3. Padded(speech')
    BY <1>0, <2>1, ZeroedIsPadded
  <2> QED BY <2>1, <2>2, <2>3
<1>9. CASE CloseStream \/ Interrupt \/ Abort
  <2>1. UNCHANGED loop /\ pc' \in {"drain", "done", "close", "aborted"}
    BY <1>9 DEF CloseStream, Interrupt, Abort, Go
  <2>2. pc # "done" /\ (pc' = "drain" => recording)
    BY <1>9 DEF CloseStream, Interrupt, Abort, Go, InLoop
  <2> QED BY <1>1, <2>1, <2>2 DEF loop, InSegment
<1>10. CASE Drain
  <2>1. /\ pc = "drain" /\ pc' = "drain" /\ q # <<>>
        /\ speech' = Append(speech, Head(q)) /\ UNCHANGED <<recording, caption_cache>>
    BY <1>10 DEF Drain
  <2>2. Head(q) \in 1 .. MaxHeard
    BY <1>0, <2>1, HeadTailProperties
  <2>3. PICK z \in 0 .. Len(speech) : z < Lookback /\ PadOf(speech, z)
    BY <2>1 DEF InSegment, ShortPad
  <2>4. z \in 0 .. Len(speech') /\ PadOf(speech', z)
    BY <1>0, <2>1, <2>2, <2>3, AppendKeepsPad
  <2>5. ShortPad(speech')
    BY <2>3, <2>4 DEF ShortPad
  <2> QED BY <2>1, <2>5, ShortIsPad
<1>11. CASE Flush
  <2>1. pc = "drain" /\ UNCHANGED <<speech, caption_cache, recording>>
    BY <1>11 DEF Flush
  <2> QED BY <1>1, <2>1 DEF InSegment
<1>12. CASE UNCHANGED vars
  BY <1>1, <1>12 DEF vars, loop, InSegment
<1> QED BY <1>2, <1>3, <1>4, <1>5, <1>6, <1>7, <1>8, <1>9, <1>10, <1>11, <1>12
        DEF Next, Main

\* Whatever the lookback, the zeros an earlier segment left in the buffer stand
\* before a caption's audio and are fewer than the lookback has room for.
THEOREM ZerosArePad == Spec => []ZerosOnlyPad
<1>1. ASSUME PadInv PROVE ZerosOnlyPad
  <2> SUFFICES ASSUME NEW k \in DOMAIN caption_cache
               PROVE  LET s == caption_cache[k]
                          n == Cardinality({i \in DOMAIN s : s[i] = Zero})
                      IN  n < Lookback /\ \A i \in 1 .. n : s[i] = Zero
    BY DEF ZerosOnlyPad
  <2> DEFINE s == caption_cache[k]
             zeros == {i \in DOMAIN s : s[i] = Zero}
  <2>1. s \in Seq(0 .. MaxHeard)
    BY <1>1 DEF PadInv, TypeInv, TypeOK
  <2>2. PICK z \in 0 .. Len(s) : z < Lookback /\ PadOf(s, z)
    BY <1>1 DEF PadInv, Padding, ShortPad
  <2>3. DOMAIN s = 1 .. Len(s) /\ z \in Nat /\ Len(s) \in Nat /\ z <= Len(s)
    BY <2>1, <2>2
  <2> HIDE DEF s
  <2>4. zeros = 1 .. z
    BY <2>2, <2>3 DEF PadOf
  <2>5. Cardinality(1 .. z) = z
    BY <2>3, FS_Interval
  <2>6. \A i \in 1 .. z : s[i] = Zero
    BY <2>4
  <2> QED BY <2>2, <2>4, <2>5, <2>6 DEF s
<1> QED BY <1>1, InitPadInv, NextPadInv, PTL DEF Spec
-----------------------------------------------------------------------------
(* The chunks in the buffer and in the captions.                           *)

\* The last chunk taken off the queue.
Taken == heard - Len(q)

\* The chunks in s follow one another and end with the last one, save that one
\* is missing after the first g.
Runs(s, g, last) ==
  \A i \in DOMAIN s :
    s[i] = Zero \/ s[i] = last - (Len(s) - i) - (IF i <= g THEN 1 ELSE 0)

\* s ends with a chunk.
Voiced(s) == s # <<>> /\ s[Len(s)] # Zero

\* The last chunk that is in a caption.
CaptionedTo ==
  IF caption_cache = <<>> THEN 0
  ELSE LET s == caption_cache[Len(caption_cache)] IN s[Len(s)]

\* Until Ctrl+C only the chunk in hand is not in the buffer yet.
Gap(g) == ~interrupted => g = IF pc = "concat" THEN Len(speech) ELSE 0

\* The buffer may still become a caption of its own.
InOrder ==
  \/ pc \in (InLoop \ {"clear"}) \cup {"drain"}
  \/ pc = "close" /\ recording

Queued         == \A i \in 1 .. Len(q) : q[i] = Taken + i
InHand         == pc = "concat" => chunk = Taken /\ CaptionedTo < Taken
Buffered       == \E g \in 0 .. Len(speech) : Gap(g) /\ Runs(speech, g, Taken)
SegmentVoiced  == InSegment => Voiced(speech)
Later          == InOrder => \A i \in DOMAIN speech : speech[i] # Zero => CaptionedTo < speech[i]
CaptionsVoiced == \A k \in DOMAIN caption_cache : Voiced(caption_cache[k])

\* What end_recording() was called with for the last time.
FlushRun(s) == Voiced(s) /\ \E g \in 0 .. Len(s) : Runs(s, g, heard)
Flushed ==
  /\ interrupted /\ pc \in {"transcribe", "clear"} => q = <<>>
  /\ interrupted /\ pc \in {"clear", "done"} /\ recording =>
       caption_cache # <<>> /\ FlushRun(caption_cache[Len(caption_cache)])

RunParts ==
  /\ Queued /\ InHand /\ CaptionedTo <= Taken /\ Buffered
  /\ SegmentVoiced /\ Later /\ CaptionsVoiced /\ Flushed

RunInv == PadInv /\ RunParts

LEMMA TakenIs ==
  ASSUME PadInv
  PROVE  /\ Taken \in Nat /\ Taken <= heard /\ heard \in Nat /\ Len(q) \in Nat
         /\ heard = Taken + Len(q)
<1>1. heard \in Nat /\ Len(q) \in Nat /\ current_sample \in Nat
      /\ current_sample + Len(q) <= heard
  BY DEF PadInv, TypeInv, TypeOK, Counted
<1> QED BY <1>1 DEF Taken

\* What Ctrl+C may find leaves the chunks where they are.
LEMMA RunStays ==
  ASSUME RunInv, UNCHANGED <<speech, caption_cache, q, heard>>,
         pc' # "concat", ~interrupted' => ~interrupted /\ pc # "concat",
         InSegment' => InSegment, InOrder' => InOrder, Flushed'
  PROVE  RunParts'
<1>1. UNCHANGED <<Taken, CaptionedTo>>
  BY DEF Taken, CaptionedTo
<1>2. Buffered'
  <2>1. PICK g \in 0 .. Len(speech) : Gap(g) /\ Runs(speech, g, Taken)
    BY DEF RunInv, RunParts, Buffered
  <2>2. Gap(g)'
    BY <2>1 DEF Gap
  <2>3. Runs(speech, g, Taken)'
    BY <1>1, <2>1 DEF Runs
  <2> QED BY <2>2, <2>3 DEF Buffered
<1>3. Queued'
  BY <1>1 DEF RunInv, RunParts, Queued
<1>4. SegmentVoiced'
  BY DEF RunInv, RunParts, SegmentVoiced, Voiced
<1>5. Later'
  BY <1>1 DEF RunInv, RunParts, Later
<1>6. CaptionsVoiced'
  BY DEF RunInv, RunParts, CaptionsVoiced, Voiced
<1>7. InHand' /\ (CaptionedTo <= Taken)'
  BY <1>1 DEF RunInv, RunParts, InHand
<1> QED BY <1>2, <1>3, <1>4, <1>5, <1>6, <1>7 DEF RunParts

LEMMA LoopNotInterrupted ==
  ASSUME PadInv, pc \in InLoop, pc \notin {"transcribe", "clear"}
  PROVE  ~interrupted
BY DEF PadInv, VadInv, Handling, InLoop

\* The steps of the loop between q.get() and end_recording().
LEMMA LoopRunsStay ==
  ASSUME RunInv,
         AskVad \/ Begin \/ StopSpeech \/ CapSpeech \/ SpeechFits \/ SoftReset \/ Refresh
  PROVE  RunParts'
<1>1. /\ UNCHANGED <<speech, caption_cache, q, heard, interrupted>>
      /\ pc \in {"vad", "begin", "stop", "cap", "reset", "refresh"}
      /\ pc' \in {"begin", "stop", "cap", "get", "transcribe", "refresh"}
  <2>1. CASE AskVad
    BY <2>1 DEF AskVad, React, Go, loop
  <2>2. CASE Begin \/ StopSpeech \/ CapSpeech
    BY <2>2 DEF Begin, StopSpeech, CapSpeech, EndRecording, Go
  <2>3. CASE SpeechFits \/ SoftReset \/ Refresh
    BY <2>3 DEF SpeechFits, SoftReset, Refresh, Go, loop
  <2> QED BY <2>1, <2>2, <2>3
<1>2. ~interrupted /\ ~interrupted'
  BY <1>1, LoopNotInterrupted DEF RunInv, InLoop
<1>3. InSegment' => InSegment
  <2>1. CASE AskVad
    BY <2>1 DEF AskVad, InSegment
  <2>2. CASE Begin
    BY <2>2 DEF Begin, Go, InSegment
  <2>3. CASE StopSpeech \/ CapSpeech
    BY <2>3 DEF StopSpeech, CapSpeech, InSegment, RunInv, PadInv, VadInv, Agreement
  <2>4. CASE SpeechFits \/ SoftReset \/ Refresh
    BY <2>4 DEF SpeechFits, SoftReset, Refresh, Go, loop, InSegment
  <2> QED BY <2>1, <2>2, <2>3, <2>4
<1>4. InOrder
  BY <1>1 DEF InOrder, InLoop
<1>5. Flushed'
  BY <1>2 DEF Flushed
<1> QED BY <1>1, <1>2, <1>3, <1>4, <1>5, RunStays

\* The steps around the handler of Ctrl+C.
LEMMA HandlerRunsStay ==
  ASSUME RunInv, CloseStream \/ Flush \/ Interrupt \/ Abort
  PROVE  RunParts'
<1>1. UNCHANGED <<speech, caption_cache, q, heard, recording>> /\ pc' # "concat"
  BY DEF CloseStream, Flush, Interrupt, Abort, Go, loop
<1>2. ~interrupted' => ~interrupted /\ pc # "concat"
  <2>1. CASE CloseStream \/ Flush
    <3>1. interrupted /\ interrupted' = interrupted
      BY <2>1 DEF CloseStream, Flush, Go, RunInv, PadInv, VadInv, Handling, InLoop
    <3> QED BY <3>1
  <2>2. CASE Interrupt \/ Abort
    BY <2>2 DEF Interrupt, Abort, Go
  <2> QED BY <2>1, <2>2
<1>3. InSegment' => InSegment
  <2>1. CASE CloseStream
    BY <2>1, <1>1 DEF CloseStream, Go, InSegment
  <2>2. CASE Flush
    BY <2>2 DEF Flush, InSegment
  <2>3. CASE Interrupt \/ Abort
    BY <2>3, <1>1 DEF Interrupt, Abort, Go, InSegment, InLoop
  <2> QED BY <2>1, <2>2, <2>3
<1>4. InOrder' => InOrder
  <2>1. CASE CloseStream \/ Flush
    BY <2>1, <1>1 DEF CloseStream, Flush, Go, InOrder, InLoop
  <2>2. CASE Interrupt
    <3>1. pc = "clear" => ~recording
      BY <2>2 DEF Interrupt, RunInv, PadInv, VadInv, Agreement
    <3> QED BY <1>1, <2>2, <3>1 DEF Interrupt, InOrder, InLoop
  <2>3. CASE Abort
    BY <2>3 DEF Abort, Go, InOrder, InLoop
  <2> QED BY <2>1, <2>2, <2>3
<1>5. Flushed'
  <2>1. CASE CloseStream
    BY <2>1, <1>1 DEF CloseStream, Go, Flushed
  <2>2. CASE Flush
    BY <2>2 DEF Flush, Go, Flushed
  <2>3. CASE Interrupt \/ Abort
    BY <2>3 DEF Interrupt, Abort, Go, Flushed
  <2> QED BY <2>1, <2>2, <2>3
<1> QED BY <1>1, <1>2, <1>3, <1>4, <1>5, RunStays

\* The lookback takes d chunks off the start of s.
Shortened(s, k, d) ==
  /\ d \in Nat /\ (Len(s) > 0 => d < Len(s)) /\ Len(k) = Len(s) - d
  /\ DOMAIN k = 1 .. Len(k) /\ Len(k) \in Nat
  /\ \A i \in DOMAIN k : k[i] = s[i + d] /\ i + d \in DOMAIN s

LEMMA LookbackShortened ==
  ASSUME NEW S, NEW s \in Seq(S)
  PROVE  \E d : Shortened(s, LastChunks(s), d)
<1>1. Len(s) \in Nat /\ DOMAIN s = 1 .. Len(s)
  OBVIOUS
<1>2. CASE Len(s) <= Lookback
  <2>1. LastChunks(s) = s
    BY <1>2 DEF LastChunks
  <2>2. Shortened(s, s, 0)
    BY <1>1 DEF Shortened
  <2> QED BY <2>1, <2>2
<1>3. CASE Len(s) > Lookback
  <2> DEFINE d == Len(s) - Lookback
             k == LastChunks(s)
  <2>1. d \in Nat /\ d < Len(s) /\ Len(s) - d = Lookback /\ Lookback \in Nat
    BY <1>1, <1>3, LiveAssumption
  <2>2. k = SubSeq(s, d + 1, Len(s))
    BY <1>1, <1>3, LiveAssumption DEF LastChunks
  <2> HIDE DEF d, k
  <2>3. \A i \in d + 1 .. Len(s) : s[i] \in S
    <3>1. \A i \in d + 1 .. Len(s) : i \in 1 .. Len(s)
      BY <1>1, <2>1
    <3> QED BY <3>1, ElementOfSeq
  <2>4. d + 1 \in Int /\ Len(s) \in Int /\ d + 1 <= Len(s) /\ Len(s) - (d + 1) + 1 = Len(s) - d
    BY <1>1, <2>1
  <2>5. /\ k \in Seq(S) /\ Len(k) = Len(s) - d
        /\ \A i \in 1 .. Len(s) - d : k[i] = s[(d + 1) + i - 1]
    BY <2>2, <2>3, <2>4, SubSeqProperties
  <2>6. DOMAIN k = 1 .. Len(k) /\ Len(k) \in Nat
    BY <2>5
  <2>7. ASSUME NEW i \in DOMAIN k
        PROVE  k[i] = s[i + d] /\ i + d \in DOMAIN s
    <3>1. i \in 1 .. Len(s) - d /\ (d + 1) + i - 1 = i + d /\ i + d \in 1 .. Len(s)
      BY <1>1, <2>1, <2>5, <2>6
    <3> QED BY <1>1, <2>5, <3>1
  <2>8. Shortened(s, k, d)
    BY <2>1, <2>5, <2>6, <2>7 DEF Shortened
  <2> QED BY <2>8 DEF k
<1> QED BY <1>1, <1>2, <1>3, LiveAssumption

LEMMA ShortenedRuns ==
  ASSUME NEW s, NEW k, NEW d, NEW last \in Int, Len(s) \in Nat,
         Shortened(s, k, d), Runs(s, 0, last)
  PROVE  Runs(k, 0, last)
<1> SUFFICES ASSUME NEW i \in DOMAIN k, k[i] # Zero
             PROVE  k[i] = last - (Len(k) - i) - (IF i <= 0 THEN 1 ELSE 0)
  BY DEF Runs
<1>1. /\ k[i] = s[i + d] /\ i + d \in DOMAIN s /\ i \in Nat /\ i > 0
      /\ d \in Nat /\ Len(k) = Len(s) - d /\ Len(k) \in Nat
  BY DEF Shortened
<1>2. s[i + d] = last - (Len(s) - (i + d)) - (IF i + d <= 0 THEN 1 ELSE 0)
  BY <1>1 DEF Runs
<1>3. Len(s) - (i + d) = Len(k) - i /\ ~(i + d <= 0) /\ ~(i <= 0)
  BY <1>1
<1> QED BY <1>1, <1>2, <1>3

\* What Append does.
Appended(s, l, c) ==
  /\ Len(s) \in Nat /\ Len(l) = Len(s) + 1
  /\ DOMAIN s = 1 .. Len(s) /\ DOMAIN l = 1 .. Len(s) + 1
  /\ \A i \in DOMAIN s : l[i] = s[i]
  /\ l[Len(s) + 1] = c

LEMMA AppendIs ==
  ASSUME NEW S, NEW s \in Seq(S), NEW c \in S
  PROVE  Appended(s, Append(s, c), c)
BY DEF Appended

\* The next chunk goes on with the run.
LEMMA AppendedRuns ==
  ASSUME NEW s, NEW l, NEW last \in Int, NEW c, c = last + 1, NEW g \in 0 .. Len(s),
         Appended(s, l, c), Runs(s, g, last)
  PROVE  Runs(l, g, c)
<1>0. Len(s) \in Nat /\ Len(l) = Len(s) + 1 /\ g \in Nat /\ g <= Len(s)
  BY DEF Appended
<1> SUFFICES ASSUME NEW i \in DOMAIN l, l[i] # Zero
             PROVE  l[i] = c - (Len(l) - i) - (IF i <= g THEN 1 ELSE 0)
  BY DEF Runs
<1>1. CASE i \in DOMAIN s
  <2>1. l[i] = s[i] /\ i \in Nat
    BY <1>1 DEF Appended
  <2>2. s[i] = last - (Len(s) - i) - (IF i <= g THEN 1 ELSE 0)
    BY <1>1, <2>1 DEF Runs
  <2>3. last - (Len(s) - i) = c - (Len(l) - i)
    BY <1>0, <2>1
  <2> QED BY <2>1, <2>2, <2>3
<1>2. CASE i = Len(s) + 1
  <2>1. l[i] = c /\ ~(i <= g) /\ i \in Nat /\ Len(l) - i = 0
    BY <1>0, <1>2 DEF Appended
  <2> QED BY <2>1
<1>3. i \in DOMAIN s \/ i = Len(s) + 1
  BY DEF Appended
<1> QED BY <1>1, <1>2, <1>3

\* A run that lacks the chunk after it is one that lacks none, one chunk before.
LEMMA RunsBefore ==
  ASSUME NEW s, DOMAIN s = 1 .. Len(s), Len(s) \in Nat, NEW last \in Int
  PROVE  Runs(s, Len(s), last + 1) <=> Runs(s, 0, last)
<1> SUFFICES ASSUME NEW i \in DOMAIN s
             PROVE  (last + 1) - (Len(s) - i) - (IF i <= Len(s) THEN 1 ELSE 0)
                      = last - (Len(s) - i) - (IF i <= 0 THEN 1 ELSE 0)
  BY DEF Runs
<1> QED OBVIOUS

LEMMA InputRuns ==
  ASSUME RunInv, InputCallback
  PROVE  RunParts'
<1>1. /\ heard' = heard + 1 /\ q' = Append(q, heard + 1)
      /\ UNCHANGED <<pc, chunk, speech, recording, caption_cache, interrupted>>
      /\ StreamOpen
  BY DEF InputCallback, loop
<1>2. q \in Seq(1 .. MaxHeard) /\ heard + 1 \in 1 .. MaxHeard
  <2>1. heard < MaxHeard /\ heard \in Nat /\ MaxHeard \in Nat /\ q \in Seq(1 .. MaxHeard)
    BY LiveAssumption DEF InputCallback, RunInv, PadInv, TypeInv, TypeOK
  <2> QED BY <2>1
<1>3. Appended(q, q', heard + 1)
  BY <1>1, <1>2, AppendIs
<1>4. Taken \in Nat /\ heard = Taken + Len(q) /\ heard \in Nat /\ Len(q) \in Nat
  BY TakenIs DEF RunInv
<1>5. Taken' = Taken /\ CaptionedTo' = CaptionedTo
  BY <1>1, <1>3, <1>4 DEF Taken, CaptionedTo, Appended
<1>6. Queued'
  <2>1. \A i \in 1 .. Len(q) + 1 : q'[i] = Taken + i
    <3> TAKE i \in 1 .. Len(q) + 1
    <3>1. CASE i \in 1 .. Len(q)
      BY <1>3, <3>1 DEF Appended, RunInv, RunParts, Queued
    <3>2. CASE i = Len(q) + 1
      BY <1>3, <1>4, <3>2 DEF Appended
    <3> QED BY <1>4, <3>1, <3>2
  <2>2. Len(q') = Len(q) + 1
    BY <1>3 DEF Appended
  <2> QED BY <1>5, <2>1, <2>2 DEF Queued
<1>7. Buffered'
  <2>1. PICK g \in 0 .. Len(speech) : Gap(g) /\ Runs(speech, g, Taken)
    BY DEF RunInv, RunParts, Buffered
  <2>2. Gap(g)' /\ Runs(speech, g, Taken)'
    BY <1>1, <1>5, <2>1 DEF Gap, Runs
  <2> QED BY <1>1, <2>2 DEF Buffered
<1>8. SegmentVoiced' /\ CaptionsVoiced'
  BY <1>1 DEF RunInv, RunParts, SegmentVoiced, CaptionsVoiced, Voiced, InSegment
<1>9. Later'
  BY <1>1, <1>5 DEF RunInv, RunParts, Later, InOrder
<1>10. InHand' /\ (CaptionedTo <= Taken)'
  BY <1>1, <1>5 DEF RunInv, RunParts, InHand
<1>11. Flushed'
  BY <1>1 DEF StreamOpen, Flushed
<1> QED BY <1>6, <1>7, <1>8, <1>9, <1>10, <1>11 DEF RunParts

\* Get and Drain take the next chunk off the queue.
LEMMA TakeNext ==
  ASSUME RunInv, q # <<>>, q' = Tail(q), heard' = heard
  PROVE  /\ Head(q) = Taken + 1 /\ Taken' = Taken + 1 /\ Queued'
         /\ Taken \in Nat /\ Head(q) \in 1 .. MaxHeard
<1>1. q \in Seq(1 .. MaxHeard) /\ Len(q) > 0 /\ Len(q) \in Nat
  BY DEF RunInv, PadInv, TypeInv, TypeOK
<1>2. /\ Head(q) = q[1] /\ Len(q') = Len(q) - 1 /\ Head(q) \in 1 .. MaxHeard
      /\ \A i \in 1 .. Len(q) - 1 : q'[i] = q[i + 1]
  <2>1. Head(q) = q[1]
    OBVIOUS
  <2>3. Head(q) \in 1 .. MaxHeard
    BY <1>1, HeadTailProperties
  <2>2. Len(Tail(q)) = Len(q) - 1 /\ \A i \in 1 .. Len(q) - 1 : Tail(q)[i] = q[i + 1]
    BY <1>1
  <2> QED BY <2>1, <2>2, <2>3
<1>3. Taken \in Nat /\ heard = Taken + Len(q) /\ heard \in Nat
  BY TakenIs DEF RunInv
<1>4. Taken' = Taken + 1
  BY <1>1, <1>2, <1>3 DEF Taken
<1>5. \A i \in 1 .. Len(q) : q[i] = Taken + i
  BY DEF RunInv, RunParts, Queued
<1>6. Head(q) = Taken + 1
  BY <1>1, <1>2, <1>5
<1>7. \A i \in 1 .. Len(q) - 1 : q'[i] = (Taken + 1) + i
  <2> TAKE i \in 1 .. Len(q) - 1
  <2>1. i + 1 \in 1 .. Len(q) /\ i \in Nat
    BY <1>1
  <2>2. q'[i] = Taken + (i + 1)
    BY <1>2, <1>5, <2>1
  <2> QED BY <1>3, <2>1, <2>2
<1>8. Queued'
  BY <1>2, <1>4, <1>7 DEF Queued
<1> QED BY <1>2, <1>3, <1>4, <1>6, <1>8

LEMMA SpeechIs ==
  ASSUME PadInv
  PROVE  speech \in Seq(0 .. MaxHeard) /\ Len(speech) \in Nat /\ DOMAIN speech = 1 .. Len(speech)
BY DEF PadInv, TypeInv, TypeOK

LEMMA CaptionedToIs ==
  ASSUME PadInv, RunParts
  PROVE  CaptionedTo \in Nat
<1>1. CASE caption_cache = <<>>
  BY <1>1 DEF CaptionedTo
<1>2. CASE caption_cache # <<>>
  <2> DEFINE s == caption_cache[Len(caption_cache)]
  <2>1. caption_cache \in Seq(Seq(0 .. MaxHeard))
    BY DEF PadInv, TypeInv, TypeOK
  <2>2. Len(caption_cache) \in DOMAIN caption_cache
    BY <1>2, <2>1
  <2>3. s \in Seq(0 .. MaxHeard) /\ Voiced(s)
    BY <2>1, <2>2 DEF RunParts, CaptionsVoiced
  <2> HIDE DEF s
  <2>4. s[Len(s)] \in 0 .. MaxHeard
    <3>1. Len(s) \in 1 .. Len(s)
      BY <2>3 DEF Voiced
    <3> QED BY <2>3, <3>1, ElementOfSeq
  <2> QED BY <1>2, <2>4 DEF CaptionedTo, s
<1> QED BY <1>1, <1>2

LEMMA GetRuns ==
  ASSUME RunInv, Get
  PROVE  RunParts'
<1>1. /\ pc = "get" /\ pc' = "concat" /\ q # <<>> /\ q' = Tail(q)
      /\ chunk' = Head(q)
      /\ UNCHANGED <<heard, speech, recording, caption_cache, interrupted>>
  BY DEF Get, Go
<1>2. /\ chunk' = Taken + 1 /\ Taken' = Taken + 1 /\ Queued' /\ Taken \in Nat
  BY <1>1, TakeNext
<1>3. ~interrupted
  BY <1>1, LoopNotInterrupted DEF RunInv, InLoop
<1>4. CaptionedTo' = CaptionedTo
  BY <1>1 DEF CaptionedTo
<1>5. Len(speech) \in Nat /\ DOMAIN speech = 1 .. Len(speech)
  BY SpeechIs DEF RunInv
<1>6. Buffered'
  <2>1. Runs(speech, 0, Taken)
    BY <1>1, <1>3 DEF RunInv, RunParts, Buffered, Gap
  <2>2. Runs(speech, Len(speech), Taken + 1)
    BY <1>2, <1>5, <2>1, RunsBefore
  <2>3. Gap(Len(speech))' /\ Runs(speech, Len(speech), Taken)'
    BY <1>1, <1>2, <2>2 DEF Gap, Runs
  <2>4. Len(speech) \in 0 .. Len(speech')
    BY <1>1, <1>5
  <2> QED BY <1>1, <2>3, <2>4 DEF Buffered
<1>7. SegmentVoiced' /\ CaptionsVoiced'
  BY <1>1 DEF RunInv, RunParts, SegmentVoiced, CaptionsVoiced, Voiced, InSegment
<1>8. Later'
  BY <1>1, <1>4 DEF RunInv, RunParts, Later, InOrder, InLoop
<1>9. InHand' /\ (CaptionedTo <= Taken)'
  <2>1. CaptionedTo < Taken + 1
    <3>1. CaptionedTo <= Taken
      BY DEF RunInv, RunParts
    <3>2. CaptionedTo \in Nat
      BY CaptionedToIs DEF RunInv
    <3> QED BY <1>2, <3>1, <3>2
  <2>2. CaptionedTo <= Taken + 1
    BY <1>2, <2>1, CaptionedToIs DEF RunInv
  <2> QED BY <1>1, <1>2, <1>4, <2>1, <2>2 DEF InHand
<1>10. Flushed'
  BY <1>1, <1>3 DEF Flushed
<1> QED BY <1>2, <1>6, <1>7, <1>8, <1>9, <1>10 DEF RunParts

LEMMA ConcatenateRuns ==
  ASSUME RunInv, Concatenate
  PROVE  RunParts'
<1> DEFINE l == Append(speech, chunk)
<1>1. /\ pc = "concat" /\ pc' = "vad" /\ speech' = Kept(l)
      /\ UNCHANGED <<heard, q, chunk, recording, caption_cache, interrupted>>
  BY DEF Concatenate, Go
<1>2. /\ speech \in Seq(0 .. MaxHeard) /\ chunk \in 1 .. MaxHeard
      /\ Len(speech) \in Nat /\ DOMAIN speech = 1 .. Len(speech)
  BY <1>1, SpeechIs DEF RunInv, PadInv, TypeInv, TypeOK, Counted, Zero
<1>3. Appended(speech, l, chunk) /\ l \in Seq(0 .. MaxHeard)
  <2>1. chunk \in 0 .. MaxHeard
    BY <1>2
  <2>2. l \in Seq(0 .. MaxHeard)
    BY <1>2, <2>1
  <2> QED BY <1>2, <2>1, <2>2, AppendIs
<1> HIDE DEF l
<1>4. chunk = Taken /\ CaptionedTo < Taken /\ Taken \in Nat
  BY <1>1, TakenIs DEF RunInv, RunParts, InHand
<1>5. Taken' = Taken /\ CaptionedTo' = CaptionedTo
  BY <1>1 DEF Taken, CaptionedTo
<1>6. ~interrupted
  BY <1>1, LoopNotInterrupted DEF RunInv, InLoop
<1>7. PICK d : Shortened(l, speech', d)
  <2>1. CASE recording
    <3>1. speech' = l
      BY <1>1, <2>1 DEF Kept
    <3>2. Shortened(l, l, 0)
      BY <1>3 DEF Shortened
    <3> QED BY <3>1, <3>2
  <2>2. CASE ~recording
    <3>1. speech' = LastChunks(l)
      BY <1>1, <2>2 DEF Kept
    <3> QED BY <1>3, <3>1, LookbackShortened
  <2> QED BY <2>1, <2>2
<1>8. Runs(speech', 0, Taken)
  <2>1. Taken - 1 \in Int /\ (Taken - 1) + 1 = Taken /\ 0 \in 0 .. Len(speech)
    BY <1>2, <1>4
  <2>2. Runs(speech, Len(speech), Taken)
    BY <1>1, <1>6 DEF RunInv, RunParts, Buffered, Gap
  <2>3. Runs(speech, 0, Taken - 1)
    BY <1>2, <2>1, <2>2, RunsBefore
  <2>4. chunk = (Taken - 1) + 1
    BY <1>4, <2>1
  <2>5. Runs(l, 0, chunk)
    BY <1>3, <2>1, <2>3, <2>4, AppendedRuns
  <2>6. Runs(l, 0, Taken) /\ Taken \in Int /\ Len(l) \in Nat
    BY <1>3, <1>4, <2>5 DEF Appended
  <2> QED BY <1>7, <2>6, ShortenedRuns
<1>9. Buffered'
  <2>1. Runs(speech, 0, Taken)' /\ Gap(0)'
    BY <1>1, <1>5, <1>8 DEF Runs, Gap
  <2>2. 0 \in 0 .. Len(speech')
    BY <1>7 DEF Shortened
  <2> QED BY <2>1, <2>2 DEF Buffered
<1>10. Voiced(speech')
  <2>1. Len(l) = Len(speech) + 1 /\ l[Len(l)] = chunk
    BY <1>3 DEF Appended
  <2>2. /\ d < Len(l) /\ d \in Nat /\ Len(speech') = Len(l) - d /\ Len(l) \in Nat
        /\ DOMAIN speech' = 1 .. Len(speech')
    BY <1>2, <1>7, <2>1 DEF Shortened
  <2>3. Len(speech') \in DOMAIN speech' /\ Len(speech') + d = Len(l)
    BY <2>2
  <2>4. speech'[Len(speech')] = l[Len(speech') + d]
    BY <1>7, <2>3 DEF Shortened
  <2>5. speech'[Len(speech')] # Zero
    BY <1>2, <2>1, <2>3, <2>4 DEF Zero
  <2>6. speech' # <<>>
    BY <2>3
  <2> QED BY <2>5, <2>6 DEF Voiced
<1>11. Later'
  <2>1. \A i \in DOMAIN speech : speech[i] # Zero => CaptionedTo < speech[i]
    BY <1>1 DEF RunInv, RunParts, Later, InOrder, InLoop
  <2>2. \A i \in DOMAIN l : l[i] # Zero => CaptionedTo < l[i]
    BY <1>2, <1>3, <1>4, <2>1 DEF Appended
  <2>3. \A i \in DOMAIN speech' : speech'[i] # Zero => CaptionedTo < speech'[i]
    BY <1>7, <2>2 DEF Shortened
  <2> QED BY <1>5, <2>3 DEF Later
<1>12. Queued' /\ InHand' /\ (CaptionedTo <= Taken)'
  BY <1>1, <1>5 DEF RunInv, RunParts, Queued, InHand
<1>13. SegmentVoiced' /\ CaptionsVoiced'
  BY <1>1, <1>10 DEF RunInv, RunParts, SegmentVoiced, CaptionsVoiced, Voiced
<1>14. Flushed'
  BY <1>1, <1>6 DEF Flushed
<1> QED BY <1>9, <1>11, <1>12, <1>13, <1>14 DEF RunParts

\* The last element of a run that ends with a chunk.
LEMMA RunEnd ==
  ASSUME NEW s \in Seq(0 .. MaxHeard), Voiced(s), NEW last \in Nat,
         NEW g \in 0 .. Len(s), Runs(s, g, last)
  PROVE  s[Len(s)] <= last /\ s[Len(s)] \in Nat /\ Len(s) > 0
<1>0. s # <<>>
  BY DEF Voiced
<1>1. Len(s) \in Nat /\ Len(s) > 0 /\ Len(s) \in DOMAIN s /\ s[Len(s)] \in Nat
  <2>1. Len(s) \in Nat /\ Len(s) > 0 /\ Len(s) \in 1 .. Len(s) /\ DOMAIN s = 1 .. Len(s)
    BY <1>0
  <2>2. s[Len(s)] \in 0 .. MaxHeard
    BY <2>1, ElementOfSeq
  <2> QED BY <2>1, <2>2
<1>2. s[Len(s)] = last - (Len(s) - Len(s)) - (IF Len(s) <= g THEN 1 ELSE 0)
  BY <1>1 DEF Voiced, Runs
<1>3. Len(s) - Len(s) = 0
  BY <1>1
<1> QED BY <1>1, <1>2, <1>3

LEMMA CacheRuns ==
  ASSUME RunInv, CacheCaption
  PROVE  RunParts'
<1>1. /\ pc = "transcribe" /\ pc' = "clear"
      /\ caption_cache' = Append(caption_cache, speech)
      /\ UNCHANGED <<heard, q, speech, recording, interrupted>>
  BY DEF CacheCaption, Go
<1>2. /\ speech \in Seq(0 .. MaxHeard) /\ caption_cache \in Seq(Seq(0 .. MaxHeard))
      /\ Taken \in Nat
  BY TakenIs DEF RunInv, PadInv, TypeInv, TypeOK
<1>3. Voiced(speech)
  BY <1>1 DEF RunInv, RunParts, SegmentVoiced, InSegment
<1>4. PICK g \in 0 .. Len(speech) : Gap(g) /\ Runs(speech, g, Taken)
  BY DEF RunInv, RunParts, Buffered
<1>5. Appended(caption_cache, caption_cache', speech)
  BY <1>1, <1>2, AppendIs
<1>6. caption_cache' # <<>> /\ caption_cache'[Len(caption_cache')] = speech
  BY <1>1, <1>2, <1>5 DEF Appended
<1>7. Taken' = Taken /\ CaptionedTo' = speech[Len(speech)]
  BY <1>1, <1>6 DEF Taken, CaptionedTo
<1>8. (CaptionedTo <= Taken)'
  BY <1>2, <1>3, <1>4, <1>7, RunEnd
<1>9. Buffered'
  <2>1. Gap(g)' /\ Runs(speech, g, Taken)'
    BY <1>1, <1>4, <1>7 DEF Gap, Runs
  <2> QED BY <1>1, <2>1 DEF Buffered
<1>10. Later'
  BY <1>1 DEF Later, InOrder, InLoop
<1>11. CaptionsVoiced'
  <2>1. \A k \in DOMAIN caption_cache' : \/ k \in DOMAIN caption_cache
                                            /\ caption_cache'[k] = caption_cache[k]
                                         \/ caption_cache'[k] = speech
    BY <1>5 DEF Appended
  <2>2. \A k \in DOMAIN caption_cache' : Voiced(caption_cache'[k])
    BY <1>3, <2>1 DEF RunInv, RunParts, CaptionsVoiced
  <2> QED BY <2>2 DEF CaptionsVoiced, Voiced
<1>12. SegmentVoiced' /\ Queued' /\ InHand'
  BY <1>1, <1>3, <1>7 DEF RunInv, RunParts, SegmentVoiced, Voiced, Queued, InHand
<1>13. Flushed'
  <2>1. CASE ~interrupted
    BY <1>1, <2>1 DEF Flushed
  <2>2. CASE interrupted
    <3>1. q = <<>>
      BY <1>1, <2>2 DEF RunInv, RunParts, Flushed
    <3>2. Taken = heard
      <4>1. heard = Taken + Len(q) /\ Len(q) = 0
        BY <3>1, TakenIs DEF RunInv
      <4> QED BY <1>2, <4>1
    <3>3. Voiced(speech) /\ Runs(speech, g, heard')
      BY <1>1, <1>3, <1>4, <3>2
    <3>4. FlushRun(caption_cache[Len(caption_cache)])'
      BY <1>6, <3>3 DEF FlushRun, Voiced, Runs
    <3> QED BY <1>1, <1>6, <3>1, <3>4 DEF Flushed
  <2> QED BY <2>1, <2>2
<1> QED BY <1>8, <1>9, <1>10, <1>11, <1>12, <1>13 DEF RunParts

LEMMA ClearRuns ==
  ASSUME RunInv, Clear
  PROVE  RunParts'
<1>1. /\ pc = "clear" /\ pc' = returns /\ speech' = [i \in DOMAIN speech |-> Zero]
      /\ UNCHANGED <<heard, q, recording, caption_cache, interrupted>>
  BY DEF Clear, Go
<1>2. /\ pc' \in {"get", "reset", "done"}
      /\ interrupted => pc' = "done"
      /\ ~interrupted => ~recording
  BY <1>1 DEF RunInv, PadInv, VadInv, Handling, Agreement, InLoop
<1>3. /\ Len(speech) \in Nat /\ DOMAIN speech = 1 .. Len(speech)
  BY SpeechIs DEF RunInv
<1>4. DOMAIN speech' = DOMAIN speech /\ \A i \in DOMAIN speech' : speech'[i] = Zero
  BY <1>1
<1>5. Taken' = Taken /\ CaptionedTo' = CaptionedTo
  BY <1>1 DEF Taken, CaptionedTo
<1>6. Buffered'
  <2>1. Runs(speech, 0, Taken)' /\ Gap(0)'
    BY <1>2, <1>4 DEF Runs, Gap
  <2>2. 0 \in 0 .. Len(speech')
    <3>1. Len(speech') = Len(speech)
      BY <1>1, <1>3
    <3> QED BY <1>3, <3>1
  <2> QED BY <2>1, <2>2 DEF Buffered
<1>7. Later'
  BY <1>4 DEF Later
<1>8. SegmentVoiced'
  BY <1>1, <1>2 DEF SegmentVoiced, InSegment
<1>9. CaptionsVoiced'
  BY <1>1 DEF RunInv, RunParts, CaptionsVoiced, Voiced
<1>10. Queued' /\ InHand' /\ (CaptionedTo <= Taken)'
  BY <1>1, <1>2, <1>5 DEF RunInv, RunParts, Queued, InHand
<1>11. Flushed'
  BY <1>1, <1>2 DEF RunInv, RunParts, Flushed, FlushRun, Voiced, Runs
<1> QED BY <1>6, <1>7, <1>8, <1>9, <1>10, <1>11 DEF RunParts

LEMMA DrainRuns ==
  ASSUME RunInv, Drain
  PROVE  RunParts'
<1>1. /\ pc = "drain" /\ pc' = pc /\ q # <<>> /\ q' = Tail(q)
      /\ speech' = Append(speech, Head(q))
      /\ UNCHANGED <<heard, recording, caption_cache, interrupted>>
  BY DEF Drain
<1>2. /\ Head(q) = Taken + 1 /\ Taken' = Taken + 1 /\ Queued' /\ Taken \in Nat
      /\ Head(q) \in 1 .. MaxHeard
  BY <1>1, TakeNext
<1>3. interrupted
  BY <1>1 DEF RunInv, PadInv, VadInv, Handling, InLoop
<1>4. CaptionedTo' = CaptionedTo
  BY <1>1 DEF CaptionedTo
<1>5. Appended(speech, speech', Head(q)) /\ Len(speech) \in Nat
  <2>1. speech \in Seq(0 .. MaxHeard) /\ Head(q) \in 0 .. MaxHeard
    BY <1>2, SpeechIs DEF RunInv
  <2>2. Appended(speech, Append(speech, Head(q)), Head(q))
    BY <2>1, AppendIs
  <2> QED BY <1>1, <2>1, <2>2
<1>6. Buffered'
  <2>1. PICK g \in 0 .. Len(speech) : Runs(speech, g, Taken)
    BY DEF RunInv, RunParts, Buffered
  <2>2. Runs(speech', g, Head(q))
    BY <1>2, <1>5, <2>1, AppendedRuns
  <2>3. Runs(speech, g, Taken)' /\ Gap(g)'
    BY <1>1, <1>2, <1>3, <2>2 DEF Runs, Gap
  <2>4. g \in 0 .. Len(speech')
    BY <1>5, <2>1 DEF Appended
  <2> QED BY <2>3, <2>4 DEF Buffered
<1>7. Voiced(speech')
  BY <1>1, <1>2, <1>5 DEF Voiced, Appended, Zero
<1>8. CaptionedTo < Taken + 1 /\ CaptionedTo <= Taken + 1
  <2>1. CaptionedTo <= Taken /\ CaptionedTo \in Nat
    BY CaptionedToIs DEF RunInv, RunParts
  <2> QED BY <1>2, <2>1
<1>9. Later'
  <2>1. \A i \in DOMAIN speech : speech[i] # Zero => CaptionedTo < speech[i]
    BY <1>1 DEF RunInv, RunParts, Later, InOrder
  <2>2. \A i \in DOMAIN speech' : speech'[i] # Zero => CaptionedTo < speech'[i]
    BY <1>2, <1>5, <1>8, <2>1 DEF Appended
  <2> QED BY <1>4, <2>2 DEF Later
<1>10. SegmentVoiced' /\ CaptionsVoiced'
  BY <1>1, <1>7 DEF RunInv, RunParts, SegmentVoiced, CaptionsVoiced, Voiced
<1>11. InHand' /\ (CaptionedTo <= Taken)'
  BY <1>1, <1>2, <1>4, <1>8 DEF InHand
<1>12. Flushed'
  BY <1>1 DEF Flushed
<1> QED BY <1>2, <1>6, <1>9, <1>10, <1>11, <1>12 DEF RunParts

LEMMA InitRunInv == Init => RunInv
<1> SUFFICES ASSUME Init PROVE RunParts
  BY InitPadInv DEF RunInv
<1>1. /\ q = <<>> /\ speech = <<>> /\ caption_cache = <<>> /\ pc = "get"
      /\ heard = 0 /\ ~interrupted /\ ~recording
  BY DEF Init
<1>2. /\ Len(q) = 0 /\ Len(speech) = 0 /\ DOMAIN speech = {}
      /\ DOMAIN caption_cache = {} /\ Taken = 0 /\ CaptionedTo = 0
  <2>1. Len(q) = 0 /\ Len(speech) = 0 /\ DOMAIN speech = {} /\ DOMAIN caption_cache = {}
    BY <1>1
  <2>2. Taken = 0
    <3>1. heard = 0 /\ Len(q) = 0
      BY <1>1, <2>1
    <3> QED BY ONLY <3>1 DEF Taken
  <2>3. CaptionedTo = 0
    BY <1>1 DEF CaptionedTo
  <2> QED BY <2>1, <2>2, <2>3
<1>3. Buffered
  <2>1. Gap(0) /\ Runs(speech, 0, Taken) /\ 0 \in 0 .. Len(speech)
    BY <1>1, <1>2 DEF Gap, Runs
  <2> QED BY <2>1 DEF Buffered
<1>4. Queued /\ InHand /\ CaptionedTo <= Taken
  BY <1>1, <1>2 DEF Queued, InHand
<1>5. SegmentVoiced /\ Later /\ CaptionsVoiced /\ Flushed
  BY <1>1, <1>2 DEF SegmentVoiced, InSegment, Later, CaptionsVoiced, Flushed
<1> QED BY <1>3, <1>4, <1>5 DEF RunParts

LEMMA NextRunInv == RunInv /\ [Next]_vars => RunInv'
<1> SUFFICES ASSUME RunInv, [Next]_vars PROVE RunParts'
  BY NextPadInv DEF RunInv
<1>1. CASE UNCHANGED vars
  <2>1. /\ UNCHANGED <<heard, q, pc, chunk, speech, recording, caption_cache, interrupted>>
    BY <1>1 DEF vars, loop
  <2> QED BY <2>1 DEF RunInv, RunParts, Taken, CaptionedTo, Queued, InHand, Buffered, Gap,
             Runs, SegmentVoiced, InSegment, Voiced, Later, InOrder, CaptionsVoiced,
             Flushed, FlushRun
<1> QED BY <1>1, InputRuns, GetRuns, ConcatenateRuns, LoopRunsStay, CacheRuns, ClearRuns,
           DrainRuns, HandlerRunsStay DEF Next, Main
-----------------------------------------------------------------------------
(* The audio of a caption.                                                 *)

LEMMA PadIs ==
  ASSUME NEW s, Len(s) \in Nat, DOMAIN s = 1 .. Len(s), NEW z \in 0 .. Len(s), PadOf(s, z)
  PROVE  Pad(s) = z
<1> DEFINE P(n) == /\ \A i \in 1 .. n : s[i] = Zero
                   /\ n < Len(s) => s[n + 1] # Zero
<1>1. P(z)
  BY DEF PadOf
<1>2. ASSUME NEW n \in 0 .. Len(s), P(n) PROVE n = z
  <2>1. CASE n < z
    <3>1. n + 1 \in DOMAIN s /\ n + 1 <= z
      BY <2>1
    <3> QED BY <1>2, <2>1, <3>1 DEF PadOf
  <2>2. CASE n > z
    <3>1. z + 1 \in DOMAIN s /\ z + 1 \in 1 .. n /\ ~(z + 1 <= z)
      BY <2>2
    <3> QED BY <1>2, <3>1 DEF PadOf
  <2> QED BY <2>1, <2>2
<1> QED BY <1>1, <1>2 DEF Pad

\* Each chunk is the one after its predecessor, save that one chunk is missing
\* after the first h.
Consecutive(a, h, last) ==
  \A i \in 1 .. Len(a) : a[i] = last - (Len(a) - i) - (IF i <= h THEN 1 ELSE 0)

\* The audio of a buffer is what follows its first z chunks, the zeros.
AfterZeros(a, s, z) ==
  /\ Len(a) \in Nat /\ Len(a) > 0 /\ DOMAIN a = 1 .. Len(a) /\ z + Len(a) = Len(s)
  /\ a[Len(a)] = s[Len(s)]
  /\ \A i \in 1 .. Len(a) : /\ a[i] = s[z + i] /\ z + i \in DOMAIN s /\ s[z + i] # Zero
                           /\ i \in Nat

LEMMA AudioIsAfterZeros ==
  ASSUME NEW s \in Seq(0 .. MaxHeard), Voiced(s), Padded(s)
  PROVE  \E z \in Nat : AfterZeros(Audio(s), s, z)
<1> DEFINE a == Audio(s)
<1>1. PICK z \in 0 .. Len(s) : PadOf(s, z)
  BY DEF Padded
<1>2. Len(s) \in Nat /\ DOMAIN s = 1 .. Len(s) /\ Len(s) > 0 /\ Len(s) \in DOMAIN s
  <2>1. s # <<>>
    BY DEF Voiced
  <2> QED BY <2>1
<1>3. z \in Nat /\ z < Len(s)
  <2>1. ~(Len(s) <= z)
    BY <1>1, <1>2 DEF PadOf, Voiced
  <2> QED BY <1>1, <1>2, <2>1
<1>4. a = SubSeq(s, z + 1, Len(s))
  BY <1>1, <1>2, PadIs DEF Audio
<1> HIDE DEF a
<1>5. /\ Len(a) = Len(s) - z /\ DOMAIN a = 1 .. Len(a)
      /\ \A i \in 1 .. Len(s) - z : a[i] = s[z + i]
  <2>1. \A i \in z + 1 .. Len(s) : s[i] \in 0 .. MaxHeard
    <3>1. \A i \in z + 1 .. Len(s) : i \in 1 .. Len(s)
      BY <1>2, <1>3
    <3> QED BY <3>1, ElementOfSeq
  <2>2. z + 1 \in Int /\ Len(s) \in Int /\ z + 1 <= Len(s) /\ Len(s) - (z + 1) + 1 = Len(s) - z
    BY <1>2, <1>3
  <2>3. /\ a \in Seq(0 .. MaxHeard) /\ Len(a) = Len(s) - z
        /\ \A i \in 1 .. Len(s) - z : a[i] = s[(z + 1) + i - 1]
    BY <1>4, <2>1, <2>2, SubSeqProperties
  <2>4. \A i \in 1 .. Len(s) - z : (z + 1) + i - 1 = z + i
    BY <1>2, <1>3
  <2>5. DOMAIN a = 1 .. Len(a)
    BY <2>3
  <2> QED BY <2>3, <2>4, <2>5
<1>6. Len(a) \in Nat /\ Len(a) > 0 /\ z + Len(a) = Len(s)
  BY <1>2, <1>3, <1>5
<1>7. a[Len(a)] = s[Len(s)]
  <2>1. Len(a) \in 1 .. Len(s) - z
    BY <1>5, <1>6
  <2> QED BY <1>5, <1>6, <2>1
<1>8. \A i \in 1 .. Len(a) : /\ a[i] = s[z + i] /\ z + i \in DOMAIN s /\ s[z + i] # Zero
                             /\ i \in Nat
  <2> TAKE i \in 1 .. Len(a)
  <2>1. z + i \in DOMAIN s /\ ~(z + i <= z) /\ i \in 1 .. Len(s) - z /\ i \in Nat
    BY <1>2, <1>3, <1>5, <1>6
  <2> QED BY <1>1, <1>5, <2>1 DEF PadOf
<1>9. AfterZeros(a, s, z)
  BY <1>5, <1>6, <1>7, <1>8 DEF AfterZeros
<1> QED BY <1>3, <1>9 DEF a

\* The audio of a buffer is a run of chunks that ends as the buffer does.
AudioOf(a, s, g, last) ==
  /\ Len(a) \in Nat /\ Len(a) > 0 /\ a[Len(a)] = s[Len(s)] /\ DOMAIN a = 1 .. Len(a)
  /\ \E h \in 0 .. Len(a) : (g = 0 => h = 0) /\ Consecutive(a, h, last)
  /\ \E i \in DOMAIN s : s[i] # Zero /\ a[1] = s[i]

LEMMA AudioIs ==
  ASSUME NEW s \in Seq(0 .. MaxHeard), Voiced(s), Padded(s),
         NEW last \in Nat, NEW g \in 0 .. Len(s), Runs(s, g, last)
  PROVE  AudioOf(Audio(s), s, g, last)
<1> DEFINE a == Audio(s)
<1>1. PICK z \in Nat : AfterZeros(a, s, z)
  BY AudioIsAfterZeros
<1>2. Len(s) \in Nat
  OBVIOUS
<1> HIDE DEF a
<1>3. AfterZeros(a, s, z) /\ z \in Nat
  BY <1>1
<1>4. Len(a) \in Nat /\ Len(a) > 0 /\ z + Len(a) = Len(s)
  BY <1>1 DEF AfterZeros
<1>9. \E i \in DOMAIN s : s[i] # Zero /\ a[1] = s[i]
  <2>1. 1 \in 1 .. Len(a)
    BY <1>3 DEF AfterZeros
  <2> QED BY <1>3, <2>1 DEF AfterZeros
<1>10. \E h \in 0 .. Len(a) : (g = 0 => h = 0) /\ Consecutive(a, h, last)
  <2> DEFINE h == IF g <= z THEN 0 ELSE g - z
  <2>1. h \in 0 .. Len(a) /\ (g = 0 => h = 0)
    BY <1>2, <1>3, <1>4
  <2>2. \A i \in 1 .. Len(a) : i <= h <=> z + i <= g
    BY <1>2, <1>3, <1>4
  <2> HIDE DEF h
  <2>3. ASSUME NEW i \in 1 .. Len(a)
        PROVE  a[i] = last - (Len(a) - i) - (IF i <= h THEN 1 ELSE 0)
    <3>1. a[i] = last - (Len(s) - (z + i)) - (IF z + i <= g THEN 1 ELSE 0)
      BY <1>3 DEF Runs, AfterZeros
    <3>2. Len(s) - (z + i) = Len(a) - i
      BY <1>2, <1>3, <1>4
    <3> QED BY <2>2, <3>1, <3>2
  <2>4. Consecutive(a, h, last)
    BY <2>3 DEF Consecutive
  <2> QED BY <2>1, <2>4
<1> QED BY <1>3, <1>9, <1>10 DEF AudioOf, AfterZeros, a

\* A run to `last` lacks at most one of the chunks that it spans.
LEMMA OneMissing ==
  ASSUME NEW a, Len(a) \in Nat, Len(a) > 0, DOMAIN a = 1 .. Len(a), NEW last \in Nat,
         NEW h \in 0 .. Len(a), Consecutive(a, h, last)
  PROVE  (a[1] .. last) \ ToSet(a) \subseteq {last - (Len(a) - h)}
<1> SUFFICES ASSUME NEW x \in a[1] .. last, x # last - (Len(a) - h)
             PROVE  \E i \in DOMAIN a : a[i] = x
  BY DEF ToSet
<1>1. a[1] = last - (Len(a) - 1) - (IF 1 <= h THEN 1 ELSE 0)
  <2>1. 1 \in 1 .. Len(a)
    OBVIOUS
  <2> QED BY <2>1 DEF Consecutive
<1>2. a[1] \in Int /\ x \in Int /\ a[1] <= x /\ x <= last /\ h \in Nat /\ h <= Len(a)
  BY <1>1
<1>3. CASE x > last - (Len(a) - h)
  <2> DEFINE i == x - last + Len(a)
  <2>1. i \in 1 .. Len(a) /\ ~(i <= h) /\ last - (Len(a) - i) = x
    BY <1>1, <1>2, <1>3
  <2> HIDE DEF i
  <2>2. a[i] = last - (Len(a) - i) - (IF i <= h THEN 1 ELSE 0)
    BY <2>1 DEF Consecutive
  <2>3. a[i] = x
    BY <1>2, <2>1, <2>2
  <2> QED BY <2>1, <2>3
<1>4. CASE x < last - (Len(a) - h)
  <2> DEFINE i == x - last + Len(a) + 1
  <2>1. 1 <= h
    BY <1>1, <1>2, <1>4
  <2>2. i \in 1 .. Len(a) /\ i <= h /\ last - (Len(a) - i) - 1 = x
    BY <1>1, <1>2, <1>4, <2>1
  <2> HIDE DEF i
  <2>3. a[i] = last - (Len(a) - i) - (IF i <= h THEN 1 ELSE 0)
    BY <2>2 DEF Consecutive
  <2>4. a[i] = x
    BY <2>2, <2>3
  <2> QED BY <2>2, <2>4
<1> QED BY <1>2, <1>3, <1>4

\* The segment that Ctrl+C finds open is cached with everything the stream
\* delivered until it was closed, save at most the chunk in hand: whatever is in
\* the buffer is a run of chunks that the queue goes on with.
THEOREM FlushIsComplete == Spec => []FlushComplete
<1>1. ASSUME RunInv, pc = "done", recording
      PROVE  LET run == Audio(Last(caption_cache))
             IN  Cardinality((run[1] .. heard) \ ToSet(run)) <= 1
  <2> DEFINE s == caption_cache[Len(caption_cache)]
             a == Audio(s)
             lost == (a[1] .. heard) \ ToSet(a)
  <2>1. interrupted
    BY <1>1 DEF RunInv, PadInv, VadInv, Handling, InLoop
  <2>2. caption_cache # <<>> /\ FlushRun(s)
    BY <1>1, <2>1 DEF RunInv, RunParts, Flushed
  <2>3. caption_cache \in Seq(Seq(0 .. MaxHeard)) /\ heard \in Nat
    BY <1>1, TakenIs DEF RunInv, PadInv, TypeInv, TypeOK
  <2>4. Len(caption_cache) \in DOMAIN caption_cache
    BY <2>2, <2>3
  <2>5. s \in Seq(0 .. MaxHeard) /\ Padded(s)
    BY <1>1, <2>3, <2>4, ShortIsPad DEF RunInv, PadInv, Padding
  <2>6. Last(caption_cache) = s
    BY DEF Last
  <2> HIDE DEF s
  <2>7. PICK g \in 0 .. Len(s) : Runs(s, g, heard)
    BY <2>2 DEF FlushRun
  <2>8. AudioOf(a, s, g, heard)
    BY <2>2, <2>3, <2>5, <2>7, AudioIs DEF FlushRun
  <2> HIDE DEF a
  <2>9. PICK m : lost \subseteq {m}
    <3>1. PICK h \in 0 .. Len(a) : Consecutive(a, h, heard)
      BY <2>8 DEF AudioOf
    <3>2. Len(a) \in Nat /\ Len(a) > 0 /\ DOMAIN a = 1 .. Len(a)
      BY <2>8 DEF AudioOf
    <3>3. lost \subseteq {heard - (Len(a) - h)}
      BY <2>3, <3>1, <3>2, OneMissing
    <3> QED BY <3>3
  <2> HIDE DEF lost
  <2>10. IsFiniteSet({m}) /\ Cardinality({m}) = 1
    BY FS_Singleton
  <2>11. Cardinality(lost) <= 1
    BY <2>9, <2>10, FS_Subset
  <2> QED BY <2>6, <2>11 DEF lost, a
<1>2. RunInv => FlushComplete
  BY <1>1 DEF FlushComplete
<1> QED BY <1>2, InitRunInv, NextRunInv, PTL DEF Spec
-----------------------------------------------------------------------------
(* Either program takes its own steps only.                                *)

LEMMA CaptionersStep ==
  ASSUME [MoonshineNext \/ VoskNext]_<<vars, program, vosk>>
  PROVE  [Next]_vars /\ [Vosk!Next]_(Vosk!vars)
<1>1. UNCHANGED vosk => UNCHANGED Vosk!vars
  BY DEF vosk, Vosk!vars
<1>2. CASE MoonshineNext
  BY <1>1, <1>2 DEF MoonshineNext
<1>3. CASE VoskNext
  BY <1>3 DEF VoskNext
<1>4. CASE UNCHANGED <<vars, program, vosk>>
  BY <1>1, <1>4
<1> QED BY <1>2, <1>3, <1>4

\* Whatever is proved of the Moonshine program alone holds while the Vosk one may
\* have been started instead.
LEMMA CaptionersLoop == CaptionersSpec => Spec
<1>1. StartInit => Init
  BY DEF StartInit
<1> QED BY <1>1, CaptionersStep, PTL DEF CaptionersSpec, Spec
-----------------------------------------------------------------------------
(* The blocks of the Vosk program.                                         *)

VoskTypes ==
  /\ v_heard \in Nat /\ v_q \in Seq(Nat) /\ v_data \in Seq(Nat)
  /\ v_text \in Seq(Nat) /\ v_utterance \in Seq(Nat) /\ v_result \in Seq(Seq(Nat))

\* Nothing is left of the block and of the text when they are used again, and
\* no text is asked for when nothing was accepted since the last one.
Handed ==
  /\ v_pc \in {"get", "result", "append"} => v_data = <<>>
  /\ v_pc \in {"get", "accept", "result"} => v_text = <<>>
  /\ v_pc = "accept" => v_data # <<>>
  /\ v_pc = "result" => v_utterance # <<>>
  /\ v_pc = "append" => v_text # <<>>

\* The last text ends with the last block that is in any.
LastText ==
  v_result # <<>> =>
    LET t == v_result[Len(v_result)]
    IN  t # <<>> /\ t[Len(t)] = Len(FlattenSeq(v_result))

LEMMA SameFlatten ==
  ASSUME NEW s
  PROVE  Vosk!FlattenSeq(s) = FlattenSeq(s)
BY DEF FlattenSeq, Vosk!FlattenSeq

\* The places of the blocks in their order.
Places(texts, text, utterance, data, queue) ==
  Joined(Joined(Joined(Joined(texts, text), utterance), data), queue)

Counting(n) == [i \in 1 .. n |-> i]

Placed ==
  Places(FlattenSeq(v_result), v_text, v_utterance, v_data, v_q) = Counting(v_heard)

VoskInv == VoskTypes /\ Handed /\ Placed /\ LastText

LEMMA PlacedIsKept == Placed => VoskKeepsAll
BY SameFlatten DEF Placed, VoskKeepsAll, Vosk!KeepsAll, Joined, Places, Counting

LEMMA JoinedType ==
  ASSUME NEW a \in Seq(Nat), NEW b \in Seq(Nat)
  PROVE  /\ Joined(a, b) \in Seq(Nat)
         /\ Joined(a, <<>>) = a
BY ConcatProperties, ConcatEmptySeq DEF Joined

LEMMA FirstAndRest ==
  ASSUME NEW S, NEW first \in Seq(S), NEW rest \in Seq(S), NEW w \in Seq(S),
         Len(w) = Len(first) + Len(rest),
         \A k \in 1 .. Len(first) : w[k] = first[k],
         \A k \in 1 .. Len(rest) : w[Len(first) + k] = rest[k]
  PROVE  Joined(first, rest) = w
<1> DEFINE all == Joined(first, rest)
<1>1. /\ all \in Seq(S) /\ Len(all) = Len(first) + Len(rest)
      /\ \A k \in 1 .. Len(first) : all[k] = first[k]
      /\ \A k \in 1 .. Len(rest) : all[Len(first) + k] = rest[k]
  <2>1. all \in Seq(S) /\ Len(all) = Len(first) + Len(rest)
    BY JoinedIs
  <2>2. \A k \in 1 .. Len(first) : all[k] = first[k]
    BY JoinedIs
  <2>3. \A k \in 1 .. Len(rest) : all[Len(first) + k] = rest[k]
    BY JoinedIs
  <2> QED BY <2>1, <2>2, <2>3
<1> HIDE DEF all
<1>2. Len(first) \in Nat /\ Len(rest) \in Nat
  OBVIOUS
<1>3. ASSUME NEW i \in 1 .. Len(w) PROVE all[i] = w[i]
  <2>1. CASE i <= Len(first)
    <3>1. i \in 1 .. Len(first)
      BY <2>1, <1>2
    <3> QED BY <1>1, <3>1
  <2>2. CASE i > Len(first)
    <3>1. i - Len(first) \in 1 .. Len(rest) /\ Len(first) + (i - Len(first)) = i
      BY <1>2, <2>2
    <3> QED BY <1>1, <3>1
  <2> QED BY <1>2, <2>1, <2>2
<1>4. all = w
  BY <1>1, <1>3, SeqEqual
<1> QED BY <1>4 DEF all

LEMMA HeadAndTail ==
  ASSUME NEW S, NEW w \in Seq(S), w # <<>>
  PROVE  /\ <<Head(w)>> \in Seq(S) /\ Tail(w) \in Seq(S)
         /\ Joined(<<Head(w)>>, Tail(w)) = w
<1> DEFINE first == <<Head(w)>>
           rest  == Tail(w)
<1>1. /\ Head(w) \in S /\ rest \in Seq(S) /\ Len(rest) = Len(w) - 1
      /\ \A i \in 1 .. Len(rest) : rest[i] = w[i + 1]
  BY HeadTailProperties
<1>2. Head(w) = w[1] /\ Len(w) \in Nat /\ Len(w) > 0
  OBVIOUS
<1>3. first \in Seq(S) /\ Len(first) = 1 /\ first[1] = w[1]
  BY <1>1, <1>2
<1> HIDE DEF first, rest
<1>4. Len(w) = Len(first) + Len(rest) /\ Len(rest) \in Nat
  BY <1>1, <1>2, <1>3
<1>5. \A k \in 1 .. Len(first) : w[k] = first[k]
  BY <1>3
<1>6. \A k \in 1 .. Len(rest) : w[Len(first) + k] = rest[k]
  <2> TAKE k \in 1 .. Len(rest)
  <2>1. Len(first) + k = k + 1
    BY <1>3, <1>4
  <2> QED BY <1>1, <2>1
<1>7. first \in Seq(S) /\ rest \in Seq(S)
  BY <1>1, <1>3
<1>8. Joined(first, rest) = w
  BY <1>4, <1>5, <1>6, <1>7, FirstAndRest
<1> QED BY <1>7, <1>8 DEF first, rest

\* What is at the front of a place may move to the empty place before it.
LEMMA GetMoves ==
  ASSUME NEW a \in Seq(Nat), NEW t \in Seq(Nat), NEW u \in Seq(Nat),
         NEW w \in Seq(Nat), w # <<>>
  PROVE  Places(a, t, u, <<>>, w) = Places(a, t, u, <<Head(w)>>, Tail(w))
<1> DEFINE atu   == Joined(Joined(a, t), u)
           first == <<Head(w)>>
           rest  == Tail(w)
<1>1. atu \in Seq(Nat) /\ Joined(atu, <<>>) = atu
  <2>1. Joined(a, t) \in Seq(Nat)
    BY JoinedType
  <2>2. atu \in Seq(Nat)
    BY <2>1, JoinedType
  <2> HIDE DEF atu
  <2> QED BY <2>2, JoinedType
<1>2. first \in Seq(Nat) /\ rest \in Seq(Nat) /\ Joined(first, rest) = w
  BY HeadAndTail
<1> HIDE DEF atu, first, rest
<1>3. Joined(Joined(atu, first), rest) = Joined(atu, Joined(first, rest))
  BY <1>1, <1>2, JoinedAssociative
<1> QED BY <1>1, <1>2, <1>3 DEF Places, atu, first, rest

LEMMA AcceptMoves ==
  ASSUME NEW a \in Seq(Nat), NEW t \in Seq(Nat), NEW u \in Seq(Nat), NEW d \in Seq(Nat),
         NEW w \in Seq(Nat)
  PROVE  Places(a, t, u, d, w) = Places(a, t, Joined(u, d), <<>>, w)
<1> DEFINE at == Joined(a, t)
           ud == Joined(u, d)
<1>1. at \in Seq(Nat) /\ ud \in Seq(Nat)
  BY JoinedType
<1> HIDE DEF at
<1>2. Joined(Joined(at, u), d) = Joined(at, ud)
  BY <1>1, JoinedAssociative
<1> HIDE DEF ud
<1>3. Joined(Joined(at, ud), <<>>) = Joined(at, ud)
  <2>1. Joined(at, ud) \in Seq(Nat)
    BY <1>1, JoinedType
  <2> QED BY <2>1, JoinedType
<1> QED BY <1>2, <1>3 DEF Places, at, ud

LEMMA ResultMoves ==
  ASSUME NEW a \in Seq(Nat), NEW u \in Seq(Nat), NEW d \in Seq(Nat), NEW w \in Seq(Nat)
  PROVE  Places(a, <<>>, u, d, w) = Places(a, u, <<>>, d, w)
<1>1. Joined(a, <<>>) = a /\ Joined(a, u) \in Seq(Nat)
  BY JoinedType
<1>2. Joined(Joined(a, u), <<>>) = Joined(a, u)
  BY <1>1, JoinedType
<1> QED BY <1>1, <1>2 DEF Places

LEMMA AppendMoves ==
  ASSUME NEW a \in Seq(Nat), NEW t \in Seq(Nat), NEW u \in Seq(Nat), NEW d \in Seq(Nat),
         NEW w \in Seq(Nat)
  PROVE  Places(a, t, u, d, w) = Places(Joined(a, t), <<>>, u, d, w)
<1>1. Joined(a, t) \in Seq(Nat)
  BY JoinedType
<1>2. Joined(Joined(a, t), <<>>) = Joined(a, t)
  BY <1>1, JoinedType
<1> QED BY <1>2 DEF Places

LEMMA NextCounted ==
  ASSUME NEW n \in Nat
  PROVE  Counting(n) \in Seq(Nat) /\ Append(Counting(n), n + 1) = Counting(n + 1)
BY DEF Counting

LEMMA PlacesType ==
  ASSUME VoskTypes
  PROVE  /\ FlattenSeq(v_result) \in Seq(Nat)
         /\ Joined(FlattenSeq(v_result), v_text) \in Seq(Nat)
         /\ Joined(Joined(FlattenSeq(v_result), v_text), v_utterance) \in Seq(Nat)
         /\ Joined(Joined(Joined(FlattenSeq(v_result), v_text), v_utterance), v_data) \in Seq(Nat)
<1>1. FlattenSeq(v_result) \in Seq(Nat)
  BY FlattenAppend DEF VoskTypes
<1> QED BY <1>1, JoinedType DEF VoskTypes

LEMMA InitVoskInv == Vosk!Init => VoskInv
<1> SUFFICES ASSUME Vosk!Init PROVE VoskInv
  OBVIOUS
<1>1. /\ v_heard = 0 /\ v_q = <<>> /\ v_data = <<>> /\ v_text = <<>>
      /\ v_utterance = <<>> /\ v_result = <<>> /\ v_pc = "get"
  BY DEF Vosk!Init
<1>2. VoskTypes /\ Handed /\ LastText
  BY <1>1 DEF VoskTypes, Handed, LastText
<1>3. Placed
  <2>1. FlattenSeq(v_result) = <<>>
    BY <1>1 DEF FlattenSeq
  <2>2. Joined(<<>>, <<>>) = <<>>
    BY DEF Joined
  <2>3. Counting(0) = <<>>
    BY DEF Counting
  <2> QED BY <1>1, <2>1, <2>2, <2>3 DEF Placed, Places
<1> QED BY <1>2, <1>3 DEF VoskInv

LEMMA CallbackKeeps ==
  ASSUME VoskInv, Vosk!Callback
  PROVE  VoskInv'
<1>1. /\ v_heard' = v_heard + 1 /\ v_q' = Append(v_q, v_heard + 1)
      /\ UNCHANGED <<v_pc, v_data, v_text, v_utterance, v_result>>
  BY DEF Vosk!Callback
<1>2. v_heard \in Nat /\ v_heard + 1 \in Nat /\ v_q \in Seq(Nat)
  BY DEF VoskInv, VoskTypes
<1>3. VoskTypes'
  BY <1>1, <1>2 DEF VoskInv, VoskTypes
<1>4. Placed'
  <2> DEFINE front == Joined(Joined(Joined(FlattenSeq(v_result), v_text), v_utterance), v_data)
  <2>1. front \in Seq(Nat)
    BY PlacesType DEF VoskInv
  <2>2. Joined(front, v_q) = Counting(v_heard)
    BY DEF VoskInv, Placed, Places
  <2> HIDE DEF front
  <2>3. Joined(front, Append(v_q, v_heard + 1)) = Append(Joined(front, v_q), v_heard + 1)
    BY <1>2, <2>1, AppendToConcat DEF Joined
  <2>4. Joined(front, Append(v_q, v_heard + 1)) = Counting(v_heard + 1)
    BY <1>2, <2>2, <2>3, NextCounted
  <2>5. Places(FlattenSeq(v_result), v_text, v_utterance, v_data, Append(v_q, v_heard + 1))
          = Counting(v_heard + 1)
    BY <2>4 DEF Places, front
  <2> QED BY <1>1, <2>5 DEF Placed
<1>5. Handed' /\ LastText'
  BY <1>1 DEF VoskInv, Handed, LastText
<1> QED BY <1>3, <1>4, <1>5 DEF VoskInv

LEMMA GetKeeps ==
  ASSUME VoskInv, Vosk!Get
  PROVE  VoskInv'
<1>1. /\ v_pc = "get" /\ v_q # <<>> /\ v_data' = <<Head(v_q)>> /\ v_q' = Tail(v_q)
      /\ v_pc' = "accept" /\ UNCHANGED <<v_heard, v_text, v_utterance, v_result>>
  BY DEF Vosk!Get
<1>2. v_data = <<>> /\ v_text = <<>>
  BY <1>1 DEF VoskInv, Handed
<1>3. v_q \in Seq(Nat)
  BY DEF VoskInv, VoskTypes
<1>4. VoskTypes'
  <2>1. <<Head(v_q)>> \in Seq(Nat) /\ Tail(v_q) \in Seq(Nat)
    BY <1>1, <1>3, HeadAndTail
  <2> QED BY <1>1, <2>1 DEF VoskInv, VoskTypes
<1>5. Placed'
  <2> DEFINE a == FlattenSeq(v_result)
  <2>1. a \in Seq(Nat) /\ v_text \in Seq(Nat) /\ v_utterance \in Seq(Nat)
    BY PlacesType DEF VoskInv, VoskTypes
  <2>2. Places(a, v_text, v_utterance, <<>>, v_q) = Counting(v_heard)
    BY <1>2 DEF VoskInv, Placed
  <2> HIDE DEF a
  <2>3. Places(a, v_text, v_utterance, <<>>, v_q)
          = Places(a, v_text, v_utterance, <<Head(v_q)>>, Tail(v_q))
    BY <1>1, <1>3, <2>1, GetMoves
  <2>4. Places(FlattenSeq(v_result), v_text, v_utterance, <<Head(v_q)>>, Tail(v_q))
          = Counting(v_heard)
    BY <2>2, <2>3 DEF a
  <2> QED BY <1>1, <2>4 DEF Placed
<1>6. Handed' /\ LastText'
  BY <1>1, <1>2 DEF VoskInv, Handed, LastText
<1> QED BY <1>4, <1>5, <1>6 DEF VoskInv

LEMMA AcceptKeeps ==
  ASSUME VoskInv, Vosk!AcceptWaveform
  PROVE  VoskInv'
<1>1. /\ v_pc = "accept" /\ v_utterance' = Joined(v_utterance, v_data) /\ v_data' = <<>>
      /\ v_pc' \in {"get", "result"} /\ UNCHANGED <<v_heard, v_q, v_text, v_result>>
  BY DEF Vosk!AcceptWaveform, Joined
<1>2. v_data # <<>> /\ v_text = <<>>
  BY <1>1 DEF VoskInv, Handed
<1>3. /\ v_utterance \in Seq(Nat) /\ v_data \in Seq(Nat) /\ v_q \in Seq(Nat)
      /\ v_text \in Seq(Nat)
  BY DEF VoskInv, VoskTypes
<1>4. Joined(v_utterance, v_data) \in Seq(Nat) /\ Joined(v_utterance, v_data) # <<>>
  <2>1. Len(Joined(v_utterance, v_data)) = Len(v_utterance) + Len(v_data)
    BY <1>3, JoinedIs
  <2>2. Len(v_utterance) \in Nat /\ Len(v_data) \in Nat /\ Len(v_data) > 0
    BY <1>2, <1>3
  <2>3. Joined(v_utterance, v_data) \in Seq(Nat)
    BY <1>3, JoinedType
  <2> QED BY <2>1, <2>2, <2>3
<1>5. VoskTypes'
  BY <1>1, <1>4 DEF VoskInv, VoskTypes
<1>6. Placed'
  <2> DEFINE a == FlattenSeq(v_result)
  <2>1. a \in Seq(Nat)
    BY PlacesType DEF VoskInv
  <2>2. Places(a, v_text, v_utterance, v_data, v_q) = Counting(v_heard)
    BY DEF VoskInv, Placed
  <2> HIDE DEF a
  <2>3. Places(a, v_text, v_utterance, v_data, v_q)
          = Places(a, v_text, Joined(v_utterance, v_data), <<>>, v_q)
    BY <1>3, <2>1, AcceptMoves
  <2>4. Places(FlattenSeq(v_result), v_text, Joined(v_utterance, v_data), <<>>, v_q)
          = Counting(v_heard)
    BY <2>2, <2>3 DEF a
  <2> QED BY <1>1, <2>4 DEF Placed
<1>7. Handed' /\ LastText'
  BY <1>1, <1>2, <1>4 DEF VoskInv, Handed, LastText
<1> QED BY <1>5, <1>6, <1>7 DEF VoskInv

LEMMA ResultKeeps ==
  ASSUME VoskInv, Vosk!Result
  PROVE  VoskInv'
<1>1. /\ v_pc = "result" /\ v_text' = v_utterance /\ v_utterance' = <<>>
      /\ v_pc' = "append" /\ UNCHANGED <<v_heard, v_q, v_data, v_result>>
  BY DEF Vosk!Result
<1>2. v_data = <<>> /\ v_text = <<>> /\ v_utterance # <<>>
  BY <1>1 DEF VoskInv, Handed
<1>3. v_utterance \in Seq(Nat) /\ v_data \in Seq(Nat) /\ v_q \in Seq(Nat)
  BY DEF VoskInv, VoskTypes
<1>4. VoskTypes'
  BY <1>1 DEF VoskInv, VoskTypes
<1>5. Placed'
  <2> DEFINE a == FlattenSeq(v_result)
  <2>1. a \in Seq(Nat)
    BY PlacesType DEF VoskInv
  <2>2. Places(a, <<>>, v_utterance, v_data, v_q) = Counting(v_heard)
    BY <1>2 DEF VoskInv, Placed
  <2> HIDE DEF a
  <2>3. Places(a, <<>>, v_utterance, v_data, v_q) = Places(a, v_utterance, <<>>, v_data, v_q)
    BY <1>3, <2>1, ResultMoves
  <2>4. Places(FlattenSeq(v_result), v_utterance, <<>>, v_data, v_q) = Counting(v_heard)
    BY <2>2, <2>3 DEF a
  <2> QED BY <1>1, <2>4 DEF Placed
<1>6. Handed' /\ LastText'
  BY <1>1, <1>2 DEF VoskInv, Handed, LastText
<1> QED BY <1>4, <1>5, <1>6 DEF VoskInv

\* The texts and the one in hand are the first blocks.
LEMMA TextsCount ==
  ASSUME NEW a \in Seq(Nat), NEW t \in Seq(Nat), NEW u \in Seq(Nat), NEW d \in Seq(Nat),
         NEW w \in Seq(Nat), NEW n \in Nat, Places(a, t, u, d, w) = Counting(n)
  PROVE  /\ Len(a) + Len(t) <= n
         /\ \A i \in 1 .. Len(a) + Len(t) : Joined(a, t)[i] = i
         /\ \A i \in 1 .. Len(t) : t[i] = Len(a) + i
<1> DEFINE at   == Joined(a, t)
           atu  == Joined(at, u)
           atud == Joined(atu, d)
           all  == Joined(atud, w)
<1>1. at \in Seq(Nat) /\ atu \in Seq(Nat) /\ atud \in Seq(Nat) /\ all \in Seq(Nat)
  BY JoinedType
<1>2. Len(at) = Len(a) + Len(t) /\ \A k \in 1 .. Len(t) : at[Len(a) + k] = t[k]
  <2>1. Len(at) = Len(a) + Len(t)
    BY JoinedIs
  <2>2. \A k \in 1 .. Len(t) : at[Len(a) + k] = t[k]
    BY JoinedIs
  <2> QED BY <2>1, <2>2
<1>3. Len(a) \in Nat /\ Len(t) \in Nat /\ Len(u) \in Nat /\ Len(d) \in Nat /\ Len(w) \in Nat
  OBVIOUS
<1>4. Len(all) = n /\ \A i \in 1 .. n : all[i] = i
  <2>1. all = Counting(n)
    BY DEF Places
  <2> HIDE DEF all
  <2> QED BY <2>1 DEF Counting
<1> HIDE DEF at
<1>5. Len(atu) = Len(at) + Len(u) /\ \A k \in 1 .. Len(at) : atu[k] = at[k]
  <2>1. at \in Seq(Nat)
    BY <1>1
  <2> QED BY <2>1, JoinedIs
<1> HIDE DEF atu
<1>6. Len(atud) = Len(atu) + Len(d) /\ \A k \in 1 .. Len(atu) : atud[k] = atu[k]
  <2>1. atu \in Seq(Nat)
    BY <1>1
  <2> QED BY <2>1, JoinedIs
<1> HIDE DEF atud
<1>7. Len(all) = Len(atud) + Len(w) /\ \A k \in 1 .. Len(atud) : all[k] = atud[k]
  <2>1. atud \in Seq(Nat)
    BY <1>1
  <2> QED BY <2>1, JoinedIs
<1> HIDE DEF all
<1>8. Len(a) + Len(t) <= n
  BY <1>2, <1>3, <1>4, <1>5, <1>6, <1>7
<1>9. ASSUME NEW i \in 1 .. Len(a) + Len(t) PROVE at[i] = i
  <2>1. i \in 1 .. Len(at) /\ i \in 1 .. Len(atu) /\ i \in 1 .. Len(atud) /\ i \in 1 .. n
    BY <1>2, <1>3, <1>5, <1>6, <1>8
  <2> QED BY <1>4, <1>5, <1>6, <1>7, <2>1
<1>10. ASSUME NEW i \in 1 .. Len(t) PROVE t[i] = Len(a) + i
  <2>1. Len(a) + i \in 1 .. Len(a) + Len(t)
    BY <1>3
  <2>2. at[Len(a) + i] = Len(a) + i
    BY <1>9, <2>1
  <2> QED BY <1>2, <2>2
<1> QED BY <1>8, <1>9, <1>10 DEF at

LEMMA AppendResultKeeps ==
  ASSUME VoskInv, Vosk!AppendResult
  PROVE  VoskInv'
<1>1. /\ v_pc = "append" /\ v_result' = Append(v_result, v_text) /\ v_text' = <<>>
      /\ v_pc' = "get" /\ UNCHANGED <<v_heard, v_q, v_data, v_utterance>>
  BY DEF Vosk!AppendResult
<1>2. v_data = <<>> /\ v_text # <<>>
  BY <1>1 DEF VoskInv, Handed
<1>3. /\ v_utterance \in Seq(Nat) /\ v_data \in Seq(Nat) /\ v_q \in Seq(Nat)
      /\ v_text \in Seq(Nat) /\ v_heard \in Nat /\ v_result \in Seq(Seq(Nat))
  BY DEF VoskInv, VoskTypes
<1> DEFINE a == FlattenSeq(v_result)
<1>4. a \in Seq(Nat) /\ FlattenSeq(v_result') = Joined(a, v_text)
  <2>1. FlattenSeq(Append(v_result, v_text)) = a \o v_text
    BY <1>3, FlattenAppend
  <2> QED BY <1>1, <2>1, PlacesType DEF VoskInv, Joined
<1>5. Places(a, v_text, v_utterance, v_data, v_q) = Counting(v_heard)
  BY DEF VoskInv, Placed
<1> HIDE DEF a
<1>6. VoskTypes'
  BY <1>1, <1>3 DEF VoskInv, VoskTypes
<1>7. Placed'
  <2>1. Places(Joined(a, v_text), <<>>, v_utterance, v_data, v_q) = Counting(v_heard)
    BY <1>3, <1>4, <1>5, AppendMoves
  <2> QED BY <1>1, <1>4, <2>1 DEF Placed
<1>8. Handed'
  BY <1>1, <1>2 DEF Handed
<1>9. LastText'
  <2>1. v_result'[Len(v_result')] = v_text
    BY <1>1, <1>3
  <2>2. Len(v_text) \in 1 .. Len(v_text)
    BY <1>2, <1>3
  <2>3. v_text[Len(v_text)] = Len(a) + Len(v_text)
    BY <1>3, <1>4, <1>5, <2>2, TextsCount
  <2>4. Len(Joined(a, v_text)) = Len(a) + Len(v_text)
    BY <1>3, <1>4, JoinedIs
  <2> QED BY <1>2, <1>4, <2>1, <2>3, <2>4 DEF LastText
<1> QED BY <1>6, <1>7, <1>8, <1>9 DEF VoskInv

LEMMA NextVoskInv == VoskInv /\ [Vosk!Next]_(Vosk!vars) => VoskInv'
<1> SUFFICES ASSUME VoskInv, [Vosk!Next]_(Vosk!vars) PROVE VoskInv'
  OBVIOUS
<1>1. CASE Vosk!Interrupt \/ Vosk!Fail \/ UNCHANGED Vosk!vars
  <2>1. /\ v_pc' \in {v_pc, "done", "failed"}
        /\ UNCHANGED <<v_heard, v_q, v_data, v_text, v_utterance, v_result>>
    BY <1>1 DEF Vosk!Interrupt, Vosk!Fail, Vosk!vars
  <2>2. VoskTypes' /\ Handed' /\ LastText'
    BY <2>1 DEF VoskInv, VoskTypes, Handed, LastText
  <2>3. Placed'
    BY <2>1 DEF VoskInv, Placed
  <2> QED BY <2>2, <2>3 DEF VoskInv
<1> QED BY <1>1, CallbackKeeps, GetKeeps, AcceptKeeps, ResultKeeps, AppendResultKeeps
        DEF Vosk!Next, Vosk!Main

\* Wherever the recognizer ends an utterance, the texts are made from all blocks
\* in their order, and what Ctrl+C loses was heard last: each statement of the
\* loop hands all that it takes to the next place.
THEOREM VoskKeepsAllBlocks == CaptionersSpec => []VoskKeepsAll
<1>1. StartInit => VoskInv
  BY InitVoskInv DEF StartInit
<1>2. VoskInv => VoskKeepsAll
  BY PlacedIsKept DEF VoskInv
<1> QED BY <1>1, <1>2, CaptionersStep, NextVoskInv, PTL DEF CaptionersSpec
-----------------------------------------------------------------------------
(* What both programs promise.                                             *)

\* How Promise reads the variables.
Audios == [k \in DOMAIN caption_cache |-> Audio(caption_cache[k])]

Heard   == heard + v_heard
Runlist == IF program = "vosk" THEN v_result ELSE Audios
Phase   == IF program = "vosk" /\ v_pc \in {"done", "failed"} THEN "closing" ELSE phase

\* The program that was not started has done nothing.
Started ==
  /\ program \in {"moonshine", "vosk"}
  /\ program = "vosk" => heard = 0 /\ ~interrupted
  /\ program = "moonshine" => v_heard = 0

LEMMA PhaseIs ==
  /\ phase = IF ~interrupted THEN "live"
             ELSE IF pc \in {"clear", "done", "aborted"} THEN "closed" ELSE "closing"
  /\ phase' = IF ~interrupted' THEN "live"
              ELSE IF pc' \in {"clear", "done", "aborted"} THEN "closed" ELSE "closing"
BY DEF phase

\* A run whose chunks follow one another is one that Promise lets be captioned.
LEMMA ConsecutiveIsRun ==
  ASSUME NEW a, Len(a) \in Nat, Len(a) > 0, NEW last \in Nat,
         NEW h \in 0 .. Len(a), Consecutive(a, h, last), NEW miss \in {0, 1},
         miss = 0 => h = 0
  PROVE  /\ a # <<>> /\ \A i \in 1 .. Len(a) - 1 : a[i] < a[i + 1]
         /\ a[Len(a)] - a[1] + 1 - Len(a) <= miss
<1>1. a # <<>>
  OBVIOUS
<1>2. ASSUME NEW i \in 1 .. Len(a) - 1 PROVE a[i] < a[i + 1]
  <2>1. i \in 1 .. Len(a) /\ i + 1 \in 1 .. Len(a) /\ h \in Nat /\ i \in Nat
    OBVIOUS
  <2>2. /\ a[i] = last - (Len(a) - i) - (IF i <= h THEN 1 ELSE 0)
        /\ a[i + 1] = last - (Len(a) - (i + 1)) - (IF i + 1 <= h THEN 1 ELSE 0)
    BY <2>1 DEF Consecutive
  <2> QED BY <2>1, <2>2
<1>3. a[Len(a)] - a[1] + 1 - Len(a) <= miss
  <2>1. 1 \in 1 .. Len(a) /\ Len(a) \in 1 .. Len(a) /\ h \in Nat
    OBVIOUS
  <2>2. a[1] = last - (Len(a) - 1) - (IF 1 <= h THEN 1 ELSE 0)
    BY <2>1 DEF Consecutive
  <2>3. a[Len(a)] = last - (Len(a) - Len(a)) - (IF Len(a) <= h THEN 1 ELSE 0)
    BY <2>1 DEF Consecutive
  <2> QED BY <2>1, <2>2, <2>3
<1> QED BY <1>1, <1>2, <1>3

\* The last chunk of what was captioned.
EndOf(runs) == IF runs = <<>> THEN 0 ELSE LET last == runs[Len(runs)] IN last[Len(last)]

LEMMA CaptionIs ==
  ASSUME NEW run, NEW miss, Runlist' = Append(Runlist, run), Runlist' # <<>>,
         Runlist'[Len(Runlist')] = run, run # <<>>,
         EndOf(Runlist) < run[1], run[Len(run)] <= Heard,
         \A i \in 1 .. Len(run) - 1 : run[i] < run[i + 1],
         run[Len(run)] - run[1] + 1 - Len(run) <= miss
  PROVE  Promise!Caption(miss)
<1>1. Promise!Captioned = EndOf(Runlist)
  BY DEF Promise!Captioned, EndOf, Runlist, Audios
<1>2. Promise!Run(run, miss)
  BY <1>1 DEF Promise!Run, Heard
<1> QED BY <1>2 DEF Promise!Caption, Runlist, Audios

\* The steps of Promise, in terms of what it reads.
LEMMA PromiseSteps ==
  /\ Promise!Init <=> Heard = 0 /\ Runlist = <<>> /\ Phase = "live"
  /\ UNCHANGED <<Heard, Runlist, Phase>> => UNCHANGED Promise!vars
  /\ Heard' = Heard + 1 /\ UNCHANGED <<Runlist, Phase>> => Promise!Hear
  /\ Phase = "live" /\ Promise!Caption(0) /\ UNCHANGED <<Heard, Phase>> => Promise!CaptionRun
  /\ Phase = "live" /\ Phase' = "closing" /\ UNCHANGED <<Heard, Runlist>> => Promise!Stop
  /\ Phase = "closing" /\ Phase' = "closed" /\ UNCHANGED Heard
     /\ (Promise!Caption(1) \/ UNCHANGED Runlist) => Promise!Close
<1> USE DEF Heard, Runlist, Audios, Phase
<1>1. Promise!Init <=> Heard = 0 /\ Runlist = <<>> /\ Phase = "live"
  BY DEF Promise!Init
<1>2. UNCHANGED <<Heard, Runlist, Phase>> => UNCHANGED Promise!vars
  BY DEF Promise!vars
<1>3. Heard' = Heard + 1 /\ UNCHANGED <<Runlist, Phase>> => Promise!Hear
  BY DEF Promise!Hear
<1>4. Phase = "live" /\ Promise!Caption(0) /\ UNCHANGED <<Heard, Phase>> => Promise!CaptionRun
  BY DEF Promise!CaptionRun
<1>5. Phase = "live" /\ Phase' = "closing" /\ UNCHANGED <<Heard, Runlist>> => Promise!Stop
  BY DEF Promise!Stop
<1>6. Phase = "closing" /\ Phase' = "closed" /\ UNCHANGED Heard
      /\ (Promise!Caption(1) \/ UNCHANGED Runlist) => Promise!Close
  BY DEF Promise!Close
<1> QED BY <1>1, <1>2, <1>3, <1>4, <1>5, <1>6

LEMMA AudiosAppend ==
  ASSUME RunInv, CacheCaption
  PROVE  /\ Audios' = Append(Audios, Audio(speech))
         /\ Audios' # <<>> /\ Audios'[Len(Audios')] = Audio(speech)
<1> DEFINE n == Len(caption_cache)
           S == {Audio(caption_cache[k]) : k \in DOMAIN caption_cache} \cup {Audio(speech)}
           more == Append(Audios, Audio(speech))
<1>1. /\ speech \in Seq(0 .. MaxHeard) /\ caption_cache \in Seq(Seq(0 .. MaxHeard))
      /\ caption_cache' = Append(caption_cache, speech)
  BY DEF CacheCaption, RunInv, PadInv, TypeInv, TypeOK
<1>2. Appended(caption_cache, caption_cache', speech)
  BY <1>1, AppendIs
<1>3. n \in Nat /\ DOMAIN caption_cache = 1 .. n
  BY <1>1
<1>4. Audios \in Seq(S) /\ Len(Audios) = n /\ \A k \in 1 .. n : Audios[k] = Audio(caption_cache[k])
  BY <1>3 DEF Audios
<1>5. Appended(Audios, more, Audio(speech)) /\ more \in Seq(S)
  <2>1. Audio(speech) \in S
    OBVIOUS
  <2> HIDE DEF S
  <2>2. more \in Seq(S)
    BY <1>4, <2>1
  <2> QED BY <1>4, <2>1, <2>2, AppendIs
<1> HIDE DEF more, S
<1>6. /\ DOMAIN more = 1 .. n + 1 /\ \A k \in 1 .. n : more[k] = Audio(caption_cache[k])
      /\ more[n + 1] = Audio(speech) /\ Len(more) = n + 1
  <2>1. DOMAIN Audios = 1 .. n
    BY <1>3 DEF Audios
  <2> QED BY <1>4, <1>5, <2>1 DEF Appended
<1>7. Audios' = [k \in 1 .. n + 1 |-> Audio(caption_cache'[k])]
  <2>1. DOMAIN caption_cache' = 1 .. n + 1
    BY <1>2 DEF Appended
  <2>2. Audios' = [k \in DOMAIN caption_cache' |-> Audio(caption_cache'[k])]
    BY DEF Audios, Audio, Pad
  <2> QED BY <2>1, <2>2
<1>8. \A k \in 1 .. n + 1 : Audio(caption_cache'[k]) = more[k]
  <2> TAKE k \in 1 .. n + 1
  <2>1. CASE k \in 1 .. n
    BY <1>2, <1>3, <1>6, <2>1 DEF Appended
  <2>2. CASE k = n + 1
    BY <1>2, <1>6, <2>2 DEF Appended
  <2> QED BY <1>3, <2>1, <2>2
<1>9. more = [k \in 1 .. n + 1 |-> more[k]]
  BY <1>5, <1>6
<1>10. Audios' = more
  BY <1>7, <1>8, <1>9
<1>11. more # <<>> /\ more[Len(more)] = Audio(speech)
  BY <1>3, <1>6
<1> QED BY <1>10, <1>11 DEF more

LEMMA AudiosEnd ==
  ASSUME RunInv
  PROVE  EndOf(Audios) = CaptionedTo
<1> DEFINE n == Len(caption_cache)
           s == caption_cache[n]
<1>1. caption_cache \in Seq(Seq(0 .. MaxHeard)) /\ n \in Nat /\ DOMAIN caption_cache = 1 .. n
  BY DEF RunInv, PadInv, TypeInv, TypeOK
<1>2. CASE caption_cache = <<>>
  <2>1. Audios = <<>>
    BY <1>2 DEF Audios
  <2> QED BY <1>2, <2>1 DEF EndOf, CaptionedTo
<1>3. CASE caption_cache # <<>>
  <2>1. n \in DOMAIN caption_cache
    BY <1>1, <1>3
  <2>2. s \in Seq(0 .. MaxHeard) /\ Voiced(s) /\ Padded(s)
    BY <1>1, <2>1, ShortIsPad DEF RunInv, RunParts, CaptionsVoiced, PadInv, Padding
  <2>3. Audio(s)[Len(Audio(s))] = s[Len(s)]
    <3> HIDE DEF s
    <3> QED BY <2>2, AudioIsAfterZeros DEF AfterZeros
  <2>4. Len(Audios) = n /\ Audios[n] = Audio(s) /\ Audios # <<>>
    BY <1>1, <2>1 DEF Audios
  <2> QED BY <1>3, <2>3, <2>4 DEF EndOf, CaptionedTo
<1> QED BY <1>2, <1>3

\* The caption that end_recording() makes is of a run of chunks that comes after
\* the ones captioned, with none missing until Ctrl+C.
LEMMA CachedIsRun ==
  ASSUME RunInv, Started, program = "moonshine", CacheCaption, UNCHANGED <<program, vosk>>,
         NEW miss \in {0, 1}, ~interrupted \/ miss = 1
  PROVE  Promise!Caption(miss)
<1> DEFINE run == Audio(speech)
<1>1. pc = "transcribe" /\ heard \in Nat /\ Taken \in Nat /\ Taken <= heard
  BY TakenIs DEF CacheCaption, RunInv
<1>2. speech \in Seq(0 .. MaxHeard) /\ Voiced(speech) /\ Padded(speech)
  BY <1>1, SpeechIs, ShortIsPad
     DEF RunInv, RunParts, SegmentVoiced, InSegment, PadInv, Padding
<1>3. PICK g \in 0 .. Len(speech) : Gap(g) /\ Runs(speech, g, Taken)
  BY DEF RunInv, RunParts, Buffered
<1>4. AudioOf(run, speech, g, Taken)
  BY <1>1, <1>2, <1>3, AudioIs
<1> HIDE DEF run
<1>5. PICK h \in 0 .. Len(run) : (g = 0 => h = 0) /\ Consecutive(run, h, Taken)
  BY <1>4 DEF AudioOf
<1>6. miss = 0 => h = 0
  BY <1>1, <1>3, <1>5 DEF Gap
<1>7. /\ run # <<>> /\ \A i \in 1 .. Len(run) - 1 : run[i] < run[i + 1]
      /\ run[Len(run)] - run[1] + 1 - Len(run) <= miss
  <2>1. Len(run) \in Nat /\ Len(run) > 0
    BY <1>4 DEF AudioOf
  <2> QED BY <1>1, <1>5, <1>6, <2>1, ConsecutiveIsRun
<1>8. EndOf(Audios) < run[1]
  <2>1. \A i \in DOMAIN speech : speech[i] # Zero => CaptionedTo < speech[i]
    BY <1>1 DEF RunInv, RunParts, Later, InOrder, InLoop
  <2>2. CaptionedTo < run[1]
    BY <1>4, <2>1 DEF AudioOf
  <2> QED BY <2>2, AudiosEnd
<1>9. run[Len(run)] <= Heard
  <2>1. run[Len(run)] = speech[Len(speech)]
    BY <1>4 DEF AudioOf
  <2>2. speech[Len(speech)] <= Taken /\ speech[Len(speech)] \in Nat
    BY <1>1, <1>2, <1>3, RunEnd
  <2>3. Heard = heard
    BY <1>1 DEF Heard, Started
  <2> QED BY <1>1, <2>1, <2>2, <2>3
<1>10. Runlist = Audios /\ Runlist' = Audios'
  BY DEF Runlist
<1>11. Audios' = Append(Audios, run) /\ Audios' # <<>> /\ Audios'[Len(Audios')] = run
  BY AudiosAppend DEF run
<1>12. /\ Runlist' = Append(Runlist, run) /\ Runlist' # <<>> /\ Runlist'[Len(Runlist')] = run
       /\ EndOf(Runlist) < run[1]
  BY <1>8, <1>10, <1>11
<1> QED BY <1>7, <1>9, <1>12, CaptionIs

\* The steps that caption nothing.
LEMMA AudiosStay ==
  ASSUME program = "moonshine", UNCHANGED <<program, vosk, caption_cache>>
  PROVE  UNCHANGED Runlist /\ v_heard' = v_heard /\ Phase = phase /\ Phase' = phase'
BY DEF Runlist, Audios, Phase, vosk, Audio, Pad

LEMMA MoonshineKeepsPromise ==
  ASSUME RunInv, Started, MoonshineNext
  PROVE  [Promise!Next]_(Promise!vars)
<1>1. program = "moonshine" /\ UNCHANGED <<program, vosk>> /\ Next
  BY DEF MoonshineNext
<1>2. CASE InputCallback
  <2>1. heard' = heard + 1 /\ UNCHANGED <<caption_cache, pc, interrupted>> /\ heard \in Nat
    BY <1>2, TakenIs DEF InputCallback, loop, RunInv
  <2>2. UNCHANGED Runlist /\ v_heard' = v_heard /\ Phase' = Phase
    BY <1>1, <2>1, AudiosStay, PhaseIs
  <2>3. v_heard = 0
    BY <1>1 DEF Started
  <2>4. Heard' = Heard + 1
    BY <2>1, <2>2, <2>3 DEF Heard
  <2> QED BY <2>2, <2>4, PromiseSteps DEF Promise!Next
<1>3. CASE CacheCaption
  <2>1. /\ pc = "transcribe" /\ pc' = "clear" /\ UNCHANGED <<heard, interrupted>>
    BY <1>3 DEF CacheCaption, Go
  <2>2. UNCHANGED Heard /\ Phase = phase /\ Phase' = phase'
    BY <1>1, <2>1 DEF Heard, Phase, vosk
  <2>3. CASE ~interrupted
    <3>1. Promise!Caption(0)
      BY <1>1, <1>3, <2>3, CachedIsRun
    <3>2. Phase = "live" /\ Phase' = Phase
      BY <2>1, <2>2, <2>3, PhaseIs
    <3> QED BY <2>2, <3>1, <3>2, PromiseSteps DEF Promise!Next
  <2>4. CASE interrupted
    <3>1. Promise!Caption(1)
      BY <1>1, <1>3, CachedIsRun
    <3>2. Phase = "closing" /\ Phase' = "closed"
      BY <2>1, <2>2, <2>4, PhaseIs
    <3> QED BY <2>2, <3>1, <3>2, PromiseSteps DEF Promise!Next
  <2> QED BY <2>3, <2>4
<1>4. ASSUME UNCHANGED <<heard, caption_cache>>,
             \/ phase' = phase
             \/ phase = "live" /\ phase' = "closing"
             \/ phase = "closing" /\ phase' = "closed"
      PROVE  [Promise!Next]_(Promise!vars)
  <2>1. UNCHANGED <<Runlist, Heard>> /\ Phase = phase /\ Phase' = phase'
    BY <1>1, <1>4, AudiosStay DEF Heard
  <2> QED BY <1>4, <2>1, PromiseSteps DEF Promise!Next
<1>5. CASE \/ Get \/ Concatenate \/ AskVad \/ Begin \/ StopSpeech \/ CapSpeech
           \/ SpeechFits \/ SoftReset \/ Refresh
  <2>1. /\ UNCHANGED <<heard, caption_cache, interrupted>>
        /\ pc \in InLoop \ {"transcribe", "clear"}
    <3>1. CASE Get \/ Concatenate \/ Begin
      BY <3>1 DEF Get, Concatenate, Begin, Go, InLoop
    <3>2. CASE AskVad
      BY <3>2 DEF AskVad, React, Go, loop, InLoop
    <3>3. CASE StopSpeech \/ CapSpeech
      BY <3>3 DEF StopSpeech, CapSpeech, EndRecording, Go, InLoop
    <3>4. CASE SpeechFits \/ SoftReset \/ Refresh
      BY <3>4 DEF SpeechFits, SoftReset, Refresh, Go, loop, InLoop
    <3> QED BY <1>5, <3>1, <3>2, <3>3, <3>4
  <2>2. ~interrupted
    BY <2>1, LoopNotInterrupted DEF RunInv
  <2> QED BY <1>4, <2>1, <2>2, PhaseIs
<1>6. CASE Clear
  <2>1. pc = "clear" /\ pc' = returns /\ UNCHANGED <<heard, caption_cache, interrupted>>
    BY <1>6 DEF Clear, Go
  <2>2. interrupted => returns = "done"
    BY <2>1 DEF RunInv, PadInv, VadInv, Handling
  <2> QED BY <1>4, <2>1, <2>2, PhaseIs
<1>7. CASE CloseStream \/ Drain \/ Flush
  <2>1. /\ UNCHANGED <<heard, caption_cache, interrupted>> /\ pc \in {"close", "drain"}
        /\ pc' \in {"drain", "done", "transcribe"}
    <3>1. CASE CloseStream
      BY <3>1 DEF CloseStream, Go, loop
    <3>2. CASE Drain
      BY <3>2 DEF Drain
    <3>3. CASE Flush
      BY <3>3 DEF Flush, Go
    <3> QED BY <1>7, <3>1, <3>2, <3>3
  <2>2. interrupted
    BY <2>1 DEF RunInv, PadInv, VadInv, Handling, InLoop
  <2>3. phase = "closing" /\ phase' \in {"closing", "closed"}
    BY <2>1, <2>2, PhaseIs
  <2> QED BY <1>4, <2>1, <2>3
<1>8. CASE Interrupt
  <2>1. /\ UNCHANGED <<heard, caption_cache>> /\ ~interrupted /\ interrupted' /\ pc' = "close"
    BY <1>8 DEF Interrupt, loop
  <2> QED BY <1>4, <2>1, PhaseIs
<1>9. CASE Abort
  <2>1. /\ UNCHANGED <<heard, caption_cache, interrupted>> /\ pc' = "aborted"
    BY <1>9 DEF Abort, Go, loop
  <2>2. \/ phase' = phase
        \/ phase = "closing" /\ phase' = "closed"
    BY <2>1, PhaseIs
  <2> QED BY <1>4, <2>1, <2>2
<1> QED BY <1>1, <1>2, <1>3, <1>5, <1>6, <1>7, <1>8, <1>9 DEF Next, Main

\* A text is made from the blocks after the ones in the texts before it.
LEMMA AppendedIsRun ==
  ASSUME VoskInv, Started, program = "vosk", Vosk!AppendResult, UNCHANGED <<program, vars>>
  PROVE  Promise!Caption(0)
<1> DEFINE a == FlattenSeq(v_result)
           n == Len(a) + Len(v_text)
<1>1. v_pc = "append" /\ v_result' = Append(v_result, v_text)
  BY DEF Vosk!AppendResult
<1>2. /\ v_text \in Seq(Nat) /\ v_utterance \in Seq(Nat) /\ v_data \in Seq(Nat)
      /\ v_q \in Seq(Nat) /\ v_heard \in Nat /\ v_result \in Seq(Seq(Nat)) /\ v_text # <<>>
  BY <1>1 DEF VoskInv, VoskTypes, Handed
<1>3. a \in Seq(Nat) /\ Places(a, v_text, v_utterance, v_data, v_q) = Counting(v_heard)
  BY PlacesType DEF VoskInv, Placed
<1>4. v_result # <<>> => LET t == v_result[Len(v_result)] IN t[Len(t)] = Len(a)
  BY DEF VoskInv, LastText
<1> HIDE DEF a
<1>5. n <= v_heard /\ \A i \in 1 .. Len(v_text) : v_text[i] = Len(a) + i
  BY <1>2, <1>3, TextsCount
<1>6. Len(v_text) \in Nat /\ Len(v_text) > 0 /\ Len(a) \in Nat /\ n \in Nat
  BY <1>2, <1>3
<1>7. Consecutive(v_text, 0, n)
  <2>1. ASSUME NEW i \in 1 .. Len(v_text)
        PROVE  v_text[i] = n - (Len(v_text) - i) - (IF i <= 0 THEN 1 ELSE 0)
    <3>1. v_text[i] = Len(a) + i /\ ~(i <= 0) /\ i \in Nat
      BY <1>5
    <3> QED BY <1>6, <3>1
  <2> QED BY <2>1 DEF Consecutive
<1> HIDE DEF n
<1>8. /\ v_text # <<>> /\ \A i \in 1 .. Len(v_text) - 1 : v_text[i] < v_text[i + 1]
      /\ v_text[Len(v_text)] - v_text[1] + 1 - Len(v_text) <= 0
  <2>1. 0 \in 0 .. Len(v_text) /\ 0 \in {0, 1}
    BY <1>6
  <2> QED BY <1>6, <1>7, <2>1, ConsecutiveIsRun
<1>9. EndOf(v_result) < v_text[1]
  <2>1. v_text[1] = Len(a) + 1
    BY <1>5, <1>6
  <2>2. EndOf(v_result) \in {0, Len(a)}
    BY <1>4 DEF EndOf
  <2> QED BY <1>6, <2>1, <2>2
<1>10. v_text[Len(v_text)] <= Heard
  <2>1. v_text[Len(v_text)] = n
    BY <1>5, <1>6 DEF n
  <2>2. Heard = v_heard
    BY <1>2 DEF Heard, Started
  <2> QED BY <1>5, <2>1, <2>2
<1>11. Runlist = v_result /\ Runlist' = v_result'
  BY DEF Runlist
<1>12. v_result' # <<>> /\ v_result'[Len(v_result')] = v_text
  <2>1. Appended(v_result, Append(v_result, v_text), v_text) /\ Len(v_result) \in Nat
    BY <1>2, AppendIs
  <2> QED BY <1>1, <2>1 DEF Appended
<1>13. /\ Runlist' = Append(Runlist, v_text) /\ Runlist' # <<>>
       /\ Runlist'[Len(Runlist')] = v_text /\ EndOf(Runlist) < v_text[1]
  BY <1>1, <1>9, <1>11, <1>12
<1> QED BY <1>8, <1>10, <1>13, CaptionIs

LEMMA VoskKeepsPromise ==
  ASSUME VoskInv, Started, VoskNext
  PROVE  [Promise!Next]_(Promise!vars)
<1>1. /\ program = "vosk" /\ UNCHANGED <<program, vars>> /\ Vosk!Next
      /\ heard = 0 /\ heard' = heard /\ v_heard \in Nat
  BY DEF VoskNext, Started, vars, VoskInv, VoskTypes
<1>2. phase = "live" /\ phase' = phase
  BY <1>1, PhaseIs DEF Started, vars
<1>3. /\ Phase = IF v_pc \in {"done", "failed"} THEN "closing" ELSE "live"
      /\ Phase' = IF v_pc' \in {"done", "failed"} THEN "closing" ELSE "live"
  BY <1>1, <1>2 DEF Phase
<1>4. /\ v_result' = v_result => UNCHANGED Runlist
      /\ Heard = v_heard /\ Heard' = v_heard'
  <2>1. v_result' = v_result => UNCHANGED Runlist
    BY <1>1 DEF Runlist
  <2>2. CASE Vosk!Callback
    <3>1. v_heard' = v_heard + 1
      BY <2>2 DEF Vosk!Callback
    <3> QED BY <1>1, <2>1, <3>1 DEF Heard
  <2>3. CASE ~Vosk!Callback
    <3>1. v_heard' = v_heard
      BY <1>1, <2>3 DEF Vosk!Next, Vosk!Main, Vosk!Get, Vosk!AcceptWaveform, Vosk!Result,
                        Vosk!AppendResult, Vosk!Interrupt, Vosk!Fail
    <3> QED BY <1>1, <2>1, <3>1 DEF Heard
  <2> QED BY <2>2, <2>3
<1>5. CASE Vosk!Callback
  <2>1. v_heard' = v_heard + 1 /\ UNCHANGED <<v_pc, v_result>>
    BY <1>5 DEF Vosk!Callback
  <2>2. Heard' = Heard + 1 /\ UNCHANGED <<Runlist, Phase>>
    BY <1>3, <1>4, <2>1
  <2> QED BY <2>2, PromiseSteps DEF Promise!Next
<1>6. CASE Vosk!Get \/ Vosk!AcceptWaveform \/ Vosk!Result
  <2>1. /\ UNCHANGED <<v_heard, v_result>>
        /\ v_pc \notin {"done", "failed"} /\ v_pc' \notin {"done", "failed"}
    BY <1>6 DEF Vosk!Get, Vosk!AcceptWaveform, Vosk!Result
  <2>2. UNCHANGED <<Heard, Runlist, Phase>>
    BY <1>3, <1>4, <2>1
  <2> QED BY <2>2, PromiseSteps
<1>7. CASE Vosk!AppendResult
  <2>1. v_heard' = v_heard /\ v_pc = "append" /\ v_pc' = "get"
    BY <1>7 DEF Vosk!AppendResult
  <2>2. Phase = "live" /\ UNCHANGED <<Heard, Phase>>
    BY <1>3, <1>4, <2>1
  <2>3. Promise!Caption(0)
    BY <1>1, <1>7, AppendedIsRun
  <2> QED BY <2>2, <2>3, PromiseSteps DEF Promise!Next
<1>8. CASE Vosk!Interrupt \/ Vosk!Fail
  <2>1. /\ UNCHANGED <<v_heard, v_result>>
        /\ v_pc \notin {"done", "failed"} /\ v_pc' \in {"done", "failed"}
    BY <1>8 DEF Vosk!Interrupt, Vosk!Fail, Vosk!InLoop
  <2>2. Phase = "live" /\ Phase' = "closing" /\ UNCHANGED <<Heard, Runlist>>
    BY <1>3, <1>4, <2>1
  <2> QED BY <2>2, PromiseSteps DEF Promise!Next
<1> QED BY <1>1, <1>5, <1>6, <1>7, <1>8 DEF Vosk!Next, Vosk!Main

LEMMA StartedStays ==
  ASSUME Started, [MoonshineNext \/ VoskNext]_<<vars, program, vosk>>
  PROVE  Started'
<1>1. CASE MoonshineNext
  BY <1>1 DEF Started, MoonshineNext, vosk
<1>2. CASE VoskNext
  BY <1>2 DEF Started, VoskNext, vars
<1>3. CASE UNCHANGED <<vars, program, vosk>>
  BY <1>3 DEF Started, vars, vosk
<1> QED BY <1>1, <1>2, <1>3

CaptionersInv == RunInv /\ VoskInv /\ Started

\* Either program keeps the promise of Captions: the captions are in order and
\* disjoint, each made from all that was heard between its ends, and one more
\* may follow Ctrl+C, which lacks at most the chunk that the loop had in hand.
THEOREM CaptionsArePromised == CaptionersSpec => ImplementsCaptions
<1>1. StartInit => CaptionersInv /\ Promise!Init
  <2> SUFFICES ASSUME StartInit PROVE CaptionersInv /\ Promise!Init
    OBVIOUS
  <2>1. /\ heard = 0 /\ v_heard = 0 /\ caption_cache = <<>> /\ v_result = <<>>
        /\ ~interrupted /\ v_pc = "get" /\ program \in {"moonshine", "vosk"}
    BY DEF StartInit, StartMoonshine, StartVosk, Init, Vosk!Init
  <2>2. RunInv /\ VoskInv /\ Started
    BY <2>1, InitRunInv, InitVoskInv DEF StartInit, Started
  <2>3. Heard = 0
    BY <2>1 DEF Heard
  <2>4. Runlist = <<>>
    BY <2>1 DEF Runlist, Audios
  <2>5. Phase = "live"
    BY <2>1, PhaseIs DEF Phase
  <2> QED BY <2>2, <2>3, <2>4, <2>5, PromiseSteps DEF CaptionersInv
<1>2. CaptionersInv /\ [MoonshineNext \/ VoskNext]_<<vars, program, vosk>> => CaptionersInv'
  BY CaptionersStep, NextRunInv, NextVoskInv, StartedStays DEF CaptionersInv
<1>3. CaptionersInv /\ [MoonshineNext \/ VoskNext]_<<vars, program, vosk>>
        => [Promise!Next]_(Promise!vars)
  <2> SUFFICES ASSUME CaptionersInv, [MoonshineNext \/ VoskNext]_<<vars, program, vosk>>
               PROVE  [Promise!Next]_(Promise!vars)
    OBVIOUS
  <2>1. CASE UNCHANGED <<vars, program, vosk>>
    <3>1. UNCHANGED <<Heard, Runlist, Phase>>
      BY <2>1, PhaseIs DEF Heard, Runlist, Audios, Audio, Pad, Phase, vars, loop, vosk
    <3> QED BY <3>1, PromiseSteps
  <2> QED BY <2>1, MoonshineKeepsPromise, VoskKeepsPromise DEF CaptionersInv
<1> QED BY <1>1, <1>2, <1>3, PTL DEF CaptionersSpec, ImplementsCaptions, Promise!Spec

\* What holds of the Moonshine program alone holds of either: the Vosk one leaves
\* its variables as they were at the start.
THEOREM CaptionersAreSafe ==
  CaptionersSpec => [](/\ TypeOK /\ RecordingMatchesVad /\ SegmentBounded
                       /\ ZerosOnlyPad /\ NoVoiceDropped /\ FlushComplete)
BY CaptionersLoop, LoopTypes, VadInStep, CapHolds, ZerosArePad, NoVoiceIsDropped,
   FlushIsComplete, PTL
=============================================================================
