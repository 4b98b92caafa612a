----------------------------- MODULE LiveTrans ------------------------------
(***************************************************************************)
(* main() of moonshine/src/live_trans.py: the callback of the audio stream *)
(* puts chunks on a queue, the main loop takes them off, asks the voice    *)
(* activity detector (VAD) about each, and transcribes the segments it     *)
(* delimits.  Ctrl+C may raise KeyboardInterrupt between any two           *)
(* statements of the loop, end_recording() included.                       *)
(*                                                                         *)
(* A chunk is known by its number in the order the callback got it.  A     *)
(* caption is known by the audio it was made from.                         *)
(***************************************************************************)
EXTENDS Integers, Sequences, SequencesExt, FiniteSets

CONSTANTS
  Lookback,    \* LOOKBACK_CHUNKS (5)
  MaxSpeech,   \* whole chunks in MAX_SPEECH_SECS (468)
  MinSilence,  \* chunks that last min_silence_duration_ms (10)
  MaxHeard     \* bound of the model: chunks the microphone delivers

ASSUME LiveAssumption ==
  /\ Lookback \in Nat \ {0}
  /\ MaxSpeech \in Nat /\ MaxSpeech >= Lookback
  /\ MinSilence \in Nat \ {0}
  /\ MaxHeard \in Nat

VARIABLES
  heard, q,            \* chunks delivered; the queue between the threads
  pc,                  \* the statement main() is at
  chunk, speech,       \* locals of main()
  recording,           \* local of main()
  caption_cache,       \* the global list
  returns,             \* where main() goes on after end_recording()
  triggered, temp_end, current_sample,  \* the fields of vad_iterator
  interrupted,         \* KeyboardInterrupt was raised
  voiced               \* history: chunks the VAD took for speech

vad  == <<triggered, temp_end, current_sample>>
loop == <<chunk, speech, recording, caption_cache, returns>>
vars == <<heard, q, pc, loop, vad, interrupted, voiced>>

Zero   == 0   \* a chunk whose samples were multiplied by 0.0
Level  == {"speech", "unsure", "silence"}   \* p >= 0.5, in between, p < 0.35
InLoop == {"get", "concat", "vad", "begin", "stop", "cap", "transcribe",
           "clear", "reset", "refresh"}

Init ==
  /\ heard = 0 /\ q = <<>> /\ pc = "get"
  /\ chunk = Zero /\ speech = <<>> /\ recording = FALSE
  /\ caption_cache = <<>> /\ returns = "get"
  /\ triggered = FALSE /\ temp_end = 0 /\ current_sample = 0
  /\ interrupted = FALSE /\ voiced = {}
-----------------------------------------------------------------------------
(* The thread of the audio stream.                                         *)

StreamOpen == pc = "close" \/ (~interrupted /\ pc # "aborted")

\* input_callback: q.put
InputCallback ==
  /\ StreamOpen /\ heard < MaxHeard
  /\ heard' = heard + 1
  /\ q' = Append(q, heard + 1)
  /\ UNCHANGED <<pc, loop, vad, interrupted, voiced>>
-----------------------------------------------------------------------------
(* The main loop.                                                          *)

Go(label) == pc' = label /\ UNCHANGED <<heard, interrupted>>

\* chunk, status = q.get() blocks while the queue is empty
Get ==
  /\ pc = "get" /\ q # <<>>
  /\ chunk' = Head(q) /\ q' = Tail(q)
  /\ Go("concat")
  /\ UNCHANGED <<speech, recording, caption_cache, returns, vad, voiced>>

\* Variant: the other end of the buffer, speech[:lookback_size].
FirstChunks(s) == IF Len(s) <= Lookback THEN s ELSE SubSeq(s, 1, Lookback)

\* speech[-lookback_size:]
LastChunks(s) ==
  IF Len(s) <= Lookback THEN s ELSE SubSeq(s, Len(s) - Lookback + 1, Len(s))

\* Variant: a buffer that is never cut.
Uncut(longer) == longer

\* What is kept of the buffer: the lookback while nothing is recorded.
Kept(longer) == IF recording THEN longer ELSE LastChunks(longer)

\* speech = np.concatenate((speech, chunk))
Concatenate ==
  /\ pc = "concat"
  /\ speech' = Kept(Append(speech, chunk))
  /\ Go("vad")
  /\ UNCHANGED <<q, chunk, recording, caption_cache, returns, vad, voiced>>

\* VADIterator.__call__: what it answers to a chunk of the given level.
VadIterator(level, answer) ==
  LET now   == current_sample + 1
      pause == IF temp_end = 0 THEN now ELSE temp_end
  IN
  /\ current_sample' = now
  /\ \/ /\ level = "speech" /\ ~triggered
        /\ triggered' = TRUE /\ temp_end' = 0 /\ answer = "start"
     \/ /\ level = "speech" /\ triggered
        /\ temp_end' = 0 /\ UNCHANGED triggered /\ answer = "nothing"
     \/ /\ level = "silence" /\ triggered /\ now - pause < MinSilence
        /\ temp_end' = pause /\ UNCHANGED triggered /\ answer = "nothing"
     \/ /\ level = "silence" /\ triggered /\ now - pause >= MinSilence
        /\ triggered' = FALSE /\ temp_end' = 0 /\ answer = "end"
     \/ /\ level = "unsure" \/ (level = "silence" /\ ~triggered)
        /\ UNCHANGED <<triggered, temp_end>> /\ answer = "nothing"

\* The branch of the loop that an answer leads to: a "start" while recording
\* and an "end" or nothing while not are ignored.
React(answer) ==
  \/ answer = "start" /\ ~recording /\ Go("begin")
  \/ answer = "end" /\ recording /\ Go("stop")
  \/ answer = "nothing" /\ recording /\ Go("cap")
  \/ (answer = "start" <=> recording) /\ Go("get")

\* speech_dict = vad_iterator(chunk)
AskVad ==
  /\ pc = "vad"
  /\ \E level \in Level, answer \in {"start", "end", "nothing"} :
       /\ VadIterator(level, answer)
       /\ voiced' = IF level = "speech" THEN voiced \cup {chunk} ELSE voiced
       /\ React(answer)
  /\ UNCHANGED <<q, loop>>

Begin ==
  /\ pc = "begin" /\ recording' = TRUE
  /\ Go("get")
  /\ UNCHANGED <<q, chunk, speech, caption_cache, returns, vad, voiced>>

\* Variant: end_recording() goes back to the statement that called it.
EndRecordingAgain(next) ==
  /\ recording' = FALSE /\ returns' = pc
  /\ Go("transcribe")
  /\ UNCHANGED <<q, chunk, speech, caption_cache, vad, voiced>>

\* recording = False, then the call of end_recording()
EndRecording(next) ==
  /\ recording' = FALSE /\ returns' = next
  /\ Go("transcribe")
  /\ UNCHANGED <<q, chunk, speech, caption_cache, vad, voiced>>

StopSpeech == pc = "stop" /\ EndRecording("get")

\* len(speech) / SAMPLING_RATE > MAX_SPEECH_SECS
CapSpeech == pc = "cap" /\ Len(speech) > MaxSpeech /\ EndRecording("reset")

\* Variant: a cap that may be passed over.
SpeechUncapped ==
  /\ pc = "cap"
  /\ Go("refresh")
  /\ UNCHANGED <<q, loop, vad, voiced>>

SpeechFits ==
  /\ pc = "cap" /\ Len(speech) <= MaxSpeech
  /\ Go("refresh")
  /\ UNCHANGED <<q, loop, vad, voiced>>

\* transcribe(speech), print_captions(text), caption_cache.append(text)
CacheCaption ==
  /\ pc = "transcribe"
  /\ caption_cache' = Append(caption_cache, speech)
  /\ Go("clear")
  /\ UNCHANGED <<q, chunk, speech, recording, returns, vad, voiced>>

\* Variant: a buffer that end_recording() leaves as it is.
ClearNothing ==
  /\ pc = "clear"
  /\ Go(returns)
  /\ UNCHANGED <<q, loop, vad, voiced>>

\* speech *= 0.0
Clear ==
  /\ pc = "clear"
  /\ speech' = [i \in DOMAIN speech |-> Zero]
  /\ Go(returns)
  /\ UNCHANGED <<q, chunk, recording, caption_cache, returns, vad, voiced>>

\* Variant: a reset of the counters alone.
SoftResetCounters ==
  /\ pc = "reset"
  /\ temp_end' = 0 /\ current_sample' = 0
  /\ Go("refresh")
  /\ UNCHANGED <<q, loop, triggered, voiced>>

\* soft_reset(vad_iterator)
SoftReset ==
  /\ pc = "reset"
  /\ triggered' = FALSE /\ temp_end' = 0 /\ current_sample' = 0
  /\ Go("refresh")
  /\ UNCHANGED <<q, loop, voiced>>

\* The partial caption, if it is due, changes nothing but the screen.
Refresh ==
  /\ pc = "refresh"
  /\ Go("get")
  /\ UNCHANGED <<q, loop, vad, voiced>>
-----------------------------------------------------------------------------
(* except KeyboardInterrupt                                                *)

Interrupt ==
  /\ pc \in InLoop /\ ~interrupted
  /\ interrupted' = TRUE /\ pc' = "close"
  /\ UNCHANGED <<heard, q, loop, vad, voiced>>

\* stream.close()
CloseStream ==
  /\ pc = "close"
  /\ Go(IF recording THEN "drain" ELSE "done")
  /\ UNCHANGED <<q, loop, vad, voiced>>

Drain ==
  /\ pc = "drain" /\ q # <<>>
  /\ chunk' = Head(q) /\ q' = Tail(q)
  /\ speech' = Append(speech, Head(q))
  /\ UNCHANGED <<heard, pc, recording, caption_cache, returns, vad, interrupted, voiced>>

\* Variant: a flush of what was concatenated before the interrupt.
FlushUndrained ==
  /\ pc = "drain"
  /\ returns' = "done"
  /\ Go("transcribe")
  /\ UNCHANGED <<q, chunk, speech, recording, caption_cache, vad, voiced>>

\* Variant: a flush that goes back to the loop.
FlushAndGoOn ==
  /\ pc = "drain" /\ q = <<>>
  /\ returns' = "get"
  /\ Go("transcribe")
  /\ UNCHANGED <<q, chunk, speech, recording, caption_cache, vad, voiced>>

\* end_recording(speech, do_print=False)
Flush ==
  /\ pc = "drain" /\ q = <<>>
  /\ returns' = "done"
  /\ Go("transcribe")
  /\ UNCHANGED <<q, chunk, speech, recording, caption_cache, vad, voiced>>

\* A second Ctrl+C in the handler, or an exception of the model or of the VAD's
\* network anywhere, ends the program with a traceback.
Abort ==
  /\ \/ interrupted /\ pc \in {"close", "drain", "clear"}
     \/ pc \in {"vad", "transcribe", "refresh"}
  /\ Go("aborted")
  /\ UNCHANGED <<q, loop, vad, voiced>>
-----------------------------------------------------------------------------
Main ==
  \/ Get \/ Concatenate \/ AskVad \/ Begin \/ StopSpeech \/ CapSpeech \/ SpeechFits
  \/ CacheCaption \/ Clear \/ SoftReset \/ Refresh
  \/ CloseStream \/ Drain \/ Flush

Next == InputCallback \/ Main \/ Interrupt \/ Abort

Spec == Init /\ [][Next]_vars

\* main() runs on whatever it waits for; nobody has to speak or press Ctrl+C.
FairSpec == Spec /\ WF_vars(Main)
-----------------------------------------------------------------------------
\* The zeros that s starts with.
Pad(s) ==
  CHOOSE n \in 0 .. Len(s) :
    /\ \A i \in 1 .. n : s[i] = Zero
    /\ n < Len(s) => s[n + 1] # Zero

\* The chunks a caption was made from, without the zeros before them.
Audio(s) == SubSeq(s, Pad(s) + 1, Len(s))

InCaptions == UNION {ToSet(caption_cache[k]) : k \in DOMAIN caption_cache}

TypeOK ==
  /\ heard \in 0 .. MaxHeard
  /\ q \in Seq(1 .. MaxHeard) /\ speech \in Seq(0 .. MaxHeard)
  /\ chunk \in 0 .. MaxHeard
  /\ pc \in InLoop \cup {"close", "drain", "done", "aborted"}
  /\ returns \in {"get", "reset", "done"}
  /\ recording \in BOOLEAN /\ triggered \in BOOLEAN /\ interrupted \in BOOLEAN
  /\ temp_end \in 0 .. MaxHeard /\ current_sample \in 0 .. MaxHeard
  /\ caption_cache \in Seq(Seq(0 .. MaxHeard))
  /\ voiced \subseteq 1 .. MaxHeard

\* Whenever the loop waits for a chunk, it records exactly while the VAD is
\* triggered: the cap on a segment resets the VAD with it, so that a "start"
\* is never ignored and an "end" never missed (lines 146-161).
RecordingMatchesVad == pc = "get" => (recording <=> triggered)

\* While the loop runs the buffer holds at most one chunk more than
\* MAX_SPEECH_SECS: the cap is looked at before each further chunk, although
\* a chunk that the VAD answers skips it (lines 146-158).
SegmentBounded == ~interrupted => Len(speech) <= MaxSpeech + 1

\* The zeros that an earlier segment left in the buffer only stand before a
\* caption's audio, and there are fewer of them than the lookback has room for
\* (lines 70 and 142-143).
ZerosOnlyPad ==
  \A k \in DOMAIN caption_cache :
    LET s == caption_cache[k]
        n == Cardinality({i \in DOMAIN s : s[i] = Zero})
    IN  n < Lookback /\ \A i \in 1 .. n : s[i] = Zero

\* Until Ctrl+C, no chunk the VAD took for speech is dropped: it is in a caption
\* or in the segment being recorded, across the cap, the zeroing and the
\* lookback (lines 141-161).
NoVoiceDropped ==
  (pc = "get" /\ ~interrupted) =>
     voiced \subseteq InCaptions \cup (IF recording THEN ToSet(speech) ELSE {})

\* When Ctrl+C finds a segment open, what it had and everything the stream
\* delivered until it was closed is cached, save the chunk in hand
\* (lines 168-175).
FlushComplete ==
  (pc = "done" /\ recording) =>
    LET run == Audio(Last(caption_cache))
    IN  Cardinality((run[1] .. heard) \ ToSet(run)) <= 1

\* How far the user's stop has got.
phase ==
  CASE ~interrupted -> "live"
    [] interrupted /\ pc \in {"clear", "done", "aborted"} -> "closed"
    [] OTHER -> "closing"

\* Ctrl+C ends the program, with the open segment cached unless the handler is
\* interrupted too (lines 168-175).
InterruptEnds ==
  interrupted ~> \/ pc = "done" /\ (recording => caption_cache # <<>>)
                 \/ pc = "aborted"

\* end_recording() "transcribes, prints and caches the caption": at exit at most
\* the chunk in hand is missing of what the VAD took for speech.
VoiceCachedAtExit == pc = "done" => Cardinality(voiced \ InCaptions) <= 1
=============================================================================
