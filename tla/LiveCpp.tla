------------------------------ MODULE LiveCpp -------------------------------
(***************************************************************************)
(* moonshine_cpp/examples_linux/live.cpp: capture_thread moves chunks from *)
(* the audio device to audio_buffer, transcribe_thread takes them off,     *)
(* finds the segments of speech and transcribes them, main() waits for     *)
(* SIGINT and joins both.                                                  *)
(*                                                                         *)
(* Two threads use audio_buffer and nothing orders them; SpscRing has what *)
(* comes of it.  Here its size() may answer either poll at any time, and a *)
(* chunk is known by the number of the pop that filled it, whatever it was *)
(* filled with.  speech_buffer has one user and keeps its head and tail.   *)
(***************************************************************************)
EXTENDS Ring, Sequences, SequencesExt, FiniteSets

CONSTANTS
  Chunk,           \* CHUNK_SIZE (512 samples)
  SpeechCapacity,  \* samples of speech_buffer (80000)
  Lookback,        \* LOOKBACK_CHUNKS (5)
  SilenceToEnd,    \* SILENCE_CHUNKS_TO_END (10)
  MaxHeard,        \* bound of the model: chunks the device delivers
  MaxTaken         \* bound of the model: chunks popped off audio_buffer

ASSUME CppAssumption ==
  /\ Chunk \in Nat \ {0}
  /\ SpeechCapacity \in Nat \ {0} /\ SpeechCapacity % Chunk # 0
  /\ Lookback \in Nat \ {0} /\ (Lookback + 1) * Chunk < SpeechCapacity
  /\ SilenceToEnd \in Nat \ {0}
  /\ MaxHeard \in Nat /\ MaxTaken \in Nat

VARIABLES
  running,           \* cleared by SIGINT
  mpc, cpc, tpc,     \* where main(), capture_thread and transcribe_thread are
  heard, queued,     \* chunks delivered; those still queued by SDL
  speech,            \* the chunks in speech_buffer
  head, tail,        \* of speech_buffer
  recording, silence_chunks,   \* locals of transcribe_thread
  captions,          \* the transcriptions printed, each as its chunks
  taken, loud,       \* history: chunks popped; those above the threshold
  lost,              \* history: those speech_buffer refused
  failed             \* history: chunks whose transcription threw

ring    == <<speech, head, tail>>
segment == <<ring, recording, silence_chunks>>
history == <<taken, loud>>
printed == <<captions, failed>>
vars == <<running, mpc, cpc, tpc, heard, queued, segment, printed, history, lost>>

Init ==
  /\ running = TRUE /\ mpc = "wait" /\ cpc = "loop" /\ tpc = "loop"
  /\ heard = 0 /\ queued = 0
  /\ speech = <<>> /\ head = 0 /\ tail = 0
  /\ recording = FALSE /\ silence_chunks = 0
  /\ captions = <<>> /\ failed = {}
  /\ taken = 0 /\ loud = {} /\ lost = {}
-----------------------------------------------------------------------------
(* The device, the signal and main().                                      *)

\* SDL queues what the microphone records until the device is paused.
DeviceHears ==
  /\ mpc = "wait" /\ heard < MaxHeard
  /\ heard' = heard + 1
  /\ queued' = queued + 1
  /\ UNCHANGED <<running, mpc, cpc, tpc, segment, printed, history, lost>>

\* signalHandler(SIGINT)
Signal ==
  /\ running
  /\ running' = FALSE
  /\ UNCHANGED <<mpc, cpc, tpc, heard, queued, segment, printed, history, lost>>

Main(from, to) ==
  /\ mpc = from /\ mpc' = to
  /\ UNCHANGED <<running, cpc, tpc, heard, queued, segment, printed, history, lost>>

Pause          == ~running /\ Main("wait", "joincapture")
JoinCapture    == cpc = "done" /\ Main("joincapture", "jointranscribe")
JoinTranscribe == tpc = "done" /\ Main("jointranscribe", "done")
-----------------------------------------------------------------------------
(* capture_thread                                                          *)

Capture(from, to) ==
  /\ cpc = from /\ cpc' = to
  /\ UNCHANGED <<running, mpc, tpc, heard, segment, printed, history, lost>>

CaptureOn  == running /\ Capture("loop", "queue") /\ UNCHANGED queued
CaptureOff == ~running /\ Capture("loop", "done") /\ UNCHANGED queued

\* Less than a chunk is queued: sleep.
CaptureSleeps == queued = 0 /\ Capture("queue", "loop") /\ UNCHANGED queued

\* SDL_DequeueAudio and audio_buffer.push, which may refuse the chunk; nobody
\* looks.
CapturePush ==
  /\ queued > 0
  /\ Capture("queue", "loop")
  /\ queued' = queued - 1
-----------------------------------------------------------------------------
(* transcribe_thread                                                       *)

Transcribe(from, to) ==
  /\ tpc = from /\ tpc' = to
  /\ UNCHANGED <<running, mpc, cpc, heard, queued>>

LoopOn ==
  /\ running /\ Transcribe("loop", "poll")
  /\ UNCHANGED <<segment, printed, history, lost>>

LoopOff ==
  /\ ~running /\ Transcribe("loop", "flush")
  /\ UNCHANGED <<segment, printed, history, lost>>

\* Variant: a wait for audio that does not look at `running`.
TranscribeWaits ==
  /\ Transcribe("poll", "poll")
  /\ UNCHANGED <<segment, printed, history, lost>>

\* audio_buffer.size() < CHUNK_SIZE: sleep.
TranscribeSleeps ==
  /\ Transcribe("poll", "loop")
  /\ UNCHANGED <<segment, printed, history, lost>>

SpeechSize == RingSize(head, tail, SpeechCapacity)

\* Variant: a position that does not wrap.
AdvanceNoWrap(p, n) == p + n

\* The position n samples after p.
Advance(p, n) == (p + n) % SpeechCapacity

\* Variant: a push that does not look at the size.
PushUnchecked(c) ==
  /\ speech' = Append(speech, c)
  /\ head' = Advance(head, Chunk)
  /\ UNCHANGED <<tail, lost>>

\* speech_buffer.push(chunk), whose refusal nobody looks at
PushSpeech(c) ==
  IF Fits(Chunk, SpeechSize, SpeechCapacity)
  THEN /\ speech' = Append(speech, c)
       /\ head' = Advance(head, Chunk)
       /\ UNCHANGED <<tail, lost>>
  ELSE lost' = lost \cup {c} /\ UNCHANGED ring

\* Variant: a chunk is popped and not pushed, to catch up.
PoppedTwice == taken + 2

\* The chunk that audio_buffer.pop fills.
Popped == taken + 1

\* audio_buffer.pop and speech_buffer.push.  audio_buffer is empty until
\* capture_thread has dequeued a chunk.
Take ==
  /\ queued < heard /\ Popped <= MaxTaken
  /\ Transcribe("poll", "trim")
  /\ taken' = Popped
  /\ PushSpeech(Popped)
  /\ UNCHANGED <<recording, silence_chunks, printed, loud>>

\* speech_buffer.pop(n) for n samples of whole chunks
PopSpeech(n) ==
  /\ speech' = SubSeq(speech, n \div Chunk + 1, Len(speech))
  /\ tail' = Advance(tail, n)
  /\ UNCHANGED head

\* Variant: a lookback that is never cut.
NeverTrims == FALSE

\* Variant: a lookback that is cut while recording too.
AlwaysTrims == SpeechSize > Lookback * Chunk

\* While nothing is recorded, what exceeds the lookback is dropped.
Trims == ~recording /\ SpeechSize > Lookback * Chunk

Trim ==
  /\ Transcribe("trim", "detect")
  /\ IF Trims
     THEN PopSpeech(SpeechSize - Lookback * Chunk)
     ELSE UNCHANGED ring
  /\ UNCHANGED <<recording, silence_chunks, printed, history, lost>>

\* Variant: a loud chunk does not start the count of quiet ones anew.
SilentKept(isLoud) == IF isLoud THEN silence_chunks ELSE silence_chunks + 1

\* The count of quiet chunks once a chunk is counted.
Silent(isLoud) == IF isLoud THEN 0 ELSE silence_chunks + 1

\* The level of the chunk starts a segment, goes on with it or ends it.
Detect ==
  /\ tpc = "detect"
  /\ \E isLoud \in BOOLEAN :
       LET now    == recording \/ isLoud
           silent == Silent(isLoud)
           ended  == silent >= SilenceToEnd \/ SpeechSize >= SpeechCapacity
       IN
       /\ loud' = IF isLoud THEN loud \cup {taken} ELSE loud
       /\ recording' = now
       /\ silence_chunks' = IF now THEN silent ELSE silence_chunks
       /\ Transcribe("detect",
                     IF ~now THEN "loop" ELSE IF ended THEN "end" ELSE "partial")
  /\ UNCHANGED <<ring, printed, taken, lost>>

\* A partial transcription copies the speech and changes only the screen.
Partial ==
  /\ Transcribe("partial", "loop")
  /\ UNCHANGED <<segment, printed, history, lost>>

\* generate() and detokenize() return a transcription or throw.
Show(ok) ==
  /\ captions' = IF ok THEN Append(captions, speech) ELSE captions
  /\ failed' = IF ok THEN failed ELSE failed \cup ToSet(speech)

\* Variant: the speech is copied without popping it.
CopyAll == UNCHANGED ring

\* speech_buffer.pop(speech.data(), speech.size()) of all there is
PopAll == PopSpeech(SpeechSize)

EndSegment ==
  /\ Transcribe("end", "loop")
  /\ PopAll
  /\ \E ok \in BOOLEAN : Show(ok)
  /\ recording' = FALSE /\ silence_chunks' = 0
  /\ UNCHANGED <<history, lost>>

FlushRemaining ==
  /\ Transcribe("flush", "done")
  /\ IF SpeechSize > 0
     THEN PopSpeech(SpeechSize) /\ \E ok \in BOOLEAN : Show(ok)
     ELSE UNCHANGED <<ring, printed>>
  /\ UNCHANGED <<recording, silence_chunks, history, lost>>
-----------------------------------------------------------------------------
MainNext    == Pause \/ JoinCapture \/ JoinTranscribe
CaptureNext == CaptureOn \/ CaptureOff \/ CaptureSleeps \/ CapturePush

TranscribeNext ==
  \/ LoopOn \/ LoopOff \/ TranscribeSleeps \/ Take \/ Trim \/ Detect
  \/ Partial \/ EndSegment \/ FlushRemaining

Next == DeviceHears \/ Signal \/ MainNext \/ CaptureNext \/ TranscribeNext

Spec == Init /\ [][Next]_vars

\* The scheduler runs the three threads; nobody has to speak or press Ctrl+C.
FairSpec ==
  Spec /\ WF_vars(MainNext) /\ WF_vars(CaptureNext) /\ WF_vars(TranscribeNext)
-----------------------------------------------------------------------------
Taken == 1 .. MaxTaken

TypeOK ==
  /\ running \in BOOLEAN
  /\ mpc \in {"wait", "joincapture", "jointranscribe", "done"}
  /\ cpc \in {"loop", "queue", "done"}
  /\ tpc \in {"loop", "poll", "trim", "detect", "partial", "end", "flush", "done"}
  /\ heard \in 0 .. MaxHeard /\ queued \in 0 .. heard
  /\ speech \in Seq(Taken)
  /\ head \in 0 .. SpeechCapacity - 1 /\ tail \in 0 .. SpeechCapacity - 1
  /\ recording \in BOOLEAN /\ silence_chunks \in 0 .. SilenceToEnd
  /\ captions \in Seq(Seq(Taken)) /\ taken \in 0 .. MaxTaken
  /\ loud \subseteq Taken /\ lost \subseteq Taken /\ failed \subseteq Taken

\* The size of speech_buffer is that of what is in it: it never fills up to the
\* point where head meets tail, as its capacity is no multiple of a chunk
\* (lines 40-52 and 78).
SizeIsHonest == SpeechSize = Len(speech) * Chunk

\* While a segment is recorded, silence_chunks counts the quiet chunks taken
\* since the last loud one, also while the speech buffer refuses them, and the
\* segment goes on for fewer than SILENCE_CHUNKS_TO_END of them
\* (lines 171-189).
SilenceCounted ==
  (recording /\ tpc \in {"loop", "poll"}) =>
    /\ silence_chunks < SilenceToEnd
    /\ \A i \in 0 .. silence_chunks - 1 : taken - i \notin loud
    /\ taken - silence_chunks \in loud

\* A segment ends when the last SILENCE_CHUNKS_TO_END chunks taken were quiet and
\* for no other reason, however long it is and whatever was refused: the test
\* of the speech buffer's size beside that of the silence never decides
\* (lines 187-188).
SegmentEndsInSilence ==
  tpc = "end" => \A i \in 0 .. SilenceToEnd - 1 : taken - i \notin loud

Runs == {captions[k] : k \in DOMAIN captions}
InCaptions == UNION {ToSet(run) : run \in Runs}

\* What is missing between the ends of a transcription was refused by the full
\* speech buffer: no chunk that was popped gets lost between the two buffers, or in
\* the lookback, or with a segment that ended (lines 159-167 and 190-192).
MissingWasRefused ==
  \A run \in Runs : (run[1] .. run[Len(run)]) \ ToSet(run) \subseteq lost

\* The lookback before a segment is short: a transcription printed when speech
\* ended has a loud chunk among its first LOOKBACK_CHUNKS (lines 165-177).
StartsWithSpeech ==
  tpc # "done" => \A run \in Runs : \E i \in 1 .. Lookback : run[i] \in loud

\* No loud chunk gets away: once taken, it is in the segment being recorded or in
\* a transcription, unless that threw or the full speech buffer refused it
\* (lines 159-210 and 237-250).
LoudIsKept ==
  tpc \in {"loop", "poll", "done"} =>
    loud \subseteq InCaptions \cup failed \cup lost
                   \cup (IF recording THEN ToSet(speech) ELSE {})

Promise == INSTANCE Captions
  WITH heard <- taken, Miss <- MaxTaken, LastMiss <- MaxTaken,
       phase <- CASE tpc = "flush" -> "closing"
                  [] tpc = "done"  -> "closed"
                  [] OTHER         -> "live"

\* Of the chunks popped off audio_buffer, whatever they were filled with, each is
\* transcribed for good at most once and in the order of the pops: no segment
\* leaves anything to the next one, whether its transcription is printed or
\* throws; the flush adds at most one (lines 190-209 and 237-250).
ImplementsCaptions == Promise!Spec

\* SIGINT ends the program: every thread sees it and main() joins them.
SignalEnds == ~running ~> mpc = "done"

\* MAX_SPEECH_SECS is there to "cap segment length" (line 24): a segment does
\* not go on once the speech buffer has no room for another chunk.
SegmentCapped ==
  (recording /\ tpc = "loop") => Fits(Chunk, SpeechSize, SpeechCapacity)
=============================================================================
