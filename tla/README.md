# Low-power speech recognition, specified

This directory holds TLA+ models of the programs in this repository: two live
captioners, a dictation service and the shells that start it, the decoder of the
Moonshine models in C++ and in Python with the transcription of files on top,
and the evaluation of the models. TLC checks the models on small
instances (`MC*.tla` with their `.cfg` files). TLAPS checks the theorems in
`*Proofs.tla` for every value of the constants. `PROJECT.json` ties each
definition to the lines it translates, each property to the hazard it watches
and to a plausible bug that would break it.

    tlc -config MCDecoders.cfg MCDecoders        # any of the runs below
    tlapm SpscRingProofs.tla                     # any of the proofs below
    tlapm SequenceFacts.tla                      # what several of them rest on

## 1. The system

About 1600 lines are this repository's own, in some twenty files. The other 374
thousand are `whisper_cpp/src`: whisper.cpp and ggml with their examples,
vendored unchanged and run as a command line program. A share of all lines in the
repository therefore says little; of its own source, all files that keep state are
modelled.

| Component | State | Operations | Interacts with | Hard behaviour | Correct means |
|---|---|---|---|---|---|
| Audio ring, `moonshine_cpp/examples_linux/live.cpp` `RingBuffer` | `buffer`, `head`, `tail` | `size`, `push`, `pop` | shared by `capture_thread` and `transcribe_thread`; the mutex beside it is never locked | two threads on plain variables; full looks like empty; `pop` may return less than asked | whole chunks come out in order, once; nothing unread is overwritten |
| Live captioner, C++, the rest of `live.cpp` | `running`, the two ring buffers, `recording`, `silence_chunks` | capture, lookback, level, end of segment, partial, flush, signal, joins | SDL device, decoder | three threads, refused chunks, `generate()` that throws, shutdown | no speech lost or captioned twice; stops on SIGINT |
| Live captioner, Python, `moonshine/src/live_trans.py` | queue, `speech`, `recording`, the VAD's state, `caption_cache` | callback, loop, `end_recording`, `soft_reset`, handler of Ctrl+C | audio callback thread, VAD, decoder | an interrupt between any two statements, in the handler too; the cap resets the VAD; a buffer that is zeroed, not emptied | loop and VAD agree; nothing said before Ctrl+C is dropped |
| Vosk captioner, `vosk/live_trans.py` | queue, `result`, the recognizer | callback, `AcceptWaveform`, `Result`, Ctrl+C | audio callback thread, Vosk | what Ctrl+C finds on its way; an exception | only the end of what was said is missing |
| Dictation service, `moonshine-enhanced/` | the loop's; `recording`, `recording_file` | the loop, `process_speech`, start, end | shells that start it, the disk | kills and restarts with text in a file's buffer; spoken commands | the file has what was dictated, in order |
| Self start, `self_start_setup.sh`, `start.sh` | `.bashrc` | append a command, start | every interactive shell | several instances, one after the other and at once, on one file | none spoils what another wrote |
| Decoder, C++, `moonshine_cpp/src/moonshine.cpp` | `tokens`, the cache, `seq_len` | `generate`, `detokenize` | ONNX networks | values carried from decode to decode; limit | decoding with the cache = decoding without |
| Decoder, Python, `moonshine/src/model.py` and its copy | `tokens`, `past_key_values` | `generate` | merged ONNX network | encoder values that are void when a cache is used | the same |
| File transcription, C++, `file.cpp` | slices, `ans` | slice, decode, cut, join | decoder | seven characters cut off every slice, whatever ended it; exceptions | no word of a slice lost, no slice either |
| File transcription, Python, `moonshine/src/file_trans.py` | `models` | look up, load, decode | threads of the evaluation | check-then-load without a lock | each thread loads at most once |
| Whisper front end, `whisper_cpp/file_trans.py` | the working directory of the process | `transcribe` | threads of the evaluation, `whisper-cli` | one working directory for all threads; `subprocess.run` may raise in the other directory | a `whisper-cli` that was built is found, the directory restored |
| Accuracy evaluation, `evaluation/WER.py`, `evaluate_model.py` | the pool, the dataset in turn | dispatch on the model's name, `evaluate`, `evaluate_on_slice` | both `transcribe()` | failing jobs and pending ones; what one dataset leaves for the next; names with a size | it ends; a figure is of the model that was named |
| Speed evaluation, build, whisper.cpp | – | – | – | – | not modelled, see section 6 |

Audio reaches both captioners through a callback or device queue, as chunks of
512 samples. The captioner delimits segments of speech and hands each to the
decoder, whose tokens become a caption. The service does the same and hands the
caption to `process_speech`. The evaluations call `transcribe` of one front end
from a pool of threads.

## 2. The modules

```
Ring ─── SpscRing ──implements── ChunkChannel       two threads, one ring
  └───── LiveCpp  ──implements── Captions           three threads of live.cpp
LiveTrans ┐                                         live_trans.py of moonshine
VoskLive ─┴ PyCaptioners ─implements─ Captions      live_trans.py of vosk
LiveTrans ┐
Dictation ┼ Enhanced                                one instance of the service
          └ Bootstrap                               shells, many instances
Decoding ─ DecodeCpp ─implements─ Greedy            moonshine.cpp
       │     └ FileCpp ┐                            file.cpp
       └── DecodePy ───┴ Decoders                   model.py; DecodePy ─implements─ Greedy
WhisperPool ─ EvalPool                              WER.py, evaluate_model.py, file_trans.py
```

**Ring** is the arithmetic of `RingBuffer`: a position moved by one, `size()`
given the outcome of its comparison, and the test of `push`.

**SpscRing** is `audio_buffer` as its two threads use it. One action is one access
to memory that the other thread writes: the comparison in `size()`, its
difference, one store, one `head` update, one load, one `tail` update. `rereads`,
which never changes, says whether `size()` loads `head` and `tail` a second time
for the difference. The source says so and `scripts/build.sh`, which passes an
unset build type, compiles it so; an optimised build may keep the first values.
`size_t` wraps modulo `SizeMod`. A sample is its number in the order of the
pushes, so order, loss and repetition can be stated. `filled` remembers that a
push was accepted which leaves no slot free: until then the ring is a channel, and
what comes after it is what `ring_full` is about. Memory is sequentially
consistent: a second class of outcomes of the data race, reordered stores, is not
in the model.
**ChunkChannel** is what the transcriber takes the ring for. The mapping lets a
sample leave the channel when the chunk it is copied into is handed on. A channel
is `whole` if every chunk handed over is; only the build that loads once
implements a whole one, the other one that may hand over the rest of an older
chunk.

**LiveCpp** has `main()`, `capture_thread` and `transcribe_thread` with a program
counter each. It makes no claim about `audio_buffer`, whose two threads race
(SpscRing): `size()` of it may answer either poll at any time once
`capture_thread` has dequeued a chunk, and a chunk is known by the number of the
pop that filled it, whatever it was filled with. `heard`, `queued` count what the
device delivered and what `capture_thread` still has to dequeue. `speech_buffer`
keeps `head` and `tail` beside the chunks they are meant to delimit: what `size()`
answers is computed from the positions, as in the code, and whether that is true
is an invariant. The level of a chunk and the outcome of `generate()` are
nondeterministic.

**LiveTrans** is `main()` of `live_trans.py`, one action per statement that
changes state, since `KeyboardInterrupt` may come between any two. The VAD is
`silero`'s `VADIterator`, external, modelled from its published behaviour as the
loop uses it: three levels of probability, `triggered`, `temp_end`,
`current_sample`. The variable `speech` counts in chunks of 512 samples;
0 stands for a chunk that was zeroed. `Abort` is a second Ctrl+C in the handler, or an
exception of the VAD's or the decoder's network, which nothing catches.

**VoskLive** is `main()` of `vosk/live_trans.py`. The recognizer is external: it
may end an utterance with any block, and `Result()` gives it out and forgets it. When
it raises (`Fail`), `exit()` ends the program and nobody is handed the texts so far.
**PyCaptioners** has the user start one of the two programs: `transcription_from_mic.py`
offers the Moonshine one, `vosk/live_trans.py` is run by itself.

**Captions** is the promise of both captioners: each caption is made from a run
of chunks after the runs before it, with at most `Miss` chunks left out, and
after the user's stop one last caption may follow. Both Python programs implement
it with `Miss = 0, LastMiss = 1`: the chunk in hand when Ctrl+C comes. LiveCpp
implements it with gaps, and `MissingWasRefused` says what the gaps are.

**Dictation** is `process_speech()`: given a text, what it says, and the file's
state, the set of what may happen. After any write the buffer may reach the disk
up to any text; closing writes it all. **Enhanced** instantiates LiveTrans for the
loop and adds `process_speech`, the end of the program through an exception or
Ctrl+C, after which Python closes the file, `Kill`, which does not, and a restart.
A kill is one of the process: what was written stays. Nothing is synced, so a
machine that goes down may lose more, and no property here speaks of that.
**Bootstrap** has the lines that the setup appends to `.bashrc`, shells that work
them off one after the other, and an instance per shell. All instances hear the
same utterances; each transcribes them for itself, so they may disagree on what
was a command. Its loop is not repeated: an instance takes one utterance after the
other, which `LoopInStep` and `NoVoiceDropped` are about.

**Decoding, DecodeCpp, DecodePy, Decoders.** A network is a function from the
tokens that its inputs were computed from to the likeliest next token, so a cache
is the sequence of tokens it stands for. `DecodePy` also says whether the encoder
values came from the audio; if they did not, any token may come out.
**Greedy** decodes the whole sequence for each token. **FileCpp** is
`transcribe()` of `file.cpp` around `generate()`: each slice is a call of its own,
and the model answers for it anew, whatever it answered for the slices before
(`NextSlice` keeps the old answers for histories that are longer than the slice
lets it ask about). A text is a sequence of characters, each known by its token
and its place in it, so what the two `erase` calls take off can be told; `slices`
records which samples they were for. **Decoders** runs the Python port or the C++
one, for a limit that the caller gives, or the C++ one by `file.cpp`, which gives
none. In the Python port `None` stands for no limit given and 0 is a limit; in the
C++ one 0 is replaced by 6 tokens per second of audio (`moonshine.cpp:158-161`),
although `moonshine.hpp:25` calls it "no limit".

**WhisperPool** has one program counter per thread of the pool between
`os.getcwd`, `os.chdir`, the start of `whisper-cli`, its end and the return, and
the main thread in `list(executor.map(...))`: it collects results in order,
raises the first exception it meets, cancels what is pending, waits for the rest.
`overlapped` remembers that two threads were inside at once. `built` says whether
`whisper-cli` is there: `preheat()` ignores what `prepare.sh` returned. `subprocess.run`
may raise for want of the program (`NotFound`), for any other reason (`CannotRun`), or
because its output is no text (`CannotDecode`); each leaves `transcribe()` without
`os.chdir(OLD_PATH)`. **EvalPool** puts the
program around it: the dispatch on the model's name, one pool per dataset, the
other `transcribe()` with its dictionary, and the calls that fail at once since
the arguments do not fit (`partial(..., model=)` of a function without such a
parameter; arrays instead of paths with `--streaming`). An exception of `preheat()`
during the import ends the program before any pool.

History variables (`wrote`, `took`, `out`, `filled`, `voiced`, `taken`, `loud`,
`lost`, `failed`, `dictated`, `killed`, `overlapped`, `loads`, `said`, `slices`)
decide nothing: no guard reads one, save where a bound of the model or the name of the
next sample, chunk or text is taken from it.

## 3. The runs

| Run | Asks | Result |
|---|---|---|
| `ring` | is the unlocked ring a channel until a push fills it? | yes, in both builds never overrun and in order, of whole chunks when `size()` loads its fields once; each complete chunk is picked up (`PushedIsUsed`) |
| `ring_reread` | is each chunk whole when `size()` loads them twice? | no: it underflows when `head` wraps between the loads, a chunk is handed on with samples of an earlier one |
| `ring_full` | does a push refuse what would overwrite unread samples? | no: in the middle of a pop a push may fill the last slot, `head` meets `tail`, the full ring looks empty and the next push is accepted |
| `live_py` | do the two Python captioners keep their promise, with Ctrl+C anywhere? | yes, see the properties in LiveTrans, VoskLive and PyCaptioners |
| `live_py_exit` | is at most the chunk in hand missing at exit? | no: Ctrl+C during `transcribe()` loses the segment |
| `live_cpp` | the same for the threads of `live.cpp`, of the chunks that they pop off `audio_buffer` | yes, with gaps that the full speech buffer or an exception accounts for |
| `live_cpp_capped` | does `MAX_SPEECH_SECS` cap a segment? | no: the size stops at 79872 of 80000 |
| `decoders` | is decoding with the cache greedy decoding, in both ports, call after call, for every model over three tokens? does a transcript have all words, of all slices? | yes, a transcript that is returned is one of the whole recording; of the words the last four characters of a slice are missing where the limit took the end token's place, and nothing elsewhere (`WordsAreKept`); characters outside the text are erased only there (`OutsideOnlyIfCut`) |
| `dictation` | does `recording.txt` hold what was dictated over exceptions, kills and restarts? | yes, save what a kill finds in the buffer |
| `instances` | and when several instances write it? | the same: each one's texts in order, none overwritten |
| `evaluation` | what survives threads that share a directory and a dictionary, over several datasets and for every kind of name? | a `whisper-cli` that was built is found unless two threads overlap in `transcribe()`, the directory is restored unless they do or `subprocess.run` raises; no thread loads the model twice; a figure is of the model named; the program ends |
| `whisper_missing` | is a `whisper-cli` that was built always found? | no: another thread's return takes the directory away |

The five negative results disagree with a sentence in the code or its docs; the
findings in `PROJECT.json` quote it.

### Bounds

| Constant | Value | Code | Why it is enough |
|---|---|---|---|
| `Chunk`, `Capacity` (SpscRing) | 3, 10; 2, 7 | 512, 80000 | capacity no multiple of the chunk, as in the code: positions wrap inside a chunk |
| `MaxSamples` | 27, 20, 12 | – | two and a half turns around the ring of 10: both positions wrap twice at different offsets, a push is refused, and one fills the ring |
| `SizeMod` | 64 | 2^64 | above twice the capacity, all that the arithmetic depends on |
| `Lookback`, `MaxSpeech`, `MinSilence` (LiveTrans) | 2, 3, 2 | 5, 468, 10 | a lookback that cuts, a cap that is reached with lookback and without, a pause that ends speech and one that does not |
| `MaxHeard` (PyCaptioners) | 10 | – | two full segments with the pauses that end them and what follows |
| `SpeechCapacity` (LiveCpp) | 7 | 80000 | room for three chunks and a sample: it refuses chunks |
| `Lookback`, `SilenceToEnd` (LiveCpp) | 2, 2 | 5, 10 | `(Lookback + 1) * Chunk` fits, as in the code; a pause that ends a segment and one that does not |
| `MaxTaken`, `MaxHeard` (LiveCpp) | 9, 2; 6, 1 | – | a segment that overflows, its end and a second one; `capture_thread` with nothing, one and two chunks to dequeue, since the pops do not count them |
| `MaxHeard` (Enhanced) | 9 | – | a command, a text and a command, with a restart between |
| `Shell`, `MaxSetups`, `MaxHeard` (Bootstrap) | 2, 2, 4 | – | two instances at once, and one after another in a shell; a command, two texts and a command |
| `Token`, `Longest`, `Sizes`, `MaxArg` | 3, 3, {2666, 2667, 5334, 8000}, 2 | 32768, 6 per s, any, any | start, end and a word; all models; no token, one, two and three; a limit not given, of one and of two |
| `Slice`, `Lengths`, `Spelled` | 5334, {0, 2667, 8001, 13335}, 3 4 5 | 480000, any, 3 4 any | no slice, one, two and three, the last long enough for one token; a word longer than what is erased, and the start token as a word, which is shorter |
| `Worker`, `Jobs`, `Datasets` | 3, 3, 2 | `max_workers`, dataset, 2 | each thread can be inside while the others come and go; jobs pending, running and done; a pool that starts where another has left off |

Nothing in SpscRing keeps the transcriber in time: pushes are refused, and one may fill
the ring. The properties of `ring` speak of the time until then (`~filled`), and the
run goes on beyond it, where only the types are claimed.

Where deadlock is not checked the program really stops: the captioners and the
evaluation end, and the models stop at their bound of input.

### Fairness

* `ring`: weak fairness of a push once it has started, and of the transcriber.
  Threads are scheduled; the microphone owes nothing, so `StartPush` is not
  fair. The transcriber polls, so it is always enabled.
* `live_py`: weak fairness of the main thread of the Moonshine program. Neither
  the callback nor the interrupt is fair. The drain ends since a closed stream
  puts nothing.
* `live_cpp`: weak fairness of each of the three threads, none of the device or
  the signal.
* `evaluation`: each thread is scheduled, models and `whisper-cli` answer.

The runs `decoders`, `dictation` and `instances` check no liveness: a call of
`generate()` is a loop over a limit, nothing has to be said, and what is killed may
stay down.

No property assumes that somebody speaks or presses Ctrl+C.

## 4. What is proved

TLAPS checks these for every value of the constants that the named assumptions
allow.

| Module | Theorem | Says |
|---|---|---|
| SpscRingProofs | `TypeCorrect` | the types |
| | `RingNeverOverrun` | `head` and `tail` count the unread samples, in both builds |
| | `PopsOldest` | `pop()` copies the oldest unread samples, in both builds |
| | `ChunksIntact` | each chunk is whole, if `size()` loads its fields once |
| | `RingImplementsChannel` | the ring implements ChunkChannel, whole or not as the build is |
| PyCaptionersProofs | `LoopTypes` | the types |
| | `VadInStep` | `recording` and `triggered` agree at every `q.get()` |
| | `CapHolds` | no segment exceeds the cap by more than a chunk |
| | `NoVoiceIsDropped` | until Ctrl+C no chunk the VAD took for speech is lost |
| | `ZerosArePad` | zeros stand at the start of a caption only, fewer than the lookback |
| | `FlushIsComplete` | what Ctrl+C flushes lacks at most one chunk of all that was delivered since its first |
| | `VoskKeepsAllBlocks` | Vosk's texts have every block, once and in order |
| | `CaptionsArePromised` | both Python programs implement Captions |
| | `CaptionersAreSafe` | all of the above about the loop, whichever program is started |
| LiveCppProofs | `CppTypes` | the types |
| | `SizeHonest` | `speech_buffer.size()` is the number of samples in it |
| | `SilenceIsCounted` | `silence_chunks` counts the quiet chunks since the last loud one |
| | `OnlySilenceEnds` | nothing but silence ends a segment |
| | `LoudKept` | a loud chunk is lost only to a full buffer or a failed transcription |
| | `OnlyRefusedMissing` | a popped chunk missing in a transcription was refused by the full speech buffer |
| | `SpeechAtStart` | a segment has a loud chunk within a lookback of its start |
| | `CppImplementsCaptions` | the program implements Captions over the chunks it pops |
| DecodersProofs | `CacheIsComplete` | each decode has all tokens before it |
| | `DecodesGreedily` | `generate()` implements Greedy |
| | `PyDecodesGreedily` | so does that of the Python port |
| | `CacheIsCompleteInSlices`, `SlicesDecodedGreedily` | so does every slice of a file |
| | `TranscriptHasWords` | a transcript has all words, save the last four characters of a slice that the limit ended |
| | `ReturnedTextIsWhole` | a transcript that is returned is of all slices, from the first sample to the last |
| | `ErasesInside` | characters outside the text are erased only in such a slice |
| EvalPoolProofs | `EvalTypes` | the types |
| | `WrongDirectoryStays` | a lost directory stays lost, for all datasets to come |
| | `FoundAlone` | without overlap a `whisper-cli` that was built is found |
| | `RestoredAlone` | without overlap and without an exception of `subprocess.run` the directory is restored, whichever files `whisper-cli` fails for |
| | `EachLoadsOnce` | no thread loads the Moonshine model twice |
| | `FiguresAreNamed` | a figure is of the size that was named, if datasets have files |
| EnhancedProofs | `TextsInOrder` | the file has dictated texts, in order, each once |
| | `NothingElseLoses` | only a kill loses a text, and only from the buffer |
| | `RestartsInStep` | loop and VAD agree at every `q.get()`, over all restarts |
| BootstrapProofs | `ShellsInOrder` | the same order for each of any number of instances |
| | `InstancesKeepAll` | no instance loses or overwrites a text of another |

**The ring.** The theorems have no hypothesis but `RingAssumption`; all but the
types speak of the time until a push fills the ring, as the run does. The
invariant `IInv` says that until then (`Sound`) `head` and `tail` count the unread
samples (`Counts`), the unread slots hold the samples in order (`Stored`), the
rest of a push under way leaves a slot free (`Pushing`), `pop` has copied what it
counted (`Popping`), and what an outdated comparison in `size()` still means
(`Looking`). The last is the heart of it. A comparison can be overtaken only by a
wrap of `head`, which makes the answer larger than the truth. If that happens in
the poll, `head` is below `tail` when `pop()` compares again, its comparison
cannot be overtaken the same way, and `pop()` asks for what is there. So order
survives the race and wholeness does not, which is what `ring` and `ring_reread`
show.

**The Python loop.** `recording` and `triggered` disagree while a chunk is dealt
with. `Agreement` says by how much at each statement; `Handling` keeps the
interrupt's path apart. For the cap, `Capped` bounds the buffer at each
statement. The branch that skips the cap needs an answer of the VAD, which by
`VadInv` starts a segment, when the lookback bounds the buffer, or ends it.
`VoiceInv` follows a chunk of speech from the VAD's answer to the caption: while
it is dealt with it is in `speech`, and the lookback, which cuts from the front,
keeps the chunk that has just come. `PadInv` says that zeros are a prefix of
`speech` at all times and a short one during a segment; after the zeroing the
buffer is long, and it is the lookback that shortens the zeros before a next
segment can start.

`FlushComplete` and the refinement need to know which chunks the buffer holds,
not only how many. `RunInv` says it at every statement, in the handler of Ctrl+C
as well. The chunks in `speech` follow one another up to the last one taken off
the queue (`Buffered`), and the queue goes on from there (`Queued`). One chunk
may be missing after the first `g` of them: the one in hand when Ctrl+C fell, lost
before the drain appends the rest. Before Ctrl+C nothing is missing (`Gap`).
Everything in the buffer that can still be captioned comes after everything that
was (`Later`), and both a segment and a caption end with a chunk, not a zero
(`SegmentVoiced`, `CaptionsVoiced`). Neither the cut of the lookback, from the
front, nor the zeroing, in place, disturbs a run. What the decoder is given is
what follows the zeros (`AudioIs`), so a caption is a run, and the flush a run
up to the last chunk delivered with at most one missing (`OneMissing`). That is
`FlushComplete`, and with `Later` it is the step that Captions allows.

**Vosk.** Texts, the text in hand, the recognizer's utterance, the block in hand
and the queue, joined in this order, count from 1 to the number of blocks heard
(`Placed`); each statement only moves blocks across a seam. `Handed` says that a
block or text is used up before its variable is set again, `LastText` that the
last text ends where the joined texts end. `VoskKeepsAll` and the refinement follow.
The program that was not started leaves its variables alone, so `CaptionersSpec`
implies the specification of the Moonshine loop by itself, and what is proved of
that loop carries over (`CaptionersLoop`).

**The C++ captioner.** `SizeIsHonest` is inductive with the types of the
positions. The assumption `SpeechCapacity % Chunk # 0` is what keeps the ring
from being exactly full; 80000 and 512 satisfy it. A size below the capacity is
also why the cap never acts. `OrderInv` says that chunks on their way are younger
than those judged, so the chunk in hand was not judged loud before; with it
`CountInv` gives the meaning of `silence_chunks` at each statement, before and
after the chunk in hand is counted. At the end of a segment the count is
`SilenceToEnd`, which is `OnlySilenceEnds`.

The four theorems about what is kept rest on the same chain. `LoudInv` places a loud
chunk at each statement: judged, in the open segment, shown, failed or refused.
`MissInv` says that `speech` rises and that everything taken since its first chunk is
in it or was refused, which survives the trim as the trim cuts from the front only.
`StartInv` bounds the buffer by the lookback while nothing is recorded, so what a
segment starts with ends in a loud chunk within it. A chunk is the number of its pop
here, so all of this holds whatever `audio_buffer` gave to the pops. For the
refinement, `CaptionedInv` says that what was captioned was taken before anything in
`speech`; with `MissInv` each transcription is then a run after those before, and
SIGINT's flush is the one that Captions allows in closing.

**Decoding.** `CacheInv` says what each statement finds: at the choice of a
token the cache stands for all tokens, at the next decode it lacks the last.
`DecodeAssumption` bounds the sequences the model is asked about by `Longest`,
so that a model is a function on a set. `PyInv` is the same for the Python port
and says more: once a cache is used, it came from the audio. The merged network
returns void encoder values when it is given a cache, and the port keeps the
first ones for that reason.

For files, `SliceText` says what the text of a slice is: three characters of
the start token, the words, and the four of the end token if the tokens have
one. `ErasedIs` takes three and four characters off such a text. So the four come from
the words exactly if the end token is missing, and `erase` reaches outside only if
fewer than four are left then. `FileInv` carries this over the slices, together with
`CacheInv`, which holds anew for each. `SliceInv` says that the slices so far follow one
another up to `at`, or to the end of the recording; `transcribe()` returns only once
`at` has passed that.

**Sequences.** Texts are joined by `FlattenSeq`, a recursive function.
SequenceFacts proves what it gives without an induction rule: the set of lengths
for which a fact fails has a least element, since `<` is well founded on `Nat`, and
that element is refuted (`LeastNatural`). Hence `FlattenAppend` and
`FlattenWithoutFirst`, and `CutOut`, `CutAnywhere` for cutting joined sequences.

**The evaluation.** While nothing overlapped, at most one thread is away, and the
directory is the one it saved, or the one it went to (`AloneInv`). `PoolInv` says
that the pool is left only when every thread is idle, so the next dataset starts
from a pool with nobody in it. A thread loads only what it did not find, and
what was stored stays: `LoadedOnce` with that is inductive. For a name with a
wrong argument every job ends in an error, so `collected` stays 0.

**Dictation.** What `process_speech()` writes and what it leaves in the buffer are
together the buffer and, when dictating, the text; the file is only added to, so file
and buffer together only ever grow at their end (`ProcessedExtends`). With that
`FileInv` of EnhancedProofs is inductive: the texts of both rise and stay below
`spoken`. With several writers on one file the invariant is per shell (`ShellInv`): its
buffer rises, comes after all it has in the file, and below its next utterance. A write
of one shell is nothing to the others, as all its texts are its own. `StepInv` is
how `recording` and `triggered` may differ at each statement of the service's loop.
It differs from `Agreement` of the captioner: an exception ends the process at
whatever statement, and the next one starts with both false.

Model-checked only: the liveness properties (`InterruptEnds`, `SignalEnds`,
`PushedIsUsed`, `EvaluationEnds`). They rest on fairness, hence on
`ENABLED`, which the prover does not handle. Every other property of a passing run is
stated by a theorem.

## 5. What the models leave out of the components they cover

* LiveTrans: the display and the statistics. LiveCpp: start-up. No call of
  `main()` between the start of the threads and their joins throws.
* What `audio_buffer` hands to `live.cpp` is not part of LiveCpp: its captions are made
  of pops. The k-th pop is the k-th `Receive` of ChunkChannel, so in a build that loads
  `head` and `tail` once, and until a push fills the ring, pops are chunks of the audio, in
  order and each once, and "no chunk is captioned twice" is "no audio is". In the
  build that `scripts/build.sh` makes, a pop may hold samples of an earlier chunk
  (`ring_reread`), which are then captioned again; no property denies it.
* After a push has filled the ring, the properties of SpscRing claim nothing but the
  types. `ring_full` shows the first damage: full takes the place of empty, 384 samples
  into a pop from 156 chunks. This needs a transcriber about five seconds late.
* The chunks still in `audio_buffer` when SIGINT comes are not flushed
  (`live.cpp:236`), nor are they popped, so `ImplementsCaptions` does not speak of
  them.
* `speech *= 0.0` keeps the length of the buffer (`live_trans.py:70`): the next
  caption's lookback may begin with silence that was never recorded.
  `ZerosOnlyPad` bounds it.
* FileCpp: reading the file. `main()` passes the file's name as the directory of the
  models when a directory is given (`file.cpp:72`), and a stereo file is decoded as
  twice the audio (lines 23-24); neither is a matter of state. `detokenize()` also
  turns a token that begins with any other three-byte character from U+2000 on into
  a space and its rest, though its comment speaks of U+2581 only
  (`moonshine.cpp:254`): a token's text is opaque here, so its length stands for
  whatever it is after that.
* Bootstrap: `start.sh` compares the installed packages with the text
  `cat .../model_requirements.txt`, not with the file (line 12), so it reinstalls
  them at each start; that is part of `StartService`. A terminal that is closed
  kills what runs in it; a shell that is left with `exit` has ended its instance
  before.
* EvalPool: the pool's threads are interchangeable, and `executor.map` is modelled
  from CPython's library. The counter of finished files is only printed.

## 6. Not modelled, and the plan

All components with state are modelled. What could be added:

1. SpscRing and LiveCpp in one module, so that a caption is known by its samples in
   either build.
2. Store buffers in SpscRing, for processors that reorder stores.

Stays out: RTF.py (a sequential timing loop, whose `np.ndarray(x)` allocates instead of
converting) and UPL.py (a docstring), `vosk/file_trans.py` (one sequential loop), CMake
and scripts but for the optimisation they do not ask for, downloads, the datasets
and the word error metric, and whisper.cpp with ggml, which is not this
repository's code.
