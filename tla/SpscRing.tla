------------------------------ MODULE SpscRing ------------------------------
(***************************************************************************)
(* audio_buffer of moonshine_cpp/examples_linux/live.cpp, shared by        *)
(* capture_thread, which pushes chunks, and transcribe_thread, which pops  *)
(* them.  Nothing orders the two threads: audio_mutex is declared          *)
(* (line 30) and never locked, head and tail are plain size_t.             *)
(*                                                                         *)
(* One step is one access to memory the other thread writes.  A sample is  *)
(* known by the number of samples pushed before it.                        *)
(***************************************************************************)
EXTENDS Ring

CONSTANTS
  Capacity,    \* slots of the ring (SAMPLE_RATE * 5 = 80000)
  Chunk,       \* samples pushed and popped at a time (CHUNK_SIZE = 512)
  SizeMod,     \* size_t counts modulo SizeMod (2^64)
  MaxSamples   \* bound of the model: samples pushed

ASSUME RingAssumption ==
  /\ Chunk \in Nat \ {0}
  /\ Capacity \in Nat /\ Capacity > Chunk
  /\ SizeMod \in Nat /\ SizeMod > 2 * Capacity
  /\ MaxSamples \in Nat

VARIABLES
  rereads,             \* TRUE: size() loads head and tail again after comparing
                       \* them, as the source says and an unoptimised build does;
                       \* FALSE: the compiler keeps the values it compared
  buffer, head, tail,  \* the fields of audio_buffer
  ppc,                 \* where capture_thread is
  pahead,              \* outcome of `head >= tail` in its call of size()
  pi,                  \* i of the loop in push()
  cpc,                 \* where transcribe_thread is
  cahead,              \* outcome of `head >= tail` in its call of size()
  topop,               \* to_pop of pop()
  ci,                  \* i of the loop in pop()
  chunk,               \* transcribe_thread's chunk vector
  wrote, took,         \* history: samples pushed, samples popped
  out,                 \* history: the last chunk handed to the rest of the loop
  filled               \* history: a push was accepted that leaves no slot free

capture    == <<ppc, pahead, pi, wrote, filled>>
transcribe == <<cpc, cahead, topop, ci, chunk, took, out>>
vars == <<rereads, buffer, head, tail, capture, transcribe>>

Slots   == 0 .. Capacity - 1
Places  == 0 .. Chunk - 1
Silence == -1   \* the zeros that buffer and chunk are created with

Unread == wrote - took

\* Arithmetic on size_t.
Word(x) == x % SizeMod

Init ==
  /\ rereads \in BOOLEAN
  /\ buffer = [s \in Slots |-> Silence] /\ head = 0 /\ tail = 0
  /\ ppc = "idle" /\ pahead = FALSE /\ pi = 0
  /\ cpc = "poll" /\ cahead = FALSE /\ topop = 0 /\ ci = 0
  /\ chunk = [i \in Places |-> Silence]
  /\ wrote = 0 /\ took = 0 /\ out = chunk /\ filled = FALSE
-----------------------------------------------------------------------------
(* capture_thread: audio_buffer.push(tmp.data(), CHUNK_SIZE)               *)

\* A chunk was dequeued from the audio device; push() calls size().
StartPush ==
  /\ ppc = "idle"
  /\ wrote + Chunk <= MaxSamples
  /\ ppc' = "size"
  /\ UNCHANGED <<rereads, buffer, head, tail, pahead, pi, wrote, filled, transcribe>>

\* push() refuses the chunk or starts to copy it.
PushIf(ahead) ==
  LET size == Word(SizeWhen(ahead, head, tail, Capacity))
      fits == Chunk <= Word(Capacity - size)
  IN  /\ ppc' = IF fits THEN "store" ELSE "idle"
      /\ filled' = (filled \/ (fits /\ Unread + Chunk >= Capacity))

PushCompare ==
  /\ ppc = "size" /\ rereads
  /\ pahead' = (head >= tail)
  /\ ppc' = "reread"
  /\ UNCHANGED <<rereads, buffer, head, tail, pi, wrote, filled, transcribe>>

PushDecide ==
  /\ \/ ppc = "size" /\ ~rereads /\ PushIf(head >= tail)
     \/ ppc = "reread" /\ PushIf(pahead)
  /\ UNCHANGED <<rereads, buffer, head, tail, pahead, pi, wrote, transcribe>>

\* buffer[head] = data[i]
Store ==
  /\ ppc = "store"
  /\ buffer' = [buffer EXCEPT ![head] = wrote]
  /\ ppc' = "publish"
  /\ UNCHANGED <<rereads, head, tail, pahead, pi, wrote, filled, transcribe>>

\* head = (head + 1) % capacity
Publish ==
  /\ ppc = "publish"
  /\ head' = Forward(head, Capacity)
  /\ wrote' = wrote + 1
  /\ IF pi + 1 < Chunk
     THEN ppc' = "store" /\ pi' = pi + 1
     ELSE ppc' = "idle" /\ pi' = 0
  /\ UNCHANGED <<rereads, buffer, tail, pahead, filled, transcribe>>
-----------------------------------------------------------------------------
(* transcribe_thread: audio_buffer.size(), then audio_buffer.pop(...)      *)

\* Variant: a poll that waits for more than a chunk.
PollForMore(ahead) ==
  cpc' = IF Word(SizeWhen(ahead, head, tail, Capacity)) <= Chunk
         THEN "poll" ELSE "pop"

\* `audio_buffer.size() < CHUNK_SIZE` sleeps and looks again.
PollIf(ahead) ==
  cpc' = IF Word(SizeWhen(ahead, head, tail, Capacity)) < Chunk
         THEN "poll" ELSE "pop"

PollCompare ==
  /\ cpc = "poll" /\ rereads
  /\ cahead' = (head >= tail)
  /\ cpc' = "pollreread"
  /\ UNCHANGED <<rereads, buffer, head, tail, capture, topop, ci, chunk, took, out>>

PollDecide ==
  /\ \/ cpc = "poll" /\ ~rereads /\ PollIf(head >= tail)
     \/ cpc = "pollreread" /\ PollIf(cahead)
  /\ UNCHANGED <<rereads, buffer, head, tail, capture, cahead, topop, ci, chunk, took, out>>

\* Variant: a pop that takes n samples however many there are.
PopUnchecked(ahead) == topop' = Chunk /\ cpc' = "load"

\* avail = size(); to_pop = std::min(n, avail)
PopIf(ahead) ==
  LET avail == Word(SizeWhen(ahead, head, tail, Capacity))
  IN  /\ topop' = IF avail < Chunk THEN avail ELSE Chunk
      /\ cpc' = IF avail = 0 THEN "use" ELSE "load"

PopCompare ==
  /\ cpc = "pop" /\ rereads
  /\ cahead' = (head >= tail)
  /\ cpc' = "popreread"
  /\ UNCHANGED <<rereads, buffer, head, tail, capture, topop, ci, chunk, took, out>>

PopDecide ==
  /\ \/ cpc = "pop" /\ ~rereads /\ PopIf(head >= tail)
     \/ cpc = "popreread" /\ PopIf(cahead)
  /\ UNCHANGED <<rereads, buffer, head, tail, capture, cahead, ci, chunk, took, out>>

\* Variant: a pop that reads the slot after tail.
OldestNext == buffer[Forward(tail, Capacity)]

Oldest == buffer[tail]

\* out[i] = buffer[tail]
Load ==
  /\ cpc = "load"
  /\ chunk' = [chunk EXCEPT ![ci] = Oldest]
  /\ cpc' = "advance"
  /\ UNCHANGED <<rereads, buffer, head, tail, capture, cahead, topop, ci, took, out>>

\* tail = (tail + 1) % capacity
Advance ==
  /\ cpc = "advance"
  /\ tail' = Forward(tail, Capacity)
  /\ took' = took + 1
  /\ ci' = ci + 1
  /\ cpc' = IF ci + 1 < topop THEN "load" ELSE "use"
  /\ UNCHANGED <<rereads, buffer, head, capture, cahead, topop, chunk, out>>

\* The loop goes on with the chunk, whatever pop() returned.
Use ==
  /\ cpc = "use"
  /\ out' = chunk
  /\ cpc' = "poll"
  /\ ci' = 0
  /\ UNCHANGED <<rereads, buffer, head, tail, capture, cahead, topop, chunk, took>>
-----------------------------------------------------------------------------
CaptureNext == StartPush \/ PushCompare \/ PushDecide \/ Store \/ Publish

TranscribeNext ==
  PollCompare \/ PollDecide \/ PopCompare \/ PopDecide \/ Load \/ Advance \/ Use

Next == CaptureNext \/ TranscribeNext

Spec == Init /\ [][Next]_vars

\* The scheduler runs both threads; the microphone owes nothing.
FairSpec ==
  /\ Spec
  /\ WF_vars(PushCompare \/ PushDecide \/ Store \/ Publish)
  /\ WF_vars(TranscribeNext)
-----------------------------------------------------------------------------
TypeOK ==
  /\ rereads \in BOOLEAN
  /\ buffer \in [Slots -> Int] /\ head \in Slots /\ tail \in Slots
  /\ ppc \in {"idle", "size", "reread", "store", "publish"}
  /\ pahead \in BOOLEAN /\ pi \in Places
  /\ cpc \in {"poll", "pollreread", "pop", "popreread", "load", "advance", "use"}
  /\ cahead \in BOOLEAN /\ topop \in 0 .. Chunk /\ ci \in 0 .. Chunk
  /\ chunk \in [Places -> Int] /\ out \in [Places -> Int]
  /\ wrote \in Nat /\ took \in Nat /\ filled \in BOOLEAN

\* As long as every push that was accepted left a slot free, what size() says
\* between two accesses is what was pushed and not popped (live.cpp:40-43).
NoOverrun ==
  ~filled =>
    /\ 0 <= Unread /\ Unread < Capacity
    /\ Unread = RingSize(head, tail, Capacity)

\* Until then pop() copies the oldest unread samples, as many as it took them
\* for.  Whatever the two threads do meanwhile, it never reads a slot ahead of
\* the producer or behind itself (live.cpp:54-62).
PoppedInOrder ==
  (~filled /\ cpc = "use") =>
    \A i \in 0 .. topop - 1 : chunk[i] = took - topop + i

\* Until then the chunk that transcribe_thread goes on with is made of the last
\* Chunk samples it popped, in the order they were pushed: no sample of an earlier
\* chunk is left in it and none is missing, although the number that pop()
\* returns is ignored (live.cpp:159).
ChunkIntact ==
  (~filled /\ cpc = "use") => \A i \in Places : chunk[i] = took - Chunk + i

\* A push is refused on overflow (line 46): what it writes is no sample that nobody
\* has read yet, in a build that loads head and tail once.
NoOverwrite == (~rereads /\ ppc = "store") => Unread < Capacity

\* The channel that the transcriber relies on.  Samples leave it when the
\* chunk they belong to is handed over, so it holds those in chunk too.  Only a
\* build that loads head and tail once hands over whole chunks, and the ring is
\* a channel only until a push fills it.
Channel == INSTANCE ChunkChannel
             WITH Room <- Capacity + Chunk, whole <- ~rereads,
                  sent <- wrote, received <- took - ci
ImplementsChannel ==
  Channel!Init /\ [][filled' \/ Channel!Next]_(Channel!vars)

\* In either build every sample that was pushed is handed over, but for a
\* remainder that is shorter than a chunk, unless the ring was filled
\* (live.cpp:153-159).
PushedIsUsed ==
  \A n \in 1 .. MaxSamples :
    (wrote = n) ~> (filled \/ (took > n - Chunk /\ cpc = "poll"))
=============================================================================
