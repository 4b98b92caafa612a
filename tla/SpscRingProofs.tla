---------------------------- MODULE SpscRingProofs ----------------------------
(***************************************************************************)
(* What holds of the shared ring for every capacity, chunk size and        *)
(* interleaving, until a push is accepted that leaves no slot free: head   *)
(* then meets tail from behind and size() takes the full ring for empty.   *)
(***************************************************************************)
EXTENDS SpscRing, TLAPS
-----------------------------------------------------------------------------
(* The inductive invariant.                                                *)

\* head and tail count what was pushed and not popped.
Counts ==
  /\ 0 <= Unread /\ Unread < Capacity
  /\ Unread = RingSize(head, tail, Capacity)

\* The slot i places after p, for i below cap.
SlotAfter(p, i, cap) == IF p + i < cap THEN p + i ELSE p + i - cap

\* The unread slots hold the samples in the order they were pushed.
Stored ==
  \A i \in 0 .. Unread - 1 : buffer[SlotAfter(tail, i, Capacity)] = took + i

\* What is left of a push that is under way leaves a slot free.
Pushing ==
  /\ ppc \in {"idle", "size", "reread"} => pi = 0
  /\ ppc \in {"store", "publish"} => Unread + (Chunk - pi) < Capacity
  /\ ppc = "publish" => buffer[head] = wrote

\* What the comparisons of size() still mean when their outcome is used.  If
\* the one of the poll was overtaken, head has wrapped and the one of pop()
\* cannot be.
Looking ==
  /\ cpc \in {"poll", "pollreread", "pop", "popreread"} => ci = 0
  /\ cpc = "pollreread" /\ ~cahead => head < tail
  /\ cpc = "pop" => Unread >= Chunk \/ head < tail
  /\ cpc = "pop" /\ ~rereads => Unread >= Chunk
  /\ cpc = "popreread" => IF cahead THEN Unread >= Chunk ELSE head < tail
  /\ cpc \in {"pollreread", "popreread"} => rereads

\* pop() has copied ci samples and only promised itself unread ones.
Popping ==
  /\ cpc \in {"load", "advance"} => ci < topop /\ topop - ci <= Unread
  /\ cpc = "use" => ci = topop
  /\ cpc \in {"load", "advance", "use"} =>
       /\ \A i \in 0 .. ci - 1 : chunk[i] = took - ci + i
       /\ ~rereads => topop = Chunk
  /\ cpc = "use" => topop > 0
  /\ cpc = "advance" => chunk[ci] = took

\* The places that pop() has not written hold what was handed over before.
Kept ==
  \A i \in Places :
    i >= ci /\ ~(cpc = "advance" /\ i = ci) => chunk[i] = out[i]

Sound == Counts /\ Stored /\ Pushing /\ Looking /\ Popping /\ Kept

\* The loop of pop() stays within what it asked for, whatever the ring holds.
InRange ==
  /\ cpc \in {"load", "advance"} => ci < topop
  /\ cpc \in {"poll", "pollreread", "pop", "popreread"} => ci = 0

IInv == TypeOK /\ InRange /\ (~filled => Sound)
-----------------------------------------------------------------------------
(* Lemmas on the ring arithmetic.                                          *)

LEMMA ForwardStep ==
  ASSUME NEW p \in Slots
  PROVE  Forward(p, Capacity) = IF p + 1 = Capacity THEN 0 ELSE p + 1
<1>1. CASE p + 1 = Capacity
  BY <1>1, RingAssumption DEF Forward, Slots
<1>2. CASE p + 1 < Capacity
  BY <1>2, RingAssumption DEF Forward, Slots
<1> QED BY <1>1, <1>2, RingAssumption DEF Slots

LEMMA WordSmall ==
  ASSUME NEW x \in 0 .. SizeMod - 1
  PROVE  Word(x) = x
  BY RingAssumption DEF Word

LEMMA WordNegative ==
  ASSUME NEW x \in -Capacity .. -1
  PROVE  Word(x) = SizeMod + x
  BY RingAssumption DEF Word

\* size() says what is unread unless its comparison was overtaken by a wrap.
LEMMA SizeExact ==
  ASSUME TypeOK, Counts, NEW ahead \in BOOLEAN, ahead <=> head >= tail
  PROVE  Word(SizeWhen(ahead, head, tail, Capacity)) = Unread
<1>1. SizeWhen(ahead, head, tail, Capacity) = Unread
  BY DEF Counts, RingSize, SizeWhen
<1>2. Unread \in 0 .. SizeMod - 1
  BY RingAssumption DEF TypeOK, Counts, Unread
<1> QED BY <1>1, <1>2, WordSmall

\* Otherwise it says far more than a chunk.
LEMMA SizeTorn ==
  ASSUME TypeOK, head < tail
  PROVE  /\ Word(SizeWhen(TRUE, head, tail, Capacity)) \in Nat
         /\ Word(SizeWhen(TRUE, head, tail, Capacity)) > Chunk
<1>1. SizeWhen(TRUE, head, tail, Capacity) = head - tail
  BY DEF SizeWhen
<1>2. head - tail \in -Capacity .. -1
  BY RingAssumption DEF TypeOK, Slots
<1>3. Word(head - tail) = SizeMod + (head - tail)
  BY <1>2, WordNegative
<1>4. SizeMod + (head - tail) \in Nat /\ SizeMod + (head - tail) > Chunk
  BY <1>2, RingAssumption
<1> QED BY <1>1, <1>3, <1>4

LEMMA HeadAfterTail ==
  ASSUME TypeOK, Counts
  PROVE  SlotAfter(tail, Unread, Capacity) = head
  BY RingAssumption DEF TypeOK, Counts, Unread, SlotAfter, RingSize, SizeWhen, Slots

LEMMA SlotsDistinct ==
  ASSUME NEW p \in Slots, NEW i \in Slots, NEW j \in Slots, i # j
  PROVE  SlotAfter(p, i, Capacity) # SlotAfter(p, j, Capacity)
  BY RingAssumption DEF SlotAfter, Slots

LEMMA SlotAfterForward ==
  ASSUME NEW p \in Slots, NEW i \in Nat, i + 1 < Capacity
  PROVE  SlotAfter(Forward(p, Capacity), i, Capacity) = SlotAfter(p, i + 1, Capacity)
<1>1. CASE p + 1 = Capacity
  BY <1>1, ForwardStep, RingAssumption DEF SlotAfter, Slots
<1>2. CASE p + 1 # Capacity
  BY <1>2, ForwardStep, RingAssumption DEF SlotAfter, Slots
<1> QED BY <1>1, <1>2

LEMMA SlotAfterType ==
  ASSUME NEW p \in Slots, NEW i \in Slots
  PROVE  SlotAfter(p, i, Capacity) \in Slots
  BY RingAssumption DEF SlotAfter, Slots
-----------------------------------------------------------------------------
(* Every step keeps the invariant.                                         *)

LEMMA InitIInv == Init => IInv
<1> SUFFICES ASSUME Init PROVE IInv
  OBVIOUS
<1>1. TypeOK
  <2>0. rereads \in BOOLEAN
    BY DEF Init
  <2>1. buffer \in [Slots -> Int] /\ chunk \in [Places -> Int] /\ out \in [Places -> Int]
    BY DEF Init, Silence
  <2>2. pahead \in BOOLEAN /\ cahead \in BOOLEAN /\ filled \in BOOLEAN
    BY DEF Init
  <2> QED BY <2>0, <2>1, <2>2, RingAssumption DEF Init, TypeOK, Slots, Places
<1>2. Counts
  BY RingAssumption DEF Init, Counts, Unread, RingSize, SizeWhen
<1>3. Stored
  BY DEF Init, Stored, Unread
<1>4. Pushing
  BY RingAssumption DEF Init, Pushing, Unread
<1>5. Looking
  BY DEF Init, Looking
<1>6. Popping /\ Kept
  BY DEF Init, Popping, Kept
<1>7. InRange
  BY DEF Init, InRange
<1> QED BY <1>1, <1>2, <1>3, <1>4, <1>5, <1>6, <1>7 DEF IInv, Sound

LEMMA WordType ==
  ASSUME NEW x \in Int
  PROVE  Word(x) \in Nat
  BY RingAssumption DEF Word

\* What no overrun can change.
LEMMA NextTypes ==
  ASSUME TypeOK, InRange, [Next]_vars
  PROVE  TypeOK' /\ InRange'
<1> USE RingAssumption DEF TypeOK, InRange
<1>1. CASE StartPush \/ PushCompare \/ PushDecide
  <2>1. UNCHANGED <<rereads, buffer, head, tail, pi, wrote, transcribe>>
    BY <1>1 DEF StartPush, PushCompare, PushDecide
  <2>2. ppc' \in {"idle", "size", "reread", "store", "publish"}
    BY <1>1 DEF StartPush, PushCompare, PushDecide, PushIf
  <2>3. pahead' \in BOOLEAN
    <3>1. CASE StartPush \/ PushDecide
      <4>1. UNCHANGED pahead
        BY <3>1, Zenon DEF StartPush, PushDecide
      <4> QED BY <4>1
    <3>2. CASE PushCompare
      BY <3>2 DEF Slots, PushCompare
    <3> QED BY <1>1, <3>1, <3>2
  <2>4. filled' \in BOOLEAN
    <3>1. CASE StartPush \/ PushCompare
      BY <3>1 DEF StartPush, PushCompare
    <3>2. CASE PushDecide
      <4>1. filled' = filled \/ filled' = TRUE \/ filled' = FALSE
        BY <3>2, Zenon DEF PushDecide, PushIf
      <4> QED BY <4>1
    <3> QED BY <1>1, <3>1, <3>2
  <2> QED BY <2>1, <2>2, <2>3, <2>4 DEF transcribe
<1>2. CASE Store
  <2>1. buffer' \in [Slots -> Int] /\ ppc' = "publish"
    BY <1>2 DEF Store
  <2>2. UNCHANGED <<rereads, head, tail, pahead, pi, wrote, filled, transcribe>>
    BY <1>2 DEF Store
  <2> QED BY <2>1, <2>2 DEF transcribe
<1>3. CASE Publish
  <2>1. head' \in Slots
    <3>1. head' = IF head + 1 = Capacity THEN 0 ELSE head + 1
      BY <1>3, ForwardStep DEF Publish
    <3> QED BY <3>1 DEF Slots
  <2>2. pi' \in Places /\ wrote' \in Nat /\ ppc' \in {"store", "idle"}
    BY <1>3 DEF Publish, Places
  <2>3. UNCHANGED <<rereads, buffer, tail, pahead, filled, transcribe>>
    BY <1>3 DEF Publish
  <2> QED BY <2>1, <2>2, <2>3 DEF transcribe
<1>4. CASE PollCompare \/ PopCompare
  <2>1. cahead' \in BOOLEAN
    <3>1. cahead' = (head >= tail)
      BY <1>4 DEF PollCompare, PopCompare
    <3>2. head \in Int /\ tail \in Int
      BY DEF Slots
    <3> QED BY <3>1, <3>2
  <2>2. /\ UNCHANGED <<rereads, buffer, head, tail, capture, topop, ci, chunk, took, out>>
        /\ \/ cpc = "poll" /\ cpc' = "pollreread"
           \/ cpc = "pop" /\ cpc' = "popreread"
    BY <1>4 DEF PollCompare, PopCompare
  <2> QED BY <2>1, <2>2 DEF capture
<1>5. CASE PollDecide
  <2>1. /\ UNCHANGED <<rereads, buffer, head, tail, capture, cahead, topop, ci, chunk,
                       took, out>>
        /\ cpc \in {"poll", "pollreread"} /\ cpc' \in {"poll", "pop"}
    BY <1>5 DEF PollDecide, PollIf
  <2> QED BY <2>1 DEF capture
<1>6. CASE PopDecide
  <2>1. /\ UNCHANGED <<rereads, buffer, head, tail, capture, cahead, ci, chunk, took, out>>
        /\ cpc \in {"pop", "popreread"}
    BY <1>6 DEF PopDecide
  <2>2. PICK avail \in Nat :
          /\ topop' = IF avail < Chunk THEN avail ELSE Chunk
          /\ cpc' = IF avail = 0 THEN "use" ELSE "load"
    <3>1. ASSUME NEW ahead \in BOOLEAN
          PROVE  Word(SizeWhen(ahead, head, tail, Capacity)) \in Nat
      <4>1. SizeWhen(ahead, head, tail, Capacity) \in Int
        BY DEF SizeWhen, Slots
      <4> QED BY <4>1, WordType
    <3>2. (head >= tail) \in BOOLEAN /\ cahead \in BOOLEAN
      BY DEF Slots
    <3>3. PICK ahead \in BOOLEAN : PopIf(ahead)
      BY <1>6, <3>2, Zenon DEF PopDecide
    <3> QED BY <3>1, <3>3 DEF PopIf
  <2>3. topop' \in 0 .. Chunk /\ (cpc' = "load" => 0 < topop')
    BY <2>2
  <2>4. cpc' \in {"use", "load"} /\ ci = 0
    BY <2>1, <2>2
  <2> QED BY <2>1, <2>3, <2>4 DEF capture
<1>7. CASE Load
  <2>1. buffer[tail] \in Int
    OBVIOUS
  <2> QED BY <1>7, <2>1 DEF Load, Oldest, capture
<1>8. CASE Advance
  <2>1. tail' \in Slots
    <3>1. tail' = IF tail + 1 = Capacity THEN 0 ELSE tail + 1
      BY <1>8, ForwardStep DEF Advance
    <3> QED BY <3>1 DEF Slots
  <2> QED BY <1>8, <2>1 DEF Advance, capture
<1>9. CASE Use
  BY <1>9 DEF Use, capture
<1>10. CASE UNCHANGED vars
  BY <1>10 DEF vars, capture, transcribe
<1> QED BY <1>1, <1>2, <1>3, <1>4, <1>5, <1>6, <1>7, <1>8, <1>9, <1>10
        DEF Next, CaptureNext, TranscribeNext

\* Steps that only look at the ring.
LEMMA PushLooks ==
  ASSUME TypeOK, Sound, ~filled',
         StartPush \/ PushCompare \/ PushDecide
  PROVE  Sound'
<1> USE RingAssumption DEF Sound
<1>1. UNCHANGED <<rereads, buffer, head, tail, pi, wrote, transcribe>>
  BY DEF StartPush, PushCompare, PushDecide
<1>2. Counts' /\ Stored'
  BY <1>1 DEF Counts, Stored, Unread, transcribe
<1>3. Pushing'
  <2>1. pi = 0 /\ pi' = 0 /\ Unread' = Unread /\ Unread \in Int
    BY <1>1 DEF Pushing, TypeOK, Unread, StartPush, PushCompare, PushDecide, transcribe
  <2>2. CASE StartPush \/ PushCompare
    BY <2>1, <2>2 DEF Pushing, StartPush, PushCompare
  <2>3. CASE PushDecide
    <3>1. ppc' \in {"store", "idle"} /\ (ppc' = "store" => ~(Unread + Chunk >= Capacity))
      BY <2>3, Zenon DEF PushDecide, PushIf
    <3> QED BY <2>1, <3>1 DEF Pushing
  <2> QED BY <2>2, <2>3
<1>4. Looking' /\ Popping' /\ Kept'
  BY <1>1 DEF Looking, Popping, Kept, Unread, transcribe
<1> QED BY <1>2, <1>3, <1>4

LEMMA StoreStep ==
  ASSUME TypeOK, Sound, Store
  PROVE  Sound'
<1> USE RingAssumption DEF Sound
<1>1. /\ UNCHANGED <<rereads, head, tail, pahead, pi, wrote, transcribe>>
      /\ buffer' = [buffer EXCEPT ![head] = wrote]
      /\ ppc = "store" /\ ppc' = "publish"
  BY DEF Store
<1>2. Counts'
  BY <1>1 DEF Counts, Unread, transcribe
<1>3. Stored'
  <2> SUFFICES ASSUME NEW i \in 0 .. Unread - 1
               PROVE  buffer'[SlotAfter(tail, i, Capacity)] = took + i
    BY <1>1 DEF Stored, Unread, transcribe
  <2>1. Unread \in Slots /\ i \in Slots /\ i # Unread
    BY DEF TypeOK, Counts, Unread, Slots
  <2>2. SlotAfter(tail, i, Capacity) # head
    BY <2>1, HeadAfterTail, SlotsDistinct DEF TypeOK
  <2>3. SlotAfter(tail, i, Capacity) \in Slots
    BY <2>1, SlotAfterType DEF TypeOK
  <2>4. buffer'[SlotAfter(tail, i, Capacity)] = buffer[SlotAfter(tail, i, Capacity)]
    BY <1>1, <2>2, <2>3 DEF TypeOK
  <2> QED BY <2>4 DEF Stored
<1>4. Pushing'
  BY <1>1 DEF TypeOK, Pushing, Unread, transcribe
<1>5. Looking' /\ Popping' /\ Kept'
  BY <1>1 DEF Looking, Popping, Kept, Unread, transcribe
<1> QED BY <1>2, <1>3, <1>4, <1>5

LEMMA PublishStep ==
  ASSUME TypeOK, Sound, Publish
  PROVE  Sound'
<1> USE RingAssumption DEF Sound
<1>1. /\ UNCHANGED <<rereads, buffer, tail, pahead, transcribe>>
      /\ head' = Forward(head, Capacity) /\ wrote' = wrote + 1
      /\ ppc = "publish"
      /\ IF pi + 1 < Chunk THEN ppc' = "store" /\ pi' = pi + 1
                           ELSE ppc' = "idle" /\ pi' = 0
  BY DEF Publish
<1>2. head' = IF head + 1 = Capacity THEN 0 ELSE head + 1
  BY <1>1, ForwardStep DEF TypeOK
<1>3. /\ Unread' = Unread + 1 /\ Unread \in Nat /\ Unread' \in Nat
      /\ Unread + (Chunk - pi) < Capacity /\ pi < Chunk
  BY <1>1 DEF TypeOK, Counts, Pushing, Unread, Places, transcribe
<1>4. Unread' < Capacity
  BY <1>3 DEF TypeOK, Places
<1>5. Counts'
  BY <1>1, <1>2, <1>3, <1>4
     DEF TypeOK, Slots, Counts, RingSize, SizeWhen, transcribe
<1>6. Stored'
  <2> SUFFICES ASSUME NEW i \in 0 .. Unread
               PROVE  buffer[SlotAfter(tail, i, Capacity)] = took + i
    BY <1>1, <1>3 DEF Stored, transcribe
  <2>1. CASE i < Unread
    BY <2>1, <1>3 DEF Stored
  <2>2. CASE i = Unread
    <3>1. buffer[head] = wrote
      BY <1>1 DEF Pushing
    <3>2. took + i = wrote
      BY <2>2 DEF Unread, TypeOK
    <3> QED BY <2>2, <3>1, <3>2, HeadAfterTail
  <2> QED BY <2>1, <2>2, <1>3
<1>7. Pushing'
  BY <1>1, <1>3 DEF TypeOK, Pushing, Places
<1>8. Looking'
  \* head stays behind tail once it has wrapped: it cannot catch up
  <2>1. head < tail => head' < tail'
    BY <1>1, <1>2, <1>3, <1>4
       DEF TypeOK, Slots, Counts, RingSize, SizeWhen, transcribe
  <2> QED BY <1>1, <1>3, <2>1 DEF Looking, TypeOK, transcribe
<1>9. Popping' /\ Kept'
  BY <1>1, <1>3 DEF Popping, Kept, TypeOK, transcribe
<1> QED BY <1>5, <1>6, <1>7, <1>8, <1>9

\* A comparison of the consumer: what it found may only be overtaken by a
\* wrap of head.
LEMMA CompareStep ==
  ASSUME TypeOK, Sound, PollCompare \/ PopCompare
  PROVE  Sound'
<1> USE DEF Sound
<1>1. /\ UNCHANGED <<rereads, buffer, head, tail, capture, topop, ci, chunk, took, out>>
      /\ cahead' = (head >= tail)
      /\ rereads
      /\ \/ cpc = "poll" /\ cpc' = "pollreread"
         \/ cpc = "pop" /\ cpc' = "popreread"
  BY DEF PollCompare, PopCompare
<1>2. cahead' \in BOOLEAN /\ (cahead' <=> head >= tail)
  <2>1. head \in Int /\ tail \in Int
    BY RingAssumption DEF TypeOK, Slots
  <2>2. cahead' \in BOOLEAN
    BY <1>1, <2>1
  <2>3. cahead' <=> head >= tail
    BY <1>1, Zenon
  <2> QED BY <2>2, <2>3
<1>3. Counts' /\ Stored' /\ Pushing'
  BY <1>1 DEF Counts, Stored, Pushing, Unread, capture
<1>4. Looking'
  BY <1>1, <1>2, RingAssumption DEF Looking, TypeOK, Slots, Unread, capture
<1>5. Popping' /\ Kept'
  BY <1>1 DEF Popping, Kept
<1> QED BY <1>3, <1>4, <1>5

LEMMA PollStep ==
  ASSUME TypeOK, Sound, PollDecide
  PROVE  Sound'
<1> USE DEF Sound
<1>1. UNCHANGED <<rereads, buffer, head, tail, capture, cahead, topop, ci, chunk, took, out>>
  BY DEF PollDecide
<1>2. PICK ahead \in BOOLEAN :
        /\ PollIf(ahead)
        /\ \/ cpc = "poll" /\ ~rereads /\ (ahead <=> head >= tail)
           \/ cpc = "pollreread" /\ ahead = cahead
  <2>1. head \in Int /\ tail \in Int
    BY RingAssumption DEF TypeOK, Slots
  <2>2. CASE cpc = "poll" /\ ~rereads /\ PollIf(head >= tail)
    <3>1. (head >= tail) \in BOOLEAN
      BY <2>1
    <3> QED BY <2>2, <3>1, Zenon
  <2>3. CASE cpc = "pollreread" /\ PollIf(cahead)
    BY <2>3, Zenon DEF TypeOK
  <2> QED BY <2>2, <2>3, Zenon DEF PollDecide
<1>3. cpc' \in {"poll", "pop"} /\ ci = 0
  BY <1>2 DEF PollIf, Looking
<1>4. Counts' /\ Stored' /\ Pushing'
  BY <1>1 DEF Counts, Stored, Pushing, Unread, capture
<1>5. Looking'
  <2>1. CASE ahead <=> head >= tail
    <3>1. cpc' = "pop" => Unread >= Chunk
      <4>1. Word(SizeWhen(ahead, head, tail, Capacity)) = Unread
        BY <2>1, SizeExact
      <4>2. Unread \in Int
        BY DEF TypeOK, Unread
      <4>3. cpc' = IF Unread < Chunk THEN "poll" ELSE "pop"
        BY <1>2, <4>1, Zenon DEF PollIf
      <4> QED BY <4>2, <4>3, RingAssumption
    <3> QED BY <1>1, <1>3, <3>1 DEF Looking, Unread, capture
  <2>2. CASE ~(ahead <=> head >= tail)
    <3>1. cpc = "pollreread" /\ rereads
      BY <1>2, <2>2 DEF Looking
    <3>2. head < tail
      BY <1>2, <2>2, <3>1, RingAssumption DEF Looking, TypeOK, Slots
    <3> QED BY <1>1, <1>3, <3>1, <3>2 DEF Looking, Unread, capture
  <2> QED BY <2>1, <2>2
<1>6. Popping' /\ Kept'
  BY <1>1, <1>2, <1>3 DEF Popping, Kept, Looking
<1> QED BY <1>4, <1>5, <1>6

LEMMA PopStep ==
  ASSUME TypeOK, Sound, PopDecide
  PROVE  Sound'
<1> USE DEF Sound
<1>1. UNCHANGED <<rereads, buffer, head, tail, capture, cahead, ci, chunk, took, out>>
  BY DEF PopDecide
<1>2. PICK ahead \in BOOLEAN :
        /\ PopIf(ahead)
        /\ \/ cpc = "pop" /\ ~rereads /\ (ahead <=> head >= tail)
           \/ cpc = "popreread" /\ ahead = cahead
  <2>1. head \in Int /\ tail \in Int
    BY RingAssumption DEF TypeOK, Slots
  <2>2. CASE cpc = "pop" /\ ~rereads /\ PopIf(head >= tail)
    <3>1. (head >= tail) \in BOOLEAN
      BY <2>1
    <3> QED BY <2>2, <3>1, Zenon
  <2>3. CASE cpc = "popreread" /\ PopIf(cahead)
    BY <2>3, Zenon DEF TypeOK
  <2> QED BY <2>2, <2>3, Zenon DEF PopDecide
<1> DEFINE avail == Word(SizeWhen(ahead, head, tail, Capacity))
<1>3. /\ topop' = IF avail < Chunk THEN avail ELSE Chunk
      /\ cpc' = IF avail = 0 THEN "use" ELSE "load"
  BY <1>2 DEF PopIf
<1>4. ci = 0 /\ Unread \in Nat
  BY <1>2 DEF Looking, TypeOK, Counts, Unread
<1>5. avail \in Nat /\ avail > 0 /\ topop' <= Unread /\ (~rereads => topop' = Chunk)
  <2>1. CASE ahead <=> head >= tail
    <3>1. avail = Unread
      BY <2>1, SizeExact
    <3>2. Unread > 0 /\ (~rereads => Unread >= Chunk)
      <4>1. Unread >= Chunk \/ head < tail
        BY <1>2, <2>1 DEF Looking
      <4>2. head < tail => Unread > 0
        BY RingAssumption DEF TypeOK, Slots, Counts, RingSize, SizeWhen
      <4>3. ~rereads => Unread >= Chunk
        BY <1>2 DEF Looking
      <4> QED BY <1>4, <4>1, <4>2, <4>3, RingAssumption
    <3> HIDE DEF avail
    <3> QED BY <1>3, <1>4, <3>1, <3>2, RingAssumption
  <2>2. CASE ~(ahead <=> head >= tail)
    <3>1. cpc = "popreread" /\ rereads
      BY <1>2, <2>2 DEF Looking
    <3>2. ahead = TRUE /\ head < tail /\ Unread >= Chunk
      BY <1>2, <2>2, <3>1, RingAssumption DEF Looking, TypeOK, Slots
    <3>3. avail \in Nat /\ avail > Chunk
      BY <3>2, SizeTorn
    <3> HIDE DEF avail
    <3> QED BY <1>3, <1>4, <3>1, <3>2, <3>3, RingAssumption
  <2> QED BY <2>1, <2>2
<1> HIDE DEF avail
<1>6. cpc' = "load" /\ topop' \in 1 .. Chunk
  BY <1>3, <1>5, RingAssumption
<1>7. Counts' /\ Stored' /\ Pushing'
  BY <1>1 DEF Counts, Stored, Pushing, Unread, capture
<1>8. Looking' /\ Popping'
  BY <1>1, <1>4, <1>5, <1>6 DEF Looking, Popping, Unread, capture
<1>9. Kept'
  <2>1. cpc # "advance" /\ cpc' # "advance"
    BY <1>2, <1>6
  <2> QED BY <1>1, <2>1 DEF Kept
<1> QED BY <1>7, <1>8, <1>9

LEMMA LoadStep ==
  ASSUME TypeOK, Sound, Load
  PROVE  Sound'
<1> USE DEF Sound
<1>1. /\ UNCHANGED <<rereads, buffer, head, tail, capture, cahead, topop, ci, took, out>>
      /\ chunk' = [chunk EXCEPT ![ci] = buffer[tail]]
      /\ cpc = "load" /\ cpc' = "advance"
  BY DEF Load, Oldest
<1>2. ci \in Places /\ Unread > 0
  BY <1>1, RingAssumption DEF Popping, TypeOK, Counts, Unread, Places
<1>3. buffer[tail] = took
  <2>1. buffer[SlotAfter(tail, 0, Capacity)] = took + 0
    BY <1>2 DEF Stored, TypeOK, Unread
  <2>2. SlotAfter(tail, 0, Capacity) = tail
    BY RingAssumption DEF TypeOK, Slots, SlotAfter
  <2> QED BY <2>1, <2>2 DEF TypeOK
<1>4. Counts' /\ Stored' /\ Pushing' /\ Looking'
  BY <1>1 DEF Counts, Stored, Pushing, Looking, Unread, capture
<1>5. Popping'
  BY <1>1, <1>2, <1>3, RingAssumption DEF Popping, TypeOK, Unread, Places, capture
<1>6. Kept'
  BY <1>1 DEF Kept, TypeOK
<1> QED BY <1>4, <1>5, <1>6

LEMMA AdvanceStep ==
  ASSUME TypeOK, Sound, Advance
  PROVE  Sound'
<1> USE DEF Sound
<1>1. /\ UNCHANGED <<rereads, buffer, head, capture, cahead, topop, chunk, out>>
      /\ tail' = Forward(tail, Capacity) /\ took' = took + 1 /\ ci' = ci + 1
      /\ cpc = "advance" /\ cpc' = IF ci + 1 < topop THEN "load" ELSE "use"
  BY DEF Advance
<1>2. tail' = IF tail + 1 = Capacity THEN 0 ELSE tail + 1
  BY <1>1, ForwardStep DEF TypeOK
<1>3. /\ ci < topop /\ topop - ci <= Unread /\ chunk[ci] = took
      /\ ci \in Places /\ topop \in 0 .. Chunk
  BY <1>1, RingAssumption DEF Popping, TypeOK, Places
<1>4. Unread' = Unread - 1 /\ Unread \in Nat /\ Unread' \in Nat
  BY <1>1, <1>3 DEF TypeOK, Counts, Unread, capture
<1>5. Counts'
  BY <1>1, <1>2, <1>4, RingAssumption
     DEF TypeOK, Slots, Counts, RingSize, SizeWhen, capture
<1>6. Stored'
  <2> SUFFICES ASSUME NEW i \in 0 .. Unread - 2
               PROVE  buffer[SlotAfter(tail', i, Capacity)] = took + 1 + i
    BY <1>1, <1>4 DEF Stored, capture
  <2>1. SlotAfter(tail', i, Capacity) = SlotAfter(tail, i + 1, Capacity)
    <3>1. tail \in Slots /\ i \in Nat /\ i + 1 < Capacity
      BY <1>4, RingAssumption DEF TypeOK, Counts
    <3> QED BY <1>1, <3>1, SlotAfterForward
  <2>2. buffer[SlotAfter(tail, i + 1, Capacity)] = took + (i + 1)
    BY <1>4 DEF Stored
  <2> QED BY <2>1, <2>2 DEF TypeOK
<1>7. Pushing'
  BY <1>1, <1>4, RingAssumption DEF Pushing, TypeOK, Places, capture
<1>8. Looking'
  BY <1>1 DEF Looking
<1>9. Popping'
  <2>1. \A i \in 0 .. ci' - 1 : chunk[i] = took' - ci' + i
    <3> SUFFICES ASSUME NEW i \in 0 .. ci PROVE chunk[i] = took - ci + i
      BY <1>1, <1>3 DEF TypeOK, Places
    <3>1. CASE i = ci
      BY <1>3, <3>1 DEF TypeOK
    <3>2. CASE i < ci
      BY <1>1, <1>3, <3>2 DEF Popping, Places
    <3> QED BY <1>3, <3>1, <3>2 DEF Places
  <2>2. cpc' = "use" => ci' = topop'
    BY <1>1, <1>3, RingAssumption DEF Places
  <2>3. cpc' = "load" => ci' < topop' /\ topop' - ci' <= Unread'
    BY <1>1, <1>3, <1>4, RingAssumption DEF Places
  <2>4. ~rereads => topop' = Chunk
    BY <1>1 DEF Popping
  <2>5. topop' > 0
    BY <1>1, <1>3, RingAssumption DEF Places
  <2> QED BY <1>1, <2>1, <2>2, <2>3, <2>4, <2>5 DEF Popping
<1>10. Kept'
  BY <1>1, <1>3 DEF Kept, Places
<1> QED BY <1>5, <1>6, <1>7, <1>8, <1>9, <1>10

LEMMA UseStep ==
  ASSUME TypeOK, Sound, Use
  PROVE  Sound'
<1> USE DEF Sound
<1>1. /\ UNCHANGED <<rereads, buffer, head, tail, capture, cahead, topop, chunk, took>>
      /\ out' = chunk /\ ci' = 0 /\ cpc = "use" /\ cpc' = "poll"
  BY DEF Use
<1>2. Counts' /\ Stored' /\ Pushing'
  BY <1>1 DEF Counts, Stored, Pushing, Unread, capture
<1>3. Looking' /\ Popping' /\ Kept'
  BY <1>1 DEF Looking, Popping, Kept
<1> QED BY <1>2, <1>3
-----------------------------------------------------------------------------
(* The theorems.                                                           *)

\* Any interleaving of the two threads keeps the invariant.
LEMMA NextSound ==
  ASSUME TypeOK, Sound, [Next]_vars, ~filled'
  PROVE  Sound'
<1>1. CASE CaptureNext
  <2>1. CASE StartPush \/ PushCompare \/ PushDecide
    BY <2>1, PushLooks
  <2>2. CASE Store
    BY <2>2, StoreStep
  <2>3. CASE Publish
    BY <2>3, PublishStep
  <2> QED BY <1>1, <2>1, <2>2, <2>3 DEF CaptureNext
<1>2. CASE TranscribeNext
  <2>1. CASE PollCompare \/ PopCompare
    BY <2>1, CompareStep
  <2>2. CASE PollDecide
    BY <2>2, PollStep
  <2>3. CASE PopDecide
    BY <2>3, PopStep
  <2>4. CASE Load
    BY <2>4, LoadStep
  <2>5. CASE Advance
    BY <2>5, AdvanceStep
  <2>6. CASE Use
    BY <2>6, UseStep
  <2> QED BY <1>2, <2>1, <2>2, <2>3, <2>4, <2>5, <2>6 DEF TranscribeNext
<1>3. CASE UNCHANGED vars
  BY <1>3 DEF vars, capture, transcribe, Sound, Counts, Stored, Pushing, Looking, Popping,
              Kept, Unread
<1> QED BY <1>1, <1>2, <1>3 DEF Next

\* A ring that was filled stays so: nothing is promised of it any more.
LEMMA FilledStays == [Next]_vars /\ filled => filled'
<1> SUFFICES ASSUME [Next]_vars, filled PROVE filled'
  OBVIOUS
<1>1. CASE StartPush \/ PushCompare \/ Store \/ Publish
  BY <1>1 DEF StartPush, PushCompare, Store, Publish
<1>2. CASE PushDecide
  BY <1>2 DEF PushDecide, PushIf
<1>3. CASE TranscribeNext
  BY <1>3 DEF TranscribeNext, PollCompare, PollDecide, PopCompare, PopDecide, Load,
     Advance, Use, capture
<1>4. CASE UNCHANGED vars
  BY <1>4 DEF vars, capture
<1> QED BY <1>1, <1>2, <1>3, <1>4 DEF Next, CaptureNext

LEMMA NextIInv == IInv /\ [Next]_vars => IInv'
<1> SUFFICES ASSUME IInv, [Next]_vars PROVE IInv'
  OBVIOUS
<1>1. TypeOK' /\ InRange'
  BY NextTypes DEF IInv
<1>2. ~filled' => Sound'
  <2> SUFFICES ASSUME ~filled' PROVE Sound'
    OBVIOUS
  <2>1. Sound
    BY FilledStays DEF IInv
  <2> QED BY <1>1, <2>1, NextSound DEF IInv
<1> QED BY <1>1, <1>2 DEF IInv

LEMMA Invariance == Spec => []IInv
  BY InitIInv, NextIInv, PTL DEF Spec

\* Every field of audio_buffer and every local of the two threads keeps its
\* type: head and tail stay slots of the ring, also of one that overran, and pop()
\* never writes beyond the chunk.
THEOREM TypeCorrect == Spec => []TypeOK
<1>1. IInv => TypeOK
  BY DEF IInv
<1> QED BY <1>1, Invariance, PTL

\* Until a push fills the ring, head and tail count exactly what was pushed and not
\* popped, whether or not size() reads them twice.
THEOREM RingNeverOverrun == Spec => []NoOverrun
<1>1. IInv => NoOverrun
  BY DEF IInv, Sound, Counts, NoOverrun
<1> QED BY <1>1, Invariance, PTL

\* Until a push fills the ring, what pop() copies is the oldest unread samples,
\* whether or not size() reads head and tail twice.
THEOREM PopsOldest == Spec => []PoppedInOrder
<1>1. IInv => PoppedInOrder
  <2> SUFFICES ASSUME IInv, ~filled, cpc = "use", NEW i \in 0 .. topop - 1
               PROVE  chunk[i] = took - topop + i
    BY DEF PoppedInOrder
  <2> QED BY DEF IInv, Sound, Popping
<1> QED BY <1>1, Invariance, PTL

\* Until a push fills the ring, and when size() compares the values it subtracts,
\* ignoring what pop() returns is harmless: every chunk is whole.
THEOREM ChunksIntact == Spec => [](~rereads => ChunkIntact)
<1>1. IInv => (~rereads => ChunkIntact)
  <2> SUFFICES ASSUME IInv, ~rereads, ~filled, cpc = "use", NEW i \in Places
               PROVE  chunk[i] = took - Chunk + i
    BY DEF ChunkIntact
  <2>1. topop = Chunk /\ ci = topop
    BY DEF IInv, Sound, Popping
  <2> QED BY <2>1 DEF IInv, Sound, Popping, Places
<1> QED BY <1>1, Invariance, PTL

\* The first state of the ring is the first state of the channel.
LEMMA InitChannel == Init => Channel!Init
<1> SUFFICES ASSUME Init PROVE Channel!Init
  OBVIOUS
<1>1. (~rereads) \in BOOLEAN
  BY DEF Init
<1>2. wrote = 0 /\ took - ci = 0 /\ out = [i \in 0 .. Chunk - 1 |-> -1]
  BY DEF Init, Places, Silence
<1> QED BY <1>1, <1>2 DEF Channel!Init

\* Publish sends a sample, Use receives what pop() took, the rest stutters.
LEMMA StepChannel ==
  ASSUME TypeOK, Sound, [Next]_vars
  PROVE  [Channel!Next]_(Channel!vars)
<1> USE DEF Sound
<1>1. CASE StartPush \/ PushCompare \/ PushDecide \/ Store
  <2>1. UNCHANGED <<rereads, wrote, transcribe>>
    BY <1>1 DEF StartPush, PushCompare, PushDecide, Store
  <2> QED BY <2>1 DEF Channel!vars, transcribe
<1>2. CASE Publish
  <2>1. wrote' = wrote + 1 /\ UNCHANGED <<rereads, transcribe>>
    BY <1>2 DEF Publish
  <2>2. wrote - (took - ci) < Capacity + Chunk
    <3>1. wrote - took < Capacity
      BY DEF Counts, Unread
    <3>2. ci <= Chunk
      BY RingAssumption DEF TypeOK
    <3> QED BY <3>1, <3>2, RingAssumption DEF TypeOK
  <2> QED BY <2>1, <2>2 DEF Channel!Next, Channel!Send, transcribe
<1>3. CASE PollCompare \/ PollDecide \/ PopCompare \/ PopDecide \/ Load
  <2>1. UNCHANGED <<rereads, wrote, took, ci, out>>
    BY <1>3 DEF PollCompare, PollDecide, PopCompare, PopDecide, Load, capture
  <2> QED BY <2>1 DEF Channel!vars
<1>4. CASE Advance
  <2>1. took' = took + 1 /\ ci' = ci + 1 /\ UNCHANGED <<rereads, wrote, out>>
    BY <1>4 DEF Advance, capture
  <2> QED BY <2>1 DEF Channel!vars, TypeOK
<1>5. CASE Use
  <2>1. /\ cpc = "use" /\ out' = chunk /\ ci' = 0
        /\ UNCHANGED <<rereads, wrote, took>>
    BY <1>5 DEF Use, capture
  <2>2. /\ ci = topop /\ ci \in 1 .. Chunk /\ took <= wrote
        /\ ~rereads => ci = Chunk
    BY <2>1, RingAssumption DEF Popping, Counts, Unread, TypeOK
  <2>3. \A i \in Places : chunk[i] = IF i < ci THEN took - ci + i ELSE out[i]
    BY <2>1, <2>2 DEF Popping, Kept, TypeOK, Places
  <2>4. chunk = [i \in Places |-> IF i < ci THEN took - ci + i ELSE out[i]]
    BY <2>3 DEF TypeOK
  <2>5. Channel!Receive(ci)
    BY <2>1, <2>2, <2>4, RingAssumption DEF Channel!Receive, TypeOK, Places
  <2> QED BY <2>2, <2>5 DEF Channel!Next
<1>6. CASE UNCHANGED vars
  BY <1>6 DEF vars, capture, transcribe, Channel!vars
<1> QED BY <1>1, <1>2, <1>3, <1>4, <1>5, <1>6
        DEF Next, CaptureNext, TranscribeNext

\* Until a push fills it, the unlocked ring is a channel that loses, repeats and
\* reorders nothing, and that hands over whole chunks in a build that loads head
\* and tail once.
THEOREM RingImplementsChannel == Spec => ImplementsChannel
<1>1. IInv /\ [Next]_vars => [filled' \/ Channel!Next]_(Channel!vars)
  <2> SUFFICES ASSUME IInv, [Next]_vars, ~filled'
               PROVE  [Channel!Next]_(Channel!vars)
    OBVIOUS
  <2>1. Sound /\ TypeOK
    BY FilledStays DEF IInv
  <2> QED BY <2>1, StepChannel
<1> QED BY <1>1, Invariance, InitChannel, PTL DEF Spec, ImplementsChannel
=============================================================================
