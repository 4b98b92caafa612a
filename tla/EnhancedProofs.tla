--------------------------- MODULE EnhancedProofs ---------------------------
(***************************************************************************)
(* What reaches recording.txt from one instance of the service, whatever   *)
(* is said, however the buffer of the file is written out, and however     *)
(* often the program ends, is killed and starts again.                     *)
(***************************************************************************)
EXTENDS Enhanced, SequenceFacts

\* process_speech(), given text t: what it writes and what it leaves in the
\* buffer are the buffer u and, if it is dictated, the text, and the file d is
\* only added to.
Extends(d, u, t, says, on, result) ==
  /\ result.saving \in BOOLEAN
  /\ result.written \in Seq(Nat) /\ result.unsaved \in Seq(Nat)
  /\ result.written \o result.unsaved = IF Dictates(says, on) THEN Append(u, t) ELSE u
  /\ FileAfter(d, result) = d \o result.written /\ FileAfter(d, result) \in Seq(Nat)
  /\ FileAfter(d, result) \o result.unsaved =
       IF Dictates(says, on) THEN Append(d \o u, t) ELSE d \o u

LEMMA ProcessedExtends ==
  ASSUME NEW d \in Seq(Nat), NEW u \in Seq(Nat), NEW t \in Nat, NEW says,
         NEW on \in BOOLEAN, NEW result \in Processed(t, says, on, u)
  PROVE  Extends(d, u, t, says, on, result)
<1>1. FileAfter(d, result) = d \o result.written
  BY DEF FileAfter, Opened
<1>2. CASE Dictates(says, on)
  <2> DEFINE all == Append(u, t)
  <2>1. PICK k \in 0 .. Len(all) :
          result = [saving |-> TRUE, opens |-> FALSE,
                    unsaved |-> SubSeq(all, k + 1, Len(all)),
                    written |-> SubSeq(all, 1, k)]
    BY <1>2, Zenon DEF Processed, Dictates
  <2>2. all \in Seq(Nat) /\ d \o all = Append(d \o u, t)
    BY AppendToConcat, AppendProperties
  <2> HIDE DEF all
  <2>3. /\ SubSeq(all, 1, k) \in Seq(Nat) /\ SubSeq(all, k + 1, Len(all)) \in Seq(Nat)
        /\ SubSeq(all, 1, k) \o SubSeq(all, k + 1, Len(all)) = all
        /\ (d \o SubSeq(all, 1, k)) \o SubSeq(all, k + 1, Len(all)) = d \o all
    BY <2>2, CutAnywhere, CutAfter
  <2>4. d \o SubSeq(all, 1, k) \in Seq(Nat)
    BY <2>3, ConcatProperties
  <2>5. result.saving /\ result.written = SubSeq(all, 1, k)
        /\ result.unsaved = SubSeq(all, k + 1, Len(all))
    BY <2>1
  <2> QED BY <1>1, <1>2, <2>2, <2>3, <2>4, <2>5 DEF Extends, all
<1>3. CASE ~Dictates(says, on)
  <2> DEFINE opens == ~on /\ says = "start recording"
  <2>1. opens \in BOOLEAN
    OBVIOUS
  <2>2. Processed(t, says, on, u) =
          {[saving |-> opens, opens |-> opens, unsaved |-> <<>>, written |-> u]}
    BY <1>3, Zenon DEF Processed, Dictates
  <2> HIDE DEF opens
  <2>3. result.unsaved = <<>> /\ result.written = u /\ result.saving = opens
    BY <2>2
  <2>4. u \o <<>> = u /\ <<>> \in Seq(Nat) /\ d \o u \in Seq(Nat)
        /\ (d \o u) \o <<>> = d \o u
    BY ConcatEmptySeq, ConcatProperties
  <2> QED BY <1>1, <1>3, <2>1, <2>3, <2>4 DEF Extends
<1> QED BY <1>2, <1>3

\* What recording.txt and the buffer hold together.
Kept == disk \o unsaved

FileInv ==
  /\ saving \in BOOLEAN /\ spoken \in Nat
  /\ disk \in Seq(Nat) /\ unsaved \in Seq(Nat)
  /\ \A j, k \in DOMAIN Kept : j < k => Kept[j] < Kept[k]
  /\ \A k \in DOMAIN Kept : Kept[k] < spoken
  /\ OnlyKillLoses

LEMMA FileInit == Init => FileInv
<1> SUFFICES ASSUME Init PROVE FileInv
  OBVIOUS
<1>1. disk = <<>> /\ unsaved = <<>> /\ dictated = {} /\ killed = {}
  BY DEF Init
<1>2. <<>> \in Seq(Nat) /\ Kept = <<>>
  BY <1>1, ConcatEmptySeq DEF Kept
<1>3. DOMAIN <<>> = {} /\ ToSet(<<>>) = {}
  BY DEF ToSet
<1>4. OnlyKillLoses
  BY <1>1, <1>2, <1>3 DEF OnlyKillLoses, Kept
<1>5. saving \in BOOLEAN /\ spoken \in Nat
  BY DEF Init
<1> QED BY <1>1, <1>2, <1>3, <1>4, <1>5 DEF FileInv

\* A step that adds nothing to Kept.
LEMMA SameKept ==
  ASSUME FileInv, UNCHANGED <<spoken, dictated, killed>>, saving' \in BOOLEAN,
         disk' \in Seq(Nat), unsaved' \in Seq(Nat), Kept' = Kept
  PROVE  FileInv'
BY DEF FileInv, Kept, OnlyKillLoses

LEMMA ProcessSpeechKeeps ==
  ASSUME FileInv, ProcessSpeech
  PROVE  FileInv'
<1>1. PICK result \in Processed(spoken, text, saving, unsaved) :
        /\ saving' = result.saving /\ unsaved' = result.unsaved
        /\ disk' = FileAfter(disk, result)
  BY DEF ProcessSpeech
<1>2. spoken \in Nat /\ saving \in BOOLEAN /\ unsaved \in Seq(Nat) /\ disk \in Seq(Nat)
  BY DEF FileInv
<1>4. Extends(disk, unsaved, spoken, text, saving, result)
  BY <1>2, ProcessedExtends
<1>5. disk' \in Seq(Nat) /\ unsaved' \in Seq(Nat)
  BY <1>1, <1>4 DEF Extends
<1>6. saving' \in BOOLEAN
  BY <1>1, <1>4 DEF Extends
<1>7. spoken' = spoken + 1 /\ killed' = killed
  BY DEF ProcessSpeech
<1>8. CASE Dictates(text, saving)
  <2>1. Kept \in Seq(Nat)
    BY ConcatProperties DEF Kept, FileInv
  <2>2. Kept' = Append(Kept, spoken)
    BY <1>1, <1>4, <1>8 DEF Extends, Kept
  <2>3. DOMAIN Kept = 1 .. Len(Kept) /\ DOMAIN Kept' = 1 .. Len(Kept) + 1
        /\ Len(Kept) \in Nat
    BY <2>1, <2>2, AppendProperties DEF FileInv
  <2>4. (\A k \in 1 .. Len(Kept) : Kept'[k] = Kept[k]) /\ Kept'[Len(Kept) + 1] = spoken
    BY <2>1, <2>2, AppendProperties DEF FileInv
  <2>5. \A k \in DOMAIN Kept : Kept[k] \in Nat
    BY <2>1
  <2>6. \A j, k \in DOMAIN Kept' : j < k => Kept'[j] < Kept'[k]
    <3> SUFFICES ASSUME NEW j \in DOMAIN Kept', NEW k \in DOMAIN Kept', j < k
                 PROVE  Kept'[j] < Kept'[k]
      OBVIOUS
    <3>1. j \in DOMAIN Kept /\ Kept'[j] = Kept[j]
      BY <2>3, <2>4
    <3>2. CASE k \in DOMAIN Kept
      BY <2>3, <2>4, <3>1, <3>2 DEF FileInv
    <3>3. CASE k = Len(Kept) + 1
      BY <2>4, <3>1, <3>3 DEF FileInv
    <3> QED BY <2>3, <3>2, <3>3
  <2>7. \A k \in DOMAIN Kept' : Kept'[k] < spoken'
    <3> SUFFICES ASSUME NEW k \in DOMAIN Kept'
                 PROVE  Kept'[k] < spoken'
      OBVIOUS
    <3>1. CASE k \in DOMAIN Kept
      <4>1. Kept'[k] = Kept[k] /\ Kept[k] \in Nat /\ Kept[k] < spoken
        BY <2>3, <2>4, <2>5, <3>1 DEF FileInv
      <4> QED BY <1>7, <4>1 DEF FileInv
    <3>2. CASE k = Len(Kept) + 1
      BY <1>7, <2>4, <3>2 DEF FileInv
    <3> QED BY <2>3, <3>1, <3>2
  <2>8. dictated' = dictated \cup {spoken}
    BY <1>8 DEF ProcessSpeech
  <2>9. ToSet(Kept') = ToSet(Kept) \cup {spoken}
    BY <2>3, <2>4 DEF ToSet
  <2>10. OnlyKillLoses'
    BY <1>7, <2>8, <2>9 DEF FileInv, OnlyKillLoses, Kept
  <2>11. spoken' \in Nat
    BY <1>7 DEF FileInv
  <2> QED BY <1>5, <1>6, <2>6, <2>7, <2>10, <2>11 DEF FileInv
<1>9. CASE ~Dictates(text, saving)
  <2>1. Kept' = Kept
    BY <1>1, <1>4, <1>9 DEF Extends, Kept
  <2>2. Kept \in Seq(Nat)
    BY ConcatProperties DEF Kept, FileInv
  <2>3. \A k \in DOMAIN Kept : Kept[k] \in Nat
    BY <2>2
  <2>4. dictated' = dictated
    BY <1>9 DEF ProcessSpeech
  <2>5. \A k \in DOMAIN Kept' : Kept'[k] < spoken'
    BY <1>7, <2>1, <2>3 DEF FileInv
  <2>6. OnlyKillLoses'
    BY <1>7, <2>1, <2>4 DEF FileInv, OnlyKillLoses, Kept
  <2> QED BY <1>5, <1>6, <1>7, <2>1, <2>5, <2>6 DEF FileInv
<1> QED BY <1>8, <1>9

LEMMA KillKeeps ==
  ASSUME FileInv, Kill
  PROVE  FileInv'
<1>1. unsaved' = <<>> /\ UNCHANGED <<saving, disk, spoken, dictated>>
      /\ killed' = killed \cup ToSet(unsaved)
  BY DEF Kill
<1>2. disk \in Seq(Nat) /\ unsaved \in Seq(Nat)
  BY DEF FileInv
<1>3. <<>> \in Seq(Nat) /\ disk \o <<>> = disk
  BY <1>2, ConcatEmptySeq
<1>4. Kept' = disk
  BY <1>1, <1>3 DEF Kept
<1>5. DOMAIN Kept = 1 .. Len(disk) + Len(unsaved) /\ DOMAIN disk = 1 .. Len(disk)
      /\ DOMAIN unsaved = 1 .. Len(unsaved) /\ Len(disk) \in Nat /\ Len(unsaved) \in Nat
  BY <1>2, ConcatProperties DEF Kept
<1>6. /\ \A k \in DOMAIN disk : Kept[k] = disk[k]
      /\ \A k \in DOMAIN unsaved : Kept[Len(disk) + k] = unsaved[k]
  BY <1>2, <1>5, ConcatProperties DEF Kept
<1>7. /\ \A j, k \in DOMAIN Kept' : j < k => Kept'[j] < Kept'[k]
      /\ \A k \in DOMAIN Kept' : Kept'[k] < spoken'
  BY <1>1, <1>4, <1>5, <1>6 DEF FileInv
<1>8. ToSet(Kept) = ToSet(disk) \cup ToSet(unsaved)
  <2>1. \A k \in DOMAIN Kept : k \in DOMAIN disk \/ k - Len(disk) \in DOMAIN unsaved
    BY <1>5
  <2>2. \A k \in DOMAIN Kept : Kept[k] \in ToSet(disk) \cup ToSet(unsaved)
    <3> TAKE k \in DOMAIN Kept
    <3>1. CASE k \in DOMAIN disk
      BY <3>1, <1>6 DEF ToSet
    <3>2. CASE k - Len(disk) \in DOMAIN unsaved
      <4>1. k = Len(disk) + (k - Len(disk))
        BY <1>5
      <4> QED BY <3>2, <4>1, <1>6 DEF ToSet
    <3> QED BY <2>1, <3>1, <3>2
  <2>3. \A k \in DOMAIN disk : k \in DOMAIN Kept
    BY <1>5
  <2>4. \A k \in DOMAIN unsaved : Len(disk) + k \in DOMAIN Kept
    BY <1>5
  <2> QED BY <2>2, <2>3, <2>4, <1>6 DEF ToSet
<1>9. OnlyKillLoses'
  BY <1>1, <1>4, <1>8 DEF FileInv, OnlyKillLoses, Kept
<1> QED BY <1>1, <1>3, <1>7, <1>9 DEF FileInv

LEMMA FileStep == FileInv /\ [Next]_vars => FileInv'
<1> SUFFICES ASSUME FileInv, [Next]_vars PROVE FileInv'
  OBVIOUS
<1>1. CASE UNCHANGED <<file, history>>
  BY <1>1, SameKept DEF file, history, Kept, FileInv
<1>2. CASE Listen \/ EndRecording \/ Clear
  BY <1>1, <1>2 DEF Listen, EndRecording, Clear, service
<1>3. CASE ProcessSpeech
  BY <1>3, ProcessSpeechKeeps
<1>4. CASE EndProgram
  <2>1. disk' = disk \o unsaved /\ unsaved' = <<>> /\ UNCHANGED <<saving, history>>
    BY <1>4 DEF EndProgram
  <2>2. disk \o unsaved \in Seq(Nat) /\ <<>> \in Seq(Nat)
    BY ConcatProperties DEF FileInv
  <2>3. Kept' = Kept
    BY <2>1, <2>2, ConcatEmptySeq DEF Kept
  <2> QED BY <2>1, <2>2, <2>3, SameKept DEF history, FileInv
<1>5. CASE Kill
  BY <1>5, KillKeeps
<1>6. CASE StartProgram
  <2>1. saving' = FALSE /\ UNCHANGED <<unsaved, disk, history>>
    BY <1>6 DEF StartProgram
  <2> QED BY <2>1, SameKept DEF history, Kept, FileInv
<1>7. CASE UNCHANGED vars
  BY <1>1, <1>7 DEF vars, service
<1> QED BY <1>2, <1>3, <1>4, <1>5, <1>6, <1>7 DEF Next

LEMMA FileInvariance == Spec => []FileInv
BY FileInit, FileStep, PTL DEF Spec

\* recording.txt has the dictated texts in the order they were said, each once.
THEOREM TextsInOrder == Spec => []FileInOrder
<1>1. FileInv => FileInOrder
  BY DEF FileInv, Kept, OnlyKillLoses, FileInOrder
<1> QED BY <1>1, FileInvariance, PTL

\* What was dictated is in recording.txt, in the buffer or lost to a kill.
THEOREM NothingElseLoses == Spec => []OnlyKillLoses
<1>1. FileInv => OnlyKillLoses
  BY DEF FileInv
<1> QED BY <1>1, FileInvariance, PTL
-----------------------------------------------------------------------------
(* The loop of a process that was started anew.                            *)

\* How recording and triggered differ while a chunk is dealt with, as in the
\* program whose loop this is; an exception ends the process instead.
StepInv ==
  /\ pc \in Loop!InLoop /\ returns \in {"get", "reset"}
  /\ recording \in BOOLEAN /\ triggered \in BOOLEAN
  /\ pc \in {"get", "concat", "vad", "refresh"} => (recording <=> triggered)
  /\ pc = "begin" => triggered /\ ~recording
  /\ pc = "stop"  => recording /\ ~triggered
  /\ pc = "cap"   => recording /\ triggered
  /\ pc \in {"transcribe", "clear", "reset"} => ~recording
  /\ pc \in {"transcribe", "clear"} /\ returns = "get" => ~triggered

LEMMA AskVadKeepsStep ==
  ASSUME StepInv, Loop!AskVad
  PROVE  StepInv'
<1>1. PICK level \in Loop!Level, answer \in {"start", "end", "nothing"} :
        Loop!VadIterator(level, answer) /\ Loop!React(answer)
  BY DEF Loop!AskVad
<1>2. pc = "vad" /\ UNCHANGED <<recording, returns>> /\ (recording <=> triggered)
  BY DEF Loop!AskVad, Loop!loop, StepInv
<1>3. CASE answer = "start"
  <2>1. ~triggered /\ triggered' = TRUE
    BY <1>1, <1>3 DEF Loop!VadIterator
  <2>2. pc' = "begin"
    BY <1>1, <1>2, <1>3, <2>1 DEF Loop!Go, Loop!React
  <2> QED BY <1>2, <2>1, <2>2 DEF StepInv, Loop!InLoop
<1>4. CASE answer = "end"
  <2>1. triggered /\ triggered' = FALSE
    BY <1>1, <1>4 DEF Loop!VadIterator
  <2>2. pc' = "stop"
    BY <1>1, <1>2, <1>4, <2>1 DEF Loop!Go, Loop!React
  <2> QED BY <1>2, <2>1, <2>2 DEF StepInv, Loop!InLoop
<1>5. CASE answer = "nothing"
  <2>1. triggered' = triggered
    BY <1>1, <1>5 DEF Loop!VadIterator
  <2>2. pc' = IF recording THEN "cap" ELSE "get"
    BY <1>1, <1>5 DEF Loop!Go, Loop!React
  <2> QED BY <1>2, <2>1, <2>2 DEF StepInv, Loop!InLoop
<1> QED BY <1>3, <1>4, <1>5

LEMMA NextStepInv == StepInv /\ [Next]_vars => StepInv'
<1> SUFFICES ASSUME StepInv, [Next]_vars PROVE StepInv'
  OBVIOUS
<1>1. CASE UNCHANGED loop
  BY <1>1 DEF loop, StepInv
<1>2. CASE Listen
  <2>1. CASE Loop!InputCallback
    BY <2>1 DEF Loop!InputCallback, Loop!loop, Loop!vad, StepInv
  <2>2. CASE Loop!Get \/ Loop!Concatenate
    BY <2>2 DEF Loop!Get, Loop!Concatenate, Loop!Go, Loop!vad, StepInv, Loop!InLoop
  <2>3. CASE Loop!AskVad
    BY <2>3, AskVadKeepsStep
  <2>4. CASE Loop!Begin
    BY <2>4 DEF Loop!Begin, Loop!Go, Loop!vad, StepInv, Loop!InLoop
  <2>5. CASE Loop!StopSpeech \/ Loop!CapSpeech
    <3>1. CASE Loop!StopSpeech
      BY <3>1 DEF Loop!StopSpeech, Loop!EndRecording, Loop!Go, Loop!vad,
                  StepInv, Loop!InLoop
    <3>2. CASE Loop!CapSpeech
      BY <3>2 DEF Loop!CapSpeech, Loop!EndRecording, Loop!Go, Loop!vad,
                  StepInv, Loop!InLoop
    <3> QED BY <2>5, <3>1, <3>2
  <2>6. CASE Loop!SpeechFits
    BY <2>6 DEF Loop!SpeechFits, Loop!Go, Loop!loop, Loop!vad, StepInv, Loop!InLoop
  <2>7. CASE Loop!SoftReset
    BY <2>7 DEF Loop!SoftReset, Loop!Go, Loop!loop, StepInv, Loop!InLoop
  <2>8. CASE Loop!Refresh
    BY <2>8 DEF Loop!Refresh, Loop!Go, Loop!loop, Loop!vad, StepInv, Loop!InLoop
  <2> QED BY <1>2, <2>1, <2>2, <2>3, <2>4, <2>5, <2>6, <2>7, <2>8 DEF Listen
<1>3. CASE EndRecording
  BY <1>3 DEF EndRecording, Loop!CacheCaption, Loop!Go, Loop!vad, StepInv, Loop!InLoop
<1>4. CASE Clear
  BY <1>4 DEF Clear, Loop!Clear, Loop!Go, Loop!vad, StepInv, Loop!InLoop
<1>5. CASE StartProgram
  BY <1>5 DEF StartProgram, NewVad, StepInv, Loop!InLoop
<1>6. CASE ProcessSpeech \/ EndProgram \/ Kill \/ UNCHANGED vars
  BY <1>1, <1>6 DEF ProcessSpeech, EndProgram, Kill, vars
<1> QED BY <1>2, <1>3, <1>4, <1>5, <1>6 DEF Next

\* No process inherits a VAD or a buffer that disagrees with its loop, however
\* often the service is killed or fails and starts again: each of its loops
\* records exactly while its VAD is triggered.
THEOREM RestartsInStep == Spec => []LoopInStep
<1>1. Init => StepInv
  BY DEF Init, Loop!Init, StepInv, Loop!InLoop
<1>2. StepInv => LoopInStep
  BY DEF StepInv, LoopInStep, Loop!RecordingMatchesVad
<1> QED BY <1>1, <1>2, NextStepInv, PTL DEF Spec
=============================================================================
