------------------------------ MODULE Enhanced ------------------------------
(***************************************************************************)
(* The service of moonshine-enhanced: TranscriptionProcess.start() of      *)
(* src/live_trans.py, the loop that LiveTrans models, which hands each     *)
(* caption to process_speech() of main.py, which Dictation models.  The    *)
(* process may be killed at any moment and is started again by the next    *)
(* shell.                                                                  *)
(*                                                                         *)
(* A text is known by the number of captions acted on before it.           *)
(***************************************************************************)
EXTENDS Dictation, SequencesExt, FiniteSets

CONSTANTS Lookback, MaxSpeech, MinSilence, MaxHeard   \* as in LiveTrans

VARIABLES
  heard, q, pc, chunk, speech, recording, caption_cache, returns,
  triggered, temp_end, current_sample, interrupted, voiced,   \* as in LiveTrans
  text,      \* what end_recording() is to hand to process_speech()
  up,        \* the process runs
  saving,    \* SpeechProcessor.recording
  unsaved,   \* texts in the buffer of recording_file
  disk,      \* texts in recording.txt
  spoken,    \* history: captions acted on
  dictated,  \* history: texts said while dictating
  killed     \* history: texts in the buffer of a process that was killed

Loop == INSTANCE LiveTrans

loop    == <<heard, q, pc, chunk, speech, recording, caption_cache, returns,
             triggered, temp_end, current_sample, interrupted, voiced>>
file    == <<saving, unsaved, disk>>
history == <<spoken, dictated, killed>>
service == <<text, up, file, history>>
vars    == <<loop, service>>

Nothing == "nothing"

Init ==
  /\ Loop!Init
  /\ text = Nothing /\ up = TRUE
  /\ saving = FALSE /\ unsaved = <<>> /\ disk = <<>>
  /\ spoken = 0 /\ dictated = {} /\ killed = {}
-----------------------------------------------------------------------------
\* The loop, and end_recording() up to caption_cache.append.
Listen ==
  /\ up
  /\ \/ Loop!InputCallback \/ Loop!Get \/ Loop!Concatenate \/ Loop!AskVad
     \/ Loop!Begin \/ Loop!StopSpeech \/ Loop!CapSpeech \/ Loop!SpeechFits
     \/ Loop!SoftReset \/ Loop!Refresh
  /\ UNCHANGED service

EndRecording ==
  /\ up /\ Loop!CacheCaption
  /\ text' \in Says
  /\ UNCHANGED <<up, file, history>>

ProcessSpeech ==
  /\ up /\ pc = "clear" /\ text # Nothing
  /\ \E result \in Processed(spoken, text, saving, unsaved) :
       /\ saving' = result.saving /\ unsaved' = result.unsaved
       /\ disk' = FileAfter(disk, result)
  /\ text' = Nothing
  /\ spoken' = spoken + 1
  /\ dictated' = IF Dictates(text, saving)
                 THEN dictated \cup {spoken} ELSE dictated
  /\ UNCHANGED <<loop, up, killed>>

\* speech *= 0.0, once process_speech() has returned
Clear == up /\ text = Nothing /\ Loop!Clear /\ UNCHANGED service

\* An exception, or Ctrl+C, anywhere in the loop: start() closes the stream,
\* the program ends, and with it Python closes the file.
EndProgram ==
  /\ up
  /\ up' = FALSE /\ text' = Nothing
  /\ disk' = disk \o unsaved /\ unsaved' = <<>>
  /\ UNCHANGED <<loop, saving, history>>

\* The process is killed.  The system keeps what was written; nothing is synced,
\* so that a machine that goes down may lose more than this.
Kill ==
  /\ up
  /\ up' = FALSE /\ text' = Nothing
  /\ killed' = killed \cup ToSet(unsaved) /\ unsaved' = <<>>
  /\ UNCHANGED <<loop, saving, disk, spoken, dictated>>

\* Variant: the VAD lives on in the next run.
OldVad == UNCHANGED <<triggered, temp_end, current_sample>>

\* A new VADIterator.
NewVad == triggered' = FALSE /\ temp_end' = 0 /\ current_sample' = 0

\* start.sh, run by the next shell, starts main.py anew.
StartProgram ==
  /\ ~up
  /\ up' = TRUE /\ saving' = FALSE
  /\ q' = <<>> /\ pc' = "get" /\ chunk' = Loop!Zero /\ speech' = <<>>
  /\ recording' = FALSE /\ caption_cache' = <<>> /\ returns' = "get"
  /\ NewVad
  /\ voiced' = {}
  /\ UNCHANGED <<heard, interrupted, text, unsaved, disk, history>>

Next ==
  \/ Listen \/ EndRecording \/ ProcessSpeech \/ Clear
  \/ EndProgram \/ Kill \/ StartProgram

Spec == Init /\ [][Next]_vars
-----------------------------------------------------------------------------
\* recording.txt holds what was said between the two commands and neither of
\* them, in the order it was said and each text once, over any number of restarts
\* (main.py:15-25).
FileInOrder ==
  LET all == disk \o unsaved
  IN  /\ ToSet(all) \subseteq dictated
      /\ \A j, k \in DOMAIN all : j < k => all[j] < all[k]

\* Only a killed process loses dictated text, and only what its file had
\* buffered: appending keeps what earlier sessions and processes wrote
\* (main.py:18-25).
OnlyKillLoses == dictated = ToSet(disk \o unsaved) \cup killed

\* A restart leaves no state of the VAD or of the loop behind: the new process
\* ignores no "start" and misses no "end" either.
LoopInStep == up => Loop!RecordingMatchesVad
=============================================================================
