----------------------------- MODULE Dictation ------------------------------
(***************************************************************************)
(* SpeechProcessor of moonshine-enhanced/main.py: dictation is started and *)
(* stopped by spoken commands.  A text is any value; what it says is given *)
(* apart from it.  `saving` and `on` are the field `recording`, `unsaved`  *)
(* and `buffer` the texts in the buffer of recording_file.                 *)
(***************************************************************************)
EXTENDS Integers, Sequences

Says == {"start recording", "stop recording", "dictation"}

\* Variant: "stop recording" is looked for after the text was written.
WriteFirst(text, says, on, buffer) ==
  IF on
  THEN {[saving |-> says # "stop recording", opens |-> FALSE,
         unsaved |-> <<>>, written |-> Append(buffer, text)]}
  ELSE {[saving |-> says = "start recording", opens |-> says = "start recording",
         unsaved |-> buffer, written |-> <<>>]}

\* process_speech(speech): "stop recording" is looked for before the text is
\* written, "start recording" after.  What is written may stay in the buffer
\* of the file, or go to the disk up to any text.
Processed(text, says, on, buffer) ==
  IF on /\ says # "stop recording"
  THEN LET all == Append(buffer, text)
       IN  {[saving |-> TRUE, opens |-> FALSE, unsaved |-> SubSeq(all, k + 1, Len(all)),
             written |-> SubSeq(all, 1, k)] : k \in 0 .. Len(all)}
  ELSE LET opens == ~on /\ says = "start recording"
       IN  {[saving |-> opens, opens |-> opens, unsaved |-> <<>>, written |-> buffer]}

\* Variant: open(..., 'w+t').
OpenedAnew(disk) == <<>>

\* open(self.recording_file_name, 'a+t') keeps what is in the file.
Opened(disk) == disk

\* Variant: the texts are written at the start of the file.
FileBefore(disk, result) == result.written \o disk

\* recording.txt after process_speech().
FileAfter(disk, result) ==
  (IF result.opens THEN Opened(disk) ELSE disk) \o result.written

\* The text is dictated.
Dictates(says, on) == on /\ says # "stop recording"
=============================================================================
