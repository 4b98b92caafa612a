------------------------------ MODULE VoskLive ------------------------------
(***************************************************************************)
(* main() of vosk/live_trans.py: the callback of the audio stream puts     *)
(* blocks on a queue, the loop feeds them to the recognizer and asks it    *)
(* for a text when it says that an utterance has ended.  Ctrl+C returns    *)
(* the texts so far; an exception drops them all.  A text is known by the  *)
(* blocks it was made from.                                                *)
(***************************************************************************)
EXTENDS Integers, Sequences, SequencesExt

CONSTANT MaxHeard   \* bound of the model: blocks the microphone delivers

VARIABLES
  heard, q,       \* blocks delivered; the queue between the threads
  pc,             \* the statement main() is at
  data, text,     \* the block in hand; what rec.Result() returned
  utterance,      \* the recognizer: blocks accepted since the last Result()
  result          \* the texts

vars == <<heard, q, pc, data, text, utterance, result>>

InLoop == {"get", "accept", "result", "append"}

Init ==
  /\ heard = 0 /\ q = <<>> /\ pc = "get"
  /\ data = <<>> /\ text = <<>> /\ utterance = <<>> /\ result = <<>>

Callback ==
  /\ pc \in InLoop /\ heard < MaxHeard
  /\ heard' = heard + 1 /\ q' = Append(q, heard + 1)
  /\ UNCHANGED <<pc, data, text, utterance, result>>

Get ==
  /\ pc = "get" /\ q # <<>>
  /\ data' = <<Head(q)>> /\ q' = Tail(q)
  /\ pc' = "accept"
  /\ UNCHANGED <<heard, text, utterance, result>>

\* rec.AcceptWaveform(data): true if an utterance ends with this block
AcceptWaveform ==
  /\ pc = "accept"
  /\ utterance' = utterance \o data /\ data' = <<>>
  /\ pc' \in {"get", "result"}
  /\ UNCHANGED <<heard, q, text, result>>

\* Variant: the recognizer is asked for its PartialResult().
PartialResult ==
  /\ pc = "result"
  /\ text' = utterance
  /\ pc' = "append"
  /\ UNCHANGED <<heard, q, data, utterance, result>>

\* rec.Result() forgets the utterance.
Result ==
  /\ pc = "result"
  /\ text' = utterance /\ utterance' = <<>>
  /\ pc' = "append"
  /\ UNCHANGED <<heard, q, data, result>>

AppendResult ==
  /\ pc = "append"
  /\ result' = Append(result, text) /\ text' = <<>>
  /\ pc' = "get"
  /\ UNCHANGED <<heard, q, data, utterance>>

\* KeyboardInterrupt: the stream is closed and the texts are returned.
Interrupt ==
  /\ pc \in InLoop
  /\ pc' = "done"
  /\ UNCHANGED <<heard, q, data, text, utterance, result>>

\* except Exception: the recognizer raised, and exit() takes the texts along.
Fail ==
  /\ pc \in {"accept", "result"}
  /\ pc' = "failed"
  /\ UNCHANGED <<heard, q, data, text, utterance, result>>

Main == Get \/ AcceptWaveform \/ Result \/ AppendResult

Next == Callback \/ Main \/ Interrupt \/ Fail
-----------------------------------------------------------------------------
\* Every block is in one place, and the places together hold all of them in the
\* order they were heard: so no text skips or repeats any, and what Ctrl+C loses
\* is the end of what was said - the open utterance, a text that was asked for
\* and not appended yet, and what was queued (lines 36-43).  What an exception
\* finds in `result` it loses too: nobody is handed it (lines 44-45).
KeepsAll ==
  FlattenSeq(result) \o text \o utterance \o data \o q = [i \in 1 .. heard |-> i]
=============================================================================
