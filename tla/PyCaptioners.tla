---------------------------- MODULE PyCaptioners ----------------------------
(***************************************************************************)
(* The two Python programs that caption a microphone, the Moonshine one of *)
(* LiveTrans and the Vosk one of VoskLive.  The user starts one of them;   *)
(* both give captions of the same kind.                                    *)
(***************************************************************************)
EXTENDS LiveTrans

VARIABLES
  program,   \* the one that was started
  v_heard, v_q, v_pc, v_data, v_text, v_utterance, v_result   \* of VoskLive

vosk == <<v_heard, v_q, v_pc, v_data, v_text, v_utterance, v_result>>

Vosk == INSTANCE VoskLive
          WITH heard <- v_heard, q <- v_q, pc <- v_pc, data <- v_data, text <- v_text,
               utterance <- v_utterance, result <- v_result

\* transcription_from_mic.py offers the Moonshine program; the Vosk one is run
\* by itself.
StartMoonshine == program = "moonshine"
StartVosk      == program = "vosk"

StartInit == Init /\ Vosk!Init /\ (StartMoonshine \/ StartVosk)

MoonshineNext == program = "moonshine" /\ Next /\ UNCHANGED <<program, vosk>>
VoskNext      == program = "vosk" /\ Vosk!Next /\ UNCHANGED <<program, vars>>

MoonshineMain == program = "moonshine" /\ Main /\ UNCHANGED <<program, vosk>>

\* As in LiveTrans, nobody has to speak or press Ctrl+C.
CaptionersSpec ==
  /\ StartInit /\ [][MoonshineNext \/ VoskNext]_<<vars, program, vosk>>
  /\ WF_<<vars, program, vosk>>(MoonshineMain)
-----------------------------------------------------------------------------
\* In the Vosk program no block is skipped, repeated or reordered on its way into
\* the texts, and Ctrl+C only loses what was heard last.
VoskKeepsAll == Vosk!KeepsAll

Promise ==
  INSTANCE Captions
    WITH Miss <- 0, LastMiss <- 1,
         heard <- heard + v_heard,
         captions <- IF program = "vosk" THEN v_result
                     ELSE [k \in DOMAIN caption_cache |-> Audio(caption_cache[k])],
         phase <- IF program = "vosk" /\ v_pc \in {"done", "failed"} THEN "closing" ELSE phase

\* The captions of either program are in order and disjoint, each made from all
\* that was heard between its ends; only the flush of the Moonshine one may lack
\* a chunk (moonshine/src/live_trans.py:141-175, vosk/live_trans.py:36-43).
ImplementsCaptions == Promise!Spec
=============================================================================
