---------------------------- MODULE MCLiveTrans -----------------------------
(* LiveTrans with a segment of at most MaxSpeech + 1 chunks, so that the cap, *)
(* the end of speech and the lookback all happen within MaxHeard chunks.      *)
EXTENDS LiveTrans
=============================================================================
