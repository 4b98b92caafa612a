----------------------------- MODULE MCEnhanced -----------------------------
(* Enhanced with segments of three chunks, so that a command to start, a text   *)
(* and a command to stop fit in MaxHeard chunks.                              *)
EXTENDS Enhanced
=============================================================================
