--------------------------- MODULE MCWhisperPool ----------------------------
(* WhisperPool with two threads, enough for one to take the directory away *)
(* from the other.                                                          *)
EXTENDS WhisperPool
=============================================================================
