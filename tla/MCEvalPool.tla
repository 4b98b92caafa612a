----------------------------- MODULE MCEvalPool -----------------------------
(* The whole evaluation: two datasets, three threads, any model name.       *)
EXTENDS EvalPool
=============================================================================
