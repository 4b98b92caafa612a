----------------------------- MODULE MCSpscRing -----------------------------
(* SpscRing in both builds.  Neither 10 slots for chunks of 3 nor 7 for 2   *)
(* are a multiple of the chunk, like 80000 for 512, so that a push may find *)
(* exactly its chunk free: 27 samples go two and a half times around.       *)
EXTENDS SpscRing
=============================================================================
