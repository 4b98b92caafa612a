---------------------------- MODULE ChunkChannel ----------------------------
(***************************************************************************)
(* What the audio buffer promises the transcriber: samples that were taken *)
(* in come out in order, each sample once, and never more than Room        *)
(* samples are inside.  A whole channel hands over full chunks; another    *)
(* one may hand over fewer samples, and the rest of the chunk is then what *)
(* it was before.  A sample is known by its number in the order in which   *)
(* samples were taken in.                                                  *)
(***************************************************************************)
EXTENDS Integers

CONSTANTS Chunk,   \* samples handed over at a time
          Room     \* most samples inside at any moment

VARIABLES whole,     \* whether every chunk handed over is full
          sent,      \* samples taken in
          received,  \* samples handed over
          out        \* the chunk handed over last

vars == <<whole, sent, received, out>>

Init ==
  /\ whole \in BOOLEAN
  /\ sent = 0
  /\ received = 0
  /\ out = [i \in 0 .. Chunk - 1 |-> -1]

\* One more sample is taken in.
Send ==
  /\ sent - received < Room
  /\ sent' = sent + 1
  /\ UNCHANGED <<whole, received, out>>

\* The oldest n samples inside are handed over.
Receive(n) ==
  /\ whole => n = Chunk
  /\ received + n <= sent
  /\ out' = [i \in 0 .. Chunk - 1 |-> IF i < n THEN received + i ELSE out[i]]
  /\ received' = received + n
  /\ UNCHANGED <<whole, sent>>

Next == Send \/ \E n \in 1 .. Chunk : Receive(n)

Spec == Init /\ [][Next]_vars
=============================================================================
