-------------------------------- MODULE Ring --------------------------------
(***************************************************************************)
(* The arithmetic of struct RingBuffer in moonshine_cpp/examples_linux/    *)
(* live.cpp: two positions, head (the next slot written) and tail (the     *)
(* next slot read), that run around `cap` slots.  Nothing but head and     *)
(* tail says how many samples are stored, so a ring that holds `cap` of    *)
(* them has head = tail, like an empty one.                                *)
(***************************************************************************)
EXTENDS Integers

\* Variant: a position that does not wrap.
ForwardNoWrap(p, cap) == p + 1

\* The slot after slot p.
Forward(p, cap) == (p + 1) % cap

\* What size() returns once its comparison `head >= tail` came out as `ahead`.
\* The comparison and the difference are two reads of head and of tail.
SizeWhen(ahead, head, tail, cap) ==
  IF ahead THEN head - tail ELSE cap - tail + head

\* size() when nothing moves while it runs.
RingSize(head, tail, cap) == SizeWhen(head >= tail, head, tail, cap)

\* push() accepts n samples only when they fit beside the stored ones.
Fits(n, size, cap) == n <= cap - size
=============================================================================
