------------------------------ MODULE Captions ------------------------------
(***************************************************************************)
(* What live captions promise: chunks of audio are heard, numbered in the  *)
(* order they were heard, and each caption transcribes a run of them.  A   *)
(* run comes after the ones captioned before it, so no chunk is captioned  *)
(* twice or out of order, and little of what lies inside a run is missing. *)
(* When the user stops the program one last caption may follow.            *)
(***************************************************************************)
EXTENDS Integers, Sequences

CONSTANTS Miss,      \* most chunks missing inside the run of a caption
          LastMiss   \* the same for the caption made after the user's stop

VARIABLES heard,     \* chunks heard
          captions,  \* the runs captioned
          phase      \* "live", "closing" once the user stopped it, "closed"

vars == <<heard, captions, phase>>

\* The last chunk captioned.
Captioned ==
  IF captions = <<>> THEN 0
  ELSE LET last == captions[Len(captions)] IN last[Len(last)]

\* A run of chunks heard and not captioned yet, with at most `miss` left out.
Run(run, miss) ==
  /\ run # <<>>
  /\ Captioned < run[1] /\ run[Len(run)] <= heard
  /\ \A i \in 1 .. Len(run) - 1 : run[i] < run[i + 1]
  /\ run[Len(run)] - run[1] + 1 - Len(run) <= miss

\* captions' is captions with one more run.
Caption(miss) ==
  /\ captions' # <<>>
  /\ captions' = Append(captions, captions'[Len(captions')])
  /\ Run(captions'[Len(captions')], miss)

Init == heard = 0 /\ captions = <<>> /\ phase = "live"

Hear == heard' = heard + 1 /\ UNCHANGED <<captions, phase>>

CaptionRun == phase = "live" /\ Caption(Miss) /\ UNCHANGED <<heard, phase>>

Stop == phase = "live" /\ phase' = "closing" /\ UNCHANGED <<heard, captions>>

Close ==
  /\ phase = "closing" /\ phase' = "closed"
  /\ Caption(LastMiss) \/ UNCHANGED captions
  /\ UNCHANGED heard

Next == Hear \/ CaptionRun \/ Stop \/ Close

Spec == Init /\ [][Next]_vars
=============================================================================
