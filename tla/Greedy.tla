------------------------------- MODULE Greedy -------------------------------
(***************************************************************************)
(* Greedy decoding as the model is meant to be used: the next token is the *)
(* one the model finds likeliest after all tokens so far, until the end    *)
(* token or the limit.                                                     *)
(***************************************************************************)
EXTENDS Integers, Sequences

CONSTANTS First, End   \* the start and the end token

VARIABLES likeliest,   \* the model: a token for each sequence of tokens
          limit,       \* most tokens after the first
          tokens,      \* tokens so far
          done

vars == <<likeliest, limit, tokens, done>>

Init == tokens = <<First>> /\ done = FALSE

Extend ==
  /\ ~done /\ Len(tokens) <= limit
  /\ tokens' = Append(tokens, likeliest[tokens])
  /\ done' = (likeliest[tokens] = End)
  /\ UNCHANGED <<likeliest, limit>>

Finish ==
  /\ ~done /\ Len(tokens) > limit
  /\ done' = TRUE
  /\ UNCHANGED <<likeliest, limit, tokens>>

\* The next call, with audio and a limit of its own.
Again == done /\ tokens' = <<First>> /\ done' = FALSE

Next == Extend \/ Finish \/ Again

Spec == Init /\ [][Next]_vars
=============================================================================
