------------------------------ MODULE DecodePy ------------------------------
(***************************************************************************)
(* MoonshineOnnxModel.generate of moonshine/src/model.py (the file under   *)
(* moonshine-enhanced is a copy): one network decodes both with and        *)
(* without a cache, and returns all values in either case, of which those  *)
(* of the encoder mean nothing when a cache was used.                      *)
(***************************************************************************)
EXTENDS Decoding

VARIABLES
  likeliest,            \* the model
  samples,              \* audio.shape[-1]
  asked,                \* max_len as the caller gave it
  max_len, i, tokens,   \* locals of generate()
  input_ids,
  past,                 \* past_key_values: what its decoder and encoder values
                        \* were computed from
  pc

call == <<likeliest, samples, asked>>
vars == <<call, max_len, i, tokens, input_ids, past, pc>>

\* The limit, once None is replaced.  A caller who wants the default of the C++
\* port, 0, leaves out max_len here; a 0 that is passed is a limit.
Limits == IF asked = 0 THEN {SixPerSecond(samples), 0} ELSE {asked}

Init ==
  /\ likeliest \in [Histories -> Token]
  /\ samples \in Sizes /\ asked \in 0 .. MaxArg
  /\ max_len \in Limits
  /\ i = 0 /\ tokens = <<First>> /\ input_ids = tokens
  /\ past = [decoder |-> <<>>, encoder |-> "zeros"]
  /\ pc = "loop"

\* decoder.run: what the values it returns were computed from.
Present(use_cache_branch) ==
  IF use_cache_branch
  THEN [decoder |-> past.decoder \o input_ids, encoder |-> "nothing"]
  ELSE [decoder |-> input_ids, encoder |-> "audio"]

\* The tokens it may find likeliest: any, when it was not given the audio.
Likeliest(use_cache_branch) ==
  IF use_cache_branch /\ past.encoder # "audio" THEN Token
  ELSE {likeliest[Present(use_cache_branch).decoder]}

\* The values kept for the next iteration.
Keep(use_cache_branch) ==
  LET present == Present(use_cache_branch)
  IN  [decoder |-> present.decoder,
       encoder |-> IF use_cache_branch THEN past.encoder ELSE present.encoder]

\* Variant: range(max_len + 1).
OneMore == i <= max_len

\* for i in range(max_len)
More == i < max_len

Iterate ==
  /\ pc = "loop" /\ More
  /\ \E next_token \in Likeliest(i > 0) :
       /\ tokens' = Append(tokens, next_token)
       /\ IF next_token = End
          THEN pc' = "return" /\ UNCHANGED <<i, input_ids, past>>
          ELSE /\ input_ids' = <<next_token>>
               /\ past' = Keep(i > 0)
               /\ i' = i + 1
               /\ UNCHANGED pc
  /\ UNCHANGED <<call, max_len>>

EndOfRange ==
  /\ pc = "loop" /\ ~More
  /\ pc' = "return"
  /\ UNCHANGED <<call, max_len, i, tokens, input_ids, past>>

Next == Iterate \/ EndOfRange

Spec == Init /\ [][Next]_vars
-----------------------------------------------------------------------------
\* Decoding with the cache returns the tokens that decoding the whole sequence
\* each time would, as the C++ port does.
Reference == INSTANCE Greedy
  WITH limit <- max_len, done <- pc = "return"
ImplementsGreedy == Reference!Spec
=============================================================================
