----------------------------- MODULE DecodeCpp ------------------------------
(***************************************************************************)
(* MoonshineModel::generate of moonshine_cpp/src/moonshine.cpp: one decode *)
(* without a cache, then one per token with the cache that the decode      *)
(* before it returned.                                                     *)
(***************************************************************************)
EXTENDS Decoding

VARIABLES
  likeliest,   \* the model
  samples,     \* audio_samples.size()
  asked,       \* max_len as the caller gave it
  max_len, i, tokens,   \* locals of generate()
  seq_len,     \* another, less the length of the preprocessed audio
  cache,       \* the tokens that the values in `cache` were computed from
  pc

call == <<likeliest, samples, asked>>
vars == <<call, max_len, i, tokens, seq_len, cache, pc>>

Init ==
  /\ likeliest \in [Histories -> Token]
  /\ samples \in Sizes /\ asked \in 0 .. MaxArg
  /\ max_len = asked /\ i = 0 /\ seq_len = 0
  /\ tokens = <<First>> /\ cache = <<>> /\ pc = "limit"

\* generate() is called again, for audio on which the model answers otherwise.
Call(audio, n, most) ==
  /\ pc = "return"
  /\ likeliest' = audio /\ samples' = n /\ asked' = most
  /\ max_len' = most /\ i' = 0 /\ seq_len' = 0
  /\ tokens' = <<First>> /\ cache' = <<>> /\ pc' = "limit"

CallAgain ==
  \E audio \in [Histories -> Token], n \in Sizes, most \in 0 .. MaxArg :
    Call(audio, n, most)

\* max_len as it is after the test for 0
Limit == IF asked = 0 THEN SixPerSecond(samples) ELSE asked

DefaultLimit ==
  /\ pc = "limit"
  /\ max_len' = Limit
  /\ pc' = "uncached"
  /\ UNCHANGED <<call, i, tokens, seq_len, cache>>

\* uncached_decode_ sees the first token only.
UncachedDecode ==
  /\ pc = "uncached"
  /\ cache' = tokens
  /\ pc' = "argmax"
  /\ UNCHANGED <<call, max_len, i, tokens, seq_len>>

\* Variant: i <= max_len.
OneMore == i <= max_len

\* The test of the loop over the tokens.
More == i < max_len

\* The largest logit of the last decode.
PickToken ==
  /\ pc = "argmax" /\ More
  /\ tokens' = Append(tokens, likeliest[cache])
  /\ pc' = IF likeliest[cache] = End THEN "return" ELSE "cached"
  /\ UNCHANGED <<call, max_len, i, seq_len, cache>>

\* Variant: the cached decode is fed all tokens once more.
FedAgain == cache \o tokens

\* The tokens behind the values in the cache that cached_decode_ returns.
Fed == Append(cache, tokens[Len(tokens)])

\* cached_decode_ sees the token just picked, at the next position, and what
\* the values moved into its inputs stand for.
CachedDecode ==
  /\ pc = "cached"
  /\ cache' = Fed
  /\ seq_len' = seq_len + 1
  /\ i' = i + 1
  /\ pc' = "argmax"
  /\ UNCHANGED <<call, max_len, tokens>>

LimitReached ==
  /\ pc = "argmax" /\ ~More
  /\ pc' = "return"
  /\ UNCHANGED <<call, max_len, i, tokens, seq_len, cache>>

Generate ==
  DefaultLimit \/ UncachedDecode \/ PickToken \/ CachedDecode \/ LimitReached

Next == Generate \/ CallAgain

Spec == Init /\ [][Next]_vars
-----------------------------------------------------------------------------
\* The logits that a token is picked from belong to all tokens before it, and
\* the position passed to the decoder has moved on with each of them: no decode
\* is skipped, repeated or fed the token before (lines 172-228).
CacheMatchesTokens ==
  pc = "argmax" => cache = tokens /\ seq_len = Len(tokens) - 1

\* Decoding with the cache returns the tokens that decoding the whole sequence
\* each time would, in every call.
Reference == INSTANCE Greedy
  WITH limit <- Limit,
       done  <- pc = "return"
ImplementsGreedy == Reference!Spec
=============================================================================
