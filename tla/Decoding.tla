------------------------------ MODULE Decoding ------------------------------
(***************************************************************************)
(* What both ports of the Moonshine decoder share: the tokens, the limit   *)
(* on them and the networks.  The networks are external: the model is any  *)
(* function from the tokens a decode has seen to the token with the        *)
(* largest logit.                                                          *)
(***************************************************************************)
EXTENDS Integers, Sequences

CONSTANTS
  Token,      \* the tokens
  First, End, \* token 1 and token 2
  Rate,       \* 16000
  Sizes,      \* numbers of audio samples that the model looks at
  Longest,    \* the longest sequence of tokens the model is asked about
  MaxArg      \* bound of the model: max_len that a caller passes

\* The sequences of tokens that a decode may have seen.
Histories ==
  {h \in UNION {[1 .. n -> Token] : n \in 1 .. Longest} :
     h[1] = First /\ End \notin {h[k] : k \in DOMAIN h}}

\* (samples / 16000) * 6, cut to an integer
SixPerSecond(n) == (n * 6) \div Rate

ASSUME DecodeAssumption ==
  /\ First \in Token /\ End \in Token /\ First # End
  /\ Rate \in Nat \ {0}
  /\ Sizes \subseteq Nat
  /\ Longest \in Nat
  /\ \A n \in Sizes : SixPerSecond(n) <= Longest
  /\ MaxArg \in Nat /\ MaxArg <= Longest
=============================================================================
