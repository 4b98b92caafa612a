--------------------------- MODULE DecodersProofs ---------------------------
(***************************************************************************)
(* Proofs about both ports of generate() and about transcribe() of         *)
(* file.cpp, for any model, any set of tokens and any length of audio:     *)
(* decoding with the cache is greedy decoding, and the text of a recording *)
(* is that of the words of its slices.                                     *)
(***************************************************************************)
EXTENDS Decoders, SequenceFacts

\* All tokens are ones the model can be asked about.
Unended(ts) == ts[1] = First /\ \A k \in 1 .. Len(ts) : ts[k] # End

\* The model knows what follows such tokens.
LEMMA HistoryIs ==
  ASSUME NEW ts \in Seq(Token), Unended(ts), Len(ts) \in 1 .. Longest
  PROVE  ts \in Histories
<1>1. ts \in [1 .. Len(ts) -> Token]
  OBVIOUS
<1>2. ts[1] = First /\ End \notin {ts[k] : k \in DOMAIN ts}
  BY <1>1 DEF Unended
<1> QED BY <1>1, <1>2 DEF Histories

\* The recording is not longer than the model looks at.
Fits(n) == n \in Nat /\ SixPerSecond(n) \in Nat /\ SixPerSecond(n) <= Longest

LEMMA SizesFit ==
  ASSUME NEW n \in Sizes
  PROVE  Fits(n)
<1>1. n \in Nat /\ n * 6 \in Nat /\ SixPerSecond(n) <= Longest
  BY DecodeAssumption
<1>2. (n * 6) \div Rate \in Nat
  BY <1>1, DecodeAssumption
<1> QED BY <1>1, <1>2 DEF SixPerSecond, Fits

LEMMA ShorterFits ==
  ASSUME NEW n \in Nat, NEW m, Fits(m), n <= m
  PROVE  Fits(n)
<1>1. /\ n * 6 \in Nat /\ m * 6 \in Nat /\ n * 6 <= m * 6 /\ Rate \in Nat /\ Rate > 0
      /\ m \in Nat /\ Longest \in Nat
  BY DecodeAssumption DEF Fits
<1>2. \A a, b, r \in Nat : r > 0 /\ a <= b => a \div r \in Nat /\ a \div r <= b \div r
  OBVIOUS
<1>3. (n * 6) \div Rate \in Nat /\ (n * 6) \div Rate <= (m * 6) \div Rate
  BY <1>1, <1>2
<1>4. (m * 6) \div Rate \in Nat /\ (m * 6) \div Rate <= Longest
  BY DEF Fits, SixPerSecond
<1> QED BY <1>1, <1>3, <1>4 DEF Fits, SixPerSecond
-----------------------------------------------------------------------------
(* generate() of the C++ port.                                             *)

Inputs ==
  /\ likeliest \in [Histories -> Token]
  /\ Fits(samples) /\ asked \in 0 .. MaxArg

\* What each statement of generate() finds.
CacheInv ==
  /\ Inputs
  /\ pc \in {"limit", "uncached", "argmax", "cached", "return"}
  /\ tokens \in Seq(Token) /\ cache \in Seq(Token) /\ i \in Nat
  /\ pc # "return" => Unended(tokens)
  /\ pc \notin {"limit", "return"} => max_len = Limit
  /\ pc \in {"limit", "uncached"} => tokens = <<First>> /\ i = 0 /\ seq_len = 0
  /\ pc = "argmax" => cache = tokens /\ seq_len = i /\ Len(tokens) = i + 1
  /\ pc = "cached" =>
       /\ Append(cache, tokens[Len(tokens)]) = tokens
       /\ seq_len = i /\ Len(tokens) = i + 2

LEMMA LimitInRange ==
  ASSUME Inputs
  PROVE  Limit \in Nat /\ Limit <= Longest
BY DecodeAssumption DEF Inputs, Limit, Fits

\* generate() asks the model about tokens it knows.
LEMMA PickedIsToken ==
  ASSUME CacheInv, pc = "argmax", i < max_len
  PROVE  likeliest[cache] \in Token
<1>1. Len(cache) \in 1 .. Longest
  BY LimitInRange, DecodeAssumption DEF CacheInv
<1>2. cache \in Histories
  BY <1>1, HistoryIs DEF CacheInv
<1> QED BY <1>2 DEF CacheInv, Inputs

LEMMA InitCacheInv == Init => CacheInv
<1> SUFFICES ASSUME Init PROVE CacheInv
  OBVIOUS
<1>1. <<First>> \in Seq(Token) /\ <<>> \in Seq(Token)
  BY DecodeAssumption
<1>2. Inputs
  BY SizesFit DEF Init, Inputs
<1> QED BY <1>1, <1>2, DecodeAssumption DEF Init, CacheInv, Unended

LEMMA CallCacheInv ==
  ASSUME NEW audio \in [Histories -> Token], NEW n, Fits(n), NEW most \in 0 .. MaxArg,
         Call(audio, n, most)
  PROVE  CacheInv'
<1>1. <<First>> \in Seq(Token) /\ <<>> \in Seq(Token)
  BY DecodeAssumption
<1>2. Inputs'
  BY DEF Call, Inputs, Fits, SixPerSecond
<1> QED BY <1>1, <1>2, DecodeAssumption DEF Call, CacheInv, Unended

LEMMA GenerateCacheInv ==
  ASSUME CacheInv, Generate
  PROVE  CacheInv'
<1>0. Inputs' /\ Limit' = Limit
  BY DEF Generate, DefaultLimit, UncachedDecode, PickToken, CachedDecode, LimitReached,
         CacheInv, Inputs, Limit, call
<1>1. CASE DefaultLimit
  BY <1>0, <1>1 DEF DefaultLimit, CacheInv, Unended, Limit, call
<1>2. CASE UncachedDecode
  BY <1>0, <1>2 DEF UncachedDecode, CacheInv, Unended, Limit, call
<1>3. CASE PickToken
  <2> DEFINE picked == likeliest[cache]
  <2>1. picked \in Token /\ tokens' = Append(tokens, picked)
    BY <1>3, PickedIsToken DEF PickToken, More
  <2>2. tokens' \in Seq(Token) /\ Len(tokens') = Len(tokens) + 1
    BY <2>1 DEF CacheInv
  <2>3. tokens'[Len(tokens')] = picked
    BY <2>1, <2>2 DEF CacheInv
  <2>4. \A k \in 1 .. Len(tokens) : tokens'[k] = tokens[k]
    BY <2>1 DEF CacheInv
  <2>5. cache = tokens /\ Len(tokens) = i + 1 /\ seq_len = i
    BY <1>3 DEF PickToken, More, CacheInv
  <2>6. picked # End => Unended(tokens)'
    <3> SUFFICES ASSUME picked # End PROVE Unended(tokens)'
      OBVIOUS
    <3>1. Unended(tokens) /\ Len(tokens) >= 1
      BY <1>3, <2>5 DEF PickToken, More, CacheInv
    <3> QED BY <2>2, <2>3, <2>4, <3>1 DEF Unended
  <2>7. (max_len = Limit)'
    BY <1>3 DEF PickToken, More, CacheInv, Limit, call
  <2> QED BY <1>0, <1>3, <2>1, <2>2, <2>3, <2>5, <2>6, <2>7 DEF PickToken, More, CacheInv
<1>4. CASE CachedDecode
  BY <1>0, <1>4 DEF CachedDecode, Fed, CacheInv, Unended, Limit, call
<1>5. CASE LimitReached
  BY <1>0, <1>5 DEF LimitReached, More, CacheInv, call
<1> QED BY <1>1, <1>2, <1>3, <1>4, <1>5 DEF Generate

LEMMA StutterCacheInv ==
  ASSUME CacheInv, UNCHANGED vars
  PROVE  CacheInv'
BY DEF vars, call, CacheInv, Inputs, Unended, Limit

LEMMA NextCacheInv ==
  ASSUME CacheInv, [Next]_vars
  PROVE  CacheInv'
<1>1. CASE CallAgain
  <2>1. PICK audio \in [Histories -> Token], n \in Sizes, most \in 0 .. MaxArg :
          Call(audio, n, most)
    BY <1>1 DEF CallAgain
  <2> QED BY <2>1, SizesFit, CallCacheInv
<1> QED BY <1>1, GenerateCacheInv, StutterCacheInv DEF Next

LEMMA Invariance == Spec => []CacheInv
<1>1. CacheInv /\ [Next]_vars => CacheInv'
  BY NextCacheInv
<1> QED BY <1>1, InitCacheInv, PTL DEF Spec

LEMMA CacheInvMatches == CacheInv => CacheMatchesTokens
BY DEF CacheInv, CacheMatchesTokens

\* The logits that a token is picked from belong to all tokens before it, and
\* the position has moved on with each of them.
THEOREM CacheIsComplete == Spec => []CacheMatchesTokens
BY CacheInvMatches, Invariance, PTL
-----------------------------------------------------------------------------
(* The C++ port decodes greedily.                                          *)

LEMMA InitMaps == Init => Reference!Init
BY DEF Init, Reference!Init

LEMMA CallMaps ==
  ASSUME NEW audio, NEW n, NEW most, Call(audio, n, most)
  PROVE  Reference!Next
BY DEF Call, Reference!Next, Reference!Again

LEMMA GenerateMaps ==
  ASSUME CacheInv, Generate
  PROVE  [Reference!Next]_(Reference!vars)
<1>1. CASE DefaultLimit \/ UncachedDecode \/ CachedDecode
  BY <1>1 DEF DefaultLimit, UncachedDecode, CachedDecode, Fed, call, Limit,
              Reference!vars
<1>2. CASE PickToken
  <2>1. cache = tokens /\ Len(tokens) <= Limit
    BY <1>2, LimitInRange DEF PickToken, More, CacheInv
  <2>2. UNCHANGED <<likeliest, Limit>>
    BY <1>2 DEF PickToken, call, Limit
  <2> QED BY <1>2, <2>1, <2>2 DEF PickToken, Reference!Next, Reference!Extend
<1>3. CASE LimitReached
  <2>1. Len(tokens) > Limit
    BY <1>3, LimitInRange DEF LimitReached, More, CacheInv
  <2>2. UNCHANGED <<likeliest, Limit>>
    BY <1>3 DEF LimitReached, call, Limit
  <2> QED BY <1>3, <2>1, <2>2 DEF LimitReached, Reference!Next, Reference!Finish
<1> QED BY <1>1, <1>2, <1>3 DEF Generate

LEMMA StutterMaps ==
  ASSUME UNCHANGED vars
  PROVE  UNCHANGED Reference!vars
BY DEF vars, call, Limit, Reference!vars

LEMMA StepMaps ==
  ASSUME CacheInv, [Next]_vars
  PROVE  [Reference!Next]_(Reference!vars)
<1>1. CASE CallAgain
  BY <1>1, CallMaps DEF CallAgain
<1> QED BY <1>1, GenerateMaps, StutterMaps DEF Next

\* generate() returns what greedy decoding of the whole sequence returns.
THEOREM DecodesGreedily == Spec => ImplementsGreedy
<1>1. CacheInv /\ [Next]_vars => [Reference!Next]_(Reference!vars)
  BY StepMaps
<1> QED BY <1>1, InitMaps, Invariance, PTL DEF Spec, ImplementsGreedy, Reference!Spec
-----------------------------------------------------------------------------
(* The Python port decodes greedily.                                       *)

\* All tokens so far are in the cache or about to be decoded, and a cache was
\* computed from the audio.
PyInv ==
  /\ heard \in [Histories -> Token]
  /\ py_max_len \in Nat /\ py_max_len <= Longest
  /\ py_tokens \in Seq(Token) /\ py_i \in Nat
  /\ py_pc \in {"loop", "return"}
  /\ py_pc = "loop" =>
       /\ Unended(py_tokens) /\ Len(py_tokens) = py_i + 1
       /\ Py!Present(py_i > 0).decoder = py_tokens
       /\ py_i > 0 => py_past.encoder = "audio"

LEMMA InitPyInv == BothInit => PyInv
<1> SUFFICES ASSUME BothInit PROVE PyInv
  OBVIOUS
<1>1. <<First>> \in Seq(Token) /\ Len(<<First>>) = 1
  BY DecodeAssumption
<1>2. /\ heard \in [Histories -> Token] /\ samples \in Sizes /\ asked \in 0 .. MaxArg
      /\ py_max_len \in (IF asked = 0 THEN {SixPerSecond(samples), 0} ELSE {asked})
      /\ py_i = 0
      /\ py_tokens = <<First>> /\ py_input_ids = <<First>> /\ py_pc = "loop"
  <2>1. Py!Histories = Histories /\ Py!SixPerSecond(samples) = SixPerSecond(samples)
    BY DEF Py!Histories, Histories, Py!SixPerSecond, SixPerSecond
  <2> QED BY <2>1 DEF BothInit, Py!Init, Py!Limits
<1>3. py_max_len \in Nat /\ py_max_len <= Longest
  BY <1>2, SizesFit, DecodeAssumption DEF Fits
<1>4. Py!Present(py_i > 0).decoder = py_tokens
  BY <1>2 DEF Py!Present
<1>5. Unended(py_tokens)
  BY <1>2, <1>1, DecodeAssumption DEF Unended
<1> QED BY <1>1, <1>2, <1>3, <1>4, <1>5 DEF PyInv

LEMMA PyLikeliest ==
  ASSUME PyInv, py_pc = "loop", py_i < py_max_len
  PROVE  /\ Py!Likeliest(py_i > 0) = {heard[py_tokens]}
         /\ heard[py_tokens] \in Token
<1>1. Len(py_tokens) \in 1 .. Longest
  BY DecodeAssumption DEF PyInv
<1>2. py_tokens \in Histories
  BY <1>1, HistoryIs DEF PyInv
<1>3. Py!Likeliest(py_i > 0) = {heard[Py!Present(py_i > 0).decoder]}
  BY DEF PyInv, Py!Likeliest
<1> QED BY <1>2, <1>3 DEF PyInv

LEMMA IteratePyInv ==
  ASSUME PyInv, Py!Iterate
  PROVE  PyInv'
<1> DEFINE picked == heard[py_tokens]
<1>1. py_pc = "loop" /\ py_i < py_max_len
  BY DEF Py!Iterate, Py!More
<1>2. Py!Likeliest(py_i > 0) = {picked} /\ picked \in Token
  BY <1>1, PyLikeliest
<1> HIDE DEF picked
<1>3. /\ py_tokens' = Append(py_tokens, picked)
      /\ IF picked = End
         THEN py_pc' = "return" /\ UNCHANGED <<py_i, py_input_ids, py_past>>
         ELSE /\ py_input_ids' = <<picked>>
              /\ py_past' = Py!Keep(py_i > 0)
              /\ py_i' = py_i + 1
              /\ UNCHANGED py_pc
      /\ heard' = heard /\ py_max_len' = py_max_len
  BY <1>2 DEF Py!Iterate, Py!call
<1>4. /\ py_tokens \in Seq(Token) /\ Unended(py_tokens) /\ Len(py_tokens) = py_i + 1
      /\ py_i \in Nat
      /\ Py!Present(py_i > 0).decoder = py_tokens
      /\ py_i > 0 => py_past.encoder = "audio"
  BY <1>1 DEF PyInv
<1>5. /\ py_tokens' \in Seq(Token) /\ Len(py_tokens') = py_i + 2
      /\ py_tokens'[py_i + 2] = picked
      /\ \A k \in 1 .. Len(py_tokens) : py_tokens'[k] = py_tokens[k]
  BY <1>2, <1>3, <1>4
<1>6. CASE picked = End
  BY <1>3, <1>5, <1>6 DEF PyInv
<1>7. CASE picked # End
  <2>1. Unended(py_tokens')
    BY <1>4, <1>5, <1>7 DEF Unended
  <2>2. py_i' > 0 /\ py_i' \in Nat /\ Len(py_tokens') = py_i' + 1
    BY <1>3, <1>4, <1>5, <1>7
  <2>3. py_past'.decoder = py_tokens /\ py_past'.encoder = "audio"
    <3>1. py_past' = Py!Keep(py_i > 0)
      BY <1>3, <1>7
    <3>2. Py!Keep(py_i > 0).decoder = Py!Present(py_i > 0).decoder
      BY DEF Py!Keep
    <3>3. Py!Keep(py_i > 0).encoder = "audio"
      BY <1>4 DEF Py!Keep, Py!Present
    <3> QED BY <1>4, <3>1, <3>2, <3>3
  <2>4. py_input_ids' = <<picked>>
    BY <1>3, <1>7
  <2>5. py_tokens \o <<picked>> = Append(py_tokens, picked)
    BY <1>2, <1>4, AppendIsConcat
  <2>6. (Py!Present(py_i > 0).decoder = py_tokens)'
    BY <1>3, <2>2, <2>3, <2>4, <2>5 DEF Py!Present
  <2> QED BY <1>3, <1>5, <1>7, <2>1, <2>2, <2>3, <2>6 DEF PyInv
<1> QED BY <1>6, <1>7

LEMMA NextPyInv ==
  ASSUME PyInv, [PyNext \/ CppNext]_<<cpp, port, py>>
  PROVE  PyInv'
<1>1. CASE Py!Iterate
  BY <1>1, IteratePyInv
<1>2. CASE Py!EndOfRange
  BY <1>2 DEF Py!EndOfRange, Py!call, PyInv
<1>3. CASE UNCHANGED py
  BY <1>3 DEF py, PyInv, Py!Present
<1> QED BY <1>1, <1>2, <1>3 DEF PyNext, CppNext, Py!Next

LEMMA PyInvariance == BothSpec => []PyInv
<1>1. PyInv /\ [PyNext \/ CppNext]_<<cpp, port, py>> => PyInv'
  BY NextPyInv
<1> QED BY <1>1, InitPyInv, PTL DEF BothSpec

LEMMA PyInitMaps == BothInit => Py!Reference!Init
BY DEF BothInit, Py!Init, Py!Reference!Init

LEMMA PyStepMaps ==
  ASSUME PyInv, [PyNext \/ CppNext]_<<cpp, port, py>>
  PROVE  [Py!Reference!Next]_(Py!Reference!vars)
<1>1. CASE Py!Iterate
  <2>1. py_pc = "loop" /\ py_i < py_max_len
    BY <1>1 DEF Py!Iterate, Py!More
  <2>2. Py!Likeliest(py_i > 0) = {heard[py_tokens]}
    BY <2>1, PyLikeliest
  <2>3. Len(py_tokens) <= py_max_len
    BY <2>1 DEF PyInv
  <2> QED BY <1>1, <2>1, <2>2, <2>3
          DEF Py!Iterate, Py!call, Py!Reference!Next, Py!Reference!Extend
<1>2. CASE Py!EndOfRange
  <2>1. Len(py_tokens) > py_max_len
    BY <1>2 DEF Py!EndOfRange, Py!More, PyInv
  <2> QED BY <1>2, <2>1 DEF Py!EndOfRange, Py!call, Py!Reference!Next, Py!Reference!Finish
<1>3. CASE UNCHANGED py
  BY <1>3 DEF py, Py!Reference!vars
<1> QED BY <1>1, <1>2, <1>3 DEF PyNext, CppNext, Py!Next

\* The generate() of the Python port returns what greedy decoding of the whole
\* sequence returns, whatever the decoder makes of the values of the encoder
\* once a cache was used.
THEOREM PyDecodesGreedily == BothSpec => PyImplementsGreedy
<1>1. PyInv /\ [PyNext \/ CppNext]_<<cpp, port, py>> => [Py!Reference!Next]_(Py!Reference!vars)
  BY PyStepMaps
<1> QED BY <1>1, PyInitMaps, PyInvariance, PTL
        DEF BothSpec, PyImplementsGreedy, Py!ImplementsGreedy, Py!Reference!Spec
-----------------------------------------------------------------------------
(* The text of a slice.                                                    *)

Char == Nat \X Nat

TextOf(ts, k) == [c \in 1 .. Spelled[ts[k]] |-> <<k, c>>]
Texts(ts)     == [k \in 1 .. Len(ts) |-> TextOf(ts, k)]
WordTexts(ts) ==
  [k \in 1 .. Len(ts) |-> IF k = 1 \/ ts[k] = End THEN <<>> ELSE TextOf(ts, k)]

\* The tokens of a slice: the end token only as the last.
Ended(ts) == ts[Len(ts)] = End
SliceTokens(ts) ==
  /\ ts \in Seq(Token) /\ Len(ts) > 0
  /\ ts[1] = First /\ \A k \in 1 .. Len(ts) - 1 : ts[k] # End

\* The text ts has the words w in between the first and the last characters.
Around(first, w, last, ts) ==
  /\ first \in Seq(Char) /\ w \in Seq(Char) /\ last \in Seq(Char)
  /\ Len(first) = 3 /\ Len(last) = IF Ended(ts) THEN 4 ELSE 0
  /\ FlattenSeq(Texts(ts)) = first \o (w \o last)

LEMMA TextsAre ==
  ASSUME NEW ts, SliceTokens(ts)
  PROVE  /\ Texts(ts) \in Seq(Seq(Char)) /\ Len(Texts(ts)) = Len(ts)
         /\ WordTexts(ts) \in Seq(Seq(Char)) /\ Len(WordTexts(ts)) = Len(ts)
         /\ \A k \in 1 .. Len(ts) :
              /\ Texts(ts)[k] \in Seq(Char) /\ Len(Texts(ts)[k]) = Spelled[ts[k]]
              /\ WordTexts(ts)[k] =
                   IF k = 1 \/ ts[k] = End THEN <<>> ELSE Texts(ts)[k]
<1>1. Len(ts) \in Nat /\ \A k \in 1 .. Len(ts) : ts[k] \in Token
  BY DEF SliceTokens
<1>2. ASSUME NEW k \in 1 .. Len(ts)
      PROVE  TextOf(ts, k) \in Seq(Char) /\ Len(TextOf(ts, k)) = Spelled[ts[k]]
  <2>1. Spelled[ts[k]] \in Nat
    BY <1>1, FileAssumption
  <2>2. \A c \in 1 .. Spelled[ts[k]] : <<k, c>> \in Char
    BY <1>1, <2>1 DEF Char
  <2> QED BY <2>1, <2>2 DEF TextOf
<1>3. <<>> \in Seq(Char)
  OBVIOUS
<1> DEFINE ss == Texts(ts)
           ws == WordTexts(ts)
<1>4. ss = [k \in 1 .. Len(ts) |-> TextOf(ts, k)]
      /\ ws = [k \in 1 .. Len(ts) |->
                 IF k = 1 \/ ts[k] = End THEN <<>> ELSE TextOf(ts, k)]
  BY DEF Texts, WordTexts
<1> HIDE DEF ss, ws
<1>5. ss \in Seq(Seq(Char)) /\ Len(ss) = Len(ts)
  BY <1>1, <1>2, <1>4
<1>6. ws \in Seq(Seq(Char)) /\ Len(ws) = Len(ts)
  BY <1>1, <1>2, <1>3, <1>4
<1>7. \A k \in 1 .. Len(ts) :
        /\ ss[k] \in Seq(Char) /\ Len(ss[k]) = Spelled[ts[k]]
        /\ ws[k] = IF k = 1 \/ ts[k] = End THEN <<>> ELSE ss[k]
  BY <1>2, <1>4
<1> QED BY <1>5, <1>6, <1>7 DEF ss, ws

LEMMA TextIs ==
  ASSUME NEW ts, SliceTokens(ts)
  PROVE  \E first, last : Around(first, Words(ts), last, ts)
<1> DEFINE ss == Texts(ts)
           ws == WordTexts(ts)
           n  == Len(ts)
<1>1. /\ ss \in Seq(Seq(Char)) /\ Len(ss) = n
      /\ ws \in Seq(Seq(Char)) /\ Len(ws) = n
      /\ \A k \in 1 .. n :
           /\ ss[k] \in Seq(Char) /\ Len(ss[k]) = Spelled[ts[k]]
           /\ ws[k] = IF k = 1 \/ ts[k] = End THEN <<>> ELSE ss[k]
  BY TextsAre
<1>2. n \in Nat /\ n > 0 /\ ts[1] = First /\ \A k \in 1 .. n - 1 : ts[k] # End
  BY DEF SliceTokens
<1>3. Words(ts) = FlattenSeq(ws)
  BY DEF Words, WordTexts, TextOf
<1> HIDE DEF ss, ws, n
<1>4. Len(ss[1]) = 3 /\ ss[1] \in Seq(Char) /\ 1 \in 1 .. n
  <2>1. 1 \in 1 .. n
    BY <1>2
  <2>2. Len(ss[1]) = Spelled[ts[1]] /\ ss[1] \in Seq(Char)
    BY <1>1, <2>1
  <2> QED BY <1>2, <2>1, <2>2, FileAssumption
<1>5. SubSeq(ss, 1, n) = ss /\ SubSeq(ws, 1, n) = ws
  BY <1>1, SubSeqFull
<1>6. Words(ts) \in Seq(Char) /\ <<>> \in Seq(Char)
  BY <1>1, <1>3, FlattenAppend
<1>7. CASE ~Ended(ts)
  <2>1. SameButFirst(ss, ws, n)
    BY <1>1, <1>2, <1>7 DEF SameButFirst, Ended, n
  <2>2. n \in 1 .. Len(ss) /\ n <= Len(ws)
    BY <1>1, <1>2
  <2>3. FlattenSeq(ss) = ss[1] \o Words(ts)
    <3>1. ss \in Seq(Seq(Char)) /\ ws \in Seq(Seq(Char))
      BY <1>1
    <3>2. FlattenSeq(SubSeq(ss, 1, n)) = ss[1] \o FlattenSeq(SubSeq(ws, 1, n))
      BY <2>1, <2>2, <3>1, FlattenWithoutFirst
    <3> QED BY <1>3, <1>5, <3>2
  <2>4. Words(ts) \o <<>> = Words(ts) /\ Len(<<>>) = 0
    BY <1>6, ConcatEmptySeq
  <2>5. Around(ss[1], Words(ts), <<>>, ts)
    BY <1>4, <1>6, <1>7, <2>3, <2>4 DEF Around, ss
  <2> QED BY <2>5
<1>8. CASE Ended(ts)
  <2> DEFINE m == n - 1
             w == FlattenSeq(SubSeq(ws, 1, m))
  <2>1. m \in 1 .. n - 1 /\ m \in 1 .. Len(ss) /\ n \in 1 .. Len(ss) /\ n \in 1 .. Len(ws)
        /\ m <= Len(ws) /\ n \in 1 .. n
    BY <1>1, <1>2, <1>8, DecodeAssumption DEF Ended, n
  <2>2. SameButFirst(ss, ws, m)
    <3>1. ws[1] = <<>>
      BY <1>1, <1>4
    <3>2. ASSUME NEW k \in 2 .. m
          PROVE  ws[k] = ss[k]
      <4>1. k \in 1 .. n - 1 /\ k \in 1 .. n /\ k # 1
        BY <1>2, <2>1
      <4> QED BY <1>1, <1>2, <4>1
    <3> QED BY <3>1, <3>2 DEF SameButFirst
  <2>3. FlattenSeq(SubSeq(ss, 1, m)) = ss[1] \o w
    <3>1. ss \in Seq(Seq(Char)) /\ ws \in Seq(Seq(Char))
      BY <1>1
    <3> HIDE DEF m
    <3> QED BY <2>1, <2>2, <3>1, FlattenWithoutFirst
  <2>4. FlattenSeq(ss) = FlattenSeq(SubSeq(ss, 1, m)) \o ss[n]
    BY <1>1, <1>5, <2>1, FlattenLast
  <2>5. FlattenSeq(ws) = w \o ws[n]
    BY <1>1, <1>5, <2>1, FlattenLast
  <2>6. ts[n] = End /\ ws[n] = <<>> /\ ss[n] \in Seq(Char) /\ Len(ss[n]) = 4
    BY <1>1, <1>8, <2>1, FileAssumption DEF Ended, n
  <2>7. w \in Seq(Char)
    <3>1. SubSeq(ws, 1, m) \in Seq(Seq(Char))
      BY <1>1, <2>1
    <3> QED BY <3>1, <1>6, FlattenAppend
  <2> HIDE DEF w, m
  <2>8. Words(ts) = w
    BY <1>3, <2>5, <2>6, <2>7, ConcatEmptySeq
  <2>9. FlattenSeq(ss) = ss[1] \o (w \o ss[n])
    <3>1. FlattenSeq(ss) = Joined(Joined(ss[1], w), ss[n])
      BY <2>3, <2>4 DEF Joined
    <3>2. Joined(Joined(ss[1], w), ss[n]) = Joined(ss[1], Joined(w, ss[n]))
      BY <1>4, <2>6, <2>7, JoinedAssociative
    <3> QED BY <3>1, <3>2 DEF Joined
  <2>10. Around(ss[1], Words(ts), ss[n], ts)
    BY <1>4, <1>6, <1>8, <2>6, <2>8, <2>9 DEF Around, ss
  <2> QED BY <2>10
<1> QED BY <1>7, <1>8

\* w between first and last, and what is left of it and of them when as many
\* characters as first has, and then the last four, are erased.
Surrounded(first, w, last) == Joined(first, Joined(w, last))
LeftOf(w, last)            == Len(w) + Len(last) - 4

LEMMA ErasedIs ==
  ASSUME NEW first \in Seq(Char), NEW w \in Seq(Char), NEW last \in Seq(Char)
  PROVE  LET d == Surrounded(first, w, last)
         IN  /\ Len(d) = Len(first) + Len(w) + Len(last)
             /\ Len(d) >= Len(first) + 4 /\ Len(last) <= 4 =>
                  /\ LeftOf(w, last) \in 0 .. Len(w)
                  /\ SubSeq(d, Len(first) + 1, Len(d) - 4) = SubSeq(w, 1, LeftOf(w, last))
<1> DEFINE d == Surrounded(first, w, last)
           t == Joined(w, last)
           n == Len(w) + Len(last) - 4
           m == Len(first)
<1>1. /\ t \in Seq(Char) /\ Len(t) = Len(w) + Len(last)
      /\ \A k \in 1 .. Len(w) : t[k] = w[k]
  BY JoinedIs
<1> HIDE DEF t
<1>2. /\ d \in Seq(Char) /\ Len(d) = m + Len(t)
      /\ \A k \in 1 .. Len(t) : d[m + k] = t[k]
  <2>1. d = Joined(first, t)
    BY DEF d, t, Surrounded
  <2>2. /\ Joined(first, t) \in Seq(Char) /\ Len(Joined(first, t)) = m + Len(t)
        /\ \A k \in 1 .. Len(t) : Joined(first, t)[m + k] = t[k]
    <3>1. t \in Seq(Char)
      BY <1>1
    <3> QED BY <3>1, JoinedIs
  <2> QED BY <2>1, <2>2
<1>3. Len(w) \in Nat /\ Len(last) \in Nat /\ Len(t) \in Nat /\ m \in Nat
  BY <1>1
<1> HIDE DEF m, d
<1>4. Len(d) = m + Len(w) + Len(last)
  BY <1>1, <1>2, <1>3
<1>5. ASSUME Len(d) >= m + 4, Len(last) <= 4
      PROVE  n \in 0 .. Len(w) /\ SubSeq(d, m + 1, Len(d) - 4) = SubSeq(w, 1, n)
  <2>1. n \in 0 .. Len(w) /\ m + n <= Len(d) /\ Len(d) - 4 = m + n
    BY <1>3, <1>4, <1>5
  <2> HIDE DEF n
  <2>2. \A k \in 1 .. n : d[m + k] = w[k]
    <3> TAKE k \in 1 .. n
    <3>1. k \in 1 .. Len(w) /\ k \in 1 .. Len(t)
      BY <1>1, <1>3, <2>1
    <3> QED BY <1>1, <1>2, <3>1
  <2>3. SubSeq(d, m + 1, m + n) = SubSeq(w, 1, n)
    BY <1>2, <1>3, <2>1, <2>2, CutOut
  <2> QED BY <2>1, <2>3
<1> QED BY <1>4, <1>5 DEF m, d, LeftOf

\* What is kept of the text of a slice.
KeptWords(text, ts) ==
  LET lost == Len(Words(ts)) - Len(text)
  IN  IsPrefix(text, Words(ts)) /\ lost = IF Ended(ts) THEN 0 ELSE 4

LEMMA SliceText ==
  ASSUME NEW ts, SliceTokens(ts), NEW d, d = FlattenSeq(Texts(ts))
  PROVE  /\ Len(d) >= 7 => KeptWords(SubSeq(d, 4, Len(d) - 4), ts)
         /\ Len(d) < 7 => ~Ended(ts) /\ Len(Words(ts)) < 4
<1> DEFINE w == Words(ts)
<1>1. PICK first, last : Around(first, w, last, ts)
  BY TextIs
<1> HIDE DEF w
<1>2. /\ first \in Seq(Char) /\ w \in Seq(Char) /\ last \in Seq(Char)
      /\ Len(first) = 3 /\ Len(last) = (IF Ended(ts) THEN 4 ELSE 0)
      /\ d = Surrounded(first, w, last)
  BY <1>1 DEF Around, Joined, Surrounded
<1> DEFINE kept == LeftOf(w, last)
<1>3. /\ Len(d) = 3 + Len(w) + Len(last)
      /\ Len(d) >= 7 /\ Len(last) <= 4 =>
           kept \in 0 .. Len(w) /\ SubSeq(d, 4, Len(d) - 4) = SubSeq(w, 1, kept)
  <2> DEFINE m == Len(first)
  <2>1. /\ Len(d) = m + Len(w) + Len(last)
        /\ Len(d) >= m + 4 /\ Len(last) <= 4 =>
             kept \in 0 .. Len(w) /\ SubSeq(d, m + 1, Len(d) - 4) = SubSeq(w, 1, kept)
    <3> DEFINE e == Surrounded(first, w, last)
    <3>1. first \in Seq(Char) /\ w \in Seq(Char) /\ last \in Seq(Char)
      BY <1>2
    <3>2. /\ Len(e) = m + Len(w) + Len(last)
          /\ Len(e) >= m + 4 /\ Len(last) <= 4 =>
               kept \in 0 .. Len(w) /\ SubSeq(e, m + 1, Len(e) - 4) = SubSeq(w, 1, kept)
      BY <3>1, ErasedIs
    <3> HIDE DEF m, kept
    <3> QED BY <1>2, <3>2
  <2>2. m = 3 /\ m + 4 = 7 /\ m + 1 = 4
    BY <1>2
  <2> HIDE DEF m, kept
  <2> QED BY <2>1, <2>2
<1>4. Len(w) \in Nat /\ Len(last) \in Nat /\ Len(last) <= 4
  BY <1>2
<1>5. ASSUME Len(d) >= 7
      PROVE  KeptWords(SubSeq(d, 4, Len(d) - 4), ts)
  <2>1. kept \in 0 .. Len(w) /\ SubSeq(d, 4, Len(d) - 4) = SubSeq(w, 1, kept)
    BY <1>3, <1>4, <1>5
  <2>2. Len(SubSeq(w, 1, kept)) = kept
    BY <1>2, <1>4, <2>1
  <2>3. Len(w) - kept = IF Ended(ts) THEN 0 ELSE 4
    BY <1>2, <1>4 DEF LeftOf
  <2>4. SubSeq(SubSeq(w, 1, kept), 1, kept) = SubSeq(w, 1, kept)
    <3>1. SubSeq(w, 1, kept) \in Seq(Char)
      BY <1>2, <2>1
    <3> QED BY <2>2, <3>1, SubSeqFull
  <2>5. kept <= Len(w)
    BY <1>4, <2>1
  <2> HIDE DEF kept
  <2> QED BY <2>1, <2>2, <2>3, <2>4, <2>5 DEF KeptWords, IsPrefix, w
<1>6. ASSUME Len(d) < 7
      PROVE  ~Ended(ts) /\ Len(w) < 4
  BY <1>2, <1>3, <1>4, <1>6
<1> QED BY <1>5, <1>6 DEF w
-----------------------------------------------------------------------------
(* transcribe() of file.cpp.                                               *)

LEMMA SliceIsNat == Slice \in Nat /\ Slice > 0
BY FileAssumption, DecodeAssumption

\* The slice that begins at `at`.
LEMMA SliceIs ==
  ASSUME at \in Nat, length \in Nat, at < length
  PROVE  /\ SliceEnd \in Nat /\ SliceEnd > at /\ SliceEnd <= length
         /\ SliceEnd - at \in 1 .. Slice
         /\ SliceEnd = IF at + Slice < length THEN at + Slice ELSE length
BY SliceIsNat DEF SliceEnd

\* The slices before are as WordsAreKept has it, and the tokens of the slice in
\* work are those of a slice.
FileInv ==
  /\ CacheInv /\ SliceTokens(tokens)
  /\ at \in Nat /\ length \in Nat
  /\ Len(ans) = Len(said) /\ Len(ans) \in Nat
  /\ ans \in Seq(Seq(Char)) /\ said \in Seq(Seq(Token))
  /\ \A s \in 1 .. Len(ans) : KeptWords(ans[s], said[s])
  /\ OutsideOnlyIfCut

LEMMA WordsKeptDef == (\A s \in 1 .. Len(ans) : KeptWords(ans[s], said[s])) => WordsAreKept
BY DEF WordsAreKept, KeptWords, Ended

LEMMA FirstIsSlice == SliceTokens(<<First>>)
BY DecodeAssumption DEF SliceTokens

LEMMA FileBegins ==
  ASSUME FileInit
  PROVE  /\ at = 0 /\ length \in Nat /\ ans = <<>> /\ said = <<>> /\ slices = <<>>
         /\ \/ file = "none"
            \/ file = "generate" /\ length > 0
            \/ file = "next" /\ length = 0
<1>1. /\ at = 0 /\ ans = <<>> /\ said = <<>> /\ slices = <<>>
      /\ \/ file = "none" /\ length = 0
         \/ file = "generate" /\ length \in Lengths /\ length > 0
         \/ file = "next" /\ length = 0
  BY Zenon DEF FileInit
<1>2. length = 0 \/ length \in Lengths
  BY <1>1, Zenon
<1>3. length \in Nat
  <2>1. 0 \in Nat /\ \A l \in Lengths : l \in Nat
    BY FileAssumption
  <2> QED BY <1>2, <2>1, Zenon
<1> QED BY <1>1, <1>3, Zenon

LEMMA InitFileInv == BothInit => FileInv
<1> SUFFICES ASSUME BothInit PROVE FileInv
  OBVIOUS
<1>1. CacheInv /\ tokens = <<First>>
  BY InitCacheInv DEF BothInit, FileInit, Init
<1>2. at \in Nat /\ length \in Nat /\ file # "undefined"
  BY FileBegins DEF BothInit
<1>3. ans = <<>> /\ said = <<>>
  BY FileBegins DEF BothInit
<1>4. Len(ans) = 0 /\ Len(said) = 0 /\ ans \in Seq(Seq(Char)) /\ said \in Seq(Seq(Token))
  BY <1>3
<1> QED BY <1>1, <1>2, <1>4, FirstIsSlice DEF FileInv, OutsideOnlyIfCut

LEMMA GenerateSliceTokens ==
  ASSUME CacheInv, SliceTokens(tokens), Generate
  PROVE  SliceTokens(tokens)'
<1>1. CASE PickToken
  <2> DEFINE picked == likeliest[cache]
  <2>1. picked \in Token /\ tokens' = Append(tokens, picked) /\ Unended(tokens)
    BY <1>1, PickedIsToken DEF PickToken, More, CacheInv
  <2> HIDE DEF picked
  <2>2. /\ tokens' \in Seq(Token) /\ Len(tokens') = Len(tokens) + 1
        /\ \A k \in 1 .. Len(tokens) : tokens'[k] = tokens[k]
    BY <2>1 DEF CacheInv
  <2>3. Len(tokens) \in Nat /\ Len(tokens) > 0
    BY DEF SliceTokens
  <2> QED BY <2>1, <2>2, <2>3 DEF SliceTokens, Unended
<1>2. CASE UNCHANGED tokens
  BY <1>2 DEF SliceTokens
<1> QED BY <1>1, <1>2
    DEF Generate, DefaultLimit, UncachedDecode, CachedDecode, LimitReached

LEMMA DetokenizeIs == detokenize = FlattenSeq(Texts(tokens))
BY DEF detokenize, Texts, TextOf

LEMMA AppendTextKeeps ==
  ASSUME FileInv, AppendText
  PROVE  FileInv'
<1> DEFINE d == detokenize
<1>1. KeptWords(SubSeq(d, 4, Len(d) - 4), tokens)
  BY SliceText, DetokenizeIs DEF FileInv, AppendText
<1>2. d \in Seq(Char)
  BY TextsAre, FlattenAppend, DetokenizeIs DEF FileInv
<1>3. Erased = SubSeq(d, 4, Len(d) - 4)
  BY DEF Erased
<1> HIDE DEF d
<1>4. Erased \in Seq(Char) /\ KeptWords(Erased, tokens)
  BY <1>1, <1>2, <1>3
<1>5. /\ ans' = Append(ans, Erased) /\ said' = Append(said, tokens)
      /\ file' = "next" /\ at' = at + Slice /\ length' = length /\ UNCHANGED vars
  BY DEF AppendText
<1>6. CacheInv' /\ tokens' = tokens
  BY <1>5, StutterCacheInv DEF FileInv, vars
<1>7. /\ Len(ans') = Len(ans) + 1 /\ Len(said') = Len(ans) + 1
      /\ ans' \in Seq(Seq(Char)) /\ said' \in Seq(Seq(Token))
      /\ \A s \in 1 .. Len(ans) : ans'[s] = ans[s] /\ said'[s] = said[s]
      /\ ans'[Len(ans) + 1] = Erased /\ said'[Len(ans) + 1] = tokens
  BY <1>4, <1>5, AppendProperties DEF FileInv, CacheInv
<1>8. \A s \in 1 .. Len(ans') : KeptWords(ans'[s], said'[s])
  <2> TAKE s \in 1 .. Len(ans')
  <2>0. s \in 1 .. Len(ans) \/ s = Len(ans) + 1
    BY <1>7 DEF FileInv
  <2>1. CASE s \in 1 .. Len(ans)
    BY <1>7, <2>1 DEF FileInv
  <2>2. CASE s = Len(ans) + 1
    BY <1>4, <1>7, <2>2
  <2> QED BY <2>0, <2>1, <2>2
<1>9. at' \in Nat /\ length' \in Nat
  BY <1>5, SliceIsNat DEF FileInv
<1> QED BY <1>5, <1>6, <1>7, <1>8, <1>9 DEF FileInv, SliceTokens, OutsideOnlyIfCut

LEMMA NextSliceKeeps ==
  ASSUME FileInv, NextSlice
  PROVE  FileInv'
<1> DEFINE n == SliceEnd - at
<1>1. PICK answers \in [Questions(n) -> Token] :
        Call([h \in Histories |-> IF h \in DOMAIN answers THEN answers[h] ELSE likeliest[h]],
             n, 0)
  BY DEF NextSlice
<1> DEFINE model == [h \in Histories |->
                       IF h \in DOMAIN answers THEN answers[h] ELSE likeliest[h]]
<1>2. model \in [Histories -> Token]
  BY DEF FileInv, CacheInv, Inputs, Questions
<1>3. Fits(n)
  <2>1. Fits(Slice) /\ n \in Nat /\ n <= Slice
    BY SizesFit, FileAssumption, SliceIsNat, SliceIs DEF FileInv, NextSlice
  <2> HIDE DEF n
  <2> QED BY <2>1, ShorterFits
<1>4. 0 \in 0 .. MaxArg
  BY DecodeAssumption
<1>0. Call(model, n, 0)
  BY <1>1
<1> HIDE DEF n, model
<1>5. CacheInv'
  BY <1>0, <1>2, <1>3, <1>4, CallCacheInv
<1>6. tokens' = <<First>> /\ file' = "generate" /\ UNCHANGED <<length, at, ans, said>>
  BY <1>1 DEF Call, NextSlice, texts
<1> QED BY <1>5, <1>6, FirstIsSlice DEF FileInv, OutsideOnlyIfCut

LEMMA StutterKeeps ==
  ASSUME FileInv, UNCHANGED vars, UNCHANGED <<length, at, ans, said>>,
         file' = "undefined" => OutsideOnlyIfCut'
  PROVE  FileInv'
<1>1. CacheInv' /\ tokens' = tokens
  BY StutterCacheInv DEF FileInv, vars
<1> QED BY <1>1 DEF FileInv, SliceTokens, OutsideOnlyIfCut

LEMMA NextFileInv ==
  ASSUME FileInv, [PyNext \/ CppNext]_<<cpp, port, py>>
  PROVE  FileInv'
<1>1. CASE file \in {"generate", "none"} /\ GenerateSlice
  <2>1. CacheInv' /\ SliceTokens(tokens)'
    BY <1>1, GenerateCacheInv, GenerateSliceTokens DEF GenerateSlice, FileInv
  <2>2. UNCHANGED <<length, at, ans, said>> /\ file' # "undefined"
    BY <1>1 DEF GenerateSlice, fileVars, texts
  <2> QED BY <2>1, <2>2 DEF FileInv, OutsideOnlyIfCut
<1>2. CASE AppendText
  BY <1>2, AppendTextKeeps
<1>3. CASE EraseOutside
  <2>1. ~Ended(tokens) /\ Len(Words(tokens)) < 4
    BY <1>3, SliceText, DetokenizeIs DEF FileInv, EraseOutside
  <2>2. UNCHANGED vars /\ UNCHANGED <<length, at, ans, said>>
    BY <1>3 DEF EraseOutside, texts
  <2>3. OutsideOnlyIfCut'
    BY <2>1, <2>2 DEF OutsideOnlyIfCut, Ended, vars, Words
  <2> QED BY <2>2, <2>3, StutterKeeps
<1>4. CASE NextSlice
  BY <1>4, NextSliceKeeps
<1>5. CASE ReturnText \/ TranscribeThrows
  BY <1>5, StutterKeeps DEF ReturnText, TranscribeThrows, texts
<1>6. CASE UNCHANGED cpp
  <2>1. UNCHANGED vars /\ UNCHANGED <<length, at, ans, said>> /\ file' = file
    BY <1>6 DEF cpp, fileVars, texts
  <2>2. OutsideOnlyIfCut'
    BY <2>1 DEF FileInv, OutsideOnlyIfCut, Words, vars
  <2> QED BY <2>1, <2>2, StutterKeeps
<1> QED BY <1>1, <1>2, <1>3, <1>4, <1>5, <1>6 DEF PyNext, CppNext, FileNext

LEMMA FileInvariance == BothSpec => []FileInv
<1>1. FileInv /\ [PyNext \/ CppNext]_<<cpp, port, py>> => FileInv'
  BY NextFileInv
<1> QED BY <1>1, InitFileInv, PTL DEF BothSpec

\* The transcript of a recording, however many slices it has, has the words of
\* each slice and nothing of the tokens around them; only where the limit took
\* the place of the end token do its last four characters lack.
THEOREM TranscriptHasWords == BothSpec => []WordsAreKept
<1>1. FileInv => WordsAreKept
  BY WordsKeptDef DEF FileInv
<1> QED BY <1>1, FileInvariance, PTL

\* Characters outside the text are erased only when the limit cut the tokens.
THEOREM ErasesInside == BothSpec => []OutsideOnlyIfCut
<1>1. FileInv => OutsideOnlyIfCut
  BY DEF FileInv
<1> QED BY <1>1, FileInvariance, PTL

\* How far the slices reach.
Covered == IF slices = <<>> THEN 0 ELSE slices[Len(slices)][2]

SliceInv ==
  /\ slices \in Seq(Nat \X Nat) /\ Len(slices) = Len(ans)
  /\ \A s \in 1 .. Len(slices) :
       /\ slices[s][1] = IF s = 1 THEN 0 ELSE slices[s - 1][2]
       /\ slices[s][2] - slices[s][1] \in 1 .. Slice
  /\ file = "generate" => Covered = at /\ at < length
  /\ file = "next" => /\ Covered = IF at < length THEN at ELSE length
                      /\ slices = <<>> => length = 0
  /\ file = "returned" => Covered = length /\ (slices = <<>> => length = 0)

LEMMA AppendTextSlices ==
  ASSUME FileInv, SliceInv, AppendText
  PROVE  SliceInv'
<1> DEFINE slice == <<at, SliceEnd>>
           n == Len(slices)
<1>1. /\ at \in Nat /\ length \in Nat /\ Covered = at /\ at < length
      /\ slices \in Seq(Nat \X Nat) /\ n \in Nat /\ n = Len(ans)
      /\ ans \in Seq(Seq(Char))
  BY DEF FileInv, SliceInv, AppendText
<1>2. /\ slice \in Nat \X Nat /\ slice[1] = at /\ slice[2] = SliceEnd
      /\ slice[2] - slice[1] \in 1 .. Slice
  BY <1>1, SliceIs
<1>3. slices' = Append(slices, slice) /\ ans' = Append(ans, Erased)
      /\ at' = at + Slice /\ length' = length /\ file' = "next"
  BY DEF AppendText
<1> HIDE DEF slice
<1>4. /\ slices' \in Seq(Nat \X Nat) /\ Len(slices') = n + 1
      /\ slices'[n + 1] = slice
      /\ \A s \in 1 .. n : slices'[s] = slices[s]
  BY <1>1, <1>2, <1>3
<1>5. Len(ans') = n + 1
  BY <1>1, <1>3
<1>6. slice[1] = IF n + 1 = 1 THEN 0 ELSE slices'[n][2]
  <2>1. n = 0 => slice[1] = 0
    BY <1>1, <1>2 DEF Covered
  <2>2. n # 0 => slice[1] = slices[n][2]
    <3>1. n # 0 => slices # <<>>
      BY <1>1
    <3> QED BY <1>1, <1>2, <3>1 DEF Covered
  <2>3. n # 0 => n \in 1 .. n /\ n + 1 # 1
    BY <1>1
  <2>4. n = 0 => n + 1 = 1
    OBVIOUS
  <2>5. n # 0 => slices'[n] = slices[n]
    BY <1>4, <2>3
  <2> HIDE DEF n, slice
  <2> QED BY <2>1, <2>2, <2>3, <2>4, <2>5
<1>7. \A s \in 1 .. n + 1 :
        /\ slices'[s][1] = IF s = 1 THEN 0 ELSE slices'[s - 1][2]
        /\ slices'[s][2] - slices'[s][1] \in 1 .. Slice
  <2> TAKE s \in 1 .. n + 1
  <2>1. CASE s \in 1 .. n
    <3>1. s # 1 => s - 1 \in 1 .. n
      BY <1>1, <2>1
    <3>2. /\ slices[s][1] = IF s = 1 THEN 0 ELSE slices[s - 1][2]
          /\ slices[s][2] - slices[s][1] \in 1 .. Slice
      BY <2>1 DEF SliceInv
    <3>3. slices'[s] = slices[s] /\ (s # 1 => slices'[s - 1] = slices[s - 1])
      BY <1>4, <2>1, <3>1
    <3> HIDE DEF n
    <3> QED BY <3>2, <3>3
  <2>2. CASE s = n + 1
    <3>1. s - 1 = n
      BY <1>1, <2>2
    <3>2. slices'[s] = slice
      BY <1>4, <2>2
    <3>3. slice[1] = IF s = 1 THEN 0 ELSE slices'[s - 1][2]
      <4> HIDE DEF n, slice
      <4> QED BY <1>6, <2>2, <3>1
    <3>4. slice[2] - slice[1] \in 1 .. Slice
      BY <1>2
    <3> HIDE DEF n, slice
    <3> QED BY <3>2, <3>3, <3>4
  <2>3. s \in 1 .. n \/ s = n + 1
    <3>1. n \in Nat
      BY <1>1
    <3> HIDE DEF n
    <3> QED BY <3>1
  <2> QED BY <2>1, <2>2, <2>3
<1>8. slices' # <<>> /\ Covered' = SliceEnd
  BY <1>1, <1>2, <1>4 DEF Covered
<1>9. Covered' = IF at' < length' THEN at' ELSE length'
  BY <1>1, <1>3, <1>8, SliceIs
<1> HIDE DEF n
<1> QED BY <1>3, <1>4, <1>5, <1>7, <1>8, <1>9 DEF SliceInv

LEMMA StepSlices ==
  ASSUME FileInv, SliceInv, [PyNext \/ CppNext]_<<cpp, port, py>>
  PROVE  SliceInv'
<1>1. CASE AppendText
  BY <1>1, AppendTextSlices
<1>2. CASE NextSlice
  <2>1. UNCHANGED <<slices, ans, at, length>> /\ file' = "generate" /\ file = "next"
        /\ at < length
    BY <1>2 DEF NextSlice, texts
  <2> QED BY <2>1 DEF SliceInv, Covered
<1>3. CASE ReturnText
  <2>1. UNCHANGED <<slices, ans, at, length>> /\ file' = "returned" /\ file = "next"
        /\ ~(at < length)
    BY <1>3 DEF ReturnText, texts, FileInv
  <2> QED BY <2>1 DEF SliceInv, Covered
<1>4. CASE EraseOutside \/ TranscribeThrows
  <2>1. UNCHANGED <<slices, ans, at, length>> /\ file' \in {"undefined", "threw"}
    BY <1>4 DEF EraseOutside, TranscribeThrows, texts
  <2> QED BY <2>1 DEF SliceInv, Covered
<1>5. CASE UNCHANGED fileVars
  BY <1>5 DEF SliceInv, Covered, fileVars, texts
<1> QED BY <1>1, <1>2, <1>3, <1>4, <1>5 DEF PyNext, CppNext, FileNext, GenerateSlice, cpp

\* A transcript that is returned is one of the whole recording, however long it
\* is and wherever a call may have thrown: no sample is in no slice, or in two.
THEOREM ReturnedTextIsWhole == BothSpec => []ReturnedIsWhole
<1>1. BothInit => SliceInv
  <2> SUFFICES ASSUME BothInit PROVE SliceInv
    OBVIOUS
  <2>1. slices = <<>> /\ ans = <<>> /\ at = 0 /\ length \in Nat
    BY FileBegins DEF BothInit
  <2>2. Len(slices) = 0 /\ Len(ans) = 0 /\ slices \in Seq(Nat \X Nat)
    BY <2>1
  <2>3. /\ file = "generate" => 0 < length
        /\ file = "next" => length = 0
        /\ file # "returned"
    BY FileBegins DEF BothInit
  <2> QED BY <2>1, <2>2, <2>3 DEF SliceInv, Covered
<1>2. FileInv /\ SliceInv /\ [PyNext \/ CppNext]_<<cpp, port, py>> => SliceInv'
  BY StepSlices
<1>3. SliceInv => ReturnedIsWhole
  <2> SUFFICES ASSUME SliceInv, file = "returned" PROVE ReturnedIsWhole
    BY DEF ReturnedIsWhole
  <2>1. slices # <<>> => Len(slices) \in 1 .. Len(slices) /\ Covered = slices[Len(slices)][2]
    BY DEF SliceInv, Covered
  <2>2. slices # <<>> => length > 0
    <3> SUFFICES ASSUME slices # <<>> PROVE length > 0
      OBVIOUS
    <3> DEFINE e == Len(slices)
    <3>1. e \in 1 .. e /\ slices[e] \in Nat \X Nat /\ slices[e][2] - slices[e][1] \in 1 .. Slice
      BY <2>1 DEF SliceInv
    <3>2. slices[e][2] > 0
      BY <3>1
    <3> QED BY <2>1, <3>2 DEF SliceInv
  <2> QED BY <2>1, <2>2 DEF SliceInv, ReturnedIsWhole
<1> QED BY <1>1, <1>2, <1>3, FileInvariance, PTL DEF BothSpec

\* The cache has all tokens in each slice, too.
THEOREM CacheIsCompleteInSlices == BothSpec => []CacheMatchesTokens
<1>1. FileInv => CacheMatchesTokens
  BY CacheInvMatches DEF FileInv
<1> QED BY <1>1, FileInvariance, PTL

\* A slice is asked nothing but the questions it has new answers to.
LEMMA OnlyQuestions ==
  ASSUME CacheInv, PickToken, asked = 0
  PROVE  cache \in Questions(samples)
<1>1. /\ cache = tokens /\ Len(tokens) = i + 1 /\ i \in Nat /\ i < max_len
      /\ max_len = Limit /\ Unended(cache) /\ cache \in Seq(Token)
  BY DEF CacheInv, PickToken, More
<1>2. Limit = SixPerSecond(samples) /\ Limit \in Nat /\ Limit <= Longest
  BY LimitInRange DEF CacheInv, Limit
<1>3. Len(cache) \in 1 .. Longest /\ Len(cache) <= SixPerSecond(samples)
  BY <1>1, <1>2, DecodeAssumption
<1> QED BY <1>1, <1>3, HistoryIs DEF Questions

\* Each slice is decoded greedily, with whatever model of its own: NextSlice has
\* every answer to the questions it may ask, and by OnlyQuestions it asks no
\* others.
THEOREM SlicesDecodedGreedily == BothSpec => ImplementsGreedy
<1>1. ASSUME FileInv, [PyNext \/ CppNext]_<<cpp, port, py>>
      PROVE  [Reference!Next]_(Reference!vars)
  <2>1. CASE Generate
    BY <1>1, <2>1, GenerateMaps DEF FileInv
  <2>2. CASE NextSlice
    BY <2>2, CallMaps DEF NextSlice
  <2>3. CASE UNCHANGED vars
    BY <2>3, StutterMaps
  <2> QED BY <1>1, <2>1, <2>2, <2>3
          DEF PyNext, CppNext, FileNext, GenerateSlice, AppendText, EraseOutside,
              ReturnText, TranscribeThrows, cpp
<1>2. BothInit => Reference!Init
  BY InitMaps DEF BothInit, FileInit
<1> QED BY <1>1, <1>2, FileInvariance, PTL DEF BothSpec, ImplementsGreedy, Reference!Spec
=============================================================================
