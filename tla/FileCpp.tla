------------------------------ MODULE FileCpp ------------------------------
(***************************************************************************)
(* transcribe() of moonshine_cpp/examples_linux/file.cpp: the recording in *)
(* slices, each given to generate() of DecodeCpp, and of the text of each  *)
(* slice what is left without its first three and last four characters,    *)
(* which are meant to be the start and the end token.                      *)
(*                                                                         *)
(* A character is known by its token and its place in it: <<k, c>> is      *)
(* character c of tokens[k].                                               *)
(***************************************************************************)
EXTENDS DecodeCpp, SequencesExt

CONSTANTS
  Slice,     \* SAMPLE_RATE * 30
  Lengths,   \* numbers of samples of a recording
  Spelled    \* the number of characters of each token

ASSUME FileAssumption ==
  /\ Slice \in Sizes \ {0} /\ Lengths \subseteq Nat
  /\ Spelled \in [Token -> Nat] /\ Spelled[First] = 3 /\ Spelled[End] = 4

VARIABLES
  file,     \* where transcribe() is; "none" for another caller of generate()
  length,   \* audio_samples.size()
  at,       \* i of the loop over the slices
  ans,      \* the text of each slice
  said,     \* history: the tokens of each slice
  slices    \* history: the samples of each slice, <<first, one behind the last>>

texts    == <<ans, said, slices>>
fileVars == <<file, length, at, texts>>
cpp      == <<vars, fileVars>>

\* std::min(i + SAMPLE_RATE * 30, length)
SliceEnd == IF at + Slice < length THEN at + Slice ELSE length

\* file.cpp leaves the limit to generate(), which it does not call for an empty
\* recording.
FileInit ==
  /\ Init
  /\ at = 0 /\ ans = <<>> /\ said = <<>> /\ slices = <<>>
  /\ \/ file = "none" /\ length = 0
     \/ file = "generate" /\ length \in Lengths /\ length > 0
        /\ asked = 0 /\ samples = SliceEnd
     \/ file = "next" /\ length = 0 /\ length \in Lengths

GenerateSlice == Generate /\ UNCHANGED fileVars

\* Variant: detokenize() skips the end token.
detokenizeUnended ==
  FlattenSeq([k \in 1 .. Len(tokens) |->
                IF tokens[k] = End THEN <<>>
                ELSE [c \in 1 .. Spelled[tokens[k]] |-> <<k, c>>]])

detokenize ==
  FlattenSeq([k \in 1 .. Len(tokens) |->
                [c \in 1 .. Spelled[tokens[k]] |-> <<k, c>>]])

\* result.erase(0,3); result.erase(result.end()-4,result.end())
Erased == SubSeq(detokenize, 4, Len(detokenize) - 4)

\* ans << result; i += SAMPLE_RATE * 30
AppendText ==
  /\ file = "generate" /\ pc = "return" /\ Len(detokenize) >= 7
  /\ ans' = Append(ans, Erased)
  /\ said' = Append(said, tokens) /\ slices' = Append(slices, <<at, SliceEnd>>)
  /\ at' = at + Slice
  /\ file' = "next"
  /\ UNCHANGED <<vars, length>>

\* result.end()-4 lies before the text: nothing is known from here on.
EraseOutside ==
  /\ file = "generate" /\ pc = "return" /\ Len(detokenize) < 7
  /\ file' = "undefined"
  /\ UNCHANGED <<vars, length, at, texts>>

\* What the model may be asked about n samples.
Questions(n) == {h \in Histories : Len(h) <= SixPerSecond(n)}

\* The model answers for every slice anew.
NextSlice ==
  /\ file = "next" /\ at < length
  /\ \E answers \in [Questions(SliceEnd - at) -> Token] :
       Call([h \in Histories |-> IF h \in DOMAIN answers THEN answers[h] ELSE likeliest[h]],
            SliceEnd - at, 0)
  /\ file' = "generate"
  /\ UNCHANGED <<length, at, texts>>

ReturnText ==
  /\ file = "next" /\ at >= length
  /\ file' = "returned"
  /\ UNCHANGED <<vars, length, at, texts>>

\* Variant: the text so far is returned.
ReturnPart ==
  /\ file = "generate" /\ pc # "return"
  /\ file' = "returned"
  /\ UNCHANGED <<vars, length, at, texts>>

\* An exception of generate(): the text of the slices before goes with it.
TranscribeThrows ==
  /\ file = "generate" /\ pc # "return"
  /\ file' = "threw"
  /\ UNCHANGED <<vars, length, at, texts>>

FileNext ==
  \/ file \in {"generate", "none"} /\ GenerateSlice
  \/ AppendText \/ EraseOutside \/ NextSlice \/ ReturnText \/ TranscribeThrows
-----------------------------------------------------------------------------
\* The characters of the words of a slice: without the first token and the end
\* token.
Words(ts) ==
  FlattenSeq([k \in 1 .. Len(ts) |->
                IF k = 1 \/ ts[k] = End THEN <<>>
                ELSE [c \in 1 .. Spelled[ts[k]] |-> <<k, c>>]])

\* The transcript has the words of each slice and nothing of the tokens around
\* them.  Only where the limit took the place of the end token do characters
\* lack, the last four (file.cpp:36-45).
WordsAreKept ==
  \A s \in 1 .. Len(ans) :
    LET lost == Len(Words(said[s])) - Len(ans[s])
    IN  /\ IsPrefix(ans[s], Words(said[s]))
        /\ lost = IF said[s][Len(said[s])] = End THEN 0 ELSE 4

\* Characters outside the text are erased only when the limit cut the tokens of
\* a slice before four characters of words: never for a text that was ended
\* (file.cpp:42-43, moonshine.cpp:179-197).
OutsideOnlyIfCut ==
  file = "undefined" =>
    /\ tokens[Len(tokens)] # End
    /\ Len(Words(tokens)) < 4

\* A transcript that is returned is one of the whole recording: the slices its
\* texts are of follow one another from the first sample to the last, none longer
\* than 30 seconds, and no text is missing for one that threw
\* (file.cpp:36-44 and 53-58).
ReturnedIsWhole ==
  file = "returned" =>
    /\ Len(slices) = Len(ans) /\ (length = 0 <=> slices = <<>>)
    /\ \A s \in 1 .. Len(slices) :
         /\ slices[s][1] = IF s = 1 THEN 0 ELSE slices[s - 1][2]
         /\ slices[s][2] - slices[s][1] \in 1 .. Slice
    /\ slices # <<>> => slices[Len(slices)][2] = length
=============================================================================
