------------------------------ MODULE Decoders ------------------------------
(***************************************************************************)
(* Both ports of generate(), for whatever audio, model and limit: the      *)
(* Python one of DecodePy, or the C++ one of DecodeCpp, called for a limit *)
(* of the caller's or by file.cpp, slice by slice.                         *)
(***************************************************************************)
EXTENDS FileCpp

VARIABLES port,    \* the port that is used
          heard,   \* the model as the Python port has it
          py_max_len, py_i, py_tokens, py_input_ids, py_past, py_pc

py == <<heard, py_max_len, py_i, py_tokens, py_input_ids, py_past, py_pc>>

Py == INSTANCE DecodePy
        WITH likeliest <- heard, max_len <- py_max_len, i <- py_i, tokens <- py_tokens,
             input_ids <- py_input_ids, past <- py_past, pc <- py_pc

\* The answers of a model that is not asked.
Unasked == [h \in Histories |-> End]

BothInit ==
  /\ FileInit
  /\ port \in {"py", "cpp"} /\ (port = "py" => file = "none")
  /\ heard = IF port = "py" THEN likeliest ELSE Unasked
  /\ Py!Init

PyNext  == port = "py" /\ Py!Next /\ UNCHANGED <<port, cpp>>
CppNext == port = "cpp" /\ FileNext /\ UNCHANGED <<port, py>>

BothSpec == BothInit /\ [][PyNext \/ CppNext]_<<cpp, port, py>>
-----------------------------------------------------------------------------
\* In the Python port too, decoding with the cache returns the tokens that
\* decoding the whole sequence each time would (model.py:52-93).
PyImplementsGreedy == Py!ImplementsGreedy
=============================================================================
