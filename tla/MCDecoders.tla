----------------------------- MODULE MCDecoders -----------------------------
(* Decoders with every model over three tokens, for audio too short for a     *)
(* token, long enough for one, for two (a slice of a recording) and for three. *)
EXTENDS Decoders
spelled == (1 :> 3) @@ (2 :> 4) @@ (3 :> 5)
=============================================================================
