--------------------------- MODULE MCPyCaptioners ---------------------------
(* Ten chunks let a segment be capped, one be ended by silence and one be  *)
(* open at Ctrl+C.                                                         *)
EXTENDS PyCaptioners
=============================================================================
