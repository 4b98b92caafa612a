----------------------------- MODULE MCLiveCpp ------------------------------
(* LiveCpp with a speech buffer of three chunks and a sample, which refuses   *)
(* chunks within MaxTaken.                                                    *)
EXTENDS LiveCpp
=============================================================================
