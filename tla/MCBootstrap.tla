---------------------------- MODULE MCBootstrap -----------------------------
(* Bootstrap with two interchangeable shells and a command in .bashrc twice:   *)
(* both may dictate at once, and one may start again in its shell.            *)
EXTENDS Bootstrap
symmetry == Permutations(Shell)
=============================================================================
