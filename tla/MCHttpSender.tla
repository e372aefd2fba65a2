---------------------------- MODULE MCHttpSender ----------------------------
(* A small instance of HttpSender for TLC.  The tasks are alike.           *)
EXTENDS HttpSender, TLC

Symmetry == Permutations(Task)
=============================================================================
