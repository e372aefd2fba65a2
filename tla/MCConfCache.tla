----------------------------- MODULE MCConfCache -----------------------------
(* The small instance TLC checks: threads and files are interchangeable.   *)
EXTENDS ConfCache, TLC

Symmetry == Permutations(Thread) \cup Permutations(Path)
=============================================================================
