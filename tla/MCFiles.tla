------------------------------- MODULE MCFiles -------------------------------
(* Instances of Files for TLC. *)
EXTENDS Files, TLC

\* Documents and cleaner versions are interchangeable.
Symmetry == Permutations(Docs) \cup Permutations(Cleaners)
=============================================================================
