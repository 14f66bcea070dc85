------------------------------ MODULE MCReview ------------------------------
(* Instances of Review for TLC. *)
EXTENDS Review, TLC

\* Statements, documents, workers and operators are interchangeable.
Symmetry == Permutations(Hashes) \cup Permutations(Workers) \cup Permutations(Operators)
            \cup Permutations(Docs)
=============================================================================
