----------------------------- MODULE MCRetrieval -----------------------------
(* Instances of Retrieval for TLC. *)
EXTENDS Retrieval

\* Searches for any text, among all types or one, and context requests of two
\* kinds: one constraint the task is not about, and more constraints than a bundle
\* has room for while the provider fails.
MCRequests ==
    LET R(context, hard, typed, embedded, matches) ==
            [context |-> context, hard |-> hard, typed |-> typed, embedded |-> embedded,
             matches |-> matches, limit |-> 2]
    IN {R(FALSE, {}, Hashes, embedded, matches) : embedded \in BOOLEAN, matches \in SUBSET Hashes}
       \cup {R(FALSE, {}, {h}, embedded, Hashes) : embedded \in BOOLEAN, h \in Hashes}
       \cup {R(TRUE, {h}, Hashes, TRUE, Hashes \ {h}) : h \in Hashes}
       \cup {R(TRUE, hard, Hashes, FALSE, Hashes) : hard \in kSubset(2, Hashes)}

\* Statements are interchangeable.
Symmetry == Permutations(Hashes)
=============================================================================
