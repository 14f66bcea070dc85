------------------------------- MODULE Fusion -------------------------------
(***************************************************************************)
(* Reciprocal Rank Fusion of two ranked legs, as hybrid_search computes it *)
(* (search.py): an atom scores 1 / (RRF_K + rank) in every leg that ranks  *)
(* it.  A rank counts from 1; 0 stands for not ranked.  Scores are exact   *)
(* fractions here, never rounded.                                          *)
(***************************************************************************)
EXTENDS Naturals

CONSTANTS
    RRF_K,      \* the damping constant, 60
    LEG_LIMIT   \* candidates per leg, 50

ASSUME FusionAssumption == RRF_K \in Nat /\ LEG_LIMIT \in Nat

\* Mutant: scores are not damped.
Undamped(rank) == rank

Damped(rank) == RRF_K + rank

\* The score of an atom with these ranks in the two legs.
Score(a, b) ==
    IF a # 0 /\ b # 0 THEN [num |-> Damped(a) + Damped(b), den |-> Damped(a) * Damped(b)]
    ELSE [num |-> 1, den |-> Damped(a + b)]

Exceeds(s, t) == s.num * t.den > t.num * s.den

\* The condition under which the two legs together outweigh one: the code's
\* values 60 and 50 satisfy it.
DampingSuffices == LEG_LIMIT <= RRF_K + 1
=============================================================================
