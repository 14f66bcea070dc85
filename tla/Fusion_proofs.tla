---------------------------- MODULE Fusion_proofs ----------------------------
(* What the damping constant is for, for every length of a leg.           *)
EXTENDS Fusion, TLAPS

\* The constants of search.py (lines 19-20) satisfy the condition.
THEOREM DeployedConstants == RRF_K = 60 /\ LEG_LIMIT = 50 => DampingSuffices
  BY DEF DampingSuffices

\* An atom both legs rank (search.py, lines 60-63) scores more than an atom only
\* one of them ranks, wherever they stand: fusion puts agreement first.
THEOREM AgreementWins ==
  ASSUME DampingSuffices,
         NEW a \in 1 .. LEG_LIMIT, NEW b \in 1 .. LEG_LIMIT, NEW c \in 1 .. LEG_LIMIT
  PROVE  /\ Exceeds(Score(a, b), Score(c, 0))
         /\ Exceeds(Score(a, b), Score(0, c))
<1> DEFINE A == RRF_K + a
           B == RRF_K + b
           C == RRF_K + c
<1>1. A \in Nat \ {0} /\ B \in Nat \ {0} /\ C \in Nat \ {0}
  BY FusionAssumption
<1>2. A < 2 * C /\ B < 2 * C
  BY FusionAssumption DEF DampingSuffices
<1>3. (A + B) * C > 1 * (A * B)
  <2> HIDE DEF A, B, C
  <2>1. A * B < A * (2 * C) /\ A * B < B * (2 * C)
    BY <1>1, <1>2
  <2>2. A * (2 * C) + B * (2 * C) = 2 * ((A + B) * C)
    BY <1>1
  <2>3. A * B \in Nat /\ (A + B) * C \in Nat /\ A * (2 * C) \in Nat /\ B * (2 * C) \in Nat
    BY <1>1
  <2> QED
    BY <2>1, <2>2, <2>3
<1>4. Score(a, b) = [num |-> A + B, den |-> A * B]
  BY FusionAssumption DEF Score, Damped
<1>5. Score(c, 0) = [num |-> 1, den |-> C] /\ Score(0, c) = [num |-> 1, den |-> C]
  BY FusionAssumption DEF Score, Damped
<1> QED
  BY <1>3, <1>4, <1>5 DEF Exceeds

\* Within one leg the better rank scores more, for any constants.
THEOREM BetterRankWins ==
  ASSUME NEW a \in 1 .. LEG_LIMIT, NEW b \in 1 .. LEG_LIMIT, a < b
  PROVE  Exceeds(Score(a, 0), Score(b, 0))
  BY FusionAssumption DEF Exceeds, Score, Damped
=============================================================================
