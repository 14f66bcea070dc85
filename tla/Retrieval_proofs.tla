--------------------------- MODULE Retrieval_proofs ---------------------------
(***************************************************************************)
(* Theorems about Retrieval, for any requests, limits and number of        *)
(* documents, statements, workers and operators: what an answer contains,  *)
(* whatever is replaced and decided between the queries it is made of.     *)
(***************************************************************************)
EXTENDS Retrieval, Review_proofs, Fusion_proofs, FiniteSetTheorems

\* What the history variables hold is so now.
HistoryHolds ==
    search # NoSearch =>
        /\ search.stable \subseteq Findable(search.for, live, row)
        /\ search.binding \subseteq Constraints(search.for, live, row)
        /\ search.hidden \subseteq {i \in live : row[i].status = "deprecated"}

\* No leg is longer than its limit, and none has an atom that is deprecated since
\* before it was ranked.
LegsAreEligible ==
    search # NoSearch =>
        /\ Len(search.vector) <= LEG_LIMIT /\ Len(search.keyword) <= LEG_LIMIT
        /\ search.hidden \cap (ToSet(search.vector) \cup ToSet(search.keyword) \cup search.constraints) = {}

\* A leg that left nothing out has every atom that stayed findable: the leg by
\* embedding when there is an embedding, else the leg by keywords.
LegsAreComplete ==
    search # NoSearch =>
        /\ search.pc = "vector" => search.for.embedded
        /\ search.pc \in {"keyword", "fetch"} /\ search.for.embedded /\ ~search.cut =>
              search.stable \subseteq ToSet(search.vector)
        /\ search.pc = "fetch" /\ ~search.for.embedded /\ ~search.cut =>
              search.stable \subseteq ToSet(search.keyword)

\* The bundle keeps the constraints it was given.
BundleHasConstraints ==
    search # NoSearch /\ search.pc # "constraints" /\ search.for.context =>
        \/ search.binding \subseteq search.constraints
        \/ Cardinality(search.constraints) = CONSTRAINT_LIMIT

\* The inductive invariant; the last two conjuncts are about an answer.
SInv ==
    /\ SearchTypeOK
    /\ HistoryHolds
    /\ LegsAreEligible
    /\ LegsAreComplete
    /\ BundleHasConstraints
    /\ StableAtomsAreFound
    /\ DeprecatedStayHidden

-----------------------------------------------------------------------------
(* Listings *)

\* An interval of n numbers.
LEMMA UpTo == ASSUME NEW n \in Nat PROVE IsFiniteSet(1 .. n) /\ Cardinality(1 .. n) = n
  BY FS_Interval

\* There are finitely many atoms.
LEMMA AtomsAreFinite == IsFiniteSet(AtomIds)
<1> DEFINE T == (Docs \X (1 .. MaxRuns)) \X Hashes
           f == [t \in T |-> [doc |-> t[1][1], run |-> t[1][2], born |-> t[2]]]
<1>1. IsFiniteSet(1 .. MaxRuns)
  BY FS_Interval, BoundsAssumption
<1>2. IsFiniteSet(Docs \X (1 .. MaxRuns))
  BY <1>1, FS_Product, FiniteAssumption
<1>3. IsFiniteSet(T)
  BY <1>2, FS_Product, FiniteAssumption
<1>4. f \in [T -> AtomIds]
  BY DEF AtomIds
<1>5. \A i \in AtomIds : \E t \in T : f[t] = i
  <2> SUFFICES ASSUME NEW i \in AtomIds PROVE \E t \in T : f[t] = i
    OBVIOUS
  <2>1. <<<<i.doc, i.run>>, i.born>> \in T
    BY DEF AtomIds
  <2>2. f[<<<<i.doc, i.run>>, i.born>>] = i
    BY <2>1 DEF AtomIds
  <2> QED
    BY <2>1, <2>2
<1>6. f \in Surjection(T, AtomIds)
  BY <1>4, <1>5 DEF Surjection
<1> QED
  BY <1>3, <1>6, FS_Surjection

\* A function on an interval from 1 is a sequence.
LEMMA ListIn ==
    ASSUME NEW T, NEW n \in Nat, NEW f \in [1 .. n -> T]
    PROVE  f \in Seq(T) /\ Len(f) = n
  OBVIOUS

\* Functions that agree everywhere are equal.
LEMMA SameFunction ==
    ASSUME NEW D, NEW T, NEW f \in [D -> T], NEW g \in [D -> T], \A d \in D : f[d] = g[d]
    PROVE  f = g
  OBVIOUS

\* A listing of a finite set, as long as the set is large, has each element once.
LEMMA ListingOf ==
    ASSUME NEW S, IsFiniteSet(S), NEW list \in [1 .. Cardinality(S) -> S],
           \A x \in S : \E n \in DOMAIN list : list[n] = x
    PROVE  /\ Cardinality(S) \in Nat
           /\ list \in Seq(S) /\ Len(list) = Cardinality(S)
           /\ ToSet(list) = S
           /\ IsInjective(list)
<1>1. Cardinality(S) \in Nat
  BY FS_CardinalityType
<1>2. list \in Seq(S) /\ Len(list) = Cardinality(S)
  BY <1>1
<1>3. ToSet(list) = S
  BY <1>1 DEF ToSet
<1>4. list \in Surjection(1 .. Cardinality(S), S)
  BY DEF Surjection
<1>5. IsFiniteSet(1 .. Cardinality(S)) /\ Cardinality(1 .. Cardinality(S)) = Cardinality(S)
  BY <1>1, FS_Interval
<1>6. list \in Injection(1 .. Cardinality(S), S)
  BY <1>4, <1>5, FS_Surjection
<1> QED
  BY <1>1, <1>2, <1>3, <1>6 DEF Injection

\* The head of a listing is no larger than the limit of the request, and is
\* all of it when the limit allows.
LEMMA TopOf ==
    ASSUME NEW S, IsFiniteSet(S), NEW list \in [1 .. Cardinality(S) -> S],
           \A x \in S : \E n \in DOMAIN list : list[n] = x,
           search.for.limit \in Nat
    PROVE  /\ Top(list) \subseteq S
           /\ IsFiniteSet(Top(list)) /\ Cardinality(Top(list)) <= search.for.limit
           /\ Cardinality(S) <= search.for.limit => Top(list) = S
<1> DEFINE limit == search.for.limit
           size == Cardinality(S)
           m == IF size < limit THEN size ELSE limit
           f == [n \in 1 .. m |-> list[n]]
<1>1. size \in Nat /\ m \in Nat /\ m <= limit /\ m <= size
  BY FS_CardinalityType
<1>2. Top(list) = {list[n] : n \in 1 .. m}
  BY <1>1 DEF Top
<1>3. f \in Surjection(1 .. m, Top(list))
  BY <1>2 DEF Surjection
<1>4. IsFiniteSet(1 .. m) /\ Cardinality(1 .. m) = m
  <2> HIDE DEF m
  <2> QED
    BY <1>1, UpTo
<1>5. IsFiniteSet(Top(list)) /\ Cardinality(Top(list)) <= m
  BY <1>3, <1>4, FS_Surjection
<1>6. Cardinality(Top(list)) \in Nat
  BY <1>5, FS_CardinalityType
<1>7. Top(list) \subseteq S
  BY <1>1, <1>2
<1>8. ASSUME size <= limit PROVE Top(list) = S
  BY <1>1, <1>2, <1>8
<1> QED
  BY <1>1, <1>5, <1>6, <1>7, <1>8

\* A leg has some of the rows, at most LEG_LIMIT; all of them unless it is shorter.
LEMMA RankingOf ==
    ASSUME NEW rows, IsFiniteSet(rows), NEW leg \in Rankings(rows)
    PROVE  /\ leg \in Seq(rows)
           /\ Len(leg) <= LEG_LIMIT
           /\ ToSet(leg) \subseteq rows
           /\ ~(Len(leg) < Cardinality(rows)) => ToSet(leg) = rows
<1> DEFINE size == IF Cardinality(rows) < LEG_LIMIT THEN Cardinality(rows) ELSE LEG_LIMIT
<1>1. Cardinality(rows) \in Nat /\ size \in Nat /\ size <= LEG_LIMIT /\ size <= Cardinality(rows)
  BY FS_CardinalityType, FusionAssumption
<1>2. leg \in [1 .. size -> rows] /\ IsInjective(leg)
  BY DEF Rankings
<1>3. leg \in Seq(rows) /\ Len(leg) = size /\ ToSet(leg) \subseteq rows
  BY <1>1, <1>2 DEF ToSet
<1>4. leg \in Injection(1 .. size, rows)
  BY <1>2 DEF Injection
<1>5. IsFiniteSet(1 .. size) /\ Cardinality(1 .. size) = size
  <2> HIDE DEF size
  <2> QED
    BY <1>1, UpTo
<1>6. ASSUME size = Cardinality(rows) PROVE rows \subseteq ToSet(leg)
  <2>1. leg \in Surjection(1 .. size, rows)
    BY <1>4, <1>5, <1>6, FS_Injection
  <2> QED
    BY <1>2, <2>1 DEF Surjection, ToSet
<1>7. ~(size < Cardinality(rows)) => size = Cardinality(rows)
  <2> HIDE DEF size
  <2> QED
    BY <1>1
<1> QED
  <2> HIDE DEF size
  <2> QED
    BY <1>1, <1>3, <1>6, <1>7

-----------------------------------------------------------------------------
(* Scores *)

\* A rank counts from 1, and is 0 for an atom that is not in the leg.
LEMMA RankIs ==
    ASSUME NEW leg \in Seq(AtomIds), Len(leg) <= LEG_LIMIT, NEW i
    PROVE  /\ i \in ToSet(leg) => Rank(leg, i) \in 1 .. LEG_LIMIT
           /\ i \notin ToSet(leg) => Rank(leg, i) = 0
<1>1. DOMAIN leg = 1 .. Len(leg) /\ Len(leg) \in Nat
  OBVIOUS
<1>2. Contains(leg, i) <=> \E n \in DOMAIN leg : leg[n] = i
  BY <1>1 DEF Contains
<1>3. i \in ToSet(leg) <=> \E n \in DOMAIN leg : leg[n] = i
  BY DEF ToSet
<1> QED
  BY <1>1, <1>2, <1>3, FusionAssumption DEF Rank

\* One score cannot exceed another that exceeds it.
LEMMA ExceedsIsStrict ==
    ASSUME NEW a \in Nat, NEW b \in Nat, NEW c \in Nat, NEW d \in Nat,
           Exceeds(Score(a, b), Score(c, d))
    PROVE  ~Exceeds(Score(c, d), Score(a, b))
<1>1. \A x, y \in Nat : Score(x, y).num \in Nat /\ Score(x, y).den \in Nat
  BY FusionAssumption DEF Score, Damped
<1> DEFINE s == Score(a, b)  t == Score(c, d)
<1>2. s.num * t.den \in Nat /\ t.num * s.den \in Nat
  BY <1>1
<1> QED
  BY <1>2 DEF Exceeds

\* An atom of both legs is never listed after an atom of one.
LEMMA AgreementIsBefore ==
    ASSUME DampingSuffices,
           search.vector \in Seq(AtomIds), Len(search.vector) <= LEG_LIMIT,
           search.keyword \in Seq(AtomIds), Len(search.keyword) <= LEG_LIMIT,
           NEW i \in ToSet(search.vector) \cap ToSet(search.keyword),
           NEW k \in Scored, k \notin ToSet(search.vector) \cap ToSet(search.keyword)
    PROVE  ~Before(k, i)
<1> DEFINE a == Rank(search.vector, i)  b == Rank(search.keyword, i)
           c == Rank(search.vector, k)  d == Rank(search.keyword, k)
<1>1. a \in 1 .. LEG_LIMIT /\ b \in 1 .. LEG_LIMIT
  BY RankIs
<1>2. \/ c \in 1 .. LEG_LIMIT /\ d = 0
      \/ c = 0 /\ d \in 1 .. LEG_LIMIT
  BY RankIs DEF Scored
<1>3. Exceeds(Score(a, b), Score(c, d))
  BY <1>1, <1>2, AgreementWins
<1>4. a \in Nat /\ b \in Nat /\ c \in Nat /\ d \in Nat
  BY <1>1, <1>2
<1>5. ~Exceeds(Score(c, d), Score(a, b))
  BY <1>3, <1>4, ExceedsIsStrict
<1> QED
  BY <1>3, <1>5 DEF Before, ScoreOf

-----------------------------------------------------------------------------
(* Every step preserves the invariant *)

\* Before a request there is nothing to keep.
LEMMA SInvInit == SearchInit => SInv
  BY DEF SearchInit, NoSearch, SInv, SearchTypeOK, HistoryHolds, LegsAreEligible, LegsAreComplete,
         BundleHasConstraints, StableAtomsAreFound, DeprecatedStayHidden

\* The fields of a search have their types.
LEMMA SearchFields ==
    ASSUME SearchTypeOK, search # NoSearch
    PROVE  /\ search \in Search /\ search.for \in Request
           /\ search.for.limit \in Nat \ {0} /\ search.for.embedded \in BOOLEAN
           /\ search.for.context \in BOOLEAN
           /\ search.vector \in Seq(AtomIds) /\ search.keyword \in Seq(AtomIds)
           /\ search.constraints \subseteq AtomIds /\ search.cut \in BOOLEAN
           /\ Len(search.hits) <= search.for.limit
           /\ ToSet(search.vector) \subseteq AtomIds /\ ToSet(search.keyword) \subseteq AtomIds
<1>1. search \in Search /\ Len(search.hits) <= search.for.limit
  BY DEF SearchTypeOK
<1>2. search.for \in Request
  BY <1>1, RequestsAssumption DEF Search
<1>3. search.vector \in Seq(AtomIds) /\ search.keyword \in Seq(AtomIds)
  BY <1>1 DEF Search
<1>4. ToSet(search.vector) \subseteq AtomIds /\ ToSet(search.keyword) \subseteq AtomIds
  BY <1>3 DEF ToSet
<1> QED
  BY <1>1, <1>2, <1>3, <1>4 DEF Search, Request

\* A request begins with empty legs and with what is so at that moment.
LEMMA BeginSearchStep ==
    ASSUME IInv, NEW q \in Requests, BeginSearch(q)
    PROVE  SInv'
<1> DEFINE s == [pc |-> IF q.context THEN "constraints" ELSE FirstLeg(q), for |-> q,
                 constraints |-> {}, vector |-> <<>>, keyword |-> <<>>, hits |-> <<>>, cut |-> FALSE,
                 stable |-> Findable(q, live, row), binding |-> Constraints(q, live, row),
                 hidden |-> {i \in live : row[i].status = "deprecated"}]
<1>1. search' = s /\ UNCHANGED <<live, row>>
  BY DEF BeginSearch, vars
<1>2. q \in Request /\ q.limit \in Nat /\ q.embedded \in BOOLEAN /\ q.context \in BOOLEAN
  BY RequestsAssumption DEF Request
<1>3. live \subseteq AtomIds
  BY DEF IInv, TypeOK
<1>4. /\ Findable(q, live, row) \subseteq AtomIds /\ Constraints(q, live, row) \subseteq AtomIds
      /\ {i \in live : row[i].status = "deprecated"} \subseteq AtomIds
  BY <1>3 DEF Findable, Constraints
<1>5. s \in Search
  BY <1>4 DEF Search, FirstLeg
<1>6. /\ s.pc \in {"constraints", "vector", "keyword"} /\ (s.pc = "constraints" <=> q.context)
      /\ (s.pc = "vector" => q.embedded) /\ (s.pc = "keyword" => ~q.embedded)
  BY <1>2 DEF FirstLeg
<1>7. /\ s.for = q /\ s.constraints = {} /\ s.vector = <<>> /\ s.keyword = <<>> /\ s.hits = <<>>
      /\ ~s.cut /\ s.stable = Findable(q, live, row) /\ s.binding = Constraints(q, live, row)
      /\ s.hidden = {i \in live : row[i].status = "deprecated"}
  OBVIOUS
<1> HIDE DEF s
<1>8. SearchTypeOK'
  BY <1>1, <1>2, <1>5, <1>7 DEF SearchTypeOK
<1>9. HistoryHolds'
  BY <1>1, <1>7 DEF HistoryHolds
<1>10. LegsAreEligible'
  BY <1>1, <1>7, FusionAssumption DEF LegsAreEligible, ToSet
<1>11. LegsAreComplete' /\ BundleHasConstraints'
  BY <1>1, <1>6, <1>7 DEF LegsAreComplete, BundleHasConstraints
<1>12. StableAtomsAreFound' /\ DeprecatedStayHidden'
  BY <1>1, <1>6 DEF StableAtomsAreFound, DeprecatedStayHidden
<1> QED
  BY <1>8, <1>9, <1>10, <1>11, <1>12 DEF SInv

\* The query takes constraints in force, which are not deprecated: all of them, or
\* as many as a bundle may have.
LEMMA QueryConstraintsStep ==
    ASSUME IInv, SInv, QueryConstraints
    PROVE  SInv'
<1> DEFINE size == IF Cardinality(InForce) < CONSTRAINT_LIMIT THEN Cardinality(InForce) ELSE CONSTRAINT_LIMIT
<1>1. PICK some \in kSubset(size, InForce) :
          search' = [search EXCEPT !.pc = FirstLeg(search.for), !.constraints = some]
  BY DEF QueryConstraints
<1>2. search.pc = "constraints" /\ search # NoSearch /\ UNCHANGED <<live, row>>
  BY DEF QueryConstraints, NoSearch, vars
<1>3. SearchTypeOK
  BY DEF SInv
<1>4. search \in Search /\ search.for.embedded \in BOOLEAN
  BY <1>2, <1>3, SearchFields
<1>5. live \subseteq AtomIds
  BY DEF IInv, TypeOK
<1>6. InForce \subseteq {i \in live : row[i].status # "deprecated"}
  BY DEF InForce, Constraints
<1>7. some \subseteq InForce /\ Cardinality(some) = size
  BY DEF kSubset
<1>8. IsFiniteSet(InForce) /\ Cardinality(InForce) \in Nat
  BY <1>5, <1>6, AtomsAreFinite, FS_Subset, FS_CardinalityType
<1>9. some = InForce \/ Cardinality(some) = CONSTRAINT_LIMIT
  BY <1>7, <1>8, FS_Subset
<1> HIDE DEF size
<1>10. /\ search'.pc \in {"vector", "keyword"} /\ (search'.pc = "vector" <=> search.for.embedded)
       /\ search'.for = search.for /\ search'.constraints = some
       /\ search'.vector = search.vector /\ search'.keyword = search.keyword
       /\ search'.hits = search.hits /\ search'.cut = search.cut
       /\ search'.stable = search.stable /\ search'.binding = search.binding
       /\ search'.hidden = search.hidden
  BY <1>1, <1>4 DEF Search, FirstLeg
<1>11. search' \in Search
  BY <1>1, <1>4, <1>5, <1>6, <1>7 DEF Search, FirstLeg
<1>12. SearchTypeOK'
  BY <1>2, <1>3, <1>10, <1>11 DEF SearchTypeOK
<1>13. HistoryHolds'
  BY <1>2, <1>10 DEF SInv, HistoryHolds
<1>14. LegsAreEligible'
  BY <1>2, <1>6, <1>7, <1>10 DEF SInv, LegsAreEligible, HistoryHolds
<1>15. LegsAreComplete'
  BY <1>10 DEF LegsAreComplete
<1>16. BundleHasConstraints'
  <2>1. search.binding \subseteq InForce
    BY <1>2 DEF SInv, HistoryHolds, InForce
  <2> QED
    BY <1>9, <1>10, <2>1 DEF BundleHasConstraints
<1>17. StableAtomsAreFound' /\ DeprecatedStayHidden'
  BY <1>10 DEF StableAtomsAreFound, DeprecatedStayHidden
<1> QED
  BY <1>12, <1>13, <1>14, <1>15, <1>16, <1>17 DEF SInv

\* The leg by embedding ranks rows that are not deprecated; when it is not cut,
\* every findable one.
LEMMA VectorLegStep ==
    ASSUME IInv, SInv, VectorLeg
    PROVE  SInv'
<1>1. PICK leg \in Rankings(Eligible) :
          search' = [search EXCEPT !.pc = "keyword", !.vector = leg,
                                   !.cut = Len(leg) < Cardinality(Eligible)]
  BY DEF VectorLeg
<1>2. search.pc = "vector" /\ search # NoSearch /\ UNCHANGED <<live, row>>
  BY DEF VectorLeg, NoSearch, vars
<1>3. SearchTypeOK
  BY DEF SInv
<1>4. search \in Search
  BY <1>2, <1>3, SearchFields
<1>5. Eligible \subseteq AtomIds /\ IsFiniteSet(Eligible)
  <2>1. live \subseteq AtomIds
    BY DEF IInv, TypeOK
  <2> QED
    BY <2>1, AtomsAreFinite, FS_Subset DEF Eligible
<1>6. /\ leg \in Seq(Eligible) /\ Len(leg) <= LEG_LIMIT /\ ToSet(leg) \subseteq Eligible
      /\ ~(Len(leg) < Cardinality(Eligible)) => ToSet(leg) = Eligible
  BY <1>5, RankingOf
<1>7. leg \in Seq(AtomIds)
  BY <1>5, <1>6
<1>8. /\ search'.pc = "keyword" /\ search'.for = search.for /\ search'.vector = leg
      /\ search'.constraints = search.constraints /\ search'.keyword = search.keyword
      /\ search'.hits = search.hits /\ search'.cut = (Len(leg) < Cardinality(Eligible))
      /\ search'.stable = search.stable /\ search'.binding = search.binding
      /\ search'.hidden = search.hidden
  BY <1>1, <1>4 DEF Search
<1>9. search' \in Search
  <2>1. (Len(leg) < Cardinality(Eligible)) \in BOOLEAN
    OBVIOUS
  <2> QED
    BY <1>1, <1>4, <1>7, <2>1 DEF Search
<1>10. SearchTypeOK'
  BY <1>2, <1>3, <1>8, <1>9 DEF SearchTypeOK
<1>11. HistoryHolds'
  BY <1>2, <1>8 DEF SInv, HistoryHolds
<1>12. LegsAreEligible'
  <2>1. search.hidden \cap Eligible = {}
    BY <1>2 DEF SInv, HistoryHolds, Eligible
  <2> QED
    BY <1>2, <1>6, <1>8, <2>1 DEF SInv, LegsAreEligible
<1>13. LegsAreComplete'
  <2>1. search.stable \subseteq Eligible
    BY <1>2 DEF SInv, HistoryHolds, Findable, Eligible
  <2> QED
    BY <1>6, <1>8, <2>1 DEF LegsAreComplete
<1>14. BundleHasConstraints'
  BY <1>2, <1>8 DEF SInv, BundleHasConstraints
<1>15. StableAtomsAreFound' /\ DeprecatedStayHidden'
  BY <1>8 DEF StableAtomsAreFound, DeprecatedStayHidden
<1> QED
  BY <1>10, <1>11, <1>12, <1>13, <1>14, <1>15 DEF SInv

\* The leg by keywords ranks rows that match and are not deprecated; when nothing
\* is cut and there is no embedding, every findable one.
LEMMA KeywordLegStep ==
    ASSUME IInv, SInv, KeywordLeg
    PROVE  SInv'
<1> DEFINE matching == {i \in Eligible : row[i].hash \in search.for.matches}
<1>1. PICK leg \in Rankings(matching) :
          search' = [search EXCEPT !.pc = "fetch", !.keyword = leg,
                                   !.cut = @ \/ Len(leg) < Cardinality(matching)]
  BY DEF KeywordLeg
<1>2. search.pc = "keyword" /\ search # NoSearch /\ UNCHANGED <<live, row>>
  BY DEF KeywordLeg, NoSearch, vars
<1>3. SearchTypeOK
  BY DEF SInv
<1>4. search \in Search /\ search.cut \in BOOLEAN
  BY <1>2, <1>3, SearchFields
<1>5. matching \subseteq AtomIds /\ IsFiniteSet(matching)
  <2>1. live \subseteq AtomIds
    BY DEF IInv, TypeOK
  <2>2. matching \subseteq AtomIds
    BY <2>1 DEF Eligible
  <2> QED
    BY <2>2, AtomsAreFinite, FS_Subset
<1>6. /\ leg \in Seq(matching) /\ Len(leg) <= LEG_LIMIT /\ ToSet(leg) \subseteq matching
      /\ ~(Len(leg) < Cardinality(matching)) => ToSet(leg) = matching
  BY <1>5, RankingOf
<1>7. leg \in Seq(AtomIds)
  BY <1>5, <1>6
<1>8. /\ search'.pc = "fetch" /\ search'.for = search.for /\ search'.keyword = leg
      /\ search'.constraints = search.constraints /\ search'.vector = search.vector
      /\ search'.hits = search.hits /\ search'.cut = (search.cut \/ Len(leg) < Cardinality(matching))
      /\ search'.stable = search.stable /\ search'.binding = search.binding
      /\ search'.hidden = search.hidden
  BY <1>1, <1>4 DEF Search
<1>9. search' \in Search
  <2>1. (search.cut \/ Len(leg) < Cardinality(matching)) \in BOOLEAN
    OBVIOUS
  <2> QED
    BY <1>1, <1>4, <1>7, <2>1 DEF Search
<1>10. SearchTypeOK'
  BY <1>2, <1>3, <1>8, <1>9 DEF SearchTypeOK
<1>11. HistoryHolds'
  BY <1>2, <1>8 DEF SInv, HistoryHolds
<1>12. LegsAreEligible'
  <2>1. search.hidden \cap matching = {}
    BY <1>2 DEF SInv, HistoryHolds, Eligible
  <2> QED
    BY <1>2, <1>6, <1>8, <2>1 DEF SInv, LegsAreEligible
<1>13. LegsAreComplete'
  <2>1. ~search.for.embedded => search.stable \subseteq matching
    BY <1>2 DEF SInv, HistoryHolds, Findable, Eligible
  <2> QED
    BY <1>2, <1>6, <1>8, <2>1 DEF SInv, LegsAreComplete
<1>14. BundleHasConstraints'
  BY <1>2, <1>8 DEF SInv, BundleHasConstraints
<1>15. StableAtomsAreFound' /\ DeprecatedStayHidden'
  BY <1>8 DEF StableAtomsAreFound, DeprecatedStayHidden
<1> QED
  BY <1>10, <1>11, <1>12, <1>13, <1>14, <1>15 DEF SInv

\* What the last query does to a search: the hits are the rows, as they are now,
\* of the top ids that still have one.
LEMMA FetchedRows ==
    ASSUME IInv, SInv, NEW sorted \in Sorted(Scored, Before),
           NEW found \in Sorted(Top(sorted) \cap live, Ahead),
           search.pc = "fetch",
           search' = [search EXCEPT !.pc = "done", !.hits = [n \in DOMAIN found |-> Hit(found[n])]]
    PROVE  /\ search' \in Search
           /\ search'.pc = "done" /\ search'.for = search.for
           /\ search'.hits = [n \in DOMAIN found |-> Hit(found[n])]
           /\ search'.constraints = search.constraints /\ search'.cut = search.cut
           /\ search'.vector = search.vector /\ search'.keyword = search.keyword
           /\ search'.stable = search.stable /\ search'.binding = search.binding
           /\ search'.hidden = search.hidden
           /\ Top(sorted) \subseteq Scored /\ Scored \subseteq AtomIds
           /\ found \in Seq(Top(sorted) \cap live) /\ ToSet(found) = Top(sorted) \cap live
           /\ Len(found) <= search.for.limit
           /\ Cardinality(Scored) <= search.for.limit => Top(sorted) = Scored
<1>1. search # NoSearch /\ SearchTypeOK
  BY DEF NoSearch, SInv
<1>2. /\ search \in Search /\ search.for.limit \in Nat
      /\ ToSet(search.vector) \subseteq AtomIds /\ ToSet(search.keyword) \subseteq AtomIds
  BY <1>1, SearchFields
<1>3. Scored \subseteq AtomIds /\ IsFiniteSet(Scored)
  <2>1. Scored \subseteq AtomIds
    BY <1>2 DEF Scored
  <2> QED
    BY <2>1, AtomsAreFinite, FS_Subset
<1>4. sorted \in [1 .. Cardinality(Scored) -> Scored] /\ \A x \in Scored : \E n \in DOMAIN sorted : sorted[n] = x
  BY DEF Sorted
<1>5. /\ Top(sorted) \subseteq Scored /\ IsFiniteSet(Top(sorted))
      /\ Cardinality(Top(sorted)) <= search.for.limit
      /\ Cardinality(Scored) <= search.for.limit => Top(sorted) = Scored
  BY <1>2, <1>3, <1>4, TopOf
<1> DEFINE S == Top(sorted) \cap live
<1>6. IsFiniteSet(S) /\ Cardinality(S) \in Nat /\ Cardinality(S) <= search.for.limit
  <2>1. IsFiniteSet(S) /\ Cardinality(S) <= Cardinality(Top(sorted))
    BY <1>5, FS_Subset
  <2>2. Cardinality(S) \in Nat /\ Cardinality(Top(sorted)) \in Nat
    BY <1>5, <2>1, FS_CardinalityType
  <2> QED
    BY <1>2, <1>5, <2>1, <2>2
<1>7. found \in [1 .. Cardinality(S) -> S] /\ \A x \in S : \E n \in DOMAIN found : found[n] = x
  BY DEF Sorted
<1>8. found \in Seq(S) /\ Len(found) = Cardinality(S) /\ ToSet(found) = S
  <2> HIDE DEF S
  <2> QED
    BY <1>6, <1>7, ListingOf
<1> DEFINE hits == [n \in DOMAIN found |-> Hit(found[n])]
<1>9. hits \in Seq([atom : AtomIds, status : Statuses, hash : Hashes])
  <2>1. \A i \in S : Hit(i) \in [atom : AtomIds, status : Statuses, hash : Hashes]
    BY <1>3, <1>5 DEF Hit, IInv, TypeOK, AtomRow
  <2>2. hits \in [1 .. Cardinality(S) -> [atom : AtomIds, status : Statuses, hash : Hashes]]
    BY <1>7, <2>1
  <2> HIDE DEF S
  <2> QED
    BY <1>6, <2>2, ListIn
<1>10. search' \in Search
  BY <1>2, <1>9 DEF Search
<1>11. /\ search'.pc = "done" /\ search'.for = search.for /\ search'.hits = hits
       /\ search'.constraints = search.constraints /\ search'.cut = search.cut
       /\ search'.vector = search.vector /\ search'.keyword = search.keyword
       /\ search'.stable = search.stable /\ search'.binding = search.binding
       /\ search'.hidden = search.hidden
  BY <1>2 DEF Search
<1> QED
  BY <1>3, <1>5, <1>6, <1>8, <1>10, <1>11

\* The answer lists what both the legs found and the last query still sees.
LEMMA FetchRowsStep ==
    ASSUME IInv, SInv, FetchRows
    PROVE  SInv'
<1>1. PICK sorted \in Sorted(Scored, Before) : \E found \in Sorted(Top(sorted) \cap live, Ahead) :
          search' = [search EXCEPT !.pc = "done", !.hits = [n \in DOMAIN found |-> Hit(found[n])]]
  BY DEF FetchRows
<1>2. PICK found \in Sorted(Top(sorted) \cap live, Ahead) :
          search' = [search EXCEPT !.pc = "done", !.hits = [n \in DOMAIN found |-> Hit(found[n])]]
  BY <1>1
<1>3. search.pc = "fetch" /\ search # NoSearch /\ UNCHANGED <<live, row>>
  BY DEF FetchRows, NoSearch, vars
<1>4. /\ search' \in Search
      /\ search'.pc = "done" /\ search'.for = search.for
      /\ search'.hits = [n \in DOMAIN found |-> Hit(found[n])]
      /\ search'.constraints = search.constraints /\ search'.cut = search.cut
      /\ search'.vector = search.vector /\ search'.keyword = search.keyword
      /\ search'.stable = search.stable /\ search'.binding = search.binding
      /\ search'.hidden = search.hidden
  BY <1>2, <1>3, FetchedRows
<1>5. /\ Top(sorted) \subseteq Scored
      /\ found \in Seq(Top(sorted) \cap live) /\ ToSet(found) = Top(sorted) \cap live
      /\ Len(found) <= search.for.limit
      /\ Cardinality(Scored) <= search.for.limit => Top(sorted) = Scored
  BY <1>2, <1>3, FetchedRows
<1>6. search.for.limit \in Nat /\ search.for.embedded \in BOOLEAN
  BY <1>3, SearchFields DEF SInv
<1>7. Returned' = Top(sorted) \cap live
  <2>1. Returned' = {search'.hits[n].atom : n \in DOMAIN search'.hits}
    BY DEF Returned
  <2>2. \A i : Hit(i).atom = i
    BY DEF Hit
  <2>3. Returned' = ToSet(found)
    BY <1>4, <2>1, <2>2 DEF ToSet
  <2> QED
    BY <1>5, <2>3
<1>8. SearchTypeOK'
  <2>1. Len(search'.hits) = Len(found)
    BY <1>4, <1>5
  <2> QED
    BY <1>4, <1>5, <2>1 DEF SearchTypeOK
<1>9. HistoryHolds'
  BY <1>3, <1>4 DEF SInv, HistoryHolds
<1>10. LegsAreEligible'
  BY <1>3, <1>4 DEF SInv, LegsAreEligible
<1>11. LegsAreComplete' /\ BundleHasConstraints'
  BY <1>3, <1>4 DEF SInv, LegsAreComplete, BundleHasConstraints
<1>12. StableAtomsAreFound'
  <2>1. SUFFICES ASSUME NothingCut' PROVE search'.stable \subseteq Returned'
    BY DEF StableAtomsAreFound
  <2>2. ~search.cut /\ Cardinality(Scored) <= search.for.limit
    BY <1>4, <2>1 DEF NothingCut, Scored
  <2>3. search.stable \subseteq Scored
    BY <1>3, <1>6, <2>2 DEF SInv, LegsAreComplete, Scored
  <2>4. search.stable \subseteq live
    BY <1>3 DEF SInv, HistoryHolds, Findable
  <2> QED
    BY <1>4, <1>5, <1>7, <2>2, <2>3, <2>4
<1>13. DeprecatedStayHidden'
  <2>1. search.hidden \cap (Scored \cup search.constraints) = {}
    BY <1>3 DEF SInv, LegsAreEligible, Scored
  <2> QED
    BY <1>4, <1>5, <1>7, <2>1 DEF DeprecatedStayHidden
<1> QED
  BY <1>8, <1>9, <1>10, <1>11, <1>12, <1>13 DEF SInv

\* A step of the worker or of an operator leaves the search where it is, and the
\* history what it still holds.
LEMMA ObserveStep ==
    ASSUME IInv', SInv, search.pc # "done", Observe
    PROVE  SInv'
<1>1. CASE search = NoSearch
  <2>1. search' = NoSearch /\ search'.pc = "idle"
    BY <1>1 DEF Observe, NoSearch
  <2> QED
    BY <2>1 DEF SInv, SearchTypeOK, HistoryHolds, LegsAreEligible, LegsAreComplete,
                BundleHasConstraints, StableAtomsAreFound, DeprecatedStayHidden
<1>2. CASE search # NoSearch
  <2>1. search \in Search /\ SearchTypeOK
    BY <1>2, SearchFields DEF SInv
  <2>2. search' = [search EXCEPT
           !.stable = search.stable \cap Findable(search.for, live', row'),
           !.binding = search.binding \cap Constraints(search.for, live', row'),
           !.hidden = {i \in search.hidden : i \in live' /\ row'[i].status = "deprecated"}]
    BY <1>2 DEF Observe
  <2>3. /\ search'.pc = search.pc /\ search'.for = search.for /\ search'.hits = search.hits
        /\ search'.constraints = search.constraints /\ search'.cut = search.cut
        /\ search'.vector = search.vector /\ search'.keyword = search.keyword
        /\ search'.stable = search.stable \cap Findable(search.for, live', row')
        /\ search'.binding = search.binding \cap Constraints(search.for, live', row')
        /\ search'.hidden = {i \in search.hidden : i \in live' /\ row'[i].status = "deprecated"}
    BY <2>1, <2>2 DEF Search
  <2>4. search' \in Search
    BY <2>1, <2>2 DEF Search
  <2>5. /\ search'.stable \subseteq search.stable /\ search'.binding \subseteq search.binding
        /\ search'.hidden \subseteq search.hidden
    BY <2>3
  <2>6. SearchTypeOK'
    BY <1>2, <2>1, <2>3, <2>4 DEF SearchTypeOK
  <2>7. HistoryHolds'
    BY <2>3 DEF HistoryHolds
  <2>8. LegsAreEligible' /\ LegsAreComplete' /\ BundleHasConstraints'
    BY <1>2, <2>3, <2>5 DEF SInv, LegsAreEligible, LegsAreComplete, BundleHasConstraints
  <2>9. StableAtomsAreFound' /\ DeprecatedStayHidden'
    BY <2>3 DEF StableAtomsAreFound, DeprecatedStayHidden
  <2> QED
    BY <2>6, <2>7, <2>8, <2>9 DEF SInv
<1> QED
  BY <1>1, <1>2

\* The invariant of the atoms is kept too: a request changes none of them.
LEMMA SInvStep == IInv /\ SInv /\ [SearchNext]_<<vars, search>> => IInv' /\ SInv'
<1> SUFFICES ASSUME IInv, SInv, [SearchNext]_<<vars, search>> PROVE IInv' /\ SInv'
  OBVIOUS
<1>1. ASSUME SearchStep PROVE [Next]_vars
  BY <1>1 DEF SearchStep, BeginSearch, QueryConstraints, VectorLeg, KeywordLeg, FetchRows
<1>2. IInv'
  BY <1>1, IInvStep DEF SearchNext
<1>3. ASSUME SearchStep PROVE SInv'
  BY <1>3, BeginSearchStep, QueryConstraintsStep, VectorLegStep, KeywordLegStep, FetchRowsStep
     DEF SearchStep
<1>4. ASSUME search.pc # "done", Observe PROVE SInv'
  BY <1>2, <1>4, ObserveStep
<1>5. ASSUME UNCHANGED <<vars, search>> PROVE SInv'
  BY <1>5 DEF vars, SInv, SearchTypeOK, HistoryHolds, LegsAreEligible, LegsAreComplete,
     BundleHasConstraints, StableAtomsAreFound, DeprecatedStayHidden, NothingCut, Scored, Returned
<1> QED
  BY <1>2, <1>3, <1>4, <1>5 DEF SearchNext

\* Both invariants hold in every reachable state.
LEMMA SInvAlways == SearchSpec => [](IInv /\ SInv)
<1>1. SearchInit => IInv /\ SInv
  BY IInvInit, SInvInit DEF SearchInit
<1> QED
  BY <1>1, SInvStep, PTL DEF SearchSpec

-----------------------------------------------------------------------------
(* The theorems *)

\* A search is always in one of its states, and its answer is no longer than the
\* request asked for, the sum of what two legs found included (search.py, line 69).
THEOREM SearchTypeCorrect == SearchSpec => []SearchTypeOK
<1>1. IInv /\ SInv => SearchTypeOK
  BY DEF SInv
<1> QED
  BY <1>1, SInvAlways, PTL

\* An atom that could be found in every state since the request began is in the
\* answer, unless a leg or the answer was cut: replacements and decisions that
\* commit between the queries lose nothing (search.py, lines 26-73).
THEOREM StableFound == SearchSpec => []StableAtomsAreFound
<1>1. IInv /\ SInv => StableAtomsAreFound
  BY DEF SInv
<1> QED
  BY <1>1, SInvAlways, PTL

\* An atom that was deprecated in every such state is neither among the hits nor
\* among the constraints (search.py, lines 38 and 54; context.py, lines 106-111).
THEOREM DeprecatedHidden == SearchSpec => []DeprecatedStayHidden
<1>1. IInv /\ SInv => DeprecatedStayHidden
  BY DEF SInv
<1> QED
  BY <1>1, SInvAlways, PTL

\* A context bundle has every constraint that was in force in every such state, or
\* as many as it may have (context.py, lines 103-112).
THEOREM ConstraintsIncluded == SearchSpec => []ConstraintsAreIncluded
<1>1. IInv /\ SInv => ConstraintsAreIncluded
  BY DEF SInv, BundleHasConstraints, ConstraintsAreIncluded, NoSearch
<1> QED
  BY <1>1, SInvAlways, PTL

\* The answer is sorted when it is built, and is never touched again.
LEMMA AgreementStep ==
    ASSUME DampingSuffices, IInv, SInv, AgreementFirst, [SearchNext]_<<vars, search>>
    PROVE  AgreementFirst'
<1>1. CASE FetchRows
  <2>1. PICK sorted \in Sorted(Scored, Before) : \E found \in Sorted(Top(sorted) \cap live, Ahead) :
            search' = [search EXCEPT !.pc = "done", !.hits = [n \in DOMAIN found |-> Hit(found[n])]]
    BY <1>1 DEF FetchRows
  <2>2. PICK found \in Sorted(Top(sorted) \cap live, Ahead) :
            search' = [search EXCEPT !.pc = "done", !.hits = [n \in DOMAIN found |-> Hit(found[n])]]
    BY <2>1
  <2>3. search.pc = "fetch" /\ search # NoSearch
    BY <1>1 DEF FetchRows, NoSearch
  <2>4. /\ search'.for = search.for
        /\ search'.hits = [n \in DOMAIN found |-> Hit(found[n])]
        /\ search'.vector = search.vector /\ search'.keyword = search.keyword
        /\ Top(sorted) \subseteq Scored
        /\ found \in Seq(Top(sorted) \cap live)
    BY <2>2, <2>3, FetchedRows
  <2> DEFINE both == ToSet(search.vector) \cap ToSet(search.keyword)
  <2> SUFFICES ASSUME NEW m \in DOMAIN found, NEW n \in DOMAIN found,
                      found[m] \in both, found[n] \notin both,
                      search.for.context => (Confirmed(found[m]) <=> Confirmed(found[n]))
               PROVE  m < n
    BY <2>4 DEF AgreementFirst, Hit, Confirmed
  <2>5. DOMAIN found \subseteq Nat
    BY <2>4
  <2>6. \A a, b \in DOMAIN found : a < b => Ahead(found[a], found[b])
    BY DEF Sorted
  <2>7. ~Before(found[n], found[m])
    <3>1. found[n] \in Scored
      BY <2>4
    <3>2. /\ search.vector \in Seq(AtomIds) /\ search.keyword \in Seq(AtomIds)
          /\ Len(search.vector) <= LEG_LIMIT /\ Len(search.keyword) <= LEG_LIMIT
      BY <2>3, SearchFields DEF SInv, LegsAreEligible
    <3> QED
      BY <3>1, <3>2, AgreementIsBefore
  <2>8. ~Ahead(found[n], found[m])
    BY <2>7 DEF Ahead
  <2>9. m # n
    OBVIOUS
  <2> QED
    BY <2>5, <2>6, <2>8, <2>9
<1>2. CASE search'.pc # "done"
  BY <1>2 DEF AgreementFirst
<1>3. CASE UNCHANGED <<vars, search>>
  BY <1>3 DEF AgreementFirst
<1>4. ASSUME SearchNext, ~FetchRows PROVE search'.pc # "done"
  <2>1. search \in Search \/ search = NoSearch
    BY DEF SInv, SearchTypeOK
  <2>2. ASSUME NEW q \in Requests, BeginSearch(q) PROVE search'.pc # "done"
    BY <2>2 DEF BeginSearch, FirstLeg
  <2>3. ASSUME QueryConstraints \/ VectorLeg \/ KeywordLeg PROVE search'.pc # "done"
    BY <2>1, <2>3 DEF QueryConstraints, VectorLeg, KeywordLeg, FirstLeg, Search, NoSearch
  <2>4. ASSUME search.pc # "done", Observe PROVE search'.pc # "done"
    BY <2>1, <2>4 DEF Observe, Search, NoSearch
  <2> QED
    BY <1>4, <2>2, <2>3, <2>4 DEF SearchNext, SearchStep
<1> QED
  BY <1>1, <1>2, <1>3, <1>4

\* When the damping constant suffices, what both legs found is listed before what
\* one of them found, in a bundle among atoms of the same standing (search.py,
\* lines 60-69; context.py, lines 116-118).
THEOREM AgreementComesFirst ==
    ASSUME DampingSuffices
    PROVE  SearchSpec => []AgreementFirst
<1>1. SearchInit => AgreementFirst
  BY DEF SearchInit, NoSearch, AgreementFirst
<1>2. IInv /\ SInv /\ AgreementFirst /\ [SearchNext]_<<vars, search>> => AgreementFirst'
  BY AgreementStep
<1> QED
  BY <1>1, <1>2, SInvAlways, PTL DEF SearchSpec

-----------------------------------------------------------------------------
(* An order lists a finite set in one way *)

\* R orders S: strictly, and totally.
Orders(R, S) ==
    /\ \A x \in S : <<x, x>> \notin R
    /\ \A x, y, z \in S : <<x, y>> \in R /\ <<y, z>> \in R => <<x, z>> \in R
    /\ \A x, y \in S : x # y => <<x, y>> \in R \/ <<y, x>> \in R

\* The elements of S that R puts before x.
Below(R, S, x) == {y \in S : <<y, x>> \in R}

\* The listings of S in the order R.
Listings(R, S) ==
    {list \in [1 .. Cardinality(S) -> S] :
        /\ \A x \in S : \E n \in DOMAIN list : list[n] = x
        /\ \A m, n \in DOMAIN list : m < n => <<list[m], list[n]>> \in R}

\* The number of elements before one tells it from the others.
LEMMA BelowCounts ==
    ASSUME NEW S, IsFiniteSet(S), NEW R, Orders(R, S)
    PROVE  /\ \A x \in S : IsFiniteSet(Below(R, S, x)) /\ Cardinality(Below(R, S, x)) \in 0 .. Cardinality(S) - 1
           /\ \A x, y \in S : <<x, y>> \in R => Cardinality(Below(R, S, x)) < Cardinality(Below(R, S, y))
<1>1. \A x \in S : IsFiniteSet(Below(R, S, x)) /\ Cardinality(Below(R, S, x)) \in Nat
  BY FS_Subset, FS_CardinalityType DEF Below
<1>2. Cardinality(S) \in Nat
  BY FS_CardinalityType
<1>3. ASSUME NEW x \in S PROVE Cardinality(Below(R, S, x)) < Cardinality(S)
  <2>1. x \notin Below(R, S, x) /\ Below(R, S, x) \subseteq S
    BY DEF Below, Orders
  <2>2. Cardinality(Below(R, S, x)) <= Cardinality(S) /\ Cardinality(S) # Cardinality(Below(R, S, x))
    BY <2>1, FS_Subset
  <2> QED
    BY <1>1, <1>2, <2>2
<1>4. ASSUME NEW x \in S, NEW y \in S, <<x, y>> \in R
      PROVE  Cardinality(Below(R, S, x)) < Cardinality(Below(R, S, y))
  <2>1. Below(R, S, x) \subseteq Below(R, S, y)
    BY <1>4 DEF Below, Orders
  <2>2. x \in Below(R, S, y) /\ x \notin Below(R, S, x)
    BY <1>4 DEF Below, Orders
  <2>3. IsFiniteSet(Below(R, S, y)) /\ Cardinality(Below(R, S, y)) \in Nat /\ Cardinality(Below(R, S, x)) \in Nat
    BY <1>1
  <2>4. /\ Cardinality(Below(R, S, x)) <= Cardinality(Below(R, S, y))
        /\ Cardinality(Below(R, S, y)) # Cardinality(Below(R, S, x))
    BY <2>1, <2>2, <2>3, FS_Subset
  <2> QED
    BY <2>3, <2>4
<1> QED
  BY <1>1, <1>2, <1>3, <1>4

\* In a listing, the n-th element has n - 1 before it.
LEMMA PlaceInListing ==
    ASSUME NEW S, IsFiniteSet(S), NEW R, Orders(R, S), NEW list \in Listings(R, S),
           NEW n \in 1 .. Cardinality(S)
    PROVE  Cardinality(Below(R, S, list[n])) = n - 1
<1>1. list \in [1 .. Cardinality(S) -> S] /\ \A x \in S : \E k \in DOMAIN list : list[k] = x
  BY DEF Listings
<1>2. Cardinality(S) \in Nat /\ IsInjective(list)
  BY <1>1, ListingOf
<1>3. Below(R, S, list[n]) = {list[m] : m \in 1 .. n - 1}
  <2>1. ASSUME NEW m \in 1 .. n - 1 PROVE list[m] \in Below(R, S, list[n])
    BY <1>1, <1>2, <2>1 DEF Listings, Below
  <2>2. ASSUME NEW y \in Below(R, S, list[n]) PROVE \E m \in 1 .. n - 1 : list[m] = y
    <3>1. y \in S /\ <<y, list[n]>> \in R
      BY DEF Below
    <3>2. PICK m \in 1 .. Cardinality(S) : list[m] = y
      BY <1>1, <3>1
    <3>3. list[n] \in S /\ <<list[n], y>> \notin R /\ y # list[n]
      BY <1>1, <3>1 DEF Orders
    <3>4. ~(n < m) /\ m # n
      BY <1>1, <3>2, <3>3 DEF Listings
    <3> QED
      BY <1>2, <3>2, <3>4
  <2> QED
    BY <2>1, <2>2
<1> DEFINE f == [m \in 1 .. n - 1 |-> list[m]]
<1>4. f \in Surjection(1 .. n - 1, Below(R, S, list[n]))
  BY <1>3 DEF Surjection
<1>5. f \in Injection(1 .. n - 1, Below(R, S, list[n]))
  <2>1. \A a, b \in 1 .. n - 1 : f[a] = f[b] => a = b
    BY <1>1, <1>2 DEF IsInjective
  <2>2. f \in [1 .. n - 1 -> Below(R, S, list[n])]
    BY <1>4 DEF Surjection
  <2> QED
    BY <2>1, <2>2 DEF Injection, IsInjective
<1>6. IsFiniteSet(1 .. n - 1) /\ Cardinality(1 .. n - 1) = n - 1
  <2>1. n - 1 \in Nat
    OBVIOUS
  <2> QED
    BY <2>1, UpTo
<1> QED
  BY <1>4, <1>5, <1>6, FS_Surjection

\* So there is one listing: it puts each element after as many as are before it.
LEMMA OneListing ==
    ASSUME NEW S, IsFiniteSet(S), NEW R, Orders(R, S)
    PROVE  \E list : Listings(R, S) = {list}
<1> DEFINE size == Cardinality(S)
           place == [x \in S |-> Cardinality(Below(R, S, x)) + 1]
<1>1. size \in Nat /\ IsFiniteSet(1 .. size) /\ Cardinality(1 .. size) = size
  BY FS_CardinalityType, UpTo
<1>2. place \in [S -> 1 .. size]
  BY <1>1, BelowCounts
<1>3. \A x, y \in S : <<x, y>> \in R => place[x] < place[y]
  BY <1>1, BelowCounts
<1>4. \A x, y \in S : place[x] = place[y] => x = y
  <2> HIDE DEF size, place
  <2> SUFFICES ASSUME NEW x \in S, NEW y \in S, place[x] = place[y], x # y PROVE FALSE
    OBVIOUS
  <2>1. place[x] < place[y] \/ place[y] < place[x]
    BY <1>3 DEF Orders
  <2>2. place[x] \in Int /\ place[y] \in Int
    BY <1>2
  <2> QED
    BY <2>1, <2>2
<1>5. \A n \in 1 .. size : \E x \in S : place[x] = n
  <2> HIDE DEF place
  <2>1. place \in Injection(S, 1 .. size)
    BY <1>2, <1>4 DEF Injection, IsInjective
  <2>2. place \in Surjection(S, 1 .. size)
    BY <1>1, <2>1, FS_Injection
  <2> QED
    BY <2>2 DEF Surjection
<1> DEFINE list == [n \in 1 .. size |-> CHOOSE x \in S : place[x] = n]
<1> HIDE DEF place
<1>6. \A n \in 1 .. size : list[n] \in S /\ place[list[n]] = n
  BY <1>5
<1>7. list \in Listings(R, S)
  <2>1. list \in [1 .. size -> S] /\ DOMAIN list = 1 .. size
    BY <1>6
  <2>2. \A x \in S : list[place[x]] = x
    BY <1>2, <1>4, <1>6
  <2>3. \A x \in S : \E n \in 1 .. size : list[n] = x
    BY <1>2, <2>2
  <2>4. ASSUME NEW m \in 1 .. size, NEW n \in 1 .. size, m < n PROVE <<list[m], list[n]>> \in R
    <3> HIDE DEF list
    <3>1. list[m] \in S /\ list[n] \in S /\ list[m] # list[n]
      BY <1>6, <2>4
    <3>2. <<list[n], list[m]>> \notin R
      BY <1>3, <1>6, <2>4, <3>1
    <3> QED
      BY <3>1, <3>2 DEF Orders
  <2> HIDE DEF list
  <2> QED
    BY <2>1, <2>3, <2>4 DEF Listings
<1>8. ASSUME NEW other \in Listings(R, S) PROVE other = list
  <2> HIDE DEF list
  <2>1. other \in [1 .. size -> S]
    BY DEF Listings
  <2>2. ASSUME NEW n \in 1 .. size PROVE other[n] = list[n]
    <3>1. Cardinality(Below(R, S, other[n])) = n - 1 /\ other[n] \in S
      BY <2>1, PlaceInListing
    <3>2. place[other[n]] = n
      BY <3>1 DEF place
    <3> QED
      BY <1>4, <1>6, <3>1, <3>2
  <2>3. list \in [1 .. size -> S]
    BY <1>7 DEF Listings
  <2>4. \A n \in 1 .. size : other[n] = list[n]
    BY <2>2
  <2> DEFINE places == 1 .. size
  <2> HIDE DEF places
  <2>5. other \in [places -> S] /\ list \in [places -> S] /\ \A n \in places : other[n] = list[n]
    BY <2>1, <2>3, <2>4 DEF places
  <2> QED
    BY <2>5, SameFunction
<1> QED
  BY <1>7, <1>8

-----------------------------------------------------------------------------
(* The orders of an answer *)

\* Multiplying by a positive number keeps an order, and dividing by it.
LEMMA Products ==
    ASSUME NEW x \in Nat, NEW y \in Nat, NEW z \in Nat \ {0}
    PROVE  /\ x <= y => x * z <= y * z
           /\ x * z <= y * z => x <= y
<1>1. ASSUME x <= y PROVE x * z <= y * z
  BY <1>1
<1>2. ASSUME y < x PROVE y * z < x * z
  BY <1>2
<1>3. x * z \in Nat /\ y * z \in Nat
  OBVIOUS
<1> QED
  BY <1>1, <1>2, <1>3

\* Of three fractions, the first is at most the last when each is at most the next.
LEMMA Fractions ==
    ASSUME NEW a \in Nat, NEW c \in Nat, NEW e \in Nat,
           NEW b \in Nat \ {0}, NEW d \in Nat \ {0}, NEW f \in Nat \ {0},
           a * d <= c * b, c * f <= e * d
    PROVE  a * f <= e * b
<1>1. a * d \in Nat /\ c * b \in Nat /\ c * f \in Nat /\ e * d \in Nat /\ a * f \in Nat /\ e * b \in Nat
  OBVIOUS
<1>2. (a * d) * f <= (c * b) * f /\ (c * f) * b <= (e * d) * b
  BY <1>1, Products
<1>3. (a * d) * f = (a * f) * d /\ (c * b) * f = (c * f) * b /\ (e * d) * b = (e * b) * d
  OBVIOUS
<1>4. (a * f) * d \in Nat /\ (c * f) * b \in Nat /\ (e * b) * d \in Nat
  BY <1>1
<1>5. (a * f) * d <= (e * b) * d
  BY <1>2, <1>3, <1>4
<1> QED
  BY <1>1, <1>5, Products

\* A score is a fraction.
LEMMA ScoreIsFraction ==
    ASSUME NEW a \in Nat, NEW b \in Nat, a # 0 \/ b # 0
    PROVE  Score(a, b).num \in Nat /\ Score(a, b).den \in Nat \ {0}
<1>1. Damped(a) \in Nat /\ Damped(b) \in Nat /\ Damped(a + b) \in Nat \ {0}
  BY FusionAssumption DEF Damped
<1>2. CASE a # 0 /\ b # 0
  <2>1. Damped(a) \in Nat \ {0} /\ Damped(b) \in Nat \ {0}
    BY <1>2, FusionAssumption DEF Damped
  <2>2. Damped(a) * Damped(b) \in Nat \ {0}
    BY <2>1
  <2> QED
    BY <1>1, <1>2, <2>2 DEF Score
<1>3. CASE ~(a # 0 /\ b # 0)
  BY <1>1, <1>3 DEF Score
<1> QED
  BY <1>2, <1>3

\* The legs of a search in progress.
LegsAreRanked ==
    /\ search.vector \in Seq(AtomIds) /\ Len(search.vector) <= LEG_LIMIT
    /\ search.keyword \in Seq(AtomIds) /\ Len(search.keyword) <= LEG_LIMIT

\* Scores order the atoms found, up to those with the same score.
LEMMA ScoresOrder ==
    ASSUME LegsAreRanked, NEW i \in Scored, NEW j \in Scored, NEW k \in Scored
    PROVE  /\ Exceeds(ScoreOf(i), ScoreOf(j)) => ~Exceeds(ScoreOf(j), ScoreOf(i))
           /\ ~Exceeds(ScoreOf(i), ScoreOf(j)) /\ ~Exceeds(ScoreOf(j), ScoreOf(k)) => ~Exceeds(ScoreOf(i), ScoreOf(k))
<1>1. \A x \in Scored : ScoreOf(x).num \in Nat /\ ScoreOf(x).den \in Nat \ {0}
  <2> SUFFICES ASSUME NEW x \in Scored PROVE ScoreOf(x).num \in Nat /\ ScoreOf(x).den \in Nat \ {0}
    OBVIOUS
  <2>1. /\ Rank(search.vector, x) \in 0 .. LEG_LIMIT /\ Rank(search.keyword, x) \in 0 .. LEG_LIMIT
        /\ Rank(search.vector, x) # 0 \/ Rank(search.keyword, x) # 0
    BY RankIs, FusionAssumption DEF LegsAreRanked, Scored
  <2> QED
    BY <2>1, ScoreIsFraction DEF ScoreOf
<1>2. \A x, y \in Scored : /\ ScoreOf(x).num * ScoreOf(y).den \in Nat
                           /\ Exceeds(ScoreOf(x), ScoreOf(y)) <=>
                                 ScoreOf(x).num * ScoreOf(y).den > ScoreOf(y).num * ScoreOf(x).den
  BY <1>1 DEF Exceeds
<1>3. \A x, y \in Scored : ~Exceeds(ScoreOf(x), ScoreOf(y)) <=>
                              ScoreOf(x).num * ScoreOf(y).den <= ScoreOf(y).num * ScoreOf(x).den
  BY <1>2
<1>4. Exceeds(ScoreOf(i), ScoreOf(j)) => ~Exceeds(ScoreOf(j), ScoreOf(i))
  BY <1>2
<1>5. ASSUME ~Exceeds(ScoreOf(i), ScoreOf(j)), ~Exceeds(ScoreOf(j), ScoreOf(k))
      PROVE  ~Exceeds(ScoreOf(i), ScoreOf(k))
  <2>1. /\ ScoreOf(i).num * ScoreOf(j).den <= ScoreOf(j).num * ScoreOf(i).den
        /\ ScoreOf(j).num * ScoreOf(k).den <= ScoreOf(k).num * ScoreOf(j).den
    BY <1>3, <1>5
  <2>2. ScoreOf(i).num * ScoreOf(k).den <= ScoreOf(k).num * ScoreOf(i).den
    BY <1>1, <2>1, Fractions
  <2> QED
    BY <1>3, <2>2
<1> QED
  BY <1>4, <1>5

\* What two sequences joined have at which place.
LEMMA Joined ==
    ASSUME NEW T, NEW a \in Seq(T), NEW b \in Seq(T)
    PROVE  /\ a \o b \in Seq(T)
           /\ \A n \in 1 .. Len(a) : n \in 1 .. Len(a \o b) /\ (a \o b)[n] = a[n]
           /\ \A n \in 1 .. Len(b) : Len(a) + n \in 1 .. Len(a \o b) /\ (a \o b)[Len(a) + n] = b[n]
  BY ConcatProperties

\* Every atom found was inserted in the dict at a place of its own.
LEMMA InsertedOnce ==
    ASSUME LegsAreRanked, NEW i \in Scored, NEW k \in Scored
    PROVE  LET inserted == search.vector \o search.keyword
           IN  /\ Rank(inserted, i) \in Nat
               /\ Rank(inserted, i) = Rank(inserted, k) => i = k
<1> DEFINE inserted == search.vector \o search.keyword
<1>1. /\ inserted \in Seq(AtomIds)
      /\ \A n \in 1 .. Len(search.vector) : n \in 1 .. Len(inserted) /\ inserted[n] = search.vector[n]
      /\ \A n \in 1 .. Len(search.keyword) :
            /\ Len(search.vector) + n \in 1 .. Len(inserted)
            /\ inserted[Len(search.vector) + n] = search.keyword[n]
  <2>1. search.vector \in Seq(AtomIds) /\ search.keyword \in Seq(AtomIds)
    BY DEF LegsAreRanked
  <2> DEFINE a == search.vector  b == search.keyword
  <2> HIDE DEF a, b
  <2>2. a \in Seq(AtomIds) /\ b \in Seq(AtomIds)
    BY <2>1 DEF a, b
  <2>3. /\ a \o b \in Seq(AtomIds)
        /\ \A n \in 1 .. Len(a) : n \in 1 .. Len(a \o b) /\ (a \o b)[n] = a[n]
        /\ \A n \in 1 .. Len(b) : Len(a) + n \in 1 .. Len(a \o b) /\ (a \o b)[Len(a) + n] = b[n]
    BY <2>2, Joined
  <2> QED
    BY <2>3 DEF a, b
<1> HIDE DEF inserted
<1>2. \A x \in Scored : \E n \in 1 .. Len(inserted) : inserted[n] = x
  <2> SUFFICES ASSUME NEW x \in Scored PROVE \E n \in 1 .. Len(inserted) : inserted[n] = x
    OBVIOUS
  <2>1. CASE x \in ToSet(search.vector)
    <3>1. PICK n \in 1 .. Len(search.vector) : search.vector[n] = x
      BY <2>1 DEF ToSet, LegsAreRanked
    <3> QED
      BY <1>1, <3>1
  <2>2. CASE x \in ToSet(search.keyword)
    <3>1. PICK n \in 1 .. Len(search.keyword) : search.keyword[n] = x
      BY <2>2 DEF ToSet, LegsAreRanked
    <3> QED
      BY <1>1, <3>1
  <2> QED
    BY <2>1, <2>2 DEF Scored
<1>3. \A x \in Scored : Rank(inserted, x) \in 1 .. Len(inserted) /\ inserted[Rank(inserted, x)] = x
  BY <1>1, <1>2 DEF Rank, Contains
<1>4. Rank(inserted, i) \in Nat /\ (Rank(inserted, i) = Rank(inserted, k) => i = k)
  BY <1>1, <1>3
<1> QED
  BY <1>4 DEF inserted

\* The sort by score, ties in the order of insertion, is strict and total.
LEMMA BeforeOrders ==
    ASSUME LegsAreRanked, NEW i \in Scored, NEW j \in Scored, NEW k \in Scored
    PROVE  /\ ~Before(i, i)
           /\ Before(i, j) /\ Before(j, k) => Before(i, k)
           /\ i # j => Before(i, j) \/ Before(j, i)
<1> DEFINE E(x, y) == Exceeds(ScoreOf(x), ScoreOf(y))
           rank(x) == Rank(search.vector \o search.keyword, x)
<1>1. \A x, y \in Scored : E(x, y) => ~E(y, x)
  BY ScoresOrder
<1>2. \A x, y, z \in Scored : ~E(x, y) /\ ~E(y, z) => ~E(x, z)
  BY ScoresOrder
<1>3. \A x, y \in Scored : rank(x) \in Nat /\ (rank(x) = rank(y) => x = y)
  BY InsertedOnce
<1>4. \A x, y : Before(x, y) <=> E(x, y) \/ (~E(y, x) /\ rank(x) < rank(y))
  BY DEF Before
<1> HIDE DEF E, rank
<1>5. ~Before(i, i)
  BY <1>1, <1>3, <1>4
<1>6. ASSUME Before(i, j), Before(j, k) PROVE Before(i, k)
  BY <1>1, <1>2, <1>3, <1>4, <1>6
<1>7. ASSUME i # j PROVE Before(i, j) \/ Before(j, i)
  BY <1>1, <1>3, <1>4, <1>7
<1> QED
  BY <1>5, <1>6, <1>7

\* So is the sort of a bundle, confirmed atoms first.
LEMMA AheadOrders ==
    ASSUME LegsAreRanked, NEW i \in Scored, NEW j \in Scored, NEW k \in Scored
    PROVE  /\ ~Ahead(i, i)
           /\ Ahead(i, j) /\ Ahead(j, k) => Ahead(i, k)
           /\ i # j => Ahead(i, j) \/ Ahead(j, i)
  BY BeforeOrders DEF Ahead, Confirmed

\* The last query of a search has one way to answer: the order of the hits is
\* decided by the legs and by the rows it reads.
OneAnswer ==
    search.pc = "fetch" =>
        \E sorted, found : /\ Sorted(Scored, Before) = {sorted}
                           /\ Sorted(Top(sorted) \cap live, Ahead) = {found}

\* Either sort can list a set of atoms found in one way only.
LEMMA OneOrder ==
    ASSUME LegsAreRanked, IsFiniteSet(Scored), NEW S \in SUBSET Scored
    PROVE  /\ \E list : Sorted(S, Before) = {list}
           /\ \E list : Sorted(S, Ahead) = {list}
<1>1. IsFiniteSet(S)
  BY FS_Subset
<1>2. \E list : Sorted(S, Before) = {list}
  <2> DEFINE R == {p \in S \X S : Before(p[1], p[2])}
  <2>1. \A x, y \in S : <<x, y>> \in R <=> Before(x, y)
    OBVIOUS
  <2> HIDE DEF R
  <2>2. Orders(R, S)
    BY <2>1, BeforeOrders DEF Orders
  <2>3. Sorted(S, Before) = Listings(R, S)
    BY <2>1 DEF Sorted, Listings
  <2> QED
    BY <1>1, <2>2, <2>3, OneListing
<1>3. \E list : Sorted(S, Ahead) = {list}
  <2> DEFINE R == {p \in S \X S : Ahead(p[1], p[2])}
  <2>1. \A x, y \in S : <<x, y>> \in R <=> Ahead(x, y)
    OBVIOUS
  <2> HIDE DEF R
  <2>2. Orders(R, S)
    BY <2>1, AheadOrders DEF Orders
  <2>3. Sorted(S, Ahead) = Listings(R, S)
    BY <2>1 DEF Sorted, Listings
  <2> QED
    BY <1>1, <2>2, <2>3, OneListing
<1> QED
  BY <1>2, <1>3

\* A search always answers, and in one way: the sort by score is stable and the
\* ids it sorts were inserted one by one, so ties do not make it a choice
\* (search.py, lines 60-71; context.py, lines 116-118).
THEOREM OneAnswerAlways == SearchSpec => []OneAnswer
<1>1. IInv /\ SInv => OneAnswer
  <2> SUFFICES ASSUME IInv, SInv, search.pc = "fetch"
               PROVE  \E sorted, found : /\ Sorted(Scored, Before) = {sorted}
                                         /\ Sorted(Top(sorted) \cap live, Ahead) = {found}
    BY DEF OneAnswer
  <2>1. search # NoSearch /\ SearchTypeOK
    BY DEF NoSearch, SInv
  <2>2. LegsAreRanked
    BY <2>1, SearchFields DEF SInv, LegsAreEligible, LegsAreRanked
  <2>3. Scored \subseteq AtomIds /\ IsFiniteSet(Scored)
    <3>1. Scored \subseteq AtomIds
      BY <2>1, SearchFields DEF Scored
    <3> QED
      BY <3>1, AtomsAreFinite, FS_Subset
  <2>4. PICK sorted : Sorted(Scored, Before) = {sorted}
    BY <2>2, <2>3, OneOrder
  <2>5. Top(sorted) \subseteq Scored
    <3>1. sorted \in [1 .. Cardinality(Scored) -> Scored]
      BY <2>4 DEF Sorted
    <3> QED
      BY <3>1 DEF Top
  <2>6. PICK found : Sorted(Top(sorted) \cap live, Ahead) = {found}
    BY <2>2, <2>3, <2>5, OneOrder
  <2> QED
    BY <2>4, <2>6
<1> QED
  BY <1>1, SInvAlways, PTL

=============================================================================
