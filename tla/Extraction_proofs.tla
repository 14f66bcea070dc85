--------------------------- MODULE Extraction_proofs --------------------------
(***************************************************************************)
(* What an extraction returns, for sources of any length, any levels, texts *)
(* and limits.                                                              *)
(***************************************************************************)
EXTENDS Extraction, SequenceTheorems, WellFoundedInduction, TLAPS

\* Between two elements the stack holds the headings that enclose the last one.
StackInv ==
    kind = "document" /\ pc = "read" =>
        /\ at <= Len(source) + 1
        /\ EnclosingPath(ancestors, at - 1)

\* While a document is read its atoms come from its headings.
FromInv == kind = "document" /\ pc = "read" /\ source = <<>> => atoms = <<>>

\* The hashes seen are those of the distinct atoms.
SeenInv ==
    /\ seen = {Hash(unique[n]) : n \in DOMAIN unique}
    /\ \A m, n \in DOMAIN unique : Hash(unique[m]) = Hash(unique[n]) => m = n

\* They are the hashes of what has been looked at so far.
LookedAt ==
    IF kind = "model"
    THEN {Hash(Atom(source[n].type, Normal(source[n]), n, <<>>)) :
             n \in {n \in 1 .. at - 1 : Valid(source[n])}}
    ELSE {Hash(atoms[n]) : n \in 1 .. at - 1}

ProgressInv ==
    /\ pc = "unique" => kind # "model" /\ at <= Len(atoms) + 1
    /\ kind = "model" /\ pc = "read" => at <= Len(source) + 1
    /\ pc = "unique" \/ (kind = "model" /\ pc = "read") => seen = LookedAt
    /\ kind # "model" /\ pc = "read" => unique = <<>>

\* Rules extract one summary, and it is never what the limit cuts off.
SummaryLeads ==
    kind # "model" => \A n \in DOMAIN out : out[n].type = "tldr" <=> n = 1

\* A document the model processed has atoms: an answer without one is a failure of
\* the job, not an empty extraction that replaces the atoms of the document.
NeverEmptied == kind = "model" /\ pc = "done" => out # <<>>

\* The summary is the first atom, before and after duplicates are dropped.
LeadInv ==
    kind # "model" =>
        /\ \A n \in DOMAIN atoms : atoms[n].type = "tldr" <=> n = 1
        /\ \A n \in DOMAIN unique : unique[n].type = "tldr" <=> n = 1

OutInv == DistinctAtoms /\ NothingCrowdedOut /\ SummaryLeads /\ NeverEmptied

IInv ==
    /\ TypeOK
    /\ StackInv /\ BreadcrumbEncloses /\ FromInv
    /\ SeenInv /\ ProgressInv /\ LeadInv /\ OutInv

-----------------------------------------------------------------------------
\* A bounded set of numbers that is not empty has a greatest one.
LEMMA GreatestOf ==
    ASSUME NEW L \in Nat, NEW S, S \subseteq 0 .. L, S # {}
    PROVE  \E n \in S : \A m \in S : m <= n
<1> DEFINE R == OpToRel(<, Nat)
           T == {n \in Nat : L - n \in S}
<1>1. IsWellFoundedOn(R, Nat) BY NatLessThanWellFounded, Zenon
<1>2. T \subseteq Nat OBVIOUS
<1>3. T # {}
  <2>1. PICK n \in S : TRUE OBVIOUS
  <2>2. L - n \in T BY <2>1
  <2>. QED BY <2>2
<1>4. PICK x \in T : \A y \in T : ~(<<y, x>> \in R)
  <2> HIDE DEF R, T
  <2>. QED BY <1>1, <1>2, <1>3, WFMin
<1>5. \A y \in T : ~(y < x) BY <1>2, <1>4, Zenon DEF OpToRel
<1>6. \A m \in S : m <= L - x
  <2> TAKE m \in S
  <2>1. m \in Nat /\ L - m \in T OBVIOUS
  <2>2. x \in Nat /\ ~(L - m < x) BY <2>1, <1>2, <1>5
  <2>. QED BY <2>1, <2>2
<1>. QED BY <1>6

\* A cut text is a text.
LEMMA CutText == ASSUME NEW text \in Texts PROVE Cut(text) \in Texts
  BY DEF Cut, Texts

\* The loop over the ancestors ends at one that is less deep, or at none.
LEMMA KeptProperties ==
    ASSUME TypeOK, kind = "document", NEW level \in Levels
    PROVE  /\ Kept(level) \in 0 .. Len(ancestors)
           /\ Kept(level) = 0 \/ source[ancestors[Kept(level)]].level < level
           /\ \A m \in Kept(level) + 1 .. Len(ancestors) : source[ancestors[m]].level >= level
<1> DEFINE S == {n \in 0 .. Len(ancestors) : n = 0 \/ source[ancestors[n]].level < level}
<1>1. ancestors \in Seq(1 .. Len(source)) /\ source \in Seq(Headings) BY DEF TypeOK
<1>2. Len(ancestors) \in Nat BY <1>1, LenProperties
<1>3. \A n \in 1 .. Len(ancestors) : source[ancestors[n]].level \in Nat
  <2> TAKE n \in 1 .. Len(ancestors)
  <2>1. ancestors[n] \in 1 .. Len(source) BY <1>1, ElementOfSeq
  <2>2. source[ancestors[n]] \in Heading BY <1>1, <2>1, ElementOfSeq, ElementsAssumption
  <2>. QED BY <2>2, LevelsAssumption DEF Heading
<1>4. S \subseteq 0 .. Len(ancestors) /\ 0 \in S BY <1>2
<1>5. PICK n \in S : \A m \in S : m <= n
  <2> HIDE DEF S
  <2>. QED BY <1>2, <1>4, GreatestOf
<1>6. \A m \in n + 1 .. Len(ancestors) : source[ancestors[m]].level >= level
  <2> TAKE m \in n + 1 .. Len(ancestors)
  <2>1. m \in 1 .. Len(ancestors) /\ ~(m <= n) BY <1>2
  <2>2. ~(source[ancestors[m]].level < level) BY <1>5, <2>1
  <2>3. source[ancestors[m]].level \in Nat /\ level \in Nat BY <1>3, <2>1, LevelsAssumption
  <2>. QED BY <2>2, <2>3
<1>. QED BY <1>5, <1>6 DEF Kept

\* A heading is entered under the ones that enclose it.
LEMMA PathEncloses ==
    ASSUME TypeOK, kind = "document", at \in 1 .. Len(source),
           EnclosingPath(ancestors, at - 1)
    PROVE  LET path == Append(SubSeq(ancestors, 1, Kept(source[at].level)), at)
           IN  path \in Seq(1 .. Len(source)) /\ EnclosingPath(path, at)
<1> DEFINE level == source[at].level
           K == Kept(level)
           front == SubSeq(ancestors, 1, K)
           path == Append(front, at)
<1>1. ancestors \in Seq(1 .. Len(source)) /\ source \in Seq(Headings) BY DEF TypeOK
<1>2. Len(ancestors) \in Nat /\ Len(source) \in Nat /\ DOMAIN ancestors = 1 .. Len(ancestors)
  BY <1>1, LenProperties
<1>3. \A n \in 1 .. Len(source) : source[n].level \in Levels /\ source[n].level \in Nat
  <2> TAKE n \in 1 .. Len(source)
  <2>1. source[n] \in Heading BY <1>1, ElementOfSeq, ElementsAssumption
  <2>. QED BY <2>1, LevelsAssumption DEF Heading
<1>4. /\ K \in 0 .. Len(ancestors)
      /\ K = 0 \/ source[ancestors[K]].level < level
      /\ \A m \in K + 1 .. Len(ancestors) : source[ancestors[m]].level >= level
  BY <1>3, KeptProperties
<1> HIDE DEF K
<1>5. \A i \in 1 .. Len(ancestors) : ancestors[i] \in 1 .. Len(source)
  BY <1>1, ElementOfSeq
<1>6. /\ front \in Seq(1 .. Len(source)) /\ Len(front) = K
      /\ \A i \in 1 .. K : front[i] = ancestors[i]
  <2>1. \A i \in 1 .. K : ancestors[i] \in 1 .. Len(source) BY <1>2, <1>4, <1>5
  <2>. QED BY <1>2, <1>4, <2>1, SubSeqProperties
<1> HIDE DEF front
<1>7. /\ path \in Seq(1 .. Len(source)) /\ Len(path) = K + 1 /\ DOMAIN path = 1 .. K + 1
      /\ \A i \in 1 .. K : path[i] = ancestors[i]
      /\ path[K + 1] = at
  BY <1>4, <1>6, AppendProperties, LenProperties
<1> HIDE DEF path
<1>8. /\ {ancestors[j] : j \in 1 .. Len(ancestors)} = {m \in 1 .. at - 1 : Encloses(m, at - 1)}
      /\ \A j, k \in 1 .. Len(ancestors) : j < k => ancestors[j] < ancestors[k]
  BY <1>2 DEF EnclosingPath
<1>9. \A j \in 1 .. Len(ancestors) : ancestors[j] \in 1 .. at - 1 /\ Encloses(ancestors[j], at - 1)
  BY <1>8
<1>10. \A j \in 1 .. K : source[ancestors[j]].level < level
  <2> TAKE j \in 1 .. K
  <2>1. CASE j = K BY <1>4, <2>1
  <2>2. CASE j < K
    <3>1. ancestors[j] < ancestors[K] /\ ancestors[K] \in 1 .. at - 1 /\ ancestors[j] \in 1 .. at - 1
      BY <1>4, <1>8, <1>9, <2>2
    <3>2. j \in 1 .. Len(ancestors) /\ ancestors[K] \in ancestors[j] + 1 .. at - 1
      BY <1>2, <1>4, <3>1
    <3>3. source[ancestors[j]].level < source[ancestors[K]].level
      BY <1>9, <3>2 DEF Encloses
    <3>4. source[ancestors[K]].level < level BY <1>4, <2>2
    <3>5. /\ source[ancestors[j]].level \in Nat /\ source[ancestors[K]].level \in Nat
          /\ level \in Nat
      <4>1. ancestors[j] \in 1 .. Len(source) /\ ancestors[K] \in 1 .. Len(source)
        BY <1>2, <3>1
      <4>. QED BY <1>3, <4>1
    <3>. QED BY <3>3, <3>4, <3>5
  <2>. QED BY <1>4, <2>1, <2>2
<1>11. \A m \in 1 .. at - 1 : Encloses(m, at) <=> Encloses(m, at - 1) /\ source[m].level < level
  BY <1>3 DEF Encloses
<1>12. Encloses(at, at) BY DEF Encloses
<1>13. {path[j] : j \in DOMAIN path} = {m \in 1 .. at : Encloses(m, at)}
  <2>1. ASSUME NEW j \in 1 .. K + 1 PROVE path[j] \in 1 .. at /\ Encloses(path[j], at)
    <3>1. CASE j = K + 1 BY <1>7, <1>12, <3>1
    <3>2. CASE j \in 1 .. K
      <4>1. path[j] = ancestors[j] /\ j \in 1 .. Len(ancestors) BY <1>4, <1>7, <3>2
      <4>2. ancestors[j] \in 1 .. at - 1 /\ Encloses(ancestors[j], at) BY <1>9, <1>10, <1>11, <3>2, <4>1
      <4>. QED BY <4>1, <4>2
    <3>. QED BY <1>4, <3>1, <3>2
  <2>2. ASSUME NEW m \in 1 .. at, Encloses(m, at) PROVE \E j \in 1 .. K + 1 : path[j] = m
    <3>1. CASE m = at BY <1>4, <1>7, <3>1
    <3>2. CASE m \in 1 .. at - 1
      <4>1. PICK j \in 1 .. Len(ancestors) : ancestors[j] = m BY <1>8, <1>11, <2>2, <3>2
      <4>2. source[m].level < level BY <1>11, <2>2, <3>2
      <4>3. ~(j \in K + 1 .. Len(ancestors))
        <5>1. source[m].level \in Nat /\ level \in Nat BY <1>3, <3>2
        <5>2. ~(source[m].level >= level) BY <4>2, <5>1
        <5>. QED BY <1>4, <4>1, <5>2
      <4>4. j \in 1 .. K BY <1>2, <1>4, <4>3
      <4>. QED BY <1>4, <1>7, <4>1, <4>4
    <3>. QED BY <3>1, <3>2
  <2>3. DOMAIN path = 1 .. K + 1 BY <1>7
  <2>. QED BY <2>1, <2>2, <2>3
<1>14. \A j, k \in DOMAIN path : j < k => path[j] < path[k]
  <2> SUFFICES ASSUME NEW j \in 1 .. K + 1, NEW k \in 1 .. K + 1, j < k
               PROVE  path[j] < path[k]
    BY <1>7
  <2>1. j \in 1 .. K /\ path[j] = ancestors[j] /\ ancestors[j] \in 1 .. at - 1
    BY <1>4, <1>7, <1>9
  <2>2. CASE k = K + 1 BY <1>7, <2>1, <2>2
  <2>3. CASE k \in 1 .. K
    <3>1. path[k] = ancestors[k] /\ j \in 1 .. Len(ancestors) /\ k \in 1 .. Len(ancestors)
      BY <1>2, <1>4, <1>7, <2>1, <2>3
    <3>. QED BY <1>8, <2>1, <3>1
  <2>. QED BY <1>4, <2>2, <2>3
<1>15. path \in Seq(1 .. Len(source)) /\ EnclosingPath(path, at)
  BY <1>7, <1>13, <1>14 DEF EnclosingPath
<1>. QED BY <1>15 DEF path, front, K

-----------------------------------------------------------------------------
\* Adding an atom keeps the distinct ones distinct, and its hash is seen.
LEMMA AddInv ==
    ASSUME unique \in Seq(AtomSet), SeenInv, NEW atom \in AtomSet, Add(atom)
    PROVE  /\ SeenInv' /\ unique' \in Seq(AtomSet)
           /\ seen' = seen \cup {Hash(atom)}
           /\ seen' = seen => unique' = unique
           /\ seen' # seen => unique' = Append(unique, atom)
           /\ unique' # <<>>
<1>1. Len(unique) \in Nat /\ DOMAIN unique = 1 .. Len(unique) BY LenProperties
<1>2. CASE Hash(atom) \in seen
  <2>1. UNCHANGED <<unique, seen>> BY <1>2 DEF Add
  <2>2. unique # <<>> BY <1>1, <1>2 DEF SeenInv
  <2>. QED BY <1>2, <2>1, <2>2 DEF SeenInv
<1>3. CASE Hash(atom) \notin seen
  <2>1. unique' = Append(unique, atom) /\ seen' = seen \cup {Hash(atom)} BY <1>3 DEF Add
  <2>2. /\ unique' \in Seq(AtomSet) /\ unique' # <<>> /\ Len(unique') = Len(unique) + 1
        /\ \A i \in 1 .. Len(unique) : unique'[i] = unique[i]
        /\ unique'[Len(unique) + 1] = atom
    BY <2>1, AppendProperties
  <2>3. DOMAIN unique' = 1 .. Len(unique) + 1 BY <2>2, LenProperties
  <2>4. \A n \in 1 .. Len(unique) : Hash(unique'[n]) = Hash(unique[n]) /\ Hash(unique[n]) \in seen
    BY <1>1, <2>2 DEF SeenInv
  <2>5. seen' = {Hash(unique'[n]) : n \in DOMAIN unique'}
    <3>1. ASSUME NEW h \in seen PROVE \E n \in DOMAIN unique' : Hash(unique'[n]) = h
      <4>1. PICK n \in 1 .. Len(unique) : Hash(unique[n]) = h BY <1>1, <3>1 DEF SeenInv
      <4>. QED BY <1>1, <2>3, <2>4, <4>1
    <3>2. \E n \in DOMAIN unique' : Hash(unique'[n]) = Hash(atom) BY <1>1, <2>2, <2>3
    <3>3. \A n \in DOMAIN unique' : Hash(unique'[n]) \in seen'
      <4> TAKE n \in DOMAIN unique'
      <4>1. n \in 1 .. Len(unique) \/ n = Len(unique) + 1 BY <1>1, <2>3
      <4>. QED BY <2>1, <2>2, <2>4, <4>1
    <3>4. \A h \in seen' : h \in seen \/ h = Hash(atom) BY <2>1
    <3>5. \A h \in seen' : \E n \in DOMAIN unique' : Hash(unique'[n]) = h BY <3>1, <3>2, <3>4
    <3>. QED BY <3>3, <3>5
  <2>6. ASSUME NEW m \in DOMAIN unique', NEW n \in DOMAIN unique', Hash(unique'[m]) = Hash(unique'[n])
        PROVE  m = n
    <3>1. CASE m \in 1 .. Len(unique) /\ n \in 1 .. Len(unique)
      BY <1>1, <2>4, <2>6, <3>1 DEF SeenInv
    <3>2. CASE m = Len(unique) + 1 /\ n = Len(unique) + 1 BY <3>2
    <3>3. CASE m = Len(unique) + 1 /\ n \in 1 .. Len(unique) BY <1>3, <2>2, <2>4, <2>6, <3>3
    <3>4. CASE n = Len(unique) + 1 /\ m \in 1 .. Len(unique) BY <1>3, <2>2, <2>4, <2>6, <3>4
    <3>. QED BY <1>1, <2>3, <3>1, <3>2, <3>3, <3>4
  <2>7. seen' # seen BY <1>3, <2>1
  <2>. QED BY <2>1, <2>2, <2>5, <2>6, <2>7 DEF SeenInv
<1>. QED BY <1>2, <1>3

\* The atoms returned are the first distinct ones, all of them or as many as fit.
LEMMA FirstOnesProperties ==
    ASSUME unique \in Seq(AtomSet)
    PROVE  /\ FirstOnes \in Seq(AtomSet)
           /\ Len(FirstOnes) <= Limit
           /\ Len(FirstOnes) = Limit \/ Len(FirstOnes) = Len(unique)
           /\ DOMAIN FirstOnes = 1 .. Len(FirstOnes)
           /\ Len(FirstOnes) \in 0 .. Len(unique)
           /\ \A i \in 1 .. Len(FirstOnes) : FirstOnes[i] = unique[i]
<1> DEFINE N == IF Len(unique) < Limit THEN Len(unique) ELSE Limit
<1>1. Len(unique) \in Nat /\ Limit \in Nat BY LenProperties, LimitsAssumption DEF Limit
<1>2. N \in 0 .. Len(unique) /\ N <= Limit /\ (N = Limit \/ N = Len(unique)) BY <1>1
<1> HIDE DEF N
<1>3. \A i \in 1 .. N : unique[i] \in AtomSet
  <2> TAKE i \in 1 .. N
  <2>1. i \in 1 .. Len(unique) BY <1>1, <1>2
  <2>. QED BY <2>1, ElementOfSeq
<1>4. /\ SubSeq(unique, 1, N) \in Seq(AtomSet) /\ Len(SubSeq(unique, 1, N)) = N
      /\ \A i \in 1 .. N : SubSeq(unique, 1, N)[i] = unique[i]
  BY <1>2, <1>3, SubSeqProperties
<1>5. FirstOnes = SubSeq(unique, 1, N) BY DEF FirstOnes, N
<1>6. DOMAIN FirstOnes = 1 .. N BY <1>4, <1>5, LenProperties
<1>. QED BY <1>2, <1>4, <1>5, <1>6

\* Until the atoms are returned, nothing is said of them.
LEMMA OutKept ==
    ASSUME OutInv, UNCHANGED <<kind, out>>, pc' # "done"
    PROVE  OutInv'
  BY DEF OutInv, DistinctAtoms, NothingCrowdedOut, SummaryLeads, NeverEmptied

\* The first distinct atoms are what OutInv asks for, once all has been looked at.
LEMMA Returned ==
    ASSUME IInv, UNCHANGED <<kind, source, atoms, unique, seen>>, out' = FirstOnes,
           seen = Wanted, kind = "model" => unique # <<>>
    PROVE  OutInv' /\ out' \in Seq(AtomSet) /\ Len(out') <= Limit'
<1>1. unique \in Seq(AtomSet) /\ SeenInv /\ LeadInv BY DEF IInv, TypeOK
<1>2. Len(unique) \in Nat /\ DOMAIN unique = 1 .. Len(unique) BY <1>1, LenProperties
<1>3. /\ out' \in Seq(AtomSet) /\ Len(out') <= Limit
      /\ Len(out') = Limit \/ Len(out') = Len(unique)
      /\ DOMAIN out' = 1 .. Len(out') /\ Len(out') \in 0 .. Len(unique)
      /\ \A i \in 1 .. Len(out') : out'[i] = unique[i]
  BY <1>1, FirstOnesProperties
<1>4. Limit' = Limit BY DEF Limit
<1>5. \A i \in DOMAIN out' : out'[i] = unique[i] /\ i \in DOMAIN unique
  <2> TAKE i \in DOMAIN out'
  <2>1. i \in 1 .. Len(out') BY <1>3
  <2>2. i \in 1 .. Len(unique)
    <3> DEFINE a == Len(out')
               b == Len(unique)
    <3>1. i \in 1 .. a /\ a \in 0 .. b /\ b \in Nat BY <1>2, <1>3, <2>1
    <3> HIDE DEF a, b
    <3>2. i \in 1 .. b BY <3>1
    <3>. QED BY <3>2 DEF b
  <2>. QED BY <1>2, <1>3, <2>1, <2>2
<1>6. DistinctAtoms' BY <1>1, <1>5 DEF DistinctAtoms, SeenInv
<1>7. NothingCrowdedOut'
  <2>1. CASE Len(out') = Limit BY <1>4, <2>1 DEF NothingCrowdedOut
  <2>2. CASE Len(out') = Len(unique)
    <3>1. DOMAIN out' = DOMAIN unique BY <1>2, <1>3, <2>2
    <3>2. {Hash(out'[n]) : n \in DOMAIN out'} = {Hash(unique[n]) : n \in DOMAIN unique}
      BY <1>5, <3>1
    <3>3. Wanted' = Wanted BY DEF Wanted
    <3>. QED BY <1>1, <3>2, <3>3 DEF NothingCrowdedOut, SeenInv
  <2>. QED BY <1>3, <2>1, <2>2
<1>8. SummaryLeads' BY <1>1, <1>5 DEF SummaryLeads, LeadInv
<1>9. NeverEmptied'
  <2> SUFFICES ASSUME kind = "model" PROVE out' # <<>>
    BY DEF NeverEmptied
  <2>1. Len(unique) # 0 BY <1>1, EmptySeq
  <2>2. Len(out') # 0 BY <1>3, <2>1, LimitsAssumption DEF Limit
  <2>. QED BY <2>2, EmptySeq
<1>. QED BY <1>3, <1>4, <1>6, <1>7, <1>8, <1>9 DEF OutInv

\* Atoms that are no summaries, behind a summary and others, leave it the only one.
LEMMA BehindSummary ==
    ASSUME NEW s \in Seq(AtomSet), NEW t \in Seq(AtomSet), Len(s) # 0,
           \A n \in 1 .. Len(s) : s[n].type = "tldr" <=> n = 1,
           \A n \in 1 .. Len(t) : t[n].type # "tldr"
    PROVE  /\ s \o t \in Seq(AtomSet) /\ Len(s \o t) \in Nat \ {0}
           /\ \A n \in 1 .. Len(s \o t) : (s \o t)[n].type = "tldr" <=> n = 1
<1>1. /\ s \o t \in Seq(AtomSet) /\ Len(s \o t) = Len(s) + Len(t)
      /\ Len(s) \in Nat /\ Len(t) \in Nat
      /\ \A n \in 1 .. Len(s) + Len(t) : (s \o t)[n] = IF n <= Len(s) THEN s[n] ELSE t[n - Len(s)]
  BY ConcatProperties, LenProperties
<1>2. ASSUME NEW n \in 1 .. Len(s) + Len(t) PROVE (s \o t)[n].type = "tldr" <=> n = 1
  <2>1. CASE n <= Len(s) BY <1>1, <2>1
  <2>2. CASE ~(n <= Len(s))
    <3>1. n - Len(s) \in 1 .. Len(t) /\ n # 1 BY <1>1, <2>2
    <3>. QED BY <1>1, <2>2, <3>1
  <2>. QED BY <2>1, <2>2
<1>. QED BY <1>1, <1>2

-----------------------------------------------------------------------------
LEMMA InitInv == Init => IInv
<1> SUFFICES ASSUME Init PROVE IInv OBVIOUS
<1>1. \A S : <<>> \in Seq(S) /\ Len(<<>>) = 0 /\ DOMAIN <<>> = {} BY EmptySeq
<1>2. ASSUME NEW S, NEW s \in SeqsUpTo(S) PROVE s \in Seq(S) /\ Len(s) \in Nat
  <2>1. PICK n \in 0 .. MaxLength : s \in [1 .. n -> S] BY <1>2 DEF SeqsUpTo
  <2>. QED BY <2>1, LenProperties
<1>3. TypeOK
  <2>1. \/ kind = "document" /\ source \in Seq(Headings)
        \/ kind = "transcript" /\ source \in Seq(Lines)
        \/ kind = "model" /\ source \in Seq(Items)
    BY <1>2 DEF Init
  <2>2. Limit \in Nat BY LimitsAssumption DEF Limit
  <2>. QED BY <1>1, <2>1, <2>2 DEF Init, TypeOK
<1>4. Len(source) \in Nat BY <1>2 DEF Init
<1>5. StackInv BY <1>1, <1>4 DEF Init, StackInv, EnclosingPath
<1>6. BreadcrumbEncloses /\ FromInv /\ SeenInv /\ LeadInv
  BY <1>1 DEF Init, BreadcrumbEncloses, FromInv, SeenInv, LeadInv
<1>7. ProgressInv BY <1>4 DEF Init, ProgressInv, LookedAt
<1>8. OutInv BY <1>1 DEF Init, OutInv, DistinctAtoms, NothingCrowdedOut, SummaryLeads, NeverEmptied
<1>. QED BY <1>3, <1>5, <1>6, <1>7, <1>8 DEF IInv

\* A heading read puts itself on the stack and at most one atom behind the others.
LEMMA ReadHeadingInv == IInv /\ ReadHeading => IInv'
<1> SUFFICES ASSUME IInv, ReadHeading PROVE IInv' OBVIOUS
<1> DEFINE h == source[at]
           path == Append(SubSeq(ancestors, 1, Kept(h.level)), at)
           atom == Atom(FirstType, Cut(h.body), at, path)
<1>1. /\ kind = "document" /\ pc = "read" /\ at \in 1 .. Len(source)
      /\ source \in Seq(Headings) /\ Len(source) \in Nat /\ atoms \in Seq(AtomSet)
  BY LenProperties DEF IInv, TypeOK, ReadHeading
<1>2. path \in Seq(1 .. Len(source)) /\ EnclosingPath(path, at)
  BY <1>1, PathEncloses DEF IInv, StackInv
<1>3. h \in Heading BY <1>1, ElementOfSeq, ElementsAssumption
<1>4. path \in Seq(Nat) BY <1>1, <1>2, SeqMonotonic
<1>5. /\ ancestors' = path /\ at' = at + 1
      /\ UNCHANGED <<kind, source, lead, pc, unique, seen, out>>
      /\ \/ atoms' = atoms
         \/ h.body # NoText /\ atoms' = Append(atoms, atom)
  BY DEF ReadHeading
<1> HIDE DEF path
<1>6. h.body # NoText => atom \in AtomSet BY <1>1, <1>3, <1>4, CutText DEF Heading, Atom, AtomSet, FirstType, Types
<1>7. DOMAIN atoms = 1 .. Len(atoms) /\ Len(atoms) \in Nat BY <1>1, LenProperties
<1>8. atoms' = atoms \/
      /\ atoms' = Append(atoms, atom) /\ atoms' \in Seq(AtomSet)
      /\ DOMAIN atoms' = 1 .. Len(atoms) + 1
      /\ \A i \in 1 .. Len(atoms) : atoms'[i] = atoms[i]
      /\ atoms'[Len(atoms) + 1] = atom
  <2>1. CASE h.body # NoText /\ atoms' = Append(atoms, atom)
    BY <1>1, <1>6, <2>1, AppendProperties, LenProperties
  <2>. QED BY <1>5, <2>1
<1>9. TypeOK'
  <2>1. atoms' \in Seq(AtomSet) BY <1>1, <1>8
  <2>2. Limit' = Limit BY <1>5 DEF Limit
  <2>. QED BY <1>1, <1>2, <1>5, <2>1, <2>2 DEF IInv, TypeOK
<1>10. StackInv'
  <2>1. at' <= Len(source') + 1 /\ at' - 1 = at BY <1>1, <1>5
  <2>2. ASSUME NEW n \in Nat, n = at PROVE EnclosingPath(ancestors, n)'
    BY <1>2, <1>5, <2>2 DEF EnclosingPath, Encloses
  <2>3. EnclosingPath(ancestors, at - 1)'
    <3>1. PICK n \in Nat : n = at BY <1>1
    <3>2. n = (at - 1)' BY <2>1, <3>1
    <3>. QED BY <2>2, <3>1, <3>2 DEF EnclosingPath
  <2>. QED BY <2>1, <2>3 DEF StackInv
<1>11. BreadcrumbEncloses'
  <2>1. \A n \in DOMAIN atoms : EnclosingPath(atoms[n].path, atoms[n].from)
    BY <1>1 DEF IInv, BreadcrumbEncloses
  <2>2. EnclosingPath(atom.path, atom.from) BY <1>2 DEF Atom
  <2>3. \A n \in DOMAIN atoms' : EnclosingPath(atoms'[n].path, atoms'[n].from)
    <3> TAKE n \in DOMAIN atoms'
    <3>1. CASE atoms' = atoms BY <2>1, <3>1
    <3>2. CASE atoms' # atoms
      <4>1. n \in 1 .. Len(atoms) \/ n = Len(atoms) + 1 BY <1>7, <1>8, <3>2
      <4>. QED BY <1>7, <1>8, <2>1, <2>2, <3>2, <4>1
    <3>. QED BY <3>1, <3>2
  <2>. QED BY <1>5, <2>3 DEF BreadcrumbEncloses, EnclosingPath, Encloses
<1>12. SeenInv' /\ FromInv'
  <2>1. source # <<>> BY <1>1, EmptySeq
  <2>. QED BY <1>5, <2>1 DEF IInv, SeenInv, FromInv
<1>13. ProgressInv' BY <1>1, <1>5 DEF IInv, ProgressInv
<1>14. LeadInv'
  <2>1. \A n \in DOMAIN atoms : atoms[n].type = "tldr" <=> n = 1 BY <1>1 DEF IInv, LeadInv
  <2>2. atom.type = "tldr" <=> Len(atoms) = 0 BY <1>1, EmptySeq DEF Atom, FirstType
  <2>3. \A n \in DOMAIN atoms' : atoms'[n].type = "tldr" <=> n = 1
    <3> TAKE n \in DOMAIN atoms'
    <3>1. CASE atoms' = atoms BY <2>1, <3>1
    <3>2. CASE atoms' # atoms
      <4>1. n \in 1 .. Len(atoms) \/ n = Len(atoms) + 1 BY <1>7, <1>8, <3>2
      <4>2. CASE n \in 1 .. Len(atoms) BY <1>7, <1>8, <2>1, <3>2, <4>2
      <4>3. CASE n = Len(atoms) + 1 BY <1>7, <1>8, <2>2, <3>2, <4>3
      <4>. QED BY <4>1, <4>2, <4>3
    <3>. QED BY <3>1, <3>2
  <2>. QED BY <1>1, <1>5, <2>3 DEF IInv, LeadInv
<1>15. OutInv' BY <1>1, <1>5, OutKept DEF IInv
<1>. QED BY <1>9, <1>10, <1>11, <1>12, <1>13, <1>14, <1>15 DEF IInv

LEMMA EndDocumentInv == IInv /\ EndDocument => IInv'
<1> SUFFICES ASSUME IInv, EndDocument PROVE IInv' OBVIOUS
<1> DEFINE atom == Atom("tldr", Cut(lead), 0, <<>>)
<1>1. /\ kind = "document" /\ pc = "read" /\ pc' = "unique" /\ at' = 1
      /\ UNCHANGED <<kind, source, lead, ancestors, unique, seen, out>>
      /\ unique = <<>> /\ seen = {} /\ atoms \in Seq(AtomSet)
  BY EmptySeq DEF IInv, TypeOK, SeenInv, ProgressInv, EndDocument
<1>2. atoms' = atoms \/ (source = <<>> /\ lead # NoText /\ atoms = <<>> /\ atoms' = <<atom>>)
  <2>1. source = <<>> => atoms = <<>> BY <1>1 DEF IInv, FromInv
  <2>. QED BY <1>1, <2>1 DEF EndDocument, FirstType
<1>3. lead # NoText => atom \in AtomSet
  BY CutText, EmptySeq DEF IInv, TypeOK, Atom, AtomSet, Types
<1>4. atoms' = atoms \/
      (atoms' \in Seq(AtomSet) /\ Len(atoms') = 1 /\ DOMAIN atoms' = {1} /\ atoms'[1] = atom)
  <2>1. CASE atoms' = atoms BY <2>1
  <2>2. CASE lead # NoText /\ atoms' = <<atom>>
    <3>1. atom \in AtomSet BY <1>3, <2>2
    <3> HIDE DEF atom
    <3>. QED BY <2>2, <3>1
  <2>. QED BY <1>2, <2>1, <2>2
<1>5. TypeOK'
  <2>1. Limit' = Limit BY <1>1 DEF Limit
  <2>. QED BY <1>1, <1>4, <2>1 DEF IInv, TypeOK
<1>6. StackInv' /\ FromInv' BY <1>1 DEF StackInv, FromInv
<1>7. BreadcrumbEncloses'
  <2>1. CASE atoms' = atoms
    BY <1>1, <2>1 DEF IInv, BreadcrumbEncloses, EnclosingPath, Encloses
  <2>2. CASE atoms' # atoms
    <3>1. EnclosingPath(<<>>, 0)' BY EmptySeq DEF EnclosingPath
    <3>2. atoms'[1].path = <<>> /\ atoms'[1].from = 0 BY <1>4, <2>2 DEF Atom
    <3>3. EnclosingPath(atoms[1].path, atoms[1].from)'
      BY <3>1, <3>2 DEF EnclosingPath
    <3>. QED BY <1>4, <2>2, <3>3 DEF BreadcrumbEncloses
  <2>. QED BY <2>1, <2>2
<1>8. SeenInv' BY <1>1 DEF IInv, SeenInv
<1>9. ProgressInv'
  <2>1. Len(atoms') \in Nat BY <1>5, LenProperties DEF TypeOK
  <2>2. LookedAt' = {} BY <1>1 DEF LookedAt
  <2>. QED BY <1>1, <2>1, <2>2 DEF ProgressInv
<1>10. LeadInv'
  <2>1. unique' = <<>> /\ DOMAIN unique' = {} BY <1>1, EmptySeq
  <2>2. CASE atoms' = atoms BY <1>1, <2>1, <2>2 DEF IInv, LeadInv
  <2>3. CASE atoms' # atoms BY <1>1, <1>4, <2>1, <2>3 DEF LeadInv, Atom
  <2>. QED BY <2>2, <2>3
<1>11. OutInv' BY <1>1, OutKept DEF IInv
<1>. QED BY <1>5, <1>6, <1>7, <1>8, <1>9, <1>10, <1>11 DEF IInv

LEMMA ReadLineInv == IInv /\ ReadLine => IInv'
<1> SUFFICES ASSUME IInv, ReadLine PROVE IInv' OBVIOUS
<1> DEFINE l == source[at]
           summary == IF atoms = <<>> THEN <<Atom("tldr", l.text, at, <<>>)>> ELSE <<>>
           objection == IF l.objection THEN <<Atom("objection", Cut(l.text), at, <<>>)>> ELSE <<>>
           proof == IF l.proof THEN <<Atom("proof_point", Cut(l.text), at, <<>>)>> ELSE <<>>
<1>1. /\ kind = "transcript" /\ pc = "read" /\ at \in 1 .. Len(source) /\ at' = at + 1
      /\ source \in Seq(Lines) /\ Len(source) \in Nat /\ atoms \in Seq(AtomSet)
      /\ UNCHANGED <<kind, source, lead, pc, ancestors, unique, seen, out>>
      /\ atoms' = atoms \/ atoms' = atoms \o summary \o objection \o proof
  <2>1. kind = "transcript" /\ pc = "read" /\ at \in Nat \ {0} /\ atoms \in Seq(AtomSet)
    BY DEF IInv, TypeOK, ReadLine
  <2>2. source \in Seq(Lines) /\ Len(source) \in Nat
    BY <2>1, LenProperties DEF IInv, TypeOK
  <2>3. /\ at <= Len(source) /\ at' = at + 1
        /\ UNCHANGED <<kind, source, lead, pc, ancestors, unique, seen, out>>
        /\ atoms' = atoms \/ atoms' = atoms \o summary \o objection \o proof
    BY DEF ReadLine
  <2> HIDE DEF summary, objection, proof
  <2>4. at \in 1 .. Len(source) BY <2>1, <2>2, <2>3
  <2>. QED BY <2>1, <2>2, <2>3, <2>4
<1>2. l.text \in Texts BY <1>1, ElementOfSeq, ElementsAssumption DEF Line
<1>3. /\ Atom("tldr", l.text, at, <<>>) \in AtomSet
      /\ Atom("objection", Cut(l.text), at, <<>>) \in AtomSet
      /\ Atom("proof_point", Cut(l.text), at, <<>>) \in AtomSet
  BY <1>1, <1>2, CutText, EmptySeq DEF Atom, AtomSet, Types
<1>4. /\ summary \in Seq(AtomSet) /\ objection \in Seq(AtomSet) /\ proof \in Seq(AtomSet)
      /\ Len(summary) = IF atoms = <<>> THEN 1 ELSE 0
      /\ atoms = <<>> => summary[1].type = "tldr"
      /\ \A n \in 1 .. Len(objection) : objection[n].type # "tldr"
      /\ \A n \in 1 .. Len(proof) : proof[n].type # "tldr"
  BY <1>3, EmptySeq DEF Atom
<1> HIDE DEF summary, objection, proof
<1>5. \A n \in DOMAIN atoms : atoms[n].type = "tldr" <=> n = 1 BY <1>1 DEF IInv, LeadInv
<1>6. atoms' \in Seq(AtomSet) /\ \A n \in DOMAIN atoms' : atoms'[n].type = "tldr" <=> n = 1
  <2>1. CASE atoms' = atoms BY <1>1, <1>5, <2>1
  <2>2. CASE atoms' = atoms \o summary \o objection \o proof
    <3> DEFINE one == atoms \o summary
               two == one \o objection
    <3>1. one \in Seq(AtomSet) /\ Len(one) \in Nat \ {0}
          /\ \A n \in 1 .. Len(one) : one[n].type = "tldr" <=> n = 1
      <4>1. CASE atoms = <<>>
        <5>1. one = summary BY <1>4, <4>1, ConcatEmptySeq
        <5>2. Len(one) = 1 /\ one[1].type = "tldr" BY <1>4, <4>1, <5>1
        <5>3. \A n \in 1 .. Len(one) : n = 1 BY <5>2
        <5>4. one \in Seq(AtomSet) BY <1>4, <5>1
        <5> HIDE DEF one
        <5>. QED BY <5>2, <5>3, <5>4
      <4>2. CASE atoms # <<>>
        <5>1. summary = <<>> BY <1>4, <4>2, EmptySeq
        <5>2. one = atoms BY <1>1, <5>1, ConcatEmptySeq
        <5>. QED BY <1>1, <1>5, <4>2, <5>2, EmptySeq, LenProperties
      <4>. QED BY <4>1, <4>2
    <3> HIDE DEF one
    <3>2. two \in Seq(AtomSet) /\ Len(two) \in Nat \ {0}
          /\ \A n \in 1 .. Len(two) : two[n].type = "tldr" <=> n = 1
      <4>1. Len(one) # 0 BY <3>1
      <4>. QED BY <1>4, <3>1, <4>1, BehindSummary
    <3> HIDE DEF two
    <3>3. two \o proof \in Seq(AtomSet)
          /\ \A n \in 1 .. Len(two \o proof) : (two \o proof)[n].type = "tldr" <=> n = 1
      BY <1>4, <3>2, BehindSummary
    <3>4. atoms' = two \o proof BY <2>2 DEF one, two
    <3>. QED BY <3>3, <3>4, LenProperties
  <2>. QED BY <1>1, <2>1, <2>2
<1>7. TypeOK'
  <2>1. Limit' = Limit BY <1>1 DEF Limit
  <2>. QED BY <1>1, <1>6, <2>1 DEF IInv, TypeOK
<1>8. StackInv' /\ BreadcrumbEncloses' /\ FromInv'
  BY <1>1 DEF StackInv, BreadcrumbEncloses, FromInv
<1>9. SeenInv' BY <1>1 DEF IInv, SeenInv
<1>10. ProgressInv' BY <1>1 DEF IInv, ProgressInv
<1>11. LeadInv' BY <1>1, <1>6 DEF IInv, LeadInv
<1>12. OutInv' BY <1>1, OutKept DEF IInv
<1>. QED BY <1>7, <1>8, <1>9, <1>10, <1>11, <1>12 DEF IInv

LEMMA EndTranscriptInv == IInv /\ EndTranscript => IInv'
<1> SUFFICES ASSUME IInv, EndTranscript PROVE IInv' OBVIOUS
<1>1. /\ kind = "transcript" /\ pc = "read" /\ pc' = "unique" /\ at' = 1
      /\ UNCHANGED <<kind, source, lead, ancestors, atoms, unique, seen, out>>
      /\ unique = <<>> /\ seen = {} /\ atoms \in Seq(AtomSet) /\ Len(atoms) \in Nat
  BY EmptySeq, LenProperties DEF IInv, TypeOK, SeenInv, ProgressInv, EndTranscript
<1>2. TypeOK'
  <2>1. Limit' = Limit BY <1>1 DEF Limit
  <2>. QED BY <1>1, <2>1 DEF IInv, TypeOK
<1>3. StackInv' /\ BreadcrumbEncloses' /\ FromInv'
  BY <1>1 DEF StackInv, BreadcrumbEncloses, FromInv
<1>4. SeenInv' /\ LeadInv' BY <1>1 DEF IInv, SeenInv, LeadInv
<1>5. ProgressInv'
  <2>1. LookedAt' = {} BY <1>1 DEF LookedAt
  <2>. QED BY <1>1, <2>1 DEF ProgressInv
<1>6. OutInv' BY <1>1, OutKept DEF IInv
<1>. QED BY <1>2, <1>3, <1>4, <1>5, <1>6 DEF IInv

LEMMA KeepFirstInv == IInv /\ KeepFirst => IInv'
<1> SUFFICES ASSUME IInv, KeepFirst PROVE IInv' OBVIOUS
<1>1. /\ kind # "model" /\ pc = "unique" /\ at \in 1 .. Len(atoms) /\ at' = at + 1
      /\ atoms \in Seq(AtomSet) /\ unique \in Seq(AtomSet)
      /\ Add(atoms[at]) /\ UNCHANGED <<kind, source, lead, pc, ancestors, atoms, out>>
      /\ Len(atoms) \in Nat /\ seen = LookedAt
  BY LenProperties DEF IInv, TypeOK, ProgressInv, KeepFirst, ToCheck
<1>2. atoms[at] \in AtomSet BY <1>1, ElementOfSeq
<1>3. /\ SeenInv' /\ unique' \in Seq(AtomSet) /\ seen' = seen \cup {Hash(atoms[at])}
      /\ seen' = seen => unique' = unique
      /\ seen' # seen => unique' = Append(unique, atoms[at])
  BY <1>1, <1>2, AddInv DEF IInv
<1>4. seen' \subseteq Types \X Texts
  <2>1. Hash(atoms[at]) \in Types \X Texts BY <1>2 DEF Hash, AtomSet
  <2>. QED BY <1>3, <2>1 DEF IInv, TypeOK
<1>5. TypeOK'
  <2>1. Limit' = Limit BY <1>1 DEF Limit
  <2>. QED BY <1>1, <1>3, <1>4, <2>1 DEF IInv, TypeOK
<1>6. StackInv' /\ FromInv' BY <1>1 DEF StackInv, FromInv
<1>7. BreadcrumbEncloses'
  BY <1>1 DEF IInv, BreadcrumbEncloses, EnclosingPath, Encloses
<1>8. LookedAt' = LookedAt \cup {Hash(atoms[at])}
  <2>1. 1 .. at' - 1 = (1 .. at - 1) \cup {at} BY <1>1
  <2>. QED BY <1>1, <2>1 DEF LookedAt
<1>9. ProgressInv' BY <1>1, <1>3, <1>8 DEF ProgressInv
<1>10. LeadInv'
  <2>1. /\ \A n \in DOMAIN atoms : atoms[n].type = "tldr" <=> n = 1
        /\ \A n \in DOMAIN unique : unique[n].type = "tldr" <=> n = 1
    BY <1>1 DEF IInv, LeadInv
  <2>2. Len(unique) \in Nat /\ DOMAIN unique = 1 .. Len(unique) BY <1>1, LenProperties
  <2>3. at = 1 <=> Len(unique) = 0
    <3>1. CASE at = 1
      <4>1. seen = {} BY <1>1, <3>1 DEF LookedAt
      <4>2. 1 \notin DOMAIN unique BY <4>1 DEF IInv, SeenInv
      <4>. QED BY <2>2, <3>1, <4>2
    <3>2. CASE at # 1
      <4>1. Hash(atoms[1]) \in seen BY <1>1, <3>2 DEF LookedAt
      <4>2. DOMAIN unique # {} BY <4>1 DEF IInv, SeenInv
      <4>. QED BY <2>2, <3>2, <4>2
    <3>. QED BY <3>1, <3>2
  <2>4. atoms[at].type = "tldr" <=> Len(unique) = 0 BY <1>1, <2>1, <2>3, LenProperties
  <2>5. \A n \in DOMAIN unique' : unique'[n].type = "tldr" <=> n = 1
    <3>1. CASE unique' = unique BY <2>1, <3>1
    <3>2. CASE unique' = Append(unique, atoms[at])
      <4>1. /\ DOMAIN unique' = 1 .. Len(unique) + 1
            /\ \A i \in 1 .. Len(unique) : unique'[i] = unique[i]
            /\ unique'[Len(unique) + 1] = atoms[at]
        BY <1>1, <1>2, <3>2, AppendProperties, LenProperties
      <4> TAKE n \in DOMAIN unique'
      <4>2. n \in 1 .. Len(unique) \/ n = Len(unique) + 1 BY <2>2, <4>1
      <4>3. CASE n \in 1 .. Len(unique) BY <2>1, <2>2, <4>1, <4>3
      <4>4. CASE n = Len(unique) + 1 BY <2>2, <2>4, <4>1, <4>4
      <4>. QED BY <4>2, <4>3, <4>4
    <3>. QED BY <1>3, <3>1, <3>2
  <2>. QED BY <1>1, <2>1, <2>5 DEF LeadInv
<1>11. OutInv' BY <1>1, OutKept DEF IInv
<1>. QED BY <1>3, <1>5, <1>6, <1>7, <1>9, <1>10, <1>11 DEF IInv

LEMMA ReturnAtomsInv == IInv /\ ReturnAtoms => IInv'
<1> SUFFICES ASSUME IInv, ReturnAtoms PROVE IInv' OBVIOUS
<1>1. /\ kind # "model" /\ pc = "unique" /\ pc' = "done" /\ at = Len(atoms) + 1
      /\ atoms \in Seq(AtomSet) /\ Len(atoms) \in Nat /\ seen = LookedAt
      /\ UNCHANGED <<kind, source, lead, at, ancestors, atoms, unique, seen>> /\ out' = FirstOnes
  <2>1. at \in Nat /\ kind # "model" /\ pc = "unique" /\ at <= Len(atoms) + 1 /\ seen = LookedAt
    BY DEF IInv, TypeOK, ProgressInv, ReturnAtoms
  <2>2. atoms \in Seq(AtomSet) /\ Len(atoms) \in Nat BY LenProperties DEF IInv, TypeOK
  <2>3. at = Len(atoms) + 1 BY <2>1, <2>2 DEF ReturnAtoms, ToCheck
  <2>. QED BY <2>1, <2>2, <2>3 DEF ReturnAtoms
<1>2. seen = Wanted
  <2>1. DOMAIN atoms = 1 .. at - 1 BY <1>1, LenProperties
  <2>. QED BY <1>1, <2>1 DEF LookedAt, Wanted
<1>3. OutInv' /\ out' \in Seq(AtomSet) /\ Len(out') <= Limit' BY <1>1, <1>2, Returned
<1>4. TypeOK' BY <1>1, <1>3 DEF IInv, TypeOK
<1>5. StackInv' /\ FromInv' /\ ProgressInv' BY <1>1 DEF StackInv, FromInv, ProgressInv
<1>6. BreadcrumbEncloses'
  BY <1>1 DEF IInv, BreadcrumbEncloses, EnclosingPath, Encloses
<1>7. SeenInv' /\ LeadInv' BY <1>1 DEF IInv, SeenInv, LeadInv
<1>. QED BY <1>3, <1>4, <1>5, <1>6, <1>7 DEF IInv

\* An answer, or an item, that makes the extraction raise leaves no atoms behind.
LEMMA RaiseInv == IInv /\ (AnswerRaises \/ ItemRaises) => IInv'
<1> SUFFICES ASSUME IInv, AnswerRaises \/ ItemRaises PROVE IInv' OBVIOUS
<1>1. /\ kind = "model" /\ pc' = "raised"
      /\ UNCHANGED <<kind, source, lead, at, ancestors, atoms, unique, seen, out>>
  BY DEF AnswerRaises, ItemRaises
<1>2. TypeOK'
  <2>1. Limit' = Limit BY <1>1 DEF Limit
  <2>. QED BY <1>1, <2>1 DEF IInv, TypeOK
<1>3. StackInv' /\ BreadcrumbEncloses' /\ FromInv' /\ ProgressInv' /\ LeadInv'
  BY <1>1 DEF StackInv, BreadcrumbEncloses, FromInv, ProgressInv, LeadInv
<1>4. SeenInv' BY <1>1 DEF IInv, SeenInv
<1>5. OutInv' BY <1>1, OutKept DEF IInv
<1>. QED BY <1>2, <1>3, <1>4, <1>5 DEF IInv

LEMMA ReadItemInv == IInv /\ ReadItem => IInv'
<1> SUFFICES ASSUME IInv, ReadItem PROVE IInv' OBVIOUS
<1> DEFINE item == source[at]
           AtomAt(n) == Atom(source[n].type, Normal(source[n]), n, <<>>)
<1>1. /\ kind = "model" /\ pc = "read" /\ at \in 1 .. Len(source) /\ at' = at + 1
      /\ source \in Seq(Items) /\ Len(source) \in Nat /\ seen = LookedAt
      /\ UNCHANGED <<kind, source, lead, pc, ancestors, atoms, out>>
      /\ IF Valid(item) THEN Add(AtomAt(at)) ELSE UNCHANGED <<unique, seen>>
  BY LenProperties DEF IInv, TypeOK, ProgressInv, ReadItem
<1>2. item \in Item BY <1>1, ElementOfSeq, ElementsAssumption
<1>3. Valid(item) => AtomAt(at) \in AtomSet
  <2> SUFFICES ASSUME Valid(item) PROVE AtomAt(at) \in AtomSet OBVIOUS
  <2>1. item.type \in Types /\ item.text \in Texts BY <1>2 DEF Valid, Item
  <2>2. Normal(item) \in Texts BY <2>1, CutText DEF Normal
  <2>. QED BY <1>1, <2>1, <2>2, EmptySeq DEF Atom, AtomSet
<1>4. /\ SeenInv' /\ unique' \in Seq(AtomSet) /\ seen' \subseteq Types \X Texts
      /\ seen' = IF Valid(item) THEN seen \cup {Hash(AtomAt(at))} ELSE seen
  <2>1. CASE Valid(item)
    <3>1. SeenInv' /\ unique' \in Seq(AtomSet) /\ seen' = seen \cup {Hash(AtomAt(at))}
      BY <1>1, <1>3, <2>1, AddInv DEF IInv, TypeOK
    <3>2. Hash(AtomAt(at)) \in Types \X Texts BY <1>3, <2>1 DEF Hash, AtomSet
    <3>. QED BY <2>1, <3>1, <3>2 DEF IInv, TypeOK
  <2>2. CASE ~Valid(item) BY <1>1, <2>2 DEF IInv, TypeOK, SeenInv
  <2>. QED BY <2>1, <2>2
<1>5. TypeOK'
  <2>1. Limit' = Limit BY <1>1 DEF Limit
  <2>. QED BY <1>1, <1>4, <2>1 DEF IInv, TypeOK
<1>6. StackInv' /\ BreadcrumbEncloses' /\ FromInv' /\ LeadInv'
  BY <1>1 DEF StackInv, BreadcrumbEncloses, FromInv, LeadInv
<1>7. LookedAt' = IF Valid(item) THEN LookedAt \cup {Hash(AtomAt(at))} ELSE LookedAt
  <2>1. 1 .. at' - 1 = (1 .. at - 1) \cup {at} BY <1>1
  <2>2. LookedAt = {Hash(AtomAt(n)) : n \in {n \in 1 .. at - 1 : Valid(source[n])}}
    BY <1>1 DEF LookedAt
  <2>3. LookedAt' = {Hash(AtomAt(n)) : n \in {n \in 1 .. at' - 1 : Valid(source[n])}}
    BY <1>1 DEF LookedAt
  <2>. QED BY <2>1, <2>2, <2>3
<1>8. ProgressInv' BY <1>1, <1>4, <1>7 DEF ProgressInv
<1>9. OutInv' BY <1>1, OutKept DEF IInv
<1>. QED BY <1>4, <1>5, <1>6, <1>8, <1>9 DEF IInv

LEMMA EndItemsInv == IInv /\ EndItems => IInv'
<1> SUFFICES ASSUME IInv, EndItems PROVE IInv' OBVIOUS
<1>1. /\ kind = "model" /\ pc = "read" /\ at = Len(source) + 1
      /\ source \in Seq(Items) /\ Len(source) \in Nat /\ seen = LookedAt
      /\ UNCHANGED <<kind, source, lead, at, ancestors, atoms, unique, seen>>
  <2>1. at \in Nat /\ kind = "model" /\ pc = "read" /\ at <= Len(source) + 1 /\ seen = LookedAt
    BY DEF IInv, TypeOK, ProgressInv, EndItems
  <2>2. source \in Seq(Items) /\ Len(source) \in Nat BY <2>1, LenProperties DEF IInv, TypeOK
  <2>3. at = Len(source) + 1 BY <2>1, <2>2 DEF EndItems
  <2>. QED BY <2>1, <2>2, <2>3 DEF EndItems
<1>2. \/ unique = <<>> /\ pc' = "raised" /\ out' = out
      \/ unique # <<>> /\ pc' = "done" /\ out' = FirstOnes
  BY DEF EndItems, EndPc
<1>3. seen = Wanted
  <2>1. DOMAIN source = 1 .. at - 1 BY <1>1, LenProperties
  <2>. QED BY <1>1, <2>1 DEF LookedAt, Wanted
<1>4. OutInv' /\ out' \in Seq(AtomSet) /\ Len(out') <= Limit'
  <2>1. CASE unique = <<>>
    <3>1. pc' = "raised" /\ out' = out BY <1>2, <2>1
    <3>2. Limit' = Limit BY <1>1 DEF Limit
    <3>. QED BY <1>1, <3>1, <3>2, OutKept DEF IInv, TypeOK
  <2>2. CASE unique # <<>> BY <1>1, <1>2, <1>3, <2>2, Returned
  <2>. QED BY <2>1, <2>2
<1>5. TypeOK' BY <1>1, <1>2, <1>4 DEF IInv, TypeOK
<1>6. StackInv' /\ BreadcrumbEncloses' /\ FromInv' /\ ProgressInv' /\ LeadInv'
  BY <1>1, <1>2 DEF StackInv, BreadcrumbEncloses, FromInv, ProgressInv, LeadInv
<1>7. SeenInv' BY <1>1 DEF IInv, SeenInv
<1>. QED BY <1>4, <1>5, <1>6, <1>7 DEF IInv

LEMMA StutterInv == IInv /\ UNCHANGED vars => IInv'
<1> SUFFICES ASSUME IInv, UNCHANGED vars PROVE IInv' OBVIOUS
<1>1. UNCHANGED <<kind, source, lead, pc, at, ancestors, atoms, unique, seen, out>> BY DEF vars
<1>2. TypeOK' BY <1>1 DEF IInv, TypeOK, Limit
<1>3. StackInv' /\ BreadcrumbEncloses' /\ FromInv'
  BY <1>1 DEF IInv, StackInv, BreadcrumbEncloses, FromInv, EnclosingPath, Encloses
<1>4. SeenInv' /\ LeadInv' BY <1>1 DEF IInv, SeenInv, LeadInv
<1>5. ProgressInv' BY <1>1 DEF IInv, ProgressInv, LookedAt
<1>6. OutInv'
  <2>1. Wanted' = Wanted /\ Limit' = Limit BY <1>1 DEF Wanted, Limit
  <2>2. NothingCrowdedOut' BY <1>1, <2>1 DEF IInv, OutInv, NothingCrowdedOut
  <2>3. DistinctAtoms' /\ SummaryLeads' /\ NeverEmptied'
    BY <1>1 DEF IInv, OutInv, DistinctAtoms, SummaryLeads, NeverEmptied
  <2>. QED BY <2>2, <2>3 DEF OutInv
<1>. QED BY <1>2, <1>3, <1>4, <1>5, <1>6 DEF IInv

LEMMA NextInv == IInv /\ [Next]_vars => IInv'
  BY ReadHeadingInv, EndDocumentInv, ReadLineInv, EndTranscriptInv, KeepFirstInv, ReturnAtomsInv,
     RaiseInv, ReadItemInv, EndItemsInv, StutterInv DEF Next

-----------------------------------------------------------------------------
\* The inductive invariant of an extraction (atomise.py and atomise_llm.py).
THEOREM Invariance == Spec => []IInv
  BY InitInv, NextInv, PTL DEF Spec

\* Every extraction is well typed and keeps to its limit (atomise.py, line 134).
THEOREM TypeCorrect == Spec => []TypeOK
<1>1. IInv => TypeOK BY DEF IInv
<1>. QED BY <1>1, Invariance, PTL

\* The breadcrumb of an atom names the headings that enclose its section, from the
\* outermost in (parse.py, lines 55-57), for any sequence of levels.
THEOREM BreadcrumbsHold == Spec => []BreadcrumbEncloses
<1>1. IInv => BreadcrumbEncloses BY DEF IInv
<1>. QED BY <1>1, Invariance, PTL

\* No two atoms of an extraction have the same hash (atomise.py, lines 128-133).
THEOREM Distinct == Spec => []DistinctAtoms
<1>1. IInv => DistinctAtoms BY DEF IInv, OutInv
<1>. QED BY <1>1, Invariance, PTL

\* What a source calls for is returned unless the answer is full of different atoms:
\* duplicates go before the limit cuts (atomise.py, lines 128-134).
THEOREM NothingLost == Spec => []NothingCrowdedOut
<1>1. IInv => NothingCrowdedOut BY DEF IInv, OutInv
<1>. QED BY <1>1, Invariance, PTL

\* Rules extract one summary, and it comes first (atomise.py, lines 58 and 108).
THEOREM SummaryFirst == Spec => []SummaryLeads
<1>1. IInv => SummaryLeads BY DEF IInv, OutInv
<1>. QED BY <1>1, Invariance, PTL

\* An extraction by the model that ends has atoms (atomise_llm.py, line 182).
THEOREM SomethingExtracted == Spec => []NeverEmptied
<1>1. IInv => NeverEmptied BY DEF IInv, OutInv
<1>. QED BY <1>1, Invariance, PTL
=============================================================================
