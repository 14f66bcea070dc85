------------------------------ MODULE Retrieval ------------------------------
(***************************************************************************)
(* A search (search.py, api/search.py) or a context request                *)
(* (api/context.py) that runs while documents are reprocessed and atoms    *)
(* are reviewed, as module Review describes.                               *)
(*                                                                         *)
(* A search is one READ COMMITTED transaction of up to three queries, each *)
(* with a snapshot of its own: a leg by embedding, a leg by keywords, and  *)
(* the rows of the fused ids.  A context request queries the hard          *)
(* constraints before and puts confirmed atoms first after it.  How a      *)
(* query ranks is left open; which rows it may rank and how many is not.   *)
(***************************************************************************)
EXTENDS Review, Fusion, SequencesExt

CONSTANTS
    Requests,           \* the requests that may come in
    CONSTRAINT_LIMIT    \* constraints in a context bundle, 50

\* What a request brings with it.  context: to which endpoint; hard: the statements
\* that were extracted as constraints; typed: those extracted as of the type it
\* asks for, all when it asks for none; embedded: the provider embeds its text and
\* does not fail; matches: the statements its text matches.
Request == [context : BOOLEAN, hard : SUBSET Hashes, typed : SUBSET Hashes,
            embedded : BOOLEAN, matches : SUBSET Hashes, limit : Nat \ {0}]

\* Documents have uuids and statements sha256 digests: there are finitely many.
ASSUME FiniteAssumption == IsFiniteSet(Docs) /\ IsFiniteSet(Hashes)

ASSUME RequestsAssumption == Requests \subseteq Request /\ CONSTRAINT_LIMIT \in Nat

VARIABLE search

\* constraints is in no order.  cut, stable, hidden and binding are history:
\* whether a leg left rows out, and the atoms that were findable, deprecated, or
\* constraints in force, in every state since the request began.
Search ==
    [pc : {"constraints", "vector", "keyword", "fetch", "done"}, for : Requests,
     constraints : SUBSET AtomIds, vector : Seq(AtomIds), keyword : Seq(AtomIds),
     hits : Seq([atom : AtomIds, status : Statuses, hash : Hashes]),
     cut : BOOLEAN, stable : SUBSET AtomIds, hidden : SUBSET AtomIds, binding : SUBSET AtomIds]

NoSearch == [pc |-> "idle"]

\* An answer is no longer than the request asked for.
SearchTypeOK == search = NoSearch \/ (search \in Search /\ Len(search.hits) <= search.for.limit)

SearchInit == Init /\ search = NoSearch

-----------------------------------------------------------------------------
(* hybrid_search *)

\* Mutant: a leg without its status filter.
EligibleAny == live

\* The rows a leg may rank.  An override changes the text of an atom, not its type.
Eligible == {i \in live : row[i].status # "deprecated" /\ i.born \in search.for.typed}

\* Those of them request q matches at all, and those that are constraints for it.
Findable(q, rows, table) ==
    {i \in rows : /\ table[i].status # "deprecated" /\ i.born \in q.typed
                  /\ q.embedded \/ table[i].hash \in q.matches}
Constraints(q, rows, table) ==
    {i \in rows : table[i].status # "deprecated" /\ i.born \in q.hard}

\* The ways a leg can rank some of these rows, the best LEG_LIMIT of them.
Rankings(rows) ==
    LET size == IF Cardinality(rows) < LEG_LIMIT THEN Cardinality(rows) ELSE LEG_LIMIT
    IN {leg \in [1 .. size -> rows] : IsInjective(leg)}

FirstLeg(q) == IF q.embedded THEN "vector" ELSE "keyword"

\* A provider that fails leaves the keyword leg.
BeginSearch(q) ==
    /\ search = NoSearch
    /\ search' =
          [pc |-> IF q.context THEN "constraints" ELSE FirstLeg(q), for |-> q,
           constraints |-> {}, vector |-> <<>>, keyword |-> <<>>, hits |-> <<>>, cut |-> FALSE,
           stable |-> Findable(q, live, row), binding |-> Constraints(q, live, row),
           hidden |-> {i \in live : row[i].status = "deprecated"}]
    /\ UNCHANGED vars

\* Mutant: only the constraints the task is about.
RelevantConstraints == {i \in Constraints(search.for, live, row) : row[i].hash \in search.for.matches}

InForce == Constraints(search.for, live, row)

\* The constraints in force, as many as the limit allows.
QueryConstraints ==
    LET size == IF Cardinality(InForce) < CONSTRAINT_LIMIT THEN Cardinality(InForce) ELSE CONSTRAINT_LIMIT
    IN /\ search.pc = "constraints"
       /\ \E some \in kSubset(size, InForce) :
             search' = [search EXCEPT !.pc = FirstLeg(search.for), !.constraints = some]
       /\ UNCHANGED vars

VectorLeg ==
    /\ search.pc = "vector"
    /\ \E leg \in Rankings(Eligible) :
          search' = [search EXCEPT !.pc = "keyword", !.vector = leg,
                                   !.cut = Len(leg) < Cardinality(Eligible)]
    /\ UNCHANGED vars

KeywordLeg ==
    LET matching == {i \in Eligible : row[i].hash \in search.for.matches} IN
    /\ search.pc = "keyword"
    /\ \E leg \in Rankings(matching) :
          search' = [search EXCEPT !.pc = "fetch", !.keyword = leg,
                                   !.cut = @ \/ Len(leg) < Cardinality(matching)]
    /\ UNCHANGED vars

\* The rank of an atom in a leg, 0 when it is not there.
Rank(leg, i) == IF Contains(leg, i) THEN CHOOSE n \in DOMAIN leg : leg[n] = i ELSE 0

ScoreOf(i) == Score(Rank(search.vector, i), Rank(search.keyword, i))

\* Mutant: the legs are joined, not united.
ScoredByBoth == ToSet(search.vector) \cap ToSet(search.keyword)

Scored == ToSet(search.vector) \cup ToSet(search.keyword)

\* A dict keeps the order of insertion, the vector leg first, and the sort by
\* score is stable.
Before(i, k) ==
    LET inserted == search.vector \o search.keyword IN
    \/ Exceeds(ScoreOf(i), ScoreOf(k))
    \/ /\ ~Exceeds(ScoreOf(k), ScoreOf(i))
       /\ Rank(inserted, i) < Rank(inserted, k)

\* The ways to list a set in an order: one, when the order is strict and total.
Sorted(S, Precedes(_, _)) ==
    {list \in [1 .. Cardinality(S) -> S] :
        /\ \A x \in S : \E n \in DOMAIN list : list[n] = x
        /\ \A m, n \in DOMAIN list : m < n => Precedes(list[m], list[n])}

\* Mutant: the limit of the request is forgotten.
TopUncut(sorted) == ToSet(sorted)

Top(sorted) == {sorted[n] : n \in {m \in DOMAIN sorted : m <= search.for.limit}}

Confirmed(i) == row[i].status = "confirmed"

\* A context request sorts the answer again, confirmed atoms first; the scores
\* keep their order among the rest.
Ahead(i, k) ==
    IF search.for.context /\ (Confirmed(i) # Confirmed(k)) THEN Confirmed(i) ELSE Before(i, k)

Hit(i) == [atom |-> i, status |-> row[i].status, hash |-> row[i].hash]

\* The rows of the top ids as they are now; ids without a row are dropped.
FetchRows ==
    /\ search.pc = "fetch"
    /\ \E sorted \in Sorted(Scored, Before) :
          \E found \in Sorted(Top(sorted) \cap live, Ahead) :
              search' = [search EXCEPT !.pc = "done", !.hits = [n \in DOMAIN found |-> Hit(found[n])]]
    /\ UNCHANGED vars

\* What the history variables keep when the atoms change.
Observe ==
    search' = IF search = NoSearch THEN search ELSE [search EXCEPT
       !.stable = @ \cap Findable(search.for, live', row'),
       !.binding = @ \cap Constraints(search.for, live', row'),
       !.hidden = {i \in @ : i \in live' /\ row'[i].status = "deprecated"}]

-----------------------------------------------------------------------------
SearchStep ==
    \/ \E q \in Requests : BeginSearch(q)
    \/ QueryConstraints \/ VectorLeg \/ KeywordLeg \/ FetchRows

\* A behaviour ends with the answer: a request writes nothing, so the next one
\* begins like the first in whatever state it finds.
SearchNext == search.pc # "done" /\ (SearchStep \/ (Next /\ Observe))

SearchSpec == SearchInit /\ [][SearchNext]_<<vars, search>>

-----------------------------------------------------------------------------
(* Properties *)

Returned == {search.hits[n].atom : n \in DOMAIN search.hits}

\* The legs and the answer were long enough for everything they found.
NothingCut == ~search.cut /\ Cardinality(Scored) <= search.for.limit

\* A search finds what is there: an atom that could be found all the while is in
\* the answer, whatever is replaced and decided between its queries.
StableAtomsAreFound ==
    search.pc = "done" /\ NothingCut => search.stable \subseteq Returned

\* Deprecated atoms vanish: one that was deprecated all the while is not in it.
DeprecatedStayHidden ==
    search.pc = "done" => search.hidden \cap (Returned \cup search.constraints) = {}

\* What both legs found comes before what only one of them found, whatever the
\* ranks: the damping constant is large enough for the length of a leg.  In a
\* context bundle it does so among atoms of the same standing.
AgreementFirst ==
    search.pc = "done" =>
        \A m, n \in DOMAIN search.hits :
            LET both == ToSet(search.vector) \cap ToSet(search.keyword)
                hit(j) == search.hits[j]
            IN  /\ hit(m).atom \in both /\ hit(n).atom \notin both
                /\ search.for.context => (hit(m).status = "confirmed" <=> hit(n).status = "confirmed")
                => m < n

\* Hard constraints are included whatever the task is about: one in force all the
\* while is in the bundle, unless the bundle has as many as it may.
ConstraintsAreIncluded ==
    search.pc = "done" /\ search.for.context =>
        \/ search.binding \subseteq search.constraints
        \/ Cardinality(search.constraints) = CONSTRAINT_LIMIT
=============================================================================
