------------------------ MODULE VoiceProfiles_proofs ------------------------
(***************************************************************************)
(* Theorems about VoiceProfiles, for any number of documents, atoms,       *)
(* sections, workers and builds.                                           *)
(***************************************************************************)
EXTENDS VoiceProfiles, TLAPS

\* The queued jobs are among the requested ones.
PendingWereAsked == pending <= asked

\* Atoms belong to documents that are there.
AtomsHaveDocs == \A i \in AtomIds : atom[i] # "absent" => i.doc \in docs

\* What a build holds at each point: it was given atoms of documents that are
\* there, cites some of these, knows all their documents once it has read the
\* documents, and extends a version that is there.
BuildIsSound(b) ==
    /\ \A i \in b.atoms : i.doc \in docs
    /\ b.pc \in {"documents", "latest", "insert"} =>
          \A s \in Sections : b.payload[s] \subseteq b.atoms
    /\ b.pc \in {"latest", "insert"} => \A i \in b.atoms : i.doc \in b.docs
    /\ b.pc = "insert" => b.latest = 0 \/ b.latest \in Stored

BuildsAreSound == \A w \in Workers : BuildIsSound(build[w])

\* The inductive invariant.
IInv ==
    /\ TypeOK
    /\ PendingWereAsked
    /\ AtomsHaveDocs
    /\ BuildsAreSound
    /\ VersionsAreDense
    /\ DiffIsAgainstPredecessor
    /\ EvidenceIsInCorpus

-----------------------------------------------------------------------------
(* Types *)

LEMMA NewRowType ==
    ASSUME NEW b \in Build
    PROVE  NewRow(b) \in ProfileRow
<1>1. Changed(b.latest, b.payload) \subseteq Sections
  BY DEF Changed
<1> QED
  BY <1>1 DEF NewRow, ProfileRow, Build

LEMMA NoBuildType == NoBuild \in Build /\ AbsentRow \in ProfileRow
  BY BoundsAssumption DEF NoBuild, Build, NoPayload, Payload, AbsentRow, ProfileRow

LEMMA IInvInit == Init => IInv
<1> SUFFICES ASSUME Init PROVE IInv
  OBVIOUS
<1> USE BoundsAssumption, NoBuildType DEF Init, Ledger!Init
<1>1. TypeOK
  BY DEF TypeOK, Ledger!States
<1>2. Stored = {}
  BY DEF Stored, AbsentRow
<1> QED
  BY <1>1, <1>2 DEF IInv, PendingWereAsked, AtomsHaveDocs, BuildsAreSound, BuildIsSound, NoBuild,
                    VersionsAreDense, DiffIsAgainstPredecessor, EvidenceIsInCorpus

-----------------------------------------------------------------------------
(* A new version *)

LEMMA InsertKeeps ==
    ASSUME IInv, NEW w \in Workers, InsertProfile(w)
    PROVE  /\ TypeOK'
           /\ BuildsAreSound'
           /\ VersionsAreDense'
           /\ DiffIsAgainstPredecessor'
           /\ EvidenceIsInCorpus'
<1> DEFINE b == build[w]
           n == b.latest + 1
<1> USE BoundsAssumption
<1>0. /\ profile \in [Versions -> ProfileRow]
      /\ build \in [Workers -> Build]
      /\ b \in Build
  BY DEF IInv, TypeOK
<1>1. /\ b.pc = "insert"
      /\ n \in Versions \ Stored
      /\ profile' = [profile EXCEPT ![n] = NewRow(b)]
      /\ build' = [build EXCEPT ![w] = NoBuild]
      /\ UNCHANGED <<docs, atom, ledger, asked, pending>>
  BY DEF InsertProfile
<1>2. b.latest \in 0 .. MaxBuilds /\ NewRow(b) \in ProfileRow
  BY <1>0, NewRowType DEF Build
<1>3. /\ \A v \in Versions \ {n} : profile'[v] = profile[v]
      /\ profile'[n] = NewRow(b)
  BY <1>0, <1>1
<1>4. Stored' = Stored \cup {n}
  BY <1>0, <1>1, <1>3 DEF Stored, NewRow
<1>5. Stored \subseteq Versions /\ Versions \subseteq Nat /\ (b.latest = 0 \/ b.latest \in Stored)
  BY <1>1 DEF IInv, BuildsAreSound, BuildIsSound, Stored, Versions
<1>6. TypeOK'
  BY <1>0, <1>1, <1>2, NoBuildType DEF IInv, TypeOK
<1>7. BuildsAreSound'
  <2>1. \A v \in Workers : build'[v] = IF v = w THEN NoBuild ELSE build[v]
    BY <1>0, <1>1
  <2>2. BuildIsSound(NoBuild)'
    BY DEF BuildIsSound, NoBuild
  <2>3. ASSUME NEW v \in Workers, v # w PROVE BuildIsSound(build[v])'
    BY <1>1, <1>4, <2>1, <2>3 DEF IInv, BuildsAreSound, BuildIsSound
  <2> QED
    BY <2>1, <2>2, <2>3 DEF BuildsAreSound
<1>8. VersionsAreDense'
  <2> SUFFICES ASSUME NEW v \in Stored \cup {n}, NEW u \in 1 .. v
               PROVE  u \in Stored \cup {n}
    BY <1>4 DEF VersionsAreDense
  <2>1. CASE v \in Stored
    BY <2>1 DEF IInv, VersionsAreDense
  <2>2. CASE v = n /\ u # n
    <3>1. u \in 1 .. b.latest /\ b.latest \in Stored
      BY <1>2, <1>5, <2>2
    <3> QED
      BY <3>1 DEF IInv, VersionsAreDense
  <2> QED
    BY <2>1, <2>2
<1>9. DiffIsAgainstPredecessor'
  <2> SUFFICES ASSUME NEW v \in Stored \cup {n}
               PROVE  /\ profile'[v].previous = v - 1
                      /\ profile'[v].changed =
                            IF v = 1 THEN Sections
                            ELSE {s \in Sections :
                                    profile'[v].payload[s] # profile'[v - 1].payload[s]}
    BY <1>4 DEF DiffIsAgainstPredecessor
  <2>1. CASE v = n
    <3>1. profile'[v] = NewRow(b)
      BY <1>3, <2>1
    <3>2. v - 1 = b.latest /\ (v = 1 <=> b.latest = 0)
      BY <1>2, <2>1
    <3>3. b.latest # 0 => profile'[v - 1] = profile[b.latest]
      BY <1>2, <1>3, <1>5, <3>2 DEF Versions
    <3>4. profile'[v].previous = b.latest
      BY <3>1 DEF NewRow
    <3>5. profile'[v].payload = b.payload /\ profile'[v].changed = Changed(b.latest, b.payload)
      BY <3>1 DEF NewRow
    <3>6. CASE v = 1
      BY <3>2, <3>4, <3>5, <3>6 DEF Changed
    <3>7. CASE v # 1
      <4>1. Changed(b.latest, b.payload)
              = {s \in Sections : b.payload[s] # profile'[v - 1].payload[s]}
        BY <3>2, <3>3, <3>7 DEF Changed
      <4> QED
        BY <3>2, <3>4, <3>5, <3>7, <4>1
    <3> QED
      BY <3>6, <3>7
  <2>2. CASE v \in Stored
    <3>1. v # n /\ v \in Versions /\ profile'[v] = profile[v]
      BY <1>1, <1>3, <1>5, <2>2
    <3>2. v # 1 => v - 1 \in Stored
      BY <1>5, <2>2, <3>1 DEF IInv, VersionsAreDense, Versions
    <3>3. v # 1 => profile'[v - 1] = profile[v - 1]
      BY <1>1, <1>3, <1>5, <3>2
    <3>4. /\ profile[v].previous = v - 1
          /\ profile[v].changed =
                IF v = 1 THEN Sections
                ELSE {s \in Sections : profile[v].payload[s] # profile[v - 1].payload[s]}
      BY <2>2 DEF IInv, DiffIsAgainstPredecessor
    <3>5. CASE v = 1
      BY <3>1, <3>4, <3>5
    <3>6. CASE v # 1
      BY <3>1, <3>3, <3>4, <3>6
    <3> QED
      BY <3>5, <3>6
  <2> QED
    BY <2>1, <2>2
<1>10. EvidenceIsInCorpus'
  <2> SUFFICES ASSUME NEW v \in Stored \cup {n}, NEW s \in Sections, NEW i \in profile'[v].payload[s]
               PROVE  i \in profile'[v].atoms /\ i.doc \in profile'[v].docs
    BY <1>4 DEF EvidenceIsInCorpus
  <2>1. CASE v = n
    <3>1. b.payload[s] \subseteq b.atoms /\ \A k \in b.atoms : k.doc \in b.docs
      BY <1>1 DEF IInv, BuildsAreSound, BuildIsSound
    <3> QED
      BY <1>3, <2>1, <3>1 DEF NewRow
  <2>2. CASE v \in Stored
    BY <1>1, <1>3, <1>5, <2>2 DEF IInv, EvidenceIsInCorpus
  <2> QED
    BY <2>1, <2>2
<1> QED
  BY <1>6, <1>7, <1>8, <1>9, <1>10

-----------------------------------------------------------------------------
(* Every step preserves the invariant *)

\* The parts about the stored versions depend on these only.
LEMMA ProfilesKept ==
    ASSUME IInv, UNCHANGED profile
    PROVE  /\ Stored' = Stored
           /\ VersionsAreDense' /\ DiffIsAgainstPredecessor' /\ EvidenceIsInCorpus'
<1>1. Stored' = Stored
  BY DEF Stored
<1> QED
  BY <1>1 DEF IInv, VersionsAreDense, DiffIsAgainstPredecessor, EvidenceIsInCorpus

\* A worker's step that leaves the tables alone.
LEMMA BuildStep ==
    ASSUME IInv, NEW w \in Workers, NEW b \in Build,
           build' = [build EXCEPT ![w] = b], BuildIsSound(b),
           UNCHANGED <<docs, atom, ledger, asked, profile>>,
           pending' \in 0 .. MaxBuilds, pending' <= asked
    PROVE  IInv'
<1>1. build \in [Workers -> Build] /\ Stored' = Stored
  BY ProfilesKept DEF IInv, TypeOK
<1>2. TypeOK'
  BY <1>1 DEF IInv, TypeOK
<1>3. BuildsAreSound'
  <2>1. \A v \in Workers : build'[v] = IF v = w THEN b ELSE build[v]
    BY <1>1
  <2>2. \A v \in Workers : BuildIsSound(build'[v])
    BY <2>1 DEF IInv, BuildsAreSound
  <2> QED
    BY <1>1, <2>2 DEF BuildsAreSound, BuildIsSound
<1>4. PendingWereAsked' /\ AtomsHaveDocs'
  BY DEF IInv, PendingWereAsked, AtomsHaveDocs
<1> QED
  BY <1>2, <1>3, <1>4, ProfilesKept DEF IInv

LEMMA WorkerKeeps ==
    ASSUME IInv, NEW w \in Workers, WorkerStep(w)
    PROVE  IInv'
<1> DEFINE b == build[w]
<1> USE BoundsAssumption
<1>0. /\ b \in Build /\ build \in [Workers -> Build] /\ BuildIsSound(b)
      /\ docs \subseteq Docs /\ pending \in 0 .. MaxBuilds /\ asked \in 0 .. MaxBuilds
      /\ pending <= asked
  BY DEF IInv, TypeOK, BuildsAreSound, PendingWereAsked
<1>1. CASE ReadAtoms(w)
  <2>0. pending' \in 0 .. MaxBuilds /\ pending' <= asked
    BY <1>0, <1>1 DEF ReadAtoms
  <2>1. CASE Usable = {}
    <3>1. build' = [build EXCEPT ![w] = b]
      BY <1>0, <1>1, <2>1 DEF ReadAtoms
    <3> QED
      BY <1>0, <1>1, <2>0, <3>1, BuildStep DEF ReadAtoms
  <2>2. CASE Usable # {}
    <3> DEFINE c == [NoBuild EXCEPT !.pc = "compute", !.atoms = Usable]
    <3>1. c \in Build
      BY NoBuildType DEF Build, NoBuild, Usable
    <3>2. BuildIsSound(c)
      BY DEF BuildIsSound, NoBuild, Usable, IInv, AtomsHaveDocs
    <3>3. build' = [build EXCEPT ![w] = c]
      BY <1>1, <2>2 DEF ReadAtoms
    <3> QED
      BY <1>1, <2>0, <3>1, <3>2, <3>3, BuildStep DEF ReadAtoms
  <2> QED
    BY <2>1, <2>2
<1>2. ASSUME NEW payload \in Payload, Compute(w, payload) PROVE IInv'
  <2> DEFINE c == [b EXCEPT !.pc = "documents", !.payload = ScrubEvidence(payload, b.atoms)]
  <2>1. ScrubEvidence(payload, b.atoms) \in Payload
    BY DEF ScrubEvidence, Payload
  <2>2. c \in Build
    BY <1>0, <2>1 DEF Build
  <2>3. BuildIsSound(c)
    BY <1>0, <1>2 DEF BuildIsSound, ScrubEvidence, Build
  <2> QED
    BY <1>0, <1>2, <2>2, <2>3, BuildStep DEF Compute
<1>3. CASE ReadDocuments(w)
  <2> DEFINE c == [b EXCEPT !.pc = "latest", !.docs = docs]
  <2>1. c \in Build
    BY <1>0 DEF Build
  <2>2. BuildIsSound(c)
    BY <1>0, <1>3 DEF BuildIsSound, Build, ReadDocuments
  <2> QED
    BY <1>0, <1>3, <2>1, <2>2, BuildStep DEF ReadDocuments
<1>4. CASE ReadLatest(w)
  <2>1. PICK v \in Stored \cup {0} :
           build' = [build EXCEPT ![w] = [b EXCEPT !.pc = "insert", !.latest = v]]
    BY <1>4 DEF ReadLatest
  <2> DEFINE c == [b EXCEPT !.pc = "insert", !.latest = v]
  <2>2. c \in Build
    <3>1. v \in 0 .. MaxBuilds
      BY DEF Stored, Versions
    <3> QED
      BY <1>0, <3>1 DEF Build
  <2>3. BuildIsSound(c)
    BY <1>0, <1>4, <2>1 DEF BuildIsSound, Build, ReadLatest
  <2> QED
    BY <1>0, <1>4, <2>1, <2>2, <2>3, BuildStep DEF ReadLatest
<1>5. CASE InsertProfile(w)
  <2>1. PendingWereAsked' /\ AtomsHaveDocs'
    BY <1>5 DEF InsertProfile, IInv, PendingWereAsked, AtomsHaveDocs
  <2> QED
    BY <1>5, <2>1, InsertKeeps DEF IInv
<1>6. CASE InsertCollides(w) \/ BuildRaises(w)
  <2>1. BuildIsSound(NoBuild)
    BY DEF BuildIsSound, NoBuild
  <2> QED
    BY <1>0, <1>6, <2>1, NoBuildType, BuildStep DEF InsertCollides, BuildRaises
<1> QED
  BY <1>1, <1>2, <1>3, <1>4, <1>5, <1>6 DEF WorkerStep

\* A step of the rest of the engine: documents are only added.
LEMMA EngineStep ==
    ASSUME IInv, UNCHANGED <<profile, build>>, docs \subseteq docs',
           TypeOK', PendingWereAsked', AtomsHaveDocs'
    PROVE  IInv'
<1>1. BuildsAreSound'
  BY ProfilesKept DEF IInv, BuildsAreSound, BuildIsSound
<1> QED
  BY <1>1, ProfilesKept DEF IInv

LEMMA IInvStep == IInv /\ [Next]_vars => IInv'
<1> SUFFICES ASSUME IInv, [Next]_vars PROVE IInv'
  OBVIOUS
<1> USE BoundsAssumption
<1>0. TypeOK /\ PendingWereAsked /\ AtomsHaveDocs
  BY DEF IInv
<1>1. ASSUME NEW d \in Docs, UploadDocument(d) PROVE IInv'
  BY <1>0, <1>1, EngineStep DEF UploadDocument, TypeOK, PendingWereAsked, AtomsHaveDocs
<1>2. ASSUME NEW d \in Docs, ReplaceAtoms(d) PROVE IInv'
  <2>1. TypeOK' /\ PendingWereAsked'
    BY <1>0, <1>2 DEF ReplaceAtoms, Ledger!Replace, TypeOK, PendingWereAsked
  <2>2. AtomsHaveDocs'
    BY <1>0, <1>2 DEF ReplaceAtoms, Ledger!Replace, AtomsHaveDocs
  <2> QED
    BY <1>2, <2>1, <2>2, EngineStep DEF ReplaceAtoms
<1>3. ASSUME NEW i \in AtomIds, NEW verdict \in Ledger!Decided, Decide(i, verdict) PROVE IInv'
  <2>1. TypeOK' /\ PendingWereAsked'
    BY <1>0, <1>3 DEF Decide, Ledger!Decide, Ledger!States, TypeOK, PendingWereAsked
  <2>2. AtomsHaveDocs'
    BY <1>0, <1>3 DEF Decide, Ledger!Decide, TypeOK, AtomsHaveDocs
  <2> QED
    BY <1>3, <2>1, <2>2, EngineStep DEF Decide
<1>4. CASE RequestBuild
  BY <1>0, <1>4, EngineStep DEF RequestBuild, TypeOK, PendingWereAsked, AtomsHaveDocs
<1>5. ASSUME NEW v \in Versions, Approve(v) PROVE IInv'
  <2>0. profile \in [Versions -> ProfileRow] /\ v \in Stored
        /\ profile' = [profile EXCEPT ![v].status = "approved"]
        /\ UNCHANGED <<docs, atom, ledger, asked, pending, build>>
    BY <1>0, <1>5 DEF TypeOK, Approve
  <2>1. profile' \in [Versions -> ProfileRow]
    BY <2>0 DEF ProfileRow
  <2>2. \A u \in Versions :
           /\ profile'[u].payload = profile[u].payload /\ profile'[u].atoms = profile[u].atoms
           /\ profile'[u].docs = profile[u].docs /\ profile'[u].changed = profile[u].changed
           /\ profile'[u].previous = profile[u].previous
           /\ profile'[u].status = IF u = v THEN "approved" ELSE profile[u].status
    BY <2>0 DEF ProfileRow
  <2>3. Stored' = Stored /\ Stored \subseteq Versions
    BY <2>0, <2>2 DEF Stored
  <2>4. VersionsAreDense'
    BY <2>3 DEF IInv, VersionsAreDense
  <2>5. DiffIsAgainstPredecessor'
    <3>1. ASSUME NEW u \in Stored, u # 1 PROVE u - 1 \in Versions
      BY <2>3, <3>1 DEF Versions
    <3>2. ASSUME NEW u \in Stored
          PROVE  /\ profile'[u].previous = u - 1
                 /\ profile'[u].changed =
                       IF u = 1 THEN Sections
                       ELSE {s \in Sections : profile'[u].payload[s] # profile'[u - 1].payload[s]}
      <4>1. /\ profile[u].previous = u - 1
            /\ profile[u].changed =
                  IF u = 1 THEN Sections
                  ELSE {s \in Sections : profile[u].payload[s] # profile[u - 1].payload[s]}
        BY DEF IInv, DiffIsAgainstPredecessor
      <4>2. profile'[u].payload = profile[u].payload
            /\ profile'[u].changed = profile[u].changed
            /\ profile'[u].previous = profile[u].previous
        BY <2>2, <2>3
      <4>3. CASE u = 1
        BY <4>1, <4>2, <4>3
      <4>4. CASE u # 1
        <5>1. profile'[u - 1].payload = profile[u - 1].payload
          BY <2>2, <3>1, <4>4
        <5> QED
          BY <4>1, <4>2, <4>4, <5>1
      <4> QED
        BY <4>3, <4>4
    <3> QED
      BY <2>3, <3>2 DEF DiffIsAgainstPredecessor
  <2>6. EvidenceIsInCorpus'
    BY <2>2, <2>3 DEF IInv, EvidenceIsInCorpus
  <2>7. BuildsAreSound'
    BY <2>0, <2>3 DEF IInv, BuildsAreSound, BuildIsSound
  <2> QED
    BY <1>0, <2>0, <2>1, <2>4, <2>5, <2>6, <2>7
       DEF IInv, TypeOK, PendingWereAsked, AtomsHaveDocs
<1>6. ASSUME NEW w \in Workers, WorkerStep(w) PROVE IInv'
  BY <1>6, WorkerKeeps
<1>7. CASE UNCHANGED vars
  BY <1>0, <1>7, EngineStep DEF vars, TypeOK, PendingWereAsked, AtomsHaveDocs
<1> QED
  BY <1>1, <1>2, <1>3, <1>4, <1>5, <1>6, <1>7 DEF Next

LEMMA IInvAlways == Spec => []IInv
<1>1. Init => IInv
  BY IInvInit
<1>2. IInv /\ [Next]_vars => IInv'
  BY IInvStep
<1> QED
  BY <1>1, <1>2, PTL DEF Spec

-----------------------------------------------------------------------------
(* Theorems *)

\* Every variable keeps its type.
THEOREM TypeCorrect == Spec => []TypeOK
<1>1. IInv => TypeOK
  BY DEF IInv
<1> QED
  BY <1>1, IInvAlways, PTL

\* The versions of a client are 1, 2, 3, ... without a gap, for any number of
\* workers that build, collide and fail.
THEOREM VersionsDense == Spec => []VersionsAreDense
<1>1. IInv => VersionsAreDense
  BY DEF IInv
<1> QED
  BY <1>1, IInvAlways, PTL

\* Every stored diff is the difference to the version before.
THEOREM DiffsExact == Spec => []DiffIsAgainstPredecessor
<1>1. IInv => DiffIsAgainstPredecessor
  BY DEF IInv
<1> QED
  BY <1>1, IInvAlways, PTL

\* Every cited atom was given to the build, and its document is in the corpus
\* snapshot, although atoms and documents are read by separate queries.
THEOREM EvidenceAccounted == Spec => []EvidenceIsInCorpus
<1>1. IInv => EvidenceIsInCorpus
  BY DEF IInv
<1> QED
  BY <1>1, IInvAlways, PTL

\* A stored version is history: builds and approvals never change what it says,
\* and an approval is never taken back.
VersionsAreHistory ==
    [][\A v \in Stored :
          /\ v \in Stored'
          /\ [profile'[v] EXCEPT !.status = "draft"] = [profile[v] EXCEPT !.status = "draft"]
          /\ profile[v].status = "approved" => profile'[v].status = "approved"]_vars

\* A stored version changes only from draft to approved.
THEOREM HistoryKept == Spec => VersionsAreHistory
<1>1. IInv /\ [Next]_vars =>
        [\A v \in Stored :
            /\ v \in Stored'
            /\ [profile'[v] EXCEPT !.status = "draft"] = [profile[v] EXCEPT !.status = "draft"]
            /\ profile[v].status = "approved" => profile'[v].status = "approved"]_vars
  <2> SUFFICES ASSUME IInv, Next, NEW v \in Stored
               PROVE  /\ v \in Stored'
                      /\ [profile'[v] EXCEPT !.status = "draft"]
                            = [profile[v] EXCEPT !.status = "draft"]
                      /\ profile[v].status = "approved" => profile'[v].status = "approved"
    OBVIOUS
  <2>0. profile \in [Versions -> ProfileRow] /\ v \in Versions
    BY DEF IInv, TypeOK, Stored
  <2>1. ASSUME NEW w \in Workers, InsertProfile(w) PROVE profile'[v] = profile[v]
    BY <2>0, <2>1 DEF InsertProfile
  <2>2. ASSUME NEW u \in Versions, Approve(u)
        PROVE  profile'[v] = profile[v] \/ profile'[v] = [profile[v] EXCEPT !.status = "approved"]
    BY <2>0, <2>2 DEF Approve
  <2>3. ASSUME UNCHANGED profile PROVE profile'[v] = profile[v]
    BY <2>3
  <2>4. profile'[v] = profile[v] \/ profile'[v] = [profile[v] EXCEPT !.status = "approved"]
    BY <2>1, <2>2, <2>3
       DEF Next, WorkerStep, UploadDocument, ReplaceAtoms, Decide, RequestBuild, ReadAtoms,
           Compute, ReadDocuments, ReadLatest, InsertCollides, BuildRaises
  <2> QED
    BY <2>0, <2>4 DEF Stored, ProfileRow
<1> QED
  BY <1>1, IInvAlways, PTL DEF Spec, VersionsAreHistory
=============================================================================
