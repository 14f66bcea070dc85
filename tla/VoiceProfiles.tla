---------------------------- MODULE VoiceProfiles ----------------------------
(***************************************************************************)
(* The voice profiles of one client: builds queued by a request, computed  *)
(* by a worker from the client's atoms (pipeline/voice_profile.py) and     *)
(* approved by an operator (api/voice_profiles.py).                        *)
(*                                                                         *)
(* A build is one READ COMMITTED transaction with three queries, each with *)
(* a snapshot of its own, and minutes of a language model between the      *)
(* first and the second.  Atoms and documents keep changing meanwhile: the *)
(* atoms as ReviewLedger allows, which module Review implements.           *)
(*                                                                         *)
(* A section of a profile is abstracted to the set of atoms it cites in    *)
(* the places where the prompt asks for citations: evidence lists, and     *)
(* entries of a list with an atom_id.                                      *)
(***************************************************************************)
EXTENDS Naturals, Sequences

CONSTANTS
    Docs,          \* documents that may be uploaded
    AtomsPerDoc,   \* bound: atom ids of a document
    Sections,      \* the sections of a profile
    Workers,       \* threads that run builds; one is deployed
    MaxBuilds,     \* bound: how many builds are requested
    MaxDecisions,  \* bound: how many decisions operators take
    BuilderFails   \* whether the language model may fail

ASSUME BoundsAssumption ==
    AtomsPerDoc \in Nat /\ MaxBuilds \in Nat /\ MaxDecisions \in Nat
ASSUME BuilderFailsAssumption == BuilderFails \in BOOLEAN

AtomIds == [doc : Docs, n : 1 .. AtomsPerDoc]
Versions == 1 .. MaxBuilds

VARIABLES
    docs,      \* ids of the committed rows of table documents
    atom,      \* per atom id: its status, "absent" without a row
    ledger,    \* the decisions taken
    asked,     \* how many builds were requested
    pending,   \* how many of their jobs are queued
    profile,   \* per version: its row of table voice_profiles
    build      \* per worker: its build transaction

vars == <<docs, atom, ledger, asked, pending, profile, build>>

Ledger == INSTANCE ReviewLedger WITH state <- atom

Payload == [Sections -> SUBSET AtomIds]

\* previous is 0 where the code stores null; atoms stands for the count and
\* the digest of the atoms the build was given.
ProfileRow == [status : {"absent", "draft", "approved"}, payload : Payload,
               atoms : SUBSET AtomIds, docs : SUBSET Docs,
               changed : SUBSET Sections, previous : 0 .. MaxBuilds]

Build == [pc : {"idle", "compute", "documents", "latest", "insert"},
          atoms : SUBSET AtomIds, payload : Payload, docs : SUBSET Docs,
          latest : 0 .. MaxBuilds]

NoPayload == [s \in Sections |-> {}]
AbsentRow == [status |-> "absent", payload |-> NoPayload, atoms |-> {}, docs |-> {},
              changed |-> {}, previous |-> 0]
NoBuild == [pc |-> "idle", atoms |-> {}, payload |-> NoPayload, docs |-> {}, latest |-> 0]

TypeOK ==
    /\ docs \subseteq Docs
    /\ atom \in [AtomIds -> Ledger!States]
    /\ ledger \in Seq(AtomIds)
    /\ asked \in 0 .. MaxBuilds
    /\ pending \in 0 .. MaxBuilds
    /\ profile \in [Versions -> ProfileRow]
    /\ build \in [Workers -> Build]

Init ==
    /\ docs = {}
    /\ Ledger!Init
    /\ asked = 0
    /\ pending = 0
    /\ profile = [v \in Versions |-> AbsentRow]
    /\ build = [w \in Workers |-> NoBuild]

\* The versions that have a row.
Stored == {v \in Versions : profile[v].status # "absent"}

-----------------------------------------------------------------------------
(* The rest of the engine *)

UploadDocument(d) ==
    /\ docs' = docs \cup {d}
    /\ UNCHANGED <<atom, ledger, asked, pending, profile, build>>

\* The pipeline replaces atoms of a document that is there.
ReplaceAtoms(d) ==
    /\ d \in docs
    /\ Ledger!Replace(d)
    /\ UNCHANGED <<docs, asked, pending, profile, build>>

Decide(i, verdict) ==
    /\ Len(ledger) < MaxDecisions
    /\ Ledger!Decide(i, verdict)
    /\ UNCHANGED <<docs, asked, pending, profile, build>>

-----------------------------------------------------------------------------
(* Requests *)

\* POST /voice-profile: 409 unless the client has an atom, in whatever status.
RequestBuild ==
    /\ asked < MaxBuilds
    /\ \E i \in AtomIds : atom[i] # "absent"
    /\ asked' = asked + 1
    /\ pending' = pending + 1
    /\ UNCHANGED <<docs, atom, ledger, profile, build>>

\* POST /voice-profile/{version}/approve: 404 when the version is not there.
Approve(v) ==
    /\ v \in Stored
    /\ profile' = [profile EXCEPT ![v].status = "approved"]
    /\ UNCHANGED <<docs, atom, ledger, asked, pending, build>>

-----------------------------------------------------------------------------
(* build_voice_profile *)

\* The atoms a build is given: those nobody deprecated.
Usable == {i \in AtomIds : atom[i] \notin {"absent", "deprecated"}}

\* Mutant: builds run without a queued job behind them.
ReadAtomsUnasked(w) ==
    /\ build[w].pc = "idle"
    /\ pending' = pending - 1
    /\ build' = IF Usable = {} THEN build
                ELSE [build EXCEPT ![w] = [NoBuild EXCEPT !.pc = "compute", !.atoms = Usable]]
    /\ UNCHANGED <<docs, atom, ledger, asked, profile>>

\* A worker takes the job and reads the atoms; without any it raises, and the
\* job is over.
ReadAtoms(w) ==
    /\ build[w].pc = "idle"
    /\ pending > 0
    /\ pending' = pending - 1
    /\ build' = IF Usable = {} THEN build
                ELSE [build EXCEPT ![w] = [NoBuild EXCEPT !.pc = "compute", !.atoms = Usable]]
    /\ UNCHANGED <<docs, atom, ledger, asked, profile>>

\* Mutant: the model's citations are stored as they come.
ScrubNothing(payload, given) == payload

\* Citations of atoms the builder was not given are dropped.
ScrubEvidence(payload, given) == [s \in Sections |-> payload[s] \cap given]

\* The builder returns.  A model may cite anything, invented ids included; the
\* rule-based builder cites some of the atoms it was given.
Compute(w, payload) ==
    /\ build[w].pc = "compute"
    /\ build' = [build EXCEPT ![w] =
          [@ EXCEPT !.pc = "documents",
                    !.payload = ScrubEvidence(payload, build[w].atoms)]]
    /\ UNCHANGED <<docs, atom, ledger, asked, pending, profile>>

\* The documents of the corpus are read after the atoms.
ReadDocuments(w) ==
    /\ build[w].pc = "documents"
    /\ build' = [build EXCEPT ![w] = [@ EXCEPT !.pc = "latest", !.docs = docs]]
    /\ UNCHANGED <<docs, atom, ledger, asked, pending, profile>>

ReadLatest(w) ==
    /\ build[w].pc = "latest"
    /\ \E v \in Stored \cup {0} :
          /\ \A u \in Stored : u <= v
          /\ build' = [build EXCEPT ![w] = [@ EXCEPT !.pc = "insert", !.latest = v]]
    /\ UNCHANGED <<docs, atom, ledger, asked, pending, profile>>

\* Mutant: a section that lost citations does not count as changed.
ChangedByAddition(latest, payload) ==
    IF latest = 0 THEN Sections
    ELSE {s \in Sections : ~(payload[s] \subseteq profile[latest].payload[s])}

\* _diff_sections: what changed against the latest version.
Changed(latest, payload) ==
    IF latest = 0 THEN Sections
    ELSE {s \in Sections : profile[latest].payload[s] # payload[s]}

NewRow(b) == [status |-> "draft", payload |-> b.payload, atoms |-> b.atoms, docs |-> b.docs,
              changed |-> Changed(b.latest, b.payload), previous |-> b.latest]

\* Mutant: versions are numbered by request, failed builds included.
InsertProfileByRequest(w) ==
    LET b == build[w] IN
    /\ b.pc = "insert"
    /\ asked \in Versions \ Stored
    /\ profile' = [profile EXCEPT ![asked] = NewRow(b)]
    /\ build' = [build EXCEPT ![w] = NoBuild]
    /\ UNCHANGED <<docs, atom, ledger, asked, pending>>

\* Mutant: the session ends without a commit.
InsertProfileUncommitted(w) ==
    /\ build[w].pc = "insert"
    /\ build[w].latest + 1 \in Versions \ Stored
    /\ build' = [build EXCEPT ![w] = NoBuild]
    /\ UNCHANGED <<docs, atom, ledger, asked, pending, profile>>

\* The next version is inserted and committed, unless another build has taken
\* its number meanwhile: uq_voice_profiles_client_version.
InsertProfile(w) ==
    LET b == build[w] IN
    /\ b.pc = "insert"
    /\ b.latest + 1 \in Versions \ Stored
    /\ profile' = [profile EXCEPT ![b.latest + 1] = NewRow(b)]
    /\ build' = [build EXCEPT ![w] = NoBuild]
    /\ UNCHANGED <<docs, atom, ledger, asked, pending>>

\* The insert violates the constraint: the transaction rolls back and the job
\* fails.
InsertCollides(w) ==
    /\ build[w].pc = "insert"
    /\ build[w].latest + 1 \in Stored
    /\ build' = [build EXCEPT ![w] = NoBuild]
    /\ UNCHANGED <<docs, atom, ledger, asked, pending, profile>>

\* The model fails, or returns no JSON object, or one without we_are.
BuildRaises(w) ==
    /\ BuilderFails
    /\ build[w].pc = "compute"
    /\ build' = [build EXCEPT ![w] = NoBuild]
    /\ UNCHANGED <<docs, atom, ledger, asked, pending, profile>>

-----------------------------------------------------------------------------
WorkerStep(w) ==
    \/ ReadAtoms(w) \/ (\E payload \in Payload : Compute(w, payload))
    \/ ReadDocuments(w) \/ ReadLatest(w) \/ InsertProfile(w) \/ InsertCollides(w)
    \/ BuildRaises(w)

Next ==
    \/ \E d \in Docs : UploadDocument(d) \/ ReplaceAtoms(d)
    \/ \E i \in AtomIds, verdict \in Ledger!Decided : Decide(i, verdict)
    \/ RequestBuild
    \/ \E v \in Versions : Approve(v)
    \/ \E w \in Workers : WorkerStep(w)

Spec == Init /\ [][Next]_vars

\* worker_loop polls for ever and runs a build to its end.
Fairness == \A w \in Workers : WF_vars(WorkerStep(w))

FairSpec == Spec /\ Fairness

-----------------------------------------------------------------------------
(* Properties *)

\* Versions count from 1 without a gap, whatever builds fail or collide: a
\* client that saw version n can ask for every version below it.
VersionsAreDense == \A v \in Stored : \A u \in 1 .. v : u \in Stored

\* The diff stored with a version is the difference to the version before it,
\* although it was computed before the version got its number for good.
DiffIsAgainstPredecessor ==
    \A v \in Stored :
        /\ profile[v].previous = v - 1
        /\ profile[v].changed =
              IF v = 1 THEN Sections
              ELSE {s \in Sections : profile[v].payload[s] # profile[v - 1].payload[s]}

\* The corpus snapshot of a version accounts for its evidence: whatever was
\* uploaded or replaced during the build, a cited atom was given to the builder
\* and came from a document the snapshot lists.
EvidenceIsInCorpus ==
    \A v \in Stored : \A s \in Sections : \A i \in profile[v].payload[s] :
        i \in profile[v].atoms /\ i.doc \in profile[v].docs

\* A build whose model answered leads to a version later than those there at
\* that moment, its own or that of the build it collided with.
BuildsAppear ==
    \A w \in Workers, v \in 0 .. MaxBuilds :
        build[w].pc = "documents" /\ Stored = 1 .. v ~> v + 1 \in Stored
=============================================================================
