# A verification project for the Client Content Engine

The engine ingests a client's documents, cuts them into *atoms* (statements with
provenance), lets operators review the atoms, and serves them to generators by
hybrid search, as a context bundle and as voice profiles. It is one FastAPI
process with one worker thread over Postgres and a directory of files. This
directory holds TLA+ modules of its stateful core, the TLC runs that check
them and TLAPS proofs about them. Paths below are relative to
`src/content_engine/` unless they start with `docs/` or `migrations/`.

## 1. Inventory

| Component | State | Operations | Talks to |
|---|---|---|---|
| Job queue and worker (`jobs.py`, `main.py`) | table `jobs`; the worker's place in a job | claim, run, record, mark document, poll again | runner, profile builder, documents |
| Documents API (`api/documents.py`) | table `documents`; raw files | upload, reprocess, list, get | storage, jobs |
| Pipeline runner (`pipeline/runner.py`) | `documents.status`, `cleaned_path`; tables `atoms`, `lineage`; derived files | parse and clean; atomise and embed | storage, cleaner, atomizers, providers |
| Review (`api/decisions.py`) | `atoms.status/text/content_hash/embedding`; table `decisions` | confirm, override, deprecate, list | the runner, through table `atoms`; embedding provider |
| Voice profiles (`pipeline/voice_profile.py`, `api/voice_profiles.py`) | table `voice_profiles` | request, build, approve, get, list | jobs, atoms, documents, language model |
| Storage (`storage.py`) | raw tree, derived tree, temporary files | `put`, `put_derived`, `get` | uploads, runner, context |
| Search (`search.py`, `api/search.py`) | none | two ranked legs, fusion, fetch | atoms, embedding provider |
| Context (`api/context.py`) | none | snapshot, constraints, search, corpus | search, storage |
| Tenant sessions (`db.py`, `migrations/`) | `app.client_id` of a transaction; RLS policies; roles | open a session for a client | every component |
| Parser, cleaner, Docling adapter | none (a converter singleton) | text to text | runner |
| Atomizers (`pipeline/atomise.py`, `pipeline/atomise_llm.py`) | none | text to atoms | runner, language model |
| Providers (`providers/`) | an SDK client | `generate`, `embed` | external services |
| Clients and atoms APIs, auth, config, schemas | table `clients`; settings | create, list, compare a token | – |

What is hard in it:

* **Several transactions per logical operation.** A job is a claim, two pipeline
  transactions, an outcome and perhaps a mark on the document. A death between
  any two leaves the rest undone, and nothing at start-up looks for it.
* **READ COMMITTED with an ORM.** Each query has its own snapshot, rows are
  loaded without locks, and a flush writes only the columns that differ from what
  was loaded. Two handlers can interleave into a row neither meant.
* **Minutes between reading and writing.** Language model and embedding calls
  sit inside transactions: atoms, documents and versions change meanwhile.
* **Files beside rows.** The file system does not roll back.
* **Reprocessing against review.** Atoms are replaced wholesale while operators
  decide on them.
* **Tenancy without a WHERE.** No query names a client. Isolation rests on a setting
  of a transaction on a pooled connection, on the policies that read it, and on a
  worker that hops from a session over all tenants into sessions of one.

What makes each component correct:

* jobs: a job is run by one worker, once; its outcome is final; a status that
  announces work has work behind it, or a job on record that failed or was abandoned;
  polling ends; deaths do not wedge the queue;
* review: no decision loses its atom; reviewed atoms survive verbatim; reprocessing
  fails on a statement stored twice only where an operator's override came between; the log
  explains the table; an embedding is that of its text; nothing extracted is lost;
  replacement is atomic;
* profiles: versions have no gaps, diffs are against the version below, evidence
  is covered by the corpus snapshot, history is immutable, builds appear;
* storage: committed paths name whole files; no partial reads; raw files are
  written once; a lineage record names the text it commits with;
* search: what is there throughout is found, what is hidden throughout is not, and
  agreement of the legs wins;
* context: constraints in force are in the bundle while it has room; deprecated
  atoms are not;
* tenancy: a session sees its client's rows, or none without a tenant; rows stay with
  the client of their document; a client cannot tell that there are others;
* extraction: breadcrumbs name the enclosing headings; atoms are distinct; duplicates
  crowd nothing out; a summary leads; no empty extraction replaces a document's atoms.

## 2. Modules

| Module | Models | Built on |
|---|---|---|
| `JobLifecycle` | what the jobs table promises its callers | – |
| `Jobs` | queue, worker, document status, reprocess | implements `JobLifecycle` |
| `ReviewLedger` | what the review workflow promises | – |
| `Review` | atoms, replacement, decisions, log | implements `ReviewLedger` |
| `VoiceProfiles` | profile builds and versions | uses `ReviewLedger` as the atoms' behaviour |
| `Files` | files beside rows, uploads, cleaning, readers, deaths | – |
| `Fusion` | reciprocal rank fusion of two legs | – |
| `Retrieval` | one search or context request against changing atoms | composes `Review` and `Fusion` |
| `TenantTables` | what isolation promises: tables of one's own | – |
| `Tenancy` | sessions, pooled connections, roles, policies, handlers, worker | implements `TenantTables` |
| `Extraction` | heading tree, both atomizers, deduplication and limits | – |
| `MCReview`, `MCFiles`, `MCRetrieval`, `MCTenancy`, `MCExtraction` | symmetry and input sets for TLC | the module of the name |
| `*_proofs` | theorems | |

Definitions whose comment begins with *Mutant* are faulty variants of the definition
after them. No specification uses them: they document which mistake each property
catches.

### Jobs

`job` is the jobs table (ids in the order of `created_at`), `docStatus` and
`cleanedPath` the committed columns of documents, `request` the reprocess
handlers between load and commit, `worker` each thread's program counter with the
value its session loaded and the one it will write. One action per step of
`claim_and_run_next`: `LockNextJob` (the SELECT with SKIP LOCKED), `CommitClaim`,
`ParseDocument`, `CleanDocument`, `CommitCleaned`, `AtomiseDocument`,
`CommitAtomised` or `BuildVoiceProfile`, `RecordOutcome`, `LoadForMark`,
`MarkDocumentFailed`; failures are `StageRaises` (the try block), `PollRaises`
(a database error outside it, caught by `worker_loop`) and `Crash`. `Flushed` is
the ORM's rule that an attribute equal to the loaded one is not written.
`lastFinished` and `crashes` are history and a bound. Requests are `UploadDocument`,
`OpenReprocess`/`CommitReprocess`/`AbortReprocess` and `RequestProfileBuild`.

### Review

`live` and `row` are table atoms, `txn` the replacement transactions of the
workers, `req` the decision transactions of the operators, `log` table decisions.
A text and its hash are one value. The replacement has three places where others
interleave: the DELETE's snapshot (`BeginReplace`), its locks and re-check
(`DeleteProvisional`), the query of surviving hashes (`SurveySurvivors`) and the
flush with commit (`CommitReplace`). `CommitDecision` writes the columns that
differ from those `LoadAtom` saw; a row that is gone, or a hash that is taken, leaves
only `RejectDecision`. `Colliding` is the unique constraint.

### VoiceProfiles

`profile` is table voice_profiles by version, `build` a worker's transaction with
its three snapshots (`ReadAtoms`, `ReadDocuments`, `ReadLatest`), `Compute` the
builder followed by `ScrubEvidence`. `InsertProfile` and `InsertCollides` are the two
outcomes of the insert under `uq_voice_profiles_client_version`. The atoms change by
the actions of `ReviewLedger`, the abstract specification `Review` is proved to
implement. A section is the set of atoms it cites *in the places the prompt asks for
citations*; citations elsewhere in the model's JSON are outside this module.

### Files

`raw`, `rawTmp`, `derived`, `derivedTmp` are the four names a content has on disk,
each absent, torn or whole (for derived text: the work of one cleaner version).
`put` is `OpenRaw`, `FillRaw`, `PublishRaw`; `put_derived` likewise; `Restart` is the
death of the process followed by a start of the same or a newer deployment. One
upload runs at a time because the handler is a coroutine that does not await after
reading the bytes; one worker is deployed.

### Retrieval and Fusion

`search` is one request through `BeginSearch`, for a context request
`QueryConstraints`, then `VectorLeg`, `KeywordLeg` and `FetchRows`, each a snapshot of
the rows of `Review`. A request says to which endpoint it goes, which statements are
constraints by their type, which have the type a search asks for (all when it names none),
which ones its text matches, and whether the embedding provider answers. The type is that of
the extracted statement: an override rewords an atom and keeps its type. A leg may rank eligible rows in any order and is cut at `LEG_LIMIT`.
Scores are exact fractions. `FetchRows` sorts what was found by score (`Before`), takes the
top of it and lists the rows still there; a context request sorts them again (`Ahead`),
confirmed ones first. `Sorted` is the set of listings in an order: that there is always
one is proved, not assumed. The vector leg
scans the table (the migrations create no vector index), so it ranks every row
it may. `cut`, `stable` and `hidden` are history: whether `LEG_LIMIT` cut a leg, and
the atoms that were findable, or deprecated, in every state since the search began;
`binding` is the same for constraints in force.

### Tenancy and TenantTables

`rows` are the tenant tables together, each row with its table, client, document and the
state handlers select by. `conn` is a pooled connection of `engine_app`: the value
`current_setting('app.client_id', true)` returns, what it falls back to after the
transaction (unset on a fresh connection, blank once it was set), and the session that
uses it. A request is `Begin`, `SetTenant` (`tenant_session`), `Query` (the handler's
first statement, filtered by `Admits` only) and `Commit` or `Close`; `CreateClient` runs
without a tenant. `Asked`, `Continues`, `Inserted` and `Removed` are the handlers: what
the first query asks for, when the handler goes on to write, and what it writes. The
worker's `Claim` and `RecordOutcome` run as `engine_worker`, whose policy admits the jobs
of every tenant; between them `RunStage` opens sessions of the client it carries.
Documents are named by client and content, so that a request of one client may name a
document of another. Postgres checks foreign keys past the policies, and `Insertable` does
as well. `TenantTables` gives each client tables of its own, with the same operations.

### Extraction

A document is its headings, each with level, whether it is a table of contents, and the
first sentence under it; a transcript is its lines; a model's answer is its items.
`ReadHeading` is one turn of the loop of `parse_text` together with that of
`_document_atoms`, with `ancestors` as the stack; `ReadLine` one of `_transcript_atoms`;
`KeepFirst` and `ReturnAtoms` are the end of `extract_atoms`; `ReadItem`, `ItemRaises`,
`AnswerRaises` and `EndItems` are `LLMAtomizer.extract`. A text is its first
`MAX_QUOTE_CHARS` characters and a tail, so that two texts may be equal once cut.

## 3. Runs

All bounds are constants named in the modules. Deadlock is checked in `Files`, whose
behaviours never end; in the others an answer, or the bounds on jobs, runs,
decisions, builds and requests, make an ordinary end, so their configurations switch the check off.

| Run | Instance | Shows |
|---|---|---|
| `Jobs_settle` | 2 documents, the one deployed worker, 3 jobs, stage failures | TypeOK, SettledStatus, NeverStranded, EveryRunIsRecorded, PollingEnds |
| `Jobs_crash` | 1 document, 2 workers, 2 jobs, stage and database failures, 2 deaths | OneWorkerPerJob, StrandedIsOnRecord, Implements, EveryJobIsTaken |
| `Review_operator` | 3 statements, 1 worker, 1 operator, 3 processings, 2 decisions | TypeOK, LogExplainsAtoms, SingleGeneration, CollisionsAreOverrides, NothingExtractedIsLost |
| `Review_concurrent` | 2 documents, 2 statements, 2 workers, 2 operators, 2 processings, 2 decisions | DecisionsKeepTheirAtom, ReviewedSurvive, Implements |
| `Profiles` | 2 documents, 1 section, 2 workers, 2 builds, 1 decision, a model that may fail | TypeOK, VersionsAreDense, DiffIsAgainstPredecessor, EvidenceIsInCorpus, BuildsAppear |
| `Files_crash` | 2 contents, 2 cleaner versions, any number of deaths | TypeOK, RowsHaveFiles, ReadsAreWhole, RawWrittenOnce, LineageNamesText |
| `Search` | 3 statements, 1 worker, 1 operator, 2 processings, legs of 2, damping 1, 1 constraint per bundle | SearchTypeOK, StableAtomsAreFound, DeprecatedStayHidden, AgreementFirst, ConstraintsAreIncluded |
| `Tenancy` | 2 clients, 1 content, 2 connections, 1 worker, 5 requests | TypeOK, Isolation, ChildrenStayWithParents, Implements |
| `Extraction` | sources of up to 3 elements, 3 levels, 4 texts, limits 3 and 2 | TypeOK, BreadcrumbEncloses, DistinctAtoms, NothingCrowdedOut |
| `Jobs_stuck`, `Review_embedding`, `Review_correction` | the smallest instances | counterexamples, section 5 |

Why the bounds are enough. An overtaken outcome needs two jobs of one document and a
third to settle it or to run on another document: `Jobs_settle` has three. A conflict
over the queue needs two workers and one row, and two deaths let the second strike
after the first left its debris: `Jobs_crash` has both, with a second job behind the
first. A stale load needs one transaction begun before and one committed after, hence two
decisions and two processings; the third processing of `Review_operator` starts from the
rows two earlier ones and a decision left. `Review_concurrent` has a second document so
that a replacement could hit rows that are not its own. A version collision and the diff
against a predecessor need two builds at once. In `Search` three statements are enough
for an atom found by both legs to compete with one found first by either, and the
damping is at the boundary `LEG_LIMIT = RRF_K + 1`, where one step less fails; two
constraints compete for the one place of a bundle. In `Tenancy` both clients upload
the same content and either may name the other's document; two registrations and an upload
leave two requests to meet on the connections those used, and the worker takes a third
place on them. In `Extraction` a third heading may close one, two or no ancestors, and
three elements fill the smaller limit with a duplicate before it. For every
value beyond the bounds there are the proofs of section 4.

Fairness. `worker_loop` never ends: it catches what a poll raises, sleeps and polls
again, so a worker that can take a step eventually does (`WF` of each worker's steps,
never of all of `Next`). Its claim may be undone by a database error and retried;
`SF` of `CommitClaim` says that of the claims tried for ever one commits, that is, that
a database is unavailable only for a while, which is what the handler in `worker_loop`
is written for (`jobs.py:70`, "DB briefly unavailable — stay alive"). A
reprocess handler that opened its transaction ends it (`WF` of `CommitReprocess`).
Uploads, opening a reprocess, decisions, approvals, failures, deaths and replacements are
not fair: nobody must act.

`StrandedIsOnRecord` is the part of `NeverStranded` that survives database errors and deaths.
`CollisionsAreOverrides` is about the staleness of the surviving hashes
(`pipeline/runner.py:119`): they are read once and used until the flush, and a statement
they miss fails the whole replacement on `uq_atoms_doc_content`. The history field `seen`
is the length of the log at the survey, so that only overrides made since count as an excuse.

Properties that need a condition. `SettledStatus`, `SingleGeneration`, `CollisionsAreOverrides`
and `NothingExtractedIsLost` run with the one worker that is deployed
(`docs/DEPLOY_CHECKLIST.md`: one process). With two, late commits on one document overtake each
other, and two replacements of a document that start from the same snapshot insert both
their generations. The theorems say what it takes: no two workers on one document at a time
(`OneJobPerDoc`, `OneReplacementPerDoc`), which one worker meets, and so would several with a
lock per document. `LogExplainsAtoms` runs with one operator; it needs that no two decisions
on one atom overlap (`OneDecisionPerAtom`; section 5 has what two do). So does
`EmbeddingIsOfText`, which is proved from it and shown violated without it. The other safety properties do not depend on the number of workers or operators;
`NeverStranded` runs with one worker and is proved for any number (`NobodyStranded`).

## 4. Proofs

Every theorem is checked to its leaves and holds for all values of the constants
under the named assumptions (sentinels are not members of the sets they extend,
bounds are naturals, `Cleaners` is not empty; in `Retrieval`, documents and statements are
finitely many). A theorem about a condition states it as a hypothesis on the whole behaviour,
`Spec /\ []Condition => []Property`, and a corollary names a deployment that meets it.

**Jobs_proofs.** `IInv` is `TypeOK` with: ids above `clock` are unborn (`Unborn`), a
worker past the claim holds a row that says running, and before it one that says queued
(`HeldJobs`), and no two workers hold the same row. `OneWorkerPerJob` alone is not
inductive: what stops a second worker is that the row of a held job is locked or no
longer queued. From `IInv` follow `TypeCorrect`, `WorkersExclusive`, `AttemptedOnce`,
`OutcomesFinal` and the refinement `ImplementsLifecycle`, where the stages map to
stutters. `OneAttempt` and `OutcomeIsFinal` are stated with their proofs: they follow
from what `Implements` checks. `CleanedFirst` says that the guard of the second stage
never fires (`CleanedBeforeAtomise`). `NobodyStranded` is proved for the case without database errors and
deaths, since with them it is false (section 5). `SInv` adds that a status about to be written is
final or followed by more work (`PendingStatus`) and that every document is covered by a
job, a worker or a mark (`AllCovered`).
`DocumentsSettle` proves `SettledStatus` from `OneJobPerDoc`, again without database errors and
deaths. `TInv` says that a document shows the outcome of its last job, or has a job queued,
or a worker on it (`DocInv`), and what such a worker carries (`Carried`): the status it will
write, against the one its session loaded, since the ORM writes nothing when they are equal.
A reprocess request may commit between the two, so `Carried` falls back on the job that request
queued. `SingleWorkerSettles` is the deployed case.
`NotSilentlyStranded` allows every fault: `NInv` adds to `IInv` that a document which announces
work has a job on record that is not done and that no worker is about to record as done
(`OnRecord`, `Unfinished`). `ParsedIsNeverSeen` says that status `parsed` is never committed.

**Review_proofs.** `IInv` has, next to `TypeOK`: doomed rows are provisional
and belong to one transaction (`DoomedAreProvisional`, `DoomedOnce`), the ids a
transaction will insert are new (`RunsAreFresh`), a decision that will emit no UPDATE
loaded a reviewed row (`LoadedReviewed`), and `DecisionsKeepTheirAtom`. From it
`DecisionsKept`, `ReviewedAtomsSurvive` and the refinement
`ImplementsLedger`: of all the steps only two commits change the abstract state.

Three more invariants serve the properties with a condition. `DInv`, under
`OneDecisionPerAtom`: a row loaded by an open decision is still what the table has
(`LoadedIsCurrent`; a replacement may delete it, never change it), so the columns that are not written
already have the wanted values, and the last entry about an atom explains it
(`Explained`). From it `LogExplains`, `EmbeddingsFollowText` and, for one operator,
`SingleOperator`. `RInv`, under `OneReplacementPerDoc`: the provisional rows of a document being
replaced are among those its DELETE saw and locked, less those decided meanwhile (`Sweeps`),
every stored hash is a wording of its atom (`HashIsAWording`), and an extracted
statement the survey dropped is a wording of an atom that stays (`DroppedAreKept`). From it
`OneGeneration` and `ExtractedKept`. `CInv`, under the same condition: whatever a surveyed
transaction would collide with came into the table by an override logged after the survey
(`CInvDecision` for the decision that does it). From it `CollisionsExplained`; `SingleWorker` is
the deployed case of the three.

**Retrieval_proofs.** The properties of an answer compare it with the past, so `SInv`
carries the past along: what the history variables hold is still so (`HistoryHolds`), no leg has an
atom deprecated since before it was ranked (`LegsAreEligible`), a leg that left nothing out
has every atom that stayed findable (`LegsAreComplete`), a bundle keeps the constraints it
was given (`BundleHasConstraints`). A step of the worker or an operator only shrinks the
history (`ObserveStep`), with `IInv` of `Review` kept beside it. Then `SearchTypeCorrect`,
`StableFound`, `DeprecatedHidden`, `ConstraintsIncluded`, and `AgreementComesFirst`, which
takes `AgreementWins` through the stable sort, the cut, the rows that vanished and the second
sort. That a leg of all rows is onto them, and that a cut list is no longer than its limit, are
counting lemmas over finite sets (`AtomsAreFinite`, `RankingOf`, `TopOf`). `OneAnswerAlways`
proves that `FetchRows` is neither stuck nor a choice: scores compare as fractions do
(`Fractions`), ties fall back on the order of insertion, so both sorts are strict and total
(`BeforeOrders`, `AheadOrders`), and a strict total order lists a finite set in exactly one
way (`OneListing`, by counting the elements before each one, which needs no induction).

**VoiceProfiles_proofs.** `IInv` says what a build carries between its snapshots
(`BuildsAreSound`): its payload cites what it was given, its document list covers
that, and the version it read as latest exists with everything below. Stored versions
never change, so a diff computed early is still right when the insert succeeds.
`TypeCorrect`, `VersionsDense`, `DiffsExact`, `EvidenceAccounted`, `HistoryKept`.

**Files_proofs.** `IInv` ties each program counter to what is on disk at that moment
(`UploadIsSound`, `WorkIsSound`): a temporary file is whole just before its rename. Then
`TypeCorrect`, `FilesBehindRows`, `ReadsWhole`, `RawImmutable`, `LineageTrue`.

**Tenancy_proofs.** `IInv` says of every connection (`SessionInv`) that a scoped session
has its client as setting, a pooled one its default, which is never a client, and that what
it was shown is of its client and answers its query; of every worker (`TaskInv`, `LinkInv`) that it carries a
client and uses one connection; and of all rows (`OwnDocs`) that they belong to the client
of their document. `ChildrenStayWithParents` is not inductive: an insert is safe because
the session loaded the document before (`ContinuesOwn`), which is safe because rows
belonged to their clients before. Then `TypeCorrect`, `IsolationHolds` (with the part
that a connection without a tenant is shown nothing), `ChildrenStay` and the refinement `ImplementsOwnTables`. That one needs `RInv`: documents are plain, atoms have
a document (`Sorted`), and no statement is provisional and reviewed at once (`OneState`),
for otherwise a decision that saw only one of two atoms would keep the provisional one that
`Reviewed` takes away. `OneClientChanges` carries a write to the shared rows over to the tables of one
client; `CommitChanges` and `JobMovesOwn` go through the handlers and the worker.

**Extraction_proofs.** `StackInv` is the heart of the heading tree: between two headings
the stack holds exactly those that enclose the last one, in order. `PathEncloses` proves
that popping all ancestors at least as deep and pushing the new heading keeps that; that the
loop stops where it should (`KeptProperties`) needs a greatest element of a bounded set of
numbers (`GreatestOf`). `SeenInv` and `ProgressInv` relate the hashes seen to the distinct
atoms and to what has been looked at; `LeadInv` is about the summary. Then
`TypeCorrect`, `BreadcrumbsHold`, `Distinct`, `NothingLost`, `SummaryFirst`,
`SomethingExtracted`: every property of the run, and two stated with the proofs
(`SummaryLeads`, `NeverEmptied`).

**Fusion_proofs.** `AgreementWins`: when a leg is no longer than `RRF_K + 1`, the sum of
any two ranks outweighs any single one; `DeployedConstants` says 60 and 50
qualify. `BetterRankWins` needs no condition.

Model-checked only: liveness (`EveryRunIsRecorded`, `PollingEnds`, `EveryJobIsTaken`,
`BuildsAppear`), which this prover does not reach. Every invariant and every action
property of a passing run is the statement of a theorem.

## 5. Where the code and its documentation part

Three disagreements have a run whose counterexample is the scenario.

* `Jobs_stuck`: a process that dies mid-job leaves it running for ever, recorded
  neither on the job nor on the document.
* `Review_embedding`: two overrides in flight together may leave the text of one with
  the embedding of the other.
* `Review_correction`: after an override, reprocessing brings the original wording
  back as a provisional atom.

Others follow from the modules without a run of their own: a death between the
two transactions that record a failure leaves a failed job with a document that still
says uploaded or cleaned (`StrandedIsOnRecord` is what remains true); status `parsed` is never
committed, because it is overwritten before a flush (`ParsedIsNeverSeen`); a confirm and a deprecate of one atom in flight together may leave the log
ending in one and the atom in the state of the other; a search that spans a commit can show
a deprecated atom, or miss a statement that was in the table throughout. A build accepted
while only deprecated atoms are left (`api/voice_profiles.py:54` asks for an atom of any
status, `pipeline/voice_profile.py:240` raises without another) never yields the version
its client is told to poll for. A cleaned text published by a transaction that never
committed is not explained by the lineage (`storage.py:50`), although `LineageNamesText`
holds: a text may outrun its record, never the reverse. Constraints in force are included
only up to 50 (`api/context.py:112`), where the docstring at line 5 says always, and
`ConstraintsAreIncluded` says no more. Confirmed
atoms are put first after the search was cut to its limit (`api/context.py:117`), so one
below the cut is lost to provisional ones above it. Text before the first heading is
in no section and yields no atom (`parse.py:37-70`). A model's item whose text is a number
raises where other invalid items are dropped (`atomise_llm.py:154`).

## 6. Not modelled, and why

The cleaner's regular expressions and the patterns of the rule-based atomizer: which
lines match is left open. Prompts, and the clamping of confidence, impact and source
lines, and the collapse of white space after a quote is cut (`atomise_llm.py:171`; texts that
differ in it alone are one text here): data no property here distinguishes. The voice snapshot, the corpus' character
limit, staleness and the completeness counts of a context bundle: each the presentation of a
single query. Citations in the model's JSON outside the places the prompt names
(`pipeline/voice_profile.py:126`). Several statements per document in `Tenancy`: one
stands for all, `Review` has the others. Two sessions of a tenant that change only columns
`Tenancy` does not keep: the mark of a failed document (`jobs.py:55`), which `Jobs` has, and the
approval of a profile (`api/voice_profiles.py:87`), which `VoiceProfiles` has. What models, embedders and Docling answer: external. Loss of power,
where the order of file and database writes is the file system's. Several
processes sharing one directory: not deployed. Auth, settings, schemas: one statement
each, without interleaving. The payload of atoms beyond
what decisions touch, confidence and impact: data no property here distinguishes.

## 7. Plan

Order of the work, the most important behaviour first. Done: 1–7 and 10.

1. `JobLifecycle`, `Jobs`: the queue every pipeline run goes through.
2. `ReviewLedger`, `Review`: reprocessing against review.
3. `VoiceProfiles` over `ReviewLedger`.
4. `Files`.
5. `Fusion`, `Retrieval` over `Review`, with context requests.
6. `TenantTables`, `Tenancy`: isolation, and the tables of one's own it implements.
7. `Extraction`: heading tree, atomizers, deduplication and limits.
8. `Engine`: `Jobs`, `Review` and `Files` composed for one document, so that a stage's
   status, atoms, files and lineage change in the same step.
9. Citations in trees (`_scrub_evidence` over bounded JSON).
10. Proofs: every safety property of the runs, those of one worker or one operator under
   the weakest condition found; that a search has one answer.
11. Proofs about 8 and 9 once they exist.
