-------------------------------- MODULE Jobs --------------------------------
(***************************************************************************)
(* The database-backed job queue and the status of the documents it        *)
(* processes: content_engine/jobs.py, the status handling of               *)
(* pipeline/runner.py, and the request handlers that enqueue work          *)
(* (api/documents.py, api/voice_profiles.py).                              *)
(*                                                                         *)
(* Postgres runs at READ COMMITTED.  A transaction appears here as a       *)
(* step that loads and a later step that commits, whenever something else  *)
(* can commit in between.  Sessions write with the rule of the ORM: a      *)
(* column is updated only when its value differs from the one the session  *)
(* loaded (see Flushed).                                                   *)
(*                                                                         *)
(* What the pipeline computes is abstracted: a stage succeeds or raises.   *)
(* The atoms it writes are the subject of module Review.                   *)
(***************************************************************************)
EXTENDS Naturals

CONSTANTS
    Docs,        \* documents that may be uploaded (one per distinct sha256)
    NoDoc,       \* document_id of a job that is not about a document
    Workers,     \* threads that run claim_and_run_next; one is deployed
    NoJob,       \* a worker's job while it has none
    MaxJobs,     \* bound: how many jobs the requests create in total
    MaxCrashes,  \* bound: how often a worker process dies
    Faults       \* which failures may happen, a subset of FaultKinds

FaultKinds == {"stage", "db"}

ASSUME BoundsAssumption == MaxJobs \in Nat /\ MaxCrashes \in Nat
ASSUME NoDocAssumption == NoDoc \notin Docs
ASSUME NoJobAssumption == NoJob \notin Nat
ASSUME FaultsAssumption == Faults \subseteq FaultKinds

\* Job ids are numbered in the order of created_at, the start of the
\* transaction that inserts the row.
JobIds == 1 .. MaxJobs

DocStates == {"absent", "uploaded", "parsed", "cleaned", "atomised", "failed"}
JobStates == {"absent", "queued", "running", "done", "failed"}

\* Where a worker stands in claim_and_run_next.
ExecutingPcs == {"begin", "clean", "commitCleaned", "atomise", "commitAtomised",
                 "build", "record"}
MarkingPcs == {"mark", "commitMarked"}
Pcs == {"idle", "claim"} \cup ExecutingPcs \cup MarkingPcs

VARIABLES
    docStatus,    \* documents.status, committed
    cleanedPath,  \* documents.cleaned_path IS NOT NULL, committed
    job,          \* the jobs table
    request,      \* per job id: the reprocess request about to insert it
    clock,        \* the last job id given out
    lastFinished, \* per document: its job with the latest updated_at among the finished
    worker,       \* per worker: program counter, job, and its session's view
    crashes       \* how many crashes happened so far

vars == <<docStatus, cleanedPath, job, request, clock, lastFinished, worker, crashes>>

JobRow == [status : JobStates, attempts : Nat, doc : Docs \cup {NoDoc}]
Request == [open : BOOLEAN, doc : Docs \cup {NoDoc}, loaded : DocStates]
Worker == [pc : Pcs, job : JobIds \cup {NoJob}, error : BOOLEAN,
           loaded : DocStates, pending : DocStates]

TypeOK ==
    /\ docStatus \in [Docs -> DocStates]
    /\ cleanedPath \in [Docs -> BOOLEAN]
    /\ job \in [JobIds -> JobRow]
    /\ request \in [JobIds -> Request]
    /\ clock \in 0 .. MaxJobs
    /\ lastFinished \in [Docs -> JobIds \cup {NoJob}]
    /\ worker \in [Workers -> Worker]
    /\ crashes \in 0 .. MaxCrashes

AbsentJob == [status |-> "absent", attempts |-> 0, doc |-> NoDoc]
ClosedRequest == [open |-> FALSE, doc |-> NoDoc, loaded |-> "absent"]
IdleWorker == [pc |-> "idle", job |-> NoJob, error |-> FALSE,
               loaded |-> "absent", pending |-> "absent"]

Init ==
    /\ docStatus = [d \in Docs |-> "absent"]
    /\ cleanedPath = [d \in Docs |-> FALSE]
    /\ job = [j \in JobIds |-> AbsentJob]
    /\ request = [j \in JobIds |-> ClosedRequest]
    /\ clock = 0
    /\ lastFinished = [d \in Docs |-> NoJob]
    /\ worker = [w \in Workers |-> IdleWorker]
    /\ crashes = 0

-----------------------------------------------------------------------------
(* Helpers *)

\* The value a column has after a flush: the ORM emits no UPDATE for an
\* attribute that ends up equal to what the session loaded.
Flushed(loaded, pending, stored) == IF pending = loaded THEN stored ELSE pending

\* Mutant: a status claim_and_run_next does not know.
PendingJob(d) == [status |-> "pending", attempts |-> 0, doc |-> d]

QueuedJob(d) == [status |-> "queued", attempts |-> 0, doc |-> d]

\* A row after the claim transaction.
Claimed(r) == [r EXCEPT !.status = "running", !.attempts = @ + 1]

\* The document of the job worker w is on.
DocOf(w) == job[worker[w].job].doc

\* The workers after w moved on to pc,
At(w, pc) == [worker EXCEPT ![w] = [@ EXCEPT !.pc = pc]]

\* ... after its session loaded the document and assigned its status,
Loaded(w, pc, status) ==
    [worker EXCEPT ![w] = [@ EXCEPT !.pc = pc, !.loaded = docStatus[DocOf(w)],
                                    !.pending = status]]

\* ... and after a stage raised.
Raised(w) == [worker EXCEPT ![w] = [@ EXCEPT !.pc = "record", !.error = TRUE]]

\* Mutant: a claim without SKIP LOCKED or row locks.
ClaimableUnlocked == {j \in JobIds : job[j].status = "queued"}

\* Queued rows that no open claim transaction has locked.
Claimable ==
    {j \in JobIds : /\ job[j].status = "queued"
                    /\ \A v \in Workers : ~(worker[v].pc = "claim" /\ worker[v].job = j)}

-----------------------------------------------------------------------------
(* Requests *)

\* POST /documents with new bytes: the document and its first job commit
\* together.  Known bytes return the existing document and write nothing.
UploadDocument(d) ==
    /\ docStatus[d] = "absent"
    /\ clock < MaxJobs
    /\ clock' = clock + 1
    /\ docStatus' = [docStatus EXCEPT ![d] = "uploaded"]
    /\ job' = [job EXCEPT ![clock + 1] = QueuedJob(d)]
    /\ UNCHANGED <<cleanedPath, request, lastFinished, worker, crashes>>

\* POST /documents/{id}/reprocess: load the document (404 when absent).
OpenReprocess(d) ==
    /\ docStatus[d] # "absent"
    /\ clock < MaxJobs
    /\ clock' = clock + 1
    /\ request' = [request EXCEPT ![clock + 1] =
                      [open |-> TRUE, doc |-> d, loaded |-> docStatus[d]]]
    /\ UNCHANGED <<docStatus, cleanedPath, job, lastFinished, worker, crashes>>

\* Mutant: reprocess resets the status but enqueues nothing.
CommitReprocessNoJob(j) ==
    /\ request[j].open
    /\ docStatus' = [docStatus EXCEPT ![request[j].doc] =
                        Flushed(request[j].loaded, "uploaded", @)]
    /\ request' = [request EXCEPT ![j] = ClosedRequest]
    /\ UNCHANGED <<cleanedPath, job, clock, lastFinished, worker, crashes>>

\* ... and commit the new job together with status "uploaded".
CommitReprocess(j) ==
    LET r == request[j] IN
    /\ r.open
    /\ job' = [job EXCEPT ![j] = QueuedJob(r.doc)]
    /\ docStatus' = [docStatus EXCEPT ![r.doc] = Flushed(r.loaded, "uploaded", @)]
    /\ request' = [request EXCEPT ![j] = ClosedRequest]
    /\ UNCHANGED <<cleanedPath, clock, lastFinished, worker, crashes>>

\* The request dies before its commit: nothing was written.
AbortReprocess(j) ==
    /\ "db" \in Faults
    /\ request[j].open
    /\ request' = [request EXCEPT ![j] = ClosedRequest]
    /\ UNCHANGED <<docStatus, cleanedPath, job, clock, lastFinished, worker, crashes>>

\* POST /voice-profile: enqueue a build.  Its precondition (the client has an
\* atom, else 409) is about data this module abstracts: both answers are possible.
RequestProfileBuild ==
    /\ clock < MaxJobs
    /\ clock' = clock + 1
    /\ job' = [job EXCEPT ![clock + 1] = QueuedJob(NoDoc)]
    /\ UNCHANGED <<docStatus, cleanedPath, request, lastFinished, worker, crashes>>

-----------------------------------------------------------------------------
(* claim_and_run_next *)

\* Mutant: strict order, a job waits for the outcome of the one before it.
LockNextJobInOrder(w) ==
    /\ worker[w].pc = "idle"
    /\ \E j \in Claimable :
          /\ \A k \in 1 .. (j - 1) : job[k].status \in {"absent", "done", "failed"}
          /\ worker' = [worker EXCEPT ![w] = [@ EXCEPT !.pc = "claim", !.job = j]]
    /\ UNCHANGED <<docStatus, cleanedPath, job, request, clock, lastFinished, crashes>>

\* SELECT ... ORDER BY created_at LIMIT 1 FOR UPDATE SKIP LOCKED.
LockNextJob(w) ==
    /\ worker[w].pc = "idle"
    /\ \E j \in Claimable :
          /\ \A k \in Claimable : j <= k
          /\ worker' = [worker EXCEPT ![w] = [@ EXCEPT !.pc = "claim", !.job = j]]
    /\ UNCHANGED <<docStatus, cleanedPath, job, request, clock, lastFinished, crashes>>

\* status = "running", attempts += 1, commit; then run by kind.
CommitClaim(w) ==
    LET j == worker[w].job IN
    /\ worker[w].pc = "claim"
    /\ job' = [job EXCEPT ![j] = Claimed(@)]
    /\ worker' = At(w, IF job[j].doc = NoDoc THEN "build" ELSE "begin")
    /\ UNCHANGED <<docStatus, cleanedPath, request, clock, lastFinished, crashes>>

\* run_parse_and_clean: load the document, parse it, status = "parsed" in
\* the session.
ParseDocument(w) ==
    /\ worker[w].pc = "begin"
    /\ worker' = Loaded(w, "clean", "parsed")
    /\ UNCHANGED <<docStatus, cleanedPath, job, request, clock, lastFinished, crashes>>

\* Clean the text and publish the derived file; status = "cleaned" in the same
\* session, before anything flushed it.
CleanDocument(w) ==
    /\ worker[w].pc = "clean"
    /\ worker' = [worker EXCEPT ![w] = [@ EXCEPT !.pc = "commitCleaned", !.pending = "cleaned"]]
    /\ UNCHANGED <<docStatus, cleanedPath, job, request, clock, lastFinished, crashes>>

CommitCleaned(w) ==
    LET d == DocOf(w) IN
    /\ worker[w].pc = "commitCleaned"
    /\ docStatus' = [docStatus EXCEPT ![d] = Flushed(worker[w].loaded, worker[w].pending, @)]
    /\ cleanedPath' = [cleanedPath EXCEPT ![d] = TRUE]
    /\ worker' = At(w, "atomise")
    /\ UNCHANGED <<job, request, clock, lastFinished, crashes>>

\* run_atomise_and_embed, a transaction of its own: load the document again;
\* one that was never cleaned raises.
AtomiseDocument(w) ==
    LET d == DocOf(w) IN
    /\ worker[w].pc = "atomise"
    /\ worker' = IF cleanedPath[d]
                 THEN Loaded(w, "commitAtomised", "atomised")
                 ELSE Raised(w)
    /\ UNCHANGED <<docStatus, cleanedPath, job, request, clock, lastFinished, crashes>>

CommitAtomised(w) ==
    /\ worker[w].pc = "commitAtomised"
    /\ docStatus' = [docStatus EXCEPT ![DocOf(w)] =
                        Flushed(worker[w].loaded, worker[w].pending, @)]
    /\ worker' = At(w, "record")
    /\ UNCHANGED <<cleanedPath, job, request, clock, lastFinished, crashes>>

\* build_voice_profile: its table is not modelled here.
BuildVoiceProfile(w) ==
    /\ worker[w].pc = "build"
    /\ worker' = At(w, "record")
    /\ UNCHANGED <<docStatus, cleanedPath, job, request, clock, lastFinished, crashes>>

\* Mutant: an exception the pipeline's handler does not catch.
StageRaisesUncaught(w) ==
    /\ "stage" \in Faults
    /\ worker[w].pc \in ExecutingPcs \ {"record"}
    /\ worker' = [worker EXCEPT ![w] = IdleWorker]
    /\ UNCHANGED <<docStatus, cleanedPath, job, request, clock, lastFinished, crashes>>

\* Mutant: the exception is logged but not kept for the record.
StageRaisesSwallowed(w) ==
    /\ "stage" \in Faults
    /\ worker[w].pc \in ExecutingPcs \ {"record"}
    /\ worker' = At(w, "record")
    /\ UNCHANGED <<docStatus, cleanedPath, job, request, clock, lastFinished, crashes>>

\* Any stage raises: its transaction rolls back and the worker keeps the error.
StageRaises(w) ==
    /\ "stage" \in Faults
    /\ worker[w].pc \in ExecutingPcs \ {"record"}
    /\ worker' = Raised(w)
    /\ UNCHANGED <<docStatus, cleanedPath, job, request, clock, lastFinished, crashes>>

\* Mutant: the failure is recorded on the job only.
RecordOutcomeOnJobOnly(w) ==
    LET j == worker[w].job
        d == DocOf(w)
    IN
    /\ worker[w].pc = "record"
    /\ job' = [job EXCEPT ![j].status = IF worker[w].error THEN "failed" ELSE "done"]
    /\ lastFinished' = IF d = NoDoc THEN lastFinished
                       ELSE [lastFinished EXCEPT ![d] = j]
    /\ worker' = [worker EXCEPT ![w] = IdleWorker]
    /\ UNCHANGED <<docStatus, cleanedPath, request, clock, crashes>>

\* The job's outcome commits first; a failed document is marked in a second
\* transaction.
RecordOutcome(w) ==
    LET j == worker[w].job
        d == DocOf(w)
    IN
    /\ worker[w].pc = "record"
    /\ job' = [job EXCEPT ![j].status = IF worker[w].error THEN "failed" ELSE "done"]
    /\ lastFinished' = IF d = NoDoc THEN lastFinished
                       ELSE [lastFinished EXCEPT ![d] = j]
    /\ worker' = [worker EXCEPT ![w] = IF worker[w].error /\ d # NoDoc
                                       THEN [@ EXCEPT !.pc = "mark"]
                                       ELSE IdleWorker]
    /\ UNCHANGED <<docStatus, cleanedPath, request, clock, crashes>>

LoadForMark(w) ==
    /\ worker[w].pc = "mark"
    /\ worker' = Loaded(w, "commitMarked", "failed")
    /\ UNCHANGED <<docStatus, cleanedPath, job, request, clock, lastFinished, crashes>>

MarkDocumentFailed(w) ==
    /\ worker[w].pc = "commitMarked"
    /\ docStatus' = [docStatus EXCEPT ![DocOf(w)] =
                        Flushed(worker[w].loaded, worker[w].pending, @)]
    /\ worker' = [worker EXCEPT ![w] = IdleWorker]
    /\ UNCHANGED <<cleanedPath, job, request, clock, lastFinished, crashes>>

\* A database error outside the pipeline's own try block reaches worker_loop,
\* which logs it and polls again: the job is forgotten where it stands.
PollRaises(w) ==
    /\ "db" \in Faults
    /\ worker[w].pc \in {"claim", "record"} \cup MarkingPcs
    /\ worker' = [worker EXCEPT ![w] = IdleWorker]
    /\ UNCHANGED <<docStatus, cleanedPath, job, request, clock, lastFinished, crashes>>

\* Mutant: the restarted process puts its running job back into the queue.
CrashRequeues(w) ==
    /\ crashes < MaxCrashes
    /\ worker[w].pc \in ExecutingPcs
    /\ crashes' = crashes + 1
    /\ job' = [job EXCEPT ![worker[w].job].status = "queued"]
    /\ worker' = [worker EXCEPT ![w] = IdleWorker]
    /\ UNCHANGED <<docStatus, cleanedPath, request, clock, lastFinished>>

\* The process is killed (deploy, out of memory, SIGKILL at shutdown) and
\* restarts: open transactions roll back, and no start-up code looks at jobs.
Crash(w) ==
    /\ crashes < MaxCrashes
    /\ worker[w].pc # "idle"
    /\ crashes' = crashes + 1
    /\ worker' = [worker EXCEPT ![w] = IdleWorker]
    /\ UNCHANGED <<docStatus, cleanedPath, job, request, clock, lastFinished>>

-----------------------------------------------------------------------------
WorkerStep(w) ==
    \/ LockNextJob(w) \/ CommitClaim(w)
    \/ ParseDocument(w) \/ CleanDocument(w) \/ CommitCleaned(w)
    \/ AtomiseDocument(w) \/ CommitAtomised(w)
    \/ BuildVoiceProfile(w)
    \/ RecordOutcome(w) \/ LoadForMark(w) \/ MarkDocumentFailed(w)

FaultStep(w) == StageRaises(w) \/ PollRaises(w) \/ Crash(w)

RequestStep ==
    \/ \E d \in Docs : UploadDocument(d) \/ OpenReprocess(d)
    \/ \E j \in JobIds : CommitReprocess(j) \/ AbortReprocess(j)
    \/ RequestProfileBuild

Next == RequestStep \/ \E w \in Workers : WorkerStep(w) \/ FaultStep(w)

Spec == Init /\ [][Next]_vars

\* worker_loop polls for ever and a claimed job is run to its end on a thread of
\* its own, whatever requests do; a handler that opened a transaction ends it.
\* A database that is unavailable is so briefly: of the claims a worker keeps
\* trying, one commits.
Fairness ==
    /\ \A w \in Workers : WF_vars(WorkerStep(w)) /\ SF_vars(CommitClaim(w))
    /\ \A j \in JobIds : WF_vars(CommitReprocess(j))

FairSpec == Spec /\ Fairness

-----------------------------------------------------------------------------
(* Properties *)

\* A job is in the hands of at most one worker from its lock to its record:
\* what FOR UPDATE SKIP LOCKED and the status change of the claim are for.
OneWorkerPerJob ==
    \A v, w \in Workers :
        v # w /\ worker[v].job # NoJob => worker[v].job # worker[w].job

\* Work that may still change document d.
JobPending(d) == \E j \in JobIds : job[j].doc = d /\ job[j].status \in {"queued", "running"}
MarkPending(d) ==
    \E w \in Workers : worker[w].pc \in MarkingPcs /\ DocOf(w) = d

\* A document whose jobs have all ended shows the outcome of the last one:
\* neither a late commit of a stage nor a reprocess request leaves a status
\* behind that no remaining job will replace.
SettledStatus ==
    \A d \in Docs :
        docStatus[d] # "absent" /\ ~JobPending(d) /\ ~MarkPending(d) =>
            /\ lastFinished[d] # NoJob
            /\ docStatus[d] = IF job[lastFinished[d]].status = "done"
                              THEN "atomised" ELSE "failed"

\* A status that announces more work is backed by a job that will do it.
NeverStranded ==
    \A d \in Docs :
        docStatus[d] \in {"uploaded", "cleaned"} => JobPending(d) \/ MarkPending(d)

\* Whatever fails between the commits of a run, the outcome's and the mark's
\* included: a document that still announces work has a job on record that is not
\* done.  If nothing will take it on, a failed or abandoned job tells the operator.
StrandedIsOnRecord ==
    \A d \in Docs :
        docStatus[d] \in {"uploaded", "cleaned"} =>
            \E j \in JobIds :
                job[j].doc = d /\ job[j].status \in {"queued", "running", "failed"}

\* The queue drains: a committed job is eventually taken, even after crashes.
EveryJobIsTaken ==
    \A j \in JobIds : job[j].status = "queued" ~> job[j].status # "queued"

\* Failures are recorded: a job that started ends as done or failed.
EveryRunIsRecorded ==
    \A j \in JobIds : job[j].status = "running" ~> job[j].status \in {"done", "failed"}

\* Polling terminates: a document waiting for work reaches atomised or failed.
PollingEnds ==
    \A d \in Docs :
        docStatus[d] \in {"uploaded", "cleaned"} ~> docStatus[d] \in {"atomised", "failed"}

-----------------------------------------------------------------------------
(* Refinement: what callers may rely on *)

Runners(j) == {w \in Workers : worker[w].job = j /\ worker[w].pc \in ExecutingPcs}

Lifecycle == INSTANCE JobLifecycle WITH
    status <- [j \in JobIds |-> job[j].status],
    runners <- [j \in JobIds |-> Runners(j)]

Implements == Lifecycle!Spec
=============================================================================
