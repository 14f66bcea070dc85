---------------------------- MODULE Jobs_proofs ----------------------------
(***************************************************************************)
(* Theorems about Jobs, for any number of documents, workers, jobs and     *)
(* crashes.                                                                *)
(***************************************************************************)
EXTENDS Jobs, TLAPS

\* Pcs at which the worker's job is about a document.
DocumentPcs == {"begin", "clean", "commitCleaned", "atomise", "commitAtomised"} \cup MarkingPcs

\* Rows beyond the clock, and rows of open requests, do not exist yet.
Unborn ==
    /\ \A j \in JobIds : j > clock => job[j].status = "absent" /\ ~request[j].open
    /\ \A j \in JobIds : request[j].open => job[j].status = "absent" /\ request[j].doc \in Docs

\* The program counter of a worker and the row of its job agree.
Held(w) ==
    LET j == worker[w].job
        pc == worker[w].pc
    IN
    /\ pc = "idle" <=> j = NoJob
    /\ pc = "claim" => job[j].status = "queued"
    /\ pc \in ExecutingPcs => job[j].status = "running"
    /\ pc \in MarkingPcs => job[j].status = "failed"
    /\ pc \in DocumentPcs => job[j].doc \in Docs

HeldJobs == \A w \in Workers : Held(w)

\* The inductive invariant behind OneWorkerPerJob: a row a worker holds beyond
\* its claim is not queued, so no other worker can lock it.
IInv == TypeOK /\ Unborn /\ HeldJobs /\ OneWorkerPerJob

LEMMA IInvInit == Init => IInv
BY BoundsAssumption, NoJobAssumption
   DEF Init, IInv, TypeOK, Unborn, HeldJobs, Held, OneWorkerPerJob, JobIds, AbsentJob,
       ClosedRequest, IdleWorker, JobRow, Request, Worker, JobStates, DocStates, Pcs,
       ExecutingPcs, MarkingPcs, DocumentPcs

\* The claim keeps the type of the row it takes.
LEMMA ClaimedRow == ASSUME NEW r \in JobRow PROVE Claimed(r) \in JobRow
<1>1. r.attempts + 1 \in Nat
  BY DEF JobRow
<1> QED
  BY <1>1 DEF Claimed, JobRow, JobStates

\* Moving one worker on keeps the type of all of them: after its session loaded
\* the document, and after a stage raised.
LEMMA LoadedWorkers ==
    ASSUME docStatus \in [Docs -> DocStates], worker \in [Workers -> Worker],
           NEW w \in Workers, DocOf(w) \in Docs, NEW pc \in Pcs, NEW status \in DocStates
    PROVE  Loaded(w, pc, status) \in [Workers -> Worker]
<1> DEFINE moved == [worker[w] EXCEPT !.pc = pc, !.loaded = docStatus[DocOf(w)],
                                      !.pending = status]
<1>1. worker[w] \in Worker /\ docStatus[DocOf(w)] \in DocStates
  OBVIOUS
<1>2. moved \in Worker
  BY <1>1 DEF Worker
<1>3. Loaded(w, pc, status) = [worker EXCEPT ![w] = moved]
  BY DEF Loaded
<1> HIDE DEF moved
<1> QED
  BY <1>2, <1>3

LEMMA RaisedWorkers ==
    ASSUME worker \in [Workers -> Worker], NEW w \in Workers
    PROVE  Raised(w) \in [Workers -> Worker]
<1>1. [worker[w] EXCEPT !.pc = "record", !.error = TRUE] \in Worker
  BY DEF Worker, Pcs, ExecutingPcs
<1> QED
  BY <1>1 DEF Raised

\* Every step preserves the invariant.
LEMMA IInvStep == IInv /\ [Next]_vars => IInv'
<1> SUFFICES ASSUME IInv, [Next]_vars PROVE IInv'
  OBVIOUS
<1> USE BoundsAssumption, NoDocAssumption, NoJobAssumption
<1> USE DEF IInv, TypeOK, Unborn, HeldJobs, Held, OneWorkerPerJob, JobIds, JobRow, Request,
            Worker, JobStates, DocStates, Pcs, ExecutingPcs, MarkingPcs, DocumentPcs,
            DocOf, At, Loaded, Raised, Flushed, QueuedJob, ClosedRequest, IdleWorker
<1>1. ASSUME NEW d \in Docs, UploadDocument(d) PROVE IInv'
  BY <1>1 DEF UploadDocument
<1>2. ASSUME NEW d \in Docs, OpenReprocess(d) PROVE IInv'
  BY <1>2 DEF OpenReprocess
<1>3. ASSUME NEW j \in JobIds, CommitReprocess(j) PROVE IInv'
  BY <1>3 DEF CommitReprocess
<1>4. ASSUME NEW j \in JobIds, AbortReprocess(j) PROVE IInv'
  BY <1>4 DEF AbortReprocess
<1>5. CASE RequestProfileBuild
  BY <1>5 DEF RequestProfileBuild
<1>6. ASSUME NEW w \in Workers, LockNextJob(w) PROVE IInv'
  <2>1. TypeOK'
    <3>1. PICK j \in JobIds :
             worker' = [worker EXCEPT ![w] = [@ EXCEPT !.pc = "claim", !.job = j]]
      BY <1>6 DEF LockNextJob, Claimable
    <3>2. [worker[w] EXCEPT !.pc = "claim", !.job = j] \in Worker
      <4>1. worker[w] \in Worker
        OBVIOUS
      <4> QED
        BY <4>1
    <3>3. worker' \in [Workers -> Worker]
      BY <3>1, <3>2
    <3> QED
      BY <1>6, <3>3 DEF LockNextJob
  <2>2. Unborn'
    BY <1>6 DEF LockNextJob, Claimable
  <2>3. HeldJobs'
    BY <1>6 DEF LockNextJob, Claimable
  <2>4. OneWorkerPerJob'
    BY <1>6 DEF LockNextJob, Claimable
  <2> QED
    BY <2>1, <2>2, <2>3, <2>4
<1>7. ASSUME NEW w \in Workers, CommitClaim(w) PROVE IInv'
  <2>1. TypeOK'
    <3>1. worker[w] \in Worker /\ worker[w].job \in JobIds
      BY <1>7 DEF CommitClaim
    <3>2. worker' \in [Workers -> Worker]
      BY <1>7, <3>1 DEF CommitClaim
    <3>3. Claimed(job[worker[w].job]) \in JobRow
      BY <3>1, ClaimedRow
    <3>4. job' \in [JobIds -> JobRow]
      BY <1>7, <3>3 DEF CommitClaim
    <3> QED
      BY <1>7, <3>2, <3>4 DEF CommitClaim
  <2>2. Unborn'
    BY <1>7 DEF CommitClaim, Claimed
  <2>3. HeldJobs'
    BY <1>7 DEF CommitClaim, Claimed
  <2>4. OneWorkerPerJob'
    BY <1>7 DEF CommitClaim, Claimed
  <2> QED
    BY <2>1, <2>2, <2>3, <2>4
<1>8. ASSUME NEW w \in Workers, ParseDocument(w) PROVE IInv'
  <2>1. TypeOK'
    <3>1. worker[w] \in Worker /\ worker[w].job \in JobIds /\ DocOf(w) \in Docs
      BY <1>8 DEF ParseDocument
    <3>2. worker' \in [Workers -> Worker]
      <4>1. worker' = Loaded(w, "clean", "parsed")
        BY <1>8 DEF ParseDocument
      <4>2. "clean" \in Pcs /\ "parsed" \in DocStates
        OBVIOUS
      <4> HIDE DEF Loaded, Worker, DocOf, Pcs, DocStates
      <4> QED
        BY <3>1, <4>1, <4>2, LoadedWorkers
    <3> QED
      BY <1>8, <3>1, <3>2 DEF ParseDocument
  <2>2. Unborn'
    BY <1>8 DEF ParseDocument
  <2>3. HeldJobs'
    <3> SUFFICES ASSUME NEW v \in Workers PROVE Held(v)'
      OBVIOUS
    <3>1. CASE v = w
      BY <1>8, <3>1 DEF ParseDocument
    <3>2. CASE v # w
      BY <1>8, <3>2 DEF ParseDocument
    <3> QED
      BY <3>1, <3>2
  <2>4. OneWorkerPerJob'
    BY <1>8 DEF ParseDocument
  <2> QED
    BY <2>1, <2>2, <2>3, <2>4
<1>9. ASSUME NEW w \in Workers, CleanDocument(w) PROVE IInv'
  <2>1. TypeOK'
    <3>1. worker[w] \in Worker /\ worker[w].job \in JobIds
      BY <1>9 DEF CleanDocument
    <3>2. worker' \in [Workers -> Worker]
      BY <1>9, <3>1 DEF CleanDocument
    <3> QED
      BY <1>9, <3>1, <3>2 DEF CleanDocument
  <2>2. Unborn'
    BY <1>9 DEF CleanDocument
  <2>3. HeldJobs'
    BY <1>9 DEF CleanDocument
  <2>4. OneWorkerPerJob'
    BY <1>9 DEF CleanDocument
  <2> QED
    BY <2>1, <2>2, <2>3, <2>4
<1>10. ASSUME NEW w \in Workers, CommitCleaned(w) PROVE IInv'
  <2>1. TypeOK'
    BY <1>10 DEF CommitCleaned
  <2>2. Unborn'
    BY <1>10 DEF CommitCleaned
  <2>3. HeldJobs'
    BY <1>10 DEF CommitCleaned
  <2>4. OneWorkerPerJob'
    BY <1>10 DEF CommitCleaned
  <2> QED
    BY <2>1, <2>2, <2>3, <2>4
<1>11. ASSUME NEW w \in Workers, AtomiseDocument(w) PROVE IInv'
  <2>1. TypeOK'
    <3>1. worker[w] \in Worker /\ worker[w].job \in JobIds /\ DocOf(w) \in Docs
      BY <1>11 DEF AtomiseDocument
    <3>2. worker' \in [Workers -> Worker]
      <4>1. worker' \in {Loaded(w, "commitAtomised", "atomised"), Raised(w)}
        BY <1>11 DEF AtomiseDocument
      <4>2. "commitAtomised" \in Pcs /\ "atomised" \in DocStates
        OBVIOUS
      <4> HIDE DEF Loaded, Raised, Worker, DocOf, Pcs, DocStates
      <4> QED
        BY <3>1, <4>1, <4>2, LoadedWorkers, RaisedWorkers
    <3> QED
      BY <1>11, <3>1, <3>2 DEF AtomiseDocument
  <2>2. Unborn'
    BY <1>11 DEF AtomiseDocument
  <2>3. HeldJobs'
    <3> SUFFICES ASSUME NEW v \in Workers PROVE Held(v)'
      OBVIOUS
    <3>1. CASE v = w
      BY <1>11, <3>1 DEF AtomiseDocument
    <3>2. CASE v # w
      BY <1>11, <3>2 DEF AtomiseDocument
    <3> QED
      BY <3>1, <3>2
  <2>4. OneWorkerPerJob'
    BY <1>11 DEF AtomiseDocument
  <2> QED
    BY <2>1, <2>2, <2>3, <2>4
<1>12. ASSUME NEW w \in Workers, CommitAtomised(w) PROVE IInv'
  <2>1. TypeOK'
    <3>1. worker[w] \in Worker /\ worker[w].job \in JobIds
      BY <1>12 DEF CommitAtomised
    <3>2. worker' \in [Workers -> Worker]
      BY <1>12, <3>1 DEF CommitAtomised
    <3> QED
      BY <1>12, <3>1, <3>2 DEF CommitAtomised
  <2>2. Unborn'
    BY <1>12 DEF CommitAtomised
  <2>3. HeldJobs'
    BY <1>12 DEF CommitAtomised
  <2>4. OneWorkerPerJob'
    BY <1>12 DEF CommitAtomised
  <2> QED
    BY <2>1, <2>2, <2>3, <2>4
<1>13. ASSUME NEW w \in Workers, BuildVoiceProfile(w) PROVE IInv'
  <2>1. TypeOK'
    <3>1. worker[w] \in Worker /\ worker[w].job \in JobIds
      BY <1>13 DEF BuildVoiceProfile
    <3>2. worker' \in [Workers -> Worker]
      BY <1>13, <3>1 DEF BuildVoiceProfile
    <3> QED
      BY <1>13, <3>1, <3>2 DEF BuildVoiceProfile
  <2>2. Unborn'
    BY <1>13 DEF BuildVoiceProfile
  <2>3. HeldJobs'
    BY <1>13 DEF BuildVoiceProfile
  <2>4. OneWorkerPerJob'
    BY <1>13 DEF BuildVoiceProfile
  <2> QED
    BY <2>1, <2>2, <2>3, <2>4
<1>14. ASSUME NEW w \in Workers, RecordOutcome(w) PROVE IInv'
  <2>1. TypeOK'
    <3>1. worker[w] \in Worker /\ worker[w].job \in JobIds
      BY <1>14 DEF RecordOutcome
    <3>2. worker' \in [Workers -> Worker]
      BY <1>14, <3>1 DEF RecordOutcome
    <3>3. job[worker[w].job] \in JobRow
      BY <3>1
    <3>4. job' \in [JobIds -> JobRow]
      BY <1>14, <3>3 DEF RecordOutcome
    <3>5. lastFinished' \in [Docs -> JobIds \cup {NoJob}]
      BY <1>14, <3>1 DEF RecordOutcome
    <3> QED
      BY <1>14, <3>2, <3>4, <3>5 DEF RecordOutcome
  <2>2. Unborn'
    BY <1>14 DEF RecordOutcome
  <2>3. HeldJobs'
    BY <1>14 DEF RecordOutcome
  <2>4. OneWorkerPerJob'
    BY <1>14 DEF RecordOutcome
  <2> QED
    BY <2>1, <2>2, <2>3, <2>4
<1>15. ASSUME NEW w \in Workers, LoadForMark(w) PROVE IInv'
  <2>1. TypeOK'
    <3>1. worker[w] \in Worker /\ worker[w].job \in JobIds /\ DocOf(w) \in Docs
      BY <1>15 DEF LoadForMark
    <3>2. worker' \in [Workers -> Worker]
      <4>1. worker' = Loaded(w, "commitMarked", "failed")
        BY <1>15 DEF LoadForMark
      <4>2. "commitMarked" \in Pcs /\ "failed" \in DocStates
        OBVIOUS
      <4> HIDE DEF Loaded, Worker, DocOf, Pcs, DocStates
      <4> QED
        BY <3>1, <4>1, <4>2, LoadedWorkers
    <3> QED
      BY <1>15, <3>1, <3>2 DEF LoadForMark
  <2>2. Unborn'
    BY <1>15 DEF LoadForMark
  <2>3. HeldJobs'
    <3> SUFFICES ASSUME NEW v \in Workers PROVE Held(v)'
      OBVIOUS
    <3>1. CASE v = w
      BY <1>15, <3>1 DEF LoadForMark
    <3>2. CASE v # w
      BY <1>15, <3>2 DEF LoadForMark
    <3> QED
      BY <3>1, <3>2
  <2>4. OneWorkerPerJob'
    BY <1>15 DEF LoadForMark
  <2> QED
    BY <2>1, <2>2, <2>3, <2>4
<1>16. ASSUME NEW w \in Workers, MarkDocumentFailed(w) PROVE IInv'
  <2>1. TypeOK'
    BY <1>16 DEF MarkDocumentFailed
  <2>2. Unborn'
    BY <1>16 DEF MarkDocumentFailed
  <2>3. HeldJobs'
    BY <1>16 DEF MarkDocumentFailed
  <2>4. OneWorkerPerJob'
    BY <1>16 DEF MarkDocumentFailed
  <2> QED
    BY <2>1, <2>2, <2>3, <2>4
<1>17. ASSUME NEW w \in Workers, StageRaises(w) PROVE IInv'
  <2>1. TypeOK'
    <3>1. worker[w] \in Worker /\ worker[w].job \in JobIds
      BY <1>17 DEF StageRaises
    <3>2. worker' \in [Workers -> Worker]
      BY <1>17, <3>1 DEF StageRaises
    <3> QED
      BY <1>17, <3>1, <3>2 DEF StageRaises
  <2>2. Unborn'
    BY <1>17 DEF StageRaises
  <2>3. HeldJobs'
    BY <1>17 DEF StageRaises
  <2>4. OneWorkerPerJob'
    BY <1>17 DEF StageRaises
  <2> QED
    BY <2>1, <2>2, <2>3, <2>4
<1>18. ASSUME NEW w \in Workers, PollRaises(w) PROVE IInv'
  <2>1. TypeOK'
    BY <1>18 DEF PollRaises
  <2>2. Unborn'
    BY <1>18 DEF PollRaises
  <2>3. HeldJobs'
    BY <1>18 DEF PollRaises
  <2>4. OneWorkerPerJob'
    BY <1>18 DEF PollRaises
  <2> QED
    BY <2>1, <2>2, <2>3, <2>4
<1>19. ASSUME NEW w \in Workers, Crash(w) PROVE IInv'
  <2>1. TypeOK'
    BY <1>19 DEF Crash
  <2>2. Unborn'
    BY <1>19 DEF Crash
  <2>3. HeldJobs'
    BY <1>19 DEF Crash
  <2>4. OneWorkerPerJob'
    BY <1>19 DEF Crash
  <2> QED
    BY <2>1, <2>2, <2>3, <2>4
<1>20. CASE UNCHANGED vars
  BY <1>20 DEF vars
<1> QED
  BY <1>1, <1>2, <1>3, <1>4, <1>5, <1>6, <1>7, <1>8, <1>9, <1>10, <1>11, <1>12, <1>13, <1>14, <1>15, <1>16, <1>17, <1>18, <1>19, <1>20
     DEF Next, RequestStep, WorkerStep, FaultStep

LEMMA IInvAlways == Spec => []IInv
<1>1. Init => IInv
  BY IInvInit
<1>2. IInv /\ [Next]_vars => IInv'
  BY IInvStep
<1> QED
  BY <1>1, <1>2, PTL DEF Spec

\* Every variable keeps its type, whatever fails and however often.
THEOREM TypeCorrect == Spec => []TypeOK
<1>1. IInv => TypeOK
  BY DEF IInv
<1> QED
  BY <1>1, IInvAlways, PTL

\* No two workers are ever on the same job: FOR UPDATE SKIP LOCKED together with
\* the status change of the claim is a mutual exclusion for any number of workers.
THEOREM WorkersExclusive == Spec => []OneWorkerPerJob
<1>1. IInv => OneWorkerPerJob
  BY DEF IInv
<1> QED
  BY <1>1, IInvAlways, PTL

-----------------------------------------------------------------------------
(* One attempt, and final outcomes *)

\* How a step may change the row of a job: the only edges of the jobs table.
RowStep(j) ==
    \/ job'[j] = job[j]
    \/ job[j].status = "absent" /\ job'[j].status = "queued" /\ job'[j].attempts = 0
    \/ job[j].status = "queued" /\ job'[j] = Claimed(job[j])
    \/ /\ job[j].status = "running"
       /\ \E s \in {"done", "failed"} : job'[j] = [job[j] EXCEPT !.status = s]

LEMMA RowsStep == IInv /\ [Next]_vars => \A j \in JobIds : RowStep(j)
<1> SUFFICES ASSUME IInv, [Next]_vars, NEW j \in JobIds PROVE RowStep(j)
  OBVIOUS
<1> USE BoundsAssumption DEF JobIds
<1>1. job \in [JobIds -> JobRow] /\ HeldJobs /\ Unborn /\ clock \in 0 .. MaxJobs
  BY DEF IInv, TypeOK
<1>2. ASSUME NEW d \in Docs \cup {NoDoc}, job' = [job EXCEPT ![clock + 1] = QueuedJob(d)]
      PROVE  RowStep(j)
  BY <1>1, <1>2 DEF RowStep, QueuedJob, Unborn
<1>3. ASSUME NEW k \in JobIds, CommitReprocess(k) PROVE RowStep(j)
  BY <1>1, <1>3 DEF RowStep, QueuedJob, Unborn, CommitReprocess
<1>4. ASSUME NEW w \in Workers, CommitClaim(w) PROVE RowStep(j)
  BY <1>1, <1>4 DEF RowStep, CommitClaim, HeldJobs, Held
<1>5. ASSUME NEW w \in Workers, RecordOutcome(w) PROVE RowStep(j)
  BY <1>1, <1>5 DEF RowStep, RecordOutcome, HeldJobs, Held, ExecutingPcs
<1>6. CASE UNCHANGED job
  BY <1>6 DEF RowStep
<1> QED
  BY <1>2, <1>3, <1>4, <1>5, <1>6
     DEF Next, vars, RequestStep, WorkerStep, FaultStep, UploadDocument, OpenReprocess,
         AbortReprocess, RequestProfileBuild, LockNextJob, ParseDocument, CleanDocument,
         CommitCleaned, AtomiseDocument, CommitAtomised, BuildVoiceProfile, LoadForMark,
         MarkDocumentFailed, StageRaises, PollRaises, Crash

\* The number of times a row was taken is exactly 1 once it left the queue: the
\* one attempt of the retry policy, crashes and database errors included.
OneAttempt ==
    \A j \in JobIds :
        job[j].attempts = IF job[j].status \in {"absent", "queued"} THEN 0 ELSE 1

\* A job that left the queue was taken exactly once: there is no retry, not
\* even after a crash.
THEOREM AttemptedOnce == Spec => []OneAttempt
<1>1. Init => OneAttempt
  BY DEF Init, OneAttempt, AbsentJob
<1>2. OneAttempt /\ IInv /\ [Next]_vars => OneAttempt'
  <2> SUFFICES ASSUME OneAttempt, IInv, [Next]_vars, NEW j \in JobIds
               PROVE  job'[j].attempts = IF job'[j].status \in {"absent", "queued"} THEN 0 ELSE 1
    BY DEF OneAttempt
  <2>1. RowStep(j) /\ job[j] \in JobRow
    BY RowsStep DEF IInv, TypeOK
  <2>2. Claimed(job[j]).status = "running" /\ Claimed(job[j]).attempts = job[j].attempts + 1
    BY <2>1 DEF Claimed, JobRow
  <2> QED
    BY <2>1, <2>2 DEF OneAttempt, RowStep, JobRow
<1> QED
  BY <1>1, <1>2, IInvAlways, PTL DEF Spec

\* A job that ran is never put back, and its outcome never changes.
OutcomeIsFinal ==
    [][\A j \in JobIds :
          /\ job[j].status \in {"done", "failed"} => job'[j] = job[j]
          /\ job[j].status = "running" => job'[j].status # "queued"]_vars

\* A recorded outcome never changes and a running job never returns to the queue.
THEOREM OutcomesFinal == Spec => OutcomeIsFinal
<1>1. IInv /\ [Next]_vars =>
        [\A j \in JobIds :
            /\ job[j].status \in {"done", "failed"} => job'[j] = job[j]
            /\ job[j].status = "running" => job'[j].status # "queued"]_vars
  <2> SUFFICES ASSUME IInv, [Next]_vars, NEW j \in JobIds
               PROVE  /\ job[j].status \in {"done", "failed"} => job'[j] = job[j]
                      /\ job[j].status = "running" => job'[j].status # "queued"
    OBVIOUS
  <2>1. RowStep(j) /\ job[j] \in JobRow
    BY RowsStep DEF IInv, TypeOK
  <2> QED
    BY <2>1 DEF RowStep, Claimed, JobRow
<1> QED
  BY <1>1, IInvAlways, PTL DEF Spec, OutcomeIsFinal

\* run_atomise_and_embed starts only on a document run_parse_and_clean has cleaned.
CleanedBeforeAtomise ==
    \A w \in Workers : worker[w].pc = "atomise" => cleanedPath[DocOf(w)]

\* The stages are separate transactions (runner.py, lines 168-176), yet the guard of the
\* second never fires: a path stays, and a running job keeps its document.
THEOREM CleanedFirst == Spec => []CleanedBeforeAtomise
<1>1. Init => CleanedBeforeAtomise
  BY DEF Init, CleanedBeforeAtomise, IdleWorker
<1>2. CleanedBeforeAtomise /\ IInv /\ [Next]_vars => CleanedBeforeAtomise'
  <2> SUFFICES ASSUME CleanedBeforeAtomise, IInv, [Next]_vars, NEW w \in Workers,
                      worker'[w].pc = "atomise"
               PROVE  cleanedPath'[DocOf(w)']
    BY DEF CleanedBeforeAtomise
  <2> DEFINE j == worker[w].job
  <2>1. /\ worker \in [Workers -> Worker] /\ Held(w)
        /\ cleanedPath \in [Docs -> BOOLEAN] /\ job \in [JobIds -> JobRow]
    BY DEF IInv, TypeOK, HeldJobs
  <2>2. CASE \E v \in Workers : CommitCleaned(v)
    <3>1. PICK v \in Workers : CommitCleaned(v) BY <2>2
    <3>2. DocOf(w)' = DocOf(w) /\ worker[w].pc \in {"commitCleaned", "atomise"}
      BY <2>1, <3>1 DEF CommitCleaned, At, DocOf
    <3>3. DocOf(w) \in Docs BY <2>1, <3>2 DEF Held, DocumentPcs, DocOf
    <3>4. w = v \/ worker[w].pc = "atomise" BY <2>1, <3>1 DEF CommitCleaned, At
    <3>. QED BY <2>1, <3>1, <3>2, <3>3, <3>4 DEF CommitCleaned, CleanedBeforeAtomise
  <2>3. CASE ~\E v \in Workers : CommitCleaned(v)
    <3>1. cleanedPath' = cleanedPath
      BY <2>3 DEF Next, vars, RequestStep, WorkerStep, FaultStep, UploadDocument, OpenReprocess,
         CommitReprocess, AbortReprocess, RequestProfileBuild, LockNextJob, CommitClaim,
         ParseDocument, CleanDocument, AtomiseDocument, CommitAtomised, BuildVoiceProfile,
         RecordOutcome, LoadForMark, MarkDocumentFailed, StageRaises, PollRaises, Crash
    <3>2. worker'[w] = worker[w]
      <4>1. CASE UNCHANGED worker BY <4>1
      <4>2. ASSUME NEW v \in Workers, WorkerStep(v) \/ FaultStep(v)
            PROVE  worker' = [worker EXCEPT ![v] = worker'[v]] /\ (v = w => worker'[v].pc # "atomise")
        <5>1. worker[v] \in Worker BY <2>1
        <5>2. CASE LockNextJob(v) BY <2>1, <5>1, <5>2 DEF LockNextJob, At, Loaded, Raised, IdleWorker, Worker
        <5>3. CASE CommitClaim(v) BY <2>1, <5>1, <5>3 DEF CommitClaim, At, Loaded, Raised, IdleWorker, Worker
        <5>4. CASE ParseDocument(v) BY <2>1, <5>1, <5>4 DEF ParseDocument, At, Loaded, Raised, IdleWorker, Worker
        <5>5. CASE CleanDocument(v) BY <2>1, <5>1, <5>5 DEF CleanDocument, At, Loaded, Raised, IdleWorker, Worker
        <5>6. CASE AtomiseDocument(v) BY <2>1, <5>1, <5>6 DEF AtomiseDocument, At, Loaded, Raised, IdleWorker, Worker
        <5>7. CASE CommitAtomised(v) BY <2>1, <5>1, <5>7 DEF CommitAtomised, At, Loaded, Raised, IdleWorker, Worker
        <5>8. CASE BuildVoiceProfile(v) BY <2>1, <5>1, <5>8 DEF BuildVoiceProfile, At, Loaded, Raised, IdleWorker, Worker
        <5>9. CASE RecordOutcome(v) BY <2>1, <5>1, <5>9 DEF RecordOutcome, At, Loaded, Raised, IdleWorker, Worker
        <5>10. CASE LoadForMark(v) BY <2>1, <5>1, <5>10 DEF LoadForMark, At, Loaded, Raised, IdleWorker, Worker
        <5>11. CASE MarkDocumentFailed(v) BY <2>1, <5>1, <5>11 DEF MarkDocumentFailed, At, Loaded, Raised, IdleWorker, Worker
        <5>12. CASE StageRaises(v) BY <2>1, <5>1, <5>12 DEF StageRaises, At, Loaded, Raised, IdleWorker, Worker
        <5>13. CASE PollRaises(v) BY <2>1, <5>1, <5>13 DEF PollRaises, At, Loaded, Raised, IdleWorker, Worker
        <5>14. CASE Crash(v) BY <2>1, <5>1, <5>14 DEF Crash, At, Loaded, Raised, IdleWorker, Worker
        <5>. QED BY <2>3, <4>2, <5>2, <5>3, <5>4, <5>5, <5>6, <5>7, <5>8, <5>9, <5>10, <5>11, <5>12, <5>13, <5>14 DEF WorkerStep, FaultStep
      <4>3. CASE \E v \in Workers : WorkerStep(v) \/ FaultStep(v)
        <5>1. PICK v \in Workers : WorkerStep(v) \/ FaultStep(v) BY <4>3
        <5>2. worker' = [worker EXCEPT ![v] = worker'[v]] /\ (v = w => worker'[v].pc # "atomise")
          BY <5>1, <4>2
        <5>3. v # w BY <2>1, <5>2
        <5>. QED BY <2>1, <5>2, <5>3
      <4>. QED
        BY <4>1, <4>3 DEF Next, vars, RequestStep, UploadDocument, OpenReprocess,
           CommitReprocess, AbortReprocess, RequestProfileBuild
    <3>3. worker[w].pc = "atomise" /\ j \in JobIds /\ job[j].status = "running"
      BY <2>1, <3>2 DEF Held, ExecutingPcs, Worker
    <3>4. job'[j].doc = job[j].doc
      <4>1. RowStep(j) /\ job[j] \in JobRow BY <2>1, <3>3, RowsStep
      <4>2. Claimed(job[j]).doc = job[j].doc BY <4>1 DEF Claimed, JobRow
      <4>. QED BY <3>3, <4>1, <4>2 DEF RowStep, JobRow
    <3>. QED BY <3>1, <3>2, <3>4 DEF CleanedBeforeAtomise, DocOf
  <2>. QED BY <2>2, <2>3
<1> QED
  BY <1>1, <1>2, IInvAlways, PTL DEF Spec

-----------------------------------------------------------------------------
(* No document is left waiting *)

\* Worker w will still write a final status to the document of its job: it has
\* yet to load it for its last write, or loaded a value that write replaces.
WillSettle(w) ==
    \/ worker[w].pc \in {"claim", "begin", "clean", "commitCleaned", "atomise", "mark"}
    \/ worker[w].pc = "commitAtomised" /\ worker[w].pending # worker[w].loaded
    \/ worker[w].pc = "record" /\ worker[w].error
    \/ worker[w].pc = "commitMarked" /\ worker[w].pending # worker[w].loaded

Covers(w, d) == worker[w].pc # "idle" /\ DocOf(w) = d /\ WillSettle(w)

\* Somebody is responsible for document d: a queued job, or a worker that will
\* still write to it.
Covered(d) ==
    \/ \E j \in JobIds : job[j].doc = d /\ job[j].status = "queued"
    \/ \E w \in Workers : Covers(w, d)

AllCovered == \A d \in Docs : docStatus[d] \in {"uploaded", "cleaned"} => Covered(d)

\* What each session is about to write.
PendingStatus ==
    \A w \in Workers :
        /\ worker[w].pc = "clean" => worker[w].pending = "parsed"
        /\ worker[w].pc = "commitCleaned" => worker[w].pending = "cleaned"
        /\ worker[w].pc = "commitAtomised" => worker[w].pending = "atomised"
        /\ worker[w].pc = "commitMarked" => worker[w].pending = "failed"

SInv == IInv /\ PendingStatus /\ AllCovered

\* A step of one worker takes nobody else's responsibility away,
LEMMA CoveredByWorkerStep ==
    ASSUME IInv, NEW w \in Workers, NEW d \in Docs, Covered(d),
           \A v \in Workers \ {w} : worker'[v] = worker[v],
           \A j \in JobIds : job'[j].doc = job[j].doc,
           \A j \in JobIds : j # worker[w].job => job'[j] = job[j],
           Covers(w, d) => Covers(w, d)'
    PROVE  Covered(d)'
<1> USE DEF Covered
<1>1. \A v \in Workers : Held(v) /\ worker[v] \in Worker
  BY DEF IInv, TypeOK, HeldJobs
<1>2. \A v \in Workers : worker[v].pc # "idle" => worker[v].job \in JobIds
  BY <1>1 DEF Held, Worker
<1>3. ASSUME NEW v \in Workers \ {w}, Covers(v, d) PROVE Covers(v, d)'
  BY <1>2, <1>3 DEF Covers, DocOf, WillSettle
<1>4. ASSUME NEW j \in JobIds, job[j].doc = d, job[j].status = "queued" PROVE Covered(d)'
  <2>1. CASE j = worker[w].job
    <3>1. worker[w].pc = "claim"
      BY <1>1, <1>4, <2>1, NoJobAssumption
         DEF Held, Worker, Pcs, ExecutingPcs, MarkingPcs, JobIds
    <3> QED
      BY <1>4, <2>1, <3>1 DEF Covers, DocOf, WillSettle
  <2>2. CASE j # worker[w].job
    BY <1>4, <2>2
  <2> QED
    BY <2>1, <2>2
<1> QED
  BY <1>3, <1>4

\* ... and neither does a request, which leaves existing rows alone.
LEMMA CoveredByRequestStep ==
    ASSUME IInv, NEW d \in Docs, Covered(d), UNCHANGED worker,
           \A j \in JobIds : job[j].status # "absent" => job'[j] = job[j]
    PROVE  Covered(d)'
<1>1. \A v \in Workers : Held(v) /\ worker[v] \in Worker
  BY DEF IInv, TypeOK, HeldJobs
<1>2. \A v \in Workers : worker[v].pc # "idle" =>
          worker[v].job \in JobIds /\ job[worker[v].job].status # "absent"
  BY <1>1 DEF Held, Worker, Pcs, ExecutingPcs, MarkingPcs
<1>3. ASSUME NEW v \in Workers, Covers(v, d) PROVE Covers(v, d)'
  BY <1>2, <1>3 DEF Covers, DocOf, WillSettle
<1> QED
  BY <1>3 DEF Covered

\* A queued job of document d covers it.
LEMMA CoveredByQueuedJob ==
    ASSUME NEW d, NEW j \in JobIds, job'[j] = QueuedJob(d)
    PROVE  Covered(d)'
<1>1. job'[j].doc = d /\ job'[j].status = "queued"
  BY DEF QueuedJob
<1>2. JobIds' = JobIds
  BY DEF JobIds
<1> QED
  BY <1>1, <1>2 DEF Covered

\* The status a session will write is settled once the statement before its flush
\* has assigned it.
LEMMA PendingStep == IInv /\ PendingStatus /\ [Next]_vars => PendingStatus'
<1> SUFFICES ASSUME IInv, PendingStatus, [Next]_vars PROVE PendingStatus'
  OBVIOUS
<1> USE DEF IInv, TypeOK, Worker, ExecutingPcs, MarkingPcs, DocOf, At, Loaded, Raised, IdleWorker,
            PendingStatus
<1>1. ASSUME NEW d \in Docs, UploadDocument(d) PROVE PendingStatus'
  BY <1>1 DEF UploadDocument
<1>2. ASSUME NEW d \in Docs, OpenReprocess(d) PROVE PendingStatus'
  BY <1>2 DEF OpenReprocess
<1>3. ASSUME NEW j \in JobIds, CommitReprocess(j) PROVE PendingStatus'
  BY <1>3 DEF CommitReprocess
<1>4. ASSUME NEW j \in JobIds, AbortReprocess(j) PROVE PendingStatus'
  BY <1>4 DEF AbortReprocess
<1>5. CASE RequestProfileBuild
  BY <1>5 DEF RequestProfileBuild
<1>6. ASSUME NEW w \in Workers, LockNextJob(w) PROVE PendingStatus'
  BY <1>6 DEF LockNextJob, Claimable
<1>7. ASSUME NEW w \in Workers, CommitClaim(w) PROVE PendingStatus'
  BY <1>7 DEF CommitClaim
<1>8. ASSUME NEW w \in Workers, ParseDocument(w) PROVE PendingStatus'
  BY <1>8 DEF ParseDocument
<1>9. ASSUME NEW w \in Workers, CleanDocument(w) PROVE PendingStatus'
  BY <1>9 DEF CleanDocument
<1>10. ASSUME NEW w \in Workers, CommitCleaned(w) PROVE PendingStatus'
  BY <1>10 DEF CommitCleaned
<1>11. ASSUME NEW w \in Workers, AtomiseDocument(w) PROVE PendingStatus'
  BY <1>11 DEF AtomiseDocument
<1>12. ASSUME NEW w \in Workers, CommitAtomised(w) PROVE PendingStatus'
  BY <1>12 DEF CommitAtomised
<1>13. ASSUME NEW w \in Workers, BuildVoiceProfile(w) PROVE PendingStatus'
  BY <1>13 DEF BuildVoiceProfile
<1>14. ASSUME NEW w \in Workers, RecordOutcome(w) PROVE PendingStatus'
  BY <1>14 DEF RecordOutcome
<1>15. ASSUME NEW w \in Workers, LoadForMark(w) PROVE PendingStatus'
  BY <1>15 DEF LoadForMark
<1>16. ASSUME NEW w \in Workers, MarkDocumentFailed(w) PROVE PendingStatus'
  BY <1>16 DEF MarkDocumentFailed
<1>17. ASSUME NEW w \in Workers, StageRaises(w) PROVE PendingStatus'
  BY <1>17 DEF StageRaises
<1>18. ASSUME NEW w \in Workers, PollRaises(w) PROVE PendingStatus'
  BY <1>18 DEF PollRaises
<1>19. ASSUME NEW w \in Workers, Crash(w) PROVE PendingStatus'
  BY <1>19 DEF Crash
<1>20. CASE UNCHANGED vars
  BY <1>20 DEF vars
<1> QED
  BY <1>1, <1>2, <1>3, <1>4, <1>5, <1>6, <1>7, <1>8, <1>9, <1>10, <1>11, <1>12, <1>13, <1>14, <1>15, <1>16, <1>17, <1>18, <1>19, <1>20
     DEF Next, RequestStep, WorkerStep, FaultStep

\* A settled status is only ever traded for one that somebody is responsible for.
LEMMA SInvStep ==
    ASSUME "db" \notin Faults, MaxCrashes = 0
    PROVE  SInv /\ [Next]_vars => SInv'
<1> SUFFICES ASSUME SInv, [Next]_vars PROVE AllCovered'
  BY IInvStep, PendingStep DEF SInv
<1> USE DEF SInv, IInv, TypeOK, Unborn, HeldJobs, Held, JobIds, JobRow, Request, Worker,
            DocStates, ExecutingPcs, MarkingPcs, DocumentPcs, DocOf, At, Loaded, Raised,
            Flushed, QueuedJob, IdleWorker, PendingStatus
<1> USE BoundsAssumption, NoDocAssumption, NoJobAssumption
<1>1. ASSUME NEW d \in Docs, UploadDocument(d)
      PROVE AllCovered'
  <2> SUFFICES ASSUME NEW x \in Docs, docStatus'[x] \in {"uploaded", "cleaned"} PROVE Covered(x)'
    BY DEF AllCovered
  <2>1. CASE x = d
    <3>1. job'[clock + 1] = QueuedJob(x) /\ clock + 1 \in JobIds
      BY <1>1, <2>1 DEF UploadDocument
    <3> HIDE DEF JobIds, QueuedJob
    <3> QED
      BY <3>1, CoveredByQueuedJob
  <2>2. CASE ~(x = d)
    <3>1. Covered(x)
      BY <1>1, <2>2 DEF UploadDocument, AllCovered
    <3> QED
      BY <1>1, <3>1, CoveredByRequestStep DEF UploadDocument
  <2> QED
    BY <2>1, <2>2
<1>2. ASSUME NEW d \in Docs, OpenReprocess(d)
      PROVE AllCovered'
  <2> SUFFICES ASSUME NEW x \in Docs, docStatus'[x] \in {"uploaded", "cleaned"} PROVE Covered(x)'
    BY DEF AllCovered
  <2>1. Covered(x)
    BY <1>2 DEF OpenReprocess, AllCovered
  <2> QED
    BY <1>2, <2>1, CoveredByRequestStep DEF OpenReprocess
<1>3. ASSUME NEW j \in JobIds, CommitReprocess(j)
      PROVE AllCovered'
  <2> SUFFICES ASSUME NEW x \in Docs, docStatus'[x] \in {"uploaded", "cleaned"} PROVE Covered(x)'
    BY DEF AllCovered
  <2>1. CASE x = request[j].doc
    <3>1. job'[j] = QueuedJob(x) /\ j \in JobIds
      BY <1>3, <2>1 DEF CommitReprocess
    <3> HIDE DEF JobIds, QueuedJob
    <3> QED
      BY <3>1, CoveredByQueuedJob
  <2>2. CASE ~(x = request[j].doc)
    <3>1. Covered(x)
      BY <1>3, <2>2 DEF CommitReprocess, AllCovered
    <3> QED
      BY <1>3, <3>1, CoveredByRequestStep DEF CommitReprocess
  <2> QED
    BY <2>1, <2>2
<1>4. ASSUME NEW j \in JobIds, AbortReprocess(j)
      PROVE AllCovered'
  <2> SUFFICES ASSUME NEW x \in Docs, docStatus'[x] \in {"uploaded", "cleaned"} PROVE Covered(x)'
    BY DEF AllCovered
  <2>1. Covered(x)
    BY <1>4 DEF AbortReprocess, AllCovered
  <2> QED
    BY <1>4, <2>1, CoveredByRequestStep DEF AbortReprocess
<1>5. CASE RequestProfileBuild
  <2> SUFFICES ASSUME NEW x \in Docs, docStatus'[x] \in {"uploaded", "cleaned"} PROVE Covered(x)'
    BY DEF AllCovered
  <2>1. Covered(x)
    BY <1>5 DEF RequestProfileBuild, AllCovered
  <2> QED
    BY <1>5, <2>1, CoveredByRequestStep DEF RequestProfileBuild
<1>6. ASSUME NEW w \in Workers, LockNextJob(w)
      PROVE AllCovered'
  <2> SUFFICES ASSUME NEW x \in Docs, docStatus'[x] \in {"uploaded", "cleaned"} PROVE Covered(x)'
    BY DEF AllCovered
  <2>1. Covered(x)
    BY <1>6 DEF LockNextJob, Claimable, AllCovered
  <2>2. Covers(w, x) => Covers(w, x)'
    BY <1>6 DEF LockNextJob, Claimable, Covers, WillSettle
  <2>3. \A v \in Workers \ {w} : worker'[v] = worker[v]
    BY <1>6 DEF LockNextJob, Claimable
  <2>4. \A j \in JobIds : job'[j].doc = job[j].doc /\ (j # worker[w].job => job'[j] = job[j])
    BY <1>6 DEF LockNextJob, Claimable
  <2> QED
    BY <2>1, <2>2, <2>3, <2>4, CoveredByWorkerStep
<1>7. ASSUME NEW w \in Workers, CommitClaim(w)
      PROVE AllCovered'
  <2> SUFFICES ASSUME NEW x \in Docs, docStatus'[x] \in {"uploaded", "cleaned"} PROVE Covered(x)'
    BY DEF AllCovered
  <2>1. Covered(x)
    BY <1>7 DEF CommitClaim, Claimed, AllCovered
  <2>2. Covers(w, x) => Covers(w, x)'
    BY <1>7 DEF CommitClaim, Claimed, Covers, WillSettle
  <2>3. \A v \in Workers \ {w} : worker'[v] = worker[v]
    BY <1>7 DEF CommitClaim, Claimed
  <2>4. \A j \in JobIds : job'[j].doc = job[j].doc /\ (j # worker[w].job => job'[j] = job[j])
    BY <1>7 DEF CommitClaim, Claimed
  <2> QED
    BY <2>1, <2>2, <2>3, <2>4, CoveredByWorkerStep
<1>8. ASSUME NEW w \in Workers, ParseDocument(w)
      PROVE AllCovered'
  <2> SUFFICES ASSUME NEW x \in Docs, docStatus'[x] \in {"uploaded", "cleaned"} PROVE Covered(x)'
    BY DEF AllCovered
  <2>1. Covered(x)
    BY <1>8 DEF ParseDocument, AllCovered
  <2>2. Covers(w, x) => Covers(w, x)'
    BY <1>8 DEF ParseDocument, Covers, WillSettle
  <2>3. \A v \in Workers \ {w} : worker'[v] = worker[v]
    BY <1>8 DEF ParseDocument
  <2>4. \A j \in JobIds : job'[j].doc = job[j].doc /\ (j # worker[w].job => job'[j] = job[j])
    BY <1>8 DEF ParseDocument
  <2> QED
    BY <2>1, <2>2, <2>3, <2>4, CoveredByWorkerStep
<1>9. ASSUME NEW w \in Workers, CleanDocument(w)
      PROVE AllCovered'
  <2> SUFFICES ASSUME NEW x \in Docs, docStatus'[x] \in {"uploaded", "cleaned"} PROVE Covered(x)'
    BY DEF AllCovered
  <2>1. Covered(x)
    BY <1>9 DEF CleanDocument, AllCovered
  <2>2. Covers(w, x) => Covers(w, x)'
    BY <1>9 DEF CleanDocument, Covers, WillSettle
  <2>3. \A v \in Workers \ {w} : worker'[v] = worker[v]
    BY <1>9 DEF CleanDocument
  <2>4. \A j \in JobIds : job'[j].doc = job[j].doc /\ (j # worker[w].job => job'[j] = job[j])
    BY <1>9 DEF CleanDocument
  <2> QED
    BY <2>1, <2>2, <2>3, <2>4, CoveredByWorkerStep
<1>10. ASSUME NEW w \in Workers, CommitCleaned(w)
      PROVE AllCovered'
  <2> SUFFICES ASSUME NEW x \in Docs, docStatus'[x] \in {"uploaded", "cleaned"} PROVE Covered(x)'
    BY DEF AllCovered
  <2>1. CASE DocOf(w) = x
    <3>1. Covers(w, x)'
      BY <1>10, <2>1 DEF CommitCleaned, Covers, WillSettle
    <3> QED
      BY <3>1 DEF Covered
  <2>2. CASE DocOf(w) # x
    <3>1. Covered(x)
      BY <1>10, <2>2 DEF CommitCleaned, AllCovered
    <3>2. Covers(w, x) => Covers(w, x)'
      BY <1>10, <2>2 DEF CommitCleaned, Covers, WillSettle
    <3>3. \A v \in Workers \ {w} : worker'[v] = worker[v]
      BY <1>10 DEF CommitCleaned
    <3>4. \A j \in JobIds : job'[j].doc = job[j].doc /\ (j # worker[w].job => job'[j] = job[j])
      BY <1>10 DEF CommitCleaned
    <3> QED
      BY <3>1, <3>2, <3>3, <3>4, CoveredByWorkerStep
  <2> QED
    BY <2>1, <2>2
<1>11. ASSUME NEW w \in Workers, AtomiseDocument(w)
      PROVE AllCovered'
  <2> SUFFICES ASSUME NEW x \in Docs, docStatus'[x] \in {"uploaded", "cleaned"} PROVE Covered(x)'
    BY DEF AllCovered
  <2>1. Covered(x)
    BY <1>11 DEF AtomiseDocument, AllCovered
  <2>2. Covers(w, x) => Covers(w, x)'
    BY <1>11 DEF AtomiseDocument, Covers, WillSettle
  <2>3. \A v \in Workers \ {w} : worker'[v] = worker[v]
    BY <1>11 DEF AtomiseDocument
  <2>4. \A j \in JobIds : job'[j].doc = job[j].doc /\ (j # worker[w].job => job'[j] = job[j])
    BY <1>11 DEF AtomiseDocument
  <2> QED
    BY <2>1, <2>2, <2>3, <2>4, CoveredByWorkerStep
<1>12. ASSUME NEW w \in Workers, CommitAtomised(w)
      PROVE AllCovered'
  <2> SUFFICES ASSUME NEW x \in Docs, docStatus'[x] \in {"uploaded", "cleaned"} PROVE Covered(x)'
    BY DEF AllCovered
  <2>1. Covered(x)
    BY <1>12 DEF CommitAtomised, AllCovered
  <2>2. Covers(w, x) => Covers(w, x)'
    BY <1>12 DEF CommitAtomised, Covers, WillSettle
  <2>3. \A v \in Workers \ {w} : worker'[v] = worker[v]
    BY <1>12 DEF CommitAtomised
  <2>4. \A j \in JobIds : job'[j].doc = job[j].doc /\ (j # worker[w].job => job'[j] = job[j])
    BY <1>12 DEF CommitAtomised
  <2> QED
    BY <2>1, <2>2, <2>3, <2>4, CoveredByWorkerStep
<1>13. ASSUME NEW w \in Workers, BuildVoiceProfile(w)
      PROVE AllCovered'
  <2> SUFFICES ASSUME NEW x \in Docs, docStatus'[x] \in {"uploaded", "cleaned"} PROVE Covered(x)'
    BY DEF AllCovered
  <2>1. Covered(x)
    BY <1>13 DEF BuildVoiceProfile, AllCovered
  <2>2. Covers(w, x) => Covers(w, x)'
    BY <1>13 DEF BuildVoiceProfile, Covers, WillSettle
  <2>3. \A v \in Workers \ {w} : worker'[v] = worker[v]
    BY <1>13 DEF BuildVoiceProfile
  <2>4. \A j \in JobIds : job'[j].doc = job[j].doc /\ (j # worker[w].job => job'[j] = job[j])
    BY <1>13 DEF BuildVoiceProfile
  <2> QED
    BY <2>1, <2>2, <2>3, <2>4, CoveredByWorkerStep
<1>14. ASSUME NEW w \in Workers, RecordOutcome(w)
      PROVE AllCovered'
  <2> SUFFICES ASSUME NEW x \in Docs, docStatus'[x] \in {"uploaded", "cleaned"} PROVE Covered(x)'
    BY DEF AllCovered
  <2>1. Covered(x)
    BY <1>14 DEF RecordOutcome, AllCovered
  <2>2. Covers(w, x) => Covers(w, x)'
    BY <1>14 DEF RecordOutcome, Covers, WillSettle
  <2>3. \A v \in Workers \ {w} : worker'[v] = worker[v]
    BY <1>14 DEF RecordOutcome
  <2>4. \A j \in JobIds : job'[j].doc = job[j].doc /\ (j # worker[w].job => job'[j] = job[j])
    BY <1>14 DEF RecordOutcome
  <2> QED
    BY <2>1, <2>2, <2>3, <2>4, CoveredByWorkerStep
<1>15. ASSUME NEW w \in Workers, LoadForMark(w)
      PROVE AllCovered'
  <2> SUFFICES ASSUME NEW x \in Docs, docStatus'[x] \in {"uploaded", "cleaned"} PROVE Covered(x)'
    BY DEF AllCovered
  <2>1. Covered(x)
    BY <1>15 DEF LoadForMark, AllCovered
  <2>2. Covers(w, x) => Covers(w, x)'
    BY <1>15 DEF LoadForMark, Covers, WillSettle
  <2>3. \A v \in Workers \ {w} : worker'[v] = worker[v]
    BY <1>15 DEF LoadForMark
  <2>4. \A j \in JobIds : job'[j].doc = job[j].doc /\ (j # worker[w].job => job'[j] = job[j])
    BY <1>15 DEF LoadForMark
  <2> QED
    BY <2>1, <2>2, <2>3, <2>4, CoveredByWorkerStep
<1>16. ASSUME NEW w \in Workers, MarkDocumentFailed(w)
      PROVE AllCovered'
  <2> SUFFICES ASSUME NEW x \in Docs, docStatus'[x] \in {"uploaded", "cleaned"} PROVE Covered(x)'
    BY DEF AllCovered
  <2>1. Covered(x)
    BY <1>16 DEF MarkDocumentFailed, AllCovered
  <2>2. Covers(w, x) => Covers(w, x)'
    BY <1>16 DEF MarkDocumentFailed, Covers, WillSettle
  <2>3. \A v \in Workers \ {w} : worker'[v] = worker[v]
    BY <1>16 DEF MarkDocumentFailed
  <2>4. \A j \in JobIds : job'[j].doc = job[j].doc /\ (j # worker[w].job => job'[j] = job[j])
    BY <1>16 DEF MarkDocumentFailed
  <2> QED
    BY <2>1, <2>2, <2>3, <2>4, CoveredByWorkerStep
<1>17. ASSUME NEW w \in Workers, StageRaises(w)
      PROVE AllCovered'
  <2> SUFFICES ASSUME NEW x \in Docs, docStatus'[x] \in {"uploaded", "cleaned"} PROVE Covered(x)'
    BY DEF AllCovered
  <2>1. Covered(x)
    BY <1>17 DEF StageRaises, AllCovered
  <2>2. Covers(w, x) => Covers(w, x)'
    BY <1>17 DEF StageRaises, Covers, WillSettle
  <2>3. \A v \in Workers \ {w} : worker'[v] = worker[v]
    BY <1>17 DEF StageRaises
  <2>4. \A j \in JobIds : job'[j].doc = job[j].doc /\ (j # worker[w].job => job'[j] = job[j])
    BY <1>17 DEF StageRaises
  <2> QED
    BY <2>1, <2>2, <2>3, <2>4, CoveredByWorkerStep
<1>18. ASSUME NEW w \in Workers, PollRaises(w)
      PROVE AllCovered'
  BY <1>18 DEF PollRaises
<1>19. ASSUME NEW w \in Workers, Crash(w)
      PROVE AllCovered'
  BY <1>19 DEF Crash
<1>20. CASE UNCHANGED vars
  BY <1>20 DEF vars, AllCovered, Covered, Covers, WillSettle
<1> QED
  BY <1>1, <1>2, <1>3, <1>4, <1>5, <1>6, <1>7, <1>8, <1>9, <1>10, <1>11, <1>12, <1>13, <1>14, <1>15, <1>16, <1>17, <1>18, <1>19, <1>20
     DEF Next, RequestStep, WorkerStep, FaultStep

\* Without crashes and database errors no document is left in a status that
\* announces work nobody will do, for any number of workers and requests.
THEOREM NobodyStranded ==
    ASSUME "db" \notin Faults, MaxCrashes = 0
    PROVE  Spec => []NeverStranded
<1>1. Init => SInv
  BY IInvInit, NoJobAssumption
     DEF Init, SInv, PendingStatus, AllCovered, IdleWorker
<1>2. SInv /\ [Next]_vars => SInv'
  BY SInvStep
<1>3. SInv => NeverStranded
  <2> SUFFICES ASSUME SInv, NEW d \in Docs, docStatus[d] \in {"uploaded", "cleaned"}
               PROVE  JobPending(d) \/ MarkPending(d)
    BY DEF NeverStranded
  <2>1. Covered(d)
    BY DEF SInv, AllCovered
  <2>2. HeldJobs /\ TypeOK
    BY DEF SInv, IInv
  <2>3. \A w \in Workers : worker[w].pc # "idle" => worker[w].job \in JobIds
    BY <2>2 DEF TypeOK, Worker, HeldJobs, Held
  <2> QED
    BY <2>1, <2>2, <2>3
       DEF Covered, Covers, WillSettle, JobPending, MarkPending, HeldJobs, Held, DocOf, ExecutingPcs,
           MarkingPcs
<1> QED
  BY <1>1, <1>2, <1>3, PTL DEF Spec
-----------------------------------------------------------------------------
(* Refinement of JobLifecycle *)

\* Runners of every job after a step that only moved worker w within, or
\* outside of, the executing part.
LEMMA RunnersKept ==
    ASSUME IInv, NEW w \in Workers,
           \A v \in Workers \ {w} : worker'[v] = worker[v],
           worker'[w].job = worker[w].job \/ worker[w].pc \notin ExecutingPcs,
           worker'[w].pc \in ExecutingPcs <=> worker[w].pc \in ExecutingPcs
    PROVE  \A j \in JobIds : Runners(j)' = Runners(j)
BY DEF Runners

\* A worker that executes a job is alone with it.
LEMMA OneRunner ==
    ASSUME IInv, NEW w \in Workers, worker[w].pc \in ExecutingPcs
    PROVE  Runners(worker[w].job) = {w}
<1>1. worker[w].job # NoJob
  BY DEF IInv, HeldJobs, Held, ExecutingPcs
<1> QED
  BY <1>1 DEF IInv, OneWorkerPerJob, Runners

LEMMA RefinementStep == IInv /\ [Next]_vars => [Lifecycle!Next]_(Lifecycle!vars)
<1> SUFFICES ASSUME IInv, [Next]_vars PROVE [Lifecycle!Next]_(Lifecycle!vars)
  OBVIOUS
<1> DEFINE st == [j \in JobIds |-> job[j].status]
           ru == [j \in JobIds |-> Runners(j)]
<1> USE BoundsAssumption, NoDocAssumption, NoJobAssumption
<1>1. job \in [JobIds -> JobRow] /\ worker \in [Workers -> Worker] /\ clock \in 0 .. MaxJobs
      /\ Unborn /\ HeldJobs
  BY DEF IInv, TypeOK
<1>2. \A w \in Workers : worker[w].pc # "idle" => worker[w].job \in JobIds
  BY <1>1 DEF HeldJobs, Held, Worker
<1>3. ASSUME st' = st, ru' = ru PROVE [Lifecycle!Next]_(Lifecycle!vars)
  BY <1>3 DEF Lifecycle!vars
<1>4. ASSUME NEW j \in JobIds, NEW d, job[j].status = "absent",
             job' = [job EXCEPT ![j] = QueuedJob(d)], UNCHANGED worker
      PROVE  Lifecycle!Next
  <2>1. st' = [st EXCEPT ![j] = "queued"]
    BY <1>1, <1>4 DEF QueuedJob
  <2>2. ru' = ru
    BY <1>4 DEF Runners
  <2> QED
    BY <1>4, <2>1, <2>2 DEF Lifecycle!Next, Lifecycle!Submit
<1>5. ASSUME NEW w \in Workers, UNCHANGED job,
             \A v \in Workers \ {w} : worker'[v] = worker[v],
             worker'[w].job = worker[w].job \/ worker[w].pc \notin ExecutingPcs,
             worker'[w].pc \in ExecutingPcs <=> worker[w].pc \in ExecutingPcs
      PROVE  [Lifecycle!Next]_(Lifecycle!vars)
  <2>1. \A j \in JobIds : Runners(j)' = Runners(j)
    BY <1>5, RunnersKept
  <2> QED
    BY <1>3, <1>5, <2>1
<1>6. ASSUME NEW w \in Workers, CommitClaim(w) PROVE Lifecycle!Next
  <2>1. PICK j \in JobIds : j = worker[w].job /\ job[j].status = "queued"
    BY <1>1, <1>2, <1>6 DEF CommitClaim, HeldJobs, Held
  <2>2. st' = [st EXCEPT ![j] = "running"]
    BY <1>1, <1>6, <2>1 DEF CommitClaim, Claimed, JobRow
  <2>3. Runners(j)' = {w}
    <3>1. worker'[w].job = j /\ worker'[w].pc \in ExecutingPcs
      BY <1>1, <1>6, <2>1 DEF CommitClaim, At, ExecutingPcs, Worker
    <3>2. \A v \in Workers \ {w} : worker'[v] = worker[v] /\ worker[v].job # j
      BY <1>1, <1>6, <2>1 DEF CommitClaim, At, IInv, OneWorkerPerJob, JobIds
    <3> QED
      BY <3>1, <3>2 DEF Runners
  <2>4. \A k \in JobIds \ {j} : Runners(k)' = Runners(k)
    BY <1>1, <1>6, <2>1 DEF CommitClaim, At, Runners, Worker
  <2>5. ru' = [ru EXCEPT ![j] = {w}]
    BY <2>1, <2>3, <2>4
  <2> QED
    BY <2>1, <2>2, <2>5 DEF Lifecycle!Next, Lifecycle!Start
<1>7. ASSUME NEW w \in Workers, worker[w].pc \in ExecutingPcs,
             \A v \in Workers \ {w} : worker'[v] = worker[v],
             worker'[w].pc \notin ExecutingPcs
      PROVE  /\ worker[w].job \in JobIds
             /\ st[worker[w].job] = "running"
             /\ ru[worker[w].job] # {}
             /\ ru' = [ru EXCEPT ![worker[w].job] = {}]
  <2>1. worker[w].job \in JobIds /\ job[worker[w].job].status = "running"
    BY <1>1, <1>2, <1>7 DEF HeldJobs, Held, ExecutingPcs
  <2>2. Runners(worker[w].job) = {w}
    BY <1>7, OneRunner
  <2>3. \A k \in JobIds : Runners(k)' = IF k = worker[w].job THEN {} ELSE Runners(k)
    BY <1>7, <2>2 DEF Runners
  <2> QED
    BY <2>1, <2>2, <2>3
<1>8. ASSUME NEW w \in Workers, RecordOutcome(w) PROVE Lifecycle!Next
  <2> DEFINE j == worker[w].job
             outcome == IF worker[w].error THEN "failed" ELSE "done"
  <2>1. /\ worker[w].pc \in ExecutingPcs
        /\ \A v \in Workers \ {w} : worker'[v] = worker[v]
        /\ worker'[w].pc \notin ExecutingPcs
    BY <1>1, <1>8 DEF RecordOutcome, ExecutingPcs, IdleWorker, Worker
  <2>2. /\ j \in JobIds
        /\ st[j] = "running"
        /\ ru[j] # {}
        /\ ru' = [ru EXCEPT ![j] = {}]
    BY <1>7, <2>1
  <2>3. st' = [st EXCEPT ![j] = outcome]
    BY <1>1, <1>8, <2>2 DEF RecordOutcome, JobRow
  <2> QED
    BY <2>2, <2>3 DEF Lifecycle!Next, Lifecycle!Finish
<1>9. ASSUME NEW w \in Workers, PollRaises(w) \/ Crash(w)
      PROVE  [Lifecycle!Next]_(Lifecycle!vars)
  <2>1. /\ UNCHANGED job
        /\ \A v \in Workers \ {w} : worker'[v] = worker[v]
        /\ worker'[w].pc \notin ExecutingPcs
    BY <1>1, <1>9 DEF PollRaises, Crash, IdleWorker, ExecutingPcs
  <2>2. CASE worker[w].pc \in ExecutingPcs
    <3>1. /\ worker[w].job \in JobIds
          /\ st[worker[w].job] = "running"
          /\ ru[worker[w].job] # {}
          /\ ru' = [ru EXCEPT ![worker[w].job] = {}]
      BY <1>7, <2>1, <2>2
    <3>2. st' = st
      BY <2>1
    <3> QED
      BY <3>1, <3>2 DEF Lifecycle!Next, Lifecycle!Abandon
  <2>3. CASE worker[w].pc \notin ExecutingPcs
    BY <1>5, <2>1, <2>3
  <2> QED
    BY <2>2, <2>3
<1>10. ASSUME NEW d \in Docs, UploadDocument(d) PROVE Lifecycle!Next
  <2>1. clock + 1 \in JobIds /\ job[clock + 1].status = "absent"
    BY <1>1, <1>10 DEF UploadDocument, Unborn, JobIds
  <2>2. job' = [job EXCEPT ![clock + 1] = QueuedJob(d)] /\ UNCHANGED worker
    BY <1>10 DEF UploadDocument
  <2> QED
    BY <1>4, <2>1, <2>2
<1>11. ASSUME RequestProfileBuild PROVE Lifecycle!Next
  <2>1. clock + 1 \in JobIds /\ job[clock + 1].status = "absent"
    BY <1>1, <1>11 DEF RequestProfileBuild, Unborn, JobIds
  <2>2. job' = [job EXCEPT ![clock + 1] = QueuedJob(NoDoc)] /\ UNCHANGED worker
    BY <1>11 DEF RequestProfileBuild
  <2> QED
    BY <1>4, <2>1, <2>2
<1>12. ASSUME NEW j \in JobIds, CommitReprocess(j) PROVE Lifecycle!Next
  BY <1>1, <1>4, <1>12 DEF CommitReprocess, Unborn
<1>13. ASSUME UNCHANGED <<job, worker>> PROVE [Lifecycle!Next]_(Lifecycle!vars)
  BY <1>3, <1>13 DEF Runners
<1>14. ASSUME NEW w \in Workers, LockNextJob(w) PROVE [Lifecycle!Next]_(Lifecycle!vars)
  BY <1>1, <1>5, <1>14 DEF LockNextJob, ExecutingPcs, Worker
<1>15. ASSUME NEW w \in Workers, UNCHANGED job,
              ParseDocument(w) \/ CleanDocument(w) \/ CommitCleaned(w) \/ AtomiseDocument(w)
              \/ CommitAtomised(w) \/ BuildVoiceProfile(w) \/ StageRaises(w)
       PROVE  [Lifecycle!Next]_(Lifecycle!vars)
  <2> DEFINE Stays == /\ \A v \in Workers \ {w} : worker'[v] = worker[v]
                      /\ worker'[w].job = worker[w].job
                      /\ worker'[w].pc \in ExecutingPcs /\ worker[w].pc \in ExecutingPcs
  <2>1. ASSUME ParseDocument(w) PROVE Stays
    BY <1>1, <2>1 DEF ParseDocument, At, Loaded, Raised, ExecutingPcs, Worker
  <2>2. ASSUME CleanDocument(w) PROVE Stays
    BY <1>1, <2>2 DEF CleanDocument, At, Loaded, Raised, ExecutingPcs, Worker
  <2>3. ASSUME CommitCleaned(w) PROVE Stays
    BY <1>1, <2>3 DEF CommitCleaned, At, Loaded, Raised, ExecutingPcs, Worker
  <2>4. ASSUME AtomiseDocument(w) PROVE Stays
    BY <1>1, <2>4 DEF AtomiseDocument, At, Loaded, Raised, ExecutingPcs, Worker
  <2>5. ASSUME CommitAtomised(w) PROVE Stays
    BY <1>1, <2>5 DEF CommitAtomised, At, Loaded, Raised, ExecutingPcs, Worker
  <2>6. ASSUME BuildVoiceProfile(w) PROVE Stays
    BY <1>1, <2>6 DEF BuildVoiceProfile, At, Loaded, Raised, ExecutingPcs, Worker
  <2>7. ASSUME StageRaises(w) PROVE Stays
    BY <1>1, <2>7 DEF StageRaises, At, Loaded, Raised, ExecutingPcs, Worker
  <2>8. Stays
    BY <1>15, <2>1, <2>2, <2>3, <2>4, <2>5, <2>6, <2>7
  <2> QED
    BY <1>5, <1>15, <2>8
<1>16. ASSUME NEW w \in Workers, LoadForMark(w) \/ MarkDocumentFailed(w)
       PROVE  [Lifecycle!Next]_(Lifecycle!vars)
  <2> DEFINE Outside == /\ UNCHANGED job
                        /\ \A v \in Workers \ {w} : worker'[v] = worker[v]
                        /\ worker'[w].pc \notin ExecutingPcs /\ worker[w].pc \notin ExecutingPcs
  <2>1. ASSUME LoadForMark(w) PROVE Outside
    BY <1>1, <2>1 DEF LoadForMark, Loaded, ExecutingPcs, Worker
  <2>2. ASSUME MarkDocumentFailed(w) PROVE Outside
    BY <1>1, <2>2 DEF MarkDocumentFailed, IdleWorker, ExecutingPcs
  <2> QED
    BY <1>5, <1>16, <2>1, <2>2
<1>17. ASSUME NEW w \in Workers, WorkerStep(w) \/ FaultStep(w)
       PROVE  [Lifecycle!Next]_(Lifecycle!vars)
  BY <1>6, <1>8, <1>9, <1>14, <1>15, <1>16, <1>17
     DEF WorkerStep, FaultStep, ParseDocument, CleanDocument, CommitCleaned, AtomiseDocument,
         CommitAtomised, BuildVoiceProfile, StageRaises
<1> QED
  BY <1>10, <1>11, <1>12, <1>13, <1>17
     DEF Next, vars, RequestStep, OpenReprocess, AbortReprocess

\* The job queue implements JobLifecycle: whatever the sessions, locks, stage
\* failures, database errors and crashes do, each job is started at most once, by
\* one worker, and its outcome is recorded at most once.
THEOREM ImplementsLifecycle == Spec => Implements
<1>1. Init => Lifecycle!Init
  BY DEF Init, Lifecycle!Init, AbsentJob, IdleWorker, Runners, ExecutingPcs
<1>2. IInv /\ [Next]_vars => [Lifecycle!Next]_(Lifecycle!vars)
  BY RefinementStep
<1> QED
  BY <1>1, <1>2, IInvAlways, PTL DEF Spec, Implements, Lifecycle!Spec
-----------------------------------------------------------------------------
(* Documents settle *)

\* Worker w is past the claim of a job of document d.
OnDoc(w, d) == worker[w].job # NoJob /\ worker[w].pc # "claim" /\ DocOf(w) = d

\* No two workers are on jobs of the same document.
OneJobPerDoc == \A d \in Docs, v, w \in Workers : OnDoc(v, d) /\ OnDoc(w, d) => v = w

QueuedFor(d) == \E j \in JobIds : job[j].status = "queued" /\ job[j].doc = d

\* The document shows the outcome of its last job.
Agreed(d) ==
    /\ lastFinished[d] # NoJob
    /\ docStatus[d] = IF job[lastFinished[d]].status = "done" THEN "atomised" ELSE "failed"

\* What the worker on document d carries: a status that its commit will not lose to
\* what the session loaded, unless another job of d waits.
Carried(w, d) ==
    /\ worker[w].pc = "commitAtomised" =>
          worker[w].pending = "atomised" /\ (worker[w].loaded = docStatus[d] \/ QueuedFor(d))
    /\ worker[w].pc = "record" /\ ~worker[w].error => docStatus[d] = "atomised" \/ QueuedFor(d)
    /\ worker[w].pc \in MarkingPcs => lastFinished[d] = worker[w].job
    /\ worker[w].pc = "commitMarked" =>
          worker[w].pending = "failed" /\ (worker[w].loaded = docStatus[d] \/ QueuedFor(d))

DocInv(d) ==
    /\ docStatus[d] = "absent" \/ QueuedFor(d) \/ Agreed(d) \/ \E w \in Workers : OnDoc(w, d)
    /\ \A w \in Workers : OnDoc(w, d) => Carried(w, d)

LastIsFinal ==
    \A d \in Docs : lastFinished[d] # NoJob => job[lastFinished[d]].status \in {"done", "failed"}

\* A build is of no document.
BuildsAreOfNoDoc == \A w \in Workers : worker[w].pc = "build" => DocOf(w) = NoDoc

TInv == LastIsFinal /\ BuildsAreOfNoDoc /\ \A d \in Docs : DocInv(d)

\* The last finished job of a document stays as it is until another one finishes.
LEMMA LastStays ==
    ASSUME IInv, LastIsFinal, [Next]_vars, NEW d \in Docs, lastFinished[d] # NoJob
    PROVE  job'[lastFinished[d]] = job[lastFinished[d]]
<1>1. lastFinished[d] \in JobIds /\ job[lastFinished[d]].status \in {"done", "failed"}
  BY DEF IInv, TypeOK, LastIsFinal
<1>2. RowStep(lastFinished[d])
  BY <1>1, RowsStep
<1> QED
  BY <1>1, <1>2 DEF RowStep

\* A step that leaves the document, the workers on it and its queue alone keeps what
\* was true of it; a request that queues a job may also change its status.
LEMMA Undisturbed ==
    ASSUME IInv, LastIsFinal, [Next]_vars, NEW d \in Docs, DocInv(d),
           docStatus'[d] = docStatus[d] \/ QueuedFor(d)',
           lastFinished'[d] = lastFinished[d],
           QueuedFor(d) => QueuedFor(d)',
           \A v \in Workers : OnDoc(v, d) => OnDoc(v, d)',
           \A v \in Workers : OnDoc(v, d)' => OnDoc(v, d) /\ worker'[v] = worker[v]
    PROVE  DocInv(d)'
<1>1. Agreed(d) /\ docStatus'[d] = docStatus[d] => Agreed(d)'
  BY LastStays DEF Agreed
<1>2. docStatus[d] = "absent" \/ QueuedFor(d) \/ Agreed(d) \/ \E v \in Workers : OnDoc(v, d)
  BY DEF DocInv
<1>3. \/ docStatus'[d] = "absent" \/ QueuedFor(d)' \/ Agreed(d)'
      \/ \E v \in Workers : OnDoc(v, d)'
  BY <1>1, <1>2
<1>4. ASSUME NEW v \in Workers, OnDoc(v, d)' PROVE Carried(v, d)'
  <2>1. Carried(v, d) /\ worker'[v] = worker[v]
    BY <1>4 DEF DocInv
  <2> QED
    BY <2>1 DEF Carried
<1> QED
  BY <1>3, <1>4 DEF DocInv

\* A step of a worker does not disturb the documents it is not on.
LEMMA ElsewhereUndisturbed ==
    ASSUME IInv, LastIsFinal, [Next]_vars, NEW d \in Docs, DocInv(d), NEW w \in Workers,
           \A v \in Workers \ {w} : worker'[v] = worker[v],
           \A j \in JobIds : job'[j].doc = job[j].doc,
           \A j \in JobIds : job'[j] = job[j] \/ (j = worker[w].job /\ job[j].doc # d),
           docStatus'[d] = docStatus[d], lastFinished'[d] = lastFinished[d],
           ~OnDoc(w, d), ~OnDoc(w, d)'
    PROVE  DocInv(d)'
<1>1. QueuedFor(d) => QueuedFor(d)'
  BY DEF QueuedFor
<1>2. \A v \in Workers \ {w} : worker[v].job # NoJob => worker[v].job \in JobIds
  BY DEF IInv, TypeOK, Worker
<1>3. \A v \in Workers : OnDoc(v, d) => OnDoc(v, d)'
  BY <1>2 DEF OnDoc, DocOf
<1>4. \A v \in Workers : OnDoc(v, d)' => OnDoc(v, d) /\ worker'[v] = worker[v]
  BY <1>2 DEF OnDoc, DocOf
<1> QED
  BY <1>1, <1>3, <1>4, Undisturbed

\* The worker on a document answers for it,
LEMMA HereCarried ==
    ASSUME OneJobPerDoc', NEW d \in Docs, NEW w \in Workers, OnDoc(w, d)', Carried(w, d)'
    PROVE  DocInv(d)'
BY DEF OneJobPerDoc, DocInv

\* ... and leaves it in order.
LEMMA HereLeft ==
    ASSUME IInv, OneJobPerDoc, NEW d \in Docs, NEW w \in Workers, OnDoc(w, d),
           \A v \in Workers \ {w} : worker'[v] = worker[v],
           \A j \in JobIds : job'[j].doc = job[j].doc,
           ~OnDoc(w, d)',
           Agreed(d)' \/ QueuedFor(d)'
    PROVE  DocInv(d)'
<1>1. \A v \in Workers \ {w} : worker[v].job # NoJob => worker[v].job \in JobIds
  BY DEF IInv, TypeOK, Worker
<1>2. \A v \in Workers : ~OnDoc(v, d)'
  BY <1>1 DEF OneJobPerDoc, OnDoc, DocOf
<1> QED
  BY <1>2 DEF DocInv

LEMMA LastIsFinalStep == IInv /\ LastIsFinal /\ [Next]_vars => LastIsFinal'
<1> SUFFICES ASSUME IInv, LastIsFinal, [Next]_vars, NEW d \in Docs, lastFinished'[d] # NoJob
             PROVE  job'[lastFinished'[d]].status \in {"done", "failed"}
  BY DEF LastIsFinal
<1>1. CASE lastFinished'[d] = lastFinished[d]
  BY <1>1, LastStays DEF LastIsFinal
<1>2. CASE lastFinished'[d] # lastFinished[d]
  <2>1. PICK w \in Workers : RecordOutcome(w)
    BY <1>2 DEF Next, vars, RequestStep, WorkerStep, FaultStep, UploadDocument, OpenReprocess,
         CommitReprocess, AbortReprocess, RequestProfileBuild, LockNextJob, CommitClaim,
         ParseDocument, CleanDocument, CommitCleaned, AtomiseDocument, CommitAtomised,
         BuildVoiceProfile, LoadForMark, MarkDocumentFailed, StageRaises, PollRaises, Crash
  <2>2. /\ job \in [JobIds -> JobRow] /\ worker[w] \in Worker /\ Held(w)
        /\ lastFinished \in [Docs -> JobIds \cup {NoJob}]
    BY DEF IInv, TypeOK, HeldJobs
  <2>3. worker[w].job \in JobIds
    BY <2>1, <2>2 DEF Held, RecordOutcome, Worker
  <2>4. lastFinished'[d] = worker[w].job
    BY <1>2, <2>1, <2>2 DEF RecordOutcome
  <2> QED
    BY <2>1, <2>2, <2>3, <2>4 DEF RecordOutcome, JobRow
<1> QED
  BY <1>1, <1>2

LEMMA BuildsStep == IInv /\ BuildsAreOfNoDoc /\ [Next]_vars => BuildsAreOfNoDoc'
<1> SUFFICES ASSUME IInv, BuildsAreOfNoDoc, [Next]_vars,
                    NEW w \in Workers, worker'[w].pc = "build"
             PROVE  DocOf(w)' = NoDoc
  BY DEF BuildsAreOfNoDoc
<1>0. /\ worker \in [Workers -> Worker] /\ job \in [JobIds -> JobRow]
      /\ \A v \in Workers : Held(v)
  BY DEF IInv, TypeOK, HeldJobs
<1>1. CASE worker'[w] = worker[w]
  <2>1. worker[w].job \in JobIds /\ job[worker[w].job].status = "running"
    BY <1>0, <1>1 DEF Held, Worker, ExecutingPcs
  <2>2. job'[worker[w].job].doc = job[worker[w].job].doc
    <3>1. RowStep(worker[w].job) /\ job[worker[w].job] \in JobRow
      BY <1>0, <2>1, RowsStep
    <3> QED
      BY <2>1, <3>1 DEF RowStep, JobRow
  <2> QED
    BY <1>1, <2>2 DEF BuildsAreOfNoDoc, DocOf
<1>2. CASE CommitClaim(w)
  <2>1. worker[w].job \in JobIds /\ job[worker[w].job].doc = NoDoc /\ worker'[w].job = worker[w].job
    BY <1>0, <1>2 DEF CommitClaim, At, Held, Worker
  <2> QED
    BY <1>0, <1>2, <2>1 DEF CommitClaim, Claimed, DocOf, JobRow
<1>3. ASSUME NEW v \in Workers, WorkerStep(v) \/ FaultStep(v) PROVE worker'[w] = worker[w] \/ CommitClaim(w)
  <2>1. CASE v # w
    BY <1>0, <1>3, <2>1
       DEF WorkerStep, FaultStep, LockNextJob, CommitClaim, ParseDocument, CleanDocument,
           CommitCleaned, AtomiseDocument, CommitAtomised, BuildVoiceProfile, RecordOutcome,
           LoadForMark, MarkDocumentFailed, StageRaises, PollRaises, Crash, At, Loaded, Raised
  <2>2. CASE v = w
    <3>1. CASE LockNextJob(w)
      BY <1>0, <3>1 DEF LockNextJob
    <3>2. CASE ParseDocument(w) \/ LoadForMark(w)
      BY <1>0, <3>2 DEF ParseDocument, LoadForMark, Loaded, Worker
    <3>3. CASE CleanDocument(w)
      BY <1>0, <3>3 DEF CleanDocument
    <3>4. CASE CommitCleaned(w) \/ CommitAtomised(w) \/ BuildVoiceProfile(w)
      BY <1>0, <3>4 DEF CommitCleaned, CommitAtomised, BuildVoiceProfile, At, Worker
    <3>5. CASE AtomiseDocument(w) \/ StageRaises(w)
      BY <1>0, <3>5 DEF AtomiseDocument, StageRaises, Loaded, Raised, Worker
    <3>6. CASE RecordOutcome(w)
      BY <1>0, <3>6 DEF RecordOutcome, IdleWorker
    <3>7. CASE MarkDocumentFailed(w) \/ PollRaises(w) \/ Crash(w)
      BY <1>0, <3>7 DEF MarkDocumentFailed, PollRaises, Crash, IdleWorker
    <3> QED
      BY <1>3, <2>2, <3>1, <3>2, <3>3, <3>4, <3>5, <3>6, <3>7 DEF WorkerStep, FaultStep
  <2> QED
    BY <2>1, <2>2
<1>4. ASSUME UNCHANGED worker PROVE worker'[w] = worker[w]
  BY <1>4
<1> QED
  BY <1>1, <1>2, <1>3, <1>4
     DEF Next, vars, RequestStep, UploadDocument, OpenReprocess, CommitReprocess,
         AbortReprocess, RequestProfileBuild

LEMMA DocInvStep ==
    ASSUME "db" \notin Faults, MaxCrashes = 0,
           IInv, IInv', OneJobPerDoc, OneJobPerDoc', TInv, [Next]_vars, NEW d \in Docs
    PROVE  DocInv(d)'
<1> USE BoundsAssumption, NoDocAssumption, NoJobAssumption
<1>0. /\ docStatus \in [Docs -> DocStates] /\ job \in [JobIds -> JobRow]
      /\ request \in [JobIds -> Request] /\ clock \in 0 .. MaxJobs
      /\ lastFinished \in [Docs -> JobIds \cup {NoJob}]
      /\ worker \in [Workers -> Worker]
      /\ Unborn /\ LastIsFinal /\ DocInv(d)
  BY DEF IInv, TypeOK, TInv
<1>00. \A w \in Workers : worker[w].job # NoJob => worker[w].job \in JobIds
  BY <1>0 DEF Worker
<1>01. \A w \in Workers : Held(w)
  BY DEF IInv, HeldJobs
<1>r. ASSUME UNCHANGED <<lastFinished, worker>>,
             \A j \in JobIds : job'[j] = job[j] \/ (job[j].status = "absent" /\ job'[j].status = "queued"),
             docStatus'[d] = docStatus[d] \/ QueuedFor(d)'
      PROVE  DocInv(d)'
  <2>1. QueuedFor(d) => QueuedFor(d)'
    BY <1>r DEF QueuedFor
  <2>2. \A v \in Workers : worker[v].job # NoJob => job'[worker[v].job] = job[worker[v].job]
    BY <1>00, <1>01, <1>0, <1>r DEF Held, Worker, Pcs, ExecutingPcs, MarkingPcs
  <2>3. \A v \in Workers : OnDoc(v, d)' <=> OnDoc(v, d)
    BY <1>r, <2>2 DEF OnDoc, DocOf
  <2> QED
    BY <1>0, <1>r, <2>1, <2>3, Undisturbed
<1>1. ASSUME NEW e \in Docs, UploadDocument(e) PROVE DocInv(d)'
  <2>1. clock + 1 \in JobIds /\ job[clock + 1].status = "absent"
    BY <1>0, <1>1 DEF UploadDocument, Unborn, JobIds
  <2>2. job' = [job EXCEPT ![clock + 1] = QueuedJob(e)] /\ UNCHANGED <<lastFinished, worker>>
        /\ docStatus' = [docStatus EXCEPT ![e] = "uploaded"]
    BY <1>1 DEF UploadDocument
  <2>3. job'[clock + 1].status = "queued" /\ job'[clock + 1].doc = e
    BY <1>0, <2>1, <2>2 DEF QueuedJob
  <2>4. docStatus'[d] = docStatus[d] \/ QueuedFor(d)'
    BY <1>0, <2>1, <2>2, <2>3 DEF QueuedFor
  <2>5. \A j \in JobIds : job'[j] = job[j] \/ (job[j].status = "absent" /\ job'[j].status = "queued")
    BY <1>0, <2>1, <2>2, <2>3
  <2> QED
    BY <1>r, <2>2, <2>4, <2>5
<1>2. ASSUME NEW j \in JobIds, CommitReprocess(j) PROVE DocInv(d)'
  <2>1. job[j].status = "absent"
    BY <1>0, <1>2 DEF CommitReprocess, Unborn
  <2>2. job' = [job EXCEPT ![j] = QueuedJob(request[j].doc)] /\ UNCHANGED <<lastFinished, worker>>
        /\ docStatus' = [docStatus EXCEPT ![request[j].doc] = Flushed(request[j].loaded, "uploaded", @)]
    BY <1>2 DEF CommitReprocess
  <2>3. job'[j].status = "queued" /\ job'[j].doc = request[j].doc
    BY <1>0, <2>2 DEF QueuedJob
  <2>4. docStatus'[d] = docStatus[d] \/ QueuedFor(d)'
    BY <1>0, <2>2, <2>3 DEF QueuedFor
  <2>5. \A k \in JobIds : job'[k] = job[k] \/ (job[k].status = "absent" /\ job'[k].status = "queued")
    BY <1>0, <2>1, <2>2, <2>3
  <2> QED
    BY <1>r, <2>2, <2>4, <2>5
<1>3. CASE RequestProfileBuild
  <2>1. clock + 1 \in JobIds /\ job[clock + 1].status = "absent"
    BY <1>0, <1>3 DEF RequestProfileBuild, Unborn, JobIds
  <2>2. job' = [job EXCEPT ![clock + 1] = QueuedJob(NoDoc)]
        /\ UNCHANGED <<docStatus, lastFinished, worker>>
    BY <1>3 DEF RequestProfileBuild
  <2>3. \A k \in JobIds : job'[k] = job[k] \/ (job[k].status = "absent" /\ job'[k].status = "queued")
    BY <1>0, <2>1, <2>2 DEF QueuedJob
  <2> QED
    BY <1>r, <2>2, <2>3
<1>4. ASSUME UNCHANGED <<docStatus, job, lastFinished, worker>> PROVE DocInv(d)'
  BY <1>r, <1>4
<1>w. ASSUME NEW w \in Workers, UNCHANGED job,
             \A v \in Workers \ {w} : worker'[v] = worker[v],
             docStatus'[d] = docStatus[d] \/ OnDoc(w, d),
             UNCHANGED lastFinished,
             worker'[w].job = worker[w].job, worker[w].pc # "claim", worker'[w].pc # "claim",
             OnDoc(w, d) => Carried(w, d)'
      PROVE  DocInv(d)'
  <2>1. OnDoc(w, d)' <=> OnDoc(w, d)
    BY <1>w DEF OnDoc, DocOf
  <2>2. CASE OnDoc(w, d)
    BY <1>w, <2>1, <2>2, HereCarried
  <2>3. CASE ~OnDoc(w, d)
    BY <1>0, <1>w, <2>1, <2>3, ElsewhereUndisturbed
  <2> QED
    BY <2>2, <2>3
<1>5. ASSUME NEW w \in Workers, LockNextJob(w) PROVE DocInv(d)'
  <2>1. /\ UNCHANGED <<docStatus, job, lastFinished>>
        /\ \A v \in Workers \ {w} : worker'[v] = worker[v]
        /\ worker[w].pc = "idle" /\ worker'[w].pc = "claim"
    BY <1>0, <1>5 DEF LockNextJob, Worker
  <2>2. ~OnDoc(w, d) /\ ~OnDoc(w, d)'
    BY <1>01, <2>1 DEF OnDoc, Held
  <2> QED
    BY <1>0, <2>1, <2>2, ElsewhereUndisturbed
<1>6. ASSUME NEW w \in Workers, CommitClaim(w) PROVE DocInv(d)'
  <2> DEFINE j == worker[w].job
  <2>1. j \in JobIds /\ worker[w].pc = "claim"
    BY <1>00, <1>01, <1>6 DEF CommitClaim, Held
  <2>2. /\ UNCHANGED <<docStatus, lastFinished>>
        /\ \A v \in Workers \ {w} : worker'[v] = worker[v]
        /\ worker'[w].job = j /\ worker'[w].pc \in {"build", "begin"}
        /\ job' = [job EXCEPT ![j] = Claimed(@)]
    BY <1>0, <1>6 DEF CommitClaim, At, Worker
  <2>3. \A k \in JobIds : job'[k].doc = job[k].doc
    BY <1>0, <2>1, <2>2 DEF Claimed, JobRow
  <2>4. ~OnDoc(w, d) /\ (OnDoc(w, d)' <=> job[j].doc = d)
    BY <2>1, <2>2, <2>3 DEF OnDoc, DocOf, JobIds
  <2>5. CASE job[j].doc = d
    <3>1. Carried(w, d)'
      BY <2>2 DEF Carried, MarkingPcs
    <3> QED
      BY <2>4, <2>5, <3>1, HereCarried
  <2>6. CASE job[j].doc # d
    <3>1. \A k \in JobIds : job'[k] = job[k] \/ (k = j /\ job[k].doc # d)
      BY <1>0, <2>1, <2>2, <2>6
    <3> QED
      BY <1>0, <2>2, <2>3, <2>4, <2>6, <3>1, ElsewhereUndisturbed
  <2> QED
    BY <2>5, <2>6
<1>7. ASSUME NEW w \in Workers, ParseDocument(w) PROVE DocInv(d)'
  <2>1. /\ UNCHANGED <<docStatus, job, lastFinished>>
        /\ \A v \in Workers \ {w} : worker'[v] = worker[v]
        /\ worker'[w].job = worker[w].job /\ worker[w].pc = "begin" /\ worker'[w].pc = "clean"
    BY <1>0, <1>7 DEF ParseDocument, Loaded, Worker
  <2>2. Carried(w, d)'
    BY <2>1 DEF Carried, MarkingPcs
  <2> QED
    BY <1>w, <2>1, <2>2
<1>8. ASSUME NEW w \in Workers, CleanDocument(w) PROVE DocInv(d)'
  <2>1. /\ UNCHANGED <<docStatus, job, lastFinished>>
        /\ \A v \in Workers \ {w} : worker'[v] = worker[v]
        /\ worker'[w].job = worker[w].job /\ worker[w].pc = "clean" /\ worker'[w].pc = "commitCleaned"
    BY <1>0, <1>8 DEF CleanDocument, Worker
  <2>2. Carried(w, d)'
    BY <2>1 DEF Carried, MarkingPcs
  <2> QED
    BY <1>w, <2>1, <2>2
<1>9. ASSUME NEW w \in Workers, CommitCleaned(w) PROVE DocInv(d)'
  <2>1. /\ UNCHANGED <<job, lastFinished>>
        /\ \A v \in Workers \ {w} : worker'[v] = worker[v]
        /\ worker'[w].job = worker[w].job /\ worker[w].pc = "commitCleaned" /\ worker'[w].pc = "atomise"
        /\ \A x \in Docs \ {DocOf(w)} : docStatus'[x] = docStatus[x]
    BY <1>0, <1>9 DEF CommitCleaned, At, Worker
  <2>2. Carried(w, d)'
    BY <2>1 DEF Carried, MarkingPcs
  <2>3. docStatus'[d] = docStatus[d] \/ OnDoc(w, d)
    BY <1>01, <2>1 DEF OnDoc, Held
  <2> QED
    BY <1>w, <2>1, <2>2, <2>3
<1>10. ASSUME NEW w \in Workers, AtomiseDocument(w) PROVE DocInv(d)'
  <2>1. /\ UNCHANGED <<docStatus, job, lastFinished>>
        /\ \A v \in Workers \ {w} : worker'[v] = worker[v]
        /\ worker'[w].job = worker[w].job /\ worker[w].pc = "atomise"
        /\ \/ /\ worker'[w].pc = "commitAtomised" /\ worker'[w].pending = "atomised"
              /\ worker'[w].loaded = docStatus[DocOf(w)]
           \/ worker'[w].pc = "record" /\ worker'[w].error
    BY <1>0, <1>10 DEF AtomiseDocument, Loaded, Raised, Worker
  <2>2. OnDoc(w, d) => Carried(w, d)'
    BY <2>1 DEF Carried, MarkingPcs, OnDoc
  <2> QED
    BY <1>w, <2>1, <2>2
<1>11. ASSUME NEW w \in Workers, CommitAtomised(w) PROVE DocInv(d)'
  <2>1. /\ UNCHANGED <<job, lastFinished>>
        /\ \A v \in Workers \ {w} : worker'[v] = worker[v]
        /\ worker'[w].job = worker[w].job /\ worker[w].pc = "commitAtomised" /\ worker'[w].pc = "record"
        /\ \A x \in Docs \ {DocOf(w)} : docStatus'[x] = docStatus[x]
        /\ DocOf(w) \in Docs => docStatus'[DocOf(w)] =
               Flushed(worker[w].loaded, worker[w].pending, docStatus[DocOf(w)])
    BY <1>0, <1>11 DEF CommitAtomised, At, Worker
  <2>2. ASSUME OnDoc(w, d) PROVE Carried(w, d)'
    <3>1. worker[w].pending = "atomised" /\ (worker[w].loaded = docStatus[d] \/ QueuedFor(d))
      BY <1>0, <2>1, <2>2 DEF DocInv, Carried
    <3>2. docStatus'[d] = Flushed(worker[w].loaded, worker[w].pending, docStatus[d])
      BY <2>1, <2>2 DEF OnDoc
    <3>3. docStatus'[d] = "atomised" \/ QueuedFor(d)'
      BY <2>1, <3>1, <3>2 DEF Flushed, QueuedFor
    <3> QED
      BY <2>1, <3>3 DEF Carried, MarkingPcs
  <2>3. docStatus'[d] = docStatus[d] \/ OnDoc(w, d)
    BY <1>01, <2>1 DEF OnDoc, Held
  <2> QED
    BY <1>w, <2>1, <2>2, <2>3
<1>12. ASSUME NEW w \in Workers, BuildVoiceProfile(w) PROVE DocInv(d)'
  <2>1. /\ UNCHANGED <<docStatus, job, lastFinished>>
        /\ \A v \in Workers \ {w} : worker'[v] = worker[v]
        /\ worker'[w].job = worker[w].job /\ worker[w].pc = "build" /\ worker'[w].pc = "record"
    BY <1>0, <1>12 DEF BuildVoiceProfile, At, Worker
  <2>2. ~OnDoc(w, d)
    BY <2>1 DEF TInv, BuildsAreOfNoDoc, OnDoc
  <2> QED
    BY <1>w, <2>1, <2>2
<1>13. ASSUME NEW w \in Workers, RecordOutcome(w) PROVE DocInv(d)'
  <2> DEFINE j == worker[w].job
  <2>1. j \in JobIds /\ worker[w].pc = "record"
    BY <1>00, <1>01, <1>13 DEF RecordOutcome, Held
  <2>2. /\ UNCHANGED docStatus
        /\ \A v \in Workers \ {w} : worker'[v] = worker[v]
        /\ job' = [job EXCEPT ![j].status = IF worker[w].error THEN "failed" ELSE "done"]
        /\ lastFinished' = IF DocOf(w) = NoDoc THEN lastFinished
                           ELSE [lastFinished EXCEPT ![DocOf(w)] = j]
        /\ IF worker[w].error /\ DocOf(w) # NoDoc
           THEN worker'[w].pc = "mark" /\ worker'[w].job = j
           ELSE worker'[w] = IdleWorker
    BY <1>0, <1>13 DEF RecordOutcome, Worker
  <2>3. \A k \in JobIds : job'[k].doc = job[k].doc
    BY <1>0, <2>1, <2>2 DEF JobRow
  <2>4. CASE DocOf(w) = d
    <3>1. OnDoc(w, d) /\ lastFinished'[d] = j /\ j # NoJob
      BY <1>0, <2>1, <2>2, <2>4 DEF OnDoc, JobIds
    <3>2. CASE worker[w].error
      <4>1. worker'[w].pc = "mark" /\ worker'[w].job = j
        BY <2>2, <2>4, <3>2
      <4>2. OnDoc(w, d)' /\ Carried(w, d)'
        BY <2>1, <2>3, <2>4, <3>1, <4>1 DEF OnDoc, DocOf, Carried
      <4> QED
        BY <4>2, HereCarried
    <3>3. CASE ~worker[w].error
      <4>1. worker'[w].job = NoJob
        BY <2>2, <3>3 DEF IdleWorker
      <4>2. ~OnDoc(w, d)'
        BY <4>1 DEF OnDoc
      <4>3. job'[j].status = "done"
        BY <1>0, <2>1, <2>2, <3>3 DEF JobRow
      <4>4. docStatus[d] = "atomised" \/ QueuedFor(d)
        BY <1>0, <2>1, <3>1, <3>3 DEF DocInv, Carried
      <4>5. QueuedFor(d) => QueuedFor(d)'
        <5>1. job[j].status = "running"
          BY <1>01, <2>1 DEF Held, ExecutingPcs
        <5>2. \A k \in JobIds : job[k].status = "queued" => job'[k] = job[k]
          BY <1>0, <2>1, <2>2, <5>1
        <5> QED
          BY <5>2 DEF QueuedFor
      <4>6. Agreed(d)' \/ QueuedFor(d)'
        BY <2>2, <3>1, <4>3, <4>4, <4>5 DEF Agreed
      <4> QED
        BY <2>2, <2>3, <3>1, <4>2, <4>6, HereLeft
    <3> QED
      BY <3>2, <3>3
  <2>5. CASE DocOf(w) # d
    <3>1. \A k \in JobIds : job'[k] = job[k] \/ (k = j /\ job[k].doc # d)
      BY <1>0, <2>1, <2>2, <2>5 DEF DocOf
    <3>2. ~OnDoc(w, d) /\ ~OnDoc(w, d)'
      BY <2>1, <2>2, <2>3, <2>5 DEF OnDoc, DocOf, IdleWorker
    <3>3. lastFinished'[d] = lastFinished[d]
      BY <1>0, <2>2, <2>5
    <3> QED
      BY <1>0, <2>2, <2>3, <3>1, <3>2, <3>3, ElsewhereUndisturbed
  <2> QED
    BY <2>4, <2>5
<1>14. ASSUME NEW w \in Workers, LoadForMark(w) PROVE DocInv(d)'
  <2>1. /\ UNCHANGED <<docStatus, job, lastFinished>>
        /\ \A v \in Workers \ {w} : worker'[v] = worker[v]
        /\ worker'[w].job = worker[w].job /\ worker[w].pc = "mark"
        /\ worker'[w].pc = "commitMarked" /\ worker'[w].pending = "failed"
        /\ worker'[w].loaded = docStatus[DocOf(w)]
    BY <1>0, <1>14 DEF LoadForMark, Loaded, Worker
  <2>2. ASSUME OnDoc(w, d) PROVE Carried(w, d)'
    <3>1. lastFinished[d] = worker[w].job
      BY <1>0, <2>1, <2>2 DEF DocInv, Carried, MarkingPcs
    <3> QED
      BY <2>1, <2>2, <3>1 DEF Carried, OnDoc
  <2> QED
    BY <1>w, <2>1, <2>2
<1>15. ASSUME NEW w \in Workers, MarkDocumentFailed(w) PROVE DocInv(d)'
  <2> DEFINE j == worker[w].job
  <2>1. /\ UNCHANGED <<job, lastFinished>>
        /\ \A v \in Workers \ {w} : worker'[v] = worker[v]
        /\ worker[w].pc = "commitMarked" /\ worker'[w] = IdleWorker
        /\ \A x \in Docs \ {DocOf(w)} : docStatus'[x] = docStatus[x]
        /\ DocOf(w) \in Docs => docStatus'[DocOf(w)] =
               Flushed(worker[w].loaded, worker[w].pending, docStatus[DocOf(w)])
    BY <1>0, <1>15 DEF MarkDocumentFailed
  <2>2. j # NoJob /\ job[j].status = "failed" /\ ~OnDoc(w, d)'
    BY <1>01, <2>1 DEF Held, MarkingPcs, OnDoc, IdleWorker
  <2>3. CASE OnDoc(w, d)
    <3>1. /\ lastFinished[d] = j /\ worker[w].pending = "failed"
          /\ worker[w].loaded = docStatus[d] \/ QueuedFor(d)
      BY <1>0, <2>1, <2>3 DEF DocInv, Carried, MarkingPcs
    <3>2. docStatus'[d] = Flushed(worker[w].loaded, worker[w].pending, docStatus[d])
      BY <2>1, <2>3 DEF OnDoc
    <3>3. Agreed(d)' \/ QueuedFor(d)'
      BY <2>1, <2>2, <3>1, <3>2 DEF Agreed, Flushed, QueuedFor
    <3> QED
      BY <2>1, <2>2, <2>3, <3>3, HereLeft
  <2>4. CASE ~OnDoc(w, d)
    <3>1. docStatus'[d] = docStatus[d]
      BY <2>1, <2>2, <2>4 DEF OnDoc
    <3> QED
      BY <1>0, <2>1, <2>2, <2>4, <3>1, ElsewhereUndisturbed
  <2> QED
    BY <2>3, <2>4
<1>16. ASSUME NEW w \in Workers, StageRaises(w) PROVE DocInv(d)'
  <2>1. /\ UNCHANGED <<docStatus, job, lastFinished>>
        /\ \A v \in Workers \ {w} : worker'[v] = worker[v]
        /\ worker'[w].job = worker[w].job
        /\ worker[w].pc \in ExecutingPcs
        /\ worker'[w].pc = "record" /\ worker'[w].error
    BY <1>0, <1>16 DEF StageRaises, Raised, Worker
  <2>2. Carried(w, d)' /\ worker[w].pc # "claim"
    BY <2>1 DEF Carried, MarkingPcs, ExecutingPcs
  <2> QED
    BY <1>w, <2>1, <2>2
<1>17. ASSUME NEW w \in Workers, PollRaises(w) \/ Crash(w) PROVE FALSE
  <2>1. crashes \in 0 .. MaxCrashes
    BY DEF IInv, TypeOK
  <2> QED
    BY <1>17, <2>1 DEF PollRaises, Crash
<1> QED
  BY <1>1, <1>2, <1>3, <1>4, <1>5, <1>6, <1>7, <1>8, <1>9, <1>10, <1>11, <1>12, <1>13, <1>14,
     <1>15, <1>16, <1>17
     DEF Next, vars, RequestStep, WorkerStep, FaultStep, OpenReprocess, AbortReprocess

\* As long as no two workers are on one document, a document whose jobs have all ended
\* shows the outcome of the last one (jobs.py, claim_and_run_next), however reprocess
\* requests overlap with the run; without database errors and deaths.
THEOREM DocumentsSettle ==
    ASSUME "db" \notin Faults, MaxCrashes = 0
    PROVE  Spec /\ []OneJobPerDoc => []SettledStatus
<1>1. Init => TInv
  BY DEF Init, TInv, LastIsFinal, BuildsAreOfNoDoc, DocInv, OnDoc, IdleWorker
<1>2. IInv /\ IInv' /\ OneJobPerDoc /\ OneJobPerDoc' /\ TInv /\ [Next]_vars => TInv'
  BY LastIsFinalStep, BuildsStep, DocInvStep DEF TInv
<1>3. IInv /\ TInv => SettledStatus
  <2> SUFFICES ASSUME IInv, TInv, NEW d \in Docs, docStatus[d] # "absent",
                      ~JobPending(d), ~MarkPending(d)
               PROVE  Agreed(d)
    BY DEF SettledStatus, Agreed
  <2>1. \A w \in Workers : worker[w].job # NoJob => worker[w].job \in JobIds
    BY DEF IInv, TypeOK, Worker
  <2>2. \A w \in Workers : Held(w) /\ worker[w].pc \in Pcs
    BY DEF IInv, TypeOK, HeldJobs, Worker
  <2>3. ~QueuedFor(d)
    BY DEF QueuedFor, JobPending
  <2>4. \A w \in Workers : ~OnDoc(w, d)
    BY <2>1, <2>2 DEF OnDoc, Held, Pcs, DocOf, JobPending, MarkPending
  <2> QED
    BY <2>3, <2>4 DEF TInv, DocInv
<1> QED
  BY <1>1, <1>2, <1>3, IInvAlways, PTL DEF Spec

\* The one worker that is deployed meets the condition.
THEOREM SingleWorkerSettles ==
    ASSUME "db" \notin Faults, MaxCrashes = 0, \A v, w \in Workers : v = w
    PROVE  Spec => []SettledStatus
<1>1. OneJobPerDoc
  BY DEF OneJobPerDoc
<1> QED
  BY <1>1, DocumentsSettle, PTL

-----------------------------------------------------------------------------
(* What is on record of a document that is not settled *)

\* Worker w has not yet turned the document of its job into an atomised one, and
\* if it ends now its job is not recorded as done.
Unfinished(w) ==
    /\ worker[w].pc = "record" => worker[w].error
    /\ worker[w].pc = "commitAtomised" => worker[w].loaded # "atomised"

\* Job j of document d is waiting, failed, or claimed and unfinished.
OnRecord(j, d) ==
    /\ job[j].doc = d
    /\ job[j].status \in {"queued", "running", "failed"}
    /\ \A w \in Workers : worker[w].job = j => Unfinished(w)

NInv ==
    /\ PendingStatus
    /\ BuildsAreOfNoDoc
    /\ \A d \in Docs : docStatus[d] \in {"uploaded", "cleaned"} => \E j \in JobIds : OnRecord(j, d)

\* The job stays on record when worker w moves, if it does after w moved.
LEMMA OnRecordByWorker ==
    ASSUME NEW w \in Workers, NEW d, NEW j \in JobIds, OnRecord(j, d),
           \A v \in Workers \ {w} : worker'[v] = worker[v],
           \A k \in JobIds : job'[k].doc = job[k].doc,
           job'[j].status \in {"queued", "running", "failed"},
           worker'[w].job = j => Unfinished(w)'
    PROVE  OnRecord(j, d)'
BY DEF OnRecord, Unfinished

\* A new job is on record: no worker has it.
LEMMA OnRecordWhenNew ==
    ASSUME IInv, NEW d, NEW j \in JobIds, job[j].status = "absent",
           job' = [job EXCEPT ![j] = QueuedJob(d)], UNCHANGED worker
    PROVE  /\ OnRecord(j, d)'
           /\ \A k \in JobIds : \A x : OnRecord(k, x) => OnRecord(k, x)'
<1>0. /\ job \in [JobIds -> JobRow] /\ worker \in [Workers -> Worker]
      /\ \A w \in Workers : Held(w)
  BY DEF IInv, TypeOK, HeldJobs
<1>1. \A w \in Workers : worker[w].job # j
  BY <1>0, NoJobAssumption DEF Held, Worker, Pcs, ExecutingPcs, MarkingPcs, JobIds
<1>2. job'[j] = QueuedJob(d) /\ \A k \in JobIds \ {j} : job'[k] = job[k]
  BY <1>0
<1> QED
  BY <1>1, <1>2 DEF OnRecord, QueuedJob, Unfinished

LEMMA NInvStep == IInv /\ NInv /\ [Next]_vars => NInv'
<1> SUFFICES ASSUME IInv, NInv, [Next]_vars, NEW d \in Docs, docStatus'[d] \in {"uploaded", "cleaned"}
             PROVE  \E j \in JobIds : OnRecord(j, d)'
  BY PendingStep, BuildsStep DEF NInv, JobIds
<1> USE BoundsAssumption
<1>0. /\ docStatus \in [Docs -> DocStates] /\ job \in [JobIds -> JobRow]
      /\ request \in [JobIds -> Request] /\ clock \in 0 .. MaxJobs
      /\ worker \in [Workers -> Worker]
      /\ Unborn /\ PendingStatus /\ BuildsAreOfNoDoc
      /\ \A w \in Workers : Held(w)
      /\ docStatus[d] \in {"uploaded", "cleaned"} => \E j \in JobIds : OnRecord(j, d)
  BY DEF IInv, TypeOK, HeldJobs, NInv
<1>1. \A w \in Workers : worker[w].pc \in ExecutingPcs \cup MarkingPcs \cup {"claim"} =>
          worker[w].job \in JobIds /\ job[worker[w].job] \in JobRow
  BY <1>0 DEF Held, Worker, ExecutingPcs, MarkingPcs
<1>2. ASSUME NEW e \in Docs, UploadDocument(e) PROVE \E j \in JobIds : OnRecord(j, d)'
  <2>1. PICK j \in JobIds : j = clock + 1 /\ job[j].status = "absent"
    BY <1>0, <1>2 DEF UploadDocument, Unborn, JobIds
  <2>2. /\ job' = [job EXCEPT ![j] = QueuedJob(e)] /\ UNCHANGED worker
        /\ d # e => docStatus'[d] = docStatus[d]
    BY <1>0, <1>2, <2>1 DEF UploadDocument
  <2>3. OnRecord(j, e)' /\ \A k \in JobIds : \A x : OnRecord(k, x) => OnRecord(k, x)'
    BY <2>1, <2>2, OnRecordWhenNew
  <2> QED
    BY <1>0, <2>1, <2>2, <2>3
<1>3. ASSUME NEW j \in JobIds, CommitReprocess(j) PROVE \E k \in JobIds : OnRecord(k, d)'
  <2>1. PICK e \in Docs : e = request[j].doc /\ job[j].status = "absent"
    BY <1>0, <1>3 DEF CommitReprocess, Unborn
  <2>2. /\ job' = [job EXCEPT ![j] = QueuedJob(e)] /\ UNCHANGED worker
        /\ d # e => docStatus'[d] = docStatus[d]
    BY <1>0, <1>3, <2>1 DEF CommitReprocess
  <2>3. OnRecord(j, e)' /\ \A k \in JobIds : \A x : OnRecord(k, x) => OnRecord(k, x)'
    BY <2>1, <2>2, OnRecordWhenNew
  <2> QED
    BY <1>0, <2>2, <2>3
<1>4. CASE RequestProfileBuild
  <2>1. PICK j \in JobIds : j = clock + 1 /\ job[j].status = "absent"
    BY <1>0, <1>4 DEF RequestProfileBuild, Unborn, JobIds
  <2>2. job' = [job EXCEPT ![j] = QueuedJob(NoDoc)] /\ UNCHANGED <<worker, docStatus>>
    BY <1>4, <2>1 DEF RequestProfileBuild
  <2>3. \A k \in JobIds : \A x : OnRecord(k, x) => OnRecord(k, x)'
    BY <2>1, <2>2, OnRecordWhenNew
  <2> QED
    BY <1>0, <2>2, <2>3
<1>5. ASSUME UNCHANGED <<docStatus, job, worker>> PROVE \E j \in JobIds : OnRecord(j, d)'
  BY <1>0, <1>5 DEF OnRecord, Unfinished
<1>w. ASSUME NEW w \in Workers, docStatus[d] \in {"uploaded", "cleaned"},
             \A v \in Workers \ {w} : worker'[v] = worker[v],
             \A k \in JobIds : job'[k].doc = job[k].doc,
             \A k \in JobIds \ {worker[w].job} : job'[k] = job[k],
             worker'[w].job # worker[w].job => Unfinished(w)',
             worker[w].job \in JobIds /\ OnRecord(worker[w].job, d) =>
                 /\ job'[worker[w].job].status \in {"queued", "running", "failed"}
                 /\ worker'[w].job = worker[w].job => Unfinished(w)'
      PROVE  \E j \in JobIds : OnRecord(j, d)'
  <2>1. PICK j \in JobIds : OnRecord(j, d)
    BY <1>0, <1>w
  <2>2. job'[j].status \in {"queued", "running", "failed"} /\ (worker'[w].job = j => Unfinished(w)')
    BY <1>w, <2>1 DEF OnRecord
  <2> QED
    BY <1>w, <2>1, <2>2, OnRecordByWorker
<1>6. ASSUME NEW w \in Workers, LockNextJob(w) PROVE \E j \in JobIds : OnRecord(j, d)'
  <2>1. /\ UNCHANGED <<docStatus, job>> /\ worker'[w].pc = "claim"
        /\ \A v \in Workers \ {w} : worker'[v] = worker[v]
    BY <1>0, <1>6 DEF LockNextJob, Worker
  <2> QED
    BY <1>w, <2>1 DEF Unfinished, OnRecord
<1>7. ASSUME NEW w \in Workers, CommitClaim(w) PROVE \E j \in JobIds : OnRecord(j, d)'
  <2>1. /\ UNCHANGED docStatus /\ worker'[w].pc \in {"build", "begin"}
        /\ worker'[w].job = worker[w].job
        /\ \A v \in Workers \ {w} : worker'[v] = worker[v]
        /\ job' = [job EXCEPT ![worker[w].job] = Claimed(@)] /\ worker[w].job \in JobIds
    BY <1>0, <1>1, <1>7 DEF CommitClaim, At, Worker
  <2>2. /\ job'[worker[w].job].status = "running"
        /\ job'[worker[w].job].doc = job[worker[w].job].doc
        /\ \A k \in JobIds \ {worker[w].job} : job'[k] = job[k]
    BY <1>0, <2>1 DEF Claimed, JobRow
  <2>3. Unfinished(w)'
    BY <2>1 DEF Unfinished
  <2> QED
    BY <1>w, <2>1, <2>2, <2>3
<1>8. ASSUME NEW w \in Workers, ParseDocument(w) PROVE \E j \in JobIds : OnRecord(j, d)'
  <2>1. /\ UNCHANGED <<docStatus, job>> /\ worker'[w].pc = "clean"
        /\ \A v \in Workers \ {w} : worker'[v] = worker[v]
    BY <1>0, <1>8 DEF ParseDocument, Loaded, Worker
  <2> QED
    BY <1>w, <2>1 DEF Unfinished, OnRecord
<1>9. ASSUME NEW w \in Workers, CleanDocument(w) PROVE \E j \in JobIds : OnRecord(j, d)'
  <2>1. /\ UNCHANGED <<docStatus, job>> /\ worker'[w].pc = "commitCleaned"
        /\ \A v \in Workers \ {w} : worker'[v] = worker[v]
    BY <1>0, <1>9 DEF CleanDocument, Worker
  <2> QED
    BY <1>w, <2>1 DEF Unfinished, OnRecord
<1>10. ASSUME NEW w \in Workers, CommitCleaned(w) PROVE \E j \in JobIds : OnRecord(j, d)'
  <2>0. PICK j \in JobIds : j = worker[w].job
    BY <1>1, <1>10 DEF CommitCleaned, ExecutingPcs
  <2>1. /\ UNCHANGED job /\ worker'[w].pc = "atomise" /\ worker[w].pc = "commitCleaned"
        /\ \A v \in Workers \ {w} : worker'[v] = worker[v]
        /\ worker'[w].job = j
        /\ \A x \in Docs \ {DocOf(w)} : docStatus'[x] = docStatus[x]
    BY <1>0, <1>10, <2>0 DEF CommitCleaned, At, Worker
  <2>2. job[j].status = "running" /\ Unfinished(w)'
    BY <1>0, <1>1, <2>0, <2>1 DEF Held, ExecutingPcs, Unfinished
  <2>3. CASE DocOf(w) = d
    <3>1. \A v \in Workers \ {w} : worker[v].job # j
      BY <2>0, NoJobAssumption DEF IInv, OneWorkerPerJob, JobIds
    <3>2. OnRecord(j, d)'
      BY <2>0, <2>1, <2>2, <2>3, <3>1 DEF OnRecord, DocOf, Unfinished
    <3> QED
      BY <3>2
  <2>4. CASE DocOf(w) # d
    BY <1>w, <1>0, <2>0, <2>1, <2>2, <2>4 DEF OnRecord
  <2> QED
    BY <2>3, <2>4
<1>11. ASSUME NEW w \in Workers, AtomiseDocument(w) PROVE \E j \in JobIds : OnRecord(j, d)'
  <2>1. /\ UNCHANGED <<docStatus, job>>
        /\ \A v \in Workers \ {w} : worker'[v] = worker[v]
        /\ worker'[w].job = worker[w].job
        /\ \/ worker'[w].pc = "commitAtomised" /\ worker'[w].loaded = docStatus[DocOf(w)]
           \/ worker'[w].pc = "record" /\ worker'[w].error
    BY <1>0, <1>11 DEF AtomiseDocument, Loaded, Raised, Worker
  <2>2. OnRecord(worker[w].job, d) => Unfinished(w)'
    BY <2>1 DEF OnRecord, DocOf, Unfinished
  <2> QED
    BY <1>w, <2>1, <2>2 DEF OnRecord
<1>12. ASSUME NEW w \in Workers, CommitAtomised(w) PROVE \E j \in JobIds : OnRecord(j, d)'
  <2>1. /\ UNCHANGED job /\ worker[w].pc = "commitAtomised" /\ worker[w].pending = "atomised"
        /\ \A v \in Workers \ {w} : worker'[v] = worker[v]
        /\ worker'[w].job = worker[w].job
        /\ docStatus' = [docStatus EXCEPT ![DocOf(w)] = Flushed(worker[w].loaded, "atomised", @)]
    BY <1>0, <1>12 DEF CommitAtomised, At, Worker, PendingStatus
  <2>2. docStatus[d] \in {"uploaded", "cleaned"}
    BY <1>0, <2>1 DEF Flushed
  <2>3. ~OnRecord(worker[w].job, d)
    <3>1. SUFFICES ASSUME OnRecord(worker[w].job, d) PROVE FALSE
      OBVIOUS
    <3>2. DocOf(w) = d /\ worker[w].loaded # "atomised"
      BY <2>1, <3>1 DEF OnRecord, Unfinished, DocOf
    <3> QED
      BY <1>0, <2>1, <3>2 DEF Flushed
  <2> QED
    BY <1>w, <2>1, <2>2, <2>3
<1>13. ASSUME NEW w \in Workers, BuildVoiceProfile(w) PROVE \E j \in JobIds : OnRecord(j, d)'
  <2>1. /\ UNCHANGED <<docStatus, job>> /\ worker[w].pc = "build"
        /\ \A v \in Workers \ {w} : worker'[v] = worker[v]
        /\ worker'[w].job = worker[w].job
    BY <1>0, <1>13 DEF BuildVoiceProfile, At, Worker
  <2>2. ~OnRecord(worker[w].job, d)
    BY <1>0, <2>1, NoDocAssumption DEF BuildsAreOfNoDoc, OnRecord, DocOf
  <2> QED
    BY <1>w, <2>1, <2>2
<1>14. ASSUME NEW w \in Workers, RecordOutcome(w) PROVE \E j \in JobIds : OnRecord(j, d)'
  <2> DEFINE j == worker[w].job
  <2>1. j \in JobIds /\ job[j] \in JobRow /\ worker[w].pc = "record"
    BY <1>1, <1>14 DEF RecordOutcome, ExecutingPcs
  <2>2. /\ UNCHANGED docStatus
        /\ job' = [job EXCEPT ![j].status = IF worker[w].error THEN "failed" ELSE "done"]
        /\ \A v \in Workers \ {w} : worker'[v] = worker[v]
        /\ worker'[w].pc \in {"mark", "idle"}
    BY <1>0, <1>14 DEF RecordOutcome, Worker, IdleWorker
  <2>3. /\ \A k \in JobIds : job'[k].doc = job[k].doc
        /\ \A k \in JobIds \ {j} : job'[k] = job[k]
        /\ worker[w].error => job'[j].status = "failed"
    BY <1>0, <2>1, <2>2 DEF JobRow
  <2>4. Unfinished(w)'
    BY <2>2 DEF Unfinished
  <2>5. OnRecord(j, d) => worker[w].error
    BY <2>1 DEF OnRecord, Unfinished
  <2> QED
    BY <1>w, <2>2, <2>3, <2>4, <2>5
<1>15. ASSUME NEW w \in Workers, LoadForMark(w) PROVE \E j \in JobIds : OnRecord(j, d)'
  <2>1. /\ UNCHANGED <<docStatus, job>> /\ worker'[w].pc = "commitMarked"
        /\ \A v \in Workers \ {w} : worker'[v] = worker[v]
    BY <1>0, <1>15 DEF LoadForMark, Loaded, Worker
  <2> QED
    BY <1>w, <2>1 DEF Unfinished, OnRecord
<1>16. ASSUME NEW w \in Workers, MarkDocumentFailed(w) PROVE \E j \in JobIds : OnRecord(j, d)'
  <2>1. /\ UNCHANGED job /\ worker'[w].pc = "idle" /\ worker[w].pending = "failed"
        /\ \A v \in Workers \ {w} : worker'[v] = worker[v]
        /\ docStatus' = [docStatus EXCEPT ![DocOf(w)] = Flushed(worker[w].loaded, "failed", @)]
    BY <1>0, <1>16 DEF MarkDocumentFailed, IdleWorker, PendingStatus
  <2>2. docStatus[d] \in {"uploaded", "cleaned"}
    BY <1>0, <2>1 DEF Flushed
  <2> QED
    BY <1>w, <2>1, <2>2 DEF Unfinished, OnRecord
<1>17. ASSUME NEW w \in Workers, StageRaises(w) PROVE \E j \in JobIds : OnRecord(j, d)'
  <2>1. /\ UNCHANGED <<docStatus, job>> /\ worker'[w].pc = "record" /\ worker'[w].error
        /\ \A v \in Workers \ {w} : worker'[v] = worker[v]
    BY <1>0, <1>17 DEF StageRaises, Raised, Worker
  <2> QED
    BY <1>w, <2>1 DEF Unfinished, OnRecord
<1>18. ASSUME NEW w \in Workers, PollRaises(w) \/ Crash(w) PROVE \E j \in JobIds : OnRecord(j, d)'
  <2>1. /\ UNCHANGED <<docStatus, job>> /\ worker'[w].pc = "idle"
        /\ \A v \in Workers \ {w} : worker'[v] = worker[v]
    BY <1>0, <1>18 DEF PollRaises, Crash, IdleWorker
  <2> QED
    BY <1>w, <2>1 DEF Unfinished, OnRecord
<1> QED
  BY <1>2, <1>3, <1>4, <1>5, <1>6, <1>7, <1>8, <1>9, <1>10, <1>11, <1>12, <1>13, <1>14, <1>15,
     <1>16, <1>17, <1>18
     DEF Next, vars, RequestStep, WorkerStep, FaultStep, OpenReprocess, AbortReprocess

\* For any number of workers, requests, failures, database errors and deaths, a document
\* whose status announces more work has a job on record that is not done (jobs.py,
\* claim_and_run_next): what the two transactions of the outcome leave is never silent.
THEOREM NotSilentlyStranded == Spec => []StrandedIsOnRecord
<1>1. Init => NInv
  BY DEF Init, NInv, PendingStatus, BuildsAreOfNoDoc, IdleWorker
<1>2. IInv /\ NInv /\ [Next]_vars => NInv'
  BY NInvStep
<1>3. NInv => StrandedIsOnRecord
  BY DEF NInv, StrandedIsOnRecord, OnRecord
<1> QED
  BY <1>1, <1>2, <1>3, IInvAlways, PTL DEF Spec

\* No reader ever sees a document parsed: the status is assigned in a session that
\* replaces it before its flush (pipeline/runner.py, run_parse_and_clean).
NeverSeenParsed == \A d \in Docs : docStatus[d] # "parsed"

\* Whatever fails, a client that polls for the status "parsed" polls for ever.
THEOREM ParsedIsNeverSeen == Spec => []NeverSeenParsed
<1>1. Init => PendingStatus /\ NeverSeenParsed
  BY DEF Init, PendingStatus, NeverSeenParsed, IdleWorker
<1>2. IInv /\ PendingStatus /\ NeverSeenParsed /\ [Next]_vars => PendingStatus' /\ NeverSeenParsed'
  <2> SUFFICES ASSUME IInv, PendingStatus, NeverSeenParsed, [Next]_vars PROVE NeverSeenParsed'
    BY PendingStep
  <2>0. docStatus \in [Docs -> DocStates]
    BY DEF IInv, TypeOK
  <2>1. ASSUME NEW w \in Workers, CommitCleaned(w) \/ CommitAtomised(w) \/ MarkDocumentFailed(w)
        PROVE  NeverSeenParsed'
    BY <2>0, <2>1 DEF CommitCleaned, CommitAtomised, MarkDocumentFailed, Flushed, NeverSeenParsed,
                      PendingStatus
  <2>2. ASSUME NEW d \in Docs, UploadDocument(d) PROVE NeverSeenParsed'
    BY <2>0, <2>2 DEF UploadDocument, NeverSeenParsed
  <2>3. ASSUME NEW j \in JobIds, CommitReprocess(j) PROVE NeverSeenParsed'
    BY <2>0, <2>3 DEF CommitReprocess, Flushed, NeverSeenParsed
  <2>4. CASE UNCHANGED docStatus
    BY <2>4 DEF NeverSeenParsed
  <2> QED
    BY <2>1, <2>2, <2>3, <2>4
       DEF Next, vars, RequestStep, WorkerStep, FaultStep, OpenReprocess, AbortReprocess,
           RequestProfileBuild, LockNextJob, CommitClaim, ParseDocument, CleanDocument,
           AtomiseDocument, BuildVoiceProfile, RecordOutcome, LoadForMark, StageRaises,
           PollRaises, Crash
<1> QED
  BY <1>1, <1>2, IInvAlways, PTL DEF Spec
=============================================================================
