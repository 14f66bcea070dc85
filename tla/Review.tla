------------------------------- MODULE Review -------------------------------
(***************************************************************************)
(* The atoms of the documents, replaced by every processing of a document  *)
(* (pipeline/runner.py, run_atomise_and_embed) and reviewed by operators   *)
(* meanwhile (api/decisions.py, decide), with the append-only log of       *)
(* decisions.                                                              *)
(*                                                                         *)
(* Both sides are READ COMMITTED transactions over table atoms.  The       *)
(* replacement takes a snapshot for its DELETE, locks and re-checks the    *)
(* rows it found, reads the surviving hashes with a second snapshot, and   *)
(* inserts and commits.  A decision loads its atom without a lock, may     *)
(* call the embedding provider, and flushes and commits.                   *)
(*                                                                         *)
(* A text and its content hash stand for each other: sha256 is injective   *)
(* for every practical purpose, so one value models both.                  *)
(***************************************************************************)
EXTENDS Naturals, Sequences

CONSTANTS
    Docs,          \* documents
    NoDoc,         \* the document of an idle worker
    Hashes,        \* content hashes of the statements that may be extracted or written
    NoText,        \* a decision without a new text
    Workers,       \* threads that run the pipeline; one is deployed
    Operators,     \* concurrent requests to POST /atoms/{id}/decision
    MaxRuns,       \* bound: how many times documents are atomised in total
    MaxDecisions   \* bound: length of the decisions log

ASSUME BoundsAssumption == MaxRuns \in Nat /\ MaxDecisions \in Nat
ASSUME NoTextAssumption == NoText \notin Hashes
ASSUME NoDocAssumption == NoDoc \notin Docs

\* gen_random_uuid() never repeats: an id is named by the replacement that
\* inserted the row and the hash the row had then.  document_id never changes.
AtomIds == [doc : Docs, run : 1 .. MaxRuns, born : Hashes]

Statuses == {"provisional", "confirmed", "deprecated"}
AtomRow == [status : Statuses, hash : Hashes, vector : Hashes]

\* A valid request body: text only with override.
Bodies == [kind : {"confirm", "deprecate"}, text : {NoText}]
          \cup [kind : {"override"}, text : Hashes \cup {NoText}]

Entry == [atom : AtomIds, hash : Hashes, kind : {"confirm", "override", "deprecate"}]

VARIABLES
    live,   \* ids of the committed rows of table atoms
    row,    \* their columns
    runs,   \* how many replacements have begun
    txn,    \* per worker: its replacement transaction
    req,    \* per operator: its decision transaction
    log     \* table decisions, in commit order

vars == <<live, row, runs, txn, req, log>>

\* targets: the rows its DELETE saw; doomed: those it locked and deleted, not
\* yet committed; fresh: the hashes it will insert; seen: how long the log was
\* when it read the surviving hashes, kept for CollisionsAreOverrides only.
Txn == [pc : {"idle", "delete", "survey", "insert"},
        doc : Docs \cup {NoDoc}, run : 0 .. MaxRuns, extracted : SUBSET Hashes,
        targets : SUBSET AtomIds, doomed : SUBSET AtomIds, fresh : SUBSET Hashes,
        seen : Nat]
IdleTxn == [pc |-> "idle", doc |-> NoDoc, run |-> 0, extracted |-> {},
            targets |-> {}, doomed |-> {}, fresh |-> {}, seen |-> 0]

Req == [open : {TRUE}, atom : AtomIds, body : Bodies, loaded : AtomRow]
Idle == [open |-> FALSE]

\* A row as the pipeline inserts it.
Extracted(i) == [status |-> "provisional", hash |-> i.born, vector |-> i.born]

TypeOK ==
    /\ live \subseteq AtomIds
    /\ row \in [AtomIds -> AtomRow]
    /\ runs \in 0 .. MaxRuns
    /\ txn \in [Workers -> Txn]
    /\ req \in [Operators -> Req \cup {Idle}]
    /\ log \in Seq(Entry)

Init ==
    /\ live = {}
    /\ row = [i \in AtomIds |-> Extracted(i)]
    /\ runs = 0
    /\ txn = [w \in Workers |-> IdleTxn]
    /\ req = [o \in Operators |-> Idle]
    /\ log = <<>>

-----------------------------------------------------------------------------
(* Helpers *)

RowsOf(d) == {i \in live : i.doc = d}

\* The value a column has after a flush: the ORM emits no UPDATE for an
\* attribute that ends up equal to what the session loaded.
Flushed(loaded, wanted, stored) == IF wanted = loaded THEN stored ELSE wanted

\* Row i is deleted by a transaction, other than that of worker w, still open.
DoomedByOther(w, i) == \E v \in Workers \ {w} : i \in txn[v].doomed
Doomed(i) == \E v \in Workers : i \in txn[v].doomed

-----------------------------------------------------------------------------
(* run_atomise_and_embed *)

\* Mutant: the DELETE forgets which document it is for.
BeginReplaceOfClient(w, d, extracted) ==
    /\ txn[w].pc = "idle"
    /\ runs < MaxRuns
    /\ runs' = runs + 1
    /\ txn' = [txn EXCEPT ![w] =
          [pc |-> "delete", doc |-> d, run |-> runs + 1, extracted |-> extracted,
           targets |-> {i \in live : row[i].status = "provisional"},
           doomed |-> {}, fresh |-> {}, seen |-> 0]]
    /\ UNCHANGED <<live, row, req, log>>

\* Extraction and embedding take minutes but touch no atom; the transaction
\* begins to matter with the snapshot of its DELETE.
BeginReplace(w, d, extracted) ==
    /\ txn[w].pc = "idle"
    /\ runs < MaxRuns
    /\ runs' = runs + 1
    /\ txn' = [txn EXCEPT ![w] =
          [pc |-> "delete", doc |-> d, run |-> runs + 1, extracted |-> extracted,
           targets |-> {i \in RowsOf(d) : row[i].status = "provisional"},
           doomed |-> {}, fresh |-> {}, seen |-> 0]]
    /\ UNCHANGED <<live, row, req, log>>

\* Mutant: rows are selected first and then deleted by id.
DeleteSelected(w) ==
    /\ txn[w].pc = "delete"
    /\ \A i \in txn[w].targets : ~DoomedByOther(w, i)
    /\ txn' = [txn EXCEPT ![w].pc = "survey", ![w].doomed = txn[w].targets \cap live]
    /\ UNCHANGED <<live, row, runs, req, log>>

\* Mutant: new atoms are added without replacing the old ones.
DeleteNothing(w) ==
    /\ txn[w].pc = "delete"
    /\ txn' = [txn EXCEPT ![w].pc = "survey"]
    /\ UNCHANGED <<live, row, runs, req, log>>

\* The DELETE waits for rows another transaction has deleted, and re-checks
\* its WHERE clause on the latest version of each row.
DeleteProvisional(w) ==
    /\ txn[w].pc = "delete"
    /\ \A i \in txn[w].targets : ~DoomedByOther(w, i)
    /\ txn' = [txn EXCEPT ![w] =
          [@ EXCEPT !.pc = "survey",
                    !.doomed = {i \in txn[w].targets \cap live : row[i].status = "provisional"}]]
    /\ UNCHANGED <<live, row, runs, req, log>>

\* Mutant: the surviving hashes are those from before the DELETE.
SurveyBeforeDelete(w) ==
    /\ txn[w].pc = "survey"
    /\ txn' = [txn EXCEPT ![w].pc = "insert",
                          ![w].fresh = txn[w].extracted \ {row[i].hash : i \in RowsOf(txn[w].doc)},
                          ![w].seen = Len(log)]
    /\ UNCHANGED <<live, row, runs, req, log>>

\* Mutant: only confirmed atoms are taken to survive.
SurveyConfirmed(w) ==
    LET surviving == {row[i].hash : i \in {k \in RowsOf(txn[w].doc) : row[k].status = "confirmed"}} IN
    /\ txn[w].pc = "survey"
    /\ txn' = [txn EXCEPT ![w].pc = "insert", ![w].fresh = txn[w].extracted \ surviving,
                          ![w].seen = Len(log)]
    /\ UNCHANGED <<live, row, runs, req, log>>

\* surviving_hashes, and the extracted atoms that are not among them.
SurveySurvivors(w) ==
    LET surviving == {row[i].hash : i \in RowsOf(txn[w].doc) \ txn[w].doomed} IN
    /\ txn[w].pc = "survey"
    /\ txn' = [txn EXCEPT ![w] = [@ EXCEPT !.pc = "insert", !.fresh = txn[w].extracted \ surviving,
                                          !.seen = Len(log)]]
    /\ UNCHANGED <<live, row, runs, req, log>>

\* Rows that collide with the insert on uq_atoms_doc_content.
Colliding(w) == {i \in RowsOf(txn[w].doc) \ txn[w].doomed : row[i].hash \in txn[w].fresh}

Inserted(w) == [doc : {txn[w].doc}, run : {txn[w].run}, born : txn[w].fresh]

\* Mutant: an upsert that resets the rows it matches.
CommitReplaceUpsert(w) ==
    /\ txn[w].pc = "insert"
    /\ Colliding(w) = {}
    /\ live' = (live \ txn[w].doomed) \cup Inserted(w)
    /\ row' = [i \in AtomIds |->
                  IF i \in Inserted(w) THEN Extracted(i)
                  ELSE IF i \in RowsOf(txn[w].doc) /\ row[i].hash \in txn[w].extracted
                       THEN [row[i] EXCEPT !.status = "provisional"]
                       ELSE row[i]]
    /\ txn' = [txn EXCEPT ![w] = IdleTxn]
    /\ UNCHANGED <<runs, req, log>>

\* Flush and commit: the deleted rows go and the new ones appear in one step.
CommitReplace(w) ==
    /\ txn[w].pc = "insert"
    /\ Colliding(w) = {}
    /\ live' = (live \ txn[w].doomed) \cup Inserted(w)
    /\ row' = [i \in AtomIds |-> IF i \in Inserted(w) THEN Extracted(i) ELSE row[i]]
    /\ txn' = [txn EXCEPT ![w] = IdleTxn]
    /\ UNCHANGED <<runs, req, log>>

\* A stage raises, the insert collides, or the process dies: everything the
\* transaction did is undone.  An insert that collides with a row whose own
\* deletion is still open waits for that transaction instead.
RollbackReplace(w) ==
    /\ txn[w].pc # "idle"
    /\ txn' = [txn EXCEPT ![w] = IdleTxn]
    /\ UNCHANGED <<live, row, runs, req, log>>

-----------------------------------------------------------------------------
(* decide *)

\* Load the atom (404 when it is not there) for a validated body.
LoadAtom(o, i, body) ==
    /\ ~req[o].open
    /\ Len(log) < MaxDecisions
    /\ i \in live
    /\ req' = [req EXCEPT ![o] = [open |-> TRUE, atom |-> i, body |-> body, loaded |-> row[i]]]
    /\ UNCHANGED <<live, row, runs, txn, log>>

\* Mutant: the verb of the request is stored as the status.
WantedStatusVerb(body) == IF body.kind = "deprecate" THEN "deprecate" ELSE "confirmed"

\* The columns the session holds after the assignments of the handler.
WantedStatus(body) == IF body.kind = "deprecate" THEN "deprecated" ELSE "confirmed"
WantedHash(r) == IF r.body.text # NoText THEN r.body.text ELSE r.loaded.hash

\* An embedding is never compared: assigning it always emits an UPDATE.
EmitsUpdate(r) ==
    \/ WantedStatus(r.body) # r.loaded.status
    \/ r.body.text # NoText

\* Mutant: override changes the text but not its hash.
UpdatedNotRehashed(r, stored) ==
    [status |-> Flushed(r.loaded.status, WantedStatus(r.body), stored.status),
     hash   |-> stored.hash,
     vector |-> stored.vector]

\* Row i after the flush of request r: only the changed columns are written.
Updated(r, stored) ==
    [status |-> Flushed(r.loaded.status, WantedStatus(r.body), stored.status),
     hash   |-> Flushed(r.loaded.hash, WantedHash(r), stored.hash),
     vector |-> IF r.body.text # NoText THEN r.body.text ELSE stored.vector]

\* Another row of the document already has the hash this request writes.
HashTaken(r) ==
    /\ WantedHash(r) # r.loaded.hash
    /\ \E k \in RowsOf(r.atom.doc) \ {r.atom} : row[k].hash = WantedHash(r)

CommitDecision(o) ==
    LET r == req[o] IN
    /\ r.open
    /\ Len(log) < MaxDecisions
    /\ EmitsUpdate(r) => r.atom \in live /\ ~Doomed(r.atom) /\ ~HashTaken(r)
    /\ row' = IF EmitsUpdate(r) THEN [row EXCEPT ![r.atom] = Updated(r, @)] ELSE row
    /\ log' = Append(log, [atom |-> r.atom, hash |-> WantedHash(r), kind |-> r.body.kind])
    /\ req' = [req EXCEPT ![o] = Idle]
    /\ UNCHANGED <<live, runs, txn>>

\* 500: the row is gone (stale data), the new hash is taken, the embedding
\* provider or the database failed.  Nothing is written, not even the log.
RejectDecision(o) ==
    /\ req[o].open
    /\ req' = [req EXCEPT ![o] = Idle]
    /\ UNCHANGED <<live, row, runs, txn, log>>

-----------------------------------------------------------------------------
WorkerStep(w) ==
    \/ \E d \in Docs, extracted \in SUBSET Hashes : BeginReplace(w, d, extracted)
    \/ DeleteProvisional(w) \/ SurveySurvivors(w) \/ CommitReplace(w) \/ RollbackReplace(w)

OperatorStep(o) ==
    \/ \E i \in live, body \in Bodies : LoadAtom(o, i, body)
    \/ CommitDecision(o) \/ RejectDecision(o)

Next == (\E w \in Workers : WorkerStep(w)) \/ (\E o \in Operators : OperatorStep(o))

Spec == Init /\ [][Next]_vars

-----------------------------------------------------------------------------
(* Properties *)

\* Every decision in the log is about an atom that still exists and is still
\* reviewed, whatever was reprocessed, however the lock waits went.
DecisionsKeepTheirAtom ==
    \A n \in 1 .. Len(log) :
        log[n].atom \in live /\ row[log[n].atom].status # "provisional"

\* A reviewed atom is never removed or demoted, and nothing but a logged
\* decision changes any of its columns: reprocessing keeps it verbatim.
ReviewedSurvive ==
    [][\A i \in live :
          row[i].status # "provisional" =>
              /\ i \in live'
              /\ row'[i].status # "provisional"
              /\ log' = log => row'[i] = row[i]]_vars

\* The decision that was logged last for an atom.
LastEntry(i) ==
    LET ns == {n \in 1 .. Len(log) : log[n].atom = i}
    IN log[CHOOSE n \in ns : \A m \in ns : m <= n]

\* The log explains the table: a reviewed atom has the status and the content
\* of its latest decision, so that the log can be linked to it by hash.
LogExplainsAtoms ==
    \A i \in live :
        row[i].status # "provisional" =>
            /\ \E n \in 1 .. Len(log) : log[n].atom = i
            /\ row[i].status = WantedStatus(LastEntry(i))
            /\ row[i].hash = LastEntry(i).hash

\* The embedding a search ranks by is that of the text it returns.
EmbeddingIsOfText == \A i \in live : row[i].vector = row[i].hash

\* A reader sees the machine's opinion of one processing of a document, never
\* a mixture of two: replacement is atomic.
SingleGeneration ==
    \A i, k \in live :
        /\ i.doc = k.doc
        /\ row[i].status = "provisional" /\ row[k].status = "provisional"
        => i.run = k.run

\* The wordings atom i has had.
Wordings(i) == {i.born} \cup {log[n].hash : n \in {m \in 1 .. Len(log) : log[m].atom = i}}

\* What a processing extracted is in the document when it commits, unless an
\* operator has just rewritten the atom that had this wording.
NothingExtractedIsLost ==
    [][\A w \in Workers :
          CommitReplace(w) =>
              \A h \in txn[w].extracted :
                  \E i \in live' : i.doc = txn[w].doc /\ (row'[i].hash = h \/ h \in Wordings(i))]_vars

\* A processing fails on uq_atoms_doc_content only because an operator has meanwhile
\* overridden an atom with a statement the processing extracted: the surviving hashes
\* it read before its insert miss no row, of whatever status, and nothing but an
\* override makes them stale.
CollisionsAreOverrides ==
    \A w \in Workers : \A i \in Colliding(w) :
        \E n \in (txn[w].seen + 1) .. Len(log) :
            log[n].atom = i /\ log[n].kind = "override" /\ log[n].hash = row[i].hash

\* Decisions survive reprocessing: a wording an operator corrected does not come
\* back as a provisional atom next to its correction.
CorrectionsStick ==
    \A i, k \in live :
        /\ i.doc = k.doc
        /\ row[i].status = "provisional" /\ row[k].status # "provisional"
        => row[i].hash \notin Wordings(k)

-----------------------------------------------------------------------------
(* Refinement *)

Ledger == INSTANCE ReviewLedger WITH
    state <- [i \in AtomIds |-> IF i \in live THEN row[i].status ELSE "absent"],
    ledger <- [n \in 1 .. Len(log) |-> log[n].atom]

Implements == Ledger!Spec
=============================================================================
