-------------------------------- MODULE Files --------------------------------
(***************************************************************************)
(* The files of one client beside its document rows: LocalDiskStorage      *)
(* (storage.py) as upload_document (api/documents.py) and the pipeline     *)
(* (pipeline/runner.py) use it, with the death of the process anywhere.    *)
(*                                                                         *)
(* upload_document is a coroutine that never awaits once it has the bytes: *)
(* one upload runs at a time.  The pipeline runs on one worker thread, and *)
(* readers on threads of their own.  A file is written to a temporary name *)
(* and renamed; a killed process leaves what it has written so far.        *)
(***************************************************************************)
CONSTANTS
    Docs,      \* documents: one per distinct content, which names its files
    NoDoc,     \* the document of an idle thread
    Cleaners   \* versions of the cleaner a deployment may bring

ASSUME NoDocAssumption == NoDoc \notin Docs
ASSUME CleanersAssumption ==
    /\ Cleaners # {}
    /\ {"none", "torn", "whole"} \cap Cleaners = {}

\* A raw file is there in full or not; a derived one is the work of a cleaner.
RawContent == {"none", "torn", "whole"}
DerivedContent == {"none", "torn"} \cup Cleaners

VARIABLES
    raw, rawTmp,          \* per document: the file under its sha256, and its .tmp
    derived, derivedTmp,  \* per document: its cleaned text, and its .tmp
    docs,                 \* documents with a committed row
    cleaned,              \* those with a cleaned_path
    lineage,              \* per document: the cleaner its last "clean" record names
    cleaner,              \* the version that is deployed
    upload,               \* the upload that runs
    work,                 \* the worker's run_parse_and_clean
    bundle,               \* documents a /context request has still to read
    reads                 \* the contents any get returned so far

files == <<raw, rawTmp, derived, derivedTmp>>
rows == <<docs, cleaned, lineage>>
vars == <<files, rows, cleaner, upload, work, bundle, reads>>

Upload == [pc : {"idle", "open", "fill", "publish", "insert"}, doc : Docs \cup {NoDoc}]
NoUpload == [pc |-> "idle", doc |-> NoDoc]

Work == [pc : {"idle", "open", "fill", "publish", "commit", "atomise"},
         doc : Docs \cup {NoDoc}, text : DerivedContent]
NoWork == [pc |-> "idle", doc |-> NoDoc, text |-> "none"]

TypeOK ==
    /\ raw \in [Docs -> RawContent] /\ rawTmp \in [Docs -> RawContent]
    /\ derived \in [Docs -> DerivedContent] /\ derivedTmp \in [Docs -> DerivedContent]
    /\ cleaned \subseteq docs /\ docs \subseteq Docs
    /\ lineage \in [Docs -> Cleaners \cup {"none"}]
    /\ cleaner \in Cleaners
    /\ upload \in Upload
    /\ work \in Work
    /\ bundle \subseteq cleaned
    /\ reads \subseteq RawContent \cup DerivedContent

Init ==
    /\ raw = [d \in Docs |-> "none"] /\ rawTmp = [d \in Docs |-> "none"]
    /\ derived = [d \in Docs |-> "none"] /\ derivedTmp = [d \in Docs |-> "none"]
    /\ docs = {} /\ cleaned = {}
    /\ lineage = [d \in Docs |-> "none"]
    /\ cleaner \in Cleaners
    /\ upload = NoUpload
    /\ work = NoWork
    /\ bundle = {}
    /\ reads = {}

-----------------------------------------------------------------------------
(* upload_document and put *)

\* Known content returns its document.  Otherwise put begins: a file that is
\* already there is never rewritten.
BeginUpload(d) ==
    /\ upload.pc = "idle"
    /\ d \notin docs
    /\ upload' = [pc |-> IF raw[d] = "none" THEN "open" ELSE "insert", doc |-> d]
    /\ UNCHANGED <<files, rows, cleaner, work, bundle, reads>>

\* Mutant: the file is written under its final name.
OpenRawInPlace ==
    /\ upload.pc = "open"
    /\ raw' = [raw EXCEPT ![upload.doc] = "torn"]
    /\ upload' = [upload EXCEPT !.pc = "fill"]
    /\ UNCHANGED <<rawTmp, derived, derivedTmp, rows, cleaner, work, bundle, reads>>

\* write_bytes truncates the temporary file, whatever an earlier death left there.
OpenRaw ==
    /\ upload.pc = "open"
    /\ rawTmp' = [rawTmp EXCEPT ![upload.doc] = "torn"]
    /\ upload' = [upload EXCEPT !.pc = "fill"]
    /\ UNCHANGED <<raw, derived, derivedTmp, rows, cleaner, work, bundle, reads>>

FillRaw ==
    /\ upload.pc = "fill"
    /\ rawTmp' = [rawTmp EXCEPT ![upload.doc] = "whole"]
    /\ upload' = [upload EXCEPT !.pc = "publish"]
    /\ UNCHANGED <<raw, derived, derivedTmp, rows, cleaner, work, bundle, reads>>

PublishRaw ==
    /\ upload.pc = "publish"
    /\ raw' = [raw EXCEPT ![upload.doc] = rawTmp[upload.doc]]
    /\ rawTmp' = [rawTmp EXCEPT ![upload.doc] = "none"]
    /\ upload' = [upload EXCEPT !.pc = "insert"]
    /\ UNCHANGED <<derived, derivedTmp, rows, cleaner, work, bundle, reads>>

\* The row commits, with its first job, after the file is in place.
InsertDocument ==
    /\ upload.pc = "insert"
    /\ docs' = docs \cup {upload.doc}
    /\ upload' = NoUpload
    /\ UNCHANGED <<files, cleaned, lineage, cleaner, work, bundle, reads>>

\* The disk or the database fails: no row, and the files stay as they are.
UploadRaises ==
    /\ upload.pc # "idle"
    /\ upload' = NoUpload
    /\ UNCHANGED <<files, rows, cleaner, work, bundle, reads>>

-----------------------------------------------------------------------------
(* run_parse_and_clean and put_derived *)

\* The worker reads the raw file and cleans its text.
BeginClean(d) ==
    /\ work.pc = "idle"
    /\ d \in docs
    /\ reads' = reads \cup {raw[d]}
    /\ work' = [pc |-> "open", doc |-> d, text |-> cleaner]
    /\ UNCHANGED <<files, rows, cleaner, upload, bundle>>

\* Mutant: the derived file is overwritten in place.
OpenDerivedInPlace ==
    /\ work.pc = "open"
    /\ derived' = [derived EXCEPT ![work.doc] = "torn"]
    /\ work' = [work EXCEPT !.pc = "fill"]
    /\ UNCHANGED <<raw, rawTmp, derivedTmp, rows, cleaner, upload, bundle, reads>>

OpenDerived ==
    /\ work.pc = "open"
    /\ derivedTmp' = [derivedTmp EXCEPT ![work.doc] = "torn"]
    /\ work' = [work EXCEPT !.pc = "fill"]
    /\ UNCHANGED <<raw, rawTmp, derived, rows, cleaner, upload, bundle, reads>>

FillDerived ==
    /\ work.pc = "fill"
    /\ derivedTmp' = [derivedTmp EXCEPT ![work.doc] = work.text]
    /\ work' = [work EXCEPT !.pc = "publish"]
    /\ UNCHANGED <<raw, rawTmp, derived, rows, cleaner, upload, bundle, reads>>

\* The cleaned text is visible from here on, before the transaction commits.
PublishDerived ==
    /\ work.pc = "publish"
    /\ derived' = [derived EXCEPT ![work.doc] = derivedTmp[work.doc]]
    /\ derivedTmp' = [derivedTmp EXCEPT ![work.doc] = "none"]
    /\ work' = [work EXCEPT !.pc = "commit"]
    /\ UNCHANGED <<raw, rawTmp, rows, cleaner, upload, bundle, reads>>

\* Mutant: the row points to the file as soon as the text is computed.
CommitCleanEarly ==
    /\ work.pc \in {"open", "commit"}
    /\ cleaned' = cleaned \cup {work.doc}
    /\ lineage' = [lineage EXCEPT ![work.doc] = work.text]
    /\ work' = IF work.pc = "commit" THEN [work EXCEPT !.pc = "atomise"] ELSE work
    /\ UNCHANGED <<files, docs, cleaner, upload, bundle, reads>>

\* cleaned_path and the lineage records commit.
CommitClean ==
    /\ work.pc = "commit"
    /\ cleaned' = cleaned \cup {work.doc}
    /\ lineage' = [lineage EXCEPT ![work.doc] = work.text]
    /\ work' = [work EXCEPT !.pc = "atomise"]
    /\ UNCHANGED <<files, docs, cleaner, upload, bundle, reads>>

\* run_atomise_and_embed reads the cleaned text back.
ReadCleaned ==
    /\ work.pc = "atomise"
    /\ reads' = reads \cup {derived[work.doc]}
    /\ work' = NoWork
    /\ UNCHANGED <<files, rows, cleaner, upload, bundle>>

\* A stage, the disk or the database fails: the transaction rolls back.
CleanRaises ==
    /\ work.pc # "idle"
    /\ work' = NoWork
    /\ UNCHANGED <<files, rows, cleaner, upload, bundle, reads>>

-----------------------------------------------------------------------------
(* POST /context *)

\* Mutant: documents without a cleaned text are selected too.
SelectDocuments ==
    /\ bundle = {}
    /\ bundle' = docs
    /\ UNCHANGED <<files, rows, cleaner, upload, work, reads>>

\* The documents with a cleaned text are selected first,
SelectCorpus ==
    /\ bundle = {}
    /\ bundle' = cleaned
    /\ UNCHANGED <<files, rows, cleaner, upload, work, reads>>

\* ... and their files are read one after the other.
ReadCorpus(d) ==
    /\ d \in bundle
    /\ reads' = reads \cup {derived[d]}
    /\ bundle' = bundle \ {d}
    /\ UNCHANGED <<files, rows, cleaner, upload, work>>

-----------------------------------------------------------------------------
\* The process dies; what restarts may be a newer deployment.
Restart(version) ==
    /\ cleaner' = version
    /\ upload' = NoUpload
    /\ work' = NoWork
    /\ bundle' = {}
    /\ UNCHANGED <<files, rows, reads>>

UploadStep ==
    \/ \E d \in Docs : BeginUpload(d)
    \/ OpenRaw \/ FillRaw \/ PublishRaw \/ InsertDocument \/ UploadRaises

WorkerStep ==
    \/ \E d \in Docs : BeginClean(d)
    \/ OpenDerived \/ FillDerived \/ PublishDerived \/ CommitClean
    \/ ReadCleaned \/ CleanRaises

ContextStep == SelectCorpus \/ \E d \in Docs : ReadCorpus(d)

Next == UploadStep \/ WorkerStep \/ ContextStep \/ \E version \in Cleaners : Restart(version)

Spec == Init /\ [][Next]_vars

-----------------------------------------------------------------------------
(* Properties *)

\* Raw files are sacred: a file under its sha256 appears complete, and is never
\* written again, whatever dies in the middle of an upload.
RawWrittenOnce ==
    [][\A d \in Docs :
          raw'[d] # raw[d] => raw[d] = "none" /\ raw'[d] = "whole"]_vars

\* The database never knows a file that is not there in full: what a row's
\* raw_path and cleaned_path name can be read, after any crash.
RowsHaveFiles ==
    /\ \A d \in docs : raw[d] = "whole"
    /\ \A d \in cleaned : derived[d] \in Cleaners

\* No reader meets a missing or half-written file while a worker replaces it.
ReadsAreWhole == reads \cap {"none", "torn"} = {}

\* A lineage record names the cleaner of the text that is on disk when the record
\* commits.  (A text may outrun its record, when the process dies between the two.)
LineageNamesText ==
    [][\A d \in Docs : lineage'[d] # lineage[d] => derived[d] = lineage'[d]]_vars
=============================================================================
