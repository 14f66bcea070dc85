---------------------------- MODULE Files_proofs ----------------------------
(***************************************************************************)
(* Theorems about Files, for any number of documents and cleaner versions. *)
(***************************************************************************)
EXTENDS Files, TLAPS

\* What is published is complete, and what an operation in progress relies on
\* is in place.
UploadIsSound ==
    /\ \A d \in Docs : raw[d] # "torn"
    /\ upload.pc # "idle" => upload.doc \in Docs
    /\ upload.pc \in {"open", "fill", "publish"} => raw[upload.doc] = "none"
    /\ upload.pc = "publish" => rawTmp[upload.doc] = "whole"
    /\ upload.pc = "insert" => raw[upload.doc] = "whole"

WorkIsSound ==
    /\ \A d \in Docs : derived[d] # "torn"
    /\ work.pc # "idle" => work.doc \in docs /\ work.text \in Cleaners
    /\ work.pc = "publish" => derivedTmp[work.doc] = work.text
    /\ work.pc = "commit" => derived[work.doc] = work.text
    /\ work.pc = "atomise" => derived[work.doc] \in Cleaners

\* The inductive invariant.
IInv ==
    /\ TypeOK
    /\ UploadIsSound
    /\ WorkIsSound
    /\ RowsHaveFiles
    /\ ReadsAreWhole

LEMMA IInvInit == Init => IInv
<1> SUFFICES ASSUME Init PROVE IInv
  OBVIOUS
<1>1. TypeOK
  BY DEF Init, TypeOK, RawContent, DerivedContent, Upload, NoUpload, Work, NoWork
<1> QED
  BY <1>1 DEF Init, IInv, UploadIsSound, WorkIsSound, RowsHaveFiles, ReadsAreWhole,
              NoUpload, NoWork

-----------------------------------------------------------------------------
(* Every step preserves the invariant *)

LEMMA UploadKeeps == IInv /\ UploadStep => IInv'
<1> SUFFICES ASSUME IInv, UploadStep PROVE IInv'
  OBVIOUS
<1> USE NoDocAssumption, CleanersAssumption
<1> DEFINE Kept == /\ TypeOK' /\ UploadIsSound' /\ RowsHaveFiles'
                   /\ UNCHANGED <<derived, derivedTmp, cleaned, work, bundle, reads>>
                   /\ docs \subseteq docs'
<1>0. /\ TypeOK /\ UploadIsSound /\ RowsHaveFiles
      /\ raw \in [Docs -> RawContent] /\ rawTmp \in [Docs -> RawContent]
      /\ docs \subseteq Docs /\ upload \in Upload
  BY DEF IInv, TypeOK
<1>1. ASSUME NEW d \in Docs, BeginUpload(d) PROVE Kept
  BY <1>0, <1>1 DEF BeginUpload, files, rows, TypeOK, Upload, UploadIsSound, RowsHaveFiles, RawContent
<1>2. ASSUME OpenRaw PROVE Kept
  <2>1. rawTmp' \in [Docs -> RawContent] /\ upload' \in Upload
    BY <1>0, <1>2 DEF OpenRaw, RawContent, Upload
  <2>2. TypeOK'
    BY <1>0, <1>2, <2>1 DEF OpenRaw, rows, TypeOK
  <2>3. UploadIsSound' /\ RowsHaveFiles'
    BY <1>0, <1>2 DEF OpenRaw, rows, Upload, UploadIsSound, RowsHaveFiles
  <2> QED
    BY <1>2, <2>2, <2>3 DEF OpenRaw, rows
<1>3. ASSUME FillRaw PROVE Kept
  <2>1. rawTmp' \in [Docs -> RawContent] /\ upload' \in Upload
    BY <1>0, <1>3 DEF FillRaw, RawContent, Upload
  <2>2. TypeOK'
    BY <1>0, <1>3, <2>1 DEF FillRaw, rows, TypeOK
  <2>3. UploadIsSound' /\ RowsHaveFiles'
    BY <1>0, <1>3 DEF FillRaw, rows, Upload, UploadIsSound, RowsHaveFiles
  <2> QED
    BY <1>3, <2>2, <2>3 DEF FillRaw, rows
<1>4. ASSUME PublishRaw PROVE Kept
  <2>1. /\ upload.doc \in Docs /\ rawTmp[upload.doc] = "whole"
        /\ raw' = [raw EXCEPT ![upload.doc] = "whole"]
    BY <1>0, <1>4 DEF PublishRaw, UploadIsSound
  <2>2. raw' \in [Docs -> RawContent] /\ rawTmp' \in [Docs -> RawContent] /\ upload' \in Upload
    BY <1>0, <1>4, <2>1 DEF PublishRaw, RawContent, Upload
  <2>3. TypeOK'
    BY <1>0, <1>4, <2>2 DEF PublishRaw, rows, TypeOK
  <2>4. UploadIsSound' /\ RowsHaveFiles'
    BY <1>0, <1>4, <2>1 DEF PublishRaw, rows, Upload, UploadIsSound, RowsHaveFiles
  <2> QED
    BY <1>4, <2>3, <2>4 DEF PublishRaw, rows
<1>5. ASSUME InsertDocument PROVE Kept
  <2>1. docs' = docs \cup {upload.doc} /\ upload.doc \in Docs /\ raw[upload.doc] = "whole"
    BY <1>0, <1>5 DEF InsertDocument, UploadIsSound
  <2>2. TypeOK'
    BY <1>0, <1>5, <2>1 DEF InsertDocument, files, TypeOK, Upload, NoUpload
  <2>3. UploadIsSound' /\ RowsHaveFiles'
    BY <1>0, <1>5, <2>1 DEF InsertDocument, files, NoUpload, UploadIsSound, RowsHaveFiles
  <2> QED
    BY <1>5, <2>1, <2>2, <2>3 DEF InsertDocument, files
<1>6. ASSUME UploadRaises PROVE Kept
  <2>1. TypeOK'
    BY <1>0, <1>6 DEF UploadRaises, files, rows, TypeOK, Upload, NoUpload
  <2>2. UploadIsSound' /\ RowsHaveFiles'
    BY <1>0, <1>6 DEF UploadRaises, files, rows, NoUpload, UploadIsSound, RowsHaveFiles
  <2> QED
    BY <1>6, <2>1, <2>2 DEF UploadRaises, files, rows
<1> HIDE DEF Kept
<1>7. Kept
  BY <1>1, <1>2, <1>3, <1>4, <1>5, <1>6 DEF UploadStep
<1> QED
  BY <1>7 DEF Kept, IInv, WorkIsSound, ReadsAreWhole

LEMMA WorkKeeps == IInv /\ WorkerStep => IInv'
<1> SUFFICES ASSUME IInv, WorkerStep PROVE IInv'
  OBVIOUS
<1> USE CleanersAssumption
<1> DEFINE Kept == /\ TypeOK' /\ WorkIsSound' /\ RowsHaveFiles' /\ ReadsAreWhole'
                   /\ UNCHANGED <<raw, rawTmp, docs, upload>>
<1>0. /\ TypeOK /\ WorkIsSound /\ RowsHaveFiles /\ ReadsAreWhole
      /\ derived \in [Docs -> DerivedContent] /\ derivedTmp \in [Docs -> DerivedContent]
      /\ raw \in [Docs -> RawContent] /\ cleaner \in Cleaners
      /\ docs \subseteq Docs /\ cleaned \subseteq docs /\ work \in Work
  BY DEF IInv, TypeOK
<1>1. ASSUME NEW d \in Docs, BeginClean(d) PROVE Kept
  <2>1. raw[d] = "whole"
    BY <1>0, <1>1 DEF BeginClean, RowsHaveFiles
  <2>2. work' \in Work /\ work'.doc \in docs /\ work'.text \in Cleaners /\ work'.pc = "open"
    BY <1>0, <1>1 DEF BeginClean, Work, DerivedContent
  <2>3. reads' \subseteq RawContent \cup DerivedContent /\ ReadsAreWhole'
    BY <1>0, <1>1, <2>1 DEF BeginClean, TypeOK, ReadsAreWhole, RawContent
  <2> QED
    BY <1>0, <1>1, <2>2, <2>3 DEF BeginClean, files, rows, TypeOK, WorkIsSound, RowsHaveFiles
<1>2. ASSUME OpenDerived PROVE Kept
  <2>1. derivedTmp' \in [Docs -> DerivedContent] /\ work' \in Work
    BY <1>0, <1>2 DEF OpenDerived, DerivedContent, Work
  <2>2. TypeOK'
    BY <1>0, <1>2, <2>1 DEF OpenDerived, rows, TypeOK
  <2>3. WorkIsSound' /\ RowsHaveFiles' /\ ReadsAreWhole'
    BY <1>0, <1>2 DEF OpenDerived, rows, Work, WorkIsSound, RowsHaveFiles, ReadsAreWhole
  <2> QED
    BY <1>2, <2>2, <2>3 DEF OpenDerived, rows
<1>3. ASSUME FillDerived PROVE Kept
  <2>1. work.doc \in Docs /\ work.text \in Cleaners
    BY <1>0, <1>3 DEF FillDerived, WorkIsSound
  <2>2. derivedTmp' \in [Docs -> DerivedContent] /\ work' \in Work
        /\ derivedTmp'[work.doc] = work.text /\ work'.doc = work.doc /\ work'.text = work.text
        /\ work'.pc = "publish"
    BY <1>0, <1>3, <2>1 DEF FillDerived, DerivedContent, Work
  <2>3. TypeOK'
    BY <1>0, <1>3, <2>2 DEF FillDerived, rows, TypeOK
  <2>4. WorkIsSound' /\ RowsHaveFiles' /\ ReadsAreWhole'
    BY <1>0, <1>3, <2>1, <2>2 DEF FillDerived, rows, WorkIsSound, RowsHaveFiles, ReadsAreWhole
  <2> QED
    BY <1>3, <2>3, <2>4 DEF FillDerived, rows
<1>4. ASSUME PublishDerived PROVE Kept
  <2>1. work.doc \in Docs /\ work.text \in Cleaners /\ derivedTmp[work.doc] = work.text
    BY <1>0, <1>4 DEF PublishDerived, WorkIsSound
  <2>2. /\ derived' \in [Docs -> DerivedContent] /\ derivedTmp' \in [Docs -> DerivedContent]
        /\ work' \in Work /\ work'.doc = work.doc /\ work'.text = work.text /\ work'.pc = "commit"
        /\ \A d \in Docs : derived'[d] = IF d = work.doc THEN work.text ELSE derived[d]
    BY <1>0, <1>4, <2>1 DEF PublishDerived, DerivedContent, Work
  <2>3. TypeOK'
    BY <1>0, <1>4, <2>2 DEF PublishDerived, rows, TypeOK
  <2>4. RowsHaveFiles' /\ ReadsAreWhole'
    BY <1>0, <1>4, <2>1, <2>2 DEF PublishDerived, rows, RowsHaveFiles, ReadsAreWhole
  <2>5. docs' = docs /\ work.doc \in docs
    BY <1>0, <1>4 DEF PublishDerived, rows, WorkIsSound
  <2>6. WorkIsSound'
    BY <1>0, <2>1, <2>2, <2>5 DEF WorkIsSound
  <2> QED
    BY <1>4, <2>3, <2>4, <2>6 DEF PublishDerived, rows
<1>5. ASSUME CommitClean PROVE Kept
  <2>1. work.doc \in docs /\ work.text \in Cleaners /\ derived[work.doc] \in Cleaners
    BY <1>0, <1>5 DEF CommitClean, WorkIsSound
  <2>2. /\ cleaned' = cleaned \cup {work.doc} /\ lineage' \in [Docs -> Cleaners \cup {"none"}]
        /\ work' \in Work /\ work'.doc = work.doc /\ work'.text = work.text /\ work'.pc = "atomise"
    BY <1>0, <1>5, <2>1 DEF CommitClean, TypeOK, Work
  <2>3. TypeOK'
    BY <1>0, <1>5, <2>1, <2>2 DEF CommitClean, files, TypeOK
  <2>4. WorkIsSound' /\ RowsHaveFiles' /\ ReadsAreWhole'
    BY <1>0, <1>5, <2>1, <2>2 DEF CommitClean, files, WorkIsSound, RowsHaveFiles, ReadsAreWhole
  <2> QED
    BY <1>5, <2>3, <2>4 DEF CommitClean, files
<1>6. ASSUME ReadCleaned PROVE Kept
  <2>1. derived[work.doc] \in Cleaners
    BY <1>0, <1>6 DEF ReadCleaned, WorkIsSound
  <2>2. reads' \subseteq RawContent \cup DerivedContent /\ ReadsAreWhole'
    BY <1>0, <1>6, <2>1 DEF ReadCleaned, TypeOK, ReadsAreWhole, DerivedContent
  <2>3. TypeOK'
    BY <1>0, <1>6, <2>2 DEF ReadCleaned, files, rows, TypeOK, Work, NoWork, DerivedContent
  <2>4. WorkIsSound' /\ RowsHaveFiles'
    BY <1>0, <1>6 DEF ReadCleaned, files, rows, NoWork, WorkIsSound, RowsHaveFiles
  <2> QED
    BY <1>6, <2>2, <2>3, <2>4 DEF ReadCleaned, files, rows
<1>7. ASSUME CleanRaises PROVE Kept
  <2>1. TypeOK'
    BY <1>0, <1>7 DEF CleanRaises, files, rows, TypeOK, Work, NoWork, DerivedContent
  <2>2. WorkIsSound' /\ RowsHaveFiles' /\ ReadsAreWhole'
    BY <1>0, <1>7 DEF CleanRaises, files, rows, NoWork, WorkIsSound, RowsHaveFiles, ReadsAreWhole
  <2> QED
    BY <1>7, <2>1, <2>2 DEF CleanRaises, files, rows
<1> HIDE DEF Kept
<1>8. Kept
  BY <1>1, <1>2, <1>3, <1>4, <1>5, <1>6, <1>7 DEF WorkerStep
<1> QED
  BY <1>8 DEF Kept, IInv, UploadIsSound

LEMMA OthersKeep == IInv /\ (ContextStep \/ \E v \in Cleaners : Restart(v)) => IInv'
<1> SUFFICES ASSUME IInv, ContextStep \/ \E v \in Cleaners : Restart(v) PROVE IInv'
  OBVIOUS
<1>1. CASE SelectCorpus
  BY <1>1 DEF SelectCorpus, files, rows, IInv, TypeOK, UploadIsSound, WorkIsSound, RowsHaveFiles,
              ReadsAreWhole
<1>2. ASSUME NEW d \in Docs, ReadCorpus(d) PROVE IInv'
  <2>1. d \in cleaned /\ derived[d] \in Cleaners
    BY <1>2 DEF ReadCorpus, IInv, TypeOK, RowsHaveFiles
  <2>2. reads' \subseteq RawContent \cup DerivedContent /\ ReadsAreWhole'
    BY <1>2, <2>1, CleanersAssumption
       DEF ReadCorpus, IInv, TypeOK, ReadsAreWhole, DerivedContent
  <2> QED
    BY <1>2, <2>2
       DEF ReadCorpus, files, rows, IInv, TypeOK, UploadIsSound, WorkIsSound, RowsHaveFiles
<1>3. ASSUME NEW v \in Cleaners, Restart(v) PROVE IInv'
  BY <1>3 DEF Restart, files, rows, IInv, TypeOK, UploadIsSound, WorkIsSound, RowsHaveFiles,
              ReadsAreWhole, Upload, NoUpload, Work, NoWork, DerivedContent
<1> QED
  BY <1>1, <1>2, <1>3 DEF ContextStep

LEMMA IInvAlways == Spec => []IInv
<1>1. Init => IInv
  BY IInvInit
<1>2. IInv /\ UNCHANGED vars => IInv'
  BY DEF vars, files, rows, IInv, TypeOK, UploadIsSound, WorkIsSound, RowsHaveFiles, ReadsAreWhole
<1>3. IInv /\ [Next]_vars => IInv'
  BY <1>2, UploadKeeps, WorkKeeps, OthersKeep DEF Next
<1> QED
  BY <1>1, <1>3, PTL DEF Spec

-----------------------------------------------------------------------------
(* Theorems *)

\* Every variable keeps its type.
THEOREM TypeCorrect == Spec => []TypeOK
<1>1. IInv => TypeOK
  BY DEF IInv
<1> QED
  BY <1>1, IInvAlways, PTL

\* Whatever dies and whenever, a committed row names files that are there in full.
THEOREM FilesBehindRows == Spec => []RowsHaveFiles
<1>1. IInv => RowsHaveFiles
  BY DEF IInv
<1> QED
  BY <1>1, IInvAlways, PTL

\* No read of the worker or of a /context request meets a missing or torn file.
THEOREM ReadsWhole == Spec => []ReadsAreWhole
<1>1. IInv => ReadsAreWhole
  BY DEF IInv
<1> QED
  BY <1>1, IInvAlways, PTL

\* A raw file appears once, in full, and is never written again.
THEOREM RawImmutable == Spec => RawWrittenOnce
<1>1. IInv /\ [Next]_vars =>
        [\A d \in Docs : raw'[d] # raw[d] => raw[d] = "none" /\ raw'[d] = "whole"]_vars
  <2> SUFFICES ASSUME IInv, Next, NEW d \in Docs, raw'[d] # raw[d]
               PROVE  raw[d] = "none" /\ raw'[d] = "whole"
    OBVIOUS
  <2>1. PublishRaw
    BY DEF Next, UploadStep, WorkerStep, ContextStep, BeginUpload, OpenRaw, FillRaw,
           InsertDocument, UploadRaises, BeginClean, OpenDerived, FillDerived, PublishDerived,
           CommitClean, ReadCleaned, CleanRaises, SelectCorpus, ReadCorpus, Restart, files
  <2>2. upload.doc \in Docs /\ raw[upload.doc] = "none" /\ rawTmp[upload.doc] = "whole"
    BY <2>1 DEF PublishRaw, IInv, UploadIsSound
  <2> QED
    BY <2>1, <2>2 DEF PublishRaw, IInv, TypeOK
<1> QED
  BY <1>1, IInvAlways, PTL DEF Spec, RawWrittenOnce

\* The cleaned text is in place when the record that names its cleaner commits
\* (runner.py, lines 77-88).
THEOREM LineageTrue == Spec => LineageNamesText
<1>1. IInv /\ [Next]_vars =>
        [\A d \in Docs : lineage'[d] # lineage[d] => derived[d] = lineage'[d]]_vars
  <2> SUFFICES ASSUME IInv, Next, NEW d \in Docs, lineage'[d] # lineage[d]
               PROVE  derived[d] = lineage'[d]
    OBVIOUS
  <2>1. CommitClean
    BY DEF Next, UploadStep, WorkerStep, ContextStep, BeginUpload, OpenRaw, FillRaw, PublishRaw,
           InsertDocument, UploadRaises, BeginClean, OpenDerived, FillDerived, PublishDerived,
           ReadCleaned, CleanRaises, SelectCorpus, ReadCorpus, Restart, rows
  <2>2. derived[work.doc] = work.text
    BY <2>1 DEF CommitClean, IInv, WorkIsSound
  <2> QED
    BY <2>1, <2>2 DEF CommitClean, IInv, TypeOK
<1> QED
  BY <1>1, IInvAlways, PTL DEF Spec, LineageNamesText
=============================================================================
