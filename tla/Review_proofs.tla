--------------------------- MODULE Review_proofs ---------------------------
(***************************************************************************)
(* Theorems about Review, for any number of documents, statements, workers *)
(* and operators.                                                          *)
(***************************************************************************)
EXTENDS Review, SequenceTheorems, TLAPS

\* A replacement only dooms unreviewed rows of its own document, and holds
\* their locks: no two replacements doom the same row.
DoomedAreProvisional ==
    \A w \in Workers :
        /\ txn[w].pc \in {"idle", "delete"} => txn[w].doomed = {}
        /\ \A i \in txn[w].targets : i.doc = txn[w].doc
        /\ \A i \in txn[w].doomed :
              i \in live /\ row[i].status = "provisional" /\ i.doc = txn[w].doc

DoomedOnce == \A v, w \in Workers : v # w => txn[v].doomed \cap txn[w].doomed = {}

\* The run of an open replacement is its own, and no row carries it yet.
RunsAreFresh ==
    /\ \A i \in live : i.run <= runs
    /\ \A w \in Workers : txn[w].pc # "idle" =>
          /\ txn[w].run \in 1 .. runs
          /\ txn[w].doc \in Docs
          /\ \A i \in live : i.run # txn[w].run
          /\ \A v \in Workers \ {w} : txn[v].pc # "idle" => txn[v].run # txn[w].run

\* What a request loaded as reviewed is still there and still reviewed.
LoadedReviewed ==
    \A o \in Operators : req[o].open /\ req[o].loaded.status # "provisional" =>
        req[o].atom \in live /\ row[req[o].atom].status # "provisional"

\* The inductive invariant.
IInv ==
    /\ TypeOK
    /\ DoomedAreProvisional
    /\ DoomedOnce
    /\ RunsAreFresh
    /\ LoadedReviewed
    /\ DecisionsKeepTheirAtom

LEMMA IInvInit == Init => IInv
<1> SUFFICES ASSUME Init PROVE IInv
  OBVIOUS
<1> USE BoundsAssumption DEF Init, IdleTxn, Idle
<1>1. TypeOK
  BY DEF TypeOK, Txn, Req, AtomIds, AtomRow, Extracted, Statuses
<1> QED
  BY <1>1 DEF IInv, DoomedAreProvisional, DoomedOnce, RunsAreFresh, LoadedReviewed,
              DecisionsKeepTheirAtom

-----------------------------------------------------------------------------
(* What a decision writes *)

LEMMA UpdatedRow ==
    ASSUME NEW r \in Req, NEW stored \in AtomRow
    PROVE  /\ Updated(r, stored) \in AtomRow
           /\ WantedHash(r) \in Hashes
           /\ WantedStatus(r.body) \in {"confirmed", "deprecated"}
           /\ r.body.kind \in {"confirm", "override", "deprecate"}
           /\ r.atom \in AtomIds
           /\ r.loaded \in AtomRow
<1>1. r.body \in Bodies /\ r.loaded \in AtomRow /\ r.atom \in AtomIds
  BY DEF Req
<1>2. r.body.text \in Hashes \cup {NoText} /\ r.body.kind \in {"confirm", "override", "deprecate"}
  BY <1>1 DEF Bodies
<1>3. WantedHash(r) \in Hashes /\ WantedStatus(r.body) \in {"confirmed", "deprecated"}
  BY <1>1, <1>2 DEF WantedHash, WantedStatus, AtomRow
<1>4. Updated(r, stored) \in AtomRow
  BY <1>1, <1>2, <1>3 DEF Updated, Flushed, AtomRow, Statuses
<1> QED
  BY <1>1, <1>2, <1>3, <1>4

\* A decided row stays decided, and a row loaded as provisional becomes so.
LEMMA UpdatedDecided ==
    ASSUME NEW r \in Req, NEW stored \in AtomRow,
           r.loaded.status # "provisional" => stored.status # "provisional"
    PROVE  Updated(r, stored).status # "provisional"
<1>1. WantedStatus(r.body) \in {"confirmed", "deprecated"}
  BY UpdatedRow
<1> QED
  BY <1>1 DEF Updated, Flushed

-----------------------------------------------------------------------------
(* Every step preserves the invariant *)

LEMMA IInvStep == IInv /\ [Next]_vars => IInv'
<1> SUFFICES ASSUME IInv, [Next]_vars PROVE IInv'
  OBVIOUS
<1> USE BoundsAssumption, NoTextAssumption, NoDocAssumption
<1> USE DEF IInv
<1> DEFINE Parts == /\ TypeOK' /\ DoomedAreProvisional' /\ DoomedOnce' /\ RunsAreFresh'
                    /\ LoadedReviewed' /\ DecisionsKeepTheirAtom'
<1>0. /\ live \subseteq AtomIds /\ row \in [AtomIds -> AtomRow] /\ runs \in 0 .. MaxRuns
      /\ txn \in [Workers -> Txn] /\ req \in [Operators -> Req \cup {Idle}] /\ log \in Seq(Entry)
  BY DEF TypeOK
<1>1. ASSUME NEW w \in Workers, NEW d \in Docs, NEW extracted \in SUBSET Hashes,
             BeginReplace(w, d, extracted)
      PROVE  Parts
  <2> DEFINE t == [pc |-> "delete", doc |-> d, run |-> runs + 1, extracted |-> extracted,
                   targets |-> {i \in RowsOf(d) : row[i].status = "provisional"},
                   doomed |-> {}, fresh |-> {}, seen |-> 0]
  <2>1. txn' = [txn EXCEPT ![w] = t] /\ runs' = runs + 1 /\ UNCHANGED <<live, row, req, log>>
        /\ runs < MaxRuns /\ txn[w].pc = "idle"
    BY <1>1 DEF BeginReplace
  <2>2. TypeOK'
    BY <1>0, <2>1 DEF TypeOK, Txn, RowsOf
  <2>3. DoomedAreProvisional' /\ DoomedOnce'
    BY <1>0, <2>1 DEF DoomedAreProvisional, DoomedOnce, RowsOf
  <2>4. RunsAreFresh'
    BY <1>0, <2>1 DEF RunsAreFresh, AtomIds
  <2> QED
    BY <2>1, <2>2, <2>3, <2>4 DEF LoadedReviewed, DecisionsKeepTheirAtom
<1>2. ASSUME NEW w \in Workers, DeleteProvisional(w) PROVE Parts
  <2>1. TypeOK'
    <3> DEFINE moved == [txn[w] EXCEPT !.pc = "survey",
              !.doomed = {i \in txn[w].targets \cap live : row[i].status = "provisional"}]
    <3>1. txn[w] \in Txn
      BY <1>0
    <3>2. moved \in Txn
      BY <3>1 DEF Txn
    <3>3. txn' = [txn EXCEPT ![w] = moved] /\ UNCHANGED <<live, row, runs, req, log>>
      BY <1>2 DEF DeleteProvisional
    <3> HIDE DEF moved
    <3>4. txn' \in [Workers -> Txn]
      BY <1>0, <3>2, <3>3
    <3> QED
      BY <1>0, <3>3, <3>4 DEF TypeOK
  <2>2. DoomedAreProvisional'
    BY <1>0, <1>2 DEF DeleteProvisional, DoomedAreProvisional, Txn
  <2>3. DoomedOnce'
    BY <1>0, <1>2 DEF DeleteProvisional, DoomedOnce, DoomedByOther, Txn
  <2>4. RunsAreFresh'
    BY <1>0, <1>2 DEF DeleteProvisional, RunsAreFresh, Txn
  <2> QED
    BY <1>2, <2>1, <2>2, <2>3, <2>4
       DEF DeleteProvisional, LoadedReviewed, DecisionsKeepTheirAtom
<1>3. ASSUME NEW w \in Workers, SurveySurvivors(w) PROVE Parts
  <2>1. TypeOK'
    <3> DEFINE moved == [txn[w] EXCEPT !.pc = "insert",
              !.fresh = txn[w].extracted \ {row[i].hash : i \in RowsOf(txn[w].doc) \ txn[w].doomed},
              !.seen = Len(log)]
    <3>1. txn[w] \in Txn /\ Len(log) \in Nat
      BY <1>0
    <3>2. moved \in Txn
      BY <3>1 DEF Txn
    <3>3. txn' = [txn EXCEPT ![w] = moved] /\ UNCHANGED <<live, row, runs, req, log>>
      BY <1>3 DEF SurveySurvivors
    <3> HIDE DEF moved
    <3>4. txn' \in [Workers -> Txn]
      BY <1>0, <3>2, <3>3
    <3> QED
      BY <1>0, <3>3, <3>4 DEF TypeOK
  <2>2. DoomedAreProvisional' /\ DoomedOnce' /\ RunsAreFresh'
    BY <1>0, <1>3 DEF SurveySurvivors, DoomedAreProvisional, DoomedOnce, RunsAreFresh, Txn
  <2> QED
    BY <1>3, <2>1, <2>2
       DEF SurveySurvivors, LoadedReviewed, DecisionsKeepTheirAtom
<1>4. ASSUME NEW w \in Workers, CommitReplace(w) PROVE Parts
  <2>1. /\ live' = (live \ txn[w].doomed) \cup Inserted(w)
        /\ row' = [i \in AtomIds |-> IF i \in Inserted(w) THEN Extracted(i) ELSE row[i]]
        /\ txn' = [txn EXCEPT ![w] = IdleTxn]
        /\ UNCHANGED <<runs, req, log>>
        /\ txn[w].pc = "insert" /\ Colliding(w) = {}
    BY <1>4 DEF CommitReplace
  <2>2. /\ Inserted(w) \subseteq AtomIds
        /\ \A i \in Inserted(w) : i.doc = txn[w].doc /\ i.run = txn[w].run /\ i.born \in txn[w].fresh
        /\ \A i \in Inserted(w) : i \notin live
    <3>1. txn[w] \in Txn /\ txn[w].fresh \subseteq Hashes
      BY <1>0 DEF Txn
    <3>2. txn[w].doc \in Docs /\ txn[w].run \in 1 .. MaxRuns /\ \A i \in live : i.run # txn[w].run
      BY <1>0, <2>1 DEF RunsAreFresh
    <3>3. \A i \in Inserted(w) : i.doc = txn[w].doc /\ i.run = txn[w].run /\ i.born \in txn[w].fresh
      BY DEF Inserted
    <3>4. Inserted(w) \subseteq AtomIds
      BY <3>1, <3>2 DEF Inserted, AtomIds
    <3> QED
      BY <3>2, <3>3, <3>4
  <2>3. \A i \in AtomIds : Extracted(i) \in AtomRow
    BY DEF Extracted, AtomRow, AtomIds, Statuses
  <2>4. \A i \in live : row'[i] = row[i]
    BY <1>0, <2>1, <2>2
  <2>5. TypeOK'
    BY <1>0, <2>1, <2>2, <2>3 DEF TypeOK, Txn, IdleTxn
  <2>6. DoomedAreProvisional'
    <3> SUFFICES ASSUME NEW v \in Workers \ {w}, NEW i \in txn[v].doomed
                 PROVE  i \in live' /\ row'[i].status = "provisional"
      BY <1>0, <2>1 DEF DoomedAreProvisional, IdleTxn
    <3>1. i \in live /\ row[i].status = "provisional" /\ i \notin txn[w].doomed
      BY DEF DoomedAreProvisional, DoomedOnce
    <3> QED
      BY <2>1, <2>4, <3>1
  <2>7. DoomedOnce'
    BY <1>0, <2>1 DEF DoomedOnce, IdleTxn
  <2>8. RunsAreFresh'
    BY <1>0, <2>1, <2>2 DEF RunsAreFresh, IdleTxn
  <2>9. LoadedReviewed'
    <3> SUFFICES ASSUME NEW o \in Operators, req[o].open, req[o].loaded.status # "provisional"
                 PROVE  req[o].atom \in live' /\ row'[req[o].atom].status # "provisional"
      BY <2>1 DEF LoadedReviewed
    <3>1. req[o].atom \in live /\ row[req[o].atom].status # "provisional"
      BY DEF LoadedReviewed
    <3>2. req[o].atom \notin txn[w].doomed
      BY <3>1 DEF DoomedAreProvisional
    <3> QED
      BY <2>1, <2>4, <3>1, <3>2
  <2>10. DecisionsKeepTheirAtom'
    <3> SUFFICES ASSUME NEW n \in 1 .. Len(log)
                 PROVE  log[n].atom \in live' /\ row'[log[n].atom].status # "provisional"
      BY <2>1 DEF DecisionsKeepTheirAtom
    <3>1. log[n].atom \in live /\ row[log[n].atom].status # "provisional"
      BY DEF DecisionsKeepTheirAtom
    <3>2. log[n].atom \notin txn[w].doomed
      BY <3>1 DEF DoomedAreProvisional
    <3> QED
      BY <2>1, <2>4, <3>1, <3>2
  <2> QED
    BY <2>5, <2>6, <2>7, <2>8, <2>9, <2>10
<1>5. ASSUME NEW w \in Workers, RollbackReplace(w) PROVE Parts
  <2>1. TypeOK'
    BY <1>0, <1>5 DEF RollbackReplace, TypeOK, Txn, IdleTxn
  <2>2. DoomedAreProvisional' /\ DoomedOnce' /\ RunsAreFresh'
    BY <1>0, <1>5 DEF RollbackReplace, DoomedAreProvisional, DoomedOnce, RunsAreFresh, IdleTxn
  <2> QED
    BY <1>5, <2>1, <2>2
       DEF RollbackReplace, LoadedReviewed, DecisionsKeepTheirAtom
<1>6. ASSUME NEW o \in Operators, NEW i \in live, NEW body \in Bodies, LoadAtom(o, i, body)
      PROVE  Parts
  <2>1. [open |-> TRUE, atom |-> i, body |-> body, loaded |-> row[i]] \in Req
    BY <1>0 DEF Req
  <2>2. TypeOK'
    BY <1>0, <1>6, <2>1 DEF LoadAtom, TypeOK
  <2>3. LoadedReviewed'
    BY <1>0, <1>6 DEF LoadAtom, LoadedReviewed
  <2> QED
    BY <1>6, <2>2, <2>3 DEF LoadAtom, DoomedAreProvisional, DoomedOnce, RunsAreFresh,
                            DecisionsKeepTheirAtom
<1>7. ASSUME NEW o \in Operators, CommitDecision(o) PROVE Parts
  <2> DEFINE r == req[o]
  <2>1. r \in Req
    BY <1>0, <1>7 DEF CommitDecision, Idle
  <2>2. \A s \in AtomRow : Updated(r, s) \in AtomRow
    BY <2>1, UpdatedRow
  <2>3. r.atom \in AtomIds /\ WantedHash(r) \in Hashes
        /\ r.body.kind \in {"confirm", "override", "deprecate"}
        /\ WantedStatus(r.body) \in {"confirmed", "deprecated"}
    <3>1. r.loaded \in AtomRow
      BY <2>1 DEF Req
    <3> QED
      BY <2>1, <3>1, UpdatedRow
  <2>4. /\ EmitsUpdate(r) => r.atom \in live /\ ~Doomed(r.atom) /\ ~HashTaken(r)
        /\ row' = IF EmitsUpdate(r) THEN [row EXCEPT ![r.atom] = Updated(r, @)] ELSE row
        /\ log' = Append(log, [atom |-> r.atom, hash |-> WantedHash(r), kind |-> r.body.kind])
        /\ req' = [req EXCEPT ![o] = Idle]
        /\ UNCHANGED <<live, runs, txn>>
        /\ r.open
    BY <1>7 DEF CommitDecision
  <2>5. \A i \in AtomIds \ {r.atom} : row'[i] = row[i]
    BY <1>0, <2>4
  <2>6. r.atom \in live /\ row'[r.atom].status # "provisional"
    <3>1. CASE EmitsUpdate(r)
      <4>1. r.loaded.status # "provisional" => row[r.atom].status # "provisional"
        BY <2>4 DEF LoadedReviewed
      <4>2. Updated(r, row[r.atom]).status # "provisional"
        BY <1>0, <2>1, <2>3, <4>1, UpdatedDecided
      <4> QED
        BY <1>0, <2>3, <2>4, <3>1, <4>2
    <3>2. CASE ~EmitsUpdate(r)
      BY <2>3, <2>4, <3>2 DEF EmitsUpdate, LoadedReviewed
    <3> QED
      BY <3>1, <3>2
  <2>7. TypeOK'
    <3>1. row' \in [AtomIds -> AtomRow]
      BY <1>0, <2>2, <2>4
    <3>2. [atom |-> r.atom, hash |-> WantedHash(r), kind |-> r.body.kind] \in Entry
      BY <2>3 DEF Entry
    <3>3. log' \in Seq(Entry)
      BY <1>0, <2>4, <3>2
    <3> QED
      BY <1>0, <2>4, <3>1, <3>3 DEF TypeOK
  <2>8. DoomedAreProvisional'
    <3>1. \A w \in Workers : \A i \in txn[w].doomed : row'[i] = row[i]
      BY <1>0, <2>4, <2>5 DEF Doomed, Txn
    <3> QED
      BY <2>4, <3>1 DEF DoomedAreProvisional
  <2>9. LoadedReviewed'
    BY <1>0, <2>4, <2>5, <2>6 DEF LoadedReviewed, Idle, Req
  <2>10. DecisionsKeepTheirAtom'
    <3> SUFFICES ASSUME NEW n \in 1 .. Len(log')
                 PROVE  log'[n].atom \in live /\ row'[log'[n].atom].status # "provisional"
      BY <2>4 DEF DecisionsKeepTheirAtom
    <3>1. CASE n = Len(log) + 1
      BY <1>0, <2>4, <2>6, <3>1
    <3>2. CASE n \in 1 .. Len(log)
      <4>1. log'[n] = log[n]
        BY <1>0, <2>4, <3>2
      <4> QED
        BY <1>0, <2>5, <2>6, <3>2, <4>1 DEF DecisionsKeepTheirAtom
    <3> QED
      BY <1>0, <2>4, <3>1, <3>2
  <2> QED
    BY <2>4, <2>7, <2>8, <2>9, <2>10 DEF DoomedOnce, RunsAreFresh
<1>8. ASSUME NEW o \in Operators, RejectDecision(o) PROVE Parts
  <2>1. TypeOK' /\ LoadedReviewed'
    BY <1>0, <1>8 DEF RejectDecision, TypeOK, LoadedReviewed, Idle
  <2> QED
    BY <1>8, <2>1 DEF RejectDecision, DoomedAreProvisional, DoomedOnce, RunsAreFresh,
                      DecisionsKeepTheirAtom
<1>9. CASE UNCHANGED vars
  BY <1>9 DEF vars, TypeOK, DoomedAreProvisional, DoomedOnce, RunsAreFresh, LoadedReviewed,
              DecisionsKeepTheirAtom
<1> QED
  BY <1>1, <1>2, <1>3, <1>4, <1>5, <1>6, <1>7, <1>8, <1>9 DEF Next, WorkerStep, OperatorStep

LEMMA IInvAlways == Spec => []IInv
<1>1. Init => IInv
  BY IInvInit
<1>2. IInv /\ [Next]_vars => IInv'
  BY IInvStep
<1> QED
  BY <1>1, <1>2, PTL DEF Spec

-----------------------------------------------------------------------------
(* Theorems *)

\* Every variable keeps its type.
THEOREM TypeCorrect == Spec => []TypeOK
<1>1. IInv => TypeOK
  BY DEF IInv
<1> QED
  BY <1>1, IInvAlways, PTL

\* No decision is ever about an atom that is gone or back to provisional, for
\* any number of workers replacing atoms under any number of operators.
THEOREM DecisionsKept == Spec => []DecisionsKeepTheirAtom
<1>1. IInv => DecisionsKeepTheirAtom
  BY DEF IInv
<1> QED
  BY <1>1, IInvAlways, PTL

\* Reprocessing keeps reviewed atoms verbatim: only a logged decision changes one.
THEOREM ReviewedAtomsSurvive == Spec => ReviewedSurvive
<1>1. IInv /\ IInv' /\ [Next]_vars =>
        [\A i \in live :
            row[i].status # "provisional" =>
                /\ i \in live'
                /\ row'[i].status # "provisional"
                /\ log' = log => row'[i] = row[i]]_vars
  <2> SUFFICES ASSUME IInv, IInv', Next, NEW i \in live, row[i].status # "provisional"
               PROVE  /\ i \in live'
                      /\ row'[i].status # "provisional"
                      /\ log' = log => row'[i] = row[i]
    OBVIOUS
  <2>0. live \subseteq AtomIds /\ row \in [AtomIds -> AtomRow] /\ log \in Seq(Entry)
    BY DEF IInv, TypeOK
  <2>1. ASSUME NEW w \in Workers, CommitReplace(w)
        PROVE  i \in live' /\ row'[i] = row[i]
    <3>1. i \notin txn[w].doomed
      BY DEF IInv, DoomedAreProvisional
    <3>2. i \notin Inserted(w)
      BY <2>1 DEF IInv, RunsAreFresh, CommitReplace, Inserted
    <3> QED
      BY <2>0, <2>1, <3>1, <3>2 DEF CommitReplace
  <2>2. ASSUME NEW o \in Operators, CommitDecision(o)
        PROVE  i \in live' /\ row'[i].status # "provisional" /\ log' # log
    <3>1. log' # log
      BY <2>0, <2>2 DEF CommitDecision
    <3>2. i \in live' /\ i \in AtomIds
      BY <2>0, <2>2 DEF CommitDecision
    <3>3. CASE i # req[o].atom
      BY <2>0, <2>2, <3>2, <3>3 DEF CommitDecision
    <3>4. CASE i = req[o].atom
      <4>1. /\ Len(log') = Len(log) + 1
            /\ log'[Len(log) + 1].atom = i
        BY <2>0, <2>2, <3>4 DEF CommitDecision
      <4> QED
        BY <2>0, <3>1, <4>1 DEF IInv, DecisionsKeepTheirAtom
    <3> QED
      BY <3>1, <3>2, <3>3, <3>4
  <2>3. ASSUME UNCHANGED <<live, row>> PROVE i \in live' /\ row'[i] = row[i]
    BY <2>3
  <2> QED
    BY <2>1, <2>2, <2>3
       DEF Next, WorkerStep, OperatorStep, BeginReplace, DeleteProvisional, SurveySurvivors,
           RollbackReplace, LoadAtom, RejectDecision
<1> QED
  BY <1>1, IInvAlways, PTL DEF Spec, ReviewedSurvive

-----------------------------------------------------------------------------
(* Refinement *)

StateOf == [i \in AtomIds |-> IF i \in live THEN row[i].status ELSE "absent"]
LedgerOf == [n \in 1 .. Len(log) |-> log[n].atom]

\* A committed decision decides an atom that is there and is logged last.
LEMMA DecisionStep ==
    ASSUME IInv, IInv', NEW o \in Operators, CommitDecision(o)
    PROVE  Ledger!Next
<1> DEFINE i == req[o].atom
<1>0. /\ live \subseteq AtomIds /\ row \in [AtomIds -> AtomRow] /\ log \in Seq(Entry)
      /\ row' \in [AtomIds -> AtomRow] /\ log' \in Seq(Entry) /\ live' = live
  BY DEF IInv, TypeOK, CommitDecision
<1>1. /\ Len(log') = Len(log) + 1
      /\ log'[Len(log) + 1].atom = i
      /\ \A n \in 1 .. Len(log) : log'[n] = log[n]
  BY <1>0 DEF CommitDecision
<1>2. i \in live /\ row'[i].status # "provisional"
  BY <1>0, <1>1 DEF IInv, DecisionsKeepTheirAtom
<1>3. row'[i].status \in Ledger!Decided
  BY <1>0, <1>2 DEF AtomRow, Statuses, Ledger!Decided
<1>4. \A k \in AtomIds \ {i} : row'[k] = row[k]
  BY <1>0 DEF CommitDecision
<1>5. StateOf' = [StateOf EXCEPT ![i] = row'[i].status]
  BY <1>0, <1>2, <1>4 DEF StateOf
<1>6. StateOf[i] # "absent"
  BY <1>0, <1>2 DEF StateOf, AtomRow, Statuses
<1>7. LedgerOf' = Append(LedgerOf, i)
  <2>1. LedgerOf \in Seq(AtomIds) /\ Len(LedgerOf) = Len(log)
    <3>1. Len(log) \in Nat /\ \A n \in 1 .. Len(log) : log[n] \in Entry
      BY <1>0
    <3>2. LedgerOf \in [1 .. Len(log) -> AtomIds]
      BY <3>1 DEF LedgerOf, Entry
    <3>3. LedgerOf \in Seq(AtomIds)
      BY <3>1, <3>2, SeqDef
    <3> QED
      BY <3>1, <3>2, <3>3, LenProperties
  <2>2. i \in AtomIds
    BY <1>0, <1>2
  <2>3. LedgerOf' = [n \in 1 .. Len(log) + 1 |-> log'[n].atom]
    BY <1>1 DEF LedgerOf
  <2>4. Append(LedgerOf, i) = [n \in 1 .. Len(log) + 1 |->
                                  IF n = Len(log) + 1 THEN i ELSE log[n].atom]
    BY <1>0, <2>1, <2>2 DEF LedgerOf
  <2>5. \A n \in 1 .. Len(log) + 1 :
           log'[n].atom = IF n = Len(log) + 1 THEN i ELSE log[n].atom
    BY <1>0, <1>1
  <2> QED
    BY <2>3, <2>4, <2>5
<1>8. i \in AtomIds
  BY <1>0, <1>2
<1> QED
  BY <1>3, <1>5, <1>6, <1>7, <1>8 DEF Ledger!Next, Ledger!Decide, StateOf, LedgerOf

\* A committed replacement removes and adds provisional atoms of its document.
LEMMA ReplaceStep ==
    ASSUME IInv, NEW w \in Workers, CommitReplace(w)
    PROVE  Ledger!Next
<1> DEFINE d == txn[w].doc
<1>0. live \subseteq AtomIds /\ row \in [AtomIds -> AtomRow]
  BY DEF IInv, TypeOK
<1>1. d \in Docs /\ txn[w].run \in 1 .. runs /\ \A i \in live : i.run # txn[w].run
  BY DEF IInv, RunsAreFresh, CommitReplace
<1>2. /\ live' = (live \ txn[w].doomed) \cup Inserted(w)
      /\ row' = [i \in AtomIds |-> IF i \in Inserted(w) THEN Extracted(i) ELSE row[i]]
      /\ log' = log
  BY DEF CommitReplace
<1>3. \A i \in Inserted(w) : i.doc = d /\ i \notin live
  BY <1>1 DEF Inserted
<1>4. \A i \in txn[w].doomed : i.doc = d /\ i \in live /\ row[i].status = "provisional"
  BY DEF IInv, DoomedAreProvisional
<1>5. \A i \in AtomIds :
         \/ StateOf'[i] = StateOf[i]
         \/ i.doc = d /\ {StateOf[i], StateOf'[i]} = {"absent", "provisional"}
  <2> SUFFICES ASSUME NEW i \in AtomIds
               PROVE  \/ StateOf'[i] = StateOf[i]
                      \/ i.doc = d /\ {StateOf[i], StateOf'[i]} = {"absent", "provisional"}
    OBVIOUS
  <2>1. CASE i \in Inserted(w)
    BY <1>2, <1>3, <2>1 DEF StateOf, Extracted
  <2>2. CASE i \in txn[w].doomed
    BY <1>2, <1>3, <1>4, <2>2 DEF StateOf
  <2>3. CASE i \notin Inserted(w) /\ i \notin txn[w].doomed
    BY <1>2, <2>3 DEF StateOf
  <2> QED
    BY <2>1, <2>2, <2>3
<1>6. StateOf' \in [AtomIds -> Ledger!States]
  <2>1. \A i \in AtomIds : StateOf[i] \in Ledger!States
    BY <1>0 DEF StateOf, AtomRow, Statuses, Ledger!States, Ledger!Decided
  <2>2. \A i \in AtomIds : StateOf'[i] \in Ledger!States
    <3> SUFFICES ASSUME NEW i \in AtomIds PROVE StateOf'[i] \in Ledger!States
      OBVIOUS
    <3>1. CASE StateOf'[i] = StateOf[i]
      BY <2>1, <3>1
    <3>2. CASE {StateOf[i], StateOf'[i]} = {"absent", "provisional"}
      BY <3>2 DEF Ledger!States
    <3> QED
      BY <1>5, <3>1, <3>2
  <2> QED
    BY <2>2 DEF StateOf
<1>7. LedgerOf' = LedgerOf
  BY <1>2 DEF LedgerOf
<1> QED
  BY <1>1, <1>5, <1>6, <1>7 DEF Ledger!Next, Ledger!Replace, StateOf, LedgerOf

\* Replacement and review, with their locks, snapshots and stale sessions,
\* implement the ledger: decided atoms stay, decisions are kept, and the machine's
\* atoms of a document change in one step.
THEOREM ImplementsLedger == Spec => Implements
<1>1. Init => Ledger!Init
  BY DEF Init, Ledger!Init
<1>2. IInv /\ IInv' /\ [Next]_vars => [Ledger!Next]_(Ledger!vars)
  <2> SUFFICES ASSUME IInv, IInv', [Next]_vars PROVE [Ledger!Next]_(Ledger!vars)
    OBVIOUS
  <2>1. ASSUME UNCHANGED <<live, row, log>> PROVE UNCHANGED Ledger!vars
    BY <2>1 DEF Ledger!vars
  <2>2. ASSUME NEW w \in Workers, CommitReplace(w) PROVE Ledger!Next
    BY <2>2, ReplaceStep
  <2>3. ASSUME NEW o \in Operators, CommitDecision(o) PROVE Ledger!Next
    BY <2>3, DecisionStep
  <2> QED
    BY <2>1, <2>2, <2>3
       DEF Next, vars, WorkerStep, OperatorStep, BeginReplace, DeleteProvisional,
           SurveySurvivors, RollbackReplace, LoadAtom, RejectDecision
<1> QED
  BY <1>1, <1>2, IInvAlways, PTL DEF Spec, Implements, Ledger!Spec
-----------------------------------------------------------------------------
(* Decisions that do not overlap on an atom *)

\* No two requests decide the same atom at the same time.
OneDecisionPerAtom ==
    \A o, p \in Operators : o # p /\ req[o].open /\ req[p].open => req[o].atom # req[p].atom

\* What a request loaded is what the row still is, and its atom is not one
\* that a replacement has yet to insert.
LoadedIsCurrent ==
    \A o \in Operators : req[o].open =>
        /\ req[o].loaded = row[req[o].atom]
        /\ req[o].atom.run <= runs
        /\ \A w \in Workers : txn[w].pc # "idle" => req[o].atom.run # txn[w].run

\* Entry n is the last one about atom i.
IsLast(entries, i, n) ==
    entries[n].atom = i /\ \A m \in 1 .. Len(entries) : entries[m].atom = i => m <= n

\* LogExplainsAtoms with the entry named, so that a step need not look for it.
Explained ==
    \A i \in live : row[i].status # "provisional" =>
        \E n \in 1 .. Len(log) :
            IsLast(log, i, n) /\ row[i].status = WantedStatus(log[n]) /\ row[i].hash = log[n].hash

DInv == LoadedIsCurrent /\ Explained /\ EmbeddingIsOfText

\* The last entry is the one that is named.
LEMMA LastEntryIs ==
    ASSUME log \in Seq(Entry), NEW i, NEW n \in 1 .. Len(log), IsLast(log, i, n)
    PROVE  LastEntry(i) = log[n]
<1> DEFINE ns == {k \in 1 .. Len(log) : log[k].atom = i}
<1>1. n \in ns /\ \A m \in ns : m <= n
  BY DEF IsLast
<1>2. (CHOOSE k \in ns : \A m \in ns : m <= k) = n
  <2>1. PICK k \in ns : k = (CHOOSE x \in ns : \A m \in ns : m <= x) /\ \A m \in ns : m <= k
    BY <1>1
  <2>2. Len(log) \in Nat
    OBVIOUS
  <2>3. k <= n /\ n <= k /\ k \in Nat /\ n \in Nat
    BY <1>1, <2>1, <2>2
  <2> QED
    BY <2>1, <2>3
<1> QED
  BY <1>2 DEF LastEntry

\* Entries that were logged before are still there, and still last unless the
\* new one is about the same atom.
LEMMA LogGrows ==
    ASSUME log \in Seq(Entry), NEW e \in Entry, log' = Append(log, e)
    PROVE  /\ Len(log') = Len(log) + 1
           /\ Len(log) \in Nat
           /\ log'[Len(log) + 1] = e
           /\ \A n \in 1 .. Len(log) : log'[n] = log[n]
           /\ IsLast(log', e.atom, Len(log) + 1)
           /\ \A i, n : n \in 1 .. Len(log) /\ i # e.atom /\ IsLast(log, i, n) => IsLast(log', i, n)
<1>1. /\ Len(log') = Len(log) + 1
      /\ Len(log) \in Nat
      /\ log'[Len(log) + 1] = e
      /\ \A n \in 1 .. Len(log) : log'[n] = log[n]
  OBVIOUS
<1>2. IsLast(log', e.atom, Len(log) + 1)
  BY <1>1 DEF IsLast
<1>3. ASSUME NEW i, NEW n \in 1 .. Len(log), i # e.atom, IsLast(log, i, n)
      PROVE  IsLast(log', i, n)
  BY <1>1, <1>3 DEF IsLast
<1> QED
  BY <1>1, <1>2, <1>3

\* The rows of a replacement are new: no row, no request and no entry names one.
LEMMA InsertedAreNew ==
    ASSUME IInv, NEW w \in Workers, CommitReplace(w)
    PROVE  /\ Inserted(w) \subseteq AtomIds
           /\ \A i \in Inserted(w) : i.run = txn[w].run /\ i.doc = txn[w].doc /\ i \notin live
           /\ \A i \in live : row'[i] = row[i]
           /\ \A i \in Inserted(w) : row'[i] = Extracted(i)
           /\ live' = (live \ txn[w].doomed) \cup Inserted(w)
<1>1. /\ txn[w].pc = "insert"
      /\ live' = (live \ txn[w].doomed) \cup Inserted(w)
      /\ row' = [i \in AtomIds |-> IF i \in Inserted(w) THEN Extracted(i) ELSE row[i]]
  BY DEF CommitReplace
<1>2. /\ live \subseteq AtomIds /\ row \in [AtomIds -> AtomRow] /\ txn[w] \in Txn
      /\ runs \in 0 .. MaxRuns
  BY DEF IInv, TypeOK
<1>3. txn[w].doc \in Docs /\ txn[w].run \in 1 .. runs /\ \A i \in live : i.run # txn[w].run
  BY <1>1 DEF IInv, RunsAreFresh
<1>4. txn[w].fresh \subseteq Hashes /\ txn[w].run \in 1 .. MaxRuns
  BY <1>2, <1>3, BoundsAssumption DEF Txn
<1>5. \A i \in Inserted(w) : i.run = txn[w].run /\ i.doc = txn[w].doc
  BY DEF Inserted
<1>6. Inserted(w) \subseteq AtomIds
  BY <1>3, <1>4 DEF Inserted, AtomIds
<1> QED
  BY <1>1, <1>2, <1>3, <1>5, <1>6

\* A row is inserted unreviewed, with the wording it was extracted with and its embedding.
LEMMA InsertedRow ==
    \A i : /\ Extracted(i).status = "provisional"
           /\ Extracted(i).hash = i.born
           /\ Extracted(i).vector = i.born
BY DEF Extracted

LEMMA DInvStep == IInv /\ IInv' /\ OneDecisionPerAtom /\ DInv /\ [Next]_vars => DInv'
<1> SUFFICES ASSUME IInv, IInv', OneDecisionPerAtom, DInv, [Next]_vars PROVE DInv'
  OBVIOUS
<1> USE BoundsAssumption
<1>0. /\ live \subseteq AtomIds /\ row \in [AtomIds -> AtomRow] /\ runs \in 0 .. MaxRuns
      /\ txn \in [Workers -> Txn] /\ req \in [Operators -> Req \cup {Idle}] /\ log \in Seq(Entry)
      /\ LoadedIsCurrent /\ Explained /\ EmbeddingIsOfText
      /\ \A i \in AtomIds : i.run \in Nat
  BY DEF IInv, TypeOK, DInv, AtomIds
<1>00. \A o \in Operators : req[o].open =>
          req[o] \in Req /\ req[o].atom \in AtomIds /\ req[o].atom.run \in Nat
  <2> SUFFICES ASSUME NEW o \in Operators, req[o].open
               PROVE  req[o] \in Req /\ req[o].atom \in AtomIds /\ req[o].atom.run \in Nat
    OBVIOUS
  <2>1. req[o] # Idle
    BY DEF Idle
  <2>2. req[o] \in Req
    BY <1>0, <2>1
  <2>3. req[o].atom \in AtomIds
    BY <2>2 DEF Req
  <2> QED
    BY <1>0, <2>2, <2>3
<1>1. ASSUME NEW w \in Workers, NEW d \in Docs, NEW extracted \in SUBSET Hashes,
             BeginReplace(w, d, extracted)
      PROVE  DInv'
  <2>1. /\ runs' = runs + 1 /\ UNCHANGED <<live, row, req, log>>
        /\ \A v \in Workers \ {w} : txn'[v] = txn[v]
        /\ txn'[w].run = runs + 1
    BY <1>0, <1>1 DEF BeginReplace
  <2>2. LoadedIsCurrent'
    <3> SUFFICES ASSUME NEW o \in Operators, req[o].open
                 PROVE  /\ req[o].atom.run <= runs'
                        /\ \A v \in Workers : txn'[v].pc # "idle" => req[o].atom.run # txn'[v].run
      BY <1>0, <2>1 DEF LoadedIsCurrent
    <3>1. req[o].atom.run \in Nat /\ req[o].atom.run <= runs /\ runs \in Nat
      BY <1>0, <1>00 DEF LoadedIsCurrent
    <3> QED
      BY <1>0, <2>1, <3>1 DEF LoadedIsCurrent
  <2> QED
    BY <1>0, <2>1, <2>2 DEF DInv, Explained, IsLast, EmbeddingIsOfText
<1>2. ASSUME UNCHANGED <<live, row, runs, req, log>>, NEW w \in Workers,
             \A v \in Workers \ {w} : txn'[v] = txn[v],
             txn[w].pc # "idle", txn'[w].pc = "idle" \/ txn'[w].run = txn[w].run
      PROVE  DInv'
  BY <1>0, <1>2 DEF DInv, LoadedIsCurrent, Explained, IsLast, EmbeddingIsOfText
<1>3. ASSUME NEW w \in Workers, CommitReplace(w) PROVE DInv'
  <2>1. /\ \A i \in Inserted(w) : i.run = txn[w].run
        /\ \A i \in live : row'[i] = row[i]
        /\ \A i \in Inserted(w) : row'[i] = Extracted(i)
        /\ live' = (live \ txn[w].doomed) \cup Inserted(w)
    BY <1>3, InsertedAreNew
  <2>2. /\ row' = [i \in AtomIds |-> IF i \in Inserted(w) THEN Extracted(i) ELSE row[i]]
        /\ txn' = [txn EXCEPT ![w] = IdleTxn] /\ UNCHANGED <<runs, req, log>>
        /\ txn[w].pc = "insert"
    BY <1>3 DEF CommitReplace
  <2>3. LoadedIsCurrent'
    <3> SUFFICES ASSUME NEW o \in Operators, req[o].open
                 PROVE  /\ req[o].loaded = row'[req[o].atom]
                        /\ req[o].atom.run <= runs
                        /\ \A v \in Workers : txn'[v].pc # "idle" => req[o].atom.run # txn'[v].run
      BY <2>2 DEF LoadedIsCurrent
    <3>1. req[o].atom \in AtomIds
      BY <1>00
    <3>2. req[o].atom \notin Inserted(w)
      BY <1>0, <2>1, <2>2 DEF LoadedIsCurrent
    <3> QED
      BY <1>0, <2>2, <3>1, <3>2 DEF LoadedIsCurrent, IdleTxn
  <2>4. \A i \in Inserted(w) : row'[i].status = "provisional" /\ row'[i].vector = row'[i].hash
    BY <2>1, InsertedRow
  <2>5. Explained'
    <3> SUFFICES ASSUME NEW i \in live', row'[i].status # "provisional"
                 PROVE  \E n \in 1 .. Len(log) :
                           /\ IsLast(log, i, n)
                           /\ row'[i].status = WantedStatus(log[n])
                           /\ row'[i].hash = log[n].hash
      BY <2>2 DEF Explained
    <3>1. i \in live /\ row'[i] = row[i]
      BY <2>1, <2>4
    <3> QED
      BY <1>0, <3>1 DEF Explained
  <2>6. EmbeddingIsOfText'
    BY <1>0, <2>1, <2>4 DEF EmbeddingIsOfText
  <2> QED
    BY <2>3, <2>5, <2>6 DEF DInv
<1>4. ASSUME NEW o \in Operators, NEW i \in live, NEW body \in Bodies, LoadAtom(o, i, body)
      PROVE  DInv'
  <2>1. /\ req' = [req EXCEPT ![o] = [open |-> TRUE, atom |-> i, body |-> body, loaded |-> row[i]]]
        /\ UNCHANGED <<live, row, runs, txn, log>>
    BY <1>4 DEF LoadAtom
  <2>2. i.run <= runs /\ \A w \in Workers : txn[w].pc # "idle" => i.run # txn[w].run
    BY DEF IInv, RunsAreFresh
  <2>3. LoadedIsCurrent'
    BY <1>0, <2>1, <2>2 DEF LoadedIsCurrent
  <2> QED
    BY <1>0, <2>1, <2>3 DEF DInv, Explained, IsLast, EmbeddingIsOfText
<1>5. ASSUME NEW o \in Operators, CommitDecision(o) PROVE DInv'
  <2> DEFINE r == req[o]
             e == [atom |-> r.atom, hash |-> WantedHash(r), kind |-> r.body.kind]
  <2>1. /\ row' = IF EmitsUpdate(r) THEN [row EXCEPT ![r.atom] = Updated(r, @)] ELSE row
        /\ log' = Append(log, e)
        /\ req' = [req EXCEPT ![o] = Idle]
        /\ UNCHANGED <<live, runs, txn>>
        /\ r.open
    BY <1>5 DEF CommitDecision
  <2>2. r \in Req /\ r.loaded = row[r.atom]
    BY <1>0, <2>1 DEF Idle, LoadedIsCurrent
  <2>3. r.atom \in AtomIds /\ r.loaded \in AtomRow /\ WantedHash(r) \in Hashes /\ e \in Entry
        /\ e.atom = r.atom /\ e.hash = WantedHash(r) /\ e.kind = r.body.kind
        /\ WantedStatus(e) = WantedStatus(r.body)
    <3>1. r.loaded \in AtomRow
      BY <2>2 DEF Req
    <3> QED
      BY <2>2, <3>1, UpdatedRow DEF Entry, WantedStatus
  <2>4. /\ row'[r.atom].status = WantedStatus(r.body)
        /\ row'[r.atom].hash = WantedHash(r)
        /\ row[r.atom].vector = row[r.atom].hash => row'[r.atom].vector = row'[r.atom].hash
    <3>1. row[r.atom] \in AtomRow
      BY <1>0, <2>3
    <3>2. CASE EmitsUpdate(r)
      <4>1. row'[r.atom] = Updated(r, row[r.atom])
        BY <1>0, <2>1, <2>3, <3>2
      <4> HIDE DEF r
      <4> QED
        BY <2>2, <4>1 DEF Updated, Flushed, WantedHash
    <3>3. CASE ~EmitsUpdate(r)
      <4>1. row' = row
        BY <2>1, <3>3
      <4> HIDE DEF r
      <4> QED
        BY <2>2, <3>3, <4>1 DEF EmitsUpdate, WantedHash
    <3> QED
      BY <3>2, <3>3
  <2>5. \A i \in AtomIds \ {r.atom} : row'[i] = row[i]
    BY <1>0, <2>1
  <2>6. /\ Len(log') = Len(log) + 1 /\ Len(log) \in Nat
        /\ log'[Len(log) + 1] = e
        /\ \A n \in 1 .. Len(log) : log'[n] = log[n]
        /\ IsLast(log', r.atom, Len(log) + 1)
        /\ \A i, n : n \in 1 .. Len(log) /\ i # r.atom /\ IsLast(log, i, n) => IsLast(log', i, n)
    <3> HIDE DEF e
    <3> QED
      BY <1>0, <2>1, <2>3, LogGrows
  <2>7. LoadedIsCurrent'
    <3> SUFFICES ASSUME NEW p \in Operators \ {o}, req[p].open
                 PROVE  /\ req[p].loaded = row'[req[p].atom]
                        /\ req[p].atom.run <= runs
                        /\ \A v \in Workers : txn[v].pc # "idle" => req[p].atom.run # txn[v].run
      BY <1>0, <2>1 DEF LoadedIsCurrent, Idle
    <3>1. req[p].atom \in AtomIds \ {r.atom}
      BY <1>00, <2>1 DEF OneDecisionPerAtom
    <3> QED
      BY <1>0, <2>5, <3>1 DEF LoadedIsCurrent
  <2>8. Explained'
    <3> SUFFICES ASSUME NEW i \in live, row'[i].status # "provisional"
                 PROVE  \E n \in 1 .. Len(log') :
                           /\ IsLast(log', i, n)
                           /\ row'[i].status = WantedStatus(log'[n])
                           /\ row'[i].hash = log'[n].hash
      BY <2>1 DEF Explained
    <3>1. CASE i = r.atom
      BY <2>3, <2>4, <2>6, <3>1
    <3>2. CASE i # r.atom
      <4>1. row'[i] = row[i]
        BY <1>0, <2>5, <3>2
      <4>2. PICK n \in 1 .. Len(log) : /\ IsLast(log, i, n)
                                       /\ row[i].status = WantedStatus(log[n])
                                       /\ row[i].hash = log[n].hash
        BY <1>0, <4>1 DEF Explained
      <4>3. IsLast(log', i, n) /\ log'[n] = log[n] /\ n \in 1 .. Len(log')
        BY <2>6, <3>2, <4>2
      <4> QED
        BY <4>1, <4>2, <4>3
    <3> QED
      BY <3>1, <3>2
  <2>9. EmbeddingIsOfText'
    BY <1>0, <2>1, <2>4, <2>5 DEF EmbeddingIsOfText
  <2> QED
    BY <2>7, <2>8, <2>9 DEF DInv
<1>6. ASSUME NEW o \in Operators, RejectDecision(o) PROVE DInv'
  BY <1>0, <1>6 DEF RejectDecision, DInv, LoadedIsCurrent, Explained, IsLast, EmbeddingIsOfText, Idle
<1>7. CASE UNCHANGED vars
  BY <1>0, <1>7 DEF vars, DInv, LoadedIsCurrent, Explained, IsLast, EmbeddingIsOfText
<1>8. ASSUME NEW w \in Workers, DeleteProvisional(w) \/ SurveySurvivors(w) \/ RollbackReplace(w)
      PROVE  DInv'
  <2>1. /\ UNCHANGED <<live, row, runs, req, log>>
        /\ \A v \in Workers \ {w} : txn'[v] = txn[v]
        /\ txn[w].pc # "idle"
    BY <1>0, <1>8 DEF DeleteProvisional, SurveySurvivors, RollbackReplace
  <2>2. txn'[w].pc = "idle" \/ txn'[w].run = txn[w].run
    <3>1. txn[w] \in Txn
      BY <1>0
    <3>2. CASE RollbackReplace(w)
      BY <1>0, <3>2 DEF RollbackReplace, IdleTxn
    <3>3. CASE DeleteProvisional(w)
      BY <1>0, <3>1, <3>3 DEF DeleteProvisional, Txn
    <3>4. CASE SurveySurvivors(w)
      BY <1>0, <3>1, <3>4 DEF SurveySurvivors, Txn
    <3> QED
      BY <1>8, <3>2, <3>3, <3>4
  <2> QED
    BY <1>2, <2>1, <2>2
<1> QED
  BY <1>1, <1>3, <1>4, <1>5, <1>6, <1>7, <1>8 DEF Next, WorkerStep, OperatorStep

\* As long as no two decisions about one atom overlap, whatever overlaps with
\* reprocessing, the log explains every reviewed atom and every embedding is that of
\* its text.
LEMMA DInvAlways == Spec /\ []OneDecisionPerAtom => []DInv
<1>1. Init => DInv
  BY DEF Init, DInv, LoadedIsCurrent, Explained, EmbeddingIsOfText, Idle
<1>2. IInv /\ IInv' /\ OneDecisionPerAtom /\ DInv /\ [Next]_vars => DInv'
  BY DInvStep
<1> QED
  BY <1>1, <1>2, IInvAlways, PTL DEF Spec

LEMMA ExplainedByLast == IInv /\ DInv => LogExplainsAtoms
<1> SUFFICES ASSUME IInv, DInv, NEW i \in live, row[i].status # "provisional"
             PROVE  /\ \E n \in 1 .. Len(log) : log[n].atom = i
                    /\ row[i].status = WantedStatus(LastEntry(i))
                    /\ row[i].hash = LastEntry(i).hash
  BY DEF LogExplainsAtoms
<1>1. PICK n \in 1 .. Len(log) : /\ IsLast(log, i, n)
                                 /\ row[i].status = WantedStatus(log[n])
                                 /\ row[i].hash = log[n].hash
  BY DEF DInv, Explained
<1>2. LastEntry(i) = log[n]
  BY <1>1, LastEntryIs DEF IInv, TypeOK
<1> QED
  BY <1>1, <1>2 DEF IsLast

\* The decisions log explains the table (api/decisions.py, decide) when no two
\* requests decide the same atom at once, for any number of operators.
THEOREM LogExplains == Spec /\ []OneDecisionPerAtom => []LogExplainsAtoms
<1>1. IInv /\ DInv => LogExplainsAtoms
  BY ExplainedByLast
<1> QED
  BY <1>1, IInvAlways, DInvAlways, PTL

\* Under the same condition a search ranks every atom by the text it returns.
THEOREM EmbeddingsFollowText == Spec /\ []OneDecisionPerAtom => []EmbeddingIsOfText
<1>1. DInv => EmbeddingIsOfText
  BY DEF DInv
<1> QED
  BY <1>1, DInvAlways, PTL

\* One operator at a time meets the condition: both properties hold outright.
THEOREM SingleOperator ==
    ASSUME \A o, p \in Operators : o = p
    PROVE  Spec => [](LogExplainsAtoms /\ EmbeddingIsOfText)
<1>1. OneDecisionPerAtom
  BY DEF OneDecisionPerAtom
<1> QED
  BY <1>1, LogExplains, EmbeddingsFollowText, PTL
-----------------------------------------------------------------------------
(* Replacements that do not overlap on a document *)

\* No two workers replace the atoms of the same document at the same time.
OneReplacementPerDoc ==
    \A v, w \in Workers :
        v # w /\ txn[v].pc # "idle" /\ txn[w].pc # "idle" => txn[v].doc # txn[w].doc

Provisional(d) == {i \in RowsOf(d) : row[i].status = "provisional"}

\* A replacement takes away every provisional atom of its document.
Sweeps ==
    \A w \in Workers :
        /\ txn[w].pc = "delete" => Provisional(txn[w].doc) \subseteq txn[w].targets
        /\ txn[w].pc \in {"survey", "insert"} => Provisional(txn[w].doc) \subseteq txn[w].doomed

HashIsAWording == \A i \in live : row[i].hash \in Wordings(i)

\* What it extracted and will not insert is a wording of a reviewed atom.
DroppedAreKept ==
    \A w \in Workers : txn[w].pc = "insert" =>
        \A h \in txn[w].extracted \ txn[w].fresh :
            \E i \in RowsOf(txn[w].doc) : row[i].status # "provisional" /\ h \in Wordings(i)

RInv == Sweeps /\ SingleGeneration /\ HashIsAWording /\ DroppedAreKept

\* Wordings are never forgotten, and a decision adds the one it logs.
LEMMA WordingsGrow ==
    ASSUME log \in Seq(Entry), NEW e \in Entry, log' = Append(log, e)
    PROVE  /\ \A i : Wordings(i) \subseteq Wordings(i)'
           /\ \A i : i = e.atom => e.hash \in Wordings(i)'
<1>1. /\ Len(log') = Len(log) + 1
      /\ Len(log) \in Nat
      /\ log'[Len(log) + 1] = e
      /\ \A n \in 1 .. Len(log) : log'[n] = log[n]
  BY LogGrows
<1>2. Len(log) + 1 \in 1 .. Len(log') /\ \A n \in 1 .. Len(log) : n \in 1 .. Len(log')
  BY <1>1
<1>3. ASSUME NEW i, NEW h \in Wordings(i) PROVE h \in Wordings(i)'
  <2>1. CASE h = i.born
    BY <2>1 DEF Wordings
  <2>2. CASE h # i.born
    <3>1. PICK n \in 1 .. Len(log) : log[n].atom = i /\ log[n].hash = h
      BY <1>3, <2>2 DEF Wordings
    <3> QED
      BY <1>1, <1>2, <3>1 DEF Wordings
  <2> QED
    BY <2>1, <2>2
<1>4. ASSUME NEW i, i = e.atom PROVE e.hash \in Wordings(i)'
  BY <1>1, <1>2, <1>4 DEF Wordings
<1> QED
  BY <1>3, <1>4

LEMMA RInvStep == IInv /\ IInv' /\ OneReplacementPerDoc /\ RInv /\ [Next]_vars => RInv'
<1> SUFFICES ASSUME IInv, IInv', OneReplacementPerDoc, RInv, [Next]_vars PROVE RInv'
  OBVIOUS
<1> USE BoundsAssumption
<1>0. /\ live \subseteq AtomIds /\ row \in [AtomIds -> AtomRow] /\ runs \in 0 .. MaxRuns
      /\ txn \in [Workers -> Txn] /\ req \in [Operators -> Req \cup {Idle}] /\ log \in Seq(Entry)
      /\ Sweeps /\ SingleGeneration /\ HashIsAWording /\ DroppedAreKept
  BY DEF IInv, TypeOK, RInv
<1>1. ASSUME NEW w \in Workers, UNCHANGED <<live, row, log>>,
             \A v \in Workers \ {w} : txn'[v] = txn[v],
             txn'[w].pc = "delete" => Provisional(txn'[w].doc) \subseteq txn'[w].targets,
             txn'[w].pc \in {"survey", "insert"} => Provisional(txn'[w].doc) \subseteq txn'[w].doomed,
             txn'[w].pc = "insert" =>
                 \A h \in txn'[w].extracted \ txn'[w].fresh :
                     \E i \in RowsOf(txn'[w].doc) : row[i].status # "provisional" /\ h \in Wordings(i)
      PROVE  RInv'
  <2>1. SingleGeneration' /\ HashIsAWording'
    BY <1>0, <1>1 DEF SingleGeneration, HashIsAWording, Wordings
  <2>2. Sweeps'
    BY <1>0, <1>1 DEF Sweeps, Provisional, RowsOf
  <2>3. DroppedAreKept'
    BY <1>0, <1>1 DEF DroppedAreKept, RowsOf, Wordings
  <2> QED
    BY <2>1, <2>2, <2>3 DEF RInv
<1>2. ASSUME NEW w \in Workers, NEW d \in Docs, NEW extracted \in SUBSET Hashes,
             BeginReplace(w, d, extracted)
      PROVE  RInv'
  <2>1. /\ txn'[w].pc = "delete" /\ txn'[w].doc = d /\ txn'[w].targets = Provisional(d)
        /\ \A v \in Workers \ {w} : txn'[v] = txn[v]
        /\ UNCHANGED <<live, row, log>>
    BY <1>0, <1>2 DEF BeginReplace, Provisional
  <2> QED
    BY <1>1, <2>1
<1>3. ASSUME NEW w \in Workers, DeleteProvisional(w) PROVE RInv'
  <2>1. txn[w] \in Txn /\ txn[w].pc = "delete"
    BY <1>0, <1>3 DEF DeleteProvisional
  <2>2. /\ txn'[w].pc = "survey" /\ txn'[w].doc = txn[w].doc
        /\ txn'[w].doomed = {i \in txn[w].targets \cap live : row[i].status = "provisional"}
        /\ \A v \in Workers \ {w} : txn'[v] = txn[v]
        /\ UNCHANGED <<live, row, log>>
    BY <1>0, <1>3, <2>1 DEF DeleteProvisional, Txn
  <2>3. Provisional(txn[w].doc) \subseteq txn[w].targets
    BY <1>0, <2>1 DEF Sweeps
  <2>4. Provisional(txn'[w].doc) \subseteq txn'[w].doomed
    BY <2>2, <2>3 DEF Provisional, RowsOf
  <2> QED
    BY <1>1, <2>2, <2>4
<1>4. ASSUME NEW w \in Workers, SurveySurvivors(w) PROVE RInv'
  <2> DEFINE surviving == {row[i].hash : i \in RowsOf(txn[w].doc) \ txn[w].doomed}
  <2>1. txn[w] \in Txn /\ txn[w].pc = "survey"
    BY <1>0, <1>4 DEF SurveySurvivors
  <2>2. /\ txn'[w].pc = "insert" /\ txn'[w].doc = txn[w].doc /\ txn'[w].doomed = txn[w].doomed
        /\ txn'[w].extracted = txn[w].extracted
        /\ txn'[w].fresh = txn[w].extracted \ surviving
        /\ \A v \in Workers \ {w} : txn'[v] = txn[v]
        /\ UNCHANGED <<live, row, log>>
    BY <1>0, <1>4, <2>1 DEF SurveySurvivors, Txn
  <2>3. Provisional(txn[w].doc) \subseteq txn[w].doomed
    BY <1>0, <2>1 DEF Sweeps
  <2>4. ASSUME NEW h \in txn'[w].extracted \ txn'[w].fresh
        PROVE  \E i \in RowsOf(txn'[w].doc) : row[i].status # "provisional" /\ h \in Wordings(i)
    <3>1. PICK i \in RowsOf(txn[w].doc) \ txn[w].doomed : row[i].hash = h
      BY <2>2
    <3>2. i \in live /\ row[i].status # "provisional"
      BY <2>3, <3>1 DEF Provisional, RowsOf
    <3>3. h \in Wordings(i)
      BY <1>0, <3>1, <3>2 DEF HashIsAWording
    <3> QED
      BY <2>2, <3>1, <3>2, <3>3
  <2> QED
    BY <1>1, <2>2, <2>3, <2>4
<1>5. ASSUME NEW w \in Workers, RollbackReplace(w) PROVE RInv'
  <2>1. /\ txn'[w].pc = "idle" /\ \A v \in Workers \ {w} : txn'[v] = txn[v]
        /\ UNCHANGED <<live, row, log>>
    BY <1>0, <1>5 DEF RollbackReplace, IdleTxn
  <2> QED
    BY <1>1, <2>1
<1>6. ASSUME NEW w \in Workers, CommitReplace(w) PROVE RInv'
  <2>1. /\ \A i \in Inserted(w) : i.run = txn[w].run /\ i.doc = txn[w].doc
        /\ \A i \in live : row'[i] = row[i]
        /\ \A i \in Inserted(w) : row'[i] = Extracted(i)
        /\ live' = (live \ txn[w].doomed) \cup Inserted(w)
    BY <1>6, InsertedAreNew
  <2>2. /\ txn[w].pc = "insert" /\ txn'[w].pc = "idle" /\ log' = log
        /\ \A v \in Workers \ {w} : txn'[v] = txn[v]
    BY <1>0, <1>6 DEF CommitReplace, IdleTxn
  <2>3. \A v \in Workers \ {w} : txn[v].pc # "idle" => txn[v].doc # txn[w].doc
    BY <2>2 DEF OneReplacementPerDoc
  <2>4. Provisional(txn[w].doc) \subseteq txn[w].doomed
    BY <1>0, <2>2 DEF Sweeps
  <2>5. \A i \in live : row[i].status # "provisional" => i \in live'
    BY <2>1 DEF IInv, DoomedAreProvisional
  <2>6. \A i \in live' : row'[i].status = "provisional" /\ i \notin Inserted(w) => 
                             i.doc # txn[w].doc /\ i \in live /\ row[i].status = "provisional"
    BY <2>1, <2>4 DEF Provisional, RowsOf
  <2>7. Sweeps'
    <3> SUFFICES ASSUME NEW v \in Workers \ {w}, txn[v].pc # "idle"
                 PROVE  Provisional(txn[v].doc)' \subseteq Provisional(txn[v].doc)
      BY <1>0, <2>2 DEF Sweeps
    <3>1. txn'[v].doc # txn[w].doc /\ txn'[v] = txn[v]
      BY <2>2, <2>3
    <3> QED
      BY <2>1, <2>6, <3>1 DEF Provisional, RowsOf
  <2>8. SingleGeneration'
    BY <1>0, <2>1, <2>6 DEF SingleGeneration
  <2>9. HashIsAWording'
    <3> SUFFICES ASSUME NEW i \in live' PROVE row'[i].hash \in Wordings(i)
      BY <2>2 DEF HashIsAWording, Wordings
    <3>1. CASE i \in Inserted(w)
      <4>1. row'[i].hash = i.born
        BY <2>1, <3>1, InsertedRow
      <4> QED
        BY <4>1 DEF Wordings
    <3>2. CASE i \in live
      BY <1>0, <2>1, <3>2 DEF HashIsAWording
    <3> QED
      BY <2>1, <3>1, <3>2
  <2>10. DroppedAreKept'
    <3> SUFFICES ASSUME NEW v \in Workers \ {w}, txn[v].pc = "insert",
                        NEW h \in txn[v].extracted \ txn[v].fresh
                 PROVE  \E i \in RowsOf(txn[v].doc)' : row'[i].status # "provisional" /\ h \in Wordings(i)'
      BY <2>2 DEF DroppedAreKept
    <3>1. PICK i \in RowsOf(txn[v].doc) : row[i].status # "provisional" /\ h \in Wordings(i)
      BY <1>0 DEF DroppedAreKept
    <3>2. i \in live' /\ i.doc = txn'[v].doc /\ row'[i].status # "provisional"
      BY <2>1, <2>2, <2>5, <3>1 DEF RowsOf
    <3>3. h \in Wordings(i)'
      BY <2>2, <3>1 DEF Wordings
    <3> QED
      BY <3>2, <3>3 DEF RowsOf
  <2> QED
    BY <2>7, <2>8, <2>9, <2>10 DEF RInv
<1>7. ASSUME NEW o \in Operators, CommitDecision(o) PROVE RInv'
  <2> DEFINE r == req[o]
             e == [atom |-> r.atom, hash |-> WantedHash(r), kind |-> r.body.kind]
  <2>1. /\ row' = IF EmitsUpdate(r) THEN [row EXCEPT ![r.atom] = Updated(r, @)] ELSE row
        /\ log' = Append(log, e)
        /\ UNCHANGED <<live, runs, txn>>
        /\ r.open
    BY <1>7 DEF CommitDecision
  <2>2. r \in Req
    BY <1>0, <2>1 DEF Idle
  <2>3. r.atom \in AtomIds /\ e \in Entry /\ e.atom = r.atom /\ e.hash = WantedHash(r)
    <3>1. r.loaded \in AtomRow
      BY <2>2 DEF Req
    <3> QED
      BY <2>2, <3>1, UpdatedRow DEF Entry
  <2>4. /\ \A i : Wordings(i) \subseteq Wordings(i)'
        /\ \A i : i = r.atom => WantedHash(r) \in Wordings(i)'
    <3>1. \A i : i = e.atom => e.hash \in Wordings(i)'
      <4> HIDE DEF e
      <4> QED
        BY <1>0, <2>1, <2>3, WordingsGrow
    <3>2. \A i : Wordings(i) \subseteq Wordings(i)'
      <4> HIDE DEF e
      <4> QED
        BY <1>0, <2>1, <2>3, WordingsGrow
    <3> QED
      BY <2>3, <3>1, <3>2
  <2>5. \A i \in AtomIds \ {r.atom} : row'[i] = row[i]
    BY <1>0, <2>1
  <2>6. r.atom \in live /\ row'[r.atom].status # "provisional"
    <3>1. Len(log') = Len(log) + 1 /\ Len(log) \in Nat /\ log'[Len(log) + 1] = e
      <4> HIDE DEF e
      <4> QED
        BY <1>0, <2>1, <2>3, LogGrows
    <3>2. Len(log) + 1 \in 1 .. Len(log')
      BY <3>1
    <3> QED
      BY <2>1, <2>3, <3>1, <3>2 DEF IInv, DecisionsKeepTheirAtom
  <2>7. row'[r.atom].hash \in {row[r.atom].hash, WantedHash(r)}
    BY <1>0, <2>1, <2>3 DEF Updated, Flushed
  <2>8. \A i \in live : row'[i].status = "provisional" => row[i].status = "provisional"
    BY <1>0, <2>5, <2>6
  <2>9. \A i \in live : row[i].status # "provisional" => row'[i].status # "provisional"
    BY <2>8
  <2>10. Sweeps' /\ SingleGeneration'
    BY <1>0, <2>1, <2>8 DEF Sweeps, Provisional, RowsOf, SingleGeneration
  <2>11. HashIsAWording'
    <3> SUFFICES ASSUME NEW i \in live PROVE row'[i].hash \in Wordings(i)'
      BY <2>1 DEF HashIsAWording
    <3>1. row[i].hash \in Wordings(i)'
      BY <1>0, <2>4 DEF HashIsAWording
    <3>2. CASE i = r.atom
      BY <2>4, <2>7, <3>1, <3>2
    <3>3. CASE i # r.atom
      BY <1>0, <2>5, <3>1, <3>3
    <3> QED
      BY <3>2, <3>3
  <2>12. DroppedAreKept'
    BY <1>0, <2>1, <2>4, <2>9 DEF DroppedAreKept, RowsOf
  <2> QED
    BY <2>10, <2>11, <2>12 DEF RInv
<1>8. ASSUME UNCHANGED <<live, row, txn, log>> PROVE RInv'
  BY <1>0, <1>8 DEF RInv, Sweeps, Provisional, RowsOf, SingleGeneration, HashIsAWording,
                    DroppedAreKept, Wordings
<1> QED
  BY <1>2, <1>3, <1>4, <1>5, <1>6, <1>7, <1>8
     DEF Next, vars, WorkerStep, OperatorStep, LoadAtom, RejectDecision

LEMMA RInvAlways == Spec /\ []OneReplacementPerDoc => []RInv
<1>1. Init => RInv
  BY DEF Init, RInv, Sweeps, SingleGeneration, HashIsAWording, DroppedAreKept, IdleTxn
<1>2. IInv /\ IInv' /\ OneReplacementPerDoc /\ RInv /\ [Next]_vars => RInv'
  BY RInvStep
<1> QED
  BY <1>1, <1>2, IInvAlways, PTL DEF Spec

\* Replacement is atomic (pipeline/runner.py, run_atomise_and_embed): as long as no
\* two workers are on one document, its provisional atoms are of one processing.
THEOREM OneGeneration == Spec /\ []OneReplacementPerDoc => []SingleGeneration
<1>1. RInv => SingleGeneration
  BY DEF RInv
<1> QED
  BY <1>1, RInvAlways, PTL

\* Under the same condition a commit leaves every extracted statement in the document,
\* as an atom of its own or as a wording of a reviewed one, however the decisions of
\* any number of operators fell between its steps.
THEOREM ExtractedKept == Spec /\ []OneReplacementPerDoc => NothingExtractedIsLost
<1> DEFINE Kept == \A w \in Workers :
               CommitReplace(w) =>
                   \A h \in txn[w].extracted :
                       \E i \in live' : i.doc = txn[w].doc /\ (row'[i].hash = h \/ h \in Wordings(i))
<1>1. IInv /\ RInv /\ [Next]_vars => [Kept]_vars
  <2> SUFFICES ASSUME IInv, RInv, NEW w \in Workers, CommitReplace(w), NEW h \in txn[w].extracted
               PROVE  \E i \in live' : i.doc = txn[w].doc /\ (row'[i].hash = h \/ h \in Wordings(i))
    OBVIOUS
  <2>1. /\ \A i \in Inserted(w) : row'[i] = Extracted(i)
        /\ live' = (live \ txn[w].doomed) \cup Inserted(w)
    BY InsertedAreNew
  <2>2. CASE h \in txn[w].fresh
    <3> DEFINE i == [doc |-> txn[w].doc, run |-> txn[w].run, born |-> h]
    <3>1. i \in Inserted(w) /\ i.doc = txn[w].doc
      BY <2>2 DEF Inserted
    <3>2. row'[i].hash = i.born
      <4> HIDE DEF i
      <4> QED
        BY <2>1, <3>1, InsertedRow
    <3> QED
      BY <2>1, <3>1, <3>2
  <2>3. CASE h \notin txn[w].fresh
    <3>1. PICK i \in RowsOf(txn[w].doc) : row[i].status # "provisional" /\ h \in Wordings(i)
      BY <2>3 DEF RInv, DroppedAreKept, CommitReplace
    <3>2. i \in live' /\ i.doc = txn[w].doc
      BY <2>1, <3>1 DEF IInv, DoomedAreProvisional, RowsOf
    <3> QED
      BY <3>1, <3>2
  <2> QED
    BY <2>2, <2>3
<1> QED
  BY <1>1, IInvAlways, RInvAlways, PTL DEF Spec, NothingExtractedIsLost

-----------------------------------------------------------------------------
(* Collisions *)

\* Only a replacement that has read the surviving hashes inserts anything, and
\* what it saw of the log is a part of it.
SurveyedFirst ==
    \A w \in Workers :
        /\ txn[w].pc # "insert" => txn[w].fresh = {}
        /\ txn[w].seen <= Len(log)

CInv == SurveyedFirst /\ CollisionsAreOverrides

\* An override explains the hash it writes: it is the entry logged with it.
LEMMA CInvDecision ==
    ASSUME IInv, CInv, NEW o \in Operators, CommitDecision(o)
    PROVE  CInv'
<1> DEFINE r == req[o]
           e == [atom |-> r.atom, hash |-> WantedHash(r), kind |-> r.body.kind]
<1>0. /\ live \subseteq AtomIds /\ row \in [AtomIds -> AtomRow] /\ txn \in [Workers -> Txn]
      /\ req \in [Operators -> Req \cup {Idle}] /\ log \in Seq(Entry)
      /\ SurveyedFirst /\ CollisionsAreOverrides
  BY DEF IInv, TypeOK, CInv
<1>1. /\ row' = IF EmitsUpdate(r) THEN [row EXCEPT ![r.atom] = Updated(r, @)] ELSE row
      /\ log' = Append(log, e)
      /\ UNCHANGED <<live, runs, txn>>
      /\ r.open
  BY DEF CommitDecision
<1>2. r \in Req
  BY <1>0, <1>1 DEF Idle
<1>3. r.atom \in AtomIds /\ e \in Entry /\ r.body \in Bodies
  <2>1. r.loaded \in AtomRow /\ r.body \in Bodies
    BY <1>2 DEF Req
  <2> QED
    BY <1>2, <2>1, UpdatedRow DEF Entry
<1>4. /\ Len(log') = Len(log) + 1 /\ Len(log) \in Nat
      /\ log'[Len(log) + 1] = e
      /\ \A n \in 1 .. Len(log) : log'[n] = log[n]
  <2> HIDE DEF e
  <2> QED
    BY <1>0, <1>1, <1>3, LogGrows
<1>5. \A w \in Workers : txn'[w] = txn[w] /\ txn[w].seen \in Nat
  BY <1>0, <1>1 DEF Txn
<1>6. SurveyedFirst'
  BY <1>0, <1>1, <1>4, <1>5 DEF SurveyedFirst
<1>7. CollisionsAreOverrides'
  <2> SUFFICES ASSUME NEW w \in Workers, NEW i \in Colliding(w)'
               PROVE  \E n \in (txn'[w].seen + 1) .. Len(log') :
                         log'[n].atom = i /\ log'[n].kind = "override" /\ log'[n].hash = row'[i].hash
    BY DEF CollisionsAreOverrides
  <2>1. i \in live /\ i.doc = txn[w].doc /\ i \notin txn[w].doomed /\ row'[i].hash \in txn[w].fresh
    BY <1>1 DEF Colliding, RowsOf
  <2>2. CASE row'[i].hash = row[i].hash
    <3>1. i \in Colliding(w)
      BY <2>1, <2>2 DEF Colliding, RowsOf
    <3>2. PICK n \in (txn[w].seen + 1) .. Len(log) :
              log[n].atom = i /\ log[n].kind = "override" /\ log[n].hash = row[i].hash
      BY <1>0, <3>1 DEF CollisionsAreOverrides
    <3>3. n \in 1 .. Len(log) /\ n \in (txn[w].seen + 1) .. Len(log')
      BY <1>4, <1>5, <3>2
    <3> QED
      BY <1>4, <1>5, <2>2, <3>2, <3>3
  <2>3. CASE row'[i].hash # row[i].hash
    <3>1. i = r.atom /\ EmitsUpdate(r) /\ row'[i] = Updated(r, row[i])
      BY <1>0, <1>1, <1>3, <2>1, <2>3
    <3>2. row'[i].hash = WantedHash(r) /\ WantedHash(r) # r.loaded.hash
      BY <2>3, <3>1 DEF Updated, Flushed
    <3>3. r.body.text # NoText
      BY <3>2 DEF WantedHash
    <3>4. r.body.kind = "override"
      BY <1>3, <3>3 DEF Bodies
    <3>5. Len(log) + 1 \in (txn[w].seen + 1) .. Len(log')
      BY <1>0, <1>4, <1>5 DEF SurveyedFirst
    <3> QED
      BY <1>4, <1>5, <3>1, <3>2, <3>4, <3>5
  <2> QED
    BY <2>2, <2>3
<1> QED
  BY <1>6, <1>7 DEF CInv

LEMMA CInvStep == IInv /\ OneReplacementPerDoc /\ CInv /\ [Next]_vars => CInv'
<1> SUFFICES ASSUME IInv, OneReplacementPerDoc, CInv, [Next]_vars PROVE CInv'
  OBVIOUS
<1>0. /\ live \subseteq AtomIds /\ row \in [AtomIds -> AtomRow] /\ txn \in [Workers -> Txn]
      /\ log \in Seq(Entry) /\ Len(log) \in Nat
      /\ SurveyedFirst /\ CollisionsAreOverrides
  BY DEF IInv, TypeOK, CInv
<1>1. ASSUME NEW w \in Workers, UNCHANGED <<live, row, log>>,
             \A v \in Workers \ {w} : txn'[v] = txn[v],
             txn'[w].pc # "insert" => txn'[w].fresh = {}, txn'[w].seen <= Len(log),
             Colliding(w)' = {}
      PROVE  CInv'
  <2>1. SurveyedFirst'
    BY <1>0, <1>1 DEF SurveyedFirst
  <2>2. CollisionsAreOverrides'
    <3> SUFFICES ASSUME NEW v \in Workers, NEW i \in Colliding(v)'
                 PROVE  \E n \in (txn'[v].seen + 1) .. Len(log') :
                           log'[n].atom = i /\ log'[n].kind = "override" /\ log'[n].hash = row'[i].hash
      BY DEF CollisionsAreOverrides
    <3>1. v # w
      BY <1>1
    <3>2. i \in Colliding(v) /\ txn'[v] = txn[v]
      BY <1>1, <3>1 DEF Colliding, RowsOf
    <3> QED
      BY <1>0, <1>1, <3>2 DEF CollisionsAreOverrides
  <2> QED
    BY <2>1, <2>2 DEF CInv
<1>2. ASSUME NEW w \in Workers, NEW d \in Docs, NEW extracted \in SUBSET Hashes,
             BeginReplace(w, d, extracted)
      PROVE  CInv'
  <2>1. /\ txn'[w].pc = "delete" /\ txn'[w].fresh = {} /\ txn'[w].seen = 0
        /\ \A v \in Workers \ {w} : txn'[v] = txn[v]
        /\ UNCHANGED <<live, row, log>>
    BY <1>0, <1>2 DEF BeginReplace
  <2>2. Colliding(w)' = {}
    BY <2>1 DEF Colliding
  <2> QED
    BY <1>0, <1>1, <2>1, <2>2
<1>3. ASSUME NEW w \in Workers, DeleteProvisional(w) PROVE CInv'
  <2>1. txn[w] \in Txn /\ txn[w].pc = "delete"
    BY <1>0, <1>3 DEF DeleteProvisional
  <2>2. /\ txn'[w].pc = "survey" /\ txn'[w].fresh = txn[w].fresh /\ txn'[w].seen = txn[w].seen
        /\ \A v \in Workers \ {w} : txn'[v] = txn[v]
        /\ UNCHANGED <<live, row, log>>
    BY <1>0, <1>3, <2>1 DEF DeleteProvisional, Txn
  <2>3. txn[w].fresh = {} /\ txn[w].seen <= Len(log)
    BY <1>0, <2>1 DEF SurveyedFirst
  <2>4. Colliding(w)' = {}
    BY <2>2, <2>3 DEF Colliding
  <2> QED
    BY <1>1, <2>2, <2>3, <2>4
<1>4. ASSUME NEW w \in Workers, SurveySurvivors(w) PROVE CInv'
  <2> DEFINE surviving == {row[i].hash : i \in RowsOf(txn[w].doc) \ txn[w].doomed}
  <2>1. txn[w] \in Txn
    BY <1>0
  <2>2. /\ txn'[w].pc = "insert" /\ txn'[w].doc = txn[w].doc /\ txn'[w].doomed = txn[w].doomed
        /\ txn'[w].fresh = txn[w].extracted \ surviving /\ txn'[w].seen = Len(log)
        /\ \A v \in Workers \ {w} : txn'[v] = txn[v]
        /\ UNCHANGED <<live, row, log>>
    BY <1>0, <1>4, <2>1 DEF SurveySurvivors, Txn
  <2>3. Colliding(w)' = {}
    BY <2>2 DEF Colliding, RowsOf
  <2> QED
    BY <1>0, <1>1, <2>2, <2>3
<1>5. ASSUME NEW w \in Workers, RollbackReplace(w) PROVE CInv'
  <2>1. /\ txn'[w].pc = "idle" /\ txn'[w].fresh = {} /\ txn'[w].seen = 0
        /\ \A v \in Workers \ {w} : txn'[v] = txn[v]
        /\ UNCHANGED <<live, row, log>>
    BY <1>0, <1>5 DEF RollbackReplace, IdleTxn
  <2>2. Colliding(w)' = {}
    BY <2>1 DEF Colliding
  <2> QED
    BY <1>0, <1>1, <2>1, <2>2
<1>6. ASSUME NEW w \in Workers, CommitReplace(w) PROVE CInv'
  <2>1. /\ \A i \in Inserted(w) : i.doc = txn[w].doc
        /\ \A i \in live : row'[i] = row[i]
        /\ live' = (live \ txn[w].doomed) \cup Inserted(w)
    BY <1>6, InsertedAreNew
  <2>2. /\ txn[w].pc = "insert" /\ txn'[w].fresh = {} /\ txn'[w].seen = 0 /\ log' = log
        /\ \A v \in Workers \ {w} : txn'[v] = txn[v]
    BY <1>0, <1>6 DEF CommitReplace, IdleTxn
  <2>3. SurveyedFirst'
    BY <1>0, <2>2 DEF SurveyedFirst
  <2>4. CollisionsAreOverrides'
    <3> SUFFICES ASSUME NEW v \in Workers, NEW i \in Colliding(v)'
                 PROVE  \E n \in (txn'[v].seen + 1) .. Len(log') :
                           log'[n].atom = i /\ log'[n].kind = "override" /\ log'[n].hash = row'[i].hash
      BY DEF CollisionsAreOverrides
    <3>1. v # w /\ txn'[v] = txn[v]
      BY <2>2 DEF Colliding
    <3>2. i.doc = txn[v].doc /\ row'[i].hash \in txn[v].fresh /\ i \in live' /\ i \notin txn[v].doomed
      BY <3>1 DEF Colliding, RowsOf
    <3>3. txn[v].pc = "insert"
      BY <1>0, <3>2 DEF SurveyedFirst
    <3>4. i.doc # txn[w].doc
      BY <2>2, <3>1, <3>2, <3>3 DEF OneReplacementPerDoc
    <3>5. i \in Colliding(v) /\ row'[i] = row[i]
      BY <2>1, <3>2, <3>4 DEF Colliding, RowsOf
    <3> QED
      BY <1>0, <2>2, <3>1, <3>5 DEF CollisionsAreOverrides
  <2> QED
    BY <2>3, <2>4 DEF CInv
<1>7. ASSUME NEW o \in Operators, CommitDecision(o) PROVE CInv'
  BY <1>7, CInvDecision
<1>8. ASSUME UNCHANGED <<live, row, txn, log>> PROVE CInv'
  BY <1>0, <1>8 DEF CInv, SurveyedFirst, CollisionsAreOverrides, Colliding, RowsOf
<1> QED
  BY <1>2, <1>3, <1>4, <1>5, <1>6, <1>7, <1>8
     DEF Next, vars, WorkerStep, OperatorStep, LoadAtom, RejectDecision

\* The filter on surviving hashes (pipeline/runner.py, run_atomise_and_embed) misses no
\* row: as long as no two workers are on one document, a processing fails on the unique
\* constraint only after an operator overrode an atom with what it extracted.
THEOREM CollisionsExplained == Spec /\ []OneReplacementPerDoc => []CollisionsAreOverrides
<1>1. Init => CInv
  BY DEF Init, CInv, SurveyedFirst, CollisionsAreOverrides, Colliding, IdleTxn
<1>2. IInv /\ OneReplacementPerDoc /\ CInv /\ [Next]_vars => CInv'
  BY CInvStep
<1>3. CInv => CollisionsAreOverrides
  BY DEF CInv
<1> QED
  BY <1>1, <1>2, <1>3, IInvAlways, PTL DEF Spec

\* The one worker that is deployed meets the condition: the three hold outright.
THEOREM SingleWorker ==
    ASSUME \A v, w \in Workers : v = w
    PROVE  Spec => [](SingleGeneration /\ CollisionsAreOverrides) /\ NothingExtractedIsLost
<1>1. OneReplacementPerDoc
  BY DEF OneReplacementPerDoc
<1> QED
  BY <1>1, OneGeneration, CollisionsExplained, ExtractedKept, PTL
=============================================================================
