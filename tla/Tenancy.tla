------------------------------- MODULE Tenancy -------------------------------
(***************************************************************************)
(* Tenant isolation: sessions on pooled connections (db.py), the row-level *)
(* security policies and grants of the two database roles (migrations      *)
(* 0001, 0003, 0004), and the handlers and the worker that run over them.  *)
(*                                                                         *)
(* A row keeps the columns isolation is about: its table, its client_id,   *)
(* the document it hangs on, and the state handlers select by.  Rows with  *)
(* the same columns count once, and a document has one statement; numbers  *)
(* of jobs and atoms, and the order jobs are taken in, are in modules Jobs *)
(* and Review.                                                             *)
(***************************************************************************)
EXTENDS Naturals

CONSTANTS
    Clients,       \* ids of clients, also those a request may make up
    NoClient,      \* no client: a worker without a job
    Shas,          \* contents of files
    NoDoc,         \* the document of a row or a request about none
    AppConns,      \* pooled connections of engine_app
    Workers,       \* threads that run the pipeline; one is deployed
    NoWorker,      \* the worker of an HTTP request
    MaxRequests    \* bound: HTTP requests

ASSUME ClientsAssumption == NoClient \notin Clients /\ Clients \cap {"unset", "blank"} = {}
ASSUME WorkersAssumption == NoWorker \notin Workers
ASSUME MaxRequestsAssumption == MaxRequests \in Nat

\* A document id is named by the client and the content it was inserted for.
DocsOf(c) == [owner : {c}, sha : Shas]
Docs == [owner : Clients, sha : Shas]

ASSUME NoDocAssumption == NoDoc \notin Docs

Tables == {"documents", "atoms", "jobs", "lineage", "decisions", "voice_profiles"}
States == {"plain", "queued", "running", "ended", "provisional", "reviewed"}

Row == [table : Tables, client : Clients, doc : Docs \cup {NoDoc}, state : States]

New(table, c, d, state) == [table |-> table, client |-> c, doc |-> d, state |-> state]

VARIABLES
    clients,    \* table clients, which has no policy
    rows,       \* the committed rows of the tenant tables
    conn,       \* per pooled connection: its setting and the session that uses it
    task,       \* per worker: the job it runs
    requests    \* how many requests have come in

vars == <<clients, rows, conn, task, requests>>

Requests == {"upload", "read", "reprocess", "decide", "build", "register"}
Stages == {"clean", "atomise", "profile"}

\* setting: what current_setting('app.client_id', true) returns; default: what
\* it falls back to when the transaction ends.
Conn ==
    [pc : {"pooled", "begun", "scoped", "queried"},
     setting : Clients \cup {"unset", "blank"}, default : Clients \cup {"unset", "blank"},
     op : Requests \cup Stages, client : Clients \cup {NoClient}, doc : Docs \cup {NoDoc},
     worker : Workers \cup {NoWorker}, seen : SUBSET Row]

NewConn ==
    [pc |-> "pooled", setting |-> "unset", default |-> "unset", op |-> "read",
     client |-> NoClient, doc |-> NoDoc, worker |-> NoWorker, seen |-> {}]

Task == [pc : Stages \cup {"idle", "record"}, client : Clients \cup {NoClient}, doc : Docs \cup {NoDoc}]

NoTask == [pc |-> "idle", client |-> NoClient, doc |-> NoDoc]

TypeOK ==
    /\ clients \subseteq Clients
    /\ rows \subseteq Row
    /\ conn \in [AppConns -> Conn]
    /\ task \in [Workers -> Task]
    /\ requests \in 0 .. MaxRequests

Init ==
    /\ clients = {}
    /\ rows = {}
    /\ conn = [k \in AppConns |-> NewConn]
    /\ task = [w \in Workers |-> NoTask]
    /\ requests = 0

-----------------------------------------------------------------------------
(* Policies, grants and constraints *)

\* Mutant: a policy that lets every scoped session in.
AdmitsScoped(role, setting, r) ==
    \/ setting \in Clients
    \/ role = "engine_worker" /\ r.table = "jobs"

\* tenant_isolation holds for every role and matches nothing while the setting
\* is unset or blank; worker_jobs_access adds the jobs of every tenant.
Admits(role, setting, r) ==
    \/ setting \in Clients /\ r.client = setting
    \/ role = "engine_worker" /\ r.table = "jobs"

Granted(role) == IF role = "engine_app" THEN Tables ELSE {"jobs"}

Visible(role, setting) == {r \in rows : r.table \in Granted(role) /\ Admits(role, setting, r)}

\* Tables with a foreign key to documents.  It refers to the id alone.
Children == {"atoms", "jobs", "lineage"}

\* An INSERT passes WITH CHECK, the foreign keys, which look past the policies,
\* and uq_documents_client_sha.
Insertable(setting, new) ==
    \A r \in new :
        /\ Admits("engine_app", setting, r)
        /\ r.client \in clients
        /\ r.table \in Children /\ r.doc # NoDoc =>
              \E d \in rows \cup new : d.table = "documents" /\ d.doc = r.doc
        /\ r.table = "documents" => r \notin rows

-----------------------------------------------------------------------------
(* Sessions *)

\* A session takes a pooled connection and begins.
Begin(k, op, c, d, w) ==
    /\ conn[k].pc = "pooled"
    /\ conn' = [conn EXCEPT ![k] =
          [pc |-> "begun", setting |-> @.setting, default |-> @.default,
           op |-> op, client |-> c, doc |-> d, worker |-> w, seen |-> {}]]

\* Mutant: set_config without its third argument: the tenant stays on the connection.
SetTenantForGood(k) ==
    /\ conn[k].pc = "begun" /\ conn[k].op # "register"
    /\ conn' = [conn EXCEPT ![k] =
          [@ EXCEPT !.pc = "scoped", !.setting = conn[k].client, !.default = conn[k].client]]
    /\ UNCHANGED <<clients, rows, task, requests>>

\* tenant_session: the tenant is set for the transaction; afterwards a setting
\* that never had a value is blank, not unset.
SetTenant(k) ==
    /\ conn[k].pc = "begun" /\ conn[k].op # "register"
    /\ conn' = [conn EXCEPT ![k] =
          [@ EXCEPT !.pc = "scoped", !.setting = conn[k].client, !.default = "blank"]]
    /\ UNCHANGED <<clients, rows, task, requests>>

\* The transaction ends and the connection goes back to the pool.
Pooled(k) == [conn EXCEPT ![k] = [NewConn EXCEPT !.setting = conn[k].default, !.default = conn[k].default]]

\* What the first query of the handler asks for, no client among its conditions.
Asked(s, r) ==
    CASE s.op = "upload" -> r.table = "documents" /\ r.doc.sha = s.doc.sha
      [] s.op \in {"reprocess", "clean", "atomise"} -> r.table = "documents" /\ r.doc = s.doc
      [] s.op = "decide" -> r.table = "atoms" /\ r.doc = s.doc
      [] s.op \in {"build", "profile"} -> r.table = "atoms"
      [] OTHER -> TRUE

Query(k) ==
    /\ conn[k].pc = "scoped"
    /\ conn' = [conn EXCEPT ![k] = [@ EXCEPT !.pc = "queried",
          !.seen = {r \in Visible("engine_app", conn[k].setting) : Asked(conn[k], r)}]]
    /\ UNCHANGED <<clients, rows, task, requests>>

\* Mutant: handlers go on without looking whether the row was found.
ContinuesBlindly(s) == s.op # "read"

\* The handler goes on to write: an upload unless the content is there, the
\* others only when the row they are about is (404, 409 or ValueError otherwise).
Continues(s) == IF s.op = "upload" THEN s.seen = {} ELSE s.op # "read" /\ s.seen # {}

\* What the handler inserts, or writes in place of what it removes.  A statement
\* that survived its reviews is not inserted again.
Inserted(s) ==
    LET row(table, state) == New(table, s.client, s.doc, state) IN
    CASE s.op = "upload" -> {row("documents", "plain"), row("jobs", "queued")}
      [] s.op \in {"reprocess", "build"} -> {row("jobs", "queued")}
      [] s.op = "clean" -> {row("lineage", "plain")}
      [] s.op = "atomise" ->
            {row("lineage", "plain")}
            \cup (IF row("atoms", "reviewed") \in rows THEN {} ELSE {row("atoms", "provisional")})
      [] s.op = "profile" -> {row("voice_profiles", "plain")}
      [] s.op = "decide" -> {row("decisions", "plain")} \cup {[r EXCEPT !.state = "reviewed"] : r \in s.seen}
      [] OTHER -> {}

\* Mutant: the atoms of every document are replaced, by a role the policies do not bind.
RemovedByOwner(s) ==
    CASE s.op = "atomise" -> {r \in rows : r.table = "atoms" /\ r.state = "provisional"}
      [] s.op = "decide" -> s.seen
      [] OTHER -> {}

\* The rows an UPDATE or DELETE of the handler takes away.
Removed(s) ==
    CASE s.op = "atomise" -> {r \in Visible("engine_app", s.setting) :
                                 r.table = "atoms" /\ r.doc = s.doc /\ r.state = "provisional"}
      [] s.op = "decide" -> s.seen
      [] OTHER -> {}

\* Where the job goes on after a stage.
NextStage(pc) == IF pc = "clean" THEN "atomise" ELSE "record"

\* The handler writes, flushes and commits.  A decision finds its atom gone when
\* it was replaced meanwhile.
Commit(k) ==
    LET s == conn[k] IN
    /\ s.pc = "queried"
    /\ Continues(s)
    /\ s.op = "decide" => s.seen \subseteq rows
    /\ Insertable(s.setting, Inserted(s))
    /\ rows' = (rows \ Removed(s)) \cup Inserted(s)
    /\ task' = IF s.worker = NoWorker THEN task ELSE [task EXCEPT ![s.worker].pc = NextStage(s.op)]
    /\ conn' = Pooled(k)
    /\ UNCHANGED <<clients, requests>>

\* The session ends without writing: it only read, refused, or failed anywhere.
Close(k) ==
    LET s == conn[k] IN
    /\ s.pc # "pooled"
    /\ task' = IF s.worker = NoWorker THEN task ELSE [task EXCEPT ![s.worker].pc = "record"]
    /\ conn' = Pooled(k)
    /\ UNCHANGED <<clients, rows, requests>>

-----------------------------------------------------------------------------
(* Requests *)

\* A request names any client and any document, its own or not.
Receive(k, op, c, d) ==
    /\ requests < MaxRequests
    /\ requests' = requests + 1
    /\ Begin(k, op, c, d, NoWorker)
    /\ UNCHANGED <<clients, rows, task>>

\* create_client, in a session without a tenant.
CreateClient(k) ==
    /\ conn[k].pc = "begun" /\ conn[k].op = "register"
    /\ clients' = clients \cup {conn[k].client}
    /\ conn' = Pooled(k)
    /\ UNCHANGED <<rows, task, requests>>

ReceiveAny(k) ==
    \/ \E c \in Clients : \E d \in DocsOf(c) : Receive(k, "upload", c, d)
    \/ \E c \in Clients, d \in Docs, op \in {"reprocess", "decide"} : Receive(k, op, c, d)
    \/ \E c \in Clients, op \in {"read", "build"} : Receive(k, op, c, NoDoc)
    \/ \E c \in Clients \ clients : Receive(k, "register", c, NoDoc)

-----------------------------------------------------------------------------
(* The worker *)

\* A job is claimed, and its outcome recorded, by engine_worker without a tenant.
\* Its pool never sets one.
JobsSeen(state) == {r \in Visible("engine_worker", "unset") : r.state = state}

Claim(w) ==
    /\ task[w].pc = "idle"
    /\ \E job \in JobsSeen("queued") :
          /\ rows' = (rows \ {job}) \cup {[job EXCEPT !.state = "running"]}
          /\ task' = [task EXCEPT ![w] =
                [pc |-> IF job.doc = NoDoc THEN "profile" ELSE "clean",
                 client |-> job.client, doc |-> job.doc]]
    /\ UNCHANGED <<clients, conn, requests>>

\* Mutant: the worker no longer has the client of the job when a stage begins.
RunStageForNobody(w, k) ==
    /\ task[w].pc \in Stages
    /\ \A o \in AppConns : conn[o].worker # w
    /\ Begin(k, task[w].pc, NoClient, task[w].doc, w)
    /\ UNCHANGED <<clients, rows, task, requests>>

\* A stage runs in a session of the client the job is for.
RunStage(w, k) ==
    /\ task[w].pc \in Stages
    /\ \A o \in AppConns : conn[o].worker # w
    /\ Begin(k, task[w].pc, task[w].client, task[w].doc, w)
    /\ UNCHANGED <<clients, rows, task, requests>>

\* The mark of a failed document is left out: it is a session of the job's client
\* that changes a column rows do not keep here (see module Jobs).
RecordOutcome(w) ==
    /\ task[w].pc = "record"
    /\ \E job \in JobsSeen("running") :
          /\ job.client = task[w].client /\ job.doc = task[w].doc
          /\ rows' = (rows \ {job}) \cup {[job EXCEPT !.state = "ended"]}
    /\ task' = [task EXCEPT ![w] = NoTask]
    /\ UNCHANGED <<clients, conn, requests>>

-----------------------------------------------------------------------------
ConnStep(k) ==
    \/ ReceiveAny(k) \/ CreateClient(k)
    \/ SetTenant(k) \/ Query(k) \/ Commit(k) \/ Close(k)

WorkerStep(w) == Claim(w) \/ (\E k \in AppConns : RunStage(w, k)) \/ RecordOutcome(w)

Next == (\E k \in AppConns : ConnStep(k)) \/ (\E w \in Workers : WorkerStep(w))

Spec == Init /\ [][Next]_vars

-----------------------------------------------------------------------------
(* Properties *)

\* A session is shown rows of the client it was opened for and no others, though
\* no query names a client.  A connection in the pool, and a session that has not
\* set its tenant yet, is shown nothing, whoever used the connection before.
Isolation ==
    \A k \in AppConns :
        /\ \A r \in conn[k].seen : r.client = conn[k].client
        /\ conn[k].pc \in {"pooled", "begun"} => Visible("engine_app", conn[k].setting) = {}

\* No row hangs on a document of another client, though the foreign keys would
\* allow it and requests name documents freely.
ChildrenStayWithParents ==
    \A r, d \in rows : d.table = "documents" /\ r.doc = d.doc => r.client = d.client

\* What is an entry of a client's own tables, and what those tables and the answers
\* sessions hold are.
EntryOf(r) == [table |-> r.table, doc |-> r.doc, state |-> r.state]

Entries(some) == {EntryOf(r) : r \in some}

OwnRows == [c \in Clients |-> Entries({r \in rows : r.client = c})]

Own == INSTANCE TenantTables WITH
    Sessions <- AppConns, tables <- OwnRows, shown <- [k \in AppConns |-> Entries(conn[k].seen)]

\* Every client works as if it had tables of its own.
Implements == Own!Spec
=============================================================================
