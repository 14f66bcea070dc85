---------------------------- MODULE Tenancy_proofs ----------------------------
(***************************************************************************)
(* Isolation, rows that stay with their parents, and that every client     *)
(* works on tables of its own, for any clients, contents, connections and  *)
(* workers.                                                                *)
(***************************************************************************)
EXTENDS Tenancy, TLAPS

\* A scoped session has its client as setting, and its answer is that client's.
SessionInv(s) ==
    /\ s.pc \in {"scoped", "queried"} => s.setting = s.client /\ s.op # "register"
    /\ s.default \in {"unset", "blank"}
    /\ s.pc \in {"pooled", "begun"} => s.setting = s.default
    /\ s.pc # "queried" => s.seen = {}
    /\ s.pc # "pooled" => s.client \in Clients
    /\ s.op = "upload" => s.doc \in DocsOf(s.client)
    /\ s.op \in {"build", "profile"} => s.doc = NoDoc
    /\ \A r \in s.seen :
          /\ r.client = s.client
          /\ Asked(s, r)
          /\ r.doc # NoDoc => r.doc.owner = r.client

ConnInv == \A k \in AppConns : SessionInv(conn[k])

TaskInv ==
    \A w \in Workers :
        /\ task[w].pc # "idle" => task[w].client \in Clients
        /\ task[w].pc = "profile" => task[w].doc = NoDoc

\* A worker uses one connection at a time, and only while its job is in a stage.
LinkInv ==
    \A k \in AppConns :
        conn[k].worker # NoWorker =>
            /\ task[conn[k].worker].pc \in Stages
            /\ \A o \in AppConns \ {k} : conn[o].worker # conn[k].worker

\* Rows belong to the client that uploaded their document.
OwnDocs ==
    \A r \in rows :
        /\ r.doc # NoDoc => r.doc.owner = r.client
        /\ r.table = "documents" => r.doc # NoDoc

IInv == TypeOK /\ ConnInv /\ TaskInv /\ LinkInv /\ OwnDocs

-----------------------------------------------------------------------------
\* A session that goes on to write is about a document of its own client.
LEMMA ContinuesOwn ==
    ASSUME NEW k \in AppConns, IInv, conn[k].pc = "queried", Continues(conn[k])
    PROVE  conn[k].doc # NoDoc => conn[k].doc.owner = conn[k].client
<1> DEFINE s == conn[k]
<1>1. s \in Conn BY DEF IInv, TypeOK
<1>2. CASE s.op = "upload" BY <1>2 DEF IInv, ConnInv, SessionInv, DocsOf
<1>3. CASE s.op \in {"build", "profile"} BY <1>3 DEF IInv, ConnInv, SessionInv
<1>4. CASE s.op \in {"reprocess", "clean", "atomise", "decide"}
  <2>1. PICK r \in s.seen : TRUE BY <1>4 DEF Continues
  <2>2. r.client = s.client /\ Asked(s, r) /\ (r.doc # NoDoc => r.doc.owner = r.client)
    BY <2>1 DEF IInv, ConnInv, SessionInv
  <2>3. r.doc = s.doc BY <2>2, <1>4 DEF Asked
  <2>. QED BY <2>2, <2>3
<1>5. s.op \notin {"read", "register"} BY DEF Continues, IInv, ConnInv, SessionInv
<1>. QED BY <1>1, <1>2, <1>3, <1>4, <1>5 DEF Conn, Requests, Stages

\* What a commit inserts is of the session's client, and hangs on its document.
LEMMA InsertedOwn ==
    ASSUME NEW k \in AppConns, IInv, conn[k].pc = "queried", Continues(conn[k]),
           Insertable(conn[k].setting, Inserted(conn[k])),
           NEW r \in Inserted(conn[k])
    PROVE  /\ r \in Row
           /\ r.doc # NoDoc => r.doc.owner = r.client
           /\ r.table = "documents" => r.doc # NoDoc
<1> DEFINE s == conn[k]
<1>1. s \in Conn /\ s.setting = s.client BY DEF IInv, TypeOK, ConnInv, SessionInv
<1>2. s.client \in Clients BY <1>1 DEF Insertable, Admits
<1>3. s.doc # NoDoc => s.doc.owner = s.client BY ContinuesOwn
<1>4. s.op \in Requests \cup Stages /\ s.doc \in Docs \cup {NoDoc} BY <1>1 DEF Conn
<1> DEFINE Kept(x) == x \in Row /\ (x.doc # NoDoc => x.doc.owner = x.client)
                      /\ (x.table = "documents" => x.doc # NoDoc)
<1>5. ASSUME NEW table \in Tables, NEW state \in States,
             r = New(table, s.client, s.doc, state), table = "documents" => s.op = "upload"
      PROVE  Kept(r)
  <2>1. r \in Row BY <1>2, <1>4, <1>5 DEF Row, New
  <2>2. s.op = "upload" => s.doc \in Docs BY <1>2 DEF IInv, ConnInv, SessionInv, DocsOf, Docs
  <2>. QED BY <2>1, <2>2, <1>3, <1>5, NoDocAssumption DEF New
<1>6. CASE s.op = "decide"
  <2>1. CASE r = New("decisions", s.client, s.doc, "plain")
    BY <2>1, <1>5, <1>6 DEF Tables, States
  <2>2. CASE \E t \in s.seen : r = [t EXCEPT !.state = "reviewed"]
    <3>1. PICK t \in s.seen : r = [t EXCEPT !.state = "reviewed"] BY <2>2
    <3>2. t \in Row BY <1>1 DEF Conn
    <3>3. Asked(s, t) /\ (t.doc # NoDoc => t.doc.owner = t.client) BY DEF IInv, ConnInv, SessionInv
    <3>4. t.table = "atoms" BY <3>3, <1>6 DEF Asked
    <3>. QED BY <3>1, <3>2, <3>3, <3>4 DEF Row, States
  <2>. QED BY <2>1, <2>2, <1>6 DEF Inserted
<1>7. CASE s.op # "decide"
  <2>1. \E table \in Tables, state \in States :
            r = New(table, s.client, s.doc, state) /\ (table = "documents" => s.op = "upload")
    BY <1>7, <1>4 DEF Inserted, Tables, States, Requests, Stages
  <2>. QED BY <2>1, <1>5
<1>. QED BY <1>6, <1>7

-----------------------------------------------------------------------------
LEMMA InitInv == Init => IInv
<1> SUFFICES ASSUME Init PROVE IInv OBVIOUS
<1>1. TypeOK
  BY MaxRequestsAssumption DEF Init, TypeOK, Conn, NewConn, Task, NoTask, Requests, Stages
<1>2. ConnInv BY NoDocAssumption DEF Init, ConnInv, SessionInv, NewConn
<1>3. TaskInv /\ LinkInv /\ OwnDocs BY DEF Init, TaskInv, LinkInv, OwnDocs, NoTask, NewConn
<1>. QED BY <1>1, <1>2, <1>3 DEF IInv

\* A connection back in the pool satisfies the invariant.
LEMMA PooledInv ==
    ASSUME NEW k \in AppConns, IInv, conn' = Pooled(k)
    PROVE  conn' \in [AppConns -> Conn] /\ ConnInv'
<1>1. conn \in [AppConns -> Conn] BY DEF IInv, TypeOK
<1> DEFINE fresh == [NewConn EXCEPT !.setting = conn[k].default, !.default = conn[k].default]
<1>2. conn[k] \in Conn BY <1>1
<1>3. fresh \in Conn /\ fresh.pc = "pooled" /\ fresh.setting = fresh.default
      /\ fresh.default = conn[k].default /\ fresh.op = "read" /\ fresh.seen = {}
  BY <1>2 DEF Conn, NewConn, Requests, Stages
<1>4. \A o \in AppConns : conn'[o] = IF o = k THEN fresh ELSE conn[o] BY <1>1 DEF Pooled
<1>5. conn' \in [AppConns -> Conn] BY <1>1, <1>3 DEF Pooled
<1>6. ConnInv'
  <2> SUFFICES ASSUME NEW o \in AppConns
               PROVE  SessionInv(conn'[o])
    BY DEF ConnInv
  <2>1. CASE o = k
    <3>1. conn[k].default \in {"unset", "blank"} BY DEF IInv, ConnInv, SessionInv
    <3>. QED BY <2>1, <3>1, <1>3, <1>4 DEF SessionInv
  <2>2. CASE o # k BY <2>2, <1>4 DEF IInv, ConnInv, SessionInv
  <2>. QED BY <2>1, <2>2
<1>. QED BY <1>5, <1>6

\* So does one that a session has taken for a client and a document.
LEMMA BegunInv ==
    ASSUME NEW k \in AppConns, NEW op \in Requests \cup Stages, NEW c \in Clients,
           NEW d \in Docs \cup {NoDoc}, NEW w \in Workers \cup {NoWorker},
           IInv, Begin(k, op, c, d, w),
           op = "upload" => d \in DocsOf(c), op \in {"build", "profile"} => d = NoDoc
    PROVE  conn' \in [AppConns -> Conn] /\ ConnInv'
<1>1. conn \in [AppConns -> Conn] BY DEF IInv, TypeOK
<1> DEFINE s == conn[k]
<1> DEFINE taken == [pc |-> "begun", setting |-> s.setting, default |-> s.default, op |-> op,
                     client |-> c, doc |-> d, worker |-> w, seen |-> {}]
<1>2. s \in Conn /\ s.pc = "pooled" /\ s.seen = {} BY <1>1 DEF Begin, IInv, ConnInv, SessionInv
<1>3. taken \in Conn BY <1>2 DEF Conn
<1>4. conn' = [conn EXCEPT ![k] = taken] BY DEF Begin
<1>5. conn' \in [AppConns -> Conn] BY <1>1, <1>3, <1>4
<1>6. s.setting = s.default /\ s.default \in {"unset", "blank"} BY <1>2 DEF IInv, ConnInv, SessionInv
<1>7. ASSUME NEW o \in AppConns
      PROVE  SessionInv(conn'[o])
  <2>1. CASE o = k
    <3>1. conn'[o] = taken BY <2>1, <1>1, <1>4
    <3>. QED BY <3>1, <1>2, <1>6 DEF SessionInv
  <2>2. CASE o # k
    <3>1. conn'[o] = conn[o] BY <2>2, <1>1, <1>4
    <3>. QED BY <3>1 DEF IInv, ConnInv, SessionInv
  <2>. QED BY <2>1, <2>2
<1>. QED BY <1>5, <1>7 DEF ConnInv

LEMMA SetTenantInv ==
    ASSUME NEW k \in AppConns, IInv, SetTenant(k)
    PROVE  conn' \in [AppConns -> Conn] /\ ConnInv'
<1> DEFINE s == conn[k]
           scoped == [s EXCEPT !.pc = "scoped", !.setting = s.client, !.default = "blank"]
<1>1. conn \in [AppConns -> Conn] /\ s \in Conn BY DEF IInv, TypeOK
<1>2. s.pc = "begun" /\ s.op # "register" /\ s.seen = {} BY DEF SetTenant, IInv, ConnInv, SessionInv
<1>3. conn' = [conn EXCEPT ![k] = scoped] BY DEF SetTenant
<1>4. s.client \in Clients BY <1>2 DEF IInv, ConnInv, SessionInv
<1>5. scoped \in Conn /\ scoped.pc = "scoped" /\ scoped.setting = s.client /\ scoped.default = "blank" /\ scoped.op = s.op
      /\ scoped.client = s.client /\ scoped.doc = s.doc /\ scoped.seen = {}
  BY <1>1, <1>2, <1>4 DEF Conn
<1>6. conn' \in [AppConns -> Conn] BY <1>1, <1>3, <1>5
<1>7. ASSUME NEW o \in AppConns
      PROVE  SessionInv(conn'[o])
  <2>1. CASE o = k
    <3>1. conn'[o] = scoped BY <2>1, <1>1, <1>3
    <3>2. s.op = "upload" => s.doc \in DocsOf(s.client) BY DEF IInv, ConnInv, SessionInv
    <3>3. s.op \in {"build", "profile"} => s.doc = NoDoc BY DEF IInv, ConnInv, SessionInv
    <3>. QED BY <3>1, <3>2, <3>3, <1>2, <1>4, <1>5 DEF SessionInv
  <2>2. CASE o # k
    <3>1. conn'[o] = conn[o] BY <2>2, <1>1, <1>3
    <3>. QED BY <3>1 DEF IInv, ConnInv, SessionInv
  <2>. QED BY <2>1, <2>2
<1>. QED BY <1>6, <1>7 DEF ConnInv

\* A query returns rows the policy lets through: those of the setting.
LEMMA QueryInv ==
    ASSUME NEW k \in AppConns, IInv, Query(k)
    PROVE  conn' \in [AppConns -> Conn] /\ ConnInv'
<1> DEFINE s == conn[k]
           found == {r \in Visible("engine_app", s.setting) : Asked(s, r)}
           queried == [s EXCEPT !.pc = "queried", !.seen = found]
<1>1. conn \in [AppConns -> Conn] /\ s \in Conn BY DEF IInv, TypeOK
<1>2. s.pc = "scoped" /\ s.setting = s.client /\ s.op # "register" BY DEF Query, IInv, ConnInv, SessionInv
<1>3. conn' = [conn EXCEPT ![k] = queried] BY DEF Query
<1>4. ASSUME NEW r \in found
      PROVE  r \in rows /\ r.client = s.client /\ Asked(s, r)
  BY <1>2, <1>4 DEF Visible, Admits
<1>5. found \in SUBSET Row BY <1>4 DEF IInv, TypeOK
<1>6. queried \in Conn /\ queried.pc = "queried" /\ queried.setting = s.setting /\ queried.default = s.default /\ queried.op = s.op
      /\ queried.client = s.client /\ queried.doc = s.doc /\ queried.seen = found
  BY <1>1, <1>5 DEF Conn
<1>7. conn' \in [AppConns -> Conn] BY <1>1, <1>3, <1>6
<1>8. ASSUME NEW o \in AppConns
      PROVE  SessionInv(conn'[o])
  <2>1. CASE o = k
    <3>1. conn'[o] = queried BY <2>1, <1>1, <1>3
    <3>2. /\ s.op = "upload" => s.doc \in DocsOf(s.client)
          /\ s.op \in {"build", "profile"} => s.doc = NoDoc
          /\ s.client \in Clients /\ s.default \in {"unset", "blank"}
      BY <1>2 DEF IInv, ConnInv, SessionInv
    <3>3. ASSUME NEW r \in found
          PROVE  r.client = s.client /\ Asked(queried, r) /\ (r.doc # NoDoc => r.doc.owner = r.client)
      <4>1. Asked(queried, r) BY <1>4, <1>6 DEF Asked
      <4>. QED BY <4>1, <1>4 DEF IInv, OwnDocs
    <3>. QED BY <3>1, <3>2, <3>3, <1>2, <1>6 DEF SessionInv
  <2>2. CASE o # k
    <3>1. conn'[o] = conn[o] BY <2>2, <1>1, <1>3
    <3>. QED BY <3>1 DEF IInv, ConnInv, SessionInv
  <2>. QED BY <2>1, <2>2
<1>. QED BY <1>7, <1>8 DEF ConnInv

\* Committed rows stay typed and with their owners.
LEMMA CommitInv ==
    ASSUME NEW k \in AppConns, IInv, Commit(k)
    PROVE  rows' \subseteq Row /\ OwnDocs'
<1> DEFINE s == conn[k]
<1>1. /\ s.pc = "queried" /\ Continues(s) /\ Insertable(s.setting, Inserted(s))
      /\ rows' = (rows \ Removed(s)) \cup Inserted(s)
  BY DEF Commit
<1>2. ASSUME NEW r \in Inserted(s)
      PROVE  /\ r \in Row
             /\ r.doc # NoDoc => r.doc.owner = r.client
             /\ r.table = "documents" => r.doc # NoDoc
  BY <1>1, InsertedOwn
<1>3. rows \subseteq Row /\ OwnDocs BY DEF IInv, TypeOK
<1>. QED BY <1>1, <1>2, <1>3 DEF OwnDocs

\* A row of table jobs changes its state and nothing else.
LEMMA JobMoves ==
    ASSUME IInv, NEW job \in rows, NEW state \in States,
           rows' = (rows \ {job}) \cup {[job EXCEPT !.state = state]}
    PROVE  rows' \subseteq Row /\ OwnDocs'
<1>1. rows \subseteq Row /\ job \in Row BY DEF IInv, TypeOK
<1> DEFINE moved == [job EXCEPT !.state = state]
<1>2. moved \in Row /\ moved.doc = job.doc /\ moved.client = job.client /\ moved.table = job.table
  BY <1>1 DEF Row
<1>. QED BY <1>1, <1>2 DEF IInv, OwnDocs

\* Steps that start no stage keep the links.
LEMMA LinkKept ==
    ASSUME IInv, task' = task, \A k \in AppConns : conn'[k].worker \in {conn[k].worker, NoWorker}
    PROVE  LinkInv'
BY DEF IInv, LinkInv

\* The task of a session that ends goes on; the others are left alone.
LEMMA TaskGoesOn ==
    ASSUME IInv, NEW k \in AppConns, NEW pc \in {"atomise", "record"}, conn' = Pooled(k),
           task' = IF conn[k].worker = NoWorker THEN task
                   ELSE [task EXCEPT ![conn[k].worker].pc = pc]
    PROVE  task' \in [Workers -> Task] /\ TaskInv' /\ LinkInv'
<1> DEFINE w == conn[k].worker
<1>1. /\ conn \in [AppConns -> Conn] /\ task \in [Workers -> Task]
      /\ w \in Workers \cup {NoWorker}
  BY DEF IInv, TypeOK, Conn
<1>2. /\ conn'[k].worker = NoWorker
      /\ \A o \in AppConns \ {k} : conn'[o].worker = conn[o].worker
  BY <1>1 DEF Pooled, NewConn
<1>3. CASE w = NoWorker
  <2>1. task' = task BY <1>3
  <2>2. \A o \in AppConns : conn'[o].worker \in {conn[o].worker, NoWorker} BY <1>2
  <2>3. LinkInv' BY <2>1, <2>2, LinkKept
  <2>. QED BY <1>1, <2>1, <2>3 DEF IInv, TaskInv
<1>4. CASE w # NoWorker
  <2>1. w \in Workers /\ task[w] \in Task /\ task[w].pc \in Stages
    BY <1>1, <1>4 DEF IInv, LinkInv
  <2> DEFINE next == [task[w] EXCEPT !.pc = pc]
  <2>2. next \in Task /\ next.pc = pc /\ next.client = task[w].client
    BY <2>1 DEF Task, Stages
  <2>3. /\ task' = [task EXCEPT ![w] = next]
        /\ task'[w] = next
        /\ \A v \in Workers \ {w} : task'[v] = task[v]
    BY <1>1, <1>4, <2>1
  <2>4. task[w].client \in Clients BY <2>1 DEF IInv, TaskInv, Stages
  <2>5. TaskInv' BY <2>2, <2>3, <2>4 DEF IInv, TaskInv
  <2>6. LinkInv'
    <3> SUFFICES ASSUME NEW o \in AppConns, conn'[o].worker # NoWorker
                 PROVE  /\ task'[conn'[o].worker].pc \in Stages
                        /\ \A q \in AppConns \ {o} : conn'[q].worker # conn'[o].worker
      BY DEF LinkInv
    <3>1. o # k /\ conn'[o].worker = conn[o].worker /\ conn[o].worker # w
      BY <1>2, <1>4 DEF IInv, LinkInv
    <3>2. conn[o].worker \in Workers BY <1>1, <3>1 DEF Conn
    <3>. QED BY <1>2, <2>3, <3>1, <3>2 DEF IInv, LinkInv
  <2>. QED BY <1>1, <2>2, <2>3, <2>5, <2>6
<1>. QED BY <1>3, <1>4

LEMMA NextInv == IInv /\ [Next]_vars => IInv'
<1> SUFFICES ASSUME IInv, [Next]_vars PROVE IInv' OBVIOUS
<1>0. TypeOK /\ ConnInv /\ TaskInv /\ LinkInv /\ OwnDocs BY DEF IInv
<1>1. ASSUME NEW k \in AppConns, ReceiveAny(k) PROVE IInv'
  <2>1. PICK op \in Requests, c \in Clients, d \in Docs \cup {NoDoc} :
           /\ Receive(k, op, c, d)
           /\ op = "upload" => d \in DocsOf(c)
           /\ op = "build" => d = NoDoc
    BY <1>1 DEF ReceiveAny, Requests, DocsOf, Docs
  <2>2. conn' \in [AppConns -> Conn] /\ ConnInv'
    <3>1. Begin(k, op, c, d, NoWorker) BY <2>1 DEF Receive
    <3>2. op \in {"build", "profile"} => d = NoDoc BY <2>1 DEF Requests
    <3>. QED BY <3>1, <3>2, <2>1, BegunInv
  <2>3. TypeOK' BY <1>0, <2>1, <2>2, MaxRequestsAssumption DEF Receive, TypeOK
  <2>4. \A o \in AppConns : conn'[o].worker \in {conn[o].worker, NoWorker}
    BY <1>0, <2>1 DEF Receive, Begin, TypeOK
  <2>5. LinkInv' BY <2>1, <2>4, LinkKept DEF Receive
  <2>. QED BY <1>0, <2>1, <2>2, <2>3, <2>5 DEF Receive, TaskInv, OwnDocs, IInv
<1>2. ASSUME NEW k \in AppConns, CreateClient(k) PROVE IInv'
  <2>1. conn' \in [AppConns -> Conn] /\ ConnInv' BY <1>2, PooledInv DEF CreateClient
  <2>2. conn[k].client \in Clients BY <1>0, <1>2 DEF CreateClient, ConnInv, SessionInv
  <2>3. \A o \in AppConns : conn'[o].worker \in {conn[o].worker, NoWorker}
    BY <1>0, <1>2 DEF CreateClient, Pooled, NewConn, TypeOK
  <2>4. LinkInv' BY <1>2, <2>3, LinkKept DEF CreateClient
  <2>. QED BY <1>0, <1>2, <2>1, <2>2, <2>4 DEF CreateClient, TypeOK, TaskInv, OwnDocs, IInv
<1>3. ASSUME NEW k \in AppConns, SetTenant(k) \/ Query(k) PROVE IInv'
  <2>1. conn' \in [AppConns -> Conn] /\ ConnInv' BY <1>3, SetTenantInv, QueryInv
  <2>2. conn[k] \in Conn BY <1>0 DEF TypeOK
  <2>3. \A o \in AppConns : conn'[o].worker \in {conn[o].worker, NoWorker}
    <3>1. CASE SetTenant(k) BY <1>0, <2>2, <3>1 DEF SetTenant, TypeOK, Conn
    <3>2. CASE Query(k) BY <1>0, <2>2, <3>2 DEF Query, TypeOK, Conn
    <3>. QED BY <1>3, <3>1, <3>2
  <2>4. LinkInv' BY <1>3, <2>3, LinkKept DEF SetTenant, Query
  <2>. QED BY <1>0, <1>3, <2>1, <2>4 DEF SetTenant, Query, TypeOK, TaskInv, OwnDocs, IInv
<1>4. ASSUME NEW k \in AppConns, Commit(k) PROVE IInv'
  <2>1. conn' \in [AppConns -> Conn] /\ ConnInv' BY <1>4, PooledInv DEF Commit
  <2>2. rows' \subseteq Row /\ OwnDocs' BY <1>4, CommitInv
  <2>3. NextStage(conn[k].op) \in {"atomise", "record"} BY DEF NextStage
  <2>4. task' \in [Workers -> Task] /\ TaskInv' /\ LinkInv' BY <1>4, <2>3, TaskGoesOn DEF Commit
  <2>. QED BY <1>0, <1>4, <2>1, <2>2, <2>4 DEF Commit, TypeOK, IInv
<1>5. ASSUME NEW k \in AppConns, Close(k) PROVE IInv'
  <2>1. conn' \in [AppConns -> Conn] /\ ConnInv' BY <1>5, PooledInv DEF Close
  <2>2. task' \in [Workers -> Task] /\ TaskInv' /\ LinkInv' BY <1>5, TaskGoesOn DEF Close
  <2>. QED BY <1>0, <1>5, <2>1, <2>2 DEF Close, TypeOK, OwnDocs, IInv
<1>6. ASSUME NEW w \in Workers, Claim(w) PROVE IInv'
  <2>1. PICK job \in JobsSeen("queued") :
           /\ rows' = (rows \ {job}) \cup {[job EXCEPT !.state = "running"]}
           /\ task' = [task EXCEPT ![w] =
                 [pc |-> IF job.doc = NoDoc THEN "profile" ELSE "clean",
                  client |-> job.client, doc |-> job.doc]]
    BY <1>6 DEF Claim
  <2>2. job \in rows /\ job \in Row BY <1>0 DEF JobsSeen, Visible, TypeOK
  <2>3. rows' \subseteq Row /\ OwnDocs' BY <2>1, <2>2, JobMoves DEF States
  <2> DEFINE t == [pc |-> IF job.doc = NoDoc THEN "profile" ELSE "clean",
                   client |-> job.client, doc |-> job.doc]
  <2>4. t \in Task /\ t.client \in Clients /\ (t.pc = "profile" => t.doc = NoDoc)
    BY <2>2 DEF Row, Task, Stages
  <2>5. task' \in [Workers -> Task] /\ TaskInv' BY <1>0, <2>1, <2>4 DEF TypeOK, TaskInv
  <2>6. LinkInv'
    <3>1. task[w].pc = "idle" /\ conn' = conn BY <1>6 DEF Claim
    <3>2. \A k \in AppConns : conn[k].worker # w BY <1>0, <3>1, WorkersAssumption DEF LinkInv, Stages
    <3>3. \A v \in Workers \ {w} : task'[v] = task[v] BY <1>0, <2>1 DEF TypeOK
    <3>4. \A k \in AppConns : conn[k].worker \in Workers \cup {NoWorker} BY <1>0 DEF TypeOK, Conn
    <3>. QED BY <1>0, <3>1, <3>2, <3>3, <3>4 DEF LinkInv
  <2>7. ConnInv' BY <1>0, <1>6 DEF Claim, ConnInv
  <2>. QED BY <1>0, <1>6, <2>3, <2>5, <2>6, <2>7 DEF Claim, TypeOK, IInv
<1>7. ASSUME NEW w \in Workers, NEW k \in AppConns, RunStage(w, k) PROVE IInv'
  <2>1. /\ task[w].pc \in Stages /\ Begin(k, task[w].pc, task[w].client, task[w].doc, w)
        /\ \A o \in AppConns : conn[o].worker # w
    BY <1>7 DEF RunStage
  <2>2. /\ task[w].client \in Clients /\ task[w].doc \in Docs \cup {NoDoc}
        /\ task[w].pc = "profile" => task[w].doc = NoDoc
    BY <1>0, <2>1 DEF TypeOK, Task, TaskInv, Stages
  <2>3. conn' \in [AppConns -> Conn] /\ ConnInv'
    BY <2>1, <2>2, BegunInv DEF Stages
  <2>4. LinkInv'
    <3>1. conn'[k].worker = w /\ \A o \in AppConns \ {k} : conn'[o].worker = conn[o].worker
      BY <1>0, <2>1 DEF Begin, TypeOK
    <3>. QED BY <1>0, <1>7, <2>1, <3>1 DEF RunStage, LinkInv
  <2>. QED BY <1>0, <1>7, <2>3, <2>4 DEF RunStage, TypeOK, TaskInv, OwnDocs, IInv
<1>8. ASSUME NEW w \in Workers, RecordOutcome(w) PROVE IInv'
  <2>1. PICK job \in JobsSeen("running") : rows' = (rows \ {job}) \cup {[job EXCEPT !.state = "ended"]}
    BY <1>8 DEF RecordOutcome
  <2>2. job \in rows BY DEF JobsSeen, Visible
  <2>3. rows' \subseteq Row /\ OwnDocs' BY <2>1, <2>2, JobMoves DEF States
  <2>4. task' = [task EXCEPT ![w] = NoTask] /\ conn' = conn /\ task[w].pc = "record"
    BY <1>8 DEF RecordOutcome
  <2>5. task' \in [Workers -> Task] /\ TaskInv'
    BY <1>0, <2>4 DEF TypeOK, TaskInv, NoTask, Task
  <2>6. LinkInv'
    <3>1. \A k \in AppConns : conn[k].worker # w BY <1>0, <2>4, WorkersAssumption DEF LinkInv, Stages
    <3>2. \A v \in Workers \ {w} : task'[v] = task[v] BY <1>0, <2>4 DEF TypeOK
    <3>3. \A k \in AppConns : conn[k].worker \in Workers \cup {NoWorker} BY <1>0 DEF TypeOK, Conn
    <3>. QED BY <1>0, <2>4, <3>1, <3>2, <3>3 DEF LinkInv
  <2>7. ConnInv' BY <1>0, <2>4 DEF ConnInv
  <2>. QED BY <1>0, <1>8, <2>3, <2>5, <2>6, <2>7 DEF RecordOutcome, TypeOK, IInv
<1>9. CASE UNCHANGED vars
  BY <1>0, <1>9 DEF vars, TypeOK, ConnInv, TaskInv, LinkInv, OwnDocs, IInv
<1>. QED
  BY <1>1, <1>2, <1>3, <1>4, <1>5, <1>6, <1>7, <1>8, <1>9 DEF Next, ConnStep, WorkerStep

-----------------------------------------------------------------------------
\* The inductive invariant holds in every reachable state of every handler and of
\* the worker (db.py, api/*.py, jobs.py).
THEOREM Invariance == Spec => []IInv
BY InitInv, NextInv, PTL DEF Spec

\* Types are kept: rows, sessions and tasks are always those of the schema.
THEOREM TypeCorrect == Spec => []TypeOK
<1>1. IInv => TypeOK BY DEF IInv
<1>. QED BY Invariance, <1>1, PTL

\* A session is shown its own client's rows only, and a connection without a tenant
\* is shown nothing, whoever used it before (tenant_session, tenant_isolation): the
\* setting falls back to "unset" or blank, and no client is called that.
THEOREM IsolationHolds == Spec => []Isolation
<1>1. ASSUME IInv, NEW k \in AppConns
      PROVE  /\ \A r \in conn[k].seen : r.client = conn[k].client
             /\ conn[k].pc \in {"pooled", "begun"} => Visible("engine_app", conn[k].setting) = {}
  <2>1. SessionInv(conn[k]) BY <1>1 DEF IInv, ConnInv
  <2>2. ASSUME conn[k].pc \in {"pooled", "begun"}
        PROVE  Visible("engine_app", conn[k].setting) = {}
    <3>1. conn[k].setting \notin Clients BY <2>1, <2>2, ClientsAssumption DEF SessionInv
    <3>. QED BY <3>1 DEF Visible, Admits
  <2>. QED BY <2>1, <2>2 DEF SessionInv
<1>2. IInv => Isolation BY <1>1 DEF Isolation
<1>. QED BY Invariance, <1>2, PTL

\* No row hangs on another client's document, whatever ids requests name.
THEOREM ChildrenStay == Spec => []ChildrenStayWithParents
<1>1. IInv => ChildrenStayWithParents BY DEF IInv, OwnDocs, ChildrenStayWithParents
<1>. QED BY Invariance, <1>1, PTL

-----------------------------------------------------------------------------
(* Every client has tables of its own *)

Shown == [k \in AppConns |-> Entries(conn[k].seen)]

\* Documents have one state; a statement has a document and is provisional or not.
Sorted(r) ==
    /\ r.table = "documents" => r.doc # NoDoc /\ r.state = "plain"
    /\ r.table = "atoms" => r.doc # NoDoc /\ r.state \in {"provisional", "reviewed"}

\* No statement is both: a replacement looks at what survived, a decision moves it.
OneState ==
    \A r, t \in rows :
        r.table = "atoms" /\ t.table = "atoms" /\ r.doc = t.doc => r.state = t.state

\* What a query found long ago was a row then.
RInv ==
    /\ IInv /\ OneState
    /\ \A r \in rows : Sorted(r)
    /\ \A k \in AppConns : \A r \in conn[k].seen : Sorted(r)

\* Rows of one client are told apart by their entries.
LEMMA EntryTellsApart ==
    ASSUME NEW r \in Row, NEW t \in Row, r.client = t.client, EntryOf(r) = EntryOf(t)
    PROVE  r = t
<1>1. r.table = t.table /\ r.doc = t.doc /\ r.state = t.state BY DEF EntryOf
<1>. QED BY <1>1 DEF Row

\* An entry is in a client's tables when its row is in the shared ones.
LEMMA EntryIsRow ==
    ASSUME rows \subseteq Row, NEW c \in Clients, NEW table \in Tables,
           NEW d \in Docs \cup {NoDoc}, NEW state \in States
    PROVE  Own!Entry(table, d, state) \in OwnRows[c] <=> New(table, c, d, state) \in rows
<1> DEFINE n == New(table, c, d, state)
<1>1. n \in Row /\ n.client = c /\ EntryOf(n) = Own!Entry(table, d, state)
  BY DEF Row, New, EntryOf, Own!Entry
<1>2. OwnRows[c] = Entries({r \in rows : r.client = c}) BY DEF OwnRows
<1>3. ASSUME n \in rows PROVE Own!Entry(table, d, state) \in OwnRows[c]
  BY <1>1, <1>2, <1>3 DEF Entries
<1>4. ASSUME Own!Entry(table, d, state) \in OwnRows[c] PROVE n \in rows
  <2>1. PICK r \in rows : r.client = c /\ EntryOf(r) = Own!Entry(table, d, state)
    BY <1>2, <1>4 DEF Entries
  <2>2. r = n BY <2>1, <1>1, EntryTellsApart
  <2>. QED BY <2>1, <2>2
<1>. QED BY <1>3, <1>4

\* A write to rows of one client is a write to its tables and to no others.
LEMMA OneClientChanges ==
    ASSUME rows \subseteq Row, NEW c \in Clients, NEW X, NEW Y, X \subseteq Row, Y \subseteq Row,
           \A r \in X \cup Y : r.client = c,
           rows' = (rows \ X) \cup Y
    PROVE  OwnRows' = [OwnRows EXCEPT ![c] = (OwnRows[c] \ Entries(X)) \cup Entries(Y)]
<1> DEFINE Of(some, e) == Entries({r \in some : r.client = e})
           changed == (OwnRows[c] \ Entries(X)) \cup Entries(Y)
<1>1. OwnRows = [e \in Clients |-> Of(rows, e)] /\ OwnRows' = [e \in Clients |-> Of(rows', e)]
  BY DEF OwnRows, Entries
<1>2. ASSUME NEW e \in Clients, e # c PROVE Of(rows', e) = Of(rows, e)
  <2>1. {r \in rows' : r.client = e} = {r \in rows : r.client = e} BY <1>2
  <2>. QED BY <2>1
<1>3. Of(rows', c) = changed
  <2>1. ASSUME NEW x \in Of(rows', c) PROVE x \in changed
    <3>1. PICK r \in rows' : r.client = c /\ x = EntryOf(r) BY <2>1 DEF Entries
    <3>2. CASE r \in Y BY <3>1, <3>2 DEF Entries
    <3>3. CASE r \in rows \ X
      <4>1. x \in OwnRows[c] BY <1>1, <3>1, <3>3 DEF Entries
      <4>2. \A t \in X : EntryOf(t) # x BY <3>1, <3>3, EntryTellsApart
      <4>3. x \notin Entries(X) BY <4>2 DEF Entries
      <4>. QED BY <4>1, <4>3
    <3>. QED BY <3>1, <3>2, <3>3
  <2>2. ASSUME NEW x \in changed PROVE x \in Of(rows', c)
    <3>1. CASE x \in Entries(Y)
      <4>1. PICK r \in Y : x = EntryOf(r) BY <3>1 DEF Entries
      <4>. QED BY <4>1 DEF Entries
    <3>2. CASE x \in OwnRows[c] \ Entries(X)
      <4>1. PICK r \in rows : r.client = c /\ x = EntryOf(r) BY <1>1, <3>2 DEF Entries
      <4>2. r \notin X BY <4>1, <3>2 DEF Entries
      <4>. QED BY <4>1, <4>2 DEF Entries
    <3>. QED BY <2>2, <3>1, <3>2
  <2>. QED BY <2>1, <2>2
<1>. QED BY <1>1, <1>2, <1>3

\* What a commit may take out and put in.
LEMMA Written ==
    ASSUME RInv, NEW k \in AppConns, Commit(k)
    PROVE  LET s == conn[k] IN
           /\ s \in Conn /\ s.client \in Clients /\ s.setting = s.client
           /\ s.op \in {"upload", "reprocess", "clean", "atomise", "decide", "build", "profile"}
           /\ s.op \notin {"build", "profile"} => s.doc \in DocsOf(s.client)
           /\ s.op \in {"build", "profile"} => s.doc = NoDoc
           /\ s.op \in {"upload", "reprocess", "clean", "atomise", "build", "profile"} =>
                 \A r \in Inserted(s) : r.client = s.client
           /\ \A r \in s.seen : r \in Row /\ r.client = s.client /\ Asked(s, r) /\ Sorted(r)
           /\ s.op = "decide" => s.seen # {} /\ s.seen \subseteq rows
<1> DEFINE s == conn[k]
<1>1. s \in Conn /\ SessionInv(s) /\ s.pc = "queried" /\ Continues(s)
  BY DEF RInv, IInv, TypeOK, ConnInv, Commit
<1>2. s.client \in Clients /\ s.setting = s.client /\ s.op # "register" BY <1>1 DEF SessionInv
<1>3. s.op \in {"upload", "reprocess", "clean", "atomise", "decide", "build", "profile"}
  BY <1>1, <1>2 DEF Conn, Requests, Stages, Continues
<1>4. \A r \in s.seen : r \in Row /\ r.client = s.client /\ Asked(s, r) /\ Sorted(r)
  BY <1>1 DEF RInv, SessionInv, Conn
<1>5. s.op \in {"build", "profile"} => s.doc = NoDoc BY <1>1 DEF SessionInv
<1>6. s.op \notin {"build", "profile"} => s.doc \in DocsOf(s.client)
  <2>1. CASE s.op = "upload" BY <1>1, <2>1 DEF SessionInv
  <2>2. CASE s.op \in {"reprocess", "clean", "atomise", "decide"}
    <3>1. PICK r \in s.seen : TRUE BY <1>1, <2>2 DEF Continues
    <3>2. r.doc = s.doc /\ r.doc # NoDoc BY <1>4, <2>2, <3>1 DEF Asked, Sorted
    <3>3. r.doc.owner = s.client /\ r.doc \in Docs BY <1>1, <1>4, <3>1, <3>2 DEF SessionInv, Row
    <3>. QED BY <3>2, <3>3 DEF Docs, DocsOf
  <2>. QED BY <1>3, <2>1, <2>2
<1>7. s.op \in {"upload", "reprocess", "clean", "atomise", "build", "profile"} =>
         \A r \in Inserted(s) : r.client = s.client
  BY DEF Inserted, New
<1>8. s.op = "decide" => s.seen # {} /\ s.seen \subseteq rows BY <1>1 DEF Continues, Commit
<1>. QED BY <1>1, <1>2, <1>3, <1>4, <1>5, <1>6, <1>7, <1>8

\* A statement that was seen is one of two rows, and no other has its document.
LEMMA Decided ==
    ASSUME RInv, NEW k \in AppConns, Commit(k), conn[k].op = "decide"
    PROVE  LET s == conn[k]
               atom(state) == New("atoms", s.client, s.doc, state)
           IN
           /\ \A r \in s.seen : r \in {atom("provisional"), atom("reviewed")}
           /\ Inserted(s) = {New("decisions", s.client, s.doc, "plain"), atom("reviewed")}
           /\ Removed(s) = s.seen
           /\ \A r \in rows : r.table = "atoms" /\ r.doc = s.doc => r \in s.seen
<1> DEFINE s == conn[k]
           atom(state) == New("atoms", s.client, s.doc, state)
<1>1. ASSUME NEW r \in s.seen PROVE r \in {atom("provisional"), atom("reviewed")}
  <2>1. r \in Row /\ r.client = s.client /\ r.table = "atoms" /\ r.doc = s.doc
        /\ r.state \in {"provisional", "reviewed"}
    BY Written DEF Asked, Sorted
  <2>. QED BY <2>1 DEF Row, New
<1>2. \A r \in s.seen : [r EXCEPT !.state = "reviewed"] = atom("reviewed") BY <1>1 DEF New
<1>3. PICK t \in s.seen : t \in rows BY Written
<1>4. Inserted(s) = {New("decisions", s.client, s.doc, "plain"), atom("reviewed")}
  <2>1. {[r EXCEPT !.state = "reviewed"] : r \in s.seen} = {atom("reviewed")} BY <1>2, <1>3
  <2>. QED BY <2>1 DEF Inserted
<1>5. ASSUME NEW r \in rows, r.table = "atoms", r.doc = s.doc PROVE r \in s.seen
  <2>1. t.table = "atoms" /\ t.doc = s.doc /\ t.client = s.client /\ s.doc # NoDoc
    BY <1>1, <1>3, Written, NoDocAssumption DEF New, DocsOf, Docs
  <2>2. r.state = t.state BY <1>3, <1>5, <2>1 DEF RInv, OneState
  <2>3. r.client = t.client BY <1>3, <1>5, <2>1 DEF RInv, IInv, OwnDocs
  <2>4. r = t BY <1>3, <1>5, <2>1, <2>2, <2>3 DEF RInv, IInv, TypeOK, Row
  <2>. QED BY <2>4
<1>. QED BY <1>1, <1>4, <1>5 DEF Removed

LEMMA CommitSorted ==
    ASSUME RInv, NEW k \in AppConns, Commit(k)
    PROVE  OneState' /\ \A r \in rows' : Sorted(r)
<1> DEFINE s == conn[k]
           atom(state) == New("atoms", s.client, s.doc, state)
<1>1. rows' = (rows \ Removed(s)) \cup Inserted(s) BY DEF Commit
<1>2. s.op \notin {"build", "profile"} => s.doc # NoDoc
  BY Written, NoDocAssumption DEF DocsOf, Docs
<1>3. CASE s.op = "decide"
  <2>1. \A r \in Inserted(s) : Sorted(r) BY <1>2, <1>3, Decided DEF Sorted, New
  <2>2. ASSUME NEW r \in rows', r.table = "atoms", r.doc = s.doc PROVE r = atom("reviewed")
    <3>1. r \notin rows \ Removed(s) BY <1>3, <2>2, Decided
    <3>2. r \in {New("decisions", s.client, s.doc, "plain"), atom("reviewed")}
      BY <1>1, <1>3, <2>2, <3>1, Decided
    <3>. QED BY <2>2, <3>2 DEF New
  <2>3. ASSUME NEW r \in rows', r.table = "atoms", r.doc # s.doc PROVE r \in rows
    <3>1. r \notin Inserted(s) BY <1>3, <2>3, Decided DEF New
    <3>. QED BY <1>1, <3>1
  <2>4. OneState' BY <2>2, <2>3 DEF RInv, OneState
  <2>. QED BY <1>1, <2>1, <2>4 DEF RInv
<1>4. CASE s.op = "atomise"
  <2> DEFINE fresh == IF atom("reviewed") \in rows THEN {} ELSE {atom("provisional")}
  <2>1. /\ Inserted(s) = {New("lineage", s.client, s.doc, "plain")} \cup fresh
        /\ Removed(s) = {r \in Visible("engine_app", s.setting) :
                            r.table = "atoms" /\ r.doc = s.doc /\ r.state = "provisional"}
    BY <1>4 DEF Inserted, Removed
  <2>2. \A r \in Inserted(s) : Sorted(r) BY <1>2, <1>4, <2>1 DEF Sorted, New
  <2>3. ASSUME NEW r \in rows', r.table = "atoms", r.doc = s.doc
        PROVE  r = IF atom("reviewed") \in rows THEN atom("reviewed") ELSE atom("provisional")
    <3>1. CASE r \in Inserted(s) BY <2>1, <2>3, <3>1 DEF New
    <3>2. CASE r \in rows \ Removed(s)
      <4>1. r \in Row /\ r.state \in {"provisional", "reviewed"} /\ r.doc.owner = r.client
        BY <1>2, <1>4, <2>3, <3>2 DEF RInv, IInv, TypeOK, OwnDocs, Sorted
      <4>2. r.client = s.client /\ s.setting \in Clients /\ s.setting = s.client
        BY <1>4, <2>3, <4>1, Written DEF DocsOf
      <4>3. r \in Visible("engine_app", s.setting)
        BY <2>3, <3>2, <4>2 DEF Visible, Granted, Admits, Tables
      <4>4. r.state = "reviewed" BY <2>1, <2>3, <3>2, <4>1, <4>3
      <4>5. r = atom("reviewed") BY <2>3, <4>1, <4>2, <4>4 DEF Row, New
      <4>. QED BY <3>2, <4>5
    <3>. QED BY <1>1, <3>1, <3>2
  <2>4. ASSUME NEW r \in rows', r.table = "atoms", r.doc # s.doc PROVE r \in rows
    <3>1. r \notin Inserted(s) BY <2>1, <2>4 DEF New
    <3>. QED BY <1>1, <3>1
  <2>5. OneState' BY <2>3, <2>4 DEF RInv, OneState
  <2>. QED BY <1>1, <2>2, <2>5 DEF RInv
<1>5. CASE s.op \in {"upload", "reprocess", "clean", "build", "profile"}
  <2>1. \A r \in Inserted(s) : Sorted(r) /\ r.table # "atoms"
    BY <1>2, <1>5 DEF Inserted, Sorted, New
  <2>2. OneState' BY <1>1, <2>1 DEF RInv, OneState
  <2>. QED BY <1>1, <2>1, <2>2 DEF RInv
<1>. QED BY <1>3, <1>4, <1>5, Written

LEMMA RInvStep == RInv /\ [Next]_vars => RInv'
<1> SUFFICES ASSUME RInv, [Next]_vars PROVE RInv' OBVIOUS
<1>1. IInv /\ IInv' BY NextInv DEF RInv
<1>2. conn \in [AppConns -> Conn] /\ rows \subseteq Row BY <1>1 DEF IInv, TypeOK
<1> DEFINE SeenKept == \A k \in AppConns : \A r \in conn'[k].seen : r \in conn[k].seen \cup rows
           RowsKept == OneState' /\ \A r \in rows' : Sorted(r)
<1>3. ASSUME NEW k \in AppConns, conn' = Pooled(k) PROVE SeenKept
  BY <1>2, <1>3 DEF Pooled, NewConn
<1>4. ASSUME NEW k \in AppConns, NEW op, NEW c, NEW d, NEW w, Begin(k, op, c, d, w) PROVE SeenKept
  BY <1>2, <1>4 DEF Begin
<1>5. ASSUME NEW k \in AppConns, SetTenant(k) PROVE SeenKept
  <2>1. conn[k] \in Conn BY <1>2
  <2>. QED BY <1>2, <1>5, <2>1 DEF SetTenant, Conn
<1>6. ASSUME NEW k \in AppConns, Query(k) PROVE SeenKept
  <2>1. conn[k] \in Conn BY <1>2
  <2>. QED BY <1>2, <1>6, <2>1 DEF Query, Conn, Visible
<1>7. ASSUME NEW job \in rows, NEW state \in States, job.table = "jobs",
             rows' = (rows \ {job}) \cup {[job EXCEPT !.state = state]}
      PROVE  RowsKept
  <2>1. job \in Row BY <1>2
  <2>2. [job EXCEPT !.state = state].table = "jobs" BY <1>7, <2>1 DEF Row
  <2>. QED BY <1>7, <2>2 DEF RInv, OneState, Sorted
<1>8. ASSUME SeenKept, RowsKept PROVE RInv' BY <1>1, <1>8 DEF RInv
<1>9. ASSUME NEW k \in AppConns, ConnStep(k) PROVE RInv'
  <2>1. CASE ReceiveAny(k)
    <3>1. SeenKept BY <1>4, <2>1 DEF ReceiveAny, Receive
    <3>2. UNCHANGED rows BY <2>1 DEF ReceiveAny, Receive
    <3>. QED BY <1>8, <3>1, <3>2 DEF RInv, OneState
  <2>2. CASE CreateClient(k) \/ SetTenant(k) \/ Query(k) \/ Close(k)
    <3>1. SeenKept BY <1>3, <1>5, <1>6, <2>2 DEF CreateClient, Close
    <3>2. UNCHANGED rows BY <2>2 DEF CreateClient, SetTenant, Query, Close
    <3>. QED BY <1>8, <3>1, <3>2 DEF RInv, OneState
  <2>3. CASE Commit(k)
    <3>1. SeenKept BY <1>3, <2>3 DEF Commit
    <3>. QED BY <1>8, <2>3, <3>1, CommitSorted
  <2>. QED BY <1>9, <2>1, <2>2, <2>3 DEF ConnStep
<1>10. ASSUME NEW w \in Workers, WorkerStep(w) PROVE RInv'
  <2>1. CASE Claim(w) \/ RecordOutcome(w)
    <3>1. PICK job \in rows, state \in States :
             job.table = "jobs" /\ rows' = (rows \ {job}) \cup {[job EXCEPT !.state = state]}
      BY <2>1 DEF Claim, RecordOutcome, JobsSeen, Visible, Granted, States
    <3>2. RowsKept BY <1>7, <3>1
    <3>3. SeenKept BY <2>1 DEF Claim, RecordOutcome
    <3>. QED BY <1>8, <3>2, <3>3
  <2>2. CASE \E k \in AppConns : RunStage(w, k)
    <3>1. SeenKept BY <1>4, <2>2 DEF RunStage
    <3>2. UNCHANGED rows BY <2>2 DEF RunStage
    <3>. QED BY <1>8, <3>1, <3>2 DEF RInv, OneState
  <2>. QED BY <1>10, <2>1, <2>2 DEF WorkerStep
<1>11. CASE UNCHANGED vars
  BY <1>1, <1>11 DEF vars, RInv, OneState
<1>. QED BY <1>9, <1>10, <1>11 DEF Next

\* What the handlers do to the tables of their client.
LEMMA CommitChanges ==
    ASSUME RInv, NEW k \in AppConns, Commit(k)
    PROVE  Own!Changed(conn[k].client, OwnRows[conn[k].client])
<1> DEFINE s == conn[k]
           c == s.client
           d == s.doc
           T == OwnRows[c]
           E(table, state) == Own!Entry(table, d, state)
<1>1. /\ rows \subseteq Row /\ rows' = (rows \ Removed(s)) \cup Inserted(s)
      /\ Insertable(s.setting, Inserted(s))
      /\ c \in Clients /\ s.setting = c /\ s \in Conn /\ d \in Docs \cup {NoDoc}
      /\ s.op \in {"upload", "reprocess", "clean", "atomise", "decide", "build", "profile"}
  BY Written DEF RInv, IInv, TypeOK, Commit, Conn
<1>2. s.op \notin {"build", "profile"} => d \in DocsOf(c) /\ d # NoDoc
  BY Written, NoDocAssumption DEF DocsOf, Docs
<1>3. \A table \in Tables, state \in States : New(table, c, d, state) \in Row
  BY <1>1 DEF Row, New
<1>4. \A table \in Tables, state \in States :
         /\ EntryOf(New(table, c, d, state)) = E(table, state)
         /\ E(table, state) \in T <=> New(table, c, d, state) \in rows
  BY <1>1, EntryIsRow DEF New, EntryOf, Own!Entry
<1>5. ASSUME NEW X \in SUBSET Row, NEW Y \in SUBSET Row, \A r \in X \cup Y : r.client = c,
             Removed(s) = X, Inserted(s) = Y
      PROVE  OwnRows' = [OwnRows EXCEPT ![c] = (T \ Entries(X)) \cup Entries(Y)]
  BY <1>1, <1>5, OneClientChanges
<1>6. ASSUME NEW r \in Inserted(s), r.table \in Children, r.doc = d, d # NoDoc,
             \A t \in Inserted(s) : t.table # "documents"
      PROVE  Own!HasDoc(T, d)
  <2>1. PICK t \in rows : t.table = "documents" /\ t.doc = d BY <1>1, <1>6 DEF Insertable
  <2>2. t \in Row /\ t.state = "plain" /\ t.client = d.owner
    BY <1>1, <1>6, <2>1 DEF RInv, IInv, OwnDocs, Sorted
  <2>3. d.owner = c
    <3>1. CASE s.op \in {"build", "profile"} BY <1>6, <3>1, Written
    <3>2. CASE s.op \notin {"build", "profile"} BY <1>2, <3>2 DEF DocsOf
    <3>. QED BY <3>1, <3>2
  <2>4. t = New("documents", c, d, "plain") BY <2>1, <2>2, <2>3 DEF Row, New
  <2>. QED BY <1>4, <2>1, <2>4 DEF Own!HasDoc, Tables, States
<1>7. CASE s.op = "upload"
  <2> DEFINE Y == {New("documents", c, d, "plain"), New("jobs", c, d, "queued")}
  <2>1. Removed(s) = {} /\ Inserted(s) = Y BY <1>7 DEF Removed, Inserted
  <2>2. Y \in SUBSET Row /\ \A r \in Y : r.client = c BY <1>3 DEF New, Tables, States
  <2>3. Entries(Y) = {E("documents", "plain"), E("jobs", "queued")} /\ Entries({}) = {}
    BY <1>4 DEF Entries, Tables, States
  <2>4. OwnRows' = [OwnRows EXCEPT ![c] = (T \ Entries({})) \cup Entries(Y)]
    BY <1>5, <2>1, <2>2
  <2>5. (T \ Entries({})) \cup Entries(Y) = Own!Uploaded(T, d) BY <2>3 DEF Own!Uploaded
  <2>6. New("documents", c, d, "plain") \notin rows
    <3>1. New("documents", c, d, "plain") \in Inserted(s)
          /\ New("documents", c, d, "plain").table = "documents"
      BY <2>1 DEF New
    <3>. QED BY <1>1, <3>1 DEF Insertable
  <2>7. ~Own!HasDoc(T, d) BY <1>4, <2>6 DEF Own!HasDoc, Tables, States
  <2>. QED BY <1>2, <1>7, <2>4, <2>5, <2>7 DEF Own!Changed
<1>8. CASE s.op \in {"reprocess", "build"}
  <2> DEFINE Y == {New("jobs", c, d, "queued")}
  <2>1. Removed(s) = {} /\ Inserted(s) = Y BY <1>8 DEF Removed, Inserted
  <2>2. Y \in SUBSET Row /\ \A r \in Y : r.client = c BY <1>3 DEF New, Tables, States
  <2>3. Entries(Y) = {E("jobs", "queued")} /\ Entries({}) = {} BY <1>4 DEF Entries, Tables, States
  <2>4. OwnRows' = [OwnRows EXCEPT ![c] = (T \ Entries({})) \cup Entries(Y)]
    BY <1>5, <2>1, <2>2
  <2>5. (T \ Entries({})) \cup Entries(Y) = Own!Queued(T, d) BY <2>3 DEF Own!Queued
  <2>6. CASE s.op = "build"
    <3>1. d = NoDoc BY <2>6, Written
    <3>. QED BY <2>4, <2>5, <3>1 DEF Own!Changed
  <2>7. CASE s.op = "reprocess"
    <3>1. New("jobs", c, d, "queued") \in Inserted(s) /\ \A t \in Inserted(s) : t.table # "documents"
      BY <2>1 DEF New
    <3>2. Own!HasDoc(T, d) BY <1>2, <1>6, <2>7, <3>1 DEF New, Children
    <3>. QED BY <1>2, <2>4, <2>5, <2>7, <3>2 DEF Own!Changed
  <2>. QED BY <1>8, <2>6, <2>7
<1>9. CASE s.op = "clean"
  <2> DEFINE Y == {New("lineage", c, d, "plain")}
  <2>1. Removed(s) = {} /\ Inserted(s) = Y BY <1>9 DEF Removed, Inserted
  <2>2. Y \in SUBSET Row /\ \A r \in Y : r.client = c BY <1>3 DEF New, Tables, States
  <2>3. Entries(Y) = {E("lineage", "plain")} /\ Entries({}) = {} BY <1>4 DEF Entries, Tables, States
  <2>4. OwnRows' = [OwnRows EXCEPT ![c] = (T \ Entries({})) \cup Entries(Y)]
    BY <1>5, <2>1, <2>2
  <2>5. (T \ Entries({})) \cup Entries(Y) = Own!Recorded(T, d) BY <2>3 DEF Own!Recorded
  <2>6. New("lineage", c, d, "plain") \in Inserted(s) /\ \A t \in Inserted(s) : t.table # "documents"
    BY <2>1 DEF New
  <2>7. Own!HasDoc(T, d) BY <1>2, <1>6, <1>9, <2>6 DEF New, Children
  <2>. QED BY <1>2, <1>9, <2>4, <2>5, <2>7 DEF Own!Changed
<1>10. CASE s.op = "profile"
  <2> DEFINE Y == {New("voice_profiles", c, d, "plain")}
  <2>1. Removed(s) = {} /\ Inserted(s) = Y BY <1>10 DEF Removed, Inserted
  <2>2. Y \in SUBSET Row /\ \A r \in Y : r.client = c BY <1>3 DEF New, Tables, States
  <2>3. Entries(Y) = {E("voice_profiles", "plain")} /\ Entries({}) = {}
    BY <1>4 DEF Entries, Tables, States
  <2>4. OwnRows' = [OwnRows EXCEPT ![c] = (T \ Entries({})) \cup Entries(Y)]
    BY <1>5, <2>1, <2>2
  <2>5. d = NoDoc BY <1>10, Written
  <2>6. (T \ Entries({})) \cup Entries(Y) = Own!Profiled(T) BY <2>3, <2>5 DEF Own!Profiled
  <2>. QED BY <2>4, <2>6 DEF Own!Changed
<1>11. CASE s.op = "atomise"
  <2> DEFINE prov == New("atoms", c, d, "provisional")
             rev == New("atoms", c, d, "reviewed")
             fresh == IF rev \in rows THEN {} ELSE {prov}
             X == {prov} \cap rows
             Y == {New("lineage", c, d, "plain")} \cup fresh
  <2>1. Inserted(s) = Y BY <1>11 DEF Inserted
  <2>2. Removed(s) = X
    <3>1. Removed(s) = {r \in Visible("engine_app", c) :
                           r.table = "atoms" /\ r.doc = d /\ r.state = "provisional"}
      BY <1>1, <1>11 DEF Removed
    <3>2. ASSUME NEW r \in Removed(s) PROVE r \in X
      <4>1. r \in rows /\ r.client = c BY <1>1, <3>1, <3>2 DEF Visible, Admits
      <4>2. r = prov BY <1>1, <3>1, <3>2, <4>1 DEF Row, New
      <4>. QED BY <4>1, <4>2
    <3>3. ASSUME NEW r \in X PROVE r \in Removed(s)
      BY <1>1, <3>1, <3>3 DEF Visible, Admits, Granted, New, Tables
    <3>. QED BY <3>2, <3>3
  <2>3. X \in SUBSET Row /\ Y \in SUBSET Row /\ \A r \in X \cup Y : r.client = c
    BY <1>1, <1>3 DEF New, Tables, States
  <2>4. OwnRows' = [OwnRows EXCEPT ![c] = (T \ Entries(X)) \cup Entries(Y)]
    BY <1>5, <2>1, <2>2, <2>3
  <2>5. /\ EntryOf(prov) = E("atoms", "provisional")
        /\ E("atoms", "provisional") \in T <=> prov \in rows
        /\ E("atoms", "reviewed") \in T <=> rev \in rows
        /\ EntryOf(New("lineage", c, d, "plain")) = E("lineage", "plain")
    BY <1>4 DEF Tables, States
  <2>6. T \ Entries(X) = T \ {E("atoms", "provisional")} BY <2>5 DEF Entries
  <2>7. Entries(Y) = {E("lineage", "plain")}
           \cup (IF E("atoms", "reviewed") \in T THEN {} ELSE {E("atoms", "provisional")})
    BY <2>5 DEF Entries
  <2>8. (T \ Entries(X)) \cup Entries(Y) = Own!Replaced(T, d)
    BY <2>6, <2>7 DEF Own!Replaced, Own!Recorded
  <2>9. New("lineage", c, d, "plain") \in Inserted(s) /\ \A t \in Inserted(s) : t.table # "documents"
    BY <2>1 DEF New
  <2>10. Own!HasDoc(T, d) BY <1>2, <1>6, <1>11, <2>9 DEF New, Children
  <2>. QED BY <1>2, <1>11, <2>4, <2>8, <2>10 DEF Own!Changed
<1>12. CASE s.op = "decide"
  <2> DEFINE prov == New("atoms", c, d, "provisional")
             rev == New("atoms", c, d, "reviewed")
             X == s.seen
             Y == {New("decisions", c, d, "plain"), rev}
  <2>1. /\ Inserted(s) = Y /\ Removed(s) = X /\ X \subseteq {prov, rev}
        /\ \A r \in rows : r.table = "atoms" /\ r.doc = d => r \in X
    BY <1>12, Decided
  <2>2. X # {} /\ X \subseteq rows BY <1>12, Written
  <2>3. X \in SUBSET Row /\ Y \in SUBSET Row /\ \A r \in X \cup Y : r.client = c
    <3>1. \A r \in {prov, rev, New("decisions", c, d, "plain")} : r \in Row /\ r.client = c
      BY <1>3 DEF New, Tables, States
    <3>. QED BY <2>1, <3>1
  <2>4. OwnRows' = [OwnRows EXCEPT ![c] = (T \ Entries(X)) \cup Entries(Y)]
    BY <1>5, <2>1, <2>3
  <2>5. /\ EntryOf(prov) = E("atoms", "provisional") /\ EntryOf(rev) = E("atoms", "reviewed")
        /\ E("atoms", "provisional") \in T <=> prov \in rows
        /\ E("atoms", "reviewed") \in T <=> rev \in rows
        /\ EntryOf(New("decisions", c, d, "plain")) = E("decisions", "plain")
    BY <1>4 DEF Tables, States
  <2>6. Entries(Y) = {E("decisions", "plain"), E("atoms", "reviewed")} BY <2>5 DEF Entries
  <2>7. prov \in rows => prov \in X BY <2>1 DEF New
  <2>8. Entries(X) \subseteq {E("atoms", "provisional"), E("atoms", "reviewed")}
        /\ (prov \in X => E("atoms", "provisional") \in Entries(X))
    BY <2>1, <2>5 DEF Entries
  <2>9. (T \ Entries(X)) \cup Entries(Y) = Own!Reviewed(T, d)
    BY <2>5, <2>6, <2>7, <2>8 DEF Own!Reviewed
  <2>10. {E("atoms", "provisional"), E("atoms", "reviewed")} \cap T # {} BY <2>1, <2>2, <2>5
  <2>. QED BY <1>2, <1>12, <2>4, <2>9, <2>10 DEF Own!Changed
<1>. QED BY <1>1, <1>7, <1>8, <1>9, <1>10, <1>11, <1>12

\* A job that is claimed or ends moves in the tables of the client it is for.
LEMMA JobMovesOwn ==
    ASSUME RInv, NEW job \in rows, job.table = "jobs",
           NEW step \in {<<"queued", "running">>, <<"running", "ended">>}, job.state = step[1],
           rows' = (rows \ {job}) \cup {[job EXCEPT !.state = step[2]]}
    PROVE  job.client \in Clients /\ Own!Changed(job.client, OwnRows[job.client])
<1> DEFINE c == job.client
           d == job.doc
           moved == [job EXCEPT !.state = step[2]]
<1>1. rows \subseteq Row /\ job \in Row /\ c \in Clients /\ d \in DocsOf(c) \cup {NoDoc}
  BY DEF RInv, IInv, TypeOK, OwnDocs, Row, Docs, DocsOf
<1>2. step[1] \in States /\ step[2] \in States BY DEF States
<1>3. moved \in Row /\ moved.client = c /\ EntryOf(moved) = Own!Entry("jobs", d, step[2])
      /\ EntryOf(job) = Own!Entry("jobs", d, step[1])
  BY <1>1, <1>2 DEF Row, EntryOf, Own!Entry
<1>4. OwnRows' = [OwnRows EXCEPT ![c] = (OwnRows[c] \ Entries({job})) \cup Entries({moved})]
  <2> DEFINE X == {job}
             Y == {moved}
  <2>1. X \subseteq Row /\ Y \subseteq Row /\ (\A r \in X \cup Y : r.client = c)
        /\ rows' = (rows \ X) \cup Y
    BY <1>1, <1>3
  <2> HIDE DEF X, Y
  <2>2. OwnRows' = [OwnRows EXCEPT ![c] = (OwnRows[c] \ Entries(X)) \cup Entries(Y)]
    BY <1>1, <2>1, OneClientChanges
  <2>. QED BY <2>2 DEF X, Y
<1>5. Entries({job}) = {EntryOf(job)} /\ Entries({moved}) = {EntryOf(moved)} BY DEF Entries
<1>6. (OwnRows[c] \ Entries({job})) \cup Entries({moved}) = Own!Moved(OwnRows[c], d, step[1], step[2])
  BY <1>3, <1>5 DEF Own!Moved
<1>7. Own!Entry("jobs", d, step[1]) \in OwnRows[c] BY <1>1, <1>3 DEF OwnRows, Entries
<1>. QED BY <1>1, <1>4, <1>6, <1>7 DEF Own!Changed

LEMMA OwnStep == RInv /\ [Next]_vars => [Own!Next]_<<OwnRows, Shown>>
<1> SUFFICES ASSUME RInv, [Next]_vars PROVE [Own!Next]_<<OwnRows, Shown>> OBVIOUS
<1>1. conn \in [AppConns -> Conn] /\ rows \subseteq Row /\ ConnInv BY DEF RInv, IInv, TypeOK
<1>2. ASSUME NEW k \in AppConns, \A o \in AppConns \ {k} : conn'[o].seen = conn[o].seen,
             conn'[k].seen = {} \/ conn'[k].seen = conn[k].seen
      PROVE  Own!Forget
  <2>1. CASE conn'[k].seen = {}
    <3>1. Shown' = [Shown EXCEPT ![k] = {}] BY <1>2, <2>1 DEF Shown, Entries
    <3>. QED BY <3>1 DEF Own!Forget, Shown
  <2>2. CASE conn'[k].seen = conn[k].seen
    <3>1. Shown' = Shown BY <1>2, <2>2 DEF Shown, Entries
    <3>. QED BY <3>1 DEF Own!Forget, Shown
  <2>. QED BY <1>2, <2>1, <2>2
<1>3. ASSUME NEW k \in AppConns, conn' = Pooled(k) PROVE Own!Forget
  <2>1. conn'[k].seen = {} /\ \A o \in AppConns \ {k} : conn'[o].seen = conn[o].seen
    BY <1>1, <1>3 DEF Pooled, NewConn
  <2>. QED BY <1>2, <2>1
<1>4. ASSUME NEW k \in AppConns, NEW op, NEW c, NEW d, NEW w, Begin(k, op, c, d, w) PROVE Own!Forget
  <2>1. conn'[k].seen = {} /\ \A o \in AppConns \ {k} : conn'[o].seen = conn[o].seen
    BY <1>1, <1>4 DEF Begin
  <2>. QED BY <1>2, <2>1
<1>5. ASSUME UNCHANGED rows, Own!Forget PROVE Own!Next
  BY <1>5 DEF OwnRows, Entries, Own!Next
<1>6. ASSUME NEW k \in AppConns, ConnStep(k) PROVE Own!Next
  <2>1. CASE ReceiveAny(k) BY <1>4, <1>5, <2>1 DEF ReceiveAny, Receive
  <2>2. CASE CreateClient(k) \/ Close(k) BY <1>3, <1>5, <2>2 DEF CreateClient, Close
  <2>3. CASE SetTenant(k)
    <3>1. conn[k] \in Conn BY <1>1
    <3>2. \A o \in AppConns : conn'[o].seen = conn[o].seen BY <1>1, <2>3, <3>1 DEF SetTenant, Conn
    <3>. QED BY <1>2, <1>5, <2>3, <3>2 DEF SetTenant
  <2>4. CASE Query(k)
    <3> DEFINE c == conn[k].client
               found == {r \in Visible("engine_app", conn[k].setting) : Asked(conn[k], r)}
    <3>1. conn[k] \in Conn /\ conn[k].setting = c /\ c \in Clients
      BY <1>1, <2>4 DEF Query, ConnInv, SessionInv
    <3>2. conn'[k].seen = found /\ \A o \in AppConns \ {k} : conn'[o].seen = conn[o].seen
      BY <1>1, <2>4, <3>1 DEF Query, Conn
    <3>3. found \subseteq {r \in rows : r.client = c} BY <3>1 DEF Visible, Admits
    <3>4. Entries(found) \in SUBSET OwnRows[c] BY <3>1, <3>3 DEF OwnRows, Entries
    <3>5. Shown' = [Shown EXCEPT ![k] = Entries(found)] BY <3>2 DEF Shown, Entries
    <3>6. OwnRows' = OwnRows BY <2>4 DEF Query, OwnRows, Entries
    <3>7. Own!Answer(c) BY <3>4, <3>5, <3>6 DEF Own!Answer, Shown
    <3>. QED BY <3>1, <3>7 DEF Own!Next
  <2>5. CASE Commit(k)
    <3>1. Own!Forget BY <1>3, <2>5 DEF Commit
    <3>2. Own!Changed(conn[k].client, OwnRows[conn[k].client]) /\ conn[k].client \in Clients
      BY <2>5, CommitChanges, Written
    <3>. QED BY <3>1, <3>2 DEF Own!Next, Own!Act
  <2>. QED BY <1>6, <2>1, <2>2, <2>3, <2>4, <2>5 DEF ConnStep
<1>7. ASSUME NEW w \in Workers, WorkerStep(w) PROVE Own!Next
  <2>1. CASE Claim(w) \/ RecordOutcome(w)
    <3>1. PICK job \in rows, step \in {<<"queued", "running">>, <<"running", "ended">>} :
             /\ job.table = "jobs" /\ job.state = step[1]
             /\ rows' = (rows \ {job}) \cup {[job EXCEPT !.state = step[2]]}
      <4>1. CASE Claim(w)
        <5>1. PICK job \in rows : job.table = "jobs" /\ job.state = "queued"
                 /\ rows' = (rows \ {job}) \cup {[job EXCEPT !.state = "running"]}
          BY <4>1 DEF Claim, JobsSeen, Visible, Granted
        <5>. QED BY <5>1
      <4>2. CASE RecordOutcome(w)
        <5>1. PICK job \in rows : job.table = "jobs" /\ job.state = "running"
                 /\ rows' = (rows \ {job}) \cup {[job EXCEPT !.state = "ended"]}
          BY <4>2 DEF RecordOutcome, JobsSeen, Visible, Granted
        <5>. QED BY <5>1
      <4>. QED BY <2>1, <4>1, <4>2
    <3>2. job.client \in Clients /\ Own!Changed(job.client, OwnRows[job.client])
      BY <3>1, JobMovesOwn
    <3>3. Shown' = Shown BY <2>1 DEF Claim, RecordOutcome, Shown, Entries
    <3>4. Own!Forget BY <3>3 DEF Own!Forget, Shown
    <3>. QED BY <3>2, <3>4 DEF Own!Next, Own!Act
  <2>2. CASE \E k \in AppConns : RunStage(w, k) BY <1>4, <1>5, <2>2 DEF RunStage
  <2>. QED BY <1>7, <2>1, <2>2 DEF WorkerStep
<1>8. CASE UNCHANGED vars
  <2>1. OwnRows' = OwnRows /\ Shown' = Shown BY <1>8 DEF vars, OwnRows, Shown, Entries
  <2>. QED BY <2>1
<1>. QED BY <1>6, <1>7, <1>8 DEF Next

\* The shared tables, behind the policies, implement tables of each client's own: no
\* step reads or changes what is another client's (migration 0001, db.py).
THEOREM ImplementsOwnTables == Spec => Implements
<1>1. Init => RInv
  <2> SUFFICES ASSUME Init PROVE RInv OBVIOUS
  <2>. QED BY InitInv DEF Init, RInv, OneState, NewConn
<1>2. Init => Own!Init
  BY DEF Init, OwnRows, Entries, NewConn, Own!Init
<1>. QED BY <1>1, <1>2, RInvStep, OwnStep, PTL DEF Spec, Implements, Own!Spec, Shown

=============================================================================
