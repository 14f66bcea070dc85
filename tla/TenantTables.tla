----------------------------- MODULE TenantTables -----------------------------
(***************************************************************************)
(* What tenant isolation promises (migration 0001, db.py): every client    *)
(* works as if it had tables of its own.  A step reads and writes the      *)
(* tables of one client, and what a session is shown comes from them.      *)
(***************************************************************************)
CONSTANTS Clients, DocsOf(_), NoDoc, Sessions

VARIABLES
    tables,   \* per client: its rows
    shown     \* per session: the rows its query returned

Entry(table, d, state) == [table |-> table, doc |-> d, state |-> state]

Init ==
    /\ tables = [c \in Clients |-> {}]
    /\ shown = [k \in Sessions |-> {}]

-----------------------------------------------------------------------------
(* What may happen to the tables of one client *)

Uploaded(rows, d) == rows \cup {Entry("documents", d, "plain"), Entry("jobs", d, "queued")}

Queued(rows, d) == rows \cup {Entry("jobs", d, "queued")}

Moved(rows, d, from, to) == (rows \ {Entry("jobs", d, from)}) \cup {Entry("jobs", d, to)}

Recorded(rows, d) == rows \cup {Entry("lineage", d, "plain")}

\* A fresh atom takes the place of the provisional one; a reviewed one stays.
Replaced(rows, d) ==
    Recorded(rows \ {Entry("atoms", d, "provisional")}, d)
    \cup (IF Entry("atoms", d, "reviewed") \in rows THEN {} ELSE {Entry("atoms", d, "provisional")})

Reviewed(rows, d) ==
    (rows \ {Entry("atoms", d, "provisional")})
    \cup {Entry("atoms", d, "reviewed"), Entry("decisions", d, "plain")}

Profiled(rows) == rows \cup {Entry("voice_profiles", NoDoc, "plain")}

HasDoc(rows, d) == Entry("documents", d, "plain") \in rows

Changed(c, rows) ==
    \/ \E d \in DocsOf(c) :
          \/ ~HasDoc(rows, d) /\ tables' = [tables EXCEPT ![c] = Uploaded(rows, d)]
          \/ /\ HasDoc(rows, d)
             /\ tables' \in {[tables EXCEPT ![c] = new] :
                   new \in {Queued(rows, d), Recorded(rows, d), Replaced(rows, d)}}
          \/ /\ {Entry("atoms", d, "provisional"), Entry("atoms", d, "reviewed")} \cap rows # {}
             /\ tables' = [tables EXCEPT ![c] = Reviewed(rows, d)]
    \/ \E d \in DocsOf(c) \cup {NoDoc}, step \in {<<"queued", "running">>, <<"running", "ended">>} :
          /\ Entry("jobs", d, step[1]) \in rows
          /\ tables' = [tables EXCEPT ![c] = Moved(rows, d, step[1], step[2])]
    \/ tables' \in {[tables EXCEPT ![c] = new] : new \in {Queued(rows, NoDoc), Profiled(rows)}}

\* A session that ends keeps nothing of what it was shown.
Forget == UNCHANGED shown \/ \E k \in Sessions : shown' = [shown EXCEPT ![k] = {}]

Act(c) == Changed(c, tables[c]) /\ Forget

Answer(c) ==
    /\ UNCHANGED tables
    /\ \E k \in Sessions, some \in SUBSET tables[c] : shown' = [shown EXCEPT ![k] = some]

Next == (\E c \in Clients : Act(c) \/ Answer(c)) \/ (UNCHANGED tables /\ Forget)

Spec == Init /\ [][Next]_<<tables, shown>>
=============================================================================
