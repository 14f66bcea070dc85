---------------------------- MODULE ReviewLedger ----------------------------
(***************************************************************************)
(* What the review workflow promises: atoms nobody has reviewed may come   *)
(* and go with each processing of their document, in one step; an atom     *)
(* with a decision stays, in a decided state, and every decision is kept.  *)
(***************************************************************************)
EXTENDS Sequences

CONSTANTS AtomIds, Docs

VARIABLES state, ledger

vars == <<state, ledger>>

Decided == {"confirmed", "deprecated"}
States == {"absent", "provisional"} \cup Decided

Init ==
    /\ state = [i \in AtomIds |-> "absent"]
    /\ ledger = <<>>

\* Provisional atoms of document d give way to new ones; nothing else moves.
Replace(d) ==
    /\ state' \in [AtomIds -> States]
    /\ \A i \in AtomIds :
          \/ state'[i] = state[i]
          \/ i.doc = d /\ {state[i], state'[i]} = {"absent", "provisional"}
    /\ UNCHANGED ledger

Decide(i, verdict) ==
    /\ state[i] # "absent"
    /\ state' = [state EXCEPT ![i] = verdict]
    /\ ledger' = Append(ledger, i)

Next ==
    \/ \E d \in Docs : Replace(d)
    \/ \E i \in AtomIds, verdict \in Decided : Decide(i, verdict)

Spec == Init /\ [][Next]_vars
=============================================================================
