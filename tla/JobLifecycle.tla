---------------------------- MODULE JobLifecycle ----------------------------
(***************************************************************************)
(* What the jobs table promises its callers, without sessions, locks or    *)
(* pipeline stages: a submitted job is started at most once, by one        *)
(* worker, and its recorded outcome is final.  A worker may vanish while   *)
(* it runs a job; the job then stays "running" with nobody behind it.      *)
(*                                                                         *)
(* runners[j] is the set of workers executing job j at this moment.        *)
(***************************************************************************)
CONSTANTS JobIds, Workers

VARIABLES status, runners

vars == <<status, runners>>

States == {"absent", "queued", "running", "done", "failed"}

TypeOK ==
    /\ status \in [JobIds -> States]
    /\ runners \in [JobIds -> SUBSET Workers]

Init ==
    /\ status = [j \in JobIds |-> "absent"]
    /\ runners = [j \in JobIds |-> {}]

\* A request handler commits a new row.
Submit(j) ==
    /\ status[j] = "absent"
    /\ status' = [status EXCEPT ![j] = "queued"]
    /\ UNCHANGED runners

\* A worker takes a queued job that nobody ran before.
Start(j, w) ==
    /\ status[j] = "queued"
    /\ status' = [status EXCEPT ![j] = "running"]
    /\ runners' = [runners EXCEPT ![j] = {w}]

\* The worker that runs the job records its single outcome.
Finish(j, outcome) ==
    /\ status[j] = "running"
    /\ runners[j] # {}
    /\ status' = [status EXCEPT ![j] = outcome]
    /\ runners' = [runners EXCEPT ![j] = {}]

\* The worker is gone before the outcome was recorded.
Abandon(j) ==
    /\ status[j] = "running"
    /\ runners[j] # {}
    /\ runners' = [runners EXCEPT ![j] = {}]
    /\ UNCHANGED status

Next ==
    \E j \in JobIds :
        \/ Submit(j)
        \/ \E w \in Workers : Start(j, w)
        \/ \E outcome \in {"done", "failed"} : Finish(j, outcome)
        \/ Abandon(j)

Spec == Init /\ [][Next]_vars
=============================================================================
