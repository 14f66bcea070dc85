\* The deployed worker with stage failures and overlapping requests: everything
\* submitted settles.
SPECIFICATION FairSpec
CONSTANTS
    Docs = {d1, d2}
    NoDoc = NoDoc
    Workers = {w1}
    NoJob = NoJob
    MaxJobs = 3
    MaxCrashes = 0
    Faults = {"stage"}
INVARIANTS TypeOK SettledStatus NeverStranded
PROPERTIES EveryRunIsRecorded PollingEnds
CHECK_DEADLOCK FALSE
