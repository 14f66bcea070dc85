\* A process death while a job runs.
SPECIFICATION FairSpec
CONSTANTS
    Docs = {d1}
    NoDoc = NoDoc
    Workers = {w1}
    NoJob = NoJob
    MaxJobs = 1
    MaxCrashes = 1
    Faults = {"stage"}
PROPERTIES EveryRunIsRecorded
CHECK_DEADLOCK FALSE
