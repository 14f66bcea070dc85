\* Two workers, every failure, process deaths: what the claim guarantees.
SPECIFICATION FairSpec
CONSTANTS
    Docs = {d1}
    NoDoc = NoDoc
    Workers = {w1, w2}
    NoJob = NoJob
    MaxJobs = 2
    MaxCrashes = 2
    Faults = {"stage", "db"}
INVARIANTS OneWorkerPerJob StrandedIsOnRecord
PROPERTIES Implements EveryJobIsTaken
CHECK_DEADLOCK FALSE
