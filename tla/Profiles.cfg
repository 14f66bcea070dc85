\* Two workers that build at the same time, while documents and atoms change.
SPECIFICATION FairSpec
CONSTANTS
    Docs = {d1, d2}
    AtomsPerDoc = 1
    Sections = {s1}
    Workers = {w1, w2}
    MaxBuilds = 2
    MaxDecisions = 1
    BuilderFails = TRUE
INVARIANTS TypeOK VersionsAreDense DiffIsAgainstPredecessor EvidenceIsInCorpus
PROPERTIES BuildsAppear
CHECK_DEADLOCK FALSE
