\* One operator at a time against the deployed single worker.
SPECIFICATION Spec
CONSTANTS
    Docs = {d1}
    NoDoc = NoDoc
    Hashes = {h1, h2, h3}
    NoText = NoText
    Workers = {w1}
    Operators = {o1}
    MaxRuns = 3
    MaxDecisions = 2
SYMMETRY Symmetry
INVARIANTS TypeOK LogExplainsAtoms SingleGeneration CollisionsAreOverrides
PROPERTIES NothingExtractedIsLost
CHECK_DEADLOCK FALSE
