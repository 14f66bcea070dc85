\* Two operators override one atom at the same time.
SPECIFICATION Spec
CONSTANTS
    Docs = {d1}
    NoDoc = NoDoc
    Hashes = {h1, h2}
    NoText = NoText
    Workers = {w1}
    Operators = {o1, o2}
    MaxRuns = 1
    MaxDecisions = 2
INVARIANTS EmbeddingIsOfText
CHECK_DEADLOCK FALSE
