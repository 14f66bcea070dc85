\* Reprocessing a document after an override.
SPECIFICATION Spec
CONSTANTS
    Docs = {d1}
    NoDoc = NoDoc
    Hashes = {h1, h2}
    NoText = NoText
    Workers = {w1}
    Operators = {o1}
    MaxRuns = 2
    MaxDecisions = 1
INVARIANTS CorrectionsStick
CHECK_DEADLOCK FALSE
