\* Two workers and two operators over two documents.
SPECIFICATION Spec
CONSTANTS
    Docs = {d1, d2}
    NoDoc = NoDoc
    Hashes = {h1, h2}
    NoText = NoText
    Workers = {w1, w2}
    Operators = {o1, o2}
    MaxRuns = 2
    MaxDecisions = 2
SYMMETRY Symmetry
INVARIANTS DecisionsKeepTheirAtom
PROPERTIES ReviewedSurvive Implements
CHECK_DEADLOCK FALSE
