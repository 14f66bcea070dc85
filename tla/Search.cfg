\* A search against the worker and an operator, with short legs and the
\* smallest damping constant that suffices for them.
SPECIFICATION SearchSpec
CONSTANTS
    Docs = {d1}
    NoDoc = NoDoc
    Hashes = {h1, h2, h3}
    NoText = NoText
    Workers = {w1}
    Operators = {o1}
    MaxRuns = 2
    MaxDecisions = 1
    RRF_K = 1
    LEG_LIMIT = 2
    Requests <- MCRequests
    CONSTRAINT_LIMIT = 1
SYMMETRY Symmetry
INVARIANTS SearchTypeOK StableAtomsAreFound DeprecatedStayHidden AgreementFirst ConstraintsAreIncluded
CHECK_DEADLOCK FALSE
