\* Documents, transcripts and answers of up to three elements.
SPECIFICATION Spec
CONSTANTS
    Heads = {h1, h2}
    Tails = {t}
    NoTail = NoTail
    NoText = NoText
    Levels = {1, 2, 3}
    Headings <- MCHeadings
    Lines <- MCLines
    Items <- MCItems
    MAX_ATOMS = 3
    MAX_ATOMS_PER_DOC = 2
    MaxLength = 3
SYMMETRY Symmetry
INVARIANTS TypeOK BreadcrumbEncloses DistinctAtoms NothingCrowdedOut
CHECK_DEADLOCK FALSE
