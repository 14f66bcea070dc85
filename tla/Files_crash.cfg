\* Uploads, reprocessing, readers and restarts with a new cleaner.
SPECIFICATION Spec
CONSTANTS
    Docs = {d1, d2}
    NoDoc = NoDoc
    Cleaners = {c1, c2}
SYMMETRY Symmetry
INVARIANTS TypeOK RowsHaveFiles ReadsAreWhole
PROPERTIES RawWrittenOnce LineageNamesText
