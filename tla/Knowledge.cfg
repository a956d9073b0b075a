\* Two ingestions and searches at the same time, up to two documents, fulfilled or abandoned.
SPECIFICATION LiveSpec
CONSTANTS
    Documents = {d1, d2}
    Requests = {r1, r2}
    Texts <- Corpus
    Unreadable = Unreadable
    Size = 3
    Overlap = 1
    TopK = 1
    None = None
INVARIANTS
    IndexedIsWhole
    WindowsOverlap
    HitsHaveADocument
PROPERTIES
    IngestionEnds
