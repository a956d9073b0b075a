\* Two jobs at the same time, next to two analyses and a client.
SPECIFICATION Spec
CONSTANTS
    i1 = i1
    i2 = i2
    crack = crack
    pothole = pothole
    rutting = rutting
    Inspections <- Pair
    SectionOf <- Sections
    Types <- Damages
    Outcomes <- Finds
    Jobs = {j1, j2}
    Viewers = {v1}
    None = None
    MaxRuns = 2
    MaxJobs = 2
SYMMETRY Symmetry
INVARIANTS
    SnapshotsAddUp
    SummaryIsWhole
