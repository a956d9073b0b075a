\* One job and one analysis: stops where the job counts the detections of a deleted
\* inspection.
SPECIFICATION Spec
CONSTANTS
    i1 = i1
    i2 = i2
    crack = crack
    pothole = pothole
    rutting = rutting
    Inspections <- Pair
    SectionOf <- Sections
    Types <- Damages
    Outcomes <- Finds
    Jobs = {j1}
    Viewers = {v1}
    None = None
    MaxRuns = 1
    MaxJobs = 1
PROPERTIES
    DeletedAreFiltered
