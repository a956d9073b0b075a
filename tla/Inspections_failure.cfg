SPECIFICATION LiveSpec
CONSTANTS
    Inspections = {i1}
    Requests = {r1, r2}
    Objects = {o1}
    Notes = {n1}
    None = None
    MaxVersion = 2
    Faults = {"handler"}
PROPERTIES
    FailureSurfaces
CHECK_DEADLOCK FALSE
