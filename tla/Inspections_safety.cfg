SPECIFICATION Spec
CONSTANTS
    Inspections = {i1}
    Requests = {r1,r2,r3}
    Objects = {o1, o2}
    Notes = {n1, n2}
    None = None
    MaxVersion = 4
    Faults = {"crash", "handler", "ack"}
SYMMETRY Symmetry
INVARIANTS
    OneRunPerInspection
    RunImpliesEnCours
    TermineeShowsLastRun
    ImagesAreStored
    SequenceWithoutGaps
PROPERTIES
    PatchFindsWhatWasRead
    DeletedIsFinal
    ImplementsSM1
CHECK_DEADLOCK FALSE
