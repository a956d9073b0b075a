SPECIFICATION Spec
CONSTANTS
    Models = {m1}
    Uploads = {u1, u2}
    Requests = {r1, r2}
    Tasks = {t1}
    None = None
    Default = Default
    Truncated = Truncated
INVARIANTS
    DetectionsNameTheirModel
CHECK_DEADLOCK FALSE
