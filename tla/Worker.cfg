\* Three analyses of one inspection, and two that contend for a detector while a
\* request registers and promotes two models.  The runs may all be over: no deadlock.
SPECIFICATION WaitSpec
CONSTANTS
    Inspections = {i1}
    Clients = {c1, c2}
    Objects = {o1, o2}
    Notes = {n1}
    MaxVersion = 3
    Models = {m1, m2}
    Uploads = {u1}
    Requests = {r1}
    Tasks = {t1, t2}
    None = None
    Default = Default
    Truncated = Truncated
INVARIANTS CacheTypeOK CacheIsRead
PROPERTIES LoadedOnce EveryTaskServed EveryRunEnds
CHECK_DEADLOCK FALSE
