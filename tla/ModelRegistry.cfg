SPECIFICATION RegistrySpec
CONSTANTS
    Models = {m1, m2, m3}
    Uploads = {u1}
    Requests = {r1, r2, r3}
    None = None
SYMMETRY Symmetry
INVARIANTS
    SingleActive
    ArtefactsStored
PROPERTIES
    ProductionServed
