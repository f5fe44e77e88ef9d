SPECIFICATION CacheSpec
CONSTANTS
    Proc = {p1, p2, p3}
    Digests = {d1, d2}
    MaxDamage = 2
    NoDir = NoDir
    Absent = Absent
    Damaged = Damaged
    Nobody = Nobody
CHECK_DEADLOCK FALSE
SYMMETRY CacheSymmetry
INVARIANTS
    HitWasPublished
    SynthesizerIsAlone
    NoCacheEvidenceLost
PROPERTIES
    ImplementsCacheStore
