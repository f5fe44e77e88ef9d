SPECIFICATION BuildSpec
CONSTANTS
    Scripts = {l1}
    Layouts = {y1}
    Takes = {k1}
    Envs = {e1}
    Toolsets = {t1}
    Sources = {s1}
    NumSegments = 1
    MaxAttempt = 2
    MaxEvents = 14
    None = None
    Incomplete = Incomplete
    Proc = {p1, p2, p3}
    NoOwner = NoOwner
    Partial = Partial
CHECK_DEADLOCK FALSE
CONSTRAINT TwoFaults
SYMMETRY ProcSymmetry
INVARIANTS
    OwnershipIsAccountedFor
    ConsistencyChecksNeverFire
    AttemptOwnsItsRecords
    LogFollowsTheJob
    CompleteReportIsEarned
PROPERTIES
    TornLogFreezesTheJob
    EvidenceIsPreserved
