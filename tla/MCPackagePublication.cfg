SPECIFICATION PubFairSpec
CONSTANTS
    Scripts = {l1, l2}
    Layouts = {y1}
    Takes = {k1}
    Envs = {e1}
    Toolsets = {t1}
    Sources = {s1, s2}
    NumSegments = 1
    MaxAttempt = 4
    None = None
    Proc = {p1}
    Incomplete = Incomplete
INVARIANTS
    CurrentIsPublished
    CrashNeverCorrupts
    NoStageLost
    WriteReturnsSelection
PROPERTIES
    ImplementsStore
    PublisherReturns
