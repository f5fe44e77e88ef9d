SPECIFICATION Spec
CONSTANTS
    LessonSegments = 3
    SourceBlocks = 7
    TakeNumbers = {0, 1}
    Wordings = {1, 3}
    MaxEdits = 0
    MaxBuilds = 1
    MaxLosses = 0
    Magnitudes = {0, 2, 4, 6, 8}
    MaxRecorded = 3
    MaxSegment = 13
    Scripts = {l1, l2}
    Layouts = {y1}
    Takes = {k1}
    Envs = {e1}
    Toolsets = {t1}
    Sources = {s1}
    NumSegments = 1
    MaxAttempt = 1
    None = None
    Pauses = {5, 8}
    Versions = {"v1", "v2"}
    PackageAttempts = {1}
    MaxChanges = 1
    Reviewers = {v1}
    Releasers = {x1, x2}
    CacheKeys = {k1, k2}
    MaxGenerations = 1
    MaxReviews = 1
CHECK_DEADLOCK FALSE
INVARIANTS
    EntryIsReadAgain
