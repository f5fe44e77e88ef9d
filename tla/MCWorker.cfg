SPECIFICATION Spec
CONSTANTS
    MaxDescendants = 1
    Distributions = {g, n}
    Governed = g
    Versions = {v1, v2}
    Commits = {c1, c2}
    Directives = {"dir"}
    NoCommit = NoCommit
    Code = {x1, x2}
    Runtimes = {"py1", "py2"}
    NoDigest = NoDigest
    ProfileNames = {"one", "two"}
    Sounds = {"a", "b"}
    MaxLines = 4
    MaxSyntheses = 2
    MaxFaults = 1
    PipeFrames = 2
    Revisions = {"r1", "r2"}
    Verified = "r1"
    Voices = {"w1"}
INVARIANTS
    CommandIsContained
    LockScannerIsTheGrammar
    GatesProveTheWorker
    BothEndsAgree
    AnswerIsOwn
    TimeoutLeavesNoWriter
PROPERTIES
    WorkerCallsReturn
CHECK_DEADLOCK FALSE
