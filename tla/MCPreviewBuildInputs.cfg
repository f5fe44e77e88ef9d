SPECIFICATION BuildSpec
CONSTANTS
    Scripts = {l1}
    Layouts = {y1, y2}
    Takes = {k1, k2}
    Envs = {e1, e2}
    Toolsets = {t1}
    Sources = {s1}
    NumSegments = 1
    MaxAttempt = 3
    MaxEvents = 40
    None = None
    Incomplete = Incomplete
    Proc = {p1, p2, p3}
    NoOwner = NoOwner
    Partial = Partial
CHECK_DEADLOCK FALSE
CONSTRAINT OneKillInSequence
SYMMETRY InputSymmetry
INVARIANTS
    CompletionIsSelected
PROPERTIES
    ResumeKeepsTheSelection
    ImplementsPublication
